-------------------------- MODULE MCPowerCoordinator --------------------------
EXTENDS PowerCoordinator

Ask(k, o) == [kind |-> k, owner |-> o]

\* One intent of every kind, and two owners of different priority.
MCIntents == {Ask("Request", "ThermalPlantAuto"), Ask("Request", "ManualOperator"),
              Ask("Refresh", NoOwner), Ask("Idle", NoOwner)}

\* TransportFault and Detached are handled exactly as TimedOut, and the service
\* itself may reject what the sink is not asked to.
MCSinkOutcomes == {"Confirmed", "CapabilitiesRefreshed", "TimedOut"}

\* The liveness run keeps one owner: an Idle command unseats the owner's request,
\* which is all a deferral needs.
MCLiveIntents == {Ask("Request", "ManualOperator"), Ask("Refresh", NoOwner), Ask("Idle", NoOwner)}
=============================================================================
