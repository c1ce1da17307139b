--------------------------- MODULE WifiProvisioning ---------------------------
(***************************************************************************)
(* Wi-Fi provisioning: the state machine that accepts or rejects events      *)
(* (wifi_state.rs), the wifi task that runs the station through them, and     *)
(* the USB client that sets, clears and cancels (net.rs).                    *)
(*                                                                           *)
(* Task and client share the cooperative thread executor: a step leads from   *)
(* one await that really suspends to the next, and the task is interrupted    *)
(* only at those (Suspended).  Locks are never held across an await.  The     *)
(* radio driver and the network stack are external, and modelled by what the  *)
(* task asks of them; a stop that its timeout abandons may end later.  Time   *)
(* is in ticks.  The transition sequence and the published summary are        *)
(* functions of the machine and are left out; so is auto_reconnect, which     *)
(* from_memory always sets.                                                  *)
(***************************************************************************)
EXTENDS Naturals

CONSTANTS
    SavingTimeout,        \* SAVING_TIMEOUT_MS
    ProvisioningTimeout,  \* PROVISIONING_TIMEOUT_MS
    TransitionTimeout,    \* WIFI_DRIVER_TRANSITION_TIMEOUT_SECS
    AssociationTimeout,   \* WIFI_ASSOCIATION_TIMEOUT_SECS
    Ipv4Timeout,
    RetryDelay,
    MaxAttempts,          \* MAX_PROVISIONING_ATTEMPTS
    DriverFaults,         \* whether the driver may refuse to stop or to disconnect
    MaxSets,              \* bound on set and clear requests, the boot's included
    MaxCancels            \* bound on cancel requests

ASSUME WifiAssumption ==
    /\ SavingTimeout \in Nat /\ ProvisioningTimeout \in Nat
    /\ TransitionTimeout \in Nat \ {0} /\ AssociationTimeout \in Nat \ {0}
    /\ Ipv4Timeout \in Nat \ {0} /\ RetryDelay \in Nat \ {0}
    /\ MaxAttempts \in Nat \ {0}
    /\ DriverFaults \in BOOLEAN
    /\ MaxSets \in Nat \ {0} /\ MaxCancels \in Nat

VARIABLES
    m,        \* WIFI_PROVISIONING: [state, failure, attempts, timed, elapsed, generation]
    conf,     \* WIFI_CONFIG: [version, configured, enabled, static]
    sig,      \* WIFI_APPLY_SIGNAL
    cancelId, \* WIFI_CANCEL_REQUEST_ID, 0 for none
    ack,      \* WIFI_CANCEL_ACK, 0 for none
    nextId,   \* WIFI_CANCEL_NEXT_REQUEST_ID
    client,   \* the USB client: [pc, id, waited]
    task,     \* the wifi task: [pc, conf, retry, waited]
    sta,      \* the station: [started, creds, joining, link, lease, stop]
    radio     \* publish_wifi_hardware_state: "unknown", "on" or "off"

vars == <<m, conf, sig, cancelId, ack, nextId, client, task, sta, radio>>

States == {"Disabled", "Idle", "Saving", "Connecting", "Connected", "Error"}
FailureCodes == {"none", "ConfigurationFailed", "AssociationRejected", "AssociationTimedOut",
                 "Ipv4TimedOut", "DisconnectTimedOut"}
Configs == [version : 1..MaxSets, configured : BOOLEAN, enabled : BOOLEAN, static : BOOLEAN]

-----------------------------------------------------------------------------
(* WifiProvisioningMachine, as functions of a machine mm.                    *)

Failures == {"DriverConfigurationFailed", "AssociationFailed", "AssociationTimedOut",
             "Ipv4TimedOut"}

\* expired_event: an overdue machine takes any event for its timeout.
ExpiredEvent(mm, e) ==
    IF mm.timed /\ mm.state = "Saving" /\ mm.elapsed > SavingTimeout
      THEN "DisconnectTimedOut"
    ELSE IF mm.timed /\ mm.state = "Connecting" /\ mm.elapsed > ProvisioningTimeout
      THEN "ProvisioningTimedOut"
    ELSE e

\* Fault: a terminal failure is no longer terminal for the driver's events.
AcceptsAfterError(mm, e) ==
    CASE e \in {"ApplyConfig", "ClearConfig"} -> TRUE
      [] e = "CancelProvisioning" -> mm.state \notin {"Disabled", "Idle"}
      [] e \in {"DisconnectCompleted", "DisconnectTimedOut"} -> mm.state = "Saving"
      [] e = "StationDisconnected" -> mm.state = "Connected"
      [] OTHER -> mm.state \in {"Connecting", "Error"}

Accepts(mm, e) ==
    CASE e \in {"ApplyConfig", "ClearConfig"} -> TRUE
      [] e = "CancelProvisioning" -> mm.state \notin {"Disabled", "Idle"}
      [] e \in {"DisconnectCompleted", "DisconnectTimedOut"} -> mm.state = "Saving"
      [] e = "StationDisconnected" -> mm.state = "Connected"
      [] OTHER -> mm.state = "Connecting"

Restarted(mm, state, timed) ==
    [state |-> state, failure |-> "none", attempts |-> 0, timed |-> timed, elapsed |-> 0,
     generation |-> mm.generation]

Became(mm, state, failure) == [mm EXCEPT !.state = state, !.failure = failure]

\* The failure code that a failed attempt ends in; timeouts keep their names.
FailureCode(e) ==
    CASE e = "DriverConfigurationFailed" -> "ConfigurationFailed"
      [] e = "AssociationFailed"         -> "AssociationRejected"
      [] OTHER                           -> e

\* retry_or_terminal.
RetryOrTerminal(mm, failure) ==
    LET counted == [mm EXCEPT !.attempts = @ + 1]
    IN  IF mm.attempts + 1 < MaxAttempts THEN Became(counted, "Connecting", "none")
                                         ELSE Became(counted, "Error", failure)

\* apply_at for an event that is accepted.
Transition(mm, e) ==
    CASE e = "ApplyConfig" -> [Restarted(mm, "Saving", TRUE) EXCEPT !.generation = @ + 1]
      [] e = "ClearConfig" -> [Restarted(mm, "Disabled", FALSE) EXCEPT !.generation = @ + 1]
      [] e = "CancelProvisioning"  -> Restarted(mm, "Idle", FALSE)
      [] e = "StationDisconnected" -> Restarted(mm, "Connecting", TRUE)
      [] e \in {"DisconnectCompleted", "DriverConfigured", "AssociationSucceeded",
                "RetryDelayElapsed"} -> Became(mm, "Connecting", "none")
      [] e \in Failures -> RetryOrTerminal(mm, FailureCode(e))
      [] e = "Ipv4Configured" ->
            [Became(mm, "Connected", "none") EXCEPT !.timed = FALSE, !.elapsed = 0]
      [] e = "DisconnectTimedOut" -> Became(mm, "Error", "DisconnectTimedOut")
      [] e = "ProvisioningTimedOut" -> Became(mm, "Error", "Ipv4TimedOut")

Accepted(mm, e) == Accepts(mm, ExpiredEvent(mm, e))
Feed(mm, e) == IF Accepted(mm, e) THEN Transition(mm, ExpiredEvent(mm, e)) ELSE mm

-----------------------------------------------------------------------------
\* stop is "pending" while a stop that was given up may still end, "late" once it has.
Off  == [started |-> FALSE, creds |-> 0, joining |-> 0, link |-> 0, lease |-> "none",
         stop |-> "none"]
Boot == [state |-> "Disabled", failure |-> "none", attempts |-> 0, timed |-> FALSE,
         elapsed |-> 0, generation |-> 0]

\* spawn: the configuration restored from the EEPROM, its event already applied,
\* no signal pending.
Init ==
    /\ conf \in {c \in Configs : c.version = 1 /\ c.enabled /\ (c.static => c.configured)}
    /\ m = Feed(Boot, IF conf.configured THEN "ApplyConfig" ELSE "ClearConfig")
    /\ sig = FALSE
    /\ cancelId = 0 /\ ack = 0 /\ nextId = 1
    /\ client = [pc |-> "ready", id |-> 0, waited |-> 0]
    /\ task = [pc |-> "top", conf |-> conf, retry |-> FALSE, waited |-> 0]
    /\ sta = Off
    /\ radio = "unknown"

\* The awaits of the wifi task; elsewhere, and where a station that was never
\* started is to be stopped, it runs on without giving way.
Awaits == {"park", "stop", "disableDisconnect", "disableStop", "bus", "start", "associate",
           "ipv4", "ipv4Disconnect", "watch", "reconnectDelay", "leave", "retryDelay"}
Stops == {"stop", "disableDisconnect", "disableStop"}
Suspended == task.pc \in Awaits /\ (task.pc \in Stops => sta.started)

\* The longest stay at an await; the I2C bus is given within the tick.
TimeLimit(pc) ==
    CASE pc \in {"stop", "disableDisconnect", "disableStop", "start", "ipv4Disconnect"}
                                                -> TransitionTimeout
      [] pc = "associate"                       -> AssociationTimeout
      [] pc = "ipv4"                            -> Ipv4Timeout
      [] pc \in {"reconnectDelay", "retryDelay"} -> RetryDelay
      [] pc = "leave"                           -> SavingTimeout
      [] OTHER                                  -> 0
-----------------------------------------------------------------------------
(* The station and the network stack, as the wifi task uses them.            *)

\* is_config_up: an address, on a link that is up.
ConfigUp == sta.link # 0 /\ sta.lease # "none"

\* The link goes down; an address that was leased goes with it.
LinkDown == [sta EXCEPT !.joining = 0, !.link = 0,
                        !.lease = IF @ = "dhcp" THEN "none" ELSE @]

\* disconnect_async under its timeout, done when it returned, even with an error.
\* It may wait in vain for an event when there is no link to lose.
Disconnect(done) ==
    \/ done  /\ (sta' = LinkDown \/ (DriverFaults /\ sta' = sta))
    \/ ~done /\ sta' = sta /\ task.waited = TimeLimit(task.pc) /\ (sta.link = 0 \/ DriverFaults)

-----------------------------------------------------------------------------
(* The USB client.                                                           *)

ClientMayRun == Suspended /\ client.pc = "ready"

\* apply_wifi_config, for a set (configured) or a clear.
ApplyWifiConfig(configured, static) ==
    /\ ClientMayRun
    /\ conf.version < MaxSets
    /\ static => configured
    /\ conf' = [version |-> conf.version + 1, configured |-> configured, enabled |-> TRUE,
                static |-> static]
    /\ m' = Feed(m, IF configured THEN "ApplyConfig" ELSE "ClearConfig")
    /\ sig' = TRUE
    /\ UNCHANGED <<cancelId, ack, nextId, client, task, sta, radio>>

\* Fault: acknowledgements carry no identity and are not reset.
CancelWithoutIdentity ==
    /\ ClientMayRun
    /\ nextId <= MaxCancels
    /\ conf' = [conf EXCEPT !.enabled = FALSE]
    /\ cancelId' = 1
    /\ nextId' = nextId + 1
    /\ sig' = TRUE
    /\ client' = [pc |-> "cancelling", id |-> 1, waited |-> 0]
    /\ UNCHANGED <<m, ack, task, sta, radio>>

\* cancel_wifi_connection, up to its wait.
CancelBegin ==
    /\ ClientMayRun
    /\ nextId <= MaxCancels
    /\ conf' = [conf EXCEPT !.enabled = FALSE]
    /\ ack' = 0
    /\ cancelId' = nextId
    /\ nextId' = nextId + 1
    /\ sig' = TRUE
    /\ client' = [pc |-> "cancelling", id |-> nextId, waited |-> 0]
    /\ UNCHANGED <<m, task, sta, radio>>

\* An acknowledgement of its own request, or of another, which is an error.
CancelAnswered ==
    /\ Suspended /\ client.pc = "cancelling"
    /\ ack # 0
    /\ ack' = 0
    /\ client' = [pc |-> "ready", id |-> client.id, waited |-> 0]
    /\ UNCHANGED <<m, conf, sig, cancelId, nextId, task, sta, radio>>

CancelTimesOut ==
    /\ Suspended /\ client.pc = "cancelling"
    /\ client.waited = TransitionTimeout /\ ack = 0
    /\ client' = [pc |-> "ready", id |-> client.id, waited |-> 0]
    /\ UNCHANGED <<m, conf, sig, cancelId, ack, nextId, task, sta, radio>>

-----------------------------------------------------------------------------
(* The wifi task.                                                            *)

At(pc) == task.pc = pc
Goto(pc) == task' = [pc |-> pc, conf |-> task.conf, retry |-> task.retry, waited |-> 0]

\* An await of WIFI_APPLY_SIGNAL, alone or in a select whose other arm is not
\* ready: a signal that is already pending is consumed on the first poll.
GotoSelect(pc) ==
    /\ Goto(IF ~sig THEN pc ELSE IF pc = "watch" THEN "leave" ELSE "top")
    /\ sig' = FALSE

ClientSide == UNCHANGED <<conf, nextId, client>>
NoCancel == UNCHANGED <<cancelId, ack>>

\* progress_wifi_failure on machine mm, up to its own await: a rejected event
\* means that the configuration has changed, a settled failure waits for a new one.
Fail(mm, e) ==
    /\ m' = Feed(mm, e)
    /\ IF ~Accepted(mm, e)
         THEN Goto("top") /\ UNCHANGED sig
         ELSE GotoSelect(IF m'.state = "Error" THEN "park" ELSE "retryDelay")

\* Fault: a configuration that a late ClearConfig disabled is not applied again.
PrepareTrustsDisabled ==
    /\ At("top")
    /\ LET m2  == IF task.retry THEN Feed(m, "RetryDelayElapsed") ELSE m
           m3  == IF m2.state = "Saving" THEN Feed(m2, "DisconnectCompleted") ELSE m2
           run == conf.configured /\ conf.enabled
           go  == run /\ m3.state = "Connecting"
       IN  /\ m' = IF run THEN m3 ELSE m
           /\ task' = [pc |-> CASE ~conf.configured -> "stop"
                                [] go               -> "bus"
                                [] run /\ ~go       -> IF sig THEN "top" ELSE "park"
                                [] OTHER            -> "disableDisconnect",
                       conf |-> conf, retry |-> task.retry /\ ~run, waited |-> 0]
           /\ sig' = (sig /\ (go \/ ~run))
           /\ radio' = IF go \/ ~conf.configured THEN "unknown" ELSE radio
           /\ sta' = IF go THEN [sta EXCEPT !.lease = IF conf.static THEN "static" ELSE "none"]
                     ELSE sta
    /\ ClientSide /\ NoCancel

\* The head of the loop with prepare_wifi_connection, and start_wifi_driver up to
\* the wait for the I2C bus.
Prepare ==
    /\ At("top")
    /\ LET m1  == IF m.state = "Disabled" THEN Feed(m, "ApplyConfig") ELSE m
           m2  == IF task.retry THEN Feed(m1, "RetryDelayElapsed") ELSE m1
           m3  == IF m2.state = "Saving" THEN Feed(m2, "DisconnectCompleted") ELSE m2
           run == conf.configured /\ conf.enabled
           go  == run /\ m3.state = "Connecting"
       IN  /\ m' = IF run THEN m3 ELSE m
           /\ task' = [pc |-> CASE ~conf.configured -> "stop"
                                [] go               -> "bus"
                                [] run /\ ~go       -> IF sig THEN "top" ELSE "park"
                                [] OTHER            -> "disableDisconnect",
                       conf |-> conf, retry |-> task.retry /\ ~run, waited |-> 0]
           /\ sig' = (sig /\ (go \/ ~run))
           /\ radio' = IF go \/ ~conf.configured THEN "unknown" ELSE radio
           /\ sta' = IF go THEN [sta EXCEPT !.lease = IF conf.static THEN "static" ELSE "none"]
                     ELSE sta
    /\ ClientSide /\ NoCancel

\* Every WIFI_APPLY_SIGNAL.wait() that leads back to the head of the loop.
Wake ==
    /\ \/ task.pc \in {"park", "retryDelay"}
       \/ At("associate") /\ sta.link = 0
       \/ At("ipv4") /\ ~ConfigUp
    /\ sig
    /\ sig' = FALSE
    /\ Goto("top")
    /\ UNCHANGED <<m, sta, radio>> /\ ClientSide /\ NoCancel

\* stop_wifi_station, awaited where the station was started.
Stopped ==
    /\ task.pc \in {"stop", "disableStop"}
    /\ sta' = Off
    /\ radio' = "off"
    /\ GotoSelect("park")
    /\ \/ /\ At("stop")
          /\ m' = IF m.state # "Disabled" THEN Feed(m, "ClearConfig") ELSE m
          /\ NoCancel
       \/ /\ At("disableStop")
          /\ m' = IF m.state # "Idle" THEN Feed(m, "CancelProvisioning") ELSE m
          /\ cancelId' = 0
          /\ ack' = IF cancelId # 0 THEN cancelId ELSE ack
    /\ ClientSide

\* is_started, which publishes the radio when a transition has failed: it may fail.
Probe == {IF sta.started THEN "on" ELSE "off", "unknown"}

\* What a stop that failed leaves: the driver refused it, or it was given up by its
\* timeout and goes on.
Unstopped == {sta} \cup (IF sta.started THEN {[sta EXCEPT !.stop = "pending"]} ELSE {})

\* Fault: a station that would not stop counts as cancelled.
StopFailureIgnored ==
    /\ task.pc \in {"stop", "disableStop"}
    /\ DriverFaults
    /\ sta' \in Unstopped
    /\ radio' \in Probe
    /\ GotoSelect("park")
    /\ m' = IF At("disableStop") THEN Feed(m, "CancelProvisioning")
            ELSE IF m.state # "Disabled" THEN Feed(m, "ClearConfig") ELSE m
    /\ ClientSide /\ NoCancel

\* Fault: a failed stop is published as a stopped radio.
StopFailureReadsOff ==
    /\ task.pc \in {"stop", "disableStop"}
    /\ DriverFaults
    /\ sta' \in Unstopped
    /\ radio' = "off"
    /\ GotoSelect("park")
    /\ m' = IF At("disableStop") THEN Feed(m, "DisconnectTimedOut")
            ELSE IF m.state # "Disabled" THEN Feed(m, "ClearConfig") ELSE m
    /\ ClientSide /\ NoCancel

\* stop_wifi_station without success: is_started failed, the driver refused to
\* stop, or the stop was given up.  A clear goes on as if the station had stopped, a
\* cancel fails.
StopFails ==
    /\ task.pc \in {"stop", "disableStop"}
    /\ DriverFaults
    /\ sta' \in Unstopped
    /\ radio' \in Probe
    /\ GotoSelect("park")
    /\ m' = IF At("disableStop") THEN Feed(m, "DisconnectTimedOut")
            ELSE IF m.state # "Disabled" THEN Feed(m, "ClearConfig") ELSE m
    /\ ClientSide /\ NoCancel

\* The disconnect of finish_wifi_disable, whose result is ignored.
DisableDisconnected(done) ==
    /\ At("disableDisconnect")
    /\ Disconnect(done)
    /\ radio' = "unknown"
    /\ Goto("disableStop")
    /\ UNCHANGED <<m, sig>> /\ ClientSide /\ NoCancel

\* start_wifi_driver with the bus: configure the driver, start it if need be.
ConfigureDriver ==
    /\ At("bus")
    /\ sta' = [sta EXCEPT !.creds = task.conf.version]
    /\ Goto(IF sta.started THEN "driven" ELSE "start")
    /\ radio' = IF sta.started THEN "on" ELSE radio
    /\ UNCHANGED <<m, sig>> /\ ClientSide /\ NoCancel

DriverStarted ==
    /\ At("start")
    /\ sta' = [sta EXCEPT !.started = TRUE, !.stop = "none"]
    /\ radio' = "on"
    /\ Goto("driven")
    /\ UNCHANGED <<m, sig>> /\ ClientSide /\ NoCancel

\* The driver refuses the configuration, or does not start.
DriverFails ==
    /\ task.pc \in {"bus", "start"}
    /\ radio' \in Probe
    /\ Fail(m, "DriverConfigurationFailed")
    /\ UNCHANGED sta /\ ClientSide /\ NoCancel

\* DriverConfigured, then await_wifi_association up to its select: a station that
\* is still connected is taken as it is.
BeginAssociation ==
    /\ At("driven")
    /\ m' = Feed(m, "DriverConfigured")
    /\ \/ /\ sta.link # 0
          /\ Goto("linked")
          /\ UNCHANGED <<sig, sta>>
       \/ /\ sta.link = 0
          /\ sta' = [sta EXCEPT !.joining = sta.creds]
          /\ GotoSelect("associate")
    /\ UNCHANGED radio /\ ClientSide /\ NoCancel

AssociationRefused ==
    /\ At("driven")
    /\ sta.link = 0
    /\ Fail(Feed(m, "DriverConfigured"), "AssociationFailed")
    /\ UNCHANGED <<sta, radio>> /\ ClientSide /\ NoCancel

Associated ==
    /\ At("associate")
    /\ sta.link # 0
    /\ Goto("linked")
    /\ UNCHANGED <<m, sig, sta, radio>> /\ ClientSide /\ NoCancel

AssociationTimesOut ==
    /\ At("associate") /\ task.waited = AssociationTimeout /\ sta.link = 0
    /\ Fail(m, "AssociationTimedOut")
    /\ UNCHANGED <<sta, radio>> /\ ClientSide /\ NoCancel

\* AssociationSucceeded, then await_wifi_ipv4.
BeginIpv4 ==
    /\ At("linked")
    /\ m' = Feed(m, "AssociationSucceeded")
    /\ IF ConfigUp THEN Goto("addressed") /\ UNCHANGED sig ELSE GotoSelect("ipv4")
    /\ UNCHANGED <<sta, radio>> /\ ClientSide /\ NoCancel

Ipv4Arrives ==
    /\ At("ipv4") /\ ConfigUp
    /\ Goto("addressed")
    /\ UNCHANGED <<m, sig, sta, radio>> /\ ClientSide /\ NoCancel

Ipv4TimesOut ==
    /\ At("ipv4") /\ task.waited = Ipv4Timeout /\ ~ConfigUp
    /\ Goto("ipv4Disconnect")
    /\ UNCHANGED <<m, sig, sta, radio>> /\ ClientSide /\ NoCancel

Ipv4Disconnected(done) ==
    /\ At("ipv4Disconnect")
    /\ Disconnect(done)
    /\ Fail(m, "Ipv4TimedOut")
    /\ UNCHANGED radio /\ ClientSide /\ NoCancel

\* wait_wifi_disconnect, up to its select.
Connected ==
    /\ At("addressed")
    /\ m' = Feed(m, "Ipv4Configured")
    /\ IF Accepted(m, "Ipv4Configured") THEN GotoSelect("watch") ELSE Goto("top") /\ UNCHANGED sig
    /\ UNCHANGED <<sta, radio>> /\ ClientSide /\ NoCancel

\* Fault: the loss is published, and the task waits for a new configuration.
StationLostParks ==
    /\ At("watch") /\ sta.link = 0
    /\ m' = Feed(m, "StationDisconnected")
    /\ GotoSelect("park")
    /\ UNCHANGED <<sta, radio>> /\ ClientSide /\ NoCancel

\* wait_wifi_disconnect when the station loses its access point: two seconds that
\* no signal cuts short.
StationLost ==
    /\ At("watch") /\ sta.link = 0
    /\ m' = Feed(m, "StationDisconnected")
    /\ Goto("reconnectDelay")
    /\ UNCHANGED <<sig, sta, radio>> /\ ClientSide /\ NoCancel

ReconnectDelayEnds ==
    /\ At("reconnectDelay") /\ task.waited = RetryDelay
    /\ task' = [pc |-> "top", conf |-> task.conf, retry |-> TRUE, waited |-> 0]
    /\ UNCHANGED <<m, sig, sta, radio>> /\ ClientSide /\ NoCancel

LeaveBegin ==
    /\ At("watch") /\ sta.link # 0 /\ sig
    /\ sig' = FALSE
    /\ Goto("leave")
    /\ UNCHANGED <<m, sta, radio>> /\ ClientSide /\ NoCancel

\* finish_wifi_disconnect.
LeaveDisconnected(done) ==
    /\ At("leave")
    /\ Disconnect(done)
    /\ IF done THEN m' = Feed(m, "DisconnectCompleted") /\ Goto("top") /\ UNCHANGED sig
               ELSE Fail(m, "DisconnectTimedOut")
    /\ UNCHANGED radio /\ ClientSide /\ NoCancel

RetryDelayEnds ==
    /\ At("retryDelay") /\ task.waited = RetryDelay /\ ~sig
    /\ m' = Feed(m, "RetryDelayElapsed")
    /\ Goto("top")
    /\ UNCHANGED <<sig, sta, radio>> /\ ClientSide /\ NoCancel

-----------------------------------------------------------------------------
(* Radio, access point and time.                                             *)

External == UNCHANGED <<m, conf, sig, cancelId, ack, nextId, client, task, radio>>

LinkComes ==
    /\ Suspended /\ sta.joining # 0
    /\ sta' = [sta EXCEPT !.link = sta.joining, !.joining = 0]
    /\ External

LinkDrops ==
    /\ Suspended /\ sta.link # 0
    /\ sta' = LinkDown
    /\ External

LeaseArrives ==
    /\ Suspended /\ sta.link # 0 /\ sta.lease = "none"
    /\ sta' = [sta EXCEPT !.lease = "dhcp"]
    /\ External

\* A stop that was given up ends after all.
LateStop ==
    /\ Suspended /\ sta.stop = "pending"
    /\ sta' = [LinkDown EXCEPT !.started = FALSE, !.stop = "late"]
    /\ External

Timeless == {"park", "watch"}

Tick ==
    /\ Suspended
    /\ task.pc \notin Timeless => task.waited < TimeLimit(task.pc)
    /\ client.pc = "cancelling" => client.waited < TransitionTimeout
    /\ m' = IF m.timed /\ m.elapsed <= ProvisioningTimeout THEN [m EXCEPT !.elapsed = @ + 1] ELSE m
    /\ task' = IF task.pc \in Timeless THEN task ELSE [task EXCEPT !.waited = @ + 1]
    /\ client' = IF client.pc = "cancelling" THEN [client EXCEPT !.waited = @ + 1] ELSE client
    /\ UNCHANGED <<conf, sig, cancelId, ack, nextId, sta, radio>>

-----------------------------------------------------------------------------
Client == \/ \E c, s \in BOOLEAN : ApplyWifiConfig(c, s)
          \/ CancelBegin \/ CancelAnswered \/ CancelTimesOut
Task == \/ Prepare \/ Wake \/ Stopped \/ StopFails
        \/ \E d \in BOOLEAN : DisableDisconnected(d) \/ Ipv4Disconnected(d) \/ LeaveDisconnected(d)
        \/ ConfigureDriver \/ DriverStarted \/ DriverFails
        \/ BeginAssociation \/ AssociationRefused \/ Associated \/ AssociationTimesOut
        \/ BeginIpv4 \/ Ipv4Arrives \/ Ipv4TimesOut
        \/ Connected \/ StationLost \/ ReconnectDelayEnds \/ LeaveBegin \/ RetryDelayEnds
Radio == LinkComes \/ LinkDrops \/ LeaseArrives \/ LateStop
Next == Client \/ Task \/ Radio \/ Tick

Spec == Init /\ [][Next]_vars
FairSpec == Spec /\ WF_vars(Task) /\ WF_vars(Tick) /\ WF_vars(CancelAnswered \/ CancelTimesOut)

-----------------------------------------------------------------------------
(* Properties.                                                               *)

Parked == task.pc = "park" /\ ~sig

\* Type invariant of the machine, the signals, the task and the station.
TypeOK ==
    /\ m \in [state : States, failure : FailureCodes, attempts : 0..MaxAttempts, timed : BOOLEAN,
              elapsed : 0..(ProvisioningTimeout + 1), generation : Nat]
    /\ conf \in Configs
    /\ sig \in BOOLEAN
    /\ cancelId \in Nat /\ ack \in Nat /\ nextId \in Nat \ {0}
    /\ client \in [pc : {"ready", "cancelling"}, id : Nat, waited : 0..TransitionTimeout]
    /\ task \in [pc : Awaits \cup {"top", "driven", "linked", "addressed"}, conf : Configs,
                 retry : BOOLEAN, waited : Nat]
    /\ sta \in [started : BOOLEAN, creds : 0..MaxSets, joining : 0..MaxSets, link : 0..MaxSets,
                lease : {"none", "dhcp", "static"}, stop : {"none", "pending", "late"}]
    /\ radio \in {"unknown", "on", "off"}

\* "idle" is published only once the station has really stopped: a set, a clear
\* or a failed stop at any await of finish_wifi_disable never leaves the machine
\* idle over a running station.
IdleMeansStopped == m.state = "Idle" => ~sta.started

\* The acknowledgement a cancel takes for its own means that the station is
\* stopped and no attempt is pending: neither the late acknowledgement of a cancel
\* that timed out nor a set in between can answer a later cancel.
AckMeansStopped ==
    client.pc = "cancelling" /\ ack = client.id =>
        ~sta.started /\ m.state \notin {"Saving", "Connecting", "Connected"}

\* What publish_wifi_hardware_state says of the radio: "off" is never wrong, and
\* "on" is wrong only after a stop that was published as failed, with the station
\* still started, has ended after all, until the next publication.
RadioIsKnown ==
    /\ radio = "off" => ~sta.started
    /\ radio = "on" => sta.started \/ sta.stop = "late"

\* A published error is only replaced by a newer configuration (or by a cancel):
\* association, address and retry events that come late do not revive it.
ErrorIsSettled ==
    [][m.state = "Error" /\ m'.state \notin {"Error", "Idle"} => m'.generation > m.generation]_vars

\* Before the first cancel no set goes untried without a report: the task waits for
\* the next request only over a configuration that it took up and that has failed,
\* or was connected, or after a timeout, the only report under which an overdue
\* machine, or a disconnect that does not end, swallows a set.
UncancelledSetIsTried ==
    nextId = 1 /\ Parked /\ conf.configured =>
        /\ m.state \in {"Connected", "Error"}
        /\ task.conf = conf \/ m.failure \in {"DisconnectTimedOut", "Ipv4TimedOut"}

\* Every provisioning attempt settles, whatever the access point does, as long as
\* the driver obeys.
PendingSettles == m.state \in {"Saving", "Connecting"} ~> m.state \notin {"Saving", "Connecting"}
=============================================================================
