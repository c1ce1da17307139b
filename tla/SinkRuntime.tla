----------------------------- MODULE SinkRuntime -----------------------------
(***************************************************************************)
(* The FUSB302B sink under the PD service: SinkPolicy (adapters/fusb302b.rs),*)
(* Fusb302bRuntime (adc.rs, pd_protocol.rs) and the part of a PD turn that   *)
(* works on one operation, settles it and publishes the heater permit        *)
(* (pd_service.rs).  The source at the other end of the cable is external:   *)
(* it answers, refuses, stays silent, resets, drops VBUS, changes its offer  *)
(* or repeats a message as it likes.                                         *)
(*                                                                           *)
(* A turn is work, up to RxBurst received events, deadlines and publication; *)
(* the source may act between any two of these.  A contract is a number:     *)
(* Fixed is the standby contract, the numbers above it are the PPS voltages  *)
(* in steps of PPS_TO_FIXED_STEP_MV.  Of a timestamp only its age matters:   *)
(* not set, younger, or older than the limit it is compared with.            *)
(***************************************************************************)
EXTENDS Naturals, Sequences, FiniteSets

CONSTANTS
    Top,         \* the highest PPS contract
    Offers,      \* the sets of contracts the source may advertise
    RxBurst,     \* FUSB302B_RX_BURST_LIMIT (3)
    FifoSize,    \* messages the receive FIFO of the PHY holds
    Ops,         \* the operations the coordinator may hand over
    MaxOps,      \* bound on the operations taken from the coordinator
    MaxFaults    \* bound on what goes wrong: refusals, resets, losses, errors

None  == 0
Fixed == 1
Contracts == Fixed..Top
IsPps(c) == c > Fixed

\* `steady` marks the owners (calibration, thermal plant) whose PPS adjustments
\* may keep the heater on.
AllOps == [kind : {"Contract"}, want : Contracts, steady : BOOLEAN]
            \cup [kind : {"Idle", "Refresh"}, want : {None}, steady : {FALSE}]

ASSUME SinkAssumption ==
    /\ Top \in Nat /\ Top > Fixed
    /\ Offers \subseteq {Fixed..c : c \in Contracts}
    /\ Ops \subseteq AllOps
    /\ RxBurst \in Nat \ {0} /\ FifoSize \in Nat \ {0}
    /\ MaxOps \in Nat /\ MaxFaults \in Nat

NoOp == [kind |-> "None", want |-> None, steady |-> FALSE]
Outcomes == {"None", "Confirmed", "CapabilitiesRefreshed", "Rejected", "TimedOut",
             "TransportFault", "Detached", "Superseded"}

Negotiating == {"WaitingForAccept", "WaitingForPsRdy"}
Phases == Negotiating \cup {"WaitingForSourceCapabilities", "Ready", "Fault"}
Timers == {"req", "keep", "query", "refresh", "step", "backoff", "low", "restore"}
Ages == {"none", "new", "old"}
NoId == 8              \* no Source message id is known
Messages == [type : {"Accept", "PsRdy", "Reject"}, offer : {{}}, new : BOOLEAN]
              \cup [type : {"Caps"}, offer : Offers, new : BOOLEAN]

VARIABLES
    sink,     \* SinkPolicy and Fusb302bRuntime
    op,       \* the pending operation of the PD service
    step,     \* where the turn is
    burst,    \* messages received in this turn
    done,     \* terminal_override: what the work of this turn settled
    permit,   \* PD_HEATER_PERMIT
    prev,     \* PD_SERVICE_SNAPSHOT holds an active contract
    source,   \* external: the source
    fifo,     \* external: receive FIFO of the PHY
    reset,    \* external: an unread reset interrupt
    unacked,  \* external: RETRY_FAIL, the last transmission got no GoodCRC
    ops, faults,
    void,     \* history: the source ended the session; has the sink read of it?
    capsRead  \* history: capabilities were taken since the operation began

phyVars == <<source, fifo, reset, unacked>>
turnVars == <<op, done, permit, prev>>
vars == <<sink, step, burst, turnVars, phyVars, ops, faults, void, capsRead>>

Init ==
    /\ sink = [phase |-> "WaitingForSourceCapabilities", active |-> None, pending |-> None,
               caps |-> {}, idle |-> TRUE, explicit |-> None, gap |-> NoId,
               refreshing |-> FALSE, refreshFor |-> FALSE,
               rejected |-> FALSE, timedOut |-> FALSE, deaf |-> FALSE, ramp |-> FALSE,
               low |-> FALSE, awaiting |-> FALSE, attached |-> FALSE, vbusSeen |-> FALSE,
               age |-> [t \in Timers |-> "none"]]
    /\ op = NoOp /\ step = "rest" /\ burst = 0 /\ done = "None"
    /\ permit = FALSE /\ prev = FALSE
    /\ source \in [doing : {"caps"}, asked : {None}, offer : Offers, vbus : {TRUE}]
    /\ fifo = <<>> /\ reset = FALSE /\ unacked = FALSE
    /\ ops = 0 /\ faults = 0 /\ void = "no" /\ capsRead = FALSE

-----------------------------------------------------------------------------
(* SinkPolicy                                                                *)

\* cancel_pending_request
CancelPending(s) ==
    [s EXCEPT !.pending = None,
              !.phase = IF s.active = None THEN "WaitingForSourceCapabilities" ELSE "Ready"]

\* on_received_protocol_reset
ProtocolReset(s) ==
    [s EXCEPT !.pending = None, !.active = None, !.explicit = None, !.caps = {},
              !.gap = NoId, !.phase = "WaitingForSourceCapabilities"]

\* select_fusb302b_contract for the start-up voltage: PPS before Fixed.
DefaultContract(caps) == IF Fixed + 1 \in caps THEN Fixed + 1 ELSE Fixed

\* Fault: the descent of an idle sink is forgotten on a capabilities exchange.
SelectContractAtOnce(s) ==
    IF s.idle THEN Fixed
    ELSE IF s.explicit # None THEN s.explicit ELSE DefaultContract(s.caps)

\* What begin_request selects; None when the source does not offer it.  The step
\* below the lowest PPS voltage is the Fixed standby contract.
SelectContract(s) ==
    IF s.idle THEN IF IsPps(s.active) /\ s.active \in s.caps THEN s.active - 1 ELSE Fixed
    ELSE IF s.explicit # None THEN s.explicit ELSE DefaultContract(s.caps)

\* begin_request
BeginRequest(s) ==
    IF SelectContract(s) \in s.caps
    THEN [s EXCEPT !.pending = SelectContract(s), !.phase = "WaitingForAccept"]
    ELSE s

\* observe_source_message_id: `gap` counts, modulo 8, the Source messages since
\* the last one that was taken in sequence.
GapAfter(s, m) == IF s.gap = NoId THEN NoId ELSE (s.gap + IF m.new THEN 1 ELSE 0) % 8

Fresh(s, m) == GapAfter(s, m) \in {NoId} \cup 1..3

\* refresh_source_capabilities_with_message_id when a ready contract is to be
\* kept, on_source_capabilities_with_message_id otherwise.
TakeCapabilities(s, offer) ==
    LET t == [s EXCEPT !.caps = offer, !.gap = 0]
    IN  IF s.phase = "Ready" /\ ~s.refreshFor
        THEN IF s.active \in offer THEN [t EXCEPT !.pending = None]
             ELSE BeginRequest([t EXCEPT !.active = None, !.pending = None,
                                         !.phase = "WaitingForSourceCapabilities"])
        ELSE BeginRequest(t)

\* on_control_message_with_message_id
TakeControl(s, type) ==
    CASE type = "Reject" -> CancelPending(s)
      [] type = "Accept" /\ s.phase = "WaitingForAccept" -> [s EXCEPT !.phase = "WaitingForPsRdy"]
      [] type = "PsRdy" /\ s.phase = "WaitingForPsRdy" ->
            [s EXCEPT !.active = s.pending, !.pending = None, !.phase = "Ready"]
      [] OTHER -> s

\* prepare_contract_refresh, request_contract
WithRequest(s, c) == [s EXCEPT !.explicit = c, !.idle = FALSE]
\* prepare_automatic_idle_refresh, request_automatic_idle_*
WithIdle(s) == [s EXCEPT !.explicit = None, !.idle = TRUE]

-----------------------------------------------------------------------------
(* Fusb302bRuntime: what recovery leaves                                     *)

NoRefresh(s) == [s EXCEPT !.refreshing = FALSE, !.refreshFor = FALSE, !.age["refresh"] = "none"]

\* clear_vbus_low_interlock
ClearLow(s) == [s EXCEPT !.low = FALSE, !.age["low"] = "none"]

\* clear_contract_authorization
ClearAuthorization(s) ==
    [NoRefresh(ProtocolReset(s)) EXCEPT
        !.age = [@ EXCEPT !["query"] = "new", !["req"] = "none", !["keep"] = "none", !["step"] = "none"],
        !.deaf = FALSE, !.ramp = FALSE, !.vbusSeen = FALSE]

\* recover_transient_transport_fault; the FIFO is flushed with it.
TransportFault(s, retryFailed) ==
    ClearLow([NoRefresh(ProtocolReset(s)) EXCEPT
        !.age = [@ EXCEPT !["query"] = "new", !["req"] = "none", !["keep"] = "none", !["backoff"] = "new"],
        !.deaf = retryFailed])

\* recover_after_received_reset
ReceivedReset(s) ==
    ClearLow([NoRefresh(ProtocolReset(s)) EXCEPT
        !.age = [@ EXCEPT !["query"] = "new", !["req"] = "none", !["keep"] = "none", !["step"] = "none"],
        !.deaf = FALSE, !.ramp = FALSE])

-----------------------------------------------------------------------------
(* The line.  A transmission reaches the source, is lost without a GoodCRC,  *)
(* or fails on the I2C bus.                                                  *)

Reachable == source.vbus /\ sink.attached
MayFault == faults < MaxFaults

\* External: the source takes a message when it expects one, and resets when a
\* request or a query falls into an exchange it has not finished.
Arrives(type, c) ==
    IF source.doing = "rest" \/ (type = "caps" /\ source.doing = "caps")
    THEN /\ source' = [source EXCEPT !.doing = type, !.asked = c]
         /\ UNCHANGED <<reset, void>>
    ELSE /\ source' = [source EXCEPT !.doing = "caps", !.asked = None]
         /\ reset' = TRUE /\ void' = "unread"

\* transmit: ok says whether the I2C transfer succeeded; the caller's states are
\* `sent` for success and `failed` for an error.
Transmit(type, c, sent, failed, ok) ==
    \/ /\ ok /\ Reachable
       /\ Arrives(type, c)
       /\ sink' = sent /\ unacked' = FALSE
       /\ UNCHANGED faults
    \/ /\ ok /\ (~Reachable \/ MayFault)
       /\ faults' = IF Reachable THEN faults + 1 ELSE faults
       /\ sink' = sent /\ unacked' = TRUE
       /\ UNCHANGED <<source, reset, void>>
    \/ /\ ~ok /\ MayFault
       /\ faults' = faults + 1
       /\ sink' = failed
       /\ UNCHANGED <<source, reset, void, unacked>>

NoTransmit(s) == sink' = s /\ UNCHANGED <<source, reset, unacked, faults, void>>

\* The ids of flushed messages are never observed.
Flushed(s) ==
    [s EXCEPT !.gap = IF @ = NoId THEN NoId
                      ELSE (@ + Cardinality({i \in DOMAIN fifo : fifo[i].new})) % 8]

-----------------------------------------------------------------------------
(* Work: request_contract, refresh_source_capabilities and                   *)
(* request_automatic_idle_contract.  Each leaves the operation pending or    *)
(* settles it as rejected.                                                   *)

Keeps(o)   == op' = o /\ done' = "None"
Refuses    == op' = NoOp /\ done' = "Rejected"
Settles(o, ok) == IF ok THEN Keeps(o) ELSE Refuses

Fresher(s) == [s EXCEPT !.age["keep"] = "none", !.rejected = FALSE, !.timedOut = FALSE]

\* refresh_source_capabilities
Refresh(s0, replace, for, o) ==
    LET s == IF replace THEN Flushed(NoRefresh(Fresher(s0))) ELSE Fresher(s0)
    IN  /\ fifo' = IF replace THEN <<>> ELSE fifo
        /\ \/ /\ s.refreshing
              /\ NoTransmit(s) /\ Keeps(o)
           \/ /\ ~s.refreshing /\ s.phase = "Fault"
              /\ NoTransmit(s) /\ Refuses
           \/ /\ ~s.refreshing /\ s.phase # "Fault"
              /\ \E ok \in BOOLEAN :
                    /\ Transmit("caps", None,
                                [s EXCEPT !.refreshing = TRUE, !.refreshFor = for,
                                          !.age = [@ EXCEPT !["refresh"] = "new", !["query"] = "new"]],
                                TransportFault(s, FALSE), ok)
                    /\ Settles(o, ok)

\* Transmit the request of s and wait for its answer.
Request(s, o) ==
    /\ UNCHANGED fifo
    /\ \E ok \in BOOLEAN :
          /\ Transmit("request", s.pending, [s EXCEPT !.age["req"] = "new"],
                      TransportFault(s, FALSE), ok)
          /\ Settles(o, ok)

Stays(s, o) == UNCHANGED fifo /\ NoTransmit(s) /\ Keeps(o)

\* request_contract
RequestContract(o, replace) ==
    LET c == o.want
        s == [Fresher(sink) EXCEPT !.ramp = FALSE, !.age["step"] = "none"]
    IN  \/ /\ replace \/ (s.phase \in Negotiating /\ ~(c \in s.caps /\ s.pending = c))
           /\ Refresh(WithRequest(CancelPending(s), c), TRUE, TRUE, o)
        \/ /\ ~replace /\ s.phase \in Negotiating /\ c \in s.caps /\ s.pending = c
           /\ Stays(s, o)
        \/ /\ ~replace /\ s.phase \notin Negotiating
           /\ \/ /\ s.active = c /\ c \in s.caps
                 /\ Stays(s, o)
              \/ /\ s.active # c \/ c \notin s.caps
                 /\ \/ /\ s.active = Fixed /\ IsPps(c)
                       /\ Refresh(WithRequest(s, c), FALSE, TRUE, o)
                    \/ /\ ~(s.active = Fixed /\ IsPps(c)) /\ c \notin s.caps
                       /\ UNCHANGED fifo /\ NoTransmit(s) /\ Refuses
                    \/ /\ ~(s.active = Fixed /\ IsPps(c)) /\ c \in s.caps
                       /\ Request([WithRequest(s, c) EXCEPT !.pending = c,
                                                            !.phase = "WaitingForAccept"], o)

\* pending_automatic_idle_contract_matches: the descent or the final request of
\* an earlier Idle is under way.
IdleUnderWay(s) ==
    /\ s.caps # {} /\ s.idle
    /\ \/ s.phase = "Ready" /\ s.active > Fixed + 1 /\ s.active \in s.caps
       \/ s.pending = Fixed
       \/ IsPps(s.pending) /\ s.pending \in s.caps /\ s.pending < s.active

\* request_automatic_idle_contract
RequestIdle(o, replace) ==
    LET f == Fresher(sink)
        reuse == f.phase = "Ready" /\ IsPps(f.active) /\ f.active \in f.caps
        s == [IF replace \/ f.phase \in Negotiating THEN CancelPending(f) ELSE f EXCEPT
                  !.ramp = IsPps(f.active), !.age["step"] = "none"]
    IN  \/ /\ IdleUnderWay(sink)
           /\ Stays(sink, o)
        \/ /\ ~IdleUnderWay(sink) /\ replace /\ ~reuse
           /\ Refresh(WithIdle(s), TRUE, TRUE, o)
        \/ /\ ~IdleUnderWay(sink) /\ (replace => reuse)
           /\ \/ /\ s.caps = {} \/ (IsPps(s.active) /\ s.active \notin s.caps)
                 /\ UNCHANGED fifo /\ Refuses
                 /\ NoTransmit(IF s.caps # {} THEN s
                               ELSE [s EXCEPT !.ramp = f.ramp, !.age["step"] = f.age["step"]])
              \/ /\ s.caps # {} /\ s.active = Fixed
                 /\ Stays(s, o)
              \/ /\ s.caps # {} /\ s.active # Fixed /\ (IsPps(s.active) => s.active \in s.caps)
                 /\ Request([BeginRequest(WithIdle(s)) EXCEPT
                                !.age["step"] = IF s.active > Fixed + 1 THEN "new" ELSE "none"], o)

\* advance_automatic_idle_transition: the next step of the descent.  After an
\* I2C error the operation is refused and nothing is recovered.
AdvanceIdle ==
    /\ op.kind = "Idle"
    /\ \/ /\ ~sink.ramp \/ sink.phase # "Ready"
          /\ Stays(sink, op)
       \/ /\ sink.ramp /\ sink.phase = "Ready" /\ sink.active = Fixed
          /\ Stays([sink EXCEPT !.ramp = FALSE, !.age["step"] = "none"], op)
       \/ /\ sink.ramp /\ sink.phase = "Ready" /\ IsPps(sink.active)
          /\ \/ /\ sink.age["step"] = "new"
                /\ Stays(sink, op)
             \/ /\ sink.age["step"] # "new" /\ sink.active \notin sink.caps
                /\ UNCHANGED fifo /\ NoTransmit(sink) /\ Refuses
             \/ /\ sink.age["step"] # "new" /\ sink.active \in sink.caps
                /\ UNCHANGED fifo
                /\ LET s == BeginRequest(WithIdle(sink))
                   IN  \E ok \in BOOLEAN :
                          /\ Transmit("request", s.pending,
                                      [s EXCEPT !.age = [@ EXCEPT !["req"] = "new", !["step"] = "new"]],
                                      s, ok)
                          /\ Settles(op, ok)

\* retry_deferred_contract_request
RetryContract ==
    /\ op.kind = "Contract"
    /\ \/ /\ sink.phase # "Ready" \/ sink.refreshing \/ (sink.active = op.want /\ op.want \in sink.caps)
          /\ Stays(sink, op)
       \/ /\ sink.phase = "Ready" /\ ~sink.refreshing /\ (sink.active # op.want \/ op.want \notin sink.caps)
          /\ \/ /\ IsPps(op.want) /\ sink.caps # {} /\ op.want \notin sink.caps
                /\ UNCHANGED fifo /\ NoTransmit(sink) /\ Refuses
             \/ /\ ~(IsPps(op.want) /\ sink.caps # {} /\ op.want \notin sink.caps)
                /\ RequestContract(op, FALSE)

BeginTurn ==
    /\ step = "rest" /\ step' = "poll" /\ burst' = 0
    /\ UNCHANGED <<permit, prev>>

\* process_pd_command
TakeOperation(o) ==
    /\ BeginTurn /\ ops < MaxOps
    /\ ops' = ops + 1 /\ capsRead' = FALSE
    /\ \/ o.kind = "Contract" /\ RequestContract(o, op # NoOp)
       \/ o.kind = "Idle" /\ RequestIdle(o, op # NoOp)
       \/ o.kind = "Refresh" /\ Refresh(sink, op # NoOp, FALSE, o)

\* abort_pending_operation, for a cancelled ticket or a flash-preparation hold
Abort ==
    /\ BeginTurn /\ op # NoOp
    /\ NoTransmit([Flushed(NoRefresh(Fresher(CancelPending(sink)))) EXCEPT
                      !.ramp = FALSE, !.age["step"] = "none"])
    /\ fifo' = <<>>
    /\ op' = NoOp /\ done' = "Superseded"
    /\ UNCHANGED <<ops, capsRead>>

\* process_pd_service_work without a command
Continue ==
    /\ BeginTurn
    /\ UNCHANGED <<ops, capsRead>>
    /\ \/ AdvanceIdle
       \/ RetryContract
       \/ op.kind \in {"None", "Refresh"} /\ Stays(sink, op)

-----------------------------------------------------------------------------
(* poll                                                                      *)

Polling(next) ==
    /\ step = "poll" /\ step' = next
    /\ UNCHANGED <<turnVars, ops>>
PollEnds(next) == Polling(next) /\ UNCHANGED <<burst, capsRead>>

Entry == [sink EXCEPT !.vbusSeen = IF burst = 0 THEN FALSE ELSE @, !.age["backoff"] = "none"]
\* The gates before a receive event are passed.
Receiving == /\ sink.age["backoff"] # "new" /\ sink.phase # "Fault"
             /\ sink.attached /\ ~sink.awaiting

\* Early returns: transport back-off, a faulted policy, no CC attachment yet.
PollSkips ==
    /\ PollEnds("publish") /\ UNCHANGED fifo
    /\ \/ sink.age["backoff"] = "new" /\ NoTransmit([sink EXCEPT !.vbusSeen = FALSE])
       \/ /\ sink.age["backoff"] # "new"
          /\ sink.phase = "Fault" \/ (~sink.awaiting /\ ~sink.attached)
          /\ NoTransmit(Entry)

\* poll_attachment: CC has settled.
PollAttaches ==
    /\ Polling("poll") /\ UNCHANGED <<burst, capsRead>>
    /\ sink.age["backoff"] # "new" /\ sink.phase # "Fault" /\ ~sink.awaiting /\ ~sink.attached
    /\ NoTransmit([Entry EXCEPT !.attached = TRUE, !.age["query"] = "new"])
    /\ fifo' = <<>>

\* poll_vbus_restore
PollRestores ==
    /\ PollEnds("publish")
    /\ sink.age["backoff"] # "new" /\ sink.phase # "Fault" /\ sink.awaiting
    /\ \/ /\ ~source.vbus
          /\ NoTransmit([Entry EXCEPT !.age["restore"] = "none"]) /\ UNCHANGED fifo
       \/ /\ source.vbus /\ sink.age["restore"] # "old"
          /\ NoTransmit([Entry EXCEPT !.age["restore"] = "new"]) /\ UNCHANGED fifo
       \/ /\ source.vbus /\ sink.age["restore"] = "old"
          /\ NoTransmit(ClearLow([Entry EXCEPT !.awaiting = FALSE, !.age["restore"] = "none"]))
          /\ fifo' = <<>>

Event(seen) == [Entry EXCEPT !.vbusSeen = seen]

\* handle_vbus_low_event: authorization goes at once; VBUS that stays low after
\* its transition was reported is waited for.
VbusLow ==
    /\ PollEnds("late") /\ Receiving /\ ~source.vbus
    /\ LET e == Event(FALSE)
           s == IF e.low THEN e
                ELSE [ClearAuthorization(e) EXCEPT !.low = TRUE, !.age["low"] = "new"]
       IN  sink' = IF s.age["low"] = "old" THEN [s EXCEPT !.awaiting = TRUE, !.age["restore"] = "none"] ELSE s
    /\ void' = "read" /\ reset' = FALSE
    /\ UNCHANGED <<source, fifo, unacked, faults>>

\* handle_received_reset; the Accept of a soft reset is not followed further.
ReadsReset ==
    /\ PollEnds("late") /\ Receiving /\ source.vbus /\ reset
    /\ sink' = ReceivedReset(Event(TRUE))
    /\ fifo' = <<>> /\ reset' = FALSE /\ void' = "read"
    /\ UNCHANGED <<source, unacked, faults>>

\* handle_retry_failed, and a receive error of any kind.
ReadsFault ==
    /\ PollEnds("late") /\ Receiving /\ source.vbus /\ ~reset
    /\ fifo' = <<>>
    /\ \/ /\ unacked /\ ~sink.deaf
          /\ NoTransmit(TransportFault(Event(TRUE), TRUE))
       \/ /\ MayFault /\ faults' = faults + 1
          /\ sink' = TransportFault(Entry, FALSE)
          /\ UNCHANGED <<source, reset, unacked, void>>

\* handle_protection_event: mark_fault.
Protection ==
    /\ PollEnds("publish") /\ Receiving /\ source.vbus /\ ~reset /\ MayFault
    /\ faults' = faults + 1
    /\ sink' = [ClearLow(Event(TRUE)) EXCEPT !.phase = "Fault", !.active = None, !.pending = None,
                                              !.gap = NoId]
    /\ UNCHANGED <<phyVars, void>>

Quiet == Receiving /\ source.vbus /\ ~reset /\ (unacked => sink.deaf)

\* handle_empty_event: the capabilities query that is due, or the renewal of a
\* PPS contract.  Until the query that follows a RETRY_FAIL, frames are dropped.
Empty ==
    /\ PollEnds("late") /\ Quiet /\ (fifo = <<>> \/ sink.deaf)
    /\ fifo' = <<>>
    /\ LET s == ClearLow(Flushed(Event(TRUE)))
       IN  \/ /\ s.phase = "WaitingForSourceCapabilities" /\ s.age["query"] = "old"
              /\ \E ok \in BOOLEAN :
                    Transmit("caps", None, [s EXCEPT !.deaf = FALSE, !.age["query"] = "new"],
                             TransportFault(s, FALSE), ok)
           \/ /\ s.phase = "Ready" /\ IsPps(s.active) /\ s.age["req"] = "old"
              /\ \E ok \in BOOLEAN :
                    Transmit("request", s.active,
                             [s EXCEPT !.age = [@ EXCEPT !["req"] = "new", !["keep"] = "new"]],
                             TransportFault(s, FALSE), ok)
           \/ /\ ~(s.phase = "WaitingForSourceCapabilities" /\ s.age["query"] = "old")
              /\ ~(s.phase = "Ready" /\ IsPps(s.active) /\ s.age["req"] = "old")
              /\ NoTransmit(s)

TakesMessage ==
    /\ Polling(IF burst + 1 < RxBurst THEN "poll" ELSE "late") /\ burst' = burst + 1
    /\ Quiet /\ ~sink.deaf /\ fifo # <<>>
    /\ fifo' = Tail(fifo)

\* handle_source_capabilities_message
ReadsCapabilities ==
    /\ TakesMessage /\ Head(fifo).type = "Caps"
    /\ LET e == ClearLow(Event(TRUE))
           m == Head(fifo)
           s == [NoRefresh(TakeCapabilities(e, m.offer)) EXCEPT !.deaf = FALSE]
       IN  IF ~Fresh(e, m)
           THEN NoTransmit([e EXCEPT !.gap = GapAfter(e, m)]) /\ UNCHANGED capsRead
           ELSE /\ capsRead' = (op # NoOp)
                /\ \/ /\ s.phase # "WaitingForAccept" \/ SelectContract(s) \notin s.caps
                      /\ NoTransmit([s EXCEPT !.age["query"] = "new"])
                   \/ /\ s.phase = "WaitingForAccept" /\ SelectContract(s) \in s.caps
                      /\ \E ok \in BOOLEAN :
                            Transmit("request", s.pending,
                                     [s EXCEPT !.age = [@ EXCEPT !["req"] = "new", !["query"] = "old",
                                          !["step"] = IF s.ramp /\ IsPps(s.pending) THEN "new" ELSE @]],
                                     TransportFault(s, FALSE), ok)

\* handle_control_message
ReadsControl ==
    /\ TakesMessage /\ Head(fifo).type # "Caps"
    /\ LET e == ClearLow(Event(TRUE))
           m == Head(fifo)
           heard == e.phase \in Negotiating \cup {"Ready"} /\ Fresh(e, m)
           t == TakeControl([e EXCEPT !.gap = 0], m.type)
           confirmed == e.phase = "WaitingForPsRdy" /\ t.phase = "Ready" /\ m.type = "PsRdy"
       IN  IF ~heard
           THEN NoTransmit([e EXCEPT !.gap = GapAfter(e, m)])
           ELSE /\ sink' = [t EXCEPT
                      !.rejected = @ \/ (e.phase \in Negotiating /\ m.type = "Reject"),
                      !.timedOut = @ /\ ~confirmed,
                      !.age = [@ EXCEPT !["keep"] = IF e.phase = "Ready" THEN "none" ELSE @,
                                        !["query"] = IF confirmed THEN "new" ELSE @]]
                /\ void' = IF confirmed /\ void = "read" THEN "no" ELSE void
                /\ UNCHANGED <<source, reset, unacked, faults>>
    /\ UNCHANGED capsRead

-----------------------------------------------------------------------------
(* Deadlines and publication                                                 *)

\* Fault: a refresh that timed out is only taken off.
RefreshDeadlineQuiet(s) == IF s.refreshing /\ s.age["refresh"] = "old" THEN NoRefresh(s) ELSE s

\* poll_pps_transition_capability_refresh
RefreshDeadline(s) ==
    IF s.refreshing /\ s.age["refresh"] = "old"
    THEN [ClearAuthorization(s) EXCEPT !.timedOut = TRUE] ELSE s

\* Fault: the deadline covers the wait for Accept only.
RequestExpiredEarly(s) == s.phase = "WaitingForAccept" /\ s.age["req"] = "old"

RequestExpired(s) == s.phase \in Negotiating /\ s.age["req"] = "old"

\* poll_pending_request, then the refresh deadline, when poll got that far.
Deadlines ==
    LET k == IF sink.age["keep"] = "old"
             THEN [sink EXCEPT !.age = [@ EXCEPT !["keep"] = "none", !["req"] = "new"]] ELSE sink
    IN  IF step = "publish" THEN sink
        ELSE IF RequestExpired(sink)
        THEN [TransportFault(k, FALSE) EXCEPT !.timedOut = TRUE]
        ELSE RefreshDeadline(k)

\* pd_status_observation
Observed(s) ==
    /\ ~s.timedOut /\ s.vbusSeen
    /\ s.phase \in Negotiating \cup {"Ready"}
    /\ s.active # None /\ s.active \in s.caps

\* pending_terminal_outcome
Outcome(s, o, obs) ==
    CASE o = NoOp -> "None"
      [] o # NoOp /\ s.timedOut -> "TimedOut"
      [] o # NoOp /\ ~s.timedOut /\ s.rejected -> "Rejected"
      [] o # NoOp /\ ~s.timedOut /\ ~s.rejected /\ s.phase = "Fault" -> "TransportFault"
      [] OTHER ->
           CASE o.kind = "Refresh" ->
                  IF ~s.refreshing /\ s.caps # {} /\ s.phase \notin Negotiating
                  THEN "CapabilitiesRefreshed" ELSE "None"
             [] o.kind # "Refresh" /\ s.phase = "Ready" /\ obs
                  /\ s.active = (IF o.kind = "Idle" THEN Fixed ELSE o.want) -> "Confirmed"
             [] OTHER ->
                  IF IsPps(o.want) /\ s.caps # {} /\ o.want \notin s.caps THEN "Rejected"
                  ELSE IF ~obs /\ s.phase \notin Negotiating THEN "Detached" ELSE "None"

\* publish_pd_snapshot: the permit follows the observation, but a transition that
\* keeps the APDO, or a negotiation under the previous contract, keeps it too.
Healthy(s) == ~s.rejected /\ ~s.timedOut /\ ~s.low /\ s.phase # "Fault"
Continuous(s, o) ==
    /\ o.steady /\ IsPps(o.want) /\ IsPps(s.active) /\ {o.want, s.active} \subseteq s.caps
    /\ ~s.refreshing /\ Healthy(s)

\* Fault: the previous contract is kept while the sink waits for capabilities.
PreservedAnyPhase(s, obs) == permit /\ ~obs /\ prev /\ ~s.refreshing /\ Healthy(s)

Preserved(s, obs) ==
    /\ permit /\ ~obs /\ prev
    /\ s.phase \in Negotiating /\ s.caps # {} /\ ~s.refreshing /\ Healthy(s)
Publish(s, obs) ==
    /\ permit' = (obs \/ Continuous(s, op) \/ Preserved(s, obs))
    /\ prev' = (obs \/ Preserved(s, obs))

\* publish_power_report: what the turn settles.
Settled == IF done # "None" THEN done ELSE Outcome(Deadlines, op, Observed(Deadlines))

\* The end of run_pd_service_turn.
EndTurn ==
    /\ step \in {"late", "publish"} /\ step' = "rest"
    /\ sink' = Deadlines
    /\ fifo' = IF step = "late" /\ RequestExpired(sink) THEN <<>> ELSE fifo
    /\ Publish(Deadlines, Observed(Deadlines))
    /\ op' = IF Settled = "None" THEN op ELSE NoOp
    /\ capsRead' = (capsRead /\ Settled = "None")
    /\ done' = "None" /\ burst' = 0
    /\ UNCHANGED <<source, reset, unacked, ops, faults, void>>

\* publish_busy_pd_service_turn: the I2C bus is taken.
BusyTurn ==
    /\ step = "rest" /\ Publish(sink, FALSE)
    /\ UNCHANGED <<sink, step, burst, op, done, phyVars, ops, faults, void, capsRead>>

-----------------------------------------------------------------------------
(* External: time and the source                                             *)

\* Whether the sink compares the timestamp with its limit.
Watched(t) ==
    CASE t = "query" -> sink.phase = "WaitingForSourceCapabilities"
      [] t = "req"   -> sink.phase \in Negotiating \/ IsPps(sink.active)
      [] t = "step"  -> sink.ramp /\ sink.phase = "Ready"
      [] OTHER       -> TRUE

\* The limits in `due` pass.
Elapse(due) ==
    /\ step = "rest" /\ \E t \in due : sink.age[t] = "new" /\ Watched(t)
    /\ sink' = [sink EXCEPT !.age =
                   [t \in Timers |-> IF t \in due /\ @[t] = "new" /\ Watched(t) THEN "old" ELSE @[t]]]
    /\ UNCHANGED <<step, burst, turnVars, phyVars, ops, faults, void, capsRead>>

SourceStep == UNCHANGED <<sink, step, burst, turnVars, ops, unacked, capsRead>>
Says(type, offer) == /\ Len(fifo) < FifoSize
                     /\ fifo' = Append(fifo, [type |-> type, offer |-> offer, new |-> TRUE])

Answer ==
    /\ source.vbus /\ sink.attached /\ ~reset /\ SourceStep /\ UNCHANGED <<reset, faults, void>>
    /\ \/ /\ source.doing = "caps" /\ Says("Caps", source.offer)
          /\ source' = [source EXCEPT !.doing = "rest"]
       \/ /\ source.doing = "request" /\ source.asked \in source.offer /\ Says("Accept", {})
          /\ source' = [source EXCEPT !.doing = "switch"]
       \/ /\ source.doing = "request" /\ source.asked \notin source.offer /\ Says("Reject", {})
          /\ source' = [source EXCEPT !.doing = "rest", !.asked = None]
       \/ /\ source.doing = "switch" /\ Says("PsRdy", {})
          /\ source' = [source EXCEPT !.doing = "rest", !.asked = None]

Disturb ==
    /\ MayFault /\ faults' = faults + 1 /\ source.vbus /\ sink.attached /\ SourceStep
    /\ \/ /\ source.doing = "request" /\ Says("Reject", {})
          /\ source' = [source EXCEPT !.doing = "rest", !.asked = None]
          /\ UNCHANGED <<reset, void>>
       \/ /\ source.doing = "rest"
          /\ \E o \in Offers : source' = [source EXCEPT !.doing = "caps", !.offer = o]
          /\ UNCHANGED <<reset, void, fifo>>
       \/ /\ source' = [source EXCEPT !.doing = "caps", !.asked = None]
          /\ reset' = TRUE /\ void' = "unread" /\ UNCHANGED fifo
       \/ /\ fifo # <<>> /\ Len(fifo) < FifoSize
          /\ fifo' = Append(fifo, [fifo[Len(fifo)] EXCEPT !.new = FALSE])
          /\ UNCHANGED <<source, reset, void>>
       \/ /\ source' = [source EXCEPT !.doing = "rest", !.asked = None, !.vbus = FALSE]
          /\ void' = "unread" /\ UNCHANGED <<reset, fifo>>

\* VBUS returns after the sink has noticed its loss.
VbusBack ==
    /\ ~source.vbus /\ sink.low /\ SourceStep
    /\ source' = [source EXCEPT !.vbus = TRUE, !.doing = "caps"]
    /\ UNCHANGED <<reset, fifo, faults, void>>

-----------------------------------------------------------------------------
Poll == \/ PollSkips \/ PollAttaches \/ PollRestores \/ VbusLow \/ ReadsReset \/ ReadsFault
        \/ Protection \/ Empty \/ ReadsCapabilities \/ ReadsControl

Next ==
    \/ \E o \in Ops : TakeOperation(o)
    \/ Abort \/ Continue
    \/ PollSkips \/ PollAttaches \/ PollRestores \/ VbusLow \/ ReadsReset \/ ReadsFault
    \/ Protection \/ Empty \/ ReadsCapabilities \/ ReadsControl
    \/ EndTurn \/ BusyTurn
    \/ \E due \in {Timers} \cup {{t} : t \in Timers} : Elapse(due)
    \/ Answer \/ Disturb \/ VbusBack

Spec == Init /\ [][Next]_vars

\* The PD task's turns go on and are not all lost to the bus; time passes.
FairSpec ==
    /\ Spec
    /\ WF_vars(Continue) /\ WF_vars(Poll) /\ WF_vars(EndTurn)
    /\ SF_vars(Elapse(Timers))

-----------------------------------------------------------------------------
(* Properties                                                                *)

Sinks == [phase : Phases, active : {None} \cup Contracts, pending : {None} \cup Contracts,
          caps : {{}} \cup Offers, idle : BOOLEAN, explicit : {None} \cup Contracts,
          gap : 0..NoId, refreshing : BOOLEAN, refreshFor : BOOLEAN,
          rejected : BOOLEAN, timedOut : BOOLEAN, deaf : BOOLEAN, ramp : BOOLEAN,
          low : BOOLEAN, awaiting : BOOLEAN, attached : BOOLEAN, vbusSeen : BOOLEAN,
          age : [Timers -> Ages]]

\* Type invariant of the sink, the turn, the external source and the bounds.
TypeOK ==
    /\ sink \in Sinks
    /\ op \in Ops \cup {NoOp} /\ step \in {"rest", "poll", "late", "publish"} /\ burst \in 0..RxBurst
    /\ done \in Outcomes /\ permit \in BOOLEAN /\ prev \in BOOLEAN
    /\ source \in [doing : {"rest", "caps", "request", "switch"}, asked : {None} \cup Contracts,
                   offer : Offers, vbus : BOOLEAN]
    /\ fifo \in Seq(Messages) /\ Len(fifo) <= FifoSize
    /\ reset \in BOOLEAN /\ unacked \in BOOLEAN
    /\ ops \in 0..MaxOps /\ faults \in 0..MaxFaults
    /\ void \in {"no", "unread", "read"} /\ capsRead \in BOOLEAN

\* A capability refresh is reported as done only after capabilities were taken
\* since the command: neither the cached list, nor an answer to an earlier query
\* flushed with it, nor a refresh cut off by a reset or a fault counts.
RefreshIsFresh == [][EndTurn /\ Settled = "CapabilitiesRefreshed" => capsRead]_vars

\* Once a turn has read that the source ended the session (a reset, VBUS low), the
\* permit published at its end is withdrawn, and stays so until a contract of the
\* new session is confirmed by PS_RDY: no kept permit and no late message of the
\* old session restores it.
PermitIsOfThisSession == step = "rest" /\ permit => void # "read"

\* On the way to the idle contract the sink leaves a PPS contract downwards one
\* step at a time, also when a refresh, a reset or another Idle falls into the
\* descent; it jumps only when the source no longer offers the PPS contract.
IdleDescendsInSteps ==
    [][sink'.idle /\ sink'.pending # sink.pending /\ sink'.pending # None
         => \/ sink'.active \in {None, Fixed}
            \/ sink'.pending = sink'.active - 1
            \/ sink'.active \notin sink'.caps]_vars

\* A contract operation is not pending for ever: whatever the source does or
\* stops doing, the service settles it, or another operation takes its place.
ContractSettles == []<>(op.kind # "Contract")
=============================================================================
