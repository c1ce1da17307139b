--------------------------- MODULE PowerCoordinator ---------------------------
(***************************************************************************)
(* The power domain of the firmware: clients on the thread-mode executor    *)
(* reserve a ticket and queue a command; the power coordinator arbitrates    *)
(* between owners and keeps at most one command in flight; the PD service    *)
(* runs that command against the FUSB302B sink and reports one terminal      *)
(* outcome per ticket (power_domain.rs, pd_service.rs).                      *)
(*                                                                           *)
(* Coordinator and PD service share one interrupt executor that preempts     *)
(* every client.  So a coordinator turn is never interleaved with anything   *)
(* (step # "await" blocks every other actor), a PD turn is split only at its *)
(* awaits, and a client operation may be split at any of its atomics.        *)
(***************************************************************************)
EXTENDS Naturals, Sequences, FiniteSets

CONSTANTS
    SlotCount,   \* POWER_COMMANDS_CAPACITY = POWER_TICKET_SLOT_COUNT (6 in the firmware)
    Intents,     \* the commands the clients of this instance may submit
    SinkOutcomes,\* the outcomes with which the sink of this instance settles operations
    MaxTickets   \* bound on the tickets ever issued

Owners  == {"ThermalPlantAuto", "Calibration", "ManualOperator", "AutomaticThermal"}
NoOwner == "NoOwner"
Kinds   == {"Request", "Refresh", "Idle"}

\* What a client may submit: a contract request in an owner's name, or one of
\* the two ownerless commands.
AllIntents == [kind : {"Request"}, owner : Owners]
                \cup [kind : {"Refresh", "Idle"}, owner : {NoOwner}]

ASSUME SlotCountAssumption  == SlotCount \in Nat \ {0}
ASSUME IntentsAssumption    == Intents \subseteq AllIntents
ASSUME MaxTicketsAssumption == MaxTickets \in Nat

Slots == 1..SlotCount

\* PowerTicket, together with the command it was issued for.
Ticket == [seq : Nat \ {0}, kind : Kinds, owner : Owners \cup {NoOwner}, slot : Slots]
NoTicket == [seq |-> 0, kind |-> "None", owner |-> NoOwner, slot |-> 0]
TicketOrNone == Ticket \cup {NoTicket}

\* TicketOutcome; a Confirmed outcome's contract is abstracted away.
Outcomes == {"Confirmed", "CapabilitiesRefreshed", "Rejected", "TimedOut",
             "TransportFault", "Detached", "Superseded"}
ASSUME SinkOutcomesAssumption == SinkOutcomes \subseteq Outcomes \ {"Superseded"}
Result(t, o) == [ticket |-> t, outcome |-> o]
ResultSet == [ticket : Ticket, outcome : Outcomes]
NoResult == Result(NoTicket, "None")

VARIABLES
    hold,             \* FLASH_PREPARATION_HOLD
    \* tickets and their result mailboxes
    nextTicket,       \* NEXT_TICKET
    slots,            \* POWER_TICKET_SLOTS, the reserved slots
    discarded,        \* POWER_TICKET_DISCARDED, the slots whose client gave up
    results,          \* POWER_TICKET_RESULTS, one signal per slot
    held,             \* the tickets the clients still hold
    thread,           \* the client operation the thread executor is inside of
    \* channels between the tasks
    cmds,             \* POWER_COMMANDS
    mailbox,          \* PD_SERVICE_COMMANDS, capacity one
    cancelled,        \* PD_SERVICE_CANCELLED_TICKET, a high-water mark
    terminals,        \* PD_SERVICE_TERMINALS
    \* the coordinator task
    step,             \* where the turn is: "await" outside any turn
    backlog,          \* commands drained from the queue after a failed owner
    floor,            \* priority_floor of the backlog loop
    retryNext,        \* the turn still has to retry the deferred command
    inflight,         \* the ticket the PD service owes a terminal for
    inflightRefresh,
    inflightIdle,
    activeOwner,      \* owner of the confirmed contract
    joined,           \* refresh tickets riding on the refresh in flight
    deferred,         \* command the full mailbox turned away
    \* the PD service task
    pd,               \* [phase, pending, completion]
    contractOwner,    \* history: owner of the last contract the sink confirmed
    stray             \* history: a terminal the coordinator threw away changed the
                      \* contract after activeOwner was last decided

clientVars == <<hold, nextTicket, held, thread>>
ticketVars == <<slots, discarded, results>>
coordVars  == <<inflight, inflightRefresh, inflightIdle, activeOwner, stray, joined, deferred>>
turnVars   == <<step, backlog, floor, retryNext>>
pdVars     == <<pd, contractOwner>>
chanVars   == <<cmds, mailbox, cancelled, terminals>>
vars == <<clientVars, ticketVars, coordVars, turnVars, pdVars, chanVars>>

Idling == [pc |-> "run", ticket |-> NoTicket]

Init ==
    /\ hold = FALSE
    /\ nextTicket = 1
    /\ slots = {} /\ discarded = {} /\ held = {}
    /\ results = [s \in Slots |-> NoResult]
    /\ thread = Idling
    /\ cmds = <<>> /\ terminals = <<>>
    /\ mailbox = NoTicket /\ cancelled = 0
    /\ step = "await" /\ backlog = <<>> /\ floor = NoOwner /\ retryNext = FALSE
    /\ inflight = NoTicket /\ inflightRefresh = FALSE /\ inflightIdle = FALSE
    /\ activeOwner = NoOwner /\ joined = {} /\ deferred = NoTicket
    /\ pd = [phase |-> "rest", pending |-> NoTicket, completion |-> NoResult]
    /\ contractOwner = NoOwner /\ stray = FALSE

-----------------------------------------------------------------------------
(* Clients.  They share one thread, so only one client operation is ever     *)
(* under way; the coordinator and the PD service may run between its steps.  *)

ClientMayRun == step = "await" /\ thread = Idling

FreeSlots == Slots \ slots
\* The flash-preparation check of request and refresh_capabilities; idle_at_minimum
\* has none.
AdmittedBy(i) == hold => i.kind = "Idle"

\* request, refresh_capabilities, idle_at_minimum: reserve the lowest free slot,
\* draw a sequence number, queue the command.  A refused submission changes
\* nothing.  (A full queue would burn a sequence number after the reservation,
\* but every queued ticket holds a slot of its own, so no slot is free then.)
Submit(i) ==
    /\ ClientMayRun
    /\ nextTicket <= MaxTickets
    /\ AdmittedBy(i)
    /\ Len(cmds) < SlotCount
    /\ \E s \in FreeSlots :
          LET t == [seq |-> nextTicket, kind |-> i.kind, owner |-> i.owner, slot |-> s]
          IN  /\ \A r \in FreeSlots : s <= r
              /\ slots' = slots \cup {s}
              /\ cmds' = Append(cmds, t)
              /\ held' = held \cup {t}
    /\ nextTicket' = nextTicket + 1
    /\ UNCHANGED <<hold, thread, discarded, results, coordVars, turnVars, pdVars,
                   mailbox, cancelled, terminals>>

\* try_take, and wait once its signal is there: the client consumes its result
\* and gives the slot back.  A result of some other ticket is put back, which
\* changes nothing.
TryTake(t) ==
    /\ ClientMayRun
    /\ t \in held
    /\ results[t.slot].ticket = t
    /\ results' = [results EXCEPT ![t.slot] = NoResult]
    /\ slots' = slots \ {t.slot}
    /\ held' = held \ {t}
    /\ UNCHANGED <<hold, nextTicket, thread, discarded, coordVars, turnVars, pdVars, chanVars>>

\* Fault: discard gives the slot back although the answer is still to come.
DiscardReleasesAtOnce(t) ==
    /\ ClientMayRun
    /\ t \in held
    /\ held' = held \ {t}
    /\ results' = [results EXCEPT ![t.slot] = NoResult]
    /\ slots' = slots \ {t.slot}
    /\ UNCHANGED <<hold, nextTicket, thread, discarded, coordVars, turnVars, pdVars, chanVars>>

\* discard, first try_take: consume a result that is already there, or go on.
DiscardBegin(t) ==
    /\ ClientMayRun
    /\ t \in held
    /\ held' = held \ {t}
    /\ \/ /\ results[t.slot].ticket = t
          /\ results' = [results EXCEPT ![t.slot] = NoResult]
          /\ slots' = slots \ {t.slot}
          /\ UNCHANGED thread
       \/ /\ results[t.slot].ticket # t
          /\ thread' = [pc |-> "mark", ticket |-> t]
          /\ UNCHANGED <<results, slots>>
    /\ UNCHANGED <<hold, nextTicket, discarded, coordVars, turnVars, pdVars, chanVars>>

\* discard, fetch_or: leave the slot for the coordinator to release.
DiscardMark ==
    /\ step = "await" /\ thread.pc = "mark"
    /\ discarded' = discarded \cup {thread.ticket.slot}
    /\ thread' = [thread EXCEPT !.pc = "retake"]
    /\ UNCHANGED <<hold, nextTicket, held, slots, results, coordVars, turnVars, pdVars, chanVars>>

\* Fault: discard does not look for the result again after marking.
DiscardWithoutRetake ==
    /\ step = "await" /\ thread.pc = "retake"
    /\ thread' = Idling
    /\ UNCHANGED <<hold, nextTicket, held, ticketVars, coordVars, turnVars, pdVars, chanVars>>

\* discard, second try_take: the result came between the first try_take and
\* the mark, so the coordinator did not see the mark.
DiscardRetake ==
    LET r == results[thread.ticket.slot]
    IN  /\ step = "await" /\ thread.pc = "retake"
        /\ IF r = NoResult
             THEN thread' = Idling /\ UNCHANGED results
             ELSE /\ thread' = [thread EXCEPT !.pc = "unmark"]
                  /\ results' = [results EXCEPT ![thread.ticket.slot] =
                                   IF r.ticket = thread.ticket THEN NoResult ELSE r]
        /\ UNCHANGED <<hold, nextTicket, held, slots, discarded, coordVars, turnVars,
                       pdVars, chanVars>>

\* Fault: the slot is not released with the mark.
UnmarkKeepsSlot ==
    /\ step = "await" /\ thread.pc = "unmark"
    /\ discarded' = discarded \ {thread.ticket.slot}
    /\ thread' = Idling
    /\ UNCHANGED <<hold, nextTicket, held, slots, results, coordVars, turnVars, pdVars, chanVars>>

\* discard, fetch_and: take the mark back and release the slot.
DiscardUnmark ==
    /\ step = "await" /\ thread.pc = "unmark"
    /\ discarded' = discarded \ {thread.ticket.slot}
    /\ slots' = IF results[thread.ticket.slot] = NoResult
                  THEN slots \ {thread.ticket.slot} ELSE slots
    /\ thread' = Idling
    /\ UNCHANGED <<hold, nextTicket, held, results, coordVars, turnVars, pdVars, chanVars>>

\* start_hold and clear_hold, called by the control-line handlers of the
\* runtime loop (their effect on the heater gate is in HeaterPermit).
ToggleHold ==
    /\ ClientMayRun
    /\ hold' = ~hold
    /\ UNCHANGED <<nextTicket, held, thread, ticketVars, coordVars, turnVars, pdVars, chanVars>>

-----------------------------------------------------------------------------
(* The coordinator's decisions.                                              *)

\* PowerIntentOwner::priority; an ownerless command counts as 0.
Priority(o) == CASE o = "ThermalPlantAuto" -> 4
                 [] o = "Calibration"      -> 3
                 [] o = "ManualOperator"   -> 2
                 [] o = "AutomaticThermal" -> 1
                 [] OTHER                  -> 0

\* Ownerless commands are recorded in flight under the weakest owner.
RecordedOwner(t) == IF t.owner = NoOwner THEN "AutomaticThermal" ELSE t.owner

AllowedDuringPreparation(c) == hold => c.kind = "Idle"

DeferredIsReplaced(c, d) ==
    c.kind \in {"Idle", "Refresh"} \/ Priority(c.owner) >= Priority(d.owner)

OwnerIsSuperseded(c) ==
    /\ c.owner # NoOwner /\ activeOwner # NoOwner
    /\ Priority(c.owner) < Priority(activeOwner)

ShouldJoinRefresh(c) == c.kind = "Refresh" /\ inflightRefresh

\* The command is strong enough to unseat the command in flight.
SupersedesInflight(c) ==
    \/ c.kind = "Idle"
    \/ inflightIdle /\ c.kind = "Request"
    \/ c.owner # NoOwner /\ Priority(c.owner) > Priority(RecordedOwner(inflight))

QueuedIsPreempted(c, failed) ==
    \/ c.kind = "Refresh"
    \/ c.kind = "Request" /\ Priority(c.owner) <= Priority(failed)

\* signal_ticket for a set of results: a slot marked discarded is released
\* without a result, any other slot's signal is set.
SlotsOf(rs) == {r.ticket.slot : r \in rs}
SignalTickets(rs) ==
    /\ discarded' = discarded \ SlotsOf(rs)
    /\ slots' = slots \ (SlotsOf(rs) \cap discarded)
    /\ results' = [s \in Slots |->
                     IF s \in SlotsOf(rs) \ discarded
                       THEN CHOOSE r \in rs : r.ticket.slot = s ELSE results[s]]

\* Fault: a cancellation covers every ticket issued so far.
WatermarkCoversAll(t) == nextTicket - 1

\* cancel_pd_service_ticket: raise the watermark, never lower it.
WatermarkAfterCancel(t) == IF t.seq > cancelled THEN t.seq ELSE cancelled

\* The way through dispatch_power_command, with d the deferred command that
\* stands in the way (none when the deferred command itself is retried).
Verdict(c, d) ==
    IF ~AllowedDuringPreparation(c)                       THEN "Preparing"
    ELSE IF d # NoTicket /\ ~DeferredIsReplaced(c, d)     THEN "DeferredWins"
    ELSE IF OwnerIsSuperseded(c)                          THEN "ActiveWins"
    ELSE IF ShouldJoinRefresh(c)                          THEN "Join"
    ELSE IF inflight # NoTicket /\ ~SupersedesInflight(c) THEN "InflightWins"
    ELSE IF mailbox = NoTicket                            THEN "Send" ELSE "Defer"

\* dispatch_power_command with supersede_or_join_power_command and
\* settle_inflight.  An unseated command is cancelled by raising the watermark;
\* inflightIdle is not reset with it.  The TransportFault branch of a second
\* deferral cannot be reached: the deferred command was cleared just before.
Dispatch(c, d) ==
    LET v        == Verdict(c, d)
        replaced == IF d # NoTicket /\ v \notin {"Preparing", "DeferredWins"} THEN {d} ELSE {}
        unseats  == v \in {"Send", "Defer"} /\ inflight # NoTicket
        full     == v = "Join" /\ Cardinality(joined) >= SlotCount
        losers   == replaced
                      \cup (IF unseats THEN {inflight} \cup joined ELSE {})
                      \cup (IF v \in {"DeferredWins", "ActiveWins", "InflightWins"}
                              THEN {c} ELSE {})
        refused  == IF v = "Preparing" \/ full THEN {c} ELSE {}
    IN  /\ SignalTickets({Result(t, "Superseded") : t \in losers}
                           \cup {Result(t, "Rejected") : t \in refused})
        /\ cancelled' = IF unseats THEN WatermarkAfterCancel(inflight) ELSE cancelled
        /\ mailbox' = IF v = "Send" THEN c ELSE mailbox
        /\ inflight' = CASE v = "Send" -> c [] v = "Defer" -> NoTicket [] OTHER -> inflight
        /\ inflightRefresh' = CASE v = "Send" -> c.kind = "Refresh"
                                [] v # "Send" /\ unseats -> FALSE
                                [] OTHER -> inflightRefresh
        /\ inflightIdle' = IF v = "Send" THEN c.kind = "Idle" ELSE inflightIdle
        /\ joined' = CASE unseats -> {}
                       [] v = "Join" /\ ~full -> joined \cup {c}
                       [] OTHER -> joined
        /\ deferred' = CASE v = "Defer" -> c
                         [] v \in {"Preparing", "DeferredWins"} -> d
                         [] OTHER -> NoTicket

\* What dispatch_power_command returns: the owner whose command was deferred.
DispatchFails(c, d) == Verdict(c, d) = "Defer" /\ c.owner # NoOwner

-----------------------------------------------------------------------------
(* The coordinator's turn.  select3's preference for the command queue is    *)
(* not relied on: any ready source may be served.                            *)

\* collect_failed_owner_backlog: the rest of the queue moves into the turn.
\* The commands it settles at once are those the backlog loop would settle
\* under any later floor, so the loop below settles them all.
CollectBacklog(queue, owner, again) ==
    /\ step' = "settle"
    /\ backlog' = queue
    /\ cmds' = <<>>
    /\ floor' = owner
    /\ retryNext' = again

\* Either3::First.
ReceiveCommand ==
    /\ step = "await"
    /\ cmds # <<>>
    /\ LET c == Head(cmds)
       IN  /\ Dispatch(c, deferred)
           /\ IF DispatchFails(c, deferred)
                THEN CollectBacklog(Tail(cmds), c.owner, FALSE)
                ELSE cmds' = Tail(cmds) /\ UNCHANGED turnVars
    /\ UNCHANGED <<clientVars, pdVars, terminals, activeOwner, stray>>

\* settle_failed_owner_backlog, one drained command.
SettleBacklogEntry ==
    /\ step = "settle"
    /\ backlog # <<>>
    /\ backlog' = Tail(backlog)
    /\ LET c == Head(backlog)
       IN  IF QueuedIsPreempted(c, floor)
             THEN /\ SignalTickets({Result(c, "Superseded")})
                  /\ UNCHANGED <<floor, coordVars, mailbox, cancelled>>
             ELSE /\ Dispatch(c, deferred)
                  /\ floor' = IF /\ DispatchFails(c, deferred)
                                 /\ Priority(c.owner) > Priority(floor)
                                THEN c.owner ELSE floor
                  /\ UNCHANGED <<activeOwner, stray>>
    /\ UNCHANGED <<clientVars, pdVars, step, retryNext, cmds, terminals>>

FinishBacklog ==
    /\ step = "settle"
    /\ backlog = <<>>
    /\ step' = IF retryNext THEN "retry" ELSE "await"
    /\ floor' = NoOwner
    /\ retryNext' = FALSE
    /\ UNCHANGED <<clientVars, ticketVars, coordVars, pdVars, chanVars, backlog>>

\* Fault: the deferred command is not looked at after a terminal.
RetryForgotten ==
    /\ step = "retry"
    /\ step' = "await"
    /\ UNCHANGED <<clientVars, ticketVars, coordVars, pdVars, chanVars, backlog, floor, retryNext>>

\* retry_deferred_power_command.
RetryDeferred ==
    /\ step = "retry"
    /\ IF deferred = NoTicket
         THEN step' = "await"
              /\ UNCHANGED <<ticketVars, coordVars, chanVars, backlog, floor, retryNext>>
         ELSE /\ Dispatch(deferred, NoTicket)
              /\ IF DispatchFails(deferred, NoTicket)
                   THEN CollectBacklog(cmds, deferred.owner, FALSE)
                   ELSE step' = "await" /\ UNCHANGED <<cmds, backlog, floor, retryNext>>
              /\ UNCHANGED <<terminals, activeOwner, stray>>
    /\ UNCHANGED <<clientVars, pdVars>>

\* Fault: any terminal is taken for the one of the command in flight.
AnyTerminalMatches(t) == inflight # NoTicket

TerminalMatches(t) == inflight # NoTicket /\ inflight = t

\* The outcomes after which the sink has no contract, and those that say anything
\* new of its contract.
ContractLost == {"TimedOut", "TransportFault", "Detached"}
ContractNews == ContractLost \cup {"Confirmed"}

\* Fault: the idle contract becomes an owner's contract.
ActiveOwnerOfIdle(o) ==
    IF inflightRefresh /\ o \notin ContractLost
      THEN activeOwner
      ELSE IF o = "Confirmed" THEN RecordedOwner(inflight) ELSE NoOwner

ActiveOwnerAfterTerminal(o) ==
    IF inflightRefresh /\ o \notin ContractLost
      THEN activeOwner
      ELSE IF o = "Confirmed" /\ ~inflightIdle THEN RecordedOwner(inflight) ELSE NoOwner

\* failed_contract_owner_for_terminal.
ContractFailed(t, o) ==
    /\ ~inflightRefresh /\ ~inflightIdle
    /\ o \notin {"Confirmed", "CapabilitiesRefreshed"}
    /\ TerminalMatches(t)

\* Either3::Second with dispatch_power_terminal.  A terminal of a ticket that
\* is no longer in flight only triggers the retry of the deferred command.
ReceiveTerminal ==
    /\ step = "await"
    /\ terminals # <<>>
    /\ terminals' = Tail(terminals)
    /\ LET t == Head(terminals).ticket
           o == Head(terminals).outcome
       IN  /\ IF TerminalMatches(t)
                THEN /\ activeOwner' = ActiveOwnerAfterTerminal(o)
                     /\ stray' = (stray /\ inflightRefresh /\ o \notin ContractLost)
                     /\ SignalTickets({Result(u, o) : u \in {t} \cup joined})
                     /\ inflight' = NoTicket
                     /\ inflightRefresh' = FALSE
                     /\ inflightIdle' = FALSE
                     /\ joined' = {}
                     /\ UNCHANGED deferred
                ELSE /\ stray' = (stray \/ o \in ContractNews)
                     /\ UNCHANGED <<ticketVars, inflight, inflightRefresh, inflightIdle,
                                    activeOwner, joined, deferred>>
           /\ IF ContractFailed(t, o)
                THEN CollectBacklog(cmds, RecordedOwner(inflight), TRUE)
                ELSE step' = "retry" /\ UNCHANGED <<cmds, backlog, floor, retryNext>>
    /\ UNCHANGED <<clientVars, pdVars, mailbox, cancelled>>

-----------------------------------------------------------------------------
(* The PD service's turn: take one command or look after the pending one,    *)
(* then (after the I2C awaits) publish.  The sink's answers are free choices. *)

TicketCancelled(t) == t.seq <= cancelled

PdMayRun(phase) == step = "await" /\ pd.phase = phase

Working(pending, completion) ==
    pd' = [phase |-> "working", pending |-> pending, completion |-> completion]

PdUnchanged == UNCHANGED <<clientVars, ticketVars, coordVars, turnVars, cmds, cancelled,
                           terminals, contractOwner>>

\* Fault: a command met by the flash-preparation hold is dropped without a terminal.
TakeDropsHeldCommand ==
    /\ PdMayRun("rest")
    /\ mailbox # NoTicket
    /\ mailbox' = NoTicket
    /\ Working(IF hold /\ mailbox.kind # "Idle" THEN pd.pending ELSE mailbox, NoResult)
    /\ PdUnchanged

\* process_pd_service_work with a command in the mailbox, and process_pd_command.
PdTakeCommand ==
    /\ PdMayRun("rest")
    /\ mailbox # NoTicket
    /\ mailbox' = NoTicket
    /\ \/ /\ hold /\ mailbox.kind # "Idle"
          /\ Working(pd.pending, Result(mailbox, "Rejected"))
       \/ /\ hold => mailbox.kind = "Idle"
          /\ TicketCancelled(mailbox)
          /\ Working(IF pd.pending = mailbox THEN NoTicket ELSE pd.pending,
                     Result(mailbox, "Superseded"))
       \/ /\ hold => mailbox.kind = "Idle"
          /\ ~TicketCancelled(mailbox)
          /\ \/ Working(mailbox, NoResult)
             \/ Working(NoTicket, Result(mailbox, "Rejected"))
    /\ PdUnchanged

\* Fault: a pending operation is not aborted when flash preparation begins.
AdvanceIgnoresHold ==
    /\ PdMayRun("rest")
    /\ mailbox = NoTicket
    /\ pd.pending # NoTicket
    /\ IF TicketCancelled(pd.pending)
         THEN Working(NoTicket, Result(pd.pending, "Superseded"))
         ELSE Working(pd.pending, NoResult)
    /\ PdUnchanged /\ UNCHANGED mailbox

\* process_pd_service_work without a command: abort a cancelled or held-off
\* operation, or advance the pending one, which the sink may refuse.
PdAdvance ==
    /\ PdMayRun("rest")
    /\ mailbox = NoTicket
    /\ pd.pending # NoTicket
    /\ \/ /\ TicketCancelled(pd.pending) \/ (hold /\ pd.pending.kind # "Idle")
          /\ Working(NoTicket, Result(pd.pending, "Superseded"))
       \/ /\ ~TicketCancelled(pd.pending)
          /\ hold => pd.pending.kind = "Idle"
          /\ \/ Working(pd.pending, NoResult)
             \/ pd.pending.kind # "Refresh" /\ Working(NoTicket, Result(pd.pending, "Rejected"))
    /\ PdUnchanged /\ UNCHANGED mailbox

\* pending_terminal_outcome: what the sink may answer to an operation.
SettledOutcomes(kind) ==
    SinkOutcomes \ {IF kind = "Refresh" THEN "Confirmed" ELSE "CapabilitiesRefreshed"}

\* The owner the sink's contract belongs to once outcome o of t is published.
ContractOwnerAfter(t, o) ==
    CASE o = "Confirmed" -> t.owner
      [] o \in ContractLost -> NoOwner
      [] OTHER -> contractOwner

PendingAfterTerminal(t) == IF pd.pending = t THEN NoTicket ELSE pd.pending

\* publish_pd_service_turn with a terminal: waits for room in the channel.
PdPublishTerminal(r) ==
    /\ PdMayRun("working")
    /\ Len(terminals) < SlotCount
    /\ terminals' = Append(terminals, r)
    /\ contractOwner' = ContractOwnerAfter(r.ticket, r.outcome)
    /\ pd' = [phase |-> "rest", pending |-> PendingAfterTerminal(r.ticket),
              completion |-> NoResult]
    /\ UNCHANGED <<clientVars, ticketVars, coordVars, turnVars, cmds, mailbox, cancelled>>

\* The turn's own completion, decided while it took its work.
PdPublishCompletion == pd.completion # NoResult /\ PdPublishTerminal(pd.completion)

\* The sink settled the pending operation.
PdPublishSettled ==
    /\ pd.completion = NoResult
    /\ pd.pending # NoTicket
    /\ \E o \in SettledOutcomes(pd.pending.kind) : PdPublishTerminal(Result(pd.pending, o))

\* The operation is still negotiating.
PdPublishPending ==
    /\ PdMayRun("working")
    /\ pd.completion = NoResult
    /\ pd' = [pd EXCEPT !.phase = "rest"]
    /\ PdUnchanged /\ UNCHANGED mailbox

-----------------------------------------------------------------------------
Client == \/ \E i \in Intents : Submit(i)
          \/ \E t \in held : TryTake(t) \/ DiscardBegin(t)
          \/ DiscardMark \/ DiscardRetake \/ DiscardUnmark
          \/ ToggleHold
Coordinator == ReceiveCommand \/ SettleBacklogEntry \/ FinishBacklog \/ RetryDeferred
                 \/ ReceiveTerminal
PdService == PdTakeCommand \/ PdAdvance \/ PdPublishCompletion \/ PdPublishSettled
               \/ PdPublishPending
Next == Client \/ Coordinator \/ PdService

Spec == Init /\ [][Next]_vars

\* Both tasks of the interrupt executor are polled whenever they are ready.
\* Nothing is assumed of the clients, or of the sink.
TaskFairness ==
    /\ WF_vars(Coordinator)
    /\ WF_vars(PdTakeCommand) /\ WF_vars(PdAdvance)
    /\ WF_vars(PdPublishCompletion) /\ WF_vars(PdPublishPending)
FairSpec == Spec /\ TaskFairness

-----------------------------------------------------------------------------
(* Properties.                                                               *)

Elements(q) == {q[i] : i \in DOMAIN q}

\* Commands whose tickets the coordinator still owes an answer to.
Unsettled == (Elements(cmds) \cup Elements(backlog) \cup {inflight, deferred} \cup joined)
               \ {NoTicket}

\* Type invariant of slots, mailboxes, channels and the two tasks' locals.
TypeOK ==
    /\ hold \in BOOLEAN
    /\ nextTicket \in Nat \ {0}
    /\ slots \subseteq Slots /\ discarded \subseteq Slots
    /\ results \in [Slots -> ResultSet \cup {NoResult}]
    /\ held \subseteq Ticket
    /\ thread \in [pc : {"run"}, ticket : {NoTicket}]
                     \cup [pc : {"mark", "retake", "unmark"}, ticket : Ticket]
    /\ cmds \in Seq(Ticket) /\ backlog \in Seq(Ticket)
    /\ mailbox \in TicketOrNone
    /\ cancelled \in Nat
    /\ terminals \in Seq(ResultSet)
    /\ step \in {"await", "settle", "retry"}
    /\ floor \in Owners \cup {NoOwner}
    /\ retryNext \in BOOLEAN
    /\ inflight \in TicketOrNone /\ deferred \in TicketOrNone
    /\ inflightRefresh \in BOOLEAN /\ inflightIdle \in BOOLEAN /\ stray \in BOOLEAN
    /\ activeOwner \in Owners \cup {NoOwner} /\ contractOwner \in Owners \cup {NoOwner}
    /\ joined \subseteq Ticket
    /\ pd \in [phase : {"rest", "working"}, pending : TicketOrNone,
               completion : ResultSet \cup {NoResult}]

\* A result signal always belongs to the one ticket that holds its slot and is
\* still waiting for it, so try_take never puts a result back and wait never
\* spins on a stranger's result.
ResultBelongsToHolder ==
    \A s \in Slots : results[s] # NoResult =>
        /\ s \in slots
        /\ \/ results[s].ticket \in held
           \/ thread.ticket = results[s].ticket /\ thread.pc \in {"mark", "retake"}
        /\ results[s].ticket.slot = s
        /\ results[s].ticket \notin Unsettled

\* Two tickets that are still to be answered never share a result slot, and the
\* slot of each is reserved and empty: no answer can overwrite another.
UnsettledHaveOwnSlots ==
    \A t \in Unsettled :
        /\ t.slot \in slots
        /\ results[t.slot] = NoResult
        /\ \A u \in Unsettled : u.slot = t.slot => u = t

\* A slot stays reserved only for a ticket that is still to be answered, for an
\* answer that waits for its client, or for the discard that is releasing it:
\* the race between discard and signal_ticket leaks no slot.
NoSlotLeak ==
    \A s \in slots :
        \/ \E t \in Unsettled : t.slot = s
        \/ results[s] # NoResult
        \/ thread.pc = "unmark" /\ thread.ticket.slot = s

\* A discard mark stands only on the slot of a ticket that will still be
\* answered, or inside the discard that is taking it back: a mark left behind
\* would swallow the next tenant's result.
DiscardMarkIsLive ==
    \A s \in discarded :
        \/ \E t \in Unsettled : t.slot = s /\ t \notin held
        \/ thread.pc \in {"retake", "unmark"} /\ thread.ticket.slot = s

\* Nothing waits for an event that will not come: for the ticket in flight a
\* terminal sits in the mailbox, the service or the channel, and while a deferred
\* command waits for the next terminal to retry it, one is on its way.
ProgressIsOwed ==
    /\ inflight # NoTicket =>
          \/ inflight \in {mailbox, pd.pending, pd.completion.ticket}
          \/ \E r \in Elements(terminals) : r.ticket = inflight
    /\ step = "await" /\ deferred # NoTicket =>
          \/ mailbox # NoTicket /\ TicketCancelled(mailbox)
          \/ pd.completion # NoResult
          \/ terminals # <<>>

\* Cancelling raises a high-water mark over sequence numbers; it never reaches
\* a command that is still to be answered.
WatermarkSparesLiveTickets == \A t \in Unsettled : t.seq > cancelled

\* Tickets join only the refresh that is in flight.
JoinedRideOnRefresh ==
    joined # {} => inflightRefresh /\ inflight # NoTicket /\ inflight.kind = "Refresh"

\* The owner that shields its contract from weaker owners is the one whose contract
\* the sink last confirmed, once the coordinator has heard of everything the service
\* published.  It can be wrong only after a stray terminal: an operation that was
\* superseded while its turn was under way may still change the contract, and the
\* coordinator throws its terminal away without another look at the active owner.
ActiveOwnerHoldsContract ==
    activeOwner # NoOwner /\ terminals = <<>> /\ ~stray => contractOwner = activeOwner

\* Every ticket is answered, provided the sink settles an operation it is
\* polled for again and again (the runtime's request timers see to that).  At most
\* MaxTickets are issued, so the last of them is answered when nothing is unsettled.
EveryTicketIsAnswered == SF_vars(PdPublishSettled) => []<>(Unsettled = {})

\* While flash preparation holds, the service sheds every operation but the
\* idle contract, even if the source never answers.
HoldShedsContracts ==
    (hold /\ pd.pending # NoTicket)
        ~> (~hold \/ pd.pending = NoTicket \/ pd.pending.kind = "Idle")

\* The refinement mapping to the ticket ledger.
TicketStatus(n) ==
    IF n >= nextTicket THEN "unissued"
    ELSE IF \E t \in Unsettled : t.seq = n
           THEN IF \E t \in held : t.seq = n THEN "waiting" ELSE "abandoned"
    ELSE IF \E t \in held : t.seq = n /\ results[t.slot].ticket = t THEN "answered"
    ELSE IF \E t \in held : t.seq = n THEN "lost" ELSE "closed"
Ledger == INSTANCE TicketLedger WITH status <- [n \in 1..MaxTickets |-> TicketStatus(n)]

\* The power domain implements the ticket ledger: every ticket is answered at
\* most once, whatever order commands, terminals, cancellations and discards
\* arrive in, and no ticket is closed while its client waits.
ImplementsLedger == Ledger!LedgerSpec
=============================================================================
