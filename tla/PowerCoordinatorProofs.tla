------------------------ MODULE PowerCoordinatorProofs ------------------------
(***************************************************************************)
(* Safety of the power domain's tickets for every number of slots, clients   *)
(* and tickets, and whatever the sink answers: slots and results, the         *)
(* cancellation mark, the refinement of TicketLedger, the owner of the        *)
(* contract, and that somebody always owes the next step.                    *)
(***************************************************************************)
EXTENDS PowerCoordinator, TLAPS

-----------------------------------------------------------------------------
(* Types.                                                                    *)

\* The absent ticket is no ticket, the absent result no result.
LEMMA NoneIsNone == NoTicket \notin Ticket /\ NoResult \notin ResultSet
BY DEF NoTicket, Ticket, NoResult, ResultSet, Result

LEMMA ResultIsTyped ==
    ASSUME NEW t \in Ticket, NEW o \in Outcomes
    PROVE  /\ Result(t, o) \in ResultSet
           /\ Result(t, o).ticket = t
           /\ Result(t, o) # NoResult
BY NoneIsNone DEF Result, ResultSet, NoResult

\* The result chosen for an answered slot is one of the results of that slot.
LEMMA ChosenResult ==
    ASSUME NEW rs, NEW s \in SlotsOf(rs)
    PROVE  LET r == CHOOSE r \in rs : r.ticket.slot = s IN r \in rs /\ r.ticket.slot = s
<1>1. \E r \in rs : r.ticket.slot = s
  BY DEF SlotsOf
<1> QED BY <1>1, Zenon

\* signal_ticket keeps the slots and their signals typed.
LEMMA SignalType ==
    ASSUME TypeOK, NEW rs \in SUBSET ResultSet, SignalTickets(rs)
    PROVE  /\ slots' \subseteq Slots /\ discarded' \subseteq Slots
           /\ results' \in [Slots -> ResultSet \cup {NoResult}]
<1>1. slots' \subseteq Slots /\ discarded' \subseteq Slots
  BY DEF TypeOK, SignalTickets
<1>2. ASSUME NEW s \in Slots PROVE results'[s] \in ResultSet \cup {NoResult}
  <2>1. CASE s \in SlotsOf(rs) \ discarded
    <3>1. results'[s] = CHOOSE r \in rs : r.ticket.slot = s
      BY <2>1 DEF SignalTickets
    <3> QED BY <2>1, <3>1, ChosenResult
  <2>2. CASE s \notin SlotsOf(rs) \ discarded
    <3>1. results'[s] = results[s]
      BY <2>2 DEF SignalTickets
    <3> QED BY <3>1 DEF TypeOK
  <2> QED BY <2>1, <2>2
<1>3. results' = [s \in Slots |-> results'[s]]
  BY DEF SignalTickets
<1> QED BY <1>1, <1>2, <1>3

\* dispatch_power_command keeps everything it writes typed.
LEMMA DispatchType ==
    ASSUME TypeOK, NEW c \in Ticket, NEW d \in TicketOrNone, Dispatch(c, d)
    PROVE  /\ slots' \subseteq Slots /\ discarded' \subseteq Slots
           /\ results' \in [Slots -> ResultSet \cup {NoResult}]
           /\ cancelled' \in Nat
           /\ mailbox' \in TicketOrNone
           /\ inflight' \in TicketOrNone /\ deferred' \in TicketOrNone
           /\ inflightRefresh' \in BOOLEAN /\ inflightIdle' \in BOOLEAN
           /\ joined' \subseteq Ticket
<1> DEFINE v        == Verdict(c, d)
           replaced == IF d # NoTicket /\ v \notin {"Preparing", "DeferredWins"} THEN {d} ELSE {}
           unseats  == v \in {"Send", "Defer"} /\ inflight # NoTicket
           full     == v = "Join" /\ Cardinality(joined) >= SlotCount
           losers   == replaced
                         \cup (IF unseats THEN {inflight} \cup joined ELSE {})
                         \cup (IF v \in {"DeferredWins", "ActiveWins", "InflightWins"}
                                 THEN {c} ELSE {})
           refused  == IF v = "Preparing" \/ full THEN {c} ELSE {}
           rs       == {Result(t, "Superseded") : t \in losers}
                         \cup {Result(t, "Rejected") : t \in refused}
<1>1. losers \subseteq Ticket /\ refused \subseteq Ticket
  BY DEF TypeOK, TicketOrNone
<1>2. rs \in SUBSET ResultSet
  <2>1. "Superseded" \in Outcomes /\ "Rejected" \in Outcomes
    BY DEF Outcomes
  <2> QED BY <1>1, <2>1, ResultIsTyped
<1>3. SignalTickets(rs)
  BY DEF Dispatch
<1>4. slots' \subseteq Slots /\ discarded' \subseteq Slots
      /\ results' \in [Slots -> ResultSet \cup {NoResult}]
  BY <1>2, <1>3, SignalType
<1>5. inflightRefresh' \in BOOLEAN /\ inflightIdle' \in BOOLEAN
  <2>1. inflightRefresh' = CASE v = "Send" -> c.kind = "Refresh"
                             [] v # "Send" /\ unseats -> FALSE
                             [] OTHER -> inflightRefresh
    BY Zenon DEF Dispatch
  <2>2. inflightIdle' = IF v = "Send" THEN c.kind = "Idle" ELSE inflightIdle
    BY Zenon DEF Dispatch
  <2>3. inflightRefresh \in BOOLEAN /\ inflightIdle \in BOOLEAN
    BY Zenon DEF TypeOK
  <2> HIDE DEF v, unseats
  <2> QED BY <2>1, <2>2, <2>3, Zenon
<1>6. cancelled' \in Nat
  <2>1. cancelled' \in {cancelled, WatermarkAfterCancel(inflight)}
    BY DEF Dispatch
  <2>2. inflight.seq \in Nat
    BY DEF TypeOK, TicketOrNone, Ticket, NoTicket
  <2> QED BY <2>1, <2>2 DEF WatermarkAfterCancel, TypeOK
<1>7. mailbox' \in TicketOrNone /\ inflight' \in TicketOrNone /\ deferred' \in TicketOrNone
  <2>1. /\ mailbox' \in {c, mailbox}
        /\ inflight' \in {c, NoTicket, inflight}
        /\ deferred' \in {c, d, NoTicket}
    BY DEF Dispatch
  <2> QED BY <2>1 DEF TypeOK, TicketOrNone
<1>8. joined' \subseteq Ticket
  BY DEF Dispatch, TypeOK
<1> QED BY <1>4, <1>5, <1>6, <1>7, <1>8

LEMMA ClientType == TypeOK /\ Client => TypeOK'
<1> SUFFICES ASSUME TypeOK, Client PROVE TypeOK'
  OBVIOUS
<1> USE DEF clientVars, ticketVars, coordVars, turnVars, pdVars, chanVars
<1>1. ASSUME NEW i \in Intents, Submit(i) PROVE TypeOK'
  <2>1. PICK s \in FreeSlots :
          LET t == [seq |-> nextTicket, kind |-> i.kind, owner |-> i.owner, slot |-> s]
          IN  slots' = slots \cup {s} /\ cmds' = Append(cmds, t) /\ held' = held \cup {t}
    BY <1>1 DEF Submit
  <2> DEFINE t == [seq |-> nextTicket, kind |-> i.kind, owner |-> i.owner, slot |-> s]
  <2>2. t \in Ticket
    BY IntentsAssumption DEF AllIntents, Ticket, Kinds, TypeOK, FreeSlots
  <2>3. cmds' \in Seq(Ticket)
    BY <2>1, <2>2 DEF TypeOK
  <2> QED BY <1>1, <2>1, <2>2, <2>3 DEF Submit, TypeOK, FreeSlots
<1>2. ASSUME NEW t \in held, TryTake(t) PROVE TypeOK'
  <2>1. results' \in [Slots -> ResultSet \cup {NoResult}]
    BY <1>2 DEF TryTake, TypeOK
  <2> QED BY <1>2, <2>1 DEF TryTake, TypeOK
<1>3. ASSUME NEW t \in held, DiscardBegin(t) PROVE TypeOK'
  <2>1. thread' \in [pc : {"run"}, ticket : {NoTicket}]
                       \cup [pc : {"mark", "retake", "unmark"}, ticket : Ticket]
    BY <1>3 DEF DiscardBegin, TypeOK
  <2>2. results' \in [Slots -> ResultSet \cup {NoResult}]
    BY <1>3 DEF DiscardBegin, TypeOK
  <2>3. slots' \subseteq Slots /\ held' \subseteq Ticket
    BY <1>3 DEF DiscardBegin, TypeOK
  <2>4. UNCHANGED <<hold, nextTicket, discarded, coordVars, turnVars, pdVars, chanVars>>
    BY <1>3 DEF DiscardBegin
  <2> QED BY <2>1, <2>2, <2>3, <2>4 DEF TypeOK
<1>4. CASE DiscardMark
  <2>1. thread.ticket \in Ticket /\ thread.ticket.slot \in Slots
    BY <1>4 DEF DiscardMark, TypeOK, Ticket
  <2>2. thread' = [pc |-> "retake", ticket |-> thread.ticket]
    BY <1>4 DEF DiscardMark, TypeOK
  <2>3. thread' \in [pc : {"mark", "retake", "unmark"}, ticket : Ticket]
    BY <2>1, <2>2
  <2>4. discarded' \subseteq Slots
    BY <1>4, <2>1 DEF DiscardMark, TypeOK
  <2> QED BY <1>4, <2>3, <2>4 DEF DiscardMark, TypeOK
<1>5. CASE DiscardRetake
  <2>1. thread.ticket \in Ticket
    BY <1>5 DEF DiscardRetake, TypeOK
  <2>2. thread' = Idling \/ thread' = [pc |-> "unmark", ticket |-> thread.ticket]
    BY <1>5 DEF DiscardRetake, TypeOK
  <2>3. results' \in [Slots -> ResultSet \cup {NoResult}]
    BY <1>5 DEF DiscardRetake, TypeOK
  <2> QED BY <1>5, <2>1, <2>2, <2>3 DEF DiscardRetake, TypeOK, Idling
<1>6. CASE DiscardUnmark
  BY <1>6 DEF DiscardUnmark, TypeOK, Idling
<1>7. CASE ToggleHold
  <2>1. hold' \in BOOLEAN
    BY <1>7, Zenon DEF ToggleHold
  <2> QED BY <1>7, <2>1 DEF ToggleHold, TypeOK
<1> QED BY <1>1, <1>2, <1>3, <1>4, <1>5, <1>6, <1>7 DEF Client

\* The head and the tail of a queue, and a shortened or lengthened queue.
LEMMA QueueType ==
    ASSUME NEW S, NEW q \in Seq(S), q # <<>>
    PROVE  Head(q) \in S /\ Tail(q) \in Seq(S)
OBVIOUS

LEMMA CoordinatorType == TypeOK /\ Coordinator => TypeOK'
<1> SUFFICES ASSUME TypeOK, Coordinator PROVE TypeOK'
  OBVIOUS
<1> USE DEF clientVars, ticketVars, coordVars, turnVars, pdVars, chanVars
<1>0. <<>> \in Seq(Ticket) /\ NoTicket \in TicketOrNone
  BY DEF TicketOrNone
<1>1. CASE ReceiveCommand
  <2> DEFINE c == Head(cmds)
  <2>1. c \in Ticket /\ Tail(cmds) \in Seq(Ticket)
    BY <1>1, QueueType DEF ReceiveCommand, TypeOK
  <2>2. deferred \in TicketOrNone /\ Dispatch(c, deferred)
    BY <1>1 DEF ReceiveCommand, TypeOK
  <2>3. /\ cmds' \in Seq(Ticket) /\ backlog' \in Seq(Ticket)
        /\ step' \in {"await", "settle", "retry"} /\ floor' \in Owners \cup {NoOwner}
    BY <1>0, <1>1, <2>1 DEF ReceiveCommand, CollectBacklog, TypeOK, Ticket
  <2>4. retryNext' \in BOOLEAN
    <3>1. retryNext' = FALSE \/ retryNext' = retryNext
      BY <1>1, Zenon DEF ReceiveCommand, CollectBacklog
    <3> QED BY <3>1, Zenon DEF TypeOK
  <2>5. UNCHANGED <<hold, nextTicket, held, thread, pd, contractOwner, terminals, activeOwner, stray>>
    BY <1>1 DEF ReceiveCommand
  <2> HIDE DEF c
  <2> QED BY <2>1, <2>2, <2>3, <2>4, <2>5, DispatchType DEF TypeOK
<1>2. CASE SettleBacklogEntry
  <2> DEFINE c == Head(backlog)
  <2>1. c \in Ticket /\ backlog' \in Seq(Ticket)
    BY <1>2, QueueType DEF SettleBacklogEntry, TypeOK
  <2>2. floor' \in Owners \cup {NoOwner}
    BY <1>2, <2>1 DEF SettleBacklogEntry, TypeOK, Ticket
  <2>3. UNCHANGED <<hold, nextTicket, held, thread, pd, contractOwner, terminals, activeOwner, stray,
                    step, retryNext, cmds>>
    BY <1>2 DEF SettleBacklogEntry
  <2>4. CASE QueuedIsPreempted(c, floor)
    <3>1. {Result(c, "Superseded")} \in SUBSET ResultSet
      BY <2>1, ResultIsTyped DEF Outcomes
    <3>2. /\ SignalTickets({Result(c, "Superseded")})
          /\ UNCHANGED <<mailbox, cancelled, inflight, deferred, inflightRefresh, inflightIdle,
                         joined>>
      BY <1>2, <2>4 DEF SettleBacklogEntry
    <3> HIDE DEF c
    <3> QED BY <2>1, <2>2, <2>3, <3>1, <3>2, SignalType DEF TypeOK
  <2>5. CASE ~QueuedIsPreempted(c, floor)
    <3>1. deferred \in TicketOrNone /\ Dispatch(c, deferred)
      BY <1>2, <2>5 DEF SettleBacklogEntry, TypeOK
    <3> HIDE DEF c
    <3> QED BY <2>1, <2>2, <2>3, <3>1, DispatchType DEF TypeOK
  <2> QED BY <2>4, <2>5
<1>3. CASE FinishBacklog
  <2>1. retryNext' \in BOOLEAN
    BY <1>3, Zenon DEF FinishBacklog
  <2> QED BY <1>3, <2>1 DEF FinishBacklog, TypeOK
<1>4. CASE RetryDeferred
  <2>1. CASE deferred = NoTicket
    BY <1>4, <2>1 DEF RetryDeferred, TypeOK
  <2>2. CASE deferred # NoTicket
    <3>1. deferred \in Ticket /\ Dispatch(deferred, NoTicket)
      BY <1>4, <2>2 DEF RetryDeferred, TypeOK, TicketOrNone
    <3>2. /\ cmds' \in Seq(Ticket) /\ backlog' \in Seq(Ticket)
          /\ step' \in {"await", "settle", "retry"} /\ floor' \in Owners \cup {NoOwner}
      BY <1>0, <1>4, <2>2, <3>1 DEF RetryDeferred, CollectBacklog, TypeOK, Ticket
    <3>3. retryNext' \in BOOLEAN
      <4>1. retryNext' = FALSE \/ retryNext' = retryNext
        BY <1>4, <2>2, Zenon DEF RetryDeferred, CollectBacklog
      <4> QED BY <4>1, Zenon DEF TypeOK
    <3>4. UNCHANGED <<hold, nextTicket, held, thread, pd, contractOwner, terminals, activeOwner, stray>>
      BY <1>4, <2>2 DEF RetryDeferred
    <3> QED BY <1>0, <3>1, <3>2, <3>3, <3>4, DispatchType DEF TypeOK
  <2> QED BY <2>1, <2>2
<1>5. CASE ReceiveTerminal
  <2> DEFINE t == Head(terminals).ticket
             o == Head(terminals).outcome
             rs == {Result(u, o) : u \in {t} \cup joined}
  <2>1. t \in Ticket /\ o \in Outcomes /\ terminals' \in Seq(ResultSet)
    <3>1. terminals \in Seq(ResultSet) /\ terminals # <<>> /\ terminals' = Tail(terminals)
      BY <1>5 DEF ReceiveTerminal, TypeOK
    <3>2. Head(terminals) \in ResultSet /\ Tail(terminals) \in Seq(ResultSet)
      BY <3>1, QueueType
    <3> QED BY <3>1, <3>2 DEF ResultSet
  <2>2. /\ cmds' \in Seq(Ticket) /\ backlog' \in Seq(Ticket)
        /\ step' \in {"await", "settle", "retry"}
    BY <1>0, <1>5 DEF ReceiveTerminal, CollectBacklog, TypeOK
  <2>3. RecordedOwner(inflight) \in Owners
    BY DEF RecordedOwner, TypeOK, TicketOrNone, Ticket, NoTicket, Owners
  <2>4. floor' \in Owners \cup {NoOwner}
    BY <1>5, <2>3 DEF ReceiveTerminal, CollectBacklog, TypeOK
  <2>5. retryNext' \in BOOLEAN
    <3>1. retryNext' = TRUE \/ retryNext' = retryNext
      BY <1>5, Zenon DEF ReceiveTerminal, CollectBacklog
    <3> QED BY <3>1, Zenon DEF TypeOK
  <2>6. UNCHANGED <<hold, nextTicket, held, thread, pd, contractOwner, mailbox, cancelled,
                    deferred>>
    BY <1>5 DEF ReceiveTerminal
  <2>7. CASE TerminalMatches(t)
    <3>1. rs \in SUBSET ResultSet
      BY <2>1, ResultIsTyped DEF TypeOK
    <3>2. SignalTickets(rs)
      BY <1>5, <2>7, Zenon DEF ReceiveTerminal
    <3>3. /\ slots' \subseteq Slots /\ discarded' \subseteq Slots
          /\ results' \in [Slots -> ResultSet \cup {NoResult}]
      BY <3>1, <3>2, SignalType
    <3>4. activeOwner' \in Owners \cup {NoOwner}
      BY <1>5, <2>3, <2>7 DEF ReceiveTerminal, ActiveOwnerAfterTerminal, TypeOK
    <3>5. inflightRefresh' \in BOOLEAN /\ inflightIdle' \in BOOLEAN
      BY <1>5, <2>7, Zenon DEF ReceiveTerminal
    <3>6. inflight' \in TicketOrNone /\ joined' \subseteq Ticket
      BY <1>0, <1>5, <2>7 DEF ReceiveTerminal
    <3>7. stray' \in BOOLEAN
      <4>1. stray' = (stray /\ inflightRefresh /\ o \notin ContractLost)
        BY <1>5, <2>7, Zenon DEF ReceiveTerminal
      <4> QED BY <4>1, Zenon
    <3> HIDE DEF t, o, rs
    <3> QED BY <2>1, <2>2, <2>4, <2>5, <2>6, <3>3, <3>4, <3>5, <3>6, <3>7 DEF TypeOK
  <2>8. CASE ~TerminalMatches(t)
    <3>1. UNCHANGED <<slots, discarded, results, inflight, inflightRefresh, inflightIdle,
                      activeOwner, joined>>
      BY <1>5, <2>8 DEF ReceiveTerminal
    <3>2. stray' \in BOOLEAN
      <4>1. stray' = (stray \/ o \in ContractNews)
        BY <1>5, <2>8, Zenon DEF ReceiveTerminal
      <4> QED BY <4>1, Zenon
    <3> HIDE DEF t, o, rs
    <3> QED BY <2>1, <2>2, <2>4, <2>5, <2>6, <3>1, <3>2 DEF TypeOK
  <2> QED BY <2>7, <2>8
<1> QED BY <1>1, <1>2, <1>3, <1>4, <1>5 DEF Coordinator

LEMMA PdServiceType == TypeOK /\ PdService => TypeOK'
<1> SUFFICES ASSUME TypeOK, PdService PROVE TypeOK'
  OBVIOUS
<1> USE DEF clientVars, ticketVars, coordVars, turnVars, pdVars, chanVars
<1> DEFINE PdType == [phase : {"rest", "working"}, pending : TicketOrNone,
                      completion : ResultSet \cup {NoResult}]
<1>0. /\ pd \in PdType /\ pd.pending \in TicketOrNone /\ NoTicket \in TicketOrNone
      /\ pd.completion \in ResultSet \cup {NoResult}
  BY DEF TypeOK, TicketOrNone
<1>1. ASSUME NEW p \in TicketOrNone, NEW r \in ResultSet \cup {NoResult}, Working(p, r)
      PROVE  pd' \in PdType
  BY <1>1 DEF Working
<1>2. ASSUME NEW t, t \in TicketOrNone, t # NoTicket
      PROVE  Result(t, "Rejected") \in ResultSet /\ Result(t, "Superseded") \in ResultSet
  BY <1>2, ResultIsTyped DEF TicketOrNone, Outcomes
<1>3. CASE PdTakeCommand
  <2>1. /\ Result(mailbox, "Rejected") \in ResultSet /\ Result(mailbox, "Superseded") \in ResultSet
        /\ mailbox \in TicketOrNone
    BY <1>2, <1>3 DEF PdTakeCommand, TypeOK
  <2>2. \E p \in TicketOrNone, r \in ResultSet \cup {NoResult} : Working(p, r)
    BY <1>0, <1>3, <2>1 DEF PdTakeCommand
  <2>3. pd' \in PdType
    BY <1>1, <2>2
  <2>4. mailbox' \in TicketOrNone
    BY <1>0, <1>3 DEF PdTakeCommand
  <2> QED BY <1>3, <2>3, <2>4 DEF PdTakeCommand, PdUnchanged, TypeOK
<1>4. CASE PdAdvance
  <2>1. /\ Result(pd.pending, "Rejected") \in ResultSet
        /\ Result(pd.pending, "Superseded") \in ResultSet
    BY <1>0, <1>2, <1>4 DEF PdAdvance
  <2>2. \E p \in TicketOrNone, r \in ResultSet \cup {NoResult} : Working(p, r)
    BY <1>0, <1>4, <2>1 DEF PdAdvance
  <2>3. pd' \in PdType
    BY <1>1, <2>2
  <2> QED BY <1>4, <2>3 DEF PdAdvance, PdUnchanged, TypeOK
<1>5. ASSUME NEW r \in ResultSet, PdPublishTerminal(r) PROVE TypeOK'
  <2>1. r.ticket \in Ticket
    BY DEF ResultSet
  <2>2. PendingAfterTerminal(r.ticket) \in TicketOrNone
    BY <1>0 DEF PendingAfterTerminal
  <2>3. pd' \in PdType
    BY <1>5, <2>2 DEF PdPublishTerminal
  <2>4. contractOwner' \in Owners \cup {NoOwner}
    BY <1>5, <2>1 DEF PdPublishTerminal, ContractOwnerAfter, Ticket, TypeOK
  <2>5. terminals' \in Seq(ResultSet)
    BY <1>5 DEF PdPublishTerminal, TypeOK
  <2> QED BY <1>5, <2>3, <2>4, <2>5 DEF PdPublishTerminal, TypeOK
<1>6. CASE PdPublishCompletion
  BY <1>0, <1>5, <1>6 DEF PdPublishCompletion
<1>7. CASE PdPublishSettled
  <2>1. PICK o \in SettledOutcomes(pd.pending.kind) : PdPublishTerminal(Result(pd.pending, o))
    BY <1>7 DEF PdPublishSettled
  <2>2. o \in Outcomes
    BY SinkOutcomesAssumption DEF SettledOutcomes
  <2>3. pd.pending \in Ticket
    BY <1>0, <1>7 DEF PdPublishSettled, TicketOrNone
  <2> QED BY <1>5, <2>1, <2>2, <2>3, ResultIsTyped
<1>8. CASE PdPublishPending
  <2>1. pd' \in PdType
    BY <1>0, <1>8 DEF PdPublishPending
  <2> QED BY <1>8, <2>1 DEF PdPublishPending, PdUnchanged, TypeOK
<1> QED BY <1>3, <1>4, <1>6, <1>7, <1>8 DEF PdService

LEMMA TypeInit == Init => TypeOK
<1> SUFFICES ASSUME Init PROVE TypeOK
  OBVIOUS
<1>1. hold \in BOOLEAN /\ retryNext \in BOOLEAN /\ inflightRefresh \in BOOLEAN
      /\ inflightIdle \in BOOLEAN /\ stray \in BOOLEAN
  BY Zenon DEF Init
<1> QED BY <1>1 DEF Init, TypeOK, Idling, TicketOrNone

LEMMA TypeStep == TypeOK /\ [Next]_vars => TypeOK'
<1>1. TypeOK /\ UNCHANGED vars => TypeOK'
  BY DEF vars, clientVars, ticketVars, coordVars, turnVars, pdVars, chanVars, TypeOK
<1> QED BY <1>1, ClientType, CoordinatorType, PdServiceType DEF Next

\* Every variable of the power domain keeps its type; in particular every slot a
\* client, the coordinator or a discard addresses exists.
THEOREM TypeCorrect == Spec => []TypeOK
BY TypeInit, TypeStep, PTL DEF Spec

-----------------------------------------------------------------------------
(* Slots.  A slot's ticket is owed an answer, or its answer waits, or the     *)
(* discard that is under way still holds it.                                  *)

\* The ticket of the discard that is under way.
Leaving == IF thread.pc = "run" THEN {} ELSE {thread.ticket}

\* Every ticket somebody still refers to.
Known == Unsettled \cup held \cup Leaving

OwedSlotsAreEmpty == \A t \in Unsettled : t.slot \in slots /\ results[t.slot] = NoResult
SlotsDiffer == \A t, u \in Known : t.slot = u.slot => t = u
KnownAreIssued == \A t \in Known : t.seq < nextTicket
Owed(t) == t \in Unsettled \/ results[t.slot].ticket = t
HeldAreOwed == \A t \in held : t.slot \in slots /\ t.slot \notin discarded /\ Owed(t)

\* Where a discard stands, relative to the coordinator's answer: before the mark the
\* ticket is owed; after it the mark waits for the answer, or the answer came first,
\* or the coordinator has found the mark and released the slot.
DiscardIsSound ==
    LET t == thread.ticket
    IN  /\ thread.pc # "run" => t \notin held
        /\ thread.pc = "mark" => t.slot \in slots /\ t.slot \notin discarded /\ Owed(t)
        /\ thread.pc = "retake" =>
              \/ t.slot \in slots /\ t.slot \in discarded /\ Owed(t)
              \/ t.slot \notin slots
        /\ thread.pc = "unmark" =>
              /\ t \notin Unsettled /\ results[t.slot] = NoResult
              /\ t.slot \in slots /\ t.slot \in discarded

MarksAreLive ==
    \A s \in discarded :
        /\ s \in slots
        /\ \/ \E t \in Unsettled : t.slot = s /\ t \notin held
           \/ thread.pc \in {"retake", "unmark"} /\ thread.ticket.slot = s

AbandonedAreMarked ==
    \A t \in Unsettled :
        \/ t \in held
        \/ thread.pc = "mark" /\ thread.ticket = t
        \/ t.slot \in discarded

SlotInv ==
    /\ OwedSlotsAreEmpty /\ SlotsDiffer /\ KnownAreIssued /\ HeldAreOwed
    /\ DiscardIsSound /\ MarksAreLive /\ AbandonedAreMarked
    /\ ResultBelongsToHolder /\ NoSlotLeak

\* What the tickets of a typed state look like.
LEMMA KnownType ==
    ASSUME TypeOK
    PROVE  /\ Unsettled \subseteq Ticket /\ Known \subseteq Ticket
           /\ \A t \in Known : t.slot \in Slots /\ t.seq \in Nat
           /\ \A s \in Slots : results[s] \in ResultSet \cup {NoResult}
<1>1. Elements(cmds) \subseteq Ticket /\ Elements(backlog) \subseteq Ticket
  BY DEF TypeOK, Elements
<1>2. Unsettled \subseteq Ticket
  BY <1>1 DEF Unsettled, TypeOK, TicketOrNone
<1>3. Known \subseteq Ticket
  BY <1>2 DEF Known, Leaving, TypeOK
<1> QED BY <1>2, <1>3 DEF Ticket, TypeOK

\* signal_ticket, answering tickets that are owed an answer and that are then owed
\* none, keeps the slots sound: this is the coordinator's half of the race with
\* discard.
LEMMA SignalKeepsSlots ==
    ASSUME TypeOK, SlotInv, NEW rs \in SUBSET ResultSet, SignalTickets(rs),
           NEW A, A = {r.ticket : r \in rs}, A \subseteq Unsettled,
           Unsettled' = Unsettled \ A,
           UNCHANGED <<held, thread, nextTicket>>
    PROVE  SlotInv'
<1> USE DEF SlotInv
<1>1. \A s : s \in SlotsOf(rs) <=> \E t \in A : t.slot = s
  BY DEF SlotsOf
<1>2. ASSUME NEW s \in Slots, s \in SlotsOf(rs) \ discarded
      PROVE  results'[s] \in ResultSet /\ results'[s].ticket \in A /\ results'[s].ticket.slot = s
  <2>1. results'[s] = CHOOSE r \in rs : r.ticket.slot = s
    BY <1>2 DEF SignalTickets
  <2> QED BY <1>2, <2>1, ChosenResult
<1>3. ASSUME NEW s \in Slots, s \notin SlotsOf(rs) \ discarded
      PROVE  results'[s] = results[s]
  BY <1>3 DEF SignalTickets
<1>4. discarded' = discarded \ SlotsOf(rs) /\ slots' = slots \ (SlotsOf(rs) \cap discarded)
  BY DEF SignalTickets
<1>5. Leaving' = Leaving /\ Known' \subseteq Known /\ held' = held /\ thread' = thread
  BY DEF Leaving, Known
<1>6. \A t \in Known : t \in Ticket /\ t.slot \in Slots
  BY KnownType
<1>7. A \subseteq Known /\ Unsettled \subseteq Known /\ held \subseteq Known
  BY DEF Known
<1>8. ASSUME NEW t \in Known, t \notin A PROVE t.slot \notin SlotsOf(rs)
  BY <1>1, <1>7, <1>8 DEF SlotsDiffer
<1>9. OwedSlotsAreEmpty'
  <2> SUFFICES ASSUME NEW t \in Unsettled \ A
               PROVE  t.slot \in slots' /\ results'[t.slot] = NoResult
    BY DEF OwedSlotsAreEmpty
  <2>1. t.slot \notin SlotsOf(rs) /\ t.slot \in Slots
    BY <1>6, <1>7, <1>8
  <2> QED BY <1>3, <1>4, <2>1 DEF OwedSlotsAreEmpty
<1>10. SlotsDiffer' /\ KnownAreIssued'
  BY <1>5 DEF SlotsDiffer, KnownAreIssued
<1>11. ASSUME NEW t \in Known, t.slot \in slots, t.slot \notin discarded, Owed(t)
       PROVE  t.slot \in slots' /\ t.slot \notin discarded' /\ Owed(t)'
  <2>1. CASE t \in A
    <3>1. results'[t.slot].ticket \in A /\ results'[t.slot].ticket.slot = t.slot
      BY <1>1, <1>2, <1>6, <1>11, <2>1
    <3>2. results'[t.slot].ticket = t
      BY <1>7, <3>1 DEF SlotsDiffer
    <3> QED BY <1>4, <1>11, <3>2 DEF Owed
  <2>2. CASE t \notin A
    <3>1. t.slot \notin SlotsOf(rs) /\ results'[t.slot] = results[t.slot]
      BY <1>3, <1>6, <1>8, <2>2
    <3> QED BY <1>4, <1>11, <2>2, <3>1 DEF Owed
  <2> QED BY <2>1, <2>2
<1>12. HeldAreOwed'
  BY <1>5, <1>7, <1>11 DEF HeldAreOwed
<1>13. DiscardIsSound'
  <2> DEFINE t == thread.ticket
  <2>1. thread.pc # "run" => t \notin held'
    BY <1>5 DEF DiscardIsSound
  <2>2. thread.pc # "run" => t \in Known
    BY DEF Known, Leaving
  <2>3. ASSUME thread.pc = "mark"
        PROVE  t.slot \in slots' /\ t.slot \notin discarded' /\ Owed(t)'
    BY <1>11, <2>2, <2>3 DEF DiscardIsSound
  <2>4. ASSUME thread.pc = "retake"
        PROVE  \/ t.slot \in slots' /\ t.slot \in discarded' /\ Owed(t)'
               \/ t.slot \notin slots'
    <3>1. CASE t.slot \notin slots
      BY <1>4, <3>1
    <3>2. CASE t.slot \in slots /\ t.slot \in discarded /\ Owed(t) /\ t \in A
      BY <1>1, <1>4, <3>2
    <3>3. CASE t.slot \in slots /\ t.slot \in discarded /\ Owed(t) /\ t \notin A
      <4>1. t.slot \notin SlotsOf(rs) /\ results'[t.slot] = results[t.slot]
        BY <1>3, <1>6, <1>8, <2>2, <2>4, <3>3
      <4> QED BY <1>4, <3>3, <4>1 DEF Owed
    <3> QED BY <2>4, <3>1, <3>2, <3>3 DEF DiscardIsSound
  <2>5. ASSUME thread.pc = "unmark"
        PROVE  /\ t \notin Unsettled' /\ results'[t.slot] = NoResult
               /\ t.slot \in slots' /\ t.slot \in discarded'
    <3>1. t \in Known /\ t \notin A
      BY <2>2, <2>5 DEF DiscardIsSound
    <3>2. t.slot \notin SlotsOf(rs) /\ results'[t.slot] = results[t.slot]
      BY <1>3, <1>6, <1>8, <3>1
    <3> QED BY <1>4, <2>5, <3>2 DEF DiscardIsSound
  <2> QED BY <1>5, <2>1, <2>3, <2>4, <2>5 DEF DiscardIsSound, Owed
<1>14. MarksAreLive'
  <2> SUFFICES ASSUME NEW s \in discarded'
               PROVE  /\ s \in slots'
                      /\ \/ \E t \in Unsettled' : t.slot = s /\ t \notin held
                         \/ thread.pc \in {"retake", "unmark"} /\ thread.ticket.slot = s
    BY <1>5 DEF MarksAreLive
  <2>1. s \in discarded /\ s \notin SlotsOf(rs)
    BY <1>4
  <2> QED BY <1>1, <1>4, <2>1 DEF MarksAreLive
<1>15. ResultBelongsToHolder'
  <2> SUFFICES ASSUME NEW s \in Slots, results'[s] # NoResult
               PROVE  /\ s \in slots'
                      /\ \/ results'[s].ticket \in held
                         \/ thread.ticket = results'[s].ticket /\ thread.pc \in {"mark", "retake"}
                      /\ results'[s].ticket.slot = s
                      /\ results'[s].ticket \notin Unsettled'
    BY <1>5 DEF ResultBelongsToHolder
  <2>1. CASE s \in SlotsOf(rs) \ discarded
    <3> DEFINE t == results'[s].ticket
    <3>1. t \in A /\ t.slot = s
      BY <1>2, <2>1
    <3>2. t \in Unsettled /\ s \in slots
      BY <3>1 DEF OwedSlotsAreEmpty
    <3>3. t \in held \/ (thread.ticket = t /\ thread.pc = "mark")
      BY <2>1, <3>1, <3>2 DEF AbandonedAreMarked
    <3> QED BY <1>4, <2>1, <3>1, <3>2, <3>3
  <2>2. CASE s \notin SlotsOf(rs) \ discarded
    <3>1. results'[s] = results[s] /\ results[s] # NoResult
      BY <1>3, <2>2
    <3>2. s \notin SlotsOf(rs)
      BY <1>1, <3>1 DEF OwedSlotsAreEmpty
    <3> QED BY <1>4, <3>1, <3>2 DEF ResultBelongsToHolder
  <2> QED BY <2>1, <2>2
<1>16. NoSlotLeak'
  <2> SUFFICES ASSUME NEW s \in slots'
               PROVE  \/ \E t \in Unsettled' : t.slot = s
                      \/ results'[s] # NoResult
                      \/ thread.pc = "unmark" /\ thread.ticket.slot = s
    BY <1>5 DEF NoSlotLeak
  <2> QED BY <1>1, <1>2, <1>3, <1>4, NoneIsNone DEF NoSlotLeak, TypeOK
<1>17. AbandonedAreMarked'
  BY <1>4, <1>5, <1>7, <1>8 DEF AbandonedAreMarked
<1> QED BY <1>9, <1>10, <1>12, <1>13, <1>14, <1>15, <1>16, <1>17

-----------------------------------------------------------------------------
(* Queues.                                                                   *)

Increasing(q) == \A i, j \in DOMAIN q : i < j => q[i].seq < q[j].seq

LEMMA ElementsOfAppend ==
    ASSUME NEW S, NEW q \in Seq(S), NEW x \in S
    PROVE  Elements(Append(q, x)) = Elements(q) \cup {x}
<1>1. /\ Len(q) \in Nat /\ DOMAIN q = 1..Len(q)
      /\ DOMAIN Append(q, x) = 1..(Len(q) + 1)
      /\ \A i \in 1..Len(q) : Append(q, x)[i] = q[i]
      /\ Append(q, x)[Len(q) + 1] = x
  OBVIOUS
<1> QED BY <1>1 DEF Elements

LEMMA ElementsOfTail ==
    ASSUME NEW S, NEW q \in Seq(S), q # <<>>
    PROVE  Elements(q) = {Head(q)} \cup Elements(Tail(q))
<1>1. /\ Len(q) \in Nat /\ Len(q) > 0 /\ DOMAIN q = 1..Len(q)
      /\ DOMAIN Tail(q) = 1..(Len(q) - 1)
      /\ \A i \in 1..(Len(q) - 1) : Tail(q)[i] = q[i + 1]
      /\ Head(q) = q[1]
  OBVIOUS
<1>2. ASSUME NEW x \in Elements(q) PROVE x \in {Head(q)} \cup Elements(Tail(q))
  <2>1. PICK i \in 1..Len(q) : x = q[i]
    BY <1>1 DEF Elements
  <2>2. CASE i = 1
    BY <1>1, <2>1, <2>2
  <2>3. CASE i # 1
    <3>1. i - 1 \in DOMAIN Tail(q) /\ Tail(q)[i - 1] = x
      BY <1>1, <2>1, <2>3
    <3> QED BY <3>1 DEF Elements
  <2> QED BY <2>2, <2>3
<1>3. ASSUME NEW x \in {Head(q)} \cup Elements(Tail(q)) PROVE x \in Elements(q)
  <2>1. CASE x = Head(q)
    BY <1>1, <2>1 DEF Elements
  <2>2. CASE x \in Elements(Tail(q))
    <3>1. PICK i \in 1..(Len(q) - 1) : x = q[i + 1]
      BY <1>1, <2>2 DEF Elements
    <3>2. i + 1 \in DOMAIN q
      BY <1>1
    <3> QED BY <3>1, <3>2 DEF Elements
  <2> QED BY <1>3, <2>1, <2>2
<1> QED BY <1>2, <1>3

LEMMA EmptyQueue == Elements(<<>>) = {} /\ Increasing(<<>>)
BY DEF Elements, Increasing

LEMMA IncreasingAppend ==
    ASSUME NEW q \in Seq(Ticket), Increasing(q), NEW x \in Ticket,
           \A y \in Elements(q) : y.seq < x.seq
    PROVE  Increasing(Append(q, x))
<1>1. /\ Len(q) \in Nat /\ DOMAIN q = 1..Len(q)
      /\ DOMAIN Append(q, x) = 1..(Len(q) + 1)
      /\ \A i \in 1..Len(q) : Append(q, x)[i] = q[i]
      /\ Append(q, x)[Len(q) + 1] = x
  OBVIOUS
<1> SUFFICES ASSUME NEW i \in 1..(Len(q) + 1), NEW j \in 1..(Len(q) + 1), i < j
             PROVE  Append(q, x)[i].seq < Append(q, x)[j].seq
  BY <1>1 DEF Increasing
<1>2. i \in 1..Len(q) /\ Append(q, x)[i] = q[i] /\ q[i] \in Elements(q)
  BY <1>1 DEF Elements
<1>3. CASE j = Len(q) + 1
  BY <1>1, <1>2, <1>3
<1>4. CASE j # Len(q) + 1
  BY <1>1, <1>2, <1>4 DEF Increasing
<1> QED BY <1>3, <1>4

LEMMA IncreasingTail ==
    ASSUME NEW q \in Seq(Ticket), Increasing(q), q # <<>>
    PROVE  /\ Increasing(Tail(q))
           /\ \A y \in Elements(Tail(q)) : Head(q).seq < y.seq
<1>1. /\ Len(q) \in Nat /\ Len(q) > 0 /\ DOMAIN q = 1..Len(q)
      /\ DOMAIN Tail(q) = 1..(Len(q) - 1)
      /\ \A i \in 1..(Len(q) - 1) : Tail(q)[i] = q[i + 1]
      /\ Head(q) = q[1]
  OBVIOUS
<1>2. Increasing(Tail(q))
  <2> SUFFICES ASSUME NEW i \in 1..(Len(q) - 1), NEW j \in 1..(Len(q) - 1), i < j
               PROVE  Tail(q)[i].seq < Tail(q)[j].seq
    BY <1>1 DEF Increasing
  <2>1. i + 1 \in DOMAIN q /\ j + 1 \in DOMAIN q /\ i + 1 < j + 1
    BY <1>1
  <2> QED BY <1>1, <2>1 DEF Increasing
<1>3. ASSUME NEW y \in Elements(Tail(q)) PROVE Head(q).seq < y.seq
  <2>1. PICK i \in 1..(Len(q) - 1) : y = q[i + 1]
    BY <1>1 DEF Elements
  <2>2. 1 \in DOMAIN q /\ i + 1 \in DOMAIN q /\ 1 < i + 1
    BY <1>1
  <2> QED BY <1>1, <2>1, <2>2 DEF Increasing
<1> QED BY <1>2, <1>3

-----------------------------------------------------------------------------
(* Clients.                                                                  *)

\* Requests are made in an owner's name, refreshes and the idle command in nobody's.
WellFormed(t) == t.kind = "Request" <=> t.owner \in Owners

\* The new ticket of Submit, and what it is added to.
LEMMA SubmitAdds ==
    ASSUME TypeOK, NEW i \in Intents, Submit(i)
    PROVE  \E t \in Ticket :
              /\ t.seq = nextTicket /\ t.slot \notin slots /\ WellFormed(t)
              /\ slots' = slots \cup {t.slot}
              /\ held' = held \cup {t}
              /\ cmds' = Append(cmds, t)
              /\ Elements(cmds') = Elements(cmds) \cup {t}
              /\ Unsettled' = Unsettled \cup {t}
<1>1. PICK s \in FreeSlots :
        LET t == [seq |-> nextTicket, kind |-> i.kind, owner |-> i.owner, slot |-> s]
        IN  slots' = slots \cup {s} /\ cmds' = Append(cmds, t) /\ held' = held \cup {t}
  BY DEF Submit
<1> DEFINE t == [seq |-> nextTicket, kind |-> i.kind, owner |-> i.owner, slot |-> s]
<1>2. t \in Ticket /\ t.slot \notin slots /\ t.slot = s /\ t.seq = nextTicket
  BY IntentsAssumption DEF AllIntents, Ticket, Kinds, TypeOK, FreeSlots
<1>3. slots' = slots \cup {t.slot} /\ cmds' = Append(cmds, t) /\ held' = held \cup {t}
  BY <1>1, <1>2
<1>w. WellFormed(t)
  BY IntentsAssumption DEF AllIntents, WellFormed, Owners, NoOwner
<1> HIDE DEF t
<1>4. Elements(cmds') = Elements(cmds) \cup {t}
  BY <1>2, <1>3, ElementsOfAppend DEF TypeOK
<1>5. t # NoTicket
  BY <1>2, NoneIsNone
<1>6. backlog' = backlog /\ inflight' = inflight /\ deferred' = deferred /\ joined' = joined
  BY DEF Submit, turnVars, coordVars
<1>7. Unsettled' = Unsettled \cup {t}
  <2>1. Unsettled' = (Elements(cmds') \cup Elements(backlog) \cup {inflight, deferred}
                        \cup joined) \ {NoTicket}
    BY <1>6 DEF Unsettled, Elements
  <2> QED BY <1>4, <1>5, <2>1 DEF Unsettled
<1> QED BY <1>2, <1>3, <1>4, <1>7, <1>w

\* The other client operations leave the owed tickets alone.
LEMMA UnsettledUnchanged ==
    ASSUME UNCHANGED <<cmds, backlog, inflight, deferred, joined>>
    PROVE  Unsettled' = Unsettled
BY DEF Unsettled, Elements

LEMMA SubmitKeepsSlots ==
    ASSUME TypeOK, SlotInv, NEW i \in Intents, Submit(i)
    PROVE  SlotInv'
<1> USE DEF SlotInv
<1>1. PICK n \in Ticket :
         /\ n.seq = nextTicket /\ n.slot \notin slots
         /\ slots' = slots \cup {n.slot} /\ held' = held \cup {n}
         /\ Unsettled' = Unsettled \cup {n}
  BY SubmitAdds
<1>2. /\ thread.pc = "run" /\ thread' = thread /\ discarded' = discarded /\ results' = results
      /\ nextTicket' = nextTicket + 1
  BY DEF Submit, ClientMayRun, Idling
<1>3. Known = Unsettled \cup held /\ Known' = Known \cup {n}
  BY <1>1, <1>2 DEF Known, Leaving
<1>4. \A t \in Known : t.slot \in slots
  BY <1>3 DEF OwedSlotsAreEmpty, HeldAreOwed
<1>5. n \notin Known /\ n.slot \in Slots /\ n.slot \notin discarded /\ results[n.slot] = NoResult
  BY <1>1, <1>4 DEF MarksAreLive, ResultBelongsToHolder, Ticket
<1>6. OwedSlotsAreEmpty'
  BY <1>1, <1>2, <1>5 DEF OwedSlotsAreEmpty
<1>7. SlotsDiffer'
  BY <1>1, <1>3, <1>4 DEF SlotsDiffer
<1>8. KnownAreIssued'
  BY <1>1, <1>2, <1>3, KnownType DEF KnownAreIssued, TypeOK
<1>9. HeldAreOwed'
  BY <1>1, <1>2, <1>5 DEF HeldAreOwed, Owed
<1>10. DiscardIsSound'
  BY <1>2 DEF DiscardIsSound
<1>11. MarksAreLive' /\ AbandonedAreMarked'
  <2>1. n \notin Unsettled
    BY <1>3, <1>5
  <2>2. MarksAreLive'
    BY <1>1, <1>2, <2>1 DEF MarksAreLive
  <2>3. AbandonedAreMarked'
    BY <1>1, <1>2 DEF AbandonedAreMarked
  <2> QED BY <2>2, <2>3
<1>12. ResultBelongsToHolder'
  BY <1>1, <1>2, <1>5 DEF ResultBelongsToHolder
<1>13. NoSlotLeak'
  BY <1>1, <1>2 DEF NoSlotLeak
<1> QED BY <1>6, <1>7, <1>8, <1>9, <1>10, <1>11, <1>12, <1>13

\* Consuming the answer of a ticket that is held, which is the whole of try_take and
\* the end of a discard that finds the answer there.
LEMMA TakeKeepsSlots ==
    ASSUME TypeOK, SlotInv, NEW t \in held, thread = Idling,
           results[t.slot].ticket = t,
           results' = [results EXCEPT ![t.slot] = NoResult],
           slots' = slots \ {t.slot}, held' = held \ {t},
           UNCHANGED <<thread, discarded, nextTicket>>, Unsettled' = Unsettled
    PROVE  SlotInv'
<1> USE DEF SlotInv
<1>1. thread.pc = "run" /\ Known = Unsettled \cup held /\ Known' \subseteq Known
  BY DEF Known, Leaving, Idling
<1>2. t \in Ticket /\ t.slot \in Slots /\ \A u \in Known : u.slot \in Slots
  BY <1>1, KnownType
<1>3. results[t.slot] # NoResult
  BY <1>2, NoneIsNone DEF NoResult, Result
<1>4. t \notin Unsettled
  BY <1>2, <1>3 DEF OwedSlotsAreEmpty
<1>5. \A u \in Known \ {t} : u.slot # t.slot
  BY <1>1 DEF SlotsDiffer
<1>6. /\ results'[t.slot] = NoResult
      /\ \A s \in Slots \ {t.slot} : results'[s] = results[s]
  BY <1>2 DEF TypeOK
<1>7. OwedSlotsAreEmpty' /\ HeldAreOwed'
  BY <1>1, <1>2, <1>4, <1>5, <1>6 DEF OwedSlotsAreEmpty, HeldAreOwed, Owed
<1>8. SlotsDiffer' /\ KnownAreIssued'
  BY <1>1 DEF SlotsDiffer, KnownAreIssued
<1>9. DiscardIsSound'
  BY <1>1 DEF DiscardIsSound
<1>10. t.slot \notin discarded
  BY DEF HeldAreOwed
<1>11. MarksAreLive' /\ AbandonedAreMarked'
  BY <1>1, <1>4, <1>10 DEF MarksAreLive, AbandonedAreMarked
<1>12. ResultBelongsToHolder'
  BY <1>1, <1>5, <1>6 DEF ResultBelongsToHolder
<1>13. NoSlotLeak'
  BY <1>1, <1>4, <1>6 DEF NoSlotLeak, TypeOK
<1> QED BY <1>7, <1>8, <1>9, <1>11, <1>12, <1>13

LEMMA DiscardBeginKeepsSlots ==
    ASSUME TypeOK, SlotInv, NEW t \in held, DiscardBegin(t)
    PROVE  SlotInv'
<1> USE DEF SlotInv
<1>0. Unsettled' = Unsettled
  BY UnsettledUnchanged DEF DiscardBegin, coordVars, turnVars, chanVars
<1>1. CASE results[t.slot].ticket = t
  BY <1>0, <1>1, TakeKeepsSlots DEF DiscardBegin, ClientMayRun
<1>2. CASE results[t.slot].ticket # t
  <2>1. /\ thread.pc = "run" /\ thread' = [pc |-> "mark", ticket |-> t] /\ held' = held \ {t}
        /\ UNCHANGED <<slots, discarded, results, nextTicket>>
    BY <1>2 DEF DiscardBegin, ClientMayRun, Idling
  <2>2. Known' = Known
    BY <1>0, <2>1 DEF Known, Leaving
  <2>3. OwedSlotsAreEmpty' /\ SlotsDiffer' /\ KnownAreIssued'
    BY <1>0, <2>1, <2>2 DEF OwedSlotsAreEmpty, SlotsDiffer, KnownAreIssued
  <2>4. HeldAreOwed' /\ DiscardIsSound'
    BY <1>0, <2>1 DEF HeldAreOwed, DiscardIsSound, Owed
  <2>5. MarksAreLive' /\ AbandonedAreMarked'
    BY <1>0, <2>1 DEF MarksAreLive, AbandonedAreMarked
  <2>6. ResultBelongsToHolder' /\ NoSlotLeak'
    BY <1>0, <2>1 DEF ResultBelongsToHolder, NoSlotLeak
  <2> QED BY <2>3, <2>4, <2>5, <2>6
<1> QED BY <1>1, <1>2

LEMMA DiscardMarkKeepsSlots ==
    ASSUME TypeOK, SlotInv, DiscardMark
    PROVE  SlotInv'
<1> USE DEF SlotInv
<1> DEFINE t == thread.ticket
<1>0. Unsettled' = Unsettled
  BY UnsettledUnchanged DEF DiscardMark, coordVars, turnVars, chanVars
<1>1. /\ thread.pc = "mark" /\ thread' = [pc |-> "retake", ticket |-> t]
      /\ discarded' = discarded \cup {t.slot}
      /\ UNCHANGED <<held, slots, results, nextTicket>>
  BY DEF DiscardMark, TypeOK
<1>2. t \in Known /\ t \notin held /\ t.slot \in slots /\ Owed(t)
  BY <1>1 DEF Known, Leaving, DiscardIsSound
<1>3. Known' = Known
  BY <1>0, <1>1 DEF Known, Leaving
<1>4. OwedSlotsAreEmpty' /\ SlotsDiffer' /\ KnownAreIssued'
  BY <1>0, <1>1, <1>3 DEF OwedSlotsAreEmpty, SlotsDiffer, KnownAreIssued
<1>5. \A u \in held : u.slot # t.slot
  BY <1>2 DEF SlotsDiffer, Known
<1>6. HeldAreOwed'
  BY <1>0, <1>1, <1>5 DEF HeldAreOwed, Owed
<1>7. DiscardIsSound'
  BY <1>0, <1>1, <1>2 DEF DiscardIsSound, Owed
<1>8. MarksAreLive' /\ AbandonedAreMarked'
  BY <1>0, <1>1, <1>2 DEF MarksAreLive, AbandonedAreMarked
<1>9. ResultBelongsToHolder' /\ NoSlotLeak'
  BY <1>0, <1>1 DEF ResultBelongsToHolder, NoSlotLeak
<1> QED BY <1>4, <1>6, <1>7, <1>8, <1>9

\* The clients' half of the race: a result that is there at the second try_take
\* can only be the discarded ticket's own.
LEMMA DiscardRetakeKeepsSlots ==
    ASSUME TypeOK, SlotInv, DiscardRetake
    PROVE  SlotInv'
<1> USE DEF SlotInv
<1> DEFINE t == thread.ticket
           r == results[t.slot]
<1>0. Unsettled' = Unsettled
  BY UnsettledUnchanged DEF DiscardRetake, coordVars, turnVars, chanVars
<1>1. thread.pc = "retake" /\ UNCHANGED <<held, slots, discarded, nextTicket>>
  BY DEF DiscardRetake
<1>2. t \in Known /\ t \in Ticket /\ t.slot \in Slots /\ t \notin held
  BY <1>1, KnownType DEF Known, Leaving, DiscardIsSound
<1>3. CASE r = NoResult
  <2>1. thread' = Idling /\ results' = results
    BY <1>3 DEF DiscardRetake
  <2>2. Known' \subseteq Known /\ thread'.pc = "run"
    BY <1>0, <1>1, <2>1 DEF Known, Leaving, Idling
  <2>3. OwedSlotsAreEmpty' /\ SlotsDiffer' /\ KnownAreIssued'
    BY <1>0, <1>1, <2>1, <2>2 DEF OwedSlotsAreEmpty, SlotsDiffer, KnownAreIssued
  <2>4. HeldAreOwed' /\ DiscardIsSound' /\ AbandonedAreMarked'
    BY <1>0, <1>1, <2>1, <2>2 DEF HeldAreOwed, DiscardIsSound, AbandonedAreMarked, Owed
  <2>5. t.slot \in slots => t \in Unsettled
    BY <1>1, <1>2, <1>3, NoneIsNone DEF DiscardIsSound, Owed, NoResult, Result
  <2>6. MarksAreLive'
    BY <1>0, <1>1, <1>2, <2>1, <2>2, <2>5 DEF MarksAreLive
  <2>7. ResultBelongsToHolder'
    BY <1>0, <1>1, <1>3, <2>1, <2>2 DEF ResultBelongsToHolder
  <2>8. NoSlotLeak'
    BY <1>0, <1>1, <2>1, <2>2 DEF NoSlotLeak
  <2> QED BY <2>3, <2>4, <2>6, <2>7, <2>8
<1>4. CASE r # NoResult
  <2>1. t.slot \in slots /\ r.ticket \in Known /\ r.ticket.slot = t.slot
    BY <1>2, <1>4 DEF ResultBelongsToHolder, Known, Leaving
  <2>2. r.ticket = t
    BY <1>2, <2>1 DEF SlotsDiffer
  <2>3. t \notin Unsettled
    BY <1>2, <1>4, <2>2 DEF ResultBelongsToHolder
  <2>4. t.slot \in discarded
    BY <1>1, <2>1 DEF DiscardIsSound
  <2>5. /\ thread' = [pc |-> "unmark", ticket |-> t]
        /\ results' = [results EXCEPT ![t.slot] = NoResult]
    BY <1>4, <2>2 DEF DiscardRetake, TypeOK
  <2>6. /\ results'[t.slot] = NoResult
        /\ \A s \in Slots \ {t.slot} : results'[s] = results[s]
    BY <1>2, <2>5 DEF TypeOK
  <2>7. Known' = Known
    BY <1>0, <1>1, <2>5 DEF Known, Leaving
  <2>8. \A u \in Known \ {t} : u.slot # t.slot /\ u.slot \in Slots
    BY <1>2, KnownType DEF SlotsDiffer
  <2>9. SlotsDiffer' /\ KnownAreIssued'
    BY <1>1, <2>7 DEF SlotsDiffer, KnownAreIssued
  <2>10. OwedSlotsAreEmpty' /\ HeldAreOwed'
    BY <1>0, <1>1, <1>2, <2>3, <2>6, <2>8 DEF OwedSlotsAreEmpty, HeldAreOwed, Owed, Known
  <2>11. DiscardIsSound'
    BY <1>0, <1>1, <1>2, <2>1, <2>3, <2>4, <2>5, <2>6 DEF DiscardIsSound
  <2>12. MarksAreLive' /\ AbandonedAreMarked'
    BY <1>0, <1>1, <2>5 DEF MarksAreLive, AbandonedAreMarked
  <2>13. ResultBelongsToHolder'
    BY <1>0, <1>1, <2>5, <2>6 DEF ResultBelongsToHolder
  <2>14. NoSlotLeak'
    BY <1>0, <1>1, <2>5, <2>6 DEF NoSlotLeak, TypeOK
  <2> QED BY <2>9, <2>10, <2>11, <2>12, <2>13, <2>14
<1> QED BY <1>3, <1>4

LEMMA DiscardUnmarkKeepsSlots ==
    ASSUME TypeOK, SlotInv, DiscardUnmark
    PROVE  SlotInv'
<1> USE DEF SlotInv
<1> DEFINE t == thread.ticket
<1>0. Unsettled' = Unsettled
  BY UnsettledUnchanged DEF DiscardUnmark, coordVars, turnVars, chanVars
<1>1. thread.pc = "unmark" /\ thread' = Idling /\ UNCHANGED <<held, results, nextTicket>>
  BY DEF DiscardUnmark
<1>2. /\ t \in Known /\ t.slot \in Slots /\ t \notin held /\ t \notin Unsettled
      /\ results[t.slot] = NoResult
  BY <1>1, KnownType DEF Known, Leaving, DiscardIsSound
<1>3. discarded' = discarded \ {t.slot} /\ slots' = slots \ {t.slot}
  BY <1>2 DEF DiscardUnmark
<1>4. Known' \subseteq Known /\ thread'.pc = "run"
  BY <1>0, <1>1 DEF Known, Leaving, Idling
<1>5. \A u \in Unsettled \cup held : u.slot # t.slot
  BY <1>2 DEF SlotsDiffer, Known
<1>6. SlotsDiffer' /\ KnownAreIssued'
  BY <1>1, <1>4 DEF SlotsDiffer, KnownAreIssued
<1>7. OwedSlotsAreEmpty' /\ HeldAreOwed'
  BY <1>0, <1>1, <1>3, <1>5 DEF OwedSlotsAreEmpty, HeldAreOwed, Owed
<1>8. DiscardIsSound'
  BY <1>4 DEF DiscardIsSound
<1>9. MarksAreLive' /\ AbandonedAreMarked'
  BY <1>0, <1>1, <1>3, <1>5 DEF MarksAreLive, AbandonedAreMarked
<1>10. ResultBelongsToHolder' /\ NoSlotLeak'
  BY <1>0, <1>1, <1>2, <1>3, <1>4 DEF ResultBelongsToHolder, NoSlotLeak
<1> QED BY <1>6, <1>7, <1>8, <1>9, <1>10

-----------------------------------------------------------------------------
(* The coordinator.  A ticket that is owed an answer is in exactly one place: *)
(* queued, in flight, joined to the refresh in flight, or deferred.           *)

Queued == Elements(cmds) \cup Elements(backlog)
Placed == ({inflight, deferred} \cup joined) \ {NoTicket}

PlacesDiffer ==
    /\ inflight = NoTicket \/ deferred = NoTicket
    /\ inflight \notin joined
    /\ joined # {} => inflightRefresh
    /\ inflightRefresh => inflight # NoTicket /\ inflight.kind = "Refresh"

\* Commands leave the queue in the order of their sequence numbers, so everything
\* placed is older than everything queued.
QueuesAreOrdered ==
    /\ Increasing(cmds) /\ Increasing(backlog)
    /\ step = "settle" => cmds = <<>>
    /\ step # "settle" => backlog = <<>>
    /\ \A t \in Placed, q \in Queued : t.seq < q.seq

\* No watermark above the tickets issued so far, or over a ticket that is still owed.
WatermarkIsSound == WatermarkSparesLiveTickets /\ cancelled < nextTicket

OrderInv == PlacesDiffer /\ QueuesAreOrdered /\ WatermarkIsSound

LEMMA UnsettledParts ==
    ASSUME TypeOK
    PROVE  Unsettled = Queued \cup Placed
<1>1. NoTicket \notin Queued
  BY NoneIsNone DEF Queued, Elements, TypeOK
<1> QED BY <1>1 DEF Unsettled, Queued, Placed

LEMMA UnsettledPartsNext ==
    ASSUME TypeOK'
    PROVE  Unsettled' = Queued' \cup Placed'
<1>1. NoTicket \notin Queued'
  BY NoneIsNone DEF Queued, Elements, TypeOK
<1> QED BY <1>1 DEF Unsettled, Queued, Placed

\* dispatch_power_command, for a command that has just left the queue or for the
\* deferred command that is retried: everything that was placed, and the command,
\* is placed afterwards or has been answered, never both and never neither; a
\* cancellation happens only when the command takes the place of all the others.
LEMMA DispatchSettles ==
    ASSUME TypeOK, PlacesDiffer, NEW c \in Ticket, NEW d \in TicketOrNone, Dispatch(c, d),
           \/ d = deferred /\ c \notin Placed
           \/ d = NoTicket /\ c = deferred
    PROVE  /\ PlacesDiffer'
           /\ \E rs \in SUBSET ResultSet :
                 /\ SignalTickets(rs)
                 /\ {r.ticket : r \in rs} \subseteq Placed \cup {c}
                 /\ Placed' = (Placed \cup {c}) \ {r.ticket : r \in rs}
           /\ \/ cancelled' = cancelled
              \/ /\ inflight # NoTicket /\ c \notin Placed
                 /\ Placed' = {c}
                 /\ cancelled' = WatermarkAfterCancel(inflight)
<1> DEFINE v        == Verdict(c, d)
           replaced == IF d # NoTicket /\ v \notin {"Preparing", "DeferredWins"} THEN {d} ELSE {}
           unseats  == v \in {"Send", "Defer"} /\ inflight # NoTicket
           full     == v = "Join" /\ Cardinality(joined) >= SlotCount
           losers   == replaced
                         \cup (IF unseats THEN {inflight} \cup joined ELSE {})
                         \cup (IF v \in {"DeferredWins", "ActiveWins", "InflightWins"}
                                 THEN {c} ELSE {})
           refused  == IF v = "Preparing" \/ full THEN {c} ELSE {}
           rs       == {Result(t, "Superseded") : t \in losers}
                         \cup {Result(t, "Rejected") : t \in refused}
           A        == losers \cup refused
<1>1. losers \subseteq Ticket /\ refused \subseteq Ticket
  BY DEF TypeOK, TicketOrNone
<1>2. rs \in SUBSET ResultSet /\ {r.ticket : r \in rs} = A
  <2>1. "Superseded" \in Outcomes /\ "Rejected" \in Outcomes
    BY DEF Outcomes
  <2>2. \A t \in losers : Result(t, "Superseded") \in ResultSet
                           /\ Result(t, "Superseded").ticket = t
    BY <1>1, <2>1, ResultIsTyped
  <2>3. \A t \in refused : Result(t, "Rejected") \in ResultSet
                            /\ Result(t, "Rejected").ticket = t
    BY <1>1, <2>1, ResultIsTyped
  <2> HIDE DEF losers, refused
  <2> QED BY <2>2, <2>3
<1>3. SignalTickets(rs)
  BY DEF Dispatch
<1>4. v \in {"Preparing", "DeferredWins", "ActiveWins", "Join", "InflightWins", "Send", "Defer"}
  BY DEF Verdict
<1>5. v = "Join" => c.kind = "Refresh" /\ inflightRefresh
  BY DEF Verdict, ShouldJoinRefresh
<1>6. v = "DeferredWins" => d # NoTicket
  BY DEF Verdict
<1>7. v = "InflightWins" => inflight # NoTicket
  BY DEF Verdict
<1>8. /\ cancelled' = IF unseats THEN WatermarkAfterCancel(inflight) ELSE cancelled
      /\ inflight' = CASE v = "Send" -> c [] v = "Defer" -> NoTicket [] OTHER -> inflight
      /\ joined' = CASE unseats -> {}
                     [] v = "Join" /\ ~full -> joined \cup {c}
                     [] OTHER -> joined
      /\ deferred' = CASE v = "Defer" -> c
                       [] v \in {"Preparing", "DeferredWins"} -> d
                       [] OTHER -> NoTicket
  BY DEF Dispatch
<1>9. inflightRefresh' <=> \/ v = "Send" /\ c.kind = "Refresh"
                           \/ v \notin {"Send"} /\ ~unseats /\ inflightRefresh
  <2>1. inflightRefresh' = CASE v = "Send" -> c.kind = "Refresh"
                             [] v # "Send" /\ unseats -> FALSE
                             [] OTHER -> inflightRefresh
    BY Zenon DEF Dispatch
  <2>2. inflightRefresh \in BOOLEAN
    BY Zenon DEF TypeOK
  <2> HIDE DEF v, unseats
  <2> QED BY <2>1, <2>2
<1>10. c # NoTicket /\ c \notin joined /\ NoTicket \notin joined /\ c # inflight
       /\ (d # NoTicket => d \notin joined /\ d = deferred)
       /\ (deferred # NoTicket => joined = {})
  BY NoneIsNone DEF TypeOK, PlacesDiffer, Placed
<1> HIDE DEF v
<1>11. PlacesDiffer'
  BY <1>4, <1>5, <1>8, <1>9, <1>10 DEF PlacesDiffer
<1>12. A \subseteq Placed \cup {c}
  BY <1>10 DEF Placed
<1>13. Placed' = (Placed \cup {c}) \ A
  <2>1. Placed' = ({inflight', deferred'} \cup joined') \ {NoTicket}
    BY DEF Placed
  <2>2. CASE v = "Preparing"
    BY <1>8, <1>10, <2>1, <2>2 DEF Placed
  <2>3. CASE v = "DeferredWins"
    BY <1>6, <1>8, <1>10, <2>1, <2>3 DEF Placed
  <2>4. CASE v = "ActiveWins"
    BY <1>8, <1>10, <2>1, <2>4 DEF Placed, PlacesDiffer
  <2>5. CASE v = "Join"
    BY <1>5, <1>8, <1>10, <2>1, <2>5 DEF Placed, PlacesDiffer
  <2>6. CASE v = "InflightWins"
    BY <1>7, <1>8, <1>10, <2>1, <2>6 DEF Placed, PlacesDiffer
  <2>7. CASE v = "Send"
    BY <1>8, <1>10, <2>1, <2>7 DEF Placed, PlacesDiffer
  <2>8. CASE v = "Defer"
    BY <1>8, <1>10, <2>1, <2>8 DEF Placed, PlacesDiffer
  <2> QED BY <1>4, <2>2, <2>3, <2>4, <2>5, <2>6, <2>7, <2>8
<1>14. \/ cancelled' = cancelled
       \/ /\ inflight # NoTicket /\ c \notin Placed /\ Placed' = {c}
          /\ cancelled' = WatermarkAfterCancel(inflight)
  <2>1. CASE ~unseats
    BY <1>8, <2>1
  <2>2. CASE unseats
    <3>1. Placed' = {c} /\ cancelled' = WatermarkAfterCancel(inflight)
      BY <1>8, <1>10, <2>2 DEF Placed
    <3>2. c \notin Placed
      BY <1>10, <2>2 DEF Placed, PlacesDiffer
    <3> QED BY <2>2, <3>1, <3>2
  <2> QED BY <2>1, <2>2
<1> QED BY <1>2, <1>3, <1>11, <1>12, <1>13, <1>14

\* A coordinator step that answers some of the tickets outside the queue, and places
\* the others.  M holds every owed ticket that the step has in its hands.
LEMMA StepSettles ==
    ASSUME TypeOK, TypeOK', SlotInv, NEW rs \in SUBSET ResultSet, SignalTickets(rs),
           NEW M, Unsettled = M \cup Queued',
           \A m \in M, q \in Queued' : m.seq < q.seq,
           {r.ticket : r \in rs} \subseteq M, Placed' = M \ {r.ticket : r \in rs},
           UNCHANGED <<held, thread, nextTicket>>
    PROVE  /\ SlotInv'
           /\ Unsettled' \subseteq Unsettled
           /\ \A t \in Placed', q \in Queued' : t.seq < q.seq
<1> DEFINE A == {r.ticket : r \in rs}
<1>1. \A t \in Unsettled : t.seq \in Nat
  BY KnownType DEF Known
<1>2. A \cap Queued' = {}
  <2> SUFFICES ASSUME NEW t \in A, t \in Queued' PROVE FALSE
    OBVIOUS
  <2>1. t.seq < t.seq /\ t \in Unsettled
    OBVIOUS
  <2> QED BY <1>1, <2>1
<1>3. Unsettled' = Queued' \cup Placed'
  BY UnsettledPartsNext
<1>4. Unsettled' = Unsettled \ A /\ A \subseteq Unsettled
  BY <1>2, <1>3
<1> HIDE DEF A
<1>5. SlotInv'
  BY <1>4, SignalKeepsSlots DEF A
<1> QED BY <1>4, <1>5

\* A step that changes nothing of the slots and moves no ticket.
LEMMA SlotsUntouched ==
    ASSUME SlotInv, Unsettled' = Unsettled, UNCHANGED <<held, thread, nextTicket, ticketVars>>
    PROVE  SlotInv'
<1>1. Known' = Known
  BY DEF Known, Leaving
<1> QED BY <1>1 DEF ticketVars, SlotInv, OwedSlotsAreEmpty, SlotsDiffer, KnownAreIssued,
                    HeldAreOwed,
         DiscardIsSound, MarksAreLive, AbandonedAreMarked, ResultBelongsToHolder, NoSlotLeak,
         Owed

\* The watermark stays below every ticket that is still owed an answer when the
\* dispatched command c is not placed before and is younger than what is.
LEMMA WatermarkStep ==
    ASSUME TypeOK, TypeOK', SlotInv, WatermarkIsSound, Unsettled' \subseteq Unsettled,
           nextTicket' = nextTicket, NEW c \in Ticket,
           \/ cancelled' = cancelled
           \/ /\ inflight # NoTicket /\ Placed' = {c}
              /\ cancelled' = WatermarkAfterCancel(inflight)
              /\ inflight.seq < c.seq
              /\ \A q \in Queued' : inflight.seq < q.seq
    PROVE  WatermarkIsSound'
<1> USE DEF WatermarkIsSound, WatermarkSparesLiveTickets
<1>1. \A t \in Unsettled : t.seq \in Nat /\ t.seq > cancelled /\ t.seq < nextTicket
  BY KnownType DEF Known, SlotInv, KnownAreIssued
<1>2. CASE cancelled' = cancelled
  BY <1>1, <1>2
<1>3. CASE cancelled' # cancelled
  <2>1. \A t \in Unsettled' : inflight.seq < t.seq /\ t.seq > cancelled
    <3>1. Unsettled' = Queued' \cup Placed'
      BY UnsettledPartsNext
    <3> QED BY <1>1, <1>3, <3>1
  <2>2. cancelled' \in {cancelled, inflight.seq}
    BY <1>3 DEF WatermarkAfterCancel
  <2>3. inflight.seq \in Nat /\ cancelled \in Nat /\ inflight.seq < nextTicket
    BY <1>1, <1>3 DEF TypeOK, TicketOrNone, Ticket, NoTicket, Unsettled
  <2> QED BY <1>1, <2>1, <2>2, <2>3
<1> QED BY <1>2, <1>3

TicketInv == TypeOK /\ SlotInv /\ OrderInv

\* What leaving the head of a queue means, for the command queue and the backlog.
LEMMA HeadLeaves ==
    ASSUME TypeOK, OrderInv, NEW q \in Seq(Ticket), Increasing(q), q # <<>>,
           Queued = Elements(q), Queued' = Elements(Tail(q))
    PROVE  /\ Head(q) \in Ticket /\ Head(q) \notin Placed
           /\ \A t \in Placed : t.seq < Head(q).seq
           /\ Unsettled = (Placed \cup {Head(q)}) \cup Queued'
           /\ \A m \in Placed \cup {Head(q)}, y \in Queued' : m.seq < y.seq
<1>1. Queued = {Head(q)} \cup Queued' /\ Head(q) \in Ticket
  BY ElementsOfTail, QueueType
<1>2. \A y \in Queued' : Head(q).seq < y.seq
  BY IncreasingTail
<1>3. \A t \in Placed : t.seq < Head(q).seq /\ \A y \in Queued' : t.seq < y.seq
  BY <1>1 DEF OrderInv, QueuesAreOrdered
<1>4. Head(q) \notin Placed
  BY <1>1, <1>3 DEF Ticket
<1> QED BY <1>1, <1>2, <1>3, <1>4, UnsettledParts

\* Dispatching the head of a queue keeps slots, places and watermark sound.
LEMMA DispatchHead ==
    ASSUME TypeOK, TypeOK', SlotInv, OrderInv, NEW q \in Seq(Ticket), Increasing(q), q # <<>>,
           Queued = Elements(q), Queued' = Elements(Tail(q)), Dispatch(Head(q), deferred),
           UNCHANGED <<held, thread, nextTicket>>
    PROVE  /\ SlotInv' /\ PlacesDiffer' /\ WatermarkIsSound'
           /\ \A t \in Placed', y \in Queued' : t.seq < y.seq
<1> DEFINE c == Head(q)
<1>1. /\ c \in Ticket /\ c \notin Placed
      /\ \A t \in Placed : t.seq < c.seq
      /\ Unsettled = (Placed \cup {c}) \cup Queued'
      /\ \A m \in Placed \cup {c}, y \in Queued' : m.seq < y.seq
  BY HeadLeaves
<1>2. deferred \in TicketOrNone /\ PlacesDiffer /\ Dispatch(c, deferred)
  BY DEF TypeOK, OrderInv
<1> HIDE DEF c
<1>3. /\ PlacesDiffer'
      /\ \E rs \in SUBSET ResultSet :
            /\ SignalTickets(rs)
            /\ {r.ticket : r \in rs} \subseteq Placed \cup {c}
            /\ Placed' = (Placed \cup {c}) \ {r.ticket : r \in rs}
      /\ \/ cancelled' = cancelled
         \/ /\ inflight # NoTicket /\ c \notin Placed
            /\ Placed' = {c}
            /\ cancelled' = WatermarkAfterCancel(inflight)
  BY <1>1, <1>2, DispatchSettles
<1>4. PICK rs \in SUBSET ResultSet :
         /\ SignalTickets(rs)
         /\ {r.ticket : r \in rs} \subseteq Placed \cup {c}
         /\ Placed' = (Placed \cup {c}) \ {r.ticket : r \in rs}
  BY <1>3
<1>5. /\ SlotInv' /\ Unsettled' \subseteq Unsettled
      /\ \A t \in Placed', y \in Queued' : t.seq < y.seq
  BY <1>1, <1>4, StepSettles
<1>6. inflight # NoTicket => inflight \in Placed
  BY DEF Placed
<1>7. WatermarkIsSound'
  BY <1>1, <1>3, <1>5, <1>6, WatermarkStep DEF OrderInv
<1> QED BY <1>3, <1>5, <1>7

LEMMA ReceiveCommandKeeps ==
    ASSUME TicketInv, TypeOK', ReceiveCommand
    PROVE  SlotInv' /\ OrderInv'
<1> USE DEF TicketInv
<1>1. /\ step = "await" /\ cmds # <<>> /\ cmds \in Seq(Ticket) /\ backlog = <<>>
      /\ Increasing(cmds) /\ Dispatch(Head(cmds), deferred)
      /\ UNCHANGED <<held, thread, nextTicket>>
  BY DEF ReceiveCommand, TypeOK, OrderInv, QueuesAreOrdered, clientVars
<1>2. \/ cmds' = Tail(cmds) /\ backlog' = <<>> /\ step' = "await"
      \/ cmds' = <<>> /\ backlog' = Tail(cmds) /\ step' = "settle"
  BY <1>1 DEF ReceiveCommand, CollectBacklog, turnVars
<1>3. Queued = Elements(cmds) /\ Queued' = Elements(Tail(cmds))
  <2>1. Queued' = Elements(cmds') \cup Elements(backlog')
    BY DEF Queued, Elements
  <2> QED BY <1>1, <1>2, <2>1, EmptyQueue DEF Queued
<1>4. /\ SlotInv' /\ PlacesDiffer' /\ WatermarkIsSound'
      /\ \A t \in Placed', y \in Queued' : t.seq < y.seq
  BY <1>1, <1>3, DispatchHead
<1>5. Increasing(Tail(cmds)) /\ Increasing(<<>>)
  BY <1>1, IncreasingTail, EmptyQueue
<1>6. Increasing(cmds)' /\ Increasing(backlog)'
  BY <1>2, <1>5 DEF Increasing
<1> QED BY <1>2, <1>4, <1>6 DEF OrderInv, QueuesAreOrdered

LEMMA SettleBacklogEntryKeeps ==
    ASSUME TicketInv, TypeOK', SettleBacklogEntry
    PROVE  SlotInv' /\ OrderInv'
<1> USE DEF TicketInv
<1> DEFINE c == Head(backlog)
<1>1. /\ step = "settle" /\ backlog # <<>> /\ backlog \in Seq(Ticket) /\ cmds = <<>>
      /\ Increasing(backlog) /\ backlog' = Tail(backlog) /\ cmds' = cmds /\ step' = step
      /\ UNCHANGED <<held, thread, nextTicket>>
  BY DEF SettleBacklogEntry, TypeOK, OrderInv, QueuesAreOrdered, clientVars
<1>2. Queued = Elements(backlog) /\ Queued' = Elements(Tail(backlog))
  <2>1. Queued' = Elements(cmds') \cup Elements(backlog')
    BY DEF Queued, Elements
  <2> QED BY <1>1, <2>1, EmptyQueue DEF Queued
<1>3. /\ SlotInv' /\ PlacesDiffer' /\ WatermarkIsSound'
      /\ \A t \in Placed', y \in Queued' : t.seq < y.seq
  <2>1. CASE QueuedIsPreempted(c, floor)
    <3> DEFINE rs == {Result(c, "Superseded")}
    <3>1. SignalTickets(rs) /\ UNCHANGED <<coordVars, cancelled>>
      BY <2>1 DEF SettleBacklogEntry
    <3>2. /\ c \in Ticket /\ c \notin Placed
          /\ Unsettled = (Placed \cup {c}) \cup Queued'
          /\ \A m \in Placed \cup {c}, y \in Queued' : m.seq < y.seq
      BY <1>1, <1>2, HeadLeaves
    <3> HIDE DEF c
    <3>3. rs \in SUBSET ResultSet /\ {r.ticket : r \in rs} = {c}
      BY <3>2, ResultIsTyped DEF Outcomes
    <3>4. Placed' = Placed
      BY <3>1 DEF Placed, coordVars
    <3>5. /\ SlotInv' /\ Unsettled' \subseteq Unsettled
          /\ \A t \in Placed', y \in Queued' : t.seq < y.seq
      <4> HIDE DEF rs
      <4>1. {r.ticket : r \in rs} \subseteq Placed \cup {c}
            /\ Placed' = (Placed \cup {c}) \ {r.ticket : r \in rs}
        BY <3>2, <3>3, <3>4
      <4> QED BY <1>1, <3>1, <3>2, <3>3, <4>1, StepSettles
    <3>6. WatermarkIsSound'
      BY <1>1, <3>1, <3>2, <3>5, WatermarkStep DEF OrderInv
    <3>7. PlacesDiffer'
      BY <3>1 DEF PlacesDiffer, OrderInv, coordVars
    <3> QED BY <3>5, <3>6, <3>7
  <2>2. CASE ~QueuedIsPreempted(c, floor)
    <3>1. Dispatch(c, deferred)
      BY <2>2 DEF SettleBacklogEntry
    <3> QED BY <1>1, <1>2, <3>1, DispatchHead
  <2> QED BY <2>1, <2>2
<1>4. Increasing(Tail(backlog)) /\ Increasing(<<>>)
  BY <1>1, IncreasingTail, EmptyQueue
<1>5. Increasing(cmds)' /\ Increasing(backlog)'
  BY <1>1, <1>4 DEF Increasing
<1> HIDE DEF c
<1> QED BY <1>1, <1>3, <1>5 DEF OrderInv, QueuesAreOrdered

\* The queues of a step that leaves them alone, or moves the whole command queue into
\* the backlog.
LEMMA QueuesMove ==
    ASSUME TypeOK, QueuesAreOrdered, step # "settle",
           \/ UNCHANGED <<cmds, backlog>> /\ step' # "settle"
           \/ cmds' = <<>> /\ backlog' = cmds /\ step' = "settle"
    PROVE  /\ Queued' = Queued
           /\ Increasing(cmds)' /\ Increasing(backlog)'
           /\ step' = "settle" => cmds' = <<>>
           /\ step' # "settle" => backlog' = <<>>
<1>1. backlog = <<>> /\ Increasing(cmds) /\ Increasing(<<>>)
  BY EmptyQueue DEF QueuesAreOrdered
<1>2. Queued' = Elements(cmds') \cup Elements(backlog')
  BY DEF Queued, Elements
<1>3. Queued' = Queued
  BY <1>1, <1>2 DEF Queued
<1>4. Increasing(cmds)' /\ Increasing(backlog)'
  BY <1>1 DEF Increasing
<1> QED BY <1>1, <1>3, <1>4

LEMMA RetryDeferredKeeps ==
    ASSUME TicketInv, TypeOK', RetryDeferred
    PROVE  SlotInv' /\ OrderInv'
<1> USE DEF TicketInv
<1>1. step = "retry" /\ UNCHANGED <<held, thread, nextTicket>> /\ QueuesAreOrdered /\ PlacesDiffer
  BY DEF RetryDeferred, clientVars, OrderInv
<1>2. CASE deferred = NoTicket
  <2>1. /\ step' = "await"
        /\ UNCHANGED <<cmds, backlog, inflight, deferred, joined, inflightRefresh, cancelled,
                       ticketVars>>
    BY <1>2 DEF RetryDeferred, coordVars, chanVars
  <2>2. Unsettled' = Unsettled
    BY <2>1, UnsettledUnchanged
  <2>3. SlotInv'
    BY <1>1, <2>1, <2>2, SlotsUntouched
  <2>4. Placed' = Placed /\ PlacesDiffer'
    BY <1>1, <2>1 DEF Placed, PlacesDiffer
  <2>5. QueuesAreOrdered'
    BY <1>1, <2>1, <2>4, QueuesMove DEF QueuesAreOrdered
  <2>6. WatermarkIsSound'
    BY <1>1, <2>1, <2>2 DEF WatermarkIsSound, WatermarkSparesLiveTickets, OrderInv
  <2> QED BY <2>3, <2>4, <2>5, <2>6 DEF OrderInv
<1>3. CASE deferred # NoTicket
  <2> DEFINE c == deferred
  <2>1. c \in Ticket /\ c \in Placed /\ inflight = NoTicket /\ Dispatch(c, NoTicket)
    BY <1>1, <1>3 DEF RetryDeferred, TypeOK, TicketOrNone, Placed, PlacesDiffer
  <2>2. \/ UNCHANGED <<cmds, backlog>> /\ step' # "settle"
        \/ cmds' = <<>> /\ backlog' = cmds /\ step' = "settle"
    BY <1>3 DEF RetryDeferred, CollectBacklog
  <2>3. /\ Queued' = Queued
        /\ Increasing(cmds)' /\ Increasing(backlog)'
        /\ step' = "settle" => cmds' = <<>>
        /\ step' # "settle" => backlog' = <<>>
    BY <1>1, <2>2, QueuesMove
  <2>4. NoTicket \in TicketOrNone
    BY DEF TicketOrNone
  <2>5. /\ PlacesDiffer'
        /\ \E rs \in SUBSET ResultSet :
              /\ SignalTickets(rs)
              /\ {r.ticket : r \in rs} \subseteq Placed \cup {c}
              /\ Placed' = (Placed \cup {c}) \ {r.ticket : r \in rs}
        /\ cancelled' = cancelled
    BY <1>1, <2>1, <2>4, DispatchSettles
  <2>6. PICK rs \in SUBSET ResultSet :
           /\ SignalTickets(rs)
           /\ {r.ticket : r \in rs} \subseteq Placed
           /\ Placed' = Placed \ {r.ticket : r \in rs}
    BY <2>1, <2>5
  <2>7. Unsettled = Placed \cup Queued' /\ \A m \in Placed, y \in Queued' : m.seq < y.seq
    BY <1>1, <2>3, UnsettledParts DEF QueuesAreOrdered
  <2>8. /\ SlotInv' /\ Unsettled' \subseteq Unsettled
        /\ \A t \in Placed', y \in Queued' : t.seq < y.seq
    BY <1>1, <2>6, <2>7, StepSettles
  <2>9. WatermarkIsSound'
    BY <1>1, <2>1, <2>5, <2>8, WatermarkStep DEF OrderInv
  <2> QED BY <2>3, <2>5, <2>8, <2>9 DEF OrderInv, QueuesAreOrdered
<1> QED BY <1>2, <1>3

LEMMA ReceiveTerminalKeeps ==
    ASSUME TicketInv, TypeOK', ReceiveTerminal
    PROVE  SlotInv' /\ OrderInv'
<1> USE DEF TicketInv
<1> DEFINE t == Head(terminals).ticket
           o == Head(terminals).outcome
           rs == {Result(u, o) : u \in {t} \cup joined}
<1>1. /\ step = "await" /\ UNCHANGED <<held, thread, nextTicket, cancelled>>
      /\ QueuesAreOrdered /\ PlacesDiffer
  BY DEF ReceiveTerminal, clientVars, OrderInv
<1>2. \/ UNCHANGED <<cmds, backlog>> /\ step' # "settle"
      \/ cmds' = <<>> /\ backlog' = cmds /\ step' = "settle"
  BY DEF ReceiveTerminal, CollectBacklog
<1>3. /\ Queued' = Queued
      /\ Increasing(cmds)' /\ Increasing(backlog)'
      /\ step' = "settle" => cmds' = <<>>
      /\ step' # "settle" => backlog' = <<>>
  BY <1>1, <1>2, QueuesMove
<1>4. Unsettled = Placed \cup Queued' /\ \A m \in Placed, y \in Queued' : m.seq < y.seq
  BY <1>1, <1>3, UnsettledParts DEF QueuesAreOrdered
<1>5. CASE TerminalMatches(t)
  <2>1. /\ SignalTickets(rs) /\ inflight' = NoTicket /\ joined' = {} /\ deferred' = deferred
        /\ ~inflightRefresh'
    BY <1>5, Zenon DEF ReceiveTerminal
  <2>2. o \in Outcomes
    <3>1. Head(terminals) \in ResultSet
      BY QueueType DEF ReceiveTerminal, TypeOK
    <3> QED BY <3>1 DEF ResultSet
  <2>3. inflight = t /\ inflight \in Ticket /\ deferred = NoTicket
    BY <1>1, <1>5 DEF TerminalMatches, PlacesDiffer, TypeOK, TicketOrNone
  <2>4. Placed = {t} \cup joined /\ Placed \subseteq Ticket /\ Placed' = {}
    BY <2>1, <2>3, NoneIsNone DEF Placed, TypeOK
  <2>5. rs \in SUBSET ResultSet /\ {r.ticket : r \in rs} = Placed
    <3> HIDE DEF t, o
    <3>1. \A u \in {t} \cup joined : Result(u, o) \in ResultSet /\ Result(u, o).ticket = u
      BY <2>2, <2>4, ResultIsTyped
    <3> QED BY <2>4, <3>1
  <2> HIDE DEF t, o, rs
  <2>6. /\ SlotInv' /\ Unsettled' \subseteq Unsettled
    BY <1>1, <1>4, <2>1, <2>4, <2>5, StepSettles
  <2>7. PlacesDiffer'
    BY <2>1 DEF PlacesDiffer
  <2>8. WatermarkIsSound'
    BY <1>1, <2>3, <2>6, WatermarkStep DEF OrderInv
  <2> QED BY <1>3, <2>4, <2>6, <2>7, <2>8 DEF OrderInv, QueuesAreOrdered
<1>6. CASE ~TerminalMatches(t)
  <2>1. UNCHANGED <<ticketVars, inflight, inflightRefresh, joined, deferred>>
    BY <1>6 DEF ReceiveTerminal
  <2> HIDE DEF t, o, rs
  <2>2. Placed' = Placed /\ PlacesDiffer'
    BY <1>1, <2>1 DEF Placed, PlacesDiffer
  <2>3. Unsettled' = Unsettled
    BY <1>3, <1>4, <2>2, UnsettledPartsNext
  <2>4. SlotInv'
    BY <1>1, <2>1, <2>3, SlotsUntouched
  <2>5. WatermarkIsSound'
    BY <1>1, <2>3 DEF WatermarkIsSound, WatermarkSparesLiveTickets, OrderInv
  <2> QED BY <1>3, <1>4, <2>2, <2>4, <2>5 DEF OrderInv, QueuesAreOrdered
<1> QED BY <1>5, <1>6

\* A step that leaves the coordinator's places, queues and watermark alone.
LEMMA OrderUntouched ==
    ASSUME OrderInv,
           UNCHANGED <<cmds, backlog, inflight, deferred, joined, inflightRefresh, cancelled>>,
           nextTicket' = nextTicket,
           \/ step' = step
           \/ step = "settle" /\ backlog = <<>> /\ step' # "settle"
    PROVE  OrderInv'
<1>1. Unsettled' = Unsettled
  BY UnsettledUnchanged
<1>2. Placed' = Placed /\ Queued' = Queued
  BY DEF Placed, Queued, Elements
<1> QED BY <1>1, <1>2 DEF OrderInv, PlacesDiffer, QueuesAreOrdered, Increasing,
         WatermarkIsSound, WatermarkSparesLiveTickets

LEMMA SubmitKeepsOrder ==
    ASSUME TicketInv, NEW i \in Intents, Submit(i)
    PROVE  OrderInv'
<1> USE DEF TicketInv
<1>1. PICK n \in Ticket :
         /\ n.seq = nextTicket /\ cmds' = Append(cmds, n)
         /\ Elements(cmds') = Elements(cmds) \cup {n}
         /\ Unsettled' = Unsettled \cup {n}
  BY SubmitAdds
<1>2. /\ step = "await" /\ backlog = <<>>
      /\ UNCHANGED <<step, backlog, inflight, deferred, joined, inflightRefresh, cancelled>>
  BY DEF Submit, ClientMayRun, coordVars, turnVars, OrderInv, QueuesAreOrdered
<1>3. \A t \in Unsettled : t.seq < n.seq /\ t.seq \in Nat /\ t.seq > cancelled
  BY <1>1, KnownType DEF SlotInv, KnownAreIssued, Known, OrderInv, WatermarkIsSound,
                         WatermarkSparesLiveTickets
<1>4. Placed \subseteq Unsettled /\ Elements(cmds) \subseteq Unsettled
  BY UnsettledParts DEF Queued
<1>5. Placed' = Placed /\ PlacesDiffer'
  BY <1>2 DEF Placed, PlacesDiffer, OrderInv
<1>6. Queued' = Queued \cup {n}
  <2>1. Queued' = Elements(cmds') \cup Elements(backlog)
    BY <1>2 DEF Queued, Elements
  <2> QED BY <1>1, <2>1 DEF Queued
<1>7. Increasing(Append(cmds, n))
  BY <1>3, <1>4, IncreasingAppend DEF TypeOK, OrderInv, QueuesAreOrdered
<1>8. Increasing(cmds)' /\ Increasing(backlog)'
  BY <1>1, <1>2, <1>7 DEF Increasing, OrderInv, QueuesAreOrdered
<1>9. QueuesAreOrdered'
  BY <1>2, <1>3, <1>4, <1>5, <1>6, <1>8 DEF QueuesAreOrdered, OrderInv
<1>10. cancelled < n.seq
  BY <1>1 DEF OrderInv, WatermarkIsSound
<1>11. WatermarkIsSound'
  <2>1. nextTicket' = nextTicket + 1 /\ nextTicket \in Nat /\ cancelled \in Nat
    BY DEF Submit, TypeOK
  <2> QED BY <1>1, <1>2, <1>3, <1>10, <2>1 DEF WatermarkIsSound, WatermarkSparesLiveTickets
<1> QED BY <1>5, <1>9, <1>11 DEF OrderInv

-----------------------------------------------------------------------------
(* Every step.                                                               *)

LEMMA ClientKeeps ==
    ASSUME TicketInv, Client
    PROVE  SlotInv' /\ OrderInv'
<1> USE DEF TicketInv
<1>1. ASSUME NEW i \in Intents, Submit(i) PROVE SlotInv' /\ OrderInv'
  BY <1>1, SubmitKeepsSlots, SubmitKeepsOrder
<1>2. ASSUME /\ UNCHANGED <<cmds, backlog, inflight, deferred, joined, inflightRefresh, cancelled>>
             /\ nextTicket' = nextTicket /\ step' = step
      PROVE  OrderInv' /\ Unsettled' = Unsettled
  BY <1>2, OrderUntouched, UnsettledUnchanged
<1>3. ASSUME NEW t \in held, TryTake(t) PROVE SlotInv' /\ OrderInv'
  <2>1. OrderInv' /\ Unsettled' = Unsettled
    BY <1>2, <1>3 DEF TryTake, coordVars, turnVars, chanVars
  <2> QED BY <1>3, <2>1, TakeKeepsSlots DEF TryTake, ClientMayRun
<1>4. ASSUME NEW t \in held, DiscardBegin(t) PROVE SlotInv' /\ OrderInv'
  <2>1. OrderInv'
    BY <1>2, <1>4 DEF DiscardBegin, coordVars, turnVars, chanVars
  <2> QED BY <1>4, <2>1, DiscardBeginKeepsSlots
<1>5. CASE DiscardMark
  BY <1>2, <1>5, DiscardMarkKeepsSlots DEF DiscardMark, coordVars, turnVars, chanVars
<1>6. CASE DiscardRetake
  BY <1>2, <1>6, DiscardRetakeKeepsSlots DEF DiscardRetake, coordVars, turnVars, chanVars
<1>7. CASE DiscardUnmark
  BY <1>2, <1>7, DiscardUnmarkKeepsSlots DEF DiscardUnmark, coordVars, turnVars, chanVars
<1>8. CASE ToggleHold
  <2>1. OrderInv' /\ Unsettled' = Unsettled
    BY <1>2, <1>8 DEF ToggleHold, coordVars, turnVars, chanVars
  <2> QED BY <1>8, <2>1, SlotsUntouched DEF ToggleHold
<1> QED BY <1>1, <1>3, <1>4, <1>5, <1>6, <1>7, <1>8 DEF Client

LEMMA CoordinatorKeeps ==
    ASSUME TicketInv, TypeOK', Coordinator
    PROVE  SlotInv' /\ OrderInv'
<1>1. CASE FinishBacklog
  <2>1. /\ UNCHANGED <<cmds, backlog, inflight, deferred, joined, inflightRefresh, cancelled,
                       held, thread, nextTicket, ticketVars>>
        /\ step = "settle" /\ backlog = <<>> /\ step' # "settle"
    BY <1>1 DEF FinishBacklog, clientVars, coordVars, chanVars
  <2>2. OrderInv' /\ Unsettled' = Unsettled
    BY <2>1, OrderUntouched, UnsettledUnchanged DEF TicketInv
  <2> QED BY <2>1, <2>2, SlotsUntouched DEF TicketInv
<1> QED BY <1>1, ReceiveCommandKeeps, SettleBacklogEntryKeeps, RetryDeferredKeeps,
         ReceiveTerminalKeeps DEF Coordinator

LEMMA PdServiceKeeps ==
    ASSUME TicketInv, PdService
    PROVE  SlotInv' /\ OrderInv'
<1>1. /\ UNCHANGED <<cmds, backlog, inflight, deferred, joined, inflightRefresh, cancelled,
                     held, thread, nextTicket, ticketVars>>
      /\ step' = step
  BY DEF PdService, PdTakeCommand, PdAdvance, PdPublishCompletion, PdPublishSettled,
     PdPublishPending, PdPublishTerminal, PdUnchanged, clientVars, coordVars, turnVars
<1>2. OrderInv' /\ Unsettled' = Unsettled
  BY <1>1, OrderUntouched, UnsettledUnchanged DEF TicketInv
<1> QED BY <1>1, <1>2, SlotsUntouched DEF TicketInv

\* TicketInv is inductive.
LEMMA TicketStep == TicketInv /\ [Next]_vars => TicketInv'
<1> SUFFICES ASSUME TicketInv, [Next]_vars PROVE TicketInv'
  OBVIOUS
<1>1. TypeOK'
  BY TypeStep DEF TicketInv
<1>2. CASE UNCHANGED vars
  <2>1. /\ UNCHANGED <<cmds, backlog, inflight, deferred, joined, inflightRefresh, cancelled,
                       held, thread, nextTicket, ticketVars>>
        /\ step' = step
    BY <1>2 DEF vars, clientVars, ticketVars, coordVars, turnVars, pdVars, chanVars
  <2>2. OrderInv' /\ Unsettled' = Unsettled
    BY <2>1, OrderUntouched, UnsettledUnchanged DEF TicketInv
  <2> QED BY <1>1, <2>1, <2>2, SlotsUntouched DEF TicketInv
<1>3. CASE Next
  BY <1>1, <1>3, ClientKeeps, CoordinatorKeeps, PdServiceKeeps DEF Next, TicketInv
<1> QED BY <1>2, <1>3

LEMMA TicketInit == Init => TicketInv
<1> SUFFICES ASSUME Init PROVE TicketInv
  OBVIOUS
<1>1. TypeOK
  BY TypeInit
<1>2. Unsettled = {} /\ Placed = {} /\ Queued = {} /\ Known = {}
  BY EmptyQueue DEF Init, Unsettled, Placed, Queued, Known, Leaving, Idling
<1>3. SlotInv
  BY <1>2 DEF Init, SlotInv, OwedSlotsAreEmpty, SlotsDiffer, KnownAreIssued, HeldAreOwed,
     DiscardIsSound, MarksAreLive, AbandonedAreMarked, ResultBelongsToHolder, NoSlotLeak, Idling
<1>4. OrderInv
  BY <1>2, EmptyQueue DEF Init, OrderInv, PlacesDiffer, QueuesAreOrdered, WatermarkIsSound,
     WatermarkSparesLiveTickets
<1> QED BY <1>1, <1>3, <1>4 DEF TicketInv

LEMMA TicketsAreSound == Spec => []TicketInv
BY TicketInit, TicketStep, PTL DEF Spec

\* For any number of slots and clients: two tickets that are owed an answer never
\* share a result slot, and the slot is reserved and empty until the answer.
THEOREM AnswersNeverCollide == Spec => []UnsettledHaveOwnSlots
<1>1. TicketInv => UnsettledHaveOwnSlots
  BY DEF TicketInv, SlotInv, OwedSlotsAreEmpty, SlotsDiffer, Known, UnsettledHaveOwnSlots
<1> QED BY <1>1, TicketsAreSound, PTL

\* A result signal always belongs to the one client that waits for it.
THEOREM ResultsReachTheirHolder == Spec => []ResultBelongsToHolder
<1>1. TicketInv => ResultBelongsToHolder
  BY DEF TicketInv, SlotInv
<1> QED BY <1>1, TicketsAreSound, PTL

\* The race between discard and signal_ticket leaks no slot.
THEOREM SlotsNeverLeak == Spec => []NoSlotLeak
<1>1. TicketInv => NoSlotLeak
  BY DEF TicketInv, SlotInv
<1> QED BY <1>1, TicketsAreSound, PTL

\* It leaves no stale discard mark either: none would swallow the next tenant's result.
THEOREM DiscardMarksAreLive == Spec => []DiscardMarkIsLive
<1>1. TicketInv => DiscardMarkIsLive
  BY DEF TicketInv, SlotInv, MarksAreLive, DiscardMarkIsLive
<1> QED BY <1>1, TicketsAreSound, PTL

\* A cancellation watermark never reaches a command that is still to be answered.
THEOREM CancellationIsPrecise == Spec => []WatermarkSparesLiveTickets
<1>1. TicketInv => WatermarkSparesLiveTickets
  BY DEF TicketInv, OrderInv, WatermarkIsSound
<1> QED BY <1>1, TicketsAreSound, PTL

\* Refresh tickets join only a refresh that is in flight.
THEOREM JoinedTicketsRideOnRefresh == Spec => []JoinedRideOnRefresh
<1>1. TicketInv => JoinedRideOnRefresh
  BY DEF TicketInv, OrderInv, PlacesDiffer, JoinedRideOnRefresh
<1> QED BY <1>1, TicketsAreSound, PTL

-----------------------------------------------------------------------------
(* The refinement of the ticket ledger.  Under TicketInv the status of a       *)
(* ticket is a matter of two sets: who is owed an answer and who holds a       *)
(* ticket.  The sequence number tells tickets apart.                           *)

SeqsDiffer == \A t, u \in Known : t.seq = u.seq => t = u

OwedSeqs == {t.seq : t \in Unsettled}
HeldSeqs == {t.seq : t \in held}

LedgerInv == TicketInv /\ SeqsDiffer

\* The status of a ticket that nobody lost.
StatusOf(n) ==
    IF n >= nextTicket THEN "unissued"
    ELSE IF n \in OwedSeqs THEN IF n \in HeldSeqs THEN "waiting" ELSE "abandoned"
    ELSE IF n \in HeldSeqs THEN "answered" ELSE "closed"

LEMMA NothingIsLost ==
    ASSUME LedgerInv, NEW n
    PROVE  TicketStatus(n) = StatusOf(n)
<1>1. (\E t \in Unsettled : t.seq = n) <=> n \in OwedSeqs
  BY DEF OwedSeqs
<1>2. (\E t \in held : t.seq = n) <=> n \in HeldSeqs
  BY DEF HeldSeqs
<1>3. n \notin OwedSeqs =>
        ((\E t \in held : t.seq = n /\ results[t.slot].ticket = t) <=> n \in HeldSeqs)
  BY DEF HeldSeqs, OwedSeqs, LedgerInv, TicketInv, SlotInv, HeldAreOwed, Owed
<1> QED BY <1>1, <1>2, <1>3, Zenon DEF TicketStatus, StatusOf

LEMMA NothingIsLostNext ==
    ASSUME LedgerInv', NEW n
    PROVE  TicketStatus(n)' = StatusOf(n)'
<1>1. (\E t \in Unsettled' : t.seq = n) <=> n \in OwedSeqs'
  BY DEF OwedSeqs
<1>2. (\E t \in held' : t.seq = n) <=> n \in HeldSeqs'
  BY DEF HeldSeqs
<1>3. n \notin OwedSeqs' =>
        ((\E t \in held' : t.seq = n /\ results'[t.slot].ticket = t) <=> n \in HeldSeqs')
  BY DEF HeldSeqs, OwedSeqs, LedgerInv, TicketInv, SlotInv, HeldAreOwed, Owed
<1> QED BY <1>1, <1>2, <1>3, Zenon DEF TicketStatus, StatusOf

\* What the steps do to the two sets.
LEMMA DispatchShrinks ==
    ASSUME TypeOK, TypeOK', NEW c \in Unsettled, NEW d, Dispatch(c, d), d \in {deferred, NoTicket},
           Queued' \subseteq Unsettled
    PROVE  Unsettled' \subseteq Unsettled
<1>1. /\ inflight' \in {c, NoTicket, inflight} /\ deferred' \in {c, d, NoTicket}
      /\ joined' \subseteq joined \cup {c}
  BY DEF Dispatch
<1>2. Placed' \subseteq Placed \cup {c}
  BY <1>1 DEF Placed
<1> QED BY <1>2, UnsettledParts, UnsettledPartsNext

LEMMA CoordinatorShrinks ==
    ASSUME TicketInv, TypeOK', Coordinator
    PROVE  Unsettled' \subseteq Unsettled /\ held' = held /\ nextTicket' = nextTicket
<1> USE DEF TicketInv
<1>1. held' = held /\ nextTicket' = nextTicket
  BY DEF Coordinator, ReceiveCommand, SettleBacklogEntry, FinishBacklog, RetryDeferred,
         ReceiveTerminal, clientVars
<1>2. ASSUME NEW q \in Seq(Ticket), q # <<>>
      PROVE  Head(q) \in Elements(q) /\ Elements(Tail(q)) \subseteq Elements(q)
  BY <1>2, ElementsOfTail
<1>3. Queued' = Elements(cmds') \cup Elements(backlog')
  BY DEF Queued, Elements
<1>4. Queued \subseteq Unsettled
  BY UnsettledParts
<1>5. Elements(cmds) \subseteq Queued /\ Elements(backlog) \subseteq Queued
  BY DEF Queued
<1>6. CASE ReceiveCommand
  <2>1. /\ cmds \in Seq(Ticket) /\ cmds # <<>> /\ Dispatch(Head(cmds), deferred)
        /\ backlog = <<>>
        /\ \/ cmds' = Tail(cmds) /\ backlog' = backlog
           \/ cmds' = <<>> /\ backlog' = Tail(cmds)
    BY <1>6 DEF ReceiveCommand, CollectBacklog, turnVars, TypeOK, OrderInv, QueuesAreOrdered
  <2>2. Head(cmds) \in Unsettled /\ Queued' \subseteq Unsettled
    BY <1>2, <1>3, <1>4, <1>5, <2>1, EmptyQueue
  <2> QED BY <1>1, <2>1, <2>2, DispatchShrinks
<1>7. CASE SettleBacklogEntry
  <2> DEFINE c == Head(backlog)
  <2>1. /\ backlog \in Seq(Ticket) /\ backlog # <<>> /\ backlog' = Tail(backlog) /\ cmds' = cmds
        /\ \/ UNCHANGED <<inflight, deferred, joined>>
           \/ Dispatch(c, deferred)
    BY <1>7 DEF SettleBacklogEntry, TypeOK, coordVars
  <2>2. c \in Unsettled /\ Queued' \subseteq Unsettled
    BY <1>2, <1>3, <1>4, <1>5, <2>1
  <2> HIDE DEF c
  <2>3. CASE UNCHANGED <<inflight, deferred, joined>>
    <3>1. Placed' = Placed
      BY <2>3 DEF Placed
    <3> QED BY <1>1, <2>2, <3>1, UnsettledParts, UnsettledPartsNext
  <2> QED BY <1>1, <2>1, <2>2, <2>3, DispatchShrinks
<1>8. CASE FinishBacklog
  <2>1. UNCHANGED <<cmds, backlog, inflight, deferred, joined>>
    BY <1>8 DEF FinishBacklog, coordVars, chanVars
  <2> QED BY <1>1, <2>1, UnsettledUnchanged
<1>9. CASE RetryDeferred
  <2>1. /\ \/ cmds' = cmds /\ backlog' = backlog
           \/ cmds' = <<>> /\ backlog' = cmds
        /\ \/ UNCHANGED <<inflight, deferred, joined>>
           \/ deferred # NoTicket /\ Dispatch(deferred, NoTicket)
    BY <1>9 DEF RetryDeferred, CollectBacklog, coordVars, chanVars
  <2>2. Queued' \subseteq Unsettled
    BY <1>3, <1>4, <1>5, <2>1, EmptyQueue
  <2>3. CASE UNCHANGED <<inflight, deferred, joined>>
    <3>1. Placed' = Placed
      BY <2>3 DEF Placed
    <3> QED BY <1>1, <2>2, <3>1, UnsettledParts, UnsettledPartsNext
  <2>4. CASE deferred # NoTicket /\ Dispatch(deferred, NoTicket)
    <3>1. deferred \in Unsettled
      BY <2>4 DEF Unsettled
    <3> QED BY <1>1, <2>2, <2>4, <3>1, DispatchShrinks
  <2> QED BY <2>1, <2>3, <2>4
<1>10. CASE ReceiveTerminal
  <2>1. /\ \/ cmds' = cmds /\ backlog' = backlog
           \/ cmds' = <<>> /\ backlog' = cmds
        /\ inflight' \in {inflight, NoTicket} /\ joined' \in {joined, {}} /\ deferred' = deferred
    BY <1>10 DEF ReceiveTerminal, CollectBacklog
  <2>2. Queued' \subseteq Unsettled
    BY <1>3, <1>4, <1>5, <2>1, EmptyQueue
  <2>3. Placed' \subseteq Placed
    BY <2>1 DEF Placed
  <2> QED BY <1>1, <2>2, <2>3, UnsettledParts, UnsettledPartsNext
<1> QED BY <1>6, <1>7, <1>8, <1>9, <1>10 DEF Coordinator

\* Sequence numbers of owed and held tickets have been drawn.
LEMMA SeqsAreIssued ==
    ASSUME LedgerInv
    PROVE  \A n \in OwedSeqs \cup HeldSeqs : n \in Nat \ {0} /\ n < nextTicket
<1>1. \A t \in Known : t \in Ticket /\ t.seq < nextTicket
  BY KnownType DEF LedgerInv, TicketInv, SlotInv, KnownAreIssued
<1>2. \A t \in Known : t.seq \in Nat \ {0} /\ t.seq < nextTicket
  BY <1>1 DEF Ticket
<1> QED BY <1>2 DEF OwedSeqs, HeldSeqs, Known

\* A step does one of four things to the books.
BooksIssue ==
    /\ nextTicket <= MaxTickets /\ nextTicket' = nextTicket + 1
    /\ OwedSeqs' = OwedSeqs \cup {nextTicket} /\ HeldSeqs' = HeldSeqs \cup {nextTicket}
BooksLeave ==
    /\ nextTicket' = nextTicket /\ OwedSeqs' = OwedSeqs
    /\ \E n \in HeldSeqs : HeldSeqs' = HeldSeqs \ {n}
BooksAnswer == nextTicket' = nextTicket /\ OwedSeqs' \subseteq OwedSeqs /\ HeldSeqs' = HeldSeqs

LEMMA SubmitBooks ==
    ASSUME LedgerInv, NEW i \in Intents, Submit(i)
    PROVE  SeqsDiffer' /\ BooksIssue
<1>1. TypeOK
  BY DEF LedgerInv, TicketInv
<1>2. PICK t \in Ticket : /\ t.seq = nextTicket /\ held' = held \cup {t}
                          /\ Unsettled' = Unsettled \cup {t}
  BY <1>1, SubmitAdds
<1>3. nextTicket' = nextTicket + 1 /\ nextTicket <= MaxTickets /\ thread' = thread
  BY DEF Submit
<1>4. BooksIssue
  <2>1. OwedSeqs' = {u.seq : u \in Unsettled \cup {t}} /\ HeldSeqs' = {u.seq : u \in held \cup {t}}
    BY <1>2 DEF OwedSeqs, HeldSeqs
  <2> QED BY <1>2, <1>3, <2>1 DEF BooksIssue, OwedSeqs, HeldSeqs
<1>5. Known' = Known \cup {t}
  BY <1>2, <1>3 DEF Known, Leaving
<1>6. \A u \in Known : u.seq < nextTicket /\ u.seq \in Nat
  BY <1>1, KnownType DEF LedgerInv, TicketInv, SlotInv, KnownAreIssued
<1>7. SeqsDiffer'
  <2>1. nextTicket \in Nat
    BY <1>1 DEF TypeOK
  <2> QED BY <1>2, <1>5, <1>6, <2>1 DEF SeqsDiffer, LedgerInv
<1> QED BY <1>4, <1>7

LEMMA FewerKnown ==
    ASSUME LedgerInv, Known' \subseteq Known
    PROVE  SeqsDiffer'
BY DEF LedgerInv, SeqsDiffer

\* A client that takes its answer or begins to discard its ticket.
LEMMA LeaveBooks ==
    ASSUME LedgerInv, NEW t \in held, held' = held \ {t}, nextTicket' = nextTicket,
           Unsettled' = Unsettled, Leaving' \subseteq Known
    PROVE  SeqsDiffer' /\ BooksLeave
<1>1. Known' \subseteq Known
  BY DEF Known
<1>2. \A u \in held : u.seq = t.seq => u = t
  BY DEF LedgerInv, SeqsDiffer, Known
<1>3. HeldSeqs' = HeldSeqs \ {t.seq}
  BY <1>2 DEF HeldSeqs
<1>4. t.seq \in HeldSeqs /\ OwedSeqs' = OwedSeqs
  BY DEF HeldSeqs, OwedSeqs
<1> QED BY <1>1, <1>3, <1>4, FewerKnown DEF BooksLeave

\* A coordinator's or service's step, or the rest of a discard.
LEMMA AnswerBooks ==
    ASSUME LedgerInv, held' = held, nextTicket' = nextTicket,
           Unsettled' \subseteq Unsettled, Leaving' \subseteq Known
    PROVE  SeqsDiffer' /\ BooksAnswer
<1>1. Known' \subseteq Known
  BY DEF Known
<1>2. OwedSeqs' \subseteq OwedSeqs /\ HeldSeqs' = HeldSeqs
  BY DEF OwedSeqs, HeldSeqs
<1> QED BY <1>1, <1>2, FewerKnown DEF BooksAnswer

LEMMA ClientBooks ==
    ASSUME LedgerInv, Client
    PROVE  SeqsDiffer' /\ (BooksIssue \/ BooksLeave \/ BooksAnswer)
<1>0. TypeOK
  BY DEF LedgerInv, TicketInv
<1>1. ASSUME NEW i \in Intents, Submit(i) PROVE SeqsDiffer' /\ BooksIssue
  BY <1>1, SubmitBooks
<1>2. ASSUME NEW t \in held, TryTake(t) PROVE SeqsDiffer' /\ BooksLeave
  <2>1. Unsettled' = Unsettled
    BY <1>2, UnsettledUnchanged DEF TryTake, coordVars, turnVars, chanVars
  <2>2. held' = held \ {t} /\ nextTicket' = nextTicket /\ thread' = thread
    BY <1>2 DEF TryTake
  <2>3. Leaving' \subseteq Known
    BY <2>2 DEF Leaving, Known
  <2> QED BY <2>1, <2>2, <2>3, LeaveBooks
<1>3. ASSUME NEW t \in held, DiscardBegin(t) PROVE SeqsDiffer' /\ BooksLeave
  <2>1. Unsettled' = Unsettled
    BY <1>3, UnsettledUnchanged DEF DiscardBegin, coordVars, turnVars, chanVars
  <2>2. /\ held' = held \ {t} /\ nextTicket' = nextTicket
        /\ thread' = thread \/ thread' = [pc |-> "mark", ticket |-> t]
    BY <1>3 DEF DiscardBegin
  <2>3. Leaving' \subseteq Known
    BY <2>2 DEF Leaving, Known
  <2> QED BY <2>1, <2>2, <2>3, LeaveBooks
<1>4. ASSUME UNCHANGED <<held, nextTicket, cmds, backlog, inflight, deferred, joined>>,
             \/ thread' = thread \/ thread' = Idling
             \/ thread.pc # "run" /\ \E p \in {"retake", "unmark"} : thread' = [thread EXCEPT !.pc = p]
      PROVE  SeqsDiffer' /\ BooksAnswer
  <2>1. Unsettled' = Unsettled
    BY <1>4, UnsettledUnchanged
  <2>2. Leaving' \subseteq Leaving
    <3>1. CASE thread' = thread
      BY <3>1 DEF Leaving
    <3>2. CASE thread' = Idling
      BY <3>2 DEF Leaving, Idling
    <3>3. CASE thread.pc # "run" /\ \E p \in {"retake", "unmark"} : thread' = [thread EXCEPT !.pc = p]
      <4>1. thread'.ticket = thread.ticket
        BY <1>0, <3>3 DEF TypeOK
      <4> QED BY <3>3, <4>1 DEF Leaving
    <3> QED BY <1>4, <3>1, <3>2, <3>3
  <2> QED BY <1>4, <2>1, <2>2, AnswerBooks DEF Known
<1>5. CASE DiscardMark
  <2>1. thread.pc # "run" /\ thread' = [thread EXCEPT !.pc = "retake"]
    BY <1>5 DEF DiscardMark
  <2> QED BY <1>4, <1>5, <2>1 DEF DiscardMark, coordVars, turnVars, chanVars
<1>6. CASE DiscardRetake
  <2>1. \/ thread' = Idling
        \/ thread.pc # "run" /\ thread' = [thread EXCEPT !.pc = "unmark"]
    BY <1>6 DEF DiscardRetake
  <2> QED BY <1>4, <1>6, <2>1 DEF DiscardRetake, coordVars, turnVars, chanVars
<1>7. CASE DiscardUnmark
  BY <1>4, <1>7 DEF DiscardUnmark, coordVars, turnVars, chanVars
<1>8. CASE ToggleHold
  BY <1>4, <1>8 DEF ToggleHold, coordVars, turnVars, chanVars
<1> QED BY <1>1, <1>2, <1>3, <1>5, <1>6, <1>7, <1>8 DEF Client

LEMMA StepBooks ==
    ASSUME LedgerInv, [Next]_vars
    PROVE  LedgerInv' /\ (BooksIssue \/ BooksLeave \/ BooksAnswer)
<1>1. TicketInv' /\ TypeOK'
  BY TicketStep DEF LedgerInv, TicketInv
<1>2. CASE Client
  BY <1>1, <1>2, ClientBooks DEF LedgerInv
<1>3. CASE Coordinator
  <2>1. Unsettled' \subseteq Unsettled /\ held' = held /\ nextTicket' = nextTicket
    BY <1>1, <1>3, CoordinatorShrinks DEF LedgerInv
  <2>2. thread' = thread
    BY <1>3 DEF Coordinator, ReceiveCommand, SettleBacklogEntry, FinishBacklog, RetryDeferred,
         ReceiveTerminal, clientVars
  <2> QED BY <1>1, <2>1, <2>2, AnswerBooks DEF LedgerInv, Leaving, Known
<1>4. CASE PdService \/ UNCHANGED vars
  <2>1. UNCHANGED <<held, nextTicket, thread, cmds, backlog, inflight, deferred, joined>>
    BY <1>4 DEF PdService, PdTakeCommand, PdAdvance, PdPublishCompletion, PdPublishSettled,
     PdPublishPending, PdPublishTerminal, PdUnchanged, clientVars, coordVars, turnVars, vars, chanVars
  <2>2. Unsettled' = Unsettled
    BY <2>1, UnsettledUnchanged
  <2> QED BY <1>1, <2>1, <2>2, AnswerBooks DEF LedgerInv, Leaving, Known
<1> QED BY <1>2, <1>3, <1>4 DEF Next

LEMMA LedgerInit == Init => LedgerInv
<1> SUFFICES ASSUME Init PROVE LedgerInv
  OBVIOUS
<1>1. Known = {}
  BY EmptyQueue DEF Init, Unsettled, Known, Leaving, Idling
<1> QED BY <1>1, TicketInit DEF LedgerInv, SeqsDiffer

\* Each change of the books is a step of the ledger, or none.
LEMMA BooksImplementLedger ==
    ASSUME LedgerInv, LedgerInv', BooksIssue \/ BooksLeave \/ BooksAnswer
    PROVE  [Ledger!LedgerNext]_[n \in 1..MaxTickets |-> TicketStatus(n)]
<1> DEFINE Tk == 1..MaxTickets
           st == [n \in Tk |-> StatusOf(n)]
           nx == [n \in Tk |-> StatusOf(n)']
<1>1. [n \in 1..MaxTickets |-> TicketStatus(n)] = st
  BY NothingIsLost
<1>2. [n \in 1..MaxTickets |-> TicketStatus(n)]' = nx
  BY NothingIsLostNext
<1>3. nextTicket \in Nat \ {0} /\ MaxTickets \in Nat
  BY MaxTicketsAssumption DEF LedgerInv, TicketInv, TypeOK
<1>4. \A n \in OwedSeqs \cup HeldSeqs : n \in Tk \/ n > MaxTickets
  BY <1>3, SeqsAreIssued
<1>5. \A n \in OwedSeqs \cup HeldSeqs : n < nextTicket
  BY SeqsAreIssued
<1>6. CASE BooksIssue
  <2>1. PICK k \in Tk : k = nextTicket
    BY <1>3, <1>6 DEF BooksIssue
  <2>2. st[k] = "unissued"
    BY <1>3, <2>1 DEF StatusOf
  <2>3. \A m \in Tk : m < k => st[m] # "unissued"
    BY <1>3, <2>1 DEF StatusOf
  <2>4. nx = [st EXCEPT ![k] = "waiting"]
    <3>1. \A n \in Tk : n # k => StatusOf(n)' = StatusOf(n)
      BY <1>3, <1>6, <2>1 DEF BooksIssue, StatusOf
    <3>2. StatusOf(k)' = "waiting"
      BY <1>3, <1>6, <2>1 DEF BooksIssue, StatusOf
    <3> QED BY <2>1, <3>1, <3>2
  <2> HIDE DEF st, nx
  <2>5. Ledger!Issue(k)
    BY <1>1, <1>2, <2>2, <2>3, <2>4 DEF Ledger!Issue, Ledger!Tickets
  <2> QED BY <2>1, <2>5 DEF Ledger!LedgerNext, Ledger!Tickets
<1>7. CASE BooksLeave
  <2>1. PICK k \in HeldSeqs : HeldSeqs' = HeldSeqs \ {k}
    BY <1>7 DEF BooksLeave
  <2>2. nextTicket' = nextTicket /\ OwedSeqs' = OwedSeqs
    BY <1>7 DEF BooksLeave
  <2>3. \A n \in Tk : n # k => StatusOf(n)' = StatusOf(n)
    BY <2>1, <2>2 DEF StatusOf
  <2>4. k < nextTicket /\ nextTicket \in Nat /\ k \in Nat
    BY <1>3, <2>1, SeqsAreIssued
  <2>5. ~(k >= nextTicket)
    BY <2>4
  <2>6. CASE k \notin Tk
    <3>1. nx = st
      BY <2>3, <2>6
    <3> QED BY <1>1, <1>2, <3>1
  <2>7. CASE k \in Tk /\ k \in OwedSeqs
    <3>1. StatusOf(k) = "waiting" /\ StatusOf(k)' = "abandoned"
      BY <2>1, <2>2, <2>5, <2>7 DEF StatusOf
    <3>2. st[k] = "waiting" /\ nx = [st EXCEPT ![k] = "abandoned"]
      BY <2>3, <2>7, <3>1
    <3> HIDE DEF st, nx
    <3>3. Ledger!Abandon(k)
      BY <1>1, <1>2, <3>2 DEF Ledger!Abandon
    <3> QED BY <2>7, <3>3 DEF Ledger!LedgerNext, Ledger!Tickets
  <2>8. CASE k \in Tk /\ k \notin OwedSeqs
    <3>1. StatusOf(k) = "answered" /\ StatusOf(k)' = "closed"
      BY <2>1, <2>2, <2>5, <2>8 DEF StatusOf
    <3>2. st[k] = "answered" /\ nx = [st EXCEPT ![k] = "closed"]
      BY <2>3, <2>8, <3>1
    <3> HIDE DEF st, nx
    <3>3. Ledger!Take(k)
      BY <1>1, <1>2, <3>2 DEF Ledger!Take
    <3> QED BY <2>8, <3>3 DEF Ledger!LedgerNext, Ledger!Tickets
  <2> QED BY <2>6, <2>7, <2>8
<1>8. CASE BooksAnswer
  <2> DEFINE S == Tk \cap (OwedSeqs \ OwedSeqs')
  <2>1. nextTicket' = nextTicket /\ OwedSeqs' \subseteq OwedSeqs /\ HeldSeqs' = HeldSeqs
    BY <1>8 DEF BooksAnswer
  <2>2. \A n \in Tk \ S : StatusOf(n)' = StatusOf(n)
    BY <2>1 DEF StatusOf
  <2>3. \A n \in S : ~(n >= nextTicket)
    BY <1>3, <1>5
  <2>4. \A n \in S : \/ StatusOf(n) = "waiting" /\ StatusOf(n)' = "answered"
                     \/ StatusOf(n) = "abandoned" /\ StatusOf(n)' = "closed"
    BY <2>1, <2>3 DEF StatusOf
  <2>5. CASE S = {}
    <3>1. nx = st
      BY <2>2, <2>5
    <3> QED BY <1>1, <1>2, <3>1
  <2>6. CASE S # {}
    <3>1. \A n \in S : st[n] \in {"waiting", "abandoned"}
      BY <2>4
    <3>2. nx = [n \in Tk |-> IF n \notin S THEN st[n]
                             ELSE IF st[n] = "waiting" THEN "answered" ELSE "closed"]
      BY <2>2, <2>4
    <3>3. S \in SUBSET Tk
      OBVIOUS
    <3> HIDE DEF st, nx, S
    <3>4. Ledger!Answer(S)
      BY <1>1, <1>2, <2>6, <3>1, <3>2 DEF Ledger!Answer, Ledger!Tickets
    <3> QED BY <3>3, <3>4 DEF Ledger!LedgerNext, Ledger!Tickets
  <2> QED BY <2>5, <2>6
<1> QED BY <1>6, <1>7, <1>8

\* The power domain implements the ticket ledger, for any number of slots, tickets and
\* clients: whatever order commands, terminals, cancellations and discards come in, a
\* ticket is issued once and in order, answered at most once, and closed only after its
\* client has taken the answer or walked away.
THEOREM LedgerIsImplemented == Spec => ImplementsLedger
<1>1. Init => Ledger!LedgerInit
  <2> SUFFICES ASSUME Init PROVE Ledger!LedgerInit
    OBVIOUS
  <2>1. nextTicket = 1
    BY DEF Init
  <2>2. \A n \in 1..MaxTickets : TicketStatus(n) = "unissued"
    BY <2>1, MaxTicketsAssumption DEF TicketStatus
  <2> QED BY <2>2 DEF Ledger!LedgerInit, Ledger!Tickets
<1>2. LedgerInv /\ [Next]_vars => LedgerInv'
  BY StepBooks
<1>3. LedgerInv /\ [Next]_vars =>
        [Ledger!LedgerNext]_[n \in 1..MaxTickets |-> TicketStatus(n)]
  BY StepBooks, BooksImplementLedger
<1> QED BY <1>1, <1>2, <1>3, LedgerInit, PTL DEF Spec, ImplementsLedger, Ledger!LedgerSpec

-----------------------------------------------------------------------------
(* Whose contract the sink has.  What the coordinator will hear of it sits in   *)
(* the terminals: the last of them that brings news tells the owner, and with    *)
(* no news under way the active owner is up to date, unless a stray terminal     *)
(* was thrown away.                                                              *)

IsNews(r) == r.outcome \in ContractNews
Told(r) == IF r.outcome = "Confirmed" THEN r.ticket.owner ELSE NoOwner
Quiet(q) == \A i \in DOMAIN q : ~IsNews(q[i])
LastNewsIs(q, o) ==
    \A i \in DOMAIN q :
        IsNews(q[i]) /\ (\A j \in DOMAIN q : j > i => ~IsNews(q[j])) => o = Told(q[i])

InflightFlags ==
    inflight # NoTicket =>
        /\ inflightRefresh <=> inflight.kind = "Refresh"
        /\ inflightIdle <=> inflight.kind = "Idle"
OutcomesFit ==
    /\ \A i \in DOMAIN terminals :
          terminals[i].ticket.kind = "Refresh" => terminals[i].outcome # "Confirmed"
    /\ ~IsNews(pd.completion)

ContractInv ==
    /\ \A t \in Unsettled : WellFormed(t)
    /\ InflightFlags /\ OutcomesFit
    /\ LastNewsIs(terminals, contractOwner)
    /\ Quiet(terminals) /\ activeOwner # NoOwner /\ ~stray => contractOwner = activeOwner

LEMMA NewsOfTail ==
    ASSUME NEW q \in Seq(ResultSet), q # <<>>, NEW o, LastNewsIs(q, o)
    PROVE  /\ LastNewsIs(Tail(q), o)
           /\ Quiet(Tail(q)) /\ IsNews(Head(q)) => o = Told(Head(q))
           /\ Quiet(Tail(q)) /\ ~IsNews(Head(q)) => Quiet(q)
<1>1. /\ Len(q) \in Nat \ {0} /\ Head(q) = q[1] /\ DOMAIN q = 1..Len(q)
      /\ DOMAIN Tail(q) = 1..(Len(q) - 1)
      /\ \A i \in DOMAIN Tail(q) : Tail(q)[i] = q[i + 1]
  OBVIOUS
<1>2. \A i \in DOMAIN q : i = 1 \/ (i - 1 \in DOMAIN Tail(q) /\ q[i] = Tail(q)[i - 1])
  BY <1>1
<1>3. \A i \in DOMAIN Tail(q) : i + 1 \in DOMAIN q
  BY <1>1
<1>4. LastNewsIs(Tail(q), o)
  <2> SUFFICES ASSUME NEW i \in DOMAIN Tail(q), IsNews(Tail(q)[i]),
                      \A j \in DOMAIN Tail(q) : j > i => ~IsNews(Tail(q)[j])
               PROVE  o = Told(Tail(q)[i])
    BY DEF LastNewsIs
  <2>1. i + 1 \in DOMAIN q /\ IsNews(q[i + 1]) /\ i \in Nat \ {0}
    BY <1>1, <1>3
  <2>2. ASSUME NEW j \in DOMAIN q, j > i + 1 PROVE ~IsNews(q[j])
    <3>1. j \in Nat /\ j # 1 /\ j - 1 > i
      BY <1>1, <2>1, <2>2
    <3>2. j - 1 \in DOMAIN Tail(q) /\ q[j] = Tail(q)[j - 1]
      BY <1>2, <3>1
    <3> QED BY <3>1, <3>2
  <2>3. o = Told(q[i + 1])
    BY <2>1, <2>2 DEF LastNewsIs
  <2> QED BY <1>1, <2>3
<1>5. ASSUME Quiet(Tail(q)), NEW j \in DOMAIN q, j > 1 PROVE ~IsNews(q[j])
  <2>1. j # 1
    BY <1>5
  <2>2. j - 1 \in DOMAIN Tail(q) /\ q[j] = Tail(q)[j - 1]
    BY <1>2, <2>1
  <2> QED BY <1>5, <2>2 DEF Quiet
<1>6. Quiet(Tail(q)) /\ IsNews(Head(q)) => o = Told(Head(q))
  <2>1. 1 \in DOMAIN q
    BY <1>1
  <2> QED BY <1>1, <1>5, <2>1 DEF LastNewsIs
<1>7. Quiet(Tail(q)) /\ ~IsNews(Head(q)) => Quiet(q)
  BY <1>1, <1>2 DEF Quiet
<1> QED BY <1>4, <1>6, <1>7

LEMMA NewsOfAppend ==
    ASSUME NEW q \in Seq(ResultSet), NEW r \in ResultSet, NEW o, NEW p, LastNewsIs(q, o),
           p = IF IsNews(r) THEN Told(r) ELSE o
    PROVE  /\ LastNewsIs(Append(q, r), p)
           /\ Quiet(Append(q, r)) => Quiet(q) /\ p = o
<1> DEFINE n == Len(q) + 1
           z == Append(q, r)
<1>1. /\ Len(q) \in Nat /\ DOMAIN q = 1..Len(q) /\ DOMAIN z = 1..n
      /\ z[n] = r /\ \A i \in DOMAIN q : z[i] = q[i]
  OBVIOUS
<1> HIDE DEF z
<1>2. DOMAIN z = DOMAIN q \cup {n} /\ \A i \in DOMAIN q : n > i
  BY <1>1
<1>3. LastNewsIs(z, p)
  <2> SUFFICES ASSUME NEW i \in DOMAIN z, IsNews(z[i]),
                      \A j \in DOMAIN z : j > i => ~IsNews(z[j])
               PROVE  p = Told(z[i])
    BY DEF LastNewsIs
  <2>1. CASE i = n
    BY <1>1, <2>1
  <2>2. CASE i \in DOMAIN q
    <3>1. ~IsNews(r)
      BY <1>1, <1>2, <2>2
    <3>2. \A j \in DOMAIN q : j > i => ~IsNews(q[j])
      BY <1>1, <1>2
    <3> QED BY <1>1, <2>2, <3>1, <3>2 DEF LastNewsIs
  <2> QED BY <1>2, <2>1, <2>2
<1>4. Quiet(z) => Quiet(q) /\ ~IsNews(r)
  BY <1>1, <1>2 DEF Quiet
<1> QED BY <1>3, <1>4 DEF z

\* Steps that neither publish nor hear anything.
LEMMA NothingHeard ==
    ASSUME ContractInv, UNCHANGED <<terminals, contractOwner, activeOwner, stray, pd>>,
           \A t \in Unsettled' : WellFormed(t), InflightFlags'
    PROVE  ContractInv'
BY DEF ContractInv, OutcomesFit

LEMMA ClientKeepsContract ==
    ASSUME TicketInv, ContractInv, Client
    PROVE  ContractInv'
<1>1. UNCHANGED <<terminals, contractOwner, activeOwner, stray, pd, inflight, inflightRefresh,
                  inflightIdle>>
  BY DEF Client, Submit, TryTake, DiscardBegin, DiscardMark, DiscardRetake, DiscardUnmark,
         ToggleHold, coordVars, pdVars, chanVars
<1>2. InflightFlags'
  BY <1>1 DEF ContractInv, InflightFlags
<1>3. \A t \in Unsettled' : WellFormed(t)
  <2>1. CASE \E i \in Intents : Submit(i)
    <3>1. PICK i \in Intents : Submit(i)
      BY <2>1
    <3>2. PICK t \in Ticket : WellFormed(t) /\ Unsettled' = Unsettled \cup {t}
      BY <3>1, SubmitAdds DEF TicketInv
    <3> QED BY <3>2 DEF ContractInv
  <2>2. CASE ~\E i \in Intents : Submit(i)
    <3>1. UNCHANGED <<cmds, backlog, inflight, deferred, joined>>
      BY <2>2 DEF Client, TryTake, DiscardBegin, DiscardMark, DiscardRetake, DiscardUnmark,
         ToggleHold, coordVars, turnVars, chanVars
    <3> QED BY <3>1, UnsettledUnchanged DEF ContractInv
  <2> QED BY <2>1, <2>2
<1> QED BY <1>1, <1>2, <1>3, NothingHeard

LEMMA DispatchKeepsFlags ==
    ASSUME TypeOK, ContractInv, NEW c \in Ticket, NEW d, Dispatch(c, d)
    PROVE  InflightFlags'
<1>1. Verdict(c, d) = "Send" \/ Verdict(c, d) # "Send"
  OBVIOUS
<1>2. CASE Verdict(c, d) = "Send"
  BY <1>2 DEF Dispatch, InflightFlags
<1>3. CASE Verdict(c, d) = "Defer"
  BY <1>3 DEF Dispatch, InflightFlags
<1>4. CASE Verdict(c, d) \notin {"Send", "Defer"}
  <2>1. inflight' = inflight /\ inflightIdle' = inflightIdle
    BY <1>4 DEF Dispatch
  <2>2. inflightRefresh' = inflightRefresh
    BY <1>4 DEF Dispatch
  <2> QED BY <2>1, <2>2 DEF InflightFlags, ContractInv
<1> QED BY <1>2, <1>3, <1>4

LEMMA CoordinatorKeepsContract ==
    ASSUME TicketInv, TypeOK', ContractInv, Coordinator
    PROVE  ContractInv'
<1>1. \A t \in Unsettled' : WellFormed(t)
  BY CoordinatorShrinks DEF ContractInv
<1>2. pd' = pd /\ contractOwner' = contractOwner
  BY DEF Coordinator, ReceiveCommand, SettleBacklogEntry, FinishBacklog, RetryDeferred,
         ReceiveTerminal, pdVars
<1>3. TypeOK
  BY DEF TicketInv
<1>4. ASSUME NEW q \in Seq(Ticket), q # <<>> PROVE Head(q) \in Ticket
  BY <1>4
<1>5. CASE ~ReceiveTerminal
  <2>1. /\ UNCHANGED <<terminals, activeOwner, stray>>
        /\ \/ UNCHANGED <<inflight, inflightRefresh, inflightIdle>>
           \/ \E c \in Ticket, d \in TicketOrNone : Dispatch(c, d)
    <3>1. CASE ReceiveCommand
      <4>1. Head(cmds) \in Ticket /\ deferred \in TicketOrNone
        BY <1>3, <1>4, <3>1 DEF ReceiveCommand, TypeOK
      <4> QED BY <3>1, <4>1 DEF ReceiveCommand
    <3>2. CASE SettleBacklogEntry
      <4>1. Head(backlog) \in Ticket /\ deferred \in TicketOrNone
        BY <1>3, <1>4, <3>2 DEF SettleBacklogEntry, TypeOK
      <4> QED BY <3>2, <4>1 DEF SettleBacklogEntry, coordVars
    <3>3. CASE FinishBacklog
      BY <3>3 DEF FinishBacklog, coordVars, chanVars
    <3>4. CASE RetryDeferred
      <4>1. deferred = NoTicket \/ deferred \in Ticket
        BY <1>3 DEF TypeOK, TicketOrNone
      <4> QED BY <3>4, <4>1 DEF RetryDeferred, coordVars, chanVars, TicketOrNone
    <3> QED BY <1>5, <3>1, <3>2, <3>3, <3>4 DEF Coordinator
  <2>2. InflightFlags'
    BY <1>3, <2>1, DispatchKeepsFlags DEF InflightFlags, ContractInv
  <2> QED BY <1>1, <1>2, <2>1, <2>2, NothingHeard
<1>6. CASE ReceiveTerminal
  <2> DEFINE h == Head(terminals)
  <2>1. /\ terminals \in Seq(ResultSet) /\ terminals # <<>> /\ terminals' = Tail(terminals)
        /\ h \in ResultSet /\ h = terminals[1] /\ 1 \in DOMAIN terminals
    BY <1>3, <1>6 DEF ReceiveTerminal, TypeOK
  <2>2. /\ LastNewsIs(terminals', contractOwner)
        /\ Quiet(terminals') /\ IsNews(h) => contractOwner = Told(h)
        /\ Quiet(terminals') /\ ~IsNews(h) => Quiet(terminals)
    BY <2>1, NewsOfTail DEF ContractInv
  <2>3. OutcomesFit'
    <3>1. \A i \in DOMAIN terminals' : i + 1 \in DOMAIN terminals /\ terminals'[i] = terminals[i + 1]
      BY <2>1
    <3> QED BY <1>2, <3>1 DEF ContractInv, OutcomesFit
  <2>4. \/ /\ TerminalMatches(h.ticket)
           /\ inflight' = NoTicket
           /\ activeOwner' = ActiveOwnerAfterTerminal(h.outcome)
           /\ stray' = (stray /\ inflightRefresh /\ h.outcome \notin ContractLost)
        \/ /\ stray' = (stray \/ h.outcome \in ContractNews)
           /\ UNCHANGED <<inflight, inflightRefresh, inflightIdle, activeOwner>>
    BY <1>6 DEF ReceiveTerminal
  <2>5. h.ticket.kind = "Refresh" => h.outcome # "Confirmed"
    BY <2>1 DEF ContractInv, OutcomesFit
  <2> HIDE DEF h
  <2>6. InflightFlags'
    BY <2>4 DEF ContractInv, InflightFlags
  <2>7. ASSUME Quiet(terminals'), activeOwner' # NoOwner, ~stray'
        PROVE  contractOwner = activeOwner'
    <3>1. CASE /\ stray' = (stray \/ h.outcome \in ContractNews)
               /\ UNCHANGED <<inflight, inflightRefresh, inflightIdle, activeOwner>>
      <4>1. ~stray /\ ~IsNews(h)
        BY <2>7, <3>1 DEF IsNews
      <4> QED BY <2>2, <2>7, <3>1, <4>1 DEF ContractInv
    <3>2. CASE /\ TerminalMatches(h.ticket)
               /\ activeOwner' = ActiveOwnerAfterTerminal(h.outcome)
               /\ stray' = (stray /\ inflightRefresh /\ h.outcome \notin ContractLost)
      <4>1. inflight # NoTicket /\ inflight = h.ticket /\ WellFormed(inflight)
        BY <3>2 DEF TerminalMatches, ContractInv, Unsettled
      <4>2. /\ inflightRefresh <=> inflight.kind = "Refresh"
            /\ inflightIdle <=> inflight.kind = "Idle"
        BY <4>1 DEF ContractInv, InflightFlags
      <4>3. CASE inflightRefresh /\ h.outcome \notin ContractLost
        <5>1. ~stray
          BY <2>7, <3>2, <4>3
        <5>2. activeOwner' = activeOwner
          BY <3>2, <4>3 DEF ActiveOwnerAfterTerminal
        <5>3. ~IsNews(h)
          BY <2>5, <4>1, <4>2, <4>3 DEF IsNews, ContractNews
        <5> QED BY <2>2, <2>7, <5>1, <5>2, <5>3 DEF ContractInv
      <4>4. CASE ~(inflightRefresh /\ h.outcome \notin ContractLost)
        <5>1. h.outcome = "Confirmed" /\ ~inflightIdle /\ activeOwner' = RecordedOwner(inflight)
          BY <2>7, <3>2, <4>4 DEF ActiveOwnerAfterTerminal
        <5>2. inflight.kind = "Request"
          <6>1. ~inflightRefresh
            BY <4>4, <5>1 DEF ContractLost
          <6>2. inflight \in Ticket
            BY <1>3, <4>1 DEF TypeOK, TicketOrNone
          <6> QED BY <4>2, <5>1, <6>1, <6>2 DEF Ticket, Kinds
        <5>3. activeOwner' = inflight.owner
          BY <4>1, <5>1, <5>2 DEF RecordedOwner, WellFormed, Owners, NoOwner
        <5>4. IsNews(h) /\ Told(h) = inflight.owner
          BY <4>1, <5>1 DEF IsNews, ContractNews, Told
        <5> QED BY <2>2, <2>7, <5>3, <5>4
      <4> QED BY <4>3, <4>4
    <3> QED BY <2>4, <3>1, <3>2
  <2> QED BY <1>1, <1>2, <2>2, <2>3, <2>6, <2>7 DEF ContractInv
<1> QED BY <1>5, <1>6

LEMMA PublishKeepsContract ==
    ASSUME TypeOK, ContractInv, NEW r \in ResultSet, PdPublishTerminal(r),
           r.ticket.kind = "Refresh" => r.outcome # "Confirmed"
    PROVE  OutcomesFit' /\ LastNewsIs(terminals', contractOwner')
             /\ (Quiet(terminals') => Quiet(terminals) /\ contractOwner' = contractOwner)
<1>1. /\ terminals' = Append(terminals, r) /\ pd'.completion = NoResult
      /\ contractOwner' = ContractOwnerAfter(r.ticket, r.outcome)
  BY DEF PdPublishTerminal
<1>2. contractOwner' = IF IsNews(r) THEN Told(r) ELSE contractOwner
  BY <1>1 DEF ContractOwnerAfter, IsNews, Told, ContractNews, ContractLost
<1>3. terminals \in Seq(ResultSet)
  BY DEF TypeOK
<1>4. OutcomesFit'
  <2>1. \A i \in DOMAIN terminals' :
          terminals'[i] = r \/ (i \in DOMAIN terminals /\ terminals'[i] = terminals[i])
    BY <1>1, <1>3
  <2>2. ~IsNews(NoResult)
    BY DEF IsNews, NoResult, Result, ContractNews, ContractLost
  <2> QED BY <1>1, <2>1, <2>2 DEF ContractInv, OutcomesFit, IsNews
<1>5. /\ LastNewsIs(Append(terminals, r), contractOwner')
      /\ Quiet(Append(terminals, r)) => Quiet(terminals) /\ contractOwner' = contractOwner
  BY <1>2, <1>3, NewsOfAppend DEF ContractInv
<1> QED BY <1>1, <1>4, <1>5

LEMMA PdServiceKeepsContract ==
    ASSUME TypeOK, ContractInv, PdService
    PROVE  ContractInv'
<1>1. UNCHANGED <<cmds, backlog, inflight, deferred, joined, inflightRefresh, inflightIdle,
                  activeOwner, stray>>
  BY DEF PdService, PdTakeCommand, PdAdvance, PdPublishCompletion, PdPublishSettled,
     PdPublishPending, PdPublishTerminal, PdUnchanged, coordVars, turnVars
<1>2. InflightFlags' /\ \A t \in Unsettled' : WellFormed(t)
  BY <1>1, UnsettledUnchanged DEF ContractInv, InflightFlags
<1>3. CASE \E r \in ResultSet : /\ PdPublishTerminal(r)
                                /\ r.ticket.kind = "Refresh" => r.outcome # "Confirmed"
  <2>1. /\ OutcomesFit' /\ LastNewsIs(terminals', contractOwner')
        /\ Quiet(terminals') => Quiet(terminals) /\ contractOwner' = contractOwner
    BY <1>3, PublishKeepsContract
  <2> QED BY <1>1, <1>2, <2>1 DEF ContractInv
<1>4. CASE PdTakeCommand \/ PdAdvance \/ PdPublishPending
  <2>1. UNCHANGED <<terminals, contractOwner>>
    BY <1>4 DEF PdTakeCommand, PdAdvance, PdPublishPending, PdUnchanged
  <2>2. pd'.completion.outcome \in {"None", "Rejected", "Superseded"} \/ pd'.completion = pd.completion
    BY <1>4 DEF PdTakeCommand, PdAdvance, PdPublishPending, Working, Result, NoResult, TypeOK
  <2>3. OutcomesFit'
    BY <2>1, <2>2 DEF ContractInv, OutcomesFit, IsNews, ContractNews, ContractLost
  <2> QED BY <1>1, <1>2, <2>1, <2>3 DEF ContractInv
<1>5. CASE PdPublishCompletion
  <2>1. pd.completion \in ResultSet /\ PdPublishTerminal(pd.completion)
    BY <1>5 DEF PdPublishCompletion, TypeOK
  <2>2. pd.completion.outcome # "Confirmed"
    BY DEF ContractInv, OutcomesFit, IsNews, ContractNews
  <2> QED BY <1>3, <2>1, <2>2
<1>6. CASE PdPublishSettled
  <2>1. PICK o \in SettledOutcomes(pd.pending.kind) : PdPublishTerminal(Result(pd.pending, o))
    BY <1>6 DEF PdPublishSettled
  <2>2. pd.pending \in Ticket
    BY <1>6 DEF PdPublishSettled, TypeOK, TicketOrNone
  <2>3. o \in Outcomes /\ (pd.pending.kind = "Refresh" => o # "Confirmed")
    BY SinkOutcomesAssumption DEF SettledOutcomes
  <2>4. Result(pd.pending, o) \in ResultSet
    BY <2>2, <2>3 DEF Result, ResultSet
  <2>5. Result(pd.pending, o).ticket = pd.pending /\ Result(pd.pending, o).outcome = o
    BY DEF Result
  <2> QED BY <1>3, <2>1, <2>3, <2>4, <2>5
<1> QED BY <1>4, <1>5, <1>6 DEF PdService

\* For any number of slots and tickets: the owner the coordinator shields is the one whose
\* contract the sink has, whenever the coordinator has heard all there is to hear and has
\* thrown no news away since it last decided.
THEOREM ActiveOwnerIsTrue == Spec => []ActiveOwnerHoldsContract
<1>1. Init => ContractInv
  <2> SUFFICES ASSUME Init PROVE ContractInv
    OBVIOUS
  <2>1. Unsettled = {}
    BY EmptyQueue DEF Init, Unsettled
  <2> QED BY <2>1 DEF Init, ContractInv, InflightFlags, OutcomesFit, LastNewsIs, IsNews, Quiet,
             NoResult, Result, ContractNews, ContractLost
<1>2. TicketInv /\ TicketInv' /\ ContractInv /\ [Next]_vars => ContractInv'
  <2> SUFFICES ASSUME TicketInv, TicketInv', ContractInv, [Next]_vars PROVE ContractInv'
    OBVIOUS
  <2>1. CASE UNCHANGED vars
    <3>1. UNCHANGED <<cmds, backlog, inflight, deferred, joined, inflightRefresh, inflightIdle,
                      terminals, contractOwner, activeOwner, stray, pd>>
      BY <2>1 DEF vars, coordVars, turnVars, pdVars, chanVars
    <3>2. InflightFlags' /\ \A t \in Unsettled' : WellFormed(t)
      BY <3>1, UnsettledUnchanged DEF ContractInv, InflightFlags
    <3> QED BY <3>1, <3>2, NothingHeard
  <2>2. CASE Next
    BY <2>2, ClientKeepsContract, CoordinatorKeepsContract, PdServiceKeepsContract
       DEF Next, TicketInv
  <2> QED BY <2>1, <2>2
<1>3. ContractInv => ActiveOwnerHoldsContract
  BY DEF ContractInv, ActiveOwnerHoldsContract, Quiet
<1> QED BY <1>1, <1>2, <1>3, TicketsAreSound, PTL DEF Spec

-----------------------------------------------------------------------------
(* What the service owes.  The mailbox holds the command in flight, or one that  *)
(* was cancelled; whatever the service has in hand left the queue before.        *)

Waiting == (Queued \cup {deferred}) \ {NoTicket}
Served == {r.ticket : r \in Elements(terminals)} \cup {pd.pending, pd.completion.ticket}

ServiceRests == pd.phase = "rest" => pd.completion = NoResult
MailboxIsInflight ==
    mailbox # NoTicket => \/ inflight = mailbox
                          \/ inflight = NoTicket /\ TicketCancelled(mailbox)
ServiceIsAhead ==
    /\ mailbox # NoTicket => mailbox \notin Served
    /\ \A t \in Served \cup {mailbox} : t # NoTicket => t.seq < nextTicket /\ t \notin Waiting
InflightIsOwed == inflight # NoTicket => inflight \in Served \cup {mailbox}
RetryIsOwed ==
    \/ mailbox # NoTicket /\ TicketCancelled(mailbox)
    \/ pd.completion # NoResult
    \/ terminals # <<>>
DeferredIsOwed ==
    /\ step # "settle" => ~retryNext
    /\ deferred # NoTicket /\ step # "retry" /\ ~retryNext => RetryIsOwed

ServiceInv ==
    /\ ServiceRests /\ MailboxIsInflight /\ ServiceIsAhead /\ InflightIsOwed /\ DeferredIsOwed

LEMMA ServedType == TypeOK => Served \subseteq TicketOrNone
<1> SUFFICES ASSUME TypeOK PROVE Served \subseteq TicketOrNone
  OBVIOUS
<1>1. \A r \in ResultSet \cup {NoResult} : r.ticket \in TicketOrNone
  BY DEF ResultSet, NoResult, Result, TicketOrNone
<1>2. Elements(terminals) \subseteq ResultSet
  BY DEF TypeOK, Elements
<1>3. pd.pending \in TicketOrNone /\ pd.completion \in ResultSet \cup {NoResult}
  BY DEF TypeOK
<1> QED BY <1>1, <1>2, <1>3 DEF Served

\* dispatch_power_command, for the head of a queue or the deferred command.
LEMMA DispatchServes ==
    ASSUME TicketInv, TicketInv', ServiceInv, NEW c \in Waiting, c \in Ticket, NEW d,
           d \in {deferred, NoTicket}, Dispatch(c, d), Queued' \subseteq Queued,
           UNCHANGED <<pd, terminals, nextTicket>>
    PROVE  /\ ServiceRests' /\ MailboxIsInflight' /\ ServiceIsAhead' /\ InflightIsOwed'
           /\ deferred' # NoTicket =>
                 RetryIsOwed' \/ (deferred' = d /\ (RetryIsOwed => RetryIsOwed'))
<1>1. Served' = Served /\ ServiceRests'
  BY DEF Served, Elements, ServiceInv, ServiceRests
<1>2. c # NoTicket /\ c.seq < nextTicket /\ c \notin Served \cup {mailbox}
  <2>1. c \in Unsettled
    BY DEF Waiting, Queued, Unsettled
  <2>2. c.seq < nextTicket
    BY <2>1 DEF TicketInv, SlotInv, KnownAreIssued, Known
  <2> QED BY <2>2 DEF Waiting, ServiceInv, ServiceIsAhead
<1>3. CASE Verdict(c, d) = "Send"
  <2>1. mailbox' = c /\ inflight' = c /\ deferred' = NoTicket
    BY <1>3 DEF Dispatch
  <2>2. c \notin Queued'
    <3>1. c \in Placed'
      BY <1>2, <2>1 DEF Placed
    <3>2. \A y \in Queued' : c.seq < y.seq
      BY <3>1 DEF TicketInv, OrderInv, QueuesAreOrdered
    <3> QED BY <3>2 DEF Ticket
  <2>3. Waiting' \subseteq Waiting /\ c \notin Waiting'
    BY <2>1, <2>2 DEF Waiting
  <2>4. ServiceIsAhead'
    BY <1>1, <1>2, <2>1, <2>3 DEF ServiceIsAhead, ServiceInv
  <2>5. MailboxIsInflight' /\ InflightIsOwed'
    BY <2>1 DEF MailboxIsInflight, InflightIsOwed
  <2> QED BY <1>1, <2>1, <2>4, <2>5
<1>4. CASE Verdict(c, d) = "Defer"
  <2>1. mailbox # NoTicket /\ mailbox' = mailbox /\ inflight' = NoTicket /\ deferred' = c
    BY <1>4 DEF Dispatch, Verdict
  <2>2. cancelled' = IF inflight # NoTicket THEN WatermarkAfterCancel(inflight) ELSE cancelled
    BY <1>4 DEF Dispatch
  <2>3. mailbox.seq <= cancelled'
    <3>1. mailbox \in Ticket /\ cancelled \in Nat
      BY <2>1 DEF TicketInv, TypeOK, TicketOrNone
    <3>2. mailbox.seq \in Nat
      BY <3>1 DEF Ticket
    <3>3. CASE inflight = mailbox
      BY <2>1, <2>2, <3>1, <3>2, <3>3 DEF WatermarkAfterCancel
    <3>4. CASE inflight = NoTicket /\ mailbox.seq <= cancelled
      BY <2>2, <3>4
    <3> QED BY <2>1, <3>3, <3>4 DEF ServiceInv, MailboxIsInflight, TicketCancelled
  <2>4. MailboxIsInflight' /\ RetryIsOwed' /\ InflightIsOwed'
    BY <2>1, <2>3 DEF MailboxIsInflight, RetryIsOwed, TicketCancelled, InflightIsOwed
  <2>5. Waiting' \subseteq Waiting
    BY <2>1 DEF Waiting
  <2>6. ServiceIsAhead'
    BY <1>1, <2>1, <2>5 DEF ServiceIsAhead, ServiceInv
  <2> QED BY <1>1, <2>4, <2>6
<1>5. CASE Verdict(c, d) \notin {"Send", "Defer"}
  <2>1. mailbox' = mailbox /\ inflight' = inflight /\ cancelled' = cancelled
        /\ deferred' \in {d, NoTicket}
    BY <1>5 DEF Dispatch
  <2>2. Waiting' \subseteq Waiting
    BY <2>1 DEF Waiting
  <2>3. ServiceIsAhead'
    BY <1>1, <2>1, <2>2 DEF ServiceIsAhead, ServiceInv
  <2>4. MailboxIsInflight' /\ InflightIsOwed' /\ (RetryIsOwed => RetryIsOwed')
    BY <1>1, <2>1 DEF MailboxIsInflight, InflightIsOwed, ServiceInv, RetryIsOwed, TicketCancelled
  <2> QED BY <1>1, <2>1, <2>3, <2>4
<1> QED BY <1>3, <1>4, <1>5

\* Steps that leave the service, its channels and the places alone.
LEMMA NothingServed ==
    ASSUME ServiceInv,
           UNCHANGED <<pd, terminals, mailbox, cancelled, inflight, deferred, nextTicket>>,
           Queued' \subseteq Queued
    PROVE  /\ ServiceRests' /\ MailboxIsInflight' /\ ServiceIsAhead' /\ InflightIsOwed'
           /\ RetryIsOwed' <=> RetryIsOwed
<1>1. Served' = Served /\ Waiting' \subseteq Waiting
  BY DEF Served, Elements, Waiting
<1> QED BY <1>1 DEF ServiceInv, ServiceRests, MailboxIsInflight, ServiceIsAhead, InflightIsOwed,
                    RetryIsOwed, TicketCancelled

LEMMA ClientKeepsService ==
    ASSUME TicketInv, ServiceInv, Client
    PROVE  ServiceInv'
<1>1. UNCHANGED <<pd, terminals, mailbox, cancelled, inflight, deferred, step, retryNext, backlog>>
  BY DEF Client, Submit, TryTake, DiscardBegin, DiscardMark, DiscardRetake, DiscardUnmark,
         ToggleHold, coordVars, turnVars, pdVars, chanVars
<1>2. CASE \E i \in Intents : Submit(i)
  <2>1. PICK i \in Intents : Submit(i)
    BY <1>2
  <2>2. PICK t \in Ticket : t.seq = nextTicket /\ Elements(cmds') = Elements(cmds) \cup {t}
    BY <2>1, SubmitAdds DEF TicketInv
  <2>3. nextTicket' = nextTicket + 1 /\ nextTicket \in Nat
    BY <2>1 DEF Submit, TicketInv, TypeOK
  <2>4. Served' = Served
    BY <1>1 DEF Served, Elements
  <2>5. Waiting' \subseteq Waiting \cup {t}
    <3>1. Queued' = Elements(cmds') \cup Elements(backlog')
      BY DEF Queued, Elements
    <3>2. Elements(backlog') = Elements(backlog)
      BY <1>1
    <3> QED BY <1>1, <2>2, <3>1, <3>2 DEF Waiting, Queued
  <2>6. ASSUME NEW u \in Served \cup {mailbox}, u # NoTicket
        PROVE  u.seq < nextTicket' /\ u \notin Waiting'
    <3>1. u.seq < nextTicket /\ u \notin Waiting
      BY <2>6 DEF ServiceInv, ServiceIsAhead
    <3>2. u.seq \in Nat
      <4>1. u \in Ticket
        BY <2>6, ServedType DEF TicketInv, TypeOK, TicketOrNone
      <4> QED BY <4>1 DEF Ticket
    <3>3. u # t
      BY <2>2, <2>3, <3>1, <3>2
    <3> QED BY <2>3, <2>5, <3>1, <3>2, <3>3
  <2>7. ServiceIsAhead'
    BY <1>1, <2>4, <2>6 DEF ServiceInv, ServiceIsAhead
  <2> QED BY <1>1, <2>4, <2>7 DEF ServiceInv, ServiceRests, MailboxIsInflight, InflightIsOwed,
               DeferredIsOwed, RetryIsOwed, TicketCancelled
<1>3. CASE ~\E i \in Intents : Submit(i)
  <2>1. cmds' = cmds /\ nextTicket' = nextTicket
    BY <1>3 DEF Client, TryTake, DiscardBegin, DiscardMark, DiscardRetake, DiscardUnmark,
         ToggleHold, chanVars
  <2>2. Queued' = Queued
    BY <1>1, <2>1 DEF Queued, Elements
  <2> QED BY <1>1, <2>1, <2>2, NothingServed DEF ServiceInv, DeferredIsOwed
<1> QED BY <1>2, <1>3

LEMMA ReceiveCommandKeepsService ==
    ASSUME TicketInv, TicketInv', ServiceInv, ReceiveCommand
    PROVE  ServiceInv'
<1> DEFINE c == Head(cmds)
<1>1. /\ step = "await" /\ cmds \in Seq(Ticket) /\ cmds # <<>> /\ Dispatch(c, deferred)
      /\ UNCHANGED <<pd, terminals, nextTicket>>
      /\ \/ cmds' = Tail(cmds) /\ backlog' = backlog /\ step' = step /\ retryNext' = retryNext
         \/ cmds' = <<>> /\ backlog' = Tail(cmds) /\ step' = "settle" /\ retryNext' = FALSE
  BY DEF ReceiveCommand, CollectBacklog, turnVars, TicketInv, TypeOK, clientVars, pdVars
<1>2. c \in Elements(cmds) /\ c \in Ticket /\ Elements(Tail(cmds)) \subseteq Elements(cmds)
  BY <1>1, ElementsOfTail, QueueType
<1>3. Queued' \subseteq Queued
  <2>1. Queued' = Elements(cmds') \cup Elements(backlog')
    BY DEF Queued, Elements
  <2> QED BY <1>1, <1>2, <2>1, EmptyQueue DEF Queued
<1>4. c \in Waiting
  BY <1>2, NoneIsNone DEF Waiting, Queued
<1> HIDE DEF c
<1>5. /\ ServiceRests' /\ MailboxIsInflight' /\ ServiceIsAhead' /\ InflightIsOwed'
      /\ deferred' # NoTicket =>
            RetryIsOwed' \/ (deferred' = deferred /\ (RetryIsOwed => RetryIsOwed'))
  BY <1>1, <1>2, <1>3, <1>4, DispatchServes
<1>6. DeferredIsOwed'
  BY <1>1, <1>5 DEF DeferredIsOwed, ServiceInv
<1> QED BY <1>5, <1>6 DEF ServiceInv

LEMMA SettleBacklogEntryKeepsService ==
    ASSUME TicketInv, TicketInv', ServiceInv, SettleBacklogEntry
    PROVE  ServiceInv'
<1> DEFINE c == Head(backlog)
<1>1. /\ step = "settle" /\ backlog \in Seq(Ticket) /\ backlog # <<>>
      /\ UNCHANGED <<pd, terminals, nextTicket, step, retryNext, cmds>> /\ backlog' = Tail(backlog)
      /\ \/ UNCHANGED <<mailbox, cancelled, inflight, deferred>>
         \/ Dispatch(c, deferred)
  BY DEF SettleBacklogEntry, TicketInv, TypeOK, clientVars, pdVars, coordVars
<1>2. c \in Elements(backlog) /\ c \in Ticket /\ Elements(Tail(backlog)) \subseteq Elements(backlog)
  BY <1>1, ElementsOfTail, QueueType
<1>3. Queued' \subseteq Queued
  <2>1. Queued' = Elements(cmds') \cup Elements(backlog')
    BY DEF Queued, Elements
  <2> QED BY <1>1, <1>2, <2>1 DEF Queued
<1>4. c \in Waiting
  BY <1>2, NoneIsNone DEF Waiting, Queued
<1> HIDE DEF c
<1>5. /\ ServiceRests' /\ MailboxIsInflight' /\ ServiceIsAhead' /\ InflightIsOwed'
      /\ deferred' # NoTicket =>
            RetryIsOwed' \/ (deferred' = deferred /\ (RetryIsOwed => RetryIsOwed'))
  BY <1>1, <1>2, <1>3, <1>4, DispatchServes, NothingServed
<1>6. DeferredIsOwed'
  BY <1>1, <1>5 DEF DeferredIsOwed, ServiceInv
<1> QED BY <1>5, <1>6 DEF ServiceInv

LEMMA RetryDeferredKeepsService ==
    ASSUME TicketInv, TicketInv', ServiceInv, RetryDeferred
    PROVE  ServiceInv'
<1>1. /\ step = "retry" /\ UNCHANGED <<pd, terminals, nextTicket>>
      /\ \/ cmds' = cmds /\ backlog' = backlog /\ step' = "await" /\ retryNext' = retryNext
         \/ cmds' = <<>> /\ backlog' = cmds /\ step' = "settle" /\ retryNext' = FALSE
      /\ \/ deferred = NoTicket /\ UNCHANGED <<mailbox, cancelled, inflight, deferred>>
         \/ deferred # NoTicket /\ Dispatch(deferred, NoTicket)
  BY DEF RetryDeferred, CollectBacklog, clientVars, pdVars, coordVars, chanVars
<1>2. Queued' \subseteq Queued
  <2>1. Queued' = Elements(cmds') \cup Elements(backlog')
    BY DEF Queued, Elements
  <2> QED BY <1>1, <2>1, EmptyQueue DEF Queued
<1>3. deferred # NoTicket => deferred \in Waiting /\ deferred \in Ticket
  BY DEF Waiting, TicketInv, TypeOK, TicketOrNone
<1>4. /\ ServiceRests' /\ MailboxIsInflight' /\ ServiceIsAhead' /\ InflightIsOwed'
      /\ deferred' # NoTicket => RetryIsOwed'
  BY <1>1, <1>2, <1>3, DispatchServes, NothingServed
<1>5. DeferredIsOwed'
  BY <1>1, <1>4 DEF DeferredIsOwed, ServiceInv
<1> QED BY <1>4, <1>5 DEF ServiceInv

LEMMA FinishBacklogKeepsService ==
    ASSUME TicketInv, ServiceInv, FinishBacklog
    PROVE  ServiceInv'
<1>1. /\ UNCHANGED <<pd, terminals, mailbox, cancelled, inflight, deferred, nextTicket, cmds, backlog>>
      /\ step = "settle" /\ retryNext' = FALSE
      /\ step' = IF retryNext THEN "retry" ELSE "await"
  BY DEF FinishBacklog, clientVars, coordVars, pdVars, chanVars
<1>2. Queued' = Queued
  BY <1>1 DEF Queued, Elements
<1>3. /\ ServiceRests' /\ MailboxIsInflight' /\ ServiceIsAhead' /\ InflightIsOwed'
      /\ RetryIsOwed' <=> RetryIsOwed
  BY <1>1, <1>2, NothingServed
<1>4. DeferredIsOwed'
  BY <1>1, <1>3 DEF DeferredIsOwed, ServiceInv
<1> QED BY <1>3, <1>4 DEF ServiceInv

LEMMA ReceiveTerminalKeepsService ==
    ASSUME TicketInv, ServiceInv, ReceiveTerminal
    PROVE  ServiceInv'
<1> DEFINE h == Head(terminals)
<1>1. /\ step = "await" /\ terminals \in Seq(ResultSet) /\ terminals # <<>>
      /\ terminals' = Tail(terminals)
      /\ UNCHANGED <<pd, nextTicket, mailbox, cancelled, deferred>>
      /\ \/ cmds' = cmds /\ backlog' = backlog /\ step' = "retry" /\ retryNext' = retryNext
         \/ cmds' = <<>> /\ backlog' = cmds /\ step' = "settle" /\ retryNext' = TRUE
      /\ \/ inflight = h.ticket /\ inflight' = NoTicket
         \/ ~TerminalMatches(h.ticket) /\ inflight' = inflight
  BY DEF ReceiveTerminal, CollectBacklog, TerminalMatches, TicketInv, TypeOK, clientVars, pdVars
<1>2. Queued' \subseteq Queued
  <2>1. Queued' = Elements(cmds') \cup Elements(backlog')
    BY DEF Queued, Elements
  <2> QED BY <1>1, <2>1, EmptyQueue DEF Queued
<1>3. Elements(terminals) = {h} \cup Elements(terminals')
  BY <1>1, ElementsOfTail
<1> HIDE DEF h
<1>4. Served = {h.ticket} \cup Served'
  <2>1. Served' = {r.ticket : r \in Elements(terminals')} \cup {pd.pending, pd.completion.ticket}
    BY <1>1 DEF Served, Elements
  <2> QED BY <1>3, <2>1 DEF Served
<1>5. Waiting' \subseteq Waiting
  BY <1>1, <1>2 DEF Waiting
<1>6. ServiceIsAhead'
  BY <1>1, <1>4, <1>5 DEF ServiceInv, ServiceIsAhead
<1>7. MailboxIsInflight'
  <2>1. mailbox # NoTicket => mailbox # h.ticket
    BY <1>4 DEF ServiceInv, ServiceIsAhead
  <2> QED BY <1>1, <2>1 DEF ServiceInv, MailboxIsInflight, TicketCancelled
<1>8. InflightIsOwed'
  BY <1>1, <1>4 DEF ServiceInv, InflightIsOwed, TerminalMatches
<1>9. DeferredIsOwed' /\ ServiceRests'
  BY <1>1 DEF ServiceInv, DeferredIsOwed, ServiceRests
<1> QED BY <1>6, <1>7, <1>8, <1>9 DEF ServiceInv

\* The service's turns: nothing leaves its hands but into the terminals, except an old
\* pending command that a new one replaces, and that one is not in flight.
LEMMA ServiceTurn ==
    ASSUME TicketInv, ServiceInv,
           UNCHANGED <<cmds, backlog, inflight, deferred, cancelled, nextTicket, step, retryNext>>,
           mailbox' \in {mailbox, NoTicket},
           Served' \subseteq Served \cup {mailbox, NoTicket},
           mailbox' = mailbox => Served' \subseteq Served \cup {NoTicket},
           ServiceRests', InflightIsOwed', RetryIsOwed => RetryIsOwed'
    PROVE  ServiceInv'
<1>1. Waiting' = Waiting
  BY DEF Waiting, Queued, Elements
<1>2. ServiceIsAhead'
  BY <1>1 DEF ServiceInv, ServiceIsAhead
<1>3. MailboxIsInflight' /\ DeferredIsOwed'
  BY DEF ServiceInv, MailboxIsInflight, TicketCancelled, DeferredIsOwed
<1> QED BY <1>2, <1>3 DEF ServiceInv

LEMMA PublishServes ==
    ASSUME TypeOK, ServiceInv, NEW r \in ResultSet, PdPublishTerminal(r),
           r.ticket \in Served, pd.completion = NoResult \/ r = pd.completion, inflight' = inflight
    PROVE  /\ Served' \subseteq Served \cup {NoTicket}
           /\ ServiceRests' /\ InflightIsOwed' /\ RetryIsOwed'
<1>1. /\ terminals' = Append(terminals, r) /\ terminals \in Seq(ResultSet) /\ mailbox' = mailbox
      /\ pd' = [phase |-> "rest", pending |-> PendingAfterTerminal(r.ticket), completion |-> NoResult]
  BY DEF PdPublishTerminal, TypeOK
<1>2. Elements(terminals') = Elements(terminals) \cup {r}
  BY <1>1, ElementsOfAppend
<1>3. NoResult.ticket = NoTicket
  BY DEF NoResult, Result
<1>4. pd'.pending = PendingAfterTerminal(r.ticket) /\ pd'.completion = NoResult
  BY <1>1
<1>5. Served' = {x.ticket : x \in Elements(terminals) \cup {r}}
                  \cup {PendingAfterTerminal(r.ticket), NoTicket}
  <2>1. Served' = {x.ticket : x \in Elements(terminals')} \cup {pd'.pending, pd'.completion.ticket}
    BY DEF Served, Elements
  <2> QED BY <1>2, <1>3, <1>4, <2>1
<1>6. Served' \subseteq Served \cup {NoTicket}
  BY <1>5 DEF Served, PendingAfterTerminal
<1>7. Served \subseteq Served' \cup {NoTicket}
  BY <1>3, <1>5 DEF Served, PendingAfterTerminal
<1>8. InflightIsOwed'
  BY <1>1, <1>7 DEF ServiceInv, InflightIsOwed
<1>9. ServiceRests' /\ RetryIsOwed'
  BY <1>1 DEF ServiceRests, RetryIsOwed
<1> QED BY <1>6, <1>8, <1>9

LEMMA PdServiceKeepsService ==
    ASSUME TicketInv, ServiceInv, PdService
    PROVE  ServiceInv'
<1>1. UNCHANGED <<cmds, backlog, inflight, deferred, cancelled, nextTicket, step, retryNext>>
  BY DEF PdService, PdTakeCommand, PdAdvance, PdPublishCompletion, PdPublishSettled,
     PdPublishPending, PdPublishTerminal, PdUnchanged, clientVars, coordVars, turnVars
<1>2. NoResult.ticket = NoTicket /\ Result(mailbox, "Rejected").ticket = mailbox
      /\ Result(mailbox, "Superseded").ticket = mailbox
      /\ Result(pd.pending, "Superseded").ticket = pd.pending
      /\ Result(pd.pending, "Rejected").ticket = pd.pending
  BY DEF NoResult, Result
<1>3. TypeOK /\ pd.pending \in TicketOrNone /\ mailbox \in TicketOrNone
  BY DEF TicketInv, TypeOK
<1>4. ASSUME terminals' = terminals
      PROVE  Served' = {r.ticket : r \in Elements(terminals)} \cup {pd'.pending, pd'.completion.ticket}
  BY <1>4 DEF Served, Elements
<1>5. CASE PdTakeCommand
  <2>1. /\ pd.completion = NoResult /\ mailbox # NoTicket /\ mailbox' = NoTicket
        /\ terminals' = terminals /\ pd'.phase = "working"
    BY <1>5 DEF PdTakeCommand, PdMayRun, ServiceInv, ServiceRests, PdUnchanged, Working
  <2>2. \/ /\ pd'.completion # NoResult /\ pd'.completion.ticket = mailbox
           /\ pd'.pending \in {pd.pending, NoTicket}
        \/ /\ ~TicketCancelled(mailbox) /\ pd'.completion = NoResult /\ pd'.pending = mailbox
    <3>1. \A o : Result(mailbox, o) # NoResult
      BY <2>1 DEF Result, NoResult
    <3> QED BY <1>2, <1>5, <3>1 DEF PdTakeCommand, Working
  <2>3. mailbox \in Served' /\ Served' \subseteq Served \cup {mailbox, NoTicket}
    BY <1>2, <1>4, <2>1, <2>2 DEF Served
  <2>4. InflightIsOwed' /\ ServiceRests'
    BY <1>1, <2>1, <2>3 DEF ServiceInv, MailboxIsInflight, InflightIsOwed, ServiceRests
  <2>5. RetryIsOwed => RetryIsOwed'
    BY <2>1, <2>2 DEF RetryIsOwed
  <2> QED BY <1>1, <2>1, <2>3, <2>4, <2>5, ServiceTurn
<1>6. CASE PdAdvance
  <2>1. /\ pd.completion = NoResult /\ mailbox' = mailbox /\ mailbox = NoTicket
        /\ terminals' = terminals /\ pd'.phase = "working" /\ pd.pending # NoTicket
    BY <1>6 DEF PdAdvance, PdMayRun, ServiceInv, ServiceRests, PdUnchanged, Working
  <2>2. \/ pd'.completion.ticket = pd.pending /\ pd'.pending = NoTicket
        \/ pd'.completion = NoResult /\ pd'.pending = pd.pending
    BY <1>2, <1>6 DEF PdAdvance, Working
  <2>3. Served' = Served \cup {NoTicket}
    BY <1>2, <1>4, <2>1, <2>2 DEF Served
  <2>4. InflightIsOwed' /\ ServiceRests'
    BY <1>1, <2>1, <2>3 DEF ServiceInv, InflightIsOwed, ServiceRests
  <2>5. RetryIsOwed => RetryIsOwed'
    BY <2>1 DEF RetryIsOwed
  <2> QED BY <1>1, <2>1, <2>3, <2>4, <2>5, ServiceTurn
<1>7. CASE PdPublishCompletion
  <2>1. PdPublishTerminal(pd.completion) /\ pd.completion \in ResultSet /\ mailbox' = mailbox
    BY <1>3, <1>7 DEF PdPublishCompletion, TypeOK, PdPublishTerminal
  <2>2. pd.completion.ticket \in Served
    BY DEF Served
  <2>3. /\ Served' \subseteq Served \cup {NoTicket}
        /\ ServiceRests' /\ InflightIsOwed' /\ RetryIsOwed'
    BY <1>1, <1>3, <2>1, <2>2, PublishServes
  <2> QED BY <1>1, <2>1, <2>3, ServiceTurn
<1>8. CASE PdPublishSettled
  <2>1. PICK o \in SettledOutcomes(pd.pending.kind) : PdPublishTerminal(Result(pd.pending, o))
    BY <1>8 DEF PdPublishSettled
  <2>2. /\ pd.pending \in Ticket /\ o \in Outcomes /\ pd.completion = NoResult
        /\ mailbox' = mailbox
    BY <1>3, <1>8, <2>1, SinkOutcomesAssumption
       DEF PdPublishSettled, TicketOrNone, SettledOutcomes, PdPublishTerminal
  <2>3. Result(pd.pending, o) \in ResultSet /\ Result(pd.pending, o).ticket \in Served
    BY <2>2 DEF Result, ResultSet, Served
  <2>4. /\ Served' \subseteq Served \cup {NoTicket}
        /\ ServiceRests' /\ InflightIsOwed' /\ RetryIsOwed'
    BY <1>1, <1>3, <2>1, <2>2, <2>3, PublishServes
  <2> QED BY <1>1, <2>2, <2>4, ServiceTurn
<1>9. CASE PdPublishPending
  <2>1. /\ pd.completion = NoResult /\ mailbox' = mailbox /\ terminals' = terminals
        /\ pd'.completion = pd.completion /\ pd'.pending = pd.pending
    BY <1>3, <1>9 DEF PdPublishPending, PdUnchanged, TypeOK
  <2>2. Served' = Served
    BY <1>4, <2>1 DEF Served
  <2>3. ServiceRests' /\ InflightIsOwed' /\ (RetryIsOwed => RetryIsOwed')
    BY <1>1, <2>1, <2>2 DEF ServiceInv, ServiceRests, InflightIsOwed, RetryIsOwed, TicketCancelled
  <2> QED BY <1>1, <2>1, <2>2, <2>3, ServiceTurn
<1> QED BY <1>5, <1>6, <1>7, <1>8, <1>9 DEF PdService

\* For any number of slots and tickets: a terminal for the ticket in flight is always on its
\* way, and so is the terminal that makes the coordinator retry a deferred command; no
\* order of takes, cancellations and publications leaves either waiting for nothing.
THEOREM ProgressIsAlwaysOwed == Spec => []ProgressIsOwed
<1>1. Init => ServiceInv
  <2> SUFFICES ASSUME Init PROVE ServiceInv
    OBVIOUS
  <2>1. Served \subseteq {NoTicket}
    BY EmptyQueue DEF Init, Served, NoResult, Result
  <2> QED BY <2>1 DEF Init, ServiceInv, ServiceRests, MailboxIsInflight, ServiceIsAhead,
             InflightIsOwed, DeferredIsOwed
<1>2. TicketInv /\ TicketInv' /\ ServiceInv /\ [Next]_vars => ServiceInv'
  <2> SUFFICES ASSUME TicketInv, TicketInv', ServiceInv, [Next]_vars PROVE ServiceInv'
    OBVIOUS
  <2>1. CASE UNCHANGED vars
    <3>1. UNCHANGED <<pd, terminals, mailbox, cancelled, inflight, deferred, nextTicket, cmds,
                      backlog, step, retryNext>>
      BY <2>1 DEF vars, clientVars, coordVars, turnVars, pdVars, chanVars
    <3>2. Queued' = Queued
      BY <3>1 DEF Queued, Elements
    <3> QED BY <3>1, <3>2, NothingServed DEF ServiceInv, DeferredIsOwed
  <2>2. CASE Next
    BY <2>2, ClientKeepsService, ReceiveCommandKeepsService, SettleBacklogEntryKeepsService,
       RetryDeferredKeepsService, FinishBacklogKeepsService, ReceiveTerminalKeepsService,
       PdServiceKeepsService DEF Next, Coordinator
  <2> QED BY <2>1, <2>2
<1>3. ServiceInv /\ TicketInv => ProgressIsOwed
  <2> SUFFICES ASSUME ServiceInv, TicketInv PROVE ProgressIsOwed
    OBVIOUS
  <2>1. inflight # NoTicket =>
          \/ inflight \in {mailbox, pd.pending, pd.completion.ticket}
          \/ \E r \in Elements(terminals) : r.ticket = inflight
    BY DEF ServiceInv, InflightIsOwed, Served
  <2>2. step = "await" /\ deferred # NoTicket => RetryIsOwed
    BY DEF ServiceInv, DeferredIsOwed
  <2> QED BY <2>1, <2>2 DEF ProgressIsOwed, RetryIsOwed
<1> QED BY <1>1, <1>2, <1>3, TicketsAreSound, PTL DEF Spec
=============================================================================
