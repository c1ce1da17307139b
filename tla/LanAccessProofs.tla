---------------------------- MODULE LanAccessProofs ----------------------------
(***************************************************************************)
(* Safety of LAN access for every mailbox size, lease time and number of      *)
(* tokens, leases, requests and restarts: one inductive invariant, Inv, from  *)
(* which the invariants and the action property of LanAccess follow.         *)
(***************************************************************************)
EXTENDS LanAccess, FiniteSetTheorems, TLAPS

Slots == 1..Len(mailbox)

\* Every command still to be applied was dispatched, and once.
Counted == revision + Len(mailbox) + (IF loop = NoCommand THEN 0 ELSE 1) <= issued.request

\* The applied writes are numbered below the revision, the one under execution
\* carries it.
Numbered ==
    /\ IsFiniteSet(applied) /\ Cardinality(applied) = revision
    /\ \A c \in applied : c.rev < revision
    /\ \A c, d \in applied : c.rev = d.rev => c = d
    /\ loop # NoCommand /\ loop.write => loop.rev = revision

\* A lease in force belongs to the token in force, and so do the queued writes
\* that were admitted with it.
Leased ==
    /\ lease.id <= issued.lease
    /\ lease.id # 0 => token # 0
    /\ \A i \in Slots :
         /\ mailbox[i].lease <= issued.lease
         /\ mailbox[i].write /\ mailbox[i].lease # 0 /\ mailbox[i].lease = lease.id
              => mailbox[i].token = token

\* Commands are executed in the order of their numbers, each has the fate
\* "queued" until then, and later numbers have not been used.
Queued ==
    /\ \A i \in Slots : mailbox[i].id <= issued.request /\ fate[mailbox[i].id] = "queued"
    /\ \A i, j \in Slots : i < j => mailbox[i].id < mailbox[j].id
    /\ loop # NoCommand =>
         /\ loop.id <= issued.request /\ fate[loop.id] = "queued"
         /\ \A i \in Slots : loop.id < mailbox[i].id
    /\ \A r \in Requests : r > issued.request => fate[r] = "none" /\ told[r].status = 0

\* A worker waits for the newest command; once that is decided nothing is left
\* to overwrite its answer.
Awaited ==
    worker.pc = "waiting" =>
        /\ worker.id = issued.request /\ worker.id # 0
        /\ fate[worker.id] # "queued" =>
             mailbox = <<>> /\ loop = NoCommand /\ signal.id = worker.id

\* The answer in the signal is true of the command it names.
SignalIsTrue ==
    signal # NoAnswer =>
        /\ signal.status = 200 =>
             \/ fate[signal.id] = "served"
             \/ /\ fate[signal.id] = "applied"
                /\ \A c \in applied : c.id = signal.id => signal.rev = c.rev + 1
        /\ signal.status \in {400, 409} => fate[signal.id] = "refused"

Answered ==
    /\ \A c \in applied : fate[c.id] = "applied"
    /\ SignalIsTrue
    /\ AnswersAreTrue

Inv == TypeOK /\ Counted /\ Numbered /\ Leased /\ Queued /\ Awaited /\ Answered

-----------------------------------------------------------------------------
(* Sequences: what try_send and receive do to the mailbox.                   *)

LEMMA SentSlots ==
    ASSUME NEW S, NEW s \in Seq(S), NEW e \in S
    PROVE  /\ Append(s, e) \in Seq(S) /\ Len(Append(s, e)) = Len(s) + 1
           /\ \A i \in 1..Len(s) : Append(s, e)[i] = s[i]
           /\ Append(s, e)[Len(s) + 1] = e
OBVIOUS

LEMMA ReceivedSlots ==
    ASSUME NEW S, NEW s \in Seq(S), s # <<>>
    PROVE  /\ Len(s) \in Nat \ {0} /\ Head(s) = s[1] /\ s[1] \in S
           /\ Tail(s) \in Seq(S) /\ Len(Tail(s)) = Len(s) - 1
           /\ \A i \in 1..(Len(s) - 1) : Tail(s)[i] = s[i + 1]
OBVIOUS

\* NoCommand and NoAnswer are no command and no answer.
LEMMA NothingIsNoCommand == NoCommand \notin Commands /\ NoAnswer \notin Answers
BY LanAssumption DEF NoCommand, Commands, NoAnswer, Answers, Requests

-----------------------------------------------------------------------------
(* Types.                                                                    *)
\* The empty values belong to their types.
LEMMA NothingType ==
    /\ NoWindow \in Windows /\ NoLease \in Leases /\ Free \in Workers
    /\ [page |-> "other", code |-> 0] \in Panels
BY LanAssumption DEF NoWindow, NoLease, Free, Windows, Leases, Workers, Panels

LEMMA SettledType ==
    ASSUME NEW t \in 0..MaxTokens
    PROVE  Settled(t) \in Configs
BY DEF Settled, Configs

LEMMA RoomLeft ==
    ASSUME TypeOK, Room
    PROVE  issued.request < MaxRequests /\ issued.upset < MaxRequests
BY LanAssumption DEF TypeOK, Room, Counts

LEMMA TypeInit == Init => TypeOK
<1> SUFFICES ASSUME Init PROVE TypeOK
  OBVIOUS
<1>1. dirty \in BOOLEAN
  BY Zenon DEF Init
<1>2. mailbox \in Seq(Commands) /\ Len(mailbox) <= MailboxSize
  BY LanAssumption DEF Init
<1>3. config \in Configs
  BY SettledType, LanAssumption DEF Init
<1>4. issued \in Counts
  BY LanAssumption DEF Init, Counts
<1>5. told \in Tellings /\ fate \in Fates
  BY LanAssumption DEF Init, Tellings, Fates
<1> QED
  BY <1>1, <1>2, <1>3, <1>4, <1>5, NothingType, LanAssumption DEF Init, TypeOK

LEMMA CommandType ==
    ASSUME TypeOK, issued.request < MaxRequests,
           NEW w \in BOOLEAN, NEW id \in 0..MaxLeases, NEW rev \in 0..MaxRequests
    PROVE  /\ Command(w, id, rev) \in Commands
           /\ Command(w, id, rev).id = issued.request + 1
           /\ Command(w, id, rev).write = w
           /\ Command(w, id, rev).lease = id
           /\ Command(w, id, rev).token = token
<1>1. issued.request + 1 \in Requests /\ token \in 0..MaxTokens
  BY LanAssumption DEF TypeOK, Counts, Requests
<1>2. Command(w, id, rev) \in Commands
  BY <1>1 DEF Command, Commands
<1>3. /\ Command(w, id, rev).id = issued.request + 1
      /\ Command(w, id, rev).lease = id
      /\ Command(w, id, rev).token = token
  BY DEF Command
<1>4. Command(w, id, rev).write = w
  BY DEF Command
<1> QED BY <1>2, <1>3, <1>4

LEMMA CommandFields ==
    ASSUME NEW c \in Commands
    PROVE  /\ c.id \in Requests /\ c.id \in 1..MaxRequests /\ c.lease \in 0..MaxLeases
           /\ c.rev \in 0..MaxRequests /\ c.token \in 0..MaxTokens /\ c.write \in BOOLEAN
BY DEF Commands, Requests

LEMMA DispatchType ==
    ASSUME TypeOK, NEW c \in Commands, Dispatch(c)
    PROVE  /\ mailbox' \in Seq(Commands) /\ Len(mailbox') <= MailboxSize
           /\ worker' \in Workers /\ fate' \in Fates /\ told' \in Tellings
           /\ issued' \in Counts
<1>1. c.id \in Requests /\ c.id \in 0..MaxRequests
  BY CommandFields
<1>2. issued' \in Counts
  BY <1>1 DEF Dispatch, Counts, TypeOK
<1>3. mailbox' \in Seq(Commands) /\ Len(mailbox') <= MailboxSize
  <2>1. mailbox \in Seq(Commands) /\ Len(mailbox) <= MailboxSize /\ Len(mailbox) \in Nat
    BY DEF TypeOK
  <2>2. CASE Len(mailbox) < MailboxSize
    <3>1. mailbox' = Append(mailbox, c)
      BY <2>2 DEF Dispatch
    <3>2. Append(mailbox, c) \in Seq(Commands) /\ Len(Append(mailbox, c)) = Len(mailbox) + 1
      BY <2>1, SentSlots
    <3> QED BY <2>1, <2>2, <3>1, <3>2, LanAssumption
  <2>3. CASE ~(Len(mailbox) < MailboxSize)
    BY <2>1, <2>3 DEF Dispatch
  <2> QED BY <2>2, <2>3
<1>4. fate' \in Fates
  BY <1>1 DEF Dispatch, Fates, TypeOK
<1>5. told' \in Tellings
  <2>1. told \in Tellings
    BY DEF TypeOK
  <2> QED BY <1>1, <2>1 DEF Dispatch, Tellings
<1>6. worker' \in Workers
  BY <1>1 DEF Dispatch, Workers, TypeOK
<1> QED BY <1>2, <1>3, <1>4, <1>5, <1>6

LEMMA ExpiredType ==
    ASSUME NEW l \in Leases
    PROVE  Expired(l) \in Leases /\ Expired(l) \in {l, NoLease}
BY NothingType DEF Expired

LEMMA AnswerType ==
    ASSUME NEW c \in Commands, NEW st \in {200, 400, 409}, NEW rev \in 0..MaxRequests,
           Respond(c, st, rev)
    PROVE  signal' \in Answers /\ signal'.id = c.id /\ signal'.status = st /\ signal'.rev = rev
<1>1. c.id \in Requests
  BY CommandFields
<1> QED BY <1>1 DEF Respond, Answers

\* The sort of a fate a command can be given.
LEMMA FateType ==
    ASSUME TypeOK, NEW r \in Requests,
           NEW f \in {"queued", "applied", "served", "refused"}
    PROVE  [fate EXCEPT ![r] = f] \in Fates
BY DEF TypeOK, Fates
\* The steps of the memory commit touch the configuration, and count as upsets.
LEMMA PersistKeeps ==
    ASSUME TypeOK, Persist
    PROVE  /\ UNCHANGED <<access, control, ui, worker, told>>
           /\ issued' \in Counts /\ issued'.request = issued.request
           /\ issued'.lease = issued.lease
<1>1. Carried \/ Upset
  BY DEF Persist, ResetPersistence, SettingChanges, DiscardDue, SaveToken, SaveFails, ForgetDue,
         OtherSaveFails, Retry, RetryFails
<1>2. issued \in Counts
  BY DEF TypeOK
<1>3. CASE Carried
  BY <1>2, <1>3 DEF Carried, Storing
<1>4. CASE Upset
  <2>1. issued.upset + 1 \in 0..MaxRequests
    BY <1>2, <1>4, RoomLeft, LanAssumption DEF Upset, Counts
  <2> QED BY <1>2, <1>4, <2>1 DEF Upset, Storing, Counts
<1> QED BY <1>1, <1>3, <1>4

LEMMA PersistType ==
    ASSUME TypeOK, Persist
    PROVE  config' \in Configs
<1>0. config \in Configs
  BY DEF TypeOK
<1>1. Written \in SUBSET (0..MaxTokens)
  BY <1>0 DEF Written, Configs
<1>2. CASE SettingChanges \/ DiscardDue \/ OtherSaveFails
  BY <1>0, <1>2 DEF SettingChanges, DiscardDue, OtherSaveFails, Configs
<1>3. CASE SaveToken \/ Retry
  <2>1. {config.mem} \in SUBSET (0..MaxTokens) /\ config.mem \in 0..MaxTokens
    BY <1>0 DEF Configs
  <2>2. Rewritten \in Configs
    BY <1>0, <2>1 DEF Rewritten, Configs
  <2> QED BY <1>0, <1>3, <2>2 DEF SaveToken, Retry, Configs
<1>7. CASE ResetPersistence
  <2>1. 0 \in 0..MaxTokens
    BY LanAssumption
  <2> QED BY <1>0, <1>7, <2>1 DEF ResetPersistence, Configs
<1>4. CASE SaveFails
  <2>1. CASE config' = [config EXCEPT !.due = FALSE, !.error = "other",
                          !.lost = @ \/ config.stored # {config.saved}]
    BY <1>0, <2>1 DEF Configs
  <2>2. CASE config' = [config EXCEPT !.due = FALSE, !.error = "network", !.stored = Written]
    BY <1>0, <1>1, <2>2 DEF Configs
  <2>3. CASE config' = [config EXCEPT !.due = FALSE, !.error = "lock", !.stored = Written,
                          !.mem = config.saved, !.lost = @ \/ config.mem # config.saved]
    BY <1>0, <1>1, <2>3 DEF Configs
  <2> QED BY <1>4, <2>1, <2>2, <2>3 DEF SaveFails
<1>5. CASE ForgetDue
  BY <1>0, <1>5 DEF ForgetDue, Configs
<1>6. CASE RetryFails
  <2>1. PICK stored \in SUBSET (0..MaxTokens) :
          \/ config' = [config EXCEPT !.stored = stored]
          \/ config' = [config EXCEPT !.stored = stored, !.error = "network"]
          \/ config' = [config EXCEPT !.stored = stored, !.error = "other",
                                      !.lost = @ \/ stored # {config.saved}]
    <3>1. config.stored \in SUBSET (0..MaxTokens)
      BY <1>0 DEF Configs
    <3> QED BY <1>1, <1>6, <3>1 DEF RetryFails
  <2> QED BY <1>0, <2>1 DEF Configs
<1> QED BY <1>2, <1>3, <1>4, <1>5, <1>6, <1>7 DEF Persist

\* TypeOK holds after a step; the count of dispatched commands bounds the revision.
LEMMA TypeStep == TypeOK /\ Counted /\ [Next]_vars => TypeOK'
<1> SUFFICES ASSUME TypeOK, Counted, [Next]_vars PROVE TypeOK'
  OBVIOUS
<1> USE DEF access, control, ui
<1>1. ASSUME NEW code \in Codes \cup {0}, ClaimPairing(code) PROVE TypeOK'
  <2>1. dirty' \in BOOLEAN
    BY <1>1, Zenon DEF ClaimPairing, TypeOK
  <2>2. window' \in Windows
    <3>1. window \in Windows
      BY DEF TypeOK
    <3> QED BY <1>1, <3>1, LanAssumption DEF ClaimPairing, AfterClaim, Windows
  <2>3. token' \in 0..MaxTokens /\ issued' \in Counts
    <3>1. token \in 0..MaxTokens /\ issued \in Counts
      BY DEF TypeOK
    <3> QED BY <1>1, <3>1, LanAssumption DEF ClaimPairing, Counts
  <2> QED BY <1>1, <2>1, <2>2, <2>3 DEF ClaimPairing, TypeOK
<1>2. ASSUME NEW bearer \in 1..issued.token,
             CreateLease(bearer) \/ ExpireLease(bearer)
               \/ (\E id \in 1..issued.lease : Heartbeat(bearer, id) \/ ReleaseLease(bearer, id))
      PROVE  TypeOK'
  <2>1. lease \in Leases /\ issued \in Counts
    BY DEF TypeOK
  <2>2. lease' \in Leases
    BY <1>2, <2>1, NothingType, LanAssumption
    DEF CreateLease, ExpireLease, Heartbeat, ReleaseLease, Leases, Counts
  <2>3. issued' \in Counts
    BY <1>2, <2>1, LanAssumption DEF CreateLease, ExpireLease, Heartbeat, ReleaseLease, Counts
  <2> QED BY <1>2, <2>2, <2>3 DEF CreateLease, ExpireLease, Heartbeat, ReleaseLease, TypeOK
<1>3. ASSUME NEW bearer \in 1..issued.token, Read(bearer) PROVE TypeOK'
  <2>1. Command(FALSE, 0, 0) \in Commands
    <3>1. 0 \in 0..MaxLeases /\ 0 \in 0..MaxRequests /\ issued.request < MaxRequests
      BY <1>3, RoomLeft, LanAssumption DEF Read
    <3>2. FALSE \in BOOLEAN
      OBVIOUS
    <3> QED BY <3>1, <3>2, CommandType
  <2>2. Dispatch(Command(FALSE, 0, 0))
    BY <1>3 DEF Read
  <2>3. /\ mailbox' \in Seq(Commands) /\ Len(mailbox') <= MailboxSize
        /\ worker' \in Workers /\ fate' \in Fates /\ told' \in Tellings
        /\ issued' \in Counts
    BY <2>1, <2>2, DispatchType
  <2> QED BY <1>3, <2>3 DEF Read, TypeOK
<1>4. ASSUME NEW bearer \in 1..issued.token, NEW id \in 1..issued.lease,
             NEW rev \in 0..MaxRequests, Write(bearer, id, rev)
      PROVE  TypeOK'
  <2>0. id \in 0..MaxLeases
    BY LanAssumption DEF TypeOK, Counts
  <2>1. Command(TRUE, id, rev) \in Commands
    BY <1>4, <2>0, CommandType, RoomLeft DEF Write
  <2>2. Dispatch(Command(TRUE, id, rev))
    BY <1>4 DEF Write
  <2>3. /\ mailbox' \in Seq(Commands) /\ Len(mailbox') <= MailboxSize
        /\ worker' \in Workers /\ fate' \in Fates /\ told' \in Tellings
        /\ issued' \in Counts
    BY <2>1, <2>2, DispatchType
  <2> QED BY <1>4, <2>3 DEF Write, TypeOK
<1>5. CASE Await
  <2>0. told \in Tellings /\ worker \in Workers /\ signal \in Answers \cup {NoAnswer}
    BY DEF TypeOK
  <2>1. worker' \in Workers
    BY <1>5, <2>0, NothingType DEF Await, TakeAnswer, TimeOut
  <2>2. told' \in Tellings
    BY <1>5, <2>0 DEF Await, TakeAnswer, TimeOut, Answers, Tellings
  <2> QED BY <1>5, <2>1, <2>2 DEF Await, TakeAnswer, TimeOut, TypeOK
<1>6. CASE LoopReceive
  <2> DEFINE c == Head(mailbox)
  <2>0. mailbox \in Seq(Commands) /\ mailbox # <<>> /\ revision \in 0..MaxRequests
        /\ lease \in Leases /\ Len(mailbox) <= MailboxSize
    BY <1>6 DEF TypeOK, LoopReceive
  <2>1. c \in Commands /\ mailbox' \in Seq(Commands) /\ Len(mailbox') <= MailboxSize
    BY <1>6, <2>0, ReceivedSlots, LanAssumption DEF LoopReceive
  <2>2. lease' \in Leases
    BY <1>6, <2>0, ExpiredType DEF LoopReceive
  <2>3. CASE MayExecute(c)
    <3>1. loop' = c /\ signal' = signal /\ fate' = fate
      BY <1>6, <2>3 DEF LoopReceive
    <3> QED BY <1>6, <2>1, <2>2, <3>1 DEF LoopReceive, TypeOK
  <2>4. CASE ~MayExecute(c)
    <3>1. Respond(c, 409, revision) /\ loop' = loop /\ fate' = [fate EXCEPT ![c.id] = "refused"]
      BY <1>6, <2>4 DEF LoopReceive
    <3>2. signal' \in Answers
      BY <2>0, <2>1, <3>1, AnswerType
    <3>3. fate' \in Fates
      BY <2>1, <3>1, FateType, CommandFields
    <3> QED BY <1>6, <2>1, <2>2, <3>1, <3>2, <3>3 DEF LoopReceive, TypeOK
  <2> QED BY <2>3, <2>4
<1>7. CASE LoopExecuted
  <2>1. loop \in Commands /\ revision \in 0..MaxRequests /\ issued \in Counts
        /\ mailbox \in Seq(Commands)
    BY <1>7 DEF LoopExecuted, TypeOK
  <2>2. revision' \in 0..MaxRequests
    <3>1. Len(mailbox) \in Nat
      BY <2>1
    <3> QED BY <1>7, <2>1, <3>1, LanAssumption DEF LoopExecuted, Counted, Counts
  <2>3. signal' \in Answers
    <3>1. Respond(loop, 200, revision')
      BY <1>7 DEF LoopExecuted
    <3> QED BY <3>1, <2>1, <2>2, AnswerType
  <2>4. fate' \in Fates
    BY <1>7, <2>1, FateType, CommandFields DEF LoopExecuted
  <2>5. applied' \subseteq Commands
    BY <1>7, <2>1 DEF LoopExecuted, TypeOK
  <2> QED BY <1>7, <2>2, <2>3, <2>4, <2>5 DEF LoopExecuted, TypeOK
<1>8. CASE LoopRefused
  <2>1. loop \in Commands /\ revision \in 0..MaxRequests
    BY <1>8 DEF LoopRefused, TypeOK
  <2>2. signal' \in Answers
    <3>1. Respond(loop, 400, revision)
      BY <1>8 DEF LoopRefused
    <3> QED BY <3>1, <2>1, AnswerType
  <2>3. fate' \in Fates
    BY <1>8, <2>1, FateType, CommandFields DEF LoopRefused
  <2> QED BY <1>8, <2>2, <2>3 DEF LoopRefused, TypeOK
<1>9. ASSUME NEW code \in Codes, EnterPairing(code) PROVE TypeOK'
  <2>1. [code |-> code, failed |-> 0] \in Windows /\ [page |-> "WifiInfo", code |-> code] \in Panels
    BY LanAssumption DEF Windows, Panels
  <2> QED BY <1>9, <2>1 DEF EnterPairing, TypeOK
<1>10. CASE LeavePairing
  BY <1>10, NothingType DEF LeavePairing, TypeOK
<1>11. CASE ClearToken \/ TakeTokenChange
  <2>0. config \in Configs /\ token \in 0..MaxTokens
    BY DEF TypeOK
  <2>1. dirty' \in BOOLEAN
    BY <1>11, Zenon DEF ClearToken, TakeTokenChange, TypeOK
  <2>2. config' \in Configs
    <3>1. CASE ClearToken
      <4>1. 0 \in 0..MaxTokens
        BY LanAssumption
      <4>2. config' = [config EXCEPT !.mem = 0, !.due = TRUE]
        BY <3>1 DEF ClearToken
      <4> QED BY <4>1, <4>2, <2>0 DEF Configs
    <3>2. CASE TakeTokenChange
      BY <3>2, <2>0 DEF TakeTokenChange, Configs
    <3> QED BY <1>11, <3>1, <3>2
  <2>3. lease' \in Leases /\ token' \in 0..MaxTokens
    BY <1>11, <2>0, NothingType, LanAssumption DEF ClearToken, TakeTokenChange, TypeOK
  <2> QED BY <1>11, <2>1, <2>2, <2>3 DEF ClearToken, TakeTokenChange, TypeOK
<1>15. CASE Persist
  <2>1. config' \in Configs /\ issued' \in Counts
        /\ UNCHANGED <<access, control, ui, worker, told>>
    BY <1>15, PersistType, PersistKeeps
  <2> QED BY <2>1 DEF TypeOK
<1>12. CASE Tick
  <2>1. lease \in Leases
    BY DEF TypeOK
  <2>2. lease' \in Leases
    BY <1>12, <2>1, LanAssumption DEF Tick, Leases
  <2> QED BY <1>12, <2>2 DEF Tick, TypeOK
<1>13. CASE Restart
  <2>0. config \in Configs /\ issued \in Counts /\ fate \in Fates
    BY DEF TypeOK
  <2>1. dirty' \in BOOLEAN
    BY <1>13, Zenon DEF Restart
  <2>2. config' \in Configs /\ token' \in 0..MaxTokens
    <3>1. token' \in 0..MaxTokens
      BY <1>13, <2>0 DEF Restart, Configs
    <3> QED BY <1>13, <3>1, SettledType DEF Restart
  <2>3. issued' \in Counts
    BY <1>13, <2>0, LanAssumption DEF Restart, Counts
  <2>4. fate' \in Fates
    BY <1>13, <2>0 DEF Restart, Fates
  <2>5. mailbox' \in Seq(Commands) /\ Len(mailbox') <= MailboxSize
    BY <1>13, LanAssumption DEF Restart
  <2> QED BY <1>13, <2>1, <2>2, <2>3, <2>4, <2>5, NothingType, LanAssumption DEF Restart, TypeOK
<1>14. CASE UNCHANGED vars
  BY <1>14 DEF vars, TypeOK
<1> QED
  BY <1>1, <1>2, <1>3, <1>4, <1>5, <1>6, <1>7, <1>8, <1>9, <1>10, <1>11, <1>12, <1>13, <1>14, <1>15
  DEF Next, Gate, RunLoop
-----------------------------------------------------------------------------
(* The kinds of steps, as the command queue sees them.                       *)

\* A command is put into the mailbox, or refused because it is full.
Admit(c) ==
    /\ c \in Commands /\ c.id = issued.request + 1 /\ c.id \in Requests
    /\ c.lease <= issued.lease /\ c.token = token /\ worker = Free
    /\ Dispatch(c)
    /\ UNCHANGED <<access, revision, signal, loop, applied>>
    /\ issued'.request = issued.request + 1 /\ issued'.lease = issued.lease

\* Nothing moves in the queue.
Quiet ==
    /\ UNCHANGED <<revision, mailbox, signal, loop, fate, applied, worker, told>>
    /\ issued'.request = issued.request

LEMMA DispatchCounts ==
    ASSUME TypeOK, NEW c \in Commands, Dispatch(c)
    PROVE  issued'.request = c.id /\ issued'.lease = issued.lease
BY DEF TypeOK, Dispatch, Counts

LEMMA StepKinds ==
    ASSUME TypeOK, [Next]_vars
    PROVE  \/ \E c \in Commands : Admit(c)
           \/ TakeAnswer \/ TimeOut \/ LoopReceive \/ LoopExecuted \/ LoopRefused
           \/ Restart \/ Quiet
<1>1. ASSUME NEW code \in Codes \cup {0}, ClaimPairing(code) PROVE Quiet
  BY <1>1 DEF ClaimPairing, Quiet, control, TypeOK, Counts
<1>2. ASSUME NEW bearer \in 1..issued.token,
             CreateLease(bearer) \/ ExpireLease(bearer)
               \/ (\E id \in 1..issued.lease : Heartbeat(bearer, id) \/ ReleaseLease(bearer, id))
      PROVE  Quiet
  BY <1>2 DEF CreateLease, ExpireLease, Heartbeat, ReleaseLease, Quiet, control, TypeOK, Counts
<1>3. ASSUME NEW bearer \in 1..issued.token, Read(bearer) PROVE \E c \in Commands : Admit(c)
  <2>1. 0 \in 0..MaxLeases /\ 0 \in 0..MaxRequests /\ issued.request < MaxRequests
    BY <1>3, RoomLeft, LanAssumption DEF Read
  <2>2. FALSE \in BOOLEAN
    OBVIOUS
  <2> DEFINE c == Command(FALSE, 0, 0)
  <2>3. c \in Commands /\ c.id = issued.request + 1 /\ c.token = token /\ c.lease = 0
    BY <2>1, <2>2, CommandType
  <2>4. Dispatch(c) /\ worker = Free /\ UNCHANGED <<access, revision, signal, loop, applied>>
    BY <1>3 DEF Read
  <2> HIDE DEF c
  <2>5. c.lease <= issued.lease
    BY <2>3 DEF TypeOK, Counts
  <2>6. Admit(c)
    BY <2>3, <2>4, <2>5, DispatchCounts, CommandFields DEF Admit
  <2> QED BY <2>3, <2>6
<1>4. ASSUME NEW bearer \in 1..issued.token, NEW id \in 1..issued.lease,
             NEW rev \in 0..MaxRequests, Write(bearer, id, rev)
      PROVE  \E c \in Commands : Admit(c)
  <2>1. id \in 0..MaxLeases /\ issued.request < MaxRequests /\ id <= issued.lease
    BY <1>4, RoomLeft, LanAssumption DEF TypeOK, Counts, Write
  <2>2. TRUE \in BOOLEAN
    OBVIOUS
  <2> DEFINE c == Command(TRUE, id, rev)
  <2>3. c \in Commands /\ c.id = issued.request + 1 /\ c.token = token /\ c.lease = id
    BY <2>1, <2>2, CommandType
  <2>4. Dispatch(c) /\ worker = Free /\ UNCHANGED <<access, revision, signal, loop, applied>>
    BY <1>4 DEF Write
  <2> HIDE DEF c
  <2>6. Admit(c)
    BY <2>1, <2>3, <2>4, DispatchCounts, CommandFields DEF Admit
  <2> QED BY <2>3, <2>6
<1>5. ASSUME NEW code \in Codes, EnterPairing(code) PROVE Quiet
  BY <1>5 DEF EnterPairing, Quiet, control
<1>6. CASE LeavePairing \/ ClearToken \/ TakeTokenChange \/ Tick
  BY <1>6 DEF LeavePairing, ClearToken, TakeTokenChange, Tick, Quiet, control
<1>8. CASE Persist
  BY <1>8, PersistKeeps DEF Quiet, control
<1>7. CASE UNCHANGED vars
  BY <1>7 DEF vars, Quiet
<1> QED
  BY <1>1, <1>2, <1>3, <1>4, <1>5, <1>6, <1>7, <1>8 DEF Next, Gate, Await, RunLoop

-----------------------------------------------------------------------------
(* The count of commands, and the numbering of the applied writes.           *)

LEMMA CountedStep == TypeOK /\ Counted /\ [Next]_vars => Counted'
<1> SUFFICES ASSUME TypeOK, Counted, [Next]_vars PROVE Counted'
  OBVIOUS
<1>0. /\ mailbox \in Seq(Commands) /\ Len(mailbox) \in Nat
      /\ revision \in Nat /\ issued.request \in Nat
      /\ loop \in Commands \cup {NoCommand}
  BY LanAssumption DEF TypeOK, Counts
<1>1. ASSUME NEW c \in Commands, Admit(c) PROVE Counted'
  <2>1. Len(mailbox') \in {Len(mailbox), Len(mailbox) + 1}
    BY <1>0, <1>1, SentSlots DEF Admit, Dispatch
  <2> QED BY <1>0, <1>1, <2>1 DEF Admit, Counted
<1>2. CASE TakeAnswer \/ TimeOut \/ Quiet
  BY <1>2 DEF TakeAnswer, TimeOut, Quiet, Counted, control
<1>3. CASE LoopReceive
  <2>1. Len(mailbox') = Len(mailbox) - 1
    BY <1>0, <1>3, ReceivedSlots DEF LoopReceive
  <2>2. loop = NoCommand /\ revision' = revision /\ issued' = issued
    BY <1>3 DEF LoopReceive
  <2> QED BY <1>0, <2>1, <2>2 DEF Counted
<1>4. CASE LoopExecuted \/ LoopRefused
  <2>1. loop # NoCommand /\ loop' = NoCommand /\ mailbox' = mailbox /\ issued' = issued
        /\ revision' \in {revision, revision + 1}
    BY <1>4 DEF LoopExecuted, LoopRefused
  <2> QED BY <1>0, <2>1 DEF Counted
<1>5. CASE Restart
  <2>1. Len(mailbox') = 0 /\ revision' = 0 /\ loop' = NoCommand
        /\ issued'.request = issued.request
    BY <1>5 DEF Restart, TypeOK, Counts
  <2> QED BY <1>0, <2>1 DEF Counted
<1> QED BY <1>1, <1>2, <1>3, <1>4, <1>5, StepKinds

LEMMA NumberedStep == TypeOK /\ Numbered /\ [Next]_vars => Numbered'
<1> SUFFICES ASSUME TypeOK, Numbered, [Next]_vars PROVE Numbered'
  OBVIOUS
<1>0. /\ mailbox \in Seq(Commands) /\ revision \in Nat
      /\ loop \in Commands \cup {NoCommand} /\ applied \subseteq Commands
  BY LanAssumption DEF TypeOK
<1>1. ASSUME NEW c \in Commands, Admit(c) PROVE Numbered'
  BY <1>1 DEF Admit, Numbered
<1>2. CASE TakeAnswer \/ TimeOut \/ Quiet
  BY <1>2 DEF TakeAnswer, TimeOut, Quiet, Numbered, control
<1>3. CASE LoopReceive
  <2>1. revision' = revision /\ applied' = applied
    BY <1>3 DEF LoopReceive
  <2>2. loop' # NoCommand /\ loop'.write => loop'.rev = revision
    BY <1>3 DEF LoopReceive, MayExecute
  <2> QED BY <2>1, <2>2 DEF Numbered
<1>4. CASE LoopExecuted /\ loop.write
  <2>1. /\ loop \in Commands /\ loop.rev = revision
        /\ revision' = revision + 1 /\ applied' = applied \cup {loop} /\ loop' = NoCommand
    BY <1>0, <1>4 DEF LoopExecuted, Numbered
  <2>2. \A c \in applied : c.rev \in Nat /\ c.rev < revision
    BY <1>0, CommandFields DEF Numbered
  <2>3. loop \notin applied
    BY <1>0, <2>1, <2>2
  <2>4. IsFiniteSet(applied') /\ Cardinality(applied') = revision'
    BY <2>1, <2>3, FS_AddElement DEF Numbered
  <2>5. \A c \in applied' : c.rev < revision'
    BY <1>0, <2>1, <2>2
  <2>6. \A c, d \in applied' : c.rev = d.rev => c = d
    BY <1>0, <2>1, <2>2 DEF Numbered
  <2> QED BY <2>1, <2>4, <2>5, <2>6 DEF Numbered
<1>5. CASE (LoopExecuted /\ ~loop.write) \/ LoopRefused
  BY <1>5 DEF LoopExecuted, LoopRefused, Numbered
<1>6. CASE Restart
  <2>1. applied' = {} /\ revision' = 0 /\ loop' = NoCommand
    BY <1>6 DEF Restart
  <2>2. IsFiniteSet(applied') /\ Cardinality(applied') = 0
    BY <2>1, FS_EmptySet
  <2> QED BY <2>1, <2>2 DEF Numbered
<1> QED BY <1>1, <1>2, <1>3, <1>4, <1>5, <1>6, StepKinds
-----------------------------------------------------------------------------
(* Leases and tokens.                                                        *)

\* The mailbox after a step holds what was in it, or the command just admitted.
LEMMA MailboxStep ==
    ASSUME TypeOK, [Next]_vars, NEW i \in 1..Len(mailbox')
    PROVE  \/ i \in Slots /\ mailbox'[i] = mailbox[i]
           \/ LoopReceive /\ i + 1 \in Slots /\ mailbox'[i] = mailbox[i + 1]
           \/ /\ i = Len(mailbox) + 1
              /\ \E c \in Commands : Admit(c) /\ mailbox' = Append(mailbox, c) /\ mailbox'[i] = c
<1>0. mailbox \in Seq(Commands) /\ Len(mailbox) \in Nat
  BY DEF TypeOK
<1>1. ASSUME NEW c \in Commands, Admit(c), mailbox' # mailbox
      PROVE  \/ i \in Slots /\ mailbox'[i] = mailbox[i]
             \/ i = Len(mailbox) + 1 /\ mailbox' = Append(mailbox, c) /\ mailbox'[i] = c
  <2>1. mailbox' = Append(mailbox, c)
    BY <1>1 DEF Admit, Dispatch
  <2>2. /\ Len(mailbox') = Len(mailbox) + 1 /\ mailbox'[Len(mailbox) + 1] = c
        /\ \A j \in 1..Len(mailbox) : mailbox'[j] = mailbox[j]
    BY <1>0, <2>1, SentSlots
  <2> QED BY <1>0, <2>1, <2>2 DEF Slots
<1>2. CASE LoopReceive
  <2>1. mailbox # <<>> /\ mailbox' = Tail(mailbox)
    BY <1>2 DEF LoopReceive
  <2>2. /\ Len(mailbox') = Len(mailbox) - 1
        /\ \A j \in 1..(Len(mailbox) - 1) : mailbox'[j] = mailbox[j + 1]
    BY <1>0, <2>1, ReceivedSlots
  <2> QED BY <1>0, <1>2, <2>2 DEF Slots
<1>3. CASE Restart
  <2>1. Len(mailbox') = 0
    BY <1>3 DEF Restart
  <2> QED BY <2>1
<1>4. CASE mailbox' = mailbox
  BY <1>4 DEF Slots
<1>5. CASE TakeAnswer \/ TimeOut \/ LoopExecuted \/ LoopRefused \/ Quiet
  <2>1. mailbox' = mailbox
    BY <1>5 DEF TakeAnswer, TimeOut, LoopExecuted, LoopRefused, Quiet, control
  <2> QED BY <1>4, <2>1
<1> QED BY <1>1, <1>2, <1>3, <1>4, <1>5, StepKinds

LEMMA SlotFields ==
    ASSUME TypeOK, NEW i \in Slots
    PROVE  /\ mailbox[i] \in Commands /\ mailbox[i].id \in Requests /\ mailbox[i].id \in Nat \ {0}
           /\ mailbox[i].lease \in Nat
<1>1. mailbox[i] \in Commands
  BY DEF TypeOK, Slots
<1> QED BY <1>1, CommandFields, LanAssumption

\* How a step may change token and lease.
LEMMA AccessStep ==
    ASSUME TypeOK, [Next]_vars
    PROVE  /\ issued'.lease \in {issued.lease, issued.lease + 1}
           /\ \/ token' = token /\ lease'.id \in {lease.id, 0}
              \/ token = 0 /\ lease' = lease
              \/ lease'.id = 0
              \/ /\ lease'.id = issued.lease + 1 /\ issued'.lease = issued.lease + 1
                 /\ token' = token /\ token # 0
<1>0. issued \in Counts /\ lease \in Leases
  BY DEF TypeOK
<1> USE <1>0 DEF access, NoLease, Leases
<1>1. ASSUME NEW code \in Codes \cup {0}, ClaimPairing(code)
      PROVE  issued'.lease = issued.lease /\ lease' = lease /\ (token' = token \/ token = 0)
  BY <1>1 DEF ClaimPairing, Counts
<1>2. ASSUME NEW bearer \in 1..issued.token, CreateLease(bearer)
      PROVE  /\ lease'.id = issued.lease + 1 /\ issued'.lease = issued.lease + 1
             /\ token' = token /\ token # 0
  BY <1>2 DEF CreateLease, Authorized, Counts
<1>3. ASSUME NEW bearer \in 1..issued.token,
             ExpireLease(bearer)
               \/ (\E id \in 1..issued.lease : Heartbeat(bearer, id) \/ ReleaseLease(bearer, id))
      PROVE  issued' = issued /\ token' = token /\ lease'.id \in {lease.id, 0}
  BY <1>3 DEF ExpireLease, Heartbeat, ReleaseLease
<1>5. CASE TakeAnswer \/ TimeOut \/ LoopExecuted \/ LoopRefused
  BY <1>5 DEF TakeAnswer, TimeOut, LoopExecuted, LoopRefused
<1>6. CASE LoopReceive
  <2>1. issued' = issued /\ token' = token /\ lease' \in {lease, NoLease}
    BY <1>6, ExpiredType DEF LoopReceive
  <2> QED BY <2>1
<1>7. ASSUME NEW code \in Codes, EnterPairing(code)
      PROVE  issued' = issued /\ token' = token /\ lease' = lease
  BY <1>7 DEF EnterPairing
<1>8. CASE LeavePairing \/ TakeTokenChange
  BY <1>8 DEF LeavePairing, TakeTokenChange
<1>14. CASE Persist
  BY <1>14, PersistKeeps DEF access
<1>9. CASE Tick
  BY <1>9 DEF Tick
<1>10. CASE ClearToken
  BY <1>10 DEF ClearToken
<1>11. CASE Restart
  BY <1>11 DEF Restart, Counts
<1>12. CASE UNCHANGED vars
  BY <1>12 DEF vars
<1>13. ASSUME NEW bearer \in 1..issued.token,
              Read(bearer) \/ \E id \in 1..issued.lease, rev \in 0..MaxRequests :
                                 Write(bearer, id, rev)
       PROVE  token' = token /\ lease' = lease /\ issued'.lease = issued.lease
  <2>1. token' = token /\ lease' = lease
    BY <1>13 DEF Read, Write
  <2>2. \E r : issued' = [issued EXCEPT !.request = r]
    <3>1. \E c : Dispatch(c)
      BY <1>13 DEF Read, Write
    <3> QED BY <3>1 DEF Dispatch
  <2> QED BY <2>1, <2>2 DEF Counts
<1> QED
  BY <1>1, <1>2, <1>3, <1>5, <1>6, <1>7, <1>8, <1>9, <1>10, <1>11, <1>12, <1>13, <1>14
  DEF Next, Gate, Await, RunLoop

LEMMA LeasedStep == TypeOK /\ Leased /\ [Next]_vars => Leased'
<1> SUFFICES ASSUME TypeOK, Leased, [Next]_vars PROVE Leased'
  OBVIOUS
<1>0. issued.lease \in Nat /\ lease.id \in Nat /\ issued'.lease \in Nat
      /\ issued'.lease >= issued.lease
  BY AccessStep, LanAssumption DEF TypeOK, Counts, Leases
<1>1. lease'.id <= issued'.lease /\ (lease'.id # 0 => token' # 0)
  BY <1>0, AccessStep DEF Leased
<1>2. ASSUME NEW i \in 1..Len(mailbox')
      PROVE  /\ mailbox'[i].lease <= issued'.lease
             /\ mailbox'[i].write /\ mailbox'[i].lease # 0 /\ mailbox'[i].lease = lease'.id
                  => mailbox'[i].token = token'
  <2>1. ASSUME NEW k \in Slots, mailbox'[i] = mailbox[k]
        PROVE  /\ mailbox'[i].lease <= issued'.lease
               /\ mailbox'[i].write /\ mailbox'[i].lease # 0 /\ mailbox'[i].lease = lease'.id
                    => mailbox'[i].token = token'
    BY <1>0, <2>1, AccessStep, SlotFields DEF Leased
  <2>2. ASSUME NEW c \in Commands, Admit(c), mailbox'[i] = c
        PROVE  mailbox'[i].lease <= issued'.lease /\ mailbox'[i].token = token'
    BY <2>2 DEF Admit, access
  <2> QED BY <2>1, <2>2, MailboxStep
<1> QED BY <1>1, <1>2 DEF Leased, Slots

\* The way of the token to the EEPROM, over every failed save.  RAM has the
\* token in force, unless a lock took it back or a reset cleared it; what RAM has
\* is persisted, due or under a reported fault; what counts as persisted is what a
\* restart finds, unless a fault is reported whose retry writes it again.
TokenKept ==
    /\ dirty \/ config.lost \/ config.mem = token
    /\ config.due \/ config.lost \/ config.error # "none" \/ config.mem = config.saved
    /\ config.lost \/ config.error \in {"network", "lock"} \/ config.stored = {config.saved}

LEMMA SaveStep == ASSUME TypeOK, TokenKept, Persist PROVE TokenKept'
<1>0. config \in Configs /\ dirty' = dirty /\ token' = token
  BY PersistKeeps DEF TypeOK, access
<1> USE DEF TokenKept
<1>1. CASE SettingChanges \/ DiscardDue
  BY <1>0, <1>1 DEF SettingChanges, DiscardDue, Configs
<1>2. CASE SaveToken
  <2>1. CASE config.mem = config.saved
    BY <1>0, <1>2, <2>1 DEF SaveToken, Configs
  <2>2. CASE config.mem # config.saved
    <3>1. config' = [Rewritten EXCEPT !.due = FALSE]
      BY <1>2, <2>2 DEF SaveToken
    <3>2. /\ config'.mem = config.mem /\ config'.saved = config.mem
          /\ config'.stored = {config.mem} /\ config'.lost = (config.lost /\ config.mem # token)
      BY <1>0, <3>1 DEF Rewritten, Configs
    <3> QED BY <1>0, <3>2
  <2> QED BY <2>1, <2>2
<1>3. CASE SaveFails
  <2>1. CASE config' = [config EXCEPT !.due = FALSE, !.error = "other",
                          !.lost = @ \/ config.stored # {config.saved}]
    <3>1. /\ config'.mem = config.mem /\ config'.saved = config.saved
          /\ config'.stored = config.stored /\ config'.error = "other"
          /\ config'.lost = (config.lost \/ config.stored # {config.saved})
      BY <1>0, <2>1 DEF Configs
    <3> QED BY <1>0, <3>1
  <2>2. CASE config' = [config EXCEPT !.due = FALSE, !.error = "network", !.stored = Written]
    BY <1>0, <2>2 DEF Configs
  <2>3. CASE config' = [config EXCEPT !.due = FALSE, !.error = "lock", !.stored = Written,
                          !.mem = config.saved, !.lost = @ \/ config.mem # config.saved]
    <3>1. /\ config'.mem = config.saved /\ config'.saved = config.saved
          /\ config'.error = "lock"
          /\ config'.lost = (config.lost \/ config.mem # config.saved)
      BY <1>0, <2>3 DEF Configs
    <3> QED BY <1>0, <3>1
  <2> QED BY <1>3, <2>1, <2>2, <2>3 DEF SaveFails
<1>4. CASE ForgetDue
  <2>1. /\ config'.mem = config.mem /\ config'.saved = config.saved
        /\ config'.stored = config.stored /\ config'.error = config.error
        /\ config'.lost = (config.lost \/ (config.error = "none" /\ config.mem # config.saved))
    BY <1>0, <1>4 DEF ForgetDue, Configs
  <2> QED BY <1>0, <2>1
<1>5. CASE OtherSaveFails
  BY <1>0, <1>5 DEF OtherSaveFails, Configs
<1>6. CASE Retry
  <2>1. CASE RetryRewrites
    <3>1. config' = [Rewritten EXCEPT !.error = "none"]
      BY <1>6, <2>1 DEF Retry
    <3>2. /\ config'.mem = config.mem /\ config'.saved = config.mem
          /\ config'.stored = {config.mem} /\ config'.lost = (config.lost /\ config.mem # token)
      BY <1>0, <3>1 DEF Rewritten, Configs
    <3> QED BY <1>0, <3>2
  <2>2. CASE ~RetryRewrites
    <3>1. config' = [config EXCEPT !.error = "none"]
      BY <1>6, <2>2 DEF Retry
    <3>2. config.mem = config.saved /\ config.error \notin {"network", "lock"}
      BY <2>2 DEF RetryRewrites
    <3> QED BY <1>0, <3>1, <3>2 DEF Configs
  <2> QED BY <2>1, <2>2
<1>7. CASE RetryFails
  <2>0. config.error # "none"
    BY <1>7 DEF RetryFails
  <2>1. PICK stored :
          \/ config.error = "lock" /\ config' = [config EXCEPT !.stored = stored]
          \/ config' = [config EXCEPT !.stored = stored, !.error = "network"]
          \/ config' = [config EXCEPT !.stored = stored, !.error = "other",
                                      !.lost = @ \/ stored # {config.saved}]
    BY <1>7 DEF RetryFails
  <2>2. CASE config.error = "lock" /\ config' = [config EXCEPT !.stored = stored]
    BY <1>0, <2>2 DEF Configs
  <2>3. CASE config' = [config EXCEPT !.stored = stored, !.error = "network"]
    BY <1>0, <2>3 DEF Configs
  <2>4. CASE config' = [config EXCEPT !.stored = stored, !.error = "other",
                                      !.lost = @ \/ stored # {config.saved}]
    <3>1. /\ config'.mem = config.mem /\ config'.saved = config.saved
          /\ config'.stored = stored /\ config'.error = "other"
          /\ config'.lost = (config.lost \/ stored # {config.saved})
      BY <1>0, <2>4 DEF Configs
    <3> QED BY <1>0, <3>1
  <2> QED BY <2>1, <2>2, <2>3, <2>4
<1>8. CASE ResetPersistence
  <2>1. /\ config'.mem = 0 /\ config'.due = TRUE /\ config'.saved = config.saved
        /\ config'.stored = config.stored /\ config'.error = config.error
        /\ config'.lost = (config.lost \/ token # 0)
    BY <1>0, <1>8 DEF ResetPersistence, Configs
  <2> QED BY <1>0, <2>1
<1> QED BY <1>1, <1>2, <1>3, <1>4, <1>5, <1>6, <1>7, <1>8 DEF Persist

LEMMA TokenStep == TypeOK /\ TokenKept /\ [Next]_vars => TokenKept'
<1> SUFFICES ASSUME TypeOK, TokenKept, [Next]_vars PROVE TokenKept'
  OBVIOUS
<1>0. config \in Configs
  BY DEF TypeOK
<1> USE DEF access
<1>1. ASSUME NEW code \in Codes \cup {0}, ClaimPairing(code) PROVE TokenKept'
  BY <1>1 DEF ClaimPairing, TokenKept
<1>2. CASE ClearToken \/ TakeTokenChange
  BY <1>0, <1>2 DEF ClearToken, TakeTokenChange, Configs, TokenKept
<1>4. CASE Persist
  BY <1>4, SaveStep
<1>5. CASE Restart
  BY <1>5 DEF Restart, Settled, TokenKept
<1>6. CASE UNCHANGED <<token, dirty, config>>
  BY <1>6 DEF TokenKept
<1>7. ASSUME NEW bearer \in 1..issued.token,
             \/ CreateLease(bearer) \/ ExpireLease(bearer) \/ Read(bearer)
             \/ \E id \in 1..issued.lease :
                  \/ Heartbeat(bearer, id) \/ ReleaseLease(bearer, id)
                  \/ \E rev \in 0..MaxRequests : Write(bearer, id, rev)
      PROVE  UNCHANGED <<token, dirty, config>>
  BY <1>7 DEF CreateLease, ExpireLease, Heartbeat, ReleaseLease, Read, Write
<1>8. ASSUME NEW code \in Codes, EnterPairing(code) PROVE UNCHANGED <<token, dirty, config>>
  BY <1>8 DEF EnterPairing
<1>9. CASE Await \/ RunLoop \/ LeavePairing \/ Tick \/ UNCHANGED vars
  <2>1. UNCHANGED <<token, dirty, config>>
    BY <1>9 DEF Await, RunLoop, TakeAnswer, TimeOut, LoopReceive, LoopExecuted, LoopRefused,
                LeavePairing, Tick, vars
  <2> QED BY <1>6, <2>1
<1> QED
  BY <1>1, <1>2, <1>4, <1>5, <1>6, <1>7, <1>8, <1>9 DEF Next, Gate
-----------------------------------------------------------------------------
(* The order of the queue, the worker that waits, and the answers.           *)

LEMMA QueuedStep == TypeOK /\ Queued /\ Awaited /\ [Next]_vars => Queued'
<1> SUFFICES ASSUME TypeOK, Queued, Awaited, [Next]_vars PROVE Queued'
  OBVIOUS
<1>0. /\ mailbox \in Seq(Commands) /\ Len(mailbox) \in Nat /\ issued.request \in Nat
      /\ loop \in Commands \cup {NoCommand} /\ fate \in Fates /\ told \in Tellings
  BY LanAssumption DEF TypeOK, Counts
<1> DEFINE Order == \A i, j \in Slots : i < j => mailbox[i].id < mailbox[j].id
           Waiting == \A i \in Slots : /\ mailbox[i].id <= issued.request
                                       /\ fate[mailbox[i].id] = "queued"
           Running == loop # NoCommand =>
                        /\ loop.id <= issued.request /\ fate[loop.id] = "queued"
                        /\ \A i \in Slots : loop.id < mailbox[i].id
           Unused == \A r \in Requests : r > issued.request =>
                        fate[r] = "none" /\ told[r].status = 0
<1>1. Order /\ Waiting /\ Running /\ Unused
  BY DEF Queued
<1>2. Requests \subseteq Nat
  BY LanAssumption DEF Requests
<1>s. \A i \in Slots : mailbox[i].id \in Requests
  BY SlotFields
<1>l. loop # NoCommand => loop.id \in Requests
  BY <1>0, CommandFields
<1>3. CASE Quiet
  BY <1>3 DEF Quiet, Queued, Slots
<1>4. ASSUME NEW c \in Commands, Admit(c) PROVE Queued'
  <2>1. /\ c.id = issued.request + 1 /\ c.id \in Requests /\ loop' = loop
        /\ issued'.request = issued.request + 1
    BY <1>4 DEF Admit
  <2>2. \A r \in Requests : r # c.id => fate'[r] = fate[r] /\ told'[r] = told[r]
    BY <1>0, <1>4 DEF Admit, Dispatch, Fates, Tellings
  <2>3. CASE mailbox' = mailbox
    <3>0. \A r \in Requests : r <= issued.request => r <= issued'.request /\ fate'[r] = fate[r]
      BY <1>0, <1>2, <2>1, <2>2
    <3>1. Order' /\ Waiting' /\ Running'
      BY <1>1, <1>s, <1>l, <2>1, <2>3, <3>0 DEF Slots
    <3>2. Unused'
      BY <1>0, <1>1, <1>2, <2>1, <2>2
    <3> QED BY <3>1, <3>2 DEF Queued
  <2>4. CASE mailbox' = Append(mailbox, c) /\ fate' = [fate EXCEPT ![c.id] = "queued"]
    <3>1. /\ Len(mailbox') = Len(mailbox) + 1 /\ mailbox'[Len(mailbox) + 1] = c
          /\ \A i \in 1..Len(mailbox) : mailbox'[i] = mailbox[i]
      BY <1>0, <2>4, SentSlots
    <3>2. fate'[c.id] = "queued"
      BY <1>0, <2>1, <2>4 DEF Fates
    <3>a. \A r \in Requests : r <= issued.request =>
            r <= issued'.request /\ fate'[r] = fate[r] /\ r < c.id
      BY <1>0, <1>2, <2>1, <2>2
    <3>b. \A i \in 1..Len(mailbox') : i \in Slots \/ i = Len(mailbox) + 1
      BY <1>0, <3>1 DEF Slots
    <3>c. \A i \in Slots : mailbox'[i] = mailbox[i] /\ i < Len(mailbox) + 1
      BY <1>0, <3>1 DEF Slots
    <3>d. c.id <= issued'.request
      BY <1>0, <2>1
    <3>3. Order'
      <4> SUFFICES ASSUME NEW i \in 1..Len(mailbox'), NEW j \in 1..Len(mailbox'), i < j
                   PROVE  mailbox'[i].id < mailbox'[j].id
        BY DEF Slots
      <4>1. i \in Slots
        BY <1>0, <3>1, <3>b DEF Slots
      <4> QED BY <1>1, <1>s, <4>1, <3>a, <3>b, <3>c, <3>1
    <3>4. Waiting'
      BY <1>1, <1>s, <3>1, <3>2, <3>a, <3>b, <3>c, <3>d DEF Slots
    <3>5. Running'
      BY <1>1, <1>l, <2>1, <3>1, <3>a, <3>b, <3>c DEF Slots
    <3>6. Unused'
      BY <1>0, <1>1, <1>2, <2>1, <2>2
    <3> QED BY <3>3, <3>4, <3>5, <3>6 DEF Queued
  <2> QED BY <1>4, <2>3, <2>4 DEF Admit, Dispatch
<1>5. CASE TakeAnswer \/ TimeOut
  <2>1. /\ UNCHANGED <<mailbox, loop, fate, issued>>
        /\ \A r \in Requests : r # worker.id => told'[r] = told[r]
    BY <1>0, <1>5 DEF TakeAnswer, TimeOut, control, Tellings
  <2>2. worker.pc = "waiting" /\ (worker.id \in Requests => worker.id <= issued.request)
    BY <1>0, <1>5 DEF TakeAnswer, TimeOut, Awaited
  <2>3. Unused'
    <3>1. \A r \in Requests : r > issued.request => r # worker.id
      BY <1>0, <1>2, <2>2
    <3> QED BY <1>1, <2>1, <3>1
  <2> QED BY <1>1, <2>1, <2>3 DEF Queued, Slots
<1>6. CASE LoopReceive
  <2>1. /\ mailbox # <<>> /\ mailbox' = Tail(mailbox) /\ loop = NoCommand
        /\ issued' = issued /\ told' = told
    BY <1>6 DEF LoopReceive
  <2>2. /\ Len(mailbox) \in Nat \ {0} /\ Head(mailbox) = mailbox[1] /\ mailbox[1] \in Commands
        /\ Len(mailbox') = Len(mailbox) - 1
        /\ \A i \in 1..(Len(mailbox) - 1) : mailbox'[i] = mailbox[i + 1]
    BY <1>0, <2>1, ReceivedSlots
  <2>3. \A i \in 1..Len(mailbox') : i + 1 \in Slots /\ mailbox'[i] = mailbox[i + 1]
                                   /\ mailbox[1].id < mailbox'[i].id
    BY <1>0, <1>1, <2>2 DEF Slots
  <2>4. \A r \in Requests : r # mailbox[1].id => fate'[r] = fate[r]
    BY <1>0, <1>6, <2>2 DEF LoopReceive, Fates
  <2>5. mailbox[1].id <= issued.request /\ fate[mailbox[1].id] = "queued" /\ mailbox[1].id \in Requests
    BY <1>1, <2>2, CommandFields DEF Slots
  <2>6. Order'
    BY <1>0, <1>1, <2>2, <2>3 DEF Slots
  <2>7. Waiting'
    BY <1>0, <1>1, <1>2, <2>1, <2>2, <2>3, <2>4, <2>5, SlotFields DEF Slots
  <2>8. Unused'
    BY <1>0, <1>1, <1>2, <2>1, <2>4, <2>5
  <2>9. Running'
    <3>1. loop' = NoCommand \/ (loop' = mailbox[1] /\ fate' = fate)
      <4>1. CASE MayExecute(Head(mailbox))
        BY <1>6, <2>2, <4>1 DEF LoopReceive
      <4>2. CASE ~MayExecute(Head(mailbox))
        <5>1. loop' = loop
          BY <1>6, <4>2 DEF LoopReceive
        <5> QED BY <2>1, <5>1
      <4> QED BY <4>1, <4>2
    <3> QED BY <2>1, <2>3, <2>5, <3>1 DEF Slots
  <2> QED BY <2>6, <2>7, <2>8, <2>9 DEF Queued
<1>7. CASE LoopExecuted \/ LoopRefused
  <2>1. /\ loop \in Commands /\ loop # NoCommand /\ loop' = NoCommand
        /\ UNCHANGED <<mailbox, issued, told>>
    BY <1>0, <1>7 DEF LoopExecuted, LoopRefused
  <2>2. \A r \in Requests : r # loop.id => fate'[r] = fate[r]
    BY <1>0, <1>7 DEF LoopExecuted, LoopRefused, Fates
  <2>3. Order' /\ Running'
    BY <1>1, <2>1 DEF Slots
  <2>4. Waiting'
    <3>1. \A i \in Slots : mailbox[i].id # loop.id
      <4>1. \A i \in Slots : loop.id < mailbox[i].id
        BY <1>1, <2>1
      <4>2. loop.id \in Nat
        BY <1>2, <1>l, <2>1
      <4> QED BY <1>2, <1>s, <4>1, <4>2
    <3> QED BY <1>1, <1>s, <2>1, <2>2, <3>1 DEF Slots
  <2>5. Unused'
    BY <1>0, <1>1, <1>2, <2>1, <2>2, CommandFields
  <2> QED BY <2>3, <2>4, <2>5 DEF Queued
<1>8. CASE Restart
  <2>1. /\ Len(mailbox') = 0 /\ loop' = NoCommand /\ told' = told
        /\ issued'.request = issued.request
    BY <1>8 DEF Restart, TypeOK, Counts
  <2>2. \A r \in Requests : fate[r] = "none" => fate'[r] = "none"
    BY <1>8 DEF Restart
  <2> QED BY <1>1, <2>1, <2>2 DEF Queued, Slots
<1> QED BY <1>3, <1>4, <1>5, <1>6, <1>7, <1>8, StepKinds
LEMMA AwaitedStep == TypeOK /\ Queued /\ Awaited /\ [Next]_vars => Awaited'
<1> SUFFICES ASSUME TypeOK, Queued, Awaited, [Next]_vars PROVE Awaited'
  OBVIOUS
<1>0. /\ mailbox \in Seq(Commands) /\ Len(mailbox) \in Nat /\ issued.request \in Nat
      /\ loop \in Commands \cup {NoCommand} /\ fate \in Fates /\ worker \in Workers
  BY LanAssumption DEF TypeOK, Counts
<1>1. /\ \A i \in Slots : mailbox[i].id \in Nat /\ mailbox[i].id <= issued.request
      /\ \A i, j \in Slots : i < j => mailbox[i].id < mailbox[j].id
      /\ loop # NoCommand => \A i \in Slots : loop.id < mailbox[i].id
  BY SlotFields DEF Queued
<1>2. Free.pc # "waiting"
  BY DEF Free
<1>3. CASE Quiet
  BY <1>3 DEF Quiet, Awaited
<1>4. ASSUME NEW c \in Commands, Admit(c) PROVE Awaited'
  <2>1. /\ worker = Free /\ c.id = issued.request + 1 /\ c.id \in Requests
        /\ issued'.request = issued.request + 1
    BY <1>4 DEF Admit
  <2>2. \/ worker' = Free
        \/ worker' = [pc |-> "waiting", id |-> c.id] /\ fate' = [fate EXCEPT ![c.id] = "queued"]
    BY <1>4, <2>1 DEF Admit, Dispatch
  <2>3. CASE worker' = Free
    BY <1>2, <2>3 DEF Awaited
  <2>4. CASE worker' = [pc |-> "waiting", id |-> c.id] /\ fate' = [fate EXCEPT ![c.id] = "queued"]
    <3>1. worker'.id = c.id /\ fate'[c.id] = "queued"
      BY <1>0, <2>1, <2>4 DEF Fates
    <3> QED BY <1>0, <2>1, <3>1 DEF Awaited
  <2> QED BY <2>2, <2>3, <2>4
<1>5. CASE TakeAnswer
  <2>1. CASE worker' = Free
    BY <1>2, <2>1 DEF Awaited
  <2>2. CASE signal.id # worker.id
    BY <1>5, <2>2 DEF TakeAnswer, Awaited
  <2> QED BY <1>5, <2>1, <2>2 DEF TakeAnswer
<1>6. CASE TimeOut \/ Restart
  BY <1>2, <1>6 DEF TimeOut, Restart, Awaited
<1>7. CASE LoopReceive
  <2>1. /\ mailbox # <<>> /\ mailbox' = Tail(mailbox) /\ loop = NoCommand
        /\ issued' = issued /\ worker' = worker
    BY <1>7 DEF LoopReceive
  <2>2. /\ Len(mailbox) \in Nat \ {0} /\ Head(mailbox) = mailbox[1] /\ mailbox[1] \in Commands
        /\ mailbox' \in Seq(Commands) /\ Len(mailbox') = Len(mailbox) - 1
    BY <1>0, <2>1, ReceivedSlots
  <2>3. worker.pc = "waiting" => fate[worker.id] = "queued"
    BY <2>1 DEF Awaited
  <2>4. CASE fate' = fate
    BY <2>1, <2>3, <2>4 DEF Awaited
  <2>5. CASE /\ signal'.id = mailbox[1].id /\ loop' = loop
             /\ fate' = [fate EXCEPT ![mailbox[1].id] = "refused"]
    <3>1. CASE worker.id = mailbox[1].id /\ worker.pc = "waiting"
      <4>1. Len(mailbox) = 1
        <5>1. mailbox[1].id = issued.request
          BY <3>1 DEF Awaited
        <5>2. 2 \notin Slots
          BY <1>0, <1>1, <2>2, <5>1 DEF Slots
        <5> QED BY <2>2, <5>2 DEF Slots
      <4>2. mailbox' = <<>>
        BY <2>2, <4>1
      <4> QED BY <2>1, <2>5, <3>1, <4>2 DEF Awaited
    <3>2. CASE worker.id # mailbox[1].id
      <4>1. worker.pc = "waiting" => fate'[worker.id] = "queued"
        BY <1>0, <2>3, <2>5, <3>2 DEF Fates
      <4> QED BY <2>1, <4>1 DEF Awaited
    <3>3. CASE worker.pc # "waiting"
      BY <2>1, <3>3 DEF Awaited
    <3> QED BY <3>1, <3>2, <3>3
  <2>6. CASE ~MayExecute(Head(mailbox))
    <3>1. /\ Respond(Head(mailbox), 409, revision) /\ loop' = loop
          /\ fate' = [fate EXCEPT ![Head(mailbox).id] = "refused"]
      BY <1>7, <2>6 DEF LoopReceive
    <3>2. signal'.id = mailbox[1].id
      BY <2>2, <3>1 DEF Respond
    <3> QED BY <2>2, <2>5, <3>1, <3>2
  <2>7. CASE MayExecute(Head(mailbox))
    BY <1>7, <2>4, <2>7 DEF LoopReceive
  <2> QED BY <2>6, <2>7
<1>8. CASE LoopExecuted \/ LoopRefused
  <2>1. /\ loop \in Commands /\ loop # NoCommand /\ loop' = NoCommand
        /\ UNCHANGED <<mailbox, issued, worker>> /\ signal'.id = loop.id
    BY <1>0, <1>8 DEF LoopExecuted, LoopRefused, Respond
  <2>2. \A r \in Requests : r # loop.id => fate'[r] = fate[r]
    BY <1>0, <1>8 DEF LoopExecuted, LoopRefused, Fates
  <2>3. worker.pc = "waiting" => fate[worker.id] = "queued" /\ worker.id \in Requests
    BY <1>0, <2>1, LanAssumption DEF Awaited, Requests, Workers
  <2>4. CASE worker.pc = "waiting" /\ worker.id = loop.id
    <3>1. loop.id = issued.request /\ \A i \in Slots : loop.id < mailbox[i].id
      BY <1>1, <2>1, <2>4 DEF Awaited
    <3>2. Len(mailbox) = 0
      <4>1. 1 \notin Slots
        BY <1>0, <1>1, <3>1
      <4> QED BY <1>0, <4>1 DEF Slots
    <3>3. mailbox = <<>>
      BY <1>0, <3>2
    <3> QED BY <2>1, <2>4, <3>3 DEF Awaited
  <2>5. CASE worker.id # loop.id
    BY <2>1, <2>2, <2>3, <2>5 DEF Awaited
  <2>6. CASE worker.pc # "waiting"
    BY <2>1, <2>6 DEF Awaited
  <2> QED BY <2>4, <2>5, <2>6
<1> QED BY <1>3, <1>4, <1>5, <1>6, <1>7, <1>8, StepKinds

\* What deciding a queued command does to the truth of earlier answers: nothing.
LEMMA OthersStayTrue ==
    ASSUME TypeOK, Answered, NEW d \in Requests, fate[d] = "queued",
           \A r \in Requests : r # d => fate'[r] = fate[r],
           \A c \in applied' : c \in applied \/ c.id = d,
           told' = told
    PROVE  /\ \A r \in Requests : r # d =>
                /\ told[r].status = 200 =>
                     \/ fate'[r] = "served"
                     \/ /\ fate'[r] = "applied"
                        /\ \A c \in applied' : c.id = r => told[r].rev = c.rev + 1
                /\ told[r].status \in {400, 409, 503} => fate'[r] = "refused"
           /\ \A r \in Requests : r = d => told[r].status \notin {200, 400, 409, 503}
           /\ \A c \in applied : c.id # d /\ (c.id \in Requests => fate'[c.id] = "applied")
BY DEF Answered, AnswersAreTrue
LEMMA AnsweredStep ==
    TypeOK /\ Numbered /\ Queued /\ Awaited /\ Answered /\ [Next]_vars => Answered'
<1> SUFFICES ASSUME TypeOK, Numbered, Queued, Awaited, Answered, [Next]_vars PROVE Answered'
  OBVIOUS
<1>0. /\ mailbox \in Seq(Commands) /\ issued.request \in Nat /\ revision \in Nat
      /\ loop \in Commands \cup {NoCommand} /\ fate \in Fates /\ told \in Tellings
      /\ signal \in Answers \cup {NoAnswer} /\ applied \subseteq Commands
      /\ worker \in Workers
  BY LanAssumption DEF TypeOK, Counts
<1>1. \A c \in applied : c.id \in Requests
  BY <1>0, CommandFields
<1>2. signal # NoAnswer => signal.id \in Requests /\ signal.status \in {200, 400, 409}
  BY <1>0 DEF Answers
<1>3. CASE Quiet
  BY <1>3 DEF Quiet, Answered, SignalIsTrue, AnswersAreTrue
<1>4. ASSUME NEW c \in Commands, Admit(c) PROVE Answered'
  <2>1. /\ c.id \in Requests /\ UNCHANGED <<signal, applied>>
        /\ fate[c.id] = "none" /\ told[c.id].status = 0
    BY <1>0, <1>4 DEF Admit, Queued
  <2>2. \A r \in Requests : r # c.id => fate'[r] = fate[r] /\ told'[r] = told[r]
    BY <1>0, <1>4 DEF Admit, Dispatch, Fates, Tellings
  <2>3. told'[c.id].status = 0 \/ (told'[c.id].status = 503 /\ fate'[c.id] = "refused")
    BY <1>0, <1>4, <2>1 DEF Admit, Dispatch, Fates, Tellings
  <2>4. AnswersAreTrue'
    BY <2>1, <2>2, <2>3 DEF Answered, AnswersAreTrue
  <2>5. SignalIsTrue'
    <3>1. signal # NoAnswer => signal.id # c.id
      BY <1>2, <2>1 DEF Answered, SignalIsTrue
    <3> QED BY <1>2, <2>1, <2>2, <3>1 DEF Answered, SignalIsTrue
  <2>6. \A d \in applied' : fate'[d.id] = "applied"
    BY <1>1, <2>1, <2>2 DEF Answered
  <2> QED BY <2>4, <2>5, <2>6 DEF Answered
<1>5. CASE TakeAnswer
  <2>1. /\ signal # NoAnswer /\ signal' = NoAnswer /\ UNCHANGED <<fate, applied>>
        /\ \/ told' = told
           \/ told' = [told EXCEPT ![signal.id] = [status |-> signal.status, rev |-> signal.rev]]
    BY <1>5 DEF TakeAnswer
  <2>2. SignalIsTrue'
    BY <2>1 DEF SignalIsTrue
  <2>3. AnswersAreTrue'
    <3>1. CASE told' = told
      BY <2>1, <3>1 DEF Answered, AnswersAreTrue
    <3>2. CASE told' = [told EXCEPT ![signal.id] = [status |-> signal.status, rev |-> signal.rev]]
      <4>1. \A r \in Requests : r # signal.id => told'[r] = told[r]
        BY <1>0, <3>2 DEF Tellings
      <4>2. told'[signal.id].status = signal.status /\ told'[signal.id].rev = signal.rev
        BY <1>0, <1>2, <2>1, <3>2 DEF Tellings
      <4>3. /\ signal.status = 200 =>
                 \/ fate[signal.id] = "served"
                 \/ /\ fate[signal.id] = "applied"
                    /\ \A c \in applied : c.id = signal.id => signal.rev = c.rev + 1
            /\ signal.status \in {400, 409} => fate[signal.id] = "refused"
            /\ signal.status # 503
        BY <1>2, <2>1 DEF Answered, SignalIsTrue
      <4> QED BY <2>1, <4>1, <4>2, <4>3 DEF Answered, AnswersAreTrue
    <3> QED BY <2>1, <3>1, <3>2
  <2> QED BY <2>1, <2>2, <2>3 DEF Answered
<1>6. CASE TimeOut
  <2>1. /\ UNCHANGED <<signal, fate, applied>>
        /\ told' = [told EXCEPT ![worker.id].status = 504]
    BY <1>6 DEF TimeOut, control
  <2>2. \A r \in Requests : told'[r] = told[r] \/ told'[r].status = 504
    BY <1>0, <2>1 DEF Tellings
  <2> QED BY <2>1, <2>2 DEF Answered, SignalIsTrue, AnswersAreTrue
<1>7. CASE LoopReceive
  <2>1. mailbox # <<>> /\ UNCHANGED <<applied, told>>
    BY <1>7 DEF LoopReceive
  <2>2. CASE MayExecute(Head(mailbox))
    <3>1. UNCHANGED <<signal, fate>>
      BY <1>7, <2>2 DEF LoopReceive
    <3> QED BY <2>1, <3>1 DEF Answered, SignalIsTrue, AnswersAreTrue
  <2>3. CASE ~MayExecute(Head(mailbox))
    <3> DEFINE d == mailbox[1].id
    <3>1. Head(mailbox) = mailbox[1] /\ mailbox[1] \in Commands /\ 1 \in Slots
      BY <1>0, <2>1, ReceivedSlots DEF Slots
    <3>2. d \in Requests /\ fate[d] = "queued"
      BY <3>1, CommandFields DEF Queued
    <3>3. fate' = [fate EXCEPT ![d] = "refused"] /\ signal' = [id |-> d, status |-> 409, rev |-> revision]
      BY <1>7, <2>3, <3>1 DEF LoopReceive, Respond
    <3> HIDE DEF d
    <3>4. (\A r \in Requests : r # d => fate'[r] = fate[r]) /\ fate'[d] = "refused"
      BY <1>0, <3>2, <3>3 DEF Fates
    <3>5. SignalIsTrue'
      BY <3>3, <3>4 DEF SignalIsTrue
    <3>6. AnswersAreTrue' /\ \A c \in applied' : fate'[c.id] = "applied"
      BY <1>1, <2>1, <3>2, <3>4, OthersStayTrue DEF AnswersAreTrue
    <3> QED BY <3>5, <3>6 DEF Answered
  <2> QED BY <2>2, <2>3
<1>8. CASE LoopExecuted
  <2> DEFINE d == loop.id
  <2>1. loop \in Commands /\ d \in Requests /\ fate[d] = "queued" /\ told' = told
    BY <1>0, <1>8, CommandFields DEF LoopExecuted, Queued
  <2>2. signal' = [id |-> d, status |-> 200, rev |-> revision']
    BY <1>8 DEF LoopExecuted, Respond
  <2>3. (\A r \in Requests : r # d => fate'[r] = fate[r])
        /\ fate'[d] = IF loop.write THEN "applied" ELSE "served"
    BY <1>0, <1>8, <2>1 DEF LoopExecuted, Fates
  <2>4. \A c \in applied' : c \in applied \/ (c = loop /\ loop.write)
    BY <1>8 DEF LoopExecuted
  <2>5. \A c \in applied : c.id # d /\ fate'[c.id] = "applied"
    BY <1>1, <2>1, <2>3, <2>4, OthersStayTrue
  <2>6. loop.write => revision' = loop.rev + 1
    BY <1>8 DEF LoopExecuted, Numbered
  <2>7. SignalIsTrue'
    BY <2>2, <2>3, <2>4, <2>5, <2>6 DEF SignalIsTrue
  <2>8. AnswersAreTrue'
    BY <1>1, <2>1, <2>3, <2>4, OthersStayTrue DEF AnswersAreTrue
  <2>9. \A c \in applied' : fate'[c.id] = "applied"
    BY <2>3, <2>4, <2>5
  <2> QED BY <2>7, <2>8, <2>9 DEF Answered
<1>9. CASE LoopRefused
  <2> DEFINE d == loop.id
  <2>1. /\ loop \in Commands /\ d \in Requests /\ fate[d] = "queued"
        /\ told' = told /\ applied' = applied
    BY <1>0, <1>9, CommandFields DEF LoopRefused, Queued
  <2>2. signal' = [id |-> d, status |-> 400, rev |-> revision]
    BY <1>9 DEF LoopRefused, Respond
  <2>3. (\A r \in Requests : r # d => fate'[r] = fate[r]) /\ fate'[d] = "refused"
    BY <1>0, <1>9, <2>1 DEF LoopRefused, Fates
  <2>4. SignalIsTrue'
    BY <2>2, <2>3 DEF SignalIsTrue
  <2>5. AnswersAreTrue' /\ \A c \in applied' : fate'[c.id] = "applied"
    BY <1>1, <2>1, <2>3, OthersStayTrue DEF AnswersAreTrue
  <2> QED BY <2>4, <2>5 DEF Answered
<1>10. CASE Restart
  <2>1. applied' = {} /\ signal' = NoAnswer /\ told' = told
    BY <1>10 DEF Restart
  <2>2. \A r \in Requests : fate[r] # "queued" => fate'[r] = fate[r]
    BY <1>10 DEF Restart
  <2> QED BY <2>1, <2>2 DEF Answered, SignalIsTrue, AnswersAreTrue
<1> QED BY <1>3, <1>4, <1>5, <1>6, <1>7, <1>8, <1>9, <1>10, StepKinds

-----------------------------------------------------------------------------
(* The theorems.                                                             *)

LEMMA InvInit == Init => Inv
<1> SUFFICES ASSUME Init PROVE Inv
  OBVIOUS
<1>1. Len(mailbox) = 0 /\ loop = NoCommand /\ revision = 0 /\ issued.request = 0
      /\ issued.lease = 0 /\ lease.id = 0
  BY DEF Init, NoLease
<1>2. Counted
  BY <1>1 DEF Counted
<1>3. Numbered
  <2>1. IsFiniteSet(applied) /\ Cardinality(applied) = 0 /\ applied = {}
    BY FS_EmptySet DEF Init
  <2> QED BY <1>1, <2>1 DEF Numbered
<1>4. Leased /\ Queued
  BY <1>1 DEF Init, Leased, Queued, Slots
<1>5. Awaited
  BY DEF Init, Awaited, Free
<1>6. Answered
  BY DEF Init, Answered, SignalIsTrue, AnswersAreTrue
<1> QED BY <1>2, <1>3, <1>4, <1>5, <1>6, TypeInit DEF Inv

\* Types, counts, numbering, leases, order and answers together are an invariant
\* of the LAN access specification.
THEOREM Invariance == Spec => []Inv
<1>1. Inv /\ [Next]_vars => Inv'
  BY TypeStep, CountedStep, NumberedStep, LeasedStep, QueuedStep, AwaitedStep, AnsweredStep
  DEF Inv
<1> QED BY InvInit, <1>1, PTL DEF Spec

\* Every variable keeps its type; the revision and the mailbox keep their bounds.
THEOREM TypeCorrect == Spec => []TypeOK
<1>1. Inv => TypeOK
  BY DEF Inv
<1> QED BY Invariance, <1>1, PTL

\* No two writes between two boots take effect on one expected revision, and
\* the revision counts the writes: a retried write is not executed twice.
THEOREM RevisionIsATicket == Spec => []OncePerRevision
<1>1. Inv => OncePerRevision
  BY DEF Inv, Numbered, OncePerRevision
<1> QED BY Invariance, <1>1, PTL

\* What a client is told of its command is what became of it.
THEOREM AnswersHold == Spec => []AnswersAreTrue
<1>1. Inv => AnswersAreTrue
  BY DEF Inv, Answered
<1> QED BY Invariance, <1>1, PTL

\* The answer to the command a worker waits for is in the signal from the moment
\* the command is decided.
THEOREM AnswerStays == Spec => []NoAnswerIsLost
<1>1. Inv => NoAnswerIsLost
  BY DEF Inv, Awaited, NoAnswerIsLost
<1> QED BY Invariance, <1>1, PTL

\* Over every mixture of saves, failures, discarded and forgotten saves, retries
\* and restarts: when nothing is due, reported or lost sight of, a restart finds
\* exactly the token in force.
THEOREM TokenAlwaysSurvives == Spec => []TokenSurvivesRestart
<1>1. Init => TokenKept
  BY DEF Init, Settled, TokenKept
<1>2. Inv /\ TokenKept /\ [Next]_vars => TokenKept'
  BY TokenStep DEF Inv
<1>3. TokenKept => TokenSurvivesRestart
  BY DEF TokenKept, TokenSurvivesRestart
<1> QED BY Invariance, <1>1, <1>2, <1>3, PTL DEF Spec

\* A queued write starts only under the running lease and the token that
\* admitted it.
THEOREM WritesAreAuthorized == Spec => WritesStartAuthorized
<1> DEFINE Starts == loop = NoCommand /\ loop'.write =>
                       loop'.token = token /\ loop'.lease = lease.id /\ lease.left > 0
<1>1. Inv /\ [Next]_vars => [Starts]_vars
  <2> SUFFICES ASSUME Inv, [Next]_vars, loop = NoCommand, loop'.write
               PROVE  loop'.token = token /\ loop'.lease = lease.id /\ lease.left > 0
    OBVIOUS
  <2>0. ~NoCommand.write
    BY DEF NoCommand
  <2>1. LoopReceive /\ loop' # loop
    <3>1. CASE LoopReceive
      BY <2>0, <3>1
    <3>2. ASSUME NEW c \in Commands, Admit(c) PROVE FALSE
      BY <2>0, <3>2 DEF Admit
    <3>3. CASE TakeAnswer \/ TimeOut \/ LoopExecuted \/ LoopRefused \/ Restart \/ Quiet
      BY <2>0, <3>3
      DEF TakeAnswer, TimeOut, LoopExecuted, LoopRefused, Restart, Quiet, control
    <3> QED BY <3>1, <3>2, <3>3, StepKinds DEF Inv
  <2> DEFINE c == mailbox[1]
  <2>2. Head(mailbox) = c /\ c \in Commands /\ 1 \in Slots
    <3>1. mailbox \in Seq(Commands) /\ mailbox # <<>>
      BY <2>1 DEF Inv, TypeOK, LoopReceive
    <3> QED BY <3>1, ReceivedSlots DEF Slots
  <2>3. MayExecute(c) /\ loop' = c
    BY <2>1, <2>2 DEF LoopReceive
  <2> HIDE DEF c
  <2>4. c.write /\ Active(c.lease)
    BY <2>3 DEF MayExecute
  <2>5. c.lease # 0 /\ c.lease = lease.id /\ lease.left # 0
    BY <2>4 DEF Active, Expired, NoLease
  <2>6. lease.left > 0
    BY <2>5, LanAssumption DEF Inv, TypeOK, Leases
  <2>7. c.token = token
    BY <2>2, <2>4, <2>5 DEF Inv, Leased, c
  <2> QED BY <2>3, <2>5, <2>6, <2>7
<1> QED BY Invariance, <1>1, PTL DEF Spec, WritesStartAuthorized
================================================================================
