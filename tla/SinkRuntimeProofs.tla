--------------------------- MODULE SinkRuntimeProofs ---------------------------
(***************************************************************************)
(* Proofs about SinkRuntime, for any offers, operations, burst and FIFO      *)
(* size and any number of operations and faults: a permit does not outlive   *)
(* the session it was given in, the descent of an idle sink goes step by     *)
(* step, and a refresh is reported only once capabilities were taken.        *)
(*                                                                           *)
(* The policy's operators are summed up by lemmas that say what they do to    *)
(* the contract, the capabilities, the refresh and the VBUS interlock; the    *)
(* actions are then cases of a few moves of the sink.                        *)
(***************************************************************************)
EXTENDS SinkRuntime, TLAPS

Fields == {"phase", "active", "pending", "caps", "idle", "explicit", "gap", "refreshing",
           "refreshFor", "rejected", "timedOut", "deaf", "ramp", "low", "awaiting", "attached",
           "vbusSeen", "age"}

\* The sink is a record of these fields; its contracts are numbers.
IsSink(s) ==
    DOMAIN s = Fields /\ s.active \in Nat /\ s.pending \in Nat /\ s.explicit \in Nat

\* t differs from s in nothing the properties look at.
SamePolicy(s, t) == t.phase = s.phase /\ t.active = s.active /\ t.pending = s.pending
                      /\ t.caps = s.caps /\ t.idle = s.idle
Alike(s, t) ==
    IsSink(t) /\ SamePolicy(s, t) /\ t.refreshing = s.refreshing /\ t.low = s.low

\* t has lost the contract of s and everything that came with it.
Cleared(s, t) ==
    /\ IsSink(t)
    /\ t.active = None /\ t.pending = None /\ t.caps = {}
    /\ t.phase = "WaitingForSourceCapabilities" /\ t.idle = s.idle
    /\ t.refreshing = FALSE

\* What IdleDescendsInSteps allows.
StepDown(s, t) ==
    t.idle /\ t.pending # s.pending /\ t.pending # None =>
        \/ t.active \in {None, Fixed}
        \/ t.pending = t.active - 1
        \/ t.active \notin t.caps

\* No new contract, and no new interlock.
Move(s, t) ==
    /\ IsSink(t) /\ t.active \in {s.active, None}
    /\ t.low => s.low
    /\ StepDown(s, t)

-----------------------------------------------------------------------------
(* The policy's operators.                                                   *)

LEMMA ResetClears ==
    ASSUME NEW s, IsSink(s)
    PROVE  /\ Cleared(s, NoRefresh(ProtocolReset(s)))
           /\ NoRefresh(ProtocolReset(s)).low = s.low
BY DEF IsSink, ProtocolReset, Cleared, None, Fields, NoRefresh

LEMMA ClearAuthorizationClears ==
    ASSUME NEW s, IsSink(s)
    PROVE  Cleared(s, ClearAuthorization(s)) /\ ClearAuthorization(s).low = s.low
BY ResetClears DEF ClearAuthorization, Cleared, IsSink, Fields

LEMMA TransportFaultClears ==
    ASSUME NEW s, IsSink(s), NEW b
    PROVE  Cleared(s, TransportFault(s, b)) /\ TransportFault(s, b).low = FALSE
BY ResetClears DEF TransportFault, Cleared, IsSink, Fields, ClearLow

LEMMA ReceivedResetClears ==
    ASSUME NEW s, IsSink(s)
    PROVE  Cleared(s, ReceivedReset(s)) /\ ReceivedReset(s).low = FALSE
BY ResetClears DEF ReceivedReset, Cleared, IsSink, Fields, ClearLow

LEMMA CancelPendingKeeps ==
    ASSUME NEW s, IsSink(s)
    PROVE  LET t == CancelPending(s)
           IN  /\ IsSink(t) /\ t.pending = None /\ t.active = s.active /\ t.caps = s.caps
               /\ t.idle = s.idle /\ t.refreshing = s.refreshing /\ t.low = s.low
BY DEF CancelPending, IsSink, Fields, None

\* begin_request for an idle sink, and for one that was asked for a contract.
LEMMA BeginRequestKeeps ==
    ASSUME NEW s, IsSink(s)
    PROVE  LET t == BeginRequest(s)
           IN  /\ IsSink(t) /\ t.active = s.active /\ t.caps = s.caps
               /\ t.idle = s.idle /\ t.refreshing = s.refreshing /\ t.low = s.low
               /\ t.pending = s.pending \/ StepDown(s, t)
<1>1. SelectContract(s) \in Nat
  BY DEF SelectContract, DefaultContract, IsPps, IsSink, Fixed
<1>2. CASE SelectContract(s) \notin s.caps
  BY <1>2 DEF BeginRequest
<1>3. CASE SelectContract(s) \in s.caps
  <2> DEFINE t == BeginRequest(s)
  <2>1. /\ IsSink(t) /\ t.active = s.active /\ t.caps = s.caps
        /\ t.idle = s.idle /\ t.refreshing = s.refreshing /\ t.low = s.low
        /\ t.pending = SelectContract(s)
    BY <1>1, <1>3 DEF BeginRequest, IsSink, Fields
  <2> HIDE DEF t
  <2>2. StepDown(s, t)
    BY <2>1 DEF StepDown, SelectContract, IsPps, IsSink, Fixed, None
  <2> QED BY <2>1, <2>2 DEF t
<1> QED BY <1>2, <1>3

LEMMA WithRequestKeeps ==
    ASSUME NEW s, IsSink(s), NEW c \in Nat
    PROVE  LET t == WithRequest(s, c)
           IN  /\ IsSink(t) /\ t.pending = s.pending /\ t.active = s.active /\ t.caps = s.caps
               /\ t.idle = FALSE /\ t.refreshing = s.refreshing /\ t.low = s.low
BY DEF WithRequest, IsSink, Fields

LEMMA WithIdleKeeps ==
    ASSUME NEW s, IsSink(s)
    PROVE  LET t == WithIdle(s)
           IN  /\ IsSink(t) /\ t.pending = s.pending /\ t.active = s.active /\ t.caps = s.caps
               /\ t.idle = TRUE /\ t.refreshing = s.refreshing /\ t.low = s.low
BY DEF WithIdle, IsSink, Fields, None

LEMMA FresherIsAlike == ASSUME NEW s, IsSink(s) PROVE Alike(s, Fresher(s))
BY DEF Fresher, Alike, SamePolicy, IsSink, Fields

LEMMA ClearLowKeeps ==
    ASSUME NEW s, IsSink(s)
    PROVE  LET t == ClearLow(s)
           IN  IsSink(t) /\ SamePolicy(s, t) /\ t.refreshing = s.refreshing /\ t.low = FALSE
BY DEF ClearLow, SamePolicy, IsSink, Fields

LEMMA FlushedIsAlike == ASSUME NEW s, IsSink(s) PROVE Alike(s, Flushed(s))
BY DEF Flushed, Alike, SamePolicy, IsSink, Fields

LEMMA NoRefreshKeeps ==
    ASSUME NEW s, IsSink(s)
    PROVE  LET t == NoRefresh(s)
           IN  IsSink(t) /\ SamePolicy(s, t) /\ t.refreshing = FALSE /\ t.low = s.low
BY DEF NoRefresh, SamePolicy, IsSink, Fields

\* Moves that change little.
LEMMA SmallMoves ==
    ASSUME NEW s, IsSink(s), NEW t
    PROVE  /\ Alike(s, t) => Move(s, t)
           /\ Cleared(s, t) /\ t.low \in {s.low, FALSE} => Move(s, t)
BY DEF Alike, SamePolicy, Cleared, Move, StepDown, None, IsSink

-----------------------------------------------------------------------------
(* The work of a turn.  It ends the session for no reader: a query or request  *)
(* that falls into an unfinished exchange makes the source reset, which is yet  *)
(* to be read.                                                                  *)

VoidKept == void' \in {void, "unread"}

LEMMA TransmitMoves ==
    ASSUME NEW type, NEW c, NEW a, NEW b, NEW ok, Transmit(type, c, a, b, ok)
    PROVE  VoidKept /\ sink' = (IF ok THEN a ELSE b)
BY DEF Transmit, Arrives, VoidKept

LEMMA NoTransmitMoves ==
    ASSUME NEW s, NoTransmit(s)
    PROVE  VoidKept /\ sink' = s
BY DEF NoTransmit, VoidKept

\* What a piece of work leaves: the operation it was given, or none.
WorkDone(o) == VoidKept /\ op' \in {o, NoOp} /\ done' \in {"None", "Rejected"}

LEMMA RefreshMoves ==
    ASSUME NEW s0, IsSink(s0), NEW replace \in BOOLEAN, NEW for, NEW o, Refresh(s0, replace, for, o)
    PROVE  /\ WorkDone(o) /\ IsSink(sink')
           /\ \/ SamePolicy(s0, sink') /\ sink'.low = s0.low
              \/ Cleared(s0, sink') /\ sink'.low = FALSE
           /\ op' # NoOp => sink'.refreshing
<1> DEFINE s == IF replace THEN Flushed(NoRefresh(Fresher(s0))) ELSE Fresher(s0)
<1>1. IsSink(s) /\ SamePolicy(s0, s) /\ s.low = s0.low
  <2>1. Alike(s0, Fresher(s0)) /\ IsSink(Fresher(s0))
    BY FresherIsAlike DEF Alike
  <2>2. LET t == NoRefresh(Fresher(s0))
        IN  IsSink(t) /\ SamePolicy(Fresher(s0), t) /\ t.low = Fresher(s0).low
    BY <2>1, NoRefreshKeeps
  <2>3. Alike(NoRefresh(Fresher(s0)), Flushed(NoRefresh(Fresher(s0))))
    BY <2>2, FlushedIsAlike
  <2> QED BY <2>1, <2>2, <2>3 DEF Alike, SamePolicy
<1>2. \/ s.refreshing /\ NoTransmit(s) /\ Keeps(o)
      \/ NoTransmit(s) /\ Refuses
      \/ \E ok \in BOOLEAN :
            /\ Transmit("caps", None,
                        [s EXCEPT !.refreshing = TRUE, !.refreshFor = for,
                                  !.age = [@ EXCEPT !["refresh"] = "new", !["query"] = "new"]],
                        TransportFault(s, FALSE), ok)
            /\ Settles(o, ok)
  BY DEF Refresh
<1> HIDE DEF s
<1>3. CASE s.refreshing /\ NoTransmit(s) /\ Keeps(o)
  BY <1>1, <1>3, NoTransmitMoves DEF Keeps, WorkDone
<1>4. CASE NoTransmit(s) /\ Refuses
  BY <1>1, <1>4, NoTransmitMoves DEF Refuses, WorkDone
<1>5. ASSUME NEW ok \in BOOLEAN,
             Transmit("caps", None,
                        [s EXCEPT !.refreshing = TRUE, !.refreshFor = for,
                                  !.age = [@ EXCEPT !["refresh"] = "new", !["query"] = "new"]],
                        TransportFault(s, FALSE), ok),
             Settles(o, ok)
      PROVE  /\ WorkDone(o) /\ IsSink(sink')
             /\ \/ SamePolicy(s0, sink') /\ sink'.low = s0.low
                \/ Cleared(s0, sink') /\ sink'.low = FALSE
             /\ op' # NoOp => sink'.refreshing
  <2>1. VoidKept /\ sink' = (IF ok
          THEN [s EXCEPT !.refreshing = TRUE, !.refreshFor = for,
                         !.age = [@ EXCEPT !["refresh"] = "new", !["query"] = "new"]]
          ELSE TransportFault(s, FALSE))
    BY <1>5, TransmitMoves
  <2>2. CASE ok
    <3>1. IsSink(sink') /\ SamePolicy(s, sink') /\ sink'.low = s.low /\ sink'.refreshing
      BY <1>1, <2>1, <2>2 DEF IsSink, Fields, SamePolicy
    <3> QED BY <1>1, <1>5, <2>1, <2>2, <3>1 DEF SamePolicy, Settles, Keeps, WorkDone
  <2>3. CASE ~ok
    <3>1. Cleared(s, sink') /\ sink'.low = FALSE
      BY <1>1, <2>1, <2>3, TransportFaultClears
    <3> QED BY <1>1, <1>5, <2>1, <2>3, <3>1 DEF SamePolicy, Cleared, Settles, Refuses, WorkDone
  <2> QED BY <2>2, <2>3
<1> QED BY <1>2, <1>3, <1>4, <1>5

LEMMA RequestMoves ==
    ASSUME NEW s, IsSink(s), NEW o, Request(s, o)
    PROVE  /\ WorkDone(o) /\ IsSink(sink')
           /\ Alike(s, sink') \/ (Cleared(s, sink') /\ sink'.low = FALSE)
<1>1. PICK ok \in BOOLEAN :
          /\ Transmit("request", s.pending, [s EXCEPT !.age["req"] = "new"],
                      TransportFault(s, FALSE), ok)
          /\ Settles(o, ok)
  BY DEF Request
<1>2. VoidKept /\ sink' = (IF ok THEN [s EXCEPT !.age["req"] = "new"] ELSE TransportFault(s, FALSE))
  BY <1>1, TransmitMoves
<1>3. Alike(s, [s EXCEPT !.age["req"] = "new"])
  BY DEF Alike, SamePolicy, IsSink, Fields
<1>4. Cleared(s, TransportFault(s, FALSE)) /\ TransportFault(s, FALSE).low = FALSE
  BY TransportFaultClears
<1> QED BY <1>1, <1>2, <1>3, <1>4 DEF WorkDone, Settles, Keeps, Refuses, Alike, Cleared

LEMMA StaysMoves ==
    ASSUME NEW s, NEW o, Stays(s, o)
    PROVE  WorkDone(o) /\ sink' = s
BY NoTransmitMoves DEF Stays, Keeps, WorkDone

\* The result of a piece of work.
Worked(o) == WorkDone(o) /\ Move(sink, sink')

LEMMA RequestContractMoves ==
    ASSUME IsSink(sink), NEW o, o.want \in Nat, NEW replace \in BOOLEAN, RequestContract(o, replace)
    PROVE  Worked(o)
<1> DEFINE c == o.want
           s == [Fresher(sink) EXCEPT !.ramp = FALSE, !.age["step"] = "none"]
           w == WithRequest(CancelPending(s), c)
           v == WithRequest(s, c)
           x == [v EXCEPT !.pending = c, !.phase = "WaitingForAccept"]
<1>1. Alike(sink, s) /\ IsSink(s)
  BY FresherIsAlike DEF Alike, SamePolicy, IsSink, Fields
<1>2. \/ Refresh(w, TRUE, TRUE, o)
      \/ Stays(s, o)
      \/ Refresh(v, FALSE, TRUE, o)
      \/ NoTransmit(s) /\ Refuses
      \/ Request(x, o)
  BY DEF RequestContract
<1>3. /\ IsSink(w) /\ w.pending = None /\ w.active = s.active /\ w.idle = FALSE /\ w.low = s.low
      /\ w.caps = s.caps
  <2> HIDE DEF s
  <2> DEFINE p == CancelPending(s)
  <2>1. /\ IsSink(p) /\ p.pending = None /\ p.active = s.active /\ p.low = s.low
        /\ p.caps = s.caps
    BY <1>1, CancelPendingKeeps
  <2> HIDE DEF p
  <2>2. LET t == WithRequest(p, c)
        IN  /\ IsSink(t) /\ t.pending = p.pending /\ t.active = p.active /\ t.caps = p.caps
            /\ t.idle = FALSE /\ t.low = p.low
    BY <2>1, WithRequestKeeps
  <2> QED BY <2>1, <2>2 DEF p
<1>4. /\ IsSink(v) /\ v.pending = s.pending /\ v.active = s.active /\ v.idle = FALSE
      /\ v.low = s.low /\ v.caps = s.caps
  <2> HIDE DEF s
  <2> QED BY <1>1, WithRequestKeeps
<1>5. IsSink(x) /\ x.active = s.active /\ x.idle = FALSE /\ x.low = s.low
  <2> HIDE DEF v
  <2> QED BY <1>4 DEF IsSink, Fields
<1> HIDE DEF s, w, v, x
<1>6. ASSUME NEW y, IsSink(y), y.active = s.active, y.idle = FALSE, y.low = s.low,
             \/ SamePolicy(y, sink') /\ sink'.low = y.low
             \/ Cleared(y, sink') /\ sink'.low = FALSE,
             IsSink(sink')
      PROVE  Move(sink, sink')
  BY <1>1, <1>6 DEF SamePolicy, Alike, Cleared, Move, StepDown
<1>7. CASE Refresh(w, TRUE, TRUE, o)
  BY <1>3, <1>6, <1>7, RefreshMoves DEF Worked
<1>8. CASE Refresh(v, FALSE, TRUE, o)
  BY <1>4, <1>6, <1>8, RefreshMoves DEF Worked
<1>9. CASE Request(x, o)
  BY <1>5, <1>6, <1>9, RequestMoves DEF Worked, Alike
<1>10. CASE Stays(s, o) \/ (NoTransmit(s) /\ Refuses)
  <2>1. sink' = s /\ WorkDone(o)
    BY <1>10, StaysMoves, NoTransmitMoves DEF Refuses, WorkDone
  <2> QED BY <1>1, <2>1, SmallMoves DEF Worked
<1> QED BY <1>2, <1>7, <1>8, <1>9, <1>10

LEMMA RequestIdleMoves ==
    ASSUME IsSink(sink), NEW o, NEW replace \in BOOLEAN, RequestIdle(o, replace)
    PROVE  Worked(o)
<1> DEFINE f == Fresher(sink)
           b == IF replace \/ f.phase \in Negotiating THEN CancelPending(f) ELSE f
           s == [b EXCEPT !.ramp = IsPps(f.active), !.age["step"] = "none"]
           z == [s EXCEPT !.ramp = f.ramp, !.age["step"] = f.age["step"]]
           w == WithIdle(s)
           y == BeginRequest(w)
           x == [y EXCEPT !.age["step"] = IF s.active > Fixed + 1 THEN "new" ELSE "none"]
<1>1. \/ Stays(sink, o)
      \/ Refresh(w, TRUE, TRUE, o)
      \/ Refuses /\ NoTransmit(IF s.caps # {} THEN s ELSE z)
      \/ Stays(s, o)
      \/ Request(x, o)
  BY DEF RequestIdle
<1>2. IsSink(f) /\ Alike(sink, f)
  BY FresherIsAlike DEF Alike
<1> HIDE DEF f
<1>3. /\ IsSink(b) /\ b.active = sink.active /\ b.caps = sink.caps /\ b.low = sink.low
      /\ b.pending \in {sink.pending, None}
  BY <1>2, CancelPendingKeeps DEF Alike, SamePolicy
<1> HIDE DEF b
<1>4. /\ IsSink(s) /\ s.active = sink.active /\ s.caps = sink.caps /\ s.low = sink.low
      /\ s.pending \in {sink.pending, None}
  BY <1>3 DEF IsSink, Fields
<1> HIDE DEF s
<1>5. /\ IsSink(z) /\ z.active = sink.active /\ z.caps = sink.caps /\ z.low = sink.low
      /\ z.pending \in {sink.pending, None}
  BY <1>4 DEF IsSink, Fields
<1>6. /\ IsSink(w) /\ w.active = sink.active /\ w.caps = sink.caps /\ w.low = sink.low
      /\ w.pending \in {sink.pending, None}
  BY <1>4, WithIdleKeeps
<1> HIDE DEF z, w
<1>7. /\ IsSink(y) /\ y.active = sink.active /\ y.caps = sink.caps /\ y.low = sink.low
      /\ y.pending \in {sink.pending, None} \/ StepDown(w, y)
  BY <1>6, BeginRequestKeeps
<1> HIDE DEF y
<1>8. /\ IsSink(x) /\ x.active = sink.active /\ x.caps = sink.caps /\ x.low = sink.low
      /\ x.pending \in {sink.pending, None} \/ StepDown(w, x)
  BY <1>7 DEF IsSink, Fields, StepDown
<1> HIDE DEF x
<1>9. ASSUME NEW t, IsSink(sink'), t.active = sink.active, t.caps = sink.caps, t.low = sink.low,
             t.pending \in {sink.pending, None} \/ StepDown(w, t),
             \/ SamePolicy(t, sink') /\ sink'.low = t.low
             \/ Cleared(t, sink') /\ sink'.low = FALSE
      PROVE  Move(sink, sink')
  BY <1>6, <1>9 DEF SamePolicy, Cleared, Move, StepDown
<1>10. CASE Refresh(w, TRUE, TRUE, o)
  BY <1>6, <1>9, <1>10, RefreshMoves DEF Worked
<1>11. CASE Request(x, o)
  BY <1>8, <1>9, <1>11, RequestMoves DEF Worked, Alike
<1>12. CASE Stays(sink, o)
  BY <1>12, StaysMoves, SmallMoves DEF Worked, Alike, SamePolicy
<1>13. CASE Stays(s, o) \/ (Refuses /\ NoTransmit(IF s.caps # {} THEN s ELSE z))
  <2>1. sink' \in {s, z} /\ WorkDone(o)
    BY <1>13, StaysMoves, NoTransmitMoves DEF Refuses, WorkDone
  <2> QED BY <1>4, <1>5, <1>9, <2>1 DEF Worked, SamePolicy
<1> QED BY <1>1, <1>10, <1>11, <1>12, <1>13

LEMMA AdvanceIdleMoves ==
    ASSUME IsSink(sink), AdvanceIdle
    PROVE  Worked(op)
<1> DEFINE z == [sink EXCEPT !.ramp = FALSE, !.age["step"] = "none"]
           w == WithIdle(sink)
           s == BeginRequest(w)
           x == [s EXCEPT !.age = [@ EXCEPT !["req"] = "new", !["step"] = "new"]]
<1>1. \/ Stays(sink, op)
      \/ Stays(z, op)
      \/ NoTransmit(sink) /\ Refuses
      \/ \E ok \in BOOLEAN : Transmit("request", s.pending, x, s, ok) /\ Settles(op, ok)
  BY DEF AdvanceIdle
<1>2. Alike(sink, z)
  BY DEF Alike, SamePolicy, IsSink, Fields
<1>3. /\ IsSink(w) /\ w.active = sink.active /\ w.caps = sink.caps /\ w.low = sink.low
      /\ w.pending = sink.pending
  BY WithIdleKeeps
<1> HIDE DEF w, z
<1>4. Move(sink, s)
  <2>1. /\ IsSink(s) /\ s.active = sink.active /\ s.caps = sink.caps /\ s.low = sink.low
        /\ s.pending = sink.pending \/ StepDown(w, s)
    BY <1>3, BeginRequestKeeps
  <2> QED BY <1>3, <2>1 DEF Move, StepDown
<1> HIDE DEF s
<1>5. Move(sink, x)
  BY <1>4 DEF Move, StepDown, IsSink, Fields
<1> HIDE DEF x
<1>6. CASE \E ok \in BOOLEAN : Transmit("request", s.pending, x, s, ok) /\ Settles(op, ok)
  <2>1. VoidKept /\ sink' \in {x, s}
    BY <1>6, TransmitMoves
  <2>2. op' \in {op, NoOp} /\ done' \in {"None", "Rejected"}
    BY <1>6 DEF Settles, Keeps, Refuses
  <2> QED BY <1>4, <1>5, <2>1, <2>2 DEF Worked, WorkDone
<1>7. CASE Stays(sink, op) \/ Stays(z, op) \/ (NoTransmit(sink) /\ Refuses)
  <2>1. sink' \in {sink, z} /\ WorkDone(op)
    BY <1>7, StaysMoves, NoTransmitMoves DEF Refuses, WorkDone
  <2> QED BY <1>2, <2>1, SmallMoves DEF Worked, Alike, SamePolicy
<1> QED BY <1>1, <1>6, <1>7

LEMMA RetryContractMoves ==
    ASSUME IsSink(sink), op.want \in Nat, RetryContract
    PROVE  Worked(op)
<1>1. \/ Stays(sink, op)
      \/ NoTransmit(sink) /\ Refuses
      \/ RequestContract(op, FALSE)
  BY DEF RetryContract
<1>2. CASE Stays(sink, op) \/ (NoTransmit(sink) /\ Refuses)
  <2>1. sink' = sink /\ WorkDone(op)
    BY <1>2, StaysMoves, NoTransmitMoves DEF Refuses, WorkDone
  <2> QED BY <2>1, SmallMoves DEF Worked, Alike, SamePolicy
<1> QED BY <1>1, <1>2, RequestContractMoves

-----------------------------------------------------------------------------
(* The invariant.  Without VBUS and after a reset there is no contract; a       *)
(* permit survives the reading of a reset only until the turn is over, and      *)
(* nothing then keeps it; an unanswered refresh is still under way, or the       *)
(* capabilities have gone with the session.                                      *)

NoStaleContract == sink.low => sink.active = None
SessionIsOver ==
    void = "read" =>
        /\ sink.active = None
        /\ permit => step \in {"late", "publish"} /\ (sink.low \/ sink.phase \notin Negotiating)
RefreshIsOpen == op.kind = "Refresh" /\ ~capsRead => sink.refreshing \/ sink.caps = {}

SinkInv ==
    /\ IsSink(sink)
    /\ op \in Ops \cup {NoOp} /\ done \in {"None", "Rejected", "Superseded"}
    /\ capsRead \in BOOLEAN
    /\ NoStaleContract /\ SessionIsOver /\ RefreshIsOpen

LEMMA OpTypes ==
    ASSUME NEW o \in Ops \cup {NoOp}
    PROVE  o.want \in Nat
<1>1. CASE o \in Ops
  <2>1. o \in AllOps
    BY <1>1, SinkAssumption
  <2>2. Contracts \subseteq Nat /\ None \in Nat
    BY SinkAssumption DEF Contracts, Fixed, None
  <2>3. o.want \in Contracts \cup {None}
    BY <2>1 DEF AllOps
  <2> QED BY <2>2, <2>3
<1>2. CASE o = NoOp
  BY <1>2 DEF NoOp, None
<1> QED BY <1>1, <1>2

\* A turn's work leaves the session as it was.
LEMMA WorkKeepsSession ==
    ASSUME SinkInv, BeginTurn, Move(sink, sink'), VoidKept
    PROVE  IsSink(sink') /\ NoStaleContract' /\ SessionIsOver' /\ StepDown(sink, sink')
BY DEF SinkInv, BeginTurn, Move, VoidKept, NoStaleContract, SessionIsOver

LEMMA TakeOperationKeeps ==
    ASSUME SinkInv, NEW o \in Ops, TakeOperation(o)
    PROVE  SinkInv' /\ StepDown(sink, sink')
<1>1. IsSink(sink) /\ o.want \in Nat /\ BeginTurn /\ capsRead' = FALSE /\ (op # NoOp) \in BOOLEAN
  BY OpTypes DEF SinkInv, TakeOperation
<1>2. Worked(o) /\ (o.kind = "Refresh" => op' = NoOp \/ sink'.refreshing)
  <2>1. CASE o.kind = "Contract" /\ RequestContract(o, op # NoOp)
    BY <1>1, <2>1, RequestContractMoves
  <2>2. CASE o.kind = "Idle" /\ RequestIdle(o, op # NoOp)
    BY <1>1, <2>2, RequestIdleMoves
  <2>3. CASE o.kind = "Refresh" /\ Refresh(sink, op # NoOp, FALSE, o)
    <3>1. /\ WorkDone(o) /\ IsSink(sink')
          /\ \/ SamePolicy(sink, sink') /\ sink'.low = sink.low
             \/ Cleared(sink, sink') /\ sink'.low = FALSE
          /\ op' # NoOp => sink'.refreshing
      BY <1>1, <2>3, RefreshMoves
    <3>2. Move(sink, sink')
      BY <3>1 DEF SamePolicy, Cleared, Move, StepDown
    <3> QED BY <3>1, <3>2 DEF Worked
  <2> QED BY <2>1, <2>2, <2>3 DEF TakeOperation
<1>3. op' \in {o, NoOp} /\ done' \in {"None", "Rejected"} /\ VoidKept /\ Move(sink, sink')
  BY <1>2 DEF Worked, WorkDone
<1>4. RefreshIsOpen'
  <2>1. NoOp.kind # "Refresh"
    BY DEF NoOp
  <2> QED BY <1>2, <1>3, <2>1 DEF RefreshIsOpen
<1> QED BY <1>1, <1>3, <1>4, WorkKeepsSession DEF SinkInv

LEMMA AbortKeeps ==
    ASSUME SinkInv, Abort
    PROVE  SinkInv' /\ StepDown(sink, sink')
<1> DEFINE p == CancelPending(sink)
           f == Fresher(p)
           n == NoRefresh(f)
           q == Flushed(n)
           x == [q EXCEPT !.ramp = FALSE, !.age["step"] = "none"]
<1>1. BeginTurn /\ NoTransmit(x) /\ op' = NoOp /\ done' = "Superseded" /\ capsRead' = capsRead
  BY DEF Abort
<1>2. IsSink(p) /\ p.pending = None /\ p.active = sink.active /\ p.low = sink.low
  BY CancelPendingKeeps DEF SinkInv
<1> HIDE DEF p
<1>3. IsSink(f) /\ f.pending = None /\ f.active = sink.active /\ f.low = sink.low
  BY <1>2, FresherIsAlike DEF Alike, SamePolicy
<1> HIDE DEF f
<1>4. IsSink(n) /\ n.pending = None /\ n.active = sink.active /\ n.low = sink.low
  BY <1>3, NoRefreshKeeps DEF SamePolicy
<1> HIDE DEF n
<1>5. IsSink(q) /\ q.pending = None /\ q.active = sink.active /\ q.low = sink.low
  BY <1>4, FlushedIsAlike DEF Alike, SamePolicy
<1> HIDE DEF q
<1>6. IsSink(x) /\ x.pending = None /\ x.active = sink.active /\ x.low = sink.low
  BY <1>5 DEF IsSink, Fields
<1> HIDE DEF x
<1>7. VoidKept /\ Move(sink, sink')
  BY <1>1, <1>6, NoTransmitMoves DEF Move, StepDown
<1>8. RefreshIsOpen'
  BY <1>1 DEF RefreshIsOpen, NoOp
<1> QED BY <1>1, <1>7, <1>8, WorkKeepsSession DEF SinkInv

LEMMA ContinueKeeps ==
    ASSUME SinkInv, Continue
    PROVE  SinkInv' /\ StepDown(sink, sink')
<1>1. IsSink(sink) /\ op.want \in Nat /\ BeginTurn /\ capsRead' = capsRead
  BY OpTypes DEF SinkInv, Continue
<1>2. Worked(op) /\ (op.kind = "Refresh" => sink' = sink)
  <2>1. CASE AdvanceIdle
    BY <1>1, <2>1, AdvanceIdleMoves DEF AdvanceIdle
  <2>2. CASE RetryContract
    BY <1>1, <2>2, RetryContractMoves DEF RetryContract
  <2>3. CASE op.kind \in {"None", "Refresh"} /\ Stays(sink, op)
    BY <1>1, <2>3, StaysMoves, SmallMoves DEF Worked, Alike, SamePolicy
  <2> QED BY <2>1, <2>2, <2>3 DEF Continue
<1>3. op' \in {op, NoOp} /\ done' \in {"None", "Rejected"} /\ VoidKept /\ Move(sink, sink')
  BY <1>2 DEF Worked, WorkDone
<1>4. RefreshIsOpen'
  <2>1. NoOp.kind # "Refresh"
    BY DEF NoOp
  <2> QED BY <1>1, <1>2, <1>3, <2>1 DEF RefreshIsOpen, SinkInv
<1> QED BY <1>1, <1>3, <1>4, WorkKeepsSession DEF SinkInv

-----------------------------------------------------------------------------
(* Received events.                                                          *)

\* An event that brings no new contract and no capabilities, and is read in a session
\* that goes on or is over already.
LEMMA EventKeeps ==
    ASSUME SinkInv, step = "poll", UNCHANGED <<turnVars, capsRead>>, Move(sink, sink'),
           VoidKept, sink.refreshing \/ sink.caps = {} => sink'.refreshing \/ sink'.caps = {}
    PROVE  SinkInv' /\ StepDown(sink, sink')
<1>1. IsSink(sink') /\ NoStaleContract' /\ StepDown(sink, sink')
  BY DEF SinkInv, Move, NoStaleContract
<1>2. SessionIsOver'
  BY DEF SinkInv, Move, SessionIsOver, VoidKept, turnVars
<1>3. RefreshIsOpen'
  BY DEF SinkInv, RefreshIsOpen, turnVars
<1> QED BY <1>1, <1>2, <1>3 DEF SinkInv, turnVars

\* The reading of the session's end.
LEMMA EndOfSessionKeeps ==
    ASSUME SinkInv, step = "poll", step' = "late", UNCHANGED <<turnVars, capsRead>>,
           \/ Cleared(sink, sink') \/ (Alike(sink, sink') /\ sink.low)
    PROVE  SinkInv' /\ StepDown(sink, sink')
<1>1. /\ IsSink(sink') /\ StepDown(sink, sink') /\ sink'.active = None
      /\ sink'.low \/ sink'.phase \notin Negotiating
  BY DEF SinkInv, Cleared, Alike, SamePolicy, NoStaleContract, StepDown, Negotiating
<1>2. NoStaleContract' /\ SessionIsOver'
  BY <1>1 DEF NoStaleContract, SessionIsOver
<1>3. RefreshIsOpen'
  BY DEF SinkInv, RefreshIsOpen, turnVars, Cleared, Alike, SamePolicy
<1> QED BY <1>1, <1>2, <1>3 DEF SinkInv, turnVars

LEMMA EntryIsAlike ==
    ASSUME SinkInv
    PROVE  Alike(sink, Entry) /\ \A seen : Alike(sink, Event(seen))
<1>1. Alike(sink, Entry)
  BY DEF SinkInv, Entry, Alike, SamePolicy, IsSink, Fields
<1> QED BY <1>1 DEF Event, Alike, SamePolicy, IsSink, Fields

\* Only the interlock may be gone.
Eased(s, t) == IsSink(t) /\ SamePolicy(s, t) /\ t.refreshing = s.refreshing /\ (t.low => s.low)

LEMMA EasedMoves ==
    ASSUME NEW s, NEW t, Eased(s, t)
    PROVE  Move(s, t) /\ (s.refreshing \/ s.caps = {} => t.refreshing \/ t.caps = {})
BY DEF Eased, SamePolicy, Move, StepDown

LEMMA GateKeeps ==
    ASSUME SinkInv, PollSkips \/ PollAttaches \/ PollRestores
    PROVE  SinkInv' /\ StepDown(sink, sink')
<1>1. step = "poll" /\ UNCHANGED <<turnVars, capsRead>>
  BY DEF PollSkips, PollAttaches, PollRestores, PollEnds, Polling
<1>2. Alike(sink, Entry) /\ IsSink(sink)
  BY EntryIsAlike DEF SinkInv
<1>3. VoidKept /\ Eased(sink, sink')
  <2>1. \E s : NoTransmit(s) /\ Eased(sink, s)
    <3>1. Eased(sink, [sink EXCEPT !.vbusSeen = FALSE])
      BY <1>2 DEF Eased, SamePolicy, IsSink, Fields
    <3>2. Eased(sink, Entry)
      BY <1>2 DEF Eased, Alike
    <3>3. /\ Eased(sink, [Entry EXCEPT !.attached = TRUE, !.age["query"] = "new"])
          /\ \A v : Eased(sink, [Entry EXCEPT !.age["restore"] = v])
      <4> HIDE DEF Entry
      <4> QED BY <1>2 DEF Eased, Alike, SamePolicy, IsSink, Fields
    <3>4. Eased(sink, ClearLow([Entry EXCEPT !.awaiting = FALSE, !.age["restore"] = "none"]))
      <4> DEFINE e == [Entry EXCEPT !.awaiting = FALSE, !.age["restore"] = "none"]
      <4>1. Alike(sink, e)
        BY <1>2 DEF Alike, SamePolicy, IsSink, Fields
      <4> HIDE DEF e
      <4>2. Eased(sink, ClearLow(e))
        BY <4>1, ClearLowKeeps DEF Alike, SamePolicy, Eased
      <4> QED BY <4>2 DEF e
    <3>5. CASE PollSkips
      BY <3>1, <3>2, <3>5 DEF PollSkips
    <3>6. CASE PollAttaches
      BY <3>3, <3>6 DEF PollAttaches
    <3>7. CASE PollRestores
      BY <3>3, <3>4, <3>7 DEF PollRestores
    <3> QED BY <3>5, <3>6, <3>7
  <2> QED BY <2>1, NoTransmitMoves
<1> QED BY <1>1, <1>3, EasedMoves, EventKeeps

LEMMA VbusLowKeeps ==
    ASSUME SinkInv, VbusLow
    PROVE  SinkInv' /\ StepDown(sink, sink')
<1> DEFINE e == Event(FALSE)
           c == ClearAuthorization(e)
           s == IF e.low THEN e ELSE [c EXCEPT !.low = TRUE, !.age["low"] = "new"]
<1>1. /\ step = "poll" /\ step' = "late" /\ UNCHANGED <<turnVars, capsRead>>
      /\ sink' = IF s.age["low"] = "old"
                 THEN [s EXCEPT !.awaiting = TRUE, !.age["restore"] = "none"] ELSE s
  BY DEF VbusLow, PollEnds, Polling
<1>2. Alike(sink, e) /\ IsSink(e)
  BY EntryIsAlike DEF Alike
<1> HIDE DEF e
<1>3. Cleared(e, c)
  BY <1>2, ClearAuthorizationClears
<1> HIDE DEF c
<1>4. Cleared(sink, s) \/ (Alike(sink, s) /\ sink.low)
  <2>1. Cleared(e, [c EXCEPT !.low = TRUE, !.age["low"] = "new"])
    BY <1>3 DEF Cleared, IsSink, Fields
  <2> QED BY <1>2, <2>1 DEF Cleared, Alike, SamePolicy
<1> HIDE DEF s
<1>5. Cleared(sink, sink') \/ (Alike(sink, sink') /\ sink.low)
  BY <1>1, <1>4 DEF Cleared, Alike, SamePolicy, IsSink, Fields
<1> QED BY <1>1, <1>5, EndOfSessionKeeps

LEMMA ReadsResetKeeps ==
    ASSUME SinkInv, ReadsReset
    PROVE  SinkInv' /\ StepDown(sink, sink')
<1>1. /\ step = "poll" /\ step' = "late" /\ UNCHANGED <<turnVars, capsRead>>
      /\ sink' = ReceivedReset(Event(TRUE))
  BY DEF ReadsReset, PollEnds, Polling
<1>2. Alike(sink, Event(TRUE)) /\ IsSink(Event(TRUE))
  BY EntryIsAlike DEF Alike
<1>3. Cleared(Event(TRUE), sink')
  BY <1>1, <1>2, ReceivedResetClears
<1>4. Cleared(sink, sink')
  BY <1>2, <1>3 DEF Cleared, Alike, SamePolicy
<1> QED BY <1>1, <1>4, EndOfSessionKeeps

\* A sink that is alike may lose its contract to a transport fault.
LEMMA FaultMoves ==
    ASSUME NEW s, NEW e, IsSink(s), Eased(s, e), NEW b
    PROVE  LET t == TransportFault(e, b)
           IN  Move(s, t) /\ (s.refreshing \/ s.caps = {} => t.refreshing \/ t.caps = {})
<1> DEFINE t == TransportFault(e, b)
<1>1. Cleared(e, t) /\ t.low = FALSE
  BY TransportFaultClears DEF Eased
<1> HIDE DEF t
<1>2. Move(s, t) /\ (s.refreshing \/ s.caps = {} => t.refreshing \/ t.caps = {})
  BY <1>1 DEF Cleared, Eased, SamePolicy, Move, StepDown
<1> QED BY <1>2 DEF t

LEMMA ReadsFaultKeeps ==
    ASSUME SinkInv, ReadsFault
    PROVE  SinkInv' /\ StepDown(sink, sink')
<1>1. step = "poll" /\ UNCHANGED <<turnVars, capsRead>>
  BY DEF ReadsFault, PollEnds, Polling
<1>2. VoidKept /\ \E e, b : Eased(sink, e) /\ sink' = TransportFault(e, b)
  <2>1. Eased(sink, Entry) /\ Eased(sink, Event(TRUE))
    BY EntryIsAlike DEF Alike, Eased
  <2>2. VoidKept
    BY NoTransmitMoves DEF ReadsFault, VoidKept
  <2>3. sink' = TransportFault(Event(TRUE), TRUE) \/ sink' = TransportFault(Entry, FALSE)
    BY NoTransmitMoves DEF ReadsFault
  <2> QED BY <2>1, <2>2, <2>3
<1>3. IsSink(sink)
  BY DEF SinkInv
<1> QED BY <1>1, <1>2, <1>3, FaultMoves, EventKeeps

LEMMA ProtectionKeeps ==
    ASSUME SinkInv, Protection
    PROVE  SinkInv' /\ StepDown(sink, sink')
<1> DEFINE e == Event(TRUE)
           c == ClearLow(e)
<1>1. /\ step = "poll" /\ UNCHANGED <<turnVars, capsRead, void>>
      /\ sink' = [c EXCEPT !.phase = "Fault", !.active = None, !.pending = None, !.gap = NoId]
  BY DEF Protection, PollEnds, Polling
<1>2. Alike(sink, e) /\ IsSink(e)
  BY EntryIsAlike DEF Alike
<1> HIDE DEF e
<1>3. Eased(sink, c)
  BY <1>2, ClearLowKeeps DEF Alike, SamePolicy, Eased
<1> HIDE DEF c
<1>4. /\ IsSink(sink') /\ sink'.active = None /\ sink'.pending = None /\ (sink'.low => sink.low)
      /\ sink'.refreshing = sink.refreshing /\ sink'.caps = sink.caps
  BY <1>1, <1>3 DEF Eased, SamePolicy, IsSink, Fields, None
<1>5. Move(sink, sink')
  BY <1>4 DEF Move, StepDown
<1> QED BY <1>1, <1>4, <1>5, EventKeeps DEF VoidKept

LEMMA EmptyKeeps ==
    ASSUME SinkInv, Empty
    PROVE  SinkInv' /\ StepDown(sink, sink')
<1> DEFINE e == Event(TRUE)
           f == Flushed(e)
           s == ClearLow(f)
           q == [s EXCEPT !.deaf = FALSE, !.age["query"] = "new"]
           r == [s EXCEPT !.age = [@ EXCEPT !["req"] = "new", !["keep"] = "new"]]
<1>1. /\ step = "poll" /\ UNCHANGED <<turnVars, capsRead>>
      /\ \/ \E ok \in BOOLEAN : Transmit("caps", None, q, TransportFault(s, FALSE), ok)
         \/ \E ok \in BOOLEAN : Transmit("request", s.active, r, TransportFault(s, FALSE), ok)
         \/ NoTransmit(s)
  BY DEF Empty, PollEnds, Polling
<1>2. Alike(sink, e) /\ IsSink(e)
  BY EntryIsAlike DEF Alike
<1> HIDE DEF e
<1>3. Alike(sink, f) /\ IsSink(f)
  BY <1>2, FlushedIsAlike DEF Alike, SamePolicy
<1> HIDE DEF f
<1>4. Eased(sink, s)
  BY <1>3, ClearLowKeeps DEF Alike, SamePolicy, Eased
<1> HIDE DEF s
<1>5. Eased(sink, q) /\ Eased(sink, r)
  BY <1>4 DEF Eased, SamePolicy, IsSink, Fields
<1> HIDE DEF q, r
<1>6. VoidKept /\ sink' \in {s, q, r, TransportFault(s, FALSE)}
  BY <1>1, NoTransmitMoves, TransmitMoves
<1>7. IsSink(sink)
  BY DEF SinkInv
<1>8. Move(sink, sink') /\ (sink.refreshing \/ sink.caps = {} => sink'.refreshing \/ sink'.caps = {})
  <2>1. CASE sink' \in {s, q, r}
    BY <1>4, <1>5, <2>1, EasedMoves
  <2>2. CASE sink' = TransportFault(s, FALSE)
    BY <1>4, <1>7, <2>2, FaultMoves
  <2> QED BY <1>6, <2>1, <2>2
<1> QED BY <1>1, <1>6, <1>8, EventKeeps

\* on_source_capabilities and refresh_source_capabilities: the contract stays or is
\* lost, and an idle sink asks for the next step down.
LEMMA TakeCapabilitiesMoves ==
    ASSUME NEW s, IsSink(s), NEW offer
    PROVE  Move(s, TakeCapabilities(s, offer))
<1> DEFINE t == [s EXCEPT !.caps = offer, !.gap = 0]
           n == [t EXCEPT !.pending = None]
           l == [t EXCEPT !.active = None, !.pending = None, !.phase = "WaitingForSourceCapabilities"]
<1>1. TakeCapabilities(s, offer) \in {n, BeginRequest(l), BeginRequest(t)}
  BY DEF TakeCapabilities
<1>2. IsSink(t) /\ t.active = s.active /\ t.pending = s.pending /\ t.low = s.low
  BY DEF IsSink, Fields
<1> HIDE DEF t
<1>3. IsSink(n) /\ n.active = s.active /\ n.pending = None /\ n.low = s.low
  BY <1>2 DEF IsSink, Fields, None
<1>4. IsSink(l) /\ l.active = None /\ l.pending = None /\ l.low = s.low
  BY <1>2 DEF IsSink, Fields, None
<1> HIDE DEF n, l
<1>5. ASSUME NEW y, IsSink(y), y.active \in {s.active, None}, y.pending \in {s.pending, None},
             y.low = s.low
      PROVE  Move(s, BeginRequest(y))
  <2> DEFINE x == BeginRequest(y)
  <2>1. /\ IsSink(x) /\ x.active = y.active /\ x.low = y.low
        /\ x.pending = y.pending \/ StepDown(y, x)
    BY <1>5, BeginRequestKeeps
  <2> HIDE DEF x
  <2>2. Move(s, x)
    BY <1>5, <2>1 DEF Move, StepDown
  <2> QED BY <2>2 DEF x
<1>6. Move(s, n)
  BY <1>3 DEF Move, StepDown
<1>7. Move(s, BeginRequest(l)) /\ Move(s, BeginRequest(t))
  BY <1>2, <1>4, <1>5
<1> QED BY <1>1, <1>6, <1>7

\* What a received message leaves of the session.
LEMMA SessionKeeps ==
    ASSUME SinkInv, step = "poll", UNCHANGED turnVars, Move(sink, sink'), VoidKept
    PROVE  /\ IsSink(sink') /\ NoStaleContract' /\ SessionIsOver' /\ StepDown(sink, sink')
           /\ op' \in Ops \cup {NoOp} /\ done' \in {"None", "Rejected", "Superseded"}
<1>1. IsSink(sink') /\ NoStaleContract' /\ StepDown(sink, sink')
  BY DEF SinkInv, Move, NoStaleContract
<1>2. SessionIsOver'
  BY DEF SinkInv, Move, SessionIsOver, VoidKept, turnVars
<1> QED BY <1>1, <1>2 DEF SinkInv, turnVars

LEMMA ReadsCapabilitiesKeeps ==
    ASSUME SinkInv, ReadsCapabilities
    PROVE  SinkInv' /\ StepDown(sink, sink')
<1> DEFINE v == Event(TRUE)
           e == ClearLow(v)
           m == Head(fifo)
           g == [e EXCEPT !.gap = GapAfter(e, m)]
           k == TakeCapabilities(e, m.offer)
           n == NoRefresh(k)
           s == [n EXCEPT !.deaf = FALSE]
           y == [s EXCEPT !.age["query"] = "new"]
           x == [s EXCEPT !.age = [@ EXCEPT !["req"] = "new", !["query"] = "old",
                             !["step"] = IF s.ramp /\ IsPps(s.pending) THEN "new" ELSE @]]
<1>1. /\ step = "poll" /\ UNCHANGED turnVars
      /\ \/ NoTransmit(g) /\ UNCHANGED capsRead
         \/ /\ capsRead' = (op # NoOp)
            /\ \/ NoTransmit(y)
               \/ \E ok \in BOOLEAN :
                     Transmit("request", s.pending, x, TransportFault(s, FALSE), ok)
  BY DEF ReadsCapabilities, TakesMessage, Polling
<1>2. Alike(sink, v) /\ IsSink(v) /\ IsSink(sink)
  BY EntryIsAlike DEF Alike, SinkInv
<1> HIDE DEF v, m
<1>3. Eased(sink, e) /\ IsSink(e)
  BY <1>2, ClearLowKeeps DEF Alike, SamePolicy, Eased
<1> HIDE DEF e
<1>4. CASE NoTransmit(g) /\ UNCHANGED capsRead
  <2>1. Eased(sink, g)
    BY <1>3 DEF Eased, SamePolicy, IsSink, Fields
  <2>2. VoidKept /\ sink' = g
    BY <1>4, NoTransmitMoves
  <2> QED BY <1>1, <1>4, <2>1, <2>2, EasedMoves, EventKeeps
<1>5. CASE /\ capsRead' = (op # NoOp)
           /\ \/ NoTransmit(y)
              \/ \E ok \in BOOLEAN : Transmit("request", s.pending, x, TransportFault(s, FALSE), ok)
  <2>1. Move(e, k) /\ IsSink(k)
    BY <1>3, TakeCapabilitiesMoves DEF Move
  <2> HIDE DEF k
  <2>2. IsSink(n) /\ SamePolicy(k, n) /\ n.low = k.low
    BY <2>1, NoRefreshKeeps
  <2> HIDE DEF n
  <2>3. IsSink(s) /\ SamePolicy(k, s) /\ s.low = k.low
    BY <2>2 DEF SamePolicy, IsSink, Fields
  <2> HIDE DEF s
  <2>4. /\ IsSink(y) /\ SamePolicy(k, y) /\ y.low = k.low
        /\ IsSink(x) /\ SamePolicy(k, x) /\ x.low = k.low
    BY <2>3 DEF SamePolicy, IsSink, Fields
  <2> HIDE DEF x, y
  <2> DEFINE f == TransportFault(s, FALSE)
  <2>5. Cleared(s, f) /\ f.low = FALSE
    BY <2>3, TransportFaultClears
  <2> HIDE DEF f
  <2>6. Move(sink, y) /\ Move(sink, x)
    BY <1>3, <2>1, <2>4 DEF Move, SamePolicy, Eased, StepDown
  <2>7. Move(sink, f)
    BY <2>5 DEF Cleared, Move, StepDown
  <2>8. VoidKept /\ sink' \in {x, y, f}
    BY <1>5, NoTransmitMoves, TransmitMoves DEF f
  <2>9. RefreshIsOpen' /\ capsRead' \in BOOLEAN
    <3>1. op' = op
      BY <1>1 DEF turnVars
    <3>2. op.kind = "Refresh" => op # NoOp
      BY DEF NoOp
    <3> QED BY <1>5, <3>1, <3>2 DEF RefreshIsOpen
  <2> QED BY <1>1, <2>6, <2>7, <2>8, <2>9, SessionKeeps DEF SinkInv
<1> QED BY <1>1, <1>4, <1>5

\* on_control_message: only PS_RDY in its place makes a contract active.
LEMMA TakeControlMoves ==
    ASSUME NEW s, IsSink(s), NEW type
    PROVE  LET t == TakeControl(s, type)
           IN  /\ IsSink(t) /\ t.caps = s.caps /\ t.idle = s.idle
               /\ t.refreshing = s.refreshing /\ t.low = s.low
               /\ \/ t.active = s.active /\ t.pending \in {s.pending, None}
                  \/ /\ type = "PsRdy" /\ s.phase = "WaitingForPsRdy" /\ t.phase = "Ready"
                     /\ t.active = s.pending /\ t.pending = None
<1> DEFINE t == TakeControl(s, type)
           a == [s EXCEPT !.phase = "WaitingForPsRdy"]
           r == [s EXCEPT !.active = s.pending, !.pending = None, !.phase = "Ready"]
<1>1. \/ t = CancelPending(s)
      \/ t = a
      \/ type = "PsRdy" /\ s.phase = "WaitingForPsRdy" /\ t = r
      \/ t = s
  BY DEF TakeControl
<1>2. /\ IsSink(a) /\ a.caps = s.caps /\ a.idle = s.idle /\ a.refreshing = s.refreshing
      /\ a.low = s.low /\ a.active = s.active /\ a.pending = s.pending
  BY DEF IsSink, Fields
<1>3. /\ IsSink(r) /\ r.caps = s.caps /\ r.idle = s.idle /\ r.refreshing = s.refreshing
      /\ r.low = s.low /\ r.active = s.pending /\ r.pending = None /\ r.phase = "Ready"
  BY DEF IsSink, Fields, None
<1> HIDE DEF t, a, r
<1>4. /\ IsSink(t) /\ t.caps = s.caps /\ t.idle = s.idle
      /\ t.refreshing = s.refreshing /\ t.low = s.low
      /\ \/ t.active = s.active /\ t.pending \in {s.pending, None}
         \/ /\ type = "PsRdy" /\ s.phase = "WaitingForPsRdy" /\ t.phase = "Ready"
            /\ t.active = s.pending /\ t.pending = None
  BY <1>1, <1>2, <1>3, CancelPendingKeeps
<1> QED BY <1>4 DEF t

LEMMA ReadsControlKeeps ==
    ASSUME SinkInv, ReadsControl
    PROVE  SinkInv' /\ StepDown(sink, sink')
<1> DEFINE v == Event(TRUE)
           e == ClearLow(v)
           m == Head(fifo)
           g == [e EXCEPT !.gap = GapAfter(e, m)]
           z == [e EXCEPT !.gap = 0]
           t == TakeControl(z, m.type)
           confirmed == e.phase = "WaitingForPsRdy" /\ t.phase = "Ready" /\ m.type = "PsRdy"
           x == [t EXCEPT
                   !.rejected = @ \/ (e.phase \in Negotiating /\ m.type = "Reject"),
                   !.timedOut = @ /\ ~confirmed,
                   !.age = [@ EXCEPT !["keep"] = IF e.phase = "Ready" THEN "none" ELSE @,
                                     !["query"] = IF confirmed THEN "new" ELSE @]]
<1>1. /\ step = "poll" /\ UNCHANGED <<turnVars, capsRead>>
      /\ \/ NoTransmit(g)
         \/ sink' = x /\ void' = IF confirmed /\ void = "read" THEN "no" ELSE void
  BY DEF ReadsControl, TakesMessage, Polling
<1>2. Alike(sink, v) /\ IsSink(v) /\ IsSink(sink)
  BY EntryIsAlike DEF Alike, SinkInv
<1> HIDE DEF v, m
<1>3. Eased(sink, e) /\ IsSink(e) /\ e.low = FALSE
  BY <1>2, ClearLowKeeps DEF Alike, SamePolicy, Eased
<1> HIDE DEF e
<1>4. Eased(sink, g) /\ Eased(sink, z) /\ z.low = FALSE /\ IsSink(z) /\ z.phase = e.phase
  BY <1>3 DEF Eased, SamePolicy, IsSink, Fields
<1> HIDE DEF g, z
<1>5. /\ IsSink(t) /\ t.caps = z.caps /\ t.idle = z.idle
      /\ t.refreshing = z.refreshing /\ t.low = z.low
      /\ \/ t.active = z.active /\ t.pending \in {z.pending, None}
         \/ /\ m.type = "PsRdy" /\ z.phase = "WaitingForPsRdy" /\ t.phase = "Ready"
            /\ t.pending = None
  BY <1>4, TakeControlMoves
<1> HIDE DEF t
<1>6. /\ IsSink(x) /\ x.caps = z.caps /\ x.idle = z.idle
      /\ x.refreshing = z.refreshing /\ x.low = FALSE
      /\ \/ x.active = z.active /\ x.pending \in {z.pending, None}
         \/ confirmed /\ x.pending = None
  <2>1. \/ t.active = z.active /\ t.pending \in {z.pending, None}
        \/ confirmed /\ t.pending = None
    BY <1>4, <1>5
  <2> HIDE DEF confirmed
  <2> QED BY <1>4, <1>5, <2>1 DEF IsSink, Fields
<1> HIDE DEF x, confirmed
<1>7. CASE NoTransmit(g)
  BY <1>1, <1>4, <1>7, NoTransmitMoves, EasedMoves, EventKeeps
<1>8. CASE sink' = x /\ void' = IF confirmed /\ void = "read" THEN "no" ELSE void
  <2>1. sink.refreshing \/ sink.caps = {} => sink'.refreshing \/ sink'.caps = {}
    BY <1>4, <1>6, <1>8 DEF Eased, SamePolicy
  <2>2. CASE x.active = z.active /\ x.pending \in {z.pending, None} /\ void' = void
    <3>1. Move(sink, sink')
      BY <1>4, <1>6, <1>8, <2>2 DEF Eased, SamePolicy, Move, StepDown
    <3> QED BY <1>1, <2>1, <2>2, <3>1, EventKeeps DEF VoidKept
  <2>3. CASE confirmed \/ void' # void
    <3>1. void' # "read"
      BY <1>8, <2>3
    <3>2. IsSink(sink') /\ sink'.low = FALSE /\ StepDown(sink, sink')
      BY <1>4, <1>6, <1>8 DEF StepDown, Eased, SamePolicy
    <3>3. NoStaleContract' /\ SessionIsOver'
      BY <3>1, <3>2 DEF NoStaleContract, SessionIsOver
    <3>4. RefreshIsOpen'
      BY <1>1, <2>1 DEF SinkInv, RefreshIsOpen, turnVars
    <3> QED BY <1>1, <3>2, <3>3, <3>4 DEF SinkInv, turnVars
  <2> QED BY <1>6, <2>2, <2>3
<1> QED BY <1>1, <1>7, <1>8

-----------------------------------------------------------------------------
(* The end of a turn, time and the source.                                   *)

LEMMA DeadlinesMove ==
    ASSUME IsSink(sink)
    PROVE  \/ Alike(sink, Deadlines)
           \/ Cleared(sink, Deadlines) /\ Deadlines.low \in {sink.low, FALSE}
<1> DEFINE k == IF sink.age["keep"] = "old"
                THEN [sink EXCEPT !.age = [@ EXCEPT !["keep"] = "none", !["req"] = "new"]] ELSE sink
           f == TransportFault(k, FALSE)
           c == ClearAuthorization(k)
           ft == [f EXCEPT !.timedOut = TRUE]
           ct == [c EXCEPT !.timedOut = TRUE]
<1>1. Deadlines \in {sink, ft, ct, k}
  BY DEF Deadlines, RefreshDeadline
<1>2. Alike(sink, k) /\ IsSink(k) /\ Alike(sink, sink)
  BY DEF Alike, SamePolicy, IsSink, Fields
<1> HIDE DEF k
<1>3. Cleared(k, f) /\ f.low = FALSE /\ Cleared(k, c) /\ c.low = k.low
  BY <1>2, TransportFaultClears, ClearAuthorizationClears
<1> HIDE DEF f, c
<1>4. Cleared(k, ft) /\ ft.low = FALSE /\ Cleared(k, ct) /\ ct.low = k.low
  BY <1>3 DEF Cleared, IsSink, Fields
<1> HIDE DEF ft, ct
<1>5. /\ Cleared(sink, ft) /\ ft.low = FALSE
      /\ Cleared(sink, ct) /\ ct.low = sink.low
  BY <1>2, <1>4 DEF Cleared, Alike, SamePolicy
<1> QED BY <1>1, <1>2, <1>5

\* Nothing is published for a contract of a session that is over.
LEMMA EndTurnKeeps ==
    ASSUME SinkInv, EndTurn
    PROVE  SinkInv' /\ StepDown(sink, sink')
<1> DEFINE d == Deadlines
<1>1. /\ step' = "rest" /\ sink' = d /\ done' = "None" /\ void' = void
      /\ permit' = (Observed(d) \/ Continuous(d, op) \/ Preserved(d, Observed(d)))
      /\ \/ op' = op /\ capsRead' = capsRead
         \/ op' = NoOp /\ capsRead' \in BOOLEAN
  <2>1. /\ op' = IF Settled = "None" THEN op ELSE NoOp
        /\ capsRead' = (capsRead /\ Settled = "None") /\ capsRead \in BOOLEAN
    BY DEF EndTurn, SinkInv
  <2>2. CASE Settled = "None"
    BY <2>1, <2>2 DEF EndTurn, Publish
  <2>3. CASE Settled # "None"
    BY <2>1, <2>3 DEF EndTurn, Publish
  <2> QED BY <2>2, <2>3
<1>2. IsSink(sink) /\ (Alike(sink, d) \/ (Cleared(sink, d) /\ d.low \in {sink.low, FALSE}))
  BY DeadlinesMove DEF SinkInv
<1> HIDE DEF d
<1>3. Move(sink, d)
  BY <1>2, SmallMoves
<1>4. NoStaleContract' /\ StepDown(sink, sink') /\ IsSink(sink')
  BY <1>1, <1>3 DEF Move, NoStaleContract, SinkInv
<1>5. SessionIsOver'
  <2> SUFFICES ASSUME void = "read" PROVE d.active = None /\ ~permit'
    BY <1>1 DEF SessionIsOver
  <2>1. d.active = None
    BY <1>3 DEF Move, SinkInv, SessionIsOver
  <2>2. ~Observed(d)
    BY <2>1 DEF Observed
  <2>3. ~Continuous(d, op)
    BY <2>1 DEF Continuous, IsPps, None, Fixed
  <2>4. ~Preserved(d, Observed(d))
    BY <1>2 DEF Preserved, Healthy, SinkInv, SessionIsOver, Alike, SamePolicy, Cleared, Negotiating
  <2> QED BY <1>1, <2>1, <2>2, <2>3, <2>4
<1>6. RefreshIsOpen'
  <2>1. NoOp.kind # "Refresh"
    BY DEF NoOp
  <2>2. sink.refreshing \/ sink.caps = {} => d.refreshing \/ d.caps = {}
    BY <1>2 DEF Alike, SamePolicy, Cleared
  <2> QED BY <1>1, <2>1, <2>2 DEF RefreshIsOpen, SinkInv
<1> QED BY <1>1, <1>4, <1>5, <1>6 DEF SinkInv

LEMMA BusyTurnKeeps ==
    ASSUME SinkInv, BusyTurn
    PROVE  SinkInv' /\ StepDown(sink, sink')
<1>1. /\ step = "rest" /\ UNCHANGED <<sink, step, op, done, void, capsRead>>
      /\ permit' = (FALSE \/ Continuous(sink, op) \/ Preserved(sink, FALSE))
  BY DEF BusyTurn, Publish
<1>2. SessionIsOver'
  <2> SUFFICES ASSUME void = "read" PROVE sink.active = None /\ ~permit'
    BY <1>1 DEF SessionIsOver
  <2>1. sink.active = None /\ ~permit
    BY <1>1 DEF SinkInv, SessionIsOver
  <2>2. ~Continuous(sink, op) /\ ~Preserved(sink, FALSE)
    BY <2>1 DEF Continuous, Preserved, IsPps, None, Fixed
  <2> QED BY <1>1, <2>1, <2>2
<1>3. NoStaleContract' /\ RefreshIsOpen'
  BY <1>1 DEF SinkInv, NoStaleContract, RefreshIsOpen
<1> QED BY <1>1, <1>2, <1>3 DEF SinkInv, StepDown

\* Steps that leave the policy and the turn alone.
LEMMA OutsideKeeps ==
    ASSUME SinkInv, UNCHANGED <<step, turnVars, capsRead>>, VoidKept, Alike(sink, sink')
    PROVE  SinkInv' /\ StepDown(sink, sink')
<1>1. NoStaleContract' /\ SessionIsOver' /\ RefreshIsOpen'
  BY DEF SinkInv, NoStaleContract, SessionIsOver, RefreshIsOpen, Alike, SamePolicy, VoidKept, turnVars
<1> QED BY <1>1 DEF SinkInv, turnVars, Alike, SamePolicy, StepDown

LEMMA ElapseKeeps ==
    ASSUME SinkInv, NEW due, Elapse(due)
    PROVE  SinkInv' /\ StepDown(sink, sink')
<1>1. Alike(sink, sink')
  BY DEF Elapse, SinkInv, Alike, SamePolicy, IsSink, Fields
<1> QED BY <1>1, OutsideKeeps DEF Elapse, VoidKept

LEMMA SourceKeeps ==
    ASSUME SinkInv, Answer \/ Disturb \/ VbusBack \/ UNCHANGED vars
    PROVE  SinkInv' /\ StepDown(sink, sink')
<1>1. UNCHANGED <<sink, step, turnVars, capsRead>> /\ VoidKept
  BY DEF Answer, Disturb, VbusBack, SourceStep, VoidKept, vars
<1>2. Alike(sink, sink')
  BY <1>1 DEF SinkInv, Alike, SamePolicy
<1> QED BY <1>1, <1>2, OutsideKeeps

LEMMA InitSink == Init => SinkInv
<1> SUFFICES ASSUME Init PROVE SinkInv
  OBVIOUS
<1>1. IsSink(sink) /\ sink.low = FALSE
  BY DEF Init, IsSink, Fields, None
<1> QED BY <1>1 DEF Init, SinkInv, NoStaleContract, SessionIsOver, RefreshIsOpen, NoOp

LEMMA StepSink ==
    ASSUME SinkInv, [Next]_vars
    PROVE  SinkInv' /\ StepDown(sink, sink')
<1>1. CASE \E o \in Ops : TakeOperation(o)
  BY <1>1, TakeOperationKeeps
<1>2. CASE Abort \/ Continue
  BY <1>2, AbortKeeps, ContinueKeeps
<1>3. CASE PollSkips \/ PollAttaches \/ PollRestores
  BY <1>3, GateKeeps
<1>4. CASE VbusLow \/ ReadsReset \/ ReadsFault \/ Protection \/ Empty
  BY <1>4, VbusLowKeeps, ReadsResetKeeps, ReadsFaultKeeps, ProtectionKeeps, EmptyKeeps
<1>5. CASE ReadsCapabilities \/ ReadsControl
  BY <1>5, ReadsCapabilitiesKeeps, ReadsControlKeeps
<1>6. CASE EndTurn \/ BusyTurn
  BY <1>6, EndTurnKeeps, BusyTurnKeeps
<1>7. CASE \E due \in {Timers} \cup {{t} : t \in Timers} : Elapse(due)
  BY <1>7, ElapseKeeps
<1>8. CASE Answer \/ Disturb \/ VbusBack \/ UNCHANGED vars
  BY <1>8, SourceKeeps
<1> QED BY <1>1, <1>2, <1>3, <1>4, <1>5, <1>6, <1>7, <1>8 DEF Next

-----------------------------------------------------------------------------
(* The results.                                                              *)

\* The invariant holds in every reachable state.
THEOREM Invariance == Spec => []SinkInv
<1>1. SinkInv /\ [Next]_vars => SinkInv'
  BY StepSink
<1> QED BY InitSink, <1>1, PTL DEF Spec

\* Once a turn has read that the source ended the session, the permit published at
\* its end is withdrawn and stays so until PS_RDY confirms a contract of the new
\* session (publish_pd_snapshot, handle_vbus_low_event, handle_received_reset).
THEOREM PermitEndsWithSession == Spec => []PermitIsOfThisSession
<1>1. SinkInv => PermitIsOfThisSession
  BY DEF SinkInv, SessionIsOver, PermitIsOfThisSession
<1> QED BY Invariance, <1>1, PTL

\* On the way to the idle contract the sink leaves a PPS contract one step at a time
\* (begin_request, request_automatic_idle_contract, advance_automatic_idle_transition).
THEOREM DescentIsStepwise == Spec => IdleDescendsInSteps
<1>1. SinkInv /\ [Next]_vars =>
         [sink'.idle /\ sink'.pending # sink.pending /\ sink'.pending # None
            => \/ sink'.active \in {None, Fixed}
               \/ sink'.pending = sink'.active - 1
               \/ sink'.active \notin sink'.caps]_vars
  BY StepSink DEF StepDown
<1> QED BY Invariance, <1>1, PTL DEF Spec, IdleDescendsInSteps

\* A refresh is reported as done only when capabilities were taken since the command
\* (pending_terminal_outcome, poll_pps_transition_capability_refresh).
THEOREM RefreshIsNotCached == Spec => RefreshIsFresh
<1>1. SinkInv => (EndTurn /\ Settled = "CapabilitiesRefreshed" => capsRead)
  <2> SUFFICES ASSUME SinkInv, Settled = "CapabilitiesRefreshed" PROVE capsRead
    OBVIOUS
  <2> DEFINE d == Deadlines
  <2>1. Outcome(d, op, Observed(d)) = "CapabilitiesRefreshed"
    BY DEF Settled, SinkInv
  <2>2. Alike(sink, d) \/ Cleared(sink, d)
    BY DeadlinesMove DEF SinkInv
  <2> HIDE DEF d
  <2>3. op.kind = "Refresh" /\ ~d.refreshing /\ d.caps # {}
    BY <2>1 DEF Outcome
  <2>4. ~sink.refreshing /\ sink.caps # {}
    BY <2>2, <2>3 DEF Alike, SamePolicy, Cleared
  <2> QED BY <2>3, <2>4 DEF SinkInv, RefreshIsOpen
<1>2. SinkInv => [EndTurn /\ Settled = "CapabilitiesRefreshed" => capsRead]_vars
  BY <1>1
<1> QED BY Invariance, <1>2, PTL DEF RefreshIsFresh
=============================================================================
