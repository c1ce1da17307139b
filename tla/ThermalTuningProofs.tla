-------------------------- MODULE ThermalTuningProofs --------------------------
(***************************************************************************)
(* Safety of a thermal tuning run for every order, scope and interval of      *)
(* targets, any points, ring and page size and number of trials: it heats     *)
(* with the profile it names, decides every target once, keeps its trace       *)
(* whole and saves only what was scouted and confirmed.                       *)
(*                                                                           *)
(* The operators of the run are functions of its record, so the argument is   *)
(* about records: lemmas say what each operator does to a run whose current   *)
(* target is being tried or has been decided, and the actions combine them.   *)
(***************************************************************************)
EXTENDS ThermalTuning, FiniteSetTheorems, WellFoundedInduction, TLAPS

RunFields == {"phase", "armed", "sealed", "terminal", "review", "scope", "index", "trial",
              "purpose", "spent", "accepted", "failed", "candidate", "batch", "proposed",
              "pending", "receipt", "saved", "held", "acked", "sent", "acks", "gap",
              "scouted", "confirmed", "dropped", "replaced"}
Ready == {"candidate_ready", "passed"}

\* The event ring: all held events lie after the last acknowledged one.
LogOK(r) ==
  /\ r.acked \in Nat /\ r.sent \in Nat /\ r.sent <= r.acked
  /\ r.held \subseteq 0 .. (r.acked - 1)

IsRun(r) ==
  /\ DOMAIN r = RunFields /\ LogOK(r)
  /\ r.scope \in Scopes /\ r.index \in DOMAIN r.scope
  /\ r.purpose \in {"scout", "predicted", "confirm"}
  /\ r.candidate \in Profiles /\ r.batch \subseteq Profiles

\* The first n targets of the scope.
First(r, n) == {r.scope[i] : i \in 1 .. n}
Pair(r, t) == <<t, r.candidate[t]>>

\* What holds of every run, whatever became of it: no target is decided both ways,
\* the point of an accepted target was scouted and confirmed, and so was each point
\* of a saved profile.
Base(r) ==
  /\ IsRun(r)
  /\ r.accepted \subseteq Targets /\ r.accepted \cap r.failed = {}
  /\ \A t \in r.accepted : Pair(r, t) \in r.scouted \cap r.confirmed
  /\ \A p \in r.saved :
       r.scope = Order /\ \A t \in Targets : <<t, p[t]>> \in r.scouted \cap r.confirmed

\* A run that is under way or has just been disarmed by a dropped event.
Steady(r) == Base(r) /\ ~r.sealed /\ r.terminal \notin Ready /\ (r.armed => ~r.dropped)

\* The current target is being tried: a profile kept for comparison differs from the
\* candidate at this target only.
Trying(r) ==
  /\ Steady(r)
  /\ r.accepted \cup r.failed = First(r, r.index - 1)
  /\ \A p \in r.batch : \A t \in Targets \ {Target(r)} : p[t] = r.candidate[t]

\* A confirmation is made of a point that was scouted.
Open(r) == Trying(r) /\ (r.purpose = "confirm" => Pair(r, Target(r)) \in r.scouted)

\* The current target is decided.
Closed(r) == Steady(r) /\ r.accepted \cup r.failed = First(r, r.index)

\* A run between two steps.
RunOK(r) ==
  /\ Base(r)
  /\ r.armed => /\ Open(r) /\ r.phase \in Heating \cup {"cooldown"}
                /\ r.phase \in Heating => ~r.pending
  /\ r.sealed => r.terminal \in Ready /\ r.acked <= 1
  /\ r.terminal \in Ready =>
       ~r.armed /\ ~r.dropped /\ r.accepted = First(r, Len(r.scope))

\* A preview that was applied is in use, unless a host has replaced it.
PreviewOK(r, p) ==
  r.armed /\ ~r.pending => r.receipt = {r.candidate} /\ (p = {r.candidate} \/ r.replaced)

TuningInv == RunOK(run) /\ PreviewOK(run, preview)

\* a's candidate and receipt are those of r, or r waits for a new preview.
Kept(a, r) ==
  /\ r.replaced = a.replaced
  /\ r.pending \/ (r.pending = a.pending /\ r.candidate = a.candidate /\ r.receipt = a.receipt)

LEMMA KeptIsTransitive ==
    ASSUME NEW a, NEW b, NEW c, Kept(a, b), Kept(b, c)
    PROVE  Kept(a, c)
BY DEF Kept

-----------------------------------------------------------------------------
(* The least element of a set of numbers.                                    *)

LEMMA MinIsLeast ==
    ASSUME NEW T \in SUBSET Nat, T # {}
    PROVE  Min(T) \in T /\ \A y \in T : Min(T) <= y
<1> DEFINE R == OpToRel(<, Nat)
<1>1. IsWellFoundedOn(R, Nat)
  BY NatLessThanWellFounded
<1>2. \A x, y \in Nat : x < y => <<x, y>> \in R
  BY DEF OpToRel
<1> HIDE DEF R
<1>3. PICK x \in T : \A y \in T : ~(<<y, x>> \in R)
  BY <1>1, WFMin, Zenon
<1>4. \A y \in T : x <= y
  <2> TAKE y \in T
  <2>1. x \in Nat /\ y \in Nat
    OBVIOUS
  <2>2. ~(y < x)
    BY <1>2, <1>3, <2>1
  <2> QED BY <2>1, <2>2
<1> QED BY <1>4 DEF Min

LEMMA MinOfTwo ==
    ASSUME NEW a \in Int, NEW b \in Int
    PROVE  Min({a, b}) = IF a <= b THEN a ELSE b
<1> DEFINE m == IF a <= b THEN a ELSE b
<1>1. m \in {a, b} /\ \A y \in {a, b} : m <= y
  OBVIOUS
<1>2. \A x \in {a, b} : (\A y \in {a, b} : x <= y) => x = m
  OBVIOUS
<1> QED BY <1>1, <1>2 DEF Min

-----------------------------------------------------------------------------
(* Scopes.                                                                   *)

LEMMA Constants ==
    /\ Scopes \subseteq Seq(Targets) /\ Order \in Scopes
    /\ \A s \in Scopes : s # <<>> /\ \A i, j \in DOMAIN s : s[i] = s[j] => i = j
    /\ Seed \in Points /\ RingSize \in Nat \ {0}
BY TuningAssumption

LEMMA ScopeTargets ==
    ASSUME NEW r, IsRun(r)
    PROVE  /\ r.scope \in Seq(Targets) /\ Len(r.scope) \in Nat
           /\ DOMAIN r.scope = 1 .. Len(r.scope)
           /\ r.index \in Nat /\ 1 <= r.index /\ r.index <= Len(r.scope)
           /\ Target(r) \in Targets
           /\ \A i \in DOMAIN r.scope : r.scope[i] \in Targets
<1>1. r.scope \in Seq(Targets) /\ r.index \in DOMAIN r.scope
  BY Constants DEF IsRun
<1>2. Len(r.scope) \in Nat /\ DOMAIN r.scope = 1 .. Len(r.scope)
      /\ \A i \in 1 .. Len(r.scope) : r.scope[i] \in Targets
  BY <1>1
<1> QED BY <1>1, <1>2 DEF Target

\* The current target comes after those before it, and completes them.
LEMMA CurrentIsNext ==
    ASSUME NEW r, IsRun(r)
    PROVE  /\ Target(r) \notin First(r, r.index - 1)
           /\ First(r, r.index) = First(r, r.index - 1) \cup {Target(r)}
           /\ \A n \in 0 .. Len(r.scope) : First(r, n) \subseteq Targets
<1>1. /\ DOMAIN r.scope = 1 .. Len(r.scope) /\ Len(r.scope) \in Nat
      /\ r.index \in Nat /\ 1 <= r.index /\ r.index <= Len(r.scope)
      /\ \A i \in DOMAIN r.scope : r.scope[i] \in Targets
  BY ScopeTargets
<1>2. \A i, j \in 1 .. Len(r.scope) : r.scope[i] = r.scope[j] => i = j
  BY <1>1, Constants DEF IsRun
<1>3. Target(r) \notin First(r, r.index - 1)
  BY <1>1, <1>2 DEF Target, First
<1>4. First(r, r.index) = First(r, r.index - 1) \cup {Target(r)}
  <2>1. 1 .. r.index = (1 .. (r.index - 1)) \cup {r.index}
    BY <1>1
  <2> QED BY <2>1 DEF First, Target
<1>5. \A n \in 0 .. Len(r.scope) : First(r, n) \subseteq Targets
  BY <1>1 DEF First
<1> QED BY <1>3, <1>4, <1>5

-----------------------------------------------------------------------------
(* Events.                                                                   *)

SameTargets(r, q) ==
  /\ q.scope = r.scope /\ q.index = r.index /\ q.accepted = r.accepted /\ q.failed = r.failed
  /\ q.scouted = r.scouted /\ q.confirmed = r.confirmed /\ q.saved = r.saved
SamePlan(r, q) ==
  /\ q.purpose = r.purpose /\ q.candidate = r.candidate /\ q.batch = r.batch
  /\ q.pending = r.pending /\ q.receipt = r.receipt /\ q.replaced = r.replaced
SameFate(r, q) ==
  q.armed = r.armed /\ q.phase = r.phase /\ q.terminal = r.terminal /\ q.dropped = r.dropped
Fallen(q) == ~q.armed /\ q.phase = "failed" /\ q.terminal = "failed"

\* Events were recorded; one that was dropped has failed the run.
Pushed(r, q) ==
  /\ IsRun(q) /\ SameTargets(r, q) /\ SamePlan(r, q) /\ q.sealed = r.sealed
  /\ SameFate(r, q) \/ Fallen(q)

LEMMA KeptEvents ==
    ASSUME NEW r, IsRun(r), NEW n \in Nat
    PROVE  LET kept == Min({n, RingSize - Cardinality(r.held)})
           IN  kept \in Int /\ kept <= n /\ (r.held = {} /\ n <= RingSize => kept = n)
<1>1. IsFiniteSet(r.held)
  <2>1. IsFiniteSet(0 .. (r.acked - 1))
    BY FS_Interval DEF IsRun, LogOK
  <2> QED BY <2>1, FS_Subset DEF IsRun, LogOK
<1>2. Cardinality(r.held) \in Nat
  BY <1>1, FS_CardinalityType
<1>3. r.held = {} => Cardinality(r.held) = 0
  BY FS_EmptySet
<1>4. RingSize - Cardinality(r.held) \in Int
  BY <1>2, Constants
<1>5. Min({n, RingSize - Cardinality(r.held)})
        = IF n <= RingSize - Cardinality(r.held) THEN n ELSE RingSize - Cardinality(r.held)
  BY <1>4, MinOfTwo
<1> HIDE DEF Min
<1> QED BY <1>2, <1>3, <1>4, <1>5, Constants

LEMMA PushRecords ==
    ASSUME NEW r, IsRun(r), NEW n \in Nat
    PROVE  /\ Pushed(r, Push(r, n))
           /\ r.held = {} /\ n <= RingSize => SameFate(r, Push(r, n))
           /\ Push(r, n).acked = r.acked + n
<1> DEFINE kept == Min({n, RingSize - Cardinality(r.held)})
           h == {l + n : l \in r.held} \cup (n - kept) .. (n - 1)
           q == [r EXCEPT !.held = h, !.acked = r.acked + n, !.sent = r.sent + n]
           d == [q EXCEPT !.gap = TRUE, !.dropped = TRUE, !.review = "incomplete",
                          !.armed = FALSE, !.phase = "failed", !.terminal = "failed"]
<1>1. Push(r, n) = IF kept = n THEN q ELSE d
  BY DEF Push
<1>2. kept \in Int /\ kept <= n /\ (r.held = {} /\ n <= RingSize => kept = n)
  BY KeptEvents
<1> HIDE DEF kept
<1>3. /\ h \subseteq 0 .. (r.acked + n - 1)
      /\ r.acked + n \in Nat /\ r.sent + n \in Nat /\ r.sent + n <= r.acked + n
  BY <1>2 DEF IsRun, LogOK
<1> HIDE DEF h
<1>4. /\ DOMAIN q = RunFields /\ q.held = h /\ q.acked = r.acked + n /\ q.sent = r.sent + n
      /\ SameTargets(r, q) /\ SamePlan(r, q) /\ SameFate(r, q) /\ q.sealed = r.sealed
  BY DEF IsRun, RunFields, SameTargets, SamePlan, SameFate
<1> HIDE DEF q
<1>5. /\ DOMAIN d = RunFields /\ d.held = h /\ d.acked = r.acked + n /\ d.sent = r.sent + n
      /\ SameTargets(r, d) /\ SamePlan(r, d) /\ Fallen(d) /\ d.sealed = r.sealed
  BY <1>4 DEF RunFields, SameTargets, SamePlan, Fallen
<1> HIDE DEF d
<1>6. IsRun(q)
  BY <1>3, <1>4 DEF IsRun, LogOK, SameTargets, SamePlan
<1>7. IsRun(d)
  BY <1>3, <1>5 DEF IsRun, LogOK, SameTargets, SamePlan
<1>8. Pushed(r, q) /\ Pushed(r, d)
  BY <1>4, <1>5, <1>6, <1>7 DEF Pushed
<1> QED BY <1>1, <1>2, <1>4, <1>5, <1>8

\* What recording events leaves true.
LEMMA PushedKeeps ==
    ASSUME NEW r, NEW q, Pushed(r, q)
    PROVE  /\ Kept(r, q) /\ Target(q) = Target(r)
           /\ Base(r) => Base(q)
           /\ Steady(r) => Steady(q)
           /\ Trying(r) => Trying(q)
           /\ Open(r) => Open(q)
           /\ Closed(r) => Closed(q)
<1>1. Kept(r, q) /\ Target(q) = Target(r)
  BY DEF Pushed, Kept, SamePlan, SameTargets, Target
<1>2. Base(r) => Base(q)
  BY DEF Pushed, SamePlan, SameTargets, Base, Pair
<1>3. Steady(r) => Steady(q)
  BY <1>2 DEF Pushed, Steady, SameFate, Fallen, Ready
<1>4. Trying(r) => Trying(q)
  BY <1>1, <1>3 DEF Pushed, Trying, SamePlan, SameTargets, First
<1>5. Open(r) => Open(q)
  BY <1>1, <1>4 DEF Pushed, Open, SamePlan, SameTargets, Pair
<1>6. Closed(r) => Closed(q)
  BY <1>3 DEF Pushed, Closed, SameTargets, First
<1> QED BY <1>1, <1>2, <1>3, <1>4, <1>5, <1>6

-----------------------------------------------------------------------------
(* Deciding a target.                                                        *)

LEMMA ReseededKeeps ==
    ASSUME NEW r, IsRun(r)
    PROVE  LET q == Reseeded(r)
           IN  /\ IsRun(q) /\ SameTargets(r, q) /\ SameFate(r, q) /\ q.sealed = r.sealed
               /\ q.purpose = r.purpose /\ q.candidate = r.candidate /\ q.batch = r.batch
               /\ q.replaced = r.replaced /\ q.pending
BY DEF Reseeded, IsRun, LogOK, RunFields, SameTargets, SameFate

LEMMA FailTargetCloses ==
    ASSUME NEW r, Trying(r)
    PROVE  Closed(FailTarget(r)) /\ Kept(r, FailTarget(r))
<1> DEFINE q == FailTarget(r)
<1>1. IsRun(r)
  BY DEF Trying, Steady, Base
<1>2. /\ IsRun(q) /\ SamePlan(r, q) /\ SameFate(r, q) /\ q.sealed = r.sealed
      /\ q.scope = r.scope /\ q.index = r.index /\ q.accepted = r.accepted
      /\ q.failed = r.failed \cup {Target(r)}
      /\ q.scouted = r.scouted /\ q.confirmed = r.confirmed /\ q.saved = r.saved
  BY <1>1 DEF FailTarget, IsRun, LogOK, RunFields, SamePlan, SameFate
<1> HIDE DEF q
<1>3. Target(r) \notin r.accepted
  BY <1>1, CurrentIsNext DEF Trying
<1>4. Base(q)
  BY <1>2, <1>3 DEF Trying, Steady, Base, Pair, SamePlan
<1>5. Steady(q)
  BY <1>2, <1>4 DEF Trying, Steady, SameFate
<1>6. q.accepted \cup q.failed = First(q, q.index)
  <2>1. r.accepted \cup r.failed = First(r, r.index - 1)
    BY DEF Trying
  <2>2. First(r, r.index) = First(r, r.index - 1) \cup {Target(r)}
    BY <1>1, CurrentIsNext
  <2>3. First(q, q.index) = First(r, r.index)
    BY <1>2 DEF First
  <2> QED BY <1>2, <2>1, <2>2, <2>3
<1>7. Closed(q) /\ Kept(r, q)
  BY <1>2, <1>5, <1>6 DEF Closed, Kept, SamePlan
<1> QED BY <1>7 DEF q

LEMMA AcceptCloses ==
    ASSUME NEW r, Open(r), r.purpose = "confirm"
    PROVE  LET q == [r EXCEPT !.accepted = @ \cup {Target(r)},
                              !.confirmed = @ \cup {<<Target(r), r.candidate[Target(r)]>>}]
           IN  Closed(q) /\ Kept(r, q)
<1> DEFINE pair == <<Target(r), r.candidate[Target(r)]>>
           q == [r EXCEPT !.accepted = @ \cup {Target(r)}, !.confirmed = @ \cup {pair}]
<1>1. IsRun(r) /\ Trying(r) /\ pair \in r.scouted
  BY DEF Open, Trying, Steady, Base, Pair
<1> HIDE DEF pair
<1>2. /\ IsRun(q) /\ SamePlan(r, q) /\ SameFate(r, q) /\ q.sealed = r.sealed
      /\ q.scope = r.scope /\ q.index = r.index /\ q.accepted = r.accepted \cup {Target(r)}
      /\ q.failed = r.failed /\ q.scouted = r.scouted
      /\ q.confirmed = r.confirmed \cup {pair} /\ q.saved = r.saved
  BY <1>1 DEF IsRun, LogOK, RunFields, SamePlan, SameFate
<1> HIDE DEF q
<1>3. Target(r) \notin r.failed /\ Target(r) \in Targets
  BY <1>1, CurrentIsNext, ScopeTargets DEF Trying
<1>4. Base(q)
  <2>1. q.accepted \subseteq Targets /\ q.accepted \cap q.failed = {}
    BY <1>1, <1>2, <1>3 DEF Trying, Steady, Base
  <2>2. \A t \in q.accepted : Pair(q, t) \in q.scouted \cap q.confirmed
    <3>1. Pair(q, Target(r)) = pair
      BY <1>2 DEF Pair, pair, SamePlan
    <3>2. \A t \in r.accepted : Pair(q, t) \in r.scouted \cap r.confirmed
      BY <1>1, <1>2 DEF Trying, Steady, Base, Pair, SamePlan
    <3> QED BY <1>1, <1>2, <3>1, <3>2
  <2>3. \A p \in q.saved :
          q.scope = Order /\ \A t \in Targets : <<t, p[t]>> \in q.scouted \cap q.confirmed
    BY <1>1, <1>2 DEF Trying, Steady, Base
  <2> QED BY <1>2, <2>1, <2>2, <2>3 DEF Base
<1>5. Steady(q)
  BY <1>1, <1>2, <1>4 DEF Trying, Steady, SameFate
<1>6. q.accepted \cup q.failed = First(q, q.index)
  <2>1. r.accepted \cup r.failed = First(r, r.index - 1)
    BY <1>1 DEF Trying
  <2>2. First(r, r.index) = First(r, r.index - 1) \cup {Target(r)}
    BY <1>1, CurrentIsNext
  <2>3. First(q, q.index) = First(r, r.index)
    BY <1>2 DEF First
  <2> QED BY <1>2, <2>1, <2>2, <2>3
<1>7. Closed(q) /\ Kept(r, q)
  BY <1>2, <1>5, <1>6 DEF Closed, Kept, SamePlan
<1> QED BY <1>7 DEF q, pair

\* The run after a decision: its next trial is cooled for, or it is over.
Decision(a, r) == RunOK(r) /\ Kept(a, r) /\ (r.armed => r.phase = "cooldown")

LEMMA SteadyIsOver ==
    ASSUME NEW r, Steady(r), ~r.armed
    PROVE  RunOK(r)
BY DEF Steady, RunOK

\* complete_target_scope after the last target.
LEMMA CompleteDecides ==
    ASSUME NEW r, Closed(r), ~r.dropped, r.index = Len(r.scope)
    PROVE  Decision(r, CompleteTargetScope(r))
<1> DEFINE f == [r EXCEPT !.armed = FALSE, !.review = "complete",
                          !.phase = "failed", !.terminal = "failed"]
           c == [r EXCEPT !.armed = FALSE, !.review = "complete", !.sealed = FALSE,
                          !.phase = "completed", !.terminal = "candidate_ready"]
<1>1. IsRun(r) /\ Base(r) /\ ~r.sealed
  BY DEF Closed, Steady, Base
<1>2. /\ IsRun(f) /\ SameTargets(r, f) /\ SamePlan(r, f) /\ ~f.armed /\ ~f.sealed
      /\ f.terminal = "failed"
  BY <1>1 DEF IsRun, LogOK, RunFields, SameTargets, SamePlan
<1>3. /\ IsRun(c) /\ SameTargets(r, c) /\ SamePlan(r, c) /\ ~c.armed /\ ~c.sealed
      /\ c.dropped = r.dropped
  BY <1>1 DEF IsRun, LogOK, RunFields, SameTargets, SamePlan
<1>4. CompleteTargetScope(r) = IF r.failed # {} THEN f ELSE c
  BY DEF CompleteTargetScope
<1> HIDE DEF f, c
<1>5. Base(f) /\ Base(c)
  BY <1>1, <1>2, <1>3 DEF Base, SameTargets, SamePlan, Pair
<1>6. Decision(r, f)
  BY <1>2, <1>5 DEF Decision, RunOK, Kept, SamePlan, Ready
<1>7. CASE r.failed = {}
  <2>1. c.accepted = First(c, Len(c.scope))
    BY <1>3, <1>7 DEF Closed, SameTargets, First
  <2>2. Decision(r, c)
    BY <1>3, <1>5, <2>1 DEF Decision, RunOK, Kept, SamePlan
  <2> QED BY <1>4, <1>7, <2>2
<1> QED BY <1>4, <1>6, <1>7

LEMMA CompleteFails ==
    ASSUME NEW r, Base(r), ~r.sealed, r.failed # {}
    PROVE  Decision(r, CompleteTargetScope(r))
<1> DEFINE f == [r EXCEPT !.armed = FALSE, !.review = "complete",
                          !.phase = "failed", !.terminal = "failed"]
<1>1. CompleteTargetScope(r) = f
  BY DEF CompleteTargetScope
<1>2. /\ IsRun(f) /\ SameTargets(r, f) /\ SamePlan(r, f) /\ ~f.armed /\ ~f.sealed
      /\ f.terminal = "failed"
  BY DEF Base, IsRun, LogOK, RunFields, SameTargets, SamePlan
<1> HIDE DEF f
<1>3. Base(f)
  BY <1>2 DEF Base, SameTargets, SamePlan, Pair
<1>4. Decision(r, f)
  BY <1>2, <1>3 DEF Decision, RunOK, Kept, SamePlan, Ready
<1> QED BY <1>1, <1>4

LEMMA NextTargetDecides ==
    ASSUME NEW r, Closed(r), r.armed
    PROVE  Decision(r, NextTarget(r))
<1> DEFINE later == {i \in DOMAIN r.scope : i > r.index}
           open == {i \in later : RequiredBounds(r, r.scope[i]) \subseteq r.accepted}
           next == IF open = {} THEN Len(r.scope) ELSE Min(open)
           pruned == {i \in later \ open : i <= next}
           q == [r EXCEPT !.index = next, !.trial = 0, !.purpose = "scout",
                          !.batch = {}, !.proposed = {}, !.spent = FALSE,
                          !.failed = @ \cup {r.scope[i] : i \in pruned}]
           p == Push(q, Cardinality(pruned))
           n == IF RequiredBounds(p, Target(p)) = {} THEN p ELSE Reseeded(p)
           x == [n EXCEPT !.phase = "cooldown"]
<1>1. NextTarget(r) = IF later = {} THEN CompleteTargetScope(r)
                      ELSE IF open = {} THEN CompleteTargetScope(p) ELSE Push(x, 1)
  BY DEF NextTarget
<1>2. /\ IsRun(r) /\ Base(r) /\ ~r.sealed /\ ~r.dropped /\ r.terminal \notin Ready
      /\ r.accepted \cup r.failed = First(r, r.index)
  BY DEF Closed, Steady, Base
<1>3. /\ DOMAIN r.scope = 1 .. Len(r.scope) /\ Len(r.scope) \in Nat
      /\ r.index \in Nat /\ 1 <= r.index /\ r.index <= Len(r.scope)
      /\ \A i \in DOMAIN r.scope : r.scope[i] \in Targets
      /\ \A i, j \in 1 .. Len(r.scope) : r.scope[i] = r.scope[j] => i = j
  BY <1>2, ScopeTargets, Constants DEF IsRun
<1>4. CASE later = {}
  <2>1. r.index = Len(r.scope)
    BY <1>3, <1>4
  <2> QED BY <1>1, <1>2, <1>4, <2>1, CompleteDecides
<1>5. CASE later # {}
  <2>1. /\ next \in DOMAIN r.scope /\ next > r.index
        /\ open # {} => next \in open /\ \A i \in open : next <= i
    <3>1. open \subseteq Nat
      BY <1>3
    <3>2. open # {} => Min(open) \in open /\ \A i \in open : Min(open) <= i
      BY <3>1, MinIsLeast
    <3>3. Len(r.scope) \in DOMAIN r.scope /\ Len(r.scope) > r.index
      BY <1>3, <1>5
    <3>4. \A i \in open : i \in DOMAIN r.scope /\ i > r.index
      OBVIOUS
    <3> HIDE DEF open
    <3> QED BY <3>2, <3>3, <3>4
  <2>2. /\ \A i \in pruned : i \in DOMAIN r.scope /\ i > r.index
        /\ open = {} => pruned = later
        /\ open # {} => pruned = {i \in 1 .. Len(r.scope) : r.index < i /\ i < next}
    <3>1. \A i \in later : i \in 1 .. Len(r.scope) /\ i > r.index
      BY <1>3
    <3>2. \A i \in 1 .. Len(r.scope) : i > r.index => i \in later
      BY <1>3
    <3>3. open \subseteq later
      OBVIOUS
    <3>4. open = {} => next = Len(r.scope)
      OBVIOUS
    <3> HIDE DEF later, open, next
    <3>5. open = {} => pruned = later
      BY <1>3, <3>1, <3>4
    <3>6. open # {} => pruned = {i \in 1 .. Len(r.scope) : r.index < i /\ i < next}
      BY <1>3, <2>1, <3>1, <3>2, <3>3
    <3> QED BY <1>3, <3>1, <3>5, <3>6
  <2>3. Cardinality(pruned) \in Nat
    <3>1. IsFiniteSet(DOMAIN r.scope)
      BY <1>3, FS_Interval
    <3>2. IsFiniteSet(pruned)
      BY <2>2, <3>1, FS_Subset
    <3> QED BY <3>2, FS_CardinalityType
  <2> HIDE DEF pruned, next, open
  <2>4. /\ IsRun(q) /\ q.scope = r.scope /\ q.index = next /\ q.accepted = r.accepted
        /\ q.failed = r.failed \cup {r.scope[i] : i \in pruned}
        /\ q.scouted = r.scouted /\ q.confirmed = r.confirmed /\ q.saved = r.saved
        /\ q.purpose = "scout" /\ q.candidate = r.candidate /\ q.batch = {}
        /\ q.pending = r.pending /\ q.receipt = r.receipt /\ q.replaced = r.replaced
        /\ SameFate(r, q) /\ q.sealed = r.sealed
    BY <1>2, <2>1 DEF IsRun, LogOK, RunFields, SameFate
  <2> HIDE DEF q
  <2>5. Steady(q) /\ Kept(r, q)
    <3>1. q.accepted \cap q.failed = {}
      <4>1. \A i \in pruned : r.scope[i] \notin First(r, r.index)
        BY <1>3, <2>2 DEF First
      <4> QED BY <1>2, <2>4, <4>1 DEF Base
    <3>2. Base(q)
      BY <1>2, <2>4, <3>1 DEF Base, Pair
    <3> QED BY <1>2, <2>4, <3>2 DEF Steady, Kept, SameFate
  <2>6. Pushed(q, p)
    BY <2>3, <2>4, PushRecords
  <2> HIDE DEF p
  <2>7. Steady(p) /\ Kept(q, p) /\ Kept(r, p) /\ IsRun(p)
    <3>1. Steady(p) /\ Kept(q, p)
      BY <2>5, <2>6, PushedKeeps
    <3> QED BY <2>5, <3>1, KeptIsTransitive DEF Steady, Base
  <2>8. CASE open = {}
    <3>1. p.failed # {}
      BY <1>5, <2>2, <2>4, <2>6, <2>8 DEF Pushed, SameTargets
    <3>2. Decision(p, CompleteTargetScope(p))
      BY <2>7, <3>1, CompleteFails DEF Steady
    <3> QED BY <1>1, <1>5, <2>7, <2>8, <3>2, KeptIsTransitive DEF Decision
  <2>9. CASE open # {}
    <3>1. Trying(q) /\ Open(q)
      <4>1. q.accepted \cup q.failed = First(q, q.index - 1)
        <5>1. {r.scope[i] : i \in pruned} \cup First(r, r.index) = First(r, next - 1)
          <6>1. 1 .. (next - 1) = (1 .. r.index) \cup pruned
            BY <1>3, <2>1, <2>2, <2>9
          <6> QED BY <6>1 DEF First
        <5>2. First(q, q.index - 1) = First(r, next - 1)
          BY <2>4 DEF First
        <5> QED BY <1>2, <2>4, <5>1, <5>2
      <4> QED BY <2>4, <2>5, <4>1 DEF Trying, Open
    <3>2. Open(p)
      BY <2>6, <3>1, PushedKeeps
    <3>3. /\ IsRun(n) /\ SameTargets(p, n) /\ SameFate(p, n) /\ n.sealed = p.sealed
          /\ n.purpose = p.purpose /\ n.candidate = p.candidate /\ n.batch = p.batch
          /\ Kept(p, n)
      BY <2>7, ReseededKeeps DEF Kept, SameTargets, SameFate
    <3> HIDE DEF n
    <3>4. /\ IsRun(x) /\ SameTargets(p, x) /\ x.armed = p.armed /\ x.terminal = p.terminal
          /\ x.dropped = p.dropped /\ x.sealed = p.sealed /\ x.phase = "cooldown"
          /\ x.purpose = p.purpose /\ x.candidate = p.candidate /\ x.batch = p.batch
          /\ Kept(p, x)
      BY <3>3 DEF Kept, SameTargets, SameFate, IsRun, LogOK, RunFields
    <3> HIDE DEF x
    <3>5. Open(x)
      <4>1. Base(x)
        BY <3>2, <3>4 DEF Open, Trying, Steady, Base, SameTargets, Pair
      <4>2. Steady(x)
        BY <3>2, <3>4, <4>1 DEF Open, Trying, Steady
      <4> QED BY <3>2, <3>4, <4>2 DEF Open, Trying, SameTargets, Pair, First, Target
    <3>6. Pushed(x, Push(x, 1))
      BY <3>4, PushRecords
    <3>7. Open(Push(x, 1)) /\ Kept(x, Push(x, 1))
      BY <3>5, <3>6, PushedKeeps
    <3>8. Kept(r, Push(x, 1))
      BY <2>7, <3>4, <3>7, KeptIsTransitive
    <3>9. Push(x, 1).armed => Push(x, 1).phase = "cooldown"
      BY <3>4, <3>6 DEF Pushed, SameFate, Fallen
    <3> DEFINE y == Push(x, 1)
    <3>10. Decision(r, y)
      <4> HIDE DEF y
      <4> USE DEF y
      <4>1. Open(y) /\ Kept(r, y) /\ (y.armed => y.phase = "cooldown")
        BY <3>7, <3>8, <3>9
      <4> HIDE DEF y
      <4>2. Base(y) /\ ~y.sealed /\ y.terminal \notin Ready
        BY <4>1 DEF Open, Trying, Steady
      <4> QED BY <4>1, <4>2 DEF Decision, RunOK, Heating
    <3> QED BY <1>1, <1>5, <2>9, <3>10
  <2> QED BY <2>8, <2>9
<1> QED BY <1>4, <1>5

LEMMA AdvanceDecides ==
    ASSUME NEW r, Closed(r)
    PROVE  Decision(r, AdvanceTarget(r))
<1>1. CASE r.armed
  BY <1>1, NextTargetDecides DEF AdvanceTarget
<1>2. CASE ~r.armed
  <2>1. RunOK(r)
    BY <1>2, SteadyIsOver DEF Closed
  <2> QED BY <1>2, <2>1 DEF AdvanceTarget, Decision, Kept
<1> QED BY <1>1, <1>2

-----------------------------------------------------------------------------
(* Trials.                                                                   *)

LEMMA TryingIsRun == ASSUME NEW r, Trying(r) PROVE IsRun(r)
BY DEF Trying, Steady, Base

LEMMA PushTrying ==
    ASSUME NEW r, Trying(r), NEW n \in Nat
    PROVE  Trying(Push(r, n)) /\ Kept(r, Push(r, n)) /\ Pushed(r, Push(r, n))
BY TryingIsRun, PushRecords, PushedKeeps

\* A target that fails, with and without an event of its own.
LEMMA FailingDecides ==
    ASSUME NEW r, Trying(r)
    PROVE  Decision(r, AdvanceTarget(FailTarget(r))) /\
           Decision(r, AdvanceTarget(Push(FailTarget(r), 1)))
<1> DEFINE f == FailTarget(r)
           g == Push(f, 1)
<1>1. Closed(f) /\ Kept(r, f)
  BY FailTargetCloses
<1> HIDE DEF f
<1>2. Closed(g) /\ Kept(f, g)
  <2>1. IsRun(f)
    BY <1>1 DEF Closed, Steady, Base
  <2> QED BY <1>1, <2>1, PushRecords, PushedKeeps
<1> HIDE DEF g
<1>3. Decision(f, AdvanceTarget(f)) /\ Decision(g, AdvanceTarget(g))
  BY <1>1, <1>2, AdvanceDecides
<1>4. Decision(r, AdvanceTarget(f)) /\ Decision(r, AdvanceTarget(g))
  BY <1>1, <1>2, <1>3, KeptIsTransitive DEF Decision
<1> QED BY <1>4 DEF f, g

\* schedule_trial: the next trial, or the end of the target.
LEMMA ScheduleDecides ==
    ASSUME NEW r, Trying(r), NEW purpose \in {"scout", "predicted", "confirm"},
           purpose = "confirm" => Pair(r, Target(r)) \in r.scouted
    PROVE  Decision(r, ScheduleTrial(r, purpose))
<1> DEFINE q == [r EXCEPT !.trial = @ + 1, !.purpose = purpose, !.phase = "cooldown"]
           p == Push(q, 1)
<1>1. ScheduleTrial(r, purpose) = p \/ ScheduleTrial(r, purpose) = AdvanceTarget(FailTarget(r))
  BY DEF ScheduleTrial
<1>2. /\ IsRun(q) /\ SameTargets(r, q) /\ q.armed = r.armed /\ q.terminal = r.terminal
      /\ q.dropped = r.dropped /\ q.sealed = r.sealed /\ q.phase = "cooldown"
      /\ q.purpose = purpose /\ q.candidate = r.candidate /\ q.batch = r.batch
      /\ Kept(r, q)
  BY TryingIsRun DEF Kept, SameTargets, IsRun, LogOK, RunFields
<1> HIDE DEF q
<1>3. Open(q)
  <2>1. Base(q)
    BY <1>2 DEF Trying, Steady, Base, SameTargets, Pair
  <2>2. Steady(q)
    BY <1>2, <2>1 DEF Trying, Steady
  <2> QED BY <1>2, <2>2 DEF Open, Trying, SameTargets, Pair, First, Target
<1>4. Pushed(q, p)
  BY <1>2, PushRecords
<1> HIDE DEF p
<1>5. Open(p) /\ Kept(r, p) /\ (p.armed => p.phase = "cooldown")
  <2>1. Open(p) /\ Kept(q, p)
    BY <1>3, <1>4, PushedKeeps
  <2>2. p.armed => p.phase = "cooldown"
    BY <1>2, <1>4 DEF Pushed, SameFate, Fallen
  <2> QED BY <1>2, <2>1, <2>2, KeptIsTransitive
<1>6. Base(p) /\ ~p.sealed /\ p.terminal \notin Ready
  BY <1>5 DEF Open, Trying, Steady
<1>7. Decision(r, p)
  BY <1>5, <1>6 DEF Decision, RunOK, Heating
<1> QED BY <1>1, <1>7, FailingDecides

\* The candidate's point for the current target, and only that, is replaced.
Revised(r, q) ==
  /\ Trying(q) /\ q.pending /\ q.replaced = r.replaced
  /\ q.scope = r.scope /\ q.index = r.index
  /\ \A t \in Targets \ {Target(r)} : q.candidate[t] = r.candidate[t]

LEMMA InstallRevises ==
    ASSUME NEW r, Trying(r), NEW p \in Profiles,
           \A t \in Targets \ {Target(r)} : p[t] = r.candidate[t]
    PROVE  Revised(r, InstallCandidate(r, p))
<1> DEFINE c == [r EXCEPT !.candidate = p]
           q == Reseeded(c)
<1>1. IsRun(r)
  BY TryingIsRun
<1>2. /\ IsRun(c) /\ SameTargets(r, c) /\ SameFate(r, c) /\ c.sealed = r.sealed
      /\ c.candidate = p /\ c.batch = r.batch /\ c.replaced = r.replaced
  BY <1>1 DEF IsRun, LogOK, RunFields, SameTargets, SameFate
<1> HIDE DEF c
<1>3. /\ IsRun(q) /\ SameTargets(c, q) /\ SameFate(c, q) /\ q.sealed = c.sealed
      /\ q.candidate = c.candidate /\ q.batch = c.batch /\ q.replaced = c.replaced /\ q.pending
  BY <1>2, ReseededKeeps
<1> HIDE DEF q
<1>4. /\ IsRun(q) /\ SameTargets(r, q) /\ SameFate(r, q) /\ q.sealed = r.sealed
      /\ q.candidate = p /\ q.batch = r.batch /\ q.replaced = r.replaced /\ q.pending
  BY <1>2, <1>3 DEF SameTargets, SameFate
<1>5. Base(q)
  <2>1. Target(r) \notin r.accepted
    BY <1>1, CurrentIsNext DEF Trying
  <2>2. \A t \in r.accepted : p[t] = r.candidate[t]
    BY <2>1 DEF Trying, Steady, Base
  <2> QED BY <1>4, <2>2 DEF Trying, Steady, Base, SameTargets, Pair
<1>6. Steady(q)
  BY <1>4, <1>5 DEF Trying, Steady, SameFate
<1>7. Trying(q)
  <2>1. Target(q) = Target(r) /\ First(q, q.index - 1) = First(r, r.index - 1)
    BY <1>4 DEF SameTargets, Target, First
  <2> QED BY <1>4, <1>6, <2>1 DEF Trying, SameTargets
<1>8. Revised(r, q)
  BY <1>4, <1>7 DEF Revised, SameTargets
<1> QED BY <1>8 DEF InstallCandidate, c, q

LEMMA RevisedIsKept ==
    ASSUME NEW r, NEW q, Revised(r, q)
    PROVE  Kept(r, q) /\ Target(q) = Target(r)
BY DEF Revised, Kept, Target

LEMMA PushRevised ==
    ASSUME NEW r, NEW q, Revised(r, q), NEW n \in Nat
    PROVE  Revised(r, Push(q, n))
<1> DEFINE p == Push(q, n)
<1>1. Trying(p) /\ Pushed(q, p)
  BY PushTrying DEF Revised
<1> HIDE DEF p
<1>2. Revised(r, p)
  BY <1>1 DEF Pushed, SamePlan, SameTargets, Revised
<1> QED BY <1>2 DEF p

LEMMA ProposalsRevise ==
    ASSUME NEW r, Trying(r), NEW q \in FreshProposals(r)
    PROVE  Revised(r, q)
<1> DEFINE t == Target(r)
           fresh == Points \ (r.proposed \cup {r.candidate[t]})
           i(v) == InstallCandidate(r, [r.candidate EXCEPT ![t] = v])
           propose(v) == [i(v) EXCEPT !.proposed = @ \cup {v, r.candidate[t]}]
<1>0. FreshProposals(r) = {Push(propose(v), n) : v \in fresh, n \in 0 .. 1}
  BY DEF FreshProposals
<1> HIDE DEF propose, fresh
<1>1. PICK v \in fresh, n \in 0 .. 1 : q = Push(propose(v), n)
  BY <1>0
<1> USE DEF propose, fresh
<1>2. r.candidate \in Profiles /\ t \in Targets
  BY TryingIsRun, ScopeTargets DEF IsRun
<1>3. /\ [r.candidate EXCEPT ![t] = v] \in Profiles
      /\ \A u \in Targets \ {t} : [r.candidate EXCEPT ![t] = v][u] = r.candidate[u]
  BY <1>2 DEF Profiles
<1>4. Revised(r, i(v))
  BY <1>3, InstallRevises
<1> HIDE DEF i
<1>5. Revised(r, propose(v))
  <2> DEFINE a == i(v)
             b == [a EXCEPT !.proposed = @ \cup {v, r.candidate[t]}]
  <2>1. Revised(r, a) /\ IsRun(a)
    BY <1>4, TryingIsRun DEF Revised
  <2> HIDE DEF a
  <2>2. /\ IsRun(b) /\ SameTargets(a, b) /\ SamePlan(a, b) /\ SameFate(a, b)
        /\ b.sealed = a.sealed
    BY <2>1 DEF IsRun, LogOK, RunFields, SameTargets, SamePlan, SameFate
  <2> HIDE DEF b
  <2>3. Pushed(a, b)
    BY <2>2 DEF Pushed
  <2>4. Trying(b)
    BY <2>1, <2>3, PushedKeeps DEF Revised
  <2>5. Revised(r, b)
    BY <2>1, <2>2, <2>4 DEF Revised, SameTargets, SamePlan
  <2> QED BY <2>5 DEF a, b
<1>6. n \in Nat
  OBVIOUS
<1> HIDE DEF propose, fresh
<1> QED BY <1>1, <1>5, <1>6, PushRevised

LEMMA ExhaustedDecides ==
    ASSUME NEW r, Trying(r), NEW q \in Exhausted(r)
    PROVE  Decision(r, q)
<1>1. Trying(Reseeded(r)) /\ Kept(r, Reseeded(r))
  <2> DEFINE s == Reseeded(r)
  <2>1. /\ IsRun(s) /\ SameTargets(r, s) /\ SameFate(r, s) /\ s.sealed = r.sealed
        /\ s.candidate = r.candidate /\ s.batch = r.batch /\ s.replaced = r.replaced /\ s.pending
    BY TryingIsRun, ReseededKeeps
  <2> HIDE DEF s
  <2>2. Base(s)
    BY <2>1 DEF Trying, Steady, Base, SameTargets, Pair
  <2>3. Steady(s)
    BY <2>1, <2>2 DEF Trying, Steady, SameFate
  <2>4. Trying(s) /\ Kept(r, s)
    BY <2>1, <2>3 DEF Trying, SameTargets, Target, First, Kept
  <2> QED BY <2>4 DEF s
<1>2. PICK s \in {r, Reseeded(r)} : q = AdvanceTarget(Push(FailTarget(s), 1))
  BY DEF Exhausted
<1>3. Trying(s) /\ Kept(r, s)
  BY <1>1, <1>2 DEF Kept
<1>4. Decision(s, q)
  BY <1>2, <1>3, FailingDecides
<1> QED BY <1>3, <1>4, KeptIsTransitive DEF Decision

LEMMA BatchDecides ==
    ASSUME NEW r, Trying(r), NEW q \in PrepareBatch(r)
    PROVE  Decision(r, q)
<1>1. CASE q \in Exhausted(r)
  BY <1>1, ExhaustedDecides
<1>2. ASSUME NEW p \in FreshProposals(r),
             q = ScheduleTrial(Push([p EXCEPT !.batch = {r.candidate}], 1), "predicted")
      PROVE  Decision(r, q)
  <2> DEFINE b == [p EXCEPT !.batch = {r.candidate}]
             s == Push(b, 1)
  <2>1. Revised(r, p) /\ Trying(p) /\ IsRun(p) /\ r.candidate \in Profiles
    BY <1>2, ProposalsRevise, TryingIsRun DEF Revised, IsRun
  <2>2. /\ IsRun(b) /\ SameTargets(p, b) /\ SameFate(p, b) /\ b.sealed = p.sealed
        /\ b.candidate = p.candidate /\ b.batch = {r.candidate} /\ Kept(p, b)
    BY <2>1 DEF IsRun, LogOK, RunFields, SameTargets, SameFate, Kept
  <2> HIDE DEF b
  <2>3. Base(b)
    BY <2>1, <2>2 DEF Trying, Steady, Base, SameTargets, Pair
  <2>4. Steady(b)
    BY <2>1, <2>2, <2>3 DEF Trying, Steady, SameFate
  <2>5. Trying(b)
    <3>1. Target(b) = Target(r) /\ First(b, b.index - 1) = First(p, p.index - 1)
      BY <2>1, <2>2 DEF SameTargets, Target, First, Revised
    <3> QED BY <2>1, <2>2, <2>4, <3>1 DEF Trying, SameTargets, Revised
  <2>6. Trying(s) /\ Kept(b, s)
    BY <2>5, PushTrying
  <2> HIDE DEF s
  <2>7. Decision(s, ScheduleTrial(s, "predicted"))
    BY <2>6, ScheduleDecides
  <2>8. Kept(r, s)
    BY <2>1, <2>2, <2>6, RevisedIsKept, KeptIsTransitive
  <2>9. q = ScheduleTrial(s, "predicted")
    BY <1>2 DEF s, b
  <2> QED BY <2>7, <2>8, <2>9, KeptIsTransitive DEF Decision
<1> QED BY <1>1, <1>2 DEF PrepareBatch

LEMMA NextRoundDecides ==
    ASSUME NEW r, Trying(r), NEW q \in NextRound(r)
    PROVE  Decision(r, q)
<1>1. CASE q \in Exhausted(r)
  BY <1>1, ExhaustedDecides
<1>2. ASSUME NEW p \in FreshProposals(r), q = ScheduleTrial(p, "scout")
      PROVE  Decision(r, q)
  <2>1. Trying(p) /\ Kept(r, p)
    BY <1>2, ProposalsRevise, RevisedIsKept DEF Revised
  <2>2. Decision(p, q)
    BY <1>2, <2>1, ScheduleDecides
  <2> QED BY <2>1, <2>2, KeptIsTransitive DEF Decision
<1> QED BY <1>1, <1>2 DEF NextRound

\* The comparison of two candidates is over.
LEMMA UnbatchedTries ==
    ASSUME NEW r, Trying(r)
    PROVE  LET d == [Push(r, 1) EXCEPT !.batch = {}]
           IN  /\ Trying(d) /\ Kept(r, d) /\ d.scouted = r.scouted
               /\ Target(d) = Target(r) /\ d.candidate = r.candidate
<1> DEFINE p == Push(r, 1)
           d == [p EXCEPT !.batch = {}]
<1>1. Trying(p) /\ Kept(r, p) /\ Pushed(r, p) /\ IsRun(p)
  BY PushTrying, TryingIsRun
<1> HIDE DEF p
<1>2. /\ IsRun(d) /\ SameTargets(p, d) /\ SameFate(p, d) /\ d.sealed = p.sealed
      /\ d.candidate = p.candidate /\ d.batch = {} /\ Kept(p, d)
  BY <1>1 DEF IsRun, LogOK, RunFields, SameTargets, SameFate, Kept
<1> HIDE DEF d
<1>3. Base(d)
  BY <1>1, <1>2 DEF Trying, Steady, Base, SameTargets, Pair
<1>4. Steady(d)
  BY <1>1, <1>2, <1>3 DEF Trying, Steady, SameFate
<1>5. Trying(d)
  <2>1. First(d, d.index - 1) = First(p, p.index - 1)
    BY <1>2 DEF SameTargets, First
  <2> QED BY <1>1, <1>2, <1>4, <2>1 DEF Trying, SameTargets
<1>6. /\ d.scouted = r.scouted /\ Target(d) = Target(r) /\ d.candidate = r.candidate
      /\ Kept(r, d)
  BY <1>1, <1>2, KeptIsTransitive DEF Pushed, SameTargets, SamePlan, Target
<1> QED BY <1>5, <1>6 DEF d, p

\* finish_candidate_batch
LEMMA FinishBatchDecides ==
    ASSUME NEW r, Trying(r), NEW passes \in BOOLEAN,
           passes => Pair(r, Target(r)) \in r.scouted, NEW q \in FinishBatch(r, passes)
    PROVE  Decision(r, q)
<1> DEFINE decided(s) == [Push(s, 1) EXCEPT !.batch = {}]
<1>1. ASSUME NEW s, Trying(s)
      PROVE  /\ Trying(decided(s)) /\ Kept(s, decided(s)) /\ decided(s).scouted = s.scouted
             /\ Target(decided(s)) = Target(s) /\ decided(s).candidate = s.candidate
  BY <1>1, UnbatchedTries
<1>2. FinishBatch(r, passes) =
        IF passes THEN {ScheduleTrial(decided(r), "confirm")}
        ELSE UNION {NextRound(decided(s)) :
                      s \in {r} \cup {InstallCandidate(r, p) : p \in r.batch}}
  BY DEF FinishBatch
<1> HIDE DEF decided
<1>3. CASE passes
  <2>1. Trying(decided(r)) /\ Kept(r, decided(r))
        /\ Pair(decided(r), Target(decided(r))) \in decided(r).scouted
    BY <1>1, <1>3 DEF Pair
  <2>2. Decision(decided(r), ScheduleTrial(decided(r), "confirm"))
    BY <2>1, ScheduleDecides
  <2>3. q = ScheduleTrial(decided(r), "confirm")
    BY <1>2, <1>3
  <2> QED BY <2>1, <2>2, <2>3, KeptIsTransitive DEF Decision
<1>4. CASE ~passes
  <2>1. PICK s \in {r} \cup {InstallCandidate(r, p) : p \in r.batch} : q \in NextRound(decided(s))
    BY <1>2, <1>4
  <2>2. Trying(s) /\ Kept(r, s)
    <3>1. CASE s = r
      BY <3>1 DEF Kept
    <3>2. ASSUME NEW p \in r.batch, s = InstallCandidate(r, p)
          PROVE  Trying(s) /\ Kept(r, s)
      <4>1. p \in Profiles /\ \A t \in Targets \ {Target(r)} : p[t] = r.candidate[t]
        BY TryingIsRun DEF Trying, IsRun
      <4>2. Revised(r, s)
        BY <3>2, <4>1, InstallRevises
      <4> QED BY <4>2, RevisedIsKept DEF Revised
    <3> QED BY <2>1, <3>1, <3>2
  <2>3. Trying(decided(s)) /\ Kept(r, decided(s))
    BY <1>1, <2>2, KeptIsTransitive
  <2>4. Decision(decided(s), q)
    BY <2>1, <2>3, NextRoundDecides
  <2> QED BY <2>3, <2>4, KeptIsTransitive DEF Decision
<1> QED BY <1>3, <1>4

LEMMA ScoutedTries ==
    ASSUME NEW r, Trying(r)
    PROVE  LET s == Scouted(r)
           IN  Trying(s) /\ Kept(r, s) /\ Pair(s, Target(s)) \in s.scouted
<1> DEFINE s == Scouted(r)
<1>1. /\ IsRun(s) /\ SamePlan(r, s) /\ SameFate(r, s) /\ s.sealed = r.sealed
      /\ s.scope = r.scope /\ s.index = r.index /\ s.accepted = r.accepted
      /\ s.failed = r.failed /\ s.confirmed = r.confirmed /\ s.saved = r.saved
      /\ s.scouted = r.scouted \cup {Pair(r, Target(r))}
  BY TryingIsRun DEF Scouted, IsRun, LogOK, RunFields, SamePlan, SameFate, Pair
<1> HIDE DEF s
<1>2. Base(s)
  BY <1>1 DEF Trying, Steady, Base, SamePlan, Pair
<1>3. Steady(s)
  BY <1>1, <1>2 DEF Trying, Steady, SameFate
<1>4. Trying(s)
  BY <1>1, <1>3 DEF Trying, SamePlan, First, Target
<1>5. Kept(r, s) /\ Pair(s, Target(s)) \in s.scouted
  BY <1>1 DEF Kept, SamePlan, Pair, Target
<1> QED BY <1>4, <1>5 DEF s

\* advance_after_trial, for each verdict.
LEMMA PassedDecides ==
    ASSUME NEW r, Open(r), NEW q \in AfterPassed(r)
    PROVE  Decision(r, q)
<1> DEFINE s == Scouted(r)
<1>1. Trying(r) /\ IsRun(r) /\ r.purpose \in {"scout", "predicted", "confirm"}
  BY TryingIsRun DEF Open, IsRun
<1>2. Trying(s) /\ Kept(r, s) /\ Pair(s, Target(s)) \in s.scouted
  BY <1>1, ScoutedTries
<1>3. CASE r.purpose = "scout"
  <2>1. q = ScheduleTrial(s, "confirm")
    BY <1>3 DEF AfterPassed
  <2> HIDE DEF s
  <2>2. Decision(s, q)
    BY <1>2, <2>1, ScheduleDecides
  <2> QED BY <1>2, <2>2, KeptIsTransitive DEF Decision
<1>4. CASE r.purpose = "predicted"
  <2>1. q \in FinishBatch(s, TRUE)
    BY <1>4 DEF AfterPassed
  <2> HIDE DEF s
  <2>2. Decision(s, q)
    BY <1>2, <2>1, FinishBatchDecides
  <2> QED BY <1>2, <2>2, KeptIsTransitive DEF Decision
<1>5. CASE r.purpose = "confirm"
  <2> DEFINE a == [r EXCEPT !.accepted = @ \cup {Target(r)},
                            !.confirmed = @ \cup {<<Target(r), r.candidate[Target(r)]>>}]
  <2>1. q = AdvanceTarget(a)
    BY <1>5 DEF AfterPassed, AcceptTarget
  <2>2. Closed(a) /\ Kept(r, a)
    BY <1>5, AcceptCloses
  <2> HIDE DEF a
  <2>3. Decision(a, q)
    BY <2>1, <2>2, AdvanceDecides
  <2> QED BY <2>2, <2>3, KeptIsTransitive DEF Decision
<1> QED BY <1>1, <1>3, <1>4, <1>5

LEMMA RejectedDecides ==
    ASSUME NEW r, Open(r), NEW q \in AfterRejected(r)
    PROVE  Decision(r, q)
<1>1. Trying(r) /\ r.purpose \in {"scout", "predicted", "confirm"}
  BY TryingIsRun DEF Open, IsRun
<1>2. CASE r.purpose = "scout"
  <2>1. q \in PrepareBatch(r) \/ q = AdvanceTarget(FailTarget(r))
    BY <1>2 DEF AfterRejected
  <2> QED BY <1>1, <2>1, BatchDecides, FailingDecides
<1>3. CASE r.purpose = "predicted"
  <2>1. q \in FinishBatch(r, FALSE)
    BY <1>3 DEF AfterRejected
  <2> QED BY <1>1, <2>1, FinishBatchDecides
<1>4. CASE r.purpose = "confirm"
  <2>1. q \in NextRound(r) \/ q = AdvanceTarget(Push(FailTarget(r), 1))
    BY <1>4 DEF AfterRejected
  <2> QED BY <1>1, <2>1, NextRoundDecides, FailingDecides
<1> QED BY <1>1, <1>2, <1>3, <1>4

LEMMA WarmupTimeoutDecides ==
    ASSUME NEW r, Open(r), NEW q \in AfterWarmupTimeout(r)
    PROVE  Decision(r, q)
<1> DEFINE p == Push(r, 1)
<1>1. Trying(r) /\ IsRun(r) /\ r.purpose \in {"scout", "predicted", "confirm"}
  BY TryingIsRun DEF Open, IsRun
<1>2. q = AdvanceTarget(Push(FailTarget(r), 1)) \/ q = ScheduleTrial(p, r.purpose)
  BY DEF AfterWarmupTimeout
<1>3. Open(p) /\ Kept(r, p) /\ Pushed(r, p)
  BY <1>1, PushRecords, PushedKeeps
<1> HIDE DEF p
<1>4. Decision(p, ScheduleTrial(p, r.purpose))
  <2>1. p.purpose = r.purpose
    BY <1>3 DEF Pushed, SamePlan
  <2> QED BY <1>1, <1>3, <2>1, ScheduleDecides DEF Open
<1> QED BY <1>1, <1>2, <1>3, <1>4, FailingDecides, KeptIsTransitive DEF Decision

LEMMA TrialDecides ==
    ASSUME NEW r, Open(r), NEW phase, NEW q \in FinishTrial(r, phase)
    PROVE  Decision(r, q)
<1> DEFINE p == Push(r, 2)
<1>1. q \in AfterRejected(p) \/ q \in AfterWarmupTimeout(p) \/ q \in AfterPassed(p)
  BY DEF FinishTrial
<1>2. Open(p) /\ Kept(r, p)
  <2>1. IsRun(r)
    BY TryingIsRun DEF Open
  <2> QED BY <2>1, PushRecords, PushedKeeps
<1> HIDE DEF p
<1>3. Decision(p, q)
  BY <1>1, <1>2, PassedDecides, RejectedDecides, WarmupTimeoutDecides
<1> QED BY <1>2, <1>3, KeptIsTransitive DEF Decision

-----------------------------------------------------------------------------
(* Failures and changes of the bookkeeping.                                  *)

\* Nothing but the event log, the review and the bookkeeping has changed.
SameRun(r, q) ==
  IsRun(q) /\ SameTargets(r, q) /\ SamePlan(r, q) /\ SameFate(r, q) /\ q.sealed = r.sealed

LEMMA SameRunIsOK ==
    ASSUME NEW r, NEW q, SameRun(r, q)
    PROVE  /\ Pushed(r, q)
           /\ RunOK(r) /\ q.acked <= r.acked /\ r.acked \in Nat /\ q.acked \in Nat => RunOK(q)
           /\ \A p : PreviewOK(r, p) => PreviewOK(q, p)
<1>1. Pushed(r, q)
  BY DEF SameRun, Pushed
<1>2. ASSUME RunOK(r), q.acked <= r.acked, r.acked \in Nat, q.acked \in Nat
      PROVE  RunOK(q)
  <2>1. Base(q) /\ (Open(r) => Open(q))
    BY <1>1, <1>2, PushedKeeps DEF RunOK
  <2>2. First(q, Len(q.scope)) = First(r, Len(r.scope))
    BY DEF SameRun, SameTargets, First
  <2>3. q.armed => /\ Open(q) /\ q.phase \in Heating \cup {"cooldown"}
                   /\ q.phase \in Heating => ~q.pending
    BY <1>2, <2>1 DEF RunOK, SameRun, SameFate, SamePlan
  <2>4. q.sealed => q.terminal \in Ready /\ q.acked <= 1
    BY <1>2 DEF RunOK, SameRun, SameFate
  <2>5. q.terminal \in Ready => ~q.armed /\ ~q.dropped /\ q.accepted = First(q, Len(q.scope))
    BY <1>2, <2>2 DEF RunOK, SameRun, SameFate, SameTargets
  <2> QED BY <2>1, <2>3, <2>4, <2>5 DEF RunOK
<1>3. \A p : PreviewOK(r, p) => PreviewOK(q, p)
  BY DEF PreviewOK, SameRun, SameFate, SamePlan
<1> QED BY <1>1, <1>2, <1>3

\* A run that is over without a candidate.
Ended(q) == Base(q) /\ ~q.armed /\ ~q.sealed /\ q.terminal \notin Ready

LEMMA EndedIsOK ==
    ASSUME NEW q, Ended(q)
    PROVE  RunOK(q) /\ \A p : PreviewOK(q, p)
BY DEF Ended, RunOK, PreviewOK

LEMMA PushEnded ==
    ASSUME NEW r, Ended(r), NEW n \in Nat
    PROVE  Ended(Push(r, n)) /\ Kept(r, Push(r, n))
<1> DEFINE q == Push(r, n)
<1>1. Pushed(r, q)
  BY PushRecords DEF Ended, Base
<1> HIDE DEF q
<1>2. Ended(q) /\ Kept(r, q)
  BY <1>1, PushedKeeps DEF Ended, Pushed, SameFate, Fallen, Ready
<1> QED BY <1>2 DEF q

LEMMA FailEnds ==
    ASSUME NEW r, Base(r)
    PROVE  Ended(Fail(r)) /\ Kept(r, Fail(r))
<1> DEFINE f == [r EXCEPT !.armed = FALSE, !.sealed = FALSE, !.phase = "failed",
                          !.terminal = "failed", !.review = "complete"]
<1>1. Fail(r) = Push(f, 1)
  BY DEF Fail
<1>2. /\ IsRun(f) /\ SameTargets(r, f) /\ SamePlan(r, f) /\ ~f.armed /\ ~f.sealed
      /\ f.terminal = "failed"
  BY DEF Base, IsRun, LogOK, RunFields, SameTargets, SamePlan
<1> HIDE DEF f
<1>3. Ended(f) /\ Kept(r, f)
  BY <1>2 DEF Ended, Base, SameTargets, SamePlan, Pair, Ready, Kept
<1> QED BY <1>1, <1>3, PushEnded, KeptIsTransitive

LEMMA ReviewedIsSame ==
    ASSUME NEW r, IsRun(r)
    PROVE  /\ SameRun(r, [r EXCEPT !.review = "incomplete"])
           /\ SameRun(r, [r EXCEPT !.gap = TRUE])
           /\ SameRun(r, [r EXCEPT !.gap = TRUE, !.review = "incomplete"])
           /\ [r EXCEPT !.gap = TRUE, !.review = "incomplete"].acked = r.acked
BY DEF SameRun, IsRun, LogOK, RunFields, SameTargets, SamePlan, SameFate

LEMMA SameEnded ==
    ASSUME NEW r, NEW q, Ended(r), SameRun(r, q)
    PROVE  Ended(q)
<1>1. Base(q)
  BY SameRunIsOK, PushedKeeps DEF Ended
<1> QED BY <1>1 DEF Ended, SameRun, SameFate

LEMMA FailsEnd ==
    ASSUME NEW r, Base(r)
    PROVE  /\ Ended(FailIncomplete(r))
           /\ Ended(FailWithContext(r))
           /\ Ended([FailIncomplete(r) EXCEPT !.gap = TRUE])
<1> DEFINE e == Fail(r)
           i == [e EXCEPT !.review = "incomplete"]
           g == [i EXCEPT !.gap = TRUE]
           p == Push(r, 2)
           f == Fail(p)
           c == [f EXCEPT !.review = "incomplete"]
<1>1. FailIncomplete(r) = i /\ FailWithContext(r) = IF f.gap THEN c ELSE f
  BY DEF FailIncomplete, FailWithContext
<1>2. Ended(e) /\ Ended(f)
  <2>1. Base(p)
    BY PushRecords, PushedKeeps DEF Base
  <2> HIDE DEF p
  <2> QED BY <2>1, FailEnds
<1> HIDE DEF e, f
<1>3. Ended(i) /\ Ended(c)
  BY <1>2, ReviewedIsSame, SameEnded DEF Ended, Base
<1> HIDE DEF i
<1>4. Ended(g)
  BY <1>3, ReviewedIsSame, SameEnded DEF Ended, Base
<1> QED BY <1>1, <1>2, <1>3, <1>4

-----------------------------------------------------------------------------
(* Samples.                                                                  *)

LEMMA OpenIsOK ==
    ASSUME NEW r, Open(r), r.armed => r.phase \in Heating \cup {"cooldown"},
           r.armed /\ r.phase \in Heating => ~r.pending
    PROVE  RunOK(r)
BY DEF Open, Trying, Steady, RunOK

\* A sample or an admission: the run is in the given phase and records n events.
LEMMA PhaseRecords ==
    ASSUME NEW r, Open(r), NEW phase \in Heating \cup {"cooldown"}, NEW n \in Nat,
           phase \in Heating => ~r.pending
    PROVE  LET q == Push([r EXCEPT !.phase = phase], n)
           IN  RunOK(q) /\ Open(q) /\ Kept(r, q) /\ q.pending = r.pending /\ q.purpose = r.purpose
<1> DEFINE x == [r EXCEPT !.phase = phase]
           q == Push(x, n)
<1>1. /\ IsRun(x) /\ SameTargets(r, x) /\ SamePlan(r, x) /\ x.sealed = r.sealed
      /\ x.armed = r.armed /\ x.terminal = r.terminal /\ x.dropped = r.dropped
      /\ x.phase = phase
  BY TryingIsRun DEF Open, IsRun, LogOK, RunFields, SameTargets, SamePlan
<1> HIDE DEF x
<1>2. Open(x)
  <2>1. Base(x)
    BY <1>1 DEF Open, Trying, Steady, Base, SameTargets, SamePlan, Pair
  <2>2. Steady(x)
    BY <1>1, <2>1 DEF Open, Trying, Steady
  <2> QED BY <1>1, <2>2 DEF Open, Trying, SameTargets, SamePlan, Pair, First, Target
<1>3. Pushed(x, q)
  BY <1>1, PushRecords
<1> HIDE DEF q
<1>4. Open(q) /\ Kept(x, q)
  BY <1>2, <1>3, PushedKeeps
<1>5. q.pending = r.pending /\ q.purpose = r.purpose /\ Kept(r, q)
  BY <1>1, <1>3 DEF Pushed, SamePlan, Kept
<1>6. q.armed => q.phase = phase
  BY <1>1, <1>3 DEF Pushed, SameFate, Fallen
<1>7. RunOK(q)
  BY <1>4, <1>5, <1>6, OpenIsOK
<1> QED BY <1>4, <1>5, <1>7 DEF q, x

\* record_cooldown_sample
LEMMA CoolingKeeps ==
    ASSUME NEW r, Open(r), r.phase = "cooldown", ~r.pending, NEW s \in CoolSamples(r)
    PROVE  RunOK(s) /\ Kept(r, s)
<1> DEFINE q == Push(r, 1)
           a == Push([q EXCEPT !.phase = "warmup"], 2)
<1>1. Pushed(r, q)
  BY PushRecords, TryingIsRun DEF Open
<1>2. s = AdvanceTarget(Push(FailTarget(q), 1)) \/ s = q \/ s = a
  BY DEF CoolSamples
<1> HIDE DEF q
<1>3. RunOK(q) /\ Open(q) /\ Kept(r, q) /\ ~q.pending
  <2>1. Open(q) /\ Kept(r, q)
    BY <1>1, PushedKeeps
  <2>2. ~q.pending /\ (q.armed => q.phase = "cooldown")
    BY <1>1 DEF Pushed, SamePlan, SameFate, Fallen
  <2> QED BY <2>1, <2>2, OpenIsOK
<1>4. RunOK(a) /\ Kept(q, a)
  BY <1>3, PhaseRecords DEF Heating
<1> HIDE DEF a
<1>5. Decision(q, AdvanceTarget(Push(FailTarget(q), 1)))
  BY <1>3, FailingDecides DEF Open
<1> QED BY <1>2, <1>3, <1>4, <1>5, KeptIsTransitive DEF Decision

\* record_sample
LEMMA HeatingKeeps ==
    ASSUME NEW r, Open(r), ~r.pending, NEW phase \in Heating, NEW s \in HeatSamples(r, phase)
    PROVE  RunOK(s) /\ Kept(r, s)
<1> DEFINE n == IF r.phase = phase THEN 1 ELSE 2
           q == Push([r EXCEPT !.phase = phase], n)
<1>1. s = Fail(q) \/ s \in FinishTrial(q, phase) \/ s = q
  BY DEF HeatSamples
<1>2. RunOK(q) /\ Open(q) /\ Kept(r, q)
  <2>1. n \in Nat
    OBVIOUS
  <2> HIDE DEF n
  <2> QED BY <2>1, PhaseRecords
<1> HIDE DEF q
<1>3. CASE s = Fail(q)
  <2>1. Ended(s) /\ Kept(q, s)
    BY <1>2, <1>3, FailEnds DEF RunOK
  <2> QED BY <1>2, <2>1, EndedIsOK, KeptIsTransitive
<1>4. CASE s \in FinishTrial(q, phase)
  <2>1. Decision(q, s)
    BY <1>2, <1>4, TrialDecides
  <2> QED BY <1>2, <2>1, KeptIsTransitive DEF Decision
<1> QED BY <1>1, <1>2, <1>3, <1>4

LEMMA SamplesKeep ==
    ASSUME NEW r, Open(r), ~r.pending, NEW s \in Samples(r)
    PROVE  RunOK(s) /\ Kept(r, s)
<1>1. CASE r.phase = "cooldown"
  BY <1>1, CoolingKeeps DEF Samples
<1>2. CASE r.phase # "cooldown"
  <2>1. PICK phase \in Heating : s \in HeatSamples(r, phase)
    BY <1>2 DEF Samples
  <2> QED BY <2>1, HeatingKeeps
<1> QED BY <1>1, <1>2

-----------------------------------------------------------------------------
(* Reading and acknowledging events.                                         *)

LEMMA DeliveredIsSame ==
    ASSUME NEW r, IsRun(r)
    PROVE  SameRun(r, Delivered(r)) /\ Delivered(r).acked = r.acked
<1> DEFINE place(l) == Cardinality({k \in r.held : k >= l})
           page == {l \in r.held : place(l) <= PageSize}
           least == Min(page)
           m == Min({r.sent, least})
           q == [r EXCEPT !.sent = m]
<1>1. Delivered(r) = IF page = {} THEN r ELSE q
  BY DEF Delivered
<1>2. page \subseteq r.held /\ r.held \subseteq Nat
  BY DEF IsRun, LogOK
<1> HIDE DEF page
<1>3. SameRun(r, r)
  BY DEF SameRun, SameTargets, SamePlan, SameFate
<1>4. CASE page # {}
  <2>1. least \in Nat
    BY <1>2, <1>4, MinIsLeast
  <2> HIDE DEF least
  <2>2. m \in Nat /\ m <= r.sent
    BY <2>1, MinOfTwo DEF IsRun, LogOK
  <2> HIDE DEF m
  <2>3. SameRun(r, q) /\ q.acked = r.acked
    BY <2>2 DEF SameRun, IsRun, LogOK, RunFields, SameTargets, SamePlan, SameFate
  <2> QED BY <1>1, <1>4, <2>3
<1> QED BY <1>1, <1>3, <1>4

LEMMA SameRunIsTransitive ==
    ASSUME NEW a, NEW b, NEW c, SameRun(a, b), SameRun(b, c)
    PROVE  SameRun(a, c)
BY DEF SameRun, SameTargets, SamePlan, SameFate

LEMMA AcknowledgedIsSame ==
    ASSUME NEW r, IsRun(r)
    PROVE  SameRun(r, Acknowledged(r, r.sent)) /\ Acknowledged(r, r.sent).acked = r.sent
<1> DEFINE n == Min({2, r.acks + Cardinality({l \in r.held : l >= r.sent})})
           h == {l \in r.held : l < r.sent}
           q == [r EXCEPT !.acked = r.sent, !.acks = n, !.held = h]
<1>1. Acknowledged(r, r.sent) = Delivered(q)
  BY DEF Acknowledged
<1>2. h \subseteq 0 .. (r.sent - 1) /\ r.sent \in Nat
  BY DEF IsRun, LogOK
<1> HIDE DEF n, h
<1>3. SameRun(r, q) /\ q.acked = r.sent
  BY <1>2 DEF SameRun, IsRun, LogOK, RunFields, SameTargets, SamePlan, SameFate
<1> HIDE DEF q
<1>4. SameRun(q, Delivered(q)) /\ Delivered(q).acked = q.acked
  BY <1>3, DeliveredIsSame DEF SameRun
<1> QED BY <1>1, <1>3, <1>4, SameRunIsTransitive

\* What a read leaves true.
LEMMA DeliveredIsOK ==
    ASSUME NEW r, RunOK(r)
    PROVE  RunOK(Delivered(r)) /\ \A p : PreviewOK(r, p) => PreviewOK(Delivered(r), p)
<1>1. IsRun(r) /\ r.acked \in Nat
  BY DEF RunOK, Base, IsRun, LogOK
<1>2. SameRun(r, Delivered(r)) /\ Delivered(r).acked = r.acked
  BY <1>1, DeliveredIsSame
<1> QED BY <1>1, <1>2, SameRunIsOK

-----------------------------------------------------------------------------
(* The initial state, and that of a run that is started.                     *)

LEMMA IdleIsOK ==
    ASSUME NEW scope \in Scopes
    PROVE  LET r == [Idle EXCEPT !.scope = scope]
               x == [r EXCEPT !.phase = "cooldown", !.armed = TRUE, !.pending = TRUE]
           IN  /\ Ended(Idle) /\ Ended(r)
               /\ RunOK(Push(x, 1)) /\ Push(x, 1).pending
<1> DEFINE r == [Idle EXCEPT !.scope = scope]
           x == [r EXCEPT !.phase = "cooldown", !.armed = TRUE, !.pending = TRUE]
           seeds == [t \in Targets |-> Seed]
<1>1. seeds \in Profiles
  BY Constants DEF Profiles
<1>2. \A s \in Scopes : 1 \in DOMAIN s
  <2> TAKE s \in Scopes
  <2>1. s \in Seq(Targets) /\ s # <<>>
    BY Constants
  <2>2. Len(s) \in Nat /\ Len(s) # 0 /\ DOMAIN s = 1 .. Len(s)
    BY <2>1
  <2> QED BY <2>2
<1> DEFINE New(e) ==
             /\ DOMAIN e = RunFields /\ e.acked = 0 /\ e.sent = 0 /\ e.held = {}
             /\ e.index = 1 /\ e.purpose = "scout" /\ e.candidate = seeds /\ e.batch = {}
             /\ e.accepted = {} /\ e.failed = {} /\ e.saved = {} /\ ~e.sealed
             /\ e.terminal = "running" /\ e.dropped = FALSE
<1>3. \A e \in {Idle, r, x} : New(e)
  <2>1. New(Idle)
    BY DEF Idle, RunFields
  <2>2. New(r)
    BY <2>1 DEF RunFields
  <2> HIDE DEF r
  <2>3. New(x)
    BY <2>2 DEF RunFields
  <2> QED BY <2>1, <2>2, <2>3
<1>4. /\ Idle.scope = Order /\ r.scope = scope /\ x.scope = scope
      /\ ~Idle.armed /\ ~r.armed /\ x.phase = "cooldown" /\ x.pending
  BY DEF Idle
<1> HIDE DEF seeds, x, r
<1>5. \A e \in {Idle, r, x} : Base(e)
  <2> TAKE e \in {Idle, r, x}
  <2>1. e.scope \in Scopes /\ e.index \in DOMAIN e.scope
    BY <1>2, <1>3, <1>4, Constants
  <2>2. LogOK(e)
    BY <1>3 DEF LogOK
  <2>3. IsRun(e)
    BY <1>1, <1>3, <2>1, <2>2 DEF IsRun
  <2> QED BY <1>3, <2>3 DEF Base
<1>6. Ended(Idle) /\ Ended(r)
  BY <1>3, <1>4, <1>5 DEF Ended, Ready
<1>7. Open(x)
  <2>1. First(x, x.index - 1) = {}
    BY <1>3 DEF First
  <2> QED BY <1>3, <1>5, <2>1 DEF Open, Trying, Steady, Ready
<1> DEFINE p == Push(x, 1)
<1>8. Pushed(x, p)
  BY <1>5, PushRecords DEF Base
<1> HIDE DEF p
<1>9. Open(p)
  BY <1>7, <1>8, PushedKeeps
<1>10. p.pending /\ (p.armed => p.phase = "cooldown")
  BY <1>4, <1>8 DEF Pushed, SamePlan, SameFate, Fallen
<1>11. RunOK(p)
  BY <1>9, <1>10, OpenIsOK DEF Heating
<1> QED BY <1>6, <1>10, <1>11 DEF p, x, r

LEMMA InitiallyOK == Init => TuningInv
<1>1. Ended(Idle)
  BY IdleIsOK, Constants
<1> QED BY <1>1, EndedIsOK DEF Init, TuningInv

-----------------------------------------------------------------------------
(* The control cycle.                                                        *)

\* The run at the boundary of a trial has the preview its candidate asks for.
LEMMA AppliedIsOpen ==
    ASSUME TuningInv, run.armed, NEW a \in {Applied(run)} \cup Timed(Applied(run))
    PROVE  /\ Open(a) /\ ~a.pending /\ RunOK(a) /\ a.phase = run.phase
           /\ a.receipt = {a.candidate} /\ (AppliedPreview = {a.candidate} \/ a.replaced)
<1> DEFINE b == [run EXCEPT !.receipt = {run.candidate}, !.pending = FALSE]
           c == Applied(run)
<1>1. Open(run) /\ Base(run) /\ IsRun(run) /\ run.phase \in Heating \cup {"cooldown"}
  BY DEF TuningInv, RunOK, Base
<1>2. c = IF run.pending THEN b ELSE run
  BY DEF Applied
<1>3. /\ DOMAIN b = RunFields /\ b.receipt = {run.candidate} /\ ~b.pending
      /\ SameTargets(run, b) /\ SameFate(run, b) /\ b.sealed = run.sealed
      /\ b.purpose = run.purpose /\ b.candidate = run.candidate /\ b.batch = run.batch
      /\ b.replaced = run.replaced
      /\ b.acked = run.acked /\ b.sent = run.sent /\ b.held = run.held
  BY <1>1 DEF IsRun, RunFields, SameTargets, SameFate
<1> HIDE DEF b
<1>4. /\ DOMAIN c = RunFields /\ ~c.pending /\ c.receipt = {run.candidate}
      /\ SameTargets(run, c) /\ SameFate(run, c) /\ c.sealed = run.sealed
      /\ c.purpose = run.purpose /\ c.candidate = run.candidate /\ c.batch = run.batch
      /\ c.replaced = run.replaced
      /\ c.acked = run.acked /\ c.sent = run.sent /\ c.held = run.held
  <2>1. CASE run.pending
    BY <1>2, <1>3, <2>1
  <2>2. CASE ~run.pending
    <3>1. run.receipt = {run.candidate}
      BY <2>2 DEF TuningInv, PreviewOK
    <3>2. c = run
      BY <1>2, <2>2
    <3> QED BY <1>1, <2>2, <3>1, <3>2 DEF IsRun, SameTargets, SameFate
  <2> QED BY <2>1, <2>2
<1>5. a = c \/ \E x \in {c.spent, TRUE} : a = [c EXCEPT !.spent = x]
  BY DEF Timed
<1> HIDE DEF c
<1>6. /\ DOMAIN a = RunFields /\ ~a.pending /\ a.receipt = {run.candidate}
      /\ SameTargets(run, a) /\ SameFate(run, a) /\ a.sealed = run.sealed
      /\ a.purpose = run.purpose /\ a.candidate = run.candidate /\ a.batch = run.batch
      /\ a.replaced = run.replaced
      /\ a.acked = run.acked /\ a.sent = run.sent /\ a.held = run.held
  BY <1>4, <1>5 DEF RunFields, SameTargets, SameFate
<1>7. Open(a)
  <2>1. IsRun(a)
    BY <1>1, <1>6 DEF IsRun, LogOK, SameTargets
  <2>2. Base(a)
    BY <1>1, <1>6, <2>1 DEF Base, SameTargets, Pair
  <2>3. Steady(a)
    BY <1>1, <1>6, <2>2 DEF Open, Trying, Steady, SameFate
  <2> QED BY <1>1, <1>6, <2>3 DEF Open, Trying, SameTargets, Pair, First, Target
<1>8. RunOK(a)
  BY <1>1, <1>6, <1>7, OpenIsOK DEF SameFate
<1>9. AppliedPreview = {a.candidate} \/ a.replaced
  BY <1>6 DEF AppliedPreview, TuningInv, PreviewOK
<1> QED BY <1>6, <1>7, <1>8, <1>9 DEF SameFate

\* runtime_complete_tuning_sample
LEMMA AfterSampleOK ==
    ASSUME NEW a, a.receipt = {a.candidate}, AppliedPreview = {a.candidate} \/ a.replaced,
           ~a.pending, NEW r, RunOK(r), Kept(a, r), NEW on, AfterSample(r, on)
    PROVE  TuningInv'
<1>1. run' = r /\ RunOK(r)
  BY DEF AfterSample
<1>2. PreviewOK(r, preview')
  BY DEF AfterSample, PreviewOK, Kept
<1> QED BY <1>1, <1>2 DEF TuningInv

LEMMA CycleKeeps ==
    ASSUME TuningInv, Cycle
    PROVE  TuningInv'
<1>0. RunOK(run) /\ Base(run) /\ PreviewOK(run, preview)
  BY DEF TuningInv, RunOK
<1> DEFINE a == Applied(run)
<1>1. run.armed => /\ Open(a) /\ ~a.pending /\ RunOK(a) /\ Base(a)
                   /\ a.receipt = {a.candidate} /\ (AppliedPreview = {a.candidate} \/ a.replaced)
  BY AppliedIsOpen DEF RunOK
<1> HIDE DEF a
<1>2. CASE CycleIdle
  BY <1>0, <1>2 DEF CycleIdle, TuningInv
<1>3. ASSUME NEW lost \in BOOLEAN, CyclePowerFails(lost) PROVE TuningInv'
  <2>1. Ended(run')
    BY <1>0, <1>3, FailsEnd DEF CyclePowerFails
  <2> QED BY <2>1, EndedIsOK DEF TuningInv
<1>4. CASE CycleWaits
  <2>1. run.armed /\ run' = a /\ preview' = AppliedPreview
    BY <1>4 DEF CycleWaits, a
  <2> QED BY <1>1, <2>1 DEF TuningInv, PreviewOK
<1>5. ASSUME NEW wait \in BOOLEAN, CycleInterlock(wait) PROVE TuningInv'
  <2>1. run.armed /\ run' = Fail(a)
    BY <1>5 DEF CycleInterlock, a
  <2>2. Ended(run')
    BY <1>1, <2>1, FailEnds
  <2> QED BY <2>2, EndedIsOK DEF TuningInv
<1>6. CASE CycleSourceChanged
  <2>1. run.armed /\ run' = Fail(a)
    BY <1>6 DEF CycleSourceChanged, a
  <2>2. Ended(run')
    BY <1>1, <2>1, FailEnds
  <2> QED BY <2>2, EndedIsOK DEF TuningInv
<1>7. ASSUME run.armed, NEW q \in Timed(Applied(run)), NEW r \in Samples(q), AfterSample(r, TRUE)
      PROVE  TuningInv'
  <2>1. /\ Open(q) /\ ~q.pending
        /\ q.receipt = {q.candidate} /\ (AppliedPreview = {q.candidate} \/ q.replaced)
    BY <1>7, AppliedIsOpen
  <2>2. RunOK(r) /\ Kept(q, r)
    BY <1>7, <2>1, SamplesKeep
  <2> QED BY <1>7, <2>1, <2>2, AfterSampleOK
<1>8. CASE CycleCools
  BY <1>7, <1>8 DEF CycleCools
<1>9. ASSUME NEW decision \in {"ready", "continue"}, CycleHeats(decision) PROVE TuningInv'
  BY <1>7, <1>9 DEF CycleHeats
<1>10. CASE CycleUnsafe
  <2>1. run.armed /\ AfterSample(Fail(a), FALSE)
    BY <1>10 DEF CycleUnsafe, a
  <2>2. Ended(run')
    BY <1>1, <2>1, FailEnds DEF AfterSample
  <2> QED BY <2>2, EndedIsOK DEF TuningInv
<1> QED BY <1>2, <1>3, <1>4, <1>5, <1>6, <1>8, <1>9, <1>10 DEF Cycle

-----------------------------------------------------------------------------
(* The commands.                                                             *)

\* The events of a run that the host has acknowledged altogether.
LEMMA AckedIsEmpty ==
    ASSUME NEW r, IsRun(r), r.acked = 0
    PROVE  r.held = {}
BY DEF IsRun, LogOK

LEMMA EndedDelivered ==
    ASSUME NEW r, Ended(r)
    PROVE  Ended(Delivered(r))
BY DeliveredIsSame, SameEnded DEF Ended, Base

\* Recording the one event of a seal or a save of a run that was read to the end.
LEMMA ReadyRecords ==
    ASSUME NEW x, Base(x), x.acked = 0, x.terminal \in Ready, ~x.armed, ~x.dropped,
           x.accepted = First(x, Len(x.scope))
    PROVE  LET q == Delivered(Push(x, 1))
           IN  RunOK(q) /\ \A p : PreviewOK(q, p)
<1> DEFINE p == Push(x, 1)
<1>1. IsRun(x) /\ x.held = {} /\ 1 <= RingSize
  BY AckedIsEmpty, Constants DEF Base
<1>2. Pushed(x, p) /\ SameFate(x, p) /\ p.acked = 1
  BY <1>1, PushRecords
<1> HIDE DEF p
<1>3. RunOK(p)
  <2>1. Base(p)
    BY <1>2, PushedKeeps
  <2>2. ~p.armed /\ p.terminal \in Ready /\ ~p.dropped /\ p.accepted = First(p, Len(p.scope))
    BY <1>2 DEF SameFate, Pushed, SameTargets, First
  <2> QED BY <1>2, <2>1, <2>2 DEF RunOK
<1>4. RunOK(Delivered(p)) /\ \A v : PreviewOK(p, v) => PreviewOK(Delivered(p), v)
  BY <1>3, DeliveredIsOK
<1>5. \A v : PreviewOK(p, v)
  BY <1>2 DEF PreviewOK, SameFate
<1> QED BY <1>4, <1>5 DEF p

LEMMA SealKeeps ==
    ASSUME TuningInv, Seal
    PROVE  TuningInv'
<1> DEFINE x == [run EXCEPT !.sealed = TRUE, !.phase = "sealed"]
<1>1. /\ Base(run) /\ IsRun(run) /\ run.acked = 0 /\ run.terminal \in Ready /\ ~run.armed
      /\ ~run.dropped /\ run.accepted = First(run, Len(run.scope))
  BY DEF TuningInv, RunOK, Base, Seal, Ready
<1>2. /\ IsRun(x) /\ SameTargets(run, x) /\ SamePlan(run, x) /\ x.acked = 0
      /\ x.terminal = run.terminal /\ x.armed = run.armed /\ x.dropped = run.dropped
  BY <1>1 DEF IsRun, LogOK, RunFields, SameTargets, SamePlan
<1>3. run' = Delivered(Push(x, 1))
  BY DEF Seal
<1> HIDE DEF x
<1>4. Base(x) /\ x.accepted = First(x, Len(x.scope))
  BY <1>1, <1>2 DEF Base, SameTargets, SamePlan, Pair, First
<1> QED BY <1>1, <1>2, <1>3, <1>4, ReadyRecords DEF TuningInv

LEMMA SaveKeeps ==
    ASSUME TuningInv, ConfirmSave
    PROVE  TuningInv'
<1> DEFINE x == [run EXCEPT !.saved = {run.candidate}, !.phase = "completed",
                            !.terminal = "passed"]
<1>1. /\ Base(run) /\ IsRun(run) /\ run.acked = 0 /\ run.scope = Order /\ ~run.armed
      /\ ~run.dropped /\ run.accepted = First(run, Len(run.scope))
  BY DEF TuningInv, RunOK, Base, ConfirmSave, Savable
<1>2. /\ IsRun(x) /\ SamePlan(run, x) /\ x.acked = 0 /\ x.saved = {run.candidate}
      /\ x.scope = run.scope /\ x.accepted = run.accepted /\ x.failed = run.failed
      /\ x.scouted = run.scouted /\ x.confirmed = run.confirmed
      /\ x.terminal \in Ready /\ x.armed = run.armed /\ x.dropped = run.dropped
  BY <1>1 DEF IsRun, LogOK, RunFields, SamePlan, Ready
<1>3. run' = Delivered(Push(x, 1))
  BY DEF ConfirmSave
<1> HIDE DEF x
<1>4. run.accepted = Targets
  <2>1. DOMAIN Order = 1 .. Len(Order)
    BY <1>1, ScopeTargets
  <2> QED BY <1>1, <2>1 DEF First, Targets
<1>5. Base(x)
  <2>1. \A t \in Targets : <<t, run.candidate[t]>> \in run.scouted \cap run.confirmed
    BY <1>1, <1>4 DEF Base, Pair
  <2> QED BY <1>1, <1>2, <2>1 DEF Base, SamePlan, Pair
<1>6. x.accepted = First(x, Len(x.scope))
  BY <1>1, <1>2 DEF First
<1> QED BY <1>1, <1>2, <1>3, <1>5, <1>6, ReadyRecords DEF TuningInv

LEMMA CommandsKeep ==
    ASSUME TuningInv, Commands
    PROVE  TuningInv'
<1>0. RunOK(run) /\ Base(run) /\ IsRun(run) /\ PreviewOK(run, preview)
      /\ run.acked \in Nat /\ run.sent \in Nat /\ run.sent <= run.acked
  BY DEF TuningInv, RunOK, Base, IsRun, LogOK
<1>1. CASE Read
  BY <1>0, <1>1, DeliveredIsOK DEF Read, TuningInv
<1>2. CASE Acknowledge
  <2>1. SameRun(run, run') /\ run'.acked = run.sent /\ preview' = preview
    BY <1>0, <1>2, AcknowledgedIsSame DEF Acknowledge
  <2> QED BY <1>0, <2>1, SameRunIsOK DEF TuningInv
<1>3. CASE ReadAgain
  <2> DEFINE g == [run EXCEPT !.gap = TRUE, !.review = "incomplete"]
  <2>1. RunOK(g) /\ PreviewOK(g, preview)
    <3>1. SameRun(run, g) /\ g.acked = run.acked
      BY <1>0, ReviewedIsSame
    <3> HIDE DEF g
    <3> QED BY <1>0, <3>1, SameRunIsOK
  <2>2. run' = Delivered(run) \/ run' = Delivered(g)
    BY <1>3 DEF ReadAgain
  <2> HIDE DEF g
  <2> QED BY <1>0, <1>3, <2>1, <2>2, DeliveredIsOK DEF ReadAgain, TuningInv
<1>4. CASE AcknowledgeUnsent
  <2>1. Ended(run')
    BY <1>0, <1>4, FailsEnd, EndedDelivered DEF AcknowledgeUnsent
  <2> QED BY <2>1, EndedIsOK DEF TuningInv
<1>5. ASSUME NEW scope \in Scopes, Start(scope) PROVE TuningInv'
  <2> DEFINE r == [Idle EXCEPT !.scope = scope]
             x == [r EXCEPT !.phase = "cooldown", !.armed = TRUE, !.pending = TRUE]
             p == Push(x, 1)
  <2>1. Ended(r) /\ RunOK(p) /\ p.pending
    BY IdleIsOK
  <2>2. run' = Delivered(p) \/ run' = Fail(r)
    BY <1>5 DEF Start
  <2> HIDE DEF p, r
  <2>3. CASE run' = Fail(r)
    BY <2>1, <2>3, FailEnds, EndedIsOK DEF TuningInv, Ended
  <2>4. CASE run' = Delivered(p)
    <3>1. \A v : PreviewOK(p, v)
      BY <2>1 DEF PreviewOK
    <3> QED BY <2>1, <2>4, <3>1, DeliveredIsOK DEF TuningInv
  <2> QED BY <2>2, <2>3, <2>4
<1>6. CASE StartAgain
  BY <1>0, <1>6 DEF StartAgain, TuningInv
<1>7. CASE Cancel
  <2> DEFINE x == [run EXCEPT !.armed = FALSE, !.sealed = FALSE, !.phase = "canceled",
                              !.terminal = "canceled", !.review = "complete"]
  <2>1. /\ IsRun(x) /\ SameTargets(run, x) /\ SamePlan(run, x) /\ ~x.armed /\ ~x.sealed
        /\ x.terminal = "canceled"
    BY <1>0 DEF IsRun, LogOK, RunFields, SameTargets, SamePlan
  <2>2. run' = Delivered(Push(x, 1))
    BY <1>7 DEF Cancel
  <2> HIDE DEF x
  <2>3. Ended(x)
    BY <1>0, <2>1 DEF Ended, Base, SameTargets, SamePlan, Pair, Ready
  <2>4. Ended(run')
    BY <2>2, <2>3, PushEnded, EndedDelivered
  <2> QED BY <2>4, EndedIsOK DEF TuningInv
<1>8. CASE Seal
  BY <1>8, SealKeeps
<1>9. CASE ConfirmSaveRejected
  <2>1. run' = FailIncomplete(run) \/ run' = Fail(run)
    BY <1>9 DEF ConfirmSaveRejected
  <2>2. Ended(run')
    BY <1>0, <2>1, FailsEnd, FailEnds
  <2> QED BY <2>2, EndedIsOK DEF TuningInv
<1>10. CASE ConfirmSaveFails
  <2>1. run' = FailIncomplete(run) \/ run' = Fail(run)
    BY <1>10 DEF ConfirmSaveFails
  <2>2. Ended(run')
    BY <1>0, <2>1, FailsEnd, FailEnds
  <2> QED BY <2>2, EndedIsOK DEF TuningInv
<1>11. CASE ConfirmSave
  BY <1>11, SaveKeeps
<1>12. CASE HostPreview
  <2> DEFINE x == [run EXCEPT !.replaced = TRUE]
  <2>1. /\ DOMAIN x = RunFields /\ SameTargets(run, x) /\ SameFate(run, x)
        /\ x.sealed = run.sealed /\ x.purpose = run.purpose /\ x.candidate = run.candidate
        /\ x.batch = run.batch /\ x.pending = run.pending /\ x.receipt = run.receipt
        /\ x.replaced /\ x.acked = run.acked /\ x.sent = run.sent /\ x.held = run.held
    BY <1>0 DEF IsRun, RunFields, SameTargets, SameFate
  <2>2. run' = x
    BY <1>12 DEF HostPreview
  <2> HIDE DEF x
  <2>3. Base(x)
    BY <1>0, <2>1 DEF Base, IsRun, LogOK, SameTargets, Pair
  <2>4. Open(run) => Open(x)
    <3>1. Steady(run) => Steady(x)
      BY <2>1, <2>3 DEF Steady, SameFate
    <3> QED BY <2>1, <3>1 DEF Open, Trying, SameTargets, Pair, First, Target
  <2>5. RunOK(x)
    BY <1>0, <2>1, <2>3, <2>4 DEF RunOK, SameFate, SameTargets, First
  <2>6. PreviewOK(x, preview')
    BY <1>0, <2>1 DEF PreviewOK, SameFate
  <2> QED BY <2>2, <2>5, <2>6 DEF TuningInv
<1>13. CASE HostHeater
  BY <1>0, <1>13 DEF HostHeater, TuningInv
<1>14. CASE Restart
  <2>1. Ended(run')
    BY <1>14, IdleIsOK, Constants DEF Restart
  <2> QED BY <2>1, EndedIsOK DEF TuningInv
<1> QED BY <1>1, <1>2, <1>3, <1>4, <1>5, <1>6, <1>7, <1>8, <1>9, <1>10, <1>11, <1>12,
           <1>13, <1>14 DEF Commands

-----------------------------------------------------------------------------
(* Theorems.                                                                 *)

\* Every run of every target scope keeps the inductive invariant: its targets are
\* decided in order, its candidate changes only at the target being tried, and the
\* preview in use is the one its receipt names.
THEOREM Invariance == Spec => []TuningInv
<1>1. TuningInv /\ [Next]_vars => TuningInv'
  <2> SUFFICES ASSUME TuningInv, [Next]_vars PROVE TuningInv'
    OBVIOUS
  <2>1. CASE UNCHANGED vars
    BY <2>1 DEF vars, TuningInv
  <2> QED BY <2>1, CycleKeeps, CommandsKeep DEF Next
<1> QED BY <1>1, InitiallyOK, PTL DEF Spec

\* A trial heats only with the candidate its events name (record_sample and
\* runtime_apply_pending_tuning_preview), unless a host has replaced the preview.
THEOREM TrialsHeatAsPreviewed == Spec => []HeatsAsPreviewed
<1>1. TuningInv => HeatsAsPreviewed
  BY DEF TuningInv, RunOK, PreviewOK, HeatsAsPreviewed
<1> QED BY <1>1, Invariance, PTL

\* A run in progress has decided exactly the targets before the current one, none both
\* ways, and a candidate is ready only when all its targets were accepted
\* (advance_target, complete_target_scope).
THEOREM TargetsAreDecidedOnce == Spec => []EveryTargetIsDecided
<1>1. TuningInv => EveryTargetIsDecided
  <2> SUFFICES ASSUME TuningInv PROVE EveryTargetIsDecided
    OBVIOUS
  <2>1. DOMAIN run.scope = 1 .. Len(run.scope)
    BY ScopeTargets DEF TuningInv, RunOK, Base
  <2> QED BY <2>1 DEF TuningInv, RunOK, Base, Open, Trying, First, Ready, EveryTargetIsDecided
<1> QED BY <1>1, Invariance, PTL

\* A candidate is ready, sealed or saved only if no event of its run was dropped, and
\* sealed only after each earlier event was delivered (push_event, seal).
THEOREM SealedTracesAreWhole == Spec => []SealedTraceIsWhole
<1>1. TuningInv => SealedTraceIsWhole
  <2> SUFFICES ASSUME TuningInv PROVE SealedTraceIsWhole
    OBVIOUS
  <2>1. LogOK(run) /\ (run.sealed => run.acked <= 1)
    BY DEF TuningInv, RunOK, Base, IsRun
  <2>2. run.sealed => run.sent <= 2 /\ run.held \subseteq {0, 1}
    BY <2>1 DEF LogOK
  <2> QED BY <2>2 DEF TuningInv, RunOK, Ready, SealedTraceIsWhole
<1> QED BY <1>1, Invariance, PTL

\* What is saved is the candidate of a qualification run each of whose points passed a
\* short trial and then a hold confirmation, and was not changed while later targets
\* were tuned (validate_save_identity, confirm_save).
THEOREM SavedIsConfirmed == Spec => []SavesOnlyConfirmed
<1>1. TuningInv => SavesOnlyConfirmed
  BY DEF TuningInv, RunOK, Base, SavesOnlyConfirmed
<1> QED BY <1>1, Invariance, PTL
=============================================================================
