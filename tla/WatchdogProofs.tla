---------------------------- MODULE WatchdogProofs -----------------------------
(***************************************************************************)
(* The watchdog's two promises for every counter width, timeout and beat      *)
(* rate that meet WatchdogAssumption: a stalled task is reset, a live system  *)
(* is not.                                                                   *)
(***************************************************************************)
EXTENDS Watchdog, TLAPS

\* Which counters hold a beat the gate has not used for a feed.
BootFresh == ~gate.armed \/ gate.boot # hb["boot"]
RunFresh  == ~gate.armed \/ ~gate.runtimeStarted \/ gate.runtime # hb["runtime"]
PdFresh   == ~gate.armed \/ ~gate.runtimeStarted \/ gate.pd # hb["pd"]

Owed(fresh) == IF fresh THEN Timeout ELSE 0

\* The phases: nothing has beaten before the hardware is enabled, the runtime
\* counter is 0 and its tasks are not accounted for before the loop has started.
Phases ==
    /\ ~enabled => /\ ~started /\ ~required /\ hb["boot"] = 1 /\ sinceFeed = 0 /\ calm = 0
                   /\ \A t \in Tasks : idle[t] = 0 /\ beats[t] = 0
    /\ enabled <=> gate.armed
    /\ ~started => /\ hb["runtime"] = 0 /\ beats["runtime"] = 0 /\ ~gate.runtimeStarted
                   /\ idle["runtime"] = 0 /\ idle["pd"] = 0
    /\ reset <=> sinceFeed = Timeout

\* A task that has not beaten in this period has been idle no longer than the
\* feeds it has already made useless allow.
Overdue ==
    /\ beats["boot"] = 0 => idle["boot"] + Owed(BootFresh) <= sinceFeed + 2 * Timeout
    /\ beats["runtime"] = 0 =>
         idle["runtime"] + Owed(BootFresh) + Owed(RunFresh) <= sinceFeed + 2 * Timeout
    /\ beats["pd"] = 0 =>
         idle["pd"] + Owed(BootFresh) + Owed(PdFresh) <= sinceFeed + 2 * Timeout

StallInv == TypeOK /\ Phases /\ Overdue /\ StalledTaskIsReset

\* A counter is n beats ahead of the gate's copy of it, wrapped at most once.
Ahead(now, old, n) == now = old + n \/ now = old + n - HbModulus

\* A counter has moved by at least the beats of this period, and at most by those
\* and the beats of a number of full periods.
Lags(beaten, periods, now, old) ==
    \E n \in Nat : beaten <= n /\ n <= beaten + MaxBeats * periods /\ Ahead(now, old, n)

\* Periods since the gate last copied the runtime counters: one feed between may
\* have been for a boot beat.
CopyAge == sinceFeed + (IF BootFresh THEN 0 ELSE Timeout)

\* No counter has gone round since the gate copied it.
NotRound ==
    /\ enabled /\ ~started => Lags(beats["boot"], sinceFeed, hb["boot"], gate.boot)
    /\ gate.runtimeStarted =>
         /\ Lags(beats["runtime"], CopyAge, hb["runtime"], gate.runtime)
         /\ Lags(beats["pd"], CopyAge, hb["pd"], gate.pd)

\* A counter that was 0 at the last sample, or since.
JustZero(t) == hb[t] = beats[t]
ZeroBefore(t) == beats[t] <= hb[t] /\ hb[t] <= beats[t] + MaxBeats

\* In a row of calm periods a refused feed is owed to a counter read at 0, and
\* there are at most two of them.
Refusals ==
    /\ calm >= 1 /\ sinceFeed >= 1 =>
         \/ JustZero("runtime") /\ (~started => JustZero("boot"))
         \/ started /\ required /\ JustZero("pd")
    /\ calm >= 2 /\ sinceFeed >= 2 =>
         started /\ ZeroBefore("runtime") /\ (required => ZeroBefore("pd"))
    /\ ~(calm >= 3 /\ sinceFeed >= 3)

LiveInv == TypeOK /\ Phases /\ NotRound /\ Refusals

-----------------------------------------------------------------------------
(* The gate.                                                                 *)

\* When observe says feed, for a boot beat and for the runtime's beats.
BootFeeds == hb["runtime"] = 0 /\ hb["boot"] # 0 /\ BootFresh
RunFeeds ==
    /\ hb["runtime"] # 0 /\ ~(required /\ hb["pd"] = 0)
    /\ ~gate.armed \/ ~gate.runtimeStarted \/ ~RuntimeStalled

BootCopy == [gate EXCEPT !.boot = hb["boot"], !.armed = TRUE]
RunCopy == [gate EXCEPT !.runtime = hb["runtime"], !.pd = hb["pd"],
                        !.armed = TRUE, !.runtimeStarted = TRUE]

LEMMA ObserveCases ==
    /\ BootFeeds => Observe = [feed |-> TRUE, gate |-> BootCopy]
    /\ RunFeeds => Observe = [feed |-> TRUE, gate |-> RunCopy]
    /\ ~BootFeeds /\ ~RunFeeds => Observe = [feed |-> FALSE, gate |-> gate]
BY Zenon DEF Observe, BootFeeds, RunFeeds, BootFresh, BootCopy, RunCopy

LEMMA CopyFields ==
    ASSUME TypeOK
    PROVE  /\ BootCopy \in Gates /\ RunCopy \in Gates
           /\ BootCopy.boot = hb["boot"] /\ BootCopy.runtime = gate.runtime
           /\ BootCopy.pd = gate.pd
           /\ RunCopy.boot = gate.boot /\ RunCopy.runtime = hb["runtime"]
           /\ RunCopy.pd = hb["pd"]
           /\ BootCopy.armed = TRUE /\ BootCopy.runtimeStarted = gate.runtimeStarted
           /\ RunCopy.armed = TRUE /\ RunCopy.runtimeStarted = TRUE
<1>1. gate \in Gates /\ hb["boot"] \in Counter /\ hb["runtime"] \in Counter /\ hb["pd"] \in Counter
  BY DEF TypeOK, Tasks
<1> QED BY <1>1 DEF BootCopy, RunCopy, Gates

\* The outcomes of a pass of the supervisor.
LEMMA PassCases ==
    ASSUME TypeOK
    PROVE  \/ BootFeeds /\ Observe.feed /\ Observe.gate = BootCopy
           \/ RunFeeds /\ Observe.feed /\ Observe.gate = RunCopy
           \/ ~BootFeeds /\ ~RunFeeds /\ ~Observe.feed /\ Observe.gate = gate
<1>1. CASE BootFeeds
  BY <1>1, ObserveCases
<1>2. CASE RunFeeds
  BY <1>2, ObserveCases
<1>3. CASE ~BootFeeds /\ ~RunFeeds
  BY <1>3, ObserveCases
<1> QED BY <1>1, <1>2, <1>3

\* A counter steps to its successor, and from its last value to 0.
LEMMA Wraps ==
    ASSUME NEW a \in Counter
    PROVE  (a + 1) % HbModulus = IF a + 1 = HbModulus THEN 0 ELSE a + 1
BY WatchdogAssumption DEF Counter

-----------------------------------------------------------------------------
(* Types and phases.                                                         *)

LEMMA BeatType ==
    ASSUME TypeOK, NEW t \in Tasks, Beat(t)
    PROVE  /\ hb' \in [Tasks -> Counter] /\ beats' \in [Tasks -> 0..MaxBeats]
           /\ hb'[t] = IF hb[t] + 1 = HbModulus THEN 0 ELSE hb[t] + 1
           /\ beats'[t] = beats[t] + 1 /\ beats'[t] > 0
           /\ \A u \in Tasks : u # t => hb'[u] = hb[u] /\ beats'[u] = beats[u]
<1>1. /\ hb \in [Tasks -> Counter] /\ beats \in [Tasks -> 0..MaxBeats]
      /\ hb[t] \in Counter /\ beats[t] \in 0..MaxBeats /\ beats[t] < MaxBeats
  BY DEF TypeOK, Beat
<1>2. hb' = [hb EXCEPT ![t] = (hb[t] + 1) % HbModulus] /\ beats' = [beats EXCEPT ![t] = beats[t] + 1]
  BY DEF Beat
<1>3. /\ (hb[t] + 1) % HbModulus = IF hb[t] + 1 = HbModulus THEN 0 ELSE hb[t] + 1
      /\ (hb[t] + 1) % HbModulus \in Counter
  BY <1>1, Wraps, WatchdogAssumption DEF Counter
<1>4. beats[t] + 1 \in 0..MaxBeats /\ beats[t] + 1 > 0
  BY <1>1, WatchdogAssumption
<1> QED BY <1>1, <1>2, <1>3, <1>4

LEMMA TypeInit == Init => TypeOK /\ Phases
<1> SUFFICES ASSUME Init PROVE TypeOK /\ Phases
  OBVIOUS
<1>1. required \in BOOLEAN /\ started \in BOOLEAN /\ enabled \in BOOLEAN /\ reset \in BOOLEAN
  BY Zenon DEF Init
<1>2. HbModulus > 2 /\ HbModulus \in Nat
  <2>1. MaxBeats * (2 * Timeout + 2) >= 4
    BY WatchdogAssumption
  <2> QED BY <2>1, WatchdogAssumption
<1>3. hb \in [Tasks -> Counter]
  BY <1>2 DEF Init, Counter
<1>4. gate \in Gates
  BY <1>2 DEF Init, Gates, Counter
<1>5. beats \in [Tasks -> 0..MaxBeats] /\ idle \in [Tasks -> 0..IdleCap]
      /\ sinceFeed \in 0..Timeout /\ calm \in 0..Timeout
  BY WatchdogAssumption DEF Init, IdleCap
<1>6. Phases
  BY WatchdogAssumption DEF Init, Phases, Tasks
<1> QED BY <1>1, <1>3, <1>4, <1>5, <1>6 DEF TypeOK

\* The end of a period, part by part.
LEMMA PeriodType ==
    ASSUME TypeOK, Phases, NEW blocked \in BOOLEAN, PeriodEnds(blocked)
    PROVE  /\ TypeOK'
           /\ sinceFeed < Timeout
           /\ reset' <=> sinceFeed' = Timeout
<1>1. sinceFeed \in 0..(Timeout - 1)
  BY WatchdogAssumption DEF TypeOK, Phases, PeriodEnds
<1>2. sinceFeed' \in {0, sinceFeed + 1} /\ sinceFeed' \in 0..Timeout
  BY <1>1, WatchdogAssumption DEF PeriodEnds
<1>3. reset' = (sinceFeed' = Timeout)
  BY Zenon DEF PeriodEnds
<1>4. reset' \in BOOLEAN
  BY <1>3, Zenon
<1>5. gate' \in Gates
  <2>1. gate \in Gates
    BY DEF TypeOK
  <2> QED BY <2>1, PassCases, CopyFields DEF PeriodEnds
<1>6. idle' \in [Tasks -> 0..IdleCap]
  <2>1. idle \in [Tasks -> 0..IdleCap] /\ IdleCap \in Nat
    BY WatchdogAssumption DEF TypeOK, IdleCap
  <2>2. idle' = [t \in Tasks |-> IF t \notin Supervised \/ beats[t] > 0 THEN 0
                                ELSE IF idle[t] < IdleCap THEN idle[t] + 1 ELSE idle[t]]
    BY DEF PeriodEnds
  <2> QED BY <2>1, <2>2
<1>7. calm' \in 0..Timeout
  BY WatchdogAssumption DEF PeriodEnds, TypeOK
<1>8. beats' \in [Tasks -> 0..MaxBeats]
  BY WatchdogAssumption DEF PeriodEnds
<1>9. UNCHANGED <<hb, required, started, enabled>>
  BY DEF PeriodEnds
<1>10. TypeOK'
  BY <1>2, <1>4, <1>5, <1>6, <1>7, <1>8, <1>9 DEF TypeOK
<1>11. sinceFeed < Timeout
  BY <1>1, WatchdogAssumption
<1>12. reset' <=> sinceFeed' = Timeout
  BY <1>3, Zenon
<1> QED BY <1>10, <1>11, <1>12, Zenon

LEMMA TypeStep == TypeOK /\ Phases /\ [Next]_vars => TypeOK'
<1> SUFFICES ASSUME TypeOK, Phases, [Next]_vars PROVE TypeOK'
  OBVIOUS
<1>1. CASE BootBeat
  BY <1>1, BeatType DEF BootBeat, TypeOK, Tasks
<1>2. CASE RuntimeBeat
  <2>1. started' \in BOOLEAN
    BY <1>2, Zenon DEF RuntimeBeat
  <2> QED BY <1>2, <2>1, BeatType DEF RuntimeBeat, TypeOK, Tasks
<1>3. CASE PdBeat
  BY <1>3, BeatType DEF PdBeat, TypeOK, Tasks
<1>4. ASSUME NEW found \in BOOLEAN, PdDetected(found) PROVE TypeOK'
  BY <1>4 DEF PdDetected, TypeOK
<1>5. CASE Enable
  <2>1. enabled' \in BOOLEAN
    BY <1>5, Zenon DEF Enable
  <2>2. gate' \in Gates
    BY <1>5, PassCases, CopyFields DEF Enable, TypeOK
  <2> QED BY <1>5, <2>1, <2>2 DEF Enable, TypeOK
<1>6. ASSUME NEW blocked \in BOOLEAN, PeriodEnds(blocked) PROVE TypeOK'
  BY <1>6, PeriodType
<1>7. CASE UNCHANGED vars
  BY <1>7 DEF vars, TypeOK
<1> QED BY <1>1, <1>2, <1>3, <1>4, <1>5, <1>6, <1>7 DEF Next

LEMMA PhasesStep == TypeOK /\ Phases /\ [Next]_vars => Phases'
<1> SUFFICES ASSUME TypeOK, Phases, [Next]_vars PROVE Phases'
  OBVIOUS
<1>0. {"boot", "runtime", "pd"} \subseteq Tasks
  BY DEF Tasks
<1>1. CASE BootBeat
  <2>1. hb'["runtime"] = hb["runtime"] /\ beats'["runtime"] = beats["runtime"] /\ enabled
    BY <1>0, <1>1, BeatType DEF BootBeat
  <2> QED BY <1>1, <2>1 DEF BootBeat, Phases
<1>2. CASE RuntimeBeat
  BY <1>2 DEF RuntimeBeat, Phases
<1>3. CASE PdBeat
  <2>1. hb'["runtime"] = hb["runtime"] /\ beats'["runtime"] = beats["runtime"] /\ required
    BY <1>0, <1>3, BeatType DEF PdBeat
  <2>2. enabled
    BY <2>1 DEF Phases
  <2> QED BY <1>3, <2>1, <2>2 DEF PdBeat, Phases
<1>4. ASSUME NEW found \in BOOLEAN, PdDetected(found) PROVE Phases'
  BY <1>4 DEF PdDetected, Phases
<1>5. CASE Enable
  <2>1. ~enabled /\ ~started /\ hb["boot"] = 1 /\ hb["runtime"] = 0 /\ ~gate.armed
    BY <1>5 DEF Enable, Phases
  <2>2. gate' = BootCopy
    <3>1. BootFeeds
      BY <2>1 DEF BootFeeds, BootFresh
    <3> QED BY <1>5, <3>1, ObserveCases DEF Enable
  <2>3. gate'.armed /\ gate'.runtimeStarted = gate.runtimeStarted
    BY <2>2, CopyFields
  <2> QED BY <1>5, <2>3 DEF Enable, Phases
<1>6. ASSUME NEW blocked \in BOOLEAN, PeriodEnds(blocked) PROVE Phases'
  <2>1. enabled /\ gate.armed /\ UNCHANGED <<hb, required, started, enabled>>
    BY <1>6 DEF PeriodEnds, Phases
  <2>2. reset' <=> sinceFeed' = Timeout
    BY <1>6, PeriodType
  <2>3. gate'.armed
    BY <1>6, <2>1, PassCases, CopyFields DEF PeriodEnds
  <2>4. ~started => /\ hb'["runtime"] = 0 /\ beats'["runtime"] = 0 /\ ~gate'.runtimeStarted
                    /\ idle'["runtime"] = 0 /\ idle'["pd"] = 0
    <3> SUFFICES ASSUME ~started
                 PROVE  /\ hb'["runtime"] = 0 /\ beats'["runtime"] = 0 /\ ~gate'.runtimeStarted
                        /\ idle'["runtime"] = 0 /\ idle'["pd"] = 0
      OBVIOUS
    <3>1. hb["runtime"] = 0 /\ ~gate.runtimeStarted
      BY DEF Phases
    <3>2. ~RunFeeds
      BY <3>1 DEF RunFeeds
    <3>3. ~gate'.runtimeStarted
      BY <1>6, <3>1, <3>2, PassCases, CopyFields DEF PeriodEnds
    <3>4. "runtime" \notin Supervised /\ "pd" \notin Supervised
      BY DEF Supervised
    <3>5. idle'["runtime"] = 0 /\ idle'["pd"] = 0 /\ beats'["runtime"] = 0
      BY <1>0, <1>6, <3>4 DEF PeriodEnds
    <3> QED BY <2>1, <3>1, <3>3, <3>5
  <2> QED BY <2>1, <2>2, <2>3, <2>4 DEF Phases
<1>7. CASE UNCHANGED vars
  BY <1>7 DEF vars, Phases
<1> QED BY <1>1, <1>2, <1>3, <1>4, <1>5, <1>6, <1>7 DEF Next

-----------------------------------------------------------------------------
(* A stalled task is reset.                                                  *)

\* A feed uses up a beat of every task that is supervised and did not beat, and
\* no pass makes an old beat fresh again.
LEMMA FeedUsesBeat ==
    ASSUME TypeOK, Phases, NEW blocked \in BOOLEAN, PeriodEnds(blocked)
    PROVE  /\ BootFresh' => BootFresh
           /\ RunFresh' => RunFresh
           /\ PdFresh' => PdFresh
           /\ \/ sinceFeed' = sinceFeed + 1
              \/ sinceFeed' = 0 /\ BootFresh /\ ~BootFresh'
              \/ /\ sinceFeed' = 0 /\ started /\ RunFresh /\ ~RunFresh'
                 /\ required => PdFresh /\ ~PdFresh'
<1>0. hb' = hb /\ gate.armed
  BY DEF PeriodEnds, Phases
<1>1. CASE gate' = gate /\ sinceFeed' = sinceFeed + 1
  BY <1>0, <1>1 DEF BootFresh, RunFresh, PdFresh
<1>2. CASE BootFeeds /\ gate' = BootCopy /\ sinceFeed' = 0
  BY <1>0, <1>2, CopyFields DEF BootFresh, RunFresh, PdFresh, BootFeeds
<1>3. CASE RunFeeds /\ gate' = RunCopy /\ sinceFeed' = 0
  <2>1. started
    BY <1>3 DEF RunFeeds, Phases
  <2>2. RunFresh /\ (required => PdFresh)
    BY <1>3 DEF RunFeeds, RunFresh, PdFresh, RuntimeStalled
  <2>3. ~RunFresh' /\ ~PdFresh' /\ (BootFresh' => BootFresh)
    BY <1>0, <1>3, CopyFields DEF BootFresh, RunFresh, PdFresh
  <2> QED BY <1>3, <2>1, <2>2, <2>3
<1> QED BY <1>1, <1>2, <1>3, PassCases DEF PeriodEnds

LEMMA OverdueInit == Init => Overdue /\ StalledTaskIsReset
<1> SUFFICES ASSUME Init PROVE Overdue /\ StalledTaskIsReset
  OBVIOUS
<1>1. sinceFeed = 0 /\ \A t \in Tasks : idle[t] = 0
  BY DEF Init
<1> QED BY <1>1, WatchdogAssumption DEF Overdue, StalledTaskIsReset, Owed, Tasks

LEMMA OverdueStep ==
    TypeOK /\ Phases /\ Overdue /\ [Next]_vars => Overdue'
<1> SUFFICES ASSUME TypeOK, Phases, Overdue, [Next]_vars PROVE Overdue'
  OBVIOUS
<1>0. {"boot", "runtime", "pd"} \subseteq Tasks
  BY DEF Tasks
<1>1. /\ sinceFeed \in Nat /\ Timeout \in Nat
      /\ idle["boot"] \in Nat /\ idle["runtime"] \in Nat /\ idle["pd"] \in Nat
      /\ beats["boot"] \in Nat /\ beats["runtime"] \in Nat /\ beats["pd"] \in Nat
  BY <1>0, WatchdogAssumption DEF TypeOK, IdleCap
<1>2. CASE BootBeat
  <2>1. /\ beats'["boot"] > 0 /\ UNCHANGED <<idle, sinceFeed, gate>>
        /\ UNCHANGED <<hb["runtime"], hb["pd"], beats["runtime"], beats["pd"]>>
    BY <1>0, <1>2, BeatType DEF BootBeat
  <2>2. idle["runtime"] = 0 /\ idle["pd"] = 0
    BY <1>2 DEF BootBeat, Phases
  <2> QED BY <1>1, <2>1, <2>2 DEF Overdue, Owed
<1>3. CASE RuntimeBeat
  <2>1. /\ beats'["runtime"] > 0 /\ UNCHANGED <<idle, sinceFeed, gate>>
        /\ UNCHANGED <<hb["boot"], hb["pd"], beats["boot"], beats["pd"]>>
    BY <1>0, <1>3, BeatType DEF RuntimeBeat
  <2>2. (BootFresh' <=> BootFresh) /\ (PdFresh' <=> PdFresh)
    BY <2>1 DEF BootFresh, PdFresh
  <2> QED BY <1>1, <2>1, <2>2 DEF Overdue, Owed
<1>4. CASE PdBeat
  <2>1. /\ beats'["pd"] > 0 /\ UNCHANGED <<idle, sinceFeed, gate>>
        /\ UNCHANGED <<hb["boot"], hb["runtime"], beats["boot"], beats["runtime"]>>
    BY <1>0, <1>4, BeatType DEF PdBeat
  <2>2. (BootFresh' <=> BootFresh) /\ (RunFresh' <=> RunFresh)
    BY <2>1 DEF BootFresh, RunFresh
  <2> QED BY <1>1, <2>1, <2>2 DEF Overdue, Owed
<1>5. ASSUME NEW found \in BOOLEAN, PdDetected(found) PROVE Overdue'
  BY <1>5 DEF PdDetected, Overdue, BootFresh, RunFresh, PdFresh, Owed
<1>6. CASE Enable
  <2>1. UNCHANGED <<idle, sinceFeed>> /\ \A t \in Tasks : idle[t] = 0
    BY <1>6 DEF Enable, Phases
  <2> QED BY <1>0, <1>1, <2>1 DEF Overdue, Owed
<1>7. ASSUME NEW blocked \in BOOLEAN, PeriodEnds(blocked) PROVE Overdue'
  <2>1. sinceFeed < Timeout
    BY <1>7, PeriodType
  <2>2. \A t \in Tasks : \/ idle'[t] = 0
                         \/ t \in Supervised /\ beats[t] = 0 /\ idle'[t] <= idle[t] + 1
                            /\ idle'[t] \in Nat
    <3> SUFFICES ASSUME NEW t \in Tasks
                 PROVE  \/ idle'[t] = 0
                        \/ t \in Supervised /\ beats[t] = 0 /\ idle'[t] <= idle[t] + 1
                           /\ idle'[t] \in Nat
      OBVIOUS
    <3>1. idle[t] \in Nat /\ beats[t] \in Nat
      BY WatchdogAssumption DEF TypeOK, IdleCap
    <3>2. idle'[t] = IF t \notin Supervised \/ beats[t] > 0 THEN 0
                     ELSE IF idle[t] < IdleCap THEN idle[t] + 1 ELSE idle[t]
      BY <1>7 DEF PeriodEnds
    <3> QED BY <3>1, <3>2
  <2>3. "boot" \in Supervised => ~started
    BY DEF Supervised
  <2>4. "pd" \in Supervised => required
    BY DEF Supervised
  <2>5. sinceFeed' \in Nat
    BY <1>1, <1>7 DEF PeriodEnds
  <2>6. idle'["boot"] + Owed(BootFresh') <= sinceFeed' + 2 * Timeout
    BY <1>0, <1>1, <1>7, <2>1, <2>2, <2>3, <2>5, FeedUsesBeat DEF Overdue, Owed
  <2>7. idle'["runtime"] + Owed(BootFresh') + Owed(RunFresh') <= sinceFeed' + 2 * Timeout
    BY <1>0, <1>1, <1>7, <2>1, <2>2, <2>5, FeedUsesBeat DEF Overdue, Owed
  <2>8. idle'["pd"] + Owed(BootFresh') + Owed(PdFresh') <= sinceFeed' + 2 * Timeout
    BY <1>0, <1>1, <1>7, <2>1, <2>2, <2>4, <2>5, FeedUsesBeat DEF Overdue, Owed
  <2> QED BY <2>6, <2>7, <2>8 DEF Overdue, Owed
<1>8. CASE UNCHANGED vars
  BY <1>8 DEF vars, Overdue, BootFresh, RunFresh, PdFresh, Owed
<1> QED BY <1>2, <1>3, <1>4, <1>5, <1>6, <1>7, <1>8 DEF Next

LEMMA StalledStep ==
    TypeOK /\ Phases /\ Overdue /\ StalledTaskIsReset /\ [Next]_vars => StalledTaskIsReset'
<1> SUFFICES ASSUME TypeOK, Phases, Overdue, StalledTaskIsReset, [Next]_vars
             PROVE  StalledTaskIsReset'
  OBVIOUS
<1>1. ASSUME NEW blocked \in BOOLEAN, PeriodEnds(blocked) PROVE StalledTaskIsReset'
  <2>1. TypeOK' /\ Phases' /\ Overdue'
    BY TypeStep, PhasesStep, OverdueStep
  <2>2. \A t \in Tasks : beats'[t] = 0
    BY <1>1 DEF PeriodEnds
  <2>3. ASSUME ~reset', NEW t \in Tasks PROVE idle'[t] < 3 * Timeout
    <3>1. sinceFeed' \in Nat /\ sinceFeed' < Timeout /\ Timeout \in Nat /\ idle'[t] \in Nat
      BY <2>1, <2>3, WatchdogAssumption DEF TypeOK, Phases, IdleCap
    <3>2. idle'[t] <= sinceFeed' + 2 * Timeout
      BY <2>1, <2>2, <3>1 DEF Overdue, Owed, Tasks
    <3> QED BY <3>1, <3>2
  <2> QED BY <2>3 DEF StalledTaskIsReset
<1>2. CASE UNCHANGED <<idle, reset>>
  BY <1>2 DEF StalledTaskIsReset
<1>3. CASE BootBeat \/ RuntimeBeat \/ PdBeat \/ Enable \/ UNCHANGED vars
  <2>1. UNCHANGED <<idle, reset>>
    BY <1>3 DEF BootBeat, RuntimeBeat, PdBeat, Enable, vars
  <2> QED BY <1>2, <2>1
<1>4. ASSUME NEW found \in BOOLEAN, PdDetected(found) PROVE StalledTaskIsReset'
  BY <1>2, <1>4 DEF PdDetected
<1> QED BY <1>1, <1>3, <1>4 DEF Next

\* Types, phases and the accounting of feeds are invariant.
THEOREM StallInvariance == Spec => []StallInv
<1>1. Init => StallInv
  BY TypeInit, OverdueInit DEF StallInv
<1>2. StallInv /\ [Next]_vars => StallInv'
  BY TypeStep, PhasesStep, OverdueStep, StalledStep DEF StallInv
<1> QED BY <1>1, <1>2, PTL DEF Spec

\* Every variable keeps its type; the hardware's count never passes the timeout.
THEOREM TypeCorrect == Spec => []TypeOK
<1>1. StallInv => TypeOK
  BY DEF StallInv
<1> QED BY StallInvariance, <1>1, PTL

\* A supervised task that stops beating is reset within three timeouts.
THEOREM StallIsReset == Spec => []StalledTaskIsReset
<1>1. StallInv => StalledTaskIsReset
  BY DEF StallInv
<1> QED BY StallInvariance, <1>1, PTL

-----------------------------------------------------------------------------
(* A live system is not reset.                                               *)

LEMMA Product ==
    ASSUME NEW a \in Nat, NEW b \in Nat, b <= a
    PROVE  MaxBeats * b <= MaxBeats * a
<1>1. a - b \in Nat /\ MaxBeats \in Nat
  BY WatchdogAssumption
<1>2. MaxBeats * (a - b) >= 0
  BY <1>1
<1>3. MaxBeats * a = MaxBeats * b + MaxBeats * (a - b)
  BY <1>1
<1> QED BY <1>1, <1>2, <1>3

\* What a task can beat in the periods a feed may take stays below the modulus.
LEMMA BeatBounds ==
    /\ MaxBeats \in Nat \ {0} /\ Timeout \in Nat \ {0} /\ HbModulus \in Nat
    /\ 2 * MaxBeats < HbModulus
    /\ \A k \in Nat : /\ MaxBeats * k \in Nat /\ MaxBeats * (k + 1) = MaxBeats * k + MaxBeats
                      /\ k <= 2 * Timeout => MaxBeats * k + MaxBeats < HbModulus
<1>0. MaxBeats \in Nat \ {0} /\ Timeout \in Nat \ {0} /\ HbModulus \in Nat
  BY WatchdogAssumption
<1>1. ASSUME NEW k \in Nat
      PROVE  MaxBeats * k \in Nat /\ MaxBeats * (k + 1) = MaxBeats * k + MaxBeats
  BY <1>0
<1>2. ASSUME NEW k \in Nat, k <= 2 * Timeout PROVE MaxBeats * k + MaxBeats < HbModulus
  <2>1. k + 1 \in Nat /\ 2 * Timeout + 2 \in Nat /\ k + 1 <= 2 * Timeout + 2
    BY <1>0, <1>2
  <2>2. MaxBeats * (k + 1) <= MaxBeats * (2 * Timeout + 2)
    BY <2>1, Product
  <2>3. MaxBeats * (k + 1) < HbModulus
    BY <1>0, <2>2, WatchdogAssumption
  <2> QED BY <1>0, <1>1, <2>3
<1>3. 2 * MaxBeats < HbModulus
  <2>1. 2 \in Nat /\ 2 * Timeout + 2 \in Nat /\ 2 <= 2 * Timeout + 2
    BY <1>0
  <2>2. MaxBeats * 2 <= MaxBeats * (2 * Timeout + 2)
    BY <2>1, Product
  <2> QED BY <1>0, <2>2, WatchdogAssumption
<1> QED BY <1>0, <1>1, <1>2, <1>3

\* A counter that has moved, but not gone round, differs from its copy.
LEMMA MovedDiffers ==
    ASSUME NEW x \in Counter, NEW y \in Counter, NEW b \in 1..MaxBeats,
           NEW k \in Nat, k <= 2 * Timeout, Lags(b, k, x, y)
    PROVE  x # y
<1> DEFINE room == MaxBeats * k
<1>1. room \in Nat /\ room + MaxBeats < HbModulus /\ MaxBeats \in Nat /\ HbModulus \in Nat
  BY BeatBounds
<1> HIDE DEF room
<1>2. PICK n \in Nat : b <= n /\ n <= b + room /\ Ahead(x, y, n)
  BY DEF room, Lags
<1>3. n > 0 /\ n < HbModulus
  BY <1>1, <1>2
<1> QED BY <1>1, <1>2, <1>3 DEF Ahead, Counter

\* A copy just taken.
LEMMA CopyLags ==
    ASSUME NEW k \in Nat, NEW x \in Counter
    PROVE  Lags(0, k, x, x)
<1>1. MaxBeats * k \in Nat /\ HbModulus \in Nat
  BY BeatBounds
<1>2. Ahead(x, x, 0)
  BY <1>1 DEF Ahead, Counter
<1> QED BY <1>1, <1>2 DEF Lags

\* A beat takes a counter one further from its copy.
LEMMA BeatLags ==
    ASSUME TypeOK, NEW t \in Tasks, Beat(t), NEW y \in Counter, NEW k \in Nat, k <= 2 * Timeout,
           Lags(beats[t], k, hb[t], y)
    PROVE  Lags(beats'[t], k, hb'[t], y)
<1>1. /\ hb[t] \in Counter /\ beats[t] \in Nat /\ beats[t] < MaxBeats
      /\ beats'[t] = beats[t] + 1 /\ hb'[t] = IF hb[t] + 1 = HbModulus THEN 0 ELSE hb[t] + 1
  <2>1. hb \in [Tasks -> Counter] /\ beats \in [Tasks -> 0..MaxBeats] /\ MaxBeats \in Nat
    BY WatchdogAssumption DEF TypeOK
  <2>2. beats[t] < MaxBeats
    BY DEF Beat
  <2>3. beats'[t] = beats[t] + 1 /\ hb'[t] = IF hb[t] + 1 = HbModulus THEN 0 ELSE hb[t] + 1
    BY BeatType
  <2> QED BY <2>1, <2>2, <2>3
<1> DEFINE room == MaxBeats * k
<1>2. room \in Nat /\ room + MaxBeats < HbModulus /\ MaxBeats \in Nat /\ HbModulus \in Nat
  BY BeatBounds
<1> HIDE DEF room
<1>3. PICK n \in Nat : beats[t] <= n /\ n <= beats[t] + room /\ Ahead(hb[t], y, n)
  BY DEF room, Lags
<1>4. n + 1 < HbModulus
  BY <1>1, <1>2, <1>3
<1>5. Ahead(hb'[t], y, n + 1)
  BY <1>1, <1>2, <1>3, <1>4 DEF Ahead, Counter
<1>6. beats'[t] <= n + 1 /\ n + 1 <= beats'[t] + room
  BY <1>1, <1>2, <1>3
<1> QED BY <1>5, <1>6 DEF room, Lags

\* Another period's beats are covered by another period's allowance.
LEMMA AgeLags ==
    ASSUME NEW b \in 0..MaxBeats, NEW j \in Nat, NEW k \in Nat, j + 1 <= k, NEW x, NEW y,
           Lags(b, j, x, y)
    PROVE  Lags(0, k, x, y)
<1> DEFINE room == MaxBeats * j
<1>1. MaxBeats * (j + 1) = room + MaxBeats /\ room \in Nat
  BY BeatBounds
<1>2. MaxBeats * (j + 1) <= MaxBeats * k /\ MaxBeats * k \in Nat
  BY Product, BeatBounds
<1> HIDE DEF room
<1>3. PICK n \in Nat : b <= n /\ n <= b + room /\ Ahead(x, y, n)
  BY DEF room, Lags
<1>4. n <= 0 + MaxBeats * k /\ 0 <= n
  BY <1>1, <1>2, <1>3, BeatBounds
<1> QED BY <1>3, <1>4 DEF Lags

LEMMA NotRoundStep == TypeOK /\ Phases /\ NotRound /\ [Next]_vars => NotRound'
<1> SUFFICES ASSUME TypeOK, Phases, NotRound, [Next]_vars PROVE NotRound'
  OBVIOUS
<1>0. "boot" \in Tasks /\ "runtime" \in Tasks /\ "pd" \in Tasks
  BY DEF Tasks
<1>1. /\ gate.boot \in Counter /\ gate.runtime \in Counter /\ gate.pd \in Counter
      /\ hb["boot"] \in Counter /\ hb["runtime"] \in Counter /\ hb["pd"] \in Counter
      /\ beats["boot"] \in 0..MaxBeats /\ beats["runtime"] \in 0..MaxBeats
      /\ beats["pd"] \in 0..MaxBeats
  BY <1>0 DEF TypeOK, Gates
<1>2. /\ sinceFeed \in Nat /\ CopyAge \in Nat /\ Timeout \in Nat
      /\ sinceFeed <= 2 * Timeout /\ CopyAge <= 2 * Timeout
  BY WatchdogAssumption DEF TypeOK, CopyAge
<1>3. CASE BootBeat
  <2>1. /\ Beat("boot") /\ ~started /\ enabled /\ UNCHANGED <<enabled, started, sinceFeed, gate>>
    BY <1>3 DEF BootBeat
  <2>2. ~gate.runtimeStarted
    BY <2>1 DEF Phases
  <2>3. Lags(beats'["boot"], sinceFeed, hb'["boot"], gate.boot)
    BY <1>0, <1>1, <1>2, <2>1, BeatLags DEF NotRound
  <2> QED BY <2>1, <2>2, <2>3 DEF NotRound
<1>4. CASE RuntimeBeat
  <2>1. Beat("runtime") /\ started' /\ UNCHANGED <<sinceFeed, gate>>
    BY <1>4 DEF RuntimeBeat
  <2>2. UNCHANGED <<hb["boot"], hb["pd"], beats["pd"]>>
    BY <1>0, <2>1, BeatType
  <2>3. CopyAge' = CopyAge
    BY <2>1, <2>2 DEF CopyAge, BootFresh
  <2>4. gate.runtimeStarted => Lags(beats'["runtime"], CopyAge, hb'["runtime"], gate.runtime)
    BY <1>0, <1>1, <1>2, <2>1, BeatLags DEF NotRound
  <2> QED BY <2>1, <2>2, <2>3, <2>4 DEF NotRound
<1>5. CASE PdBeat
  <2>1. Beat("pd") /\ UNCHANGED <<started, enabled, sinceFeed, gate>>
    BY <1>5 DEF PdBeat
  <2>2. UNCHANGED <<hb["boot"], beats["boot"], hb["runtime"], beats["runtime"]>>
    BY <1>0, <2>1, BeatType
  <2>3. CopyAge' = CopyAge
    BY <2>1, <2>2 DEF CopyAge, BootFresh
  <2>4. gate.runtimeStarted => Lags(beats'["pd"], CopyAge, hb'["pd"], gate.pd)
    BY <1>0, <1>1, <1>2, <2>1, BeatLags DEF NotRound
  <2> QED BY <2>1, <2>2, <2>3, <2>4 DEF NotRound
<1>6. ASSUME NEW found \in BOOLEAN, PdDetected(found) PROVE NotRound'
  BY <1>6 DEF PdDetected, NotRound, CopyAge, BootFresh
<1>7. CASE Enable
  <2>1. ~started /\ started' = started /\ hb["boot"] = 1 /\ hb["runtime"] = 0 /\ ~gate.armed
        /\ beats["boot"] = 0 /\ UNCHANGED <<hb, beats, sinceFeed>> /\ ~gate.runtimeStarted
    BY <1>0, <1>7 DEF Enable, Phases
  <2>2. gate' = BootCopy
    <3>1. BootFeeds
      BY <2>1 DEF BootFeeds, BootFresh
    <3> QED BY <1>7, <3>1, ObserveCases DEF Enable
  <2>3. gate'.boot = hb["boot"] /\ ~gate'.runtimeStarted
    BY <2>1, <2>2, CopyFields
  <2>4. Lags(0, sinceFeed, hb["boot"], hb["boot"])
    BY <1>1, <1>2, CopyLags
  <2> QED BY <2>1, <2>3, <2>4 DEF NotRound
<1>8. ASSUME NEW blocked \in BOOLEAN, PeriodEnds(blocked) PROVE NotRound'
  <2>1. UNCHANGED <<hb, started, enabled>> /\ sinceFeed < Timeout
        /\ beats'["boot"] = 0 /\ beats'["runtime"] = 0 /\ beats'["pd"] = 0
    BY <1>0, <1>8, PeriodType DEF PeriodEnds
  <2>2. CASE gate' = gate /\ sinceFeed' = sinceFeed + 1
    <3>1. CopyAge' = CopyAge + 1
      BY <1>2, <2>1, <2>2 DEF CopyAge, BootFresh
    <3>2. sinceFeed + 1 \in Nat /\ CopyAge + 1 \in Nat
          /\ sinceFeed + 1 <= sinceFeed + 1 /\ CopyAge + 1 <= CopyAge + 1
      BY <1>2
    <3>3. enabled /\ ~started => Lags(0, sinceFeed + 1, hb["boot"], gate.boot)
      BY <1>1, <1>2, <3>2, AgeLags DEF NotRound
    <3>4. gate.runtimeStarted =>
            /\ Lags(0, CopyAge + 1, hb["runtime"], gate.runtime)
            /\ Lags(0, CopyAge + 1, hb["pd"], gate.pd)
      BY <1>1, <1>2, <3>2, AgeLags DEF NotRound
    <3> QED BY <2>1, <2>2, <3>1, <3>3, <3>4 DEF NotRound
  <2>3. CASE BootFeeds /\ gate' = BootCopy /\ sinceFeed' = 0
    <3>1. gate'.boot = hb["boot"] /\ gate'.runtime = gate.runtime /\ gate'.pd = gate.pd
          /\ gate'.runtimeStarted = gate.runtimeStarted /\ gate'.armed
      BY <2>3, CopyFields
    <3>2. CopyAge' = Timeout
      BY <1>2, <2>1, <2>3, <3>1 DEF CopyAge, BootFresh
    <3>3. CopyAge + 1 <= Timeout
      BY <1>2, <2>1, <2>3 DEF CopyAge, BootFeeds
    <3>4. Lags(0, 0, hb["boot"], hb["boot"])
      BY <1>1, CopyLags
    <3>5. gate.runtimeStarted =>
            Lags(0, Timeout, hb["runtime"], gate.runtime) /\ Lags(0, Timeout, hb["pd"], gate.pd)
      BY <1>1, <1>2, <3>3, AgeLags DEF NotRound
    <3> QED BY <2>1, <2>3, <3>1, <3>2, <3>4, <3>5 DEF NotRound
  <2>4. CASE RunFeeds /\ gate' = RunCopy /\ sinceFeed' = 0
    <3>1. started
      BY <2>4 DEF RunFeeds, Phases
    <3>2. gate'.runtime = hb["runtime"] /\ gate'.pd = hb["pd"]
      BY <2>4, CopyFields
    <3>3. CopyAge' \in Nat
      BY <1>2, <2>4 DEF CopyAge
    <3>4. Lags(0, CopyAge', hb["runtime"], hb["runtime"]) /\ Lags(0, CopyAge', hb["pd"], hb["pd"])
      BY <1>1, <3>3, CopyLags
    <3> QED BY <2>1, <3>1, <3>2, <3>4 DEF NotRound
  <2> QED BY <1>8, <2>2, <2>3, <2>4, PassCases DEF PeriodEnds
<1>9. CASE UNCHANGED vars
  BY <1>9 DEF vars, NotRound, CopyAge, BootFresh
<1> QED BY <1>3, <1>4, <1>5, <1>6, <1>7, <1>8, <1>9 DEF Next

\* A beat keeps what is known of a counter that was 0 at the last sample, or since.
LEMMA BeatZero ==
    ASSUME TypeOK, NEW t \in Tasks, Beat(t)
    PROVE  /\ JustZero(t) => hb'[t] = beats'[t]
           /\ ZeroBefore(t) => beats'[t] <= hb'[t] /\ hb'[t] <= beats'[t] + MaxBeats
<1>1. hb \in [Tasks -> Counter] /\ beats \in [Tasks -> 0..MaxBeats]
  BY DEF TypeOK
<1>2. beats[t] < MaxBeats
  BY DEF Beat
<1>3. beats'[t] = beats[t] + 1 /\ hb'[t] = IF hb[t] + 1 = HbModulus THEN 0 ELSE hb[t] + 1
  BY BeatType
<1>4. MaxBeats \in Nat /\ HbModulus \in Nat /\ 2 * MaxBeats < HbModulus
  BY BeatBounds
<1> QED BY <1>1, <1>2, <1>3, <1>4 DEF JustZero, ZeroBefore, Counter

\* A feed is refused at the end of a calm period only for a counter read at 0.
LEMMA RefusedForZero ==
    ASSUME TypeOK, Phases, NotRound, enabled, ~BootFeeds, ~RunFeeds,
           \A t \in Supervised : beats[t] > 0
    PROVE  \/ hb["runtime"] = 0 /\ (~started => hb["boot"] = 0)
           \/ started /\ required /\ hb["pd"] = 0
<1>1. /\ gate.boot \in Counter /\ gate.runtime \in Counter /\ gate.pd \in Counter
      /\ hb["boot"] \in Counter /\ hb["runtime"] \in Counter /\ hb["pd"] \in Counter
      /\ beats["boot"] \in 0..MaxBeats /\ beats["runtime"] \in 0..MaxBeats
      /\ beats["pd"] \in 0..MaxBeats
  BY DEF TypeOK, Gates, Tasks
<1>2. /\ sinceFeed \in Nat /\ CopyAge \in Nat
      /\ sinceFeed <= 2 * Timeout /\ CopyAge <= 2 * Timeout
  BY WatchdogAssumption DEF TypeOK, CopyAge
<1>3. gate.armed /\ MaxBeats \in Nat
  BY WatchdogAssumption DEF Phases
<1>4. CASE ~started
  <2>1. beats["boot"] \in 1..MaxBeats /\ hb["runtime"] = 0
    BY <1>1, <1>3, <1>4 DEF Supervised, Phases
  <2>2. hb["boot"] # gate.boot
    BY <1>1, <1>2, <1>4, <2>1, MovedDiffers DEF NotRound
  <2> QED BY <2>1, <2>2 DEF BootFeeds, BootFresh
<1>5. CASE started
  <2>1. beats["runtime"] \in 1..MaxBeats /\ (required => beats["pd"] \in 1..MaxBeats)
    BY <1>1, <1>3, <1>5 DEF Supervised
  <2>2. gate.runtimeStarted => hb["runtime"] # gate.runtime /\ (required => hb["pd"] # gate.pd)
    BY <1>1, <1>2, <2>1, MovedDiffers DEF NotRound
  <2>3. ~(gate.armed /\ gate.runtimeStarted /\ RuntimeStalled)
    BY <2>2 DEF RuntimeStalled
  <2> QED BY <1>5, <2>3 DEF RunFeeds
<1> QED BY <1>4, <1>5

LEMMA RefusalsStep == TypeOK /\ Phases /\ NotRound /\ Refusals /\ [Next]_vars => Refusals'
<1> SUFFICES ASSUME TypeOK, Phases, NotRound, Refusals, [Next]_vars PROVE Refusals'
  OBVIOUS
<1>0. "boot" \in Tasks /\ "runtime" \in Tasks /\ "pd" \in Tasks
  BY DEF Tasks
<1>1. CASE BootBeat
  <2>1. Beat("boot") /\ ~started /\ UNCHANGED <<calm, sinceFeed, started, required>>
    BY <1>1 DEF BootBeat
  <2>2. UNCHANGED <<hb["runtime"], beats["runtime"]>>
    BY <1>0, <2>1, BeatType
  <2>3. JustZero("boot") => JustZero("boot")'
    BY <1>0, <2>1, BeatZero DEF JustZero
  <2> QED BY <2>1, <2>2, <2>3 DEF Refusals, JustZero
<1>2. CASE RuntimeBeat
  <2>1. Beat("runtime") /\ started' /\ UNCHANGED <<calm, sinceFeed, required>>
    BY <1>2 DEF RuntimeBeat
  <2>2. UNCHANGED <<hb["pd"], beats["pd"]>>
    BY <1>0, <2>1, BeatType
  <2>3. /\ JustZero("runtime") => JustZero("runtime")'
        /\ ZeroBefore("runtime") => ZeroBefore("runtime")'
    BY <1>0, <2>1, BeatZero DEF JustZero, ZeroBefore
  <2>4. /\ JustZero("pd") => JustZero("pd")'
        /\ ZeroBefore("pd") => ZeroBefore("pd")'
    BY <2>2 DEF JustZero, ZeroBefore
  <2> QED BY <2>1, <2>3, <2>4 DEF Refusals
<1>3. CASE PdBeat
  <2>1. Beat("pd") /\ UNCHANGED <<calm, sinceFeed, required, started>>
    BY <1>3 DEF PdBeat
  <2>2. UNCHANGED <<hb["boot"], beats["boot"], hb["runtime"], beats["runtime"]>>
    BY <1>0, <2>1, BeatType
  <2>3. /\ JustZero("pd") => JustZero("pd")'
        /\ ZeroBefore("pd") => ZeroBefore("pd")'
    BY <1>0, <2>1, BeatZero DEF JustZero, ZeroBefore
  <2>4. /\ JustZero("runtime") => JustZero("runtime")'
        /\ ZeroBefore("runtime") => ZeroBefore("runtime")'
        /\ JustZero("boot") => JustZero("boot")'
    BY <2>2 DEF JustZero, ZeroBefore
  <2> QED BY <2>1, <2>3, <2>4 DEF Refusals
<1>4. ASSUME NEW found \in BOOLEAN, PdDetected(found) PROVE Refusals'
  <2>1. ~started /\ UNCHANGED <<calm, sinceFeed, started, hb, beats>>
    BY <1>4 DEF PdDetected
  <2> QED BY <2>1 DEF Refusals, JustZero
<1>5. CASE Enable
  <2>1. calm' = 0
    BY <1>5 DEF Enable, Phases
  <2> QED BY <2>1 DEF Refusals
<1>6. ASSUME NEW blocked \in BOOLEAN, PeriodEnds(blocked), calm' >= 1, sinceFeed' >= 1
      PROVE  Refusals'
  <2>1. /\ UNCHANGED <<hb, started, required>> /\ enabled
        /\ beats'["boot"] = 0 /\ beats'["runtime"] = 0 /\ beats'["pd"] = 0
    BY <1>0, <1>6 DEF PeriodEnds
  <2>2. ~blocked /\ \A t \in Supervised : beats[t] > 0
    BY <1>6 DEF PeriodEnds
  <2>3. ~BootFeeds /\ ~RunFeeds
    BY <1>6, <2>2, PassCases DEF PeriodEnds
  <2>4. \/ hb["runtime"] = 0 /\ (~started => hb["boot"] = 0)
        \/ started /\ required /\ hb["pd"] = 0
    BY <2>1, <2>2, <2>3, RefusedForZero
  <2>5. /\ hb["boot"] \in Nat /\ hb["runtime"] \in Nat /\ hb["pd"] \in Nat
        /\ beats["boot"] \in 0..MaxBeats /\ beats["runtime"] \in 0..MaxBeats
        /\ beats["pd"] \in 0..MaxBeats /\ MaxBeats \in Nat
    BY <1>0, WatchdogAssumption DEF TypeOK, Counter
  <2>6. /\ ~started => beats["boot"] > 0
        /\ started => beats["runtime"] > 0 /\ (required => beats["pd"] > 0)
    BY <2>2 DEF Supervised
  <2>7. /\ \A k \in Nat : calm' >= k + 1 => calm >= k
        /\ \A k \in Nat : sinceFeed' >= k + 1 => sinceFeed >= k
    BY <1>6 DEF TypeOK, PeriodEnds
  <2>8. \/ JustZero("runtime")' /\ (~started' => JustZero("boot")')
        \/ started' /\ required' /\ JustZero("pd")'
    BY <2>1, <2>4 DEF JustZero
  <2>9. ASSUME calm' >= 2, sinceFeed' >= 2
        PROVE  /\ started /\ hb["runtime"] <= MaxBeats /\ (required => hb["pd"] <= MaxBeats)
    <3>1. calm >= 1 /\ sinceFeed >= 1
      BY <2>7, <2>9
    <3>2. \/ JustZero("runtime") /\ (~started => JustZero("boot"))
          \/ started /\ required /\ JustZero("pd")
      BY <3>1 DEF Refusals
    <3> QED BY <2>4, <2>5, <2>6, <3>2 DEF JustZero
  <2>10. calm' >= 2 /\ sinceFeed' >= 2 =>
           started' /\ ZeroBefore("runtime")' /\ (required' => ZeroBefore("pd")')
    BY <2>1, <2>5, <2>9 DEF ZeroBefore
  <2>11. ~(calm' >= 3 /\ sinceFeed' >= 3)
    <3> SUFFICES ASSUME calm' >= 3, sinceFeed' >= 3 PROVE FALSE
      OBVIOUS
    <3>1. calm >= 2 /\ sinceFeed >= 2
      BY <2>7
    <3>2. started /\ ZeroBefore("runtime") /\ (required => ZeroBefore("pd"))
      BY <3>1 DEF Refusals
    <3> QED BY <2>4, <2>5, <2>6, <3>2 DEF ZeroBefore
  <2> QED BY <2>8, <2>10, <2>11 DEF Refusals
<1>7. ASSUME NEW blocked \in BOOLEAN, PeriodEnds(blocked) PROVE Refusals'
  <2>1. calm' \in Nat /\ sinceFeed' \in Nat
    BY <1>7, PeriodType DEF TypeOK
  <2>2. CASE calm' >= 1 /\ sinceFeed' >= 1
    BY <1>6, <1>7, <2>2
  <2>3. CASE ~(calm' >= 1 /\ sinceFeed' >= 1)
    BY <2>1, <2>3 DEF Refusals
  <2> QED BY <2>2, <2>3
<1>8. CASE UNCHANGED vars
  BY <1>8 DEF vars, Refusals, JustZero, ZeroBefore
<1> QED BY <1>1, <1>2, <1>3, <1>4, <1>5, <1>7, <1>8 DEF Next

\* Phases, distances to the gate's copies and the causes of refusals are invariant.
THEOREM LiveInvariance == Spec => []LiveInv
<1>1. Init => NotRound /\ Refusals
  <2> SUFFICES ASSUME Init PROVE NotRound /\ Refusals
    OBVIOUS
  <2>1. ~enabled /\ ~gate.runtimeStarted /\ calm = 0
    BY DEF Init
  <2> QED BY <2>1 DEF NotRound, Refusals
<1>2. Init => LiveInv
  BY <1>1, TypeInit DEF LiveInv
<1>3. LiveInv /\ [Next]_vars => LiveInv'
  BY TypeStep, PhasesStep, NotRoundStep, RefusalsStep DEF LiveInv
<1> QED BY <1>2, <1>3, PTL DEF Spec

\* While every supervised task beats and the supervisor passes in every period,
\* the chip is not reset.
THEOREM LiveIsNotReset == Spec => []LiveTasksAreNotReset
<1>1. LiveInv => LiveTasksAreNotReset
  <2> SUFFICES ASSUME LiveInv, reset PROVE calm < 3
    BY DEF LiveTasksAreNotReset
  <2>1. sinceFeed = Timeout /\ calm \in 0..Timeout /\ Timeout \in Nat
        /\ ~(calm >= 3 /\ sinceFeed >= 3)
    BY WatchdogAssumption DEF LiveInv, TypeOK, Phases, Refusals
  <2> QED BY <2>1
<1> QED BY LiveInvariance, <1>1, PTL
================================================================================
