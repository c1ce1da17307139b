------------------------------- MODULE Watchdog -------------------------------
(***************************************************************************)
(* The watchdog supervisor: it feeds the hardware watchdog only when the     *)
(* heartbeats of the current phase have moved since its last feed            *)
(* (watchdog.rs).  Boot stages beat one counter, the runtime loop another,   *)
(* the PD service (once boot has found a controller) a third.  Time is cut    *)
(* into sampling periods.  The supervisor shares the thread executor with the *)
(* runtime loop, so a blocked executor makes it miss the end of a period.    *)
(***************************************************************************)
EXTENDS Integers

CONSTANTS
    HbModulus,  \* heartbeat counters wrap here (2^32 in the firmware)
    MaxBeats,   \* beats of one task in one period
    Timeout     \* WATCHDOG_TIMEOUT_MS in periods of WATCHDOG_SAMPLE_MS (100 in the firmware)

ASSUME WatchdogAssumption ==
    /\ HbModulus \in Nat /\ MaxBeats \in Nat \ {0} /\ Timeout \in Nat \ {0}
    /\ MaxBeats * (2 * Timeout + 2) < HbModulus

Tasks == {"boot", "runtime", "pd"}

VARIABLES
    hb,         \* BOOT_HEARTBEAT, RUNTIME_HEARTBEAT, PD_HEARTBEAT
    required,   \* PD_SERVICE_REQUIRED
    started,    \* the runtime loop runs, boot is over
    enabled,    \* WATCHDOG_ENABLED: the hardware counts
    gate,       \* WatchdogFeedGate
    sinceFeed,  \* periods the hardware has counted since it was fed
    reset,      \* the hardware has reset the chip
    beats,      \* beats of each task in this period
    idle,       \* history: periods for which each supervised task has not beaten
    calm        \* history: periods in a row in which every supervised task was alive

vars == <<hb, required, started, enabled, gate, sinceFeed, reset, beats, idle, calm>>

Counter == 0..(HbModulus - 1)
IdleCap == 3 * Timeout
Gates   == [boot : Counter, runtime : Counter, pd : Counter,
            armed : BOOLEAN, runtimeStarted : BOOLEAN]

\* Type invariant: heartbeat counters within their width, the gate's record.
TypeOK ==
    /\ hb \in [Tasks -> Counter]
    /\ required \in BOOLEAN /\ started \in BOOLEAN /\ enabled \in BOOLEAN
    /\ gate \in Gates
    /\ sinceFeed \in 0..Timeout
    /\ reset \in BOOLEAN
    /\ beats \in [Tasks -> 0..MaxBeats]
    /\ idle \in [Tasks -> 0..IdleCap]
    /\ calm \in 0..Timeout

\* The moment run() arms the watchdog: it has just recorded the first boot beat.
Init ==
    /\ hb = [t \in Tasks |-> IF t = "boot" THEN 1 ELSE 0]
    /\ required = FALSE /\ started = FALSE /\ enabled = FALSE
    /\ gate = [boot |-> 0, runtime |-> 0, pd |-> 0, armed |-> FALSE, runtimeStarted |-> FALSE]
    /\ sinceFeed = 0 /\ reset = FALSE
    /\ beats = [t \in Tasks |-> 0]
    /\ idle = [t \in Tasks |-> 0]
    /\ calm = 0

Beat(t) ==
    /\ ~reset
    /\ beats[t] < MaxBeats
    /\ hb' = [hb EXCEPT ![t] = (@ + 1) % HbModulus]
    /\ beats' = [beats EXCEPT ![t] = @ + 1]

\* record_boot_heartbeat, at every boot stage and in the boot-time USB recovery.
BootBeat ==
    /\ enabled /\ ~started
    /\ Beat("boot")
    /\ UNCHANGED <<required, started, enabled, gate, sinceFeed, reset, idle, calm>>

\* mark_starting_fusb302b (then the PD service is spawned) and mark_unavailable.
PdDetected(found) ==
    /\ ~reset /\ enabled /\ ~started
    /\ required' = found
    /\ UNCHANGED <<hb, started, enabled, gate, sinceFeed, reset, beats, idle, calm>>

\* record_runtime_heartbeat, once per pass of the runtime loop; the first one
\* ends the boot phase.
RuntimeBeat ==
    /\ enabled
    /\ Beat("runtime")
    /\ started' = TRUE
    /\ UNCHANGED <<required, enabled, gate, sinceFeed, reset, idle, calm>>

\* record_pd_heartbeat, at the end of a PD turn that got the bus.
PdBeat ==
    /\ required
    /\ Beat("pd")
    /\ UNCHANGED <<required, started, enabled, gate, sinceFeed, reset, idle, calm>>

\* Fault: progress of one of the two tasks is enough.
BothStalled == hb["runtime"] = gate.runtime /\ (required => hb["pd"] = gate.pd)

\* Fault: PD progress is demanded where no PD service runs.
EitherStalled == hb["runtime"] = gate.runtime \/ hb["pd"] = gate.pd

\* The runtime phase's comparison in observe.
RuntimeStalled == hb["runtime"] = gate.runtime \/ (required /\ hb["pd"] = gate.pd)

\* WatchdogFeedGate::observe: the gate afterwards, and whether it says feed.
Observe ==
    LET boot == hb["boot"]  runtime == hb["runtime"]  pd == hb["pd"]
        Refuse       == [feed |-> FALSE, gate |-> gate]
        FeedBoot     == [feed |-> TRUE,
                         gate |-> [gate EXCEPT !.boot = boot, !.armed = TRUE]]
        FeedRuntime  == [feed |-> TRUE,
                         gate |-> [gate EXCEPT !.runtime = runtime, !.pd = pd,
                                               !.armed = TRUE, !.runtimeStarted = TRUE]]
    IN  IF runtime = 0
          THEN IF boot = 0 \/ (gate.armed /\ boot = gate.boot) THEN Refuse ELSE FeedBoot
        ELSE IF required /\ pd = 0 THEN Refuse
        ELSE IF ~gate.armed \/ ~gate.runtimeStarted THEN FeedRuntime
        ELSE IF RuntimeStalled THEN Refuse
        ELSE FeedRuntime

\* The tasks the watchdog answers for in the present phase.
Supervised == IF ~started THEN {"boot"}
              ELSE {"runtime"} \cup (IF required THEN {"pd"} ELSE {})

\* The first pass of watchdog_task after arm_watchdog: enable the hardware, and
\* feed it for the beat run() has recorded.
Enable ==
    /\ ~enabled
    /\ enabled' = TRUE
    /\ gate' = Observe.gate
    /\ UNCHANGED <<hb, required, started, sinceFeed, reset, beats, idle, calm>>

\* A period ends.  If the executor is not blocked, watchdog_task makes its pass
\* and feeds when the gate agrees (its check of the heater permit is in
\* HeaterPermit).  The hardware resets the chip when it has counted Timeout
\* periods without a feed.
PeriodEnds(blocked) ==
    /\ ~reset /\ enabled
    /\ gate' = IF blocked THEN gate ELSE Observe.gate
    /\ sinceFeed' = IF ~blocked /\ Observe.feed THEN 0 ELSE sinceFeed + 1
    /\ reset' = (sinceFeed' = Timeout)
    /\ idle' = [t \in Tasks |-> IF t \notin Supervised \/ beats[t] > 0 THEN 0
                                ELSE IF idle[t] < IdleCap THEN idle[t] + 1 ELSE idle[t]]
    /\ calm' = IF ~blocked /\ \A t \in Supervised : beats[t] > 0
                 THEN IF calm < Timeout THEN calm + 1 ELSE calm
                 ELSE 0
    /\ beats' = [t \in Tasks |-> 0]
    /\ UNCHANGED <<hb, required, started, enabled>>

Next == \/ BootBeat \/ RuntimeBeat \/ PdBeat
        \/ \E found \in BOOLEAN : PdDetected(found)
        \/ Enable
        \/ \E blocked \in BOOLEAN : PeriodEnds(blocked)

Spec == Init /\ [][Next]_vars

-----------------------------------------------------------------------------
(* Properties.                                                               *)

\* A boot stage, the runtime loop or a required PD service that stops beating is
\* reset within three timeouts, wherever its counter stopped and however late
\* the supervisor saw its last beat.  (Two would do, but for a runtime counter read
\* at 0 after a wrap: the gate then falls back on a boot beat it has not seen yet.)
StalledTaskIsReset == ~reset => \A t \in Tasks : idle[t] < 3 * Timeout

\* As long as every supervised task beats and the supervisor passes in every
\* period, the chip is not reset, although a counter read at 0 costs a feed.
LiveTasksAreNotReset == reset => calm < 3
=============================================================================
