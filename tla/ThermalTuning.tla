---- MODULE ThermalTuning ----
(***************************************************************************)
(* Firmware thermal tuning: the run state machine of thermal_tuning.rs,    *)
(* the control cycle of the runtime loop that feeds it, and the commands   *)
(* with which a host starts, reads, cancels, seals and saves a run.        *)
(*                                                                         *)
(* A run tunes its targets one after the other.  For each it heats trials  *)
(* of a candidate profile: a scout, then, if that is rejected, a predicted *)
(* variant, and at last a hold confirmation of what passed.  Every step is *)
(* recorded in a bounded ring of events which the host reads page by page  *)
(* and acknowledges.  A run whose targets were all accepted can be sealed  *)
(* and its candidate saved to the EEPROM.                                  *)
(*                                                                         *)
(* Abstractions.  A profile gives each target a point, a member of Points. *)
(* What a trial measures is a free choice of its outcome.  Times are left  *)
(* out but for "spent": whether the 20 minute budget of the target is over.*)
(* Events have no content, and a sequence number is kept as its distance   *)
(* to the last one: 0 is the last event, and each new event adds one to    *)
(* all distances, so that a run of any length has finitely many states.    *)
(* "Nothing acknowledged" is the distance of the number before the first.  *)
(***************************************************************************)
EXTENDS Integers, Sequences, FiniteSets, FiniteSetsExt

CONSTANTS
  Order,      \* the qualification targets in the order they are executed
  Bounds,     \* for each target, those that must have been accepted before it
  Scopes,     \* the target lists a host may ask for
  Points,     \* the points a target may be given
  Seed,       \* the point each target starts with
  RingSize,   \* capacity of the event ring (256)
  PageSize,   \* events in one answer to a read (6)
  LastTrial,  \* the last trial index of a target (255)
  MaxLag      \* bound: no wrong acknowledgement is sent beyond this backlog

Targets == {Order[i] : i \in DOMAIN Order}

ASSUME TuningAssumption ==
  /\ Order \in Seq(Targets) /\ Order \in Scopes
  /\ Bounds \in [Targets -> SUBSET Targets]
  /\ Scopes \subseteq Seq(Targets) \ {<<>>}
  \* start refuses a list that repeats a target
  /\ \A s \in Scopes : \A i, j \in DOMAIN s : s[i] = s[j] => i = j
  /\ Seed \in Points
  /\ {RingSize, PageSize, LastTrial, MaxLag} \subseteq Nat \ {0}

VARIABLES
  run,      \* the ThermalTuningRuntime
  preview,  \* the profile the heater control is using in place of the saved one
  heater,   \* heater_enabled
  waiting,  \* tuning_pd_wait_started_ms is set: a PD contract is awaited
  rearm     \* tuning_heater_rearm_pending

vars == <<run, preview, heater, waiting, rearm>>

Profiles == [Targets -> Points]
Heating == {"warmup", "approach", "hold"}

(***************************************************************************)
(* A run: phase, disposition and review; the scope, the current target     *)
(* (index), trial and purpose; the decided targets; the candidate, the     *)
(* loser of a batch kept for comparison, the points already proposed; the  *)
(* preview receipt; the event ring with its last acknowledged and last     *)
(* delivered event.  An optional profile is a set of at most one.          *)
(* The last four fields are history: the (target, point) pairs that passed *)
(* a scout and a confirmation, whether an event was dropped, and whether a *)
(* host has replaced the preview.                                          *)
(***************************************************************************)
Idle ==
  [phase |-> "idle", armed |-> FALSE, sealed |-> FALSE, terminal |-> "running",
   review |-> "pending", scope |-> Order, index |-> 1, trial |-> 0,
   purpose |-> "scout", spent |-> FALSE, accepted |-> {}, failed |-> {},
   candidate |-> [t \in Targets |-> Seed], batch |-> {}, proposed |-> {},
   pending |-> FALSE, receipt |-> {}, saved |-> {},
   held |-> {}, acked |-> 0, sent |-> 0, acks |-> 0, gap |-> FALSE,
   scouted |-> {}, confirmed |-> {}, dropped |-> FALSE, replaced |-> FALSE]

Init ==
  /\ run = Idle
  /\ preview = {}
  /\ heater = FALSE /\ waiting = FALSE /\ rearm = FALSE

Target(r) == r.scope[r.index]

\* push_event, n times in a row.  The events that find the ring full are
\* dropped, which leaves a gap, disarms the run and fails it.
Push(r, n) ==
  LET kept == Min({n, RingSize - Cardinality(r.held)})
      q == [r EXCEPT !.held = {l + n : l \in @} \cup (n - kept) .. (n - 1),
                     !.acked = @ + n, !.sent = @ + n]
  IN IF kept = n THEN q
     ELSE [q EXCEPT !.gap = TRUE, !.dropped = TRUE, !.review = "incomplete",
                    !.armed = FALSE, !.phase = "failed", !.terminal = "failed"]

Fail(r) ==
  Push([r EXCEPT !.armed = FALSE, !.sealed = FALSE, !.phase = "failed",
                 !.terminal = "failed", !.review = "complete"], 1)

FailIncomplete(r) == [Fail(r) EXCEPT !.review = "incomplete"]

\* fail_with_context: two facts before the failure, and a gap stays reported.
FailWithContext(r) ==
  LET f == Fail(Push(r, 2))
  IN IF f.gap THEN [f EXCEPT !.review = "incomplete"] ELSE f

----
(* The target scope *)

\* Fault: the failed targets are forgotten when the scope is complete.
CompleteIgnoringFailed(r) ==
  [r EXCEPT !.armed = FALSE, !.review = "complete", !.sealed = FALSE,
            !.phase = "completed", !.terminal = "candidate_ready"]

CompleteTargetScope(r) ==
  IF r.failed # {}
  THEN [r EXCEPT !.armed = FALSE, !.review = "complete",
                 !.phase = "failed", !.terminal = "failed"]
  ELSE [r EXCEPT !.armed = FALSE, !.review = "complete", !.sealed = FALSE,
                 !.phase = "completed", !.terminal = "candidate_ready"]

\* Only the full qualification scope prunes intervals.
RequiredBounds(r, t) == IF r.scope = Order THEN Bounds[t] ELSE {}

Reseeded(r) == [r EXCEPT !.pending = TRUE, !.receipt = {}]

\* The next targets whose bounds were not accepted fail, with an event each;
\* the first other one is cooled for, and if there is none the scope is done.
NextTarget(r) ==
  LET later == {i \in DOMAIN r.scope : i > r.index}
      open == {i \in later : RequiredBounds(r, r.scope[i]) \subseteq r.accepted}
      next == IF open = {} THEN Len(r.scope) ELSE Min(open)
      pruned == {i \in later \ open : i <= next}
      q == [r EXCEPT !.index = next, !.trial = 0, !.purpose = "scout",
                     !.batch = {}, !.proposed = {}, !.spent = FALSE,
                     !.failed = @ \cup {r.scope[i] : i \in pruned}]
      p == Push(q, Cardinality(pruned))
      n == IF RequiredBounds(p, Target(p)) = {} THEN p ELSE Reseeded(p)
  IN IF later = {} THEN CompleteTargetScope(r)
     ELSE IF open = {} THEN CompleteTargetScope(p)
     ELSE Push([n EXCEPT !.phase = "cooldown"], 1)

\* Fault: a run disarmed by a dropped event moves on.
AdvanceDisarmed(r) == NextTarget(r)

\* advance_target: NotRunning when a dropped event has just disarmed the run.
AdvanceTarget(r) == IF r.armed THEN NextTarget(r) ELSE r

FailTarget(r) == [r EXCEPT !.failed = @ \cup {Target(r)}]

ScheduleTrial(r, purpose) ==
  IF r.spent \/ r.trial = LastTrial
  THEN AdvanceTarget(FailTarget(r))
  ELSE Push([r EXCEPT !.trial = @ + 1, !.purpose = purpose,
                      !.phase = "cooldown"], 1)

----
(* What follows a trial: the sets of states it may lead to *)

\* Fault: the new candidate is used under the receipt of the previous one.
InstallSilently(r, profile) == [r EXCEPT !.candidate = profile]

InstallCandidate(r, profile) == Reseeded([r EXCEPT !.candidate = profile])

\* exhaust_candidate_search, after a failed search has put the candidate back.
\* The search may have asked for a preview of what it then put back.
Exhausted(r) ==
  {AdvanceTarget(Push(FailTarget(q), 1)) : q \in {r, Reseeded(r)}}

\* prepare_fresh_failure_proposal: a point not proposed before for this target,
\* with or without an event of its own.
FreshProposals(r) ==
  LET t == Target(r)
      fresh == Points \ (r.proposed \cup {r.candidate[t]})
      propose(v) == [InstallCandidate(r, [r.candidate EXCEPT ![t] = v])
                       EXCEPT !.proposed = @ \cup {v, r.candidate[t]}]
  IN {Push(propose(v), n) : v \in fresh, n \in 0 .. 1}

\* prepare_candidate_batch: the rejected scout is compared with a variant.
PrepareBatch(r) ==
  {ScheduleTrial(Push([p EXCEPT !.batch = {r.candidate}], 1), "predicted")
     : p \in FreshProposals(r)}
  \cup Exhausted(r)

NextRound(r) ==
  {ScheduleTrial(p, "scout") : p \in FreshProposals(r)} \cup Exhausted(r)

\* Fault: the winner of two rejected candidates goes on to confirmation.
ConfirmsWinner(r, passes) ==
  LET decided(q) == [Push(q, 1) EXCEPT !.batch = {}]
  IN IF passes THEN {ScheduleTrial(decided(r), "confirm")}
     ELSE {ScheduleTrial(decided(InstallCandidate(r, p)), "confirm") : p \in r.batch}

\* finish_candidate_batch: a variant that passed is confirmed; of two rejected
\* ones the better is the base of the next round.
FinishBatch(r, passes) ==
  LET decided(q) == [Push(q, 1) EXCEPT !.batch = {}]
  IN IF passes THEN {ScheduleTrial(decided(r), "confirm")}
     ELSE UNION {NextRound(decided(q)) :
                   q \in {r} \cup {InstallCandidate(r, p) : p \in r.batch}}

AcceptTarget(r) ==
  AdvanceTarget([r EXCEPT !.accepted = @ \cup {Target(r)},
                          !.confirmed = @ \cup {<<Target(r), r.candidate[Target(r)]>>}])

Scouted(r) == [r EXCEPT !.scouted = @ \cup {<<Target(r), r.candidate[Target(r)]>>}]

AfterPassed(r) ==
  CASE r.purpose = "scout"     -> {ScheduleTrial(Scouted(r), "confirm")}
    [] r.purpose = "predicted" -> FinishBatch(Scouted(r), TRUE)
    [] r.purpose = "confirm"   -> {AcceptTarget(r)}

\* A scout rejected without a full-output warmup fails its target.
AfterRejected(r) ==
  CASE r.purpose = "scout"     -> PrepareBatch(r) \cup {AdvanceTarget(FailTarget(r))}
    [] r.purpose = "predicted" -> FinishBatch(r, FALSE)
    [] r.purpose = "confirm"   ->
         IF r.spent \/ r.trial = LastTrial
         THEN {AdvanceTarget(Push(FailTarget(r), 1))}
         ELSE NextRound(r)

\* finish_warmup_timeout: the same candidate again from a warmer start, or no more.
AfterWarmupTimeout(r) ==
  {AdvanceTarget(Push(FailTarget(r), 1))}
  \cup (IF r.spent THEN {} ELSE {ScheduleTrial(Push(r, 1), r.purpose)})

\* finish_trial with advance_after_trial, for a trial whose last sample was in
\* the given phase: two events, then the decision.
FinishTrial(r, phase) ==
  LET q == Push(r, 2)
  IN AfterRejected(q)
     \cup (IF q.phase = "warmup" THEN AfterWarmupTimeout(q) ELSE {})
     \cup (IF phase = "hold" /\ (~q.spent \/ q.purpose = "confirm")
           THEN AfterPassed(q) ELSE {})

----
(* Samples *)

\* The budget of the target may be over at any sample.
Timed(r) == {[r EXCEPT !.spent = b] : b \in {r.spent, TRUE}}

\* record_cooldown_sample
CoolSamples(r) ==
  LET q == Push(r, 1)
      admitted == Push([q EXCEPT !.phase = "warmup"], 2)
  IN IF r.spent THEN {AdvanceTarget(Push(FailTarget(q), 1))}
     ELSE {q} \cup (IF q.armed THEN {admitted} ELSE {})

\* record_sample: a Hold that is left fails the run, an exhausted budget ends
\* the trial unless a confirmation is still verifying its stable window.
HeatSamples(r, phase) ==
  LET q == Push([r EXCEPT !.phase = phase], IF r.phase = phase THEN 1 ELSE 2)
  IN IF r.phase = "hold" /\ phase # "hold" THEN {Fail(q)}
     ELSE FinishTrial(q, phase)
          \cup (IF r.spent /\ r.purpose # "confirm" THEN {} ELSE {q})

Samples(r) ==
  IF r.phase = "cooldown" THEN CoolSamples(r)
  ELSE UNION {HeatSamples(r, phase) : phase \in Heating}

----
(* The control cycle of the runtime loop while a run is armed *)

\* runtime_apply_pending_tuning_preview.  Its check that the phase is Cooldown
\* is HeatsAsPreviewed.
Applied(r) ==
  IF r.pending THEN [r EXCEPT !.receipt = {r.candidate}, !.pending = FALSE] ELSE r

AppliedPreview == IF run.pending THEN {run.candidate} ELSE preview

\* The contract is there: the end of a wait arms the heater it had paused.
Rearmed(decision) == heater \/ (decision = "ready" /\ waiting /\ rearm)

\* runtime_apply_pd_snapshot: the contract is lost (which also clears the
\* heater), or a request failed, timed out or came back in another class.
CyclePowerFails(lost) ==
  /\ run.armed
  /\ run' = FailWithContext(run)
  /\ preview' = {}
  /\ heater' = (heater /\ ~lost)
  /\ waiting' = FALSE /\ rearm' = FALSE

\* A contract is being negotiated: no sample is taken.
CycleWaits ==
  /\ run.armed
  /\ waiting' = TRUE
  /\ rearm' = (rearm \/ heater)
  /\ run' = Applied(run)
  /\ preview' = AppliedPreview
  /\ heater' = (heater /\ run.phase # "cooldown")

\* runtime_reconcile_tuning_interlock: a fault or lock has cleared the heater,
\* or something else has, during a trial.
CycleInterlock(wait) ==
  /\ run.armed /\ run.phase # "cooldown"
  /\ run' = Fail(Applied(run))
  /\ preview' = {}
  /\ heater' = FALSE
  /\ waiting' = wait
  /\ rearm' = (wait /\ (rearm \/ heater))

\* runtime_production_pid_snapshot: the source has changed its class.
CycleSourceChanged ==
  /\ run.armed
  /\ run' = Fail(Applied(run))
  /\ preview' = AppliedPreview
  /\ heater' = FALSE
  /\ waiting' = FALSE /\ rearm' = FALSE

\* runtime_complete_tuning_sample: after a sample the heater is on only within
\* a trial, and a failed run loses its preview.
AfterSample(r, on) ==
  /\ run' = r
  /\ heater' = (r.armed /\ r.phase # "cooldown" /\ on)
  /\ preview' = IF ~r.armed /\ r.terminal = "failed" THEN {} ELSE AppliedPreview
  /\ waiting' = FALSE /\ rearm' = FALSE

\* A sample of the cooldown; entering Warmup arms the heater.
CycleCools ==
  /\ run.armed /\ run.phase = "cooldown"
  /\ \E q \in Timed(Applied(run)) : \E r \in Samples(q) : AfterSample(r, TRUE)

\* A sample of a trial.
CycleHeats(decision) ==
  /\ run.armed /\ run.phase \in Heating
  /\ Rearmed(decision)
  /\ \E q \in Timed(Applied(run)) : \E r \in Samples(q) : AfterSample(r, TRUE)

\* validate_sample rejects the sample.
CycleUnsafe ==
  /\ run.armed
  /\ AfterSample(Fail(Applied(run)), FALSE)

\* No run is armed: a wait it has left is forgotten.
CycleIdle ==
  /\ ~run.armed
  /\ waiting' = FALSE /\ rearm' = FALSE
  /\ UNCHANGED <<run, preview, heater>>

Cycle ==
  \/ CycleIdle
  \/ \E lost \in BOOLEAN : CyclePowerFails(lost)
  \/ CycleWaits
  \/ \E wait \in BOOLEAN : CycleInterlock(wait)
  \/ CycleSourceChanged
  \/ CycleCools
  \/ \E decision \in {"ready", "continue"} : CycleHeats(decision)
  \/ CycleUnsafe

----
(* Commands of the host.  Each answer carries the first page of events. *)

\* events_after_into without an acknowledgement, and with one of the events up
\* to distance `to`: the next page is delivered.
Delivered(r) ==
  LET place(l) == Cardinality({k \in r.held : k >= l})
      page == {l \in r.held : place(l) <= PageSize}
  IN IF page = {} THEN r ELSE [r EXCEPT !.sent = Min({@, Min(page)})]

Acknowledged(r, to) ==
  Delivered([r EXCEPT !.acked = to,
                      !.acks = Min({2, @ + Cardinality({l \in r.held : l >= to})}),
                      !.held = {l \in @ : l < to}])

Read ==
  /\ run' = Delivered(run)
  /\ UNCHANGED <<preview, heater, waiting, rearm>>

Acknowledge ==
  /\ run' = Acknowledged(run, run.sent)
  /\ UNCHANGED <<preview, heater, waiting, rearm>>

\* A repeated or overtaken read acknowledges less than an earlier one.
ReadAgain ==
  /\ run.acks = 2
  /\ run' = Delivered(IF run.held = {} THEN run
                      ELSE [run EXCEPT !.gap = TRUE, !.review = "incomplete"])
  /\ UNCHANGED <<preview, heater, waiting, rearm>>

\* An acknowledgement of an event that was never delivered fails the run.
AcknowledgeUnsent ==
  /\ run.acked < MaxLag
  /\ run' = Delivered([FailIncomplete(run) EXCEPT !.gap = TRUE])
  /\ UNCHANGED <<preview, heater, waiting, rearm>>

\* process_thermal_tuning_start.  Whatever the previous run left is discarded,
\* also when the start is then refused.
Start(scope) ==
  LET r == [Idle EXCEPT !.scope = scope]
  IN /\ ~run.armed
     /\ \/ /\ preview = {}
           /\ run' = Delivered(Push([r EXCEPT !.phase = "cooldown", !.armed = TRUE,
                                              !.pending = TRUE], 1))
        \/ run' = Fail(r)
     /\ heater' = FALSE
     /\ UNCHANGED <<preview, waiting, rearm>>

\* AlreadyRunning: the error path clears the heater of the run in progress.
StartAgain ==
  /\ run.armed
  /\ heater' = FALSE
  /\ UNCHANGED <<run, preview, waiting, rearm>>

Cancel ==
  /\ run.armed \/ run.sealed \/ run.terminal = "candidate_ready"
  /\ run' = Delivered(Push([run EXCEPT !.armed = FALSE, !.sealed = FALSE,
                                       !.phase = "canceled", !.terminal = "canceled",
                                       !.review = "complete"], 1))
  /\ preview' = {}
  /\ heater' = FALSE
  /\ UNCHANGED <<waiting, rearm>>

Seal ==
  /\ run.terminal = "candidate_ready" /\ ~run.sealed
  /\ run.acked = 0 /\ ~run.pending /\ run.receipt # {}
  /\ run' = Delivered(Push([run EXCEPT !.sealed = TRUE, !.phase = "sealed"], 1))
  /\ heater' = FALSE
  /\ UNCHANGED <<preview, waiting, rearm>>

\* validate_save_identity and the comparison of the preview.
Savable ==
  run.acked = 0 /\ run.scope = Order /\ run.receipt = {run.candidate}
  /\ preview = {run.candidate}

\* A save that does not qualify fails the run.
ConfirmSaveRejected ==
  /\ run.sealed /\ ~Savable
  /\ run' = IF run.acked # 0 THEN FailIncomplete(run) ELSE Fail(run)
  /\ heater' = FALSE
  /\ UNCHANGED <<preview, waiting, rearm>>

\* A save for another candidate, or one the EEPROM refuses.
ConfirmSaveFails ==
  /\ run.sealed /\ Savable
  /\ run' \in {FailIncomplete(run), Fail(run)}
  /\ heater' = FALSE
  /\ UNCHANGED <<preview, waiting, rearm>>

ConfirmSave ==
  /\ run.sealed /\ Savable
  /\ run' = Delivered(Push([run EXCEPT !.saved = {run.candidate}, !.phase = "completed",
                                       !.terminal = "passed"], 1))
  /\ preview' = {}
  /\ heater' = FALSE
  /\ UNCHANGED <<waiting, rearm>>

\* runtime_config previews a profile or clears the preview, run or no run.
\* Bound: once in a run.
HostPreview ==
  /\ ~run.replaced
  /\ \E p \in SUBSET {[t \in Targets |-> Seed]} : p # preview /\ preview' = p
  /\ run' = [run EXCEPT !.replaced = TRUE]
  /\ UNCHANGED <<heater, waiting, rearm>>

\* The heater is switched from the front panel or by a host.  Without an armed
\* run nothing here looks at the heater.
HostHeater ==
  /\ run.armed
  /\ heater' = ~heater
  /\ UNCHANGED <<run, preview, waiting, rearm>>

\* A restart loses the run.
Restart ==
  /\ run' = Idle
  /\ preview' = {}
  /\ heater' = FALSE /\ waiting' = FALSE /\ rearm' = FALSE

Commands ==
  \/ Read \/ Acknowledge \/ ReadAgain \/ AcknowledgeUnsent
  \/ \E scope \in Scopes : Start(scope)
  \/ StartAgain \/ Cancel \/ Seal
  \/ ConfirmSaveRejected \/ ConfirmSaveFails \/ ConfirmSave
  \/ HostPreview \/ HostHeater \/ Restart

Next == Cycle \/ Commands

Spec == Init /\ [][Next]_vars

----
(* Properties *)

Lags == 0 .. MaxLag + 16

TypeOK ==
  /\ run.phase \in Heating \cup {"idle", "cooldown", "sealed", "completed", "failed", "canceled"}
  /\ run.terminal \in {"running", "candidate_ready", "passed", "failed", "canceled"}
  /\ run.review \in {"pending", "complete", "incomplete"}
  /\ run.scope \in Scopes /\ run.index \in DOMAIN run.scope
  /\ run.trial \in 0 .. LastTrial /\ run.purpose \in {"scout", "predicted", "confirm"}
  /\ run.accepted \subseteq Targets /\ run.failed \subseteq Targets
  /\ run.candidate \in Profiles /\ run.proposed \subseteq Points
  /\ run.held \subseteq Lags /\ Cardinality(run.held) <= RingSize
  /\ run.acked \in Lags /\ run.sent \in 0 .. run.acked
  /\ {preview, run.batch, run.receipt, run.saved} \subseteq SUBSET Profiles

\* A trial heats only with the candidate its events name: the preview was
\* applied at the boundary of the trial and its receipt is the candidate's,
\* unless a host has replaced the preview meanwhile.
HeatsAsPreviewed ==
  run.armed /\ run.phase \in Heating =>
    /\ ~run.pending /\ run.receipt = {run.candidate}
    /\ preview = {run.candidate} \/ run.replaced

\* A run in progress has decided exactly the targets before the current one, none
\* both ways, and a candidate is ready only when all its targets were accepted.
EveryTargetIsDecided ==
  /\ run.accepted \cap run.failed = {}
  /\ run.armed => run.accepted \cup run.failed = {run.scope[i] : i \in 1 .. run.index - 1}
  /\ run.terminal \in {"candidate_ready", "passed"} =>
       run.accepted = {run.scope[i] : i \in DOMAIN run.scope}

\* A candidate is ready, sealed or saved only if no event of its run was
\* dropped, and sealed only after each earlier event was delivered.
SealedTraceIsWhole ==
  /\ run.terminal \in {"candidate_ready", "passed"} => ~run.dropped
  /\ run.sealed => run.sent <= 2 /\ run.held \subseteq {0, 1}

\* What is saved is the candidate of a qualification run each of whose points
\* passed a short trial and then a hold confirmation, and was not changed
\* while later targets were tuned.
SavesOnlyConfirmed ==
  \A p \in run.saved :
    /\ run.scope = Order
    /\ \A t \in Targets : <<t, p[t]>> \in run.scouted \cap run.confirmed

\* However a run ends, it leaves the heater off.
DisarmStopsHeat == [][run.armed /\ ~run'.armed => ~heater']_vars
====
