----------------------------- MODULE HeaterPermit -----------------------------
(***************************************************************************)
(* The heater interlock: PD_HEATER_PERMIT with its expiry, the PWM gate that *)
(* consults them, the PD service that grants and revokes, the watchdog       *)
(* supervisor that revokes what has expired, and the runtime loop that       *)
(* applies duty (support.rs, pd_service.rs, watchdog.rs, power.rs,           *)
(* flash_preparation.rs).                                                    *)
(*                                                                           *)
(* A PD turn publishes atomically, from an interrupt executor.  Runtime loop *)
(* and supervisor share the thread executor: one operation at a time, split  *)
(* at every access to the two atomics.  The gate's own check and write are   *)
(* one critical section.  Milliseconds are ticks of a wrapping clock.        *)
(***************************************************************************)
EXTENDS Integers

CONSTANTS
    Modulus,     \* the clock wraps here (2^32 ms in the firmware)
    MaxAge,      \* PD_SNAPSHOT_MAX_AGE_MS in ticks; the supervisor samples once a tick
    StartTimes,  \* clock readings at which this instance begins
    Horizon      \* the clock reading at which this instance stops

ASSUME ClockAssumption ==
    /\ Modulus \in Nat /\ Modulus > 0 /\ Modulus % 2 = 0
    /\ MaxAge \in Nat \ {0} /\ 2 * MaxAge < Modulus
    /\ StartTimes \subseteq 0..(Modulus - 1)
    /\ Horizon \in 0..(Modulus - 1)

Duties == {0, 100}   \* off, or some duty: the level plays no part here

VARIABLES
    now,       \* Instant::now() as u32
    permit,    \* PD_HEATER_PERMIT
    expires,   \* PD_HEATER_PERMIT_EXPIRES_AT_MS
    duty,      \* what the PWM pin is driven with
    active,    \* PD_SERVICE_SNAPSHOT.active is some contract
    hold,      \* FLASH_PREPARATION_HOLD
    th,        \* the thread executor's operation: [pc, seen, want]
    sampled,   \* the supervisor has sampled in this tick
    age        \* history: ticks since the PD service last granted the permit

vars == <<now, permit, expires, duty, active, hold, th, sampled, age>>
gate == <<permit, expires, duty>>

AgeCap == MaxAge + 3
Resting == [pc |-> "rest", seen |-> 0, want |-> 0]

\* Type invariant: permit and expiry atomics, the pin, the thread's operation.
TypeOK ==
    /\ now \in 0..(Modulus - 1) /\ expires \in 0..(Modulus - 1)
    /\ permit \in {0, 1}
    /\ duty \in Duties
    /\ active \in BOOLEAN /\ hold \in BOOLEAN /\ sampled \in BOOLEAN
    /\ th \in [pc : {"rest", "applyPermit", "applyWrite", "wdExpiry", "wdPermit",
                     "off", "offExpiry", "offDuty"},
               seen : 0..(Modulus - 1), want : Duties]
    /\ age \in 0..AgeCap

Init ==
    /\ now \in StartTimes
    /\ permit = 0 /\ expires = 0 /\ duty = 0
    /\ active = FALSE /\ hold = FALSE
    /\ th = Resting /\ sampled = FALSE
    /\ age = AgeCap

\* Fault: the expiry is not looked at.
ActiveWithoutExpiry(flag, deadline) == flag # 0

\* heater_permit_is_active on the loaded values: the wrapping difference, read
\* as a signed number, is negative.
PermitIsActive(flag, deadline) == flag # 0 /\ (now - deadline) % Modulus >= Modulus \div 2

\* Fault: a write without an active permit only clears the flag.
SetDutyLeavesPin(d) ==
    IF PermitIsActive(permit, expires)
      THEN duty' = d /\ UNCHANGED permit
      ELSE permit' = 0 /\ UNCHANGED duty

\* HeaterPwmGate::set_duty_cycle, one critical section.  (Before the pin is
\* attached at boot nothing is driven; its driver cannot fail.)
SetDutyCycle(d) ==
    IF PermitIsActive(permit, expires)
      THEN duty' = d /\ UNCHANGED permit
      ELSE duty' = 0 /\ permit' = 0

-----------------------------------------------------------------------------
(* publish_pd_snapshot, at the end of a PD turn.                             *)

Grant ==
    /\ expires' = (now + MaxAge) % Modulus
    /\ permit' = 1
    /\ age' = 0
    /\ UNCHANGED <<now, duty, hold, th, sampled>>

\* A ready observation of the confirmed contract.
PdReady == active' = TRUE /\ Grant

\* A same-range PPS adjustment for calibration or the thermal plant keeps the
\* permit whether or not the turn observed a contract.
PdContinuousPps == active' \in BOOLEAN /\ Grant

\* A turn without an observation, in the middle of a healthy negotiation, keeps
\* a permit that is still active for a contract that was active.
PdPreserve ==
    /\ active /\ PermitIsActive(permit, expires)
    /\ UNCHANGED active
    /\ Grant

\* Any other turn, a turn that found the bus busy included: force_off.
PdRevoke ==
    /\ permit' = 0 /\ expires' = 0 /\ duty' = 0
    /\ active' = FALSE
    /\ UNCHANGED <<now, hold, th, sampled, age>>

-----------------------------------------------------------------------------
(* The thread executor.                                                      *)

ThreadOnly == UNCHANGED <<now, active, age>>

\* Fault: the runtime loop does not look at the hold.
ApplyIgnoresHold(d) ==
    /\ th = Resting
    /\ th' = [pc |-> "applyPermit", seen |-> expires, want |-> d]
    /\ UNCHANGED <<gate, hold, sampled>> /\ ThreadOnly

\* apply_heater_duty: loads the expiry, then the flag, then writes through the
\* gate, which checks again.  The runtime loop asks for heat only while no
\* flash preparation holds.
ApplyBegin(d) ==
    /\ th = Resting
    /\ hold => d = 0
    /\ th' = [pc |-> "applyPermit", seen |-> expires, want |-> d]
    /\ UNCHANGED <<gate, hold, sampled>> /\ ThreadOnly

ApplyPermit ==
    /\ th.pc = "applyPermit"
    /\ th' = [th EXCEPT !.pc = "applyWrite",
                        !.want = IF PermitIsActive(permit, th.seen) THEN @ ELSE 0]
    /\ UNCHANGED <<gate, hold, sampled>> /\ ThreadOnly

ApplyWrite ==
    /\ th.pc = "applyWrite"
    /\ SetDutyCycle(th.want)
    /\ th' = Resting
    /\ UNCHANGED <<expires, hold, sampled>> /\ ThreadOnly

\* force_off on the thread executor: clear the flag, clear the expiry, drive 0.
ForceOffBegin ==
    /\ th = Resting
    /\ th' = [th EXCEPT !.pc = "off"]
    /\ UNCHANGED <<gate, hold, sampled>> /\ ThreadOnly

ForceOffPermit ==
    /\ th.pc = "off"
    /\ permit' = 0
    /\ th' = [th EXCEPT !.pc = "offExpiry"]
    /\ UNCHANGED <<expires, duty, hold, sampled>> /\ ThreadOnly

ForceOffExpiry ==
    /\ th.pc = "offExpiry"
    /\ expires' = 0
    /\ th' = [th EXCEPT !.pc = "offDuty"]
    /\ UNCHANGED <<permit, duty, hold, sampled>> /\ ThreadOnly

ForceOffDuty ==
    /\ th.pc = "offDuty"
    /\ SetDutyCycle(0)
    /\ th' = Resting
    /\ UNCHANGED <<expires, hold, sampled>> /\ ThreadOnly

\* start_hold and clear_hold: store the hold, then force_off.
StoreHold(h) ==
    /\ th = Resting
    /\ hold' = h
    /\ th' = [th EXCEPT !.pc = "off"]
    /\ UNCHANGED <<gate, sampled>> /\ ThreadOnly

\* The permit check of watchdog_task: flag, then heater_permit_is_active
\* (expiry, flag), then force_off if a set permit has expired.
SampleBegin ==
    /\ th = Resting /\ ~sampled
    /\ sampled' = TRUE
    /\ th' = [pc |-> IF permit # 0 THEN "wdExpiry" ELSE "rest", seen |-> 0, want |-> 0]
    /\ UNCHANGED <<gate, hold>> /\ ThreadOnly

SampleExpiry ==
    /\ th.pc = "wdExpiry"
    /\ th' = [th EXCEPT !.pc = "wdPermit", !.seen = expires]
    /\ UNCHANGED <<gate, hold, sampled>> /\ ThreadOnly

\* Fault: the supervisor never revokes.
SampleNeverRevokes ==
    /\ th.pc = "wdPermit"
    /\ th' = Resting
    /\ UNCHANGED <<gate, hold, sampled>> /\ ThreadOnly

SamplePermit ==
    /\ th.pc = "wdPermit"
    /\ th' = [pc |-> IF PermitIsActive(permit, th.seen) THEN "rest" ELSE "off",
              seen |-> 0, want |-> 0]
    /\ UNCHANGED <<gate, hold, sampled>> /\ ThreadOnly

-----------------------------------------------------------------------------
\* A tick passes once the supervisor has finished this tick's sample.
Tick ==
    /\ sampled /\ th = Resting
    /\ now # Horizon
    /\ now' = (now + 1) % Modulus
    /\ age' = IF age < AgeCap THEN age + 1 ELSE age
    /\ sampled' = FALSE
    /\ UNCHANGED <<gate, active, hold, th>>

Next ==
    \/ PdReady \/ PdContinuousPps \/ PdPreserve \/ PdRevoke
    \/ \E d \in Duties : ApplyBegin(d)
    \/ ApplyPermit \/ ApplyWrite
    \/ ForceOffBegin \/ ForceOffPermit \/ ForceOffExpiry \/ ForceOffDuty
    \/ \E h \in BOOLEAN : StoreHold(h)
    \/ SampleBegin \/ SampleExpiry \/ SamplePermit
    \/ Tick

Spec == Init /\ [][Next]_vars

-----------------------------------------------------------------------------
(* Properties.                                                               *)

\* A driven pin always has its permit flag set, except inside a force_off that
\* is about to drive it to 0: otherwise the supervisor, which looks at the flag
\* first, would never shut the heater.
DrivenPinIsFlagged ==
    duty # 0 => permit = 1 \/ th.pc \in {"offExpiry", "offDuty"}

\* The heater is shut by the first supervisor sample after the PD service has
\* stopped renewing the permit for MaxAge: it is on for no tick beyond that one.
HeaterFollowsPd == duty # 0 => age <= MaxAge

\* Flash preparation keeps the heater off once its force_off has run, although
\* the PD service may go on granting the permit.
HoldKeepsHeaterOff ==
    hold /\ duty # 0 => th.pc \in {"off", "offExpiry", "offDuty"}

\* The permit does not outlive the PD service's last grant by more than MaxAge:
\* "so a stopped PD or Front Panel task cannot leave a permit valid indefinitely".
PermitIsShortLived == PermitIsActive(permit, expires) => age <= MaxAge
=============================================================================
