-------------------------- MODULE HeaterPermitProofs --------------------------
(***************************************************************************)
(* Safety of the heater interlock for every clock width, permit age and      *)
(* start time; and, for uptimes below half the range of the clock, that the   *)
(* permit and the heater follow the PD service's grants.                     *)
(***************************************************************************)
EXTENDS HeaterPermit, TLAPS

\* A wrapped clock reading is again a clock reading.
LEMMA ClockWraps ==
    ASSUME NEW a \in Nat
    PROVE  a % Modulus \in 0..(Modulus - 1)
BY ClockAssumption

\* The write through the gate leaves flag and pin with their types, and a driven
\* pin with its flag.
LEMMA GateWrite ==
    ASSUME TypeOK, NEW d \in Duties, SetDutyCycle(d)
    PROVE  /\ duty' \in {0, d} /\ duty' \in Duties
           /\ permit' \in {0, 1}
           /\ duty' # 0 => permit' = 1
BY DEF TypeOK, SetDutyCycle, PermitIsActive, Duties

LEMMA TypeInit == Init => TypeOK
<1> SUFFICES ASSUME Init PROVE TypeOK
  OBVIOUS
<1>1. active \in BOOLEAN /\ hold \in BOOLEAN /\ sampled \in BOOLEAN
  BY Zenon DEF Init
<1>2. now \in 0..(Modulus - 1) /\ 0 \in 0..(Modulus - 1) /\ AgeCap \in 0..AgeCap
  BY ClockAssumption DEF Init, AgeCap
<1> QED BY <1>1, <1>2 DEF Init, TypeOK, Duties, Resting

\* TypeOK is inductive.
LEMMA TypeStep == TypeOK /\ [Next]_vars => TypeOK'
<1> SUFFICES ASSUME TypeOK, [Next]_vars PROVE TypeOK'
  OBVIOUS
<1> USE ClockAssumption DEF TypeOK, AgeCap, Duties, Resting, gate, ThreadOnly
<1>1. CASE PdReady \/ PdContinuousPps \/ PdPreserve
  <2>1. Grant
    BY <1>1 DEF PdReady, PdContinuousPps, PdPreserve
  <2>2. active' \in BOOLEAN
    BY <1>1, Zenon DEF PdReady, PdContinuousPps, PdPreserve
  <2>3. now + MaxAge \in Nat /\ expires' = (now + MaxAge) % Modulus
    BY <2>1 DEF Grant
  <2>4. expires' \in 0..(Modulus - 1)
    BY <2>3, ClockWraps
  <2> QED BY <2>1, <2>2, <2>4 DEF Grant
<1>2. CASE PdRevoke
  <2>1. active' \in BOOLEAN
    BY <1>2, Zenon DEF PdRevoke
  <2> QED BY <1>2, <2>1 DEF PdRevoke
<1>3. ASSUME NEW d \in Duties, ApplyBegin(d) PROVE TypeOK'
  BY <1>3 DEF ApplyBegin
<1>4. CASE ApplyPermit
  BY <1>4 DEF ApplyPermit
<1>5. CASE ApplyWrite
  BY <1>5, GateWrite DEF ApplyWrite
<1>6. CASE ForceOffBegin \/ ForceOffPermit \/ ForceOffExpiry
  BY <1>6 DEF ForceOffBegin, ForceOffPermit, ForceOffExpiry
<1>7. CASE ForceOffDuty
  BY <1>7, GateWrite DEF ForceOffDuty
<1>8. ASSUME NEW h \in BOOLEAN, StoreHold(h) PROVE TypeOK'
  BY <1>8 DEF StoreHold
<1>9. CASE SampleBegin
  <2>1. sampled' \in BOOLEAN
    BY <1>9, Zenon DEF SampleBegin
  <2> QED BY <1>9, <2>1 DEF SampleBegin
<1>10. CASE SampleExpiry
  BY <1>10 DEF SampleExpiry
<1>11. CASE SamplePermit
  BY <1>11 DEF SamplePermit
<1>12. CASE Tick
  <2>1. now + 1 \in Nat /\ now' = (now + 1) % Modulus
    BY <1>12 DEF Tick
  <2>2. now' \in 0..(Modulus - 1)
    BY <2>1, ClockWraps
  <2>3. sampled' \in BOOLEAN
    BY <1>12, Zenon DEF Tick
  <2> QED BY <1>12, <2>2, <2>3 DEF Tick
<1>13. CASE UNCHANGED vars
  BY <1>13 DEF vars
<1> QED
  BY <1>1, <1>2, <1>3, <1>4, <1>5, <1>6, <1>7, <1>8, <1>9, <1>10, <1>11, <1>12, <1>13
  DEF Next

\* The interlock's variables keep their types whatever the interleaving: no
\* store of a deadline or of an operation's loaded value leaves the clock's range.
THEOREM TypeCorrect == Spec => []TypeOK
<1>1. Init => TypeOK
  BY TypeInit
<1> QED BY <1>1, TypeStep, PTL DEF Spec

-----------------------------------------------------------------------------
\* What the two interlocks need besides themselves: an operation that runs under
\* the hold never carries a duty to the pin.
HeldThreadWantsNothing == hold => th.want = 0

InterlockInv == TypeOK /\ DrivenPinIsFlagged /\ HoldKeepsHeaterOff /\ HeldThreadWantsNothing

\* InterlockInv is inductive.
LEMMA InterlockStep == InterlockInv /\ [Next]_vars => InterlockInv'
<1> SUFFICES ASSUME InterlockInv, [Next]_vars PROVE InterlockInv'
  OBVIOUS
<1>0. TypeOK'
  BY TypeStep DEF InterlockInv
<1> USE <1>0 DEF InterlockInv, DrivenPinIsFlagged, HoldKeepsHeaterOff, HeldThreadWantsNothing,
                 TypeOK, Duties, Resting, gate, ThreadOnly
<1>1. CASE PdReady \/ PdContinuousPps \/ PdPreserve
  BY <1>1 DEF PdReady, PdContinuousPps, PdPreserve, Grant
<1>2. CASE PdRevoke
  BY <1>2 DEF PdRevoke
<1>3. ASSUME NEW d \in Duties, ApplyBegin(d) PROVE InterlockInv'
  BY <1>3 DEF ApplyBegin
<1>4. CASE ApplyPermit
  BY <1>4 DEF ApplyPermit
<1>5. CASE ApplyWrite
  BY <1>5, GateWrite DEF ApplyWrite
<1>6. CASE ForceOffBegin \/ ForceOffPermit \/ ForceOffExpiry
  BY <1>6 DEF ForceOffBegin, ForceOffPermit, ForceOffExpiry
<1>7. CASE ForceOffDuty
  BY <1>7, GateWrite DEF ForceOffDuty
<1>8. ASSUME NEW h \in BOOLEAN, StoreHold(h) PROVE InterlockInv'
  BY <1>8 DEF StoreHold
<1>9. CASE SampleBegin
  BY <1>9 DEF SampleBegin
<1>10. CASE SampleExpiry
  BY <1>10 DEF SampleExpiry
<1>11. CASE SamplePermit
  BY <1>11 DEF SamplePermit
<1>12. CASE Tick
  BY <1>12 DEF Tick
<1>13. CASE UNCHANGED vars
  BY <1>13 DEF vars
<1> QED
  BY <1>1, <1>2, <1>3, <1>4, <1>5, <1>6, <1>7, <1>8, <1>9, <1>10, <1>11, <1>12, <1>13
  DEF Next

LEMMA InterlockHolds == Spec => []InterlockInv
<1>1. Init => InterlockInv
  BY TypeInit DEF Init, InterlockInv, DrivenPinIsFlagged, HoldKeepsHeaterOff,
     HeldThreadWantsNothing, Resting
<1> QED BY <1>1, InterlockStep, PTL DEF Spec

\* At every uptime, however the PD service preempts the thread executor, a driven
\* heater pin has its permit flag set or is inside a force_off: the supervisor's
\* test of the flag cannot miss a driven pin.
THEOREM DrivenPinAlwaysFlagged == Spec => []DrivenPinIsFlagged
<1>1. InterlockInv => DrivenPinIsFlagged
  BY DEF InterlockInv
<1> QED BY <1>1, InterlockHolds, PTL

\* At every uptime, flash preparation keeps the heater off once its force_off has
\* run, although the PD service may grant the permit at any moment.
THEOREM HoldAlwaysKeepsHeaterOff == Spec => []HoldKeepsHeaterOff
<1>1. InterlockInv => HoldKeepsHeaterOff
  BY DEF InterlockInv
<1> QED BY <1>1, InterlockHolds, PTL

-----------------------------------------------------------------------------
(* Expiry, for uptimes below half the range of the clock.                    *)

\* The clock starts and stays below half its range (24.8 days of milliseconds).
Early ==
    /\ \A s \in StartTimes : s <= Horizon
    /\ 2 * Horizon < Modulus

\* The deadline was stored by the last grant, or by an earlier one, or cleared.
DeadlineIsOfGrant ==
    /\ now <= Horizon
    /\ expires = 0 \/ expires + age <= now + MaxAge

\* Once a sample has been taken with the permit run out, the supervisor is on its
\* way to force_off, and what it has loaded says so.
SampleShuts ==
    /\ sampled /\ duty # 0 /\ age >= MaxAge =>
         th.pc \in {"wdExpiry", "wdPermit", "off", "offExpiry", "offDuty"}
    /\ th.pc = "wdPermit" /\ age >= MaxAge => th.seen <= now

ExpiryInv == InterlockInv /\ DeadlineIsOfGrant /\ SampleShuts /\ HeaterFollowsPd

\* In the lower half of the clock's range an active permit has its deadline ahead.
LEMMA ActiveIsAhead ==
    ASSUME TypeOK, Early, now <= Horizon, NEW f, NEW e \in 0..(Modulus - 1),
           PermitIsActive(f, e)
    PROVE  now < e
<1>1. now \in Nat /\ Modulus \in Nat /\ 2 * now < Modulus
  BY ClockAssumption DEF TypeOK, Early
<1>2. (now - e) % Modulus >= Modulus \div 2
  BY DEF PermitIsActive
<1>3. SUFFICES ASSUME now >= e PROVE FALSE
  BY <1>1
<1>4. (now - e) % Modulus = now - e
  BY <1>1, <1>3
<1>5. now < Modulus \div 2
  BY <1>1, ClockAssumption
<1> QED BY <1>1, <1>2, <1>3, <1>4, <1>5

\* What the gate lets through is younger than MaxAge.
LEMMA ActiveIsYoung ==
    ASSUME TypeOK, Early, DeadlineIsOfGrant, NEW f, PermitIsActive(f, expires)
    PROVE  age < MaxAge
<1>1. now < expires
  BY ActiveIsAhead DEF DeadlineIsOfGrant, TypeOK
<1> QED BY <1>1, ClockAssumption DEF DeadlineIsOfGrant, TypeOK, AgeCap

LEMMA DeadlineStep ==
    Early /\ TypeOK /\ DeadlineIsOfGrant /\ [Next]_vars => DeadlineIsOfGrant'
<1> SUFFICES ASSUME Early, TypeOK, DeadlineIsOfGrant, [Next]_vars PROVE DeadlineIsOfGrant'
  OBVIOUS
<1>0. /\ now \in Nat /\ expires \in Nat /\ age \in Nat /\ MaxAge \in Nat /\ Modulus \in Nat
      /\ now <= Horizon /\ Horizon \in Nat /\ 2 * Horizon < Modulus /\ 2 * MaxAge < Modulus
  BY ClockAssumption DEF TypeOK, AgeCap, Early, DeadlineIsOfGrant
<1>1. CASE PdReady \/ PdContinuousPps \/ PdPreserve
  <2>1. Grant
    BY <1>1 DEF PdReady, PdContinuousPps, PdPreserve
  <2>2. (now + MaxAge) % Modulus = now + MaxAge
    BY <1>0
  <2> QED BY <1>0, <2>1, <2>2 DEF Grant, DeadlineIsOfGrant
<1>2. CASE PdRevoke
  BY <1>2 DEF PdRevoke, DeadlineIsOfGrant
<1>3. CASE UNCHANGED <<now, expires, age>>
  BY <1>3 DEF DeadlineIsOfGrant
<1>4. CASE Tick
  <2>1. now # Horizon /\ now' = (now + 1) % Modulus /\ age' \in {age, age + 1} /\ expires' = expires
    BY <1>4 DEF Tick, gate
  <2>2. now + 1 <= Horizon /\ now + 1 < Modulus
    BY <1>0, <2>1
  <2>3. (now + 1) % Modulus = now + 1
    BY <1>0, <2>2
  <2> QED BY <1>0, <2>1, <2>2, <2>3 DEF DeadlineIsOfGrant
<1>5. CASE ForceOffExpiry
  BY <1>5 DEF ForceOffExpiry, ThreadOnly, DeadlineIsOfGrant
<1>6. ASSUME NEW d \in Duties, ApplyBegin(d) PROVE UNCHANGED <<now, expires, age>>
  BY <1>6 DEF ApplyBegin, gate, ThreadOnly
<1>7. ASSUME NEW h \in BOOLEAN, StoreHold(h) PROVE UNCHANGED <<now, expires, age>>
  BY <1>7 DEF StoreHold, gate, ThreadOnly
<1>8. CASE \/ ApplyPermit \/ ApplyWrite \/ ForceOffBegin \/ ForceOffPermit \/ ForceOffDuty
           \/ SampleBegin \/ SampleExpiry \/ SamplePermit \/ UNCHANGED vars
  <2>1. UNCHANGED <<now, expires, age>>
    BY <1>8 DEF ApplyPermit, ApplyWrite, ForceOffBegin, ForceOffPermit, ForceOffDuty,
                SampleBegin, SampleExpiry, SamplePermit, gate, ThreadOnly, vars
  <2> QED BY <1>3, <2>1
<1> QED BY <1>1, <1>2, <1>3, <1>4, <1>5, <1>6, <1>7, <1>8 DEF Next

LEMMA FollowStep == Early /\ ExpiryInv /\ [Next]_vars => SampleShuts' /\ HeaterFollowsPd'
<1> SUFFICES ASSUME Early, ExpiryInv, [Next]_vars PROVE SampleShuts' /\ HeaterFollowsPd'
  OBVIOUS
<1>0. TypeOK /\ DeadlineIsOfGrant /\ DrivenPinIsFlagged /\ TypeOK'
  BY TypeStep DEF ExpiryInv, InterlockInv
<1>1. age \in Nat /\ MaxAge \in Nat \ {0} /\ now \in Nat /\ expires \in Nat /\ duty \in Duties
      /\ th.seen \in 0..(Modulus - 1) /\ expires \in 0..(Modulus - 1)
  BY <1>0, ClockAssumption DEF TypeOK, AgeCap
<1>2. SampleShuts /\ HeaterFollowsPd
  BY DEF ExpiryInv
<1> USE DEF SampleShuts, HeaterFollowsPd
<1>3. CASE PdReady \/ PdContinuousPps \/ PdPreserve
  <2>1. age' = 0
    BY <1>3 DEF PdReady, PdContinuousPps, PdPreserve, Grant
  <2> QED BY <1>1, <2>1
<1>4. CASE PdRevoke
  BY <1>2, <1>4 DEF PdRevoke
<1>5. ASSUME NEW d \in Duties, ApplyBegin(d) PROVE SampleShuts' /\ HeaterFollowsPd'
  BY <1>2, <1>5 DEF ApplyBegin, gate, ThreadOnly, Resting
<1>6. CASE ApplyPermit
  <2>1. th'.pc = "applyWrite" /\ th.pc = "applyPermit" /\ UNCHANGED <<sampled, duty, age, now>>
    BY <1>0, <1>6 DEF ApplyPermit, gate, ThreadOnly, TypeOK
  <2> QED BY <1>2, <2>1
<1>7. CASE ApplyWrite
  <2>1. th'.pc = "rest" /\ UNCHANGED <<sampled, age, now>>
    BY <1>7 DEF ApplyWrite, Resting, ThreadOnly
  <2>2. duty' # 0 => age < MaxAge
    BY <1>0, <1>7, ActiveIsYoung DEF ApplyWrite, SetDutyCycle
  <2> QED BY <1>1, <2>1, <2>2
<1>8. CASE ForceOffBegin
  <2>1. th'.pc = "off" /\ UNCHANGED <<sampled, duty, age, now>>
    BY <1>0, <1>8 DEF ForceOffBegin, gate, ThreadOnly, TypeOK
  <2> QED BY <1>2, <2>1
<1>9. CASE ForceOffPermit \/ ForceOffExpiry
  <2>1. th'.pc \in {"offExpiry", "offDuty"} /\ UNCHANGED <<sampled, duty, age, now>>
    BY <1>0, <1>9 DEF ForceOffPermit, ForceOffExpiry, ThreadOnly, TypeOK
  <2> QED BY <1>2, <2>1
<1>10. CASE ForceOffDuty
  <2>1. duty' = 0 /\ th'.pc = "rest"
    BY <1>10 DEF ForceOffDuty, SetDutyCycle, Resting
  <2> QED BY <2>1
<1>11. ASSUME NEW h \in BOOLEAN, StoreHold(h) PROVE SampleShuts' /\ HeaterFollowsPd'
  <2>1. th'.pc = "off" /\ UNCHANGED <<sampled, duty, age, now>>
    BY <1>0, <1>11 DEF StoreHold, gate, ThreadOnly, TypeOK
  <2> QED BY <1>2, <2>1
<1>12. CASE SampleBegin
  <2>1. /\ th'.pc = IF permit # 0 THEN "wdExpiry" ELSE "rest"
        /\ UNCHANGED <<duty, age, now>> /\ th.pc = "rest"
    BY <1>12 DEF SampleBegin, gate, ThreadOnly, Resting
  <2>2. permit = 0 => duty = 0
    BY <1>0, <2>1 DEF DrivenPinIsFlagged
  <2> QED BY <1>2, <2>1, <2>2
<1>13. CASE SampleExpiry
  <2>1. th'.pc = "wdPermit" /\ th'.seen = expires /\ UNCHANGED <<sampled, duty, age, now>>
    BY <1>0, <1>13 DEF SampleExpiry, gate, ThreadOnly, TypeOK
  <2>2. age >= MaxAge => expires <= now
    BY <1>0, <1>1 DEF DeadlineIsOfGrant
  <2> QED BY <1>2, <2>1, <2>2
<1>14. CASE SamplePermit
  <2>1. /\ th.pc = "wdPermit" /\ UNCHANGED <<sampled, duty, age, now>>
        /\ th'.pc = IF PermitIsActive(permit, th.seen) THEN "rest" ELSE "off"
    BY <1>14 DEF SamplePermit, gate, ThreadOnly
  <2>2. PermitIsActive(permit, th.seen) => age < MaxAge
    <3>1. PermitIsActive(permit, th.seen) => now < th.seen
      BY <1>0, <1>1, ActiveIsAhead DEF DeadlineIsOfGrant
    <3> QED BY <1>1, <1>2, <2>1, <3>1
  <2> QED BY <1>1, <1>2, <2>1, <2>2
<1>15. CASE Tick
  <2>1. th.pc = "rest" /\ sampled /\ ~sampled' /\ UNCHANGED <<th, duty>> /\ age' \in {age, age + 1}
    BY <1>15 DEF Tick, Resting, gate
  <2> QED BY <1>1, <1>2, <2>1
<1>16. CASE UNCHANGED vars
  BY <1>2, <1>16 DEF vars
<1> QED
  BY <1>3, <1>4, <1>5, <1>6, <1>7, <1>8, <1>9, <1>10, <1>11, <1>12, <1>13, <1>14, <1>15, <1>16
  DEF Next

LEMMA ExpiryHolds == Early /\ Spec => [](Early /\ ExpiryInv)
<1>1. Early /\ Init => Early /\ ExpiryInv
  <2> SUFFICES ASSUME Early, Init PROVE ExpiryInv
    OBVIOUS
  <2>1. InterlockInv
    BY TypeInit DEF Init, InterlockInv, DrivenPinIsFlagged, HoldKeepsHeaterOff,
       HeldThreadWantsNothing, Resting
  <2> QED BY <2>1 DEF Init, ExpiryInv, DeadlineIsOfGrant, SampleShuts, HeaterFollowsPd, Early,
             Resting
<1>2. (Early /\ ExpiryInv) /\ [Next]_vars => (Early /\ ExpiryInv)'
  <2> SUFFICES ASSUME Early, ExpiryInv, [Next]_vars PROVE Early' /\ ExpiryInv'
    OBVIOUS
  <2>1. DeadlineIsOfGrant'
    BY DeadlineStep DEF ExpiryInv, InterlockInv
  <2> QED BY <2>1, InterlockStep, FollowStep DEF ExpiryInv, Early
<1> QED BY <1>1, <1>2, PTL DEF Spec

\* In the first half of the clock's range a permit does not outlive the PD
\* service's last grant by more than MaxAge, whatever the races of force_off,
\* supervisor and PD turn.
THEOREM EarlyPermitIsShortLived == Early /\ Spec => []PermitIsShortLived
<1>1. Early /\ ExpiryInv => PermitIsShortLived
  <2> SUFFICES ASSUME Early, ExpiryInv, PermitIsActive(permit, expires) PROVE age <= MaxAge
    BY DEF PermitIsShortLived
  <2>1. age < MaxAge
    BY ActiveIsYoung DEF ExpiryInv, InterlockInv
  <2> QED BY <2>1, ClockAssumption DEF ExpiryInv, InterlockInv, TypeOK, AgeCap
<1> QED BY <1>1, ExpiryHolds, PTL

\* In the first half of the clock's range the heater is off no later than the
\* first supervisor sample after the PD service has been silent for MaxAge.
THEOREM EarlyHeaterFollowsPd == Early /\ Spec => []HeaterFollowsPd
<1>1. Early /\ ExpiryInv => HeaterFollowsPd
  BY DEF ExpiryInv
<1> QED BY <1>1, ExpiryHolds, PTL
=============================================================================
