------------------------ MODULE WifiProvisioningProofs ------------------------
(***************************************************************************)
(* For every value of the constants of WifiProvisioning: type correctness     *)
(* with the bound on attempts; what "idle", the published radio state and a   *)
(* cancel's acknowledgement say about the station; that a set is tried and     *)
(* that an error stays.                                                      *)
(***************************************************************************)
EXTENDS WifiProvisioning, TLAPS

Events == Failures \cup {"ApplyConfig", "ClearConfig", "CancelProvisioning", "DisconnectCompleted",
                         "DisconnectTimedOut", "DriverConfigured", "AssociationSucceeded",
                         "Ipv4Configured", "ProvisioningTimedOut", "RetryDelayElapsed",
                         "StationDisconnected"}

Machines == [state : States, failure : FailureCodes, attempts : 0..MaxAttempts, timed : BOOLEAN,
             elapsed : 0..(ProvisioningTimeout + 1), generation : Nat]

\* While an attempt is pending, another one is left.
MachineOK(mm) ==
    /\ mm \in Machines
    /\ mm.state \in {"Saving", "Connecting"} => mm.attempts < MaxAttempts

\* What happens to the machine of an overdue attempt is one of the events.
LEMMA ExpiredIsEvent ==
    ASSUME NEW mm, NEW e \in Events
    PROVE  ExpiredEvent(mm, e) \in Events
  BY DEF ExpiredEvent, Events

\* Updates of one field of a machine.
LEMMA BecameType ==
    ASSUME NEW mm \in Machines, NEW st \in States, NEW f \in FailureCodes
    PROVE  /\ Became(mm, st, f) \in Machines
           /\ Became(mm, st, f).state = st
           /\ Became(mm, st, f).failure = f
           /\ Became(mm, st, f).attempts = mm.attempts
  BY DEF Machines, Became

LEMMA AttemptsUpdate ==
    ASSUME NEW mm \in Machines, NEW a \in 0..MaxAttempts
    PROVE  /\ [mm EXCEPT !.attempts = a] \in Machines
           /\ [mm EXCEPT !.attempts = a].attempts = a
           /\ [mm EXCEPT !.attempts = a].state = mm.state
  BY DEF Machines

LEMMA TimedUpdate ==
    ASSUME NEW mm \in Machines
    PROVE  /\ [mm EXCEPT !.timed = FALSE] \in Machines
           /\ [mm EXCEPT !.timed = FALSE].state = mm.state
           /\ [mm EXCEPT !.timed = FALSE].attempts = mm.attempts
  BY DEF Machines

LEMMA ElapsedUpdate ==
    ASSUME NEW mm \in Machines, NEW n \in 0..(ProvisioningTimeout + 1)
    PROVE  /\ [mm EXCEPT !.elapsed = n] \in Machines
           /\ [mm EXCEPT !.elapsed = n].state = mm.state
           /\ [mm EXCEPT !.elapsed = n].attempts = mm.attempts
  BY DEF Machines

LEMMA GenerationUpdate ==
    ASSUME NEW mm \in Machines
    PROVE  /\ [mm EXCEPT !.generation = mm.generation + 1] \in Machines
           /\ [mm EXCEPT !.generation = mm.generation + 1].state = mm.state
           /\ [mm EXCEPT !.generation = mm.generation + 1].attempts = mm.attempts
  BY DEF Machines

LEMMA RestartedType ==
    ASSUME NEW mm \in Machines, NEW st \in States, NEW td \in BOOLEAN
    PROVE  /\ Restarted(mm, st, td) \in Machines
           /\ Restarted(mm, st, td).state = st
           /\ Restarted(mm, st, td).attempts = 0
  BY WifiAssumption DEF Machines, Restarted, FailureCodes

\* An accepted event leads to a well-formed machine, idle only after a cancel:
\* retry_or_terminal counts no attempt beyond the limit.
LEMMA TransitionType ==
    ASSUME NEW mm, MachineOK(mm), NEW e \in Events, Accepts(mm, e)
    PROVE  /\ MachineOK(Transition(mm, e))
           /\ e # "CancelProvisioning" /\ mm.state # "Idle" => Transition(mm, e).state # "Idle"
  <1> USE WifiAssumption DEF States
  <1> mm \in Machines
    BY DEF MachineOK
  <1>1. CASE e \in {"ApplyConfig", "ClearConfig"}
    <2> DEFINE r == IF e = "ApplyConfig" THEN Restarted(mm, "Saving", TRUE)
                                        ELSE Restarted(mm, "Disabled", FALSE)
    <2>1. r \in Machines /\ r.state \in {"Saving", "Disabled"} /\ r.attempts = 0
      BY RestartedType
    <2>2. Transition(mm, e) = [r EXCEPT !.generation = r.generation + 1]
      BY <1>1 DEF Transition, Failures
    <2> HIDE DEF r
    <2> QED BY <1>1, <2>1, <2>2, GenerationUpdate DEF MachineOK
  <1>2. CASE e = "CancelProvisioning"
    BY <1>2, RestartedType DEF MachineOK, Transition, Failures
  <1>3. CASE e = "StationDisconnected"
    <2>1. Transition(mm, e) = Restarted(mm, "Connecting", TRUE)
      BY <1>3 DEF Transition, Failures
    <2> DEFINE r == Restarted(mm, "Connecting", TRUE)
    <2>2. r \in Machines /\ r.state = "Connecting" /\ r.attempts = 0
      BY RestartedType, Zenon
    <2>3. 0 < MaxAttempts
      OBVIOUS
    <2> HIDE DEF r
    <2> QED BY <2>1, <2>2, <2>3, Zenon DEF MachineOK, r
  <1>4. CASE e \in {"DisconnectCompleted", "DriverConfigured", "AssociationSucceeded",
                    "RetryDelayElapsed"}
    <2>1. Transition(mm, e) = Became(mm, "Connecting", "none")
      BY <1>4 DEF Transition, Failures
    <2>2. mm.attempts < MaxAttempts
      BY <1>4 DEF MachineOK, Accepts
    <2>3. /\ Became(mm, "Connecting", "none") \in Machines
          /\ Became(mm, "Connecting", "none").state = "Connecting"
          /\ Became(mm, "Connecting", "none").attempts = mm.attempts
      <3>1. "none" \in FailureCodes
        BY DEF FailureCodes
      <3> QED BY <3>1, BecameType
    <2> QED BY <2>1, <2>2, <2>3, Zenon DEF MachineOK
  <1>5. CASE e \in Failures
    <2>1. Transition(mm, e) = RetryOrTerminal(mm, FailureCode(e))
      BY <1>5 DEF Transition, Failures
    <2>2. mm.state = "Connecting" /\ mm.attempts + 1 \in 0..MaxAttempts
      BY <1>5 DEF MachineOK, Machines, Accepts, Failures
    <2> DEFINE r == [mm EXCEPT !.attempts = mm.attempts + 1]
    <2>3. r \in Machines /\ r.attempts = mm.attempts + 1
      BY <2>2, AttemptsUpdate
    <2>4. FailureCode(e) \in FailureCodes /\ "none" \in FailureCodes
      BY <1>5 DEF FailureCode, FailureCodes, Failures
    <2>5. RetryOrTerminal(mm, FailureCode(e)) =
            IF mm.attempts + 1 < MaxAttempts THEN Became(r, "Connecting", "none")
                                             ELSE Became(r, "Error", FailureCode(e))
      BY DEF RetryOrTerminal
    <2> HIDE DEF r
    <2>6. CASE mm.attempts + 1 < MaxAttempts
      <3>1. /\ Became(r, "Connecting", "none") \in Machines
            /\ Became(r, "Connecting", "none").state = "Connecting"
            /\ Became(r, "Connecting", "none").attempts = mm.attempts + 1
        BY <2>3, <2>4, BecameType
      <3> QED BY <2>1, <2>5, <2>6, <3>1 DEF MachineOK
    <2>7. CASE ~(mm.attempts + 1 < MaxAttempts)
      <3>1. /\ Became(r, "Error", FailureCode(e)) \in Machines
            /\ Became(r, "Error", FailureCode(e)).state = "Error"
        BY <2>3, <2>4, BecameType
      <3> QED BY <2>1, <2>5, <2>7, <3>1 DEF MachineOK
    <2> QED BY <2>6, <2>7
  <1>6. CASE e = "Ipv4Configured"
    <2> DEFINE r1 == Became(mm, "Connected", "none")
               r2 == [r1 EXCEPT !.timed = FALSE]
               r3 == [r2 EXCEPT !.elapsed = 0]
    <2>1. Transition(mm, e) = r3
      BY <1>6 DEF Transition, Failures
    <2>2. r1 \in Machines /\ r1.state = "Connected"
      BY BecameType DEF FailureCodes
    <2> HIDE DEF r1
    <2>3. r2 \in Machines /\ r2.state = "Connected"
      BY <2>2, TimedUpdate
    <2> HIDE DEF r2
    <2>4. r3 \in Machines /\ r3.state = "Connected"
      BY <2>3, ElapsedUpdate
    <2> QED BY <2>1, <2>4 DEF MachineOK
  <1>7. CASE e \in {"DisconnectTimedOut", "ProvisioningTimedOut"}
    <2>1. Transition(mm, e) \in {Became(mm, "Error", "DisconnectTimedOut"),
                                Became(mm, "Error", "Ipv4TimedOut")}
      BY <1>7 DEF Transition, Failures
    <2>2. "DisconnectTimedOut" \in FailureCodes /\ "Ipv4TimedOut" \in FailureCodes
      BY DEF FailureCodes
    <2>3. \A f \in FailureCodes : /\ Became(mm, "Error", f) \in Machines
                                  /\ Became(mm, "Error", f).state = "Error"
      BY BecameType
    <2>4. Transition(mm, e) \in Machines /\ Transition(mm, e).state = "Error"
      BY <2>1, <2>2, <2>3, Zenon
    <2> QED BY <2>4 DEF MachineOK
  <1> QED BY <1>1, <1>2, <1>3, <1>4, <1>5, <1>6, <1>7 DEF Events

LEMMA FeedType ==
    ASSUME NEW mm, MachineOK(mm), NEW e \in Events
    PROVE  MachineOK(Feed(mm, e))
  BY ExpiredIsEvent, TransitionType DEF Feed, Accepted

\* Only CancelProvisioning makes a machine idle.
LEMMA OnlyCancelIdles ==
    ASSUME NEW mm, MachineOK(mm), NEW e \in Events \ {"CancelProvisioning"},
           mm.state # "Idle"
    PROVE  Feed(mm, e).state # "Idle"
  <1>1. ExpiredEvent(mm, e) \in Events \ {"CancelProvisioning"}
    BY DEF ExpiredEvent, Events
  <1> QED BY <1>1, TransitionType DEF Feed, Accepted

\* An idle machine ignores everything but a new configuration.
LEMMA IdleIgnores ==
    ASSUME NEW mm, mm.state = "Idle", NEW e \in Events \ {"ApplyConfig", "ClearConfig"}
    PROVE  Feed(mm, e) = mm
  <1>1. ExpiredEvent(mm, e) = e
    BY DEF ExpiredEvent
  <1>2. e \in Failures \cup {"CancelProvisioning", "DisconnectCompleted", "DisconnectTimedOut",
                             "DriverConfigured", "AssociationSucceeded", "Ipv4Configured",
                             "ProvisioningTimedOut", "RetryDelayElapsed", "StationDisconnected"}
    BY Zenon DEF Events
  <1>3. ~Accepts(mm, e)
    BY <1>2 DEF Accepts, Failures
  <1> QED BY <1>1, <1>3 DEF Feed, Accepted

LEMMA DisabledIgnores ==
    ASSUME NEW mm, mm.state = "Disabled", NEW e \in Events \ {"ApplyConfig", "ClearConfig"}
    PROVE  Feed(mm, e) = mm
  <1>1. ExpiredEvent(mm, e) = e
    BY DEF ExpiredEvent
  <1>2. e \in Failures \cup {"CancelProvisioning", "DisconnectCompleted", "DisconnectTimedOut",
                             "DriverConfigured", "AssociationSucceeded", "Ipv4Configured",
                             "ProvisioningTimedOut", "RetryDelayElapsed", "StationDisconnected"}
    BY Zenon DEF Events
  <1>3. ~Accepts(mm, e)
    BY <1>2 DEF Accepts, Failures
  <1> QED BY <1>1, <1>3 DEF Feed, Accepted

-----------------------------------------------------------------------------
PCs == Awaits \cup {"top", "driven", "linked", "addressed"}
TaskRecords == [pc : PCs, conf : Configs, retry : BOOLEAN, waited : Nat]
Stations == [started : BOOLEAN, creds : 0..MaxSets, joining : 0..MaxSets, link : 0..MaxSets,
             lease : {"none", "dhcp", "static"}, stop : {"none", "pending", "late"}]
Clients == [pc : {"ready", "cancelling"}, id : Nat, waited : 0..TransitionTimeout]

\* What a published radio state r says of a station s.
Truthful(r, s) ==
    /\ r = "off" => ~s.started
    /\ r = "on" => s.started \/ s.stop = "late"

\* Nobody has switched the station.
SameSwitch(s, t) == s.started = t.started /\ s.stop = t.stop

LEMMA SwitchKeepsTruth ==
    ASSUME NEW r, NEW s, NEW t, Truthful(r, s), SameSwitch(t, s)
    PROVE  Truthful(r, t)
  BY DEF Truthful, SameSwitch

\* The task is not inside an attempt while the machine is idle.
IdleIsQuiet ==
    m.state = "Idle" => ~sta.started /\ task.pc \in {"top", "park"} \cup Stops

WifiInv == TypeOK /\ MachineOK(m) /\ IdleIsQuiet /\ RadioIsKnown

\* The type invariant by its parts.
LEMMA TypeParts ==
    TypeOK <=> /\ m \in Machines /\ conf \in Configs /\ sig \in BOOLEAN
               /\ cancelId \in Nat /\ ack \in Nat /\ nextId \in Nat \ {0}
               /\ client \in Clients /\ task \in TaskRecords /\ sta \in Stations
               /\ radio \in {"unknown", "on", "off"}
  BY DEF TypeOK, Machines, PCs, TaskRecords, Stations, Clients

LEMMA TypePartsNext ==
    TypeOK' <=> /\ m' \in Machines /\ conf' \in Configs /\ sig' \in BOOLEAN
                /\ cancelId' \in Nat /\ ack' \in Nat /\ nextId' \in Nat \ {0}
                /\ client' \in Clients /\ task' \in TaskRecords /\ sta' \in Stations
                /\ radio' \in {"unknown", "on", "off"}
  BY DEF TypeOK, Machines, PCs, TaskRecords, Stations, Clients

LEMMA GotoType ==
    ASSUME task \in TaskRecords, NEW pc \in PCs, Goto(pc)
    PROVE  task' \in TaskRecords /\ task'.pc = pc
  BY DEF Goto, TaskRecords

LEMMA GotoSelectType ==
    ASSUME task \in TaskRecords, sig \in BOOLEAN, NEW pc \in PCs, GotoSelect(pc)
    PROVE  /\ task' \in TaskRecords /\ sig' \in BOOLEAN
           /\ task'.pc \in {pc, "top", "leave"}
           /\ pc # "watch" => task'.pc \in {pc, "top"}
  <1> DEFINE q == IF ~sig THEN pc ELSE IF pc = "watch" THEN "leave" ELSE "top"
  <1>1. q \in PCs /\ q \in {pc, "top", "leave"} /\ (pc # "watch" => q \in {pc, "top"})
    BY DEF PCs, Awaits
  <1>2. Goto(q) /\ sig' = FALSE
    BY DEF GotoSelect
  <1> HIDE DEF q
  <1>3. task' \in TaskRecords /\ task'.pc = q
    BY <1>1, <1>2, GotoType
  <1> QED BY <1>1, <1>2, <1>3

\* progress_wifi_failure outside of idle.
LEMMA FailKeeps ==
    ASSUME task \in TaskRecords, sig \in BOOLEAN,
           NEW mm, MachineOK(mm), mm.state # "Idle",
           NEW e \in Failures \cup {"DisconnectTimedOut"}, Fail(mm, e)
    PROVE  /\ MachineOK(m') /\ m'.state # "Idle"
           /\ task' \in TaskRecords /\ sig' \in BOOLEAN
  <1>1. MachineOK(m') /\ m'.state # "Idle"
    BY FeedType, OnlyCancelIdles DEF Fail, Events, Failures
  <1>2. CASE ~Accepted(mm, e)
    BY <1>1, <1>2, GotoType DEF Fail, PCs
  <1>3. CASE Accepted(mm, e)
    <2> DEFINE q == IF m'.state = "Error" THEN "park" ELSE "retryDelay"
    <2>1. q \in PCs /\ GotoSelect(q)
      BY <1>3 DEF Fail, PCs, Awaits
    <2> HIDE DEF q
    <2> QED BY <1>1, <2>1, GotoSelectType
  <1> QED BY <1>1, <1>2, <1>3

\* Updates of one field of the station.
LEMMA StationUpdate ==
    ASSUME NEW r \in Stations
    PROVE  /\ \A v \in 0..MaxSets :
                /\ [r EXCEPT !.creds = v] \in Stations /\ SameSwitch([r EXCEPT !.creds = v], r)
           /\ \A v \in 0..MaxSets :
                /\ [r EXCEPT !.joining = v] \in Stations
                /\ SameSwitch([r EXCEPT !.joining = v], r)
           /\ \A v \in 0..MaxSets :
                /\ [r EXCEPT !.link = v] \in Stations /\ SameSwitch([r EXCEPT !.link = v], r)
           /\ \A v \in {"none", "dhcp", "static"} :
                /\ [r EXCEPT !.lease = v] \in Stations /\ SameSwitch([r EXCEPT !.lease = v], r)
  <1>1. ASSUME NEW v \in 0..MaxSets
        PROVE  [r EXCEPT !.creds = v] \in Stations /\ SameSwitch([r EXCEPT !.creds = v], r)
    BY DEF Stations, SameSwitch
  <1>2. ASSUME NEW v \in 0..MaxSets
        PROVE  [r EXCEPT !.joining = v] \in Stations /\ SameSwitch([r EXCEPT !.joining = v], r)
    BY DEF Stations, SameSwitch
  <1>3. ASSUME NEW v \in 0..MaxSets
        PROVE  [r EXCEPT !.link = v] \in Stations /\ SameSwitch([r EXCEPT !.link = v], r)
    BY DEF Stations, SameSwitch
  <1>4. ASSUME NEW v \in {"none", "dhcp", "static"}
        PROVE  [r EXCEPT !.lease = v] \in Stations /\ SameSwitch([r EXCEPT !.lease = v], r)
    BY DEF Stations, SameSwitch
  <1> QED BY <1>1, <1>2, <1>3, <1>4, Zenon

LEMMA LinkDownType ==
    ASSUME sta \in Stations
    PROVE  LinkDown \in Stations /\ SameSwitch(LinkDown, sta)
  <1> DEFINE r1 == [sta EXCEPT !.joining = 0]
             r2 == [r1 EXCEPT !.link = 0]
             v  == IF sta.lease = "dhcp" THEN "none" ELSE sta.lease
  <1>1. 0 \in 0..MaxSets /\ v \in {"none", "dhcp", "static"}
    BY WifiAssumption DEF Stations
  <1>2. r1 \in Stations /\ SameSwitch(r1, sta)
    BY <1>1, StationUpdate, Zenon
  <1>3. r2 \in Stations /\ SameSwitch(r2, r1)
    <2> HIDE DEF r1
    <2> QED BY <1>1, <1>2, StationUpdate, Zenon DEF r2
  <1>4. LinkDown = [r2 EXCEPT !.lease = v]
    BY DEF LinkDown, Stations
  <1> HIDE DEF r1, r2, v
  <1>5. LinkDown \in Stations /\ SameSwitch(LinkDown, r2)
    BY <1>1, <1>3, <1>4, StationUpdate, Zenon
  <1> QED BY <1>2, <1>3, <1>5, Zenon DEF SameSwitch

LEMMA DisconnectType ==
    ASSUME sta \in Stations, NEW d, Disconnect(d)
    PROVE  sta' \in Stations /\ SameSwitch(sta', sta)
  BY LinkDownType, Zenon DEF Disconnect, SameSwitch

\* The parts of the invariant after a step.
LEMMA Assemble ==
    ASSUME WifiInv,
           MachineOK(m'), conf' \in Configs, sig' \in BOOLEAN,
           cancelId' \in Nat, ack' \in Nat, nextId' \in Nat \ {0},
           client' \in Clients, task' \in TaskRecords, sta' \in Stations,
           radio' \in {"unknown", "on", "off"},
           m'.state = "Idle" => ~sta'.started /\ task'.pc \in {"top", "park"} \cup Stops,
           Truthful(radio', sta')
    PROVE  WifiInv'
  <1>1. TypeOK'
    BY TypePartsNext, Zenon DEF MachineOK
  <1>2. MachineOK(m)' /\ IdleIsQuiet' /\ RadioIsKnown'
    BY Zenon DEF MachineOK, Machines, IdleIsQuiet, RadioIsKnown, Truthful, Stops, States
  <1> QED BY <1>1, <1>2 DEF WifiInv

LEMMA Parts ==
    ASSUME WifiInv
    PROVE  /\ MachineOK(m) /\ m \in Machines /\ conf \in Configs /\ sig \in BOOLEAN
           /\ cancelId \in Nat /\ ack \in Nat /\ nextId \in Nat \ {0}
           /\ client \in Clients /\ task \in TaskRecords /\ sta \in Stations
           /\ radio \in {"unknown", "on", "off"}
           /\ m.state = "Idle" => ~sta.started /\ task.pc \in {"top", "park"} \cup Stops
           /\ Truthful(radio, sta)
  BY TypeParts, Zenon DEF WifiInv, IdleIsQuiet, RadioIsKnown, Truthful

\* A step of the task leaves the client alone.
LEMMA TaskAssemble ==
    ASSUME WifiInv, ClientSide, cancelId' \in Nat, ack' \in Nat,
           MachineOK(m'), sig' \in BOOLEAN, task' \in TaskRecords, sta' \in Stations,
           radio' \in {"unknown", "on", "off"},
           m'.state = "Idle" => ~sta'.started /\ task'.pc \in {"top", "park"} \cup Stops,
           Truthful(radio', sta')
    PROVE  WifiInv'
  <1>1. conf' \in Configs /\ nextId' \in Nat \ {0} /\ client' \in Clients
    BY Parts DEF ClientSide
  <1> QED BY <1>1, Assemble

\* A step of the task inside an attempt that leaves radio and station switch alone.
LEMMA AttemptAssemble ==
    ASSUME WifiInv, ClientSide, NoCancel, MachineOK(m'), m'.state # "Idle",
           sig' \in BOOLEAN, task' \in TaskRecords,
           sta' = sta \/ (sta' \in Stations /\ SameSwitch(sta', sta)), radio' = radio
    PROVE  WifiInv'
  <1>1. cancelId' \in Nat /\ ack' \in Nat
    BY Parts DEF NoCancel
  <1>2. sta' \in Stations /\ SameSwitch(sta', sta)
    BY Parts DEF SameSwitch
  <1>3. /\ radio' \in {"unknown", "on", "off"}
        /\ Truthful(radio', sta')
    BY <1>2, Parts, SwitchKeepsTruth
  <1> QED BY <1>1, <1>2, <1>3, TaskAssemble

LEMMA NotIdle ==
    ASSUME WifiInv, task.pc \in PCs \ ({"top", "park"} \cup Stops)
    PROVE  m.state # "Idle"
  BY Parts, Zenon

LEMMA PrepareKeeps == WifiInv /\ Prepare => WifiInv'
  <1> SUFFICES ASSUME WifiInv, Prepare PROVE WifiInv'
    OBVIOUS
  <1> DEFINE m1  == IF m.state = "Disabled" THEN Feed(m, "ApplyConfig") ELSE m
             m2  == IF task.retry THEN Feed(m1, "RetryDelayElapsed") ELSE m1
             m3  == IF m2.state = "Saving" THEN Feed(m2, "DisconnectCompleted") ELSE m2
             run == conf.configured /\ conf.enabled
             go  == run /\ m3.state = "Connecting"
             pc  == CASE ~conf.configured -> "stop"
                      [] go               -> "bus"
                      [] run /\ ~go       -> IF sig THEN "top" ELSE "park"
                      [] OTHER            -> "disableDisconnect"
  <1>1. /\ m' = IF run THEN m3 ELSE m
        /\ task' = [pc |-> pc, conf |-> conf, retry |-> task.retry /\ ~run, waited |-> 0]
        /\ sig' = (sig /\ (go \/ ~run))
        /\ radio' = IF go \/ ~conf.configured THEN "unknown" ELSE radio
        /\ sta' = IF go THEN [sta EXCEPT !.lease = IF conf.static THEN "static" ELSE "none"]
                  ELSE sta
        /\ ClientSide /\ NoCancel
    BY Zenon DEF Prepare
  <1>2. MachineOK(m1) /\ (m.state # "Idle" => m1.state # "Idle") /\ (m.state = "Idle" => m1 = m)
    <2>1. "ApplyConfig" \in Events \ {"CancelProvisioning"}
      BY DEF Events
    <2> QED BY <2>1, Parts, FeedType, OnlyCancelIdles
  <1> HIDE DEF m1
  <1>3. MachineOK(m2) /\ (m.state # "Idle" => m2.state # "Idle") /\ (m.state = "Idle" => m2 = m)
    <2>1. "RetryDelayElapsed" \in Events \ {"CancelProvisioning", "ApplyConfig", "ClearConfig"}
      BY DEF Events, Failures
    <2> QED BY <1>2, <2>1, FeedType, OnlyCancelIdles, IdleIgnores
  <1> HIDE DEF m2
  <1>4. MachineOK(m3) /\ (m.state # "Idle" => m3.state # "Idle") /\ (m.state = "Idle" => m3 = m)
    <2>1. "DisconnectCompleted" \in Events \ {"CancelProvisioning", "ApplyConfig", "ClearConfig"}
      BY DEF Events, Failures
    <2> QED BY <1>3, <2>1, FeedType, OnlyCancelIdles, IdleIgnores
  <1> HIDE DEF m3
  <1>5. MachineOK(m')
    BY <1>1, <1>4, Parts
  <1>6. pc \in PCs /\ (pc \notin {"top", "park"} \cup Stops => go)
    BY DEF PCs, Awaits, Stops
  <1>7. task' \in TaskRecords /\ task'.pc = pc /\ sig' \in BOOLEAN
    <2>1. task.retry \in BOOLEAN /\ conf \in Configs
      BY Parts DEF TaskRecords
    <2> HIDE DEF pc, go
    <2>2. (task.retry /\ ~run) \in BOOLEAN /\ (sig /\ (go \/ ~run)) \in BOOLEAN
      BY <2>1, Zenon
    <2> HIDE DEF run
    <2> QED BY <1>1, <1>6, <2>1, <2>2 DEF TaskRecords
  <1> HIDE DEF pc
  <1>8. sta' \in Stations /\ SameSwitch(sta', sta)
    <2>1. (IF conf.static THEN "static" ELSE "none") \in {"none", "dhcp", "static"}
      OBVIOUS
    <2> QED BY <1>1, <2>1, Parts, StationUpdate, Zenon DEF SameSwitch
  <1>9. m'.state = "Idle" => ~sta'.started /\ task'.pc \in {"top", "park"} \cup Stops
    <2> SUFFICES ASSUME m'.state = "Idle" PROVE ~sta'.started /\ task'.pc \in {"top", "park"} \cup Stops
      OBVIOUS
    <2>1. m.state = "Idle"
      BY <1>1, <1>4
    <2>2. ~go
      BY <1>4, <2>1
    <2> QED BY <1>6, <1>7, <1>8, <2>1, <2>2, Parts, Zenon DEF SameSwitch
  <1>10. /\ radio' \in {"unknown", "on", "off"}
         /\ Truthful(radio', sta')
    <2>1. radio' \in {"unknown", radio}
      BY <1>1
    <2>2. Truthful("unknown", sta')
      BY DEF Truthful
    <2>3. Truthful(radio, sta')
      BY <1>8, Parts, SwitchKeepsTruth
    <2> QED BY <2>1, <2>2, <2>3, Parts
  <1>11. cancelId' \in Nat /\ ack' \in Nat
    BY <1>1, Parts DEF NoCancel
  <1> QED BY <1>1, <1>5, <1>7, <1>8, <1>9, <1>10, <1>11, TaskAssemble

\* What the task feeds a machine that is not idle leaves it so.
TaskEvents == Failures \cup {"DisconnectCompleted", "DriverConfigured", "AssociationSucceeded",
                             "Ipv4Configured", "RetryDelayElapsed", "StationDisconnected",
                             "ClearConfig", "DisconnectTimedOut"}

LEMMA FeedKeeps ==
    ASSUME NEW mm, MachineOK(mm), mm.state # "Idle", NEW e \in TaskEvents
    PROVE  MachineOK(Feed(mm, e)) /\ Feed(mm, e).state # "Idle"
  <1>1. e \in Events \ {"CancelProvisioning"}
    BY DEF TaskEvents, Events, Failures
  <1> QED BY <1>1, FeedType, OnlyCancelIdles

LEMMA WakeKeeps == WifiInv /\ Wake => WifiInv'
  <1> SUFFICES ASSUME WifiInv, Wake PROVE WifiInv'
    OBVIOUS
  <1>1. task' \in TaskRecords /\ task'.pc = "top"
    BY Parts, GotoType DEF Wake, PCs
  <1>2. m' = m /\ sta' = sta /\ radio' = radio /\ sig' = FALSE /\ ClientSide /\ NoCancel
    BY DEF Wake
  <1>3. cancelId' \in Nat /\ ack' \in Nat
    BY <1>2, Parts DEF NoCancel
  <1>4. /\ MachineOK(m') /\ sta' \in Stations /\ radio' \in {"unknown", "on", "off"}
        /\ m'.state = "Idle" => ~sta'.started /\ task'.pc \in {"top", "park"} \cup Stops
        /\ Truthful(radio', sta')
    BY <1>1, <1>2, Parts, Zenon
  <1>5. sig' \in BOOLEAN
    BY <1>2
  <1> QED BY <1>1, <1>2, <1>3, <1>4, <1>5, TaskAssemble

LEMMA StoppedKeeps == WifiInv /\ Stopped => WifiInv'
  <1> SUFFICES ASSUME WifiInv, Stopped PROVE WifiInv'
    OBVIOUS
  <1>1. sta' = Off /\ radio' = "off" /\ GotoSelect("park") /\ ClientSide
    BY DEF Stopped
  <1>2. task' \in TaskRecords /\ sig' \in BOOLEAN /\ task'.pc \in {"park", "top"}
    BY <1>1, Parts, GotoSelectType DEF PCs, Awaits
  <1>3. MachineOK(m')
    <2>1. "ClearConfig" \in Events /\ "CancelProvisioning" \in Events
      BY DEF Events
    <2>2. m' \in {m, Feed(m, "ClearConfig"), Feed(m, "CancelProvisioning")}
      BY DEF Stopped
    <2> QED BY <2>1, <2>2, Parts, FeedType
  <1>4. cancelId' \in Nat /\ ack' \in Nat
    BY Parts DEF Stopped, NoCancel
  <1>5. sta' \in Stations /\ sta'.started = FALSE
    BY <1>1, WifiAssumption DEF Off, Stations
  <1>6. task'.pc \in {"top", "park"} \cup Stops
    BY <1>2
  <1>7. radio' \in {"unknown", "on", "off"} /\ Truthful(radio', sta')
    BY <1>1, <1>5 DEF Truthful
  <1> QED BY <1>1, <1>2, <1>3, <1>4, <1>5, <1>6, <1>7, TaskAssemble

\* A failed stop leaves the station switched as it was, and the radio as it is.
LEMMA ProbeIsTrue ==
    ASSUME sta \in Stations, sta' \in Unstopped \cup {sta}, radio' \in Probe
    PROVE  /\ sta' \in Stations /\ sta'.started = sta.started
           /\ radio' \in {"unknown", "on", "off"} /\ Truthful(radio', sta')
  <1>1. sta' \in {sta, [sta EXCEPT !.stop = "pending"]}
    BY DEF Unstopped
  <1>2. sta' \in Stations /\ sta'.started = sta.started
    BY <1>1 DEF Stations
  <1>3. CASE sta.started
    BY <1>2, <1>3 DEF Probe, Truthful
  <1>4. CASE ~sta.started
    BY <1>2, <1>4 DEF Probe, Truthful
  <1> QED BY <1>2, <1>3, <1>4

LEMMA StopFailsKeeps == WifiInv /\ StopFails => WifiInv'
  <1> SUFFICES ASSUME WifiInv, StopFails PROVE WifiInv'
    OBVIOUS
  <1>1. /\ sta' \in Unstopped /\ radio' \in Probe /\ GotoSelect("park")
        /\ ClientSide /\ NoCancel
    BY DEF StopFails
  <1>2. task' \in TaskRecords /\ sig' \in BOOLEAN /\ task'.pc \in {"park", "top"}
    BY <1>1, Parts, GotoSelectType DEF PCs, Awaits
  <1>3. MachineOK(m') /\ (m.state # "Idle" => m'.state # "Idle")
    <2>1. "ClearConfig" \in TaskEvents /\ "DisconnectTimedOut" \in TaskEvents
      BY DEF TaskEvents
    <2>2. "ClearConfig" \in Events /\ "DisconnectTimedOut" \in Events
      BY DEF Events
    <2>3. m' \in {m, Feed(m, "ClearConfig"), Feed(m, "DisconnectTimedOut")}
      BY DEF StopFails
    <2> QED BY <2>1, <2>2, <2>3, Parts, FeedType, FeedKeeps
  <1>4. cancelId' \in Nat /\ ack' \in Nat
    BY <1>1, Parts DEF NoCancel
  <1>5. /\ sta' \in Stations /\ sta'.started = sta.started
        /\ radio' \in {"unknown", "on", "off"} /\ Truthful(radio', sta')
    BY <1>1, Parts, ProbeIsTrue
  <1>6. m'.state = "Idle" => ~sta'.started /\ task'.pc \in {"top", "park"} \cup Stops
    BY <1>2, <1>3, <1>5, Parts
  <1> QED BY <1>1, <1>2, <1>3, <1>4, <1>5, <1>6, TaskAssemble

LEMMA DisableDisconnectedKeeps ==
    ASSUME WifiInv, NEW d, DisableDisconnected(d)
    PROVE  WifiInv'
  <1>1. /\ Disconnect(d) /\ radio' = "unknown" /\ Goto("disableStop") /\ m' = m /\ sig' = sig
        /\ ClientSide /\ NoCancel
    BY DEF DisableDisconnected
  <1>2. task' \in TaskRecords /\ task'.pc = "disableStop"
    BY <1>1, Parts, GotoType DEF PCs, Awaits
  <1>3. sta' \in Stations /\ SameSwitch(sta', sta)
    BY <1>1, Parts, DisconnectType
  <1>4. task'.pc \in {"top", "park"} \cup Stops
    BY <1>2 DEF Stops
  <1>5. m'.state = "Idle" => ~sta'.started
    BY <1>1, <1>3, Parts, Zenon DEF SameSwitch
  <1>6. cancelId' \in Nat /\ ack' \in Nat /\ MachineOK(m') /\ sig' \in BOOLEAN
    BY <1>1, Parts DEF NoCancel
  <1>7. radio' \in {"unknown", "on", "off"} /\ Truthful(radio', sta')
    BY <1>1 DEF Truthful
  <1> QED BY <1>1, <1>2, <1>3, <1>4, <1>5, <1>6, <1>7, TaskAssemble

LEMMA ConfigureDriverKeeps == WifiInv /\ ConfigureDriver => WifiInv'
  <1> SUFFICES ASSUME WifiInv, ConfigureDriver PROVE WifiInv'
    OBVIOUS
  <1> DEFINE q == IF sta.started THEN "driven" ELSE "start"
  <1>1. /\ sta' = [sta EXCEPT !.creds = task.conf.version] /\ Goto(q)
        /\ radio' = (IF sta.started THEN "on" ELSE radio) /\ m' = m /\ sig' = sig
        /\ ClientSide /\ NoCancel
    BY DEF ConfigureDriver
  <1>2. m.state # "Idle"
    BY NotIdle DEF ConfigureDriver, At, PCs, Awaits, Stops
  <1>3. q \in PCs
    BY DEF PCs, Awaits
  <1> HIDE DEF q
  <1>4. task' \in TaskRecords
    BY <1>1, <1>3, Parts, GotoType
  <1>5. task.conf.version \in 0..MaxSets
    BY Parts, WifiAssumption DEF TaskRecords, Configs
  <1>6. sta' \in Stations /\ SameSwitch(sta', sta)
    BY <1>1, <1>5, Parts, StationUpdate, Zenon
  <1>7. cancelId' \in Nat /\ ack' \in Nat /\ MachineOK(m') /\ sig' \in BOOLEAN /\ m'.state # "Idle"
    BY <1>1, <1>2, Parts DEF NoCancel
  <1>8. /\ radio' \in {"unknown", "on", "off"}
        /\ Truthful(radio', sta')
    <2>1. CASE sta.started
      BY <1>1, <1>6, <2>1 DEF Truthful, SameSwitch
    <2>2. CASE ~sta.started
      BY <1>1, <1>6, <2>2, Parts, SwitchKeepsTruth
    <2> QED BY <2>1, <2>2
  <1> QED BY <1>1, <1>4, <1>6, <1>7, <1>8, TaskAssemble

LEMMA DriverStartedKeeps == WifiInv /\ DriverStarted => WifiInv'
  <1> SUFFICES ASSUME WifiInv, DriverStarted PROVE WifiInv'
    OBVIOUS
  <1>1. /\ sta' = [sta EXCEPT !.started = TRUE, !.stop = "none"] /\ Goto("driven") /\ radio' = "on"
        /\ m' = m /\ sig' = sig /\ ClientSide /\ NoCancel
    BY DEF DriverStarted
  <1>2. m.state # "Idle"
    BY NotIdle DEF DriverStarted, At, PCs, Awaits, Stops
  <1>3. task' \in TaskRecords
    BY <1>1, Parts, GotoType DEF PCs
  <1>4. sta' \in Stations /\ sta'.started = TRUE
    BY <1>1, Parts DEF Stations
  <1>5. cancelId' \in Nat /\ ack' \in Nat /\ MachineOK(m') /\ sig' \in BOOLEAN /\ m'.state # "Idle"
    BY <1>1, <1>2, Parts DEF NoCancel
  <1>6. radio' \in {"unknown", "on", "off"} /\ Truthful(radio', sta')
    BY <1>1, <1>4 DEF Truthful
  <1> QED BY <1>1, <1>3, <1>4, <1>5, <1>6, TaskAssemble

LEMMA DriverFailsKeeps == WifiInv /\ DriverFails => WifiInv'
  <1> SUFFICES ASSUME WifiInv, DriverFails PROVE WifiInv'
    OBVIOUS
  <1>1. /\ sta' = sta /\ radio' \in Probe
        /\ Fail(m, "DriverConfigurationFailed") /\ ClientSide /\ NoCancel
    BY DEF DriverFails
  <1>2. m.state # "Idle"
    BY NotIdle DEF DriverFails, PCs, Awaits, Stops
  <1>3. "DriverConfigurationFailed" \in Failures
    BY DEF Failures
  <1>4. MachineOK(m') /\ m'.state # "Idle" /\ task' \in TaskRecords /\ sig' \in BOOLEAN
    BY <1>1, <1>2, <1>3, Parts, FailKeeps
  <1>5. cancelId' \in Nat /\ ack' \in Nat
    BY <1>1, Parts DEF NoCancel
  <1>6. /\ sta' \in Stations /\ radio' \in {"unknown", "on", "off"}
        /\ Truthful(radio', sta')
    BY <1>1, Parts, ProbeIsTrue
  <1> QED BY <1>1, <1>4, <1>5, <1>6, TaskAssemble

LEMMA BeginAssociationKeeps == WifiInv /\ BeginAssociation => WifiInv'
  <1> SUFFICES ASSUME WifiInv, BeginAssociation PROVE WifiInv'
    OBVIOUS
  <1>1. m' = Feed(m, "DriverConfigured") /\ radio' = radio /\ ClientSide /\ NoCancel
    BY DEF BeginAssociation
  <1>2. m.state # "Idle"
    BY NotIdle DEF BeginAssociation, At, PCs, Awaits, Stops
  <1>3. MachineOK(m') /\ m'.state # "Idle"
    <2>1. "DriverConfigured" \in TaskEvents
      BY DEF TaskEvents
    <2> QED BY <1>1, <1>2, <2>1, Parts, FeedKeeps
  <1>4. \/ Goto("linked") /\ sig' = sig /\ sta' = sta
        \/ GotoSelect("associate") /\ sta' = [sta EXCEPT !.joining = sta.creds]
    BY DEF BeginAssociation
  <1>5. CASE Goto("linked") /\ sig' = sig /\ sta' = sta
    <2>1. task' \in TaskRecords /\ sig' \in BOOLEAN /\ sta' \in Stations
      BY <1>5, Parts, GotoType DEF PCs
    <2> QED BY <1>1, <1>3, <1>5, <2>1, AttemptAssemble
  <1>6. CASE GotoSelect("associate") /\ sta' = [sta EXCEPT !.joining = sta.creds]
    <2>1. task' \in TaskRecords /\ sig' \in BOOLEAN
      BY <1>6, Parts, GotoSelectType DEF PCs, Awaits
    <2>2. sta.creds \in 0..MaxSets
      BY Parts DEF Stations
    <2>3. sta' \in Stations /\ SameSwitch(sta', sta)
      BY <1>6, <2>2, Parts, StationUpdate, Zenon
    <2> QED BY <1>1, <1>3, <2>1, <2>3, AttemptAssemble
  <1> QED BY <1>4, <1>5, <1>6

LEMMA AssociationRefusedKeeps == WifiInv /\ AssociationRefused => WifiInv'
  <1> SUFFICES ASSUME WifiInv, AssociationRefused PROVE WifiInv'
    OBVIOUS
  <1>1. m.state # "Idle"
    BY NotIdle DEF AssociationRefused, At, PCs, Awaits, Stops
  <1> DEFINE mm == Feed(m, "DriverConfigured")
  <1>2. Fail(mm, "AssociationFailed") /\ sta' = sta /\ radio' = radio /\ ClientSide /\ NoCancel
    BY DEF AssociationRefused
  <1>3. MachineOK(mm) /\ mm.state # "Idle"
    <2>1. "DriverConfigured" \in TaskEvents
      BY DEF TaskEvents
    <2> QED BY <1>1, <2>1, Parts, FeedKeeps
  <1> HIDE DEF mm
  <1>4. "AssociationFailed" \in Failures
    BY DEF Failures
  <1>5. MachineOK(m') /\ m'.state # "Idle" /\ task' \in TaskRecords /\ sig' \in BOOLEAN
    BY <1>2, <1>3, <1>4, Parts, FailKeeps
  <1> QED BY <1>2, <1>5, Parts, AttemptAssemble

\* The awaits of an attempt that move on without an event.
LEMMA MovesKeep ==
    ASSUME WifiInv, Associated \/ Ipv4Arrives \/ Ipv4TimesOut \/ ReconnectDelayEnds \/ LeaveBegin
    PROVE  WifiInv'
  <1>1. m.state # "Idle"
    BY NotIdle DEF Associated, Ipv4Arrives, Ipv4TimesOut, ReconnectDelayEnds, LeaveBegin, At, PCs,
                   Awaits, Stops
  <1>2. m' = m /\ sta' = sta /\ radio' = radio /\ ClientSide /\ NoCancel
    BY DEF Associated, Ipv4Arrives, Ipv4TimesOut, ReconnectDelayEnds, LeaveBegin
  <1>3. sig' \in BOOLEAN
    BY Parts DEF Associated, Ipv4Arrives, Ipv4TimesOut, ReconnectDelayEnds, LeaveBegin
  <1>4. task' \in TaskRecords
    <2>1. CASE ReconnectDelayEnds
      BY <2>1, Parts DEF ReconnectDelayEnds, TaskRecords, PCs
    <2>2. CASE Associated \/ Ipv4Arrives \/ Ipv4TimesOut \/ LeaveBegin
      <3>1. \E pc \in PCs : Goto(pc)
        BY <2>2 DEF Associated, Ipv4Arrives, Ipv4TimesOut, LeaveBegin, PCs, Awaits
      <3> QED BY <3>1, Parts, GotoType
    <2> QED BY <2>1, <2>2
  <1> QED BY <1>1, <1>2, <1>3, <1>4, Parts, AttemptAssemble

LEMMA AssociationTimesOutKeeps == WifiInv /\ AssociationTimesOut => WifiInv'
  <1> SUFFICES ASSUME WifiInv, AssociationTimesOut PROVE WifiInv'
    OBVIOUS
  <1>1. m.state # "Idle"
    BY NotIdle DEF AssociationTimesOut, At, PCs, Awaits, Stops
  <1>2. Fail(m, "AssociationTimedOut") /\ sta' = sta /\ radio' = radio /\ ClientSide /\ NoCancel
    BY DEF AssociationTimesOut
  <1>3. "AssociationTimedOut" \in Failures
    BY DEF Failures
  <1>4. MachineOK(m') /\ m'.state # "Idle" /\ task' \in TaskRecords /\ sig' \in BOOLEAN
    BY <1>1, <1>2, <1>3, Parts, FailKeeps
  <1> QED BY <1>2, <1>4, Parts, AttemptAssemble

LEMMA BeginIpv4Keeps == WifiInv /\ BeginIpv4 => WifiInv'
  <1> SUFFICES ASSUME WifiInv, BeginIpv4 PROVE WifiInv'
    OBVIOUS
  <1>1. m.state # "Idle"
    BY NotIdle DEF BeginIpv4, At, PCs, Awaits, Stops
  <1>2. /\ m' = Feed(m, "AssociationSucceeded") /\ sta' = sta /\ radio' = radio
        /\ ClientSide /\ NoCancel
        /\ (Goto("addressed") /\ sig' = sig) \/ GotoSelect("ipv4")
    BY DEF BeginIpv4
  <1>3. MachineOK(m') /\ m'.state # "Idle"
    <2>1. "AssociationSucceeded" \in TaskEvents
      BY DEF TaskEvents
    <2> QED BY <1>1, <1>2, <2>1, Parts, FeedKeeps
  <1>4. task' \in TaskRecords /\ sig' \in BOOLEAN
    BY <1>2, Parts, GotoType, GotoSelectType DEF PCs, Awaits
  <1> QED BY <1>2, <1>3, <1>4, Parts, AttemptAssemble

LEMMA Ipv4DisconnectedKeeps ==
    ASSUME WifiInv, NEW d, Ipv4Disconnected(d)
    PROVE  WifiInv'
  <1>1. m.state # "Idle"
    BY NotIdle DEF Ipv4Disconnected, At, PCs, Awaits, Stops
  <1>2. Disconnect(d) /\ Fail(m, "Ipv4TimedOut") /\ radio' = radio /\ ClientSide /\ NoCancel
    BY DEF Ipv4Disconnected
  <1>3. "Ipv4TimedOut" \in Failures
    BY DEF Failures
  <1>4. MachineOK(m') /\ m'.state # "Idle" /\ task' \in TaskRecords /\ sig' \in BOOLEAN
    BY <1>1, <1>2, <1>3, Parts, FailKeeps
  <1>5. sta' \in Stations /\ SameSwitch(sta', sta)
    BY <1>2, Parts, DisconnectType
  <1> QED BY <1>2, <1>4, <1>5, AttemptAssemble

LEMMA ConnectedKeeps == WifiInv /\ Connected => WifiInv'
  <1> SUFFICES ASSUME WifiInv, Connected PROVE WifiInv'
    OBVIOUS
  <1>1. m.state # "Idle"
    BY NotIdle DEF Connected, At, PCs, Awaits, Stops
  <1>2. /\ m' = Feed(m, "Ipv4Configured") /\ sta' = sta /\ radio' = radio
        /\ ClientSide /\ NoCancel
        /\ (Goto("top") /\ sig' = sig) \/ GotoSelect("watch")
    BY DEF Connected
  <1>3. MachineOK(m') /\ m'.state # "Idle"
    <2>1. "Ipv4Configured" \in TaskEvents
      BY DEF TaskEvents
    <2> QED BY <1>1, <1>2, <2>1, Parts, FeedKeeps
  <1>4. task' \in TaskRecords /\ sig' \in BOOLEAN
    BY <1>2, Parts, GotoType, GotoSelectType DEF PCs, Awaits
  <1> QED BY <1>2, <1>3, <1>4, Parts, AttemptAssemble

LEMMA StationLostKeeps == WifiInv /\ StationLost => WifiInv'
  <1> SUFFICES ASSUME WifiInv, StationLost PROVE WifiInv'
    OBVIOUS
  <1>1. m.state # "Idle"
    BY NotIdle DEF StationLost, At, PCs, Awaits, Stops
  <1>2. /\ m' = Feed(m, "StationDisconnected") /\ sta' = sta /\ radio' = radio /\ sig' = sig
        /\ ClientSide /\ NoCancel /\ Goto("reconnectDelay")
    BY DEF StationLost
  <1>3. MachineOK(m') /\ m'.state # "Idle"
    <2>1. "StationDisconnected" \in TaskEvents
      BY DEF TaskEvents
    <2> QED BY <1>1, <1>2, <2>1, Parts, FeedKeeps
  <1>4. task' \in TaskRecords /\ sig' \in BOOLEAN
    BY <1>2, Parts, GotoType DEF PCs, Awaits
  <1> QED BY <1>2, <1>3, <1>4, Parts, AttemptAssemble

LEMMA LeaveDisconnectedKeeps ==
    ASSUME WifiInv, NEW d, LeaveDisconnected(d)
    PROVE  WifiInv'
  <1>1. m.state # "Idle"
    BY NotIdle DEF LeaveDisconnected, At, PCs, Awaits, Stops
  <1>2. /\ Disconnect(d) /\ radio' = radio /\ ClientSide /\ NoCancel
        /\ \/ m' = Feed(m, "DisconnectCompleted") /\ Goto("top") /\ sig' = sig
           \/ Fail(m, "DisconnectTimedOut")
    BY DEF LeaveDisconnected
  <1>3. MachineOK(m') /\ m'.state # "Idle" /\ task' \in TaskRecords /\ sig' \in BOOLEAN
    <2>1. CASE m' = Feed(m, "DisconnectCompleted") /\ Goto("top") /\ sig' = sig
      <3>1. "DisconnectCompleted" \in TaskEvents /\ "top" \in PCs
        BY DEF TaskEvents, PCs
      <3> QED BY <1>1, <2>1, <3>1, Parts, FeedKeeps, GotoType
    <2>2. CASE Fail(m, "DisconnectTimedOut")
      BY <1>1, <2>2, Parts, FailKeeps
    <2> QED BY <1>2, <2>1, <2>2
  <1>4. sta' \in Stations /\ SameSwitch(sta', sta)
    BY <1>2, Parts, DisconnectType
  <1> QED BY <1>2, <1>3, <1>4, AttemptAssemble

LEMMA RetryDelayEndsKeeps == WifiInv /\ RetryDelayEnds => WifiInv'
  <1> SUFFICES ASSUME WifiInv, RetryDelayEnds PROVE WifiInv'
    OBVIOUS
  <1>1. m.state # "Idle"
    BY NotIdle DEF RetryDelayEnds, At, PCs, Awaits, Stops
  <1>2. /\ m' = Feed(m, "RetryDelayElapsed") /\ sta' = sta /\ radio' = radio /\ sig' = sig
        /\ ClientSide /\ NoCancel /\ Goto("top")
    BY DEF RetryDelayEnds
  <1>3. MachineOK(m') /\ m'.state # "Idle"
    <2>1. "RetryDelayElapsed" \in TaskEvents
      BY DEF TaskEvents
    <2> QED BY <1>1, <1>2, <2>1, Parts, FeedKeeps
  <1>4. task' \in TaskRecords /\ sig' \in BOOLEAN
    BY <1>2, Parts, GotoType DEF PCs
  <1> QED BY <1>2, <1>3, <1>4, Parts, AttemptAssemble

LEMMA ApplyWifiConfigKeeps ==
    ASSUME WifiInv, NEW c \in BOOLEAN, NEW s \in BOOLEAN, ApplyWifiConfig(c, s)
    PROVE  WifiInv'
  <1> DEFINE e == IF c THEN "ApplyConfig" ELSE "ClearConfig"
  <1>1. /\ conf.version < MaxSets
        /\ conf' = [version |-> conf.version + 1, configured |-> c, enabled |-> TRUE, static |-> s]
        /\ m' = Feed(m, e) /\ sig' = TRUE
        /\ UNCHANGED <<cancelId, ack, nextId, client, task, sta, radio>>
    BY DEF ApplyWifiConfig
  <1>2. e \in Events \ {"CancelProvisioning"}
    BY DEF Events
  <1>3. m'.state = "Idle" => m.state = "Idle"
    BY <1>1, <1>2, Parts, OnlyCancelIdles
  <1>4. MachineOK(m')
    BY <1>1, <1>2, Parts, FeedType
  <1>5. conf' \in Configs
    <2>1. conf.version + 1 \in 1..MaxSets
      BY <1>1, Parts, WifiAssumption DEF Configs
    <2> QED BY <1>1, <2>1 DEF Configs
  <1> HIDE DEF e
  <1>6. /\ cancelId' \in Nat /\ ack' \in Nat /\ nextId' \in Nat \ {0} /\ client' \in Clients
        /\ task' \in TaskRecords /\ sta' \in Stations /\ radio' \in {"unknown", "on", "off"}
        /\ sig' \in BOOLEAN
    BY <1>1, Parts
  <1>7. /\ m'.state = "Idle" => ~sta'.started /\ task'.pc \in {"top", "park"} \cup Stops
        /\ Truthful(radio', sta')
    BY <1>1, <1>3, Parts, Zenon
  <1> QED BY <1>4, <1>5, <1>6, <1>7, Assemble

LEMMA CancelKeeps ==
    ASSUME WifiInv, CancelBegin \/ CancelAnswered \/ CancelTimesOut
    PROVE  WifiInv'
  <1>1. m' = m /\ task' = task /\ sta' = sta /\ radio' = radio
    BY DEF CancelBegin, CancelAnswered, CancelTimesOut
  <1>2. conf' \in Configs
    <2>1. [conf EXCEPT !.enabled = FALSE] \in Configs
      BY Parts DEF Configs
    <2> QED BY <2>1, Parts DEF CancelBegin, CancelAnswered, CancelTimesOut
  <1>3. client' \in Clients
    <2>1. client.id \in Nat /\ nextId \in Nat
      BY Parts DEF Clients
    <2>2. 0 \in 0..TransitionTimeout
      BY WifiAssumption
    <2> QED BY <2>1, <2>2 DEF CancelBegin, CancelAnswered, CancelTimesOut, Clients
  <1>4. sig' \in BOOLEAN /\ cancelId' \in Nat /\ ack' \in Nat /\ nextId' \in Nat \ {0}
    <2>1. /\ sig' = sig \/ sig' = TRUE
          /\ cancelId' \in {cancelId, nextId} /\ ack' \in {ack, 0} /\ nextId' \in {nextId, nextId + 1}
      BY DEF CancelBegin, CancelAnswered, CancelTimesOut
    <2>2. sig' \in BOOLEAN
      BY <2>1, Parts, Zenon
    <2> QED BY <2>1, <2>2, Parts
  <1>5. /\ MachineOK(m') /\ task' \in TaskRecords /\ sta' \in Stations
        /\ radio' \in {"unknown", "on", "off"}
    BY <1>1, Parts
  <1>6. /\ m'.state = "Idle" => ~sta'.started /\ task'.pc \in {"top", "park"} \cup Stops
        /\ Truthful(radio', sta')
    BY <1>1, Parts, Zenon
  <1> QED BY <1>2, <1>3, <1>4, <1>5, <1>6, Assemble

\* The access point and the address come and go over a station that stays
\* switched as it is.
LEMMA LinkKeeps ==
    ASSUME sta \in Stations, LinkComes \/ LinkDrops \/ LeaseArrives
    PROVE  sta' \in Stations /\ SameSwitch(sta', sta)
  <1>1. CASE LinkComes
    <2> DEFINE r == [sta EXCEPT !.link = sta.joining]
    <2>1. sta.joining \in 0..MaxSets /\ 0 \in 0..MaxSets
      BY WifiAssumption DEF Stations
    <2>2. r \in Stations /\ SameSwitch(r, sta)
      BY <2>1, StationUpdate, Zenon
    <2>3. sta' = [r EXCEPT !.joining = 0]
      BY <1>1 DEF LinkComes, Stations
    <2> HIDE DEF r
    <2>4. sta' \in Stations /\ SameSwitch(sta', r)
      BY <2>1, <2>2, <2>3, StationUpdate, Zenon
    <2> QED BY <2>2, <2>4, Zenon DEF SameSwitch
  <1>2. CASE LinkDrops
    BY <1>2, LinkDownType DEF LinkDrops
  <1>3. CASE LeaseArrives
    BY <1>3, StationUpdate, Zenon DEF LeaseArrives
  <1> QED BY <1>1, <1>2, <1>3

\* A stop that ends late leaves the station off.
LEMMA LateStopType ==
    ASSUME sta \in Stations, LateStop
    PROVE  sta' \in Stations /\ ~sta'.started /\ sta'.stop = "late"
  <1>1. LinkDown \in Stations
    BY LinkDownType
  <1>2. sta' = [LinkDown EXCEPT !.started = FALSE, !.stop = "late"]
    BY DEF LateStop
  <1> QED BY <1>1, <1>2 DEF Stations

LEMMA RadioKeeps ==
    ASSUME WifiInv, Radio
    PROVE  WifiInv'
  <1>1. UNCHANGED <<m, conf, sig, cancelId, ack, nextId, client, task, radio>>
    BY DEF Radio, LinkComes, LinkDrops, LeaseArrives, LateStop, External
  <1>2. /\ sta' \in Stations /\ Truthful(radio', sta')
        /\ ~sta.started => ~sta'.started
    <2>1. CASE LinkComes \/ LinkDrops \/ LeaseArrives
      <3>1. sta' \in Stations /\ SameSwitch(sta', sta)
        BY <2>1, Parts, LinkKeeps
      <3>2. Truthful(radio, sta')
        BY <3>1, Parts, SwitchKeepsTruth
      <3> QED BY <1>1, <3>1, <3>2 DEF SameSwitch
    <2>2. CASE LateStop
      <3>1. sta' \in Stations /\ ~sta'.started /\ sta'.stop = "late"
        BY <2>2, Parts, LateStopType
      <3> QED BY <3>1 DEF Truthful
    <2> QED BY <2>1, <2>2 DEF Radio
  <1>3. /\ MachineOK(m') /\ conf' \in Configs /\ sig' \in BOOLEAN
        /\ cancelId' \in Nat /\ ack' \in Nat /\ nextId' \in Nat \ {0}
        /\ client' \in Clients /\ task' \in TaskRecords /\ radio' \in {"unknown", "on", "off"}
    BY <1>1, Parts
  <1>4. m'.state = "Idle" => ~sta'.started /\ task'.pc \in {"top", "park"} \cup Stops
    BY <1>1, <1>2, Parts, Zenon
  <1> QED BY <1>2, <1>3, <1>4, Assemble

LEMMA TickKeeps == WifiInv /\ Tick => WifiInv'
  <1> SUFFICES ASSUME WifiInv, Tick PROVE WifiInv'
    OBVIOUS
  <1>1. UNCHANGED <<conf, sig, cancelId, ack, nextId, sta, radio>>
    BY DEF Tick
  <1>2. MachineOK(m') /\ m'.state = m.state
    <2>1. CASE m.timed /\ m.elapsed <= ProvisioningTimeout
      <3> DEFINE n == m.elapsed + 1
      <3>1. m' = [m EXCEPT !.elapsed = n]
        BY <2>1 DEF Tick
      <3>2. n \in 0..(ProvisioningTimeout + 1)
        BY <2>1, Parts, WifiAssumption DEF Machines
      <3> HIDE DEF n
      <3>3. m' \in Machines /\ m'.state = m.state /\ m'.attempts = m.attempts
        BY <3>1, <3>2, Parts, ElapsedUpdate
      <3> QED BY <3>3, Parts, Zenon DEF MachineOK
    <2>2. CASE ~(m.timed /\ m.elapsed <= ProvisioningTimeout)
      BY <2>2, Parts DEF Tick
    <2> QED BY <2>1, <2>2
  <1>3. task' \in TaskRecords /\ task'.pc = task.pc
    BY Parts DEF Tick, TaskRecords
  <1>4. client' \in Clients
    BY Parts, WifiAssumption DEF Tick, Clients
  <1>5. /\ conf' \in Configs /\ sig' \in BOOLEAN /\ cancelId' \in Nat /\ ack' \in Nat
        /\ nextId' \in Nat \ {0} /\ sta' \in Stations /\ radio' \in {"unknown", "on", "off"}
    BY <1>1, Parts
  <1>6. /\ m'.state = "Idle" => ~sta'.started /\ task'.pc \in {"top", "park"} \cup Stops
        /\ Truthful(radio', sta')
    BY <1>1, <1>2, <1>3, Parts, Zenon
  <1> QED BY <1>2, <1>3, <1>4, <1>5, <1>6, Assemble

LEMMA WifiInit == Init => WifiInv
  <1> SUFFICES ASSUME Init PROVE WifiInv
    OBVIOUS
  <1> DEFINE e == IF conf.configured THEN "ApplyConfig" ELSE "ClearConfig"
  <1>1. /\ conf \in Configs /\ m = Feed(Boot, e) /\ sig = FALSE
        /\ cancelId = 0 /\ ack = 0 /\ nextId = 1
        /\ client = [pc |-> "ready", id |-> 0, waited |-> 0]
        /\ task = [pc |-> "top", conf |-> conf, retry |-> FALSE, waited |-> 0]
        /\ sta = Off /\ radio = "unknown"
    BY DEF Init
  <1>2. MachineOK(Boot) /\ Boot.state = "Disabled"
    BY WifiAssumption DEF MachineOK, Machines, Boot, States, FailureCodes
  <1>3. e \in Events \ {"CancelProvisioning"}
    BY DEF Events
  <1> HIDE DEF e
  <1>4. MachineOK(m) /\ m.state # "Idle"
    BY <1>1, <1>2, <1>3, FeedType, OnlyCancelIdles
  <1>5. client \in Clients /\ task \in TaskRecords
    BY <1>1, WifiAssumption DEF Clients, TaskRecords, PCs
  <1>6. sta \in Stations
    BY <1>1, WifiAssumption DEF Stations, Off
  <1>7. TypeOK
    <2>1. m \in Machines
      BY <1>4 DEF MachineOK
    <2>2. sig \in BOOLEAN /\ radio \in {"unknown", "on", "off"}
      BY <1>1, Zenon
    <2>3. cancelId \in Nat /\ ack \in Nat /\ nextId \in Nat \ {0}
      BY <1>1
    <2> QED BY <1>1, <1>5, <1>6, <2>1, <2>2, <2>3, TypeParts, Zenon
  <1>8. IdleIsQuiet /\ RadioIsKnown
    BY <1>1, <1>4 DEF IdleIsQuiet, RadioIsKnown, Off
  <1> QED BY <1>4, <1>7, <1>8 DEF WifiInv

LEMMA WifiStep == WifiInv /\ [Next]_vars => WifiInv'
  <1> SUFFICES ASSUME WifiInv, [Next]_vars PROVE WifiInv'
    OBVIOUS
  <1>1. CASE Client
    BY <1>1, ApplyWifiConfigKeeps, CancelKeeps DEF Client
  <1>2. CASE Task
    BY <1>2, PrepareKeeps, WakeKeeps, StoppedKeeps, StopFailsKeeps, DisableDisconnectedKeeps,
       Ipv4DisconnectedKeeps, LeaveDisconnectedKeeps, ConfigureDriverKeeps, DriverStartedKeeps,
       DriverFailsKeeps, BeginAssociationKeeps, AssociationRefusedKeeps, MovesKeep,
       AssociationTimesOutKeeps, BeginIpv4Keeps, ConnectedKeeps, StationLostKeeps,
       RetryDelayEndsKeeps DEF Task
  <1>3. CASE Radio
    BY <1>3, RadioKeeps
  <1>4. CASE Tick
    BY <1>4, TickKeeps
  <1>5. CASE UNCHANGED vars
    <2>1. UNCHANGED <<m, conf, sig, cancelId, ack, nextId, client, task, sta, radio>>
      BY <1>5 DEF vars
    <2>2. /\ MachineOK(m') /\ conf' \in Configs /\ sig' \in BOOLEAN
          /\ cancelId' \in Nat /\ ack' \in Nat /\ nextId' \in Nat \ {0}
          /\ client' \in Clients /\ task' \in TaskRecords /\ sta' \in Stations
          /\ radio' \in {"unknown", "on", "off"}
      BY <2>1, Parts
    <2>3. /\ m'.state = "Idle" => ~sta'.started /\ task'.pc \in {"top", "park"} \cup Stops
          /\ Truthful(radio', sta')
      BY <2>1, Parts, Zenon
    <2> QED BY <2>2, <2>3, Assemble
  <1> QED BY <1>1, <1>2, <1>3, <1>4, <1>5 DEF Next

\* The inductive invariant holds in every state.
LEMMA WifiHolds == Spec => []WifiInv
  BY WifiInit, WifiStep, PTL DEF Spec

-----------------------------------------------------------------------------
\* Type correctness for every value of the constants; in particular the attempts
\* that retry_or_terminal counts never exceed MAX_PROVISIONING_ATTEMPTS.
THEOREM TypeCorrect == Spec => []TypeOK
  <1>1. WifiInv => TypeOK
    BY DEF WifiInv
  <1> QED BY <1>1, WifiHolds, PTL

\* "idle" is published only over a stopped station, whatever sets, clears, cancels
\* and driver failures meet the awaits of finish_wifi_disable.
THEOREM IdleAlwaysMeansStopped == Spec => []IdleMeansStopped
  <1>1. WifiInv => IdleMeansStopped
    BY DEF WifiInv, IdleIsQuiet, IdleMeansStopped
  <1> QED BY <1>1, WifiHolds, PTL

\* publish_wifi_hardware_state never says "off" of a started station, and "on" of a
\* stopped one only when a stop that was given up has ended later.
THEOREM RadioIsAlwaysKnown == Spec => []RadioIsKnown
  <1>1. WifiInv => RadioIsKnown
    BY DEF WifiInv
  <1> QED BY <1>1, WifiHolds, PTL

-----------------------------------------------------------------------------
(* Cancels, sets and errors.                                                 *)

Resting == {"top", "park"} \cup Stops

\* While a cancel waits, nobody enables the configuration, and from its own
\* acknowledgement on the task neither starts the station nor an attempt.
CancelHolds ==
    client.pc = "cancelling" =>
        /\ ~conf.enabled
        /\ ack = client.id =>
             ~sta.started /\ task.pc \in Resting /\ m.state \in {"Idle", "Disabled", "Error"}

\* Before the first cancel the task never disables the station, a set that meets
\* the stop of an earlier clear has its signal pending until the stop ends, and the
\* machine that the clear then disables is on its way to the head of the loop.
SetStands ==
    nextId = 1 =>
        /\ conf.enabled /\ m.state # "Idle"
        /\ task.pc \notin {"disableDisconnect", "disableStop"}
        /\ task.pc = "stop" /\ conf.configured => sig
        /\ m.state = "Disabled" /\ conf.configured => task.pc = "top"

\* The failure codes under which a set may have been swallowed.
Timeouts == {"DisconnectTimedOut", "Ipv4TimedOut"}

Trying == {"Connecting", "Connected"}

\* Before the first cancel the machine tries, and fails on, what the task took up
\* last, and the task parks over a configuration only when that has ended.
SetTried ==
    nextId = 1 =>
        /\ m.state \in Trying /\ task.pc # "top" => task.conf = conf
        /\ m.state = "Error" /\ m.failure \notin Timeouts => task.conf = conf
        /\ task.pc = "park" /\ ~sig /\ conf.configured => m.state \in {"Connected", "Error"}

\* An event leaves a machine in error as it is, unless it brings a configuration
\* or a cancel.
LEMMA ErrorIgnores ==
    ASSUME NEW mm, mm.state = "Error",
           NEW e \in Events \ {"ApplyConfig", "ClearConfig", "CancelProvisioning"}
    PROVE  Feed(mm, e) = mm
  <1>1. ExpiredEvent(mm, e) = e
    BY DEF ExpiredEvent
  <1>2. e \in Failures \cup {"DisconnectCompleted", "DisconnectTimedOut",
                             "DriverConfigured", "AssociationSucceeded", "Ipv4Configured",
                             "ProvisioningTimedOut", "RetryDelayElapsed", "StationDisconnected"}
    BY Zenon DEF Events
  <1>3. ~Accepts(mm, e)
    BY <1>2 DEF Accepts, Failures
  <1> QED BY <1>1, <1>3 DEF Feed, Accepted

\* A configuration is a new generation, and a cancel ends in idle.
LEMMA ErrorAccepts ==
    ASSUME NEW mm \in Machines, mm.state = "Error"
    PROVE  /\ Feed(mm, "ApplyConfig").generation > mm.generation
           /\ Feed(mm, "ClearConfig").generation > mm.generation
           /\ Feed(mm, "ClearConfig").state = "Disabled"
           /\ Feed(mm, "CancelProvisioning").state = "Idle"
  <1>1. \A e : ExpiredEvent(mm, e) = e
    BY DEF ExpiredEvent
  <1>2. /\ Accepts(mm, "ApplyConfig") /\ Accepts(mm, "ClearConfig")
        /\ Accepts(mm, "CancelProvisioning")
    BY DEF Accepts
  <1>3. /\ Feed(mm, "ApplyConfig") = Transition(mm, "ApplyConfig")
        /\ Feed(mm, "ClearConfig") = Transition(mm, "ClearConfig")
        /\ Feed(mm, "CancelProvisioning") = Transition(mm, "CancelProvisioning")
    BY <1>1, <1>2 DEF Feed, Accepted
  <1>4. mm.generation \in Nat
    BY DEF Machines
  <1>5. /\ Transition(mm, "ApplyConfig").generation = mm.generation + 1
        /\ Transition(mm, "ClearConfig").generation = mm.generation + 1
        /\ Transition(mm, "ClearConfig").state = "Disabled"
    BY DEF Transition, Restarted, Failures
  <1>6. Transition(mm, "CancelProvisioning").state = "Idle"
    BY DEF Transition, Restarted, Failures
  <1> QED BY <1>3, <1>4, <1>5, <1>6

\* Only ClearConfig disables.
LEMMA OnlyClearDisables ==
    ASSUME NEW mm, NEW e \in Events \ {"ClearConfig"}, mm.state # "Disabled"
    PROVE  Feed(mm, e).state # "Disabled"
  <1> DEFINE x == ExpiredEvent(mm, e)
  <1>1. x \in Events \ {"ClearConfig"}
    BY DEF ExpiredEvent, Events
  <1> HIDE DEF x
  <1>2. ASSUME Accepts(mm, x) PROVE Transition(mm, x).state # "Disabled"
    BY <1>1, <1>2 DEF Transition, Restarted, RetryOrTerminal, Became, Events, Failures
  <1> QED BY <1>2 DEF Feed, Accepted, x

-----------------------------------------------------------------------------
\* The steps of the task inside an attempt.
Attempt ==
    \/ ConfigureDriver \/ DriverStarted \/ DriverFails
    \/ BeginAssociation \/ AssociationRefused \/ Associated \/ AssociationTimesOut
    \/ BeginIpv4 \/ Ipv4Arrives \/ Ipv4TimesOut
    \/ Connected \/ StationLost \/ ReconnectDelayEnds \/ LeaveBegin \/ RetryDelayEnds
    \/ \E d \in BOOLEAN : Ipv4Disconnected(d) \/ LeaveDisconnected(d)

\* What the driver and the delays report to the machine.
AttemptEvents == TaskEvents \ {"ClearConfig"}

\* The machine after no report, one, or two in a row.
Reported(mm, r) ==
    \/ r = mm
    \/ \E e \in AttemptEvents : r = Feed(mm, e)
    \/ \E e, f \in AttemptEvents : r = Feed(Feed(mm, e), f)

LEMMA GotoPc ==
    ASSUME NEW pc, Goto(pc) \/ GotoSelect(pc)
    PROVE  task'.pc \in {pc, "top", "leave"}
  BY DEF Goto, GotoSelect

LEMMA FailPc ==
    ASSUME NEW mm, NEW e, Fail(mm, e)
    PROVE  m' = Feed(mm, e) /\ task'.pc \in {"top", "leave", "park", "retryDelay"}
  <1>1. m' = Feed(mm, e)
    BY DEF Fail
  <1>2. Goto("top") \/ GotoSelect("park") \/ GotoSelect("retryDelay")
    BY DEF Fail
  <1> QED BY <1>1, <1>2, GotoPc

\* A step of an attempt reports at most two events, leaves the requests alone and
\* does not lead into a stop.
LEMMA AttemptStep ==
    ASSUME Attempt
    PROVE  /\ task.pc \notin Resting
           /\ ClientSide /\ NoCancel
           /\ Reported(m, m')
           /\ task'.pc \notin Stops
  <1>1. ClientSide /\ NoCancel
    BY DEF Attempt, ConfigureDriver, DriverStarted, DriverFails, BeginAssociation,
           AssociationRefused, Associated, AssociationTimesOut, BeginIpv4, Ipv4Arrives,
           Ipv4TimesOut, Connected, StationLost, ReconnectDelayEnds, LeaveBegin, RetryDelayEnds,
           Ipv4Disconnected, LeaveDisconnected
  <1>2. task.pc \notin Resting
    BY DEF Attempt, ConfigureDriver, DriverStarted, DriverFails, BeginAssociation,
           AssociationRefused, Associated, AssociationTimesOut, BeginIpv4, Ipv4Arrives,
           Ipv4TimesOut, Connected, StationLost, ReconnectDelayEnds, LeaveBegin, RetryDelayEnds,
           Ipv4Disconnected, LeaveDisconnected, At, Resting, Stops
  <1> SUFFICES Reported(m, m') /\ task'.pc \notin Stops
    BY <1>1, <1>2
  <1>3. \A e \in AttemptEvents : Reported(m, Feed(m, e))
    BY Zenon DEF Reported
  <1>4. Reported(m, m)
    BY Zenon DEF Reported
  <1>5. CASE ConfigureDriver \/ DriverStarted \/ Associated \/ Ipv4Arrives \/ Ipv4TimesOut \/ LeaveBegin
    <2>1. m' = m
      BY <1>5 DEF ConfigureDriver, DriverStarted, Associated, Ipv4Arrives, Ipv4TimesOut, LeaveBegin
    <2>2. task'.pc \in {"driven", "start", "linked", "addressed", "ipv4Disconnect", "leave"}
      BY <1>5 DEF ConfigureDriver, DriverStarted, Associated, Ipv4Arrives, Ipv4TimesOut, LeaveBegin,
                  Goto
    <2> QED BY <1>4, <2>1, <2>2 DEF Stops
  <1>6. CASE ReconnectDelayEnds
    <2>1. m' = m /\ task'.pc = "top"
      BY <1>6 DEF ReconnectDelayEnds
    <2> QED BY <1>4, <2>1 DEF Stops
  <1>7. CASE \/ DriverFails \/ AssociationTimesOut \/ \E d \in BOOLEAN : Ipv4Disconnected(d)
    <2>1. PICK e \in Failures : Fail(m, e)
      BY <1>7 DEF DriverFails, AssociationTimesOut, Ipv4Disconnected, Failures
    <2>2. e \in AttemptEvents
      BY DEF AttemptEvents, TaskEvents, Failures
    <2>3. m' = Feed(m, e) /\ task'.pc \in {"top", "leave", "park", "retryDelay"}
      BY <2>1, FailPc
    <2> QED BY <1>3, <2>2, <2>3 DEF Stops
  <1>8. CASE AssociationRefused
    <2>1. Fail(Feed(m, "DriverConfigured"), "AssociationFailed")
      BY <1>8 DEF AssociationRefused
    <2>2. /\ m' = Feed(Feed(m, "DriverConfigured"), "AssociationFailed")
          /\ task'.pc \in {"top", "leave", "park", "retryDelay"}
      BY <2>1, FailPc
    <2>3. "DriverConfigured" \in AttemptEvents /\ "AssociationFailed" \in AttemptEvents
      BY DEF AttemptEvents, TaskEvents, Failures
    <2>4. Reported(m, m')
      BY <2>2, <2>3, Zenon DEF Reported
    <2> QED BY <2>2, <2>4 DEF Stops
  <1>9. CASE BeginAssociation \/ BeginIpv4 \/ Connected \/ StationLost \/ RetryDelayEnds
    <2>1. m' \in {Feed(m, e) : e \in {"DriverConfigured", "AssociationSucceeded", "Ipv4Configured",
                                      "StationDisconnected", "RetryDelayElapsed"}}
      BY <1>9 DEF BeginAssociation, BeginIpv4, Connected, StationLost, RetryDelayEnds
    <2>2. PICK pc \in {"linked", "associate", "addressed", "ipv4", "watch", "top", "reconnectDelay"} :
                 Goto(pc) \/ GotoSelect(pc)
      BY <1>9 DEF BeginAssociation, BeginIpv4, Connected, StationLost, RetryDelayEnds
    <2>3. task'.pc \in {pc, "top", "leave"}
      BY <2>2, GotoPc
    <2>4. Reported(m, m')
      BY <1>3, <2>1 DEF AttemptEvents, TaskEvents
    <2> QED BY <2>3, <2>4 DEF Stops
  <1>10. CASE \E d \in BOOLEAN : LeaveDisconnected(d)
    <2>1. \/ m' = Feed(m, "DisconnectCompleted") /\ Goto("top")
          \/ Fail(m, "DisconnectTimedOut")
      BY <1>10 DEF LeaveDisconnected
    <2>2. /\ m' \in {Feed(m, "DisconnectCompleted"), Feed(m, "DisconnectTimedOut")}
          /\ task'.pc \in {"top", "leave", "park", "retryDelay"}
      BY <2>1, GotoPc, FailPc
    <2>3. "DisconnectCompleted" \in AttemptEvents /\ "DisconnectTimedOut" \in AttemptEvents
      BY DEF AttemptEvents, TaskEvents
    <2> QED BY <1>3, <2>2, <2>3 DEF Stops
  <1> QED BY <1>5, <1>6, <1>7, <1>8, <1>9, <1>10 DEF Attempt

\* No report makes a machine idle or disabled, or wakes one that is in error.
LEMMA ReportedKeeps ==
    ASSUME NEW mm, MachineOK(mm), NEW r, Reported(mm, r)
    PROVE  /\ mm.state # "Idle" => r.state # "Idle"
           /\ mm.state # "Disabled" => r.state # "Disabled"
           /\ mm.state = "Error" => r = mm
  <1>1. \A e \in AttemptEvents : e \in TaskEvents
    BY DEF AttemptEvents
  <1>2. \A e \in AttemptEvents : e \in Events \ {"ApplyConfig", "ClearConfig", "CancelProvisioning"}
    BY DEF AttemptEvents, TaskEvents, Events, Failures
  <1>3. \A e \in AttemptEvents : MachineOK(Feed(mm, e))
    BY <1>2, FeedType
  <1>4. mm.state # "Idle" => \A e, f \in AttemptEvents :
            Feed(mm, e).state # "Idle" /\ Feed(Feed(mm, e), f).state # "Idle"
    BY <1>1, <1>3, FeedKeeps
  <1>5. mm.state # "Disabled" => \A e, f \in AttemptEvents :
            Feed(mm, e).state # "Disabled" /\ Feed(Feed(mm, e), f).state # "Disabled"
    BY <1>2, OnlyClearDisables
  <1>6. mm.state = "Error" => \A e, f \in AttemptEvents :
            Feed(mm, e) = mm /\ Feed(Feed(mm, e), f) = mm
    BY <1>2, ErrorIgnores
  <1> QED BY <1>4, <1>5, <1>6, Zenon DEF Reported

\* The steps that are not part of an attempt, told apart by what they change.
LEMMA StepKinds ==
    ASSUME [Next]_vars
    PROVE  \/ Client \/ Prepare \/ Wake \/ Stopped \/ StopFails
           \/ \E d \in BOOLEAN : DisableDisconnected(d)
           \/ Attempt \/ Radio \/ Tick \/ UNCHANGED vars
  BY DEF Next, Task, Attempt

\* A stop for a cancel ends an attempt, and a stop for a clear disables.
LEMMA StopSettles ==
    ASSUME NEW mm, MachineOK(mm)
    PROVE  /\ Feed(mm, "CancelProvisioning").state \in {"Idle", "Disabled", "Error"}
           /\ mm.state \in {"Idle", "Disabled", "Error"} => Feed(mm, "ClearConfig").state = "Disabled"
  <1>1. mm.state \in States /\ mm \in Machines
    BY DEF MachineOK, Machines
  <1>2. ASSUME mm.state \in {"Idle", "Disabled"}
        PROVE  Feed(mm, "CancelProvisioning").state \in {"Idle", "Disabled", "Error"}
    <2>1. ~Accepts(mm, "CancelProvisioning") /\ ExpiredEvent(mm, "CancelProvisioning") = "CancelProvisioning"
      BY <1>2 DEF Accepts, ExpiredEvent
    <2> QED BY <1>2, <2>1 DEF Feed, Accepted
  <1>3. ASSUME mm.state \notin {"Idle", "Disabled"}
        PROVE  Feed(mm, "CancelProvisioning").state \in {"Idle", "Disabled", "Error"}
    <2> DEFINE x == ExpiredEvent(mm, "CancelProvisioning")
    <2>1. x \in {"CancelProvisioning", "DisconnectTimedOut", "ProvisioningTimedOut"}
      BY DEF ExpiredEvent
    <2>2. Accepts(mm, x)
      BY <1>3 DEF Accepts, ExpiredEvent
    <2>3. Feed(mm, "CancelProvisioning") = Transition(mm, x)
      BY <2>2 DEF Feed, Accepted
    <2> HIDE DEF x
    <2>4. Transition(mm, x).state \in {"Idle", "Error"}
      BY <1>1, <2>1, BecameType DEF Transition, Restarted, Failures, FailureCodes, States
    <2> QED BY <2>3, <2>4
  <1>4. ASSUME mm.state \in {"Idle", "Disabled", "Error"}
        PROVE  Feed(mm, "ClearConfig").state = "Disabled"
    <2>1. ExpiredEvent(mm, "ClearConfig") = "ClearConfig" /\ Accepts(mm, "ClearConfig")
      BY <1>4 DEF ExpiredEvent, Accepts
    <2>2. Feed(mm, "ClearConfig") = Transition(mm, "ClearConfig")
      BY <2>1 DEF Feed, Accepted
    <2>3. Transition(mm, "ClearConfig").state = "Disabled"
      BY DEF Transition, Restarted, Failures
    <2> QED BY <2>2, <2>3
  <1> QED BY <1>2, <1>3, <1>4

LEMMA SetEnables ==
    ASSUME NEW mm, mm.state = "Disabled"
    PROVE  Feed(mm, "ApplyConfig").state = "Saving"
  <1>1. ExpiredEvent(mm, "ApplyConfig") = "ApplyConfig" /\ Accepts(mm, "ApplyConfig")
    BY DEF ExpiredEvent, Accepts
  <1>2. Feed(mm, "ApplyConfig") = Transition(mm, "ApplyConfig")
    BY <1>1 DEF Feed, Accepted
  <1>3. Transition(mm, "ApplyConfig").state = "Saving"
    BY DEF Transition, Restarted, Failures
  <1> QED BY <1>2, <1>3

\* The disconnect stage ends in an attempt, or in its timeout.
LEMMA SavingEnds ==
    ASSUME NEW mm, MachineOK(mm), mm.state = "Saving"
    PROVE  Feed(mm, "DisconnectCompleted").state \in {"Connecting", "Error"}
  <1> DEFINE x == ExpiredEvent(mm, "DisconnectCompleted")
  <1>1. x \in {"DisconnectCompleted", "DisconnectTimedOut"}
    BY DEF ExpiredEvent
  <1>2. Accepts(mm, x)
    BY <1>1 DEF Accepts
  <1>3. Feed(mm, "DisconnectCompleted") = Transition(mm, x)
    BY <1>2 DEF Feed, Accepted
  <1> HIDE DEF x
  <1>4. /\ mm \in Machines
        /\ "none" \in FailureCodes /\ "DisconnectTimedOut" \in FailureCodes
        /\ "Connecting" \in States /\ "Error" \in States
    BY DEF MachineOK, FailureCodes, States
  <1>5. Transition(mm, x) \in {Became(mm, "Connecting", "none"),
                              Became(mm, "Error", "DisconnectTimedOut")}
    BY <1>1 DEF Transition, Failures
  <1> QED BY <1>3, <1>4, <1>5, BecameType

LEMMA CancelStep == WifiInv /\ CancelHolds /\ [Next]_vars => CancelHolds'
  <1> SUFFICES ASSUME WifiInv, CancelHolds, [Next]_vars, client'.pc = "cancelling"
               PROVE  /\ ~conf'.enabled
                      /\ ack' = client'.id =>
                           /\ ~sta'.started /\ task'.pc \in Resting
                           /\ m'.state \in {"Idle", "Disabled", "Error"}
    BY DEF CancelHolds
  <1>1. CASE CancelBegin
    <2>1. conf' = [conf EXCEPT !.enabled = FALSE] /\ ack' = 0 /\ client'.id = nextId
      BY <1>1 DEF CancelBegin
    <2>2. ~conf'.enabled
      BY <2>1, Parts DEF Configs
    <2>3. ack' # client'.id
      BY <2>1, Parts
    <2> QED BY <2>2, <2>3
  <1>2. CASE CancelAnswered \/ CancelTimesOut \/ \E c, s \in BOOLEAN : ApplyWifiConfig(c, s)
    BY <1>2 DEF CancelAnswered, CancelTimesOut, ApplyWifiConfig, ClientMayRun
  <1>3. CASE Tick
    <2>1. client.pc = "cancelling" /\ client'.id = client.id /\ client'.pc = "cancelling"
      BY <1>3, Parts DEF Tick, Clients
    <2>2. m'.state = m.state /\ task'.pc = task.pc
      BY <1>3, Parts DEF Tick, Machines, TaskRecords
    <2>3. conf' = conf /\ sta' = sta /\ ack' = ack
      BY <1>3 DEF Tick
    <2> QED BY <2>1, <2>2, <2>3 DEF CancelHolds
  <1>4. ASSUME UNCHANGED <<client, conf>>
        PROVE  client.pc = "cancelling" /\ ~conf.enabled /\ ~conf'.enabled /\ client' = client
    BY <1>4 DEF CancelHolds
  <1>5. CASE Radio
    <2>1. UNCHANGED <<m, conf, ack, client, task>>
      BY <1>5 DEF Radio, LinkComes, LinkDrops, LeaseArrives, LateStop, External
    <2>2. ~sta.started => ~sta'.started
      BY <1>5, Parts, LinkKeeps, LateStopType DEF Radio, SameSwitch
    <2> QED BY <1>4, <2>1, <2>2 DEF CancelHolds
  <1>6. CASE Attempt
    <2>1. task.pc \notin Resting /\ UNCHANGED <<client, conf, ack>>
      BY <1>6, AttemptStep DEF ClientSide, NoCancel
    <2> QED BY <1>4, <2>1 DEF CancelHolds
  <1>7. CASE Prepare
    <2>1. UNCHANGED <<client, conf, ack>>
      BY <1>7 DEF Prepare, ClientSide, NoCancel
    <2>2. ~conf.enabled
      BY <1>4, <2>1
    <2>3. m' = m /\ sta' = sta /\ task'.pc \in {"stop", "disableDisconnect"}
      BY <1>7, <2>2 DEF Prepare
    <2> QED BY <1>4, <2>1, <2>3 DEF CancelHolds, Resting, Stops
  <1>8. CASE Wake
    <2>1. UNCHANGED <<client, conf, ack, m, sta>> /\ task'.pc = "top"
      BY <1>8 DEF Wake, ClientSide, NoCancel, Goto
    <2> QED BY <1>4, <2>1 DEF CancelHolds, Resting
  <1>9. CASE Stopped
    <2>1. /\ UNCHANGED <<client, conf>> /\ sta' = Off /\ GotoSelect("park")
          /\ \/ task.pc = "stop" /\ ack' = ack /\ m' \in {m, Feed(m, "ClearConfig")}
             \/ task.pc = "disableStop" /\ (m.state = "Idle" \/ m' = Feed(m, "CancelProvisioning"))
                                        /\ (m.state # "Idle" \/ m' = m)
      BY <1>9 DEF Stopped, ClientSide, NoCancel, At
    <2>2. ~sta'.started /\ task'.pc \in Resting
      BY <2>1, Parts, GotoSelectType DEF Off, Resting, PCs, Awaits
    <2>3. ack' = client'.id => m'.state \in {"Idle", "Disabled", "Error"}
      <3>1. MachineOK(m)
        BY Parts
      <3> QED BY <1>4, <2>1, <3>1, StopSettles DEF CancelHolds
    <2> QED BY <1>4, <2>1, <2>2, <2>3
  <1>10. CASE StopFails
    <2>1. /\ UNCHANGED <<client, conf, ack>> /\ GotoSelect("park")
          /\ sta' \in Unstopped /\ radio' \in Probe
          /\ m' \in {m, Feed(m, "ClearConfig"), Feed(m, "DisconnectTimedOut")}
      BY <1>10 DEF StopFails, ClientSide, NoCancel
    <2>2. sta'.started = sta.started /\ task'.pc \in Resting
      BY <2>1, Parts, ProbeIsTrue, GotoSelectType DEF Resting, PCs, Awaits
    <2>3. ack' = client'.id => m'.state \in {"Idle", "Disabled", "Error"}
      <3>1. "DisconnectTimedOut" \in Events \ {"ApplyConfig", "ClearConfig", "CancelProvisioning"}
        BY DEF Events
      <3>2. ASSUME m.state \in {"Idle", "Disabled", "Error"}
            PROVE  Feed(m, "DisconnectTimedOut") = m
        BY <3>1, <3>2, IdleIgnores, DisabledIgnores, ErrorIgnores
      <3> QED BY <1>4, <2>1, <3>2, Parts, StopSettles DEF CancelHolds
    <2> QED BY <1>4, <2>1, <2>2, <2>3 DEF CancelHolds
  <1>11. CASE \E d \in BOOLEAN : DisableDisconnected(d)
    <2>1. /\ UNCHANGED <<client, conf, ack, m>> /\ task'.pc = "disableStop"
          /\ \E d \in BOOLEAN : Disconnect(d)
      BY <1>11 DEF DisableDisconnected, ClientSide, NoCancel, Goto
    <2>2. SameSwitch(sta', sta)
      BY <2>1, Parts, DisconnectType
    <2> QED BY <1>4, <2>1, <2>2 DEF CancelHolds, Resting, Stops, SameSwitch
  <1>12. CASE UNCHANGED vars
    BY <1>12 DEF vars, CancelHolds
  <1> QED BY <1>1, <1>2, <1>3, <1>5, <1>6, <1>7, <1>8, <1>9, <1>10, <1>11, <1>12, StepKinds DEF Client

\* A set that the head of the loop takes up is on its way to the driver, or has
\* failed, or is connected.
LEMMA PrepareRuns ==
    ASSUME WifiInv, Prepare, conf.configured, conf.enabled, m.state # "Idle"
    PROVE  /\ task'.pc \in {"bus", "top", "park"}
           /\ m'.state \in {"Connecting", "Connected", "Error"}
           /\ task'.pc = "park" => m'.state # "Connecting"
  <1> DEFINE m1 == IF m.state = "Disabled" THEN Feed(m, "ApplyConfig") ELSE m
             m2 == IF task.retry THEN Feed(m1, "RetryDelayElapsed") ELSE m1
             m3 == IF m2.state = "Saving" THEN Feed(m2, "DisconnectCompleted") ELSE m2
  <1>1. /\ m' = m3 /\ task'.pc \in {"bus", "top", "park"}
        /\ task'.pc = "park" => m3.state # "Connecting"
    BY DEF Prepare
  <1>2. MachineOK(m1) /\ m1.state \notin {"Idle", "Disabled"}
    <2>1. CASE m.state = "Disabled"
      <3>1. MachineOK(Feed(m, "ApplyConfig"))
        BY Parts, FeedType DEF Events
      <3> QED BY <2>1, <3>1, SetEnables
    <2>2. CASE m.state # "Disabled"
      BY <2>2, Parts
    <2> QED BY <2>1, <2>2
  <1> HIDE DEF m1
  <1>3. /\ "RetryDelayElapsed" \in Events \ {"ClearConfig", "CancelProvisioning"}
        /\ "DisconnectCompleted" \in Events \ {"ClearConfig", "CancelProvisioning"}
    BY DEF Events
  <1>4. MachineOK(m2) /\ m2.state \notin {"Idle", "Disabled"}
    BY <1>2, <1>3, FeedType, OnlyCancelIdles, OnlyClearDisables
  <1> HIDE DEF m2
  <1>5. MachineOK(m3) /\ m3.state \notin {"Idle", "Disabled"}
    BY <1>3, <1>4, FeedType, OnlyCancelIdles, OnlyClearDisables
  <1>6. m3.state # "Saving"
    BY <1>4, SavingEnds
  <1> HIDE DEF m3
  <1> QED BY <1>1, <1>5, <1>6 DEF MachineOK, Machines, States

LEMMA SetStep == WifiInv /\ SetStands /\ [Next]_vars => SetStands'
  <1> SUFFICES ASSUME WifiInv, SetStands, [Next]_vars, nextId' = 1
               PROVE  /\ conf'.enabled /\ m'.state # "Idle"
                      /\ task'.pc \notin {"disableDisconnect", "disableStop"}
                      /\ task'.pc = "stop" /\ conf'.configured => sig'
                      /\ m'.state = "Disabled" /\ conf'.configured => task'.pc = "top"
    BY DEF SetStands
  <1>0. ASSUME nextId' = nextId
        PROVE  /\ conf.enabled /\ m.state # "Idle"
               /\ task.pc \notin {"disableDisconnect", "disableStop"}
               /\ task.pc = "stop" /\ conf.configured => sig
               /\ m.state = "Disabled" /\ conf.configured => task.pc = "top"
    BY <1>0 DEF SetStands
  <1>1. CASE CancelBegin
    BY <1>1, Parts DEF CancelBegin
  <1>2. CASE CancelAnswered \/ CancelTimesOut
    <2>1. UNCHANGED <<m, conf, sig, nextId, task>>
      BY <1>2 DEF CancelAnswered, CancelTimesOut
    <2> QED BY <1>0, <2>1
  <1>3. ASSUME NEW c \in BOOLEAN, NEW s \in BOOLEAN, ApplyWifiConfig(c, s)
        PROVE  SetStands'
    <2>1. /\ conf'.enabled = TRUE /\ conf'.configured = c /\ sig' = TRUE
          /\ m' = Feed(m, IF c THEN "ApplyConfig" ELSE "ClearConfig")
          /\ UNCHANGED <<nextId, task>>
      BY <1>3 DEF ApplyWifiConfig
    <2>2. m'.state # "Idle"
      BY <1>0, <2>1, Parts, OnlyCancelIdles DEF Events
    <2>3. c => m'.state # "Disabled"
      <3> SUFFICES ASSUME c PROVE m'.state # "Disabled"
        OBVIOUS
      <3>1. CASE m.state # "Disabled"
        <4>1. "ApplyConfig" \in Events \ {"ClearConfig"}
          BY DEF Events
        <4> QED BY <2>1, <3>1, <4>1, OnlyClearDisables
      <3>2. CASE m.state = "Disabled"
        BY <2>1, <3>2, SetEnables
      <3> QED BY <3>1, <3>2
    <2> QED BY <1>0, <2>1, <2>2, <2>3 DEF SetStands
  <1>4. CASE Tick
    <2>1. m'.state = m.state /\ task'.pc = task.pc
      BY <1>4, Parts DEF Tick, Machines, TaskRecords
    <2>2. UNCHANGED <<conf, sig, nextId>>
      BY <1>4 DEF Tick
    <2> QED BY <1>0, <2>1, <2>2
  <1>5. CASE Radio \/ UNCHANGED vars
    <2>1. UNCHANGED <<m, conf, sig, nextId, task>>
      BY <1>5 DEF Radio, LinkComes, LinkDrops, LeaseArrives, LateStop, External, vars
    <2> QED BY <1>0, <2>1
  <1>6. CASE Attempt
    <2>1. task.pc \notin Resting /\ UNCHANGED <<conf, nextId>> /\ Reported(m, m') /\ task'.pc \notin Stops
      BY <1>6, AttemptStep DEF ClientSide
    <2>2. /\ m.state # "Idle" => m'.state # "Idle"
          /\ m.state # "Disabled" => m'.state # "Disabled"
      BY <2>1, Parts, ReportedKeeps
    <2> QED BY <1>0, <2>1, <2>2 DEF Resting, Stops
  <1>7. CASE Wake
    <2>1. UNCHANGED <<conf, nextId, m>> /\ task'.pc = "top"
      BY <1>7 DEF Wake, ClientSide, Goto
    <2> QED BY <1>0, <2>1
  <1>8. CASE Stopped \/ StopFails
    <2>1. task.pc \in {"stop", "disableStop"} /\ UNCHANGED <<conf, nextId>> /\ GotoSelect("park")
      BY <1>8 DEF Stopped, StopFails, ClientSide
    <2>2. task.pc = "stop"
      BY <1>0, <2>1
    <2>3. m' \in {m, Feed(m, "ClearConfig")}
      BY <1>8, <2>2 DEF Stopped, StopFails, At
    <2>4. "ClearConfig" \in Events \ {"CancelProvisioning"}
      BY DEF Events
    <2>5. m'.state # "Idle"
      BY <1>0, <2>1, <2>3, <2>4, Parts, OnlyCancelIdles
    <2>6. task'.pc \in {"park", "top"} /\ (sig => task'.pc = "top")
      BY <2>1 DEF GotoSelect, Goto
    <2> QED BY <1>0, <2>1, <2>2, <2>5, <2>6
  <1>9. CASE \E d \in BOOLEAN : DisableDisconnected(d)
    <2>1. task.pc = "disableDisconnect" /\ nextId' = nextId
      BY <1>9 DEF DisableDisconnected, At, ClientSide
    <2> QED BY <1>0, <2>1
  <1>10. CASE Prepare
    <2>1. UNCHANGED <<conf, nextId>>
      BY <1>10 DEF Prepare, ClientSide
    <2>2. conf.enabled /\ m.state # "Idle"
      BY <1>0, <2>1
    <2>3. CASE ~conf.configured
      <3>1. m' = m /\ task'.pc = "stop"
        BY <1>10, <2>3 DEF Prepare
      <3> QED BY <2>1, <2>2, <2>3, <3>1
    <2>4. CASE conf.configured
      BY <1>10, <2>1, <2>2, <2>4, PrepareRuns
    <2> QED BY <2>3, <2>4
  <1>11. SetStands'
    BY <1>1, <1>2, <1>3, <1>4, <1>5, <1>6, <1>7, <1>8, <1>9, <1>10, StepKinds DEF Client, SetStands
  <1> QED BY <1>11 DEF SetStands

\* Outside of the disconnect stage an attempt is not begun by a report, and what
\* fails otherwise than by a timeout has been tried.
LEMMA ReportOrigin ==
    ASSUME NEW mm, MachineOK(mm), NEW e \in AttemptEvents \ {"DisconnectCompleted"}
    PROVE  /\ Feed(mm, e).state \in Trying => mm.state \in Trying
           /\ Feed(mm, e).state = "Error" /\ Feed(mm, e).failure \notin Timeouts =>
                mm.state \in Trying \/ Feed(mm, e) = mm
  <1> DEFINE x == ExpiredEvent(mm, e)
  <1>1. CASE ~Accepts(mm, x)
    BY <1>1 DEF Feed, Accepted
  <1>2. CASE Accepts(mm, x)
    <2>1. Feed(mm, e) = Transition(mm, x)
      BY <1>2 DEF Feed, Accepted
    <2>2. /\ mm \in Machines /\ "Error" \in States
          /\ "DisconnectTimedOut" \in FailureCodes /\ "Ipv4TimedOut" \in FailureCodes
      BY DEF MachineOK, FailureCodes, States
    <2>3. CASE x \in {"DisconnectTimedOut", "ProvisioningTimedOut"}
      <3>1. Transition(mm, x) \in {Became(mm, "Error", "DisconnectTimedOut"),
                                  Became(mm, "Error", "Ipv4TimedOut")}
        BY <2>3 DEF Transition, Failures
      <3>2. Transition(mm, x).state = "Error" /\ Transition(mm, x).failure \in Timeouts
        BY <2>2, <3>1, BecameType DEF Timeouts
      <3> QED BY <2>1, <3>2 DEF Trying
    <2>4. CASE x \notin {"DisconnectTimedOut", "ProvisioningTimedOut"}
      <3>1. x = e
        BY <2>4 DEF ExpiredEvent
      <3>2. e \in Failures \cup {"DriverConfigured", "AssociationSucceeded", "Ipv4Configured",
                                 "RetryDelayElapsed", "StationDisconnected"}
        BY <2>4, <3>1, Zenon DEF AttemptEvents, TaskEvents
      <3>3. mm.state \in Trying
        BY <1>2, <3>1, <3>2 DEF Accepts, Failures, Trying
      <3> QED BY <3>3
    <2> QED BY <2>3, <2>4
  <1> QED BY <1>1, <1>2

\* A new configuration is first disconnected, or swallowed by a timeout.
LEMMA ConfigOrigin ==
    ASSUME NEW mm, MachineOK(mm), NEW e \in {"ApplyConfig", "ClearConfig"}
    PROVE  /\ Feed(mm, e).state \notin Trying
           /\ Feed(mm, e).state = "Error" => Feed(mm, e).failure \in Timeouts
  <1> DEFINE x == ExpiredEvent(mm, e)
  <1>1. x \in {e, "DisconnectTimedOut", "ProvisioningTimedOut"} /\ Accepts(mm, x)
    BY DEF ExpiredEvent, Accepts
  <1>2. Feed(mm, e) = Transition(mm, x)
    BY <1>1 DEF Feed, Accepted
  <1> HIDE DEF x
  <1>3. CASE x = e
    <2>1. /\ Transition(mm, "ApplyConfig").state = "Saving"
          /\ Transition(mm, "ClearConfig").state = "Disabled"
      BY DEF Transition, Restarted, Failures
    <2> QED BY <1>2, <1>3, <2>1 DEF Trying
  <1>4. CASE x \in {"DisconnectTimedOut", "ProvisioningTimedOut"}
    <2>1. Transition(mm, x) \in {Became(mm, "Error", "DisconnectTimedOut"),
                                Became(mm, "Error", "Ipv4TimedOut")}
      BY <1>4 DEF Transition, Failures
    <2>2. /\ mm \in Machines /\ "Error" \in States
          /\ "DisconnectTimedOut" \in FailureCodes /\ "Ipv4TimedOut" \in FailureCodes
      BY DEF MachineOK, FailureCodes, States
    <2>3. Transition(mm, x).state = "Error" /\ Transition(mm, x).failure \in Timeouts
      BY <2>1, <2>2, BecameType DEF Timeouts
    <2> QED BY <1>2, <2>3 DEF Trying
  <1> QED BY <1>1, <1>3, <1>4

LEMMA GotoConf ==
    ASSUME NEW pc, Goto(pc) \/ GotoSelect(pc)
    PROVE  task'.conf = task.conf
  BY DEF Goto, GotoSelect

\* What an attempt reports of its own configuration, and where it parks.
OwnReport(r) ==
    \/ r = m
    \/ \E e \in AttemptEvents \ {"DisconnectCompleted"} :
         \/ r = Feed(m, e)
         \/ \E f \in AttemptEvents \ {"DisconnectCompleted"} : r = Feed(Feed(m, e), f)

LEMMA FailMoves ==
    ASSUME NEW mm, NEW e, Fail(mm, e)
    PROVE  /\ m' = Feed(mm, e) /\ task'.conf = task.conf
           /\ task'.pc = "park" => m'.state = "Error"
  <1>1. CASE ~Accepted(mm, e)
    BY <1>1 DEF Fail, Goto
  <1>2. CASE Accepted(mm, e)
    <2>1. m' = Feed(mm, e) /\ GotoSelect(IF m'.state = "Error" THEN "park" ELSE "retryDelay")
      BY <1>2 DEF Fail
    <2>2. CASE m'.state = "Error"
      BY <2>1, <2>2, GotoConf
    <2>3. CASE m'.state # "Error"
      BY <2>1, <2>3 DEF GotoSelect, Goto
    <2> QED BY <2>2, <2>3
  <1> QED BY <1>1, <1>2

LEMMA AttemptMoves ==
    ASSUME Attempt
    PROVE  /\ OwnReport(m') \/ (m' = Feed(m, "DisconnectCompleted") /\ task'.pc = "top")
           /\ task'.conf = task.conf
           /\ task'.pc = "park" => m'.state = "Error"
  <1>1. CASE ConfigureDriver \/ DriverStarted \/ Associated \/ Ipv4Arrives \/ Ipv4TimesOut
             \/ LeaveBegin \/ ReconnectDelayEnds
    BY <1>1 DEF ConfigureDriver, DriverStarted, Associated, Ipv4Arrives, Ipv4TimesOut, LeaveBegin,
                ReconnectDelayEnds, Goto, OwnReport
  <1>2. CASE \/ DriverFails \/ AssociationTimesOut \/ \E d \in BOOLEAN : Ipv4Disconnected(d)
    <2>1. PICK e \in Failures : Fail(m, e)
      BY <1>2 DEF DriverFails, AssociationTimesOut, Ipv4Disconnected, Failures
    <2>2. e \in AttemptEvents \ {"DisconnectCompleted"}
      BY DEF AttemptEvents, TaskEvents, Failures
    <2>3. /\ m' = Feed(m, e) /\ task'.conf = task.conf
          /\ task'.pc = "park" => m'.state = "Error"
      BY <2>1, FailMoves
    <2> QED BY <2>2, <2>3, Zenon DEF OwnReport
  <1>3. CASE AssociationRefused
    <2>1. Fail(Feed(m, "DriverConfigured"), "AssociationFailed")
      BY <1>3 DEF AssociationRefused
    <2>2. /\ m' = Feed(Feed(m, "DriverConfigured"), "AssociationFailed")
          /\ task'.conf = task.conf /\ (task'.pc = "park" => m'.state = "Error")
      BY <2>1, FailMoves
    <2>3. /\ "DriverConfigured" \in AttemptEvents \ {"DisconnectCompleted"}
          /\ "AssociationFailed" \in AttemptEvents \ {"DisconnectCompleted"}
      BY DEF AttemptEvents, TaskEvents, Failures
    <2> QED BY <2>2, <2>3, Zenon DEF OwnReport
  <1>4. CASE BeginAssociation \/ BeginIpv4 \/ Connected \/ StationLost \/ RetryDelayEnds
    <2>1. PICK e \in {"DriverConfigured", "AssociationSucceeded", "Ipv4Configured",
                     "StationDisconnected", "RetryDelayElapsed"} : m' = Feed(m, e)
      BY <1>4 DEF BeginAssociation, BeginIpv4, Connected, StationLost, RetryDelayEnds
    <2>2. PICK pc \in {"linked", "associate", "addressed", "ipv4", "watch", "top", "reconnectDelay"} :
                 Goto(pc) \/ GotoSelect(pc)
      BY <1>4 DEF BeginAssociation, BeginIpv4, Connected, StationLost, RetryDelayEnds
    <2>3. task'.conf = task.conf /\ task'.pc # "park"
      BY <2>2, GotoPc, GotoConf
    <2>4. e \in AttemptEvents \ {"DisconnectCompleted"}
      BY DEF AttemptEvents, TaskEvents
    <2> QED BY <2>1, <2>3, <2>4, Zenon DEF OwnReport
  <1>5. CASE \E d \in BOOLEAN : LeaveDisconnected(d)
    <2>1. \/ m' = Feed(m, "DisconnectCompleted") /\ Goto("top")
          \/ Fail(m, "DisconnectTimedOut")
      BY <1>5 DEF LeaveDisconnected
    <2>2. CASE m' = Feed(m, "DisconnectCompleted") /\ Goto("top")
      BY <2>2 DEF Goto
    <2>3. CASE Fail(m, "DisconnectTimedOut")
      <3>1. /\ m' = Feed(m, "DisconnectTimedOut") /\ task'.conf = task.conf
            /\ task'.pc = "park" => m'.state = "Error"
        BY <2>3, FailMoves
      <3>2. "DisconnectTimedOut" \in AttemptEvents \ {"DisconnectCompleted"}
        BY DEF AttemptEvents, TaskEvents
      <3> QED BY <3>1, <3>2, Zenon DEF OwnReport
    <2> QED BY <2>1, <2>2, <2>3
  <1> QED BY <1>1, <1>2, <1>3, <1>4, <1>5 DEF Attempt

\* A report about its own configuration leaves a machine trying, or failed other
\* than by a timeout, only if it was.
LEMMA OwnReportOrigin ==
    ASSUME MachineOK(m), NEW r, OwnReport(r)
    PROVE  /\ r.state \in Trying => m.state \in Trying
           /\ r.state = "Error" /\ r.failure \notin Timeouts => m.state \in Trying \/ r = m
  <1>1. CASE r = m
    BY <1>1
  <1>2. ASSUME NEW e \in AttemptEvents \ {"DisconnectCompleted"}, r = Feed(m, e)
        PROVE  /\ r.state \in Trying => m.state \in Trying
               /\ r.state = "Error" /\ r.failure \notin Timeouts => m.state \in Trying \/ r = m
    BY <1>2, ReportOrigin
  <1>3. ASSUME NEW e \in AttemptEvents \ {"DisconnectCompleted"},
               NEW f \in AttemptEvents \ {"DisconnectCompleted"}, r = Feed(Feed(m, e), f)
        PROVE  /\ r.state \in Trying => m.state \in Trying
               /\ r.state = "Error" /\ r.failure \notin Timeouts => m.state \in Trying \/ r = m
    <2> DEFINE q == Feed(m, e)
    <2>1. MachineOK(q)
      BY FeedType DEF AttemptEvents, TaskEvents, Events
    <2>2. /\ q.state \in Trying => m.state \in Trying
          /\ q.state = "Error" /\ q.failure \notin Timeouts => m.state \in Trying \/ q = m
      BY ReportOrigin
    <2> HIDE DEF q
    <2>3. /\ Feed(q, f).state \in Trying => q.state \in Trying
          /\ Feed(q, f).state = "Error" /\ Feed(q, f).failure \notin Timeouts =>
               q.state \in Trying \/ Feed(q, f) = q
      BY <2>1, ReportOrigin
    <2>4. r = Feed(q, f)
      BY <1>3 DEF q
    <2> QED BY <2>2, <2>3, <2>4
  <1> QED BY <1>1, <1>2, <1>3 DEF OwnReport

\* The end of the disconnect stage fails by a timeout only.
LEMMA DisconnectedOrigin ==
    ASSUME NEW mm, MachineOK(mm)
    PROVE  LET r == Feed(mm, "DisconnectCompleted")
           IN  r.state = "Error" /\ r.failure \notin Timeouts => r = mm
  <1> DEFINE x == ExpiredEvent(mm, "DisconnectCompleted")
  <1>1. x \in {"DisconnectCompleted", "DisconnectTimedOut", "ProvisioningTimedOut"}
    BY DEF ExpiredEvent
  <1>2. CASE ~Accepts(mm, x)
    BY <1>2 DEF Feed, Accepted
  <1>3. CASE Accepts(mm, x)
    <2>1. Feed(mm, "DisconnectCompleted") = Transition(mm, x)
      BY <1>3 DEF Feed, Accepted
    <2> HIDE DEF x
    <2>2. Transition(mm, x) \in {Became(mm, "Connecting", "none"),
                                Became(mm, "Error", "DisconnectTimedOut"),
                                Became(mm, "Error", "Ipv4TimedOut")}
      BY <1>1 DEF Transition, Failures
    <2>3. /\ mm \in Machines /\ "none" \in FailureCodes
          /\ "DisconnectTimedOut" \in FailureCodes /\ "Ipv4TimedOut" \in FailureCodes
          /\ "Connecting" \in States /\ "Error" \in States
      BY DEF MachineOK, FailureCodes, States
    <2>4. Transition(mm, x).state = "Error" => Transition(mm, x).failure \in Timeouts
      BY <2>2, <2>3, BecameType DEF Timeouts
    <2> QED BY <2>1, <2>4
  <1> QED BY <1>2, <1>3

LEMMA TriedStep == WifiInv /\ SetStands /\ SetTried /\ [Next]_vars => SetTried'
  <1> SUFFICES ASSUME WifiInv, SetStands, SetTried, [Next]_vars, nextId' = 1
               PROVE  /\ m'.state \in Trying /\ task'.pc # "top" => task'.conf = conf'
                      /\ m'.state = "Error" /\ m'.failure \notin Timeouts => task'.conf = conf'
                      /\ task'.pc = "park" /\ ~sig' /\ conf'.configured =>
                           m'.state \in {"Connected", "Error"}
    BY DEF SetTried
  <1>0. ASSUME nextId' = nextId
        PROVE  /\ m.state \in Trying /\ task.pc # "top" => task.conf = conf
               /\ m.state = "Error" /\ m.failure \notin Timeouts => task.conf = conf
               /\ task.pc = "park" /\ ~sig /\ conf.configured => m.state \in {"Connected", "Error"}
    BY <1>0 DEF SetTried
  <1>1. CASE CancelBegin
    BY <1>1, Parts DEF CancelBegin
  <1>2. CASE CancelAnswered \/ CancelTimesOut \/ Radio \/ UNCHANGED vars
    <2>1. UNCHANGED <<m, conf, sig, nextId, task>>
      BY <1>2 DEF CancelAnswered, CancelTimesOut, Radio, LinkComes, LinkDrops, LeaseArrives,
                  LateStop, External, vars
    <2> QED BY <1>0, <2>1
  <1>3. CASE \E c, s \in BOOLEAN : ApplyWifiConfig(c, s)
    <2>1. sig' = TRUE /\ m' \in {Feed(m, "ApplyConfig"), Feed(m, "ClearConfig")}
      BY <1>3 DEF ApplyWifiConfig
    <2> QED BY <2>1, Parts, ConfigOrigin
  <1>4. CASE Tick
    <2>1. /\ m'.state = m.state /\ m'.failure = m.failure
          /\ task'.pc = task.pc /\ task'.conf = task.conf
      BY <1>4, Parts DEF Tick, Machines, TaskRecords
    <2>2. UNCHANGED <<conf, sig, nextId>>
      BY <1>4 DEF Tick
    <2> QED BY <1>0, <2>1, <2>2
  <1>5. CASE Attempt
    <2>1. task.pc \notin Resting /\ UNCHANGED <<conf, nextId>>
      BY <1>5, AttemptStep DEF ClientSide
    <2>2. task.pc # "top"
      BY <2>1 DEF Resting
    <2>3. /\ OwnReport(m') \/ (m' = Feed(m, "DisconnectCompleted") /\ task'.pc = "top")
          /\ task'.conf = task.conf
          /\ task'.pc = "park" => m'.state = "Error"
      BY <1>5, AttemptMoves
    <2>4. CASE OwnReport(m')
      BY <1>0, <2>1, <2>2, <2>3, <2>4, Parts, OwnReportOrigin
    <2>5. CASE m' = Feed(m, "DisconnectCompleted") /\ task'.pc = "top"
      BY <1>0, <2>1, <2>3, <2>5, Parts, DisconnectedOrigin
    <2> QED BY <2>3, <2>4, <2>5
  <1>6. CASE Wake
    <2>1. UNCHANGED <<conf, nextId, m>> /\ task'.pc = "top" /\ task'.conf = task.conf
      BY <1>6 DEF Wake, ClientSide, Goto
    <2> QED BY <1>0, <2>1
  <1>7. CASE Stopped \/ StopFails
    <2>1. task.pc \in {"stop", "disableStop"} /\ UNCHANGED <<conf, nextId>> /\ GotoSelect("park")
      BY <1>7 DEF Stopped, StopFails, ClientSide
    <2>2. task.pc = "stop" /\ (conf.configured => sig)
      BY <2>1 DEF SetStands
    <2>3. m' \in {m, Feed(m, "ClearConfig")}
      BY <1>7, <2>2 DEF Stopped, StopFails, At
    <2>4. task'.conf = task.conf /\ (sig => task'.pc = "top")
      BY <2>1 DEF GotoSelect, Goto
    <2>5. CASE m' = m
      BY <1>0, <2>1, <2>2, <2>4, <2>5
    <2>6. CASE m' = Feed(m, "ClearConfig")
      BY <2>1, <2>2, <2>4, <2>6, Parts, ConfigOrigin
    <2> QED BY <2>3, <2>5, <2>6
  <1>8. CASE \E d \in BOOLEAN : DisableDisconnected(d)
    <2>1. task.pc = "disableDisconnect" /\ nextId' = nextId
      BY <1>8 DEF DisableDisconnected, At, ClientSide
    <2> QED BY <2>1 DEF SetStands
  <1>9. CASE Prepare
    <2>1. UNCHANGED <<conf, nextId>> /\ task'.conf = conf
      BY <1>9 DEF Prepare, ClientSide
    <2>2. CASE conf.configured
      <3>1. conf.enabled /\ m.state # "Idle"
        BY <2>1 DEF SetStands
      <3> QED BY <1>9, <2>1, <2>2, <3>1, PrepareRuns
    <2>3. CASE ~conf.configured
      BY <2>1, <2>3
    <2> QED BY <2>2, <2>3
  <1> QED BY <1>1, <1>2, <1>3, <1>4, <1>5, <1>6, <1>7, <1>8, <1>9, StepKinds DEF Client

LEMMA WifiClaimsHold == Spec => [](WifiInv /\ CancelHolds /\ SetStands /\ SetTried)
  <1>1. Init => CancelHolds
    BY DEF Init, CancelHolds
  <1>2. Init => SetStands
    <2> SUFFICES ASSUME Init PROVE SetStands
      OBVIOUS
    <2>1. conf.enabled /\ task.pc = "top"
      BY DEF Init
    <2>2. m.state # "Idle"
      <3> DEFINE e == IF conf.configured THEN "ApplyConfig" ELSE "ClearConfig"
      <3>1. m = Feed(Boot, e) /\ e \in Events \ {"CancelProvisioning"}
        BY DEF Init, Events
      <3>2. MachineOK(Boot) /\ Boot.state = "Disabled"
        BY WifiAssumption DEF MachineOK, Machines, Boot, States, FailureCodes
      <3> HIDE DEF e
      <3> QED BY <3>1, <3>2, OnlyCancelIdles
    <2> QED BY <2>1, <2>2 DEF SetStands
  <1>3. Init => SetTried
    <2> SUFFICES ASSUME Init PROVE SetTried
      OBVIOUS
    <2>1. task.conf = conf /\ task.pc = "top"
      BY DEF Init
    <2> QED BY <2>1 DEF SetTried
  <1> QED BY <1>1, <1>2, <1>3, WifiInit, WifiStep, CancelStep, SetStep, TriedStep, PTL DEF Spec

\* The acknowledgement a cancel takes for its own comes from its own stop: the
\* station is stopped and no attempt pending until the client has read it.
THEOREM AckAlwaysMeansStopped == Spec => []AckMeansStopped
  <1>1. CancelHolds => AckMeansStopped
    BY DEF CancelHolds, AckMeansStopped
  <1> QED BY <1>1, WifiClaimsHold, PTL

\* Before the first cancel the task parks over a set only when it has tried it, or
\* when a timeout has been published.
THEOREM SetIsAlwaysTried == Spec => []UncancelledSetIsTried
  <1>1. WifiInv /\ SetTried => UncancelledSetIsTried
    <2> SUFFICES ASSUME WifiInv, SetTried, nextId = 1, Parked, conf.configured
                 PROVE  /\ m.state \in {"Connected", "Error"}
                        /\ task.conf = conf \/ m.failure \in Timeouts
      BY DEF UncancelledSetIsTried, Timeouts
    <2>1. task.pc = "park" /\ ~sig
      BY DEF Parked
    <2>2. m.state \in {"Connected", "Error"}
      BY <2>1 DEF SetTried
    <2> QED BY <2>1, <2>2 DEF SetTried, Trying
  <1> QED BY <1>1, WifiClaimsHold, PTL

\* A machine in error changes only by a new generation or to idle.
LEMMA ErrorStep ==
    ASSUME WifiInv, [Next]_vars, m.state = "Error", m'.state \notin {"Error", "Idle"}
    PROVE  m'.generation > m.generation
  <1>0. MachineOK(m) /\ m \in Machines
    BY Parts
  <1>1. CASE Client
    <2>1. CASE CancelBegin \/ CancelAnswered \/ CancelTimesOut
      BY <2>1 DEF CancelBegin, CancelAnswered, CancelTimesOut
    <2>2. CASE \E c, s \in BOOLEAN : ApplyWifiConfig(c, s)
      BY <1>0, <2>2, ErrorAccepts DEF ApplyWifiConfig
    <2> QED BY <1>1, <2>1, <2>2 DEF Client
  <1>2. CASE Prepare
    <2>1. "RetryDelayElapsed" \in Events \ {"ApplyConfig", "ClearConfig", "CancelProvisioning"}
      BY DEF Events
    <2>2. Feed(m, "RetryDelayElapsed") = m
      BY <2>1, ErrorIgnores
    <2>3. m' = m
      BY <1>2, <2>2 DEF Prepare
    <2> QED BY <2>3
  <1>3. CASE Wake \/ UNCHANGED vars \/ Radio \/ \E d \in BOOLEAN : DisableDisconnected(d)
    BY <1>3 DEF Wake, vars, Radio, LinkComes, LinkDrops, LeaseArrives, LateStop, External, DisableDisconnected
  <1>4. CASE Stopped \/ StopFails
    <2>1. m' \in {m, Feed(m, "ClearConfig"), Feed(m, "CancelProvisioning"), Feed(m, "DisconnectTimedOut")}
      BY <1>4 DEF Stopped, StopFails
    <2>2. "DisconnectTimedOut" \in Events \ {"ApplyConfig", "ClearConfig", "CancelProvisioning"}
      BY DEF Events
    <2>3. Feed(m, "DisconnectTimedOut") = m
      BY <2>2, ErrorIgnores
    <2> QED BY <1>0, <2>1, <2>3, ErrorAccepts
  <1>5. CASE Attempt
    BY <1>0, <1>5, AttemptStep, ReportedKeeps
  <1>6. CASE Tick
    BY <1>0, <1>6 DEF Tick, Machines
  <1> QED BY <1>1, <1>2, <1>3, <1>4, <1>5, <1>6, StepKinds

\* apply_at lets no late event of the driver, the address or a delay revive a
\* published error: whatever replaces it is a newer configuration or a cancel.
THEOREM ErrorStaysSettled == Spec => ErrorIsSettled
  <1>1. WifiInv /\ [Next]_vars =>
          [m.state = "Error" /\ m'.state \notin {"Error", "Idle"} => m'.generation > m.generation]_vars
    BY ErrorStep
  <1> QED BY <1>1, WifiHolds, PTL DEF Spec, ErrorIsSettled
=============================================================================
