------------------------- MODULE SettingsJournalProofs -------------------------
(***************************************************************************)
(* Proofs about the settings journal, for any set of domains that has one     *)
(* with two slots and one with a single slot, and for any number of edits,    *)
(* faults and restarts: the journal is type correct, the loop does not forget *)
(* a changed setting, what it believes to be saved is what a restart restores, *)
(* no power loss takes the settings of the previous format out of reach, a    *)
(* loop that reports nothing has a whole snapshot behind it, and a full save   *)
(* is in force as a whole or not at all.  Each of the last three has an        *)
(* inductive invariant of its own: Alive, Backed and Atomic.                  *)
(***************************************************************************)
EXTENDS SettingsJournal, SequenceTheorems, TLAPS

Writes == [place : Cells, content : Contents]

-----------------------------------------------------------------------------
(* Slots.                                                                    *)

LEMMA Names ==
    /\ Used \subseteq AllDomains
    /\ "none" \notin Used /\ "LayoutMarker" \notin Used /\ "Legacy" \notin Used
    /\ MaxValue \in Nat
BY JournalAssumption DEF AllDomains

LEMMA SlotNames ==
    /\ \A d : Slots(d) \in {{"A", "B"}, {"Single"}}
    /\ Slots("LayoutMarker") = {"A", "B"} /\ Slots("Legacy") = {"A", "B"}
BY DEF Slots

LEMMA CellNames ==
    /\ \A d \in Places : \A s \in Slots(d) : <<d, s>> \in Cells
    /\ \A s \in {"A", "B"} : <<"LayoutMarker", s>> \in Cells /\ <<"Legacy", s>> \in Cells
    /\ \A p \in Cells : p[1] \in Places /\ p[2] \in Slots(p[1]) /\ p = <<p[1], p[2]>>
<1>1. \A d \in Places : \A s \in Slots(d) : <<d, s>> \in Cells
  BY SlotNames DEF Cells
<1>2. "LayoutMarker" \in Places /\ "Legacy" \in Places
  BY DEF Places
<1>3. \A p \in Cells : p[1] \in Places /\ p[2] \in Slots(p[1]) /\ p = <<p[1], p[2]>>
  BY DEF Cells
<1> QED BY <1>1, <1>2, <1>3, SlotNames

LEMMA CellOfType ==
    ASSUME NEW d \in Places, NEW n
    PROVE  CellOf(d, n) \in Cells /\ CellOf(d, n)[1] = d
<1>1. CASE Slots(d) = {"Single"}
  BY <1>1, CellNames DEF CellOf
<1>2. CASE Slots(d) = {"A", "B"}
  BY <1>2, CellNames DEF CellOf
<1> QED BY <1>1, <1>2, SlotNames

LEMMA ContentType ==
    /\ Blank \in Contents /\ Torn \in Contents
    /\ \A k \in {"prepared", "migrating", "active"}, n \in Nat : Content(k, n, 0) \in Contents
    /\ \A n \in Nat, v \in 0..MaxValue : Content("record", n, v) \in Contents
BY Names DEF Blank, Torn, Content, Contents

-----------------------------------------------------------------------------
(* The writes of a save.                                                     *)

LEMMA MarkType ==
    ASSUME NEW k \in {"prepared", "migrating", "active"}, NEW n \in Nat
    PROVE  /\ MarkOf(k, n) \in Writes
           /\ \A s \in {"A", "B"} : Mark(k, s, n) \in Writes
<1>1. CellOf("LayoutMarker", n) \in Cells
  BY CellOfType DEF Places
<1>2. Content(k, n, 0) \in Contents
  BY ContentType
<1> QED BY <1>1, <1>2, CellNames DEF MarkOf, Mark, Write, Writes

LEMMA DomainWritesIn ==
    ASSUME NEW n, NEW D, NEW c, NEW W,
           \A d \in D : Write(CellOf(d, n), Content("record", n, c[d])) \in W
    PROVE  DomainWrites(n, D, c) \in Seq(W)
<1> DEFINE record(d) == IF d \in D THEN <<Write(CellOf(d, n), Content("record", n, c[d]))>> ELSE <<>>
<1>1. \A d : record(d) \in Seq(W)
  <2> TAKE d
  <2>1. CASE d \in D
    <3>1. Write(CellOf(d, n), Content("record", n, c[d])) \in W
      BY <2>1
    <3> QED BY <2>1, <3>1
  <2>2. CASE d \notin D
    BY <2>2
  <2> QED BY <2>1, <2>2
<1>2. DomainWrites(n, D, c) = record("SafetyCalibration") \o record("ThermalPolicy")
        \o record("UserPreferences") \o record("NetworkAndPairing") \o record("ThermalPlant")
  BY DEF DomainWrites
<1> HIDE DEF record
<1> QED BY <1>1, <1>2

LEMMA RecordWriteType ==
    ASSUME NEW n \in Nat, NEW d \in Used, NEW c \in Configs
    PROVE  Write(CellOf(d, n), Content("record", n, c[d])) \in Writes
<1>1. CellOf(d, n) \in Cells /\ c[d] \in 0..MaxValue
  BY CellOfType DEF Places, Configs
<1> QED BY <1>1, ContentType DEF Write, Writes

LEMMA DomainWritesType ==
    ASSUME NEW n \in Nat, NEW D \in SUBSET Used, NEW c \in Configs
    PROVE  DomainWrites(n, D, c) \in Seq(Writes)
<1>1. \A d \in D : Write(CellOf(d, n), Content("record", n, c[d])) \in Writes
  BY RecordWriteType
<1> QED BY <1>1, DomainWritesIn

LEMMA JobType ==
    ASSUME NEW n \in Nat, NEW D \in SUBSET Used, NEW c \in Configs, NEW op \in Ops
    PROVE  LET Jobs == [op : Ops, seq : Nat, domains : SUBSET Used, config : Configs,
                        todo : Seq([place : Cells, content : Contents])]
           IN  /\ Commit(op, n, D, c) \in Jobs /\ Migrate(op, n, c) \in Jobs
               /\ Recover(op, n, c) \in Jobs /\ Job(op, n, D, c, <<>>) \in Jobs
               /\ NoJob \in Jobs
<1>1. DomainWrites(n, D, c) \in Seq(Writes) /\ DomainWrites(n, Used, c) \in Seq(Writes)
  BY DomainWritesType
<1>2. /\ MarkOf("prepared", n) \in Writes /\ MarkOf("active", n) \in Writes
      /\ \A s \in {"A", "B"} : Mark("migrating", s, n) \in Writes /\ Mark("active", s, n) \in Writes
  BY MarkType
<1>3. CommitWrites(n, D, c) \in Seq(Writes)
  <2>1. <<MarkOf("prepared", n)>> \in Seq(Writes) /\ <<MarkOf("active", n)>> \in Seq(Writes)
    BY <1>2
  <2> QED BY <1>1, <2>1 DEF CommitWrites
<1>4. RecoverWrites(n) \in Seq(Writes)
  BY <1>2 DEF RecoverWrites
<1>5. MigrateWrites(n, c) \in Seq(Writes)
  <2>1. <<Mark("migrating", "A", n), Mark("migrating", "B", n)>> \in Seq(Writes)
    BY <1>2
  <2>2. <<Mark("active", "A", n), Mark("active", "B", n)>> \in Seq(Writes)
    BY <1>2
  <2>3. <<Write(<<"Legacy", "A">>, Blank), Write(<<"Legacy", "B">>, Blank)>> \in Seq(Writes)
    <3>1. \A s \in {"A", "B"} : Write(<<"Legacy", s>>, Blank) \in Writes
      BY CellNames, ContentType DEF Write, Writes
    <3> QED BY <3>1
  <2> QED BY <1>1, <2>1, <2>2, <2>3 DEF MigrateWrites
<1>6. Default \in Configs /\ "none" \in Ops
  BY Names DEF Default, Configs, Ops
<1> QED BY <1>3, <1>4, <1>5, <1>6 DEF Commit, Migrate, Recover, Job, NoJob, Writes

-----------------------------------------------------------------------------
(* What a boot reads.                                                        *)

\* A domain or a marker has at most two slots, so the newest of its sequence numbers
\* is one of two.
LEMMA NewestOfTwo ==
    ASSUME NEW a \in Nat, NEW b \in Nat, NEW S \in SUBSET {a, b}, S # {}
    PROVE  Newest(S) \in S /\ \A m \in S : m <= Newest(S)
<1>1. ASSUME NEW n \in S, \A m \in {a, b} : m \in S => m <= n
      PROVE  \E k \in S : \A m \in S : m <= k
  BY <1>1
<1>2. \E n \in S : \A m \in S : m <= n
  <2>1. CASE a \in S /\ (b \in S => b <= a)
    BY <1>1, <2>1
  <2>2. CASE b \in S /\ (a \in S => a <= b)
    BY <1>1, <2>2
  <2>3. a \in S \/ b \in S
    OBVIOUS
  <2>4. a <= b \/ b <= a
    OBVIOUS
  <2> QED BY <2>1, <2>2, <2>3, <2>4
<1> QED BY <1>2 DEF Newest

LEMMA NewestType ==
    ASSUME NEW a \in Nat, NEW b \in Nat, NEW S \in SUBSET {a, b}
    PROVE  Newest(S) \in Nat
<1>1. CASE S = {}
  BY <1>1 DEF Newest
<1>2. CASE S # {}
  BY <1>2, NewestOfTwo
<1> QED BY <1>1, <1>2

LEMMA GenerationType ==
    ASSUME NEW c \in [Cells -> Contents]
    PROVE  Generation(c) \in Nat /\ MigrationGeneration(c) \in Nat /\ ReadGeneration(c) \in Nat
<1> DEFINE a == c[<<"LayoutMarker", "A">>].seq
           b == c[<<"LayoutMarker", "B">>].seq
<1>1. a \in Nat /\ b \in Nat
  BY CellNames DEF Contents
<1>2. \A k : Markers(c, k) \in SUBSET {a, b}
  BY DEF Markers
<1> HIDE DEF a, b
<1>3. \A k : Newest(Markers(c, k)) \in Nat
  BY <1>1, <1>2, NewestType
<1> QED BY <1>3 DEF Generation, MigrationGeneration, ReadGeneration

LEMMA ChosenIsReadable ==
    ASSUME NEW c \in [Cells -> Contents], NEW d \in Used, NEW g, Readable(c, d, g) # {}
    PROVE  /\ Chosen(c, d, g) \in Readable(c, d, g) /\ Chosen(c, d, g) \in Contents
           /\ \A r \in Readable(c, d, g) : r.seq <= Chosen(c, d, g).seq
<1> DEFINE R == Readable(c, d, g)
<1>1. PICK s, t : Slots(d) = {s, t}
  <2>1. Slots(d) = {"A", "B"} \/ Slots(d) = {"Single", "Single"}
    BY SlotNames
  <2> QED BY <2>1
<1>2. <<d, s>> \in Cells /\ <<d, t>> \in Cells
  BY <1>1, CellNames DEF Places
<1>3. R \subseteq {c[<<d, s>>], c[<<d, t>>]} /\ c[<<d, s>>] \in Contents /\ c[<<d, t>>] \in Contents
  BY <1>1, <1>2 DEF Readable
<1> HIDE DEF R
<1>4. SeqsOf(R) \in SUBSET {c[<<d, s>>].seq, c[<<d, t>>].seq} /\ SeqsOf(R) # {}
  <2>1. R # {}
    BY DEF R
  <2> QED BY <1>3, <2>1 DEF SeqsOf
<1>5. c[<<d, s>>].seq \in Nat /\ c[<<d, t>>].seq \in Nat
  BY <1>3 DEF Contents
<1>6. Newest(SeqsOf(R)) \in SeqsOf(R) /\ \A m \in SeqsOf(R) : m <= Newest(SeqsOf(R))
  BY <1>4, <1>5, NewestOfTwo
<1>7. \E r \in R : r.seq = Newest(SeqsOf(R))
  BY <1>6 DEF SeqsOf
<1>8. Chosen(c, d, g) \in R /\ Chosen(c, d, g).seq = Newest(SeqsOf(R))
  BY <1>7 DEF Chosen, R
<1> QED BY <1>3, <1>6, <1>8 DEF R, SeqsOf

LEMMA ValuesType ==
    ASSUME NEW c \in [Cells -> Contents], NEW g, Complete(c, g)
    PROVE  ValuesAt(c, g) \in Configs
<1>1. \A d \in Used : Chosen(c, d, g) \in Contents
  BY ChosenIsReadable DEF Complete
<1> QED BY <1>1 DEF ValuesAt, Configs, Contents

LEMMA DefaultType == Default \in Configs
BY Names DEF Default, Configs

LEMMA RestoredType ==
    ASSUME NEW c \in [Cells -> Contents]
    PROVE  Restored(c) \in Configs
<1>1. CASE Selected(c)
  <2>1. Complete(c, ReadGeneration(c))
    BY <1>1 DEF Selected, ReadGeneration, Recoverable, CompleteExactly
  <2> QED BY <1>1, <2>1, ValuesType DEF Restored
<1>2. CASE ~Selected(c)
  BY <1>2, DefaultType DEF Restored
<1> QED BY <1>1, <1>2

LEMMA LegacyType ==
    ASSUME NEW c \in [Cells -> Contents], LegacyRecords(c) # {}
    PROVE  /\ LegacyRecord(c) \in LegacyRecords(c)
           /\ LegacyRecord(c).seq \in Nat
           /\ LegacyRecord(c).val \in 0..MaxValue
           /\ [d \in Used |-> LegacyRecord(c).val] \in Configs
<1> DEFINE a == c[<<"Legacy", "A">>]
           b == c[<<"Legacy", "B">>]
           R == LegacyRecords(c)
<1>1. a \in Contents /\ b \in Contents /\ R \subseteq {a, b}
  BY CellNames DEF LegacyRecords
<1>2. R # {}
  OBVIOUS
<1> HIDE DEF a, b, R
<1>3. SeqsOf(R) \in SUBSET {a.seq, b.seq} /\ SeqsOf(R) # {} /\ a.seq \in Nat /\ b.seq \in Nat
  BY <1>1, <1>2 DEF SeqsOf, Contents
<1>4. Newest(SeqsOf(R)) \in SeqsOf(R)
  BY <1>3, NewestOfTwo
<1>5. \E r \in R : r.seq = Newest(SeqsOf(R))
  BY <1>4 DEF SeqsOf
<1>6. LegacyRecord(c) \in R
  BY <1>5 DEF LegacyRecord, R
<1>7. LegacyRecord(c) \in Contents
  BY <1>1, <1>6
<1>8. LegacyRecord(c).seq \in Nat /\ LegacyRecord(c).val \in 0..MaxValue
  BY <1>7 DEF Contents
<1> QED BY <1>6, <1>8 DEF R, Configs

-----------------------------------------------------------------------------
(* Types.                                                                    *)

Jobs == [op : Ops, seq : Nat, domains : SUBSET Used, config : Configs, todo : Seq(Writes)]
Locks == [required : BOOLEAN, uiIncompatible : BOOLEAN, incompatible : BOOLEAN, recovery : BOOLEAN]
Pasts == [published : Configs, legacy : SUBSET (0..MaxValue), interrupted : BOOLEAN,
          partial : BOOLEAN, unreadable : BOOLEAN, dropped : BOOLEAN]
Uses == [edits : Nat, faults : Nat, restarts : Nat]
Faults == {"none", "LayoutMarker"} \cup Used

LEMMA TypeParts ==
    TypeOK <=> /\ cell \in [Cells -> Contents] /\ mode \in {"off", "boot", "on"}
               /\ cfg \in Configs /\ saved \in Configs /\ seq \in Nat
               /\ due \in BOOLEAN /\ attention \in BOOLEAN /\ lock \in Locks /\ fault \in Faults
               /\ job \in Jobs /\ past \in Pasts /\ spent \in Uses
BY DEF TypeOK, Jobs, Locks, Pasts, Uses, Faults, Writes

LEMMA TypePartsNext ==
    TypeOK' <=> /\ cell' \in [Cells -> Contents] /\ mode' \in {"off", "boot", "on"}
                /\ cfg' \in Configs /\ saved' \in Configs /\ seq' \in Nat
                /\ due' \in BOOLEAN /\ attention' \in BOOLEAN /\ lock' \in Locks /\ fault' \in Faults
                /\ job' \in Jobs /\ past' \in Pasts /\ spent' \in Uses
BY DEF TypeOK, Jobs, Locks, Pasts, Uses, Faults, Writes

LEMMA JobsType ==
    ASSUME NEW n \in Nat, NEW D \in SUBSET Used, NEW c \in Configs, NEW op \in Ops
    PROVE  /\ Commit(op, n, D, c) \in Jobs /\ Migrate(op, n, c) \in Jobs
           /\ Recover(op, n, c) \in Jobs /\ Job(op, n, D, c, <<>>) \in Jobs
           /\ NoJob \in Jobs
BY JobType DEF Jobs, Writes

LEMMA WholeJobsType ==
    ASSUME NEW n \in Nat, NEW c \in Configs, NEW op \in Ops
    PROVE  Migrate(op, n, c) \in Jobs /\ Recover(op, n, c) \in Jobs
<1>1. Used \in SUBSET Used
  OBVIOUS
<1> QED BY <1>1, JobsType

LEMMA NoJobType == NoJob \in Jobs
BY JobsType, DefaultType DEF Ops

LEMMA TypeInit == Init => TypeOK
<1> SUFFICES ASSUME Init PROVE TypeOK
  OBVIOUS
<1>1. PICK a \in 0..MaxValue, b \in 0..MaxValue, legacy \in BOOLEAN :
         /\ cell = [p \in Cells |->
                      IF p[1] # "Legacy" \/ ~legacy THEN Blank
                      ELSE IF p[2] = "A" THEN Content("fpm1", 1, a) ELSE Content("fpm1", 2, b)]
         /\ past = [published |-> Default, legacy |-> IF legacy THEN {a, b} ELSE {},
                    interrupted |-> FALSE, partial |-> FALSE, unreadable |-> FALSE,
                    dropped |-> FALSE]
  BY DEF Init
<1>2. cell \in [Cells -> Contents]
  <2>1. /\ Blank \in Contents /\ Content("fpm1", 1, a) \in Contents
        /\ Content("fpm1", 2, b) \in Contents
    BY ContentType DEF Content, Contents
  <2> HIDE DEF Content, Blank
  <2> QED BY <1>1, <2>1
<1>3. past \in Pasts
  BY <1>1, DefaultType DEF Pasts
<1> QED BY <1>2, <1>3, DefaultType, NoJobType, TypeParts
       DEF Init, Unlocked, Locks, Faults, Uses

LEMMA BootType ==
    ASSUME TypeOK, Boot
    PROVE  TypeOK'
<1>1. /\ cell \in [Cells -> Contents] /\ past \in Pasts /\ spent \in Uses
  BY TypeParts
<1>2. cfg' \in Configs /\ saved' = cfg' /\ seq' \in Nat
  <2> DEFINE legacy == Incompatible(cell) /\ LegacyRecords(cell) # {}
  <2>1. /\ cfg' = IF legacy THEN [d \in Used |-> LegacyRecord(cell).val] ELSE Restored(cell)
        /\ saved' = cfg'
        /\ seq' = IF legacy THEN LegacyRecord(cell).seq
                  ELSE IF Selected(cell) THEN ReadGeneration(cell) ELSE 0
    BY DEF Boot
  <2>2. legacy => LegacyRecords(cell) # {}
    OBVIOUS
  <2> HIDE DEF legacy
  <2> QED BY <1>1, <2>1, <2>2, LegacyType, RestoredType, GenerationType
<1>3. lock' \in Locks /\ attention' \in BOOLEAN
  <2>1. /\ Required(cell) \in BOOLEAN /\ Incompatible(cell) \in BOOLEAN
        /\ Recoverable(cell) \in BOOLEAN
    BY DEF Required, Incompatible, Recoverable
  <2>2. /\ lock' = [required |-> Required(cell), uiIncompatible |-> Incompatible(cell),
                    incompatible |-> Incompatible(cell), recovery |-> Recoverable(cell)]
        /\ attention' = (Incompatible(cell) \/ Required(cell))
    BY DEF Boot
  <2> QED BY <2>1, <2>2 DEF Locks
<1>4. job' \in Jobs
  <2>1. \/ job' = Commit("init", 1, Used, Default)
        \/ job' = Recover("recover", seq', cfg')
        \/ job' = Migrate("migrate", seq' + 1, cfg')
        \/ job' = NoJob
    BY DEF Boot
  <2>2. Commit("init", 1, Used, Default) \in Jobs
    BY JobsType, DefaultType DEF Ops
  <2>3. Recover("recover", seq', cfg') \in Jobs /\ Migrate("migrate", seq' + 1, cfg') \in Jobs
    BY <1>2, WholeJobsType DEF Ops
  <2> QED BY <2>1, <2>2, <2>3, NoJobType
<1>5. /\ mode' \in {"off", "boot", "on"} /\ due' = FALSE /\ fault' = "none"
      /\ UNCHANGED <<cell, past, spent>>
  BY DEF Boot
<1> QED BY <1>1, <1>2, <1>3, <1>4, <1>5, TypePartsNext DEF Faults

LEMMA RetryType ==
    ASSUME TypeOK, Retry
    PROVE  TypeOK'
<1>1. /\ cell \in [Cells -> Contents] /\ cfg \in Configs /\ saved \in Configs /\ seq \in Nat
      /\ attention \in BOOLEAN /\ fault \in Faults /\ job \in Jobs /\ spent \in Uses
      /\ mode \in {"off", "boot", "on"} /\ due \in BOOLEAN /\ lock \in Locks /\ past \in Pasts
  BY TypeParts
<1>2. UNCHANGED <<cell, mode, saved, due, lock, past>>
  BY DEF Retry
<1> DEFINE Rest == /\ cfg' \in Configs /\ seq' \in Nat /\ attention' \in BOOLEAN
                   /\ fault' \in Faults /\ job' \in Jobs /\ spent' \in Uses
<1>3. ASSUME CompleteExactly(cell, seq), job' = Recover("retryFormat", seq, ValuesAt(cell, seq)),
             attention' = FALSE, UNCHANGED <<fault, spent, cfg, seq>>
      PROVE  Rest
  <2>1. ValuesAt(cell, seq) \in Configs
    BY <1>1, <1>3, ValuesType DEF CompleteExactly
  <2> QED BY <1>1, <1>3, <2>1, JobsType DEF Ops
<1>4. ASSUME spent' = [spent EXCEPT !.faults = @ + 1], fault' = "LayoutMarker",
             UNCHANGED <<attention, job, cfg, seq>>
      PROVE  Rest
  BY <1>1, <1>4 DEF Uses, Faults
<1>5. ASSUME LegacyRecords(cell) # {}, seq' = LegacyRecord(cell).seq,
             cfg' = [d \in Used |-> LegacyRecord(cell).val],
             job' = Migrate("retryFormat", seq' + 1, cfg'), attention' = FALSE,
             UNCHANGED <<fault, spent>>
      PROVE  Rest
  <2>1. seq' \in Nat /\ cfg' \in Configs
    BY <1>1, <1>5, LegacyType
  <2>2. Migrate("retryFormat", seq' + 1, cfg') \in Jobs
    BY <2>1, WholeJobsType DEF Ops
  <2> QED BY <1>1, <1>5, <2>1, <2>2
<1>6. ASSUME fault' = "LayoutMarker", UNCHANGED <<attention, job, cfg, seq, spent>>
      PROVE  Rest
  BY <1>1, <1>6 DEF Faults
<1>7. ASSUME job' = Commit("retryFormat", 1, Used, Default), attention' = FALSE,
             UNCHANGED <<cfg, seq, fault, spent>>
      PROVE  Rest
  BY <1>1, <1>7, JobsType, DefaultType DEF Ops
<1>8. ASSUME NEW D \in SUBSET Used,
             job' = IF D = {} THEN Job("retry", seq, {}, cfg, <<>>)
                    ELSE Commit("retry", seq + 1, D, cfg),
             attention' = FALSE, UNCHANGED <<cfg, seq, fault, spent>>
      PROVE  Rest
  <2>1. seq + 1 \in Nat /\ {} \in SUBSET Used
    BY <1>1
  <2>2. Job("retry", seq, {}, cfg, <<>>) \in Jobs
    BY <1>1, <2>1, JobsType DEF Ops
  <2>3. Commit("retry", seq + 1, D, cfg) \in Jobs
    BY <1>1, <1>8, <2>1, JobsType DEF Ops
  <2> QED BY <1>1, <1>8, <2>2, <2>3
<1>9. (IF lock.required THEN Used ELSE Changed \cup FaultDomains) \in SUBSET Used
  BY <1>1 DEF Changed, FaultDomains, Faults
<1>10. Rest
  <2> HIDE DEF Rest
  <2>1. CASE lock.recovery
    BY <2>1, <1>3, <1>4 DEF Retry, BlankRetry
  <2>2. CASE ~lock.recovery /\ lock.incompatible
    BY <2>2, <1>5, <1>6 DEF Retry, BlankRetry
  <2>3. CASE BlankRetry
    BY <2>3, <1>7 DEF Retry, BlankRetry
  <2>4. CASE ~lock.recovery /\ ~lock.incompatible /\ ~BlankRetry
    <3> DEFINE D == IF lock.required THEN Used ELSE Changed \cup FaultDomains
    <3>1. /\ job' = IF D = {} THEN Job("retry", seq, {}, cfg, <<>>)
                    ELSE Commit("retry", seq + 1, D, cfg)
          /\ attention' = FALSE /\ UNCHANGED <<cfg, seq, fault, spent>>
      BY <2>4 DEF Retry
    <3> HIDE DEF D
    <3>2. D \in SUBSET Used
      BY <1>9 DEF D
    <3> QED BY <1>8, <3>1, <3>2
  <2> QED BY <2>1, <2>2, <2>3, <2>4
<1> QED BY <1>1, <1>2, <1>10, TypePartsNext

LEMMA HeadType ==
    ASSUME TypeOK, Writing
    PROVE  /\ Head1 \in Writes /\ Tail(job.todo) \in Seq(Writes)
           /\ Head1.place \in Cells /\ Head1.content \in Contents
           /\ PublishedBy(Head1) \in Configs
           /\ FailedDomain \in Faults \ {"none"}
<1>1. job.todo \in Seq(Writes) /\ job.config \in Configs /\ past.published \in Configs
  BY TypeParts DEF Jobs, Pasts
<1>2. Head1 \in Writes /\ Tail(job.todo) \in Seq(Writes)
  BY <1>1 DEF Head1, Writing
<1>3. Head1.place \in Cells /\ Head1.content \in Contents
  BY <1>2 DEF Writes
<1>4. PublishedBy(Head1) \in Configs
  BY <1>1 DEF PublishedBy, Configs
<1>5. FailedDomain \in Faults \ {"none"}
  <2>1. Head1.place[1] \in Places
    BY <1>3, CellNames
  <2> QED BY <2>1, Names DEF FailedDomain, Places, Faults
<1> QED BY <1>2, <1>3, <1>4, <1>5

LEMMA WriteRecordType ==
    ASSUME TypeOK, WriteRecord
    PROVE  TypeOK'
<1>1. /\ cell \in [Cells -> Contents] /\ job \in Jobs /\ past \in Pasts
  BY TypeParts
<1>2. Writing /\ UNCHANGED <<mode, cfg, saved, seq, due, lock, fault, attention, spent>>
  BY DEF WriteRecord
<1>3. cell' \in [Cells -> Contents]
  BY <1>1, <1>2, HeadType DEF WriteRecord
<1>4. job' \in Jobs
  BY <1>1, <1>2, HeadType DEF WriteRecord, Jobs
<1>5. past' \in Pasts
  <2>1. PublishedBy(Head1) \in Configs
    BY <1>2, HeadType
  <2> HIDE DEF Head1, PublishedBy
  <2> QED BY <1>1, <2>1 DEF WriteRecord, Pasts
<1> QED BY <1>2, <1>3, <1>4, <1>5, TypeParts, TypePartsNext

LEMMA FinishType ==
    ASSUME TypeOK, Finish
    PROVE  TypeOK'
<1>1. /\ cfg \in Configs /\ saved \in Configs /\ due \in BOOLEAN /\ lock \in Locks
      /\ fault \in Faults /\ attention \in BOOLEAN /\ job \in Jobs /\ past \in Pasts
  BY TypeParts
<1>2. mode' = "on" /\ job' = NoJob /\ seq' \in Nat /\ UNCHANGED <<cell, cfg, spent>>
  BY <1>1 DEF Finish, Jobs
<1>3. saved' \in Configs /\ due' \in BOOLEAN
  BY <1>1 DEF Finish, Copied, Configs
<1>4. past' \in Pasts
  BY <1>1 DEF Finish, Pasts
<1>5. lock' \in Locks /\ fault' \in Faults /\ attention' \in BOOLEAN
  <2>1. CASE job.op = "retryFormat"
    <3>1. lock' = Unlocked /\ fault' = "none" /\ attention' = FALSE
      BY <2>1 DEF Finish
    <3> QED BY <3>1 DEF Unlocked, Locks, Faults
  <2>2. CASE job.op = "migrate"
    BY <1>1, <2>2 DEF Finish, Locks
  <2>3. CASE job.op = "recover"
    BY <1>1, <2>3 DEF Finish, Locks
  <2>4. CASE job.op = "retry"
    <3>1. CASE job.domains \cap DoubleSlot # {}
      BY <1>1, <2>4, <3>1 DEF Finish, Locks, Faults
    <3>2. CASE job.domains \cap DoubleSlot = {}
      <4>1. /\ fault' = IF Locked THEN fault ELSE "none"
            /\ attention' = (Locked /\ attention) /\ lock' = lock
        BY <2>4, <3>2 DEF Finish
      <4> QED BY <1>1, <4>1 DEF Faults
    <3> QED BY <3>1, <3>2
  <2>5. CASE job.op \notin {"retryFormat", "migrate", "recover", "retry"}
    BY <1>1, <2>5 DEF Finish
  <2> QED BY <2>1, <2>2, <2>3, <2>4, <2>5
<1> QED BY <1>2, <1>3, <1>4, <1>5, NoJobType, TypeParts, TypePartsNext

LEMMA WriteFailsType ==
    ASSUME TypeOK, Writing, NEW left \in Leftovers, WriteFails(left)
    PROVE  TypeOK'
<1>1. /\ cell \in [Cells -> Contents] /\ cfg \in Configs /\ saved \in Configs /\ due \in BOOLEAN
      /\ lock \in Locks /\ fault \in Faults /\ attention \in BOOLEAN /\ past \in Pasts
      /\ spent \in Uses
  BY TypeParts
<1>2. /\ left \in Contents /\ PublishedBy(Head1) \in Configs /\ FailedDomain \in Faults
  BY <1>1, HeadType, ContentType DEF Leftovers
<1> HIDE DEF Head1, PublishedBy, FailedDomain
<1>3. cell' \in [Cells -> Contents] /\ past' \in Pasts /\ spent' \in Uses
  <2>1. cell' \in [Cells -> Contents]
    BY <1>1, <1>2 DEF WriteFails
  <2>2. past' \in Pasts
    BY <1>1, <1>2 DEF WriteFails, Pasts
  <2>3. spent' \in Uses
    BY <1>1 DEF WriteFails, Uses
  <2> QED BY <2>1, <2>2, <2>3
<1>4. job' = NoJob /\ mode' = "on" /\ UNCHANGED <<saved, seq>>
  BY DEF WriteFails
<1>5. /\ cfg' \in Configs /\ lock' \in Locks /\ due' \in BOOLEAN /\ fault' \in Faults
      /\ attention' \in BOOLEAN
  <2>1. CASE SaveFailed(FailedDomain)
    <3>1. RequiresHeaterLock(FailedDomain) \in BOOLEAN
      BY DEF RequiresHeaterLock
    <3> HIDE DEF RequiresHeaterLock
    <3>2. cfg' \in Configs
      BY <1>1, <2>1 DEF SaveFailed, Configs
    <3>3. lock' \in Locks
      BY <1>1, <2>1, <3>1 DEF SaveFailed, Locks
    <3> QED BY <1>1, <1>2, <2>1, <3>1, <3>2, <3>3 DEF SaveFailed
  <2>2. CASE fault' = FailedDomain /\ attention' = TRUE /\ UNCHANGED <<cfg, lock, due>>
    BY <1>1, <1>2, <2>2
  <2>3. CASE /\ lock' = [lock EXCEPT !.required = TRUE] /\ attention' = TRUE
             /\ UNCHANGED <<cfg, fault, due>>
    BY <1>1, <2>3 DEF Locks
  <2> QED BY <2>1, <2>2, <2>3 DEF WriteFails
<1> QED BY <1>3, <1>4, <1>5, NoJobType, TypeParts, TypePartsNext

LEMMA RestartType ==
    ASSUME TypeOK, NEW left \in (IF Writing THEN Leftovers ELSE {Blank}), Restart(left)
    PROVE  TypeOK'
<1>1. cell \in [Cells -> Contents] /\ past \in Pasts /\ spent \in Uses
  BY TypeParts
<1>2. left \in Contents
  <2>1. CASE Writing
    BY <1>1, <2>1, HeadType, ContentType DEF Leftovers
  <2> QED BY <2>1, ContentType
<1>3. cell' \in [Cells -> Contents]
  BY <1>1, <1>2 DEF Restart
<1>4. past' \in Pasts
  <2>1. Writing => PublishedBy(Head1) \in Configs
    BY HeadType
  <2> HIDE DEF Head1, PublishedBy, Writing
  <2> QED BY <1>1, <2>1 DEF Restart, Pasts
<1>5. spent' \in Uses
  BY <1>1 DEF Restart, Uses
<1> QED BY <1>3, <1>4, <1>5, NoJobType, DefaultType, TypePartsNext
       DEF Restart, Unlocked, Locks, Faults

LEMMA TypeStep == TypeOK /\ [Next]_vars => TypeOK'
<1> SUFFICES ASSUME TypeOK, [Next]_vars PROVE TypeOK'
  OBVIOUS
<1>0. /\ cell \in [Cells -> Contents] /\ mode \in {"off", "boot", "on"}
      /\ cfg \in Configs /\ saved \in Configs /\ seq \in Nat
      /\ due \in BOOLEAN /\ attention \in BOOLEAN /\ lock \in Locks /\ fault \in Faults
      /\ job \in Jobs /\ past \in Pasts /\ spent \in Uses
  BY TypeParts
<1>1. CASE UNCHANGED vars
  BY <1>0, <1>1, TypePartsNext DEF vars
<1>2. CASE BootUnreadable
  <2>1. lock' \in Locks
    BY <1>2 DEF BootUnreadable, Unlocked, Locks
  <2>2. past' \in Pasts
    BY <1>0, <1>2 DEF BootUnreadable, Pasts
  <2>3. spent' \in Uses
    BY <1>0, <1>2 DEF BootUnreadable, Uses
  <2> QED BY <1>0, <1>2, <2>1, <2>2, <2>3, DefaultType, TypePartsNext DEF BootUnreadable, Faults
<1>3. ASSUME NEW D \in SUBSET Used, NEW v \in 0..MaxValue, Edit(D, v) PROVE TypeOK'
  <2>1. cfg' \in Configs
    BY <1>0, <1>3 DEF Edit, Configs
  <2>2. spent' \in Uses
    BY <1>0, <1>3 DEF Edit, Uses
  <2> QED BY <1>0, <1>3, <2>1, <2>2, TypePartsNext DEF Edit
<1>4. CASE DropDue
  BY <1>0, <1>4, TypePartsNext DEF DropDue
<1>5. CASE ReadSnapshot
  <2>1. past' \in Pasts
    BY <1>0, <1>5 DEF ReadSnapshot, Pasts
  <2> QED BY <1>0, <1>5, <2>1, TypePartsNext DEF ReadSnapshot
<1>6. CASE CommitDeferred
  <2>1. Commit("deferred", seq + 1, Changed, cfg) \in Jobs
    BY <1>0, JobsType DEF Changed, Ops
  <2> QED BY <1>0, <1>6, <2>1, TypePartsNext DEF CommitDeferred
<1>7. ASSUME NEW D \in SUBSET Used, NEW v \in 0..MaxValue, SaveNow(D, v) PROVE TypeOK'
  <2>1. cfg' \in Configs
    BY <1>0, <1>7 DEF SaveNow, Configs
  <2>2. spent' \in Uses
    BY <1>0, <1>7 DEF SaveNow, Uses
  <2>3. Commit("immediate", seq + 1, D, cfg') \in Jobs
    BY <1>0, <2>1, JobsType DEF Ops
  <2> QED BY <1>0, <1>7, <2>1, <2>2, <2>3, TypePartsNext DEF SaveNow
<1>8. CASE Acknowledge
  BY <1>0, <1>8, TypePartsNext DEF Acknowledge
<1>9. ASSUME NEW left \in (IF Writing THEN Leftovers ELSE {}), WriteFails(left) PROVE TypeOK'
  BY <1>9, WriteFailsType
<1>10. ASSUME NEW left \in (IF Writing THEN Leftovers ELSE {Blank}), Restart(left) PROVE TypeOK'
  BY <1>10, RestartType
<1> QED BY <1>1, <1>2, <1>3, <1>4, <1>5, <1>6, <1>7, <1>8, <1>9, <1>10, BootType, RetryType,
           WriteRecordType, FinishType DEF Next, ImmediateDomains

\* The journal and the loop are type correct, so every record a boot chooses exists.
THEOREM TypeCorrect == Spec => []TypeOK
BY TypeInit, TypeStep, PTL DEF Spec

-----------------------------------------------------------------------------
(* Unsaved changes.  A deferred save and a retry write all that is changed; an   *)
(* immediate one may leave changes of other domains, whose save is then due      *)
(* still, or reported.                                                       *)

Owed == due \/ Locked \/ fault # "none" \/ past.dropped

SaveCovers ==
    /\ job.op \in {"deferred", "retry"} => Changed \subseteq job.domains
    /\ job.op = "immediate" => Changed \subseteq job.domains \/ Owed
    /\ job.op = "none" => Changed = {} \/ Owed

UnsavedInv == TypeOK /\ SaveCovers

LEMMA JobFields ==
    /\ NoJob.op = "none" /\ NoJob.todo = <<>>
    /\ \A op, n, D, c : /\ Commit(op, n, D, c).op = op /\ Commit(op, n, D, c).domains = D
                        /\ Migrate(op, n, c).op = op /\ Recover(op, n, c).op = op
                        /\ Job(op, n, D, c, <<>>).op = op
BY DEF NoJob, Commit, Migrate, Recover, Job

\* What leaves settings, locks and job alone, and forgets nothing that is due.
LEMMA SameCovers ==
    ASSUME SaveCovers, UNCHANGED <<cfg, saved, lock, fault, job>>,
           due => due' \/ past'.dropped, past.dropped => past'.dropped
    PROVE  SaveCovers'
<1>1. Changed' = Changed /\ (Owed => Owed')
  BY DEF Changed, Owed, Locked
<1> QED BY <1>1 DEF SaveCovers

LEMMA NothingChanged ==
    ASSUME cfg' = saved', job'.op \notin {"deferred", "retry", "immediate"}
    PROVE  SaveCovers'
BY DEF SaveCovers, Changed

LEMMA RetryCovers ==
    ASSUME UnsavedInv, Retry
    PROVE  SaveCovers'
<1>1. UNCHANGED <<saved, due, lock, past>> /\ job = NoJob
  BY DEF Retry, Idle
<1>2. CASE job'.op = "retryFormat"
  BY <1>2 DEF SaveCovers
<1>3. CASE job' = job /\ fault' = "LayoutMarker"
  BY <1>1, <1>3, JobFields DEF SaveCovers, Owed
<1>4. ASSUME NEW D, Changed \subseteq D, UNCHANGED cfg,
             job' = IF D = {} THEN Job("retry", seq, {}, cfg, <<>>)
                    ELSE Commit("retry", seq + 1, D, cfg)
      PROVE  SaveCovers'
  <2>1. Changed' = Changed /\ job'.op = "retry" /\ Changed \subseteq job'.domains
    <3>1. Changed' = Changed
      BY <1>1, <1>4 DEF Changed
    <3>2. CASE D = {}
      BY <1>4, <3>1, <3>2 DEF Job
    <3>3. CASE D # {}
      BY <1>4, <3>1, <3>3, JobFields
    <3> QED BY <3>1, <3>2, <3>3
  <2> QED BY <2>1 DEF SaveCovers
<1>5. CASE lock.recovery \/ lock.incompatible \/ BlankRetry
  <2>1. job'.op = "retryFormat" \/ (job' = job /\ fault' = "LayoutMarker")
    <3>1. \/ job' = Recover("retryFormat", seq, ValuesAt(cell, seq))
          \/ job' = Migrate("retryFormat", seq' + 1, cfg')
          \/ job' = Commit("retryFormat", 1, Used, Default)
          \/ job' = job /\ fault' = "LayoutMarker"
      BY <1>5 DEF Retry, BlankRetry
    <3> QED BY <3>1, JobFields
  <2> QED BY <1>2, <1>3, <2>1
<1>6. CASE ~lock.recovery /\ ~lock.incompatible /\ ~BlankRetry
  <2> DEFINE D == IF lock.required THEN Used ELSE Changed \cup FaultDomains
  <2>1. /\ job' = IF D = {} THEN Job("retry", seq, {}, cfg, <<>>)
                  ELSE Commit("retry", seq + 1, D, cfg)
        /\ UNCHANGED cfg
    BY <1>6 DEF Retry
  <2>2. Changed \subseteq D
    BY DEF Changed
  <2> HIDE DEF D
  <2> QED BY <1>4, <2>1, <2>2
<1> QED BY <1>5, <1>6

LEMMA FinishCovers ==
    ASSUME UnsavedInv, Finish
    PROVE  SaveCovers'
<1>1. job' = NoJob /\ cfg' = cfg /\ job.op # "none" /\ cfg \in Configs /\ saved \in Configs
  BY TypeParts DEF Finish, UnsavedInv
<1>2. CASE job.op \notin {"deferred", "immediate", "retry"}
  <2>1. cfg' = saved'
    BY <1>1, <1>2 DEF Finish
  <2> QED BY <1>1, <2>1, JobFields, NothingChanged
<1>3. CASE job.op \in {"deferred", "immediate", "retry"}
  <2>1. saved' = [d \in Used |-> IF d \in job.domains THEN cfg[d] ELSE saved[d]]
    BY <1>3 DEF Finish, Copied
  <2>2. Changed \subseteq job.domains => Changed' = {}
    BY <1>1, <2>1 DEF Changed
  <2>3. Changed' \subseteq Changed
    BY <1>1, <2>1 DEF Changed
  <2>4. CASE Changed \subseteq job.domains
    BY <1>1, <2>2, <2>4, JobFields DEF SaveCovers
  <2>5. CASE job.op = "immediate" /\ Owed
    <3>1. /\ lock' = lock /\ fault' = fault
          /\ past' = [past EXCEPT !.dropped = @ \/ (due /\ job.op = "immediate")]
      BY <2>5 DEF Finish
    <3>2. past \in Pasts
      BY TypeParts DEF UnsavedInv
    <3>3. past'.dropped = (past.dropped \/ due)
      BY <2>5, <3>1, <3>2 DEF Pasts
    <3>4. Owed'
      BY <2>5, <3>1, <3>3 DEF Owed, Locked
    <3> QED BY <1>1, <3>4, JobFields DEF SaveCovers
  <2> QED BY <1>3, <2>4, <2>5 DEF UnsavedInv, SaveCovers
<1> QED BY <1>2, <1>3

LEMMA FailureCovers ==
    ASSUME UnsavedInv, Writing, NEW left, WriteFails(left)
    PROVE  SaveCovers'
<1>1. FailedDomain # "none" /\ lock \in Locks /\ job' = NoJob
  BY HeadType, TypeParts DEF UnsavedInv, WriteFails
<1>2. fault' # "none" \/ lock'.required
  <2>1. fault' = FailedDomain \/ lock' = [lock EXCEPT !.required = TRUE]
    BY DEF WriteFails, SaveFailed
  <2> QED BY <1>1, <2>1 DEF Locks
<1>3. Owed'
  BY <1>2 DEF Owed, Locked
<1> QED BY <1>1, <1>3, JobFields DEF SaveCovers

LEMMA UnsavedStep == UnsavedInv /\ [Next]_vars => UnsavedInv'
<1> SUFFICES ASSUME UnsavedInv, [Next]_vars PROVE SaveCovers'
  BY TypeStep DEF UnsavedInv
<1>0. /\ cfg \in Configs /\ saved \in Configs /\ job \in Jobs /\ past \in Pasts /\ SaveCovers
  BY TypeParts DEF UnsavedInv
<1>1. CASE UNCHANGED vars
  BY <1>0, <1>1, SameCovers DEF vars
<1>2. CASE Boot
  <2>1. cfg' = saved' /\ job'.op \notin {"deferred", "retry", "immediate"}
    BY <1>2, JobFields DEF Boot
  <2> QED BY <2>1, NothingChanged
<1>3. CASE BootUnreadable
  <2>1. Locked'
    BY <1>3 DEF BootUnreadable, Unlocked, Locked
  <2>2. Changed' = {}
    BY <1>3 DEF BootUnreadable, Changed
  <2> QED BY <2>1, <2>2 DEF SaveCovers
<1>4. ASSUME NEW D \in SUBSET Used, NEW v \in 0..MaxValue, Edit(D, v) PROVE SaveCovers'
  BY <1>4, JobFields DEF Edit, Idle, SaveCovers, Owed
<1>5. CASE DropDue
  <2>1. Changed' = Changed /\ Locked' = Locked /\ job' = NoJob
    BY <1>5 DEF DropDue, Changed, Locked, Idle
  <2> QED BY <1>5, <2>1, JobFields DEF DropDue, SaveCovers, Owed
<1>6. CASE ReadSnapshot
  <2>1. past'.dropped /\ UNCHANGED <<cfg, saved, lock, fault, job>>
    BY <1>0, <1>6 DEF ReadSnapshot, Pasts
  <2> QED BY <1>0, <2>1, SameCovers
<1>7. CASE CommitDeferred
  <2>1. Changed' = Changed /\ job'.op = "deferred" /\ job'.domains = Changed
    BY <1>7, JobFields DEF CommitDeferred, Changed
  <2> QED BY <2>1 DEF SaveCovers
<1>8. ASSUME NEW D \in SUBSET Used, NEW v \in 0..MaxValue, SaveNow(D, v) PROVE SaveCovers'
  <2>1. /\ job'.op = "immediate" /\ job'.domains = D /\ Changed' \subseteq Changed \cup D
        /\ job.op = "none"
    BY <1>0, <1>8, JobFields DEF SaveNow, Changed, Idle
  <2>2. Owed' = Owed
    BY <1>8 DEF SaveNow, Owed, Locked
  <2> QED BY <1>0, <2>1, <2>2 DEF SaveCovers
<1>9. CASE Acknowledge
  BY <1>0, <1>9, SameCovers DEF Acknowledge
<1>10. CASE WriteRecord
  <2>1. /\ job'.op = job.op /\ job'.domains = job.domains /\ past'.dropped = past.dropped
    BY <1>0, <1>10 DEF WriteRecord, Jobs, Pasts
  <2>2. Changed' = Changed /\ (Owed => Owed')
    BY <1>10, <2>1 DEF WriteRecord, Changed, Owed, Locked
  <2> QED BY <1>0, <2>1, <2>2 DEF SaveCovers
<1>11. ASSUME NEW left \in (IF Writing THEN Leftovers ELSE {Blank}), Restart(left)
       PROVE  SaveCovers'
  <2>1. cfg' = saved' /\ job' = NoJob
    BY <1>11 DEF Restart
  <2> QED BY <2>1, JobFields, NothingChanged
<1>12. ASSUME NEW left \in (IF Writing THEN Leftovers ELSE {}), WriteFails(left)
       PROVE  SaveCovers'
  BY <1>12, FailureCovers
<1> QED BY <1>1, <1>2, <1>3, <1>4, <1>5, <1>6, <1>7, <1>8, <1>9, <1>10, <1>11, <1>12,
           RetryCovers, FinishCovers DEF Next, ImmediateDomains

\* A changed setting that is not saved is due to be, or the lock or a fault says so, however
\* deferred saves, immediate saves, retries, failures and restarts are interleaved; only an
\* immediate save and a host's snapshot forget it (runtime_commit_deferred_memory,
\* commit_memory_config_now, runtime_retry_persistence).
THEOREM UnsavedIsNotForgotten == Spec => []UnsavedIsDueOrReported
<1>1. Init => UnsavedInv
  <2> SUFFICES ASSUME Init PROVE SaveCovers
    BY TypeInit DEF UnsavedInv
  <2>1. cfg = saved /\ job = NoJob
    BY DEF Init
  <2> QED BY <2>1, JobFields DEF SaveCovers, Changed
<1>2. UnsavedInv => UnsavedIsDueOrReported
  BY JobFields DEF UnsavedInv, SaveCovers, UnsavedIsDueOrReported, Idle, Owed
<1> QED BY <1>1, <1>2, UnsavedStep, PTL DEF Spec

-----------------------------------------------------------------------------
(* What a save that is not interrupted leaves behind.                        *)

\* A marker in force or a record of a domain.
Counts(c, p) ==
    \/ p[1] = "LayoutMarker" /\ c[p].kind = "active"
    \/ p[1] \in Used /\ c[p].kind = "record"

\* The newest record of domain d is in slot s and holds x.
Top(c, d, s, x) ==
    /\ c[<<d, s>>].kind = "record" /\ c[<<d, s>>].val = x
    /\ \A t \in Slots(d) \ {s} : c[<<d, t>>].kind = "record" => c[<<d, t>>].seq < c[<<d, s>>].seq

\* The EEPROM holds the settings v as generation n.
Holds(c, v, n) ==
    /\ n \in Nat \ {0}
    /\ \E s \in {"A", "B"} : c[<<"LayoutMarker", s>>].kind = "active" /\ c[<<"LayoutMarker", s>>].seq = n
    /\ \A p \in Cells : Counts(c, p) => c[p].seq <= n
    /\ \A d \in Used : \E s \in Slots(d) : Top(c, d, s, v[d])

\* What an EEPROM holds that was never written by this firmware.
Unwritten(c) ==
    \/ \A p \in Cells : c[p].kind = "blank"
    \/ \A p \in Cells : c[p].kind = IF p[1] = "Legacy" THEN "fpm1" ELSE "blank"

\* The writes that a save comes to: those that no later one replaces.
RecordOf(j, d) == Write(CellOf(d, j.seq), Content("record", j.seq, j.config[d]))
Actives(j) ==
    IF j.op = "migrate" THEN {Mark("active", "A", j.seq), Mark("active", "B", j.seq)}
    ELSE {MarkOf("active", j.seq)}
Finals(j) == {RecordOf(j, d) : d \in j.domains} \cup Actives(j)
FinalPlaces(j) == {f.place : f \in Finals(j)}

\* A write is still to come and is the last one to its place, or has been made.
Within(s, P) == \A i \in 1..Len(s) : s[i].place \in P
Avoids(s, p) == \A i \in 1..Len(s) : s[i].place # p
Ends(s, f) == \E j \in 1..Len(s) : s[j] = f /\ \A i \in 1..Len(s) : j < i => s[i].place # f.place
Comes(c, s, f) == Ends(s, f) \/ (Avoids(s, f.place) /\ c[f.place] = f.content)

\* The old records that stay: older than the save, and newest of the domains it leaves out.
OldOnes(c, j, v) ==
    /\ \A p \in Cells \ FinalPlaces(j) : Counts(c, p) => c[p].seq < j.seq
    /\ \A d \in Used \ j.domains : \E s \in Slots(d) : Top(c, d, s, v[d])

\* A save that is under way: what it still has to write and what it must not touch.
Making(c, j, v) ==
    /\ Within(j.todo, FinalPlaces(j) \cup {<<"Legacy", "A">>, <<"Legacy", "B">>})
    /\ \A f \in Finals(j) : Comes(c, j.todo, f)
    /\ OldOnes(c, j, v)

Progress ==
    /\ mode # "off" /\ job.seq \in Nat \ {0} /\ job.config = cfg
    /\ job.op \in {"init", "migrate", "deferred", "immediate"}
    /\ job.op \in {"init", "migrate"} => job.domains = Used
    /\ job.op # "migrate" => ~Locked /\ ~attention
    /\ Making(cell, job, saved)

CleanOff == Unwritten(cell) \/ \E v \in Configs, n \in Nat : Holds(cell, v, n)
CleanOn == mode = "on" /\ ~Locked /\ ~attention /\ Holds(cell, saved, seq)
Clean ==
    ~past.interrupted =>
        IF job # NoJob THEN Progress ELSE IF mode = "off" THEN CleanOff ELSE CleanOn

-----------------------------------------------------------------------------
(* Reading such an EEPROM back.                                              *)

LEMMA MarkersOf ==
    ASSUME NEW c \in [Cells -> Contents], NEW k
    PROVE  /\ Markers(c, k) \in SUBSET {c[<<"LayoutMarker", "A">>].seq, c[<<"LayoutMarker", "B">>].seq}
           /\ c[<<"LayoutMarker", "A">>].seq \in Nat /\ c[<<"LayoutMarker", "B">>].seq \in Nat
<1>1. c[<<"LayoutMarker", "A">>] \in Contents /\ c[<<"LayoutMarker", "B">>] \in Contents
  BY CellNames
<1> QED BY <1>1 DEF Contents, Markers

LEMMA HoldsReads ==
    ASSUME NEW c \in [Cells -> Contents], NEW v \in Configs, NEW n, Holds(c, v, n)
    PROVE  /\ Generation(c) = n /\ n # 0 /\ ReadGeneration(c) = n
           /\ Selected(c) /\ Restored(c) = v
           /\ ~Required(c) /\ ~Incompatible(c) /\ ~Recoverable(c)
<1>1. n \in Nat \ {0}
  BY DEF Holds
<1>2. Generation(c) = n
  <2> DEFINE a == c[<<"LayoutMarker", "A">>].seq
             b == c[<<"LayoutMarker", "B">>].seq
             M == Markers(c, {"active"})
  <2>1. n \in M
    BY DEF Holds, Markers
  <2>2. \A m \in M : m <= n
    BY CellNames DEF Holds, Markers, Counts
  <2>3. M \in SUBSET {a, b} /\ a \in Nat /\ b \in Nat
    BY MarkersOf
  <2> HIDE DEF a, b, M
  <2>4. Newest(M) \in M /\ \A m \in M : m <= Newest(M)
    BY <2>1, <2>3, NewestOfTwo
  <2>5. Newest(M) <= n /\ n <= Newest(M) /\ Newest(M) \in Nat
    BY <2>1, <2>2, <2>3, <2>4
  <2>6. Newest(M) = n
    BY <1>1, <2>5
  <2> QED BY <2>6 DEF M, Generation
<1>3. ASSUME NEW d \in Used
      PROVE  Readable(c, d, n) # {} /\ Chosen(c, d, n).val = v[d]
  <2>1. PICK s \in Slots(d) : Top(c, d, s, v[d])
    BY DEF Holds
  <2>2. \A t \in Slots(d) : <<d, t>> \in Cells
    BY CellNames DEF Places
  <2>3. c[<<d, s>>].seq <= n
    BY <2>1, <2>2 DEF Holds, Counts, Top
  <2>4. c[<<d, s>>] \in Readable(c, d, n)
    BY <2>1, <2>3 DEF Readable, Top
  <2>5. Chosen(c, d, n) \in Readable(c, d, n) /\ c[<<d, s>>].seq <= Chosen(c, d, n).seq
    BY <2>4, ChosenIsReadable
  <2>6. PICK t \in Slots(d) : Chosen(c, d, n) = c[<<d, t>>] /\ c[<<d, t>>].kind = "record"
    BY <2>5 DEF Readable
  <2>7. c[<<d, s>>].seq \in Nat /\ c[<<d, t>>].seq \in Nat
    BY <2>2 DEF Contents
  <2>8. t = s
    BY <2>1, <2>5, <2>6, <2>7 DEF Top
  <2> QED BY <2>1, <2>4, <2>6, <2>8 DEF Top
<1>4. Selected(c) /\ ReadGeneration(c) = n /\ ~Recoverable(c) /\ ~LegacyPresent(c)
  BY <1>1, <1>2, <1>3 DEF Selected, Complete, ReadGeneration, Recoverable, LegacyPresent
<1>5. Restored(c) = v
  <2>1. ValuesAt(c, n) = v
    BY <1>3 DEF ValuesAt, Configs
  <2> QED BY <1>4, <2>1 DEF Restored
<1>6. ~Incompatible(c)
  BY <1>4 DEF Incompatible
<1>7. ~Required(c)
  <2>1. \A d \in DoubleSlot : Present(c, d)
    BY <1>1, <1>3, <1>4 DEF Present, DoubleSlot
  <2> QED BY <1>1, <1>2, <1>6, <2>1 DEF Required
<1> QED BY <1>1, <1>2, <1>4, <1>5, <1>6, <1>7

LEMMA UnwrittenReads ==
    ASSUME NEW c \in [Cells -> Contents], Unwritten(c)
    PROVE  /\ ~Recoverable(c) /\ ~Selected(c)
           /\ \A p \in Cells : ~Counts(c, p)
           /\ \/ ~Required(c) /\ ~Incompatible(c)
              \/ Incompatible(c) /\ LegacyRecords(c) # {}
<1>1. \A p \in Cells : p[1] # "Legacy" => c[p].kind = "blank"
  BY DEF Unwritten
<1>2. \A s \in {"A", "B"} : c[<<"LayoutMarker", s>>].kind = "blank"
  BY <1>1, CellNames
<1>3. \A k : "blank" \notin k => Markers(c, k) = {}
  BY <1>2 DEF Markers
<1>4. Markers(c, {"active"}) = {} /\ Markers(c, {"prepared", "migrating"}) = {}
      /\ Markers(c, {"migrating"}) = {}
  BY <1>3
<1>5. Generation(c) = 0 /\ MigrationGeneration(c) = 0
  BY <1>4 DEF Generation, MigrationGeneration, Newest
<1>6. ~Recoverable(c) /\ ~Selected(c)
  BY <1>5 DEF Recoverable, Selected
<1>7. \A p \in Cells : ~Counts(c, p)
  BY <1>1, Names DEF Counts
<1>8. CASE \A p \in Cells : c[p].kind = "blank"
  <2>1. ~ContainsData(c)
    BY <1>8 DEF ContainsData, Probed
  <2>2. ~LegacyPresent(c)
    BY <1>8, CellNames DEF LegacyPresent
  <2> QED BY <1>6, <1>7, <2>1, <2>2 DEF Required, Incompatible
<1>9. CASE \A p \in Cells : c[p].kind = IF p[1] = "Legacy" THEN "fpm1" ELSE "blank"
  <2>1. c[<<"Legacy", "A">>].kind = "fpm1"
    BY <1>9, CellNames
  <2>2. LegacyPresent(c) /\ LegacyRecords(c) # {}
    BY <1>5, <2>1 DEF LegacyPresent, LegacyRecords
  <2> QED BY <1>6, <1>7, <2>2 DEF Incompatible
<1> QED BY <1>8, <1>9 DEF Unwritten

-----------------------------------------------------------------------------
(* Sequences of writes.                                                      *)

LEMMA Concatenated ==
    ASSUME NEW s \in Seq(Writes), NEW t \in Seq(Writes)
    PROVE  /\ s \o t \in Seq(Writes)
           /\ \A p : Avoids(s, p) /\ Avoids(t, p) => Avoids(s \o t, p)
           /\ \A P : Within(s, P) /\ Within(t, P) => Within(s \o t, P)
           /\ \A f : Ends(t, f) => Ends(s \o t, f)
           /\ \A f : Ends(s, f) /\ Avoids(t, f.place) => Ends(s \o t, f)
<1>1. /\ s \o t \in Seq(Writes) /\ Len(s \o t) = Len(s) + Len(t)
      /\ Len(s) \in Nat /\ Len(t) \in Nat
      /\ \A i \in 1..Len(s) : (s \o t)[i] = s[i]
  OBVIOUS
<1>2. \A i \in 1..Len(t) : (s \o t)[i + Len(s)] = t[i]
  OBVIOUS
<1>3. \A i \in 1..Len(s \o t) : i \in 1..Len(s) \/ (i - Len(s) \in 1..Len(t) /\ (s \o t)[i] = t[i - Len(s)])
  <2> SUFFICES ASSUME NEW i \in 1..Len(s \o t), i \notin 1..Len(s)
               PROVE  i - Len(s) \in 1..Len(t) /\ (s \o t)[i] = t[i - Len(s)]
    OBVIOUS
  <2>1. i - Len(s) \in 1..Len(t) /\ i = (i - Len(s)) + Len(s)
    BY <1>1
  <2> QED BY <1>2, <2>1
<1>4. \A p : Avoids(s, p) /\ Avoids(t, p) => Avoids(s \o t, p)
  BY <1>1, <1>3 DEF Avoids
<1>5. \A P : Within(s, P) /\ Within(t, P) => Within(s \o t, P)
  BY <1>1, <1>3 DEF Within
<1>6. ASSUME NEW f, Ends(t, f) PROVE Ends(s \o t, f)
  <2>1. PICK j \in 1..Len(t) : t[j] = f /\ \A i \in 1..Len(t) : j < i => t[i].place # f.place
    BY <1>6 DEF Ends
  <2>2. j + Len(s) \in 1..Len(s \o t) /\ (s \o t)[j + Len(s)] = f
    BY <1>1, <1>2, <2>1
  <2>3. \A i \in 1..Len(s \o t) : j + Len(s) < i => (s \o t)[i].place # f.place
    <3> SUFFICES ASSUME NEW i \in 1..Len(s \o t), j + Len(s) < i PROVE (s \o t)[i].place # f.place
      OBVIOUS
    <3>1. i \notin 1..Len(s) /\ j < i - Len(s)
      BY <1>1
    <3> QED BY <1>3, <2>1, <3>1
  <2> QED BY <2>2, <2>3 DEF Ends
<1>7. ASSUME NEW f, Ends(s, f), Avoids(t, f.place) PROVE Ends(s \o t, f)
  <2>1. PICK j \in 1..Len(s) : s[j] = f /\ \A i \in 1..Len(s) : j < i => s[i].place # f.place
    BY <1>7 DEF Ends
  <2>2. j \in 1..Len(s \o t) /\ (s \o t)[j] = f
    BY <1>1, <2>1
  <2>3. \A i \in 1..Len(s \o t) : j < i => (s \o t)[i].place # f.place
    BY <1>1, <1>3, <1>7, <2>1 DEF Avoids
  <2> QED BY <2>2, <2>3 DEF Ends
<1> QED BY <1>1, <1>4, <1>5, <1>6, <1>7

LEMMA Single ==
    ASSUME NEW w, NEW f, NEW P
    PROVE  /\ Ends(<<w>>, w)
           /\ w.place # f => Avoids(<<w>>, f)
           /\ w.place \in P => Within(<<w>>, P)
           /\ Avoids(<<>>, f) /\ Within(<<>>, P)
BY DEF Ends, Avoids, Within

LEMMA Pair ==
    ASSUME NEW w, NEW x, w.place # x.place, NEW f, NEW P
    PROVE  /\ Ends(<<w, x>>, w) /\ Ends(<<w, x>>, x)
           /\ w.place # f /\ x.place # f => Avoids(<<w, x>>, f)
           /\ w.place \in P /\ x.place \in P => Within(<<w, x>>, P)
<1> DEFINE s == <<w, x>>
<1>1. Len(s) = 2 /\ s[1] = w /\ s[2] = x /\ \A i \in 1..Len(s) : i = 1 \/ i = 2
  OBVIOUS
<1> HIDE DEF s
<1>2. Ends(s, w)
  BY <1>1 DEF Ends
<1>3. Ends(s, x)
  BY <1>1 DEF Ends
<1>4. w.place # f /\ x.place # f => Avoids(s, f)
  BY <1>1 DEF Avoids
<1>5. w.place \in P /\ x.place \in P => Within(s, P)
  BY <1>1 DEF Within
<1> QED BY <1>2, <1>3, <1>4, <1>5 DEF s

LEMMA OneWriteOn ==
    ASSUME NEW c \in [Cells -> Contents], NEW s \in Seq(Writes), s # <<>>, NEW f \in Writes,
           Comes(c, s, f)
    PROVE  Comes([c EXCEPT ![Head(s).place] = Head(s).content], Tail(s), f)
<1> DEFINE c2 == [c EXCEPT ![Head(s).place] = Head(s).content]
           t == Tail(s)
<1>1. /\ Head(s) = s[1] /\ s[1] \in Writes /\ Len(s) \in Nat \ {0} /\ Len(t) = Len(s) - 1
      /\ \A i \in 1..Len(t) : t[i] = s[i + 1]
  OBVIOUS
<1>2. s[1].place \in Cells /\ f.place \in Cells
  BY <1>1 DEF Writes
<1>3. c2[f.place] = IF s[1].place = f.place THEN s[1].content ELSE c[f.place]
  BY <1>1, <1>2
<1> HIDE DEF c2, t
<1>4. CASE Avoids(s, f.place) /\ c[f.place] = f.content
  <2>1. s[1].place # f.place /\ Avoids(t, f.place)
    BY <1>1, <1>4 DEF Avoids
  <2> QED BY <1>3, <1>4, <2>1 DEF Comes, c2, t
<1>5. CASE Ends(s, f)
  <2>1. PICK j \in 1..Len(s) : s[j] = f /\ \A i \in 1..Len(s) : j < i => s[i].place # f.place
    BY <1>5 DEF Ends
  <2>2. CASE j = 1
    <3>1. Avoids(t, f.place)
      BY <1>1, <2>1, <2>2 DEF Avoids
    <3>2. c2[f.place] = f.content
      BY <1>3, <2>1, <2>2
    <3> QED BY <3>1, <3>2 DEF Comes, c2, t
  <2>3. CASE j # 1
    <3>1. j - 1 \in 1..Len(t) /\ t[j - 1] = f
      BY <1>1, <2>1, <2>3
    <3>2. \A i \in 1..Len(t) : j - 1 < i => t[i].place # f.place
      BY <1>1, <2>1, <2>3
    <3>3. Ends(t, f)
      BY <3>1, <3>2 DEF Ends
    <3> QED BY <3>3 DEF Comes, c2, t
  <2> QED BY <2>2, <2>3
<1> QED BY <1>4, <1>5 DEF Comes

-----------------------------------------------------------------------------
(* The writes of a save end in its records and its markers.                  *)

LEMMA CellOfIs ==
    ASSUME NEW d \in Places, NEW n
    PROVE  /\ CellOf(d, n) \in Cells /\ CellOf(d, n) = <<d, CellOf(d, n)[2]>>
           /\ CellOf(d, n)[1] = d /\ CellOf(d, n)[2] \in Slots(d)
<1>1. CellOf(d, n) \in Cells /\ CellOf(d, n)[1] = d
  BY CellOfType
<1> QED BY <1>1, CellNames

LEMMA DomainWritesEnd ==
    ASSUME NEW n \in Nat, NEW D \in SUBSET Used, NEW c \in Configs
    PROVE  /\ \A d \in D : Ends(DomainWrites(n, D, c), Write(CellOf(d, n), Content("record", n, c[d])))
           /\ \A p : p[1] \notin Used => Avoids(DomainWrites(n, D, c), p)
           /\ Within(DomainWrites(n, D, c), {CellOf(d, n) : d \in D})
<1> DEFINE w(d) == Write(CellOf(d, n), Content("record", n, c[d]))
           r(d) == IF d \in D THEN <<w(d)>> ELSE <<>>
           P == {CellOf(d, n) : d \in D}
<1>1. \A d \in D : w(d) \in Writes /\ w(d).place[1] = d /\ w(d).place \in P
  <2> SUFFICES ASSUME NEW d \in D PROVE w(d) \in Writes /\ w(d).place[1] = d /\ w(d).place \in P
    OBVIOUS
  <2>1. CellOf(d, n) \in Cells /\ CellOf(d, n)[1] = d /\ c[d] \in 0..MaxValue
    BY CellOfType DEF Places, Configs
  <2>2. Content("record", n, c[d]) \in Contents
    BY <2>1, ContentType
  <2> QED BY <2>1, <2>2 DEF Write, Writes
<1>2. DomainWrites(n, D, c) = r("SafetyCalibration") \o r("ThermalPolicy")
        \o r("UserPreferences") \o r("NetworkAndPairing") \o r("ThermalPlant")
  BY DEF DomainWrites
<1> HIDE DEF w, P
<1>3. \A d : r(d) \in Seq(Writes) /\ Within(r(d), P)
  <2> TAKE d
  <2>1. CASE d \in D
    <3>1. Within(<<w(d)>>, P)
      BY <1>1, <2>1, Single
    <3> QED BY <1>1, <2>1, <3>1
  <2>2. CASE d \notin D
    <3>1. r(d) = <<>> /\ Within(<<>>, P)
      BY <2>2, Single
    <3> QED BY <3>1
  <2> QED BY <2>1, <2>2
<1>4. \A d, p : p[1] # d => Avoids(r(d), p)
  <2> SUFFICES ASSUME NEW d, NEW p, p[1] # d PROVE Avoids(r(d), p)
    OBVIOUS
  <2>1. CASE d \in D
    <3>1. w(d).place # p
      BY <1>1, <2>1
    <3>2. Avoids(<<w(d)>>, p)
      BY <3>1, Single
    <3> QED BY <2>1, <3>2
  <2>2. CASE d \notin D
    BY <2>2, Single
  <2> QED BY <2>1, <2>2
<1>5. \A d \in D : Ends(r(d), w(d))
  BY Single
<1> HIDE DEF r
<1> DEFINE s1 == r("SafetyCalibration")
           s2 == s1 \o r("ThermalPolicy")
           s3 == s2 \o r("UserPreferences")
           s4 == s3 \o r("NetworkAndPairing")
           s5 == s4 \o r("ThermalPlant")
<1>6. s1 \in Seq(Writes) /\ s2 \in Seq(Writes) /\ s3 \in Seq(Writes) /\ s4 \in Seq(Writes)
  BY <1>3
<1>7. Within(s5, P)
  <2>1. Within(s2, P)
    BY <1>3, <1>6, Concatenated
  <2>2. Within(s3, P)
    BY <1>3, <1>6, <2>1, Concatenated
  <2>3. Within(s4, P)
    BY <1>3, <1>6, <2>2, Concatenated
  <2> QED BY <1>3, <1>6, <2>3, Concatenated
<1>8. \A d \in D : Ends(s5, w(d))
  <2> SUFFICES ASSUME NEW d \in D PROVE Ends(s5, w(d))
    OBVIOUS
  <2>1. \A e : e # d => Avoids(r(e), w(d).place)
    BY <1>1, <1>4
  <2>2. d = "SafetyCalibration" => Ends(s1, w(d))
    BY <1>5
  <2>3. d = "SafetyCalibration" \/ d = "ThermalPolicy" => Ends(s2, w(d))
    BY <1>3, <1>5, <1>6, <2>1, <2>2, Concatenated
  <2>4. d = "SafetyCalibration" \/ d = "ThermalPolicy" \/ d = "UserPreferences" => Ends(s3, w(d))
    BY <1>3, <1>5, <1>6, <2>1, <2>3, Concatenated
  <2>5. d \in AllDomains \ {"ThermalPlant"} => Ends(s4, w(d))
    BY <1>3, <1>5, <1>6, <2>1, <2>4, Concatenated DEF AllDomains
  <2>6. d \in AllDomains
    BY Names
  <2> QED BY <1>3, <1>5, <1>6, <2>1, <2>5, <2>6, Concatenated DEF AllDomains
<1>9. DomainWrites(n, D, c) = s5
  BY <1>2
<1> HIDE DEF s1, s2, s3, s4, s5
<1>10. \A p : p[1] \notin Used => Avoids(s5, p)
  <2> SUFFICES ASSUME NEW p, p[1] \notin Used PROVE Avoids(s5, p)
    OBVIOUS
  <2>1. \A q \in P : q[1] \in Used
    BY CellOfType DEF P, Places
  <2> QED BY <1>7, <2>1 DEF Within, Avoids
<1> QED BY <1>7, <1>8, <1>9, <1>10 DEF w, P

\* What a job of the given kind does, seen from its end.
Arranged(j) ==
    /\ Within(j.todo, FinalPlaces(j) \cup {<<"Legacy", "A">>, <<"Legacy", "B">>})
    /\ \A f \in Finals(j) : Ends(j.todo, f)

LEMMA CommitArranged ==
    ASSUME NEW n \in Nat, NEW D \in SUBSET Used, NEW c \in Configs,
           NEW op \in {"init", "deferred", "immediate"}
    PROVE  Arranged(Commit(op, n, D, c))
<1> DEFINE j == Commit(op, n, D, c)
           a == <<MarkOf("prepared", n)>>
           b == DomainWrites(n, D, c)
           e == <<MarkOf("active", n)>>
           P == FinalPlaces(j) \cup {<<"Legacy", "A">>, <<"Legacy", "B">>}
<1>1. /\ j.op = op /\ j.seq = n /\ j.domains = D /\ j.config = c /\ j.todo = a \o b \o e
      /\ j.op # "migrate"
  BY DEF Commit, Job, CommitWrites
<1>2. /\ Finals(j) = {RecordOf(j, d) : d \in D} \cup {MarkOf("active", n)}
      /\ \A d \in D : RecordOf(j, d) = Write(CellOf(d, n), Content("record", n, c[d]))
  BY <1>1 DEF Finals, Actives, RecordOf
<1> HIDE DEF j
<1>3. /\ a \in Seq(Writes) /\ b \in Seq(Writes) /\ e \in Seq(Writes) /\ a \o b \in Seq(Writes)
  BY MarkType, DomainWritesType
<1>4. /\ MarkOf("active", n).place = CellOf("LayoutMarker", n)
      /\ MarkOf("prepared", n).place = CellOf("LayoutMarker", n)
      /\ CellOf("LayoutMarker", n)[1] = "LayoutMarker"
  BY CellOfType DEF MarkOf, Write, Places
<1>5. /\ CellOf("LayoutMarker", n) \in P
      /\ {CellOf(d, n) : d \in D} \subseteq P
  <2>1. MarkOf("active", n).place \in P
    BY <1>2 DEF FinalPlaces
  <2>2. \A d \in D : RecordOf(j, d).place \in P /\ RecordOf(j, d).place = CellOf(d, n)
    BY <1>2 DEF FinalPlaces, Write
  <2> QED BY <1>4, <2>1, <2>2
<1> HIDE DEF P
<1>6. Within(j.todo, P)
  <2>1. Within(a, P) /\ Within(e, P)
    BY <1>4, <1>5, Single
  <2>2. Within(b, P)
    BY <1>5, DomainWritesEnd DEF Within
  <2> HIDE DEF a, b, e
  <2>3. Within(a \o b, P)
    BY <1>3, <2>1, <2>2, Concatenated
  <2> QED BY <1>1, <1>3, <2>1, <2>3, Concatenated
<1>7. Ends(j.todo, MarkOf("active", n))
  <2>1. Ends(e, MarkOf("active", n))
    BY Single
  <2> HIDE DEF a, b, e
  <2> QED BY <1>1, <1>3, <2>1, Concatenated
<1>8. \A d \in D : Ends(j.todo, RecordOf(j, d))
  <2> SUFFICES ASSUME NEW d \in D PROVE Ends(j.todo, RecordOf(j, d))
    OBVIOUS
  <2>1. Ends(b, RecordOf(j, d))
    BY <1>2, DomainWritesEnd
  <2>2. RecordOf(j, d).place[1] # "LayoutMarker"
    <3>1. RecordOf(j, d).place = CellOf(d, n)
      BY <1>2 DEF Write
    <3> QED BY <3>1, CellOfType, Names DEF Places
  <2>3. Avoids(e, RecordOf(j, d).place)
    <3>1. MarkOf("active", n).place # RecordOf(j, d).place
      BY <1>4, <2>2
    <3> QED BY <3>1, Single
  <2> HIDE DEF a, b, e
  <2>4. Ends(a \o b, RecordOf(j, d))
    BY <1>3, <2>1, Concatenated
  <2> QED BY <1>1, <1>3, <2>3, <2>4, Concatenated
<1>9. Arranged(j)
  BY <1>2, <1>6, <1>7, <1>8 DEF Arranged, P
<1> QED BY <1>9 DEF j

LEMMA MigrateArranged ==
    ASSUME NEW n \in Nat, NEW c \in Configs
    PROVE  Arranged(Migrate("migrate", n, c))
<1> DEFINE j == Migrate("migrate", n, c)
           a == <<Mark("migrating", "A", n), Mark("migrating", "B", n)>>
           b == DomainWrites(n, Used, c)
           l == <<Write(<<"Legacy", "A">>, Blank), Write(<<"Legacy", "B">>, Blank)>>
           e == <<Mark("active", "A", n), Mark("active", "B", n)>>
           P == FinalPlaces(j) \cup {<<"Legacy", "A">>, <<"Legacy", "B">>}
<1>1. /\ j.op = "migrate" /\ j.seq = n /\ j.domains = Used /\ j.config = c
      /\ j.todo = a \o b \o l \o e
  BY DEF Migrate, Job, MigrateWrites
<1>2. /\ Finals(j) = {RecordOf(j, d) : d \in Used} \cup {Mark("active", "A", n), Mark("active", "B", n)}
      /\ \A d \in Used : RecordOf(j, d) = Write(CellOf(d, n), Content("record", n, c[d]))
  BY <1>1 DEF Finals, Actives, RecordOf
<1> HIDE DEF j
<1>3. /\ a \in Seq(Writes) /\ b \in Seq(Writes) /\ l \in Seq(Writes) /\ e \in Seq(Writes)
      /\ a \o b \in Seq(Writes) /\ a \o b \o l \in Seq(Writes)
  <2>1. \A s \in {"A", "B"} : Mark("migrating", s, n) \in Writes /\ Mark("active", s, n) \in Writes
    BY MarkType
  <2>2. \A s \in {"A", "B"} : Write(<<"Legacy", s>>, Blank) \in Writes
    BY CellNames, ContentType DEF Write, Writes
  <2>3. a \in Seq(Writes) /\ e \in Seq(Writes)
    BY <2>1
  <2>4. l \in Seq(Writes)
    BY <2>2
  <2>5. b \in Seq(Writes)
    BY DomainWritesType
  <2> HIDE DEF a, b, l, e
  <2> QED BY <2>3, <2>4, <2>5
<1>4. /\ \A k, s : Mark(k, s, n).place = <<"LayoutMarker", s>>
      /\ \A s : Write(<<"Legacy", s>>, Blank).place = <<"Legacy", s>>
  BY DEF Mark, Write
<1>5. /\ <<"LayoutMarker", "A">> \in P /\ <<"LayoutMarker", "B">> \in P
      /\ <<"Legacy", "A">> \in P /\ <<"Legacy", "B">> \in P
      /\ {CellOf(d, n) : d \in Used} \subseteq P
  <2>1. Mark("active", "A", n).place \in P /\ Mark("active", "B", n).place \in P
    BY <1>2 DEF FinalPlaces
  <2>2. \A d \in Used : RecordOf(j, d).place \in P /\ RecordOf(j, d).place = CellOf(d, n)
    <3>1. \A d \in Used : RecordOf(j, d) \in Finals(j)
      BY <1>2
    <3>2. ASSUME NEW d \in Used PROVE RecordOf(j, d).place = CellOf(d, n)
      BY <1>2 DEF Write
    <3>3. \A d \in Used : RecordOf(j, d).place \in FinalPlaces(j)
      BY <3>1 DEF FinalPlaces
    <3> QED BY <3>2, <3>3
  <2>3. {CellOf(d, n) : d \in Used} \subseteq P
    BY <2>2
  <2>4. <<"Legacy", "A">> \in P /\ <<"Legacy", "B">> \in P
    OBVIOUS
  <2> HIDE DEF P
  <2> QED BY <1>4, <2>1, <2>3, <2>4
<1>6. <<"LayoutMarker", "A">> # <<"LayoutMarker", "B">> /\ <<"Legacy", "A">> # <<"Legacy", "B">>
  OBVIOUS
<1> HIDE DEF P
<1>7. Within(j.todo, P)
  <2>1. Within(a, P) /\ Within(e, P) /\ Within(l, P)
    BY <1>4, <1>5, <1>6, Pair
  <2>2. Within(b, P)
    BY <1>5, DomainWritesEnd DEF Within
  <2> HIDE DEF a, b, l, e
  <2>3. Within(a \o b, P)
    BY <1>3, <2>1, <2>2, Concatenated
  <2>4. Within(a \o b \o l, P)
    BY <1>3, <2>1, <2>3, Concatenated
  <2> QED BY <1>1, <1>3, <2>1, <2>4, Concatenated
<1>8. Ends(j.todo, Mark("active", "A", n)) /\ Ends(j.todo, Mark("active", "B", n))
  <2>1. Ends(e, Mark("active", "A", n)) /\ Ends(e, Mark("active", "B", n))
    BY <1>4, <1>6, Pair
  <2> HIDE DEF a, b, l, e
  <2> QED BY <1>1, <1>3, <2>1, Concatenated
<1>9. \A d \in Used : Ends(j.todo, RecordOf(j, d))
  <2> SUFFICES ASSUME NEW d \in Used PROVE Ends(j.todo, RecordOf(j, d))
    OBVIOUS
  <2>1. Ends(b, RecordOf(j, d))
    BY <1>2, DomainWritesEnd
  <2>2. RecordOf(j, d).place[1] \notin {"LayoutMarker", "Legacy"}
    <3>1. RecordOf(j, d).place = CellOf(d, n)
      BY <1>2 DEF Write
    <3> QED BY <3>1, CellOfType, Names DEF Places
  <2>3. \A s \in {"A", "B"} : /\ <<"LayoutMarker", s>> # RecordOf(j, d).place
                              /\ <<"Legacy", s>> # RecordOf(j, d).place
    BY <2>2
  <2>4. Avoids(e, RecordOf(j, d).place) /\ Avoids(l, RecordOf(j, d).place)
    BY <1>4, <1>6, <2>3, Pair
  <2> HIDE DEF a, b, l, e
  <2>5. Ends(a \o b, RecordOf(j, d))
    BY <1>3, <2>1, Concatenated
  <2>6. Ends(a \o b \o l, RecordOf(j, d))
    BY <1>3, <2>4, <2>5, Concatenated
  <2> QED BY <1>1, <1>3, <2>4, <2>6, Concatenated
<1>10. Arranged(j)
  BY <1>2, <1>7, <1>8, <1>9 DEF Arranged, P
<1> QED BY <1>10 DEF j

-----------------------------------------------------------------------------
(* A save from its first write to its last.                                  *)

LEMMA FinalsAre ==
    ASSUME NEW j \in Jobs
    PROVE  /\ Finals(j) \subseteq Writes
           /\ \A f \in Finals(j) : f.content.seq = j.seq
           /\ \A f \in Finals(j) : f.place[1] \in j.domains \cup {"LayoutMarker"}
           /\ \A d \in Used : \A t \in Slots(d) :
                <<d, t>> \in FinalPlaces(j) => d \in j.domains /\ <<d, t>> = CellOf(d, j.seq)
<1>1. /\ j.seq \in Nat /\ j.domains \in SUBSET Used /\ j.config \in Configs
  BY DEF Jobs
<1>2. \A d \in j.domains : /\ RecordOf(j, d) \in Writes /\ RecordOf(j, d).content.seq = j.seq
                           /\ RecordOf(j, d).place = CellOf(d, j.seq)
                           /\ CellOf(d, j.seq)[1] = d
  <2> SUFFICES ASSUME NEW d \in j.domains
               PROVE  /\ RecordOf(j, d) \in Writes /\ RecordOf(j, d).content.seq = j.seq
                      /\ RecordOf(j, d).place = CellOf(d, j.seq)
                      /\ CellOf(d, j.seq)[1] = d
    OBVIOUS
  <2>1. CellOf(d, j.seq) \in Cells /\ CellOf(d, j.seq)[1] = d
    BY <1>1, CellOfType DEF Places
  <2>2. j.config[d] \in 0..MaxValue
    BY <1>1 DEF Configs
  <2>3. Content("record", j.seq, j.config[d]) \in Contents
    BY <1>1, <2>2, ContentType
  <2>4. Content("record", j.seq, j.config[d]).seq = j.seq
    BY DEF Content
  <2> QED BY <2>1, <2>3, <2>4 DEF RecordOf, Write, Writes
<1>3. \A f \in Actives(j) : f \in Writes /\ f.content.seq = j.seq /\ f.place[1] = "LayoutMarker"
  <2>1. \A s \in {"A", "B"} : /\ Mark("active", s, j.seq) \in Writes
                              /\ Mark("active", s, j.seq).content.seq = j.seq
                              /\ Mark("active", s, j.seq).place[1] = "LayoutMarker"
    BY <1>1, MarkType DEF Mark, Write, Content
  <2>2. /\ MarkOf("active", j.seq) \in Writes /\ MarkOf("active", j.seq).content.seq = j.seq
        /\ MarkOf("active", j.seq).place[1] = "LayoutMarker"
    BY <1>1, MarkType, CellOfType DEF MarkOf, Write, Content, Places
  <2> QED BY <2>1, <2>2 DEF Actives
<1>4. /\ Finals(j) \subseteq Writes
      /\ \A f \in Finals(j) : f.content.seq = j.seq
      /\ \A f \in Finals(j) : f.place[1] \in j.domains \cup {"LayoutMarker"}
  BY <1>2, <1>3 DEF Finals
<1>5. ASSUME NEW d \in Used, NEW t \in Slots(d), <<d, t>> \in FinalPlaces(j)
      PROVE  d \in j.domains /\ <<d, t>> = CellOf(d, j.seq)
  <2>1. PICK f \in Finals(j) : f.place = <<d, t>>
    BY <1>5 DEF FinalPlaces
  <2>2. f.place[1] = d /\ d # "LayoutMarker"
    BY <2>1, Names
  <2>3. PICK e \in j.domains : f = RecordOf(j, e)
    BY <1>3, <2>2 DEF Finals
  <2> QED BY <1>2, <2>1, <2>2, <2>3
<1> QED BY <1>4, <1>5

\* The first write of a save.
LEMMA SaveStarts ==
    ASSUME NEW j \in Jobs, Arranged(j), NEW c \in [Cells -> Contents], NEW v,
           \A p \in Cells : Counts(c, p) => c[p].seq < j.seq,
           \A d \in Used \ j.domains : \E s \in Slots(d) : Top(c, d, s, v[d])
    PROVE  Making(c, j, v)
BY DEF Making, Arranged, Comes, OldOnes

\* A write in the middle of one.
LEMMA SaveGoesOn ==
    ASSUME NEW j \in Jobs, j.todo # <<>>, NEW c \in [Cells -> Contents], NEW v,
           Making(c, j, v),
           NEW k \in Jobs, k = [j EXCEPT !.todo = Tail(@)],
           NEW c2, c2 = [c EXCEPT ![Head(j.todo).place] = Head(j.todo).content]
    PROVE  Making(c2, k, v)
<1> DEFINE s == j.todo
           L == {<<"Legacy", "A">>, <<"Legacy", "B">>}
<1>0. /\ Within(j.todo, FinalPlaces(j) \cup L) /\ OldOnes(c, j, v)
      /\ \A f \in Finals(j) : Comes(c, j.todo, f)
  BY DEF Making
<1>1. /\ s \in Seq(Writes) /\ k.todo = Tail(s) /\ k.seq = j.seq /\ k.domains = j.domains
      /\ k.config = j.config /\ k.op = j.op
  BY DEF Jobs
<1>2. Finals(k) = Finals(j) /\ FinalPlaces(k) = FinalPlaces(j)
  BY <1>1 DEF Finals, FinalPlaces, Actives, RecordOf
<1>3. /\ Head(s) = s[1] /\ s[1] \in Writes /\ 1 \in 1..Len(s)
      /\ \A i \in 1..Len(Tail(s)) : Tail(s)[i] = s[i + 1] /\ i + 1 \in 1..Len(s)
  BY <1>1
<1>4. Within(k.todo, FinalPlaces(k) \cup L)
  <2> DEFINE Q == FinalPlaces(j) \cup L
  <2>1. \A i \in 1..Len(s) : s[i].place \in Q
    BY <1>0 DEF Within
  <2> HIDE DEF Q, s
  <2>2. \A i \in 1..Len(Tail(s)) : Tail(s)[i].place \in Q
    BY <1>3, <2>1
  <2> QED BY <1>1, <1>2, <2>2 DEF Within, Q
<1>5. \A f \in Finals(k) : Comes(c2, k.todo, f)
  <2> SUFFICES ASSUME NEW f \in Finals(j) PROVE Comes(c2, Tail(s), f)
    BY <1>1, <1>2
  <2>1. f \in Writes
    BY FinalsAre
  <2>2. s # <<>> /\ Comes(c, s, f) /\ c2 = [c EXCEPT ![Head(s).place] = Head(s).content]
    BY <1>0
  <2> HIDE DEF s
  <2>3. s \in Seq(Writes)
    BY <1>1
  <2>4. Comes([c EXCEPT ![Head(s).place] = Head(s).content], Tail(s), f)
    BY <2>1, <2>2, <2>3, OneWriteOn
  <2> QED BY <2>2, <2>4, Zenon
<1>6. s[1].place \in FinalPlaces(j) \cup L
  BY <1>0, <1>3 DEF Within
<1>7. \A p \in Cells : p # s[1].place => c2[p] = c[p]
  BY <1>3
<1>8. \A p \in Cells \ FinalPlaces(k) : Counts(c2, p) => c2[p].seq < k.seq
  <2> SUFFICES ASSUME NEW p \in Cells \ FinalPlaces(k), Counts(c2, p) PROVE c2[p].seq < k.seq
    OBVIOUS
  <2>1. p \notin L
    BY Names DEF Counts
  <2>2. c2[p] = c[p]
    BY <1>2, <1>6, <1>7, <2>1
  <2> QED BY <1>0, <1>1, <1>2, <2>2 DEF OldOnes, Counts
<1>9. \A d \in Used \ k.domains : \E t \in Slots(d) : Top(c2, d, t, v[d])
  <2> SUFFICES ASSUME NEW d \in Used \ k.domains PROVE \E t \in Slots(d) : Top(c2, d, t, v[d])
    OBVIOUS
  <2>1. \A t \in Slots(d) : c2[<<d, t>>] = c[<<d, t>>]
    <3> SUFFICES ASSUME NEW t \in Slots(d) PROVE c2[<<d, t>>] = c[<<d, t>>]
      OBVIOUS
    <3>1. <<d, t>> \in Cells
      BY CellNames DEF Places
    <3>2. <<d, t>> \notin FinalPlaces(j)
      BY <1>1, FinalsAre
    <3>3. <<d, t>> \notin L
      BY Names
    <3> QED BY <1>6, <1>7, <3>1, <3>2, <3>3
  <2>2. PICK t \in Slots(d) : Top(c, d, t, v[d])
    BY <1>0, <1>1 DEF OldOnes
  <2> QED BY <2>1, <2>2 DEF Top
<1> QED BY <1>4, <1>5, <1>8, <1>9 DEF Making, OldOnes

\* After the last write, the EEPROM holds the settings of the save.
LEMMA SaveEnds ==
    ASSUME NEW j \in Jobs, j.todo = <<>>, j.seq # 0, NEW c \in [Cells -> Contents],
           NEW v \in Configs, NEW x, Making(c, j, v),
           x = [d \in Used |-> IF d \in j.domains THEN j.config[d] ELSE v[d]]
    PROVE  Holds(c, x, j.seq)
<1>0. j.seq \in Nat /\ j.domains \subseteq Used /\ OldOnes(c, j, v)
  BY DEF Jobs, Making
<1>1. \A f \in Finals(j) : c[f.place] = f.content
  BY DEF Making, Comes, Ends
<1>2. \E s \in {"A", "B"} : /\ c[<<"LayoutMarker", s>>].kind = "active"
                            /\ c[<<"LayoutMarker", s>>].seq = j.seq
  <2>1. CASE j.op = "migrate"
    <3>1. Mark("active", "A", j.seq) \in Finals(j)
      BY <2>1 DEF Finals, Actives
    <3> QED BY <1>1, <3>1 DEF Mark, Write, Content
  <2>2. CASE j.op # "migrate"
    <3>1. MarkOf("active", j.seq) \in Finals(j)
      BY <2>2 DEF Finals, Actives
    <3>2. c[CellOf("LayoutMarker", j.seq)] = Content("active", j.seq, 0)
      BY <1>1, <3>1 DEF MarkOf, Write
    <3>3. PICK s \in {"A", "B"} : CellOf("LayoutMarker", j.seq) = <<"LayoutMarker", s>>
      BY CellOfIs, SlotNames DEF Places
    <3> QED BY <3>2, <3>3 DEF Content
  <2> QED BY <2>1, <2>2
<1>3. \A p \in Cells : Counts(c, p) => c[p].seq <= j.seq
  <2> SUFFICES ASSUME NEW p \in Cells, Counts(c, p) PROVE c[p].seq <= j.seq
    OBVIOUS
  <2>1. CASE p \in FinalPlaces(j)
    <3>1. PICK f \in Finals(j) : f.place = p
      BY <2>1 DEF FinalPlaces
    <3> QED BY <1>0, <1>1, <3>1, FinalsAre
  <2>2. CASE p \notin FinalPlaces(j)
    <3>1. c[p].seq < j.seq /\ c[p].seq \in Nat
      BY <1>0, <2>2 DEF OldOnes, Contents
    <3> QED BY <1>0, <3>1
  <2> QED BY <2>1, <2>2
<1>4. ASSUME NEW d \in j.domains PROVE \E s \in Slots(d) : Top(c, d, s, x[d])
  <2> DEFINE s == CellOf(d, j.seq)[2]
  <2>1. d \in Used /\ CellOf(d, j.seq) = <<d, s>> /\ s \in Slots(d)
    BY <1>0, CellOfIs DEF Places
  <2>2. c[<<d, s>>] = Content("record", j.seq, j.config[d])
    <3>1. RecordOf(j, d) \in Finals(j)
      BY DEF Finals
    <3> QED BY <1>1, <2>1, <3>1 DEF RecordOf, Write
  <2>3. c[<<d, s>>].kind = "record" /\ c[<<d, s>>].val = x[d] /\ c[<<d, s>>].seq = j.seq
    BY <2>1, <2>2 DEF Content
  <2> HIDE DEF s
  <2>4. \A t \in Slots(d) \ {s} : c[<<d, t>>].kind = "record" => c[<<d, t>>].seq < j.seq
    <3> SUFFICES ASSUME NEW t \in Slots(d) \ {s}, c[<<d, t>>].kind = "record"
                 PROVE  c[<<d, t>>].seq < j.seq
      OBVIOUS
    <3>1. <<d, t>> \in Cells
      BY <2>1, CellNames DEF Places
    <3>2. <<d, t>> \notin FinalPlaces(j)
      <4>1. <<d, t>> # <<d, s>>
        OBVIOUS
      <4> QED BY <2>1, <4>1, FinalsAre
    <3>3. Counts(c, <<d, t>>)
      BY <2>1 DEF Counts
    <3> QED BY <1>0, <3>1, <3>2, <3>3 DEF OldOnes
  <2> QED BY <2>1, <2>3, <2>4 DEF Top
<1>5. ASSUME NEW d \in Used \ j.domains PROVE \E s \in Slots(d) : Top(c, d, s, x[d])
  <2>1. x[d] = v[d]
    OBVIOUS
  <2> QED BY <1>0, <2>1 DEF OldOnes
<1> QED BY <1>0, <1>2, <1>3, <1>4, <1>5 DEF Holds

-----------------------------------------------------------------------------
(* Every step keeps the EEPROM clean, or is the failure or the cut that ends it. *)

CleanInv == TypeOK /\ Clean

LEMMA CommitFields ==
    ASSUME NEW op, NEW n, NEW D, NEW c
    PROVE  /\ Commit(op, n, D, c).op = op /\ Commit(op, n, D, c).seq = n
           /\ Commit(op, n, D, c).domains = D /\ Commit(op, n, D, c).config = c
           /\ op # "none" => Commit(op, n, D, c) # NoJob
BY JobFields DEF Commit, Job

LEMMA MigrateFields ==
    ASSUME NEW n, NEW c
    PROVE  /\ Migrate("migrate", n, c).op = "migrate" /\ Migrate("migrate", n, c).seq = n
           /\ Migrate("migrate", n, c).domains = Used /\ Migrate("migrate", n, c).config = c
           /\ Migrate("migrate", n, c) # NoJob
BY JobFields DEF Migrate, Job

LEMMA ProgressPartsNext ==
    Progress' <=> /\ mode' # "off" /\ job'.seq \in Nat \ {0} /\ job'.config = cfg'
                  /\ job'.op \in {"init", "migrate", "deferred", "immediate"}
                  /\ job'.op \in {"init", "migrate"} => job'.domains = Used
                  /\ job'.op # "migrate" => ~Locked' /\ ~attention'
                  /\ Making(cell', job', saved')
BY DEF Progress, Making, Within, Finals, FinalPlaces, Actives, RecordOf, Comes, Ends, Avoids,
       OldOnes, Counts, Top

LEMMA BootIsClean ==
    ASSUME CleanInv, Boot, ~past.interrupted
    PROVE  Clean'
<1>1. cell \in [Cells -> Contents] /\ job \in Jobs /\ job' \in Jobs
  BY TypeParts, TypePartsNext, BootType DEF CleanInv
<1>2. job = NoJob /\ CleanOff
  BY JobFields DEF CleanInv, Clean, Boot, CleanOn, Progress
<1> DEFINE legacy == Incompatible(cell) /\ LegacyRecords(cell) # {}
           blank  == ~Required(cell) /\ ~Incompatible(cell) /\ ~Selected(cell)
           source == IF legacy THEN [d \in Used |-> LegacyRecord(cell).val] ELSE Restored(cell)
           number == IF legacy THEN LegacyRecord(cell).seq
                     ELSE IF Selected(cell) THEN ReadGeneration(cell) ELSE 0
<1>3. /\ cfg' = source /\ saved' = source /\ seq' = number
      /\ lock' = [required |-> Required(cell), uiIncompatible |-> Incompatible(cell),
                  incompatible |-> Incompatible(cell), recovery |-> Recoverable(cell)]
      /\ attention' = (Incompatible(cell) \/ Required(cell))
      /\ job' = IF blank THEN Commit("init", 1, Used, Default)
                ELSE IF Recoverable(cell) THEN Recover("recover", number, source)
                ELSE IF legacy THEN Migrate("migrate", number + 1, source)
                ELSE NoJob
      /\ mode' = IF job' = NoJob THEN "on" ELSE "boot"
      /\ cell' = cell
  BY DEF Boot
<1>4. CASE Unwritten(cell)
  <2>1. /\ ~Recoverable(cell) /\ ~Selected(cell) /\ \A p \in Cells : ~Counts(cell, p)
        /\ \/ ~Required(cell) /\ ~Incompatible(cell)
           \/ Incompatible(cell) /\ LegacyRecords(cell) # {}
    BY <1>1, <1>4, UnwrittenReads
  <2>2. CASE ~Required(cell) /\ ~Incompatible(cell)
    <3>1. /\ job' = Commit("init", 1, Used, Default) /\ cfg' = Default
          /\ ~Locked' /\ ~attention'
      BY <1>3, <2>1, <2>2 DEF Restored, Locked
    <3>2. /\ job'.op = "init" /\ job'.seq = 1 /\ job'.domains = Used /\ job'.config = Default
          /\ job' # NoJob /\ mode' = "boot"
      BY <1>3, <3>1, CommitFields
    <3>3. Arranged(job')
      BY <3>1, CommitArranged, DefaultType
    <3>4. Making(cell', job', saved')
      BY <1>1, <1>3, <2>1, <3>2, <3>3, SaveStarts
    <3>5. Progress'
      BY <3>1, <3>2, <3>4, ProgressPartsNext
    <3> QED BY <3>2, <3>5 DEF Clean
  <2>3. CASE Incompatible(cell) /\ LegacyRecords(cell) # {}
    <3>1. /\ job' = Migrate("migrate", number + 1, source) /\ cfg' = source
          /\ number \in Nat /\ source \in Configs
      BY <1>1, <1>3, <2>1, <2>3, LegacyType
    <3> HIDE DEF number, source
    <3>2. /\ job'.op = "migrate" /\ job'.seq = number + 1 /\ job'.domains = Used
          /\ job'.config = source /\ job' # NoJob
      BY <3>1, MigrateFields
    <3>3. mode' = "boot"
      BY <1>3, <3>2
    <3>4. Arranged(job')
      BY <3>1, MigrateArranged
    <3>5. Making(cell', job', saved')
      BY <1>1, <1>3, <2>1, <3>2, <3>4, SaveStarts
    <3>6. Progress'
      BY <3>1, <3>2, <3>3, <3>5, ProgressPartsNext
    <3> QED BY <3>2, <3>6 DEF Clean
  <2> QED BY <2>1, <2>2, <2>3
<1>5. ASSUME NEW v \in Configs, NEW n \in Nat, Holds(cell, v, n) PROVE Clean'
  <2>1. /\ ReadGeneration(cell) = n /\ Selected(cell) /\ Restored(cell) = v
        /\ ~Required(cell) /\ ~Incompatible(cell) /\ ~Recoverable(cell)
    BY <1>1, <1>5, HoldsReads
  <2>2. job' = NoJob /\ mode' = "on" /\ saved' = v /\ seq' = n /\ ~Locked' /\ ~attention'
    BY <1>3, <2>1 DEF Locked
  <2>3. Holds(cell', saved', seq')
    BY <1>3, <1>5, <2>2
  <2>4. CleanOn'
    BY <2>2, <2>3 DEF CleanOn, Holds, Counts, Top
  <2> QED BY <2>2, <2>4 DEF Clean
<1> QED BY <1>2, <1>4, <1>5 DEF CleanOff

\* A deferred or an immediate save begins on the EEPROM that the last one left.
LEMMA SaveIsClean ==
    ASSUME CleanInv, Idle, ~past.interrupted,
           NEW op \in {"deferred", "immediate"}, NEW D \in SUBSET Used,
           cfg' \in Configs, job' = Commit(op, seq + 1, D, cfg'),
           UNCHANGED <<cell, mode, saved, seq, lock, attention, past>>
    PROVE  Clean'
<1>1. cell \in [Cells -> Contents] /\ seq \in Nat /\ saved \in Configs
  BY TypeParts DEF CleanInv
<1>2. CleanOn
  BY DEF CleanInv, Clean, Idle
<1>3. /\ job'.op = op /\ job'.seq = seq + 1 /\ job'.domains = D /\ job'.config = cfg'
      /\ job' # NoJob
  BY CommitFields
<1>4. job' \in Jobs
  BY <1>1, JobsType DEF Ops
<1>5. Arranged(job')
  BY <1>1, CommitArranged
<1>6. \A p \in Cells : Counts(cell, p) => cell[p].seq < job'.seq
  <2>1. \A p \in Cells : Counts(cell, p) => cell[p].seq <= seq /\ cell[p].seq \in Nat
    BY <1>1, <1>2 DEF CleanOn, Holds, Contents
  <2> QED BY <1>1, <1>3, <2>1
<1>7. \A d \in Used : \E s \in Slots(d) : Top(cell, d, s, saved[d])
  BY <1>2 DEF CleanOn, Holds
<1>8. Making(cell, job', saved)
  BY <1>1, <1>4, <1>5, <1>6, <1>7, SaveStarts
<1>9. ~Locked' /\ ~attention' /\ mode' # "off"
  BY <1>2 DEF CleanOn, Locked
<1>10. Progress'
  BY <1>1, <1>3, <1>8, <1>9, ProgressPartsNext
<1> QED BY <1>3, <1>10 DEF Clean

LEMMA WriteIsClean ==
    ASSUME CleanInv, WriteRecord, ~past.interrupted
    PROVE  Clean'
<1>1. cell \in [Cells -> Contents] /\ job \in Jobs
  BY TypeParts DEF CleanInv
<1>2. job' \in Jobs
  BY TypePartsNext, WriteRecordType DEF CleanInv
<1>3. job.todo # <<>> /\ job # NoJob
  BY JobFields DEF WriteRecord, Writing
<1>4. Progress
  BY <1>3 DEF CleanInv, Clean
<1>5. /\ cell' = [cell EXCEPT ![Head(job.todo).place] = Head(job.todo).content]
      /\ job' = [job EXCEPT !.todo = Tail(@)]
      /\ UNCHANGED <<mode, cfg, saved, lock, attention>>
  BY DEF WriteRecord, Head1
<1>6. Making(cell', job', saved)
  <2>1. Making(cell, job, saved)
    BY <1>4 DEF Progress
  <2> QED BY <1>1, <1>2, <1>3, <1>5, <2>1, SaveGoesOn
<1>7. /\ job'.op = job.op /\ job'.seq = job.seq /\ job'.domains = job.domains
      /\ job'.config = job.config
  BY <1>1, <1>5 DEF Jobs
<1>8. Locked' = Locked
  BY <1>5 DEF Locked
<1>9. Progress'
  BY <1>4, <1>5, <1>6, <1>7, <1>8, ProgressPartsNext DEF Progress
<1>10. job' # NoJob
  BY <1>4, <1>7, JobFields DEF Progress
<1> QED BY <1>9, <1>10 DEF Clean

LEMMA FinishIsClean ==
    ASSUME CleanInv, Finish, ~past.interrupted
    PROVE  Clean'
<1>1. /\ cell \in [Cells -> Contents] /\ job \in Jobs /\ cfg \in Configs /\ saved \in Configs
      /\ lock \in Locks
  BY TypeParts DEF CleanInv
<1>2. job # NoJob /\ job.todo = <<>>
  BY JobFields DEF Finish, Writing
<1>3. Progress
  BY <1>2 DEF CleanInv, Clean
<1> DEFINE x == [d \in Used |-> IF d \in job.domains THEN job.config[d] ELSE saved[d]]
<1>4. Holds(cell, x, job.seq)
  <2>1. Making(cell, job, saved) /\ job.seq # 0
    BY <1>3 DEF Progress
  <2> QED BY <1>1, <1>2, <2>1, SaveEnds
<1>5. saved' = x
  <2>1. job.config = cfg
    BY <1>3 DEF Progress
  <2>2. CASE job.op \in {"init", "migrate"}
    <3>1. saved' = cfg /\ job.domains = Used
      BY <1>3, <2>2 DEF Finish, Progress
    <3>2. x = cfg
      BY <1>1, <2>1, <3>1 DEF Configs
    <3> QED BY <3>1, <3>2
  <2>3. CASE job.op \in {"deferred", "immediate"}
    BY <2>1, <2>3 DEF Finish, Copied
  <2> QED BY <1>3, <2>2, <2>3 DEF Progress
<1>6. ~Locked' /\ ~attention'
  <2>1. CASE job.op = "migrate"
    <3>1. /\ lock' = [lock EXCEPT !.required = FALSE, !.uiIncompatible = FALSE]
          /\ attention' = FALSE
      BY <2>1 DEF Finish
    <3> QED BY <1>1, <3>1 DEF Locks, Locked
  <2>2. CASE job.op \in {"init", "deferred", "immediate"}
    <3>1. lock' = lock /\ attention' = attention
      BY <2>2 DEF Finish
    <3> QED BY <1>3, <2>2, <3>1 DEF Locked, Progress
  <2> QED BY <1>3, <2>1, <2>2 DEF Progress
<1>7. job' = NoJob /\ mode' = "on" /\ seq' = job.seq /\ cell' = cell
  BY DEF Finish
<1> HIDE DEF x
<1>8. CleanOn'
  BY <1>4, <1>5, <1>6, <1>7 DEF CleanOn, Holds, Counts, Top
<1> QED BY <1>7, <1>8 DEF Clean

\* A step of the idle loop that saves nothing and locks nothing.
LEMMA IdleIsClean ==
    ASSUME CleanInv, Idle, ~past.interrupted,
           UNCHANGED <<cell, mode, saved, seq, lock, attention, job>>
    PROVE  Clean'
<1>1. CleanOn /\ job' = NoJob /\ mode' # "off"
  BY DEF CleanInv, Clean, Idle
<1>2. CleanOn'
  BY <1>1 DEF CleanOn, Locked, Holds, Counts, Top
<1> QED BY <1>1, <1>2 DEF Clean

LEMMA RestartIsClean ==
    ASSUME CleanInv, NEW left, Restart(left), ~past.interrupted, ~past'.interrupted
    PROVE  Clean'
<1>1. job.op = "none"
  <2>1. past \in Pasts
    BY TypeParts DEF CleanInv
  <2>2. past'.interrupted = (past.interrupted \/ job.op # "none")
    BY <2>1 DEF Restart, Pasts
  <2> QED BY <2>2
<1>2. job = NoJob
  BY <1>1 DEF CleanInv, Clean, Progress
<1>3. cell' = cell /\ job' = NoJob /\ mode' = "off"
  BY <1>2, JobFields DEF Restart, Writing
<1>4. CleanOn
  BY <1>2 DEF CleanInv, Clean, Restart
<1>5. saved \in Configs /\ seq \in Nat /\ Holds(cell', saved, seq)
  BY <1>3, <1>4, TypeParts DEF CleanInv, CleanOn
<1>6. CleanOff'
  BY <1>5 DEF CleanOff, Holds, Counts, Top
<1> QED BY <1>3, <1>6 DEF Clean

LEMMA CleanStep == CleanInv /\ [Next]_vars => CleanInv'
<1> SUFFICES ASSUME CleanInv, [Next]_vars, ~past'.interrupted PROVE Clean'
  BY TypeStep DEF CleanInv, Clean
<1>0. past \in Pasts /\ TypeOK
  BY TypeParts DEF CleanInv
<1>1. CASE UNCHANGED vars
  <2>1. Clean' = Clean
    BY <1>1 DEF vars, Clean, Progress, CleanOff, CleanOn, Holds, Counts, Top, Unwritten, Locked,
                Within, Finals, FinalPlaces, Actives, RecordOf, Comes, Ends, Avoids, OldOnes
  <2> QED BY <2>1 DEF CleanInv
<1>2. CASE Boot
  BY <1>2, BootIsClean DEF Boot
<1>3. CASE BootUnreadable
  BY <1>0, <1>3 DEF BootUnreadable, Pasts
<1>4. ASSUME NEW D \in SUBSET Used, NEW v \in 0..MaxValue, Edit(D, v) PROVE Clean'
  BY <1>4, IdleIsClean DEF Edit
<1>5. CASE DropDue
  BY <1>5, IdleIsClean DEF DropDue
<1>6. CASE ReadSnapshot
  <2>1. ~past.interrupted
    BY <1>0, <1>6 DEF ReadSnapshot, Pasts
  <2> QED BY <1>6, <2>1, IdleIsClean DEF ReadSnapshot
<1>7. CASE CommitDeferred
  <2>1. cfg \in Configs /\ Changed \in SUBSET Used
    BY <1>0, TypeParts DEF Changed
  <2> QED BY <1>7, <2>1, SaveIsClean DEF CommitDeferred
<1>8. ASSUME NEW D \in SUBSET Used, NEW v \in 0..MaxValue, SaveNow(D, v) PROVE Clean'
  <2>1. cfg' \in Configs
    BY <1>0, <1>8, TypeParts DEF SaveNow, Configs
  <2> QED BY <1>8, <2>1, SaveIsClean DEF SaveNow
<1>9. CASE Acknowledge \/ Retry
  <2>1. Idle /\ attention /\ ~past.interrupted
    BY <1>9 DEF Acknowledge, Retry
  <2> QED BY <2>1 DEF CleanInv, Clean, CleanOn, Idle
<1>10. CASE WriteRecord
  <2>1. ~past.interrupted
    BY <1>0, <1>10 DEF WriteRecord, Pasts
  <2> QED BY <1>10, <2>1, WriteIsClean
<1>11. CASE Finish
  <2>1. ~past.interrupted
    BY <1>0, <1>11 DEF Finish, Pasts
  <2> QED BY <1>11, <2>1, FinishIsClean
<1>12. ASSUME NEW left, WriteFails(left) PROVE Clean'
  BY <1>0, <1>12 DEF WriteFails, Pasts
<1>13. ASSUME NEW left, Restart(left) PROVE Clean'
  <2>1. ~past.interrupted
    BY <1>0, <1>13 DEF Restart, Pasts
  <2> QED BY <1>13, <2>1, RestartIsClean
<1> QED BY <1>1, <1>2, <1>3, <1>4, <1>5, <1>6, <1>7, <1>8, <1>9, <1>10, <1>11, <1>12, <1>13
       DEF Next, ImmediateDomains

\* While no write failed and no save was cut off, what the loop believes to be saved is exactly
\* what a restart would restore: for any set of domains, whatever mixture of them the saves
\* wrote, and however many saves alternated their slots (last_persisted_memory_config against
\* load_eeprom_memory_record).
THEOREM SavedIsWhatARestartRestores == Spec => []SavedIsStored
<1>1. Init => CleanInv
  <2> SUFFICES ASSUME Init PROVE Clean
    BY TypeInit DEF CleanInv
  <2>1. job = NoJob /\ mode = "off"
    BY DEF Init
  <2>2. Unwritten(cell)
    BY DEF Init, Unwritten, Blank, Content
  <2> QED BY <2>1, <2>2 DEF Clean, CleanOff
<1>2. CleanInv => SavedIsStored
  <2> SUFFICES ASSUME CleanInv, Idle, ~past.interrupted
               PROVE  Selected(cell) /\ Restored(cell) = saved
    BY DEF SavedIsStored
  <2>1. CleanOn
    BY DEF CleanInv, Clean, Idle
  <2>2. cell \in [Cells -> Contents] /\ saved \in Configs
    BY TypeParts DEF CleanInv
  <2> QED BY <2>1, <2>2, HoldsReads DEF CleanOn
<1> QED BY <1>1, <1>2, CleanStep, PTL DEF Spec

-----------------------------------------------------------------------------
(* Power losses in the life of an EEPROM that came with legacy records.  The   *)
(* newer one, sequence 2, is in slot B and is invalidated last, so every        *)
(* migration writes generation 3.                                            *)

LegA  == <<"Legacy", "A">>
LegB  == <<"Legacy", "B">>
MarkA == <<"LayoutMarker", "A">>
MarkB == <<"LayoutMarker", "B">>

NoLegacy(c) == c[LegA].kind # "fpm1" /\ c[LegB].kind # "fpm1"

\* A migration writes one slot of each domain; before it the others are erased.
Migratory == {CellOf(d, 3) : d \in Used}
OthersBlank(c) == \A d \in Used : \A s \in Slots(d) :
                    <<d, s>> \notin Migratory => c[<<d, s>>].kind = "blank"

\* No generation is in force and the newer legacy record is untouched.
Kept(c, L) ==
    /\ c[MarkA].kind # "active" /\ c[MarkB].kind # "active"
    /\ c[LegB].kind = "fpm1" /\ c[LegB].seq = 2 /\ c[LegB].val \in L
    /\ c[LegA].kind = "fpm1" => c[LegA].seq = 1
    /\ OthersBlank(c)

\* What a migration writes before it invalidates the legacy records.
StagedRecord(d, y) == Write(CellOf(d, 3), Content("record", 3, y))
Staging(y) ==
    {Mark("migrating", "A", 3), Mark("migrating", "B", 3)} \cup {StagedRecord(d, y) : d \in Used}
StageWrites == {w \in Writes : w.place \in Migratory \cup {MarkA, MarkB} /\ w.content.kind # "active"}

\* The legacy records are gone and the migrated ones are whole, not yet in force.
Moved(c, L) ==
    /\ NoLegacy(c) /\ OthersBlank(c)
    /\ c[MarkA].kind \in {"migrating", "torn"} /\ (c[MarkA].kind = "migrating" => c[MarkA].seq = 3)
    /\ c[MarkB].kind = "migrating" /\ c[MarkB].seq = 3
    /\ \E y \in L : \A d \in Used : c[CellOf(d, 3)] = Content("record", 3, y)

\* A generation is in force, and its number tells the slot of its marker.
Odd(n) == n % 2 = 1
InForce(c) ==
    /\ NoLegacy(c)
    /\ c[MarkA].kind = "active" \/ c[MarkB].kind = "active"
    /\ c[MarkA].kind = "active" => Odd(c[MarkA].seq)
    /\ c[MarkB].kind = "active" =>
         \/ ~Odd(c[MarkB].seq) /\ c[MarkB].seq # 0
         \/ c[MarkB].seq = 3 /\ c[MarkA].kind = "active" /\ c[MarkA].seq = 3

MarkedBy(c, n) == c[CellOf("LayoutMarker", n)].kind = "active" /\ c[CellOf("LayoutMarker", n)].seq = n

Survives(c, L) == Kept(c, L) \/ Moved(c, L) \/ InForce(c)

Invalidations == <<Write(LegA, Blank), Write(LegB, Blank), Mark("active", "A", 3), Mark("active", "B", 3)>>

\* A migration before its first invalidation.
Stages(s, c, y) ==
    \E u \in Seq(StageWrites) : s = u \o Invalidations /\ \A f \in Staging(y) : Comes(c, u, f)

\* A migration or a recovery that has the writes s to make on the EEPROM c.
Stage(c, s, L) ==
    \/ Kept(c, L) /\ \E y \in L : Stages(s, c, y)
    \/ /\ Kept(c, L) /\ c[LegA].kind # "fpm1"
       /\ s = <<Write(LegB, Blank), Mark("active", "A", 3), Mark("active", "B", 3)>>
       /\ \E y \in L : \A f \in Staging(y) : c[f.place] = f.content
    \/ Moved(c, L) /\ s = <<Mark("active", "A", 3), Mark("active", "B", 3)>>
    \/ InForce(c) /\ MarkedBy(c, 3) /\ s = <<Mark("active", "B", 3)>>
    \/ InForce(c) /\ MarkedBy(c, 3) /\ s = <<>>

Migrating ==
    /\ mode # "off" /\ job.op \in {"migrate", "recover"} /\ job.seq = 3
    /\ job.op = "recover" => ~lock.uiIncompatible /\ ~attention
    /\ Stage(cell, job.todo, past.legacy)

\* A save over generation n - 1 writes its markers to the other slot.
SpareWrites(n) ==
    {w \in Writes : /\ w.place[1] # "Legacy"
                    /\ w.place[1] = "LayoutMarker" =>
                         w.place = CellOf("LayoutMarker", n) /\ w.content.seq = n}

Saving ==
    /\ mode = "on" /\ job.op \in {"deferred", "immediate"} /\ ~Locked /\ ~attention
    /\ job.seq = seq + 1 /\ job.todo \in Seq(SpareWrites(seq + 1))
    /\ InForce(cell) /\ MarkedBy(cell, seq)
    /\ Comes(cell, job.todo, MarkOf("active", job.seq))

Running ==
    /\ mode = "on" /\ job = NoJob /\ InForce(cell)
    /\ \/ Locked /\ lock.incompatible /\ ~lock.recovery
       \/ ~Locked /\ ~attention /\ MarkedBy(cell, seq)

Resting == mode = "off" /\ job = NoJob /\ Survives(cell, past.legacy)

Alive == Resting \/ Migrating \/ Saving \/ Running

Migrated == past.legacy # {} /\ spent.faults = 0 => Alive

LEMMA MarkCells ==
    /\ MarkA \in Cells /\ MarkB \in Cells /\ LegA \in Cells /\ LegB \in Cells
    /\ \A n : CellOf("LayoutMarker", n) = IF Odd(n) THEN MarkA ELSE MarkB
    /\ MarkA # MarkB /\ LegA # LegB /\ MarkA # LegA /\ MarkA # LegB /\ MarkB # LegA /\ MarkB # LegB
<1>1. \A n : CellOf("LayoutMarker", n) = IF Odd(n) THEN MarkA ELSE MarkB
  <2>1. Slots("LayoutMarker") # {"Single"}
    BY SlotNames
  <2> QED BY <2>1 DEF CellOf, Odd, MarkA, MarkB
<1> QED BY <1>1, CellNames DEF MarkA, MarkB, LegA, LegB

LEMMA MigratoryCells ==
    /\ Migratory \subseteq Cells
    /\ \A p \in Migratory : p[1] \in Used
    /\ MarkA \notin Migratory /\ MarkB \notin Migratory /\ LegA \notin Migratory /\ LegB \notin Migratory
<1>1. \A d \in Used : CellOf(d, 3) \in Cells /\ CellOf(d, 3)[1] = d
  BY CellOfType DEF Places
<1>2. Migratory \subseteq Cells /\ \A p \in Migratory : p[1] \in Used
  BY <1>1 DEF Migratory
<1> QED BY <1>2, Names DEF MarkA, MarkB, LegA, LegB

-----------------------------------------------------------------------------
(* What a boot reads in each of the three states.                            *)

LEMMA KeptReads ==
    ASSUME NEW c \in [Cells -> Contents], NEW L, Kept(c, L)
    PROVE  /\ Generation(c) = 0 /\ Incompatible(c) /\ ~Recoverable(c)
           /\ LegacyRecords(c) # {} /\ LegacyRecord(c) = c[LegB]
<1>1. Markers(c, {"active"}) = {}
  BY DEF Markers, Kept, MarkA, MarkB
<1>2. Generation(c) = 0
  BY <1>1 DEF Generation, Newest
<1>3. c[LegB] \in LegacyRecords(c)
  BY DEF LegacyRecords, Kept, LegB
<1>4. LegacyPresent(c)
  BY <1>2 DEF LegacyPresent, Kept, LegB
<1>5. LegacyRecord(c) = c[LegB]
  <2> DEFINE R == LegacyRecords(c)
             a == c[LegA]
             b == c[LegB]
  <2>1. \A r \in R : r = b \/ (r = a /\ a.seq = 1)
    BY DEF LegacyRecords, Kept, LegA, LegB
  <2>2. b \in R /\ b.seq = 2
    BY <1>3 DEF Kept
  <2> HIDE DEF R, a, b
  <2>3. 2 \in SeqsOf(R) /\ SeqsOf(R) \in SUBSET {1, 2}
    BY <2>1, <2>2 DEF SeqsOf
  <2>4. Newest(SeqsOf(R)) \in SeqsOf(R) /\ \A m \in SeqsOf(R) : m <= Newest(SeqsOf(R))
    BY <2>3, NewestOfTwo
  <2>5. Newest(SeqsOf(R)) = 2
    BY <2>3, <2>4
  <2>6. \A r \in R : r.seq = 2 => r = b
    BY <2>1
  <2>7. \E r \in R : r.seq = Newest(SeqsOf(R))
    BY <2>2, <2>5
  <2>8. LegacyRecord(c) \in R /\ LegacyRecord(c).seq = 2
    BY <2>5, <2>7 DEF LegacyRecord, R
  <2> QED BY <2>6, <2>8 DEF b
<1> QED BY <1>2, <1>3, <1>4, <1>5 DEF Incompatible, Recoverable

LEMMA MovedReads ==
    ASSUME NEW c \in [Cells -> Contents], NEW L, Moved(c, L)
    PROVE  /\ Generation(c) = 0 /\ ReadGeneration(c) = 3
           /\ Selected(c) /\ Recoverable(c) /\ ~Incompatible(c) /\ ~Required(c)
           /\ \E y \in L : Restored(c) = [d \in Used |-> y]
<1>1. Markers(c, {"active"}) = {}
  BY DEF Markers, Moved, MarkA, MarkB
<1>2. Generation(c) = 0
  BY <1>1 DEF Generation, Newest
<1>3. MigrationGeneration(c) = 3
  <2> DEFINE M == Markers(c, {"prepared", "migrating"})
  <2>1. 3 \in M /\ 3 \in Markers(c, {"migrating"})
    BY DEF Markers, Moved, MarkB
  <2>2. M \in SUBSET {3, 3}
    BY DEF Markers, Moved, MarkA, MarkB
  <2> HIDE DEF M
  <2>3. Newest(M) = 3
    BY <2>1, <2>2, NewestOfTwo
  <2> QED BY <2>1, <2>3 DEF MigrationGeneration, M
<1>4. ReadGeneration(c) = 3
  BY <1>2, <1>3 DEF ReadGeneration
<1>5. ~LegacyPresent(c)
  BY DEF LegacyPresent, Moved, NoLegacy, LegA, LegB
<1>6. PICK y \in L : \A d \in Used : c[CellOf(d, 3)] = Content("record", 3, y)
  BY DEF Moved
<1>7. ASSUME NEW d \in Used
      PROVE  /\ Readable(c, d, 3) # {} /\ Chosen(c, d, 3).seq = 3 /\ Chosen(c, d, 3).val = y
  <2> DEFINE s == CellOf(d, 3)[2]
  <2>1. s \in Slots(d) /\ CellOf(d, 3) = <<d, s>>
    BY CellOfIs DEF Places
  <2> HIDE DEF s
  <2>2. c[<<d, s>>] = Content("record", 3, y)
    BY <1>6, <2>1
  <2>3. c[<<d, s>>].kind = "record" /\ c[<<d, s>>].seq = 3 /\ c[<<d, s>>].val = y
    BY <2>2 DEF Content
  <2>4. c[<<d, s>>] \in Readable(c, d, 3)
    BY <2>1, <2>3 DEF Readable
  <2>5. \A t \in Slots(d) : c[<<d, t>>].kind = "record" => t = s
    <3> SUFFICES ASSUME NEW t \in Slots(d), t # s PROVE c[<<d, t>>].kind # "record"
      OBVIOUS
    <3>1. <<d, t>> \notin Migratory
      <4> SUFFICES ASSUME NEW e \in Used, <<d, t>> = CellOf(e, 3) PROVE FALSE
        BY DEF Migratory
      <4>1. e = d
        BY CellOfIs DEF Places
      <4> QED BY <2>1, <4>1
    <3> QED BY <3>1 DEF Moved, OthersBlank
  <2>6. Chosen(c, d, 3) \in Readable(c, d, 3)
    BY <2>4, ChosenIsReadable
  <2>7. Chosen(c, d, 3) = c[<<d, s>>]
    BY <2>5, <2>6 DEF Readable
  <2> QED BY <2>3, <2>4, <2>7
<1>8. CompleteExactly(c, 3) /\ ValuesAt(c, 3) = [d \in Used |-> y]
  BY <1>7 DEF CompleteExactly, Complete, ValuesAt
<1>9. Recoverable(c) /\ Selected(c)
  BY <1>2, <1>3, <1>5, <1>8 DEF Recoverable, Selected
<1>10. Restored(c) = [d \in Used |-> y]
  BY <1>4, <1>8, <1>9 DEF Restored
<1>11. ~Incompatible(c)
  BY <1>5, <1>9 DEF Incompatible
<1>12. ~Required(c)
  <2>1. \A d \in DoubleSlot : Present(c, d)
    <3>1. Complete(c, 3) /\ DoubleSlot \subseteq Used
      BY <1>8 DEF CompleteExactly, DoubleSlot
    <3> SUFFICES ASSUME NEW d \in DoubleSlot PROVE Present(c, d)
      OBVIOUS
    <3>2. Readable(c, d, ReadGeneration(c)) # {}
      BY <1>4, <3>1 DEF Complete
    <3>3. ReadGeneration(c) # 0
      BY <1>4
    <3> QED BY <3>2, <3>3 DEF Present
  <2> QED BY <1>9, <1>11, <2>1 DEF Required
<1> QED BY <1>2, <1>4, <1>9, <1>10, <1>11, <1>12

LEMMA InForceReads ==
    ASSUME NEW c \in [Cells -> Contents], InForce(c)
    PROVE  /\ Generation(c) # 0 /\ ReadGeneration(c) = Generation(c) /\ MarkedBy(c, Generation(c))
           /\ LegacyRecords(c) = {} /\ ~Recoverable(c)
           /\ Selected(c) => ~Incompatible(c) /\ ~Required(c)
           /\ ~Selected(c) => Incompatible(c)
<1> DEFINE M == Markers(c, {"active"})
           a == c[MarkA].seq
           b == c[MarkB].seq
<1>1. M \in SUBSET {a, b} /\ a \in Nat /\ b \in Nat /\ M # {}
  <2>1. M # {}
    BY DEF Markers, InForce, MarkA, MarkB
  <2> QED BY <2>1, MarkersOf DEF MarkA, MarkB
<1>2. \A m \in M : (c[MarkA].kind = "active" /\ m = a) \/ (c[MarkB].kind = "active" /\ m = b)
  BY DEF Markers, MarkA, MarkB
<1> HIDE DEF M, a, b
<1>3. Generation(c) \in M
  <2>1. Newest(M) \in M
    BY <1>1, NewestOfTwo
  <2> QED BY <2>1 DEF Generation, M
<1>4. \A m \in M : m # 0 /\ MarkedBy(c, m)
  <2> SUFFICES ASSUME NEW m \in M PROVE m # 0 /\ MarkedBy(c, m)
    OBVIOUS
  <2>1. ~Odd(0) /\ Odd(3)
    BY DEF Odd
  <2>2. CASE c[MarkA].kind = "active" /\ m = a
    <3>1. Odd(m)
      BY <2>2 DEF InForce, a
    <3> QED BY <2>1, <2>2, <3>1, MarkCells DEF MarkedBy, a
  <2>3. CASE c[MarkB].kind = "active" /\ m = b /\ ~Odd(m) /\ m # 0
    BY <2>3, MarkCells DEF MarkedBy, b
  <2>4. CASE m = 3 /\ c[MarkA].kind = "active" /\ c[MarkA].seq = 3
    BY <2>1, <2>4, MarkCells DEF MarkedBy
  <2> QED BY <1>2, <2>2, <2>3, <2>4 DEF InForce, b
<1>5. Generation(c) # 0 /\ ReadGeneration(c) = Generation(c)
  BY <1>3, <1>4 DEF ReadGeneration
<1>6. LegacyRecords(c) = {} /\ ~LegacyPresent(c) /\ ~Recoverable(c)
  BY <1>5 DEF LegacyRecords, LegacyPresent, Recoverable, InForce, NoLegacy, LegA, LegB
<1>7. ContainsData(c)
  <2>1. MarkA \in Probed(c) /\ MarkB \in Probed(c)
    BY MarkCells DEF Probed, MarkA, MarkB
  <2> QED BY <2>1 DEF ContainsData, InForce
<1>8. ASSUME Selected(c) PROVE ~Incompatible(c) /\ ~Required(c)
  <2>1. Complete(c, Generation(c)) /\ ~Incompatible(c)
    BY <1>5, <1>6, <1>8 DEF Selected, Incompatible
  <2>2. \A d \in DoubleSlot : Present(c, d)
    BY <1>5, <2>1 DEF Present, DoubleSlot, Complete
  <2> QED BY <1>5, <2>1, <2>2 DEF Required
<1>9. ~Selected(c) => Incompatible(c)
  BY <1>7 DEF Incompatible
<1> QED BY <1>3, <1>4, <1>5, <1>6, <1>8, <1>9

-----------------------------------------------------------------------------
(* One write, whole or torn.                                                 *)

LEMMA StageKeeps ==
    ASSUME NEW c \in [Cells -> Contents], NEW L, Kept(c, L), NEW p \in Migratory \cup {MarkA, MarkB},
           NEW x, x.kind # "active", NEW e, e = [c EXCEPT ![p] = x]
    PROVE  Kept(e, L)
<1>1. \A q \in Cells : e[q] = IF q = p THEN x ELSE c[q]
  BY MigratoryCells, MarkCells
<1>2. p # LegA /\ p # LegB
  BY MigratoryCells, MarkCells
<1>3. e[LegA] = c[LegA] /\ e[LegB] = c[LegB] /\ e[MarkA].kind # "active" /\ e[MarkB].kind # "active"
  BY <1>1, <1>2, MarkCells DEF Kept
<1>4. OthersBlank(e)
  <2> SUFFICES ASSUME NEW d \in Used, NEW s \in Slots(d), <<d, s>> \notin Migratory
               PROVE  e[<<d, s>>].kind = "blank"
    BY DEF OthersBlank
  <2>1. <<d, s>> \in Cells /\ <<d, s>> # p
    BY CellNames, Names DEF Places, MarkA, MarkB
  <2> QED BY <1>1, <2>1 DEF Kept, OthersBlank
<1> QED BY <1>3, <1>4 DEF Kept

LEMMA LegacyCellsApart ==
    ASSUME NEW c \in [Cells -> Contents], NEW p \in {LegA, LegB, MarkA, MarkB}, NEW x,
           NEW e, e = [c EXCEPT ![p] = x]
    PROVE  /\ e[p] = x
           /\ \A q \in {LegA, LegB, MarkA, MarkB} : q # p => e[q] = c[q]
           /\ \A d \in Used : e[CellOf(d, 3)] = c[CellOf(d, 3)]
           /\ OthersBlank(c) => OthersBlank(e)
<1>1. \A q \in Cells : e[q] = IF q = p THEN x ELSE c[q]
  BY MarkCells
<1>2. \A d \in Used : \A s \in Slots(d) : <<d, s>> \in Cells /\ <<d, s>> # p
  <2>1. p[1] \notin Used
    <3>1. p[1] \in {"Legacy", "LayoutMarker"}
      BY DEF MarkA, MarkB, LegA, LegB
    <3> QED BY <3>1, Names
  <2>2. \A d \in Used : \A s \in Slots(d) : <<d, s>> \in Cells
    BY CellNames DEF Places
  <2>3. \A d, s : <<d, s>> = p => p[1] = d
    OBVIOUS
  <2> QED BY <2>1, <2>2, <2>3
<1>3. \A d \in Used : CellOf(d, 3) \in Cells /\ CellOf(d, 3) # p
  BY MigratoryCells DEF Migratory
<1>4. OthersBlank(c) => OthersBlank(e)
  BY <1>1, <1>2 DEF OthersBlank
<1>5. e[p] = x /\ \A q \in {LegA, LegB, MarkA, MarkB} : q # p => e[q] = c[q]
  BY <1>1, MarkCells
<1>6. \A d \in Used : e[CellOf(d, 3)] = c[CellOf(d, 3)]
  BY <1>1, <1>3
<1> QED BY <1>4, <1>5, <1>6

LEMMA InvalidateA ==
    ASSUME NEW c \in [Cells -> Contents], NEW L, Kept(c, L), NEW x, x.kind # "fpm1",
           NEW e, e = [c EXCEPT ![LegA] = x]
    PROVE  Kept(e, L) /\ e[LegA].kind # "fpm1"
<1>1. OthersBlank(c)
  BY DEF Kept
<1>2. /\ e[LegA] = x /\ e[LegB] = c[LegB] /\ e[MarkA] = c[MarkA] /\ e[MarkB] = c[MarkB]
      /\ OthersBlank(e)
  BY <1>1, LegacyCellsApart, MarkCells
<1> QED BY <1>2 DEF Kept

LEMMA InvalidateB ==
    ASSUME NEW c \in [Cells -> Contents], NEW L, Kept(c, L), c[LegA].kind # "fpm1",
           NEW x, x.kind # "fpm1", NEW y \in L, \A f \in Staging(y) : c[f.place] = f.content,
           NEW e, e = [c EXCEPT ![LegB] = x]
    PROVE  Moved(e, L)
<1>1. c[MarkA] = Content("migrating", 3, 0) /\ c[MarkB] = Content("migrating", 3, 0)
  <2>1. Mark("migrating", "A", 3) \in Staging(y) /\ Mark("migrating", "B", 3) \in Staging(y)
    BY DEF Staging
  <2> QED BY <2>1 DEF Mark, Write, MarkA, MarkB
<1>2. \A d \in Used : c[CellOf(d, 3)] = Content("record", 3, y)
  <2>1. \A d \in Used : StagedRecord(d, y) \in Staging(y)
    BY DEF Staging
  <2>2. \A d \in Used : c[StagedRecord(d, y).place] = StagedRecord(d, y).content
    BY <2>1
  <2> QED BY <2>2 DEF StagedRecord, Write
<1>3. /\ e[LegB] = x /\ e[LegA] = c[LegA] /\ e[MarkA] = c[MarkA] /\ e[MarkB] = c[MarkB]
      /\ \A d \in Used : e[CellOf(d, 3)] = c[CellOf(d, 3)]
      /\ OthersBlank(e)
  <2>1. OthersBlank(c)
    BY DEF Kept
  <2>2. e[LegB] = x /\ e[LegA] = c[LegA] /\ e[MarkA] = c[MarkA] /\ e[MarkB] = c[MarkB]
    BY LegacyCellsApart, MarkCells
  <2>3. \A d \in Used : e[CellOf(d, 3)] = c[CellOf(d, 3)]
    BY LegacyCellsApart
  <2>4. OthersBlank(e)
    BY <2>1, LegacyCellsApart
  <2> QED BY <2>2, <2>3, <2>4
<1>4. \A k, n, v : Content(k, n, v).kind = k /\ Content(k, n, v).seq = n
  BY DEF Content
<1>5. e[MarkA].kind = "migrating" /\ e[MarkA].seq = 3 /\ e[MarkB].kind = "migrating" /\ e[MarkB].seq = 3
  BY <1>1, <1>3, <1>4
<1>6. \A d \in Used : e[CellOf(d, 3)] = Content("record", 3, y)
  BY <1>2, <1>3
<1>7. NoLegacy(e)
  BY <1>3 DEF NoLegacy
<1> QED BY <1>3, <1>5, <1>6, <1>7 DEF Moved

LEMMA TornA ==
    ASSUME NEW c \in [Cells -> Contents], NEW L, Moved(c, L), NEW e, e = [c EXCEPT ![MarkA] = Torn]
    PROVE  Moved(e, L)
<1>1. OthersBlank(c)
  BY DEF Moved
<1>2. /\ e[MarkA] = Torn /\ e[LegA] = c[LegA] /\ e[LegB] = c[LegB] /\ e[MarkB] = c[MarkB]
      /\ \A d \in Used : e[CellOf(d, 3)] = c[CellOf(d, 3)]
      /\ OthersBlank(e)
  <2>1. e[MarkA] = Torn /\ e[LegA] = c[LegA] /\ e[LegB] = c[LegB] /\ e[MarkB] = c[MarkB]
    BY LegacyCellsApart, MarkCells
  <2>2. \A d \in Used : e[CellOf(d, 3)] = c[CellOf(d, 3)]
    BY LegacyCellsApart
  <2>3. OthersBlank(e)
    BY <1>1, LegacyCellsApart
  <2> QED BY <2>1, <2>2, <2>3
<1>3. e[MarkA].kind = "torn"
  BY <1>2 DEF Torn, Content
<1> QED BY <1>2, <1>3 DEF Moved, NoLegacy

LEMMA ActivateA ==
    ASSUME NEW c \in [Cells -> Contents], NEW L, Moved(c, L),
           NEW e, e = [c EXCEPT ![MarkA] = Content("active", 3, 0)]
    PROVE  InForce(e) /\ MarkedBy(e, 3)
<1>1. /\ e[MarkA] = Content("active", 3, 0) /\ e[LegA] = c[LegA] /\ e[LegB] = c[LegB]
      /\ e[MarkB] = c[MarkB]
  BY LegacyCellsApart, MarkCells
<1>2. e[MarkA].kind = "active" /\ e[MarkA].seq = 3 /\ Odd(3)
  BY <1>1 DEF Content, Odd
<1>3. e[MarkB].kind = "migrating"
  BY <1>1 DEF Moved
<1>4. MarkedBy(e, 3)
  BY <1>2, MarkCells DEF MarkedBy
<1>5. InForce(e)
  BY <1>1, <1>2, <1>3 DEF InForce, NoLegacy, Moved
<1> QED BY <1>4, <1>5

LEMMA ActivateB ==
    ASSUME NEW c \in [Cells -> Contents], InForce(c), MarkedBy(c, 3),
           NEW x \in {Torn, Content("active", 3, 0)}, NEW e, e = [c EXCEPT ![MarkB] = x]
    PROVE  InForce(e) /\ MarkedBy(e, 3)
<1>1. e[MarkB] = x /\ e[LegA] = c[LegA] /\ e[LegB] = c[LegB] /\ e[MarkA] = c[MarkA]
  BY LegacyCellsApart, MarkCells
<1>2. x.kind = "active" => x.seq = 3
  BY DEF Torn, Content
<1>3. Odd(3) /\ c[MarkA].kind = "active" /\ c[MarkA].seq = 3
  BY MarkCells DEF MarkedBy, Odd
<1>4. MarkedBy(e, 3)
  BY <1>1, <1>3, MarkCells DEF MarkedBy
<1>5. InForce(e)
  BY <1>1, <1>2, <1>3 DEF InForce, NoLegacy
<1> QED BY <1>4, <1>5

LEMMA SaveSpares ==
    ASSUME NEW c \in [Cells -> Contents], NEW n \in Nat, InForce(c), MarkedBy(c, n),
           NEW w \in SpareWrites(n + 1), NEW x \in {Torn, w.content},
           NEW e, e = [c EXCEPT ![w.place] = x]
    PROVE  InForce(e) /\ MarkedBy(e, n)
<1>1. w.place \in Cells /\ w.place # LegA /\ w.place # LegB
  BY DEF SpareWrites, Writes, LegA, LegB
<1>2. \A q \in Cells : e[q] = IF q = w.place THEN x ELSE c[q]
  BY <1>1
<1>3. (Odd(n + 1) /\ ~Odd(n)) \/ (Odd(n) /\ ~Odd(n + 1))
  BY DEF Odd
<1>4. NoLegacy(e)
  BY <1>1, <1>2, MarkCells DEF InForce, NoLegacy
<1>5. CASE w.place \notin {MarkA, MarkB}
  <2>1. e[MarkA] = c[MarkA] /\ e[MarkB] = c[MarkB]
    BY <1>2, <1>5, MarkCells
  <2>2. InForce(e)
    BY <1>4, <2>1 DEF InForce
  <2>3. MarkedBy(e, n)
    BY <2>1, MarkCells DEF MarkedBy
  <2> QED BY <2>2, <2>3
<1>6. CASE w.place \in {MarkA, MarkB}
  <2>1. w.place = CellOf("LayoutMarker", n + 1) /\ w.content.seq = n + 1
    BY <1>6 DEF SpareWrites, MarkA, MarkB
  <2>2. x.kind = "active" => x.seq = n + 1
    BY <2>1 DEF Torn, Content
  <2>3. CASE Odd(n)
    <3>1. w.place = MarkB /\ e[MarkB] = x /\ e[MarkA] = c[MarkA] /\ ~Odd(n + 1) /\ n + 1 # 0
      BY <1>2, <1>3, <2>1, <2>3, MarkCells
    <3>2. c[MarkA].kind = "active" /\ c[MarkA].seq = n
      BY <2>3, MarkCells DEF MarkedBy
    <3>3. MarkedBy(e, n)
      BY <2>3, <3>1, <3>2, MarkCells DEF MarkedBy
    <3>4. e[MarkB].kind = "active" => ~Odd(e[MarkB].seq) /\ e[MarkB].seq # 0
      BY <2>2, <3>1
    <3>5. e[MarkA].kind = "active" /\ Odd(e[MarkA].seq)
      BY <2>3, <3>1, <3>2
    <3> QED BY <1>4, <3>3, <3>4, <3>5 DEF InForce
  <2>4. CASE ~Odd(n)
    <3>1. w.place = MarkA /\ e[MarkA] = x /\ e[MarkB] = c[MarkB] /\ Odd(n + 1)
      BY <1>2, <1>3, <2>1, <2>4, MarkCells
    <3>2. c[MarkB].kind = "active" /\ c[MarkB].seq = n
      BY <2>4, MarkCells DEF MarkedBy
    <3>3. MarkedBy(e, n)
      BY <2>4, <3>1, <3>2, MarkCells DEF MarkedBy
    <3>4. ~Odd(c[MarkB].seq) /\ c[MarkB].seq # 0
      <4>1. Odd(3)
        BY DEF Odd
      <4> QED BY <2>4, <3>2, <4>1 DEF InForce
    <3>5. e[MarkA].kind = "active" => Odd(e[MarkA].seq)
      BY <2>2, <3>1
    <3> QED BY <1>4, <3>1, <3>2, <3>3, <3>4, <3>5 DEF InForce
  <2> QED BY <2>3, <2>4
<1> QED BY <1>5, <1>6

-----------------------------------------------------------------------------
(* A migration, write by write.                                              *)

LEMMA FirstOfConcat ==
    ASSUME NEW S, NEW s \in Seq(S), NEW t \in Seq(S), s # <<>>
    PROVE  Head(s \o t) = Head(s) /\ Tail(s \o t) = Tail(s) \o t /\ s \o t # <<>>
<1>1. /\ s \o t \in Seq(S) /\ Len(s \o t) = Len(s) + Len(t)
      /\ \A i \in 1..Len(s) + Len(t) : (s \o t)[i] = IF i <= Len(s) THEN s[i] ELSE t[i - Len(s)]
  BY ConcatProperties
<1>2. /\ Tail(s) \in Seq(S) /\ Len(Tail(s)) = Len(s) - 1
      /\ \A i \in 1..Len(Tail(s)) : Tail(s)[i] = s[i + 1]
  BY HeadTailProperties
<1>3. Len(s) \in Nat \ {0} /\ Len(t) \in Nat /\ s \o t # <<>>
  BY <1>1
<1>4. /\ Tail(s) \o t \in Seq(S) /\ Len(Tail(s) \o t) = Len(s) - 1 + Len(t)
      /\ \A i \in 1..Len(Tail(s)) + Len(t) :
           (Tail(s) \o t)[i] = IF i <= Len(Tail(s)) THEN Tail(s)[i] ELSE t[i - Len(Tail(s))]
  BY <1>2, ConcatProperties
<1>5. /\ Tail(s \o t) \in Seq(S) /\ Len(Tail(s \o t)) = Len(s) + Len(t) - 1
      /\ \A i \in 1..Len(Tail(s \o t)) : Tail(s \o t)[i] = (s \o t)[i + 1]
  BY <1>1, <1>3, HeadTailProperties
<1>6. \A i \in 1..Len(Tail(s \o t)) : Tail(s \o t)[i] = (Tail(s) \o t)[i]
  <2> SUFFICES ASSUME NEW i \in 1..Len(Tail(s \o t)) PROVE Tail(s \o t)[i] = (Tail(s) \o t)[i]
    OBVIOUS
  <2>1. i \in Nat /\ i + 1 \in 1..Len(s) + Len(t) /\ i \in 1..Len(Tail(s)) + Len(t)
    BY <1>2, <1>3, <1>5
  <2>2. CASE i + 1 <= Len(s)
    <3>1. i <= Len(Tail(s)) /\ i \in 1..Len(Tail(s))
      BY <1>2, <1>3, <2>1, <2>2
    <3> QED BY <1>1, <1>2, <1>4, <1>5, <2>1, <2>2, <3>1
  <2>3. CASE ~(i + 1 <= Len(s))
    <3>1. ~(i <= Len(Tail(s))) /\ i + 1 - Len(s) = i - Len(Tail(s))
      BY <1>2, <1>3, <2>1, <2>3
    <3> QED BY <1>1, <1>4, <1>5, <2>1, <2>3, <3>1
  <2> QED BY <2>2, <2>3
<1>7. Tail(s \o t) = Tail(s) \o t
  BY <1>3, <1>4, <1>5, <1>6, SeqEqual
<1>8. Head(s \o t) = Head(s)
  BY <1>1, <1>3
<1> QED BY <1>3, <1>7, <1>8

LEMMA TwoPairs ==
    ASSUME NEW S, NEW p \in S, NEW q \in S, NEW r \in S, NEW t \in S
    PROVE  <<p, q>> \o <<r, t>> = <<p, q, r, t>>
<1> DEFINE s == <<p, q>> \o <<r, t>>
           u == <<p, q, r, t>>
<1>1. <<p, q>> \in Seq(S) /\ <<r, t>> \in Seq(S) /\ u \in Seq(S) /\ Len(u) = 4
  OBVIOUS
<1>2. s \in Seq(S) /\ Len(s) = 4
  BY <1>1
<1>3. s[1] = p /\ s[2] = q /\ s[3] = r /\ s[4] = t
  BY <1>1
<1>4. \A i \in 1..4 : s[i] = u[i]
  <2>1. \A i \in 1..4 : i = 1 \/ i = 2 \/ i = 3 \/ i = 4
    OBVIOUS
  <2> QED BY <1>3, <2>1
<1> HIDE DEF s, u
<1>5. s = u
  BY <1>1, <1>2, <1>4, SeqEqual
<1> QED BY <1>5 DEF s, u

LEMMA StageSeqs == Seq(StageWrites) \subseteq Seq(Writes) /\ Invalidations \in Seq(Writes)
<1>1. StageWrites \subseteq Writes
  BY DEF StageWrites
<1>2. \A w \in Seq(StageWrites) : w \in Seq(Writes)
  BY <1>1, SeqMonotonic
<1>3. \A s \in {"A", "B"} : Write(<<"Legacy", s>>, Blank) \in Writes /\ Mark("active", s, 3) \in Writes
  BY CellNames, ContentType, MarkType DEF Write, Writes
<1>4. Invalidations \in Seq(Writes)
  BY <1>3 DEF Invalidations, LegA, LegB
<1> QED BY <1>2, <1>4

LEMMA StagingWrites ==
    ASSUME NEW y \in 0..MaxValue
    PROVE  Staging(y) \subseteq StageWrites
<1>1. \A s \in {"A", "B"} : Mark("migrating", s, 3) \in StageWrites
  <2>1. \A s \in {"A", "B"} : Mark("migrating", s, 3) \in Writes
    BY MarkType
  <2> QED BY <2>1 DEF StageWrites, Mark, Write, Content, MarkA, MarkB
<1>2. \A d \in Used : StagedRecord(d, y) \in StageWrites
  <2> SUFFICES ASSUME NEW d \in Used PROVE StagedRecord(d, y) \in StageWrites
    OBVIOUS
  <2>1. CellOf(d, 3) \in Cells /\ CellOf(d, 3) \in Migratory
    BY CellOfType DEF Migratory, Places
  <2>2. Content("record", 3, y) \in Contents /\ Content("record", 3, y).kind # "active"
    BY ContentType DEF Content
  <2> QED BY <2>1, <2>2 DEF StagedRecord, StageWrites, Write, Writes
<1> QED BY <1>1, <1>2 DEF Staging

LEMMA StagesOn ==
    ASSUME NEW c \in [Cells -> Contents], NEW s, NEW y \in 0..MaxValue, Stages(s, c, y),
           NEW e, e = [c EXCEPT ![Head(s).place] = Head(s).content]
    PROVE  \/ Head(s) \in StageWrites /\ Stages(Tail(s), e, y)
           \/ s = Invalidations /\ \A f \in Staging(y) : c[f.place] = f.content
<1>1. PICK u \in Seq(StageWrites) : s = u \o Invalidations /\ \A f \in Staging(y) : Comes(c, u, f)
  BY DEF Stages
<1>2. u \in Seq(Writes) /\ Invalidations \in Seq(Writes)
  BY StageSeqs
<1>3. CASE u = <<>>
  <2>1. s = Invalidations
    BY <1>1, <1>2, <1>3, ConcatEmptySeq
  <2>2. \A f \in Staging(y) : c[f.place] = f.content
    BY <1>1, <1>3 DEF Comes, Ends
  <2> QED BY <2>1, <2>2
<1>4. CASE u # <<>>
  <2>1. Head(s) = Head(u) /\ Tail(s) = Tail(u) \o Invalidations
    BY <1>1, <1>2, <1>4, FirstOfConcat
  <2>2. Head(u) \in StageWrites /\ Tail(u) \in Seq(StageWrites)
    BY <1>4, HeadTailProperties
  <2>0. e = [c EXCEPT ![Head(u).place] = Head(u).content]
    BY <2>1
  <2>3. \A f \in Staging(y) : Comes(e, Tail(u), f)
    <3> SUFFICES ASSUME NEW f \in Staging(y) PROVE Comes(e, Tail(u), f)
      OBVIOUS
    <3>1. f \in Writes
      BY StagingWrites DEF StageWrites
    <3>2. Comes(c, u, f)
      BY <1>1
    <3>3. Comes([c EXCEPT ![Head(u).place] = Head(u).content], Tail(u), f)
      BY <1>2, <1>4, <3>1, <3>2, OneWriteOn
    <3> QED BY <2>0, <3>3
  <2>4. Stages(Tail(s), e, y)
    BY <2>1, <2>2, <2>3 DEF Stages
  <2> QED BY <2>1, <2>2, <2>4
<1> QED BY <1>3, <1>4

LEMMA StageWrite ==
    ASSUME NEW c \in [Cells -> Contents], NEW s \in Seq(Writes), s # <<>>,
           NEW L \in SUBSET (0..MaxValue), Stage(c, s, L),
           NEW t, t = [c EXCEPT ![Head(s).place] = Torn],
           NEW e, e = [c EXCEPT ![Head(s).place] = Head(s).content]
    PROVE  Survives(t, L) /\ Stage(e, Tail(s), L)
<1>1. Torn.kind = "torn" /\ Blank.kind = "blank"
  BY DEF Torn, Blank, Content
<1>2. ASSUME Kept(c, L), NEW y \in L, Stages(s, c, y) PROVE Survives(t, L) /\ Stage(e, Tail(s), L)
  <2>1. CASE Head(s) \in StageWrites /\ Stages(Tail(s), e, y)
    <3>1. Head(s).place \in Migratory \cup {MarkA, MarkB} /\ Head(s).content.kind # "active"
      BY <2>1 DEF StageWrites
    <3>2. Kept(t, L)
      BY <1>1, <1>2, <3>1, StageKeeps
    <3>3. Kept(e, L)
      BY <1>2, <3>1, StageKeeps
    <3> QED BY <2>1, <3>2, <3>3 DEF Survives, Stage
  <2>2. CASE s = Invalidations /\ \A f \in Staging(y) : c[f.place] = f.content
    <3>1. Head(s) = Write(LegA, Blank)
      BY <2>2 DEF Invalidations
    <3>2. Tail(s) = <<Write(LegB, Blank), Mark("active", "A", 3), Mark("active", "B", 3)>>
      BY <2>2 DEF Invalidations
    <3>3. Head(s).place = LegA /\ Head(s).content = Blank
      BY <3>1 DEF Write
    <3>4. Kept(t, L)
      BY <1>1, <1>2, <3>3, InvalidateA
    <3>5. Kept(e, L) /\ e[LegA].kind # "fpm1"
      BY <1>1, <1>2, <3>3, InvalidateA
    <3>6. \A f \in Staging(y) : e[f.place] = f.content
      <4> SUFFICES ASSUME NEW f \in Staging(y) PROVE e[f.place] = f.content
        OBVIOUS
      <4>1. f \in Writes /\ f.place \in Migratory \cup {MarkA, MarkB}
        BY StagingWrites DEF StageWrites
      <4>2. f.place \in Cells /\ f.place # LegA
        BY <4>1, MigratoryCells, MarkCells DEF Writes
      <4> QED BY <2>2, <3>3, <4>2
    <3> QED BY <3>2, <3>4, <3>5, <3>6 DEF Survives, Stage
  <2>3. y \in 0..MaxValue
    OBVIOUS
  <2>4. \/ Head(s) \in StageWrites /\ Stages(Tail(s), e, y)
        \/ s = Invalidations /\ \A f \in Staging(y) : c[f.place] = f.content
    BY <1>2, <2>3, StagesOn
  <2> QED BY <2>1, <2>2, <2>4
<1>3. ASSUME Kept(c, L), c[LegA].kind # "fpm1", NEW y \in L,
             s = <<Write(LegB, Blank), Mark("active", "A", 3), Mark("active", "B", 3)>>,
             \A f \in Staging(y) : c[f.place] = f.content
      PROVE  Survives(t, L) /\ Stage(e, Tail(s), L)
  <2>1. /\ Head(s) = Write(LegB, Blank)
        /\ Tail(s) = <<Mark("active", "A", 3), Mark("active", "B", 3)>>
    BY <1>3
  <2>2. Head(s).place = LegB /\ Head(s).content = Blank
    BY <2>1 DEF Write
  <2>3. Moved(t, L)
    BY <1>1, <1>3, <2>2, InvalidateB
  <2>4. Moved(e, L)
    BY <1>1, <1>3, <2>2, InvalidateB
  <2> QED BY <2>1, <2>3, <2>4 DEF Survives, Stage
<1>4. ASSUME Moved(c, L), s = <<Mark("active", "A", 3), Mark("active", "B", 3)>>
      PROVE  Survives(t, L) /\ Stage(e, Tail(s), L)
  <2>1. Head(s) = Mark("active", "A", 3) /\ Tail(s) = <<Mark("active", "B", 3)>>
    BY <1>4
  <2>2. Head(s).place = MarkA /\ Head(s).content = Content("active", 3, 0)
    BY <2>1 DEF Mark, Write, MarkA
  <2>3. Moved(t, L)
    BY <1>4, <2>2, TornA
  <2>4. InForce(e) /\ MarkedBy(e, 3)
    BY <1>4, <2>2, ActivateA
  <2> QED BY <2>1, <2>3, <2>4 DEF Survives, Stage
<1>5. ASSUME InForce(c), MarkedBy(c, 3), s = <<Mark("active", "B", 3)>>
      PROVE  Survives(t, L) /\ Stage(e, Tail(s), L)
  <2>1. Head(s) = Mark("active", "B", 3) /\ Tail(s) = <<>>
    BY <1>5
  <2>2. Head(s).place = MarkB /\ Head(s).content = Content("active", 3, 0)
    BY <2>1 DEF Mark, Write, MarkB
  <2>3. InForce(t)
    BY <1>5, <2>2, ActivateB
  <2>4. InForce(e) /\ MarkedBy(e, 3)
    BY <1>5, <2>2, ActivateB
  <2> QED BY <2>1, <2>3, <2>4 DEF Survives, Stage
<1> QED BY <1>2, <1>3, <1>4, <1>5 DEF Stage

\* The first write of a migration.
LEMMA MigrationStages ==
    ASSUME NEW c \in [Cells -> Contents], NEW y \in 0..MaxValue
    PROVE  Stages(MigrateWrites(3, [d \in Used |-> y]), c, y)
<1> DEFINE v == [d \in Used |-> y]
           m == <<Mark("migrating", "A", 3), Mark("migrating", "B", 3)>>
           b == DomainWrites(3, Used, v)
           l == <<Write(<<"Legacy", "A">>, Blank), Write(<<"Legacy", "B">>, Blank)>>
           a == <<Mark("active", "A", 3), Mark("active", "B", 3)>>
<1>1. Staging(y) \subseteq StageWrites
  BY StagingWrites
<1>2. m \in Seq(StageWrites)
  <2>1. Mark("migrating", "A", 3) \in StageWrites /\ Mark("migrating", "B", 3) \in StageWrites
    BY <1>1 DEF Staging
  <2> QED BY <2>1
<1>3. b \in Seq(StageWrites)
  <2>1. \A d \in Used : Write(CellOf(d, 3), Content("record", 3, v[d])) \in StageWrites
    BY <1>1 DEF Staging, StagedRecord
  <2> HIDE DEF v
  <2> QED BY <2>1, DomainWritesIn
<1>4. m \in Seq(Writes) /\ b \in Seq(Writes) /\ v \in Configs
  BY <1>2, <1>3, StageSeqs DEF Configs
<1>5. l \in Seq(Writes) /\ a \in Seq(Writes) /\ l \o a = Invalidations
  <2>1. \A s \in {"A", "B"} : Write(<<"Legacy", s>>, Blank) \in Writes /\ Mark("active", s, 3) \in Writes
    BY CellNames, ContentType, MarkType DEF Write, Writes
  <2>2. l \in Seq(Writes) /\ a \in Seq(Writes)
    BY <2>1
  <2>3. l \o a = Invalidations
    BY <2>1, TwoPairs DEF Invalidations, LegA, LegB
  <2> QED BY <2>2, <2>3
<1>6. MigrateWrites(3, v) = (m \o b) \o Invalidations
  <2>1. MigrateWrites(3, v) = ((m \o b) \o l) \o a
    BY DEF MigrateWrites
  <2> HIDE DEF v, m, b, l, a
  <2>2. m \o b \in Seq(Writes)
    BY <1>4
  <2>3. ((m \o b) \o l) \o a = (m \o b) \o (l \o a)
    <3> DEFINE w == m \o b
    <3>1. w \in Seq(Writes) /\ l \in Seq(Writes) /\ a \in Seq(Writes)
      BY <1>5, <2>2
    <3> HIDE DEF w
    <3>2. (w \o l) \o a = w \o (l \o a)
      BY <3>1, ConcatAssociative
    <3> QED BY <3>2 DEF w
  <2> QED BY <1>5, <2>1, <2>3
<1>7. m \o b \in Seq(StageWrites)
  BY <1>2, <1>3, ConcatProperties
<1>8. \A f \in Staging(y) : Ends(m \o b, f)
  <2>1. \A s \in {"A", "B"} : Mark("migrating", s, 3).place = <<"LayoutMarker", s>>
    BY DEF Mark, Write
  <2>2. Ends(m, Mark("migrating", "A", 3)) /\ Ends(m, Mark("migrating", "B", 3))
    BY <2>1, Pair
  <2>3. \A s \in {"A", "B"} : Avoids(b, Mark("migrating", s, 3).place)
    <3>1. \A p : p[1] \notin Used => Avoids(b, p)
      BY <1>4, DomainWritesEnd
    <3>2. \A s : <<"LayoutMarker", s>>[1] \notin Used
      BY Names
    <3> HIDE DEF b
    <3> QED BY <2>1, <3>1, <3>2
  <2>4. \A d \in Used : Ends(b, StagedRecord(d, y))
    <3>1. \A d \in Used : Ends(b, Write(CellOf(d, 3), Content("record", 3, v[d])))
      BY <1>4, DomainWritesEnd
    <3> QED BY <3>1 DEF StagedRecord
  <2> HIDE DEF m, b, v
  <2>5. Ends(m \o b, Mark("migrating", "A", 3)) /\ Ends(m \o b, Mark("migrating", "B", 3))
    BY <1>4, <2>2, <2>3, Concatenated
  <2>6. \A d \in Used : Ends(m \o b, StagedRecord(d, y))
    BY <1>4, <2>4, Concatenated
  <2> QED BY <2>5, <2>6 DEF Staging
<1>9. \A f \in Staging(y) : Comes(c, m \o b, f)
  BY <1>8 DEF Comes
<1> HIDE DEF m, b, l, a
<1> QED BY <1>6, <1>7, <1>9 DEF Stages

-----------------------------------------------------------------------------
(* Every step without a fault keeps the legacy settings within reach.        *)

MigratedInv == TypeOK /\ Migrated

LEMMA RecoverFields ==
    ASSUME NEW op, NEW n, NEW c
    PROVE  /\ Recover(op, n, c).op = op /\ Recover(op, n, c).seq = n
           /\ Recover(op, n, c).todo = <<Mark("active", "A", n), Mark("active", "B", n)>>
           /\ Migrate(op, n, c).todo = MigrateWrites(n, c)
           /\ \A D : Commit(op, n, D, c).todo = CommitWrites(n, D, c)
BY DEF Recover, Job, RecoverWrites, Migrate, Commit

\* The two states of a job, after a step.
LEMMA StagePrimed ==
    ASSUME mode' # "off", job'.op \in {"migrate", "recover"}, job'.seq = 3,
           job'.op = "recover" => ~lock'.uiIncompatible /\ ~attention',
           Stage(cell', job'.todo, past'.legacy)
    PROVE  Migrating'
BY DEF Migrating, Stage, Stages, Kept, OthersBlank, Moved, InForce, NoLegacy, MarkedBy, Comes,
       Ends, Avoids

LEMMA SavingPrimed ==
    ASSUME mode' = "on", job'.op \in {"deferred", "immediate"}, ~Locked', ~attention',
           job'.seq = seq' + 1, job'.todo \in Seq(SpareWrites(seq' + 1)),
           InForce(cell'), MarkedBy(cell', seq'), Comes(cell', job'.todo, MarkOf("active", job'.seq))
    PROVE  Saving'
BY DEF Saving, SpareWrites, InForce, NoLegacy, MarkedBy, CellOf, Comes, Ends, Avoids, MarkOf,
       Write, Content

\* The job of a boot, a migration or a save is never NoJob.
LEMMA IdleIsRunning ==
    ASSUME Alive, Idle
    PROVE  Running
BY JobFields DEF Alive, Idle, Resting, Migrating, Saving

LEMMA AliveBoot ==
    ASSUME TypeOK, Alive, Boot
    PROVE  Alive'
<1>1. /\ cell \in [Cells -> Contents] /\ past \in Pasts /\ mode = "off"
  BY TypeParts DEF Boot
<1>2. Survives(cell, past.legacy)
  BY <1>1, JobFields DEF Alive, Resting, Migrating, Saving, Running
<1> DEFINE L == past.legacy
           legacy == Incompatible(cell) /\ LegacyRecords(cell) # {}
           blank  == ~Required(cell) /\ ~Incompatible(cell) /\ ~Selected(cell)
           source == IF legacy THEN [d \in Used |-> LegacyRecord(cell).val] ELSE Restored(cell)
           number == IF legacy THEN LegacyRecord(cell).seq
                     ELSE IF Selected(cell) THEN ReadGeneration(cell) ELSE 0
<1>3. /\ seq' = number
      /\ lock' = [required |-> Required(cell), uiIncompatible |-> Incompatible(cell),
                  incompatible |-> Incompatible(cell), recovery |-> Recoverable(cell)]
      /\ attention' = (Incompatible(cell) \/ Required(cell))
      /\ job' = IF blank THEN Commit("init", 1, Used, Default)
                ELSE IF Recoverable(cell) THEN Recover("recover", number, source)
                ELSE IF legacy THEN Migrate("migrate", number + 1, source)
                ELSE NoJob
      /\ mode' = IF job' = NoJob THEN "on" ELSE "boot"
      /\ cell' = cell /\ past' = past
  BY DEF Boot
<1>4. CASE Kept(cell, L)
  <2> DEFINE y == cell[LegB].val
  <2>1. /\ Incompatible(cell) /\ ~Recoverable(cell) /\ LegacyRecords(cell) # {}
        /\ LegacyRecord(cell) = cell[LegB]
    BY <1>1, <1>4, KeptReads
  <2>2. cell[LegB].seq = 2 /\ y \in L /\ y \in 0..MaxValue
    BY <1>1, <1>4, MarkCells DEF Kept, Contents
  <2>3. number + 1 = 3 /\ source = [d \in Used |-> y]
    BY <2>1, <2>2
  <2>4. job' = Migrate("migrate", 3, [d \in Used |-> y])
    BY <1>3, <2>1, <2>3
  <2>5. job'.op = "migrate" /\ job'.seq = 3 /\ job' # NoJob
    BY <2>4, MigrateFields
  <2>6. job'.todo = MigrateWrites(3, [d \in Used |-> y])
    BY <2>4, RecoverFields
  <2>7. Stages(job'.todo, cell, y)
    BY <1>1, <2>2, <2>6, MigrationStages
  <2>8. Stage(cell, job'.todo, L)
    BY <1>4, <2>2, <2>7 DEF Stage
  <2>9. Migrating'
    <3>1. mode' # "off" /\ Stage(cell', job'.todo, past'.legacy)
      BY <1>3, <2>5, <2>8
    <3> QED BY <2>5, <3>1, StagePrimed
  <2> QED BY <2>9 DEF Alive
<1>5. CASE Moved(cell, L)
  <2>1. /\ ReadGeneration(cell) = 3 /\ Selected(cell) /\ Recoverable(cell)
        /\ ~Incompatible(cell) /\ ~Required(cell)
    BY <1>1, <1>5, MovedReads
  <2>2. job' = Recover("recover", 3, source) /\ ~attention' /\ ~lock'.uiIncompatible
    BY <1>3, <2>1
  <2>3. /\ job'.op = "recover" /\ job'.seq = 3 /\ job' # NoJob
        /\ job'.todo = <<Mark("active", "A", 3), Mark("active", "B", 3)>>
    BY <2>2, RecoverFields, JobFields
  <2>4. mode' # "off" /\ Stage(cell', job'.todo, past'.legacy)
    BY <1>3, <1>5, <2>3 DEF Stage
  <2>5. Migrating'
    BY <2>2, <2>3, <2>4, StagePrimed DEF Migrating
  <2> QED BY <2>5 DEF Alive
<1>6. CASE InForce(cell)
  <2>1. /\ ReadGeneration(cell) = Generation(cell) /\ MarkedBy(cell, Generation(cell))
        /\ LegacyRecords(cell) = {} /\ ~Recoverable(cell)
        /\ Selected(cell) => ~Incompatible(cell) /\ ~Required(cell)
        /\ ~Selected(cell) => Incompatible(cell)
    BY <1>1, <1>6, InForceReads
  <2>2. job' = NoJob /\ mode' = "on"
    BY <1>3, <2>1
  <2>3. CASE Selected(cell)
    <3>1. seq' = Generation(cell) /\ ~Locked' /\ ~attention'
      BY <1>3, <2>1, <2>3 DEF Locked
    <3>2. InForce(cell') /\ MarkedBy(cell', seq')
      BY <1>3, <1>6, <2>1, <3>1
    <3>3. Running'
      BY <2>2, <3>1, <3>2 DEF Running, InForce, NoLegacy, MarkedBy
    <3> QED BY <3>3 DEF Alive
  <2>4. CASE ~Selected(cell)
    <3>1. Locked' /\ lock'.incompatible /\ ~lock'.recovery
      BY <1>3, <2>1, <2>4 DEF Locked
    <3>2. InForce(cell')
      BY <1>3, <1>6
    <3>3. Running'
      BY <2>2, <3>1, <3>2 DEF Running, InForce, NoLegacy
    <3> QED BY <3>3 DEF Alive
  <2> QED BY <2>3, <2>4
<1> QED BY <1>2, <1>4, <1>5, <1>6 DEF Survives

\* A step of the idle loop that starts no save.
LEMMA AliveIdle ==
    ASSUME Alive, Idle, UNCHANGED <<cell, mode, seq, lock, job>>, attention' => attention
    PROVE  Alive'
<1>1. Running
  BY IdleIsRunning
<1>2. Running'
  BY <1>1 DEF Running, Locked, InForce, NoLegacy, MarkedBy
<1> QED BY <1>2 DEF Alive

LEMMA AliveRetry ==
    ASSUME TypeOK, Alive, Retry
    PROVE  Alive'
<1>1. Idle /\ attention /\ cell \in [Cells -> Contents] /\ UNCHANGED <<cell, mode, lock>>
  BY TypeParts DEF Retry
<1>2. Running /\ lock.incompatible /\ ~lock.recovery
  BY <1>1, IdleIsRunning DEF Running
<1>3. LegacyRecords(cell) = {}
  BY <1>1, <1>2, InForceReads DEF Running
<1>4. UNCHANGED <<attention, job, seq>>
  BY <1>2, <1>3 DEF Retry, BlankRetry
<1> QED BY <1>1, <1>4, AliveIdle

LEMMA AliveSave ==
    ASSUME TypeOK, Alive, Idle, ~Locked, NEW op \in {"deferred", "immediate"}, NEW D \in SUBSET Used,
           cfg' \in Configs, job' = Commit(op, seq + 1, D, cfg'),
           UNCHANGED <<cell, mode, seq, lock, attention>>
    PROVE  Alive'
<1>1. seq \in Nat /\ Running
  BY TypeParts, IdleIsRunning
<1>2. InForce(cell) /\ MarkedBy(cell, seq) /\ ~attention /\ mode = "on"
  BY <1>1 DEF Running
<1> DEFINE n == seq + 1
           W == SpareWrites(n)
<1>3. /\ job'.op = op /\ job'.seq = n /\ job'.domains = D
      /\ job'.todo = <<MarkOf("prepared", n)>> \o DomainWrites(n, D, cfg') \o <<MarkOf("active", n)>>
  <2> DEFINE J == Commit(op, seq + 1, D, cfg')
  <2>1. J.op = op /\ J.seq = seq + 1 /\ J.domains = D
    BY CommitFields
  <2>2. J.todo = CommitWrites(seq + 1, D, cfg')
    BY DEF Commit, Job
  <2>3. job' = J
    OBVIOUS
  <2> HIDE DEF J
  <2> QED BY <2>1, <2>2, <2>3 DEF CommitWrites
<1>4. n \in Nat
  BY <1>1
<1> HIDE DEF n
<1>5. MarkOf("prepared", n) \in W /\ MarkOf("active", n) \in W
  <2>1. MarkOf("prepared", n) \in Writes /\ MarkOf("active", n) \in Writes
    BY <1>4, MarkType
  <2>2. CellOf("LayoutMarker", n)[1] = "LayoutMarker"
    BY CellOfType DEF Places
  <2>3. \A k : MarkOf(k, n).place = CellOf("LayoutMarker", n) /\ MarkOf(k, n).content.seq = n
    BY DEF MarkOf, Write, Content
  <2> QED BY <2>1, <2>2, <2>3 DEF SpareWrites
<1>6. \A d \in D : Write(CellOf(d, n), Content("record", n, cfg'[d])) \in W
  <2> SUFFICES ASSUME NEW d \in D
               PROVE  Write(CellOf(d, n), Content("record", n, cfg'[d])) \in W
    OBVIOUS
  <2>1. Write(CellOf(d, n), Content("record", n, cfg'[d])) \in Writes
    BY <1>4, RecordWriteType
  <2>2. CellOf(d, n)[1] = d /\ d # "Legacy" /\ d # "LayoutMarker"
    BY CellOfType, Names DEF Places
  <2>3. Write(CellOf(d, n), Content("record", n, cfg'[d])).place = CellOf(d, n)
    BY DEF Write
  <2> QED BY <2>1, <2>2, <2>3 DEF SpareWrites
<1> HIDE DEF W
<1>7. DomainWrites(n, D, cfg') \in Seq(W)
  BY <1>6, DomainWritesIn
<1>8. job'.todo \in Seq(W)
  <2> DEFINE a == <<MarkOf("prepared", n)>>
             e == <<MarkOf("active", n)>>
             b == DomainWrites(n, D, cfg')
  <2>1. a \in Seq(W) /\ e \in Seq(W) /\ b \in Seq(W)
    BY <1>5, <1>7
  <2>2. job'.todo = a \o b \o e
    BY <1>3
  <2> HIDE DEF a, b, e
  <2>3. a \o b \in Seq(W)
    BY <2>1, ConcatProperties
  <2>4. (a \o b) \o e \in Seq(W)
    BY <2>1, <2>3, ConcatProperties
  <2> QED BY <2>2, <2>4
<1>9. Ends(job'.todo, MarkOf("active", n))
  <2>1. Arranged(Commit(op, n, D, cfg'))
    BY <1>4, CommitArranged
  <2>2. MarkOf("active", n) \in Finals(job')
    BY <1>3 DEF Finals, Actives
  <2> QED BY <2>1, <2>2 DEF Arranged, n
<1>10. Comes(cell', job'.todo, MarkOf("active", n))
  BY <1>9 DEF Comes
<1>11. job'.todo \in Seq(SpareWrites(seq' + 1)) /\ job'.seq = seq' + 1
  BY <1>3, <1>8 DEF n, W
<1>12. InForce(cell') /\ MarkedBy(cell', seq') /\ ~Locked' /\ ~attention' /\ mode' = "on"
  BY <1>2 DEF Locked
<1>13. Saving'
  BY <1>3, <1>10, <1>11, <1>12, SavingPrimed
<1> QED BY <1>13 DEF Alive

LEMMA AliveWrite ==
    ASSUME TypeOK, Alive, WriteRecord
    PROVE  Alive'
<1>1. /\ cell \in [Cells -> Contents] /\ job \in Jobs /\ past \in Pasts /\ seq \in Nat
      /\ job.todo # <<>>
  BY TypeParts DEF WriteRecord, Writing
<1>2. /\ cell' = [cell EXCEPT ![Head(job.todo).place] = Head(job.todo).content]
      /\ job'.todo = Tail(job.todo) /\ job'.op = job.op /\ job'.seq = job.seq
      /\ past'.legacy = past.legacy /\ UNCHANGED <<mode, seq, lock, attention>>
  BY <1>1 DEF WriteRecord, Head1, Jobs, Pasts
<1>3. job.todo \in Seq(Writes) /\ past.legacy \in SUBSET (0..MaxValue)
  BY <1>1 DEF Jobs, Pasts
<1>4. CASE Migrating
  <2>1. Stage(cell', job'.todo, past'.legacy)
    <3>1. Stage(cell, job.todo, past.legacy)
      BY <1>4 DEF Migrating
    <3>2. Stage(cell', Tail(job.todo), past.legacy)
      BY <1>1, <1>2, <1>3, <3>1, StageWrite
    <3> QED BY <1>2, <3>2
  <2>2. Migrating'
    BY <1>2, <1>4, <2>1, StagePrimed DEF Migrating
  <2> QED BY <2>2 DEF Alive
<1>5. CASE Saving
  <2>1. /\ job.todo \in Seq(SpareWrites(seq + 1)) /\ InForce(cell) /\ MarkedBy(cell, seq)
        /\ Comes(cell, job.todo, MarkOf("active", job.seq)) /\ job.seq = seq + 1
    BY <1>5 DEF Saving
  <2>2. Head(job.todo) \in SpareWrites(seq + 1) /\ Tail(job.todo) \in Seq(SpareWrites(seq + 1))
    BY <1>1, <2>1, HeadTailProperties
  <2>3. InForce(cell') /\ MarkedBy(cell', seq)
    BY <1>1, <1>2, <2>1, <2>2, SaveSpares
  <2>4. MarkOf("active", job.seq) \in Writes
    BY <1>1, MarkType DEF Jobs
  <2>5. Comes(cell', Tail(job.todo), MarkOf("active", job.seq))
    <3>1. Comes([cell EXCEPT ![Head(job.todo).place] = Head(job.todo).content], Tail(job.todo),
                MarkOf("active", job.seq))
      BY <1>1, <1>3, <2>1, <2>4, OneWriteOn
    <3> QED BY <1>2, <3>1
  <2>6. Locked' = Locked
    BY <1>2 DEF Locked
  <2>7. /\ Comes(cell', job'.todo, MarkOf("active", job'.seq))
        /\ MarkedBy(cell', seq') /\ job'.seq = seq' + 1
        /\ job'.todo \in Seq(SpareWrites(seq' + 1))
    BY <1>2, <2>1, <2>2, <2>3, <2>5
  <2>8. Saving'
    BY <1>2, <1>5, <2>3, <2>6, <2>7, SavingPrimed DEF Saving
  <2> QED BY <2>8 DEF Alive
<1>6. ~Resting /\ ~Running
  BY <1>1, JobFields DEF Resting, Running
<1> QED BY <1>4, <1>5, <1>6 DEF Alive

LEMMA LengthsAdd ==
    ASSUME NEW S, NEW u \in Seq(S), NEW v \in Seq(S)
    PROVE  Len(u \o v) = Len(u) + Len(v) /\ Len(u) \in Nat
OBVIOUS

LEMMA AliveFinish ==
    ASSUME TypeOK, Alive, Finish
    PROVE  Alive'
<1>1. /\ cell \in [Cells -> Contents] /\ lock \in Locks /\ job.op # "none" /\ job.todo = <<>>
      /\ job' = NoJob /\ mode' = "on" /\ seq' = job.seq /\ cell' = cell
  BY TypeParts DEF Finish, Writing
<1>2. CASE Migrating
  <2>1. InForce(cell) /\ MarkedBy(cell, 3)
    <3>1. \A y \in past.legacy : ~Stages(job.todo, cell, y)
      <4> SUFFICES ASSUME NEW u \in Seq(StageWrites), job.todo = u \o Invalidations PROVE FALSE
        BY DEF Stages
      <4>1. u \in Seq(Writes) /\ Invalidations \in Seq(Writes) /\ Len(Invalidations) = 4
        BY StageSeqs DEF Invalidations
      <4>2. Len(u \o Invalidations) = Len(u) + 4 /\ Len(u) \in Nat
        BY <4>1, LengthsAdd
      <4>3. Len(job.todo) = 0
        BY <1>1
      <4> QED BY <4>2, <4>3
    <3> QED BY <1>1, <1>2, <3>1 DEF Migrating, Stage
  <2>2. ~Locked' /\ ~attention'
    <3>1. CASE job.op = "migrate"
      <4>1. /\ lock' = [lock EXCEPT !.required = FALSE, !.uiIncompatible = FALSE]
            /\ attention' = FALSE
        BY <3>1 DEF Finish
      <4> QED BY <1>1, <4>1 DEF Locks, Locked
    <3>2. CASE job.op = "recover"
      <4>1. /\ lock' = [lock EXCEPT !.required = FALSE, !.recovery = FALSE]
            /\ attention' = attention
        BY <3>2 DEF Finish
      <4> QED BY <1>1, <1>2, <3>2, <4>1 DEF Locks, Locked, Migrating
    <3> QED BY <1>2, <3>1, <3>2 DEF Migrating
  <2>3. InForce(cell') /\ MarkedBy(cell', seq')
    BY <1>1, <1>2, <2>1 DEF Migrating
  <2>4. Running'
    BY <1>1, <2>2, <2>3 DEF Running, InForce, NoLegacy, MarkedBy
  <2> QED BY <2>4 DEF Alive
<1>3. CASE Saving
  <2>1. InForce(cell) /\ ~Locked /\ ~attention /\ job.op \in {"deferred", "immediate"}
    BY <1>3 DEF Saving
  <2>2. UNCHANGED <<lock, attention>>
    BY <2>1 DEF Finish
  <2>3. MarkedBy(cell, job.seq)
    <3>1. cell[MarkOf("active", job.seq).place] = MarkOf("active", job.seq).content
      BY <1>1, <1>3 DEF Saving, Comes, Ends
    <3>2. cell[CellOf("LayoutMarker", job.seq)] = Content("active", job.seq, 0)
      BY <3>1 DEF MarkOf, Write
    <3> QED BY <3>2 DEF MarkedBy, Content
  <2>4. InForce(cell') /\ MarkedBy(cell', seq') /\ ~Locked' /\ ~attention'
    BY <1>1, <2>1, <2>2, <2>3 DEF Locked
  <2>5. Running'
    BY <1>1, <2>4 DEF Running, InForce, NoLegacy, MarkedBy
  <2> QED BY <2>5 DEF Alive
<1>4. ~Resting /\ ~Running
  BY <1>1, JobFields DEF Resting, Running
<1> QED BY <1>2, <1>3, <1>4 DEF Alive

LEMMA AliveRestart ==
    ASSUME TypeOK, Alive, NEW left \in (IF Writing THEN Leftovers ELSE {Blank}), Restart(left)
    PROVE  Alive'
<1>1. /\ cell \in [Cells -> Contents] /\ job \in Jobs /\ past \in Pasts /\ seq \in Nat
      /\ job.todo \in Seq(Writes) /\ past.legacy \in SUBSET (0..MaxValue)
  BY TypeParts DEF Jobs, Pasts
<1>2. job' = NoJob /\ mode' = "off" /\ past'.legacy = past.legacy
  BY <1>1 DEF Restart, Pasts
<1>3. Survives(cell, past.legacy)
  BY DEF Alive, Resting, Migrating, Saving, Running, Survives, Stage
<1>4. Survives(cell', past.legacy)
  <2>1. CASE ~Writing
    BY <1>3, <2>1 DEF Restart
  <2>2. CASE Writing
    <3> DEFINE h == Head(job.todo)
    <3>1. job.todo # <<>> /\ h.place \in Cells
      <4>1. job.todo # <<>>
        BY <2>2 DEF Writing
      <4>2. h \in Writes
        BY <1>1, <4>1, HeadTailProperties
      <4> QED BY <4>1, <4>2 DEF Writes
    <3>2. cell' = [cell EXCEPT ![h.place] = left] /\ left \in {cell[h.place], Torn, h.content}
      BY <2>2 DEF Restart, Head1, Leftovers
    <3> HIDE DEF h
    <3>3. CASE left = cell[h.place]
      <4>1. cell' = cell
        BY <1>1, <3>1, <3>2, <3>3
      <4> QED BY <1>3, <4>1
    <3>4. CASE left \in {Torn, h.content} /\ Migrating
      <4>1. Stage(cell, job.todo, past.legacy)
        BY <3>4 DEF Migrating
      <4>2. CASE left = Torn
        BY <1>1, <3>1, <3>2, <4>1, <4>2, StageWrite DEF h
      <4>3. CASE left = h.content
        <5>1. Stage(cell', Tail(job.todo), past.legacy)
          BY <1>1, <3>1, <3>2, <4>1, <4>3, StageWrite DEF h
        <5> QED BY <5>1 DEF Stage, Survives
      <4> QED BY <3>4, <4>2, <4>3
    <3>5. CASE left \in {Torn, h.content} /\ Saving
      <4>1. job.todo \in Seq(SpareWrites(seq + 1)) /\ InForce(cell) /\ MarkedBy(cell, seq)
        BY <3>5 DEF Saving
      <4>2. h \in SpareWrites(seq + 1)
        BY <3>1, <4>1, HeadTailProperties DEF h
      <4>3. InForce(cell')
        BY <1>1, <3>2, <3>5, <4>1, <4>2, SaveSpares
      <4> QED BY <4>3 DEF Survives
    <3>6. ~Resting /\ ~Running
      BY <3>1, JobFields DEF Resting, Running
    <3> QED BY <3>2, <3>3, <3>4, <3>5, <3>6 DEF Alive
  <2> QED BY <2>1, <2>2
<1>5. Resting'
  BY <1>2, <1>4 DEF Resting, Survives, Kept, OthersBlank, Moved, InForce, NoLegacy
<1> QED BY <1>5 DEF Alive

LEMMA MigratedStep == MigratedInv /\ [Next]_vars => MigratedInv'
<1> SUFFICES ASSUME TypeOK, Migrated, [Next]_vars, past'.legacy # {}, spent'.faults = 0
             PROVE  Alive'
  BY TypeStep DEF MigratedInv, Migrated, Alive
<1>0. past \in Pasts /\ spent \in Uses /\ cfg \in Configs
  BY TypeParts
<1>1. ASSUME past.legacy # {}, spent.faults = 0 PROVE Alive
  BY <1>1 DEF Migrated, Alive
<1>2. CASE UNCHANGED vars
  <2>1. Alive' = Alive
    BY <1>2 DEF vars, Alive, Resting, Running, Saving, Migrating, Locked, Survives, Stage, Stages,
                Kept, OthersBlank, Moved, InForce, NoLegacy, MarkedBy, Comes, Ends, Avoids
  <2> QED BY <1>1, <1>2, <2>1 DEF vars
<1>3. CASE Boot
  BY <1>1, <1>3, AliveBoot DEF Boot
<1>4. CASE BootUnreadable
  BY <1>0, <1>4 DEF BootUnreadable, Uses
<1>5. ASSUME NEW D \in SUBSET Used, NEW v \in 0..MaxValue, Edit(D, v) PROVE Alive'
  <2>1. spent'.faults = spent.faults
    BY <1>0, <1>5 DEF Edit, Uses
  <2> QED BY <1>1, <1>5, <2>1, AliveIdle DEF Edit
<1>6. CASE DropDue
  BY <1>1, <1>6, AliveIdle DEF DropDue
<1>7. CASE ReadSnapshot
  <2>1. past'.legacy = past.legacy
    BY <1>0, <1>7 DEF ReadSnapshot, Pasts
  <2> QED BY <1>1, <1>7, <2>1, AliveIdle DEF ReadSnapshot
<1>8. CASE CommitDeferred
  <2>1. Changed \in SUBSET Used /\ cfg' = cfg
    BY <1>8 DEF Changed, CommitDeferred
  <2> QED BY <1>0, <1>1, <1>8, <2>1, AliveSave DEF CommitDeferred
<1>9. ASSUME NEW D \in SUBSET Used, NEW v \in 0..MaxValue, SaveNow(D, v) PROVE Alive'
  <2>1. spent'.faults = spent.faults /\ past' = past
    BY <1>0, <1>9 DEF SaveNow, Uses
  <2>2. cfg' \in Configs
    BY <1>0, <1>9 DEF SaveNow, Configs
  <2> QED BY <1>1, <1>9, <2>1, <2>2, AliveSave DEF SaveNow
<1>10. CASE Acknowledge
  BY <1>1, <1>10, AliveIdle DEF Acknowledge
<1>11. CASE Retry
  <2>1. past' = past /\ spent.faults = 0
    <3>1. past' = past /\ (spent' = spent \/ spent' = [spent EXCEPT !.faults = @ + 1])
      BY <1>11 DEF Retry
    <3> QED BY <1>0, <3>1 DEF Uses
  <2> QED BY <1>1, <1>11, <2>1, AliveRetry
<1>12. CASE WriteRecord
  <2>1. past'.legacy = past.legacy /\ spent' = spent
    BY <1>0, <1>12 DEF WriteRecord, Pasts
  <2> QED BY <1>1, <1>12, <2>1, AliveWrite
<1>13. CASE Finish
  <2>1. past'.legacy = past.legacy /\ spent' = spent
    BY <1>0, <1>13 DEF Finish, Pasts
  <2> QED BY <1>1, <1>13, <2>1, AliveFinish
<1>14. ASSUME NEW left, WriteFails(left) PROVE Alive'
  BY <1>0, <1>14 DEF WriteFails, Uses
<1>15. ASSUME NEW left \in (IF Writing THEN Leftovers ELSE {Blank}), Restart(left) PROVE Alive'
  <2>1. past'.legacy = past.legacy /\ spent'.faults = spent.faults
    BY <1>0, <1>15 DEF Restart, Pasts, Uses
  <2> QED BY <1>1, <1>15, <2>1, AliveRestart
<1> QED BY <1>2, <1>3, <1>4, <1>5, <1>6, <1>7, <1>8, <1>9, <1>10, <1>11, <1>12, <1>13, <1>14, <1>15
       DEF Next, ImmediateDomains

\* Power losses alone, however many and wherever they cut a migration, a recovery or a later save
\* off, leave the legacy settings within reach until a generation is in force: in an FPM1 record,
\* or in migrated records that are whole and equal to one (migrate_legacy_memory_config,
\* recover_prepared_fpr2_layout).
THEOREM LegacySettingsSurvive == Spec => []LegacySurvives
<1>1. Init => MigratedInv
  <2> SUFFICES ASSUME Init, past.legacy # {} PROVE Alive
    BY TypeInit DEF MigratedInv, Migrated, Alive
  <2>1. PICK a \in 0..MaxValue, b \in 0..MaxValue :
          /\ cell = [p \in Cells |->
                       IF p[1] # "Legacy" THEN Blank
                       ELSE IF p[2] = "A" THEN Content("fpm1", 1, a) ELSE Content("fpm1", 2, b)]
          /\ past.legacy = {a, b}
    BY DEF Init
  <2>2. cell[MarkA] = Blank /\ cell[MarkB] = Blank
    BY <2>1, MarkCells DEF MarkA, MarkB
  <2>3. cell[LegA] = Content("fpm1", 1, a) /\ cell[LegB] = Content("fpm1", 2, b)
    BY <2>1, MarkCells DEF LegA, LegB
  <2>4. \A d \in Used : \A s \in Slots(d) : cell[<<d, s>>] = Blank
    BY <2>1, CellNames, Names DEF Places
  <2>5. Kept(cell, past.legacy)
    BY <2>1, <2>2, <2>3, <2>4 DEF Kept, OthersBlank, Blank, Content
  <2>6. mode = "off" /\ job = NoJob
    BY DEF Init
  <2> QED BY <2>5, <2>6 DEF Alive, Resting, Survives
<1>2. MigratedInv => LegacySurvives
  <2> SUFFICES ASSUME TypeOK, Alive, Generation(cell) = 0
               PROVE  \/ LegacyRecords(cell) # {}
                      \/ Recoverable(cell) /\ \E v \in past.legacy : Restored(cell) = [d \in Used |-> v]
    BY DEF MigratedInv, Migrated, LegacySurvives, Alive
  <2>1. cell \in [Cells -> Contents]
    BY TypeParts
  <2>2. Survives(cell, past.legacy)
    BY DEF Alive, Resting, Migrating, Saving, Running, Survives, Stage
  <2> QED BY <2>1, <2>2, KeptReads, MovedReads, InForceReads DEF Survives
<1> QED BY <1>1, <1>2, MigratedStep, PTL DEF Spec

-----------------------------------------------------------------------------
(* An unlocked loop that reports nothing has a whole snapshot in the EEPROM.  *)
(* What locks the heater at the next boot is a domain without a readable      *)
(* record, so nothing needs to be known about an EEPROM whose loop is locked:  *)
(* every save that unlocks it writes all domains or has found them whole.      *)

Has(c, d, n) == Readable(c, d, n) # {}

\* The domains a fault stands for (FaultDomains).
Hit(f) == IF f = "none" THEN {} ELSE IF f = "LayoutMarker" THEN Used ELSE {f}

Saves == {"deferred", "immediate"}
Retries == {"retry", "retryFormat"}
AtBoot == {"init", "recover", "migrate"}

\* A write to a domain leaves a record of the save's generation.
Fitting(n) ==
    {w \in Writes : w.place[1] \in Used => w.content.kind = "record" /\ w.content.seq = n}

\* Between saves: the loop's generation is whole; after a failure, all but the
\* domain that failed will be in the next one.
Rests(c, n, f) ==
    /\ \A d \in Used \ Hit(f) : Has(c, d, IF f = "none" THEN n ELSE n + 1)
    /\ f = "none" => n > 0 /\ n <= Generation(c)

\* During one: a save of the loop never takes a domain away that is not reported;
\* any other one ends with all of them.
Fills(c, j, n, f) ==
    /\ j.seq > 0 /\ j.todo \in Seq(Fitting(j.seq))
    /\ j.op \in Saves => j.seq = n + 1 /\ \A d \in Used \ Hit(f) : Has(c, d, j.seq)
    /\ j.op \notin Saves => \A d \in Used : Has(c, d, j.seq) \/ Ends(j.todo, RecordOf(j, d))
    /\ Comes(c, j.todo, MarkOf("active", j.seq)) \/ (j.todo = <<>> /\ j.seq <= Generation(c))

\* Nothing is amiss without a failure, and who holds the lock.
Warned ==
    /\ lock.uiIncompatible => lock.incompatible
    /\ lock.recovery => seq > 0
    /\ ~Locked /\ spent.faults = 0 => ~attention /\ fault = "none"
WarnedJob ==
    /\ job.op \in AtBoot => fault = "none"
    /\ job.op = "recover" => ~attention
    /\ job.op \in Retries /\ spent.faults = 0 => Locked
    /\ job.op \in Saves => ~Locked

Backed ==
    spent.faults <= 1 =>
        /\ Warned
        /\ Idle /\ ~Locked => Rests(cell, seq, fault)
        /\ job # NoJob => WarnedJob /\ Fills(cell, job, seq, fault)

OffIsIdle == mode = "off" => job = NoJob
BackedInv == TypeOK /\ OffIsIdle /\ Backed

LEMMA HasIs ==
    ASSUME NEW c, NEW d, NEW n
    PROVE  Has(c, d, n) <=> \E t \in Slots(d) : c[<<d, t>>].kind = "record" /\ c[<<d, t>>].seq <= n
BY DEF Has, Readable

LEMMA HasGrows ==
    ASSUME NEW c \in [Cells -> Contents], NEW d \in Used, NEW m \in Nat, NEW n \in Nat, m <= n,
           Has(c, d, m)
    PROVE  Has(c, d, n)
<1>1. PICK t \in Slots(d) : c[<<d, t>>].kind = "record" /\ c[<<d, t>>].seq <= m
  BY HasIs
<1>2. c[<<d, t>>].seq \in Nat
  BY CellNames DEF Places, Contents
<1>3. c[<<d, t>>].seq <= n
  BY <1>1, <1>2
<1> QED BY <1>1, <1>3, HasIs

\* A write elsewhere, or a record of generation n, leaves a domain readable.
LEMMA HasKept ==
    ASSUME NEW c \in [Cells -> Contents], NEW d \in Used, NEW n \in Nat, Has(c, d, n),
           NEW p \in Cells, NEW x, NEW e, e = [c EXCEPT ![p] = x],
           p[1] = d => x.kind = "record" /\ x.seq = n
    PROVE  Has(e, d, n)
<1>1. PICK t \in Slots(d) : c[<<d, t>>].kind = "record" /\ c[<<d, t>>].seq <= n
  BY HasIs
<1>2. <<d, t>> \in Cells
  BY CellNames DEF Places
<1>3. CASE p = <<d, t>>
  <2>1. e[<<d, t>>] = x /\ p[1] = d
    BY <1>2, <1>3
  <2>2. e[<<d, t>>].kind = "record" /\ e[<<d, t>>].seq <= n
    BY <2>1
  <2> QED BY <2>2, HasIs
<1>4. CASE p # <<d, t>>
  <2>1. e[<<d, t>>] = c[<<d, t>>]
    BY <1>2, <1>4
  <2> QED BY <1>1, <2>1, HasIs
<1> QED BY <1>3, <1>4

LEMMA HasMade ==
    ASSUME NEW c \in [Cells -> Contents], NEW d \in Used, NEW n \in Nat, NEW v,
           NEW e, e = [c EXCEPT ![CellOf(d, n)] = Content("record", n, v)]
    PROVE  Has(e, d, n)
<1>1. CellOf(d, n) \in Cells /\ CellOf(d, n) = <<d, CellOf(d, n)[2]>> /\ CellOf(d, n)[2] \in Slots(d)
  BY CellOfIs DEF Places
<1>2. PICK t \in Slots(d) : CellOf(d, n) = <<d, t>> /\ <<d, t>> \in Cells
  BY <1>1
<1>3. e[<<d, t>>] = Content("record", n, v)
  BY <1>2
<1>4. e[<<d, t>>].kind = "record" /\ e[<<d, t>>].seq <= n
  BY <1>3 DEF Content
<1> QED BY <1>4, HasIs

\* A marker in force bounds the generation from below.
LEMMA MarkedGeneration ==
    ASSUME NEW c \in [Cells -> Contents], NEW s \in {"A", "B"},
           c[<<"LayoutMarker", s>>].kind = "active"
    PROVE  c[<<"LayoutMarker", s>>].seq <= Generation(c)
<1> DEFINE a == c[<<"LayoutMarker", "A">>].seq
           b == c[<<"LayoutMarker", "B">>].seq
           M == Markers(c, {"active"})
<1>1. c[<<"LayoutMarker", s>>].seq \in M
  BY DEF Markers
<1>2. M \in SUBSET {a, b} /\ a \in Nat /\ b \in Nat
  BY MarkersOf
<1> HIDE DEF a, b, M
<1>3. \A m \in M : m <= Newest(M)
  BY <1>1, <1>2, NewestOfTwo
<1> QED BY <1>1, <1>3 DEF Generation, M

LEMMA MarkOfIs ==
    ASSUME NEW n
    PROVE  \E s \in {"A", "B"} : /\ CellOf("LayoutMarker", n) = <<"LayoutMarker", s>>
                                 /\ \A k : MarkOf(k, n) = Mark(k, s, n)
BY SlotNames DEF CellOf, MarkOf, Mark

\* Such a snapshot is one that the next boot restores.
LEMMA RestsReads ==
    ASSUME NEW c \in [Cells -> Contents], NEW n \in Nat, Rests(c, n, "none")
    PROVE  Selected(c) /\ ~Required(c)
<1>1. n > 0 /\ n <= Generation(c) /\ Generation(c) \in Nat
  BY GenerationType DEF Rests
<1>2. \A d \in Used : Readable(c, d, Generation(c)) # {}
  <2> SUFFICES ASSUME NEW d \in Used PROVE Has(c, d, Generation(c))
    BY DEF Has
  <2>1. Has(c, d, n)
    BY DEF Rests, Hit
  <2> QED BY <1>1, <2>1, HasGrows
<1>3. Generation(c) # 0
  BY <1>1
<1>4. Selected(c) /\ ReadGeneration(c) = Generation(c)
  BY <1>2, <1>3 DEF Selected, Complete, ReadGeneration
<1>5. \A d \in DoubleSlot : Present(c, d)
  BY <1>2, <1>3, <1>4 DEF Present, DoubleSlot
<1> QED BY <1>3, <1>4, <1>5 DEF Required

-----------------------------------------------------------------------------
(* The writes of each kind of save, seen this way.                           *)

RecordFor(d, n, v) == Write(CellOf(d, n), Content("record", n, v[d]))

LEMMA FittingWrites ==
    ASSUME NEW n \in Nat
    PROVE  /\ \A k \in {"prepared", "migrating", "active"} :
                /\ MarkOf(k, n) \in Fitting(n)
                /\ \A s \in {"A", "B"} : Mark(k, s, n) \in Fitting(n)
           /\ \A s \in {"A", "B"} : Write(<<"Legacy", s>>, Blank) \in Fitting(n)
           /\ \A d \in Used, v \in Configs : RecordFor(d, n, v) \in Fitting(n)
<1>1. ASSUME NEW k \in {"prepared", "migrating", "active"}, NEW s \in {"A", "B"}
      PROVE  Mark(k, s, n) \in Fitting(n)
  <2>1. Mark(k, s, n) \in Writes /\ Mark(k, s, n).place[1] = "LayoutMarker"
    BY MarkType DEF Mark, Write
  <2> QED BY <2>1, Names DEF Fitting
<1>2. ASSUME NEW k \in {"prepared", "migrating", "active"} PROVE MarkOf(k, n) \in Fitting(n)
  BY <1>1, MarkOfIs
<1>3. ASSUME NEW s \in {"A", "B"} PROVE Write(<<"Legacy", s>>, Blank) \in Fitting(n)
  <2>1. Write(<<"Legacy", s>>, Blank).place = <<"Legacy", s>> /\ Write(<<"Legacy", s>>, Blank) \in Writes
    BY CellNames, ContentType DEF Write, Writes
  <2> QED BY <2>1, Names DEF Fitting
<1>4. ASSUME NEW d \in Used, NEW v \in Configs PROVE RecordFor(d, n, v) \in Fitting(n)
  <2>1. CellOf(d, n) \in Cells /\ v[d] \in 0..MaxValue
    BY CellOfType DEF Places, Configs
  <2>2. Content("record", n, v[d]) \in Contents
    BY <2>1, ContentType
  <2>3. RecordFor(d, n, v) \in Writes
    BY <2>1, <2>2 DEF RecordFor, Write, Writes
  <2>4. RecordFor(d, n, v).content.kind = "record" /\ RecordFor(d, n, v).content.seq = n
    BY DEF RecordFor, Write, Content
  <2> QED BY <2>3, <2>4 DEF Fitting
<1> QED BY <1>1, <1>2, <1>3, <1>4

LEMMA CommitFits ==
    ASSUME NEW n \in Nat, NEW D \in SUBSET Used, NEW v \in Configs
    PROVE  /\ CommitWrites(n, D, v) \in Seq(Fitting(n))
           /\ \A d \in D : Ends(CommitWrites(n, D, v), RecordFor(d, n, v))
           /\ Ends(CommitWrites(n, D, v), MarkOf("active", n))
<1>1. CommitWrites(n, D, v) \in Seq(Fitting(n))
  <2> DEFINE a == <<MarkOf("prepared", n)>>
             b == DomainWrites(n, D, v)
             e == <<MarkOf("active", n)>>
             W == Fitting(n)
  <2>1. MarkOf("prepared", n) \in W /\ MarkOf("active", n) \in W
    BY FittingWrites
  <2>2. \A d \in D : Write(CellOf(d, n), Content("record", n, v[d])) \in W
    BY FittingWrites DEF RecordFor
  <2> HIDE DEF W
  <2>3. b \in Seq(W)
    BY <2>2, DomainWritesIn
  <2>4. a \in Seq(W) /\ e \in Seq(W)
    BY <2>1
  <2>5. CommitWrites(n, D, v) = a \o b \o e
    BY DEF CommitWrites
  <2> HIDE DEF a, b, e
  <2>6. a \o b \in Seq(W)
    BY <2>3, <2>4, ConcatProperties
  <2>7. (a \o b) \o e \in Seq(W)
    BY <2>4, <2>6, ConcatProperties
  <2> QED BY <2>5, <2>7 DEF W
<1> DEFINE j == Commit("init", n, D, v)
<1>2. j.op = "init" /\ j.seq = n /\ j.domains = D /\ j.config = v /\ j.todo = CommitWrites(n, D, v)
  BY DEF Commit, Job
<1>3. Arranged(j)
  BY CommitArranged
<1> HIDE DEF j
<1>4. \A f \in Finals(j) : Ends(CommitWrites(n, D, v), f)
  BY <1>2, <1>3 DEF Arranged
<1>5. MarkOf("active", n) \in Finals(j)
  BY <1>2 DEF Finals, Actives
<1>6. \A d \in D : RecordFor(d, n, v) \in Finals(j)
  BY <1>2 DEF Finals, RecordOf, RecordFor
<1> QED BY <1>1, <1>4, <1>5, <1>6

LEMMA MigrateFits ==
    ASSUME NEW n \in Nat, NEW v \in Configs
    PROVE  /\ MigrateWrites(n, v) \in Seq(Fitting(n))
           /\ \A d \in Used : Ends(MigrateWrites(n, v), RecordFor(d, n, v))
           /\ Ends(MigrateWrites(n, v), MarkOf("active", n))
<1>1. MigrateWrites(n, v) \in Seq(Fitting(n))
  <2> DEFINE a == <<Mark("migrating", "A", n), Mark("migrating", "B", n)>>
             b == DomainWrites(n, Used, v)
             l == <<Write(<<"Legacy", "A">>, Blank), Write(<<"Legacy", "B">>, Blank)>>
             e == <<Mark("active", "A", n), Mark("active", "B", n)>>
             W == Fitting(n)
  <2>1. \A s \in {"A", "B"} : /\ Mark("migrating", s, n) \in W /\ Mark("active", s, n) \in W
                              /\ Write(<<"Legacy", s>>, Blank) \in W
    BY FittingWrites
  <2>2. \A d \in Used : Write(CellOf(d, n), Content("record", n, v[d])) \in W
    BY FittingWrites DEF RecordFor
  <2> HIDE DEF W
  <2>3. b \in Seq(W)
    BY <2>2, DomainWritesIn
  <2>4. a \in Seq(W) /\ e \in Seq(W)
    BY <2>1
  <2>5. l \in Seq(W)
    BY <2>1
  <2>6. MigrateWrites(n, v) = a \o b \o l \o e
    BY DEF MigrateWrites
  <2> HIDE DEF a, b, l, e
  <2>7. a \o b \in Seq(W)
    BY <2>3, <2>4, ConcatProperties
  <2>8. (a \o b) \o l \in Seq(W)
    BY <2>5, <2>7, ConcatProperties
  <2>9. ((a \o b) \o l) \o e \in Seq(W)
    BY <2>4, <2>8, ConcatProperties
  <2> QED BY <2>6, <2>9 DEF W
<1> DEFINE j == Migrate("migrate", n, v)
<1>2. j.op = "migrate" /\ j.seq = n /\ j.domains = Used /\ j.config = v /\ j.todo = MigrateWrites(n, v)
  BY DEF Migrate, Job
<1>3. Arranged(j)
  BY MigrateArranged
<1> HIDE DEF j
<1>4. \A f \in Finals(j) : Ends(MigrateWrites(n, v), f)
  BY <1>2, <1>3 DEF Arranged
<1>5. MarkOf("active", n) \in Finals(j)
  BY <1>2, MarkOfIs DEF Finals, Actives
<1>6. \A d \in Used : RecordFor(d, n, v) \in Finals(j)
  BY <1>2 DEF Finals, RecordOf, RecordFor
<1> QED BY <1>1, <1>4, <1>5, <1>6

LEMMA RecoverFits ==
    ASSUME NEW n \in Nat
    PROVE  RecoverWrites(n) \in Seq(Fitting(n)) /\ Ends(RecoverWrites(n), MarkOf("active", n))
<1>1. RecoverWrites(n) \in Seq(Fitting(n))
  <2>1. Mark("active", "A", n) \in Fitting(n) /\ Mark("active", "B", n) \in Fitting(n)
    BY FittingWrites
  <2> QED BY <2>1 DEF RecoverWrites
<1>2. Mark("active", "A", n).place # Mark("active", "B", n).place
  BY DEF Mark, Write
<1>3. \A s \in {"A", "B"} : Ends(RecoverWrites(n), Mark("active", s, n))
  BY <1>2, Pair DEF RecoverWrites
<1> QED BY <1>1, <1>3, MarkOfIs

\* A write that is the last to its place is made now or comes later.
LEMMA EndsOn ==
    ASSUME NEW s \in Seq(Writes), s # <<>>, NEW f, Ends(s, f)
    PROVE  Head(s) = f \/ Ends(Tail(s), f)
<1> DEFINE t == Tail(s)
<1>1. /\ Head(s) = s[1] /\ Len(s) \in Nat \ {0} /\ Len(t) = Len(s) - 1
      /\ \A i \in 1..Len(t) : t[i] = s[i + 1]
  OBVIOUS
<1> HIDE DEF t
<1>2. PICK j \in 1..Len(s) : s[j] = f /\ \A i \in 1..Len(s) : j < i => s[i].place # f.place
  BY DEF Ends
<1>3. CASE j = 1
  BY <1>1, <1>2, <1>3
<1>4. CASE j # 1
  <2>1. j - 1 \in 1..Len(t) /\ t[j - 1] = f
    BY <1>1, <1>2, <1>4
  <2>2. \A i \in 1..Len(t) : j - 1 < i => t[i].place # f.place
    BY <1>1, <1>2, <1>4
  <2>3. Ends(t, f)
    BY <2>1, <2>2 DEF Ends
  <2> QED BY <2>3 DEF t
<1> QED BY <1>3, <1>4

-----------------------------------------------------------------------------
(* Every step leaves a silent loop with a whole snapshot.                    *)

\* What a step has to show.
LEMMA BackedNext ==
    ASSUME spent'.faults <= 1 => /\ lock'.uiIncompatible => lock'.incompatible
                                 /\ lock'.recovery => seq' > 0
                                 /\ ~Locked' /\ spent'.faults = 0 => ~attention' /\ fault' = "none"
                                 /\ mode' = "on" /\ job' = NoJob /\ ~Locked' => Rests(cell', seq', fault')
                                 /\ job' # NoJob =>
                                      /\ job'.op \in AtBoot => fault' = "none"
                                      /\ job'.op = "recover" => ~attention'
                                      /\ job'.op \in Retries /\ spent'.faults = 0 => Locked'
                                      /\ job'.op \in Saves => ~Locked'
                                      /\ Fills(cell', job', seq', fault')
    PROVE  Backed'
BY DEF Backed, Warned, WarnedJob, Idle, Rests, Fills, Has, Readable, Hit, Generation, Newest, Markers, Comes,
       Ends, Avoids, RecordOf, MarkOf, Write, Content, CellOf, Fitting

LEMMA HitIs == FaultDomains = Hit(fault)
BY DEF FaultDomains, Hit

\* The jobs as they begin.
LEMMA CommitFills ==
    ASSUME NEW c, NEW n \in Nat, NEW D \in SUBSET Used, NEW v \in Configs, NEW f,
           NEW op \in Saves \cup Retries \cup {"init"},
           op \in Saves => \A d \in Used \ Hit(f) : Has(c, d, n + 1),
           op \notin Saves => \A d \in Used \ D : Has(c, d, n + 1)
    PROVE  Fills(c, Commit(op, n + 1, D, v), n, f)
<1> DEFINE j == Commit(op, n + 1, D, v)
<1>1. j.op = op /\ j.seq = n + 1 /\ j.config = v /\ j.todo = CommitWrites(n + 1, D, v)
  BY DEF Commit, Job
<1>2. n + 1 \in Nat /\ n + 1 > 0
  OBVIOUS
<1> HIDE DEF j
<1>3. \A d \in D : Ends(j.todo, RecordOf(j, d))
  <2>1. \A d \in D : Ends(j.todo, RecordFor(d, n + 1, v))
    BY <1>1, <1>2, CommitFits
  <2> QED BY <1>1, <2>1 DEF RecordOf, RecordFor
<1>4. j.todo \in Seq(Fitting(j.seq)) /\ Ends(j.todo, MarkOf("active", j.seq))
  BY <1>1, <1>2, CommitFits
<1>5. Fills(c, j, n, f)
  BY <1>1, <1>2, <1>3, <1>4 DEF Fills, Comes
<1> QED BY <1>5 DEF j

LEMMA MigrateFills ==
    ASSUME NEW c, NEW n \in Nat, NEW v \in Configs, NEW f, NEW m, NEW op \in {"migrate", "retryFormat"}
    PROVE  Fills(c, Migrate(op, n + 1, v), m, f)
<1> DEFINE j == Migrate(op, n + 1, v)
<1>1. j.op = op /\ j.seq = n + 1 /\ j.config = v /\ j.todo = MigrateWrites(n + 1, v) /\ op \notin Saves
  BY DEF Migrate, Job, Saves
<1>2. n + 1 \in Nat /\ n + 1 > 0
  OBVIOUS
<1> HIDE DEF j
<1>3. \A d \in Used : Ends(j.todo, RecordOf(j, d))
  <2>1. \A d \in Used : Ends(j.todo, RecordFor(d, n + 1, v))
    BY <1>1, <1>2, MigrateFits
  <2> QED BY <1>1, <2>1 DEF RecordOf, RecordFor
<1>4. j.todo \in Seq(Fitting(j.seq)) /\ Ends(j.todo, MarkOf("active", j.seq))
  BY <1>1, <1>2, MigrateFits
<1>5. Fills(c, j, m, f)
  BY <1>1, <1>2, <1>3, <1>4 DEF Fills, Comes
<1> QED BY <1>5 DEF j

LEMMA RecoverFills ==
    ASSUME NEW c, NEW n \in Nat, n > 0, NEW v, NEW f, NEW m, NEW op \in {"recover", "retryFormat"},
           CompleteExactly(c, n)
    PROVE  Fills(c, Recover(op, n, v), m, f)
<1> DEFINE j == Recover(op, n, v)
<1>1. j.op = op /\ j.seq = n /\ j.todo = RecoverWrites(n) /\ op \notin Saves
  BY DEF Recover, Job, Saves
<1>2. \A d \in Used : Has(c, d, n)
  BY DEF CompleteExactly, Complete, Has
<1> HIDE DEF j
<1>3. j.todo \in Seq(Fitting(j.seq)) /\ Ends(j.todo, MarkOf("active", j.seq))
  BY <1>1, RecoverFits
<1>4. Fills(c, j, m, f)
  BY <1>1, <1>2, <1>3 DEF Fills, Comes
<1> QED BY <1>4 DEF j

LEMMA BootBacked ==
    ASSUME TypeOK, Boot
    PROVE  Backed'
<1> DEFINE legacy == Incompatible(cell) /\ LegacyRecords(cell) # {}
           blank  == ~Required(cell) /\ ~Incompatible(cell) /\ ~Selected(cell)
           source == IF legacy THEN [d \in Used |-> LegacyRecord(cell).val] ELSE Restored(cell)
           number == IF legacy THEN LegacyRecord(cell).seq
                     ELSE IF Selected(cell) THEN ReadGeneration(cell) ELSE 0
<1>1. /\ seq' = number /\ cell' = cell /\ fault' = "none"
      /\ lock' = [required |-> Required(cell), uiIncompatible |-> Incompatible(cell),
                  incompatible |-> Incompatible(cell), recovery |-> Recoverable(cell)]
      /\ attention' = (Incompatible(cell) \/ Required(cell))
      /\ job' = IF blank THEN Commit("init", 1, Used, Default)
                ELSE IF Recoverable(cell) THEN Recover("recover", number, source)
                ELSE IF legacy THEN Migrate("migrate", number + 1, source)
                ELSE NoJob
  BY DEF Boot
<1>2. cell \in [Cells -> Contents]
  BY TypeParts
<1>3. Locked' = attention' /\ lock'.uiIncompatible = lock'.incompatible
  BY <1>1 DEF Locked
<1>4. Recoverable(cell) =>
        /\ Selected(cell) /\ ~Incompatible(cell) /\ ~Required(cell)
        /\ ReadGeneration(cell) # 0 /\ CompleteExactly(cell, ReadGeneration(cell))
  <2> SUFFICES ASSUME Recoverable(cell)
               PROVE  /\ Selected(cell) /\ ~Incompatible(cell) /\ ~Required(cell)
                      /\ ReadGeneration(cell) # 0 /\ CompleteExactly(cell, ReadGeneration(cell))
    OBVIOUS
  <2>1. /\ Generation(cell) = 0 /\ ReadGeneration(cell) = MigrationGeneration(cell)
        /\ ReadGeneration(cell) # 0 /\ ~LegacyPresent(cell)
        /\ CompleteExactly(cell, ReadGeneration(cell))
    BY DEF Recoverable, ReadGeneration
  <2>2. Selected(cell) /\ ~Incompatible(cell)
    BY <2>1 DEF Selected, Incompatible
  <2>3. \A d \in DoubleSlot : Present(cell, d)
    BY <2>1 DEF CompleteExactly, Complete, Present, DoubleSlot
  <2> QED BY <2>1, <2>2, <2>3 DEF Required
<1>5. ReadGeneration(cell) \in Nat /\ Generation(cell) \in Nat
  BY <1>2, GenerationType
<1>6. CASE blank
  <2>1. job' = Commit("init", 1, Used, Default) /\ job'.op = "init"
    BY <1>1, <1>6, CommitFields
  <2>2. ~Recoverable(cell)
    BY <1>4, <1>6
  <2>3. seq' = 0
    BY <1>1, <1>6
  <2>4. Fills(cell', Commit("init", 0 + 1, Used, Default), 0, fault')
    BY CommitFills, DefaultType DEF Saves
  <2>5. Fills(cell', job', seq', fault')
    BY <2>1, <2>3, <2>4
  <2>6. ~attention' /\ ~lock'.recovery /\ job' # NoJob
    BY <1>1, <1>6, <2>1, <2>2, JobFields
  <2> QED BY <1>1, <1>3, <2>1, <2>5, <2>6, BackedNext DEF Retries, Saves, AtBoot
<1>7. CASE Recoverable(cell)
  <2>1. number = ReadGeneration(cell) /\ ~blank
    BY <1>4, <1>7
  <2>2. job' = Recover("recover", number, source) /\ job'.op = "recover" /\ seq' = ReadGeneration(cell)
    BY <1>1, <1>7, <2>1, JobFields
  <2>3. Fills(cell', job', seq', fault')
    <3>1. CompleteExactly(cell, number) /\ number \in Nat /\ number > 0
      BY <1>4, <1>5, <1>7, <2>1
    <3> HIDE DEF number, source
    <3> QED BY <1>1, <2>2, <3>1, RecoverFills
  <2>4. ~attention' /\ seq' > 0 /\ job' # NoJob
    <3>1. ~attention'
      BY <1>1, <1>4, <1>7
    <3>2. seq' > 0
      BY <1>4, <1>5, <1>7, <2>2
    <3>3. job' # NoJob
      BY <2>2, JobFields
    <3> QED BY <3>1, <3>2, <3>3
  <2> QED BY <1>1, <1>3, <2>2, <2>3, <2>4, BackedNext DEF Retries, Saves, AtBoot
<1>8. CASE ~blank /\ ~Recoverable(cell) /\ legacy
  <2>1. job' = Migrate("migrate", number + 1, source) /\ number \in Nat /\ source \in Configs
    BY <1>1, <1>2, <1>8, LegacyType
  <2> HIDE DEF number, source
  <2>2. job'.op = "migrate" /\ job' # NoJob /\ ~lock'.recovery
    BY <1>1, <1>8, <2>1, MigrateFields
  <2>3. Fills(cell', job', seq', fault')
    BY <2>1, MigrateFills
  <2>4. ~Locked' => ~attention'
    BY <1>3
  <2> QED BY <1>1, <1>3, <2>2, <2>3, <2>4, BackedNext DEF Retries, Saves, AtBoot
<1>9. CASE ~blank /\ ~Recoverable(cell) /\ ~legacy
  <2>1. job' = NoJob /\ ~lock'.recovery
    BY <1>1, <1>9
  <2>2. ASSUME ~Locked' PROVE Rests(cell', seq', fault')
    <3>1. ~Required(cell) /\ ~Incompatible(cell)
      BY <1>1, <2>2 DEF Locked
    <3>2. Selected(cell) /\ number = ReadGeneration(cell)
      BY <1>9, <3>1
    <3>3. Generation(cell) # 0 /\ Complete(cell, Generation(cell))
      BY <1>9, <3>2 DEF Selected
    <3>4. seq' = Generation(cell)
      BY <1>1, <3>2, <3>3 DEF ReadGeneration
    <3>5. seq' > 0 /\ seq' <= Generation(cell) /\ \A d \in Used : Has(cell, d, seq')
      BY <1>5, <3>3, <3>4 DEF Complete, Has
    <3> QED BY <1>1, <3>5 DEF Rests
  <2> QED BY <1>1, <1>3, <2>1, <2>2, BackedNext
<1> QED BY <1>6, <1>7, <1>8, <1>9

\* A step of the idle loop that starts no save.
LEMMA IdleBacked ==
    ASSUME Backed, Idle, UNCHANGED <<cell, mode, seq, lock, fault, job>>, spent'.faults = spent.faults,
           attention' => attention
    PROVE  Backed'
<1>1. Locked' = Locked
  BY DEF Locked
<1> QED BY <1>1, BackedNext DEF Backed, Warned, Idle

\* A deferred or an immediate save begins.
LEMMA SaveBacked ==
    ASSUME TypeOK, Backed, Idle, ~Locked, NEW op \in Saves, NEW D \in SUBSET Used,
           cfg' \in Configs, job' = Commit(op, seq + 1, D, cfg'),
           UNCHANGED <<cell, mode, seq, lock, fault, attention>>, spent'.faults = spent.faults
    PROVE  Backed'
<1> SUFFICES ASSUME spent.faults <= 1 PROVE Backed'
  BY BackedNext
<1>1. seq \in Nat /\ cell \in [Cells -> Contents] /\ Rests(cell, seq, fault) /\ Warned
  BY TypeParts DEF Backed
<1>2. \A d \in Used \ Hit(fault) : Has(cell, d, seq + 1)
  <2> SUFFICES ASSUME NEW d \in Used \ Hit(fault) PROVE Has(cell, d, seq + 1)
    OBVIOUS
  <2>1. Has(cell, d, seq) \/ Has(cell, d, seq + 1)
    BY <1>1 DEF Rests
  <2>2. seq + 1 \in Nat /\ seq <= seq + 1
    BY <1>1
  <2> QED BY <1>1, <2>1, <2>2, HasGrows
<1>3. Fills(cell, job', seq, fault)
  BY <1>1, <1>2, CommitFills
<1>4. job'.op = op
  BY CommitFields
<1>5. Locked' = Locked
  BY DEF Locked
<1>6. mode' = "on" /\ job' # NoJob
  BY <1>4, JobFields DEF Saves, Idle
<1> QED BY <1>1, <1>3, <1>4, <1>5, <1>6, BackedNext DEF Warned, Saves, Retries, AtBoot

LEMMA RetryBacked ==
    ASSUME TypeOK, Backed, Retry
    PROVE  Backed'
<1>1. /\ cell \in [Cells -> Contents] /\ seq \in Nat /\ cfg \in Configs /\ lock \in Locks
      /\ fault \in Faults /\ spent \in Uses
  BY TypeParts
<1>2. /\ Idle /\ attention /\ UNCHANGED <<cell, mode, lock>>
      /\ spent' = spent \/ spent' = [spent EXCEPT !.faults = @ + 1]
  BY DEF Retry
<1>3. spent'.faults >= spent.faults /\ spent.faults \in Nat /\ spent'.faults \in Nat
  BY <1>1, <1>2 DEF Uses
<1> SUFFICES ASSUME spent.faults <= 1 PROVE Backed'
  <2>1. ~(spent.faults <= 1) => ~(spent'.faults <= 1)
    BY <1>3
  <2> QED BY <2>1, BackedNext
<1>4. Warned /\ (~Locked => Rests(cell, seq, fault))
  BY <1>2 DEF Backed
<1>5. Locked' = Locked /\ (spent.faults = 0 => Locked) /\ mode' = "on"
  BY <1>2, <1>4 DEF Locked, Warned, Idle
\* A retry that starts a job.
<1>6. ASSUME job'.op \in Retries, Fills(cell, job', seq', fault'), lock.recovery => seq' > 0,
             spent' = spent
      PROVE  Backed'
  <2>1. job' # NoJob
    BY <1>6, JobFields DEF Retries
  <2>2. job'.op \notin AtBoot /\ job'.op \notin Saves /\ job'.op # "recover"
    BY <1>6 DEF Retries, AtBoot, Saves
  <2> QED BY <1>2, <1>4, <1>5, <1>6, <2>1, <2>2, BackedNext DEF Warned
\* One that only reports.
<1>7. ASSUME fault' = "LayoutMarker", UNCHANGED <<job, seq>>
      PROVE  Backed'
  <2>1. Rests(cell', seq', fault')
    BY <1>7 DEF Rests, Hit
  <2>2. spent'.faults = 0 => Locked'
    BY <1>3, <1>5
  <2>3. job' = NoJob
    BY <1>2, <1>7 DEF Idle
  <2> QED BY <1>2, <1>4, <1>7, <2>1, <2>2, <2>3, BackedNext DEF Warned
<1>8. CASE lock.recovery
  <2>1. seq' = seq /\ seq > 0
    BY <1>2, <1>4, <1>8 DEF Retry, Warned, Idle
  <2>2. CASE CompleteExactly(cell, seq) /\ job' = Recover("retryFormat", seq, ValuesAt(cell, seq)) /\ spent' = spent
    <3>1. job'.op = "retryFormat"
      BY <2>2, JobFields
    <3>2. Fills(cell, job', seq', fault')
      BY <1>1, <2>1, <2>2, RecoverFills
    <3> QED BY <1>6, <2>1, <2>2, <3>1, <3>2 DEF Retries
  <2>3. CASE fault' = "LayoutMarker" /\ UNCHANGED job
    BY <1>7, <2>1, <2>3
  <2> QED BY <1>8, <2>2, <2>3 DEF Retry, BlankRetry
<1>9. CASE ~lock.recovery /\ lock.incompatible
  <2>1. CASE LegacyRecords(cell) # {} /\ job' = Migrate("retryFormat", seq' + 1, cfg')
             /\ seq' = LegacyRecord(cell).seq /\ cfg' = [d \in Used |-> LegacyRecord(cell).val]
             /\ spent' = spent
    <3>1. seq' \in Nat /\ cfg' \in Configs
      BY <1>1, <2>1, LegacyType
    <3>2. job'.op = "retryFormat"
      BY <2>1, JobFields
    <3>3. Fills(cell, job', seq', fault')
      BY <2>1, <3>1, MigrateFills
    <3> QED BY <1>6, <1>9, <2>1, <3>2, <3>3 DEF Retries
  <2>2. CASE fault' = "LayoutMarker" /\ UNCHANGED <<job, seq>>
    BY <1>7, <2>2
  <2>3. \/ /\ LegacyRecords(cell) # {} /\ job' = Migrate("retryFormat", seq' + 1, cfg')
           /\ seq' = LegacyRecord(cell).seq /\ cfg' = [d \in Used |-> LegacyRecord(cell).val]
           /\ spent' = spent
        \/ fault' = "LayoutMarker" /\ UNCHANGED <<job, seq>>
    BY <1>9 DEF Retry, BlankRetry
  <2> QED BY <2>1, <2>2, <2>3
<1>10. CASE BlankRetry
  <2>1. /\ job' = Commit("retryFormat", 1, Used, Default) /\ seq' = seq /\ fault' = fault
        /\ spent' = spent /\ seq = 0 /\ ~lock.recovery
    BY <1>10 DEF Retry, BlankRetry
  <2>2. Fills(cell, Commit("retryFormat", 0 + 1, Used, Default), 0, fault)
    BY DefaultType, CommitFills DEF Saves, Retries
  <2>3. Fills(cell, job', seq', fault') /\ job'.op = "retryFormat"
    BY <2>1, <2>2, CommitFields
  <2> QED BY <1>6, <2>1, <2>3 DEF Retries
<1>11. CASE ~lock.recovery /\ ~lock.incompatible /\ ~BlankRetry
  <2> DEFINE D == IF lock.required THEN Used ELSE Changed \cup FaultDomains
  <2>1. /\ job' = IF D = {} THEN Job("retry", seq, {}, cfg, <<>>) ELSE Commit("retry", seq + 1, D, cfg)
        /\ seq' = seq /\ fault' = fault /\ spent' = spent
    BY <1>11 DEF Retry
  <2>2. D \in SUBSET Used
    BY <1>1 DEF Changed, FaultDomains, Faults
  <2>3. ~lock.required => ~Locked /\ Hit(fault) \subseteq D /\ Rests(cell, seq, fault)
    <3>1. ~lock.required => ~Locked
      BY <1>4, <1>11 DEF Warned, Locked
    <3> QED BY <1>4, <3>1, HitIs
  <2>4. lock.required => D = Used /\ D # {}
    BY JournalAssumption DEF DoubleSlot
  <2> HIDE DEF D
  <2>5. CASE D # {}
    <3>1. \A d \in Used \ D : Has(cell, d, seq + 1)
      <4> SUFFICES ASSUME NEW d \in Used \ D PROVE Has(cell, d, seq + 1)
        OBVIOUS
      <4>1. d \notin Hit(fault) /\ Rests(cell, seq, fault)
        BY <2>3, <2>4
      <4>2. Has(cell, d, seq) \/ Has(cell, d, seq + 1)
        BY <4>1 DEF Rests
      <4>3. seq + 1 \in Nat /\ seq <= seq + 1
        BY <1>1
      <4> QED BY <1>1, <4>2, <4>3, HasGrows
    <3>2. Fills(cell, Commit("retry", seq + 1, D, cfg), seq, fault)
      BY <1>1, <2>2, <3>1, CommitFills DEF Saves, Retries
    <3>3. job'.op = "retry" /\ Fills(cell, job', seq', fault')
      BY <2>1, <2>5, <3>2, CommitFields
    <3> QED BY <1>6, <1>11, <2>1, <3>3 DEF Retries
  <2>6. CASE D = {}
    <3>1. job' = Job("retry", seq, {}, cfg, <<>>)
      BY <2>1, <2>6
    <3>2. job'.op = "retry" /\ job'.seq = seq /\ job'.todo = <<>>
      BY <3>1 DEF Job
    <3>3. Hit(fault) = {} /\ Rests(cell, seq, fault)
      BY <2>3, <2>4, <2>6
    <3>4. fault = "none"
      BY <1>1, <3>3, JournalAssumption DEF Hit, Faults, DoubleSlot
    <3>5. seq > 0 /\ seq <= Generation(cell) /\ \A d \in Used : Has(cell, d, seq)
      BY <3>3, <3>4 DEF Rests
    <3>6. job'.todo \in Seq(Fitting(job'.seq)) /\ job'.op \notin Saves
      BY <3>2 DEF Saves
    <3>7. Fills(cell, job', seq', fault')
      BY <3>2, <3>5, <3>6 DEF Fills
    <3> QED BY <1>6, <1>11, <2>1, <3>2, <3>7 DEF Retries
  <2> QED BY <2>5, <2>6
<1> QED BY <1>8, <1>9, <1>10, <1>11 DEF BlankRetry

LEMMA WriteBacked ==
    ASSUME TypeOK, Backed, WriteRecord
    PROVE  Backed'
<1>1. /\ cell \in [Cells -> Contents] /\ seq \in Nat /\ job \in Jobs /\ job.todo # <<>>
      /\ UNCHANGED <<mode, seq, lock, fault, attention, spent>>
  BY TypeParts DEF WriteRecord, Writing
<1> SUFFICES ASSUME spent.faults <= 1 PROVE Backed'
  BY <1>1, BackedNext
<1> DEFINE h == Head(job.todo)
           t == Tail(job.todo)
<1>2. /\ job.todo \in Seq(Writes) /\ job.seq \in Nat /\ job # NoJob
  BY <1>1, JobFields DEF Jobs
<1>3. Fills(cell, job, seq, fault) /\ WarnedJob /\ Warned
  BY <1>2 DEF Backed
<1>4. /\ cell' = [cell EXCEPT ![h.place] = h.content] /\ job'.todo = t
      /\ job'.op = job.op /\ job'.seq = job.seq /\ job'.config = job.config
  BY <1>1 DEF WriteRecord, Head1, Jobs
<1>5. h \in Fitting(job.seq) /\ t \in Seq(Fitting(job.seq)) /\ job.todo \in Seq(Fitting(job.seq))
  BY <1>1, <1>3, HeadTailProperties DEF Fills
<1>6. h.place \in Cells /\ (h.place[1] \in Used => h.content.kind = "record" /\ h.content.seq = job.seq)
  BY <1>5 DEF Fitting, Writes
<1>7. Comes(cell', t, MarkOf("active", job.seq))
  <2>1. Comes(cell, job.todo, MarkOf("active", job.seq)) /\ MarkOf("active", job.seq) \in Writes
    BY <1>1, <1>2, <1>3, MarkType DEF Fills
  <2> QED BY <1>1, <1>2, <1>4, <2>1, OneWriteOn
<1>8. ASSUME NEW d \in Used, Ends(job.todo, RecordOf(job, d))
      PROVE  Has(cell', d, job.seq) \/ Ends(t, RecordOf(job, d))
  <2>1. CASE h = RecordOf(job, d)
    <3>1. h.place = CellOf(d, job.seq) /\ h.content = Content("record", job.seq, job.config[d])
      BY <2>1 DEF RecordOf, Write
    <3>2. cell' = [cell EXCEPT ![CellOf(d, job.seq)] = Content("record", job.seq, job.config[d])]
      BY <1>4, <3>1
    <3> QED BY <1>1, <1>2, <3>2, HasMade
  <2>2. CASE Ends(t, RecordOf(job, d))
    BY <2>2
  <2> HIDE DEF h, t
  <2> QED BY <1>1, <1>2, <1>8, <2>1, <2>2, EndsOn DEF h, t
<1> HIDE DEF h, t
<1>9. \A d \in Used : Has(cell, d, job.seq) => Has(cell', d, job.seq)
  BY <1>1, <1>2, <1>4, <1>6, HasKept
<1>10. Fills(cell', job', seq', fault')
  <2>1. \A d : RecordOf(job', d) = RecordOf(job, d)
    BY <1>4 DEF RecordOf
  <2>2. job'.seq > 0 /\ job'.todo \in Seq(Fitting(job'.seq)) /\ Comes(cell', job'.todo, MarkOf("active", job'.seq))
    BY <1>3, <1>4, <1>5, <1>7 DEF Fills
  <2>3. job.op \in Saves => job.seq = seq + 1 /\ \A d \in Used \ Hit(fault) : Has(cell', d, job.seq)
    BY <1>3, <1>9 DEF Fills
  <2>4. job.op \notin Saves => \A d \in Used : Has(cell', d, job.seq) \/ Ends(t, RecordOf(job, d))
    BY <1>3, <1>8, <1>9 DEF Fills
  <2> QED BY <1>1, <1>4, <2>1, <2>2, <2>3, <2>4 DEF Fills
<1>11. job' # NoJob \/ job.op = "none"
  BY <1>4, JobFields
<1>12. Locked' = Locked
  BY <1>1 DEF Locked
<1>13. CASE job' # NoJob
  BY <1>1, <1>3, <1>4, <1>10, <1>12, <1>13, BackedNext DEF Warned, WarnedJob
<1>14. job' # NoJob
  <2>1. job'.seq > 0 /\ NoJob.seq = 0
    BY <1>10 DEF Fills, NoJob
  <2> QED BY <2>1
<1> QED BY <1>13, <1>14

LEMMA FinishBacked ==
    ASSUME TypeOK, Backed, Finish
    PROVE  Backed'
<1>1. /\ cell \in [Cells -> Contents] /\ seq \in Nat /\ job \in Jobs /\ lock \in Locks /\ attention \in BOOLEAN
      /\ job.op # "none" /\ job.todo = <<>> /\ job.seq \in Nat
      /\ job' = NoJob /\ mode' = "on" /\ seq' = job.seq /\ UNCHANGED <<cell, spent>>
  BY TypeParts DEF Finish, Writing, Jobs
<1> SUFFICES ASSUME spent.faults <= 1 PROVE Backed'
  BY <1>1, BackedNext
<1>2. Fills(cell, job, seq, fault) /\ WarnedJob /\ Warned
  BY <1>1, JobFields DEF Backed
<1>3. job.seq > 0 /\ job.seq <= Generation(cell)
  <2>1. CASE Comes(cell, job.todo, MarkOf("active", job.seq))
    <3>1. cell[MarkOf("active", job.seq).place] = MarkOf("active", job.seq).content
      BY <1>1, <2>1 DEF Comes, Ends
    <3>2. PICK s \in {"A", "B"} : MarkOf("active", job.seq) = Mark("active", s, job.seq)
      BY MarkOfIs
    <3>3. cell[<<"LayoutMarker", s>>].kind = "active" /\ cell[<<"LayoutMarker", s>>].seq = job.seq
      BY <3>1, <3>2 DEF Mark, Write, Content
    <3> QED BY <1>1, <1>2, <3>3, MarkedGeneration DEF Fills
  <2> QED BY <1>2, <2>1 DEF Fills
<1>4. CASE job.op \in Saves
  <2>1. UNCHANGED <<lock, fault, attention>> /\ ~Locked
    BY <1>2, <1>4 DEF Finish, Saves, WarnedJob
  <2>2. \A d \in Used \ Hit(fault) : Has(cell, d, job.seq)
    BY <1>2, <1>4 DEF Fills
  <2>3. job.seq + 1 \in Nat /\ job.seq <= job.seq + 1
    BY <1>1
  <2>4. \A d \in Used \ Hit(fault) : Has(cell, d, job.seq + 1)
    BY <1>1, <2>2, <2>3, HasGrows
  <2>5. Rests(cell', seq', fault')
    BY <1>1, <1>3, <2>1, <2>2, <2>4 DEF Rests
  <2>6. Locked' = Locked
    BY <2>1 DEF Locked
  <2> QED BY <1>1, <1>2, <1>3, <2>1, <2>5, <2>6, BackedNext DEF Warned
<1>5. CASE job.op \notin Saves
  <2>1. \A d \in Used : Has(cell, d, job.seq)
    BY <1>1, <1>2, <1>5 DEF Fills, Ends
  <2>2. job.seq + 1 \in Nat /\ job.seq <= job.seq + 1
    BY <1>1
  <2>3. \A d \in Used : Has(cell, d, job.seq + 1)
    BY <1>1, <2>1, <2>2, HasGrows
  <2>4. Rests(cell', seq', fault')
    BY <1>1, <1>3, <2>1, <2>3 DEF Rests
  <2>5. /\ lock'.uiIncompatible => lock'.incompatible
        /\ ~Locked' /\ spent.faults = 0 => ~attention' /\ fault' = "none"
    <3>1. CASE job.op = "retryFormat"
      <4>1. lock' = Unlocked /\ fault' = "none" /\ attention' = FALSE
        BY <3>1 DEF Finish
      <4> QED BY <4>1 DEF Unlocked
    <3>2. CASE job.op = "migrate"
      <4>1. lock' = [lock EXCEPT !.required = FALSE, !.uiIncompatible = FALSE]
            /\ fault' = fault /\ attention' = FALSE
        BY <3>2 DEF Finish
      <4> QED BY <1>1, <1>2, <3>2, <4>1 DEF Locks, WarnedJob, AtBoot
    <3>3. CASE job.op = "recover"
      <4>1. lock' = [lock EXCEPT !.required = FALSE, !.recovery = FALSE] /\ UNCHANGED <<fault, attention>>
        BY <3>3 DEF Finish
      <4> QED BY <1>1, <1>2, <3>3, <4>1 DEF Locks, WarnedJob, AtBoot, Warned
    <3>4. CASE job.op = "retry" /\ job.domains \cap DoubleSlot # {}
      <4>1. lock' = [lock EXCEPT !.required = FALSE, !.uiIncompatible = FALSE]
            /\ fault' = "none" /\ attention' = FALSE
        BY <3>4 DEF Finish
      <4> QED BY <1>1, <4>1 DEF Locks
    <3>5. CASE job.op = "retry" /\ job.domains \cap DoubleSlot = {}
      <4>1. /\ fault' = IF Locked THEN fault ELSE "none"
            /\ attention' = (Locked /\ attention) /\ lock' = lock
        BY <3>5 DEF Finish
      <4>2. Locked' = Locked
        BY <4>1 DEF Locked
      <4> QED BY <1>2, <4>1, <4>2 DEF Warned
    <3>6. CASE job.op = "init"
      <4>1. UNCHANGED <<lock, fault, attention>>
        BY <3>6 DEF Finish
      <4>2. Locked' = Locked
        BY <4>1 DEF Locked
      <4> QED BY <1>2, <4>1, <4>2 DEF Warned
    <3> QED BY <1>1, <1>5, <3>1, <3>2, <3>3, <3>4, <3>5, <3>6 DEF Jobs, Ops, Saves
  <2> QED BY <1>1, <1>3, <2>4, <2>5, BackedNext
<1> QED BY <1>4, <1>5

\* Who holds the lock after a write failed.
LEMMA FailureLocks ==
    ASSUME lock \in Locks, NEW left, WriteFails(left)
    PROVE  /\ lock'.uiIncompatible = lock.uiIncompatible /\ lock'.incompatible = lock.incompatible
           /\ lock'.recovery = lock.recovery /\ (lock.required => lock'.required)
           /\ job.op \in AtBoot => lock'.required
           /\ job.op \in Saves => fault' = FailedDomain /\ (FailedDomain \notin Ordinary => lock'.required)
           /\ job.op \in Retries => lock' = lock
           /\ job.op \in Saves \cup Retries \cup AtBoot
<1>1. CASE job.op \in Saves
  <2>1. /\ lock' = [lock EXCEPT !.required = @ \/ RequiresHeaterLock(FailedDomain)]
        /\ fault' = FailedDomain
    BY <1>1 DEF WriteFails, SaveFailed, Saves
  <2>2. /\ lock'.uiIncompatible = lock.uiIncompatible /\ lock'.incompatible = lock.incompatible
        /\ lock'.recovery = lock.recovery
        /\ lock'.required = (lock.required \/ RequiresHeaterLock(FailedDomain))
    BY <2>1 DEF Locks
  <2>3. job.op \notin AtBoot /\ job.op \notin Retries
    BY <1>1 DEF Saves, Retries, AtBoot
  <2> QED BY <1>1, <2>1, <2>2, <2>3 DEF RequiresHeaterLock
<1>2. CASE job.op \in Retries
  BY <1>2 DEF WriteFails, Saves, Retries, AtBoot
<1>3. CASE job.op \in AtBoot
  <2>1. lock' = [lock EXCEPT !.required = TRUE] /\ job.op \notin Saves /\ job.op \notin Retries
    BY <1>3 DEF WriteFails, Saves, Retries, AtBoot
  <2> QED BY <1>3, <2>1 DEF Locks
<1>4. job.op \in Saves \cup Retries \cup AtBoot
  BY DEF WriteFails, Saves, Retries, AtBoot
<1> QED BY <1>1, <1>2, <1>3, <1>4

LEMMA FailureBacked ==
    ASSUME TypeOK, Backed, NEW left \in Leftovers, WriteFails(left)
    PROVE  Backed'
<1>1. /\ cell \in [Cells -> Contents] /\ seq \in Nat /\ job \in Jobs /\ lock \in Locks /\ spent \in Uses
      /\ job.todo # <<>> /\ job # NoJob /\ Writing
      /\ job' = NoJob /\ mode' = "on" /\ UNCHANGED seq
      /\ cell' = [cell EXCEPT ![Head1.place] = left]
      /\ spent' = [spent EXCEPT !.faults = @ + 1]
  BY TypeParts, JobFields DEF WriteFails, Writing
<1>2. spent'.faults = spent.faults + 1 /\ spent.faults \in Nat
  BY <1>1 DEF Uses
<1> SUFFICES ASSUME spent'.faults <= 1 PROVE Backed'
  BY BackedNext
<1>3. spent.faults = 0 /\ spent'.faults # 0
  BY <1>2
<1>4. Fills(cell, job, seq, fault) /\ WarnedJob /\ Warned
  BY <1>1, <1>3 DEF Backed
<1>5. lock.recovery => seq > 0
  BY <1>4 DEF Warned
<1>6. /\ lock'.uiIncompatible = lock.uiIncompatible /\ lock'.incompatible = lock.incompatible
      /\ lock'.recovery = lock.recovery /\ (lock.required => lock'.required)
      /\ job.op \in AtBoot => lock'.required
      /\ job.op \in Saves => fault' = FailedDomain /\ (FailedDomain \notin Ordinary => lock'.required)
      /\ job.op \in Retries => lock' = lock
  BY <1>1, FailureLocks
<1>7. job.op \in Saves \cup Retries \cup AtBoot
  BY <1>1, FailureLocks
<1>8. ASSUME ~Locked' PROVE Rests(cell', seq', fault')
  <2>1. ~lock'.required /\ ~lock.required /\ ~lock.uiIncompatible
    BY <1>6, <1>8 DEF Locked
  <2>2. job.op \in Saves /\ FailedDomain \in Ordinary
    BY <1>3, <1>4, <1>6, <1>7, <2>1 DEF WarnedJob, Locked
  <2>3. fault = "none" /\ fault' = FailedDomain /\ FailedDomain \in Used /\ FailedDomain # "none"
    BY <1>3, <1>4, <1>6, <2>1, <2>2, Names DEF Warned, Locked, Ordinary
  <2>4. Head1.place[1] = FailedDomain /\ Head1.place \in Cells
    BY <1>1, <2>3, HeadType, Names DEF FailedDomain
  <2>5. job.seq = seq + 1 /\ \A d \in Used : Has(cell, d, seq + 1)
    BY <1>4, <2>2, <2>3 DEF Fills, Hit
  <2>6. seq + 1 \in Nat
    BY <1>1
  <2>7. \A d \in Used \ {FailedDomain} : Has(cell', d, seq + 1)
    BY <1>1, <2>4, <2>5, <2>6, HasKept
  <2>8. Hit(fault') = {FailedDomain}
    BY <2>3, Names DEF Hit
  <2> QED BY <1>1, <2>3, <2>7, <2>8 DEF Rests
<1> QED BY <1>1, <1>3, <1>4, <1>5, <1>6, <1>8, BackedNext DEF Warned

LEMMA OffStep == OffIsIdle /\ [Next]_vars => OffIsIdle'
<1> SUFFICES ASSUME OffIsIdle, [Next]_vars, mode' = "off" PROVE job' = NoJob
  BY DEF OffIsIdle
<1>1. CASE UNCHANGED vars
  BY <1>1 DEF vars, OffIsIdle
<1>2. CASE Boot \/ BootUnreadable
  BY <1>2 DEF Boot, BootUnreadable
<1>3. CASE DropDue \/ ReadSnapshot \/ CommitDeferred \/ Acknowledge \/ Retry
  BY <1>3 DEF DropDue, ReadSnapshot, CommitDeferred, Acknowledge, Retry, Idle
<1>4. CASE \E D, v : Edit(D, v) \/ SaveNow(D, v)
  BY <1>4 DEF Edit, SaveNow, Idle
<1>5. CASE WriteRecord
  BY <1>5 DEF WriteRecord, Writing, OffIsIdle, NoJob
<1>6. CASE Finish
  BY <1>6 DEF Finish
<1>7. CASE \E left : WriteFails(left) \/ Restart(left)
  BY <1>7 DEF WriteFails, Restart
<1> QED BY <1>1, <1>2, <1>3, <1>4, <1>5, <1>6, <1>7 DEF Next

LEMMA BackedStep == BackedInv /\ [Next]_vars => BackedInv'
<1> SUFFICES ASSUME TypeOK, OffIsIdle, Backed, [Next]_vars PROVE Backed'
  BY TypeStep, OffStep DEF BackedInv
<1>0. spent \in Uses /\ cfg \in Configs
  BY TypeParts
<1>1. CASE UNCHANGED vars
  BY <1>1, BackedNext DEF vars, Backed, Warned, WarnedJob, Locked, Idle
<1>2. CASE Boot
  BY <1>2, BootBacked
<1>3. CASE BootUnreadable
  <2>1. /\ job' = NoJob /\ lock' = [Unlocked EXCEPT !.required = TRUE] /\ spent'.faults # 0
    BY <1>0, <1>3 DEF BootUnreadable, OffIsIdle, Uses
  <2>2. Locked' /\ ~lock'.recovery /\ ~lock'.uiIncompatible
    BY <2>1 DEF Locked, Unlocked
  <2> QED BY <1>3, <2>1, <2>2, BackedNext DEF BootUnreadable
<1>4. ASSUME NEW D \in SUBSET Used, NEW v \in 0..MaxValue, Edit(D, v) PROVE Backed'
  BY <1>0, <1>4, IdleBacked DEF Edit, Uses
<1>5. CASE DropDue
  BY <1>5, IdleBacked DEF DropDue
<1>6. CASE ReadSnapshot
  BY <1>6, IdleBacked DEF ReadSnapshot
<1>7. CASE CommitDeferred
  <2>1. Changed \in SUBSET Used /\ cfg' = cfg
    BY <1>7 DEF Changed, CommitDeferred
  <2> QED BY <1>0, <1>7, <2>1, SaveBacked DEF CommitDeferred, Saves
<1>8. ASSUME NEW D \in SUBSET Used, NEW v \in 0..MaxValue, SaveNow(D, v) PROVE Backed'
  <2>1. spent'.faults = spent.faults
    BY <1>0, <1>8 DEF SaveNow, Uses
  <2>2. cfg' \in Configs
    BY <1>0, <1>8 DEF SaveNow, Configs
  <2> QED BY <1>8, <2>1, <2>2, SaveBacked DEF SaveNow, Saves
<1>9. CASE Acknowledge
  BY <1>9, IdleBacked DEF Acknowledge
<1>10. CASE Retry
  BY <1>10, RetryBacked
<1>11. CASE WriteRecord
  BY <1>11, WriteBacked
<1>12. CASE Finish
  BY <1>12, FinishBacked
<1>13. ASSUME NEW left \in (IF Writing THEN Leftovers ELSE {}), WriteFails(left) PROVE Backed'
  BY <1>13, FailureBacked DEF WriteFails
<1>14. ASSUME NEW left, Restart(left) PROVE Backed'
  <2>1. job' = NoJob /\ mode' = "off" /\ lock' = Unlocked /\ fault' = "none" /\ attention' = FALSE
    BY <1>14 DEF Restart
  <2> QED BY <2>1, BackedNext DEF Unlocked
<1> QED BY <1>1, <1>2, <1>3, <1>4, <1>5, <1>6, <1>7, <1>8, <1>9, <1>10, <1>11, <1>12, <1>13, <1>14
       DEF Next, ImmediateDomains

\* After any number of power losses and at most one failed write, read or boot: a loop that runs
\* unlocked and reports no fault has a whole snapshot in the EEPROM, so that a restart at this
\* point would not lock the heater, whichever domains the saves since then wrote and whatever a
\* retry repaired (runtime_retry_persistence, commit_memory_config_now, initialize_boot_memory).
THEOREM SilentLoopIsBacked == Spec => []UnlockedIsBacked
<1>1. Init => BackedInv
  <2> SUFFICES ASSUME Init PROVE OffIsIdle /\ Backed
    BY TypeInit DEF BackedInv
  <2>1. mode = "off" /\ job = NoJob /\ lock = Unlocked /\ fault = "none" /\ attention = FALSE
    BY DEF Init
  <2> QED BY <2>1 DEF OffIsIdle, Backed, Warned, Idle, Unlocked
<1>2. BackedInv => UnlockedIsBacked
  <2> SUFFICES ASSUME TypeOK, Backed, Idle, ~Locked, fault = "none", spent.faults <= 1
               PROVE  Selected(cell) /\ ~Required(cell)
    BY DEF BackedInv, UnlockedIsBacked
  <2>1. cell \in [Cells -> Contents] /\ seq \in Nat /\ Rests(cell, seq, "none")
    BY TypeParts DEF Backed
  <2> QED BY <2>1, RestsReads
<1> QED BY <1>1, <1>2, BackedStep, PTL DEF Spec

-----------------------------------------------------------------------------
(* A full save is in force as a whole or not at all.  What tells a generation *)
(* that was being replaced is a domain with one slot: its old record is gone   *)
(* as soon as the new one is under way, and a boot that looks for the old      *)
(* generation finds the domain missing.                                      *)

InPlace(c) ==
    \A d \in Used : \A s \in Slots(d) :
        c[<<d, s>>].kind = "record" => c[<<d, s>>].seq > 0 /\ <<d, s>> = CellOf(d, c[<<d, s>>].seq)

\* No generation above n is in force.
AtMost(c, n) ==
    \A s \in {"A", "B"} :
        c[<<"LayoutMarker", s>>].kind = "active" => c[<<"LayoutMarker", s>>].seq <= n

\* Generation n holds v in its own slots; or a boot that reads it is refused.
AllAt(c, n, v) == \A d \in Used : c[CellOf(d, n)] = Content("record", n, v[d])
Broken(c, n) == \E d \in Used \ DoubleSlot : ~Has(c, d, n)

Whole(c, n, v) == AtMost(c, n) /\ AllAt(c, n, v)
Sound(c, n, v) == AtMost(c, n) /\ (AllAt(c, n, v) \/ Broken(c, n))

\* An EEPROM that a restart may find, and one that generation n + 1 can be saved to;
\* that one may be there already, when its marker was written and reported as failed.
Restorable(c, v) == (NoLegacy(c) \/ AtMost(c, 0)) /\ \E n \in Nat : Sound(c, n, v)
Ready(c, n, v) ==
    /\ NoLegacy(c)
    /\ \A s \in {"A", "B"} :
          /\ <<"LayoutMarker", s>> # CellOf("LayoutMarker", n + 1)
          /\ c[<<"LayoutMarker", s>>].kind = "active"
          => c[<<"LayoutMarker", s>>].seq <= n
    /\ Sound(c, n, v) \/ Whole(c, n + 1, v)

Records(n, v) == {RecordFor(d, n, v) : d \in Used}

\* A full save of v as generation n + 1, while u is in force.
Filling(c, s, n, v, u) ==
    /\ Ready(c, n, u)
    /\ \/ \E r \in Seq(Records(n + 1, v)) :
            /\ s = <<MarkOf("prepared", n + 1)>> \o (r \o <<MarkOf("active", n + 1)>>)
            /\ \A f \in Records(n + 1, v) : Ends(r, f)
       \/ /\ AtMost(c, n)
          /\ \E r \in Seq(Records(n + 1, v)) :
               /\ s = r \o <<MarkOf("active", n + 1)>>
               /\ \A f \in Records(n + 1, v) : Comes(c, r, f)
       \/ s = <<>> /\ Whole(c, n + 1, u)

\* A migration, or the end of one: nothing is in force before its last two writes.
Forms(n, v) ==
    Records(n, v) \cup {Mark("migrating", s, n) : s \in {"A", "B"}}
                  \cup {Write(<<"Legacy", s>>, Blank) : s \in {"A", "B"}}
Staged(c, s, n, v) ==
    /\ AtMost(c, 0)
    /\ \E r \in Seq(Forms(n, v)) :
         /\ s = r \o RecoverWrites(n)
         /\ \A f \in Records(n, v) : Comes(c, r, f)
         /\ \A l \in {"A", "B"} :
              c[<<"Legacy", l>>].kind # "fpm1" \/ Ends(r, Write(<<"Legacy", l>>, Blank))
Published(c, s, n, v, u) ==
    /\ s \in {RecoverWrites(n), <<Mark("active", "B", n)>>, <<>>}
    /\ NoLegacy(c) /\ Whole(c, n, u) /\ AllAt(c, n, v)
Forming(c, s, n, v, u) == Staged(c, s, n, v) \/ Published(c, s, n, v, u)

-----------------------------------------------------------------------------
(* Reading such an EEPROM.                                                   *)

LEMMA OneSlot ==
    /\ \E d \in Used : d \notin DoubleSlot
    /\ \A d \in Used \ DoubleSlot : /\ Slots(d) = {"Single"} /\ <<d, "Single">> \in Cells
                                    /\ \A n : CellOf(d, n) = <<d, "Single">>
<1>1. \A d \in Used \ DoubleSlot : Slots(d) = {"Single"}
  BY Names DEF Slots
<1> QED BY <1>1, SingleSlotAssumption, CellNames DEF CellOf, Places

LEMMA OtherSlot ==
    ASSUME NEW d \in DoubleSlot \cup {"LayoutMarker"}, NEW n \in Nat
    PROVE  CellOf(d, n) # CellOf(d, n + 1)
<1>1. Slots(d) = {"A", "B"} /\ Slots(d) # {"Single"}
  BY DEF Slots
<1>2. (n % 2 = 1) # ((n + 1) % 2 = 1)
  OBVIOUS
<1> QED BY <1>1, <1>2 DEF CellOf

LEMMA SingleHas ==
    ASSUME NEW c, NEW d \in Used \ DoubleSlot, NEW n
    PROVE  Has(c, d, n) <=> c[<<d, "Single">>].kind = "record" /\ c[<<d, "Single">>].seq <= n
<1>1. Slots(d) = {"Single"}
  BY OneSlot
<1> QED BY <1>1, HasIs

LEMMA MarkedAtMost ==
    ASSUME NEW c \in [Cells -> Contents], NEW n \in Nat, AtMost(c, n)
    PROVE  Generation(c) <= n
<1> DEFINE a == c[<<"LayoutMarker", "A">>].seq
           b == c[<<"LayoutMarker", "B">>].seq
           M == Markers(c, {"active"})
<1>1. M \in SUBSET {a, b} /\ a \in Nat /\ b \in Nat
  BY MarkersOf
<1>2. \A m \in M : m <= n
  BY DEF Markers, AtMost
<1>3. Generation(c) = Newest(M)
  BY DEF Generation
<1> HIDE DEF a, b, M
<1>4. CASE M = {}
  BY <1>3, <1>4 DEF Newest
<1>5. CASE M # {}
  BY <1>1, <1>2, <1>3, <1>5, NewestOfTwo
<1> QED BY <1>4, <1>5

LEMMA Unmarked ==
    ASSUME NEW c \in [Cells -> Contents]
    PROVE  (Generation(c) = 0 <=> AtMost(c, 0)) /\ AtMost(c, Generation(c))
<1>1. Generation(c) \in Nat
  BY GenerationType
<1>2. AtMost(c, Generation(c))
  BY MarkedGeneration DEF AtMost
<1>3. AtMost(c, 0) => Generation(c) <= 0
  BY MarkedAtMost
<1> QED BY <1>1, <1>2, <1>3

LEMMA NoLegacyIs ==
    ASSUME NEW c
    PROVE  /\ NoLegacy(c) <=> LegacyRecords(c) = {}
           /\ NoLegacy(c) <=> \A s \in {"A", "B"} : c[<<"Legacy", s>>].kind # "fpm1"
BY DEF NoLegacy, LegA, LegB, LegacyRecords

\* What a generation that is whole reads back as.
LEMMA WholeReads ==
    ASSUME NEW c \in [Cells -> Contents], InPlace(c), NEW n \in Nat, NEW v \in Configs, AllAt(c, n, v)
    PROVE  ValuesAt(c, n) = v
<1> SUFFICES ASSUME NEW d \in Used PROVE Chosen(c, d, n).val = v[d]
  BY DEF ValuesAt, Configs
<1>1. PICK s \in Slots(d) : CellOf(d, n) = <<d, s>>
  BY CellOfIs DEF Places
<1>2. c[<<d, s>>] = Content("record", n, v[d])
  BY <1>1 DEF AllAt
<1>3. c[<<d, s>>].kind = "record" /\ c[<<d, s>>].seq = n /\ c[<<d, s>>].val = v[d]
  BY <1>2 DEF Content
<1>4. c[<<d, s>>] \in Readable(c, d, n)
  BY <1>3 DEF Readable
<1>5. /\ Chosen(c, d, n) \in Readable(c, d, n) /\ n <= Chosen(c, d, n).seq /\ Chosen(c, d, n) \in Contents
  BY <1>3, <1>4, ChosenIsReadable
<1>6. PICK t \in Slots(d) : Chosen(c, d, n) = c[<<d, t>>] /\ c[<<d, t>>].kind = "record" /\ c[<<d, t>>].seq <= n
  BY <1>5 DEF Readable
<1>7. c[<<d, t>>].seq = n
  BY <1>5, <1>6 DEF Contents
<1>8. <<d, t>> = <<d, s>>
  BY <1>1, <1>6, <1>7 DEF InPlace
<1> QED BY <1>3, <1>6, <1>8

LEMMA ExactlyWhole ==
    ASSUME NEW c \in [Cells -> Contents], InPlace(c), NEW n \in Nat, CompleteExactly(c, n)
    PROVE  AllAt(c, n, ValuesAt(c, n)) /\ n > 0
<1>1. ASSUME NEW d \in Used
      PROVE  c[CellOf(d, n)] = Content("record", n, ValuesAt(c, n)[d]) /\ n > 0
  <2>1. Chosen(c, d, n) \in Readable(c, d, n) /\ Chosen(c, d, n) \in Contents /\ Chosen(c, d, n).seq = n
    BY ChosenIsReadable DEF CompleteExactly, Complete
  <2>2. PICK t \in Slots(d) : Chosen(c, d, n) = c[<<d, t>>] /\ c[<<d, t>>].kind = "record"
    BY <2>1 DEF Readable
  <2>3. <<d, t>> = CellOf(d, n) /\ n > 0
    BY <2>1, <2>2 DEF InPlace
  <2>4. Chosen(c, d, n) = Content("record", n, Chosen(c, d, n).val)
    BY <2>1, <2>2 DEF Content, Contents
  <2> QED BY <2>2, <2>3, <2>4 DEF ValuesAt
<1> QED BY <1>1, OneSlot DEF AllAt

\* The generation in force, when it can be read, is the one that was published.
LEMMA SoundReads ==
    ASSUME NEW c \in [Cells -> Contents], InPlace(c), NEW n \in Nat, NEW v \in Configs, Sound(c, n, v),
           Complete(c, Generation(c))
    PROVE  n = Generation(c) /\ AllAt(c, n, v) /\ ValuesAt(c, n) = v
<1>1. Generation(c) \in Nat /\ Generation(c) <= n
  BY GenerationType, MarkedAtMost DEF Sound
<1>2. \A d \in Used : Has(c, d, Generation(c)) /\ Has(c, d, n)
  BY <1>1, HasGrows DEF Complete, Has
<1>3. AllAt(c, n, v)
  BY <1>2 DEF Sound, Broken
<1>4. PICK d \in Used : d \notin DoubleSlot
  BY OneSlot
<1>5. c[<<d, "Single">>] = Content("record", n, v[d])
  BY <1>3, <1>4, OneSlot DEF AllAt
<1>6. n <= Generation(c)
  <2>1. c[<<d, "Single">>].seq <= Generation(c)
    BY <1>2, <1>4, SingleHas
  <2> QED BY <1>5, <2>1 DEF Content
<1> QED BY <1>1, <1>3, <1>6, WholeReads

\* Nothing is in force, or the next generation has just been written.
LEMMA NothingInForce ==
    ASSUME NEW c \in [Cells -> Contents], InPlace(c), AtMost(c, 0), NEW v
    PROVE  Sound(c, 0, v)
<1>1. PICK d \in Used : d \notin DoubleSlot
  BY OneSlot
<1>2. <<d, "Single">> \in Cells /\ Slots(d) = {"Single"}
  BY <1>1, OneSlot
<1>3. ~Has(c, d, 0)
  <2>1. c[<<d, "Single">>].kind = "record" => c[<<d, "Single">>].seq > 0
    BY <1>2 DEF InPlace
  <2>2. c[<<d, "Single">>].seq \in Nat
    BY <1>2 DEF Contents
  <2> QED BY <1>1, <2>1, <2>2, SingleHas
<1> QED BY <1>1, <1>3 DEF Sound, Broken

LEMMA NextIsBroken ==
    ASSUME NEW c, NEW n \in Nat, NEW v, AllAt(c, n + 1, v)
    PROVE  Broken(c, n)
<1>1. PICK d \in Used : d \notin DoubleSlot
  BY OneSlot
<1>2. c[<<d, "Single">>] = Content("record", n + 1, v[d])
  BY <1>1, OneSlot DEF AllAt
<1>3. ~(c[<<d, "Single">>].seq <= n)
  BY <1>2 DEF Content
<1> QED BY <1>1, <1>3, SingleHas DEF Broken

-----------------------------------------------------------------------------
(* One write.                                                                *)

Put(c, p, x) == [c EXCEPT ![p] = x]

LEMMA PlaceKinds ==
    ASSUME NEW p \in Cells
    PROVE  /\ p[1] \in Used \/ p[1] = "LayoutMarker" \/ p[1] = "Legacy"
           /\ p[1] \in Used => p[1] # "LayoutMarker" /\ p[1] # "Legacy"
BY CellNames, Names DEF Places

LEMMA InPlaceKept ==
    ASSUME NEW c \in [Cells -> Contents], InPlace(c), NEW p \in Cells, NEW x, NEW e,
           e = Put(c, p, x),
           p[1] \in Used /\ x.kind = "record" => x.seq > 0 /\ p = CellOf(p[1], x.seq)
    PROVE  InPlace(e)
<1> SUFFICES ASSUME NEW d \in Used, NEW s \in Slots(d), e[<<d, s>>].kind = "record"
             PROVE  e[<<d, s>>].seq > 0 /\ <<d, s>> = CellOf(d, e[<<d, s>>].seq)
  BY DEF InPlace
<1>1. <<d, s>> \in Cells
  BY CellNames DEF Places
<1>2. CASE p = <<d, s>>
  <2>1. e[<<d, s>>] = x /\ p[1] = d
    BY <1>1, <1>2 DEF Put
  <2> QED BY <1>2, <2>1
<1>3. CASE p # <<d, s>>
  <2>1. e[<<d, s>>] = c[<<d, s>>]
    BY <1>1, <1>3 DEF Put
  <2> QED BY <2>1 DEF InPlace
<1> QED BY <1>2, <1>3

LEMMA AtMostKept ==
    ASSUME NEW c \in [Cells -> Contents], NEW n, AtMost(c, n), NEW p \in Cells, NEW x, NEW e,
           e = Put(c, p, x),
           p[1] = "LayoutMarker" /\ x.kind = "active" => x.seq <= n
    PROVE  AtMost(e, n)
<1> SUFFICES ASSUME NEW s \in {"A", "B"}, e[<<"LayoutMarker", s>>].kind = "active"
             PROVE  e[<<"LayoutMarker", s>>].seq <= n
  BY DEF AtMost
<1>1. <<"LayoutMarker", s>> \in Cells
  BY CellNames
<1>2. CASE p = <<"LayoutMarker", s>>
  BY <1>1, <1>2 DEF Put
<1>3. CASE p # <<"LayoutMarker", s>>
  <2>1. e[<<"LayoutMarker", s>>] = c[<<"LayoutMarker", s>>]
    BY <1>1, <1>3 DEF Put
  <2> QED BY <2>1 DEF AtMost
<1> QED BY <1>2, <1>3

LEMMA AtMostGrows ==
    ASSUME NEW c \in [Cells -> Contents], NEW m \in Nat, NEW n \in Nat, m <= n, AtMost(c, m)
    PROVE  AtMost(c, n)
<1>1. \A s \in {"A", "B"} : c[<<"LayoutMarker", s>>].seq \in Nat
  BY CellNames DEF Contents
<1> QED BY <1>1 DEF AtMost

LEMMA NoLegacyKept ==
    ASSUME NEW c \in [Cells -> Contents], NEW p \in Cells, NEW x, NEW e, e = Put(c, p, x),
           p[1] = "Legacy" => x.kind # "fpm1"
    PROVE  /\ \A l \in {"A", "B"} : c[<<"Legacy", l>>].kind # "fpm1" => e[<<"Legacy", l>>].kind # "fpm1"
           /\ NoLegacy(c) => NoLegacy(e)
<1>1. ASSUME NEW l \in {"A", "B"}, c[<<"Legacy", l>>].kind # "fpm1" PROVE e[<<"Legacy", l>>].kind # "fpm1"
  <2>1. <<"Legacy", l>> \in Cells
    BY CellNames
  <2>2. CASE p = <<"Legacy", l>>
    BY <2>1, <2>2 DEF Put
  <2>3. CASE p # <<"Legacy", l>>
    <3>1. e[<<"Legacy", l>>] = c[<<"Legacy", l>>]
      BY <2>1, <2>3 DEF Put
    <3> QED BY <1>1, <3>1
  <2> QED BY <2>2, <2>3
<1> QED BY <1>1, NoLegacyIs

\* A write outside of the domains, and one that leaves the slots of generation n alone.
LEMMA AllAtKept ==
    ASSUME NEW c \in [Cells -> Contents], NEW n, NEW v, AllAt(c, n, v), NEW p \in Cells, NEW x, NEW e,
           e = Put(c, p, x), p[1] \in Used => p # CellOf(p[1], n)
    PROVE  AllAt(e, n, v)
<1> SUFFICES ASSUME NEW d \in Used PROVE e[CellOf(d, n)] = Content("record", n, v[d])
  BY DEF AllAt
<1>1. CellOf(d, n) \in Cells /\ CellOf(d, n)[1] = d
  BY CellOfType DEF Places
<1>2. p # CellOf(d, n)
  BY <1>1
<1>3. e[CellOf(d, n)] = c[CellOf(d, n)]
  BY <1>1, <1>2 DEF Put
<1> QED BY <1>3 DEF AllAt

LEMMA BrokenKept ==
    ASSUME NEW c \in [Cells -> Contents], NEW n \in Nat, Broken(c, n), NEW p \in Cells, NEW x, NEW e,
           e = Put(c, p, x),
           p[1] \in Used \ DoubleSlot => ~(x.kind = "record" /\ x.seq <= n)
    PROVE  Broken(e, n)
<1>1. PICK d \in Used \ DoubleSlot : ~Has(c, d, n)
  BY DEF Broken
<1>2. <<d, "Single">> \in Cells
  BY OneSlot
<1>3. CASE p = <<d, "Single">>
  <2>1. e[<<d, "Single">>] = x /\ p[1] = d
    BY <1>2, <1>3 DEF Put
  <2>2. ~(x.kind = "record" /\ x.seq <= n)
    BY <2>1
  <2>3. ~Has(e, d, n)
    BY <2>1, <2>2, SingleHas
  <2> QED BY <2>3 DEF Broken
<1>4. CASE p # <<d, "Single">>
  <2>1. e[<<d, "Single">>] = c[<<d, "Single">>]
    BY <1>2, <1>4 DEF Put
  <2> QED BY <1>1, <2>1, SingleHas DEF Broken
<1> QED BY <1>3, <1>4

\* What a write to a marker leaves of a generation, and what one to a domain does: the
\* first record of a single slot, whole or torn, ends the generation before.
LEMMA SoundBesides ==
    ASSUME NEW c \in [Cells -> Contents], NEW n \in Nat, NEW v, Sound(c, n, v), NEW p \in Cells, NEW x, NEW e,
           e = Put(c, p, x), p[1] \notin Used, p[1] = "LayoutMarker" => x.kind # "active"
    PROVE  Sound(e, n, v)
<1>1. AtMost(e, n)
  BY AtMostKept DEF Sound
<1>2. CASE AllAt(c, n, v)
  BY <1>1, <1>2, AllAtKept DEF Sound
<1>3. CASE Broken(c, n)
  BY <1>1, <1>3, BrokenKept DEF Sound
<1> QED BY <1>2, <1>3 DEF Sound

LEMMA SoundOver ==
    ASSUME NEW c \in [Cells -> Contents], NEW n \in Nat, NEW v, Sound(c, n, v), NEW d \in Used, NEW x, NEW e,
           e = Put(c, CellOf(d, n + 1), x), ~(x.kind = "record" /\ x.seq <= n)
    PROVE  Sound(e, n, v)
<1> DEFINE p == CellOf(d, n + 1)
<1>1. p \in Cells /\ p[1] = d /\ d # "LayoutMarker"
  BY CellOfType, Names DEF Places
<1>2. AtMost(e, n)
  BY <1>1, AtMostKept DEF Sound
<1>3. CASE d \in DoubleSlot
  <2>1. p # CellOf(d, n)
    BY <1>3, OtherSlot
  <2>2. AllAt(c, n, v) => AllAt(e, n, v)
    BY <1>1, <2>1, AllAtKept
  <2>3. Broken(c, n) => Broken(e, n)
    BY <1>1, BrokenKept
  <2> QED BY <1>2, <2>2, <2>3 DEF Sound
<1>4. CASE d \notin DoubleSlot
  <2>1. p = <<d, "Single">>
    BY <1>4, OneSlot
  <2>2. e[<<d, "Single">>] = x
    BY <1>1, <2>1 DEF Put
  <2>3. ~Has(e, d, n)
    BY <1>4, <2>2, SingleHas
  <2> QED BY <1>2, <1>4, <2>3 DEF Sound, Broken
<1> QED BY <1>3, <1>4

\* A boot finds what is being written restorable.
LEMMA ReadyRestores ==
    ASSUME NEW c, NEW n \in Nat, NEW v, Ready(c, n, v)
    PROVE  Restorable(c, v)
<1>1. n + 1 \in Nat
  OBVIOUS
<1> QED BY <1>1 DEF Ready, Restorable, Whole, Sound

LEMMA UnformedRestores ==
    ASSUME NEW c \in [Cells -> Contents], InPlace(c), AtMost(c, 0), NEW v
    PROVE  Restorable(c, v)
<1>1. Sound(c, 0, v)
  BY NothingInForce
<1> QED BY <1>1 DEF Restorable

LEMMA WholeIsReady ==
    ASSUME NEW c, NEW n, NEW v, NoLegacy(c), Whole(c, n, v)
    PROVE  Ready(c, n, v)
BY DEF Ready, Whole, Sound, AtMost

-----------------------------------------------------------------------------
(* A full save, write by write.                                              *)

LEMMA RecordsAre ==
    ASSUME NEW n \in Nat, NEW v \in Configs
    PROVE  /\ Records(n, v) \subseteq Writes /\ Seq(Records(n, v)) \subseteq Seq(Writes)
           /\ \A f \in Records(n, v) :
                \E d \in Used : /\ f = RecordFor(d, n, v) /\ f.place = CellOf(d, n) /\ f.place[1] = d
                                /\ f.content = Content("record", n, v[d])
                                /\ f.content.kind = "record" /\ f.content.seq = n
<1>1. ASSUME NEW d \in Used
      PROVE  /\ RecordFor(d, n, v) \in Writes
             /\ RecordFor(d, n, v).place = CellOf(d, n) /\ CellOf(d, n)[1] = d
             /\ RecordFor(d, n, v).content = Content("record", n, v[d])
             /\ Content("record", n, v[d]).kind = "record" /\ Content("record", n, v[d]).seq = n
  <2>1. RecordFor(d, n, v) \in Writes
    BY FittingWrites DEF Fitting
  <2> QED BY <2>1, CellOfType DEF RecordFor, Write, Content, Places
<1>2. Records(n, v) \subseteq Writes
  BY <1>1 DEF Records
<1>3. \A s \in Seq(Records(n, v)) : s \in Seq(Writes)
  BY <1>2, SeqMonotonic
<1>4. ASSUME NEW f \in Records(n, v)
      PROVE  \E d \in Used : /\ f = RecordFor(d, n, v) /\ f.place = CellOf(d, n) /\ f.place[1] = d
                             /\ f.content = Content("record", n, v[d])
                             /\ f.content.kind = "record" /\ f.content.seq = n
  <2>1. PICK d \in Used : f = RecordFor(d, n, v)
    BY DEF Records
  <2> QED BY <1>1, <2>1
<1> QED BY <1>2, <1>3, <1>4

\* Once no record is to come, they are all there.
LEMMA RecordsMade ==
    ASSUME NEW c, NEW n \in Nat, NEW v \in Configs, \A f \in Records(n, v) : Comes(c, <<>>, f)
    PROVE  AllAt(c, n, v)
<1> SUFFICES ASSUME NEW d \in Used PROVE c[CellOf(d, n)] = Content("record", n, v[d])
  BY DEF AllAt
<1>1. RecordFor(d, n, v) \in Records(n, v)
  BY DEF Records
<1>2. c[RecordFor(d, n, v).place] = RecordFor(d, n, v).content
  BY <1>1 DEF Comes, Ends
<1> QED BY <1>2 DEF RecordFor, Write

LEMMA MarkerCell ==
    ASSUME NEW n \in Nat
    PROVE  /\ CellOf("LayoutMarker", n) \in Cells /\ CellOf("LayoutMarker", n)[1] = "LayoutMarker"
           /\ \A k \in {"prepared", "active"} :
                /\ MarkOf(k, n) \in Writes /\ MarkOf(k, n).place = CellOf("LayoutMarker", n)
                /\ MarkOf(k, n).content.kind = k /\ MarkOf(k, n).content.seq = n
                /\ \A v \in Configs : MarkOf(k, n) \notin Records(n, v)
<1>1. CellOf("LayoutMarker", n) \in Cells /\ CellOf("LayoutMarker", n)[1] = "LayoutMarker"
  BY CellOfType DEF Places
<1>2. \A k \in {"prepared", "active"} :
        /\ MarkOf(k, n) \in Writes /\ MarkOf(k, n).place = CellOf("LayoutMarker", n)
        /\ MarkOf(k, n).content.kind = k /\ MarkOf(k, n).content.seq = n
  BY MarkType DEF MarkOf, Write, Content
<1> QED BY <1>1, <1>2, RecordsAre, Names

\* Only the marker of generation n + 1 may be newer, so writing it makes n the newest.
LEMMA Unpublish ==
    ASSUME NEW c \in [Cells -> Contents], NEW n \in Nat, NEW v, Ready(c, n, v), NEW x, x.kind # "active",
           NEW e, e = Put(c, CellOf("LayoutMarker", n + 1), x)
    PROVE  AtMost(e, n) /\ Sound(e, n, v)
<1> DEFINE p == CellOf("LayoutMarker", n + 1)
<1>1. p \in Cells /\ p[1] = "LayoutMarker" /\ p[1] \notin Used
  BY MarkerCell, Names
<1>2. AtMost(e, n)
  <2> SUFFICES ASSUME NEW s \in {"A", "B"}, e[<<"LayoutMarker", s>>].kind = "active"
               PROVE  e[<<"LayoutMarker", s>>].seq <= n
    BY DEF AtMost
  <2>1. <<"LayoutMarker", s>> \in Cells
    BY CellNames
  <2>2. p # <<"LayoutMarker", s>>
    BY <1>1, <2>1 DEF Put
  <2>3. e[<<"LayoutMarker", s>>] = c[<<"LayoutMarker", s>>]
    BY <2>1, <2>2 DEF Put
  <2> QED BY <2>2, <2>3 DEF Ready
<1> HIDE DEF p
<1>3. CASE Sound(c, n, v)
  <2>1. e = Put(c, p, x)
    BY DEF p
  <2> QED BY <1>1, <1>2, <1>3, <2>1, SoundBesides
<1>4. CASE Whole(c, n + 1, v)
  <2>1. e = Put(c, p, x)
    BY DEF p
  <2>2. AllAt(e, n + 1, v)
    BY <1>1, <1>4, <2>1, AllAtKept DEF Whole
  <2> QED BY <1>2, <2>2, NextIsBroken DEF Sound
<1> QED BY <1>2, <1>3, <1>4 DEF Ready

\* Before the records of n + 1 are in force, n is sound.
LEMMA ReadyIsSound ==
    ASSUME NEW c, NEW n \in Nat, NEW v, Ready(c, n, v), AtMost(c, n)
    PROVE  Sound(c, n, v)
BY NextIsBroken DEF Ready, Whole, Sound

LEMMA SoundIsReady ==
    ASSUME NEW c, NEW n, NEW v, NoLegacy(c), Sound(c, n, v)
    PROVE  Ready(c, n, v)
BY DEF Ready, Sound, AtMost

\* The write of the ACTIVE marker puts the new generation in force.
LEMMA Publish ==
    ASSUME NEW c \in [Cells -> Contents], NEW n \in Nat, NEW v, AtMost(c, n), NoLegacy(c), AllAt(c, n + 1, v),
           NEW e, e = Put(c, CellOf("LayoutMarker", n + 1), MarkOf("active", n + 1).content)
    PROVE  Ready(e, n, v) /\ Whole(e, n + 1, v)
<1> DEFINE p == CellOf("LayoutMarker", n + 1)
           x == MarkOf("active", n + 1).content
<1>1. /\ n + 1 \in Nat /\ n <= n + 1 /\ p \in Cells /\ p[1] = "LayoutMarker" /\ p[1] \notin Used
      /\ x.kind = "active" /\ x.seq = n + 1
  BY MarkerCell, Names
<1> HIDE DEF p, x
<1>2. e = Put(c, p, x)
  BY DEF p, x
<1>3. AtMost(e, n + 1)
  <2>1. AtMost(c, n + 1)
    BY <1>1, AtMostGrows
  <2> QED BY <1>1, <1>2, <2>1, AtMostKept
<1>4. AllAt(e, n + 1, v)
  BY <1>1, <1>2, AllAtKept
<1>5. NoLegacy(e)
  BY <1>1, <1>2, NoLegacyKept
<1>6. ASSUME NEW s \in {"A", "B"}, <<"LayoutMarker", s>> # p, e[<<"LayoutMarker", s>>].kind = "active"
      PROVE  e[<<"LayoutMarker", s>>].seq <= n
  <2>1. e[<<"LayoutMarker", s>>] = c[<<"LayoutMarker", s>>]
    BY <1>2, <1>6, CellNames DEF Put
  <2> QED BY <1>6, <2>1 DEF AtMost
<1> QED BY <1>3, <1>4, <1>5, <1>6 DEF Ready, Whole, p

LEMMA FillingWrite ==
    ASSUME NEW c \in [Cells -> Contents], InPlace(c), NEW n \in Nat, NEW v \in Configs, NEW u, NEW s,
           Filling(c, s, n, v, u), s # <<>>,
           NEW t, t = Put(c, Head(s).place, Torn),
           NEW e, e = Put(c, Head(s).place, Head(s).content),
           NEW w, w = IF Head(s).content.kind = "active" THEN v ELSE u
    PROVE  InPlace(t) /\ Ready(t, n, u) /\ InPlace(e) /\ Filling(e, Tail(s), n, v, w)
<1> DEFINE F == Records(n + 1, v)
           a == MarkOf("active", n + 1)
           b == MarkOf("prepared", n + 1)
<1>1. n + 1 \in Nat /\ n + 1 > 0
  OBVIOUS
<1>2. /\ a.place = CellOf("LayoutMarker", n + 1) /\ b.place = CellOf("LayoutMarker", n + 1)
      /\ a.place \in Cells /\ a.place[1] = "LayoutMarker" /\ a.place[1] \notin Used
      /\ a.content.kind = "active" /\ b.content.kind = "prepared" /\ a \in Writes /\ b \in Writes
  BY <1>1, MarkerCell, Names
<1>3. F \subseteq Writes /\ Seq(F) \subseteq Seq(Writes) /\ <<a>> \in Seq(Writes) /\ <<b>> \in Seq(Writes)
  BY <1>1, <1>2, RecordsAre
<1>4. Torn.kind = "torn"
  BY DEF Torn, Content
<1>5. Ready(c, n, u) /\ NoLegacy(c)
  BY DEF Filling, Ready
\* The PREPARED marker.
<1>6. ASSUME NEW r \in Seq(F), s = <<b>> \o (r \o <<a>>), \A f \in F : Ends(r, f)
      PROVE  InPlace(t) /\ Ready(t, n, u) /\ InPlace(e) /\ Filling(e, Tail(s), n, v, w)
  <2>1. Head(s) = b /\ Tail(s) = r \o <<a>>
    <3>1. <<b>> # <<>> /\ Head(<<b>>) = b /\ Tail(<<b>>) = <<>> /\ r \o <<a>> \in Seq(Writes)
      BY <1>3
    <3> HIDE DEF a, b
    <3>2. Head(s) = Head(<<b>>) /\ Tail(s) = Tail(<<b>>) \o (r \o <<a>>)
      BY <1>3, <1>6, <3>1, FirstOfConcat
    <3>3. <<>> \o (r \o <<a>>) = r \o <<a>>
      BY <3>1, ConcatEmptySeq
    <3> QED BY <3>1, <3>2, <3>3
  <2> HIDE DEF F, a, b
  <2>2. /\ t = Put(c, CellOf("LayoutMarker", n + 1), Torn)
        /\ e = Put(c, CellOf("LayoutMarker", n + 1), b.content) /\ w = u
    BY <1>2, <2>1
  <2>3. AtMost(t, n) /\ Sound(t, n, u) /\ AtMost(e, n) /\ Sound(e, n, u)
    BY <1>2, <1>4, <1>5, <2>2, Unpublish
  <2>4. CellOf("LayoutMarker", n + 1) \in Cells /\ CellOf("LayoutMarker", n + 1)[1] = "LayoutMarker"
    BY <1>2
  <2>5. NoLegacy(t) /\ NoLegacy(e)
    BY <1>5, <2>2, <2>4, NoLegacyKept
  <2>6. InPlace(t) /\ InPlace(e)
    BY <2>2, <2>4, InPlaceKept, Names
  <2>7. Ready(t, n, u) /\ Ready(e, n, u)
    BY <2>3, <2>5, SoundIsReady
  <2>8. \A f \in F : Comes(e, r, f)
    BY <1>6 DEF Comes
  <2>9. Filling(e, Tail(s), n, v, u)
    BY <2>1, <2>3, <2>7, <2>8 DEF Filling, F, a
  <2> QED BY <2>2, <2>6, <2>7, <2>9
\* A record.
<1>7. ASSUME NEW r \in Seq(F), s = r \o <<a>>, \A f \in F : Comes(c, r, f), AtMost(c, n), r # <<>>
      PROVE  InPlace(t) /\ Ready(t, n, u) /\ InPlace(e) /\ Filling(e, Tail(s), n, v, w)
  <2> HIDE DEF F, a, b
  <2>1. r \in Seq(Writes) /\ Head(s) = Head(r) /\ Tail(s) = Tail(r) \o <<a>>
    BY <1>3, <1>7, FirstOfConcat
  <2>2. Head(r) \in F /\ Tail(r) \in Seq(F)
    BY <1>7, HeadTailProperties
  <2>3. PICK d \in Used : /\ Head(s).place = CellOf(d, n + 1) /\ Head(s).place[1] = d
                          /\ Head(s).content.kind = "record" /\ Head(s).content.seq = n + 1
    BY <1>1, <2>1, <2>2, RecordsAre DEF F
  <2>4. /\ t = Put(c, CellOf(d, n + 1), Torn)
        /\ e = Put(c, CellOf(d, n + 1), Head(s).content) /\ w = u
    BY <2>3
  <2>5. CellOf(d, n + 1) \in Cells /\ CellOf(d, n + 1)[1] = d /\ d # "LayoutMarker" /\ d # "Legacy"
    BY CellOfType, Names DEF Places
  <2>6. Sound(c, n, u)
    BY <1>5, <1>7, ReadyIsSound
  <2>7. Sound(t, n, u) /\ Sound(e, n, u)
    <3>1. ~(Head(s).content.kind = "record" /\ Head(s).content.seq <= n)
      BY <2>3
    <3>2. ~(Torn.kind = "record" /\ Torn.seq <= n)
      BY <1>4
    <3>3. Sound(t, n, u)
      BY <2>4, <2>6, <3>2, SoundOver
    <3>4. Sound(e, n, u)
      BY <2>4, <2>6, <3>1, SoundOver
    <3> QED BY <3>3, <3>4
  <2>8. NoLegacy(t) /\ NoLegacy(e)
    BY <1>5, <2>4, <2>5, NoLegacyKept
  <2>9. InPlace(t)
    BY <1>4, <2>4, <2>5, InPlaceKept
  <2>10. InPlace(e)
    BY <1>1, <2>3, <2>4, <2>5, InPlaceKept
  <2>11. \A f \in F : Comes(e, Tail(r), f)
    <3> SUFFICES ASSUME NEW f \in F PROVE Comes(e, Tail(r), f)
      OBVIOUS
    <3>1. f \in Writes /\ Comes(c, r, f)
      BY <1>3, <1>7
    <3>2. Comes(Put(c, Head(r).place, Head(r).content), Tail(r), f)
      BY <1>7, <2>1, <3>1, OneWriteOn DEF Put
    <3>3. e = Put(c, Head(r).place, Head(r).content)
      BY <2>1
    <3> QED BY <3>2, <3>3
  <2>12. Ready(t, n, u) /\ Ready(e, n, u) /\ AtMost(e, n)
    BY <2>7, <2>8, SoundIsReady DEF Sound
  <2>13. Filling(e, Tail(s), n, v, u)
    BY <2>1, <2>2, <2>11, <2>12 DEF Filling, F, a
  <2> QED BY <2>4, <2>9, <2>10, <2>12, <2>13
\* The ACTIVE marker.
<1>8. ASSUME s = <<>> \o <<a>>, \A f \in F : Comes(c, <<>>, f), AtMost(c, n)
      PROVE  InPlace(t) /\ Ready(t, n, u) /\ InPlace(e) /\ Filling(e, Tail(s), n, v, w)
  <2>1. Head(s) = a /\ Tail(s) = <<>>
    <3>1. s = <<a>>
      BY <1>3, <1>8, ConcatEmptySeq
    <3> QED BY <3>1
  <2>2. AllAt(c, n + 1, v)
    BY <1>1, <1>8, RecordsMade
  <2> HIDE DEF F, a, b
  <2>3. /\ t = Put(c, CellOf("LayoutMarker", n + 1), Torn)
        /\ e = Put(c, CellOf("LayoutMarker", n + 1), a.content) /\ w = v
    BY <1>2, <2>1
  <2>4. CellOf("LayoutMarker", n + 1) \in Cells /\ CellOf("LayoutMarker", n + 1)[1] = "LayoutMarker"
    BY <1>2
  <2>5. AtMost(t, n) /\ Sound(t, n, u)
    BY <1>4, <1>5, <2>3, Unpublish
  <2>6. NoLegacy(t)
    BY <1>5, <2>3, <2>4, NoLegacyKept
  <2>7. InPlace(t) /\ InPlace(e)
    BY <2>3, <2>4, InPlaceKept, Names
  <2>8. Ready(e, n, v) /\ Whole(e, n + 1, v)
    BY <1>5, <1>8, <2>2, <2>3, Publish DEF a
  <2>9. Filling(e, Tail(s), n, v, v)
    BY <2>1, <2>8 DEF Filling
  <2> QED BY <2>3, <2>5, <2>6, <2>7, <2>9, SoundIsReady
<1> HIDE DEF F, a, b
<1>9. \/ \E r \in Seq(F) : s = <<b>> \o (r \o <<a>>) /\ \A f \in F : Ends(r, f)
      \/ AtMost(c, n) /\ \E r \in Seq(F) : s = r \o <<a>> /\ \A f \in F : Comes(c, r, f)
  BY DEF Filling, F, a, b
<1>10. CASE AtMost(c, n) /\ \E r \in Seq(F) : s = r \o <<a>> /\ \A f \in F : Comes(c, r, f)
  <2>1. PICK r \in Seq(F) : s = r \o <<a>> /\ \A f \in F : Comes(c, r, f)
    BY <1>10
  <2>2. CASE r = <<>>
    BY <1>8, <1>10, <2>1, <2>2
  <2>3. CASE r # <<>>
    BY <1>7, <1>10, <2>1, <2>3
  <2> QED BY <2>2, <2>3
<1> QED BY <1>6, <1>9, <1>10

\* A full save begins, and ends.
LEMMA FillingStarts ==
    ASSUME NEW c, NEW n \in Nat, NEW v \in Configs, NEW u, Ready(c, n, u)
    PROVE  Filling(c, CommitWrites(n + 1, Used, v), n, v, u)
<1> DEFINE r == DomainWrites(n + 1, Used, v)
           a == MarkOf("active", n + 1)
           b == MarkOf("prepared", n + 1)
           F == Records(n + 1, v)
<1>1. n + 1 \in Nat
  OBVIOUS
<1>2. r \in Seq(F)
  <2>1. \A d \in Used : Write(CellOf(d, n + 1), Content("record", n + 1, v[d])) \in F
    BY DEF Records, RecordFor
  <2> HIDE DEF F
  <2> QED BY <2>1, DomainWritesIn
<1>3. \A f \in F : Ends(r, f)
  <2>1. \A d \in Used : Ends(r, Write(CellOf(d, n + 1), Content("record", n + 1, v[d])))
    BY <1>1, DomainWritesEnd
  <2> HIDE DEF r
  <2> QED BY <2>1 DEF Records, RecordFor
<1>4. <<b>> \in Seq(Writes) /\ r \in Seq(Writes) /\ <<a>> \in Seq(Writes)
  <2>1. a \in Writes /\ b \in Writes
    BY <1>1, MarkerCell
  <2> QED BY <1>1, <1>2, <2>1, RecordsAre
<1>5. CommitWrites(n + 1, Used, v) = (<<b>> \o r) \o <<a>>
  BY DEF CommitWrites
<1> HIDE DEF r, a, b, F
<1>6. (<<b>> \o r) \o <<a>> = <<b>> \o (r \o <<a>>)
  BY <1>4, ConcatAssociative
<1> QED BY <1>2, <1>3, <1>5, <1>6 DEF Filling, a, b, F

LEMMA FillingEnds ==
    ASSUME NEW c, NEW n \in Nat, NEW v \in Configs, NEW u, Filling(c, <<>>, n, v, u)
    PROVE  Ready(c, n + 1, u)
<1> DEFINE F == Records(n + 1, v)
           a == MarkOf("active", n + 1)
           b == MarkOf("prepared", n + 1)
<1>1. n + 1 \in Nat
  OBVIOUS
<1>2. Seq(F) \subseteq Seq(Writes) /\ <<a>> \in Seq(Writes) /\ <<b>> \in Seq(Writes)
  <2>1. a \in Writes /\ b \in Writes
    BY <1>1, MarkerCell
  <2> QED BY <1>1, <2>1, RecordsAre
<1>3. \A r \in Seq(F) : r \o <<a>> # <<>> /\ <<b>> \o (r \o <<a>>) # <<>>
  <2> SUFFICES ASSUME NEW r \in Seq(F) PROVE r \o <<a>> # <<>> /\ <<b>> \o (r \o <<a>>) # <<>>
    OBVIOUS
  <2>1. r \in Seq(Writes)
    BY <1>2
  <2>2. Len(<<a>>) = 1 /\ Len(<<b>>) = 1
    OBVIOUS
  <2> HIDE DEF a, b, F
  <2>3. Len(r \o <<a>>) = Len(r) + 1 /\ r \o <<a>> \in Seq(Writes)
    BY <1>2, <2>1, <2>2, ConcatProperties
  <2>4. Len(<<b>> \o (r \o <<a>>)) = Len(r) + 2
    BY <1>2, <2>1, <2>2, <2>3, ConcatProperties
  <2>5. Len(r) \in Nat /\ Len(<<>>) = 0
    BY <2>1
  <2> QED BY <2>3, <2>4, <2>5
<1>4. Whole(c, n + 1, u) /\ NoLegacy(c)
  BY <1>3 DEF Filling, Ready
<1> QED BY <1>4, WholeIsReady

-----------------------------------------------------------------------------
(* A migration or its completion, write by write.                            *)

Formed(c, n, u) == AtMost(c, 0) \/ (NoLegacy(c) /\ Whole(c, n, u))

LEMMA FormedRestores ==
    ASSUME NEW c \in [Cells -> Contents], InPlace(c), NEW n \in Nat, NEW u, Formed(c, n, u)
    PROVE  Restorable(c, u)
<1>1. CASE AtMost(c, 0)
  BY <1>1, UnformedRestores
<1>2. CASE NoLegacy(c) /\ Whole(c, n, u)
  BY <1>2 DEF Restorable, Whole, Sound
<1> QED BY <1>1, <1>2 DEF Formed

LEMMA FormsAre ==
    ASSUME NEW n \in Nat, NEW v \in Configs
    PROVE  /\ Forms(n, v) \subseteq Writes /\ Seq(Forms(n, v)) \subseteq Seq(Writes)
           /\ Records(n, v) \subseteq Forms(n, v)
           /\ \A f \in Forms(n, v) :
                /\ f.place \in Cells /\ f.content.kind \notin {"active", "fpm1"}
                /\ f.place[1] \in Used => f.content.seq = n /\ f.place = CellOf(f.place[1], n)
<1>1. \A f \in Records(n, v) :
        /\ f \in Writes /\ f.content.kind \notin {"active", "fpm1"}
        /\ f.content.seq = n /\ f.place = CellOf(f.place[1], n)
  <2> SUFFICES ASSUME NEW f \in Records(n, v)
               PROVE  /\ f \in Writes /\ f.content.kind \notin {"active", "fpm1"}
                      /\ f.content.seq = n /\ f.place = CellOf(f.place[1], n)
    OBVIOUS
  <2>1. \E d \in Used : /\ f.place = CellOf(d, n) /\ f.place[1] = d
                        /\ f.content.kind = "record" /\ f.content.seq = n
    BY RecordsAre
  <2>2. f \in Writes
    BY RecordsAre
  <2> QED BY <2>1, <2>2
<1>2. \A s \in {"A", "B"} :
        /\ Mark("migrating", s, n) \in Writes /\ Mark("migrating", s, n).place[1] = "LayoutMarker"
        /\ Mark("migrating", s, n).content.kind = "migrating"
  BY MarkType DEF Mark, Write, Content
<1>3. \A s \in {"A", "B"} :
        /\ Write(<<"Legacy", s>>, Blank) \in Writes /\ Write(<<"Legacy", s>>, Blank).place[1] = "Legacy"
        /\ Write(<<"Legacy", s>>, Blank).content.kind = "blank"
  BY CellNames, ContentType DEF Write, Writes, Blank, Content
<1>4. ASSUME NEW f \in Forms(n, v)
      PROVE  /\ f \in Writes /\ f.content.kind \notin {"active", "fpm1"}
             /\ f.place[1] \in Used => f.content.seq = n /\ f.place = CellOf(f.place[1], n)
  BY <1>1, <1>2, <1>3, Names DEF Forms
<1>5. Forms(n, v) \subseteq Writes
  BY <1>4
<1>6. \A s \in Seq(Forms(n, v)) : s \in Seq(Writes)
  BY <1>5, SeqMonotonic
<1>7. \A f \in Forms(n, v) : f.place \in Cells
  BY <1>5 DEF Writes
<1>8. Records(n, v) \subseteq Forms(n, v)
  BY DEF Forms
<1> QED BY <1>4, <1>5, <1>6, <1>7, <1>8

LEMMA LastTwo ==
    ASSUME NEW n \in Nat
    PROVE  /\ RecoverWrites(n) = <<Mark("active", "A", n), Mark("active", "B", n)>>
           /\ RecoverWrites(n) \in Seq(Writes) /\ Len(RecoverWrites(n)) = 2
           /\ Head(RecoverWrites(n)) = Mark("active", "A", n)
           /\ Tail(RecoverWrites(n)) = <<Mark("active", "B", n)>>
           /\ \A s \in {"A", "B"} :
                /\ Mark("active", s, n).place = <<"LayoutMarker", s>> /\ <<"LayoutMarker", s>> \in Cells
                /\ Mark("active", s, n).content.kind = "active" /\ Mark("active", s, n).content.seq = n
<1>1. \A s \in {"A", "B"} :
        /\ Mark("active", s, n) \in Writes
        /\ Mark("active", s, n).place = <<"LayoutMarker", s>> /\ <<"LayoutMarker", s>> \in Cells
        /\ Mark("active", s, n).content.kind = "active" /\ Mark("active", s, n).content.seq = n
  BY MarkType, CellNames DEF Mark, Write, Content
<1>2. RecoverWrites(n) = <<Mark("active", "A", n), Mark("active", "B", n)>>
  BY DEF RecoverWrites
<1> QED BY <1>1, <1>2

\* A marker in force over records that are all there.
LEMMA MarkWhole ==
    ASSUME NEW c \in [Cells -> Contents], InPlace(c), NEW n \in Nat, NEW v, NEW l \in {"A", "B"},
           NEW t, t = Put(c, <<"LayoutMarker", l>>, Torn),
           NEW e, e = Put(c, <<"LayoutMarker", l>>, Mark("active", l, n).content)
    PROVE  /\ InPlace(t) /\ InPlace(e)
           /\ NoLegacy(c) => NoLegacy(t) /\ NoLegacy(e)
           /\ AllAt(c, n, v) => AllAt(t, n, v) /\ AllAt(e, n, v)
           /\ \A m \in Nat : AtMost(c, m) => AtMost(t, m)
           /\ AtMost(c, n) => AtMost(e, n)
<1> DEFINE p == <<"LayoutMarker", l>>
           x == Mark("active", l, n).content
<1>1. p \in Cells /\ p[1] = "LayoutMarker" /\ p[1] \notin Used /\ p[1] # "Legacy"
  BY CellNames, Names
<1>2. Torn.kind = "torn" /\ x.kind = "active" /\ x.seq = n
  BY DEF Torn, Mark, Write, Content
<1>3. t = Put(c, p, Torn) /\ e = Put(c, p, x)
  OBVIOUS
<1> HIDE DEF p, x
<1>4. InPlace(t)
  BY <1>1, <1>3, InPlaceKept
<1>5. InPlace(e)
  BY <1>1, <1>3, InPlaceKept
<1>6. NoLegacy(c) => NoLegacy(t)
  BY <1>1, <1>3, NoLegacyKept
<1>7. NoLegacy(c) => NoLegacy(e)
  BY <1>1, <1>3, NoLegacyKept
<1>8. AllAt(c, n, v) => AllAt(t, n, v)
  BY <1>1, <1>3, AllAtKept
<1>9. AllAt(c, n, v) => AllAt(e, n, v)
  BY <1>1, <1>3, AllAtKept
<1>10. ASSUME NEW m \in Nat, AtMost(c, m) PROVE AtMost(t, m)
  BY <1>1, <1>2, <1>3, <1>10, AtMostKept
<1>11. ASSUME AtMost(c, n) PROVE AtMost(e, n)
  BY <1>1, <1>2, <1>3, <1>11, AtMostKept
<1> QED BY <1>4, <1>5, <1>6, <1>7, <1>8, <1>9, <1>10, <1>11

LEMMA FormingWrite ==
    ASSUME NEW c \in [Cells -> Contents], InPlace(c), NEW n \in Nat, n > 0, NEW v \in Configs, NEW u, NEW s,
           Forming(c, s, n, v, u), s # <<>>,
           NEW t, t = Put(c, Head(s).place, Torn),
           NEW e, e = Put(c, Head(s).place, Head(s).content),
           NEW w, w = IF Head(s).content.kind = "active" THEN v ELSE u
    PROVE  /\ InPlace(t) /\ Formed(t, n, u) /\ InPlace(e) /\ Forming(e, Tail(s), n, v, w)
           /\ NoLegacy(c) => NoLegacy(t) /\ NoLegacy(e)
<1> DEFINE Goal == /\ InPlace(t) /\ Formed(t, n, u) /\ InPlace(e) /\ Forming(e, Tail(s), n, v, w)
                   /\ NoLegacy(c) => NoLegacy(t) /\ NoLegacy(e)
           F == Records(n, v)
           G == Forms(n, v)
           a == RecoverWrites(n)
           I(l) == Write(<<"Legacy", l>>, Blank)
<1>1. F \subseteq G /\ G \subseteq Writes /\ Seq(G) \subseteq Seq(Writes) /\ a \in Seq(Writes)
  BY FormsAre, LastTwo
<1>2. Torn.kind = "torn"
  BY DEF Torn, Content
\* A marker of the migration, a record or an invalidation.
<1>3. ASSUME NEW r \in Seq(G), s = r \o a, r # <<>>, AtMost(c, 0), \A f \in F : Comes(c, r, f),
             \A l \in {"A", "B"} : c[<<"Legacy", l>>].kind # "fpm1" \/ Ends(r, I(l))
      PROVE  Goal
  <2> HIDE DEF F, G, a
  <2>1. r \in Seq(Writes) /\ Head(s) = Head(r) /\ Tail(s) = Tail(r) \o a
    BY <1>1, <1>3, FirstOfConcat
  <2>2. Head(r) \in G /\ Tail(r) \in Seq(G)
    BY <1>3, HeadTailProperties
  <2> DEFINE h == Head(r)
  <2>3. /\ h.place \in Cells /\ h.content.kind # "active" /\ h.content.kind # "fpm1"
        /\ h.place[1] \in Used => h.content.seq = n /\ h.place = CellOf(h.place[1], n)
    BY <2>2, FormsAre DEF G
  <2>4. t = Put(c, h.place, Torn) /\ e = Put(c, h.place, h.content) /\ w = u
    BY <2>1, <2>3
  <2> HIDE DEF h
  <2>5. InPlace(t)
    BY <1>2, <2>3, <2>4, InPlaceKept
  <2>6. InPlace(e)
    BY <2>3, <2>4, InPlaceKept
  <2>7. AtMost(t, 0)
    BY <1>2, <1>3, <2>3, <2>4, AtMostKept
  <2>8. AtMost(e, 0)
    BY <1>3, <2>3, <2>4, AtMostKept
  <2>9. NoLegacy(c) => NoLegacy(t)
    BY <1>2, <2>3, <2>4, NoLegacyKept
  <2>10. /\ NoLegacy(c) => NoLegacy(e)
         /\ \A l \in {"A", "B"} : c[<<"Legacy", l>>].kind # "fpm1" => e[<<"Legacy", l>>].kind # "fpm1"
    BY <2>3, <2>4, NoLegacyKept
  <2>11. \A f \in F : Comes(e, Tail(r), f)
    <3> SUFFICES ASSUME NEW f \in F PROVE Comes(e, Tail(r), f)
      OBVIOUS
    <3>1. f \in Writes /\ Comes(c, r, f)
      BY <1>1, <1>3
    <3>2. Comes(Put(c, Head(r).place, Head(r).content), Tail(r), f)
      BY <1>3, <2>1, <3>1, OneWriteOn DEF Put
    <3> QED BY <2>4, <3>2 DEF h
  <2>12. ASSUME NEW l \in {"A", "B"}
         PROVE  e[<<"Legacy", l>>].kind # "fpm1" \/ Ends(Tail(r), I(l))
    <3>1. CASE c[<<"Legacy", l>>].kind # "fpm1"
      BY <2>10, <3>1
    <3>2. CASE Ends(r, I(l))
      <4>1. h = I(l) \/ Ends(Tail(r), I(l))
        BY <1>3, <2>1, <3>2, EndsOn DEF h
      <4>2. ASSUME h = I(l) PROVE e[<<"Legacy", l>>].kind # "fpm1"
        <5>1. h.place = <<"Legacy", l>> /\ h.content.kind = "blank" /\ <<"Legacy", l>> \in Cells
          BY <4>2, CellNames DEF Write, Blank, Content
        <5> QED BY <2>4, <5>1 DEF Put
      <4> QED BY <4>1, <4>2
    <3> QED BY <1>3, <3>1, <3>2
  <2>13. Forming(e, Tail(s), n, v, u)
    BY <2>1, <2>2, <2>8, <2>11, <2>12 DEF Forming, Staged, F, G, a
  <2> QED BY <2>4, <2>5, <2>6, <2>7, <2>9, <2>10, <2>13 DEF Formed
\* The ACTIVE markers.
<1>4. ASSUME NEW l \in {"A", "B"}, Head(s) = Mark("active", l, n), Tail(s) \in {<<Mark("active", "B", n)>>, <<>>},
             NoLegacy(c), AllAt(c, n, v), AtMost(c, n), Formed(c, n, u)
      PROVE  Goal
  <2>1. /\ t = Put(c, <<"LayoutMarker", l>>, Torn)
        /\ e = Put(c, <<"LayoutMarker", l>>, Mark("active", l, n).content) /\ w = v
    <3>1. /\ Mark("active", l, n).place = <<"LayoutMarker", l>>
          /\ Mark("active", l, n).content.kind = "active"
      BY LastTwo
    <3> QED BY <1>4, <3>1
  <2>2. InPlace(t) /\ InPlace(e) /\ NoLegacy(t) /\ NoLegacy(e) /\ AllAt(e, n, v) /\ AtMost(e, n)
    BY <1>4, <2>1, MarkWhole
  <2>3. AtMost(c, 0) => AtMost(t, 0)
    BY <2>1, MarkWhole
  <2>4. AllAt(c, n, u) /\ AtMost(c, n) => AllAt(t, n, u) /\ AtMost(t, n)
    BY <2>1, MarkWhole
  <2>5. Formed(t, n, u)
    BY <1>4, <2>2, <2>3, <2>4 DEF Formed, Whole
  <2>6. Forming(e, Tail(s), n, v, v)
    BY <1>4, <2>2 DEF Forming, Published, Whole
  <2> QED BY <2>1, <2>2, <2>5, <2>6
<1>5. ASSUME Published(c, s, n, v, u) PROVE Goal
  <2>1. NoLegacy(c) /\ AllAt(c, n, v) /\ AtMost(c, n) /\ Formed(c, n, u)
    BY <1>5 DEF Published, Whole, Formed
  <2>2. CASE s = RecoverWrites(n)
    <3>1. Head(s) = Mark("active", "A", n) /\ Tail(s) = <<Mark("active", "B", n)>>
      BY <2>2, LastTwo
    <3> HIDE DEF Goal
    <3> QED BY <1>4, <2>1, <3>1
  <2>3. CASE s = <<Mark("active", "B", n)>>
    <3>1. Head(s) = Mark("active", "B", n) /\ Tail(s) = <<>>
      BY <2>3
    <3> HIDE DEF Goal
    <3> QED BY <1>4, <2>1, <3>1
  <2> QED BY <1>5, <2>2, <2>3 DEF Published
<1>6. ASSUME Staged(c, s, n, v) PROVE Goal
  <2>1. PICK r \in Seq(G) : /\ s = r \o a /\ \A f \in F : Comes(c, r, f)
                            /\ \A l \in {"A", "B"} : c[<<"Legacy", l>>].kind # "fpm1" \/ Ends(r, I(l))
    BY <1>6 DEF Staged
  <2>2. AtMost(c, 0)
    BY <1>6 DEF Staged
  <2>3. CASE r # <<>>
    <3> HIDE DEF Goal, F, G, a, I
    <3> QED BY <1>3, <2>1, <2>2, <2>3
  <2>4. CASE r = <<>>
    <3>1. s = a
      BY <1>1, <2>1, <2>4, ConcatEmptySeq
    <3>2. Head(s) = Mark("active", "A", n) /\ Tail(s) = <<Mark("active", "B", n)>>
      BY <3>1, LastTwo
    <3>3. AllAt(c, n, v)
      BY <2>1, <2>4, RecordsMade
    <3>4. NoLegacy(c)
      BY <2>1, <2>4, NoLegacyIs DEF Ends
    <3>5. AtMost(c, n) /\ Formed(c, n, u)
      BY <2>2, AtMostGrows DEF Formed
    <3> HIDE DEF Goal
    <3> QED BY <1>4, <3>2, <3>3, <3>4, <3>5
  <2> QED BY <2>3, <2>4
<1> QED BY <1>5, <1>6 DEF Forming

LEMMA MigrationStarts ==
    ASSUME NEW c, NEW n \in Nat, NEW v \in Configs, AtMost(c, 0)
    PROVE  Staged(c, MigrateWrites(n, v), n, v)
<1> DEFINE m == <<Mark("migrating", "A", n), Mark("migrating", "B", n)>>
           b == DomainWrites(n, Used, v)
           I(l) == Write(<<"Legacy", l>>, Blank)
           i == <<I("A"), I("B")>>
           G == Forms(n, v)
           F == Records(n, v)
<1>1. m \in Seq(G) /\ i \in Seq(G)
  <2>1. \A s \in {"A", "B"} : Mark("migrating", s, n) \in G /\ I(s) \in G
    BY DEF Forms
  <2> HIDE DEF G, I
  <2> QED BY <2>1
<1>2. b \in Seq(G)
  <2>1. \A d \in Used : Write(CellOf(d, n), Content("record", n, v[d])) \in G
    BY DEF Forms, Records, RecordFor
  <2> HIDE DEF G
  <2> QED BY <2>1, DomainWritesIn
<1>3. m \in Seq(Writes) /\ b \in Seq(Writes) /\ i \in Seq(Writes)
  BY <1>1, <1>2, FormsAre
<1>4. MigrateWrites(n, v) = ((m \o b) \o i) \o RecoverWrites(n)
  BY DEF MigrateWrites, RecoverWrites
<1>5. (m \o b) \o i \in Seq(G) /\ m \o b \in Seq(Writes)
  <2> HIDE DEF m, b, i, G
  <2>1. m \o b \in Seq(G) /\ m \o b \in Seq(Writes)
    BY <1>1, <1>2, <1>3, ConcatProperties
  <2> QED BY <1>1, <2>1, ConcatProperties
<1>6. \A l : I(l).place = <<"Legacy", l>>
  BY DEF Write
<1>7. \A l \in {"A", "B"} : Ends((m \o b) \o i, I(l))
  <2>1. Ends(i, I("A")) /\ Ends(i, I("B"))
    <3>1. I("A").place # I("B").place
      BY <1>6
    <3> HIDE DEF I
    <3> QED BY <3>1, Pair
  <2> HIDE DEF m, b, i, I
  <2> QED BY <1>3, <1>5, <2>1, Concatenated
<1>8. \A f \in F : Ends((m \o b) \o i, f)
  <2> SUFFICES ASSUME NEW f \in F PROVE Ends((m \o b) \o i, f)
    OBVIOUS
  <2>1. PICK d \in Used : f = RecordFor(d, n, v) /\ f.place[1] = d
    BY RecordsAre
  <2>2. Ends(b, f)
    <3>1. \A e \in Used : Ends(b, Write(CellOf(e, n), Content("record", n, v[e])))
      BY DomainWritesEnd
    <3> HIDE DEF b
    <3> QED BY <2>1, <3>1 DEF RecordFor
  <2>3. Avoids(i, f.place)
    <3>1. I("A").place # f.place /\ I("B").place # f.place /\ I("A").place # I("B").place
      BY <1>6, <2>1, Names
    <3> HIDE DEF I
    <3> QED BY <3>1, Pair
  <2> HIDE DEF m, b, i, F
  <2>4. Ends(m \o b, f)
    BY <1>3, <2>2, Concatenated
  <2> QED BY <1>3, <1>5, <2>3, <2>4, Concatenated
<1> HIDE DEF m, b, i, F, G
<1> DEFINE r == (m \o b) \o i
<1>9. /\ r \in Seq(G) /\ MigrateWrites(n, v) = r \o RecoverWrites(n)
      /\ \A f \in F : Comes(c, r, f)
      /\ \A l \in {"A", "B"} : Ends(r, Write(<<"Legacy", l>>, Blank))
  BY <1>4, <1>5, <1>7, <1>8 DEF Comes
<1> HIDE DEF r
<1> QED BY <1>9 DEF Staged, F, G

LEMMA RecoveryStarts ==
    ASSUME NEW c, NEW n \in Nat, NEW v \in Configs, NEW u, NoLegacy(c), AllAt(c, n, v), Formed(c, n, u)
    PROVE  Forming(c, RecoverWrites(n), n, v, u)
<1>1. CASE AtMost(c, 0)
  <2>1. RecoverWrites(n) = <<>> \o RecoverWrites(n) /\ <<>> \in Seq(Forms(n, v))
    BY LastTwo, ConcatEmptySeq
  <2>2. \A f \in Records(n, v) : Comes(c, <<>>, f)
    <3> SUFFICES ASSUME NEW f \in Records(n, v) PROVE Comes(c, <<>>, f)
      OBVIOUS
    <3>1. PICK d \in Used : f.place = CellOf(d, n) /\ f.content = Content("record", n, v[d])
      BY RecordsAre
    <3>2. c[f.place] = f.content
      BY <3>1 DEF AllAt
    <3> QED BY <3>2 DEF Comes, Avoids
  <2>3. \A l \in {"A", "B"} : c[<<"Legacy", l>>].kind # "fpm1"
    BY NoLegacyIs
  <2> QED BY <1>1, <2>1, <2>2, <2>3 DEF Forming, Staged
<1>2. CASE Whole(c, n, u)
  BY <1>2 DEF Forming, Published
<1> QED BY <1>1, <1>2 DEF Formed

LEMMA FormingEnds ==
    ASSUME NEW c, NEW n \in Nat, NEW v \in Configs, NEW u, Forming(c, <<>>, n, v, u)
    PROVE  Ready(c, n, u)
<1> DEFINE a == RecoverWrites(n)
<1>1. ASSUME NEW r \in Seq(Forms(n, v)) PROVE r \o a # <<>>
  <2>1. r \in Seq(Writes) /\ a \in Seq(Writes) /\ Len(a) = 2
    BY FormsAre, LastTwo
  <2> HIDE DEF a
  <2>2. Len(r \o a) = Len(r) + Len(a) /\ Len(r) \in Nat
    BY <2>1, LengthsAdd
  <2> QED BY <2>1, <2>2
<1>2. NoLegacy(c) /\ Whole(c, n, u)
  BY <1>1 DEF Forming, Staged, Published
<1> QED BY <1>2, WholeIsReady

-----------------------------------------------------------------------------
(* Every step keeps a full save whole.                                       *)

\* Between saves: the next one may begin, or the lock and a repair come first.
Settled(c, n, u, l) ==
    IF l.recovery THEN l.required /\ NoLegacy(c) /\ Formed(c, n, u)
    ELSE (l.incompatible /\ (l.required \/ l.uiIncompatible)) \/ Ready(c, n, u)

\* During one: a migration or its completion, a full save, or one that has written nothing.
Migrates(c, j, n, u, l) ==
    /\ Forming(c, j.todo, j.seq, j.config, u) /\ j.domains = Used /\ j.seq > 0
    /\ l.recovery => /\ j.seq = n /\ NoLegacy(c)
                     /\ j.op = "recover" \/ (j.op = "retryFormat" /\ l.required)
    /\ ~l.recovery => /\ l.incompatible /\ (l.required \/ l.uiIncompatible)
                      /\ j.op \in {"migrate", "retryFormat"}
Replaces(c, j, n, u, l) ==
    /\ ~l.recovery /\ j.seq = n + 1 /\ j.domains = Used
    /\ Filling(c, j.todo, n, j.config, u)
Awaits(c, j, n, u, l) ==
    /\ ~l.recovery /\ j.domains # Used /\ (j.todo = <<>> => j.seq = n)
    /\ Ready(c, n, u)
Goes(c, j, n, u, l) == Migrates(c, j, n, u, l) \/ Replaces(c, j, n, u, l) \/ Awaits(c, j, n, u, l)

Atomic ==
    ~past.partial /\ ~past.unreadable =>
        /\ InPlace(cell) /\ Restorable(cell, past.published)
        /\ Idle => Settled(cell, seq, past.published, lock)
        /\ job # NoJob => Goes(cell, job, seq, past.published, lock)

AtomicInv == TypeOK /\ OffIsIdle /\ Atomic

LEMMA AtomicNext ==
    ASSUME ~past'.partial /\ ~past'.unreadable =>
             /\ InPlace(cell') /\ Restorable(cell', past'.published)
             /\ mode' = "on" /\ job' = NoJob => Settled(cell', seq', past'.published, lock')
             /\ job' # NoJob => Goes(cell', job', seq', past'.published, lock')
    PROVE  Atomic'
BY DEF Atomic, Idle, InPlace, Restorable, NoLegacy, LegA, LegB, AtMost, AllAt, Broken, Has, Readable, Whole,
       Sound, Ready, Filling, Records, RecordFor, Forms, Staged, Published, Forming, Formed, Settled, Migrates,
       Replaces, Awaits, Goes, Comes, Ends, Avoids, MarkOf, Mark, Write, Content, CellOf, RecoverWrites

\* A step of the idle loop that starts no save.
LEMMA AtomicIdle ==
    ASSUME Atomic, UNCHANGED <<cell, mode, seq, lock, job>>, past'.published = past.published,
           past'.partial = past.partial, past'.unreadable = past.unreadable
    PROVE  Atomic'
BY AtomicNext DEF Atomic, Idle

LEMMA CommitTodo ==
    ASSUME NEW n \in Nat, NEW D \in SUBSET Used, NEW v \in Configs, NEW op
    PROVE  /\ Commit(op, n, D, v).todo = CommitWrites(n, D, v) /\ CommitWrites(n, D, v) # <<>>
           /\ Commit(op, n, D, v).domains = D /\ Commit(op, n, D, v).seq = n /\ Commit(op, n, D, v).config = v
<1>1. Ends(CommitWrites(n, D, v), MarkOf("active", n))
  BY CommitFits
<1>2. \A f : ~Ends(<<>>, f)
  BY DEF Ends
<1> QED BY <1>1, <1>2 DEF Commit, Job

\* A save of some or of all domains begins.
LEMMA CommitGoes ==
    ASSUME NEW c, NEW n \in Nat, NEW D \in SUBSET Used, NEW v \in Configs, NEW op, NEW u, NEW l,
           Ready(c, n, u), ~l.recovery
    PROVE  Goes(c, Commit(op, n + 1, D, v), n, u, l)
<1> DEFINE j == Commit(op, n + 1, D, v)
<1>1. /\ j.todo = CommitWrites(n + 1, D, v) /\ j.todo # <<>>
      /\ j.domains = D /\ j.seq = n + 1 /\ j.config = v
  <2>1. n + 1 \in Nat
    OBVIOUS
  <2> QED BY <2>1, CommitTodo
<1> HIDE DEF j
<1>2. CASE D = Used
  <2>1. Filling(c, j.todo, n, j.config, u)
    BY <1>1, <1>2, FillingStarts
  <2>2. Replaces(c, j, n, u, l)
    BY <1>1, <1>2, <2>1 DEF Replaces
  <2> QED BY <2>2 DEF Goes, j
<1>3. CASE D # Used
  <2>1. Awaits(c, j, n, u, l)
    BY <1>1, <1>3 DEF Awaits
  <2> QED BY <2>1 DEF Goes, j
<1> QED BY <1>2, <1>3

LEMMA MigrateGoes ==
    ASSUME NEW c, NEW n \in Nat, NEW v \in Configs, NEW op \in {"migrate", "retryFormat"}, NEW m, NEW u, NEW l,
           AtMost(c, 0), ~l.recovery, l.incompatible, l.required \/ l.uiIncompatible
    PROVE  Goes(c, Migrate(op, n + 1, v), m, u, l)
<1> DEFINE j == Migrate(op, n + 1, v)
<1>1. /\ j.todo = MigrateWrites(n + 1, v) /\ j.domains = Used /\ j.seq = n + 1 /\ j.config = v /\ j.op = op
  BY DEF Migrate, Job
<1>2. n + 1 \in Nat /\ n + 1 > 0
  OBVIOUS
<1> HIDE DEF j
<1>3. Forming(c, j.todo, j.seq, j.config, u)
  BY <1>1, <1>2, MigrationStarts DEF Forming
<1>4. Migrates(c, j, m, u, l)
  BY <1>1, <1>2, <1>3 DEF Migrates
<1> QED BY <1>4 DEF Goes, j

LEMMA RecoverGoes ==
    ASSUME NEW c \in [Cells -> Contents], InPlace(c), NEW n \in Nat, NEW op \in {"recover", "retryFormat"},
           NEW u, NEW l, CompleteExactly(c, n), NoLegacy(c), Formed(c, n, u),
           l.recovery, op = "retryFormat" => l.required
    PROVE  Goes(c, Recover(op, n, ValuesAt(c, n)), n, u, l)
<1> DEFINE v == ValuesAt(c, n)
           j == Recover(op, n, v)
<1>1. j.todo = RecoverWrites(n) /\ j.domains = Used /\ j.seq = n /\ j.config = v /\ j.op = op
  BY DEF Recover, Job
<1>2. v \in Configs /\ AllAt(c, n, v) /\ n > 0
  BY ExactlyWhole, ValuesType DEF CompleteExactly
<1> HIDE DEF v, j
<1>3. Forming(c, j.todo, j.seq, j.config, u)
  BY <1>1, <1>2, RecoveryStarts
<1>4. Migrates(c, j, n, u, l)
  BY <1>1, <1>2, <1>3 DEF Migrates
<1> QED BY <1>4 DEF Goes, j, v

LEMMA BootAtomic ==
    ASSUME TypeOK, Atomic, Boot
    PROVE  Atomic'
<1> DEFINE legacy == Incompatible(cell) /\ LegacyRecords(cell) # {}
           blank  == ~Required(cell) /\ ~Incompatible(cell) /\ ~Selected(cell)
           source == IF legacy THEN [d \in Used |-> LegacyRecord(cell).val] ELSE Restored(cell)
           number == IF legacy THEN LegacyRecord(cell).seq
                     ELSE IF Selected(cell) THEN ReadGeneration(cell) ELSE 0
           u == past.published
<1>1. /\ seq' = number /\ cell' = cell /\ past' = past
      /\ lock' = [required |-> Required(cell), uiIncompatible |-> Incompatible(cell),
                  incompatible |-> Incompatible(cell), recovery |-> Recoverable(cell)]
      /\ job' = IF blank THEN Commit("init", 1, Used, Default)
                ELSE IF Recoverable(cell) THEN Recover("recover", number, source)
                ELSE IF legacy THEN Migrate("migrate", number + 1, source)
                ELSE NoJob
  BY DEF Boot
<1> SUFFICES ASSUME ~past.partial, ~past.unreadable PROVE Atomic'
  BY <1>1, AtomicNext
<1>2. cell \in [Cells -> Contents] /\ u \in Configs /\ InPlace(cell) /\ Restorable(cell, u)
  BY TypeParts DEF Atomic, Pasts
<1>3. lock'.recovery = Recoverable(cell) /\ lock'.incompatible = Incompatible(cell)
      /\ lock'.uiIncompatible = Incompatible(cell)
  BY <1>1
<1>4. Generation(cell) \in Nat /\ ReadGeneration(cell) \in Nat
  BY <1>2, GenerationType
<1>5. ASSUME job' # NoJob, Goes(cell, job', seq', u, lock') PROVE Atomic'
  BY <1>1, <1>2, <1>5, AtomicNext
<1>6. CASE blank
  <2>1. job' = Commit("init", 0 + 1, Used, Default) /\ seq' = 0
    BY <1>1, <1>6
  <2>2. job' # NoJob
    BY <2>1, CommitFields
  <2>3. Generation(cell) = 0
    <3>1. SUFFICES ASSUME Generation(cell) # 0 PROVE FALSE
      OBVIOUS
    <3>2. ~AtMost(cell, 0)
      BY <1>2, <3>1, Unmarked
    <3>3. PICK s \in {"A", "B"} : cell[<<"LayoutMarker", s>>].kind = "active"
      BY <3>2 DEF AtMost
    <3>4. <<"LayoutMarker", s>> \in Probed(cell)
      BY CellNames DEF Probed
    <3>5. ContainsData(cell)
      BY <3>3, <3>4 DEF ContainsData
    <3> QED BY <1>6, <3>5 DEF Incompatible
  <2>4. NoLegacy(cell)
    BY <1>6, <2>3, NoLegacyIs DEF Incompatible, LegacyPresent
  <2>5. ~Recoverable(cell)
    BY <1>6, <2>3 DEF Selected
  <2>6. Ready(cell, 0, u)
    BY <1>2, <2>3, <2>4, Unmarked, NothingInForce, SoundIsReady
  <2>7. Goes(cell, Commit("init", 0 + 1, Used, Default), 0, u, lock')
    BY <1>3, <2>5, <2>6, CommitGoes, DefaultType
  <2> QED BY <1>5, <2>1, <2>2, <2>7
<1>7. CASE Recoverable(cell)
  <2>1. /\ Generation(cell) = 0 /\ ReadGeneration(cell) = MigrationGeneration(cell)
        /\ CompleteExactly(cell, ReadGeneration(cell)) /\ ~LegacyPresent(cell) /\ Selected(cell)
    BY <1>7 DEF Recoverable, ReadGeneration, Selected
  <2>2. NoLegacy(cell)
    BY <2>1, NoLegacyIs DEF LegacyPresent
  <2>3. ~legacy /\ ~blank
    BY <2>1, <2>2, NoLegacyIs
  <2>4. number = ReadGeneration(cell) /\ source = ValuesAt(cell, ReadGeneration(cell))
    BY <2>1, <2>3 DEF Restored
  <2>5. job' = Recover("recover", ReadGeneration(cell), ValuesAt(cell, ReadGeneration(cell)))
        /\ seq' = ReadGeneration(cell)
    BY <1>1, <1>7, <2>3, <2>4
  <2>6. job' # NoJob
    BY <2>5, JobFields
  <2>7. Formed(cell, ReadGeneration(cell), u)
    BY <1>2, <2>1, Unmarked DEF Formed
  <2>8. Goes(cell, job', seq', u, lock')
    BY <1>2, <1>3, <1>4, <1>7, <2>1, <2>2, <2>5, <2>7, RecoverGoes
  <2> QED BY <1>5, <2>6, <2>8
<1>8. CASE ~blank /\ ~Recoverable(cell) /\ legacy
  <2>1. job' = Migrate("migrate", number + 1, source) /\ number \in Nat /\ source \in Configs
    BY <1>1, <1>2, <1>8, LegacyType
  <2>2. AtMost(cell, 0)
    BY <1>2, <1>8, NoLegacyIs DEF Restorable
  <2> HIDE DEF number, source
  <2>3. job' # NoJob
    BY <2>1, MigrateFields
  <2>4. Goes(cell, job', seq', u, lock')
    BY <1>3, <1>8, <2>1, <2>2, MigrateGoes
  <2> QED BY <1>5, <2>3, <2>4
<1>9. CASE ~blank /\ ~Recoverable(cell) /\ ~legacy
  <2>1. job' = NoJob
    BY <1>1, <1>9
  <2>2. Settled(cell, seq', u, lock')
    <3>1. CASE Incompatible(cell)
      BY <1>3, <1>9, <3>1 DEF Settled
    <3>2. CASE ~Incompatible(cell)
      <4>1. Selected(cell)
        BY <1>9, <3>2 DEF Required, Incompatible
      <4>2. Generation(cell) # 0 /\ Complete(cell, Generation(cell))
        BY <1>9, <4>1 DEF Selected
      <4>3. seq' = Generation(cell)
        BY <1>1, <1>9, <4>1, <4>2 DEF ReadGeneration
      <4>4. NoLegacy(cell)
        BY <1>2, <4>2, Unmarked DEF Restorable
      <4>5. PICK n \in Nat : Sound(cell, n, u)
        BY <1>2 DEF Restorable
      <4>6. n = Generation(cell) /\ AllAt(cell, n, u)
        BY <1>2, <4>2, <4>5, SoundReads
      <4>7. Ready(cell, seq', u)
        BY <4>3, <4>4, <4>5, <4>6, WholeIsReady DEF Whole, Sound
      <4> QED BY <1>3, <1>9, <4>7 DEF Settled
    <3> QED BY <3>1, <3>2
  <2> QED BY <1>1, <1>2, <2>1, <2>2, AtomicNext
<1> QED BY <1>6, <1>7, <1>8, <1>9

\* A job in progress, with any domains it may have.
LEMMA JobParts ==
    ASSUME TypeOK, Writing
    PROVE  /\ cell \in [Cells -> Contents] /\ seq \in Nat /\ job \in Jobs /\ past \in Pasts /\ lock \in Locks
           /\ past.published \in Configs /\ job.seq \in Nat /\ job.config \in Configs
           /\ job.todo # <<>> /\ job # NoJob
BY TypeParts, JobFields DEF Writing, Jobs, Pasts

LEMMA PublishedWhole ==
    ASSUME job.domains = Used, job.config \in Configs, NEW x
    PROVE  PublishedBy(x) = IF x.content.kind = "active" THEN job.config ELSE past.published
BY DEF PublishedBy, Configs

LEMMA FormingFormed ==
    ASSUME NEW c, NEW s, NEW n, NEW v, NEW u, Forming(c, s, n, v, u)
    PROVE  Formed(c, n, u)
BY DEF Forming, Staged, Published, Formed

\* A write of a full save, done or torn.
LEMMA OneWrite ==
    ASSUME TypeOK, Writing, InPlace(cell), job.domains = Used, Goes(cell, job, seq, past.published, lock),
           NEW t, t = Put(cell, Head1.place, Torn),
           NEW e, e = Put(cell, Head1.place, Head1.content), NEW w, w = PublishedBy(Head1)
    PROVE  /\ InPlace(t) /\ InPlace(e)
           /\ Migrates(cell, job, seq, past.published, lock) =>
                /\ Formed(t, job.seq, past.published)
                /\ Forming(e, Tail(job.todo), job.seq, job.config, w)
                /\ NoLegacy(cell) => NoLegacy(t) /\ NoLegacy(e)
           /\ Replaces(cell, job, seq, past.published, lock) =>
                /\ Ready(t, seq, past.published)
                /\ Filling(e, Tail(job.todo), seq, job.config, w)
<1> DEFINE s == job.todo
           v == job.config
           u == past.published
<1>1. cell \in [Cells -> Contents] /\ seq \in Nat /\ job.seq \in Nat /\ v \in Configs /\ s # <<>>
  BY JobParts
<1>2. w = IF Head(s).content.kind = "active" THEN v ELSE u
  BY <1>1, PublishedWhole DEF Head1
<1>3. t = Put(cell, Head(s).place, Torn) /\ e = Put(cell, Head(s).place, Head(s).content)
  BY DEF Head1
<1>4. ASSUME Migrates(cell, job, seq, u, lock)
      PROVE  /\ InPlace(t) /\ Formed(t, job.seq, u) /\ InPlace(e) /\ Forming(e, Tail(s), job.seq, v, w)
             /\ NoLegacy(cell) => NoLegacy(t) /\ NoLegacy(e)
  <2>1. Forming(cell, s, job.seq, v, u) /\ job.seq > 0
    BY <1>4 DEF Migrates
  <2> HIDE DEF s, v, u
  <2> QED BY <1>1, <1>2, <1>3, <2>1, FormingWrite
<1>5. ASSUME Replaces(cell, job, seq, u, lock)
      PROVE  InPlace(t) /\ Ready(t, seq, u) /\ InPlace(e) /\ Filling(e, Tail(s), seq, v, w)
  <2>1. Filling(cell, s, seq, v, u)
    BY <1>5 DEF Replaces
  <2> HIDE DEF s, v, u
  <2> QED BY <1>1, <1>2, <1>3, <2>1, FillingWrite
<1>6. ~Awaits(cell, job, seq, u, lock)
  BY DEF Awaits
<1> QED BY <1>4, <1>5, <1>6 DEF Goes

\* What a write that failed or was cut off leaves of it.
LEMMA CutLeaves ==
    ASSUME TypeOK, Writing, InPlace(cell), job.domains = Used, Goes(cell, job, seq, past.published, lock),
           NEW left \in Leftovers, NEW e, e = Put(cell, Head1.place, left),
           NEW w, w = IF left = Head1.content THEN PublishedBy(Head1) ELSE past.published
    PROVE  /\ InPlace(e) /\ Restorable(e, w)
           /\ Migrates(cell, job, seq, past.published, lock) =>
                Formed(e, job.seq, w) /\ (NoLegacy(cell) => NoLegacy(e))
           /\ Replaces(cell, job, seq, past.published, lock) => Ready(e, seq, w)
<1> DEFINE u == past.published
           Goal == /\ InPlace(e)
                   /\ Migrates(cell, job, seq, u, lock) =>
                        Formed(e, job.seq, w) /\ (NoLegacy(cell) => NoLegacy(e))
                   /\ Replaces(cell, job, seq, u, lock) => Ready(e, seq, w)
<1>1. cell \in [Cells -> Contents] /\ seq \in Nat /\ job.seq \in Nat /\ Head1.place \in Cells
  BY JobParts, HeadType
<1>2. ASSUME left = Head1.content PROVE Goal
  <2>1. e = Put(cell, Head1.place, Head1.content) /\ w = PublishedBy(Head1)
    BY <1>2
  <2>2. /\ InPlace(e)
        /\ Migrates(cell, job, seq, u, lock) =>
             Forming(e, Tail(job.todo), job.seq, job.config, w) /\ (NoLegacy(cell) => NoLegacy(e))
        /\ Replaces(cell, job, seq, u, lock) => Filling(e, Tail(job.todo), seq, job.config, w)
    BY <2>1, OneWrite
  <2>3. Filling(e, Tail(job.todo), seq, job.config, w) => Ready(e, seq, w)
    BY DEF Filling
  <2>4. Forming(e, Tail(job.todo), job.seq, job.config, w) => Formed(e, job.seq, w)
    BY FormingFormed
  <2> QED BY <2>2, <2>3, <2>4
<1>3. ASSUME left # Head1.content, left = Torn PROVE Goal
  <2>1. e = Put(cell, Head1.place, Torn) /\ w = u
    BY <1>3
  <2> QED BY <2>1, OneWrite
<1>4. ASSUME left # Head1.content, left = cell[Head1.place] PROVE Goal
  <2>1. e = cell /\ w = u
    BY <1>1, <1>4 DEF Put
  <2>2. Migrates(cell, job, seq, u, lock) => Formed(cell, job.seq, u)
    BY FormingFormed DEF Migrates
  <2>3. Replaces(cell, job, seq, u, lock) => Ready(cell, seq, u)
    BY DEF Replaces, Filling
  <2> QED BY <2>1, <2>2, <2>3
<1>5. Goal
  BY <1>2, <1>3, <1>4 DEF Leftovers
<1>6. e \in [Cells -> Contents]
  <2>1. left \in Contents
    BY <1>1, HeadType, ContentType DEF Leftovers, Torn, Content
  <2> QED BY <1>1, <2>1 DEF Put
<1>7. Migrates(cell, job, seq, u, lock) \/ Replaces(cell, job, seq, u, lock)
  BY DEF Goes, Awaits
<1> HIDE DEF u
<1>8. CASE Migrates(cell, job, seq, u, lock)
  <2>1. Restorable(e, w)
    BY <1>1, <1>5, <1>6, <1>8, FormedRestores
  <2> QED BY <1>5, <2>1 DEF u
<1>9. CASE Replaces(cell, job, seq, u, lock)
  <2>1. Restorable(e, w)
    BY <1>1, <1>5, <1>9, ReadyRestores
  <2> QED BY <1>5, <2>1 DEF u
<1> QED BY <1>7, <1>8, <1>9

LEMMA SaveAtomic ==
    ASSUME TypeOK, Atomic, Idle, ~Locked, NEW op \in Saves, NEW D \in SUBSET Used,
           cfg' \in Configs, job' = Commit(op, seq + 1, D, cfg'), UNCHANGED <<cell, seq, lock, past>>
    PROVE  Atomic'
<1> SUFFICES ASSUME ~past.partial, ~past.unreadable PROVE Atomic'
  BY AtomicNext
<1> DEFINE u == past.published
<1>1. /\ cell \in [Cells -> Contents] /\ seq \in Nat
      /\ InPlace(cell) /\ Restorable(cell, u) /\ Settled(cell, seq, u, lock)
  BY TypeParts DEF Atomic
<1>2. ~lock.recovery /\ Ready(cell, seq, u)
  BY <1>1 DEF Settled, Locked
<1>3. Goes(cell, job', seq, u, lock)
  BY <1>1, <1>2, CommitGoes
<1>4. job' # NoJob
  BY CommitFields DEF Saves
<1> QED BY <1>1, <1>3, <1>4, AtomicNext

LEMMA RetryAtomic ==
    ASSUME TypeOK, Atomic, Retry
    PROVE  Atomic'
<1>1. /\ cell \in [Cells -> Contents] /\ seq \in Nat /\ cfg \in Configs
      /\ Idle /\ UNCHANGED <<cell, mode, lock, past>>
  BY TypeParts DEF Retry
<1> SUFFICES ASSUME ~past.partial, ~past.unreadable PROVE Atomic'
  BY <1>1, AtomicNext
<1> DEFINE u == past.published
<1>2. InPlace(cell) /\ Restorable(cell, u) /\ Settled(cell, seq, u, lock)
  BY <1>1 DEF Atomic
\* A retry that starts a job, and one that only reports.
<1>3. ASSUME job' # NoJob, Goes(cell, job', seq', u, lock) PROVE Atomic'
  BY <1>1, <1>2, <1>3, AtomicNext
<1>4. ASSUME UNCHANGED <<job, seq>> PROVE Atomic'
  BY <1>1, <1>4, AtomicIdle
<1>5. CASE lock.recovery
  <2>1. seq' = seq /\ lock.required /\ NoLegacy(cell) /\ Formed(cell, seq, u)
    BY <1>2, <1>5 DEF Retry, Settled, BlankRetry
  <2>2. CASE CompleteExactly(cell, seq) /\ job' = Recover("retryFormat", seq, ValuesAt(cell, seq))
    <3>1. Goes(cell, Recover("retryFormat", seq, ValuesAt(cell, seq)), seq, u, lock)
      BY <1>1, <1>2, <1>5, <2>1, <2>2, RecoverGoes
    <3>2. job' # NoJob
      BY <2>2, JobFields
    <3> QED BY <1>3, <2>1, <2>2, <3>1, <3>2
  <2>3. CASE UNCHANGED job
    BY <1>4, <2>1, <2>3
  <2> QED BY <1>5, <2>2, <2>3 DEF Retry, BlankRetry
<1>6. CASE ~lock.recovery /\ lock.incompatible
  <2>1. CASE LegacyRecords(cell) # {} /\ job' = Migrate("retryFormat", seq' + 1, cfg')
             /\ seq' = LegacyRecord(cell).seq /\ cfg' = [d \in Used |-> LegacyRecord(cell).val]
    <3>1. seq' \in Nat /\ cfg' \in Configs
      BY <1>1, <2>1, LegacyType
    <3>2. ~NoLegacy(cell)
      BY <2>1, NoLegacyIs
    <3>3. AtMost(cell, 0) /\ (lock.required \/ lock.uiIncompatible)
      BY <1>2, <1>6, <3>2 DEF Restorable, Settled, Ready
    <3>4. Goes(cell, Migrate("retryFormat", seq' + 1, cfg'), seq', u, lock)
      BY <1>6, <3>1, <3>3, MigrateGoes
    <3>5. job' # NoJob
      BY <2>1, JobFields
    <3> QED BY <1>3, <2>1, <3>4, <3>5
  <2>2. CASE UNCHANGED <<job, seq>>
    BY <1>4, <2>2
  <2>3. \/ /\ LegacyRecords(cell) # {} /\ job' = Migrate("retryFormat", seq' + 1, cfg')
           /\ seq' = LegacyRecord(cell).seq /\ cfg' = [d \in Used |-> LegacyRecord(cell).val]
        \/ UNCHANGED <<job, seq>>
    BY <1>6 DEF Retry, BlankRetry
  <2> QED BY <2>1, <2>2, <2>3
<1>7. ASSUME ~lock.recovery, ~lock.incompatible PROVE Ready(cell, seq, u)
  BY <1>2, <1>7 DEF Settled
<1>8. CASE BlankRetry
  <2>0. /\ job' = Commit("retryFormat", 1, Used, Default) /\ seq' = seq /\ seq = 0
        /\ ~lock.recovery /\ ~lock.incompatible
    BY <1>8 DEF Retry, BlankRetry
  <2>1. job' = Commit("retryFormat", 0 + 1, Used, Default) /\ seq' = 0
    BY <2>0
  <2>2. Ready(cell, 0, u)
    BY <1>7, <2>0
  <2>3. Goes(cell, Commit("retryFormat", 0 + 1, Used, Default), 0, u, lock)
    BY <2>0, <2>2, DefaultType, CommitGoes
  <2>4. job' # NoJob
    BY <2>1, JobFields
  <2> QED BY <1>3, <2>1, <2>3, <2>4
<1>9. CASE ~lock.recovery /\ ~lock.incompatible /\ ~BlankRetry
  <2> DEFINE D == IF lock.required THEN Used ELSE Changed \cup FaultDomains
  <2>1. /\ job' = IF D = {} THEN Job("retry", seq, {}, cfg, <<>>) ELSE Commit("retry", seq + 1, D, cfg)
        /\ seq' = seq
    BY <1>9 DEF Retry
  <2>2. D \in SUBSET Used
    <3>1. fault \in Faults
      BY TypeParts
    <3> QED BY <3>1 DEF Changed, FaultDomains, Faults
  <2>3. Ready(cell, seq, u)
    BY <1>7, <1>9
  <2> HIDE DEF D
  <2>4. CASE D # {}
    <3>1. Goes(cell, Commit("retry", seq + 1, D, cfg), seq, u, lock)
      BY <1>1, <1>9, <2>2, <2>3, CommitGoes
    <3>2. job' # NoJob
      BY <2>1, <2>4, JobFields
    <3> QED BY <1>3, <2>1, <2>4, <3>1, <3>2
  <2>5. CASE D = {}
    <3>1. job' = Job("retry", seq, {}, cfg, <<>>)
      BY <2>1, <2>5
    <3>2. job'.seq = seq /\ job'.domains = {} /\ Used # {}
      BY <3>1, JournalAssumption DEF Job, DoubleSlot
    <3>3. Goes(cell, job', seq, u, lock)
      BY <1>9, <2>3, <3>2 DEF Goes, Awaits
    <3>4. job' # NoJob
      BY <3>1, JobFields
    <3> QED BY <1>3, <2>1, <3>3, <3>4
  <2> QED BY <2>4, <2>5
<1> QED BY <1>5, <1>6, <1>8, <1>9 DEF BlankRetry

LEMMA WriteAtomic ==
    ASSUME TypeOK, Atomic, WriteRecord
    PROVE  Atomic'
<1>1. /\ Writing /\ job \in Jobs /\ past \in Pasts /\ job.todo # <<>> /\ job # NoJob
      /\ UNCHANGED <<seq, lock>>
  BY JobParts DEF WriteRecord
<1>2. /\ cell' = Put(cell, Head1.place, Head1.content) /\ job'.todo = Tail(job.todo)
      /\ job'.op = job.op /\ job'.seq = job.seq /\ job'.domains = job.domains /\ job'.config = job.config
      /\ past'.published = PublishedBy(Head1) /\ past'.unreadable = past.unreadable
      /\ past'.partial = (past.partial \/ job.domains # Used)
  BY <1>1 DEF WriteRecord, Put, Jobs, Pasts
<1> SUFFICES ASSUME ~past'.partial, ~past'.unreadable PROVE Atomic'
  BY AtomicNext
<1> DEFINE u == past.published
           w == past'.published
<1>3. job.domains = Used /\ InPlace(cell) /\ Goes(cell, job, seq, u, lock)
  BY <1>1, <1>2 DEF Atomic
<1>4. InPlace(cell') /\ Restorable(cell', w)
  <2>1. Head1.content \in Leftovers
    BY DEF Leftovers
  <2> QED BY <1>1, <1>2, <1>3, <2>1, CutLeaves
<1>5. /\ Migrates(cell, job, seq, u, lock) =>
           /\ Forming(cell', Tail(job.todo), job.seq, job.config, w)
           /\ NoLegacy(cell) => NoLegacy(cell')
      /\ Replaces(cell, job, seq, u, lock) => Filling(cell', Tail(job.todo), seq, job.config, w)
  <2> DEFINE t == Put(cell, Head1.place, Torn)
  <2>1. t = Put(cell, Head1.place, Torn)
    OBVIOUS
  <2> HIDE DEF t
  <2> QED BY <1>1, <1>2, <1>3, <2>1, OneWrite
<1>6. Goes(cell', job', seq', w, lock')
  <2>1. CASE Migrates(cell, job, seq, u, lock)
    <3>1. Migrates(cell', job', seq', w, lock')
      BY <1>1, <1>2, <1>5, <2>1 DEF Migrates
    <3> QED BY <3>1 DEF Goes
  <2>2. CASE Replaces(cell, job, seq, u, lock)
    <3>1. Replaces(cell', job', seq', w, lock')
      BY <1>1, <1>2, <1>5, <2>2 DEF Replaces
    <3> QED BY <3>1 DEF Goes
  <2> QED BY <1>3, <2>1, <2>2 DEF Goes, Awaits
<1>7. job' # NoJob
  BY <1>2, <1>3, JournalAssumption DEF NoJob, DoubleSlot
<1> QED BY <1>4, <1>6, <1>7, AtomicNext

LEMMA FailureAtomic ==
    ASSUME TypeOK, Atomic, NEW left \in Leftovers, WriteFails(left)
    PROVE  Atomic'
<1>1. Writing /\ past \in Pasts /\ lock \in Locks /\ job # NoJob /\ job' = NoJob /\ UNCHANGED seq
  BY JobParts DEF WriteFails
<1>2. /\ cell' = Put(cell, Head1.place, left)
      /\ past'.published = IF left = Head1.content THEN PublishedBy(Head1) ELSE past.published
      /\ past'.unreadable = past.unreadable /\ past'.partial = (past.partial \/ job.domains # Used)
  BY <1>1 DEF WriteFails, Put, Pasts
<1> SUFFICES ASSUME ~past'.partial, ~past'.unreadable PROVE Atomic'
  BY AtomicNext
<1> DEFINE u == past.published
           w == past'.published
<1>3. job.domains = Used /\ InPlace(cell) /\ Goes(cell, job, seq, u, lock)
  BY <1>1, <1>2 DEF Atomic
<1>4. /\ InPlace(cell') /\ Restorable(cell', w)
      /\ Migrates(cell, job, seq, u, lock) => Formed(cell', job.seq, w) /\ (NoLegacy(cell) => NoLegacy(cell'))
      /\ Replaces(cell, job, seq, u, lock) => Ready(cell', seq, w)
  BY <1>1, <1>2, <1>3, CutLeaves
<1>5. /\ lock'.uiIncompatible = lock.uiIncompatible /\ lock'.incompatible = lock.incompatible
      /\ lock'.recovery = lock.recovery /\ (lock.required => lock'.required)
      /\ job.op \in AtBoot => lock'.required
  BY <1>1, FailureLocks
<1>6. Settled(cell', seq', w, lock')
  <2>1. CASE Migrates(cell, job, seq, u, lock)
    <3>1. CASE lock.recovery
      <4>1. job.seq = seq /\ NoLegacy(cell) /\ lock'.required
        BY <1>5, <2>1, <3>1 DEF Migrates, AtBoot
      <4> QED BY <1>1, <1>4, <1>5, <2>1, <3>1, <4>1 DEF Settled
    <3>2. CASE ~lock.recovery
      BY <1>5, <2>1, <3>2 DEF Migrates, Settled
    <3> QED BY <3>1, <3>2
  <2>2. CASE Replaces(cell, job, seq, u, lock)
    <3>1. ~lock'.recovery /\ Ready(cell', seq', w)
      BY <1>1, <1>4, <1>5, <2>2 DEF Replaces
    <3> QED BY <3>1 DEF Settled
  <2> QED BY <1>3, <2>1, <2>2 DEF Goes, Awaits
<1> QED BY <1>1, <1>4, <1>6, AtomicNext

LEMMA RestartAtomic ==
    ASSUME TypeOK, Atomic, NEW left \in (IF Writing THEN Leftovers ELSE {Blank}), Restart(left)
    PROVE  Atomic'
<1>1. past \in Pasts /\ mode' = "off" /\ job' = NoJob
  BY TypeParts DEF Restart
<1> SUFFICES ASSUME ~past'.partial, ~past'.unreadable PROVE InPlace(cell') /\ Restorable(cell', past'.published)
  BY <1>1, AtomicNext
<1>2. past'.unreadable = past.unreadable /\ past'.partial = (past.partial \/ (Writing /\ job.domains # Used))
  BY <1>1 DEF Restart, Pasts
<1>3. InPlace(cell) /\ Restorable(cell, past.published)
      /\ (job # NoJob => Goes(cell, job, seq, past.published, lock))
  BY <1>2 DEF Atomic
<1>4. CASE ~Writing
  <2>1. cell' = cell /\ past'.published = past.published
    BY <1>1, <1>4 DEF Restart, Pasts
  <2> QED BY <1>3, <2>1
<1>5. CASE Writing
  <2>1. /\ cell' = Put(cell, Head1.place, left)
        /\ past'.published = IF left = Head1.content THEN PublishedBy(Head1) ELSE past.published
    BY <1>1, <1>5 DEF Restart, Put, Pasts
  <2>2. job # NoJob /\ job.domains = Used
    BY <1>2, <1>5, JobParts
  <2> QED BY <1>3, <1>5, <2>1, <2>2, CutLeaves
<1> QED BY <1>4, <1>5

LEMMA FinishAtomic ==
    ASSUME TypeOK, Atomic, Finish
    PROVE  Atomic'
<1>1. /\ seq \in Nat /\ job \in Jobs /\ past \in Pasts /\ lock \in Locks /\ job.op # "none" /\ job.todo = <<>>
      /\ job' = NoJob /\ seq' = job.seq /\ cell' = cell
  BY TypeParts DEF Finish, Writing
<1>2. /\ past'.published = past.published /\ past'.unreadable = past.unreadable
      /\ past'.partial = past.partial
  BY <1>1 DEF Finish, Pasts
<1> SUFFICES ASSUME ~past.partial, ~past.unreadable PROVE Atomic'
  BY <1>2, AtomicNext
<1> DEFINE u == past.published
<1>3. InPlace(cell) /\ Restorable(cell, u) /\ Goes(cell, job, seq, u, lock)
  BY <1>1, JobFields DEF Atomic
<1>4. job.seq \in Nat /\ job.config \in Configs
  BY <1>1 DEF Jobs
<1>5. Ready(cell, job.seq, u)
  <2>1. CASE Migrates(cell, job, seq, u, lock)
    <3>1. Forming(cell, <<>>, job.seq, job.config, u)
      BY <1>1, <2>1 DEF Migrates
    <3> QED BY <1>4, <3>1, FormingEnds
  <2>2. CASE Replaces(cell, job, seq, u, lock)
    <3>1. Filling(cell, <<>>, seq, job.config, u) /\ job.seq = seq + 1
      BY <1>1, <2>2 DEF Replaces
    <3>2. Ready(cell, seq + 1, u)
      BY <1>1, <1>4, <3>1, FillingEnds
    <3> QED BY <3>1, <3>2
  <2>3. CASE Awaits(cell, job, seq, u, lock)
    BY <1>1, <2>3 DEF Awaits
  <2> QED BY <1>3, <2>1, <2>2, <2>3 DEF Goes
<1>6. ~lock'.recovery
  <2>1. lock.recovery => job.op \in {"recover", "retryFormat"}
    BY <1>3 DEF Goes, Migrates, Replaces, Awaits
  <2>2. CASE job.op = "retryFormat"
    BY <2>2 DEF Finish, Unlocked
  <2>3. CASE job.op = "recover"
    <3>1. lock' = [lock EXCEPT !.required = FALSE, !.recovery = FALSE]
      BY <2>3 DEF Finish
    <3> QED BY <1>1, <3>1 DEF Locks
  <2>4. CASE job.op \notin {"recover", "retryFormat"}
    <3>1. CASE job.op \in {"migrate", "retry"}
      <4>1. lock' = [lock EXCEPT !.required = FALSE, !.uiIncompatible = FALSE] \/ lock' = lock
        BY <3>1 DEF Finish
      <4> QED BY <1>1, <2>1, <2>4, <4>1 DEF Locks
    <3>2. CASE job.op \notin {"migrate", "retry"}
      <4>1. lock' = lock
        BY <2>4, <3>2 DEF Finish
      <4> QED BY <2>1, <2>4, <4>1
    <3> QED BY <3>1, <3>2
  <2> QED BY <2>2, <2>3, <2>4
<1>7. Settled(cell', seq', u, lock')
  BY <1>1, <1>5, <1>6 DEF Settled
<1> QED BY <1>1, <1>2, <1>3, <1>7, AtomicNext

LEMMA AtomicStep == AtomicInv /\ [Next]_vars => AtomicInv'
<1> SUFFICES ASSUME TypeOK, OffIsIdle, Atomic, [Next]_vars PROVE Atomic'
  BY TypeStep, OffStep DEF AtomicInv
<1>0. past \in Pasts /\ cfg \in Configs
  BY TypeParts
<1>1. CASE UNCHANGED vars
  BY <1>1, AtomicIdle DEF vars
<1>2. CASE Boot
  BY <1>2, BootAtomic
<1>3. CASE BootUnreadable
  <2>1. past'.unreadable
    BY <1>0, <1>3 DEF BootUnreadable, Pasts
  <2> QED BY <2>1, AtomicNext
<1>4. ASSUME NEW D \in SUBSET Used, NEW v \in 0..MaxValue, Edit(D, v) PROVE Atomic'
  BY <1>4, AtomicIdle DEF Edit
<1>5. CASE DropDue
  BY <1>5, AtomicIdle DEF DropDue
<1>6. CASE ReadSnapshot
  <2>1. past'.published = past.published /\ past'.partial = past.partial /\ past'.unreadable = past.unreadable
    BY <1>0, <1>6 DEF ReadSnapshot, Pasts
  <2> QED BY <1>6, <2>1, AtomicIdle DEF ReadSnapshot
<1>7. CASE CommitDeferred
  <2>1. Changed \in SUBSET Used /\ cfg' = cfg
    BY <1>7 DEF Changed, CommitDeferred
  <2> QED BY <1>0, <1>7, <2>1, SaveAtomic DEF CommitDeferred, Saves
<1>8. ASSUME NEW D \in SUBSET Used, NEW v \in 0..MaxValue, SaveNow(D, v) PROVE Atomic'
  <2>1. cfg' \in Configs
    BY <1>0, <1>8 DEF SaveNow, Configs
  <2> QED BY <1>8, <2>1, SaveAtomic DEF SaveNow, Saves
<1>9. CASE Acknowledge
  BY <1>9, AtomicIdle DEF Acknowledge
<1>10. CASE Retry
  BY <1>10, RetryAtomic
<1>11. CASE WriteRecord
  BY <1>11, WriteAtomic
<1>12. CASE Finish
  BY <1>12, FinishAtomic
<1>13. ASSUME NEW left \in (IF Writing THEN Leftovers ELSE {}), WriteFails(left) PROVE Atomic'
  BY <1>13, FailureAtomic DEF WriteFails
<1>14. ASSUME NEW left \in (IF Writing THEN Leftovers ELSE {Blank}), Restart(left) PROVE Atomic'
  BY <1>14, RestartAtomic
<1> QED BY <1>1, <1>2, <1>3, <1>4, <1>5, <1>6, <1>7, <1>8, <1>9, <1>10, <1>11, <1>12, <1>13, <1>14
       DEF Next, ImmediateDomains

\* If every save so far wrote all domains and every boot could read, a restart at any point, in the
\* middle of any write, failed or not, of a save, a retry or a migration, finds the snapshot that was
\* published last or locks the heater: half a save is never in force (persist_memory_domains and the
\* markers around it, against load_eeprom_memory_record).
THEOREM FullSavesAreWholeOrRefused == Spec => []FullSavesAreAtomic
<1>1. Init => AtomicInv
  <2> SUFFICES ASSUME Init PROVE OffIsIdle /\ Atomic
    BY TypeInit DEF AtomicInv
  <2>1. mode = "off" /\ job = NoJob /\ cell \in [Cells -> Contents]
    BY TypeInit, TypeParts DEF Init
  <2>2. \A p \in Cells : cell[p].kind \in {"blank", "fpm1"}
    BY DEF Init, Blank, Content
  <2>3. AtMost(cell, 0)
    BY <2>2, CellNames DEF AtMost
  <2>4. InPlace(cell)
    BY <2>2, CellNames DEF InPlace, Places
  <2>5. Restorable(cell, past.published)
    BY <2>1, <2>3, <2>4, UnformedRestores
  <2> QED BY <2>1, <2>4, <2>5 DEF OffIsIdle, Atomic, Idle
<1>2. AtomicInv => FullSavesAreAtomic
  <2> SUFFICES ASSUME TypeOK, Atomic, ~past.partial, ~past.unreadable, Generation(cell) # 0, Selected(cell)
               PROVE  Restored(cell) = past.published
    BY DEF AtomicInv, FullSavesAreAtomic, RestartWouldMix
  <2>1. cell \in [Cells -> Contents] /\ past.published \in Configs
        /\ InPlace(cell) /\ Restorable(cell, past.published)
    BY TypeParts DEF Atomic, Pasts
  <2>2. PICK n \in Nat : Sound(cell, n, past.published)
    BY <2>1 DEF Restorable
  <2>3. Complete(cell, Generation(cell))
    BY DEF Selected
  <2>4. n = Generation(cell) /\ ValuesAt(cell, n) = past.published
    BY <2>1, <2>2, <2>3, SoundReads
  <2> QED BY <2>4 DEF Restored, ReadGeneration
<1> QED BY <1>1, <1>2, AtomicStep, PTL DEF Spec
=============================================================================
