--------------------------- MODULE SettingsJournal ----------------------------
(***************************************************************************)
(* The settings journal in the external EEPROM (bin/flux_purr/eeprom.rs,     *)
(* memory.rs), the boot that reads it (boot.rs) and the runtime loop that     *)
(* saves through it, retries and locks the heater (runtime_loop.rs, lan.rs).  *)
(*                                                                           *)
(* A domain's settings are one value; a record is a value with a sequence,    *)
(* and its CRC makes any torn record unreadable.  A record is written in      *)
(* chunks and read back, so a write that fails or that a power loss cuts off  *)
(* leaves the old record, a torn one or the new one.  The loop is the only    *)
(* writer and waits for each record; the settings do not change meanwhile.    *)
(* The debounce, and the wait for a heater that is off, only delay a save     *)
(* and are left to nondeterminism.  Legacy FPM1 records are those of the      *)
(* version-5 slots, which no domain overlaps.  Raw maintenance is left out.   *)
(***************************************************************************)
EXTENDS Naturals, Sequences

CONSTANTS
    Used,        \* the domains of the instance
    MaxValue,    \* settings are 0..MaxValue; 0 is the default
    MaxSeq,      \* bound on the sequence a save may reach
    MaxEdits,    \* bound on changes of the settings
    MaxFaults,   \* bound on failed writes and unreadable boots
    MaxRestarts  \* bound on restarts

AllDomains == {"SafetyCalibration", "ThermalPolicy", "UserPreferences",
               "NetworkAndPairing", "ThermalPlant"}
DoubleSlot == {"SafetyCalibration", "ThermalPolicy"} \cap Used
Ordinary   == {"UserPreferences", "NetworkAndPairing"} \cap Used

ASSUME JournalAssumption ==
    /\ Used \subseteq AllDomains
    /\ DoubleSlot # {}
    /\ MaxValue \in Nat /\ MaxSeq \in Nat \ {0}
    /\ MaxEdits \in Nat /\ MaxFaults \in Nat /\ MaxRestarts \in Nat

\* Preferences, network and plant have one slot each.
ASSUME SingleSlotAssumption == Used \ DoubleSlot # {}

VARIABLES
    cell,      \* the EEPROM: what each slot of each domain holds
    mode,      \* "off", "boot" or "on"
    cfg,       \* memory_config
    saved,     \* last_persisted_memory_config
    seq,       \* memory_sequence
    due,       \* memory_commit_due_ms is set
    lock,      \* [required, uiIncompatible, incompatible, recovery]
    fault,     \* the domain of persistence_fault, "none" without one
    attention, \* persistence_fault_attention_pending
    job,       \* the writes in progress: [op, seq, domains, config, todo]
    past,      \* what has happened: [published, legacy, interrupted, partial, unreadable, dropped]
    spent      \* use of the bounds: [edits, faults, restarts]

vars == <<cell, mode, cfg, saved, seq, due, lock, fault, attention, job, past, spent>>

-----------------------------------------------------------------------------
(* Records and slots.                                                        *)

Content(k, n, v) == [kind |-> k, seq |-> n, val |-> v]
Blank == Content("blank", 0, 0)
Torn  == Content("torn", 0, 0)

Slots(d) == IF d \in DoubleSlot \cup {"LayoutMarker", "Legacy"} THEN {"A", "B"} ELSE {"Single"}
Places == Used \cup {"LayoutMarker", "Legacy"}
Cells == {p \in Places \X {"A", "B", "Single"} : p[2] \in Slots(p[1])}

\* The slot follows the parity of the sequence, whichever slot is current.
CellOf(d, n) == <<d, IF Slots(d) = {"Single"} THEN "Single" ELSE IF n % 2 = 1 THEN "A" ELSE "B">>

Configs == [Used -> 0..MaxValue]
Default == [d \in Used |-> 0]

-----------------------------------------------------------------------------
(* What a boot finds in an EEPROM c.                                         *)

Markers(c, k) == {c[<<"LayoutMarker", s>>].seq : s \in {t \in {"A", "B"} :
                    c[<<"LayoutMarker", t>>].kind \in k}}
Newest(S) == IF S = {} THEN 0 ELSE CHOOSE n \in S : \A m \in S : m <= n

\* scan_fpr2_layout_markers: the newest ACTIVE marker is the generation in force.
Generation(c) == Newest(Markers(c, {"active"}))

\* The newest PREPARED marker counts only when a migration wrote it.
MigrationGeneration(c) ==
    LET n == Newest(Markers(c, {"prepared", "migrating"})) IN
    IF n \in Markers(c, {"migrating"}) THEN n ELSE 0

ReadGeneration(c) == IF Generation(c) # 0 THEN Generation(c) ELSE MigrationGeneration(c)

\* read_fpr2_domains: a domain's records that are not newer than g.
Readable(c, d, g) ==
    {c[<<d, s>>] : s \in {t \in Slots(d) : c[<<d, t>>].kind = "record" /\ c[<<d, t>>].seq <= g}}

SeqsOf(R) == {r.seq : r \in R}
Chosen(c, d, g) == CHOOSE r \in Readable(c, d, g) : r.seq = Newest(SeqsOf(Readable(c, d, g)))
Present(c, d) == ReadGeneration(c) # 0 /\ Readable(c, d, ReadGeneration(c)) # {}

\* fpr2_snapshot_is_complete and fpr2_prepared_generation_is_complete.
Complete(c, g) == \A d \in Used : Readable(c, d, g) # {}
CompleteExactly(c, g) == Complete(c, g) /\ \A d \in Used : Chosen(c, d, g).seq = g

\* scan_legacy_slots, done only without a generation in force; it probes the
\* double slots too, which older formats used.
LegacyPresent(c) == Generation(c) = 0 /\ \E s \in {"A", "B"} : c[<<"Legacy", s>>].kind = "fpm1"
Probed(c) ==
    {p \in Cells : \/ p[1] = "LayoutMarker"
                   \/ Generation(c) = 0 /\ p[1] \in DoubleSlot \cup {"Legacy"}
                   \/ ReadGeneration(c) # 0 /\ p[1] \in Used}
ContainsData(c) == \E p \in Probed(c) : c[p].kind # "blank"

Recoverable(c) ==
    /\ Generation(c) = 0 /\ MigrationGeneration(c) # 0
    /\ ~LegacyPresent(c) /\ CompleteExactly(c, MigrationGeneration(c))

\* load_eeprom_memory_record.
Selected(c) == IF Generation(c) # 0 THEN Complete(c, Generation(c)) ELSE Recoverable(c)
ValuesAt(c, g) == [d \in Used |-> Chosen(c, d, g).val]
Restored(c) == IF Selected(c) THEN ValuesAt(c, ReadGeneration(c)) ELSE Default
Incompatible(c) == LegacyPresent(c) \/ (~Selected(c) /\ ContainsData(c))

\* With the rule of initialize_boot_memory: incompatible data that gave no record.
Required(c) ==
    \/ ContainsData(c) /\ ((\E d \in DoubleSlot : ~Present(c, d))
                            \/ (Generation(c) = 0 /\ ~Recoverable(c)))
    \/ Incompatible(c) /\ ~Selected(c)

\* load_legacy_eeprom_memory_record: the newest FPM1 record.
LegacyRecords(c) == {c[<<"Legacy", s>>] : s \in {t \in {"A", "B"} : c[<<"Legacy", t>>].kind = "fpm1"}}
LegacyRecord(c) == CHOOSE r \in LegacyRecords(c) : r.seq = Newest(SeqsOf(LegacyRecords(c)))

-----------------------------------------------------------------------------
(* The writes of a save, in their order.                                     *)

Write(p, x) == [place |-> p, content |-> x]
Mark(k, s, n) == Write(<<"LayoutMarker", s>>, Content(k, n, 0))
MarkOf(k, n) == Write(CellOf("LayoutMarker", n), Content(k, n, 0))

\* persist_memory_domains: the double slots first, then the single ones.
DomainWrites(n, D, c) ==
    LET record(d) == IF d \in D THEN <<Write(CellOf(d, n), Content("record", n, c[d]))>> ELSE <<>>
    IN record("SafetyCalibration") \o record("ThermalPolicy") \o record("UserPreferences")
         \o record("NetworkAndPairing") \o record("ThermalPlant")

\* Fault: the generation is published before the records it names.
PublishFirst(n, D, c) == <<MarkOf("prepared", n), MarkOf("active", n)>> \o DomainWrites(n, D, c)

\* commit_memory_config_now.
CommitWrites(n, D, c) ==
    <<MarkOf("prepared", n)>> \o DomainWrites(n, D, c) \o <<MarkOf("active", n)>>

\* Fault: the legacy records are invalidated before the new ones are written.
InvalidateFirst(n, c) ==
    <<Mark("migrating", "A", n), Mark("migrating", "B", n)>>
      \o <<Write(<<"Legacy", "A">>, Blank), Write(<<"Legacy", "B">>, Blank)>>
      \o DomainWrites(n, Used, c)
      \o <<Mark("active", "A", n), Mark("active", "B", n)>>

\* migrate_legacy_memory_config.
MigrateWrites(n, c) ==
    <<Mark("migrating", "A", n), Mark("migrating", "B", n)>>
      \o DomainWrites(n, Used, c)
      \o <<Write(<<"Legacy", "A">>, Blank), Write(<<"Legacy", "B">>, Blank)>>
      \o <<Mark("active", "A", n), Mark("active", "B", n)>>

\* recover_prepared_fpr2_layout.
RecoverWrites(n) == <<Mark("active", "A", n), Mark("active", "B", n)>>

NoJob == [op |-> "none", seq |-> 0, domains |-> {}, config |-> Default, todo |-> <<>>]
Job(op, n, D, c, w) == [op |-> op, seq |-> n, domains |-> D, config |-> c, todo |-> w]
Commit(op, n, D, c) == Job(op, n, D, c, CommitWrites(n, D, c))
Migrate(op, n, c)   == Job(op, n, Used, c, MigrateWrites(n, c))
Recover(op, n, c)   == Job(op, n, Used, c, RecoverWrites(n))

-----------------------------------------------------------------------------
Unlocked == [required |-> FALSE, uiIncompatible |-> FALSE, incompatible |-> FALSE, recovery |-> FALSE]
Locked == lock.required \/ lock.uiIncompatible \* persistence_locked
Idle == mode = "on" /\ job = NoJob

\* An erased EEPROM, or one with the two slots of the previous format.
Init ==
    /\ \E a, b \in 0..MaxValue, legacy \in BOOLEAN :
         /\ cell = [p \in Cells |->
                      IF p[1] # "Legacy" \/ ~legacy THEN Blank
                      ELSE IF p[2] = "A" THEN Content("fpm1", 1, a) ELSE Content("fpm1", 2, b)]
         /\ past = [published |-> Default, legacy |-> IF legacy THEN {a, b} ELSE {},
                    interrupted |-> FALSE, partial |-> FALSE, unreadable |-> FALSE,
                    dropped |-> FALSE]
    /\ mode = "off"
    /\ cfg = Default /\ saved = Default /\ seq = 0
    /\ due = FALSE /\ lock = Unlocked /\ fault = "none" /\ attention = FALSE
    /\ job = NoJob
    /\ spent = [edits |-> 0, faults |-> 0, restarts |-> 0]

-----------------------------------------------------------------------------
(* Boot.                                                                     *)

\* initialize_boot_memory and restore_legacy_memory: a blank EEPROM is given the
\* defaults, a migration whose records are whole is completed, a legacy record is
\* migrated; all of it before the loop starts.
Boot ==
    /\ mode = "off"
    /\ LET legacy == Incompatible(cell) /\ LegacyRecords(cell) # {}
           blank  == ~Required(cell) /\ ~Incompatible(cell) /\ ~Selected(cell)
           source == IF legacy THEN [d \in Used |-> LegacyRecord(cell).val] ELSE Restored(cell)
           number == IF legacy THEN LegacyRecord(cell).seq
                     ELSE IF Selected(cell) THEN ReadGeneration(cell) ELSE 0
       IN /\ cfg' = source
          /\ saved' = source
          /\ seq' = number
          /\ lock' = [required |-> Required(cell), uiIncompatible |-> Incompatible(cell),
                      incompatible |-> Incompatible(cell), recovery |-> Recoverable(cell)]
          /\ attention' = (Incompatible(cell) \/ Required(cell))
          /\ job' = IF blank THEN Commit("init", 1, Used, Default)
                    ELSE IF Recoverable(cell) THEN Recover("recover", number, source)
                    ELSE IF legacy THEN Migrate("migrate", number + 1, source)
                    ELSE NoJob
          /\ mode' = IF job' = NoJob THEN "on" ELSE "boot"
    /\ due' = FALSE /\ fault' = "none"
    /\ UNCHANGED <<cell, past, spent>>

\* The EEPROM does not answer: the defaults, and the heater locked.
BootUnreadable ==
    /\ mode = "off" /\ spent.faults < MaxFaults
    /\ mode' = "on"
    /\ cfg' = Default /\ saved' = Default /\ seq' = 0
    /\ lock' = [Unlocked EXCEPT !.required = TRUE]
    /\ attention' = TRUE /\ due' = FALSE /\ fault' = "none"
    /\ past' = [past EXCEPT !.interrupted = TRUE, !.unreadable = TRUE]
    /\ spent' = [spent EXCEPT !.faults = @ + 1]
    /\ UNCHANGED <<cell, job>>

-----------------------------------------------------------------------------
(* The runtime loop, between saves.                                          *)

\* Front panel, USB and LAN change settings; only the panel's preferences while
\* the heater is locked.
Edit(D, v) ==
    /\ Idle /\ spent.edits < MaxEdits
    /\ Locked => D \subseteq {"UserPreferences"}
    /\ cfg' = [d \in Used |-> IF d \in D THEN v ELSE cfg[d]]
    /\ cfg' # cfg
    /\ due' = TRUE
    /\ spent' = [spent EXCEPT !.edits = @ + 1]
    /\ UNCHANGED <<cell, mode, saved, seq, lock, fault, attention, job, past>>

Changed == {d \in Used : cfg[d] # saved[d]}  \* persist_domain_mask_between

\* Fault: the deferred save is discarded without a lock.
DropAnyDue ==
    /\ Idle /\ due
    /\ due' = FALSE
    /\ UNCHANGED <<cell, mode, cfg, saved, seq, lock, fault, attention, job, past, spent>>

\* discard_deferred_memory_commit_for_incompatible_eeprom, and a deferred save that
\* finds nothing changed.
DropDue ==
    /\ Idle /\ due /\ (Locked \/ Changed = {})
    /\ due' = FALSE
    /\ UNCHANGED <<cell, mode, cfg, saved, seq, lock, fault, attention, job, past, spent>>

\* A host opens, reads or closes a snapshot of the EEPROM.
ReadSnapshot ==
    /\ Idle /\ due
    /\ due' = FALSE
    /\ past' = [past EXCEPT !.dropped = TRUE]
    /\ UNCHANGED <<cell, mode, cfg, saved, seq, lock, fault, attention, job, spent>>

\* runtime_commit_deferred_memory.
CommitDeferred ==
    /\ Idle /\ due /\ ~Locked /\ Changed # {} /\ seq < MaxSeq
    /\ due' = FALSE
    /\ job' = Commit("deferred", seq + 1, Changed, cfg)
    /\ UNCHANGED <<cell, mode, cfg, saved, seq, lock, fault, attention, past, spent>>

\* Saves that do not wait: a calibration draft, a tuned profile, a thermal plant
\* that was measured with its safety curve.
ImmediateDomains ==
    {D \in SUBSET Used : D \in {{"SafetyCalibration"}, {"ThermalPolicy"},
                                {"SafetyCalibration", "ThermalPlant"} \cap Used}}
SaveNow(D, v) ==
    /\ Idle /\ ~Locked /\ seq < MaxSeq /\ spent.edits < MaxEdits
    /\ \E d \in D : cfg[d] # v
    /\ cfg' = [d \in Used |-> IF d \in D THEN v ELSE cfg[d]]
    /\ job' = Commit("immediate", seq + 1, D, cfg')
    /\ spent' = [spent EXCEPT !.edits = @ + 1]
    /\ UNCHANGED <<cell, mode, saved, seq, due, lock, fault, attention, past>>

\* Any other key clears the error page (handle_event).
Acknowledge ==
    /\ Idle /\ attention
    /\ attention' = FALSE
    /\ UNCHANGED <<cell, mode, cfg, saved, seq, due, lock, fault, job, past, spent>>

\* Fault: a retry forgets the domain that failed.
NoFaultDomains == {}

FaultDomains == \* PersistDomainMask::from_fault
    IF fault = "none" THEN {} ELSE IF fault = "LayoutMarker" THEN Used ELSE {fault}

BlankRetry == lock.required /\ seq = 0 /\ ~lock.incompatible /\ ~lock.recovery

\* runtime_retry_persistence, which the error page's long press asks for.  The
\* press takes the page away, and a failure brings it back.
Retry ==
    /\ Idle /\ attention
    /\ \/ /\ lock.recovery
          /\ \/ /\ CompleteExactly(cell, seq)
                /\ job' = Recover("retryFormat", seq, ValuesAt(cell, seq))
                /\ attention' = FALSE /\ UNCHANGED <<fault, spent>>
             \/ /\ spent.faults < MaxFaults  \* the records cannot be read
                /\ spent' = [spent EXCEPT !.faults = @ + 1]
                /\ fault' = "LayoutMarker" /\ UNCHANGED <<attention, job>>
          /\ UNCHANGED <<cfg, seq>>
       \/ /\ ~lock.recovery /\ lock.incompatible /\ UNCHANGED spent
          /\ \/ /\ LegacyRecords(cell) # {}
                /\ seq' = LegacyRecord(cell).seq
                /\ cfg' = [d \in Used |-> LegacyRecord(cell).val]
                /\ job' = Migrate("retryFormat", seq' + 1, cfg')
                /\ attention' = FALSE /\ UNCHANGED fault
             \/ /\ LegacyRecords(cell) = {}
                /\ fault' = "LayoutMarker"
                /\ UNCHANGED <<attention, job, cfg, seq>>
       \/ /\ BlankRetry
          /\ job' = Commit("retryFormat", 1, Used, Default)
          /\ attention' = FALSE
          /\ UNCHANGED <<cfg, seq, fault, spent>>
       \/ /\ ~lock.recovery /\ ~lock.incompatible /\ ~BlankRetry
          /\ LET D == IF lock.required THEN Used ELSE Changed \cup FaultDomains
             IN /\ seq < MaxSeq
                /\ job' = IF D = {} THEN Job("retry", seq, {}, cfg, <<>>)
                          ELSE Commit("retry", seq + 1, D, cfg)
          /\ attention' = FALSE
          /\ UNCHANGED <<cfg, seq, fault, spent>>
    /\ UNCHANGED <<cell, mode, saved, due, lock, past>>

-----------------------------------------------------------------------------
(* The writes.                                                               *)

Head1 == Head(job.todo)
Writing == job.todo # <<>>

\* What an ACTIVE marker publishes: the records of this save over the older ones.
PublishedBy(x) ==
    IF x.content.kind = "active"
      THEN [d \in Used |-> IF d \in job.domains THEN job.config[d] ELSE past.published[d]]
      ELSE past.published

\* write_eeprom_persist_record, read back and verified.
WriteRecord ==
    /\ Writing
    /\ cell' = [cell EXCEPT ![Head1.place] = Head1.content]
    /\ job' = [job EXCEPT !.todo = Tail(@)]
    /\ past' = [past EXCEPT !.published = PublishedBy(Head1),
                            !.partial = @ \/ job.domains # Used]
    /\ UNCHANGED <<mode, cfg, saved, seq, due, lock, fault, attention, spent>>

Copied(D) == [d \in Used |-> IF d \in D THEN cfg[d] ELSE saved[d]]  \* copy_persisted_domains

\* Fault: a save counts every domain as saved.
FinishCopiesAll ==
    /\ job.op # "none" /\ ~Writing
    /\ mode' = "on" /\ job' = NoJob /\ seq' = job.seq
    /\ saved' = cfg
    /\ due' = (due /\ job.op # "immediate")
    /\ UNCHANGED <<cell, cfg, lock, fault, attention, past, spent>>

\* The save is complete.  An immediate one also forgets the deferred save.
Finish ==
    /\ job.op # "none" /\ ~Writing
    /\ mode' = "on" /\ job' = NoJob
    /\ seq' = job.seq
    /\ saved' = IF job.op \in {"deferred", "immediate", "retry"} THEN Copied(job.domains) ELSE cfg
    /\ due' = (due /\ job.op # "immediate")
    /\ past' = [past EXCEPT !.dropped = @ \/ (due /\ job.op = "immediate")]
    /\ CASE job.op = "retryFormat" ->
              lock' = Unlocked /\ fault' = "none" /\ attention' = FALSE
         [] job.op = "migrate" ->  \* mark_legacy_memory_restored
              /\ lock' = [lock EXCEPT !.required = FALSE, !.uiIncompatible = FALSE]
              /\ fault' = fault /\ attention' = FALSE
         [] job.op = "recover" ->
              /\ lock' = [lock EXCEPT !.required = FALSE, !.recovery = FALSE]
              /\ UNCHANGED <<fault, attention>>
         [] job.op = "retry" /\ job.domains \cap DoubleSlot # {} ->
              /\ lock' = [lock EXCEPT !.required = FALSE, !.uiIncompatible = FALSE]
              /\ fault' = "none" /\ attention' = FALSE
         [] job.op = "retry" /\ job.domains \cap DoubleSlot = {} ->
              /\ fault' = IF Locked THEN fault ELSE "none"
              /\ attention' = (Locked /\ attention)
              /\ UNCHANGED lock
         [] OTHER -> UNCHANGED <<lock, fault, attention>>
    /\ UNCHANGED <<cell, cfg, spent>>

\* What a write that failed or was cut off can leave behind.
Leftovers == {cell[Head1.place], Torn, Head1.content}

\* memory_failure_requires_heater_lock.
RequiresHeaterLock(d) == d \notin Ordinary

\* The loop after a save failed on domain d: runtime_handle_memory_commit_failure,
\* and the failure paths of the immediate saves.
SaveFailed(d) ==
    /\ cfg' = IF RequiresHeaterLock(d) \/ job.op = "immediate"
                THEN [e \in Used |-> IF e \in job.domains THEN saved[e] ELSE cfg[e]]
                ELSE cfg
    /\ lock' = [lock EXCEPT !.required = @ \/ RequiresHeaterLock(d)]
    /\ due' = (due /\ ~RequiresHeaterLock(d))
    /\ fault' = d /\ attention' = TRUE

\* An invalidation that failed is reported against the layout marker.
FailedDomain == IF Head1.place[1] = "Legacy" THEN "LayoutMarker" ELSE Head1.place[1]

WriteFails(left) ==
    /\ Writing /\ spent.faults < MaxFaults
    /\ cell' = [cell EXCEPT ![Head1.place] = left]
    /\ past' = [past EXCEPT !.interrupted = TRUE,
                            !.published = IF left = Head1.content THEN PublishedBy(Head1) ELSE @,
                            !.partial = @ \/ job.domains # Used]
    /\ spent' = [spent EXCEPT !.faults = @ + 1]
    /\ job' = NoJob /\ mode' = "on"
    /\ \/ /\ job.op \in {"deferred", "immediate"}
          /\ SaveFailed(FailedDomain)
       \/ /\ job.op \in {"retry", "retryFormat"}
          /\ fault' = FailedDomain /\ attention' = TRUE
          /\ UNCHANGED <<cfg, lock, due>>
       \/ /\ job.op \in {"init", "recover", "migrate"}
          /\ lock' = [lock EXCEPT !.required = TRUE]
          /\ attention' = TRUE
          /\ UNCHANGED <<cfg, fault, due>>
    /\ UNCHANGED <<saved, seq>>

\* A restart, orderly or by a power loss, at any point of a write.
Restart(left) ==
    /\ mode # "off" /\ spent.restarts < MaxRestarts
    /\ cell' = IF Writing THEN [cell EXCEPT ![Head1.place] = left] ELSE cell
    /\ mode' = "off" /\ job' = NoJob
    /\ cfg' = Default /\ saved' = Default /\ seq' = 0
    /\ due' = FALSE /\ lock' = Unlocked /\ fault' = "none" /\ attention' = FALSE
    /\ past' = [past EXCEPT !.interrupted = @ \/ job.op # "none",
                            !.published = IF Writing /\ left = Head1.content
                                            THEN PublishedBy(Head1) ELSE @,
                            !.partial = @ \/ (Writing /\ job.domains # Used)]
    /\ spent' = [spent EXCEPT !.restarts = @ + 1]

Next ==
    \/ Boot
    \/ BootUnreadable
    \/ \E D \in (SUBSET Used) \ {{}}, v \in 0..MaxValue : Edit(D, v)
    \/ DropDue
    \/ ReadSnapshot
    \/ CommitDeferred
    \/ \E D \in ImmediateDomains, v \in 0..MaxValue : SaveNow(D, v)
    \/ Acknowledge
    \/ Retry
    \/ WriteRecord
    \/ Finish
    \/ \E left \in (IF Writing THEN Leftovers ELSE {}) : WriteFails(left)
    \/ \E left \in (IF Writing THEN Leftovers ELSE {Blank}) : Restart(left)

Spec == Init /\ [][Next]_vars

-----------------------------------------------------------------------------
(* Properties.                                                               *)

Contents == [kind : {"blank", "torn", "record", "prepared", "migrating", "active", "fpm1"},
             seq : Nat, val : 0..MaxValue]
Ops == {"none", "init", "recover", "migrate", "deferred", "immediate", "retry", "retryFormat"}

\* Every variable has its type.
TypeOK ==
    /\ cell \in [Cells -> Contents]
    /\ mode \in {"off", "boot", "on"}
    /\ cfg \in Configs /\ saved \in Configs
    /\ seq \in Nat
    /\ due \in BOOLEAN /\ attention \in BOOLEAN
    /\ lock \in [required : BOOLEAN, uiIncompatible : BOOLEAN, incompatible : BOOLEAN,
                 recovery : BOOLEAN]
    /\ fault \in {"none", "LayoutMarker"} \cup Used
    /\ job \in [op : Ops, seq : Nat, domains : SUBSET Used, config : Configs,
                todo : Seq([place : Cells, content : Contents])]
    /\ past \in [published : Configs, legacy : SUBSET (0..MaxValue), interrupted : BOOLEAN,
                 partial : BOOLEAN, unreadable : BOOLEAN, dropped : BOOLEAN]
    /\ spent \in [edits : Nat, faults : Nat, restarts : Nat]

\* While no write failed and no save was cut off, what the loop believes to be
\* saved is exactly what a restart would restore, whatever mixture of domains
\* the saves wrote and wherever their slots alternated
\* (last_persisted_memory_config against load_eeprom_memory_record).
SavedIsStored ==
    Idle /\ ~Locked /\ ~past.interrupted => Selected(cell) /\ Restored(cell) = saved

\* After any number of power losses and one failed write: a loop that runs unlocked
\* and reports no fault has a whole snapshot in the EEPROM, so a restart would not
\* lock the heater.  (A second failure can hide the first: persistence_fault names
\* one domain.)
UnlockedIsBacked ==
    Idle /\ ~Locked /\ fault = "none" /\ spent.faults <= 1 => Selected(cell) /\ ~Required(cell)

\* Power losses alone, however many and wherever they cut a migration off, leave the
\* legacy settings within reach until a generation is in force: in an FPM1 record, or
\* in migrated records that are whole and equal to one.
LegacySurvives ==
    past.legacy # {} /\ Generation(cell) = 0 /\ spent.faults = 0 =>
        \/ LegacyRecords(cell) # {}
        \/ Recoverable(cell) /\ \E v \in past.legacy : Restored(cell) = [d \in Used |-> v]

\* A changed setting that is not saved is due to be, or the lock or a fault says so.
\* Only an immediate save and a host's snapshot forget it (past.dropped).
UnsavedIsDueOrReported ==
    Idle /\ Changed # {} /\ ~past.dropped => due \/ Locked \/ fault # "none"

\* A restart at this very point restores a snapshot other than the last published one.
RestartWouldMix ==
    Generation(cell) # 0 /\ Selected(cell) /\ ~Required(cell) /\ Restored(cell) # past.published

\* If every save so far wrote all domains, a restart at any point, in the middle of
\* any write, finds the snapshot that was published last or locks the heater: half
\* a save is never in force.
FullSavesAreAtomic == ~past.partial /\ ~past.unreadable => ~RestartWouldMix

\* The specification's claim, for every save: an interruption restores the old
\* active snapshot or locks the heater.
SavesAreAtomic == ~RestartWouldMix
=============================================================================
