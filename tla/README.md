# Flux Purr: TLA+ models and proofs

Flux Purr is a heated hot plate around an ESP32-S3. The firmware
(`src/firmware/src`, its binary in `src/firmware/src/bin/flux_purr`) negotiates
power over USB PD with an FUSB302B, drives a heater and a fan, keeps its
settings in an EEPROM, and is controlled over USB lines and, on Wi-Fi, over HTTP.
A host daemon with a command line (`src/tools/flux-purr-devd`) and a web console
(`src/web`) talk to it.

This directory models the parts of the firmware whose correctness depends on the
order in which tasks run. It holds TLA+ modules, TLC configurations, TLAPS proofs
and `PROJECT.json`, which maps every definition to the lines it models and lists
runs, hazards, findings and theorems.

## 1. Inventory

### Scheduling

Two executors run the tasks.

* An **interrupt executor** runs the power coordinator and the PD service. It
  preempts everything below, but its two tasks only give way to each other at an
  await.
* The **thread executor** runs the runtime loop, the watchdog supervisor, the
  Wi-Fi task, the network tasks and the front panel, cooperatively: a task is
  interleaved with another thread task only at an await that suspends, but with
  the interrupt executor at every instruction.

Most of the hard behaviour comes from this: an operation of the runtime loop made
of two atomics can be cut between them by a whole turn of the PD service, and a
task that reads the configuration, awaits the radio and then publishes may
publish for a configuration that is gone.

### Components

| Component | State | Operations | Hard behaviour |
| --- | --- | --- | --- |
| Power coordinator (`power_domain.rs`) | ticket slots, discard marks, result signals, command queue, ticket in flight, joined refreshes, deferred command, active owner | `request`, `refresh_capabilities`, `idle`, `try_take`, `discard`, coordinator turn | discard racing with the answer; cancellation by high-water mark; deferral to a full mailbox |
| PD service (`pd_service.rs`) | mailbox, pending operation, completion to publish, snapshot, heartbeat | take a command, advance the sink, publish a terminal, publish permit | superseded and cancelled commands, back-pressure on the terminal channel |
| Heater permit and PWM gate (`support.rs`, `power.rs`, `eeprom.rs`) | permit flag, expiry, duty | grant, revoke, `set_duty_cycle`, `force_off` | two atomics changed one after the other; wrapping clock |
| Flash preparation (`flash_preparation.rs`) | hold flag | start, clear | begins in the middle of operations of both executors |
| Watchdog supervisor (`watchdog.rs`) | heartbeats, feed gate, hardware counter | beat, sample, feed | blocked executor, counter wrap, boot and runtime phases |
| Wi-Fi provisioning (`wifi_state.rs`, `net.rs`) | provisioning machine, configuration, apply signal, cancel identity and acknowledgement | set, clear, cancel; the station's stages | every await is a point at which the configuration may change; late completions |
| LAN access (`lan.rs`, `net_http.rs`, `net.rs`) | pairing window, token, lease, revision, request mailbox, response signal | pair, acquire, heartbeat, release, dispatch, execute, answer | a revoked client's write in the mailbox, a timed-out request still executed, its late answer |
| Sink policy and runtime (`adapters/fusb302b.rs`, `adc.rs`) | phase, contracts, cached capabilities, message ids, timestamps, recovery flags | contract, idle, refresh, abort; message, reset, fault, VBUS and deadline handlers | late and repeated messages, resets inside an exchange, deadlines of several operations |
| EEPROM journal (`memory.rs`, `eeprom.rs`, `boot.rs`) | domain slots, sequences, layout markers, settings in RAM, pending save, locks | boot selection, save, migrate, recover, retry, acknowledge | torn writes, power loss between any two writes, partial failures |
| Thermal tuning (`thermal_tuning.rs`, `runtime_loop.rs`) | run, trial, candidate, event ring, preview, receipts | start, sample, read, acknowledge, cancel, seal, save | a lossy reader, a full ring inside a step, lost contracts, repeated commands |
| Fan, buzzer, front panel, display | policy states, cue queue, menus | - | hysteresis, cue arbitration |
| Thermal control | plant estimates | - | numeric |
| Control plane, HTTP server, mDNS | parsers and formatters | - | - |
| Host daemon, command line, web console | serial leases, update sequence | - | I/O and user interface |

### Interactions

Clients of the power coordinator (the runtime loop, the control plane, the LAN)
reserve a ticket slot and send a command through a bounded channel. The
coordinator hands one command at a time to the PD service through a mailbox of
capacity one; the service answers with a terminal through another channel, and
the coordinator signals the ticket's slot. With each snapshot the PD service also
grants or revokes the heater permit, which the PWM gate consults for every write
and the watchdog supervisor checks on its own. The flash hold is read by all of
them. The USB control plane sets the Wi-Fi configuration, feeds the provisioning
machine and raises the apply signal, which the Wi-Fi task consumes at its awaits;
the Wi-Fi task publishes whether the radio is on, which automatic heating reads.
HTTP workers admit LAN commands under the control state's lock and pass them to the
runtime loop through a mailbox; the loop answers through a signal. The loop also
feeds the tuning run with samples, and it is the only writer of the EEPROM, through
debounced and immediate saves; a save that fails may lock the heater.

### What makes each part correct

* Power domain: a ticket is answered exactly once, to the client that holds it;
  slots do not leak and are not shared; a cancellation hits only what it is meant
  for; nothing waits forever.
* Heater: the pin is driven only under a permit that was granted a moment ago,
  never during flash preparation, whoever stops.
* Watchdog: a stalled task ends in a reset, a live system does not.
* Wi-Fi: idle and a confirmed cancel mean that the station is off; the published radio
  state is right; a set is tried, or a timeout is reported; an error stays until a new
  configuration; an attempt ends.
* LAN: a write is executed once for its revision, under the lease and token that
  admitted it; no answer goes to another request; every queued command is decided; the
  token in force is the one a restart finds.
* Journal: what counts as saved is what a restart loads; power loss leaves the old
  settings, the new ones or the lock; legacy settings survive their migration.
* Tuning: a run heats with the profile it names, decides every target, and only a
  candidate that was scouted and confirmed, with a whole trace, is saved.
* Sink: the permit belongs to the present PD session; a refresh is answered from new
  capabilities; the way from PPS to standby goes in steps; operations settle.

## 2. Modules

| Module | Models | Role |
| --- | --- | --- |
| `TicketLedger` | - | abstract specification: the life of a ticket |
| `PowerCoordinator` | `power_domain.rs`, the turn of `pd_service.rs`, the hold | detailed specification, refines `TicketLedger` |
| `MCPowerCoordinator` | - | intents and sink outcomes of the instances |
| `PowerCoordinatorProofs` | - | theorems about `PowerCoordinator` |
| `HeaterPermit` | permit, gate, `force_off`, supervisor sample, hold | detailed specification |
| `MCHeaterPermit` | - | the uptimes at which instances begin |
| `HeaterPermitProofs` | - | theorems about `HeaterPermit` |
| `Watchdog` | `watchdog.rs` and the heartbeats | detailed specification |
| `WatchdogProofs` | - | theorems about `Watchdog` |
| `WifiProvisioning` | `wifi_state.rs`, the wifi task and the USB set, clear, cancel of `net.rs` | detailed specification |
| `WifiProvisioningProofs` | - | theorems about `WifiProvisioning` |
| `LanAccess` | `lan.rs`, `net_http.rs`, the HTTP workers of `net.rs`, the loop's side of them | detailed specification |
| `LanAccessProofs` | - | theorems about `LanAccess` |
| `SettingsJournal` | `eeprom.rs`, the journal of `memory.rs`, its use in `boot.rs` and `runtime_loop.rs` | detailed specification |
| `SettingsJournalProofs` | - | theorems about `SettingsJournal` |
| `ThermalTuning` | `thermal_tuning.rs`, its control cycle and commands | detailed specification |
| `MCThermalTuning` | - | targets, bounds and scopes of the instance |
| `ThermalTuningProofs` | - | theorems about `ThermalTuning` |
| `SinkRuntime` | `adapters/fusb302b.rs`, `Fusb302bRuntime` in `adc.rs`, outcome and permit of `pd_service.rs` | detailed specification |
| `MCSinkRuntime` | - | offers and operations of the instance |
| `SinkRuntimeProofs` | - | theorems about `SinkRuntime` |

Definitions that begin with the comment `Fault:` are not part of a specification:
each is a definition as a plausible bug would have it. `PROJECT.json` names, for
every property, the fault that breaks it.

### PowerCoordinator

A ticket is a record of sequence number, kind, owner and slot; the contract it
asks for is left out. `slots`, `discarded` and `results` are the three arrays of
slot state, `held` is what the clients keep. `thread` is the client operation that
the thread executor is in: `discard` looks for a result, marks the slot, looks
again and unmarks, in four actions, because the coordinator can preempt it between
them. A coordinator turn is not interleaved with anything; where its loop over the
drained backlog needs several steps, `step # "await"` blocks all other actors. A PD
turn is taking a command, advancing it and publishing, split at its awaits. The
sink's answers are free choices from `SinkOutcomes`; it may also stay silent.
`contractOwner` and `stray` are history variables: whose contract the sink confirmed
last, and whether a confirmation of a cancelled request was thrown away since (section 5).

### HeaterPermit

`permit` and `expires` are the two atomics and `duty` is the pin. A PD turn grants
or revokes in one step. Every operation of the thread executor (apply a duty, the
supervisor's sample, `force_off`) is split at each access to the atomics, one
operation at a time. The gate's check and write are one critical section. The clock
wraps at `Modulus`, and an expiry is in the future when the wrapping difference,
read as signed, is negative. `age` is a history variable: ticks since the last
grant. A grant goes with an active contract, as `publish_pd_snapshot` has it. The
supervisor samples once in each tick; an executor that blocks for longer is the
watchdog's business.

### Watchdog

Time is cut into sampling periods. In each, the boot stage, the runtime loop and
the PD service may beat or not, and the supervisor may sample or be kept from it
by a blocked executor. Counters wrap at `HbModulus`. `idle` and `calm` are history
variables. After the runtime counter wraps to 0, the gate compares boot
heartbeats again until the next beat; this costs at most one more timeout, which
is why the bound of `StalledTaskIsReset` is three timeouts and not two.

### WifiProvisioning

`Accepts`, `ExpiredEvent`, `RetryOrTerminal`, `Transition` and `Feed` are the
provisioning machine as functions of its record. The wifi task has a control state
for each await; the pieces of code between two awaits are one action each. An
await of the apply signal that finds the signal pending does not suspend
(`GotoSelect`), and in a select the driver's arm is polled first (`Wake` needs the
other arm not to be ready). The client runs only while the task is suspended.

External and assumed: `disconnect_async` may wait in vain when there is no link; a
started station keeps its link when it gets a new configuration, as
`await_wifi_association` presumes when it asks `is_connected`; the loss of the access
point while nobody waits for the event is noticed by the next wait. With `DriverFaults`
the driver may refuse to stop or to disconnect, or report success without effect, and
`is_started`, from which the radio state is published after a failure (`Probe`), may fail.
A stop that is given up after 3 s (`Unstopped`) may still end at any later await
(`LateStop`), until a successful start replaces it: the state published meanwhile was
right when it was read and is then out of date. A start that timed out is assumed not to
complete later; if it did, an idle or failed machine would have a running station and a
radio published as off, since nothing reads `is_started` again before the next request.

The failure code is part of the machine, since `UncancelledSetIsTried` is about what is
reported. `LanStartupFailed` is fed only when the wifi task was never spawned, and is left
out, as is the published summary.

### LanAccess

The gate, from the bearer token to the mailbox, is one step under the state's lock;
receiving, executing and answering a command are three, since the loop awaits between
them. Codes, tokens and lease ids are numbers; a client may present any that was ever
issued, and a command is its outcome. There is one HTTP workspace and so one response
signal. `fate`, `told` and `applied` are history: what became of each command, what its
client was told, and the writes since boot.

`config` is the way of the token to the EEPROM: the token in `memory_config` (`mem`) and in
`last_persisted_memory_config` (`saved`), the due mark, the tokens a restart may find (more
than one after a failed write), and the reported fault, by what its retry writes. Other
settings appear by what they do to these: they ask for a save (`SettingChanges`), their
immediate save clears the due mark (`ForgetDue`; opening an EEPROM snapshot does, too) or
locks persistence (`OtherSaveFails`), and their failed write replaces the fault. A due save
is made (`SaveToken`), fails (`SaveFails`: the due mark is gone first; a fault of a domain
that needs the heater lock takes RAM back to what was persisted) or is discarded under a
lock (`DiscardDue`). The retry from the error page writes what differs and the domain the
fault names (`RetryRewrites`). `ResetPersistence` clears the token in RAM and not in the HTTP
state. `lost` is history: the code has lost sight of the token in force, which is then neither
due nor reported; section 5 lists how. Boots that find a blank, locked or legacy EEPROM, its
maintenance by a host, and the formatting retry are in `SettingsJournal` and not here.

### SettingsJournal

A slot holds a record (sequence and value), a marker, a legacy record, nothing, or a
torn write. A save is a list of writes; each may succeed, fail (leaving the old, the new
or a torn content) or be cut off by a restart, which is also possible between two
writes. `Selected`, `Restored`, `Incompatible` and `Recoverable` are boot's reading of
the slots. Values are small numbers: what a domain contains does not matter to the
journal. The debounce is a flag. The host's raw maintenance operations are left out,
except that opening a snapshot drops the pending save.

### ThermalTuning

A profile gives each target a point. What a trial measures, and which point the search
proposes, are free choices. An event's sequence number is its distance to the last
event, so runs of any length are finitely many states. A control cycle (`Cycle...`) is
one step, as is every command. The host reads pages, repeats reads, and acknowledges
what it got or, up to `MaxLag`, what it did not get. It previews a profile of its own at
most once in a run, and turns the heater only while the run is armed. The saved profile
is `run.saved`; how it reaches the EEPROM is the journal's business. `BatchCurrent`,
which nothing schedules, the refusals during flash preparation and the thermal-plant job
are left out.

### SinkRuntime

A turn is the work on the pending operation, up to `RxBurst` received events, the
deadlines and the publication; the source may act between any two. Contracts are
numbers: 1 is the Fixed standby contract, those above are PPS voltages of one APDO in
steps of the descent. Of a timestamp only its age is kept (not set, younger or older
than its limit), and a limit passes only while the code compares it. The distance of
message ids is counted modulo 8, flushed messages included. The source answers,
refuses, stays silent, resets, repeats a message, changes its offer or drops VBUS; it
resets when a message falls into an exchange it has not finished. A transmission
arrives, gets no GoodCRC, or fails on the bus. Left out: I2C errors while attaching or
flushing, which is modelled as always successful; data messages other than
capabilities; the difference between partial receives and other receive errors;
diagnostics; the exchange after a soft reset; VBUS dips shorter than a turn. The flash
hold is in `PowerCoordinator`. `void` and `capsRead` are history variables.

## 3. Runs

Times are for two workers.

| Run | Specification and bounds | Properties | Result |
| --- | --- | --- | --- |
| `power_coordinator` | 3 tickets, 3 slots, two owners of different priority, refresh and idle | six safety invariants | holds, 2.5 million states, 55 s |
| `power_live` | 3 tickets, 2 slots: slots are reused and run out; one owner, with fairness | `ImplementsLedger`, `EveryTicketIsAnswered`, `HoldShedsContracts` | holds, 206 thousand states, 97 s |
| `heater_permit` | clock of 24 ticks, permit age 2, uptimes below half the range | `DrivenPinIsFlagged`, `HeaterFollowsPd`, `HoldKeepsHeaterOff`, `PermitIsShortLived` | holds |
| `watchdog` | counters of 9, timeout of 3 periods | `StalledTaskIsReset`, `LiveTasksAreNotReset` | holds |
| `wifi` | 3 configurations, 2 cancels, driver faults | `IdleMeansStopped`, `AckMeansStopped`, `RadioIsKnown`, `UncancelledSetIsTried`, `ErrorIsSettled` | holds, 2.05 million states, 50 s |
| `wifi_live` | 2 configurations, 1 cancel, with fairness | `PendingSettles` | holds, 75 thousand states |
| `lan` | 2 requests and upsets of persistence together, 2 tokens, 2 leases, a restart, with fairness | `OncePerRevision`, `AnswersAreTrue`, `NoAnswerIsLost`, `TokenSurvivesRestart`, `WritesStartAuthorized`, `QueuedIsDecided` | holds, 477 thousand states, 90 s |
| `journal` | 3 domains (two slots, one slot, immediate), 2 edits, 1 failed write, 2 restarts | `SavedIsStored`, `UnlockedIsBacked`, `LegacySurvives`, `UnsavedIsDueOrReported`, `FullSavesAreAtomic` | holds, 436 thousand states, 30 s |
| `journal_atomic` | 2 domains | `SavesAreAtomic` | violated (finding 1) |
| `tuning` | 2 targets, the second needing the first, 2 points, ring of 6, 3 trials | `HeatsAsPreviewed`, `EveryTargetIsDecided`, `SealedTraceIsWhole`, `SavesOnlyConfirmed` | holds, 383 thousand states, 65 s |
| `tuning_heat` | the same | `DisarmStopsHeat` | violated (finding 2) |
| `sink` | PPS or Fixed-only source, 2 operations of 4, 1 disturbance, with fairness | `PermitIsOfThisSession`, `RefreshIsFresh`, `IdleDescendsInSteps`, `ContractSettles` | holds, 407 thousand states, 70 s |

Type invariants are proved for the power domain, the heater, the watchdog, Wi-Fi, the
LAN and the journal; the runs spend their time on the rest. `HeaterFollowsPd` says that the pin is driven
only within the permit's age limit of the last grant, `PermitIsShortLived` that no permit is
in force longer. `ActiveOwnerHoldsContract` is claimed when no terminal is on its way and
none was thrown away (`stray`).

**Why the bounds are enough.** Three tickets are one in flight, one that unseats it
and is deferred because the mailbox is full, and one that joins, waits or reuses a
slot; the coordinator's decisions compare at most two commands at a time. Two slots
for three tickets make slot reuse, and so stale marks and results, possible.
`TransportFault` and `Detached` are handled as `TimedOut`, and a rejection by the
sink as one by the service, so the instances leave them out of the sink's answers.
The clock of 24 ticks is long enough for a permit to be granted, expire and be granted
again. A watchdog counter of 9 wraps within a run. The Wi-Fi times keep the ratios that
matter: three association timeouts with their delays end within the provisioning limit
(26 to 30 s, here 11 to 11 ticks), while one association with an address timeout
followed by another association ends after it. Two configurations are the old and the
new one; two cancels are the one that timed out and the one its late acknowledgement
could answer. In `lan`, two requests are the one that timed out and the one that could
take its answer or repeat its write, and two tokens and leases are the revoked and the
present one. The two also count the upsets of persistence (failures, forgotten saves, resets,
changes of other settings): two are a failure and the one that hides or repeats it; saves,
discards and retries that succeed are not counted, and requests do not touch persistence. In `journal`, the three domains are one of each kind of slot and save; two
edits are the save that is cut off and the one after it, two restarts the power loss and
the boot that must cope with it. In `tuning`, the two targets are a bound and
a target that depends on it, the two points the scout and its variant, and a ring of 6 fills up
within one cycle when the host does not read. In `sink`, the two operations are the one
under way and the one that replaces it or follows it; three contracts are enough for a
descent of two steps; one disturbance, at any time, is what the recovery paths handle;
that two of them meet is not covered.

**Deadlock** is not checked where clients may simply stop (power domain, LAN, tuning,
sink), where bounds end an instance (heater, journal), and after a reset (watchdog). The
Wi-Fi runs check it.

**Fairness.** `power_live` assumes weak fairness of the coordinator and of the PD
service's steps: an interrupt executor polls a task that was woken.
`EveryTicketIsAnswered` assumes in addition, as a hypothesis of the property, that an
operation that is polled for again and again is settled at some time. `sink` shows this
for contract operations (`ContractSettles`); section 5 has what it shows of the others.
`HoldShedsContracts` does not need it. `wifi_live` assumes weak fairness of the wifi
task, of time and of the client's wait, and nothing of the access point or of the
client's requests. `lan` assumes it of the runtime loop, which presumes that the host does
not send a USB line in every turn: the loop serves USB first. `sink` assumes that turns go on and are not all lost to the bus,
and strong fairness of time, since a limit passes only between turns; it assumes nothing
of the source.

## 4. Proofs

TLAPS checks the theorems for every value of the constants that satisfies the
assumptions of the modules: `SlotCountAssumption` and its neighbours, `ClockAssumption`,
`WatchdogAssumption`, `WifiAssumption`, `LanAssumption`, `TuningAssumption`,
`JournalAssumption`, `SingleSlotAssumption` and `SinkAssumption`. These ask for numbers to be natural numbers and for the relations the
code's constants have (a beat rate below the counter's range, an order without repeated
targets). The two of the journal ask for a domain with two slots and for one with a single
slot; the code has both kinds (`ThermalPlant`, preferences and network have one slot), and
only `FullSavesAreWholeOrRefused` needs the second. Nearly every property needs an inductive
invariant stronger than itself; TLC checked each of them on the runs' instances before it was
proved (`Atomic` in a form that states its sequences of writes by index, since TLC cannot
enumerate `Seq`).

**PowerCoordinatorProofs.** `TypeCorrect`; `AnswersNeverCollide`,
`ResultsReachTheirHolder`, `SlotsNeverLeak`, `DiscardMarksAreLive`,
`CancellationIsPrecise` and `JoinedTicketsRideOnRefresh`. All six follow from one
inductive invariant, `TicketInv`; none of the six is inductive alone:

* `SlotInv` holds what the clients, the discard in progress, the unsettled commands
  and the result signals know of each slot, so that a slot has exactly one tenant;
* `OrderInv` holds that a command is in one place only (queue, backlog, in flight,
  deferred or joined), that queue and backlog are ordered by sequence number, and
  that the cancellation mark lies below all that is unsettled.

The argument per action has two halves. `StepSettles` and `SignalKeepsSlots` say
what settling a command does to the slots, independently of why it is settled;
`DispatchSettles` shows that each branch of the dispatch settles or keeps each
command, and the remaining lemmas show that a turn only moves commands between
places.

Three more results rest on `TicketInv`:

* `LedgerIsImplemented`: `PowerCoordinator` implements `TicketLedger`. With `LedgerInv`,
  which adds that no two tickets share a sequence number, the status the refinement
  mapping gives a ticket is that of `StatusOf`; each action then moves at most one ticket
  one step, or stutters.
* `ActiveOwnerIsTrue`, for `ActiveOwnerHoldsContract`: `ContractInv` says that the last news
  among the terminals on their way names the owner of the contract, so that the
  coordinator, when it has read them all, knows it.
* `ProgressIsAlwaysOwed`, for `ProgressIsOwed`: `ServiceInv` says that the mailbox holds the
  ticket in flight or a cancelled one, that what the service works on was issued before
  everything in the queue, and that a deferred command has its retry owed.

**HeaterPermitProofs.** `TypeCorrect`, `DrivenPinAlwaysFlagged` and
`HoldAlwaysKeepsHeaterOff`, for every clock range, permit age and uptime. The inductive
invariant `InterlockInv` adds `HeldThreadWantsNothing`: an operation that began before the
hold does not carry a duty past the `force_off` that the hold makes.
`EarlyPermitIsShortLived` and `EarlyHeaterFollowsPd` have the hypothesis `Early`: start
times and horizon lie below half the range of the clock, 24.8 days for the firmware.
Beyond it they are false (section 5), because an expiry of 0 then reads as the future.
`ExpiryInv` adds that the stored deadline is that of the last grant, an earlier one or none
(`DeadlineIsOfGrant`), and that the supervisor, once it has sampled an expired permit, is on its way
to `force_off` (`SampleShuts`).

**WatchdogProofs.** `TypeCorrect`, `StallIsReset` and `LiveIsNotReset`, for every counter
width, timeout and beat rate. `StallInv` relates how long a task has been idle to the time
since the last feed and to the beats the gate has not yet used (`Overdue`), phase by phase
(`Phases`). `LiveInv` counts by how many beats each counter is ahead of the gate's copy, so
that it cannot have gone round unnoticed (`NotRound`), and bounds the refusals in a row
(`Refusals`), which a counter that reads 0 after a wrap can cause.

**WifiProvisioningProofs.** `TypeCorrect`, which bounds the attempts,
`IdleAlwaysMeansStopped` and `RadioIsAlwaysKnown`, for all timeouts, attempt limits
and numbers of requests, with and without driver faults. The inductive invariant
`WifiInv` says in addition that a pending machine has an attempt left (`MachineOK`)
and that the task is not inside an attempt while the machine is idle
(`IdleIsQuiet`), without which a started driver could meet an idle machine. Lemmas
about `Transition` and `Feed` say which events can make a machine idle; then each
action has a lemma of its own. `AckAlwaysMeansStopped` needs `CancelHolds` (while a
cancel waits nobody enables the configuration, and from its acknowledgement on the task
rests), `SetIsAlwaysTried` needs `SetStands` (a set that meets the stop of an earlier clear
has its signal pending until the stop ends, and the machine which the clear then disables is
taken up again at the head of the loop) and `SetTried` (a set that is neither signalled nor
the task's own configuration was reported as a timeout), and `ErrorStaysSettled` is an action
property. `RadioIsKnown` is part of `WifiInv`: a station that is not started though "on" was
published has a stop that ended late.

**LanAccessProofs.** `TypeCorrect`, `RevisionIsATicket`, `AnswersHold`, `AnswerStays`,
`TokenAlwaysSurvives` and the action property `WritesAreAuthorized`, all from `Inv`: every
command that is yet to be applied was dispatched once (`Counted`), applied writes are
numbered below the revision and the one under execution carries it (`Numbered`), a lease
belongs to the token in force (`Leased`), queued commands are undecided (`Queued`), and
what waits in the signal is for the request that waits for it (`Awaited`, `Answered`).
`TokenAlwaysSurvives` needs `TokenKept`: RAM has the token in force, what RAM has is
persisted, due or reported, and what counts as persisted is what a restart finds unless the
reported fault makes the retry write it again. `SaveStep` shows this for each way a save
goes.

**ThermalTuningProofs.** `TrialsHeatAsPreviewed`, `TargetsAreDecidedOnce`,
`SealedTracesAreWhole` and `SavedIsConfirmed`, for every order, scope and interval of
targets, any points, ring and page size. The operators of the run are functions of its
record, and so are the parts of the invariant `TuningInv`. A run is `Open` while its
current target is tried: the targets before it are decided, a batch profile differs from
the candidate at this target only, and what is being confirmed was scouted. It is `Closed`
once the target is decided. `FailTargetCloses` and `AcceptCloses` go from the one to the
other, `NextTargetDecides` back, past pruned targets. `Kept` says that an operator leaves
candidate and receipt alone or asks for a new preview, and a dropped event is the second
outcome of everything that records one (`Pushed`).

**SinkRuntimeProofs.** `PermitEndsWithSession` and the action properties
`DescentIsStepwise` and `RefreshIsNotCached`, for any offers, operations and numbers of
disturbances. `SinkInv` says that a sink below the VBUS threshold has no contract
(`NoStaleContract`), that a permit survives the reading of a reset only until the turn is
over and that nothing then keeps it (`SessionIsOver`), and that a refresh without new
capabilities is still under way or has lost the old ones with the session
(`RefreshIsOpen`). Lemmas sum up each operator of the policy by what it does to contract,
capabilities and refresh.

**SettingsJournalProofs.** `TypeCorrect`, `UnsavedIsNotForgotten`,
`SavedIsWhatARestartRestores`, `LegacySettingsSurvive`, `SilentLoopIsBacked` and
`FullSavesAreWholeOrRefused`, for any domains that include both kinds, and any number of
edits, saves, failures and restarts. Each of the last three holds across power losses and has
an inductive invariant of its own. For `UnsavedIsDueOrReported`, `SaveCovers` says of a save in
progress that a deferred one and a retry write everything that is changed, and that an
immediate one leaves changes which are still due or reported. For `SavedIsStored`, `Clean`
describes the EEPROM at every point of a history without a failure or a cut: between saves
it holds `saved` as generation `seq` (`Holds`: the newest active marker, no newer record, and
per domain one newest record with the value); during one (`Making`) each final write is the
last to its place among the writes to come, or has been made (`Comes`), and all else is older
or untouched (`OldOnes`). `CommitArranged` and `MigrateArranged` show this of the two
sequences of writes, `SaveGoesOn` carries it over one write, `SaveEnds` turns it into `Holds`,
and `HoldsReads` shows what a boot makes of that. For `LegacySurvives`, `Migrated` describes an
EEPROM that came with legacy records wherever power was lost: the newer legacy record is
untouched (`Kept`), or it is gone and the migrated records are whole (`Moved`), or a
generation is in force (`InForce`). A migration or a recovery is at a `Stage` of its writes,
and `StageWrite` shows that one write, torn or whole, leads to one of the three states and to
the next stage; a later save writes its markers to the other slot (`SaveSpares`); `KeptReads`,
`MovedReads` and `InForceReads` say what the next boot makes of each.

For `UnlockedIsBacked`, `Backed` follows which domains have a record that the generation in force
can read. At rest, with no lock (`Rests`), every domain has one, except the domain that `fault`
names; a deferred or immediate save starts from there and removes none, and every other job writes
those that are missing or has found them all (`Fills`). `Warned` and `WarnedJob` say that until the first
failure an unlocked loop has nothing to report and that a retry runs only under a lock, so that
a failure which is let pass unlocked is that of a save, in one domain, which it names.
`FailureLocks` sums up who locks the heater after a failed write.

For `FullSavesAreAtomic`, `Atomic` rests on the domains with one slot. A marker in force is never
newer than generation `n`, and either all records of `n` are in their slots (`AllAt`) or a
single-slot domain has none that `n` can read (`Broken`): its old record is gone as soon as the
new one, whole or torn, is written over it, and a boot that looks for the old generation is
refused. The two together are `Sound`, and `SoundReads` says that whatever a boot can read is what was
published. Between saves `Settled` holds: the next generation may be written (`Ready`), or a
migration comes first. `Ready` allows for a generation `n + 1` that is whole already,
because its ACTIVE marker was written and reported as failed; a retry then writes it
again, after `Unpublish` has taken the marker back. During a save the writes still to come are
those of a full save (`Filling`) or of a migration or a recovery (`Forming`); `FillingWrite` and
`FormingWrite` carry them over one write, done or torn, and `CutLeaves` says what a failed or
interrupted one leaves. With two-slot domains only the property is false: when such a retry is
cut off after its PREPARED marker, a boot falls back to the older generation, whose records are
still there.

`DiscardMarkIsLive`, `JoinedRideOnRefresh` and the six type invariants are proved and
not part of a run.

**Only model-checked.** Liveness is out of the prover's reach and stays with TLC:
`EveryTicketIsAnswered`, `HoldShedsContracts`, `PendingSettles`, `QueuedIsDecided` and
`ContractSettles`. Every invariant and every other action property of the passing runs is
proved.

## 5. Findings

Each is a run that is expected to fail; `PROJECT.json` quotes the lines.

1. **Half a save published later.** A save that loses power after a record was written
   and before the ACTIVE marker leaves that record with a sequence number which the next
   save uses again. If the next save writes other domains, its marker also puts the stale
   record in force, and a restart loads a mixture that was never saved.
2. **A failed tuning run keeps heating.** A run that fails because its PPS request was
   refused, or because the host acknowledged an event it was never sent, leaves the heater
   enabled, at the tuning target and with the saved profile. Cancel, completion and the
   sensor faults do clear it.

### Further observations

Behaviours the models show for which there is no run: either no document promises
otherwise, or they are rarer than what the runs are spent on.

* Heater: `force_off` clears flag and expiry one after the other; a grant in between
  survives with expiry 0, which after 24.8 days of uptime reads as a time in the future.
  The permit then lasts until the next regular grant or revocation.
* Wi-Fi: a set between a cancel that timed out and its late completion is lost; a set
  that reaches an overdue machine, or a disconnect that does not end, is swallowed and
  reported as a timeout, although the comment at `cancel_wifi_connection` says that a
  later set starts a new transaction: `UncancelledSetIsTried` claims no more than that report; a stop that ends
  after its timeout leaves "on" published over a stopped station; with a static address a stale
  apply signal disconnects for good while the machine says connected; a cancel whose stop
  fails leaves the machine connecting. A set in the middle of an attempt is configured
  over the link of the previous configuration, which is then taken for the new one. The
  completion of a clear may also overwrite a set, but `prepare_wifi_connection` repairs
  this (`UncancelledSetIsTried`).
* Power domain: the ticket counter wraps after 2^32 tickets and the cancellation mark does
  not; a client may read its outcome before the state that explains it. A request that is
  superseded while the sink settles it is still confirmed (`publish_pd_service_turn` does not
  ask for the cancellation), and the coordinator throws its terminal away without revising
  `active_owner`; if a hold then rejects the successor, `active_owner` names the earlier owner
  although the sink holds the other contract. This takes four tickets, one more than the run
  has: the attempt to prove `ActiveOwnerHoldsContract` found it.
* LAN: a token that was cleared comes back if power is lost before the debounced save; the
  revision restarts at 0 with the device and does not advance for USB changes; a host that
  sends a USB line in every turn keeps the loop from the mailbox; a locked-out pairing
  code stays on the page and in its USB mirror.
* The token's save (what `lost` stands for in `TokenSurvivesRestart`): an immediate save of
  other domains, or a snapshot, clears the due mark, and the token stays unsaved without a
  report; a save that fails and locks takes the token in `memory_config` back to the
  persisted one while the HTTP state keeps the new one, so that even after a successful retry
  a restart brings the older, perhaps revoked, token; `persistence_fault` names one domain,
  so a second failure hides the token's; `process_reset_persistence` clears the stored token
  while the device accepts it until the restart. A token claimed while the EEPROM was
  unreadable at boot counts as saved after the formatting retry, which writes defaults.
* Journal: opening a snapshot drops the pending save; when the EEPROM was unreadable at
  boot, a later retry initialises it with defaults although it holds settings; a save of
  preferences or network that is cut off locks the heater at the next boot until it is
  acknowledged; a migration at boot leaves `eeprom_data_incompatible` set.
* Tuning: a repeated start is refused but clears the heater of the run in progress, which
  the interlock then fails; a repeated confirm turns a saved run into a failed one; a
  repeated read marks a gap although nothing was lost; a host's preview in the middle of
  a trial is not refused; fail and cancel overwrite an incomplete review; the preview
  left after a change of the power class refuses the next start.
* Sink: a refresh that is interrupted by a reset or a transport fault loses its deadline,
  and with a silent source its ticket is never settled (no client sends this command
  today). A PPS request that the cached capabilities do not contain is answered Rejected
  at once although the refresh it started goes on; an Idle that follows finds the Fixed
  contract active and leaves the request in place, so that capabilities which do offer
  PPS then lead to the rejected contract, and the Idle ticket is not settled. A PPS
  request that is kept after a reject leaves the sink without a contract when the source
  later offers Fixed only. A protection fault is left by the next request. While the
  sink renegotiates because the active contract is no longer offered, the permit is kept.
  A late PS_RDY of an aborted request may confirm the next one.

## 6. What is not modelled

Numeric control (thermal plant, trajectory, duty computation), fan and buzzer, rendering
and menus, parsing and formatting of USB lines, HTTP and mDNS, register encodings, the
CH224Q adapter, the bring-up images, the host daemon and the web console. The published
power state beside the ticket outcomes is left out. The map covers a small part of the
repository's lines: most of them are the host's command line and reports, tests,
rendering and numeric code.

## 7. Plan

1. done: power domain with its ledger, heater interlock, watchdog, Wi-Fi provisioning, LAN
   access, settings journal, thermal tuning and sink runtime, model-checked;
2. done: the proofs of section 4;
3. done: the proofs about `SettingsJournal` across interruptions, `SilentLoopIsBacked` and
   `FullSavesAreWholeOrRefused`;
4. `SinkRuntime` composed with `PowerCoordinator` in place of its free sink outcomes;
5. fault attention, fan policy and buzzer arbitration; the daemon's serial leases and
   update sequence.
