------------------------------ MODULE LanAccess -------------------------------
(***************************************************************************)
(* LAN access to the heater: pairing, bearer token, write lease, control     *)
(* revision (lan.rs, net_http.rs), the HTTP workers (net.rs) and the runtime  *)
(* loop that executes what they admit (runtime_loop.rs, bin/flux_purr/lan.rs).*)
(*                                                                           *)
(* A client may present any token, lease or revision that was ever issued.    *)
(* A gate runs under the CONTROL_STATE lock and up to the mailbox without a   *)
(* wait, so it is one step; executing a command takes two, because the        *)
(* control line waits between its checks and its answer.  A lease counts down *)
(* in ticks.  Tokens and lease ids are fresh numbers, 0 stands for none.      *)
(* LanPairingMode is Required, the only mode the firmware sets.  There is one *)
(* workspace; connections that wait for it, that take the light path or that  *)
(* read their request (for at most the socket's 5 s) change nothing.          *)
(*                                                                           *)
(* Of the EEPROM this module keeps what becomes of the token: saves can fail, *)
(* be discarded under the persistence lock or lose their due mark, and a      *)
(* failure may leave the record of the new token behind.  The EEPROM is       *)
(* readable at boot; the other boots, erasing and raw writes are not here.    *)
(***************************************************************************)
EXTENDS Naturals, Sequences, FiniteSets

CONSTANTS
    MailboxSize,  \* capacity of CONTROL_MAILBOX
    LeaseTtl,     \* LAN_LEASE_TTL_MS in ticks
    MaxFailures,  \* LAN_PAIRING_MAX_FAILURES
    Codes,        \* pairing codes
    MaxTokens,    \* bound on tokens issued
    MaxLeases,    \* bound on leases issued
    MaxRequests,  \* bound on commands dispatched and upsets of the memory commit, together
    MaxRestarts   \* bound on restarts

ASSUME LanAssumption ==
    /\ Codes \subseteq Nat \ {0}
    /\ MailboxSize \in Nat \ {0} /\ LeaseTtl \in Nat \ {0} /\ MaxFailures \in Nat \ {0}
    /\ MaxTokens \in Nat /\ MaxLeases \in Nat /\ MaxRequests \in Nat /\ MaxRestarts \in Nat

VARIABLES
    token,    \* NetHttpState.token
    dirty,    \* NetHttpState.token_dirty
    window,   \* PairingWindow: [code, failed]
    lease,    \* LanLeaseState: [id, left]
    revision, \* CONTROL_REVISION
    mailbox,  \* CONTROL_MAILBOX
    signal,   \* CONTROL_RESPONSES of the one workspace
    worker,   \* the connection task that holds the workspace: [pc, id]
    loop,     \* the command the runtime loop executes
    panel,    \* ui_state: [page, code]
    mirror,   \* PAIRING_CODE_MIRROR
    config,   \* the token's way to the EEPROM: [mem, due, saved, stored, error, lost]
    issued,   \* how many of each: [token, lease, request, boot, upset]
    fate,     \* what became of each command
    told,     \* what its client was told: [status, revision]
    applied   \* the writes executed since boot

vars == <<token, dirty, window, lease, revision, mailbox, signal, worker, loop, panel,
          mirror, config, issued, fate, told, applied>>

access  == <<token, dirty, window, lease>>
control == <<revision, mailbox, signal, loop, fate, applied>>
ui      == <<panel, mirror>>

-----------------------------------------------------------------------------
NoLease   == [id |-> 0, left |-> 0]
NoWindow  == [code |-> 0, failed |-> 0]
NoCommand == [id |-> 0, write |-> FALSE, lease |-> 0, rev |-> 0, token |-> 0]
NoAnswer  == [id |-> 0, status |-> 0, rev |-> 0]
Requests  == 1..MaxRequests
Commands  == [id : Requests, write : BOOLEAN, lease : 0..MaxLeases, rev : 0..MaxRequests,
              token : 0..MaxTokens]
Answers   == [id : Requests, status : {200, 400, 409}, rev : 0..MaxRequests]

Free == [pc |-> "free", id |-> 0]

Windows == [code : Codes \cup {0}, failed : 0..MaxFailures]
Leases  == [id : 0..MaxLeases, left : 0..LeaseTtl]
Workers == [pc : {"free", "waiting"}, id : 0..MaxRequests]
Panels  == [page : {"WifiInfo", "other"}, code : Codes \cup {0}]
\* memory_config and last_persisted_memory_config as far as the token goes, the
\* due mark, the tokens a restart may find, the reported fault (by what its retry
\* writes: "network" the token, "other" not, "lock" everything), and whether the
\* token in force was lost sight of: history, until it is written.
Configs == [mem : 0..MaxTokens, due : BOOLEAN, saved : 0..MaxTokens,
            stored : SUBSET (0..MaxTokens), error : {"none", "other", "network", "lock"},
            lost : BOOLEAN]
Settled(t) == [mem |-> t, due |-> FALSE, saved |-> t, stored |-> {t}, error |-> "none",
               lost |-> FALSE]
Counts  == [token : 0..MaxTokens, lease : 0..MaxLeases, request : 0..MaxRequests,
            boot : 0..MaxRestarts, upset : 0..MaxRequests]
Fates   == [Requests -> {"none", "queued", "applied", "served", "refused", "lost"}]
Tellings == [Requests -> [status : {0, 200, 400, 409, 503, 504}, rev : 0..MaxRequests]]

TypeOK ==
    /\ token \in 0..MaxTokens /\ dirty \in BOOLEAN
    /\ window \in Windows /\ lease \in Leases
    /\ revision \in 0..MaxRequests
    /\ mailbox \in Seq(Commands) /\ Len(mailbox) <= MailboxSize
    /\ signal \in Answers \cup {NoAnswer}
    /\ worker \in Workers
    /\ loop \in Commands \cup {NoCommand}
    /\ panel \in Panels /\ mirror \in Codes \cup {0}
    /\ config \in Configs
    /\ issued \in Counts
    /\ fate \in Fates /\ told \in Tellings
    /\ applied \subseteq Commands

\* NetHttpState::new and initialize_control_state.
Init ==
    /\ token = 0
    /\ config = Settled(0)
    /\ dirty = FALSE /\ window = NoWindow /\ lease = NoLease
    /\ revision = 0 /\ mailbox = <<>> /\ signal = NoAnswer /\ loop = NoCommand
    /\ worker = Free
    /\ panel = [page |-> "other", code |-> 0] /\ mirror = 0
    /\ applied = {}
    /\ issued = [token |-> 0, lease |-> 0, request |-> 0, boot |-> 0, upset |-> 0]
    /\ fate = [r \in Requests |-> "none"]
    /\ told = [r \in Requests |-> [status |-> 0, rev |-> 0]]

-----------------------------------------------------------------------------
(* NetHttpState::gate, for the connection that has the workspace.  Requests    *)
(* it refuses change nothing, but for a lease that is over.                   *)

Authorized(bearer) == bearer # 0 /\ bearer = token
Expired(l) == IF l.left = 0 THEN NoLease ELSE l      \* LanLeaseState::expire
Active(id) == id # 0 /\ Expired(lease).id = id       \* LanLeaseState::require

\* PairingWindow::claim, with a window open.
AfterClaim(code) ==
    IF code = window.code THEN window
    ELSE IF window.failed + 1 < MaxFailures THEN [window EXCEPT !.failed = @ + 1]
    ELSE [code |-> 0, failed |-> MaxFailures]

\* claim_pairing: the device's token, made when there is none.
ClaimPairing(code) ==  \* 0 stands for a code no page ever showed
    /\ worker = Free /\ window.code # 0
    /\ window' = AfterClaim(code)
    /\ \/ /\ code # window.code \/ token # 0
          /\ UNCHANGED <<token, dirty, issued>>
       \/ /\ code = window.code /\ token = 0 /\ issued.token < MaxTokens
          /\ token' = issued.token + 1 /\ dirty' = TRUE
          /\ issued' = [issued EXCEPT !.token = @ + 1]
    /\ UNCHANGED <<lease, control, ui, worker, config, told>>

\* lease_route: create, heartbeat, release.
CreateLease(bearer) ==
    /\ worker = Free /\ Authorized(bearer)
    /\ Expired(lease) = NoLease /\ issued.lease < MaxLeases
    /\ lease' = [id |-> issued.lease + 1, left |-> LeaseTtl]
    /\ issued' = [issued EXCEPT !.lease = @ + 1]
    /\ UNCHANGED <<token, dirty, window, control, ui, worker, config, told>>

Heartbeat(bearer, id) ==
    /\ worker = Free /\ Authorized(bearer) /\ Active(id)
    /\ lease' = [lease EXCEPT !.left = LeaseTtl]
    /\ UNCHANGED <<token, dirty, window, control, ui, worker, config, issued, told>>

\* A release does not expire the lease first.
ReleaseLease(bearer, id) ==
    /\ worker = Free /\ Authorized(bearer) /\ id # 0 /\ lease.id = id
    /\ lease' = NoLease
    /\ UNCHANGED <<token, dirty, window, control, ui, worker, config, issued, told>>

\* A lease request or a write that finds its lease over removes it.
ExpireLease(bearer) ==
    /\ worker = Free /\ Authorized(bearer) /\ lease.left = 0
    /\ lease' = NoLease
    /\ UNCHANGED <<token, dirty, window, control, ui, worker, config, issued, told>>

Room == issued.request + issued.upset < MaxRequests

Command(write, id, rev) ==
    [id |-> issued.request + 1, write |-> write, lease |-> id, rev |-> rev, token |-> token]

\* stage_http_gate and try_send; a full mailbox is answered 503.
Dispatch(c) ==
    /\ issued' = [issued EXCEPT !.request = c.id]
    /\ IF Len(mailbox) < MailboxSize
         THEN /\ mailbox' = Append(mailbox, c)
              /\ fate' = [fate EXCEPT ![c.id] = "queued"]
              /\ worker' = [pc |-> "waiting", id |-> c.id]
              /\ told' = told
         ELSE /\ fate' = [fate EXCEPT ![c.id] = "refused"]
              /\ told' = [told EXCEPT ![c.id].status = 503]
              /\ UNCHANGED <<mailbox, worker>>

Read(bearer) ==
    /\ worker = Free /\ Authorized(bearer) /\ Room
    /\ Dispatch(Command(FALSE, 0, 0))
    /\ UNCHANGED <<access, revision, signal, loop, applied, ui, config>>

\* A write without a revision is refused with 428.
Write(bearer, id, rev) ==
    /\ worker = Free /\ Authorized(bearer) /\ Active(id)
    /\ Room
    /\ Dispatch(Command(TRUE, id, rev))
    /\ UNCHANGED <<access, revision, signal, loop, applied, ui, config>>

-----------------------------------------------------------------------------
(* await_control_response.                                                   *)

\* Fault: the first answer in the signal is taken for this request's.
TakesAnyAnswer ==
    /\ worker.pc = "waiting" /\ signal # NoAnswer
    /\ signal' = NoAnswer
    /\ told' = [told EXCEPT ![worker.id] = [status |-> signal.status, rev |-> signal.rev]]
    /\ worker' = Free
    /\ UNCHANGED <<access, revision, mailbox, loop, fate, applied, ui, config, issued>>

\* An answer to an earlier request, which timed out, is dropped.
TakeAnswer ==
    /\ worker.pc = "waiting" /\ signal # NoAnswer
    /\ signal' = NoAnswer
    /\ IF signal.id = worker.id
         THEN /\ told' = [told EXCEPT ![signal.id] = [status |-> signal.status, rev |-> signal.rev]]
              /\ worker' = Free
         ELSE UNCHANGED <<told, worker>>
    /\ UNCHANGED <<access, revision, mailbox, loop, fate, applied, ui, config, issued>>

\* Three seconds without an answer: 504, and the command stays where it is.
TimeOut ==
    /\ worker.pc = "waiting" /\ signal = NoAnswer
    /\ told' = [told EXCEPT ![worker.id].status = 504]
    /\ worker' = Free
    /\ UNCHANGED <<access, control, ui, config, issued>>

-----------------------------------------------------------------------------
(* The runtime loop.                                                         *)

\* Fault: an answer nobody took yet is kept, and the new one lost.
RespondIfEmpty(c, status, rev) ==
    signal' = IF signal = NoAnswer THEN [id |-> c.id, status |-> status, rev |-> rev] ELSE signal

\* respond_to_command: the signal keeps the newest answer only.
Respond(c, status, rev) == signal' = [id |-> c.id, status |-> status, rev |-> rev]

\* command_lease_is_active and validate_control_revision.
MayExecute(c) == c.write => Active(c.lease) /\ c.rev = revision

\* Fault: a refused command is dropped without an answer.
ReceiveDropsRefused ==
    /\ loop = NoCommand /\ mailbox # <<>>
    /\ mailbox' = Tail(mailbox)
    /\ lease' = IF Head(mailbox).write THEN Expired(lease) ELSE lease
    /\ loop' = IF MayExecute(Head(mailbox)) THEN Head(mailbox) ELSE loop
    /\ UNCHANGED <<token, dirty, window, revision, signal, fate, applied, ui, worker, config,
                   issued, told>>

\* runtime_execute_lan_command up to the control line.
LoopReceive ==
    /\ loop = NoCommand /\ mailbox # <<>>
    /\ LET c == Head(mailbox) IN
       /\ mailbox' = Tail(mailbox)
       /\ lease' = IF c.write THEN Expired(lease) ELSE lease
       /\ IF MayExecute(c)
            THEN loop' = c /\ UNCHANGED <<signal, fate>>
            ELSE /\ Respond(c, 409, revision)
                 /\ fate' = [fate EXCEPT ![c.id] = "refused"]
                 /\ loop' = loop
    /\ UNCHANGED <<token, dirty, window, revision, applied, ui, worker, config, issued, told>>

\* Fault: the revision stays when a write succeeds.
ExecutedKeepsRevision ==
    /\ loop # NoCommand
    /\ Respond(loop, 200, revision) /\ revision' = revision
    /\ applied' = IF loop.write THEN applied \cup {loop} ELSE applied
    /\ fate' = [fate EXCEPT ![loop.id] = IF loop.write THEN "applied" ELSE "served"]
    /\ loop' = NoCommand
    /\ UNCHANGED <<access, mailbox, ui, worker, config, issued, told>>

\* The control line succeeded; a write advances the revision.
LoopExecuted ==
    /\ loop # NoCommand
    /\ revision' = IF loop.write THEN revision + 1 ELSE revision
    /\ Respond(loop, 200, revision')
    /\ applied' = IF loop.write THEN applied \cup {loop} ELSE applied
    /\ fate' = [fate EXCEPT ![loop.id] = IF loop.write THEN "applied" ELSE "served"]
    /\ loop' = NoCommand
    /\ UNCHANGED <<access, mailbox, ui, worker, config, issued, told>>

\* The control line was refused, or the body made no control line.
LoopRefused ==
    /\ loop # NoCommand
    /\ Respond(loop, 400, revision)
    /\ fate' = [fate EXCEPT ![loop.id] = "refused"]
    /\ loop' = NoCommand
    /\ UNCHANGED <<access, revision, mailbox, applied, ui, worker, config, issued, told>>

-----------------------------------------------------------------------------
(* Pairing from the front panel and from USB, between two LAN commands.      *)

Idle == loop = NoCommand

\* enter_pairing: the WiFi Info page, or open_lan_pairing from any page.
EnterPairing(code) ==
    /\ Idle
    /\ window' = [code |-> code, failed |-> 0]
    /\ panel' = [page |-> "WifiInfo", code |-> code] /\ mirror' = code
    /\ UNCHANGED <<token, dirty, lease, control, worker, config, issued, told>>

\* leave_pairing: a key that leaves the page, or close_lan_pairing.
LeavePairing ==
    /\ Idle /\ panel.page = "WifiInfo"
    /\ window' = NoWindow
    /\ panel' = [page |-> "other", code |-> 0] /\ mirror' = 0
    /\ UNCHANGED <<token, dirty, lease, control, worker, config, issued, told>>

\* Fault: revoking the token leaves the lease in force.
ClearKeepsLease ==
    /\ Idle /\ config.error # "lock"
    /\ token' = 0 /\ dirty' = TRUE
    /\ config' = [config EXCEPT !.mem = 0, !.due = TRUE]
    /\ UNCHANGED <<window, lease, control, ui, worker, issued, told>>

\* process_clear_lan_pairing_token; the pairing window stays open.
ClearToken ==
    /\ Idle /\ config.error # "lock"
    /\ token' = 0 /\ lease' = NoLease /\ dirty' = TRUE
    /\ config' = [config EXCEPT !.mem = 0, !.due = TRUE]
    /\ UNCHANGED <<window, control, ui, worker, issued, told>>

\* runtime_reconcile_network_state: take_persisted_token_change.
TakeTokenChange ==
    /\ Idle /\ dirty
    /\ dirty' = FALSE
    /\ config' = [config EXCEPT !.mem = token, !.due = TRUE]
    /\ UNCHANGED <<token, window, lease, control, ui, worker, issued, told>>

-----------------------------------------------------------------------------
(* The save of the token: the debounced commit, and what else touches it.    *)

\* What a control line does to other settings is one of these steps, too.
Storing == Idle /\ UNCHANGED <<access, control, ui, worker, told>>
Carried == Storing /\ UNCHANGED issued
Upset   == Storing /\ Room /\ issued' = [issued EXCEPT !.upset = @ + 1]

\* The record of the token is written.
Rewritten == [config EXCEPT !.saved = config.mem, !.stored = {config.mem},
                            !.lost = @ /\ config.mem # token]

\* process_reset_persistence: every setting in RAM, the token included, becomes its
\* default; the token in force stays.
ResetPersistence ==
    /\ Upset /\ config.error # "lock"
    /\ config' = [config EXCEPT !.mem = 0, !.due = TRUE, !.lost = @ \/ token # 0]

\* Another setting asks for a save.
SettingChanges ==
    /\ Upset /\ ~config.due
    /\ config' = [config EXCEPT !.due = TRUE]

\* Under the persistence lock the due save is discarded.
DiscardDue ==
    /\ Carried /\ config.due /\ config.error = "lock"
    /\ config' = [config EXCEPT !.due = FALSE]

\* runtime_commit_deferred_memory: the domains that differ from what was last
\* persisted are written.
SaveToken ==
    /\ Carried /\ config.due /\ config.error # "lock"
    /\ config' = IF config.mem = config.saved THEN [config EXCEPT !.due = FALSE]
                 ELSE [Rewritten EXCEPT !.due = FALSE]

\* A failed write may or may not have left the record of the token.
Written == config.stored \cup {config.mem}

\* The due mark is gone before the save fails.  The preferences are written
\* before the token; a failure of any other domain takes the persisted settings
\* back and locks.
SaveFails ==
    /\ Upset /\ config.due /\ config.error # "lock"
    /\ \/ config' = [config EXCEPT !.due = FALSE, !.error = "other",
                                   !.lost = @ \/ config.stored # {config.saved}]
       \/ config' = [config EXCEPT !.due = FALSE, !.error = "network", !.stored = Written]
       \/ config' = [config EXCEPT !.due = FALSE, !.error = "lock", !.stored = Written,
                                   !.mem = config.saved,
                                   !.lost = @ \/ config.mem # config.saved]

\* A save of other domains at once, or a host that reads the EEPROM, clears the
\* due mark.
ForgetDue ==
    /\ Upset /\ config.due
    /\ config' = [config EXCEPT !.due = FALSE,
                    !.lost = @ \/ (config.error = "none" /\ config.mem # config.saved)]

\* mark_eeprom_required, by a save of other domains.
OtherSaveFails ==
    /\ Upset
    /\ config' = [config EXCEPT !.due = FALSE, !.error = "lock"]

\* Fault: the retry writes what differs, whatever domain the fault names.
RetryWritesDifferences == config.mem # config.saved \/ config.error = "lock"

\* runtime_retry_persistence, from the error page: what differs, and the domain
\* the fault names, are written.
RetryRewrites == config.mem # config.saved \/ config.error \in {"network", "lock"}

Retry ==
    /\ Carried /\ config.error # "none"
    /\ config' = [(IF RetryRewrites THEN Rewritten ELSE config) EXCEPT !.error = "none"]

\* The fault of the retry replaces the one before; a lock stays.
RetryFails ==
    /\ Upset /\ config.error # "none"
    /\ \E stored \in {config.stored} \cup (IF RetryRewrites THEN {Written} ELSE {}) :
         \/ /\ config.error = "lock"
            /\ config' = [config EXCEPT !.stored = stored]
         \/ /\ config.error # "lock"
            /\ \/ config' = [config EXCEPT !.stored = stored, !.error = "network"]
               \/ config' = [config EXCEPT !.stored = stored, !.error = "other",
                                           !.lost = @ \/ stored # {config.saved}]

-----------------------------------------------------------------------------
Tick ==
    /\ lease.left > 0
    /\ lease' = [lease EXCEPT !.left = @ - 1]
    /\ UNCHANGED <<token, dirty, window, control, ui, worker, config, issued, told>>

\* A stored token comes back; every queue, lease and revision starts over.
Restart ==
    /\ issued.boot < MaxRestarts
    /\ token' \in config.stored /\ config' = Settled(token')
    /\ dirty' = FALSE /\ window' = NoWindow /\ lease' = NoLease
    /\ revision' = 0 /\ mailbox' = <<>> /\ signal' = NoAnswer /\ loop' = NoCommand
    /\ worker' = Free
    /\ panel' = [page |-> "other", code |-> 0] /\ mirror' = 0
    /\ applied' = {}
    /\ issued' = [issued EXCEPT !.boot = @ + 1]
    /\ fate' = [r \in Requests |-> IF fate[r] = "queued" THEN "lost" ELSE fate[r]]
    /\ told' = told

Gate ==
    \/ \E code \in Codes \cup {0} : ClaimPairing(code)
    \/ \E bearer \in 1..issued.token :
         \/ CreateLease(bearer) \/ ExpireLease(bearer) \/ Read(bearer)
         \/ \E id \in 1..issued.lease :
              \/ Heartbeat(bearer, id) \/ ReleaseLease(bearer, id)
              \/ \E rev \in 0..MaxRequests : Write(bearer, id, rev)

Await == TakeAnswer \/ TimeOut
RunLoop == LoopReceive \/ LoopExecuted \/ LoopRefused
Persist == \/ ResetPersistence \/ SettingChanges \/ DiscardDue \/ SaveToken \/ SaveFails
           \/ ForgetDue \/ OtherSaveFails \/ Retry \/ RetryFails

Next ==
    \/ Gate \/ Await
    \/ RunLoop
    \/ \E code \in Codes : EnterPairing(code)
    \/ LeavePairing \/ ClearToken \/ TakeTokenChange
    \/ Persist \/ Tick \/ Restart

Spec == Init /\ [][Next]_vars

\* The runtime loop keeps running.
FairSpec == Spec /\ WF_vars(RunLoop)

-----------------------------------------------------------------------------
(* Properties.                                                               *)

\* The control revision is a write's ticket: between two boots no two writes
\* take effect on the same expected revision, and the revision counts them.  A
\* client that retries a write answered 504 cannot have it executed twice.
OncePerRevision ==
    /\ \A c, d \in applied : c.rev = d.rev => c = d
    /\ revision = Cardinality(applied)

\* A write that waited in the mailbox starts only under the lease it was
\* admitted with, still running, and only while the token that admitted it is
\* the device's: a revoked client's queued writes die with its lease.
WritesStartAuthorized ==
    [][loop = NoCommand /\ loop'.write =>
          /\ loop'.token = token
          /\ loop'.lease = lease.id /\ lease.left > 0]_vars

\* What a client is told is true of its own command: 200 for a write means it
\* took effect and moved the revision on by one, 400, 409 and 503 mean it never
\* did and never will.  Only 504 leaves it open.
AnswersAreTrue ==
    \A r \in Requests :
        /\ told[r].status = 200 =>
             \/ fate[r] = "served"
             \/ fate[r] = "applied" /\ \A c \in applied : c.id = r => told[r].rev = c.rev + 1
        /\ told[r].status \in {400, 409, 503} => fate[r] = "refused"

\* The loop's answer to the request a worker waits for is never overwritten or
\* lost among the late answers to requests that timed out before it.
NoAnswerIsLost ==
    worker.pc = "waiting" /\ fate[worker.id] \in {"applied", "served", "refused"}
        => signal.id = worker.id

\* With no save due, no fault reported and no token lost sight of, exactly the
\* token in force survives a restart: none that was revoked, or given out before
\* it, comes back, whichever saves and retries failed on the way.  The code loses
\* sight of it when an immediate save forgets the due mark (ForgetDue), when a
\* failed save locks and takes RAM back, when the fault of another domain hides
\* the token's, and when a reset clears it in RAM only, until it is written again.
TokenSurvivesRestart ==
    ~dirty /\ ~config.due /\ ~config.lost /\ config.error = "none"
        => config.stored = {token}

\* Every command in the mailbox is executed or refused, or a restart loses it.
QueuedIsDecided == \A r \in Requests : fate[r] = "queued" ~> fate[r] # "queued"
=============================================================================
