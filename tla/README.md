# synology-drive-sync: TLA+ models, checks and proofs

The program mirrors a local tree to a Synology NAS through File Station, one
way, over HTTPS. On the NAS itself a package starts the same program from a web
UI, through a bridge service, a job queue and a controller. This directory holds
TLA+ models of the parts that are concurrent, that act on state others may
change, or that must survive crashes and lost answers; the TLC configurations
that check them on small instances; and TLAPS proofs, for every value of the
constants, of the results that matter most and are within the prover's reach.

Every definition that models code is listed in `PROJECT.json` ("map") with the
lines it stands for. Paths below are relative to the repository.

## 1. Inventory

### A synchronisation run

    scan (local.rs) -> list (api.rs) -> plan (plan.rs) -> withhold (sync.rs)
         -> execute (sync.rs, api.rs) -> list again and reconcile (sync.rs)

| Part | State it keeps | Operations | Hard because | Correct when |
|---|---|---|---|---|
| local scanner (`local.rs`, `path.rs`) | none beyond a walk | walk, filter, fold, set aside | links, spellings that fold together | what a run may not work with is set aside and named |
| planner (`plan.rs`) | none: two inventories to a `SyncPlan` | create, upload, copy, delete, rename lists; delete limits | type conflicts, case changes, copies whose source is deleted | a plan carried out undisturbed makes the mirror |
| withholding and reconciliation (`sync.rs` 2542-3571) | two inventories | protect, withhold, compare, report | others go on writing | a run that claims a mirror has one |
| executor (`sync.rs` 1458-2473) | plan, deferrals, kept deletions, open writes, breaker | preflight, deletes, creates, copies, uploads, re-uploads, renames | each decision rests on a snapshot another writer may have made stale | no edit it has seen is lost; deletions come last; every action is carried out or named |
| upload pool (`sync.rs` 1805-1988) | queue, channel, stop flag, recorded error | pop, check, upload, judge, stop, collect | 16 threads, three locks and a channel | one settlement per upload, an honest verdict and count, an end |
| refusal breaker (`sync.rs` 1329-1450) | pending, adjudicated, refused by class | accept, refuse, exclude, check | a verdict in mid-run must be the verdict at the end | the verdict is stable |
| batch, settings, login, doctor (`main.rs`, `config.rs`, `credentials.rs`, `vault.rs`) | profiles, deletion budget, sessions | select, resolve, reserve, log in, probe, log out | one profile of several fails; probes leave traces | budget holds; every session is ended; the report is true |
| SDK and FFI (`sdk.rs`, `crates/synology-drive-sync-ffi`) | handles | start, cancel, free | callbacks decline, panic and cancel | the session is closed and the status honest whatever the host does |

### Talking to DSM (`api.rs`)

| Part | State | Operations | Hard because | Correct when |
|---|---|---|---|---|
| session recovery (1118-1165, 1395-1540) | session slot, login ledger and its lock | send, be refused, compare, probe, admit, log in, resend | clones of one client meet the end of a session together | one login per ended session, logins limited, one expiry never fails a request |
| upload transfer (2324-2616, 4581-4913) | attempt, sends, tear | open, stream, verify, probe, retry, repair | the answer may be lost and the body land anyway, in part, or later; a refused session restarts it | success means landed; a tear is not hidden |
| background tasks and copies (285-325, 2085-2240, 7800-8100) | task gate, digest breaker | start, poll, stop | the stop may be lost; failures of several workers mix | every started task is accounted for; the verdict does not depend on the order |
| listing (4900-5250) | pages, budget | walk, page, judge links | the tree changes between pages | a complete listing is one |
| rate limit (8124-8225) | token bucket | refill, take, wait | overflow and zero; several uploads, one bucket | the long-run rate holds |
| wire (`api.rs`, `network.rs`) | none | address, decode, classify | proxies answer in DSM's name | an error is never data |

### Around a run

| Part | State | Hard because | Correct when |
|---|---|---|---|
| remote event sink (`observability.rs` 2128-2475) | closed flag, sender slot, channel, counters | callers and worker share everything | losses counted, confirmations true, calls return |
| local sinks (`observability.rs`) | one file set, rotated while it is read | failing renames, racing readers | a read is a tail of what was written |
| status cache (`status_cache.rs`) | records on disk, canary | files changed within the clock's grain; crash in a rewrite | what is served was true of what is there, disguised edits apart |
| watcher (`watch/`) | inotify tree, batches | events arrive while watches are added; overflow | a change is told or a rescan is |
| progress (`progress*.rs`) | counters, a record on disk | several threads, no common lock | what is shown is of this run and of one moment |

### In the DSM package

| Part | State | Hard because | Correct when |
|---|---|---|---|
| bridge service (`dsm_api.rs`) | pid, socket, markers | killed between any two file operations | one listener at most, and an open socket is a committed service's |
| bridge server (`dsm_api.rs` 420-610, 13951-14700) | pool, queue, slots, permits, coalescers | permits leak, queue is bounded | no place and no failure is lost; answers can be relied on |
| job queue and audit outbox (`dsm_api.rs` 8877-13070) | job, claim, response, outbox files | a crash between any two renames | each job has one verdict; polls tell the truth |
| durable logs (`dsm_api.rs`, `sdsync-common` 2903-3798) | audit and activity file sets | torn tails, rotations stopped or refused half way, power loss | what was acknowledged is there, once |
| run records and dashboard (`dsm_api.rs`, `packaging/`) | lock, `run.state`, outcome records | writers die between two writes; readers take no lock | what is shown of a run is what happened to it |
| connection proof (`dsm_api.rs`) | signing key, proofs | secrets change between test and use | only a tested connection is browsed |
| supervision (`dsm_api.rs`, scripts) | process groups, death signals | a parent dies before the child is armed | no process is lost |
| package controller (shell) | routines, schedule | | (partly: its consumer lanes, reconciliation and children) |
| web UI, platform packaging | | presentation, file copies | (not modelled) |

The executor calls the pool for its upload phase and feeds both from one
breaker. Workers hold clones of one API client, so that their uploads meet in
the session, the task gate and the rate limit. Everything emits into the event
log. The bridge starts runs as child processes through the job queue and the
controller, and reads back files those processes wrote.

`PROJECT.json` "hazards" lists, at its line, what is hard to test here, with
the properties that cover it.

## 2. Modules

Runs start one of several machines that share no state and leave the others
where they are ("a behaviour is of one of them"): the state space is their sum.

| Module | Models | Composed in |
|---|---|---|
| `RefusalBreaker` | the breaker, as operators on a record | `UploadPool`, `Executor` |
| `UploadPool` | the workers and the collector of the upload phase, one action per statement that touches shared state | `MCUploadPool`, `UploadPoolProofs` |
| `Executor` | `execute_with_observer` and `execute_renames`, all phases, with writers on both sides | `MCExecutor`, `ExecutorProofs` |
| `Planner` | scan, `build_plan`, what is withheld and how a run is reconciled: operators | `SyncRun` |
| `SyncRun` | one run from scan to exit code | `MCSyncRun` |
| `Session` | `with_session_recovery`, `recover_session`, the ledger | `MCTransport`, `TransportProofs` |
| `UploadTransfer` | one upload from its first byte to its verdict; the rate limit all uploads share | `MCTransport`, `TransportProofs` |
| `Wire` | addresses, envelope decoding, error classes: operators | `Tasks`, `Listing` |
| `Tasks` | digest passes, verifications, server copies and their tasks | `MCClient`, `TasksProofs` |
| `Listing` | the paged inventory of a tree that others edit, single lookups | `MCClient` |
| `RemoteLog`, `LocalLog` | the event log's remote sink; its local files and their readers | `MCLogs`, `MonitoringProofs` |
| `TreeWatch`, `StatusCache`, `Progress` | watcher, status cache, progress record and tracker | `MCMonitor`, `MonitoringProofs` |
| `Settings` | configuration and credentials: operators | `Command` |
| `Command` | one process from command line to exit code, diagnostics included | `MCCommand`, `CommandProofs` |
| `Sdk`, `ConnectionProof`, `Supervision` | the embedded engine, connection proofs, processes of the package | `MCCommand`, `CommandProofs` |
| `BridgeRequest` | what the bridge accepts: operators | `BridgeServer` |
| `BridgeServer`, `BridgeService` | the bridge at work; how it comes up and goes down | `MCBridgeServer`, `BridgeProofs` |
| `JobQueue` | job files and audit outbox with crashes | `JobQueue`, `JobQueueProofs` |
| `AuditContract` | what the audit promises of a job; implemented by `JobQueue` | `JobQueue` (`AuditKept`) |
| `DurableLog`, `Outcomes`, `SnapshotView` | audit and activity logs, run records, dashboard | `MCPackage` |

How the model's state and actions correspond to the code, where it is not plain
from the module:

- *UploadPool.* A worker is a `pc` and the upload in hand. `LookForWork`, `Pop`,
  `PreconditionHolds`/`Fails`, `LastLook`, `UploadAnswers`/`UploadAborted`,
  `JudgeUpload`, `StopPeers`, `RecordTrip`, `Send` follow the loop of sync.rs
  1838-1953; `Collect` and `Finish` are the collector's. What DSM answers is a
  choice. Poisoned locks are not modelled.
- *Executor.* A file has metadata (what a listing shows) and a body (what a
  digest shows), so that an edit that keeps size and time is told apart exactly
  where the code can. Checks that read disjoint objects are one step. `FailRun`
  stands for a transport error, a lost session or a cancellation at any check.
  An upload's precondition reads metadata only, as sync.rs 596-603 documents; a
  file of the planned size of which DSM tells no time passes it (sync.rs:621) and
  is, in the model, one that keeps its metadata. A folder has no time: the plan
  requires one of empty folders alone (plan.rs:2127), and a folder that stays empty
  but is dated anew is deleted in the model where the code may keep it.
  A loop's `todo` is the set of actions it has left, and `Current` the first of
  them in the plan's sequence: the loops of the code run over the plan's vectors
  in `sort_plan`'s order. `Planned` and `PlannedFor` say what `build_plan`
  guarantees of a plan and of the trees it was made of; `TreeAssumption` and
  `PlanAssumption` assume it of the constants, and TLC evaluates both on the
  six plans of the run.
- *SyncRun.* The plan is carried out phase by phase with the executor's checks;
  the executor's interleavings are `Executor`'s.
- *Session.* A thread reads the session before its attempt and again for each
  send: two steps, and the difference matters (section 6). Clients without a
  reauthenticator return the code and are not modelled.
- *UploadTransfer.* Whether an overwrite is in place and whether sent times are
  kept, which the code says it does not know, is chosen in `Init`. A send may be
  refused, cut, lost after commit, answered by a proxy, ended by its ceiling, or
  committed later (`LateCommit`). A session refusal that survives the recovery of
  the inner request reaches that of the whole upload (api.rs 4617, 1407): whether a
  send is refused (`SessionRefused`) or a look at what landed, by size or digest,
  after an attempt or before a retry (`CheckRefused`), the upload restarts once,
  its attempts counted anew and a tear forgotten (`Restarts`). In the rate limit time is counted in ticks and
  the bucket in bytes times ticks, as the code counts bytes times nanoseconds;
  `granted` is a history of what was granted until each tick.
- *Tasks.* A task lives on the NAS until it finishes or is stopped; every
  request may be lost, and a start may be answered without a task that can be
  named (`Unnamed`). *Listing.* Pages are read one by one while the tree is edited;
  of a folder DSM may count more entries than it returns (`hidden`).
- *JobQueue.* Files are sets and functions over job numbers; each rename, link
  and removal another actor can see is a step; `Crash` and `Reboot` fall between
  any two. File ages are left out: nothing expires.
- *DurableLog.* A log is a set of files, each a sequence of lines with what was
  fsynced. The writer is `append_audit_event` and `append_activity` of
  `libexec/sdsync-common`, with the repair and verification of `dsm_api.rs` it
  calls; `todo` is what it has left to append. `rotate_log` moves files up one `mv`
  at a time (`MoveUp`), and a move that is refused (`MoveRefused`) sends the record
  into the full file. `FileLines` is the size from which a file is rotated,
  `FileMost` the one the bridge still opens (10 and 11 MiB, 1 and 2 MiB). A power
  loss takes what was not fsynced, but renames reach the disk in order; a kill stops
  the writer anywhere. The optional notes that follow an audit event are one, and the
  `log-rotation.failed` marker, which only a reader shows, is left out.
- *Outcomes*, *SnapshotView.* Readers read one file per step and take no lock.
- *StatusCache.* A digest is the body it was taken of; a clock counts seconds. The
  file found at the start was left by passes over the same trees
  (`ScenesAssumption`), torn or of another build though it may be. An edit may keep
  size, time and identity, and a rewrite on the NAS may set its time back: such a
  file is served stale, as status_cache.rs 38-43 and docs/status-cache.md 100-113
  say, and `CacheTrue` excepts it (`Disguised`, `blurred`) and nothing else.
- *BridgeServer.* What a file or message holds is chosen where the code first
  looks at it. *BridgeService.* A start's file operations, one per step, with a
  kill between any two.

## 3. Runs

Each `.cfg` names its run's properties; each property is a named definition with
its meaning in the comment above it.

| Run | Instance | Shows |
|---|---|---|
| `upload_pool` | 2 workers, 3 uploads, 2 classes, a breaker one or two refusals short | `SettledOnce`, `Overshoot`, `PhaseOutcomeTrue`, `VerdictStable`, `Terminates` |
| `executor` | six plans over seven paths, 1 remote and 1 local edit | `NothingLost`, `EverythingSettled`, `Terminates` |
| `transport` | 2 threads, 2 requests each, limits scaled to 1 login a tick plus 1 per 2; one upload, 1 retry, 2 source edits; 2 streams of one bucket over 3 ticks | `LoginsHeld`, `ExpiryIsRecovered`, `RequestsEnd`; `UploadSound`, `TearNotDropped`; `RateHeld` |
| `logs` | 2 threads, a queue of 1, 2 calls each; 4 lines, 3 backups, 1 failure, 1 reader | `DeliveryReported`, `CallsReturn`; `LogReadable` |
| `job_queue` | 2 jobs of the classes serialized and concurrent, 1 crash or fault | `PollTruthful`, `ClaimsClean`, `AuditKept` |
| `bridge` | 2 requests, 2 workers, a queue of 1, one slot, one permit; 2 starts of the service | `ServiceSingle`, `NothingLeaks`, `AnswersSound` |
| `package` | 3 events, 1 power loss; 2 runs; 2 profiles edited three times | `RecordsDurable`, `OutcomesAgree`, `ViewFaithful` |
| `sync_run` | families of small trees, each one kind of difference, 1 edit | `CompleteMeansMirrored`, `ReportsTrue`, `MirrorSafe` |
| `command` | command lines, people, NAS temperaments; 2 faults, 2 edits | `ReportedTruthfully`, `SessionsEnd`, `ConfirmedIsDone`, `ProcessesAccounted` |
| `client` | 3 workers, passes of up to 5 files, trees with 3 edits | `TasksAccounted`, `VerdictInOrder`, `DigestsEnd`; `ListingTrue` |
| `monitor` | 2 inodes, 4 tree operations, kernel queue of 4; 2 passes over 2 files, 1 fault; 2 uploaders | `WatchComplete`; `CacheTrue`; `ProgressTrue` |
| `session_resend` | as `transport` | the finding of section 6 |

Why the bounds are enough for the cases of interest:

- *upload_pool*: the verdict can fall at each answer, with the peer before, in
  or after its request. What is proved holds for any number of workers.
- *executor*: each plan isolates one way phases depend on each other (two
  spellings, a move, both type conflicts, extras, a rename, nested new folders
  with enough refusals for a verdict); one edit per side opens every
  check-then-act window.
- *transport*: the clock passes both the window and the period; two threads race
  for one login and both can be refused twice. Two edits can change a source and
  change it back; an attempt, its retry and the repair are there. A second is two
  ticks, so that a wait can end within one, and chunks are smaller
  and larger than a second's worth.
- *logs*: a queue of one place is full after one event; two calls from each
  thread order emit, flush and shutdown every way; a file rotates twice.
- *job_queue*: a second job is enough for the class limits and for one job's
  sweep to meet the other's files; one crash falls between any two file
  operations, and every recovery that follows is fault-free.
- *bridge*: one place of each kind is the smallest limit that can leak or be
  fought over; the second start meets what a killed first one left.
- *package*: one line fills a file and two rotations are kept, so that every event
  rotates, by two moves once there is a rotated file, and the third event's evicts;
  an audit log that its moves were refused takes a second line, an activity log's
  second is more than the bridge reads. A dead run is followed by a live one.
- *sync_run*: one kind of difference per family, since the planner treats
  entries of unrelated names independently.
- *client*: the third failure of one cause is the digest verdict, with up to
  three workers reporting out of order; a listing has two pages a folder.
- *monitor*: a directory in a directory, moved or filled while its watch is being
  added; a kernel queue that overflows; two passes that overlap; a job of
  each kind of record (with phases, with sections, with a phase left out).

`Retries`, `PerWindow`, `Window`, `Period`, `Capacity`, `QueueCapacity`,
`LongPollLimit`, `ManagerLimit`, `BatchSize`, `Threshold`, `FileLines`, `FileMost`, `Keep`,
`QueueMax`, `BatchMax`, `Trigger` and the like are the program's own parameters,
scaled down. `MaxRequests`, `MaxTime`, `MaxEdits`, `MaxRemoteEdits`,
`MaxLocalEdits`, `MaxCalls`, `MaxLogFaults`, `MaxReads`, `MaxJobs`, `MaxFaults`,
`MaxStarts`, `MaxAttempts`, `MaxLosses`, `MaxRuns`, `MaxClock`, `MaxTicks`,
`MaxOps`, `MaxNow`, `MaxSteps`, `MaxStarted`, `MaxTaskFaults`, `MaxTreeEdits` and
`MaxChanges` bound what the program does not.

`CHECK_DEADLOCK FALSE` is set where the instance stops when its bounded work is
done (a call returned, a process ended). `upload_pool`, `executor` and
`transport` check deadlock: what has ended takes a stuttering step of its own.

### Fairness

Weak fairness on each worker's and each thread's own steps, on the collector's
and on the run's: every request has a timeout (api.rs 6205-6604 for uploads),
locks are released on every path, and the scheduler is fair to runnable threads.
A task on the NAS ends, or the call that waits for it runs out of time. Nobody
is obliged to cancel, to edit, to begin a request or to end a session. In
`RemoteLog` only the callers are fair: a transport may hang, and calls must
return all the same. The other modules state no fairness, for their properties
are about what may not happen.

### Refinement

`AuditContract` says what a reader of the audit trail may rely on: a job is
announced once, runs at most once, and gets one terminal verdict that is never
revised. `JobQueue` implements it through the outbox records, the log and the
crashes between them (`AuditKept`): a job's stage is read off its log lines and
of whether it was ever started.

## 4. Proofs

`UploadPoolProofs`, `ExecutorProofs`, `TransportProofs`, `JobQueueProofs`,
`MonitoringProofs`, `BridgeProofs`, `CommandProofs` and `TasksProofs`, checked by `tlapm`.

**Upload pool**, for any nonempty finite set of workers, any number of uploads
above zero, any refusal classes and any breaker the earlier phases can hand
over that has not tripped. The theorem `PoolInvariant` shows `IInv` of
`UploadPool` inductive. Beside the types it holds

- `QueueInv`: no two workers hold one upload, what a worker holds has left the
  queue and is not settled before its judgement, and `pending` is what is not
  settled. `SettledOnce` alone says nothing of who still holds an unsettled
  upload, so that a step could settle it again;
- `LateInv`: from the verdict until `stop` is set its worker holds the judge
  lock, so a peer with a late request cannot pass the judge and send another:
  the reason behind `Overshoot`;
- `TripInv`: a verdict is recorded or on its way there, and the collector
  outlives the workers: the reason behind `VerdictFailsRun`;
- `OutcomeInv`: only an outcome that is not a failure is judged.

`TruthInv`, inductive beside it, carries `PhaseOutcomeTrue`, which says nothing
before the phase ends:

- `CauseInv`: the flag is up, and a worker says Cancelled, only for a cause that
  is recorded or on its way to the collector (in the channel, or with a worker at
  its send): the reason why a failure is not reported as a cancellation;
- `AccountInv`: without such a cause every upload that left the queue is counted,
  in the channel or held, and a worker leaves only when the queue is empty: the
  reason behind success meaning that every upload is accounted for;
- `CountInv`: the NAS accepted exactly what is counted or on its way to be.

From them:

- `PoolTypeOK`, `PoolSettledOnce`, `PoolOvershoot`, `PoolVerdictFailsRun`,
  `PoolPhaseOutcomeTrue`, and the action property `PoolVerdictStable`, which rests on lemmas that each
  breaker operation leaves a tripped breaker tripped.

**Executor**, for any paths, any spellings of them, any trees and plans that
`build_plan` can make, any entries other writers and programs leave and any
number of edits on both sides. `ExecutorInvariant` shows `IInv` of `Executor`
inductive. `NothingLost` speaks of what the NAS holds; what keeps it true is what
the run knows, so `IInv` holds beside the types

- `FlightInv`: no two uploads in flight have one destination, what one of them
  would replace is what its precondition saw or has been written since
  (`Replaceable`), and after the writing phases only reappeared files are in
  flight. Without it an upload started in one phase could land in another;
- `RequestInv`: between a check and the request it authorises the entry is as
  checked or freshly edited; a mirror deletion's local file is absent or freshly
  back, no deferral is related to it by spelling, and its guards' content stands
  at their destinations;
- `WritesInv`: a planned write is still to come, named by a deferral, or done and
  there; when deletions begin none is still to come;
- `KeptInv`: until deletions begin, what is to be deleted stands as planned;
- `SpellingInv`: until renames begin, one of the two spellings stands at the very
  paths of the plan (`StandsAsPlanned`); a case-only rename then moves entries
  between spellings of one path, which is why `OneSpellingSurvives` speaks of
  spellings.

What a step does to the NAS is one of six things (`NasStep`: nothing, an edit by
another writer, a deletion, an addition, an upload, a rename). The parts about
entries are shown for the six, those about the run's own state action by action.

`EverythingSettled` needs more of what the run knows. `SInv`, inductive beside
`IInv`, holds

- `AccountInv`: phase after phase a planned action is still to come, done, or
  named by a deferral or a kept deletion. The property itself speaks of the end
  only;
- `ClearInv`: what is still to come is not deferred. A deferral may reach what a
  run carries back unless that lies apart from every deletion to come: deletions
  go from the deepest folder up, so a kept path never holds a later one
  (`DeepestAtHand`), and that is the one place where the order of a plan matters;
- `BreakerInv`: in every phase `pending` is the number of writes to come, so that
  no path through a phase settles a write twice or leaves one unsettled, and the
  run goes on only on a breaker that has not tripped.

The assumptions on the constants are what the planner guarantees. `Planned`: paths
are unique per side and no path is written twice (plan.rs keys both trees by folded
path), what is written is neither deleted nor renamed, a deletion's entry was
listed and is guarded by copies of its own content (`destination_guard`, plan.rs:1030), a folder's
case-only rename moves what is beneath it to other spellings of the same names.
`Arranged`: deletions are sorted deepest first (`sort_plan`, plan.rs:2158); no file
lies in another; each destination is its local path with its folders spelled as
the NAS spells them (`remote_relative`, plan.rs:1166, after `resolve_spellings`
has refused names that one side spells twice), so that what nests on the NAS nests
locally; and nothing is made at or above an entry that is deleted last, because
a folder that is listed is not created and an entry of another type is deleted
first. `TreeAssumption`: paths form a tree, and `portable_fold` works name by
name. From the invariants:

- `ExecutorNothingLost`: `NoSeenWriteLost`, `ReappearedFileKept` and
  `OneSpellingSurvives` in every state of every run. It rests on the checks made
  on the way and on `Planned` and `TreeAssumption`, on no order of a plan's actions;
- `ExecutorEverythingSettled`: `AllAccountedFor`, `AllWritesSettled` and
  `DeletionsLast` in every state, and the action property `DeferredLeftAlone`. For
  that one each of the six things a step may do to the NAS is shown to leave alone
  what is deferred; a case-only rename because being related by spelling is
  inherited along a path (`UnrelatedBeneath`).

The proof attempts showed two things. `OneSpellingSurvives`, stated for the very
paths of an upload and a deletion, is false when a folder above them is renamed
later in the run: it is stated up to spelling. And a deferral is looked up by the
local spelling of a path (`rel`) while the NAS is written at its `dest`, so that
`DeferredLeftAlone` is stated for the actions planned at a path and a created
folder carries both spellings.

**Session**, for any set of threads, any positive limits, window and period and
any number of retries; the bounds on requests and time play no part. The
theorem `SessionInvariant` shows `IInv` of `Session` inductive. Beside the types
and the properties themselves it holds

- `LedgerInv`: `total` counts all logins, `recent` is the tail of their history
  and every login it has forgotten has left the window. That makes `LoginRate`
  inductive: the ledger limits what it remembers, the property speaks of all
  logins;
- `FrameInv`, one condition per thread: its sends carry sessions from the one it
  began under up to the current one, and a thread that is to log in holds the
  lock and met the current session's end. That makes `OneLoginPerSession` and
  `ExpiryIsRecovered` inductive;
- `SupersededInv`: every replaced session is older than the current one.

From it:

- `SessionTypeOK` (with mutual exclusion on the ledger), `SessionLoginRate`,
  `SessionLoginAllowance`, `SessionOneLogin`, their conjunction
  `SessionLoginsHeld`, and the action property `SessionExpiryRecovered`.

**Upload transfer**, for any number of retries and of edits of the source,
whether DSM writes in place or not, keeps the times it is sent or not, and
commits late bodies or not. `UploadInvariant` shows `UploadInv` of
`UploadTransfer` inductive. `UploadSound` speaks of an upload that has answered;
the invariant holds what is known on the way there:

- `BodiesWhole`: under a fingerprint a body that was sent whole is the planned one,
  and no other complete body is with DSM, at the destination or still to be
  committed, so that one of the planned length can only be torn or the planned one;
- `LookHolds`: what a stage has looked at still holds when the next one rests on
  it. Between a look at the destination and the digest that is asked for, DSM may
  finish a body of an attempt the client has given up, which has the planned
  length as well; with no such body the look would be stale and the invariant
  false;
- `AttemptsCounted`: the sends are bounded by the attempts and the repair of this
  session, and of the one before a restart.

From it: `UploadIsSound`, and the action property `UploadTearNotDropped`: after a
tear no step ends the upload with a result that does not name it, unless the
upload was done after all or starts afresh, for the one time, because its session was
refused while the repair was being verified.

**Rate limit**, for any rate above zero, any set of uploads, any chunk sizes and
any resolution of the clock. `RateHeld` bounds what was granted over every stretch
of time by what the limit allows for it and one second's burst. It is not
inductive: a full bucket at the end of a stretch that used its allowance would
grant a second burst. `RateInvariant` holds `SpentFits` beside it: from any time
on, what was granted and what is left in the bucket together fit into that bound,
which refilling keeps because it never leaves more than the burst. From it:
`UploadRateHeld`.

**Background tasks**, for any set of workers, any gate, batch size and threshold,
any selected files or copy, and any number of retries and of lost requests.
`TasksInvariant` shows `TasksInv` of `TasksProofs` inductive; TLC checked it on
the run's instance before it was proved. A task is loose when it runs, its start
was answered, and no call is to poll or stop it. Every step is shown to move one
worker or the copy, and to make no task loose but one it counts. Beside the count
the invariant holds

- `CopyAlone`: a copy is made with no digest beside it, so that what it finds
  running is its own task;
- `NothingYet`: until its start is answered a copy has nothing behind it, and a copy
  that is given up later is not called "not started". `NotStartedIsNothing` speaks
  of a copy that has ended only. What makes a start's own refusal safe is a lemma:
  neither a lost answer nor a proxy's is among those that `copy_start_error` reads
  as "nothing was started" (`NotSaid`).

From it: `TasksAreAccounted`. The attempt corrected the model: `CopyCheck` and
`CopyPoll` had CASE arms whose guards overlap; they are chains of tests now, in the
order of the code.

**Bridge**, for any finite set of workers, any limits, any requests a web server
may hand over, any documents and policies and any number of starts of the
service. `BridgeInvariant` shows `BridgeInv` of `BridgeServer` inductive. Beside
the types, the counters and what is stored for the consumer it holds

- `PlacesExact`: a place of the long polls or of the manager's lane is held by the
  worker or the builder that uses it, whatever ends that, the death of the
  service included;
- `WaitsFresh`: who waits for a build, or has been handed its snapshot, came
  before that build had ended, and nobody waits for a build still to be begun;
- `ServiceInv`: `PidIsLock` (the pid file is held from its publication, and the
  socket's path and the ready marker belong to its holder), `OneParent` (a later
  start waits until the former is over), `SweepSafe` (a cleanup under way has
  removed the socket, and nobody holds the lock it is about to remove) and
  `SocketHasPid` (a socket nobody answers on has its owner's pid beside it, which
  is what lets a later start tell that it is stale).

From it: `BridgeServiceSingle`, `BridgeNothingLeaks` and `BridgeAnswersSound`. That
what was accepted can be read rests on lemmas about the two parsers: whatever
`parse_mutation_request` lets through, `parse_job` reads, with its secrets, and
the policy that is in force when it is admitted grants it. `BridgeAssumption` says
that there are finitely many workers and that the limits are numbers;
`DocumentsAssumption` what a parsed body has. `FailuresNeverLost` sums over the
workers: a step is shown to move the sum by one worker's part, by counting units
of failures as the elements of a set, whose cardinalities the library's theorems
speak of; that the fold's recursion computes that cardinality is shown of a least
set for which it would not.

**Entries**, for any command lines, people and NASes, any embedding programs, any
connections, passwords and users, any argument lists of a runner and any number of
faults and edits. `EntryInvariant` shows `EntryInv` of `MCCommand` inductive, one part
per machine; TLC checked it on the run's instance before it was proved.

- `CommandInv`: a command's open session is that of the job at hand or one whose
  logout went unanswered (`LogoutInv`; `SessionsEnd` itself speaks of the end only),
  and how far a login has come bounds what it has sent (`InProgress`). That is what
  the negotiation hides in the order of its branches: three attempts after a typed
  code, two after a second generated one, one after the first, and a refusal is on
  record only where a code can still be replaced;
- `HostInv`: where a run is in the script of `Engine::run` says what it may have done
  (`PlaceInv`): nothing is changed before the place of the plan callback, after it the
  host has agreed to the plan it was shown, and a host that has refused is already
  being cancelled. The script has a different length for each host; `ScriptShape`
  shows that what precedes the plan callback changes nothing, whatever the host asks
  for, and that nine entries follow it;
- `TestedInv`: every proof held was signed for a test that succeeded (`HeldInv`), so
  that what verifies under the current key and secrets belongs to one;
- `ProcessInv`: what a consumer has seen end has ended (`ConsumerInv`), what it calls
  a success was read to its end first (`CaptureInv`), and a service has asked for its
  parent's death before it looks whether the parent lives (`StartInv`), which is what
  leaves no gap for a death between the two.

From it: `CommandSessionsEnd`, `CommandConfirmedIsDone` and
`CommandProcessesAccounted`. Of a proof's signature the model, and so the proof, takes
that one over other arguments, secrets or another key differs.

The attempt corrected the model. `OnPlan` and `run_inner_status` of `Sdk` and
`ReadTurn` of `Supervision` had CASE arms whose guards overlap, of which TLC takes the
first and TLA+ any; they now exclude each other as the code's order of tests does. And
`AppliedAsShown` compared what was changed with every plan shown, which says nothing of
a run that showed none: it now asks for one shown plan that holds all of it.

**Job queue**, for any number of jobs, any keys and bodies, any admission class
per key, any set of keys with secrets, any limit on outstanding jobs and any
number of crashes and failed writes. `JobQueueInvariant` shows `QInv` of
`JobQueue` inductive. None of the three properties is: each speaks of files, and
a step of one actor is harmless only for what the others know about those files.
`QInv` states that knowledge, beside the types:

- `EnqueueInv`: the reserved sequence number is the last one, and a job whose
  enqueue is past its publication (`Past`) is never published again. With it
  "gone" is a stable fact (`GoneStays`), which a poll of several looks needs;
- `TurnInv`: a turn owns the claimed file it works on, a consumer works for a
  turn that waits, the auxiliary turn runs inside the primary one's wait, and who
  holds the outbox lock for a sweep is at its sweep;
- `AnswerInv`: nothing answers for a job before the one who works on it;
- `AuditInv`: a job is announced before it is published, its log names at most
  one verdict, the one of its record while there is one, and a record that was
  claimed never returns to an earlier phase;
- `VerdictInv`: a success that is recorded, logged or answered was had; and a job
  whose consumer is running, or was killed after its manager started, is in no
  state from which somebody may say that it failed;
- `PollInv`: what each look of a poll excluded stays excluded until it answers;
- `RetryInv` and `SecretInv`: of two jobs of one request the older has no file
  left, and the secret precedes its job and follows it.

Two of its clauses were found by failed proof attempts and then checked with
TLC: that an enqueue taking its publication back (`unpublish`) still counts as
unpublished, and that a slot owning the sweep is at its sweep.

Every step is first shown to have a footprint (`Frames`: who moves, and which
files of which job it touches); each part of `QInv` is then kept by every
footprint. From it:

- `JobQueuePollTruthful` and `JobQueueClaimsClean`;
- `JobQueueAuditKept`, the refinement of `AuditContract` under the mapping
  `verdictOf`: `OneAtATime` shows that a step moves the trail of one job at most,
  a sweep of the outbox included, and `TrailStep` that it moves along one edge of
  the contract.

**Remote log sink**, for any finite set of threads, any queue capacity above zero
and any number of calls. `RemoteLogInvariant` shows `IInv` of `RemoteLog`
inductive. `DeliveryReported` speaks of a worker that is gone and of calls that
have returned; the invariant says where every event is until then:

- `OwnEvents`: the event of a call of emit is in no other call and has not been
  turned away;
- `CountInv`: an emitted event is accepted, dropped, turned away, or in a call
  that is about to say which; `accepted` covers what was handled, what is in the
  channel, what is being sent, and what a refused send is about to take back. The
  worker may handle an event before its emit has returned, and a refused event is
  counted as accepted for a while, so that neither counter alone says anything;
- `ReportInv`: what a report counted is still lost. A drop is first taken from
  `accepted` and only then counted, and an event that is accepted late joins the
  unfinished ones: the bound a report obeys (`Lost`) never shrinks once the worker
  has exited;
- `CommandInv`: a control command in the channel names the call that waits for
  it, which has no answer yet, and no two name one call; so an answer that comes
  after its caller's deadline reaches nobody;
- `VouchInv`: until the first failure, what emit returned is delivered, being sent
  or in the channel, and what a control call began after lies before its command:
  the order of the channel is what a successful flush rests on.

From it: `RemoteLogDeliveryReported`. The run shows it together with the local
sinks of the log; the theorem is of the remote sink's own specification.

**Status cache**, for any processes and number of passes, any files and scope, any
maximum age, limits and audit interval, any file found at the start that passes over
these trees can have left, and any number of edits on both sides, kills and power
losses. `CacheInvariant` shows `CacheInv` of `MonitoringProofs` inductive; TLC checked
it on small instances before it was proved. `CacheTrue` speaks of what a pass has
served; nothing in it says why the next pass may be served from what this one
stores. `CacheInv` says that of *sightings*: what a scan under way or a record, stored
or about to be renamed into place, says of a source file: this body, under this time
and identity, at that second. One that is dated in the second of the file's own time
or before is no sighting, which is all that `racy` is for.

- `SightingsTrue`: a sighting is true of the file until its time or identity
  changes, because an edit made since has a later time than the sighted one, or
  another identity, or is disguised: sightings that show a time and identity some
  edit has used again are none, in the invariant as in `CacheTrue`. That covers the digest pass, which reads a file some time after
  the scan: where metadata has not moved, what is read is what was scanned;
- `SightingsAgree`: no two sightings of one file under one time and identity name
  different bodies, those of two passes at once included. A record is matched with
  the scan of a pass by metadata alone, and the file may have changed since that scan,
  so that truth of the present file would not do;
- `RecordsStand`: the same of a destination, known by its time alone and therefore up to
  a rewrite inside its own second or one that sets the time back; and a record is not dated later than the reading it
  rests on, unless it was dated anew;
- `PassesStand`: what a pass listed and digested still stands, and what it is about to
  store was read or had been served.

Every step is shown to leave sightings as they are or to turn a scan into a record of
the same claim (`NothingNew`, `WriteMerged`); a scan makes new ones, of a file as it is.
From it: `StatusCacheTrue`.

`LeftByPasses` says what a file found must be for the proof to start from it: its
believable records are true of the trees as found. The attempt corrected the model in
two places. `HashLocal` failed a pass whose file had another body, where the code sees a
changed time or identity only (local.rs, `hash_file_snapshot`). And the history `redated`, in
which `AgeBounded` names its exception, missed a record that another pass had replaced by other
evidence in the meantime.

**Progress**, for any workers, sizes (natural numbers), numbers of operations and retries,
any interval and any operation of a job. `MonitoringProofs` proves the record and the
counters apart, since they share no state; TLC checked both invariants on the run's
instance first. `ProgressTrue` compares what a poll reads with the phases, and a total
with the operations it is the total of.

- `RecordInv` (`ProgressRecordInvariant`): a document in the staging file that is about
  to be renamed, and one that is published, is *truthful* (`Truthful`): whole, of a phase
  the job has entered, with no more items than that phase counted. What a worker writes
  is so because nobody enters a phase while a worker is inside a write, and because the
  lock keeps two of them apart (`OneWriter`): one may not truncate what the other is about
  to rename. A document is dated by the phase it names; that the reader turns the name
  back into that step needs each catalogue to list a phase once (`Catalogues`);
- `TrackerInv` (`ProgressTrackerInvariant`): an operation is active with at most one
  worker, has not sent more than its file holds, and what is counted is the number of the
  bytes shown: those of completed operations and of the attempts under way. The bytes are
  taken as the elements of a set (`BytesShown`), whose cardinality moves by what the one
  operation that a step touches gains or gives back (`OneShown`). It follows that the
  saturating subtractions of a retry and of a failure never saturate.

From them: `ProgressIsTrue`. The composition interleaves both with the other monitoring
modules, whose steps leave these variables alone. Stating the sum this way showed that
the model let `run_status` enter "compare" outside content mode and count in phases in which
the code counts nothing; it now leaves the one out (`LeftOut`) and counts in the others only
(`Counts`).

### What stays with TLC

- All liveness (`Terminates`, `RequestsEnd`, `DigestsEnd` and `CallsReturn`
  among them): it rests on fairness and ENABLED.
- What recursive definitions compute (`WatchComplete`, `CompleteMeansMirrored`,
  `ReportsTrue`, `MirrorSafe`, `ListingTrue`): the planner, the walk of a tree and the
  rollups recurse over data, and the library's induction theorems take an operator
  that no installed prover instantiates. Where a proof above needs a fact of this
  kind about a sum or an order, it takes a least counterexample.
- The safety of components without a proof: `LogReadable`, `RecordsDurable`,
  `OutcomesAgree` and `ViewFaithful`. Nothing about them is known to be out of reach.
- What rests on a fold: `VerdictInOrder`, where the pass counts a batch's results one
  after the other and the property counts them as sets, and `ReportedTruthfully`, whose
  budget sums the deletions of a batch over its jobs.

## 5. Hazards without a property

`PROJECT.json` gives the properties of each hazard. One has none: what an upload
attempt leaves behind that was ended by its ceiling, of which the code promises
nothing but its error. The draining of the job queue (liveness over its files)
is too large for a run and is not stated.

## 6. Finding

`session_resend` (api.rs:1406) ends with a counterexample. A request is compared
by the session read before its attempt, while its sends read the slot again.
After a peer's login a retry carries the new session; if DSM refuses that one,
it is taken for an old one and the request is resent under the session just
refused, where the comment at api.rs:1423 says that the slot then holds another.

### Observations

Met while modelling. The models do what the code does; no property speaks of
these, and each is for the code's reviewers to judge.

- Uploads: an attempt ended by its ceiling is neither retried nor probed
  (api.rs:8705, 6215); the attempt that repairs a tear can end with an error that
  does not name the tear (api.rs:4669); a source edited after its body was
  complete is reported as changed although the destination was replaced
  (api.rs:4788). A restart under a new session can be followed by a second tear and
  a second repair, where the comment at api.rs:4842 says "Exactly one, never a loop".
  An MD5 start whose answer is lost, or names no task, leaves a task that is neither
  stopped nor counted.
- Listing: a deletion before a page's offset with an addition after it leaves the
  total equal (api.rs:5032). A probe's CreateFolder that lands after the cleanup
  leaves a folder nobody reports (api.rs:3163, 3364).
- Planning: a case change that also changes kind writes the new spelling before
  it deletes the old (plan.rs:1648). `ensure_reconciled` ignores the second
  plan's skips that are not deferred (sync.rs:3394). Empty plans are not
  reconciled (main.rs:3041). A batch compares only the selected profiles, a
  single-profile run all of them (main.rs:1110). `status` shows a case-only
  rename as two rows.
- Plan executor: a deferral names the local spelling of a path, but the type
  conflicts it should keep are looked up by the NAS's spelling (sync.rs:1495). In
  a folder that the two sides spell differently, a source that cannot be read
  does not take "the replacement of its remote counterpart with it"
  (sync.rs:1477): the entry is deleted and not replaced. No plan of the
  `executor` run has such a folder.
- Event log: an emit overtaken by a shutdown loses its event uncounted
  (observability.rs:2280). A failed reopen after a rotation loses one backup more
  per retry; a partial write glues the next line to it; after a failed rotation
  lines that would still fit are refused. A read racing a rotation oldest-first
  can miss a whole file.
- Job queue: a kill between the link of a response and the removal of its staging
  file while the audit is pending makes every later sweep fail
  (dsm_api.rs:12588, 10545). Reconciling an executing job whose owner died gives
  an unknown outcome although a response was published (12512). A clock stepped
  back below the issue time keeps a response from being published (8107). A job
  and its record can be seen the one without the other (15240).
- Durable logs: an append that succeeds and is followed by a failed state write is
  counted twice (dsm_api.rs:9158); the history is read without the lock (9840); a
  partial write leaves a torn tail; power loss can tear a rotated file that was
  never synced. Once refused moves have let a file outgrow what the bridge opens
  (dsm_api.rs:9782), the repair before each append refuses it and with it every later
  event, where sdsync-common:2967 says that a line "is never dropped for a rotation
  problem".
- Dashboard: a dead run superseded before it is reconciled leaves a gap
  (dsm_api.rs:17804); two runs in one second can be told apart wrongly; a profile
  removal killed half way makes every snapshot refuse (sdsync-dsm:4768).
- Status cache: a crash between creating and writing the marker leaves an empty
  marker every later open refuses; racy records keep their old date; the remote
  time has no racy floor. Of two passes at once one may serve evidence whose record
  the other removes or replaces before it is stored: it is then dated now
  (status_cache.rs:1133), although a date "is when its evidence was **first** observed"
  (docs/status-cache.md:58), and the maximum age counts from there.
- Watcher: a walk that ends in an error drops its batch without a marker
  (tree.rs:197, 217, 247, 504).
- Progress: diagnostics never publish a record (main.rs:3641); two workers that
  cross the trigger together can publish the older count last.
- SDK: `partial_execution` can be none although something completed
  (sdk.rs:144, 1409); a callback's failure takes precedence over the outcome.
- Supervision: an adopted zombie keeps a process group alive and fails a mutation
  that succeeded; a killed consumer takes the manager with it but not its helpers.

## 7. Not modelled

Parts without protocol state (formatting, terminal output, key stores of
operating systems, packaging, web views) are listed in `PROJECT.json`. Within the
modelled parts: poisoned locks, clients without a reauthenticator, the wording of
errors and the reasons of deferrals where nothing depends on them, TLS and the
HTTP client, file ages and expiry in the job queue, and the controller's
schedule.
