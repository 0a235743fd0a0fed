------------------------------ MODULE Progress ------------------------------
(* What a run says of itself while it runs. Two machines that share nothing:  *)
(*                                                                            *)
(*  - the progress record (src/src/progress_record.rs, the catalogues of      *)
(*    src/src/lib.rs and the reader in src/src/dsm_api.rs): a queued job's    *)
(*    core publishes its phase and a running count to a file that the bridge  *)
(*    reads while the job is pending;                                         *)
(*  - the tracker (src/src/progress.rs and ProgressWiring of main.rs): upload *)
(*    workers and the executor's events feed shared counters that a renderer  *)
(*    and the event log print.                                                *)
EXTENDS Integers, Sequences, FiniteSets, FiniteSetsExt, SequencesExt

CONSTANTS Tickers,        \* workers that count items of a phase
          ProgressJobs,   \* the queued mutations that may be run: set of operations
          Trigger,        \* COUNT_TRIGGER
          Interval,       \* WRITE_INTERVAL, in ticks of the clock
          MaxItems,       \* items counted per run
          MaxClock,
          Uploaders,      \* upload workers
          Sizes,          \* sizes of the files the plan uploads
          MaxStarted,     \* operations a run starts
          MaxSteps        \* observer events per run

ASSUME SizesAssumption == Sizes \subseteq Nat

-----------------------------------------------------------------------------
(* The catalogues (lib.rs).                                                   *)

\* operation_phases: the operations whose phases are published.
operation_phases ==
    [op \in {"sync-status", "plan", "run", "resync", "connection"} |->
        CASE op = "sync-status" -> <<"scan_local", "connect", "authenticate", "list_remote",
                                     "compare", "build_report", "store_results">>
          [] op = "plan"        -> <<"scan_local", "connect", "authenticate", "list_remote",
                                     "compare", "build_plan">>
          [] op = "connection"  -> <<"resolve_secrets", "authenticate", "contact", "logout">>
          [] OTHER              -> <<"scan_local", "connect", "authenticate", "list_remote",
                                     "compare", "build_plan", "upload", "reconcile">>]

PhaseUnit(id) == CASE id \in {"scan_local", "compare", "upload"} -> "files"
                   [] id = "list_remote" -> "entries"
                   [] OTHER -> ""

\* DOCTOR_SECTION_SPECS, by step.
DoctorSections ==
    <<"network_reachability", "routing_tls", "dsm_api_discovery", "capability_enumeration",
      "file_station_capabilities", "dsm_session_auth", "session_channel_ablation",
      "session_concurrency", "capability_diagnosis", "destination_path_resolution",
      "destination_permissions", "destination_inventory", "disposable_write_verify_cleanup",
      "session_logout", "intermediary_transport", "session_cookie_ledger">>

\* operation_phase: a phase id resolved against the operation that is running;
\* an id the operation does not have resolves to nothing.
operation_phase(op, id) ==
    LET specs == IF op = "doctor" THEN DoctorSections
                 ELSE IF op \in DOMAIN operation_phases THEN operation_phases[op] ELSE <<>>
        steps_of == {n \in DOMAIN specs : specs[n] = id}
    IN  IF steps_of = {} THEN <<>>
        ELSE <<[step |-> Min(steps_of), total |-> Len(specs),
                unit |-> IF op = "doctor" THEN "" ELSE PhaseUnit(id)]>>

-----------------------------------------------------------------------------
(* The record.                                                                *)

VARIABLES job,      \* the queued job: its operation and where it stands
          recorder, \* the recorder shared by the core's threads
          files,    \* the staging file and the published record
          tk,       \* each worker's place inside ProgressRecorder::add
          moment,
          items     \* history: items counted in each phase

recordVars == <<job, recorder, files, tk, moment, items>>

NoRecord == <<>>
NoTick   == [pc |-> "idle", total |-> 0]
Ids      == [request |-> "r1", id |-> "j1"]

\* mutation_progress_operation: the operations that get a record path.
mutation_progress_operation(op) ==
    op \in {"run", "plan", "doctor", "resync", "sync-status", "connection"}

RecordInit ==
    /\ \E op \in ProgressJobs : job = [op |-> op, at |-> "queued", next |-> 1]
    /\ recorder = [on |-> FALSE, phase |-> 0, count |-> 0, last |-> <<>>, lock |-> FALSE,
              pc |-> "idle"]
    /\ files = [tmp |-> NoRecord, final |-> NoRecord]
    /\ tk = [w \in Tickers |-> NoTick]
    /\ moment = 0
    /\ items = [n \in 1..8 |-> 0]

Phases == IF job.op \in DOMAIN operation_phases THEN operation_phases[job.op] ELSE <<>>

\* The consumer starts the job with ProgressRecordGuard over the record's path,
\* and attach_progress_record builds the recorder: an operation without a
\* catalogue, the doctor's among them, gets none.
StartJob ==
    /\ job.at = "queued"
    /\ job' = [job EXCEPT !.at = "running"]
    /\ recorder' = [recorder EXCEPT !.on = mutation_progress_operation(job.op)
                                 /\ job.op \in DOMAIN operation_phases]
    /\ UNCHANGED <<files, tk, moment, items>>

\* The count a phase starts from.
PhaseCount(r) == 0

\* run_status compares, and so enters the phase, only in content mode; every
\* other phase is left out only by ending before it.
LeftOut(n) == job.op = "sync-status" /\ Phases[n] = "compare"

\* ProgressRecorder::phase, up to its write. The code's phases follow one
\* another on the main thread, after the workers of the last one were joined.
EnterPhase ==
    /\ job.at = "running" /\ recorder.on /\ recorder.pc = "idle"
    /\ \A w \in Tickers : tk[w].pc = "idle"
    /\ \E step \in job.next..Len(Phases) :
        /\ \A n \in job.next..(step - 1) : LeftOut(n)
        /\ job' = [job EXCEPT !.next = step + 1]
        /\ recorder' = [recorder EXCEPT !.phase = step, !.count = PhaseCount(recorder),
                                        !.pc = "open"]
    /\ UNCHANGED <<files, tk, moment, items>>

Document(step, count) ==
    [request |-> Ids.request, job |-> Ids.id, section |-> Phases[step], at |-> moment,
     count |-> count, whole |-> TRUE]

\* publish: the steps of one write, as a function from the files and the step
\* reached to what may follow. Each system call may fail, and `?` ends it.
Publish(at, f, doc) ==
    CASE at = "open"   -> {<<"done", f>>,
                           <<"write", [f EXCEPT !.tmp = <<[doc EXCEPT !.whole = FALSE]>>]>>}
      [] at = "write"  -> {<<"done", f>>, <<"rename", [f EXCEPT !.tmp = <<doc>>]>>}
      [] at = "rename" -> {<<"done", f>>, <<"done", [tmp |-> NoRecord, final |-> f.tmp]>>}

\* ProgressRecorder::phase: its write, without the lock, then the time of it.
PhaseWrite ==
    /\ recorder.pc \in {"open", "write", "rename"}
    /\ \E p \in Publish(recorder.pc, files, Document(recorder.phase, 0)) :
        /\ files' = p[2]
        /\ recorder' = [recorder EXCEPT !.pc = IF p[1] = "done" THEN "idle" ELSE p[1],
                              !.last = IF p[1] = "done" THEN <<moment>> ELSE @]
    /\ UNCHANGED <<job, tk, moment, items>>

\* The phases during which the code counts: the scans of the tree and of the
\* destination tick, those of the reconciliation too, the digest passes and the
\* completed transfers.
Counts == {"scan_local", "list_remote", "compare", "upload", "reconcile"}

\* add: the relaxed increment, and the trigger that decides whether to go on.
Count(w, amount) ==
    LET total == recorder.count + amount IN
    /\ job.at = "running" /\ recorder.on /\ recorder.phase > 0
    /\ recorder.pc = "idle" /\ tk[w].pc = "idle"
    /\ Phases[recorder.phase] \in Counts
    /\ SumFunction(items) + amount <= MaxItems
    /\ recorder' = [recorder EXCEPT !.count = total]
    /\ items' = [items EXCEPT ![recorder.phase] = @ + amount]
    /\ tk' = [tk EXCEPT ![w] = IF total % Trigger >= amount THEN NoTick
                               ELSE [pc |-> "lock", total |-> total]]
    /\ UNCHANGED <<job, files, moment>>

\* add: the lock, and the interval since the last write.
TickLock(w) ==
    /\ tk[w].pc = "lock" /\ ~recorder.lock
    /\ IF recorder.last # <<>> /\ moment - recorder.last[1] < Interval
       THEN tk' = [tk EXCEPT ![w] = NoTick] /\ UNCHANGED recorder
       ELSE tk' = [tk EXCEPT ![w].pc = "open"] /\ recorder' = [recorder EXCEPT !.lock = TRUE]
    /\ UNCHANGED <<job, files, moment, items>>

TickWrite(w) ==
    /\ tk[w].pc \in {"open", "write", "rename"}
    /\ \E p \in Publish(tk[w].pc, files, Document(recorder.phase, tk[w].total)) :
        /\ files' = p[2]
        /\ IF p[1] = "done"
           THEN /\ tk' = [tk EXCEPT ![w] = NoTick]
                /\ recorder' = [recorder EXCEPT !.lock = FALSE, !.last = <<moment>>]
           ELSE tk' = [tk EXCEPT ![w].pc = p[1]] /\ UNCHANGED recorder
    /\ UNCHANGED <<job, moment, items>>

\* The core ends: the recorder's Drop removes the staging file. Killed, it does
\* not. The consumer's guard then removes the record, or fail_claimed_job does
\* when the consumer was killed with it.
CoreEnds(killed) ==
    /\ job.at = "running"
    /\ killed \/ (recorder.pc = "idle" /\ \A w \in Tickers : tk[w].pc = "idle")
    /\ job' = [job EXCEPT !.at = "ended"]
    /\ files' = [files EXCEPT !.tmp = IF killed \/ ~recorder.on THEN @ ELSE NoRecord]
    /\ recorder' = [recorder EXCEPT !.on = FALSE, !.pc = "idle"]
    /\ tk' = [w \in Tickers |-> NoTick]
    /\ UNCHANGED <<moment, items>>

\* The guard's remove_file may fail; the result ends the job either way.
JobEnds ==
    /\ job.at = "ended"
    /\ job' = [job EXCEPT !.at = "answered"]
    /\ \E removed \in BOOLEAN : files' = [files EXCEPT !.final = IF removed THEN NoRecord ELSE @]
    /\ UNCHANGED <<recorder, tk, moment, items>>

RecordTime ==
    /\ moment < MaxClock /\ moment' = moment + 1
    /\ job.at = "running"
    /\ UNCHANGED <<job, recorder, files, tk, items>>

\* read_request_progress and validated_progress: what a poll of the job is told.
\* A record that is not whole, or names another job or a phase the operation
\* does not have, is no progress.
validated_progress(f, op) ==
    IF f = NoRecord THEN <<>>
    ELSE IF ~f[1].whole \/ f[1].request # Ids.request \/ f[1].job # Ids.id THEN <<>>
    ELSE LET p == operation_phase(op, f[1].section) IN
         IF p = <<>> THEN <<>>
         ELSE <<[step |-> p[1].step, total |-> p[1].total, unit |-> p[1].unit,
                 at |-> f[1].at, count |-> f[1].count]>>

\* request_status_found_response, queued_pending_response: only while pending.
PollTold == IF job.at \in {"queued", "running", "ended"} THEN validated_progress(files.final, job.op)
            ELSE <<>>

RecordNext ==
    \/ StartJob \/ EnterPhase \/ PhaseWrite \/ JobEnds \/ RecordTime
    \/ \E w \in Tickers : TickLock(w) \/ TickWrite(w)
    \/ \E w \in Tickers, n \in 1..2 : Count(w, n)
    \/ \E k \in BOOLEAN : CoreEnds(k)

(* The published record never says what was not so: whatever fails or is      *)
(* killed between two steps of a write, the file a poll reads is a whole      *)
(* document, and the poll is told a step the job has entered, with a count of *)
(* items that phase really counted (progress_record.rs:120-204).              *)
ProgressTruthful ==
    /\ files.final # NoRecord => files.final[1].whole
    /\ PollTold # <<>> =>
        /\ PollTold[1].step < job.next
        /\ PollTold[1].count <= items[PollTold[1].step]

-----------------------------------------------------------------------------
(* The tracker.                                                               *)

VARIABLES tracker,   \* ProgressInner: the counters and the active operations
          up,        \* each upload worker's observer: [id, attempt], or idle
          wiring,    \* the recorded failure, the cancellation, the render clock
          screen,    \* the renderer's line: nothing, open, or ended
          steps,
          ended      \* history: operations that ended, id -> [ok, total]

trackerVars == <<tracker, up, wiring, screen, steps, ended>>

NoUpload == [id |-> 0, attempt |-> 0, kind |-> "idle"]

TrackerInit ==
    /\ tracker = [next |-> 1, active |-> <<>>, completed |-> 0, failed |-> 0,
                  files |-> 0, badFiles |-> 0, logical |-> 0, wire |-> 0]
    /\ up = [u \in Uploaders |-> NoUpload]
    /\ wiring = [failure |-> FALSE, cancelled |-> FALSE, done |-> "no"]
    /\ screen \in {"off", "lines", "closed"}
    /\ steps = 0
    /\ ended = <<>>

With(f, x, y) == [z \in DOMAIN f \union {x} |-> IF z = x THEN y ELSE f[z]]

\* ProgressTracker::start. The number is taken before the map is locked: nothing
\* reads the counter of numbers in between.
start(t, kind, total) ==
    [t EXCEPT !.next = @ + 1,
              !.active = With(@, t.next, [kind |-> kind, total |-> total,
                                          attempt |-> 0, bytes |-> 0])]

Monus(a, b) == IF a < b THEN 0 ELSE a - b

\* A retry that leaves the last attempt's bytes counted.
begin_attempt_keeping(t, id) == [t EXCEPT !.active[id].bytes = 0, !.active[id].attempt = @ + 1]

\* begin_attempt: gives the last attempt's bytes back (subtract_saturating) and
\* counts the attempt.
begin_attempt(t, id) ==
    [t EXCEPT !.logical = Monus(@, t.active[id].bytes),
              !.active[id].bytes = 0, !.active[id].attempt = @ + 1]

\* advance: what an attempt sends beyond the declared size is not counted.
advance(t, id, delta) ==
    LET room     == Monus(t.active[id].total, t.active[id].bytes)
        taken == IF delta < room THEN delta ELSE room
    IN
    [t EXCEPT !.active[id].bytes = @ + taken, !.logical = @ + taken, !.wire = @ + taken]

IsFile(kind) == IF kind = "upload" THEN 1 ELSE 0

\* finish: the operation leaves the map, and only then is counted.
finish(t, id, ok) ==
    LET op   == t.active[id]
        rest == Monus(op.total, op.bytes)
        gone == [t EXCEPT !.active = Restrict(@, DOMAIN @ \ {id})]
    IN  IF ok
        THEN [gone EXCEPT !.logical = @ + rest, !.wire = @ + rest,
                          !.completed = @ + 1, !.files = @ + IsFile(op.kind)]
        ELSE [gone EXCEPT !.logical = Monus(@, op.bytes),
                          !.failed = @ + 1, !.badFiles = @ + IsFile(op.kind)]

AsEnded(t, id, ok) == With(ended, id, [ok |-> ok, total |-> t.active[id].total])

Stopped == wiring.cancelled

\* ProgressRenderer::render, render_is_due and the event log's records: written
\* when the event forces it or the interval has passed; a failure is recorded,
\* and an upload's observer then cancels the run (continue_after_progress_event).
Render(forced, observed) ==
    \E due, fails \in BOOLEAN :
        LET lost == fails /\ (forced \/ due)
        IN  /\ screen' = IF screen = "closed" /\ (forced \/ due) /\ ~lost THEN "open" ELSE screen
            /\ wiring' = [wiring EXCEPT !.failure = @ \/ lost,
                          !.cancelled = @ \/ (observed /\ (wiring.failure \/ lost))]

\* observer_factory: an operation is opened for the file that is about to be
\* sent, and logged, which may fail.
UploadOpens(u, size) ==
    /\ wiring.done = "no" /\ ~Stopped /\ up[u] = NoUpload /\ tracker.next <= MaxStarted
    /\ tracker' = start(tracker, "upload", size)
    /\ up' = [up EXCEPT ![u] = [id |-> tracker.next, attempt |-> 0, kind |-> "sending"]]
    /\ \E fails \in BOOLEAN : wiring' = [wiring EXCEPT !.failure = @ \/ fails]
    /\ UNCHANGED <<screen, steps, ended>>

\* The observer's events: the transfer's attempts, its bytes and its end. The
\* attempt the API names must be the one the tracker counted. An observer that
\* answers FALSE aborts the transfer, which then reports Failed.
Observe(u, event) ==
    LET id == up[u].id IN
    /\ up[u].kind # "idle" /\ steps < MaxSteps
    /\ steps' = steps + 1
    /\ \/ /\ event = "attempt" /\ up[u].kind = "sending" /\ ~Stopped
          /\ tracker' = begin_attempt(tracker, id)
          /\ up' = [up EXCEPT ![u].attempt = @ + 1]
          /\ IF tracker'.active[id].attempt # up[u].attempt + 1
             THEN wiring' = [wiring EXCEPT !.failure = TRUE, !.cancelled = TRUE] /\ UNCHANGED screen
             ELSE Render(TRUE, TRUE)
          /\ UNCHANGED ended
       \/ /\ event = "bytes" /\ up[u].attempt > 0 /\ ~Stopped
          /\ \E delta \in 1..2 : tracker' = advance(tracker, id, delta)
          /\ Render(FALSE, TRUE) /\ UNCHANGED <<up, ended>>
       \/ /\ event \in {"completed", "failed"}
          /\ event = "completed" => (up[u].attempt > 0 /\ ~Stopped)
          /\ tracker' = finish(tracker, id, event = "completed")
          /\ ended' = AsEnded(tracker, id, event = "completed")
          /\ up' = [up EXCEPT ![u] = NoUpload]
          /\ Render(TRUE, TRUE)

\* HandleShared::drop: a worker that stops without reporting fails its operation.
UploadDropped(u) ==
    /\ up[u].kind # "idle"
    /\ tracker' = finish(tracker, up[u].id, FALSE)
    /\ ended' = AsEnded(tracker, up[u].id, FALSE)
    /\ up' = [up EXCEPT ![u] = NoUpload]
    /\ UNCHANGED <<wiring, screen, steps>>

\* record_execution_event: deletions, folders and server copies open and close
\* an operation at once; uploads were counted by their observer; what did
\* nothing is not counted.
ExecutionEvent(event) ==
    /\ wiring.done = "no" /\ tracker.next <= MaxStarted
    /\ \E bytes \in IF event = "copied" THEN Sizes ELSE {0} :
        LET begun == start(tracker, IF event = "copied" THEN "upload" ELSE "other", bytes)
        IN  /\ tracker' = finish(begun, tracker.next, TRUE)
            /\ ended' = AsEnded(begun, tracker.next, TRUE)
    /\ Render(TRUE, FALSE)
    /\ UNCHANGED <<up, steps>>

\* ProgressWiring::finish: the line is ended, and a recorded failure becomes the
\* run's error.
WiringFinish ==
    /\ wiring.done = "no" /\ \A u \in Uploaders : up[u] = NoUpload
    /\ screen' = IF screen = "open" THEN "closed" ELSE screen
    /\ wiring' = [wiring EXCEPT !.done = IF wiring.failure THEN "failed" ELSE "ok",
                                !.failure = FALSE]
    /\ UNCHANGED <<tracker, up, steps, ended>>

TrackerNext ==
    \/ \E u \in Uploaders, s \in Sizes : UploadOpens(u, s)
    \/ \E u \in Uploaders, e \in {"attempt", "bytes", "completed", "failed"} : Observe(u, e)
    \/ \E u \in Uploaders : UploadDropped(u)
    \/ \E e \in {"deleted", "created", "copied"} : ExecutionEvent(e)
    \/ WiringFinish

\* The bytes an operation stands for: all of them when it completed, none when it
\* failed, and the place of its attempt while it is active.
Shown ==
    [id \in 1..(tracker.next - 1) |->
        IF id \notin DOMAIN ended THEN tracker.active[id].bytes
        ELSE IF ended[id].ok THEN ended[id].total ELSE 0]

BytesShown == UNION {{id} \X (1..Shown[id]) : id \in DOMAIN Shown}

(* The counters are exact whatever was retried, aborted or dropped: every     *)
(* operation started is active or was counted once, as completed or failed;   *)
(* the bytes shown are those of the operations that completed and the         *)
(* position of each active attempt, no attempt's bytes are left over from a   *)
(* retry, and the wire count is never behind (progress.rs:223-397).           *)
ProgressExact ==
    /\ 1..(tracker.next - 1) = DOMAIN tracker.active \union DOMAIN ended
    /\ DOMAIN tracker.active \intersect DOMAIN ended = {}
    /\ tracker.completed = Cardinality({id \in DOMAIN ended : ended[id].ok})
    /\ tracker.failed = Cardinality({id \in DOMAIN ended : ~ended[id].ok})
    /\ tracker.logical = Cardinality(BytesShown)
    /\ tracker.wire >= tracker.logical

(* The progress a person sees, in the record or on the screen, is so           *)
(* (progress_record.rs:197, progress.rs:278).                                 *)
ProgressTrue == ProgressTruthful /\ ProgressExact
=============================================================================
