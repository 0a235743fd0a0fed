------------------------------- MODULE Tasks --------------------------------
(***************************************************************************)
(* Work DSM does in the background for the client, of src/src/api.rs: the  *)
(* MD5 tasks of a digest pass and of uploads being verified, started by    *)
(* several workers through one gate, and the task of a server-side copy.   *)
(* A task outlives the call that started it unless it finishes or is       *)
(* stopped, and any request, the one that stops it included, may be lost.  *)
(***************************************************************************)
EXTENDS Wire

CONSTANTS Workers,     \* the threads of one batch; the first is the caller
          Caller,
          Capacity,    \* REMOTE_MD5_CONCURRENCY, the places of the gate
          BatchSize,   \* REMOTE_MD5_BATCH
          Threshold,   \* DIGEST_BREAKER_THRESHOLD
          Retries,     \* the transport retries of one request
          MaxTaskFaults   \* bound on the requests lost or answered badly

ASSUME TasksAssumption ==
    /\ Caller \in Workers /\ Capacity \in Nat \ {0} /\ BatchSize \in Nat \ {0}
    /\ Threshold \in Nat \ {0} /\ Retries \in Nat /\ MaxTaskFaults \in Nat

VARIABLES job,        \* the selected files or the copy, and what DSM makes of them
          pass,       \* the digest pass: [phase, at, breaker, deferred, result]
          batch,      \* [lo, hi, cursor, slots, first, stopped]
          crew,       \* [worker -> [pc, i, task, tries, r]]
          inUse,      \* TaskGate.in_use
          copy,       \* the copy: [pc, task, r, resent]
          running,    \* the tasks DSM is working on
          copied,     \* what the copy's destination holds
          taskCount, notStopped, cancelled, lost,
          unheard     \* history: tasks whose start no answer named

passVars == <<pass, batch, crew, inUse>>
dsmTaskVars == <<running, copied, taskCount>>
taskVars == <<job, passVars, copy, dsmTaskVars, notStopped, cancelled, lost, unheard>>

NoBatch == [lo |-> 1, hi |-> 0, cursor |-> 1, slots |-> <<>>, first |-> {}, stopped |-> FALSE]
Out == [pc |-> "out", i |-> 0, k |-> 0, task |-> 0, tries |-> 0, r |-> Good("none")]
NewBreaker == [successes |-> 0, failures |-> 0, class |-> "none", consecutive |-> 0]

TasksInit(j) ==
    /\ job = j
    /\ pass = [phase |-> IF j.op = "digests" THEN "strong" ELSE "off", at |-> 1, breaker |-> NewBreaker, deferred |-> <<>>,
               result |-> Good("none")]
    /\ batch = NoBatch /\ inUse = 0
    /\ crew = [w \in Workers |-> IF j.op = "verify" THEN [Out EXCEPT !.pc = "acquire", !.i = 1] ELSE Out]
    /\ copy = [pc |-> IF j.op = "copy" THEN "check" ELSE "off", task |-> 0, r |-> Good("none"), resent |-> FALSE]
    /\ running = {} /\ copied = "none" /\ taskCount = 0 /\ notStopped = 0 /\ cancelled = FALSE /\ lost = 0 /\ unheard = {}

(***************************************************************************)
(* Which errors concern one file.                                          *)
(***************************************************************************)
digest_failure_is_per_file(r) ==
    \/ r.k = "api" /\ (r.code \in {400, 401, 408, 599} \/ r.code >= 1000)
    \/ r.k = "status" /\ r.code \in {404, 410}
    \/ r.k \in {"timed-out", "invalid", "invalid-hash", "content"}

\* 105 is an unreadable file if the session still answers.
digest_failure_scope(r) ==
    IF ApiCode(r) = 105 THEN IF job.sessionGood THEN "unreadable" ELSE "run"
    ELSE IF digest_failure_is_per_file(r) THEN "file" ELSE "run"

digest_cause_class(r) == IF r.k \in {"api", "status"} THEN <<r.k, r.code>> ELSE <<r.k, 0>>

breaker_succeeded_counting(b) == [b EXCEPT !.successes = @ + 1]
breaker_succeeded(b) == [b EXCEPT !.successes = @ + 1, !.class = "none", !.consecutive = 0]

\* An unreadable file and one that is gone say nothing about the NAS.
breaker_failed(b, r) ==
    IF ApiCode(r) \in {105, 408} THEN b
    ELSE LET same == b.class = ToString(digest_cause_class(r))
         IN [b EXCEPT !.class = ToString(digest_cause_class(r)), !.failures = @ + 1, !.consecutive = IF same THEN @ + 1 ELSE 1]
Tripped(b) == b.consecutive >= Threshold \/ (b.successes = 0 /\ b.failures >= Threshold)

(***************************************************************************)
(* The gate.                                                               *)
(***************************************************************************)
slot_drop_leaked == inUse' = inUse
slot_drop == inUse' = inUse - 1

(***************************************************************************)
(* The strong digests: each file's bytes are downloaded, one at a time.    *)
(***************************************************************************)
\* The body is an error in JSON or the file's bytes, all of them.
download_content_fingerprint(answer) ==
    CASE ~ answer.reached -> Fail("http", 0)
      [] ~ answer.status \in 200..299 -> Fail("status", answer.status)
      [] answer.form \in {"failure", "success", "garbled"} ->
            IF IsGood(decode_response_body(answer)) THEN Fail("invalid", 0) ELSE decode_response_body(answer)
      [] answer.form = "html" -> Fail("invalid", 0)
      [] answer.length # "exact" -> Fail("changed", 0)
      [] OTHER -> Good(answer.data)

Lost == [reached |-> FALSE, status |-> 0, length |-> "exact", form |-> "none", code |-> {}, data |-> "none"]
Refusal(code) == [Lost EXCEPT !.reached = TRUE, !.status = 200, !.form = "failure", !.code = {code}]
Success(v) == [Lost EXCEPT !.reached = TRUE, !.status = 200, !.form = "success", !.data = v]
Bytes(f) == [Success(f.digest) EXCEPT !.form = "octets", !.length = f.length]

Selected(strong) == SelectSeq([i \in DOMAIN job.files |-> i], LAMBDA i : job.files[i].strong = strong)
Chosen(k) == job.files[Selected(pass.phase = "strong")[k]]

EndPass(r) == pass' = [pass EXCEPT !.phase = "done", !.result = r]
Deferring == job.mode = "defer-file"

\* A selection names files of the inventory, and nothing else.
CheckedKind(f) == f.kind = "file"

\* One file's download, with its transport retries.
remote_content_fingerprint_retrying(f) ==
    LET own == IF f.code = 0 THEN Bytes(f) ELSE Refusal(f.code)
        first == download_content_fingerprint(own)
    IN {first} \cup (IF lost < MaxTaskFaults THEN {Fail("http", 0)} ELSE {})

populate_remote_content_fingerprints_deferring ==
    /\ pass.phase = "strong" /\ pass.at <= Len(Selected(TRUE)) /\ ~ cancelled /\ Deferring
    /\ LET f == Chosen(pass.at) IN
       IF ~ CheckedKind(f) THEN EndPass(Fail("message", 0)) /\ UNCHANGED lost
       ELSE \E r \in remote_content_fingerprint_retrying(f) :
            /\ lost' = IF r.k = "http" THEN lost + 1 ELSE lost
            /\ IF IsGood(r) THEN pass' = [pass EXCEPT !.at = @ + 1, !.breaker = breaker_succeeded(@)]
               ELSE IF digest_failure_scope(r) = "run" THEN EndPass(r)
               ELSE IF Tripped(breaker_failed(pass.breaker, r)) /\ ApiCode(r) \notin {105, 408} THEN EndPass(Fail("failing", 0))
               ELSE pass' = [pass EXCEPT !.at = @ + 1, !.breaker = breaker_failed(@, r), !.deferred = Append(@, pass.at)]
    /\ UNCHANGED <<job, batch, crew, inUse, copy, dsmTaskVars, notStopped, cancelled, unheard>>

\* Without deferral the first failure ends the pass.
populate_remote_content_fingerprints ==
    /\ pass.phase = "strong" /\ pass.at <= Len(Selected(TRUE)) /\ ~ cancelled /\ ~ Deferring
    /\ LET f == Chosen(pass.at) IN
       IF ~ CheckedKind(f) THEN EndPass(Fail("message", 0)) /\ UNCHANGED lost
       ELSE \E r \in remote_content_fingerprint_retrying(f) :
            /\ lost' = IF r.k = "http" THEN lost + 1 ELSE lost
            /\ IF IsGood(r) THEN pass' = [pass EXCEPT !.at = @ + 1] ELSE EndPass(r)
    /\ UNCHANGED <<job, batch, crew, inUse, copy, dsmTaskVars, notStopped, cancelled, unheard>>

\* The strong files done, the others are compared by MD5, with a breaker of
\* their own.
populate_remote_content_digests ==
    /\ pass.phase = "strong" /\ pass.at > Len(Selected(TRUE))
    /\ pass' = [pass EXCEPT !.phase = "md5", !.at = 1, !.breaker = NewBreaker]
    /\ UNCHANGED <<job, batch, crew, inUse, copy, dsmTaskVars, notStopped, cancelled, lost, unheard>>

(***************************************************************************)
(* The MD5 digests: batches of files, each drained by several workers.     *)
(***************************************************************************)
InPass == pass.phase \in {"strong", "md5"} /\ \A w \in Workers : crew[w].pc = "out"
Slots(n) == [i \in 1..n |-> {}]

PassCancelled ==
    /\ InPass /\ batch = NoBatch /\ cancelled
    /\ EndPass(Fail("cancelled", 0))
    /\ UNCHANGED <<job, batch, crew, inUse, copy, dsmTaskVars, notStopped, cancelled, lost, unheard>>

\* A thread that cannot be spawned is done without; the caller always drains.
BeginBatch ==
    /\ pass.phase = "md5" /\ InPass /\ batch = NoBatch /\ ~ cancelled
    /\ LET all == Selected(FALSE)
           hi == IF pass.at + BatchSize - 1 < Len(all) THEN pass.at + BatchSize - 1 ELSE Len(all)
       IN IF pass.at > Len(all) THEN EndPass(Good("all")) /\ UNCHANGED <<batch, crew>>
          ELSE IF \E k \in pass.at..hi : ~ CheckedKind(Chosen(k)) THEN EndPass(Fail("message", 0)) /\ UNCHANGED <<batch, crew>>
          ELSE /\ batch' = [NoBatch EXCEPT !.lo = pass.at, !.hi = hi, !.cursor = pass.at, !.slots = Slots(hi - pass.at + 1)]
               /\ \E hands \in SUBSET Workers :
                    /\ Caller \in hands
                    /\ Cardinality(hands) <= hi - pass.at + 1 /\ Cardinality(hands) <= Capacity
                    /\ crew' = [w \in Workers |-> IF w \in hands THEN [Out EXCEPT !.pc = "take"] ELSE Out]
               /\ UNCHANGED pass
    /\ UNCHANGED <<job, inUse, copy, dsmTaskVars, notStopped, cancelled, lost, unheard>>

Stopping == batch.stopped \/ cancelled
Return(w, r) == crew' = [crew EXCEPT ![w].pc = "report", ![w].r = r]

Take(w) ==
    /\ crew[w].pc = "take"
    /\ IF Stopping THEN crew' = [crew EXCEPT ![w] = Out] /\ UNCHANGED batch
       ELSE /\ batch' = [batch EXCEPT !.cursor = @ + 1]
            /\ crew' = [crew EXCEPT ![w] = IF batch.cursor > batch.hi THEN Out
                                           ELSE [Out EXCEPT !.pc = "acquire", !.k = batch.cursor, !.i = Selected(FALSE)[batch.cursor]]]
    /\ UNCHANGED <<job, pass, inUse, copy, dsmTaskVars, notStopped, cancelled, lost, unheard>>

\* A full gate is waited for, and left when the work is cancelled.
Acquire(w) ==
    /\ crew[w].pc = "acquire"
    /\ \/ inUse < Capacity /\ inUse' = inUse + 1 /\ crew' = [crew EXCEPT ![w].pc = "start"]
       \/ inUse >= Capacity /\ Stopping /\ Return(w, Fail("cancelled", 0)) /\ UNCHANGED inUse
    /\ UNCHANGED <<job, pass, batch, copy, dsmTaskVars, notStopped, cancelled, lost, unheard>>

NewTask == taskCount + 1
Began == running' = running \cup {NewTask} /\ taskCount' = NewTask

\* The answers to a start request: DSM's, none, or one that names no task: a
\* success without a valid id (validate_task_id), or what cannot be read.
Unnamed == [Lost EXCEPT !.reached = TRUE, !.status = 200, !.form = "garbled"]
Said(answer) == answer.form \in {"success", "failure"}
StartAnswers(code) == {IF code = 0 THEN Success(NewTask) ELSE Refusal(code)} \cup (IF lost < MaxTaskFaults THEN {Lost, Unnamed} ELSE {})

Start(w) ==
    /\ crew[w].pc = "start"
    /\ LET f == job.files[crew[w].i] IN
       \E answer \in StartAnswers(f.startCode), done \in BOOLEAN :
         LET r == send_attempt(answer, {}) IN
         /\ done => f.startCode = 0                    \* DSM began it, whether or not it can say so
         /\ Said(answer) => (done <=> f.startCode = 0)
         /\ IF done THEN Began ELSE UNCHANGED <<running, taskCount>>
         /\ unheard' = IF done /\ ~ Said(answer) THEN unheard \cup {NewTask} ELSE unheard
         /\ lost' = IF Said(answer) THEN lost ELSE lost + 1
         /\ IF IsGood(r) THEN crew' = [crew EXCEPT ![w].pc = "poll", ![w].task = NewTask] /\ UNCHANGED inUse
            ELSE IF retryable(r) /\ crew[w].tries < Retries THEN crew' = [crew EXCEPT ![w].tries = @ + 1] /\ UNCHANGED inUse
            ELSE Return(w, r) /\ slot_drop
    /\ UNCHANGED <<job, pass, batch, copy, copied, notStopped, cancelled>>

GiveUp(w, r) == crew' = [crew EXCEPT ![w].pc = "stop", ![w].r = r] /\ UNCHANGED inUse

ParseHex(digest) == IF digest = "hex" THEN Good("hex") ELSE IF digest = "none" THEN Fail("invalid", 0) ELSE Fail("invalid-hash", 0)

\* remote_content_md5's loop: cancelled, out of time, or one status request.
Poll(w) ==
    /\ crew[w].pc = "poll"
    /\ LET f == job.files[crew[w].i] IN
       \/ Stopping /\ GiveUp(w, Fail("cancelled", 0)) /\ UNCHANGED lost
       \/ ~ Stopping /\ lost < MaxTaskFaults /\ lost' = lost + 1 /\ \E k \in {"timed-out", "http"} : GiveUp(w, Fail(k, 0))
       \/ ~ Stopping /\ f.code # 0 /\ GiveUp(w, Fail("api", f.code)) /\ UNCHANGED lost
       \/ ~ Stopping /\ f.code = 0 /\ crew[w].task \notin running /\ Return(w, ParseHex(f.digest)) /\ slot_drop /\ UNCHANGED lost
    /\ UNCHANGED <<job, pass, batch, copy, dsmTaskVars, notStopped, cancelled, unheard>>

\* stop_task: one request, itself possibly lost on the way there or back; a
\* task that may go on running is counted.
stop_task_uncounted(task) ==
    \/ running' = running \ {task} /\ UNCHANGED <<notStopped, lost>>
    \/ /\ lost < MaxTaskFaults /\ lost' = lost + 1 /\ UNCHANGED notStopped
       /\ running' \in {running, running \ {task}}
stop_task(task) ==
    \/ running' = running \ {task} /\ UNCHANGED <<notStopped, lost>>
    \/ /\ lost < MaxTaskFaults /\ lost' = lost + 1 /\ notStopped' = notStopped + 1
       /\ running' \in {running, running \ {task}}

Stop(w) ==
    /\ crew[w].pc = "stop"
    /\ stop_task(crew[w].task)
    /\ crew' = [crew EXCEPT ![w].pc = "report"] /\ slot_drop
    /\ UNCHANGED <<job, pass, batch, copy, copied, taskCount, cancelled, unheard>>

\* A worker whose file was cancelled by another's fatal error goes quietly.
Report(w) ==
    /\ crew[w].pc = "report"
    /\ LET r == crew[w].r
           fatal == ~ IsGood(r) /\ (r.k = "cancelled" \/ ~ Deferring \/ digest_failure_scope(r) = "run")
       IN IF job.op = "verify" THEN crew' = [crew EXCEPT ![w] = [Out EXCEPT !.r = r]] /\ UNCHANGED batch
          ELSE IF r.k = "cancelled" /\ ~ cancelled THEN crew' = [crew EXCEPT ![w] = Out] /\ UNCHANGED batch
          ELSE IF fatal THEN /\ crew' = [crew EXCEPT ![w] = Out]
                             /\ batch' = [batch EXCEPT !.first = IF @ = {} THEN {r} ELSE @, !.stopped = TRUE]
          ELSE /\ crew' = [crew EXCEPT ![w] = [Out EXCEPT !.pc = "take"]]
               /\ batch' = [batch EXCEPT !.slots[crew[w].k - batch.lo + 1] = {r}]
    /\ UNCHANGED <<job, pass, inUse, copy, dsmTaskVars, notStopped, cancelled, lost, unheard>>

\* The batch's results are counted in the order of the selection.
CountedInOrder(p, slots) ==
    FoldLeft(LAMBDA q, k :
        LET r == CHOOSE x \in slots[k] : TRUE IN
        IF q.phase = "done" THEN q
        ELSE IF IsGood(r) THEN [q EXCEPT !.breaker = breaker_succeeded(@)]
        ELSE IF ApiCode(r) \notin {105, 408} /\ Tripped(breaker_failed(q.breaker, r))
             THEN [q EXCEPT !.phase = "done", !.result = Fail("failing", 0)]
        ELSE [q EXCEPT !.breaker = breaker_failed(@, r), !.deferred = Append(@, Len(Selected(TRUE)) + batch.lo + k - 1)],
        p, [k \in DOMAIN slots |-> k])

EndBatch ==
    /\ batch # NoBatch /\ InPass
    /\ pass' = IF batch.first # {} THEN [pass EXCEPT !.phase = "done", !.result = CHOOSE r \in batch.first : TRUE]
               ELSE IF cancelled THEN [pass EXCEPT !.phase = "done", !.result = Fail("cancelled", 0)]
               ELSE IF \E k \in DOMAIN batch.slots : batch.slots[k] = {} THEN [pass EXCEPT !.phase = "done", !.result = Fail("missing", 0)]
               ELSE [CountedInOrder(pass, batch.slots) EXCEPT !.at = batch.hi + 1]
    /\ batch' = NoBatch
    /\ UNCHANGED <<job, crew, inUse, copy, dsmTaskVars, notStopped, cancelled, lost, unheard>>

(***************************************************************************)
(* The server-side copy.                                                   *)
(***************************************************************************)
\* Only an answer that says so proves that nothing was started.
copy_start_error(r) ==
    IF r.k \in {"missing-api", "version"} \/ ApiCode(r) \in {102, 103, 104, 105, 407, 409} THEN Fail("not-started", 0) ELSE r

copy_status_reports_failed_task(r) == r.k = "api" /\ r.code \in (1000..1007) \cup {414, 415, 416, 418}

CopyEnds(r) == copy' = [copy EXCEPT !.pc = "done", !.r = r]

\* Source and destination are strict children of the root with one name, and
\* no part of the source before a comma names something else.
CopyCheck ==
    /\ copy.pc = "check"
    /\ IF job.api # "ok" THEN CopyEnds(copy_start_error(Fail(job.api, 0)))
       ELSE IF ~ job.targets THEN CopyEnds(Fail("unsafe", 0))
       ELSE IF ~ job.sameName THEN CopyEnds(Fail("message", 0))
       ELSE IF job.comma THEN CopyEnds(Fail("not-started", 0))
       ELSE IF cancelled THEN CopyEnds(Fail("cancelled", 0)) ELSE copy' = [copy EXCEPT !.pc = "start"]
    /\ UNCHANGED <<job, passVars, dsmTaskVars, notStopped, cancelled, lost, unheard>>

\* Sent once; a session that was refused is renewed and the request sent a
\* second time, DSM having done nothing about the first.
CopyRenewed ==
    /\ copy.pc = "start" /\ ~ copy.resent /\ lost < MaxTaskFaults
    /\ copy' = [copy EXCEPT !.resent = TRUE] /\ lost' = lost + 1
    /\ UNCHANGED <<job, passVars, dsmTaskVars, notStopped, cancelled, unheard>>

CopyStart ==
    /\ copy.pc = "start"
    /\ \E answer \in StartAnswers(job.startCode) \cup (IF lost < MaxTaskFaults THEN {[Lost EXCEPT !.reached = TRUE, !.status = 502]} ELSE {}),
          done \in BOOLEAN :
         LET r == send_attempt(answer, {}) IN
         /\ done => job.startCode = 0
         /\ Said(answer) => (done <=> job.startCode = 0)
         /\ IF done THEN Began ELSE UNCHANGED <<running, taskCount>>
         /\ unheard' = IF done /\ ~ Said(answer) THEN unheard \cup {NewTask} ELSE unheard
         /\ lost' = IF Said(answer) THEN lost ELSE lost + 1
         /\ IF IsGood(r) THEN copy' = [copy EXCEPT !.pc = "poll", !.task = NewTask] ELSE CopyEnds(copy_start_error(r))
    /\ UNCHANGED <<job, passVars, copied, notStopped, cancelled>>

CopyGiveUp(r) == copy' = [copy EXCEPT !.pc = "stop", !.r = r]
CopyPoll ==
    /\ copy.pc = "poll"
    /\ \/ cancelled /\ CopyGiveUp(Fail("cancelled", 0)) /\ UNCHANGED lost
       \/ /\ ~ cancelled /\ lost < MaxTaskFaults /\ lost' = lost + 1
          /\ \E k \in {"timed-out", "http", "invalid"} : CopyGiveUp(Fail(k, 0))
       \/ /\ ~ cancelled /\ copy.task \notin running /\ UNCHANGED lost
          /\ IF copy_status_reports_failed_task(Fail("api", job.statusCode)) THEN CopyEnds(Fail("copy-failed", 0))
             ELSE IF job.statusCode # 0 THEN CopyGiveUp(Fail("api", job.statusCode))
             ELSE IF job.errs THEN CopyEnds(Fail("copy-failed", 0)) ELSE copy' = [copy EXCEPT !.pc = "verify"]
    /\ UNCHANGED <<job, passVars, dsmTaskVars, notStopped, cancelled, unheard>>

CopyStop ==
    /\ copy.pc = "stop"
    /\ stop_task(copy.task)
    /\ copy' = [copy EXCEPT !.pc = "done"]
    /\ UNCHANGED <<job, passVars, copied, taskCount, cancelled, unheard>>

\* What get_info says of the destination now: its size, if it is a file.
remote_file_facts == IF copied = "none" THEN {} ELSE {copied}
\* The size first, then every byte, against a digest that proves the whole.
remote_content_matches == job.fullProof /\ remote_file_facts # {} /\ copied = "expected"

verify_remote_content ==
    /\ copy.pc = "verify"
    /\ IF cancelled THEN CopyEnds(Fail("cancelled", 0)) /\ UNCHANGED lost
       ELSE \/ CopyEnds(IF remote_content_matches THEN Good("copied") ELSE Fail("content", 0)) /\ UNCHANGED lost
            \/ lost < MaxTaskFaults /\ lost' = lost + 1 /\ CopyEnds(Fail("http", 0))
    /\ UNCHANGED <<job, passVars, dsmTaskVars, notStopped, cancelled, unheard>>

(***************************************************************************)
(* DSM and the user.                                                       *)
(***************************************************************************)
TaskEnds(t) ==
    /\ t \in running
    /\ running' = running \ {t}
    /\ copied' = IF job.op = "copy" /\ job.statusCode = 0 /\ ~ job.errs THEN job.source ELSE copied
    /\ UNCHANGED <<job, passVars, copy, taskCount, notStopped, cancelled, lost, unheard>>

CancelTasks ==
    /\ ~ cancelled /\ job.mayCancel
    /\ cancelled' = TRUE
    /\ UNCHANGED <<job, passVars, copy, dsmTaskVars, notStopped, lost, unheard>>

WorkerStep(w) == Take(w) \/ Acquire(w) \/ Start(w) \/ Poll(w) \/ Stop(w) \/ Report(w)
PassStep ==
    \/ populate_remote_content_fingerprints_deferring \/ populate_remote_content_fingerprints \/ populate_remote_content_digests
    \/ PassCancelled \/ BeginBatch \/ EndBatch
CopyStep == CopyCheck \/ CopyStart \/ CopyPoll \/ CopyStop \/ verify_remote_content
TasksNext == PassStep \/ (\E w \in Workers : WorkerStep(w)) \/ CopyStep \/ CopyRenewed \/ (\E t \in running : TaskEnds(t)) \/ CancelTasks

(***************************************************************************)
(* Properties.                                                             *)
(***************************************************************************)
Held == {crew[w].task : w \in {v \in Workers : crew[v].pc \in {"poll", "stop"}}}
        \cup (IF copy.pc \in {"poll", "stop"} THEN {copy.task} ELSE {})

\* Every task DSM goes on running without a call that watches it was either
\* started by a request whose answer never came or named no task, or is counted in
\* server_tasks_not_stopped, whatever was lost, cancelled or out of time
\* (api.rs stop_task, remote_content_md5, copy_file_verified).
TasksCounted == Cardinality(running \ (Held \cup unheard)) <= notStopped

\* A copy reported as not started has no task behind it, so the upload made
\* in its place races nothing (api.rs copy_start_error).
NotStartedIsNothing == copy.pc = "done" /\ copy.r.k = "not-started" => running = {} /\ copied = "none"

\* DSM is left with no task that the run does not know of (api.rs:2218).
TasksAccounted == TasksCounted /\ NotStartedIsNothing

\* The errors a file's own nature gives it, in the order of the selection.
OwnError(f) ==
    IF f.strong THEN download_content_fingerprint(IF f.code = 0 THEN Bytes(f) ELSE Refusal(f.code))
    ELSE IF f.startCode # 0 THEN Fail("api", f.startCode) ELSE IF f.code # 0 THEN Fail("api", f.code) ELSE ParseHex(f.digest)
Errors(strong) == [k \in DOMAIN Selected(strong) |-> OwnError(job.files[Selected(strong)[k]])]
Counts(e) == ~ IsGood(e) /\ ApiCode(e) \notin {105, 408}
\* Some file is the third failure of one cause with no success between, or
\* the third failure of any cause with no success before.
TripsAt(errs, k) ==
    LET failed == {j \in 1..k : Counts(errs[j])}
        since == {j \in failed : \A i \in j..k : ~ IsGood(errs[i])}
        run == {j \in since : \A i \in since : i >= j => digest_cause_class(errs[i]) = digest_cause_class(errs[k])}
    IN Counts(errs[k]) /\ (Cardinality(run) >= Threshold \/ (Cardinality(failed) >= Threshold /\ \A j \in 1..k : ~ IsGood(errs[j])))
FatalIn(errs, S) == \E k \in S : ~ IsGood(errs[k]) /\ (~ Deferring \/ digest_failure_scope(errs[k]) = "run")
\* What a pass of these errors comes to, one file or one batch at a time.
PassVerdict(errs, size) ==
    LET trips == {k \in DOMAIN errs : Deferring /\ TripsAt(errs, k)}
        Earlier(k) == {j \in DOMAIN errs : (j - 1) \div size <= (k - 1) \div size}
    IN IF \E k \in trips : ~ FatalIn(errs, Earlier(k)) THEN "failing" ELSE IF FatalIn(errs, DOMAIN errs) THEN "failed" ELSE "ok"

\* A digest pass comes to one verdict, whichever worker reports first: three
\* failures in the order of the selection stop it, never three in the order
\* the workers met them, and no file of a finished batch is without an answer
\* (api.rs populate_remote_content_md5_with, DigestBreaker).
VerdictInOrder ==
    (pass.phase = "done" /\ lost = 0 /\ ~ cancelled /\ \A i \in DOMAIN job.files : job.files[i].kind = "file") =>
        LET strong == PassVerdict(Errors(TRUE), 1)
            verdict == IF strong # "ok" THEN strong ELSE PassVerdict(Errors(FALSE), BatchSize)
        IN /\ verdict = "failing" <=> pass.result.k = "failing"
           /\ verdict = "ok" <=> IsGood(pass.result)
           /\ pass.result.k # "missing"

\* Every digest asked for ends, in a pass or of an upload being verified: a
\* place at the gate is given up by every call that took one, and no worker
\* waits for ever (api.rs TaskGate).
DigestsEnd == <>[](inUse = 0 /\ pass.phase \in {"off", "done"} /\ \A w \in Workers : crew[w].pc = "out")
=============================================================================
