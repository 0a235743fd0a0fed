---------------------------- MODULE BridgeServer ----------------------------
(***************************************************************************)
(* The DSM bridge at work (src/src/dsm_api.rs): one CGI process per web    *)
(* request, which checks the request, connects to the service and waits    *)
(* for one answer; the service's accept loop, its bounded queue and its    *)
(* pool of workers; the places a worker may have to wait for (a long poll  *)
(* slot, a manager permit, the shell snapshot that is being built); the    *)
(* consumer that takes up what was queued; and the coalescer that turns    *)
(* many failures into few log records.                                     *)
(*                                                                         *)
(* What a file or a message holds is chosen where the code first looks at  *)
(* it: the body of a POST when the service parses it, the policy when it   *)
(* is loaded, the time since the last failure record when it is compared.  *)
(***************************************************************************)
EXTENDS Integers, Sequences, FiniteSets, FiniteSetsExt, Functions, BridgeRequest, BridgeService

CONSTANTS
    Cgis,              \* the web requests of one behaviour
    Workers,           \* API_WORKER_COUNT threads
    QueueCapacity,     \* API_QUEUE_CAPACITY
    LongPollLimit,     \* API_LONG_POLL_LIMIT
    ManagerLimit,      \* MANAGER_CONCURRENCY_LIMIT
    Requests,          \* what a web server may hand over
    Documents,         \* what the body of a POST may hold
    Policies           \* the security policies that may be in force

ASSUME BridgeAssumption ==
    /\ IsFiniteSet(Workers)
    /\ QueueCapacity \in Nat /\ LongPollLimit \in Nat /\ ManagerLimit \in Nat

ASSUME DocumentsAssumption ==
    Documents \subseteq [op : STRING, kind : STRING, has : SUBSET STRING, bounded : BOOLEAN]

VARIABLES
    cgi,         \* cgi[r]: the process, its request and the answer it gave
    backlog,     \* connections the service has not accepted
    queue,       \* accepted connections no worker has taken
    worker,      \* worker[w]: what it does, for which request
    slots,       \* LONG_POLL_OCCUPANCY
    lane,        \* MANAGER_LANE.occupancy
    build,       \* SHELL_SNAPSHOT_BUILDS: generation, and its outcome once known
    builder,     \* the build thread of the current generation
    jobs,        \* jobs written and not consumed, as their reader will find them
    stored,      \* the verdict of reading back what the consumer stored
    failures     \* the in-service failure coalescer and what reached the log

bridge == <<cgi, backlog, queue, worker, slots, lane, build, builder, jobs, stored, failures>>
vars == <<service, bridge>>

NoRequest == [method |-> "none"]
NoPolicy == [readable |-> FALSE]
NoJob == [readable |-> FALSE]
Free == [st |-> "free", r |-> "none", q |-> NoRequest, ans |-> "none",
         policy |-> NoPolicy, gen |-> 0, since |-> 0]
NoClaim == 0

NoFailures == [tally |-> 0, claimed |-> [w \in Workers |-> 0],
               owed |-> 0, rejected |-> 0]

NoBuild == [gen |-> 0, outcome |-> "none"]

Init ==
    /\ ServiceInit
    /\ cgi = [r \in Cgis |-> [st |-> "idle", req |-> NoRequest]]
    /\ backlog = {} /\ queue = <<>>
    /\ worker = [w \in Workers |-> Free]
    /\ slots = 0 /\ lane = 0
    /\ build = NoBuild /\ builder = "none"
    /\ failures = NoFailures
    /\ jobs = {} /\ stored = "none"

Serving == \E i \in Starts : phase[i] = "open"

-----------------------------------------------------------------------------
(* The CGI process *)

\* run_cgi before it connects: environment, identity, request, session, body.
LocalChecks(q) ==
    Then(process_environment(q),
    Then(validate_package_identity(q.identity),
    Then(validate_http_request(q),
    Then(authenticate_and_authorize_cgi(q.login),
         IF q.method = "POST" THEN read_exact_body(q, q.present) ELSE "ok"))))

\* What of an accepted request the service will look at.
Relayed(q) == [method |-> q.method, action |-> q.action, https |-> q.https]

\* What becomes of every request a web server may hand over.
Checked == {IF LocalChecks(q) = "ok" THEN [ok |-> TRUE, req |-> Relayed(q)]
                                     ELSE [ok |-> FALSE, req |-> NoRequest] : q \in Requests}

End(r) == cgi' = [cgi EXCEPT ![r].st = "done"]

CgiStart(r, c) ==
    /\ cgi[r].st = "idle"
    /\ cgi' = [cgi EXCEPT ![r] = [st |-> IF c.ok THEN "connecting" ELSE "done", req |-> c.req]]
    /\ UNCHANGED <<service, backlog, queue, worker, slots, lane, build, builder, jobs, stored, failures>>

\* connect_for_cgi: a socket that is absent, unopened or deserted is tried
\* again until the window ends; then the request is written whole.
Connect(r) ==
    /\ cgi[r].st = "connecting" /\ Serving
    /\ cgi' = [cgi EXCEPT ![r].st = "sent"]
    /\ backlog' = backlog \cup {r}
    /\ UNCHANGED <<service, queue, worker, slots, lane, build, builder, jobs, stored, failures>>

ConnectWindowEnds(r) ==
    /\ cgi[r].st = "connecting" /\ ~Serving
    /\ cgi' = [cgi EXCEPT ![r] = [st |-> "done", req |-> NoRequest]]
    /\ UNCHANGED <<service, backlog, queue, worker, slots, lane, build, builder, jobs, stored, failures>>

\* RELAY_IO_TIMEOUT: the process stops waiting; what it sent stays wherever
\* the service has it and is carried out all the same.
CgiGivesUp(r) ==
    /\ cgi[r].st = "sent"
    /\ End(r)
    /\ UNCHANGED <<service, backlog, queue, worker, slots, lane, build, builder, jobs, stored, failures>>

-----------------------------------------------------------------------------
(* The coalescers of failures *)

\* Not written, a claim returns to the tally.
GiveBack(f, w) == [f EXCEPT !.tally = @ + f.claimed[w], !.claimed[w] = NoClaim]

\* Every failure is tallied; one outside the window of the last record takes
\* the whole tally away to write it.
Claim(f, w, windowOver) ==
    IF ~windowOver THEN [f EXCEPT !.owed = @ + 1, !.tally = @ + 1]
    ELSE [f EXCEPT !.owed = @ + 1, !.claimed[w] = f.tally + 1, !.tally = 0]

\* The record may be hidden by its level, find the state file locked or be
\* too early for it; it may also be appended and the state file behind it
\* not written: only a confirmed one keeps the claim.
RecordFailure(w, threshold, made, confirmed) ==
    LET appended == made /\ level_visible(threshold, "warn") IN
    /\ failures.claimed[w] # NoClaim
    /\ confirmed => appended
    /\ LET n == failures.claimed[w]
           f == IF appended THEN [failures EXCEPT !.owed = @ - n] ELSE failures
       IN  failures' = IF confirmed THEN [f EXCEPT !.claimed[w] = NoClaim] ELSE GiveBack(f, w)
    /\ UNCHANGED <<service, cgi, backlog, queue, worker, slots, lane, build, builder, jobs, stored>>

\* record_saturated_rejection, by the accept loop alone: the counter is taken
\* and put back when the record was not made.
RecordSaturated(f, windowOver, recorded) ==
    [f EXCEPT !.rejected = IF windowOver /\ recorded THEN 0 ELSE @ + 1]

-----------------------------------------------------------------------------
(* The accept loop and the pool *)

\* A full queue is answered at once, by the accept loop itself.
Accept(r, windowOver, recorded) ==
    /\ Serving /\ r \in backlog
    /\ backlog' = backlog \ {r}
    /\ IF Len(queue) < QueueCapacity
       THEN queue' = Append(queue, r) /\ UNCHANGED <<cgi, failures>>
       ELSE /\ queue' = queue
            /\ IF cgi[r].st = "sent" THEN End(r) ELSE cgi' = cgi
            /\ failures' = RecordSaturated(failures, windowOver, recorded)
    /\ UNCHANGED <<service, worker, slots, lane, build, builder, jobs, stored>>

\* A worker writes out a claim of its own before it goes on.
Ready(w, st) == worker[w].st = st /\ failures.claimed[w] = NoClaim

\* Its frame is whole, or cut by a process that stopped while sending it.
Take(w, frame) ==
    /\ Ready(w, "free") /\ queue # <<>>
    /\ frame # {} => cgi[Head(queue)].st = "done"
    /\ worker' = [worker EXCEPT ![w] =
            IF read_single_frame(frame, "bad_request") = "ok"
            THEN [Free EXCEPT !.st = "received", !.r = Head(queue), !.q = cgi[Head(queue)].req]
            ELSE [Free EXCEPT !.st = "failing", !.r = Head(queue), !.ans = "error"]]
    /\ cgi' = [cgi EXCEPT ![Head(queue)].req = NoRequest]
    /\ queue' = Tail(queue)
    /\ UNCHANGED <<service, backlog, slots, lane, build, builder, jobs, stored, failures>>

\* How a step of a worker ends: with an answer, or with a failure, which a
\* POST that got as far as the policy also leaves in the audit log.
Succeed(w, answer) ==
    worker' = [worker EXCEPT ![w].st = "answer", ![w].ans = answer, ![w].policy = NoPolicy]

Fail(w, error) ==
    worker' = [worker EXCEPT
        ![w].st = IF worker[w].policy # NoPolicy THEN "rejecting" ELSE "failing",
        ![w].ans = "error", ![w].policy = NoPolicy]

Judge(w, verdict, answer) == IF verdict = "ok" THEN Succeed(w, answer) ELSE Fail(w, verdict)

Step(w, st) == worker' = [worker EXCEPT ![w].st = st]

\* record_rejected_post; a record that cannot be made is a failure as well.
RecordRejectedPost(w, audited, windowOver) ==
    /\ Ready(w, "rejecting")
    /\ Step(w, "failing")
    /\ failures' = IF audited THEN failures ELSE Claim(failures, w, windowOver)
    /\ UNCHANGED <<service, cgi, backlog, queue, slots, lane, build, builder, jobs, stored>>

TallyFailure(w, windowOver) ==
    /\ Ready(w, "failing")
    /\ Step(w, "answer")
    /\ failures' = Claim(failures, w, windowOver)
    /\ UNCHANGED <<service, cgi, backlog, queue, slots, lane, build, builder, jobs, stored>>

\* serve_connection's last lines: a peer that went away is one more failure.
Answer(w, windowOver) ==
    /\ Ready(w, "answer")
    /\ worker' = [worker EXCEPT ![w] = Free]
    /\ IF cgi[worker[w].r].st = "sent"
       THEN End(worker[w].r) /\ failures' = failures
       ELSE cgi' = cgi /\ failures' = Claim(failures, w, windowOver)
    /\ UNCHANGED <<service, backlog, queue, slots, lane, build, builder, jobs, stored>>

-----------------------------------------------------------------------------
(* Admission *)

\* A transition of the package first, then the closed marker.
require_open_runtime_admission(transition, closed) ==
    Then(Require(transition # "corrupt", "unsafe_runtime"),
    Then(Require(transition = "open", "unavailable"),
    Then(Require(closed # "corrupt", "unsafe_runtime"),
         Require(closed = "open", "unavailable"))))

Users == {[known |-> TRUE, uid |-> 1, primary |-> "administrators", groups |-> {}],
          [known |-> TRUE, uid |-> 1, primary |-> "users", groups |-> {"users"}]}

Markers == {<<"open", "open">>, <<"upgrade", "open">>, <<"open", "closed">>, <<"corrupt", "open">>}

\* handle_relay_request_under_policy up to the policy: the user may have left
\* the group, the package may be closing, the policy may be unreadable.
Admission(user, marker, policy) ==
    Then(authorize_relayed_username(user),
    Then(require_open_runtime_admission(marker[1], marker[2]),
         Require(policy.readable, "unsafe_runtime")))

\* The policy is kept by a POST, which needs it again; one that wants https
\* refuses anything else.
Admit(w, user, marker, policy) ==
    /\ worker[w].st = "received"
    /\ LET verdict == Admission(user, marker, policy)
           kept == IF worker[w].q.method = "POST" THEN policy ELSE NoPolicy
       IN  worker' = [worker EXCEPT
              ![w].st = CASE verdict # "ok" -> "failing"
                          [] policy.https /\ ~worker[w].q.https ->
                                IF kept = NoPolicy THEN "failing" ELSE "rejecting"
                          [] OTHER -> "admitted",
              ![w].policy = IF verdict = "ok" /\ (policy.https => worker[w].q.https)
                            THEN kept ELSE NoPolicy]
    /\ UNCHANGED <<service, cgi, backlog, queue, slots, lane, build, builder, jobs, stored, failures>>

-----------------------------------------------------------------------------
(* Reads *)

Asks(w, actions) == worker[w].st = "admitted" /\ worker[w].q.method = "GET"
                    /\ worker[w].q.action \in actions

\* Answered on the spot: a fresh token, the state of a request, a directory.
ReadAtOnce(w, verdict) ==
    /\ Asks(w, {"csrf", "request_status", "source_directories", "source_path"})
    /\ Judge(w, verdict, "ok")
    /\ UNCHANGED <<service, cgi, backlog, queue, slots, lane, build, builder, jobs, stored, failures>>

\* completed_result_response, asked before, during and after the wait.
StoredVerdict == IF stored = "unreadable" THEN "unavailable" ELSE "ok"

\* execute_result_action: the response that is there, or a place to wait for
\* it, or what is known now.
ReadResult(w) ==
    /\ Asks(w, {"result"})
    /\ CASE stored # "none"         -> Judge(w, StoredVerdict, "ok") /\ slots' = slots
         [] slots < LongPollLimit   -> Step(w, "polling") /\ slots' = slots + 1
         [] OTHER                   -> Succeed(w, "pending") /\ slots' = slots
    /\ UNCHANGED <<service, cgi, backlog, queue, lane, build, builder, jobs, stored, failures>>

\* Mutant: the place is given back only when the response came.
PollKeepsSlot(w) ==
    /\ worker[w].st = "polling"
    /\ IF stored = "none" THEN Succeed(w, "pending") /\ slots' = slots
                          ELSE Judge(w, StoredVerdict, "ok") /\ slots' = slots - 1
    /\ UNCHANGED <<service, cgi, backlog, queue, lane, build, builder, jobs, stored, failures>>

\* The response appears or the window ends; the place is given back however
\* the wait ended.
PollEnds(w) ==
    /\ worker[w].st = "polling"
    /\ IF stored = "none" THEN Succeed(w, "pending") ELSE Judge(w, StoredVerdict, "ok")
    /\ slots' = slots - 1
    /\ UNCHANGED <<service, cgi, backlog, queue, lane, build, builder, jobs, stored, failures>>

\* execute_read_action: rendered in the service, unless the read lane is
\* forced to the shell.
LadderRead(w, forced, verdict) ==
    /\ Asks(w, {"logs", "activity", "status_rollup", "snapshot"})
    /\ CASE ~forced -> Judge(w, verdict, "ok")
         [] forced /\ worker[w].q.action = "snapshot" -> Step(w, "snapshot")
         [] OTHER -> Step(w, "lane")
    /\ UNCHANGED <<service, cgi, backlog, queue, slots, lane, build, builder, jobs, stored, failures>>

\* ManagerPermit::acquire waits for a place, and for so long only.
AcquirePermit(w) ==
    /\ worker[w].st = "lane" /\ lane < ManagerLimit
    /\ lane' = lane + 1
    /\ Step(w, "manager")
    /\ UNCHANGED <<service, cgi, backlog, queue, slots, build, builder, jobs, stored, failures>>

PermitBusy(w) ==
    /\ worker[w].st = "lane" /\ lane >= ManagerLimit
    /\ Fail(w, "manager_busy")
    /\ UNCHANGED <<service, cgi, backlog, queue, slots, lane, build, builder, jobs, stored, failures>>

\* The manager ran and its document was sanitized, or it did not end well.
ManagerEnds(w, child) ==
    /\ worker[w].st = "manager"
    /\ lane' = lane - 1
    /\ Judge(w, capture_child(child), "ok")
    /\ UNCHANGED <<service, cgi, backlog, queue, slots, build, builder, jobs, stored, failures>>

Children == [output : {"within", "over"}, input : {"taken"}, exits : BOOLEAN, closed : {TRUE}]

-----------------------------------------------------------------------------
(* The shell snapshot: built once for all who wait for it *)

\* Mutant: a finished build is joined too.
BuildUnderWayOrDone == build.gen > 0

BuildUnderWay == build.gen > 0 /\ build.outcome = "none"

Complete == IF build.outcome = "none" /\ build.gen > 0 THEN build.gen - 1 ELSE build.gen

\* A build that is under way is joined; otherwise the next generation starts.
JoinBuild(w) ==
    /\ worker[w].st = "snapshot"
    /\ IF BuildUnderWay
       THEN UNCHANGED <<build, builder>>
       ELSE build' = [gen |-> build.gen + 1, outcome |-> "none"] /\ builder' = "waits"
    /\ worker' = [worker EXCEPT ![w].st = "waiting", ![w].gen = build'.gen, ![w].since = Complete]
    /\ UNCHANGED <<service, cgi, backlog, queue, slots, lane, jobs, stored, failures>>

BuilderAcquires ==
    /\ builder = "waits" /\ lane < ManagerLimit
    /\ lane' = lane + 1 /\ builder' = "runs"
    /\ UNCHANGED <<service, cgi, backlog, queue, worker, slots, build, jobs, stored, failures>>

BuilderBusy ==
    /\ builder = "waits" /\ lane >= ManagerLimit
    /\ builder' = "none" /\ build' = [build EXCEPT !.outcome = "manager_busy"]
    /\ UNCHANGED <<service, cgi, backlog, queue, worker, slots, lane, jobs, stored, failures>>

BuilderEnds(child) ==
    /\ builder = "runs"
    /\ lane' = lane - 1 /\ builder' = "none"
    /\ build' = [build EXCEPT !.outcome = capture_child(child)]
    /\ UNCHANGED <<service, cgi, backlog, queue, worker, slots, jobs, stored, failures>>

\* Woken, a waiter takes the outcome of its generation or follows a newer one.
WaiterWakes(w) ==
    /\ worker[w].st = "waiting"
    /\ \/ worker[w].gen = build.gen /\ build.outcome # "none" /\ Judge(w, build.outcome, "snapshot")
       \/ worker[w].gen # build.gen /\ worker' = [worker EXCEPT ![w].gen = build.gen]
    /\ UNCHANGED <<service, cgi, backlog, queue, slots, lane, build, builder, jobs, stored, failures>>

WaiterTimesOut(w) ==
    /\ worker[w].st = "waiting"
    /\ ~(worker[w].gen = build.gen /\ build.outcome # "none")
    /\ Fail(w, "building")
    /\ UNCHANGED <<service, cgi, backlog, queue, slots, lane, build, builder, jobs, stored, failures>>

-----------------------------------------------------------------------------
(* Mutations *)

\* The clock stands at Now; a token is one this service once gave out.
Now == 5
Skew == 1
Tokens == {[issued |-> 4, expires |-> 6, binding |-> "mine"],
           [issued |-> 4, expires |-> 6, binding |-> "other"],
           [issued |-> 4, expires |-> 7, binding |-> "mine"],
           [issued |-> 2, expires |-> 4, binding |-> "mine"],
           [issued |-> 7, expires |-> 9, binding |-> "mine"]}

\* The job as the consumer will read it: whether it parses, whether what it
\* asks the manager for is within the policy it was accepted under, and
\* whether the secrets beside it come out of their envelope as they went in.
AsJob(d, policy) ==
    [readable |-> parse_job(canonical_job_bytes(d)) = "ok",
     within   |-> d.op = "security-policy" \/ Exercised(d) \subseteq policy.on,
     secrets  |-> d.op \in ConnectionOperations =>
                     decode_connection_secret_envelope(encode_connection_secret_envelope(secret_of(d)))
                        = secret_of(d)]

\* The POST arm of execute_authenticated_request: token, document, policy,
\* then the queue, which may be full or know the request already.
MutationVerdict(policy, token, d) ==
    Then(verify_csrf_token(token, "mine", Now, Skew, policy.lifetime),
    Then(parse_mutation_request(d),
         validate_mutation_against_security_policy(d, policy.on)))

Posted == [policy \in {p \in Policies : p.readable} |->
             {LET verdict == MutationVerdict(policy, token, d) IN
              [verdict |-> verdict, job |-> IF verdict = "ok" THEN AsJob(d, policy) ELSE NoJob] :
                token \in Tokens, d \in Documents}]

Mutate(w, p, outcome) ==
    /\ worker[w].st = "admitted" /\ worker[w].q.method = "POST"
    /\ p \in Posted[worker[w].policy]
    /\ CASE p.verdict # "ok"      -> Fail(w, p.verdict) /\ jobs' = jobs
         [] outcome = "full"      -> Fail(w, "unavailable") /\ jobs' = jobs
         [] outcome = "replayed"  -> Succeed(w, "accepted") /\ jobs' = jobs
         [] OTHER -> /\ jobs' = jobs \cup {p.job}
                     /\ worker' = [worker EXCEPT ![w].st = "waking", ![w].policy = NoPolicy]
    /\ UNCHANGED <<service, cgi, backlog, queue, slots, lane, build, builder, stored, failures>>

\* wake_controller_after_enqueue: it may fail, the job stays queued.
Wake(w, woken, windowOver) ==
    /\ Ready(w, "waking")
    /\ Succeed(w, "accepted")
    /\ failures' = IF woken THEN failures ELSE Claim(failures, w, windowOver)
    /\ UNCHANGED <<service, cgi, backlog, queue, slots, lane, build, builder, jobs, stored>>

Results == {"success", "failed", "connection_result", "not_json", "sensitive", "inconsistent"}

\* What reading back a stored response may find, over everything a manager
\* may answer and every order of the two clock readings; a response that
\* cannot be stated is not stored.
ReadBack ==
    LET responses == {canonical_queued_response_bytes(op, Now, completed, result, FALSE) :
                         op \in Operations, completed \in {Now - 1, Now}, result \in Results}
    IN  {IF parse_queued_response(s) = "ok" THEN "readable" ELSE "unreadable" :
            s \in {x \in responses : x.ok}}

\* The consumer takes a job up and stores its response, or ends without one.
Consume(j, found) ==
    /\ j \in jobs
    /\ jobs' = jobs \ {j}
    /\ stored' = found
    /\ UNCHANGED <<service, cgi, backlog, queue, worker, slots, lane, build, builder, failures>>

-----------------------------------------------------------------------------
(* The service goes *)

\* With the process go its threads, its counters and every connection.
ServiceDies(i) ==
    /\ Kill(i)
    /\ IF phase[i] = "open"
       THEN /\ cgi' = [r \in Cgis |-> IF cgi[r].st \in {"sent", "done"}
                                      THEN [st |-> "done", req |-> NoRequest]
                                      ELSE cgi[r]]
            /\ backlog' = {} /\ queue' = <<>>
            /\ worker' = [w \in Workers |-> Free]
            /\ slots' = 0 /\ lane' = 0
            /\ build' = NoBuild /\ builder' = "none"
            /\ failures' = NoFailures
       ELSE UNCHANGED <<cgi, backlog, queue, worker, slots, lane, build, builder, failures>>
    /\ UNCHANGED <<jobs, stored>>

WorkerStep(w) ==
    \/ \E frame \in {{}, {"short_header"}, {"short_payload"}} : Take(w, frame)
    \/ ReadResult(w) \/ PollEnds(w) \/ AcquirePermit(w) \/ PermitBusy(w)
    \/ JoinBuild(w) \/ WaiterWakes(w) \/ WaiterTimesOut(w)
    \/ \E user \in Users, marker \in Markers, policy \in Policies : Admit(w, user, marker, policy)
    \/ \E verdict \in {"ok", "unavailable"} : ReadAtOnce(w, verdict)
    \/ \E forced \in BOOLEAN, verdict \in {"ok", "unavailable"} : LadderRead(w, forced, verdict)
    \/ \E child \in Children : ManagerEnds(w, child)
    \/ \E p \in UNION {Posted[policy] : policy \in DOMAIN Posted},
          outcome \in {"queued", "replayed", "full"} : Mutate(w, p, outcome)
    \/ \E yes, over \in BOOLEAN : Wake(w, yes, over) \/ RecordRejectedPost(w, yes, over)
    \/ \E over \in BOOLEAN : TallyFailure(w, over) \/ Answer(w, over)
    \/ \E threshold \in {"info", "off"}, made, confirmed \in BOOLEAN : RecordFailure(w, threshold, made, confirmed)

BuilderStep == BuilderAcquires \/ BuilderBusy \/ \E child \in Children : BuilderEnds(child)

AcceptStep == \E r \in Cgis, over, recorded \in BOOLEAN : Accept(r, over, recorded)

Next ==
    \/ \E i \in Starts : LifecycleStep(i) /\ UNCHANGED bridge
    \/ \E i \in Starts : ServiceDies(i)
    \/ \E r \in Cgis : Connect(r) \/ ConnectWindowEnds(r) \/ CgiGivesUp(r) \/ \E c \in Checked : CgiStart(r, c)
    \/ AcceptStep \/ BuilderStep
    \/ \E w \in Workers : WorkerStep(w)
    \/ \E j \in jobs, found \in ReadBack \cup {stored} : Consume(j, found)

Spec == Init /\ [][Next]_vars

-----------------------------------------------------------------------------
(* Properties *)

\* The counters that bound the pool are exact: a long poll slot is taken by
\* each worker that polls and no other, a manager permit by each worker or
\* build that runs the manager, and neither limit is passed.
LanesExact ==
    /\ slots = Cardinality({w \in Workers : worker[w].st = "polling"})
    /\ lane = Cardinality({w \in Workers : worker[w].st = "manager"})
              + (IF builder = "runs" THEN 1 ELSE 0)
    /\ slots <= LongPollLimit /\ lane <= ManagerLimit

\* Coalescing loses no failure: what was seen is in the log, still tallied,
\* or in the hands of a worker that is writing it.  (It may count one twice:
\* appended, then given back because the state file could not be written.)
FailuresNeverLost ==
    failures.owed <= failures.tally + SumFunction(failures.claimed)

\* No place of the pool and no failure leaks, whichever way a request ends
\* (dsm_api.rs:436, 14015, 9158).
NothingLeaks == LanesExact /\ FailuresNeverLost

\* Whatever the service accepted, the consumer can read, secrets included,
\* and asks the manager for nothing the policy withholds; what the consumer
\* stored, the service can read back.
AcceptedReadable ==
    /\ \A j \in jobs : j.readable /\ j.secrets /\ j.within
    /\ stored # "unreadable"

\* A snapshot that is handed out was finished after its reader came: a build
\* is shared by those who wait for it, never with those who come later.
FreshSnapshot ==
    \A w \in Workers : worker[w].ans = "snapshot" => worker[w].gen > worker[w].since

\* What the service hands out or on can be relied upon: a snapshot is as new
\* as its request, a stored request can be read (dsm_api.rs build_snapshot,
\* parse_mutation_request).
AnswersSound == AcceptedReadable /\ FreshSnapshot
=============================================================================
