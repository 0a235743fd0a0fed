------------------------------ MODULE JobQueue ------------------------------
(***************************************************************************)
(* The DSM bridge's job queue (src/src/dsm_api.rs): a mutation accepted by *)
(* the bridge service becomes a job file in requests/, the package         *)
(* controller moves it to processing/ and starts a consumer for it, the    *)
(* consumer runs the manager and publishes responses/ID.json.  Beside the  *)
(* job runs an audit transaction: a record in the outbox directory whose   *)
(* phase is advanced under the outbox lock and whose verdict is appended   *)
(* to the audit log.                                                       *)
(*                                                                         *)
(* Actors: the service (one enqueue at a time, the enqueue flock), the     *)
(* controller's primary turn and the auxiliary turn nested in its wait,    *)
(* one consumer per turn, whoever reconciles the outbox (enqueue, result   *)
(* poll, controller), and a client polling for a result.  Steps under one  *)
(* lock are one action unless another actor can be seen in between; the    *)
(* directories are only ever read one at a time.  Any process can be       *)
(* killed, and the machine can be restarted; files stay.                   *)
(*                                                                         *)
(* A transaction is identified with its job.  File ages are left out: jobs *)
(* and responses are younger than their retention.                         *)
(***************************************************************************)
EXTENDS Naturals, Sequences, FiniteSets, FiniteSetsExt

CONSTANTS
    Keys,            \* client request ids (with their session binding)
    Bodies,          \* request fingerprints
    Connection,      \* the keys that ask for a connection probe
    Concurrent,      \* the keys whose operation commits no configuration
    Secretful,       \* the keys whose mutation carries a secret
    MaxJobs,         \* bound on the jobs published
    MaxOutstanding,  \* maximum_outstanding_jobs of the security policy
    Polled,          \* the jobs a client polls for
    MaxFaults        \* bound on crashes, failed appends, links and claims

Jobs == 1..MaxJobs
Slots == {"primary", "aux"}

ASSUME JobQueueAssumption ==
    /\ MaxJobs \in Nat \ {0} /\ MaxOutstanding \in Nat \ {0} /\ MaxFaults \in Nat
    /\ Connection \subseteq Keys /\ Concurrent \subseteq Keys \ Connection
    /\ Secretful \subseteq Keys /\ Polled \subseteq Jobs

(* queued_job_class of the operation a key asks for.                       *)
Class == [k \in Keys |-> IF k \in Connection THEN "connection"
                         ELSE IF k \in Concurrent THEN "concurrent" ELSE "serialized"]

VARIABLES
    closed,      \* a lifecycle marker (closed, upgrade, uninstall) is present
    seq,         \* the persisted enqueue sequence
    job,         \* job[j]: the immutable job document
    staging,     \* temporaries in staging/, <<j, kind>>
    requests, processing,  \* job files
    secrets,     \* secret files, <<directory, j>>
    responses,   \* responses[j]: the published result
    outbox,      \* outbox[j]: the audit transaction's record
    log,         \* the audit log, <<j, event>>
    enq,         \* the enqueue in progress in the service
    gen,         \* the service's process identity
    ctl,         \* the controller's turns
    con,         \* the consumers
    rec,         \* the holder of the outbox lock while it reconciles
    poll,        \* a client's result poll
    effect,      \* what the manager really did for the job
    died,        \* jobs whose consumer was killed after the manager started
    faults

files == <<staging, requests, processing, secrets, responses>>
audit == <<outbox, log>>
vars == <<closed, seq, job, staging, requests, processing, secrets, responses, outbox, log,
          enq, gen, ctl, con, rec, poll, effect, died, faults>>

Terminal == {"succeeded", "failed", "unknown"}
Nobody == <<"nobody", 0>>
NoRecord == [phase |-> "none", owner |-> Nobody]
NoResponse == [st |-> "none", pending |-> FALSE]
NoJob == [key |-> "none", body |-> "none"]
Idle == [pc |-> "idle", j |-> 0]
IdleEnq == [pc |-> "idle", j |-> 0, key |-> "none", body |-> "none", before |-> {}, scans |-> 0]
IdleCon == [pc |-> "idle", j |-> 0, v |-> "none", pending |-> FALSE]
IdleRec == [by |-> "nobody", todo |-> {}, look |-> 1]
IdlePoll == [step |-> 0, j |-> 0, kind |-> "none", names |-> {}, answer |-> "none"]

Init ==
    /\ closed = FALSE /\ seq = 0 /\ gen = 0 /\ faults = 0
    /\ job = [j \in Jobs |-> NoJob]
    /\ staging = {} /\ requests = {} /\ processing = {} /\ secrets = {}
    /\ responses = [j \in Jobs |-> NoResponse]
    /\ outbox = [j \in Jobs |-> NoRecord]
    /\ log = {}
    /\ enq = IdleEnq /\ rec = IdleRec /\ poll = IdlePoll
    /\ ctl = [s \in Slots |-> Idle] /\ con = [s \in Slots |-> IdleCon]
    /\ effect = [j \in Jobs |-> "none"]
    /\ died = {}

Fault == faults < MaxFaults /\ faults' = faults + 1
NoFault == UNCHANGED faults
Published(j) == job[j] # NoJob
Responded(j) == responses[j].st # "none"
Active(j) == j \in requests \/ j \in processing

-----------------------------------------------------------------------------
(* The audit outbox.  Records are written, read and removed under its lock. *)

OutboxFree == rec.by = "nobody"

Owned(j) ==
    LET o == outbox[j].owner IN
    CASE o[1] = "service"    -> o[2] = gen
      [] o[1] = "consumer"   -> \E s \in Slots : con[s].pc # "idle" /\ con[s].j = j
      [] o[1] = "controller" -> \E s \in Slots : ctl[s].pc \in {"fail_close", "fail_answer"} /\ ctl[s].j = j
      [] OTHER -> FALSE

(* mark_response_audit_reconciled: the rewritten response replaces the     *)
(* published one, which must have no second name in staging/.              *)
MarkFails(j) == responses[j].pending /\ <<j, "response">> \in staging
Marked(j) == [responses EXCEPT ![j].pending = FALSE]

(* Append the two events, mark the response, drop the record.  An append   *)
(* that fails leaves the terminal record for a later reconciliation; a     *)
(* response that cannot be marked leaves it with the events appended.      *)
Settle(j, phase, result) ==
    \/ /\ result = "failed_append" /\ Fault
       /\ outbox' = [outbox EXCEPT ![j].phase = phase]
       /\ UNCHANGED <<log, responses>>
    \/ /\ result = "error" /\ MarkFails(j) /\ NoFault
       /\ outbox' = [outbox EXCEPT ![j].phase = phase]
       /\ log' = log \cup {<<j, "requested">>, <<j, phase>>}
       /\ UNCHANGED responses
    \/ /\ result = "settled" /\ ~MarkFails(j) /\ NoFault
       /\ outbox' = [outbox EXCEPT ![j] = NoRecord]
       /\ log' = log \cup {<<j, "requested">>, <<j, phase>>}
       /\ responses' = Marked(j)

(* audit_transaction_begin: Prepared, the "requested" event, Publishing.   *)
(* A failed append or ready write terminalizes the known failure at once.  *)
AuditBegin(j, ok) ==
    \/ /\ ok /\ NoFault
       /\ outbox' = [outbox EXCEPT ![j] = [phase |-> "publishing", owner |-> <<"service", gen>>]]
       /\ log' = log \cup {<<j, "requested">>}
    \/ /\ ~ok /\ Fault
       /\ \/ /\ outbox' = [outbox EXCEPT ![j] = [phase |-> "failed", owner |-> <<"service", gen>>]]
             /\ log' \in {log, log \cup {<<j, "requested">>}}
          \/ /\ UNCHANGED outbox
             /\ log' = log \cup {<<j, "requested">>, <<j, "failed">>}

MayComplete(j, terminal, who) ==
    \/ outbox[j].phase \in {"executing", terminal}
    \/ terminal = "failed" /\ outbox[j].phase = "prepared"
    \/ terminal = "failed" /\ outbox[j].phase = "publishing" /\ outbox[j].owner = who
         /\ ~Active(j) /\ ~Responded(j)

(* audit_transaction_complete; `pending` is its Ok(true) and, through      *)
(* terminalize_consume_result, its errors too: a busy lock, a record that  *)
(* cannot be written or must not be completed.                             *)
AuditComplete(j, terminal, who, pending) ==
    IF MayComplete(j, terminal, who)
    THEN \/ \E r \in {"settled", "failed_append", "error"} :
               Settle(j, terminal, r) /\ pending = (r # "settled")
         \/ pending /\ Fault /\ UNCHANGED <<outbox, log, responses>>
    ELSE pending /\ NoFault /\ UNCHANGED <<outbox, log, responses>>

(* claim_queued_audit_transaction *)
MayClaim(j) == outbox[j].phase \in {"publishing", "queued"} /\ Active(j)
AuditClaim(j, who) == outbox' = [outbox EXCEPT ![j] = [phase |-> "executing", owner |-> who]]

(* bridge_job_state reads the active names first and the response last.    *)
LookOrder == <<"requests", "processing", "responses">>
Sees(dir, j) ==
    CASE dir = "requests"   -> j \in requests
      [] dir = "processing" -> j \in processing
      [] OTHER              -> Responded(j)

\* Mutant: a queued job that disappeared counts as started.
ReconciledPhaseUnknown(j, dir) ==
    LET phase == outbox[j].phase IN
    IF phase \in Terminal THEN phase
    ELSE IF phase = "prepared" THEN IF Owned(j) THEN "skip" ELSE "failed"
    ELSE IF dir = "responses" THEN responses[j].st
    ELSE IF phase \in {"publishing", "queued"} /\ dir # "nowhere" THEN "queued"
    ELSE IF Owned(j) THEN "skip"
    ELSE IF phase = "publishing" THEN "failed" ELSE "unknown"

(* The new phase of a record whose job was seen in `dir` ("nowhere" if in  *)
(* none), or "skip".                                                       *)
ReconciledPhase(j, dir) ==
    LET phase == outbox[j].phase IN
    IF phase \in Terminal THEN phase
    ELSE IF phase = "prepared" THEN IF Owned(j) THEN "skip" ELSE "failed"
    ELSE IF dir = "responses" THEN responses[j].st
    ELSE IF phase \in {"publishing", "queued"} /\ dir # "nowhere" THEN "queued"
    ELSE IF phase = "queued" THEN "failed"
    ELSE IF Owned(j) THEN "skip"
    ELSE IF phase = "publishing" THEN "failed" ELSE "unknown"

(* The enqueue returns: accepted, existing, conflict or an error.           *)
Answer(outcome) == IdleEnq

(* reconcile_audit_transactions, from the lock to the last record.         *)
ReconcileBegin(by) ==
    /\ OutboxFree
    /\ rec' = [by |-> by, todo |-> {j \in Jobs : outbox[j].phase # "none"}, look |-> 1]

(* The sweep's caller goes on: an enqueue or a turn, or gives up.          *)
ReconcileReturn(ok) ==
    /\ rec' = IdleRec
    /\ enq' = IF rec.by # "service" THEN enq
              ELSE IF ok THEN [enq EXCEPT !.pc = "recover"]
                         ELSE Answer("error")
    /\ ctl' = [s \in Slots |-> IF rec.by # s THEN ctl[s]
                               ELSE [ctl[s] EXCEPT !.pc = IF ok THEN "claim" ELSE "idle"]]

ReconcileDone ==
    /\ rec.by # "nobody" /\ rec.todo = {}
    /\ ReconcileReturn(TRUE)
    /\ UNCHANGED <<closed, seq, job, files, audit, gen, con, poll, effect, died, faults>>

ReconcileRecord ==
    /\ rec.todo # {}
    /\ LET j == Min(rec.todo)
           seen == outbox[j].phase \in Terminal \cup {"prepared"} \/ Sees(LookOrder[rec.look], j)
           dir == IF Sees(LookOrder[rec.look], j) THEN LookOrder[rec.look] ELSE "nowhere"
           phase == ReconciledPhase(j, dir)
           next == [rec EXCEPT !.todo = @ \ {j}, !.look = 1]
       IN  \/ /\ ~seen /\ rec.look < Len(LookOrder)
              /\ rec' = [rec EXCEPT !.look = @ + 1]
              /\ UNCHANGED <<audit, responses, enq, ctl, faults>>
           \/ /\ seen \/ rec.look = Len(LookOrder)
              /\ phase \in {"skip", "queued"}
              /\ outbox' = IF phase = "skip" THEN outbox ELSE [outbox EXCEPT ![j].phase = phase]
              /\ rec' = next
              /\ UNCHANGED <<log, responses, enq, ctl, faults>>
           \/ /\ seen \/ rec.look = Len(LookOrder)
              /\ phase \in Terminal
              /\ \/ Settle(j, phase, "settled") /\ rec' = next /\ UNCHANGED <<enq, ctl>>
                 \/ \E r \in {"failed_append", "error"} : Settle(j, phase, r) /\ ReconcileReturn(FALSE)
    /\ UNCHANGED <<closed, seq, job, staging, requests, processing, secrets, gen, con, poll, effect, died>>

-----------------------------------------------------------------------------
(* The service: enqueue_with_admission_hook under the enqueue flock.        *)

(* require_open_runtime_admission holds from here to the publication: the  *)
(* lifecycle markers are written under the same flock.                     *)
Enqueue(k, b) ==
    /\ enq.pc = "idle" /\ ~closed
    /\ enq' = [IdleEnq EXCEPT !.pc = "reconcile", !.key = k, !.body = b]
    /\ ReconcileBegin("service")
    /\ UNCHANGED <<closed, seq, job, files, audit, gen, ctl, con, poll, effect, died, faults>>

(* prepare_package_transition, close_service_admission, open_...            *)
SetAdmission ==
    /\ enq.pc = "idle"
    /\ Fault
    /\ closed' = ~closed
    /\ UNCHANGED <<seq, job, files, audit, enq, gen, ctl, con, rec, poll, effect, died>>

(* recover_staging_files: what an interrupted enqueue or a published        *)
(* response left in staging/; a response still being written is kept.      *)
RecoveredStaging == {t \in staging : t[2] = "response" /\ ~Responded(t[1])}

(* recover_orphan_canonical_secrets: a secret with no executable job is    *)
(* left over from a crash before publication.                              *)
OrphanSecrets == {x \in secrets : ~Active(x[2])}

Recover ==
    /\ enq.pc = "recover"
    /\ staging' = RecoveredStaging
    /\ secrets' = secrets \ OrphanSecrets
    /\ enq' = [enq EXCEPT !.pc = "scan"]
    /\ UNCHANGED <<closed, seq, job, requests, processing, responses, audit, gen, ctl, con, rec, poll,
                   effect, died, faults>>

(* collect_json_job_ids *)
JobNames == {j \in Jobs : Active(j) \/ Responded(j)}

\* Mutant: completed jobs are not searched.
SameKeyOutstanding(names) == {j \in names : job[j].key = enq.key /\ ~Responded(j)}

(* read_any_idempotency_record, matching_idempotency_key *)
SameKey(names) == {j \in names : job[j].key = enq.key}

(* validate_outstanding_queue_capacity *)
QueueFull == Cardinality(requests \cup processing) >= MaxOutstanding

(* next_job_id: later than every number handed out or published (the wall  *)
(* clock only makes it later still).                                       *)
NextJobId == Max({seq} \cup JobNames) + 1

(* find_idempotent_job: the first of the two directory scans of a round.   *)
ScanBefore ==
    /\ enq.pc = "scan"
    /\ enq' = [enq EXCEPT !.pc = "match", !.before = JobNames]
    /\ UNCHANGED <<closed, seq, job, files, audit, gen, ctl, con, rec, poll, effect, died, faults>>

(* The records are matched and the names collected again; an unstable      *)
(* queue is rescanned, at most four times.  Then capacity, the sequence    *)
(* number, which is persisted first, and the staged job file.              *)
MatchAndReserve ==
    /\ enq.pc = "match"
    /\ LET same == SameKey(enq.before) IN
       \/ /\ JobNames # enq.before
          /\ enq' = IF enq.scans = 3 THEN Answer("unavailable")
                    ELSE [enq EXCEPT !.pc = "scan", !.scans = @ + 1]
          /\ UNCHANGED <<seq, job, staging>>
       \/ /\ JobNames = enq.before /\ same # {}
          /\ enq' = IF \E j \in same : job[j].body # enq.body THEN Answer("conflict") ELSE Answer("existing")
          /\ UNCHANGED <<seq, job, staging>>
       \/ /\ JobNames = enq.before /\ same = {}
          /\ QueueFull \/ NextJobId > MaxJobs
          /\ enq' = Answer("conflict")
          /\ UNCHANGED <<seq, job, staging>>
       \/ /\ JobNames = enq.before /\ same = {}
          /\ ~QueueFull /\ NextJobId <= MaxJobs
          /\ seq' = NextJobId
          /\ job' = [job EXCEPT ![NextJobId] = [key |-> enq.key, body |-> enq.body]]
          /\ staging' = staging \cup {<<NextJobId, "job">>}
          /\ enq' = [enq EXCEPT !.pc = "begin", !.j = NextJobId]
    /\ UNCHANGED <<closed, requests, processing, secrets, responses, audit, gen, ctl, con, rec, poll,
                   effect, died, faults>>

BeginAudit ==
    /\ enq.pc = "begin" /\ OutboxFree
    /\ \/ /\ AuditBegin(enq.j, TRUE)
          /\ enq' = [enq EXCEPT !.pc = IF enq.key \in Secretful THEN "secret" ELSE "publish"]
          /\ UNCHANGED staging
       \/ /\ AuditBegin(enq.j, FALSE)
          /\ staging' = staging \ {<<enq.j, "job">>}
          /\ enq' = Answer("error")
    /\ UNCHANGED <<closed, seq, job, requests, processing, secrets, responses, gen, ctl, con, rec, poll,
                   effect, died>>

(* The secret is linked into requests/ before the job that needs it.       *)
PublishSecret ==
    /\ enq.pc = "secret"
    /\ \/ /\ NoFault
          /\ staging' = staging \cup {<<enq.j, "secret">>}
          /\ secrets' = secrets \cup {<<"requests", enq.j>>}
          /\ enq' = [enq EXCEPT !.pc = "publish"]
       \/ /\ Fault
          /\ enq' = [enq EXCEPT !.pc = "unpublish"]
          /\ UNCHANGED <<staging, secrets>>
    /\ UNCHANGED <<closed, seq, job, requests, processing, responses, audit, gen, ctl, con, rec, poll, effect, died>>

PublishJob ==
    /\ enq.pc = "publish"
    /\ \/ /\ NoFault
          /\ requests' = requests \cup {enq.j}
          /\ enq' = [enq EXCEPT !.pc = "queued"]
       \/ /\ Fault
          /\ enq' = [enq EXCEPT !.pc = "unpublish"]
          /\ UNCHANGED requests
    /\ UNCHANGED <<closed, seq, job, staging, processing, secrets, responses, audit, gen, ctl, con, rec, poll,
                   effect, died>>

(* A link failed: every name is removed and the transaction ends Failed.   *)
Unpublish ==
    /\ enq.pc = "unpublish" /\ OutboxFree
    /\ staging' = {t \in staging : t[1] # enq.j}
    /\ secrets' = secrets \ {<<"requests", enq.j>>}
    /\ \E pending \in BOOLEAN : AuditComplete(enq.j, "failed", <<"service", gen>>, pending)
    /\ enq' = Answer("error")
    /\ UNCHANGED <<closed, seq, job, requests, processing, gen, ctl, con, rec, poll, effect, died>>

(* mark_audit_transaction_queued and the removal of the temporaries: the   *)
(* job is visible, so nothing below is reported as a failure.              *)
MarkQueued ==
    /\ enq.pc = "queued" /\ OutboxFree
    /\ outbox' = IF outbox[enq.j].phase = "publishing" /\ Active(enq.j)
                 THEN [outbox EXCEPT ![enq.j].phase = "queued"] ELSE outbox
    /\ staging' = {t \in staging : t[1] # enq.j \/ t[2] = "response"}
    /\ enq' = Answer("accepted")
    /\ UNCHANGED <<closed, seq, job, requests, processing, secrets, responses, log, gen, ctl, con, rec, poll,
                   effect, died, faults>>

ServiceStep == Recover \/ ScanBefore \/ MatchAndReserve \/ BeginAudit \/ PublishSecret \/ PublishJob
               \/ Unpublish \/ MarkQueued

-----------------------------------------------------------------------------
(* The controller: process_control_queue.  The auxiliary turn runs inside   *)
(* the primary turn's wait for its consumer.                                *)

ctlRest == <<closed, seq, job, staging, responses, audit, enq, gen, poll, effect, died>>
Turn(s, pc) == ctl' = [ctl EXCEPT ![s].pc = pc]

MayTurn(s) == IF s = "aux" THEN ctl["primary"].pc = "wait" /\ con["primary"].pc # "idle"
              ELSE ctl["aux"].pc = "idle"

BeginTurn(s) ==
    /\ ctl[s].pc = "idle" /\ requests # {}
    /\ MayTurn(s)
    /\ ReconcileBegin(s)
    /\ Turn(s, "sweep")
    /\ UNCHANGED <<closed, seq, job, files, audit, enq, gen, con, poll, effect, died, faults>>

(* What the auxiliary turn may claim beside the primary's job.             *)
MayAdmit(s, j) ==
    s = "aux" => \/ Class[job[j].key] = "connection"
                 \/ Class[job[j].key] = "serialized" /\ Class[job[ctl["primary"].j].key] = "concurrent"

(* The head of the queue is moved to processing/.  A primary turn that     *)
(* cannot classify it claims it all the same, to report the failure.       *)
Claim(s) ==
    /\ ctl[s].pc = "claim"
    /\ \/ /\ requests = {} \/ ~MayAdmit(s, Min(requests))
          /\ ctl' = [ctl EXCEPT ![s] = Idle]
          /\ UNCHANGED <<requests, processing, faults>>
       \/ /\ requests # {} /\ MayAdmit(s, Min(requests))
          /\ requests' = requests \ {Min(requests)}
          /\ processing' = processing \cup {Min(requests)}
          /\ \/ NoFault /\ ctl' = [ctl EXCEPT ![s] = [pc |-> "secret", j |-> Min(requests)]]
             \/ s = "primary" /\ Fault /\ ctl' = [ctl EXCEPT ![s] = [pc |-> "fail", j |-> Min(requests)]]
    /\ UNCHANGED <<ctlRest, secrets, con, rec>>

ClaimSecret(s) ==
    /\ ctl[s].pc = "secret"
    /\ LET j == ctl[s].j
       IN  IF <<"requests", j>> \in secrets
           THEN \/ /\ NoFault /\ Turn(s, "dispatch")
                   /\ secrets' = (secrets \ {<<"requests", j>>}) \cup {<<"processing", j>>}
                \/ Fault /\ Turn(s, "fail") /\ UNCHANGED secrets
           ELSE NoFault /\ Turn(s, "dispatch") /\ UNCHANGED secrets
    /\ UNCHANGED <<ctlRest, requests, processing, con, rec>>

Dispatch(s) ==
    /\ ctl[s].pc = "dispatch"
    /\ con' = [con EXCEPT ![s] = [IdleCon EXCEPT !.pc = "read", !.j = ctl[s].j]]
    /\ Turn(s, "wait")
    /\ UNCHANGED <<ctlRest, requests, processing, secrets, rec, faults>>

\* Mutant: the class of the job is not asked for.
WaitedAnyClass(s) ==
    /\ ctl[s].pc = "wait" /\ con[s].pc = "idle"
    /\ s = "primary" => ctl["aux"].pc = "idle"
    /\ Turn(s, IF Responded(ctl[s].j) THEN "finish" ELSE "fail")
    /\ UNCHANGED <<ctlRest, requests, processing, secrets, con, rec, faults>>

(* The consumer ended.  Without a response a job that commits nothing is   *)
(* reported failed; a serialized one stays unresolved on purpose.          *)
Waited(s) ==
    /\ ctl[s].pc = "wait" /\ con[s].pc = "idle"
    /\ s = "primary" => ctl["aux"].pc = "idle"
    /\ Turn(s, IF Responded(ctl[s].j) \/ Class[job[ctl[s].j].key] = "serialized" THEN "finish" ELSE "fail")
    /\ UNCHANGED <<ctlRest, requests, processing, secrets, con, rec, faults>>

(* fail_claimed_job (and reject_claimed_job): claim the transaction if it  *)
(* can still be claimed ...                                                *)
FailClaim(s) ==
    /\ ctl[s].pc = "fail" /\ OutboxFree
    /\ IF MayClaim(ctl[s].j) THEN AuditClaim(ctl[s].j, <<"controller", ctl[s].j>>) ELSE UNCHANGED outbox
    /\ Turn(s, "fail_close")
    /\ UNCHANGED <<closed, seq, job, files, log, enq, gen, con, rec, poll, effect, died, faults>>

(* ... end it Failed ...                                                   *)
FailClose(s) ==
    /\ ctl[s].pc = "fail_close" /\ OutboxFree
    /\ \E pending \in BOOLEAN :
          /\ AuditComplete(ctl[s].j, "failed", <<"controller", ctl[s].j>>, pending)
          /\ con' = [con EXCEPT ![s].pending = pending]
    /\ Turn(s, "fail_answer")
    /\ UNCHANGED <<closed, seq, job, staging, requests, processing, secrets, enq, gen, rec, poll, effect, died>>

(* ... and publish the failed result (write_response).                     *)
FailAnswer(s) ==
    /\ ctl[s].pc = "fail_answer"
    /\ secrets' = secrets \ {<<"processing", ctl[s].j>>}
    /\ responses' = IF Responded(ctl[s].j) THEN responses
                    ELSE [responses EXCEPT ![ctl[s].j] = [st |-> "failed", pending |-> con[s].pending]]
    /\ Turn(s, "finish")
    /\ UNCHANGED <<closed, seq, job, staging, requests, processing, audit, enq, gen, con, rec, poll, effect, died,
                   faults>>

FinishTurn(s) ==
    /\ ctl[s].pc = "finish"
    /\ processing' = processing \ {ctl[s].j}
    /\ secrets' = {x \in secrets : x[2] # ctl[s].j}
    /\ ctl' = [ctl EXCEPT ![s] = Idle]
    /\ con' = [con EXCEPT ![s] = IdleCon]
    /\ UNCHANGED <<ctlRest, requests, rec, faults>>

(* prune_expired_control_files, at the start of a primary turn: a claim    *)
(* nobody holds any more (restart) is dropped, and so is its secret.       *)
PruneClaim(j) ==
    /\ j \in processing /\ ctl["primary"].pc = "claim"
    /\ processing' = processing \ {j}
    /\ secrets' = secrets \ {<<"processing", j>>}
    /\ UNCHANGED <<ctlRest, requests, ctl, con, rec, faults>>

ControllerStep(s) == Claim(s) \/ ClaimSecret(s) \/ Dispatch(s) \/ Waited(s) \/ FailClaim(s) \/ FailClose(s)
                     \/ FailAnswer(s) \/ FinishTurn(s)

-----------------------------------------------------------------------------
(* The consumer: run_consumer.                                              *)

Goes(s, pc) == con' = [con EXCEPT ![s].pc = pc]
conRest == <<closed, seq, job, requests, processing, enq, gen, ctl, rec, poll>>

(* A stale job skips the claim; a job whose audit transaction cannot be    *)
(* claimed, or which the policy no longer allows, is not run.              *)
ConsumerClaim(s) ==
    /\ con[s].pc = "read" /\ OutboxFree
    /\ \/ /\ MayClaim(con[s].j) /\ NoFault
          /\ AuditClaim(con[s].j, <<"consumer", con[s].j>>)
          /\ Goes(s, "run")
       \/ /\ IF MayClaim(con[s].j) THEN Fault ELSE NoFault
          /\ con' = [con EXCEPT ![s].pc = "close", ![s].v = "failed"]
          /\ UNCHANGED outbox
    /\ UNCHANGED <<conRest, staging, secrets, responses, log, effect, died>>

(* consume_job_inner: the secret is read and removed first; a job that     *)
(* needs one and has none is refused.                                      *)
ConsumerRun(s) ==
    /\ con[s].pc = "run"
    /\ secrets' = secrets \ {<<"processing", con[s].j>>}
    /\ \/ /\ job[con[s].j].key \in Secretful <=> <<"processing", con[s].j>> \in secrets
          /\ Goes(s, "running")
          /\ effect' = [effect EXCEPT ![con[s].j] = "partial"]
       \/ /\ ~(job[con[s].j].key \in Secretful <=> <<"processing", con[s].j>> \in secrets)
          /\ con' = [con EXCEPT ![s].pc = "close", ![s].v = "failed"]
          /\ UNCHANGED effect
    /\ UNCHANGED <<conRest, staging, responses, audit, died, faults>>

(* The manager ended: its result counts only if it agrees with its exit.   *)
ConsumerRan(s) ==
    /\ con[s].pc = "running"
    /\ \E v \in {"succeeded", "failed"} :
          /\ effect' = [effect EXCEPT ![con[s].j] = IF v = "succeeded" THEN "done" ELSE "partial"]
          /\ con' = [con EXCEPT ![s].pc = "close", ![s].v = v]
    /\ UNCHANGED <<conRest, staging, secrets, responses, audit, died, faults>>

(* terminalize_consume_result *)
ConsumerClose(s) ==
    /\ con[s].pc = "close" /\ OutboxFree
    /\ \E pending \in BOOLEAN :
          /\ AuditComplete(con[s].j, con[s].v, <<"consumer", con[s].j>>, pending)
          /\ con' = [con EXCEPT ![s].pc = "answer", ![s].pending = pending]
    /\ UNCHANGED <<conRest, staging, secrets, effect, died>>

(* remove_claimed_secret, write_response: the staged file gets its second, *)
(* public name ...                                                         *)
ConsumerAnswer(s) ==
    /\ con[s].pc = "answer"
    /\ secrets' = secrets \ {<<"processing", con[s].j>>}
    /\ IF Responded(con[s].j) THEN Goes(s, "idle") /\ UNCHANGED <<responses, staging>>
       ELSE /\ staging' = staging \cup {<<con[s].j, "response">>}
            /\ responses' = [responses EXCEPT ![con[s].j] = [st |-> con[s].v, pending |-> con[s].pending]]
            /\ Goes(s, "unlink")
    /\ UNCHANGED <<conRest, audit, effect, died, faults>>

(* ... and loses the first.                                                *)
ConsumerUnlink(s) ==
    /\ con[s].pc = "unlink"
    /\ staging' = staging \ {<<con[s].j, "response">>}
    /\ Goes(s, "idle")
    /\ UNCHANGED <<conRest, secrets, responses, audit, effect, died, faults>>

ConsumerStep(s) == ConsumerClaim(s) \/ ConsumerRun(s) \/ ConsumerRan(s) \/ ConsumerClose(s) \/ ConsumerAnswer(s)
                   \/ ConsumerUnlink(s)

-----------------------------------------------------------------------------
(* A client's poll: execute_result_action_after_wait reads the response,    *)
(* requests/, processing/ and the response again, one after the other; a    *)
(* request-status poll looks for the job among the names in the queue.      *)

PollOrder == <<"responses", "requests", "processing", "responses">>

PollBegin(j, kind) ==
    /\ poll.step = 0 /\ j \in Polled /\ (Active(j) \/ Responded(j))
    /\ poll' = [step |-> 1, j |-> j, kind |-> kind, names |-> {}, answer |-> "none"]
    /\ UNCHANGED <<closed, seq, job, files, audit, enq, gen, ctl, con, rec, effect, died, faults>>

PollRead ==
    /\ poll.step \in 1..Len(PollOrder) /\ poll.kind = "result"
    /\ poll' = IF Sees(PollOrder[poll.step], poll.j) THEN IdlePoll
               ELSE IF poll.step = Len(PollOrder) THEN [poll EXCEPT !.step = 0, !.answer = "gone"]
               ELSE [poll EXCEPT !.step = @ + 1]
    /\ UNCHANGED <<closed, seq, job, files, audit, enq, gen, ctl, con, rec, effect, died, faults>>

(* execute_request_status_action: a request that was found is pending or   *)
(* complete, and nothing more is asked; one that was not is unresolved.    *)
StatusAnswer(found) == IF found THEN IdlePoll ELSE [poll EXCEPT !.step = 0, !.names = {}, !.answer = "gone"]

(* find_session_request: the names are collected before and after the      *)
(* records are read.                                                       *)
StatusRead ==
    /\ poll.step > 0 /\ poll.kind = "status"
    /\ poll' = IF poll.step % 2 = 1 THEN [poll EXCEPT !.step = @ + 1, !.names = JobNames]
               ELSE IF JobNames # poll.names
               THEN IF poll.step = 8 THEN IdlePoll ELSE [poll EXCEPT !.step = @ + 1, !.names = {}]
               ELSE StatusAnswer(poll.j \in poll.names)
    /\ UNCHANGED <<closed, seq, job, files, audit, enq, gen, ctl, con, rec, effect, died, faults>>

(* completed_result_response: a poll that meets a pending response sweeps  *)
(* the outbox; a sweep that fails never hides the result.                  *)
PollReconcile ==
    /\ \E j \in Jobs : responses[j].pending
    /\ ReconcileBegin("poll")
    /\ UNCHANGED <<closed, seq, job, files, audit, enq, gen, ctl, con, poll, effect, died, faults>>

-----------------------------------------------------------------------------
(* Faults: a killed consumer, a killed service, a restart of the machine.   *)

Killed(s) == IF con[s].pc = "running" THEN {con[s].j} ELSE {}

KillConsumer(s) ==
    /\ con[s].pc # "idle" /\ Fault
    /\ con' = [con EXCEPT ![s] = IdleCon]
    /\ died' = died \cup Killed(s)
    /\ UNCHANGED <<closed, seq, job, files, audit, enq, gen, ctl, rec, poll, effect>>

(* ... in the middle of audit_transaction_begin: the record stays Prepared. *)
KillDuringBegin ==
    /\ enq.pc = "begin" /\ OutboxFree /\ Fault
    /\ outbox' = [outbox EXCEPT ![enq.j] = [phase |-> "prepared", owner |-> <<"service", gen>>]]
    /\ log' \in {log, log \cup {<<enq.j, "requested">>}}
    /\ gen' = gen + 1
    /\ enq' = IdleEnq
    /\ UNCHANGED <<closed, seq, job, files, ctl, con, rec, poll, effect, died>>

KillService ==
    /\ enq.pc # "idle" /\ Fault
    /\ gen' = gen + 1
    /\ enq' = IdleEnq
    /\ rec' = IF rec.by = "service" THEN IdleRec ELSE rec
    /\ UNCHANGED <<closed, seq, job, files, audit, ctl, con, poll, effect, died>>

Restart ==
    /\ Fault
    /\ gen' = gen + 1
    /\ enq' = IdleEnq /\ rec' = IdleRec /\ poll' = IdlePoll
    /\ ctl' = [s \in Slots |-> Idle] /\ con' = [s \in Slots |-> IdleCon]
    /\ died' = died \cup UNION {Killed(s) : s \in Slots}
    /\ UNCHANGED <<closed, seq, job, files, audit, effect>>

Next ==
    \/ \E k \in Keys, b \in Bodies : Enqueue(k, b)
    \/ ServiceStep \/ SetAdmission
    \/ ReconcileRecord \/ ReconcileDone
    \/ \E s \in Slots : BeginTurn(s) \/ ControllerStep(s) \/ ConsumerStep(s) \/ KillConsumer(s)
    \/ \E j \in Jobs : PruneClaim(j) \/ \E kind \in {"result", "status"} : PollBegin(j, kind)
    \/ PollRead \/ StatusRead \/ PollReconcile
    \/ KillService \/ KillDuringBegin \/ Restart

Spec == Init /\ [][Next]_vars

-----------------------------------------------------------------------------

(* run_consumer, fail_claimed_job, reconcile: whatever is killed when, the *)
(* audit log and the response never claim a success the manager did not    *)
(* have, and a serialized job whose consumer died while the manager ran is *)
(* never called failed (fail_claimed_job's refusal).                       *)
VerdictTrue ==
    /\ \A j \in Jobs : (<<j, "succeeded">> \in log \/ responses[j].st = "succeeded") => effect[j] = "done"
    /\ \A j \in died : Class[job[j].key] = "serialized" =>
          <<j, "failed">> \notin log /\ responses[j].st # "failed"

(* find_idempotent_job under the enqueue flock: a retried client request   *)
(* never runs a second time, unless the first run's outcome was lost with  *)
(* its consumer.                                                           *)
RunsOnce ==
    \A i, j \in Jobs :
        i < j /\ job[i].key = job[j].key /\ Published(i) /\ effect[i] # "none" /\ effect[j] # "none"
        => ~Responded(i)

(* execute_result_action_after_wait and find_session_request: a job that   *)
(* is queued, claimed or answered is never reported expired or unresolved, *)
(* however the controller moves its files between the reads.               *)
NeverFalselyExpired ==
    poll.answer = "gone" => ~Active(poll.j) /\ ~Responded(poll.j)

(* What a poll, the audit log and the response say of a job is so          *)
(* (dsm_api.rs:10509, run_consumer and find_session_request).              *)
PollTruthful == VerdictTrue /\ NeverFalselyExpired

(* process_control_queue's admission rules: two jobs that commit state     *)
(* never run side by side, nor do two that only read it.                   *)
ClassesApart ==
    (\A s \in Slots : con[s].pc = "running") =>
        LET c == Class[job[con["aux"].j].key] IN
        c = "connection" \/ (c = "serialized" /\ Class[job[con["primary"].j].key] = "concurrent")

(* enqueue, claim, recover_orphan_canonical_secrets: a job that carries a  *)
(* secret is never visible without it, and a secret whose job is gone is   *)
(* still cleared by whoever owns it.                                       *)
SecretWithJob ==
    \A j \in requests : job[j].key \in Secretful => <<"requests", j>> \in secrets

(* A job is claimed as it was queued: once, with its secret, and beside    *)
(* none it would race (process_control_queue and run_consumer).            *)
ClaimsClean == RunsOnce /\ ClassesApart /\ SecretWithJob

(* Enqueue, controller and consumer together keep AuditContract's promise. *)
Logged(j) == {v \in Terminal : <<j, v>> \in log}
verdictOf ==
    [j \in Jobs |->
        IF Logged(j) # {} THEN CHOOSE v \in Logged(j) : TRUE
        ELSE IF outbox[j].phase \in Terminal \cup {"executing"} THEN outbox[j].phase
        ELSE IF outbox[j].phase = "none" THEN "absent" ELSE "requested"]
Contract == INSTANCE AuditContract WITH verdict <- verdictOf
AuditKept == Contract!Spec

-----------------------------------------------------------------------------
(* The inductive invariant behind PollTruthful, ClaimsClean and AuditKept,  *)
(* proved in JobQueueProofs.                                               *)

Phases == {"none", "prepared", "publishing", "queued", "executing"} \cup Terminal
Owners == {"nobody", "service", "consumer", "controller"} \X Nat
EnqLabels == {"idle", "reconcile", "recover", "scan", "match", "begin", "secret", "publish", "unpublish", "queued"}
CtlLabels == {"idle", "sweep", "claim", "secret", "dispatch", "wait", "fail", "fail_close", "fail_answer", "finish"}
ConLabels == {"idle", "read", "run", "running", "close", "answer", "unlink"}
Documents == [key : Keys \cup {"none"}, body : Bodies \cup {"none"}]
SomeJob == 0..MaxJobs

Enqueues == [pc : EnqLabels, j : SomeJob, key : Keys \cup {"none"}, body : Bodies \cup {"none"},
             before : SUBSET Jobs, scans : 0..3]
Turns == [pc : CtlLabels, j : SomeJob]
Consumers == [pc : ConLabels, j : SomeJob, v : {"none", "failed", "succeeded"}, pending : BOOLEAN]
Sweeps == [by : {"nobody", "service", "poll"} \cup Slots, todo : SUBSET Jobs, look : 1..3]
Polls == [step : 0..8, j : SomeJob, kind : {"none", "result", "status"}, names : SUBSET Jobs,
          answer : {"none", "gone"}]
Answers == [st : {"none", "failed", "succeeded"}, pending : BOOLEAN]
Records == [phase : Phases, owner : Owners]
Temporaries == Jobs \X {"job", "secret", "response"}
SecretNames == {"requests", "processing"} \X Jobs
Events == Jobs \X ({"requested"} \cup Terminal)

FileTypes ==
    /\ closed \in BOOLEAN /\ seq \in SomeJob /\ gen \in Nat /\ faults \in Nat
    /\ job \in [Jobs -> Documents]
    /\ staging \subseteq Temporaries
    /\ requests \subseteq Jobs /\ processing \subseteq Jobs
    /\ secrets \subseteq SecretNames
    /\ responses \in [Jobs -> Answers]
    /\ outbox \in [Jobs -> Records]
    /\ log \subseteq Events
    /\ effect \in [Jobs -> {"none", "partial", "done"}]
    /\ died \subseteq Jobs

ActorTypes ==
    /\ enq \in Enqueues /\ ctl \in [Slots -> Turns] /\ con \in [Slots -> Consumers]
    /\ rec \in Sweeps /\ poll \in Polls

TypeOK == FileTypes /\ ActorTypes

(* The sequence number is the last one reserved.  A job whose enqueue is   *)
(* past its publication is never published again.                          *)
Reserved == {"begin", "secret", "publish", "unpublish", "queued"}
Unpublished == {"begin", "secret", "publish", "unpublish"}
Past(j) == j <= seq /\ (enq.pc \in Unpublished => enq.j # j)

EnqueueInv ==
    /\ enq.pc \in Reserved => enq.j = seq /\ seq # 0 /\ job[enq.j].key = enq.key
    /\ \A j \in Jobs : j > seq => job[j] = NoJob /\ effect[j] = "none"
    /\ \A j \in JobNames : Past(j)

(* A turn owns the claimed file it works on, the consumer works for a turn *)
(* that waits, and the auxiliary turn runs inside the primary one's wait.  *)
Busy == CtlLabels \ {"idle", "sweep", "claim"}
TurnInv ==
    /\ requests \cap processing = {}
    /\ \A s \in Slots : ctl[s].pc \in Busy => ctl[s].j \in processing
    /\ \A s \in Slots : con[s].pc # "idle" => ctl[s].pc = "wait" /\ ctl[s].j = con[s].j
    /\ \A s \in Slots : rec.by = s => ctl[s].pc = "sweep"
    /\ ctl["aux"].pc # "idle" => ctl["primary"].pc = "wait"
    /\ ctl["aux"].pc \in Busy => ctl["aux"].j # ctl["primary"].j /\ MayAdmit("aux", ctl["aux"].j)

(* Nothing answers for a job before the one who works on it.               *)
AnswerInv ==
    /\ \A j \in requests : ~Responded(j)
    /\ \A s \in Slots : ctl[s].pc \in Busy \ {"wait", "finish"} => ~Responded(ctl[s].j)
    /\ \A s \in Slots : con[s].pc \notin {"idle", "unlink"} => ~Responded(con[s].j)
    /\ \A s \in Slots : con[s].pc \in {"close", "answer", "unlink"} => con[s].v # "none"

(* A job is announced from its first record on, is logged under one        *)
(* verdict, which is its record's as long as there is one, and once        *)
(* claimed never goes back.                                                *)
Announced(j) == outbox[j].phase # "none" \/ <<j, "requested">> \in log
Claimed(j) == outbox[j].phase \notin {"prepared", "publishing", "queued"}
Claims(s) == con[s].pc \in {"run", "running"} \/ (con[s].pc # "idle" /\ con[s].v = "succeeded")

AuditInv ==
    /\ \A j \in Jobs : j > seq => ~Announced(j)
    /\ enq.pc = "begin" => ~Announced(enq.j)
    /\ enq.pc \in {"secret", "publish"} => Announced(enq.j)
    /\ \A j \in JobNames : Announced(j)
    /\ \A j \in Jobs : Logged(j) = {} \/ \E v \in Terminal : Logged(j) = {v} /\ outbox[j].phase \in {"none", v}
    /\ \A j \in Jobs : ~Announced(j) => Logged(j) = {}
    /\ \A j \in rec.todo : outbox[j].phase # "none"
    /\ rec.by = "nobody" => rec.todo = {}
    /\ \A s \in Slots : Claims(s) => Claimed(con[s].j)
    /\ \A j \in Jobs : responses[j].st = "succeeded" => Claimed(j)

(* A success was had, and a job whose consumer may have committed is       *)
(* nobody's to fail.                                                       *)
SaysSucceeded(j) ==
    \/ <<j, "succeeded">> \in log \/ outbox[j].phase = "succeeded" \/ responses[j].st = "succeeded"
    \/ \E s \in Slots : con[s].pc # "idle" /\ con[s].v = "succeeded" /\ con[s].j = j
MayHaveCommitted(j) ==
    outbox[j].phase \in {"executing", "unknown", "none"} /\ Logged(j) \subseteq {"unknown"} /\ ~Responded(j)

VerdictInv ==
    /\ \A j \in Jobs : SaysSucceeded(j) => effect[j] = "done"
    /\ \A s \in Slots : con[s].pc \in {"run", "running"} =>
          con[s].v = "none" /\ MayHaveCommitted(con[s].j)
    /\ \A s \in Slots : con[s].pc = "read" => con[s].v = "none"
    /\ \A j \in died : Past(j)
    /\ \A j \in died : Class[job[j].key] = "serialized" =>
          /\ MayHaveCommitted(j) /\ j \notin requests
          /\ \A s \in Slots : con[s].pc # "idle" => con[s].j # j
          /\ \A s \in Slots : ctl[s].pc \in Busy /\ ctl[s].j = j => ctl[s].pc \in {"wait", "finish"}

PollInv ==
    /\ poll.step > 0 \/ poll.answer = "gone" => poll.j \in Jobs /\ Past(poll.j)
    /\ poll.kind = "result" /\ poll.step > 2 => poll.j \notin requests
    /\ poll.kind = "result" /\ poll.step > 3 => poll.j \notin processing
    /\ poll.step > 0 => poll.answer = "none"
    /\ NeverFalselyExpired

(* A request that is sent again is enqueued again only when nothing is     *)
(* left of the first.                                                      *)
RetryInv == \A i, j \in Jobs : i < j /\ j <= seq /\ job[i].key = job[j].key => i \notin JobNames

SecretInv ==
    /\ SecretWithJob
    /\ enq.pc = "publish" /\ enq.key \in Secretful => <<"requests", enq.j>> \in secrets

QInv == TypeOK /\ EnqueueInv /\ TurnInv /\ AnswerInv /\ AuditInv /\ VerdictInv /\ PollInv /\ RetryInv /\ SecretInv
=============================================================================
