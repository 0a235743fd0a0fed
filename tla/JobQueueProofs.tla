--------------------------- MODULE JobQueueProofs ---------------------------
EXTENDS JobQueue, FiniteSetTheorems, TLAPS

(***************************************************************************)
(* Proofs about the job queue of JobQueue, for every set of requests and   *)
(* classes, every bound on jobs, on outstanding jobs and on faults, and    *)
(* every set of polled jobs: the inductive invariant QInv, the three       *)
(* properties that follow from it, and the step-by-step refinement of      *)
(* AuditContract.                                                          *)
(***************************************************************************)

(***************************************************************************)
(* Smallest and largest members.                                           *)
(***************************************************************************)

(* A nonempty set of naturals has a smallest member: the claim takes the   *)
(* head of requests/, the sweep the next record (Claim, ReconcileRecord).  *)
(* The initial segments 1..x of X are well-founded under inclusion.        *)
LEMMA MinOf ==
    ASSUME NEW X \in SUBSET Nat, X # {}
    PROVE  Min(X) \in X /\ \A y \in X : Min(X) <= y
  <1> DEFINE Below == {1..x : x \in X}
  <1>1. Below \subseteq FiniteSubsetsOf(Nat) /\ Below # {}
    <2>1. ASSUME NEW x \in X PROVE 1..x \in SUBSET Nat /\ IsFiniteSet(1..x)
      BY FS_Interval
    <2> QED
      BY <2>1 DEF FiniteSubsetsOf
  <1>2. PICK A \in Below : \A B \in Below : ~(<<B, A>> \in StrictSubsetOrdering(Nat))
    <2> HIDE DEF Below
    <2> QED
      BY <1>1, FS_StrictSubsetOrderingWellFounded, WFMin
  <1>3. PICK x \in X : A = 1..x
    BY <1>2
  <1>4. ASSUME NEW y \in X, y < x PROVE FALSE
    <2>1. 1..y \in SUBSET Nat /\ 1..x \in SUBSET Nat /\ 1..y \subseteq 1..x /\ x \in 1..x /\ x \notin 1..y
      BY <1>4
    <2>2. <<1..y, 1..x>> \in StrictSubsetOrdering(Nat)
      BY <2>1 DEF StrictSubsetOrdering
    <2>3. 1..y \in Below
      OBVIOUS
    <2> QED
      BY <2>2, <2>3, <1>2, <1>3
  <1>5. \A y \in X : x <= y
    BY <1>4
  <1> QED
    BY <1>5 DEF Min

(* The next number is one more than the last: no published job has a       *)
(* number that was not handed out (next_job_id).                           *)
LEMMA NextIsLater ==
    ASSUME QInv
    PROVE  NextJobId = seq + 1
  <1>1. \A j \in JobNames : j \in Nat /\ j <= seq
    BY DEF QInv, EnqueueInv, Past, JobNames, Jobs
  <1>2. seq \in Nat
    BY JobQueueAssumption DEF QInv, TypeOK, FileTypes, SomeJob
  <1>3. Max({seq} \cup JobNames) = seq
    <2> DEFINE S == {seq} \cup JobNames
    <2>1. seq \in S /\ \A y \in S : y \in Nat /\ seq >= y
      BY <1>1, <1>2
    <2>2. ASSUME NEW m \in S, \A y \in S : m >= y PROVE m = seq
      BY <2>1, <2>2
    <2> HIDE DEF S
    <2>3. (CHOOSE x \in S : \A y \in S : x >= y) = seq
      BY <2>1, <2>2
    <2> QED
      BY <2>3 DEF Max, S
  <1> QED
    BY <1>3 DEF NextJobId

(* The head of a nonempty directory of jobs is one of them.                *)
LEMMA HeadOf ==
    ASSUME NEW X \in SUBSET Jobs, X # {}
    PROVE  Min(X) \in X /\ Min(X) \in Jobs
  <1>1. X \in SUBSET Nat
    BY DEF Jobs
  <1> QED
    BY <1>1, MinOf

(***************************************************************************)
(* What the shared pieces of the actions do.                               *)
(***************************************************************************)

(* A record is ended under verdict v: rewritten, with the events appended  *)
(* or not, or appended, marked and dropped.                                *)
Ended(j, v) ==
    \/ /\ outbox' = [outbox EXCEPT ![j].phase = v] /\ UNCHANGED responses
       /\ log' = log \/ log' = log \cup {<<j, "requested">>, <<j, v>>}
    \/ /\ outbox' = [outbox EXCEPT ![j] = NoRecord]
       /\ log' = log \cup {<<j, "requested">>, <<j, v>>}
       /\ responses' = [responses EXCEPT ![j].pending = FALSE]

(* Settling a job ends its audit record, with at most one more audit fault.*)
LEMMA SettleEffect ==
    ASSUME NEW j, NEW v, NEW r, Settle(j, v, r)
    PROVE  Ended(j, v) /\ (faults' = faults \/ faults' = faults + 1)
  BY DEF Settle, Ended, Marked, Fault, NoFault

(* audit_transaction_complete ends the record, or leaves everything.       *)
LEMMA CompleteEffect ==
    ASSUME NEW j, NEW v, NEW who, NEW pending, AuditComplete(j, v, who, pending)
    PROVE  /\ faults' = faults \/ faults' = faults + 1
           /\ \/ UNCHANGED <<outbox, log, responses>>
              \/ MayComplete(j, v, who) /\ Ended(j, v)
  BY SettleEffect DEF AuditComplete, Fault, NoFault

(* The types of what an ended record leaves.                               *)
LEMMA EndedTypes ==
    ASSUME NEW j \in Jobs, NEW v \in Terminal, TypeOK, Ended(j, v)
    PROVE  /\ outbox' \in [Jobs -> Records] /\ log' \subseteq Events
           /\ responses' \in [Jobs -> Answers]
  <1> USE DEF TypeOK, FileTypes
  <1>1. NoRecord \in Records /\ v \in Phases
    BY DEF NoRecord, Nobody, Records, Owners, Phases
  <1>2. outbox' \in [Jobs -> Records]
    BY <1>1 DEF Ended, Records
  <1>3. log' \subseteq Events
    BY DEF Ended, Events
  <1>4. responses' \in [Jobs -> Answers]
    <2>1. [responses EXCEPT ![j].pending = FALSE] \in [Jobs -> Answers]
      BY DEF Answers
    <2> QED
      BY <2>1 DEF Ended
  <1> QED
    BY <1>2, <1>3, <1>4

(* What a sweep makes of a record of phase p whose job it saw in `dir`.    *)
LEMMA VerdictOfSweep ==
    ASSUME NEW j \in Jobs, NEW dir \in {"requests", "processing", "responses", "nowhere"},
           TypeOK, outbox[j].phase # "none", dir = "responses" => Responded(j)
    PROVE  LET p == outbox[j].phase v == ReconciledPhase(j, dir) IN
           /\ v \in Terminal \cup {"skip", "queued"}
           /\ v = "queued" => p \in {"publishing", "queued"} /\ dir \in {"requests", "processing"}
           /\ v \in Terminal =>
                 \/ p = v
                 \/ p \notin Terminal /\ v = "failed" /\ p = "prepared"
                 \/ p \notin Terminal \cup {"prepared"} /\ dir = "responses" /\ v = responses[j].st
                 \/ v = "failed" /\ p \in {"publishing", "queued"} /\ dir = "nowhere"
                      /\ (p = "publishing" => ~Owned(j))
                 \/ v = "unknown" /\ p = "executing" /\ dir # "responses" /\ ~Owned(j)
  <1>1. outbox[j].phase \in Phases \ {"none"} /\ responses[j].st \in {"none", "failed", "succeeded"}
    BY DEF TypeOK, FileTypes, Records, Answers
  <1>2. CASE outbox[j].phase \in Terminal
    BY <1>2 DEF ReconciledPhase, Terminal
  <1>3. CASE outbox[j].phase = "prepared"
    BY <1>3 DEF ReconciledPhase, Terminal
  <1>4. CASE outbox[j].phase \in {"publishing", "queued", "executing"} /\ dir = "responses"
    BY <1>1, <1>4 DEF ReconciledPhase, Terminal, Responded
  <1>5. CASE outbox[j].phase \in {"publishing", "queued"} /\ dir # "responses"
    BY <1>5 DEF ReconciledPhase, Terminal
  <1>6. CASE outbox[j].phase = "executing" /\ dir # "responses"
    BY <1>6 DEF ReconciledPhase, Terminal
  <1> QED
    BY <1>1, <1>2, <1>3, <1>4, <1>5, <1>6 DEF Phases

(* One step of the sweep: it looks on, leaves or requeues the record, or   *)
(* ends it and goes on or gives up.                                        *)
SweepLooks ==
    rec' = [rec EXCEPT !.look = @ + 1] /\ rec.look < 3 /\ UNCHANGED <<outbox, log, responses, enq, ctl, faults>>
SweepGoesOn(j) == rec' = [rec EXCEPT !.todo = @ \ {j}, !.look = 1] /\ UNCHANGED <<enq, ctl>>
DirSeen(j) == IF Sees(LookOrder[rec.look], j) THEN LookOrder[rec.look] ELSE "nowhere"
Judgeable(j) == outbox[j].phase \in Terminal \cup {"prepared"} \/ Sees(LookOrder[rec.look], j) \/ rec.look = 3

(* One record of a sweep (reconcile_outbox_locked) touches only that record, its*)
(* log lines and the sweep's own list.                                     *)
LEMMA SweepEffect ==
    ASSUME ReconcileRecord
    PROVE  LET j == Min(rec.todo) v == ReconciledPhase(j, DirSeen(j)) IN
           /\ rec.todo # {}
           /\ faults' = faults \/ faults' = faults + 1
           /\ UNCHANGED <<closed, seq, job, staging, requests, processing, secrets, gen, con, poll, effect, died>>
           /\ \/ SweepLooks
              \/ /\ Judgeable(j)
                 /\ v \in {"skip", "queued"} /\ SweepGoesOn(j) /\ UNCHANGED <<log, responses>>
                 /\ outbox' = IF v = "skip" THEN outbox ELSE [outbox EXCEPT ![j].phase = "queued"]
              \/ /\ Judgeable(j)
                 /\ v \in Terminal /\ Ended(j, v) /\ (SweepGoesOn(j) \/ ReconcileReturn(FALSE))
  <1> DEFINE j == Min(rec.todo)
  <1>1. Len(LookOrder) = 3
    BY DEF LookOrder
  <1>2. CASE SweepLooks
    BY <1>2 DEF ReconcileRecord, SweepLooks
  <1> HIDE DEF j
  <1> QED
    BY <1>1, <1>2, SettleEffect DEF ReconcileRecord, SweepLooks, SweepGoesOn, DirSeen, Judgeable, audit, j

(* The idle values, and the jobs the actors work on, are of their types.   *)
LEMMA Idles ==
    /\ IdleEnq \in Enqueues /\ IdleCon \in Consumers /\ Idle \in Turns
    /\ IdleRec \in Sweeps /\ IdlePoll \in Polls /\ NoRecord \in Records
<1> USE JobQueueAssumption DEF SomeJob
<1>1. IdleEnq \in Enqueues
  BY DEF IdleEnq, Enqueues, EnqLabels
<1>2. IdleCon \in Consumers /\ Idle \in Turns
  BY DEF IdleCon, Consumers, ConLabels, Idle, Turns, CtlLabels
<1>3. IdleRec \in Sweeps /\ IdlePoll \in Polls
  BY DEF IdleRec, Sweeps, IdlePoll, Polls
<1>4. NoRecord \in Records
  BY DEF NoRecord, Nobody, Records, Owners, Phases
<1> QED
  BY <1>1, <1>2, <1>3, <1>4

(* Records of the actors rewritten in two or three fields.                 *)
LEMMA Rewrites ==
    /\ \A e \in Enqueues, p \in EnqLabels, n \in 0..3 : [e EXCEPT !.pc = p, !.scans = n] \in Enqueues
    /\ \A e \in Enqueues, p \in EnqLabels, i \in SomeJob : [e EXCEPT !.pc = p, !.j = i] \in Enqueues
    /\ \A r \in Sweeps, t \in SUBSET Jobs, l \in 1..3 : [r EXCEPT !.todo = t, !.look = l] \in Sweeps
    /\ \A p \in Polls, n \in SUBSET Jobs, k \in 0..8 : [p EXCEPT !.step = k, !.names = n] \in Polls
    /\ \A p \in Polls, a \in {"none", "gone"}, k \in 0..8 : [p EXCEPT !.step = k, !.answer = a] \in Polls
    /\ \A p \in Polls, n \in SUBSET Jobs, a \in {"none", "gone"}, k \in 0..8 :
          [p EXCEPT !.step = k, !.names = n, !.answer = a] \in Polls
    /\ \A c \in Consumers, p \in ConLabels, i \in SomeJob : [c EXCEPT !.pc = p, !.j = i] \in Consumers
    /\ \A c \in Consumers, p \in ConLabels, v \in {"none", "failed", "succeeded"} :
          [c EXCEPT !.pc = p, !.v = v] \in Consumers
    /\ \A c \in Consumers, p \in ConLabels, q \in BOOLEAN : [c EXCEPT !.pc = p, !.pending = q] \in Consumers
<1>1. ASSUME NEW e \in Enqueues, NEW p \in EnqLabels, NEW n \in 0..3
      PROVE  [e EXCEPT !.pc = p, !.scans = n] \in Enqueues
  BY DEF Enqueues
<1>2. ASSUME NEW e \in Enqueues, NEW p \in EnqLabels, NEW i \in SomeJob
      PROVE  [e EXCEPT !.pc = p, !.j = i] \in Enqueues
  BY DEF Enqueues
<1>3. ASSUME NEW r \in Sweeps, NEW t \in SUBSET Jobs, NEW l \in 1..3
      PROVE  [r EXCEPT !.todo = t, !.look = l] \in Sweeps
  BY DEF Sweeps
<1>4. ASSUME NEW p \in Polls, NEW n \in SUBSET Jobs, NEW k \in 0..8
      PROVE  [p EXCEPT !.step = k, !.names = n] \in Polls
  BY DEF Polls
<1>5. ASSUME NEW p \in Polls, NEW a \in {"none", "gone"}, NEW k \in 0..8
      PROVE  [p EXCEPT !.step = k, !.answer = a] \in Polls
  BY DEF Polls
<1>6. ASSUME NEW p \in Polls, NEW n \in SUBSET Jobs, NEW a \in {"none", "gone"}, NEW k \in 0..8
      PROVE  [p EXCEPT !.step = k, !.names = n, !.answer = a] \in Polls
  BY DEF Polls
<1>7. ASSUME NEW c \in Consumers, NEW p \in ConLabels, NEW i \in SomeJob
      PROVE  [c EXCEPT !.pc = p, !.j = i] \in Consumers
  BY DEF Consumers
<1>8. ASSUME NEW c \in Consumers, NEW p \in ConLabels, NEW v \in {"none", "failed", "succeeded"}
      PROVE  [c EXCEPT !.pc = p, !.v = v] \in Consumers
  BY DEF Consumers
<1>9. ASSUME NEW c \in Consumers, NEW p \in ConLabels, NEW q \in BOOLEAN
      PROVE  [c EXCEPT !.pc = p, !.pending = q] \in Consumers
  BY DEF Consumers
<1> QED
  BY <1>1, <1>2, <1>3, <1>4, <1>5, <1>6, <1>7, <1>8, <1>9

(* What the type invariant says of the job each actor is at, gathered once for*)
(* the steps below.                                                        *)
LEMMA Workers ==
    ASSUME QInv
    PROVE  /\ enq.pc \in Reserved => enq.j \in Jobs /\ enq.j = seq
           /\ \A s \in Slots : ctl[s].pc \in Busy => ctl[s].j \in Jobs
           /\ \A s \in Slots : con[s].pc # "idle" => con[s].j \in Jobs /\ ctl[s].pc = "wait" /\ ctl[s].j = con[s].j
<1> USE JobQueueAssumption DEF QInv, TypeOK, FileTypes
<1>1. enq.pc \in Reserved => enq.j \in Jobs /\ enq.j = seq
  BY DEF EnqueueInv, SomeJob, Jobs
<1>2. \A s \in Slots : ctl[s].pc \in Busy => ctl[s].j \in Jobs
  BY DEF TurnInv
<1>3. "wait" \in Busy
  BY DEF Busy, CtlLabels
<1> QED
  BY <1>1, <1>2, <1>3 DEF TurnInv

(* Every step keeps the types. *)
LEMMA TypeStep ==
    ASSUME QInv, Next
    PROVE  TypeOK'
<1> USE JobQueueAssumption DEF QInv, TypeOK, FileTypes, ActorTypes
<1>1. ASSUME NEW k \in Keys, NEW b \in Bodies, Enqueue(k, b)
      PROVE  TypeOK'
  <2>1. enq' \in Enqueues
    BY <1>1, Idles DEF Enqueue, ReconcileBegin, OutboxFree, Enqueues, EnqLabels, SomeJob
  <2>2. rec' \in Sweeps
    BY <1>1, Idles DEF Enqueue, ReconcileBegin, OutboxFree, Sweeps, Slots
  <2> QED
    BY <1>1, <2>1, <2>2 DEF Enqueue, files, audit
<1>2. CASE Recover
  <2>1. staging' \subseteq Temporaries
    BY <1>2 DEF Recover, RecoveredStaging, OrphanSecrets, Temporaries
  <2>2. secrets' \subseteq SecretNames
    BY <1>2 DEF Recover, RecoveredStaging, OrphanSecrets, SecretNames
  <2>3. enq' \in Enqueues
    BY <1>2 DEF Recover, RecoveredStaging, OrphanSecrets, Enqueues, EnqLabels, SomeJob
  <2> QED
    BY <1>2, <2>1, <2>2, <2>3 DEF Recover, files, audit
<1>3. CASE ScanBefore
  <2>1. enq' \in Enqueues
    <3>1. JobNames \in SUBSET Jobs
      BY DEF JobNames
    <3> QED
      BY <1>3, <3>1 DEF ScanBefore, Enqueues, EnqLabels
  <2> QED
    BY <1>3, <2>1 DEF ScanBefore, files, audit
<1>4. CASE MatchAndReserve
  <2>1. NextJobId = seq + 1
    BY <1>4, NextIsLater DEF MatchAndReserve, Busy, CtlLabels
  <2>2. seq' \in SomeJob
    BY <1>4, <2>1, Idles DEF MatchAndReserve, Answer, SomeJob
  <2>3. job' \in [Jobs -> Documents]
    BY <1>4, <2>1, Idles DEF MatchAndReserve, Answer, Documents, Enqueues
  <2>4. staging' \subseteq Temporaries
    <3>1. NextJobId <= MaxJobs => <<NextJobId, "job">> \in Temporaries
      BY <2>1 DEF Temporaries, Jobs, SomeJob
    <3> QED
      BY <1>4, <3>1 DEF MatchAndReserve
  <2>5. enq' \in Enqueues
    <3>1. enq.scans # 3 => [enq EXCEPT !.pc = "scan", !.scans = @ + 1] \in Enqueues
      <4>1. enq.scans \in 0..3 /\ (enq.scans # 3 => enq.scans + 1 \in 0..3)
        BY DEF Enqueues
      <4> QED
        BY <4>1, Rewrites DEF EnqLabels
    <3>2. ASSUME NextJobId <= MaxJobs PROVE [enq EXCEPT !.pc = "begin", !.j = NextJobId] \in Enqueues
      <4>1. NextJobId \in SomeJob /\ "begin" \in EnqLabels /\ enq \in Enqueues
        BY <2>1, <3>2 DEF EnqLabels, SomeJob
      <4> QED
        BY <4>1, Rewrites, Zenon
    <3> QED
      BY <1>4, <3>1, <3>2, Idles DEF MatchAndReserve, Answer
  <2> QED
    BY <1>4, <2>1, <2>2, <2>3, <2>4, <2>5 DEF MatchAndReserve, files, audit
<1>5. CASE BeginAudit
  <2>1. enq.j \in Jobs
    BY <1>5, Workers DEF BeginAudit, Reserved
  <2>2. outbox' \in [Jobs -> Records]
    BY <1>5, <2>1, Idles DEF BeginAudit, AuditBegin, Answer, NoFault, Fault, Records, Phases, Owners,
        Terminal
  <2>3. log' \subseteq Events
    BY <1>5, <2>1, Idles DEF BeginAudit, AuditBegin, Answer, NoFault, Fault, Events, Terminal
  <2>4. staging' \subseteq Temporaries
    BY <1>5, <2>1, Idles DEF BeginAudit, AuditBegin, Answer, NoFault, Fault, Temporaries
  <2>5. enq' \in Enqueues
    BY <1>5, <2>1, Idles DEF BeginAudit, AuditBegin, Answer, NoFault, Fault, Enqueues, EnqLabels,
        SomeJob
  <2>6. faults' \in Nat
    BY <1>5, <2>1, Idles DEF BeginAudit, AuditBegin, Answer, NoFault, Fault
  <2> QED
    BY <1>5, <2>1, <2>2, <2>3, <2>4, <2>5, <2>6 DEF BeginAudit, files, audit
<1>6. CASE PublishSecret
  <2>1. enq.j \in Jobs
    BY <1>6, Workers DEF PublishSecret, Reserved
  <2>2. staging' \subseteq Temporaries
    BY <1>6, <2>1 DEF PublishSecret, NoFault, Fault, Temporaries
  <2>3. secrets' \subseteq SecretNames
    BY <1>6, <2>1 DEF PublishSecret, NoFault, Fault, SecretNames
  <2>4. enq' \in Enqueues
    BY <1>6, <2>1 DEF PublishSecret, NoFault, Fault, Enqueues, EnqLabels, SomeJob
  <2>5. faults' \in Nat
    BY <1>6, <2>1 DEF PublishSecret, NoFault, Fault
  <2> QED
    BY <1>6, <2>1, <2>2, <2>3, <2>4, <2>5 DEF PublishSecret, files, audit
<1>7. CASE PublishJob
  <2>1. enq.j \in Jobs
    BY <1>7, Workers DEF PublishJob, Reserved
  <2>2. requests' \subseteq Jobs
    BY <1>7, <2>1 DEF PublishJob, NoFault, Fault
  <2>3. enq' \in Enqueues
    BY <1>7, <2>1 DEF PublishJob, NoFault, Fault, Enqueues, EnqLabels, SomeJob
  <2>4. faults' \in Nat
    BY <1>7, <2>1 DEF PublishJob, NoFault, Fault
  <2> QED
    BY <1>7, <2>1, <2>2, <2>3, <2>4 DEF PublishJob, files, audit
<1>8. CASE Unpublish
  <2>1. enq.j \in Jobs
    BY <1>8, Workers DEF Unpublish, Reserved
  <2>2. staging' \subseteq Temporaries
    BY <1>8, <2>1, Idles DEF Unpublish, Answer, AuditComplete, MayComplete, Settle, Marked, MarkFails,
        NoFault, Fault, Nobody, Temporaries
  <2>3. secrets' \subseteq SecretNames
    BY <1>8, <2>1, Idles DEF Unpublish, Answer, AuditComplete, MayComplete, Settle, Marked, MarkFails,
        NoFault, Fault, Nobody, SecretNames
  <2>4. outbox' \in [Jobs -> Records]
    <3>1. UNCHANGED <<outbox, log, responses>> \/ Ended(enq.j, "failed")
      BY <1>8, CompleteEffect DEF Unpublish
    <3> QED
      BY <2>1, <3>1, EndedTypes DEF Terminal
  <2>5. log' \subseteq Events
    <3>1. UNCHANGED <<outbox, log, responses>> \/ Ended(enq.j, "failed")
      BY <1>8, CompleteEffect DEF Unpublish
    <3> QED
      BY <2>1, <3>1, EndedTypes DEF Terminal
  <2>6. responses' \in [Jobs -> Answers]
    <3>1. UNCHANGED <<outbox, log, responses>> \/ Ended(enq.j, "failed")
      BY <1>8, CompleteEffect DEF Unpublish
    <3> QED
      BY <2>1, <3>1, EndedTypes DEF Terminal
  <2>7. enq' \in Enqueues
    BY <1>8, <2>1, Idles DEF Unpublish, Answer, AuditComplete, MayComplete, Settle, Marked, MarkFails,
        NoFault, Fault, Nobody, Enqueues, EnqLabels, SomeJob
  <2>8. faults' \in Nat
    BY <1>8, CompleteEffect DEF Unpublish
  <2> QED
    BY <1>8, <2>1, <2>2, <2>3, <2>4, <2>5, <2>6, <2>7, <2>8 DEF Unpublish, files, audit
<1>9. CASE MarkQueued
  <2>1. enq.j \in Jobs
    BY <1>9, Workers DEF MarkQueued, Reserved
  <2>2. outbox' \in [Jobs -> Records]
    BY <1>9, <2>1, Idles DEF MarkQueued, Answer, Records, Phases, Owners, Terminal
  <2>3. staging' \subseteq Temporaries
    BY <1>9, <2>1, Idles DEF MarkQueued, Answer, Temporaries
  <2>4. enq' \in Enqueues
    BY <1>9, <2>1, Idles DEF MarkQueued, Answer, Enqueues, EnqLabels, SomeJob
  <2> QED
    BY <1>9, <2>1, <2>2, <2>3, <2>4 DEF MarkQueued, files, audit
<1>10. CASE SetAdmission
  <2>1. closed' \in BOOLEAN
    BY <1>10 DEF SetAdmission, Fault
  <2>2. faults' \in Nat
    BY <1>10 DEF SetAdmission, Fault
  <2> QED
    BY <1>10, <2>1, <2>2 DEF SetAdmission, files, audit
<1>11. CASE ReconcileRecord
  <2> DEFINE j == Min(rec.todo)
             v == ReconciledPhase(j, DirSeen(j))
  <2>1. rec.todo # {} /\ rec.todo \in SUBSET Jobs
    BY <1>11, SweepEffect DEF Sweeps
  <2>2. j \in Jobs
    BY <2>1, HeadOf
  <2> HIDE DEF j, v
  <2>3. ReconcileReturn(FALSE) => rec' \in Sweeps /\ enq' \in Enqueues /\ ctl' \in [Slots -> Turns]
    <3>1. \A s \in Slots : [ctl[s] EXCEPT !.pc = "idle"] \in Turns
      BY DEF Turns, CtlLabels
    <3> QED
      BY <3>1, Idles DEF ReconcileReturn, Answer
  <2>4. SweepLooks \/ SweepGoesOn(j) => rec' \in Sweeps /\ enq' \in Enqueues /\ ctl' \in [Slots -> Turns]
    <3>1. rec.todo \in SUBSET Jobs /\ rec.look \in 1..3
      BY DEF Sweeps
    <3>2. rec.look < 3 => [rec EXCEPT !.look = @ + 1] \in Sweeps
      BY DEF Sweeps
    <3>3. [rec EXCEPT !.todo = @ \ {j}, !.look = 1] \in Sweeps
      <4>1. rec.todo \ {j} \in SUBSET Jobs /\ 1 \in 1..3 /\ rec \in Sweeps
        BY <3>1
      <4> QED
        BY <4>1, Rewrites, Zenon
    <3> QED
      BY <3>2, <3>3 DEF SweepLooks, SweepGoesOn
  <2>5. CASE SweepLooks
    BY <1>11, <2>4, <2>5, SweepEffect DEF SweepLooks
  <2>6. CASE v \in {"skip", "queued"} /\ SweepGoesOn(j) /\ UNCHANGED <<log, responses>>
             /\ outbox' = IF v = "skip" THEN outbox ELSE [outbox EXCEPT ![j].phase = "queued"]
    <3>1. outbox' \in [Jobs -> Records]
      BY <2>2, <2>6 DEF Records, Phases
    <3> QED
      BY <1>11, <2>4, <2>6, <3>1, SweepEffect
  <2>7. CASE v \in Terminal /\ Ended(j, v) /\ (SweepGoesOn(j) \/ ReconcileReturn(FALSE))
    <3>1. outbox' \in [Jobs -> Records] /\ log' \subseteq Events /\ responses' \in [Jobs -> Answers]
      BY <2>2, <2>7, EndedTypes
    <3>2. rec' \in Sweeps /\ enq' \in Enqueues /\ ctl' \in [Slots -> Turns]
      BY <2>3, <2>4, <2>7
    <3>3. /\ faults' \in Nat
          /\ UNCHANGED <<closed, seq, job, staging, requests, processing, secrets, gen, con, poll, effect, died>>
      BY <1>11, SweepEffect
    <3> QED
      BY <3>1, <3>2, <3>3
  <2> QED
    BY <1>11, <2>5, <2>6, <2>7, SweepEffect DEF j, v
<1>12. CASE ReconcileDone
  <2>1. rec' \in Sweeps
    BY <1>12, Idles DEF ReconcileDone, ReconcileReturn, Answer, Sweeps, Slots
  <2>2. enq' \in Enqueues
    BY <1>12, Idles DEF ReconcileDone, ReconcileReturn, Answer, Enqueues, EnqLabels, SomeJob
  <2>3. ctl' \in [Slots -> Turns]
    BY <1>12, Idles DEF ReconcileDone, ReconcileReturn, Answer, Turns, CtlLabels, SomeJob
  <2> QED
    BY <1>12, <2>1, <2>2, <2>3 DEF ReconcileDone, files, audit
<1>13. ASSUME NEW s \in Slots, BeginTurn(s)
      PROVE  TypeOK'
  <2>1. rec' \in Sweeps
    BY <1>13 DEF BeginTurn, ReconcileBegin, OutboxFree, MayTurn, Turn, Sweeps, Slots
  <2>2. ctl' \in [Slots -> Turns]
    BY <1>13 DEF BeginTurn, ReconcileBegin, OutboxFree, MayTurn, Turn, Turns, CtlLabels,
        SomeJob
  <2> QED
    BY <1>13, <2>1, <2>2 DEF BeginTurn, files, audit
<1>14. ASSUME NEW s \in Slots, Claim(s)
      PROVE  TypeOK'
  <2>1. requests' \subseteq Jobs
    BY <1>14 DEF Claim
  <2>2. processing' \subseteq Jobs
    BY <1>14, HeadOf DEF Claim
  <2>3. ctl' \in [Slots -> Turns]
    <3>1. ASSUME requests # {}
          PROVE  /\ [pc |-> "secret", j |-> Min(requests)] \in Turns
                 /\ [pc |-> "fail", j |-> Min(requests)] \in Turns
      <4>1. Min(requests) \in Jobs
        BY <3>1, HeadOf
      <4> QED
        BY <4>1 DEF Turns, CtlLabels, SomeJob, Jobs
    <3> QED
      BY <1>14, <3>1, Idles DEF Claim
  <2>4. faults' \in Nat
    BY <1>14, Idles DEF Claim, ctlRest, Turn, NoFault, Fault
  <2> QED
    BY <1>14, <2>1, <2>2, <2>3, <2>4 DEF Claim, ctlRest, files, audit
<1>15. ASSUME NEW s \in Slots, ClaimSecret(s)
      PROVE  TypeOK'
  <2>1. ctl[s].j \in Jobs
    BY <1>15, Workers DEF ClaimSecret, Busy, CtlLabels
  <2>2. secrets' \subseteq SecretNames
    BY <1>15, <2>1 DEF ClaimSecret, ctlRest, Turn, NoFault, Fault, SecretNames
  <2>3. ctl' \in [Slots -> Turns]
    BY <1>15, <2>1 DEF ClaimSecret, ctlRest, Turn, NoFault, Fault, Turns, CtlLabels, SomeJob
  <2>4. faults' \in Nat
    BY <1>15, <2>1 DEF ClaimSecret, ctlRest, Turn, NoFault, Fault
  <2> QED
    BY <1>15, <2>1, <2>2, <2>3, <2>4 DEF ClaimSecret, ctlRest, files, audit
<1>16. ASSUME NEW s \in Slots, Dispatch(s)
      PROVE  TypeOK'
  <2>1. ctl[s].j \in Jobs
    BY <1>16, Workers DEF Dispatch, Busy, CtlLabels
  <2>2. con' \in [Slots -> Consumers]
    <3>1. [IdleCon EXCEPT !.pc = "read", !.j = ctl[s].j] \in Consumers
      <4>1. ctl[s].j \in SomeJob /\ "read" \in ConLabels
        BY <2>1 DEF ConLabels, SomeJob, Jobs
      <4> QED
        BY <4>1, Idles, Rewrites, Zenon
    <3> QED
      BY <1>16, <3>1 DEF Dispatch
  <2>3. ctl' \in [Slots -> Turns]
    BY <1>16, <2>1, Idles DEF Dispatch, ctlRest, Turn, Turns, CtlLabels, SomeJob
  <2> QED
    BY <1>16, <2>1, <2>2, <2>3 DEF Dispatch, ctlRest, files, audit
<1>17. ASSUME NEW s \in Slots, Waited(s)
      PROVE  TypeOK'
  <2>1. ctl[s].j \in Jobs
    BY <1>17, Workers DEF Waited, Busy, CtlLabels
  <2>2. ctl' \in [Slots -> Turns]
    BY <1>17, <2>1 DEF Waited, ctlRest, Turn, Turns, CtlLabels, SomeJob
  <2> QED
    BY <1>17, <2>1, <2>2 DEF Waited, ctlRest, files, audit
<1>18. ASSUME NEW s \in Slots, FailClaim(s)
      PROVE  TypeOK'
  <2>1. ctl[s].j \in Jobs
    BY <1>18, Workers DEF FailClaim, Busy, CtlLabels
  <2>2. outbox' \in [Jobs -> Records]
    <3>1. [phase |-> "executing", owner |-> <<"controller", ctl[s].j>>] \in Records
      BY <2>1 DEF Records, Phases, Owners, Jobs
    <3> QED
      BY <1>18, <2>1, <3>1 DEF FailClaim, AuditClaim
  <2>3. ctl' \in [Slots -> Turns]
    BY <1>18, <2>1 DEF FailClaim, AuditClaim, Turn, Turns, CtlLabels, SomeJob
  <2> QED
    BY <1>18, <2>1, <2>2, <2>3 DEF FailClaim, files, audit
<1>19. ASSUME NEW s \in Slots, FailClose(s)
      PROVE  TypeOK'
  <2>1. ctl[s].j \in Jobs
    BY <1>19, Workers DEF FailClose, Busy, CtlLabels
  <2>2. outbox' \in [Jobs -> Records]
    <3>1. UNCHANGED <<outbox, log, responses>> \/ Ended(ctl[s].j, "failed")
      BY <1>19, CompleteEffect DEF FailClose
    <3> QED
      BY <2>1, <3>1, EndedTypes DEF Terminal
  <2>3. log' \subseteq Events
    <3>1. UNCHANGED <<outbox, log, responses>> \/ Ended(ctl[s].j, "failed")
      BY <1>19, CompleteEffect DEF FailClose
    <3> QED
      BY <2>1, <3>1, EndedTypes DEF Terminal
  <2>4. responses' \in [Jobs -> Answers]
    <3>1. UNCHANGED <<outbox, log, responses>> \/ Ended(ctl[s].j, "failed")
      BY <1>19, CompleteEffect DEF FailClose
    <3> QED
      BY <2>1, <3>1, EndedTypes DEF Terminal
  <2>5. con' \in [Slots -> Consumers]
    <3>1. \E pending \in BOOLEAN : con' = [con EXCEPT ![s].pending = pending]
      BY <1>19 DEF FailClose
    <3> QED
      BY <3>1 DEF Consumers, ConLabels
  <2>6. ctl' \in [Slots -> Turns]
    BY <1>19 DEF FailClose, Turn, Turns, CtlLabels
  <2>7. faults' \in Nat
    BY <1>19, CompleteEffect DEF FailClose
  <2> QED
    BY <1>19, <2>1, <2>2, <2>3, <2>4, <2>5, <2>6, <2>7 DEF FailClose, files, audit
<1>20. ASSUME NEW s \in Slots, FailAnswer(s)
      PROVE  TypeOK'
  <2>1. ctl[s].j \in Jobs
    BY <1>20, Workers DEF FailAnswer, Busy, CtlLabels
  <2>2. secrets' \subseteq SecretNames
    BY <1>20, <2>1 DEF FailAnswer, Turn, SecretNames
  <2>3. responses' \in [Jobs -> Answers]
    <3>1. [st |-> "failed", pending |-> con[s].pending] \in Answers
      BY DEF Consumers, Answers
    <3> QED
      BY <1>20, <2>1, <3>1 DEF FailAnswer
  <2>4. ctl' \in [Slots -> Turns]
    BY <1>20, <2>1 DEF FailAnswer, Turn, Turns, CtlLabels, SomeJob
  <2> QED
    BY <1>20, <2>1, <2>2, <2>3, <2>4 DEF FailAnswer, files, audit
<1>21. ASSUME NEW s \in Slots, FinishTurn(s)
      PROVE  TypeOK'
  <2>1. ctl[s].j \in Jobs
    BY <1>21, Workers DEF FinishTurn, Busy, CtlLabels
  <2>2. processing' \subseteq Jobs
    BY <1>21, <2>1, Idles DEF FinishTurn, ctlRest
  <2>3. secrets' \subseteq SecretNames
    BY <1>21, <2>1, Idles DEF FinishTurn, ctlRest, SecretNames
  <2>4. ctl' \in [Slots -> Turns]
    BY <1>21, <2>1, Idles DEF FinishTurn, ctlRest, Turns, CtlLabels, SomeJob
  <2>5. con' \in [Slots -> Consumers]
    BY <1>21, <2>1, Idles DEF FinishTurn, ctlRest, Consumers, ConLabels, SomeJob
  <2> QED
    BY <1>21, <2>1, <2>2, <2>3, <2>4, <2>5 DEF FinishTurn, ctlRest, files, audit
<1>22. ASSUME NEW s \in Slots, ConsumerClaim(s)
      PROVE  TypeOK'
  <2>1. con[s].j \in Jobs
    BY <1>22, Workers DEF ConsumerClaim, Busy, CtlLabels
  <2>2. outbox' \in [Jobs -> Records]
    <3>1. [phase |-> "executing", owner |-> <<"consumer", con[s].j>>] \in Records
      BY <2>1 DEF Records, Phases, Owners, Jobs
    <3> QED
      BY <1>22, <2>1, <3>1 DEF ConsumerClaim, AuditClaim
  <2>3. con' \in [Slots -> Consumers]
    <3>1. \/ con' = [con EXCEPT ![s].pc = "run"]
          \/ con' = [con EXCEPT ![s].pc = "close", ![s].v = "failed"]
      BY <1>22 DEF ConsumerClaim, Goes
    <3> QED
      BY <3>1 DEF Consumers, ConLabels
  <2>4. faults' \in Nat
    BY <1>22, <2>1 DEF ConsumerClaim, conRest, Goes, AuditClaim, NoFault, Fault
  <2> QED
    BY <1>22, <2>1, <2>2, <2>3, <2>4 DEF ConsumerClaim, conRest, files, audit
<1>23. ASSUME NEW s \in Slots, ConsumerRun(s)
      PROVE  TypeOK'
  <2>1. con[s].j \in Jobs
    BY <1>23, Workers DEF ConsumerRun, Busy, CtlLabels
  <2>2. secrets' \subseteq SecretNames
    BY <1>23, <2>1 DEF ConsumerRun, conRest, Goes, SecretNames
  <2>3. effect' \in [Jobs -> {"none", "partial", "done"}]
    BY <1>23, <2>1 DEF ConsumerRun, conRest, Goes
  <2>4. con' \in [Slots -> Consumers]
    BY <1>23, <2>1 DEF ConsumerRun, conRest, Goes, Consumers, ConLabels, SomeJob
  <2> QED
    BY <1>23, <2>1, <2>2, <2>3, <2>4 DEF ConsumerRun, conRest, files, audit
<1>24. ASSUME NEW s \in Slots, ConsumerRan(s)
      PROVE  TypeOK'
  <2>1. con[s].j \in Jobs
    BY <1>24, Workers DEF ConsumerRan, Busy, CtlLabels
  <2>2. effect' \in [Jobs -> {"none", "partial", "done"}]
    BY <1>24, <2>1 DEF ConsumerRan, conRest, Goes
  <2>3. con' \in [Slots -> Consumers]
    <3>1. PICK v \in {"succeeded", "failed"} : con' = [con EXCEPT ![s].pc = "close", ![s].v = v]
      BY <1>24 DEF ConsumerRan
    <3> QED
      BY <3>1 DEF Consumers, ConLabels
  <2> QED
    BY <1>24, <2>1, <2>2, <2>3 DEF ConsumerRan, conRest, files, audit
<1>25. ASSUME NEW s \in Slots, ConsumerClose(s)
      PROVE  TypeOK'
  <2>1. con[s].j \in Jobs /\ con[s].v \in Terminal
    BY <1>25, Workers DEF ConsumerClose, AnswerInv, Consumers, Terminal, Busy, CtlLabels
  <2>2. outbox' \in [Jobs -> Records]
    <3>1. UNCHANGED <<outbox, log, responses>> \/ Ended(con[s].j, con[s].v)
      BY <1>25, CompleteEffect DEF ConsumerClose
    <3> QED
      BY <2>1, <3>1, EndedTypes DEF Terminal
  <2>3. log' \subseteq Events
    <3>1. UNCHANGED <<outbox, log, responses>> \/ Ended(con[s].j, con[s].v)
      BY <1>25, CompleteEffect DEF ConsumerClose
    <3> QED
      BY <2>1, <3>1, EndedTypes DEF Terminal
  <2>4. responses' \in [Jobs -> Answers]
    <3>1. UNCHANGED <<outbox, log, responses>> \/ Ended(con[s].j, con[s].v)
      BY <1>25, CompleteEffect DEF ConsumerClose
    <3> QED
      BY <2>1, <3>1, EndedTypes DEF Terminal
  <2>5. con' \in [Slots -> Consumers]
    <3>1. \A p \in BOOLEAN : [con[s] EXCEPT !.pc = "answer", !.pending = p] \in Consumers
      BY Rewrites DEF ConLabels
    <3> QED
      BY <1>25, <3>1 DEF ConsumerClose
  <2>6. faults' \in Nat
    BY <1>25, CompleteEffect DEF ConsumerClose
  <2> QED
    BY <1>25, <2>1, <2>2, <2>3, <2>4, <2>5, <2>6 DEF ConsumerClose, conRest, files, audit
<1>26. ASSUME NEW s \in Slots, ConsumerAnswer(s)
      PROVE  TypeOK'
  <2>1. con[s].j \in Jobs
    BY <1>26, Workers DEF ConsumerAnswer, Busy, CtlLabels
  <2>2. secrets' \subseteq SecretNames
    BY <1>26, <2>1 DEF ConsumerAnswer, conRest, Goes, SecretNames
  <2>3. responses' \in [Jobs -> Answers]
    <3>1. [st |-> con[s].v, pending |-> con[s].pending] \in Answers
      BY DEF Consumers, Answers
    <3> QED
      BY <1>26, <2>1, <3>1 DEF ConsumerAnswer
  <2>4. staging' \subseteq Temporaries
    BY <1>26, <2>1 DEF ConsumerAnswer, conRest, Goes, Temporaries
  <2>5. con' \in [Slots -> Consumers]
    BY <1>26, <2>1 DEF ConsumerAnswer, conRest, Goes, Consumers, ConLabels, SomeJob
  <2> QED
    BY <1>26, <2>1, <2>2, <2>3, <2>4, <2>5 DEF ConsumerAnswer, conRest, files, audit
<1>27. ASSUME NEW s \in Slots, ConsumerUnlink(s)
      PROVE  TypeOK'
  <2>1. con[s].j \in Jobs
    BY <1>27, Workers DEF ConsumerUnlink, Busy, CtlLabels
  <2>2. staging' \subseteq Temporaries
    BY <1>27, <2>1 DEF ConsumerUnlink, conRest, Goes, Temporaries
  <2>3. con' \in [Slots -> Consumers]
    BY <1>27, <2>1 DEF ConsumerUnlink, conRest, Goes, Consumers, ConLabels, SomeJob
  <2> QED
    BY <1>27, <2>1, <2>2, <2>3 DEF ConsumerUnlink, conRest, files, audit
<1>28. ASSUME NEW s \in Slots, KillConsumer(s)
      PROVE  TypeOK'
  <2>1. con' \in [Slots -> Consumers]
    BY <1>28, Idles DEF KillConsumer, Fault, Killed, Consumers, ConLabels, SomeJob
  <2>2. died' \subseteq Jobs
    BY <1>28, Workers DEF KillConsumer, Killed
  <2>3. faults' \in Nat
    BY <1>28, Idles DEF KillConsumer, Fault, Killed
  <2> QED
    BY <1>28, <2>1, <2>2, <2>3 DEF KillConsumer, files, audit
<1>29. ASSUME NEW j \in Jobs, PruneClaim(j)
      PROVE  TypeOK'
  <2>1. processing' \subseteq Jobs
    BY <1>29 DEF PruneClaim, ctlRest
  <2>2. secrets' \subseteq SecretNames
    BY <1>29 DEF PruneClaim, ctlRest, SecretNames
  <2> QED
    BY <1>29, <2>1, <2>2 DEF PruneClaim, ctlRest, files, audit
<1>30. ASSUME NEW j \in Jobs, NEW kind \in {"result", "status"}, PollBegin(j, kind)
      PROVE  TypeOK'
  <2>1. poll' \in Polls
    BY <1>30 DEF PollBegin, Polls, SomeJob, Jobs
  <2> QED
    BY <1>30, <2>1 DEF PollBegin, files, audit
<1>31. CASE PollRead
  <2>1. poll' \in Polls
    <3>1. poll.step \in 1..4 => [poll EXCEPT !.step = 0, !.answer = "gone"] \in Polls
      <4>1. poll \in Polls /\ 0 \in 0..8 /\ "gone" \in {"none", "gone"}
        OBVIOUS
      <4> QED
        BY <4>1, Rewrites, Zenon
    <3>2. poll.step \in 1..4 => [poll EXCEPT !.step = @ + 1] \in Polls
      BY DEF Polls
    <3>3. Len(PollOrder) = 4
      BY DEF PollOrder
    <3> QED
      BY <1>31, <3>1, <3>2, <3>3, Idles DEF PollRead
  <2> QED
    BY <1>31, <2>1 DEF PollRead, files, audit
<1>32. CASE StatusRead
  <2>1. poll' \in Polls
    <3>1. JobNames \in SUBSET Jobs
      BY DEF JobNames
    <3>0. poll.step \in 0..8 /\ (poll.step # 8 => poll.step + 1 \in 0..8)
      BY DEF Polls
    <3>2. poll.step # 8 => [poll EXCEPT !.step = @ + 1, !.names = JobNames] \in Polls
      BY <3>0, <3>1, Rewrites
    <3>3. poll.step # 8 => [poll EXCEPT !.step = @ + 1, !.names = {}] \in Polls
      BY <3>0, Rewrites
    <3>4. [poll EXCEPT !.step = 0, !.names = {}, !.answer = "gone"] \in Polls
      <4>1. poll \in Polls /\ 0 \in 0..8 /\ {} \in SUBSET Jobs /\ "gone" \in {"none", "gone"}
        OBVIOUS
      <4> QED
        BY <4>1, Rewrites, Zenon
    <3>5. poll.step % 2 = 1 => poll.step # 8
      OBVIOUS
    <3> QED
      BY <1>32, <3>2, <3>3, <3>4, <3>5, Idles DEF StatusRead, StatusAnswer
  <2> QED
    BY <1>32, <2>1 DEF StatusRead, files, audit
<1>33. CASE PollReconcile
  <2>1. rec' \in Sweeps
    BY <1>33 DEF PollReconcile, ReconcileBegin, OutboxFree, Sweeps, Slots
  <2> QED
    BY <1>33, <2>1 DEF PollReconcile, files, audit
<1>34. CASE KillService
  <2>1. gen' \in Nat
    BY <1>34, Idles DEF KillService, Fault
  <2>2. enq' \in Enqueues
    BY <1>34, Idles DEF KillService, Fault, Enqueues, EnqLabels, SomeJob
  <2>3. rec' \in Sweeps
    BY <1>34, Idles DEF KillService, Fault, Sweeps, Slots
  <2>4. faults' \in Nat
    BY <1>34, Idles DEF KillService, Fault
  <2> QED
    BY <1>34, <2>1, <2>2, <2>3, <2>4 DEF KillService, files, audit
<1>35. CASE KillDuringBegin
  <2>1. enq.j \in Jobs
    BY <1>35, Workers DEF KillDuringBegin, Reserved
  <2>2. outbox' \in [Jobs -> Records]
    BY <1>35, <2>1, Idles DEF KillDuringBegin, Fault, Records, Phases, Owners, Terminal
  <2>3. log' \subseteq Events
    BY <1>35, <2>1, Idles DEF KillDuringBegin, Fault, Events, Terminal
  <2>4. gen' \in Nat
    BY <1>35, <2>1, Idles DEF KillDuringBegin, Fault
  <2>5. enq' \in Enqueues
    BY <1>35, <2>1, Idles DEF KillDuringBegin, Fault, Enqueues, EnqLabels, SomeJob
  <2>6. faults' \in Nat
    BY <1>35, <2>1, Idles DEF KillDuringBegin, Fault
  <2> QED
    BY <1>35, <2>1, <2>2, <2>3, <2>4, <2>5, <2>6 DEF KillDuringBegin, files, audit
<1>36. CASE Restart
  <2>1. gen' \in Nat
    BY <1>36, Idles DEF Restart, Fault, Killed
  <2>2. enq' \in Enqueues
    BY <1>36, Idles DEF Restart, Fault, Killed, Enqueues, EnqLabels, SomeJob
  <2>3. rec' \in Sweeps
    BY <1>36, Idles DEF Restart, Fault, Killed, Sweeps, Slots
  <2>4. poll' \in Polls
    BY <1>36, Idles DEF Restart, Fault, Killed, Polls, SomeJob
  <2>5. ctl' \in [Slots -> Turns]
    BY <1>36, Idles DEF Restart, Fault, Killed, Turns, CtlLabels, SomeJob
  <2>6. con' \in [Slots -> Consumers]
    BY <1>36, Idles DEF Restart, Fault, Killed, Consumers, ConLabels, SomeJob
  <2>7. died' \subseteq Jobs
    BY <1>36, Workers DEF Restart, Killed
  <2>8. faults' \in Nat
    BY <1>36, Idles DEF Restart, Fault, Killed
  <2> QED
    BY <1>36, <2>1, <2>2, <2>3, <2>4, <2>5, <2>6, <2>7, <2>8 DEF Restart, files, audit
<1> QED
  BY <1>1, <1>2, <1>3, <1>4, <1>5, <1>6, <1>7, <1>8, <1>9, <1>10, <1>11,
        <1>12, <1>13, <1>14, <1>15, <1>16, <1>17, <1>18, <1>19, <1>20, <1>21,
        <1>22, <1>23, <1>24, <1>25, <1>26, <1>27, <1>28, <1>29, <1>30, <1>31,
        <1>32, <1>33, <1>34, <1>35, <1>36
  DEF Next, ServiceStep, ControllerStep, ConsumerStep

(* Which operation may change what.                                        *)
Footprints ==
    /\ UNCHANGED seq \/ MatchAndReserve
    /\ UNCHANGED job \/ MatchAndReserve
    /\ UNCHANGED staging \/ Recover \/ MatchAndReserve \/ BeginAudit \/ PublishSecret \/
          Unpublish \/ MarkQueued \/ (\E s \in Slots : ConsumerAnswer(s) \/ ConsumerUnlink(s))
    /\ UNCHANGED requests \/ PublishJob \/ (\E s \in Slots : Claim(s))
    /\ UNCHANGED processing \/ (\E j \in Jobs : PruneClaim(j)) \/
          (\E s \in Slots : Claim(s) \/ FinishTurn(s))
    /\ UNCHANGED secrets \/ Recover \/ PublishSecret \/ Unpublish \/
          (\E j \in Jobs : PruneClaim(j)) \/
          (\E s \in Slots : ClaimSecret(s) \/ FailAnswer(s) \/ FinishTurn(s) \/ ConsumerRun(s)) \/
          (\E s \in Slots : ConsumerAnswer(s))
    /\ UNCHANGED responses \/ Unpublish \/ ReconcileRecord \/
          (\E s \in Slots : FailClose(s) \/ FailAnswer(s) \/ ConsumerClose(s) \/ ConsumerAnswer(s))
    /\ UNCHANGED outbox \/ BeginAudit \/ Unpublish \/ MarkQueued \/ ReconcileRecord \/
          KillDuringBegin \/
          (\E s \in Slots : FailClaim(s) \/ FailClose(s) \/ ConsumerClaim(s) \/ ConsumerClose(s))
    /\ UNCHANGED log \/ BeginAudit \/ Unpublish \/ ReconcileRecord \/ KillDuringBegin \/
          (\E s \in Slots : FailClose(s) \/ ConsumerClose(s))
    /\ UNCHANGED enq \/ Recover \/ ScanBefore \/ MatchAndReserve \/ BeginAudit \/
          PublishSecret \/ PublishJob \/ Unpublish \/ MarkQueued \/ ReconcileRecord \/
          ReconcileDone \/ KillService \/ KillDuringBegin \/ Restart \/
          (\E k \in Keys, b \in Bodies : Enqueue(k, b))
    /\ UNCHANGED ctl \/ ReconcileRecord \/ ReconcileDone \/ Restart \/
          (\E s \in Slots : BeginTurn(s) \/ Claim(s) \/ ClaimSecret(s) \/ Dispatch(s)) \/
          (\E s \in Slots : Waited(s) \/ FailClaim(s) \/ FailClose(s) \/ FailAnswer(s)) \/
          (\E s \in Slots : FinishTurn(s))
    /\ UNCHANGED con \/ Restart \/
          (\E s \in Slots : Dispatch(s) \/ FailClose(s) \/ FinishTurn(s) \/ ConsumerClaim(s)) \/
          (\E s \in Slots : ConsumerRun(s) \/ ConsumerRan(s) \/ ConsumerClose(s) \/ ConsumerAnswer(s)) \/
          (\E s \in Slots : ConsumerUnlink(s) \/ KillConsumer(s))
    /\ UNCHANGED rec \/ ReconcileRecord \/ ReconcileDone \/ PollReconcile \/ KillService \/
          Restart \/ (\E k \in Keys, b \in Bodies : Enqueue(k, b)) \/
          (\E s \in Slots : BeginTurn(s))
    /\ UNCHANGED poll \/ PollRead \/ StatusRead \/ Restart \/
          (\E j \in Jobs, kind \in {"result", "status"} : PollBegin(j, kind))
    /\ UNCHANGED effect \/ (\E s \in Slots : ConsumerRun(s) \/ ConsumerRan(s))
    /\ UNCHANGED died \/ Restart \/ (\E s \in Slots : KillConsumer(s))

(* Every step of the service is one of the footprints: it names the actor that*)
(* moves and leaves the other actors' state alone.                         *)
LEMMA Frames ==
    ASSUME Next
    PROVE  Footprints
<1>1. ASSUME NEW k \in Keys, NEW b \in Bodies, Enqueue(k, b) 
      PROVE  Footprints
  <2>1. UNCHANGED <<closed, seq, job, staging, requests, processing, secrets,
        responses, outbox, log, gen, ctl, con, poll, effect, died, faults>>
    BY <1>1 DEF Enqueue, ReconcileBegin, files, audit
  <2> QED
    BY <1>1, <2>1 DEF Footprints
<1>2. CASE Recover
  <2>1. UNCHANGED <<closed, seq, job, requests, processing, responses, outbox,
        log, gen, ctl, con, rec, poll, effect, died, faults>>
    BY <1>2 DEF Recover, files, audit
  <2> QED
    BY <1>2, <2>1 DEF Footprints
<1>3. CASE ScanBefore
  <2>1. UNCHANGED <<closed, seq, job, staging, requests, processing, secrets,
        responses, outbox, log, gen, ctl, con, rec, poll, effect, died, faults>>
    BY <1>3 DEF ScanBefore, files, audit
  <2> QED
    BY <1>3, <2>1 DEF Footprints
<1>4. CASE MatchAndReserve
  <2>1. UNCHANGED <<closed, requests, processing, secrets, responses, outbox,
        log, gen, ctl, con, rec, poll, effect, died, faults>>
    BY <1>4 DEF MatchAndReserve, files, audit
  <2> QED
    BY <1>4, <2>1 DEF Footprints
<1>5. CASE BeginAudit
  <2>1. UNCHANGED <<closed, seq, job, requests, processing, secrets,
        responses, gen, ctl, con, rec, poll, effect, died>>
    BY <1>5 DEF BeginAudit, NoFault, files, audit
  <2> QED
    BY <1>5, <2>1 DEF Footprints
<1>6. CASE PublishSecret
  <2>1. UNCHANGED <<closed, seq, job, requests, processing, responses, outbox,
        log, gen, ctl, con, rec, poll, effect, died>>
    BY <1>6 DEF PublishSecret, NoFault, files, audit
  <2> QED
    BY <1>6, <2>1 DEF Footprints
<1>7. CASE PublishJob
  <2>1. UNCHANGED <<closed, seq, job, staging, processing, secrets, responses,
        outbox, log, gen, ctl, con, rec, poll, effect, died>>
    BY <1>7 DEF PublishJob, NoFault, files, audit
  <2> QED
    BY <1>7, <2>1 DEF Footprints
<1>8. CASE Unpublish
  <2>1. UNCHANGED <<closed, seq, job, requests, processing, gen, ctl, con,
        rec, poll, effect, died>>
    BY <1>8 DEF Unpublish, NoFault, files, audit
  <2> QED
    BY <1>8, <2>1 DEF Footprints
<1>9. CASE MarkQueued
  <2>1. UNCHANGED <<closed, seq, job, requests, processing, secrets,
        responses, log, gen, ctl, con, rec, poll, effect, died, faults>>
    BY <1>9 DEF MarkQueued, files, audit
  <2> QED
    BY <1>9, <2>1 DEF Footprints
<1>10. CASE SetAdmission
  <2>1. UNCHANGED <<seq, job, staging, requests, processing, secrets,
        responses, outbox, log, enq, gen, ctl, con, rec, poll, effect, died>>
    BY <1>10 DEF SetAdmission, files, audit
  <2> QED
    BY <1>10, <2>1 DEF Footprints
<1>11. CASE ReconcileRecord
  <2>1. UNCHANGED <<closed, seq, job, staging, requests, processing, secrets,
        gen, con, poll, effect, died>>
    BY <1>11, SweepEffect
  <2> QED
    BY <1>11, <2>1 DEF Footprints
<1>12. CASE ReconcileDone
  <2>1. UNCHANGED <<closed, seq, job, staging, requests, processing, secrets,
        responses, outbox, log, gen, con, poll, effect, died, faults>>
    BY <1>12 DEF ReconcileDone, ReconcileReturn, files, audit
  <2> QED
    BY <1>12, <2>1 DEF Footprints
<1>13. ASSUME NEW s \in Slots, BeginTurn(s) 
      PROVE  Footprints
  <2>1. UNCHANGED <<closed, seq, job, staging, requests, processing, secrets,
        responses, outbox, log, enq, gen, con, poll, effect, died, faults>>
    BY <1>13 DEF BeginTurn, ReconcileBegin, files, audit
  <2> QED
    BY <1>13, <2>1 DEF Footprints
<1>14. ASSUME NEW s \in Slots, Claim(s) 
      PROVE  Footprints
  <2>1. UNCHANGED <<closed, seq, job, staging, secrets, responses, outbox,
        log, enq, gen, con, rec, poll, effect, died>>
    BY <1>14 DEF Claim, ctlRest, NoFault, files, audit
  <2> QED
    BY <1>14, <2>1 DEF Footprints
<1>15. ASSUME NEW s \in Slots, ClaimSecret(s) 
      PROVE  Footprints
  <2>1. UNCHANGED <<closed, seq, job, staging, requests, processing,
        responses, outbox, log, enq, gen, con, rec, poll, effect, died>>
    BY <1>15 DEF ClaimSecret, ctlRest, NoFault, files, audit
  <2> QED
    BY <1>15, <2>1 DEF Footprints
<1>16. ASSUME NEW s \in Slots, Dispatch(s) 
      PROVE  Footprints
  <2>1. UNCHANGED <<closed, seq, job, staging, requests, processing, secrets,
        responses, outbox, log, enq, gen, rec, poll, effect, died, faults>>
    BY <1>16 DEF Dispatch, ctlRest, files, audit
  <2> QED
    BY <1>16, <2>1 DEF Footprints
<1>17. ASSUME NEW s \in Slots, Waited(s) 
      PROVE  Footprints
  <2>1. UNCHANGED <<closed, seq, job, staging, requests, processing, secrets,
        responses, outbox, log, enq, gen, con, rec, poll, effect, died, faults>>
    BY <1>17 DEF Waited, ctlRest, files, audit
  <2> QED
    BY <1>17, <2>1 DEF Footprints
<1>18. ASSUME NEW s \in Slots, FailClaim(s) 
      PROVE  Footprints
  <2>1. UNCHANGED <<closed, seq, job, staging, requests, processing, secrets,
        responses, log, enq, gen, con, rec, poll, effect, died, faults>>
    BY <1>18 DEF FailClaim, files, audit
  <2> QED
    BY <1>18, <2>1 DEF Footprints
<1>19. ASSUME NEW s \in Slots, FailClose(s) 
      PROVE  Footprints
  <2>1. UNCHANGED <<closed, seq, job, staging, requests, processing, secrets,
        enq, gen, rec, poll, effect, died>>
    BY <1>19 DEF FailClose, NoFault, files, audit
  <2> QED
    BY <1>19, <2>1 DEF Footprints
<1>20. ASSUME NEW s \in Slots, FailAnswer(s) 
      PROVE  Footprints
  <2>1. UNCHANGED <<closed, seq, job, staging, requests, processing, outbox,
        log, enq, gen, con, rec, poll, effect, died, faults>>
    BY <1>20 DEF FailAnswer, files, audit
  <2> QED
    BY <1>20, <2>1 DEF Footprints
<1>21. ASSUME NEW s \in Slots, FinishTurn(s) 
      PROVE  Footprints
  <2>1. UNCHANGED <<closed, seq, job, staging, requests, responses, outbox,
        log, enq, gen, rec, poll, effect, died, faults>>
    BY <1>21 DEF FinishTurn, ctlRest, files, audit
  <2> QED
    BY <1>21, <2>1 DEF Footprints
<1>22. ASSUME NEW s \in Slots, ConsumerClaim(s) 
      PROVE  Footprints
  <2>1. UNCHANGED <<closed, seq, job, staging, requests, processing, secrets,
        responses, log, enq, gen, ctl, rec, poll, effect, died>>
    BY <1>22 DEF ConsumerClaim, conRest, NoFault, files, audit
  <2> QED
    BY <1>22, <2>1 DEF Footprints
<1>23. ASSUME NEW s \in Slots, ConsumerRun(s) 
      PROVE  Footprints
  <2>1. UNCHANGED <<closed, seq, job, staging, requests, processing,
        responses, outbox, log, enq, gen, ctl, rec, poll, died, faults>>
    BY <1>23 DEF ConsumerRun, conRest, files, audit
  <2> QED
    BY <1>23, <2>1 DEF Footprints
<1>24. ASSUME NEW s \in Slots, ConsumerRan(s) 
      PROVE  Footprints
  <2>1. UNCHANGED <<closed, seq, job, staging, requests, processing, secrets,
        responses, outbox, log, enq, gen, ctl, rec, poll, died, faults>>
    BY <1>24 DEF ConsumerRan, conRest, files, audit
  <2> QED
    BY <1>24, <2>1 DEF Footprints
<1>25. ASSUME NEW s \in Slots, ConsumerClose(s) 
      PROVE  Footprints
  <2>1. UNCHANGED <<closed, seq, job, staging, requests, processing, secrets,
        enq, gen, ctl, rec, poll, effect, died>>
    BY <1>25 DEF ConsumerClose, conRest, NoFault, files, audit
  <2> QED
    BY <1>25, <2>1 DEF Footprints
<1>26. ASSUME NEW s \in Slots, ConsumerAnswer(s) 
      PROVE  Footprints
  <2>1. UNCHANGED <<closed, seq, job, requests, processing, outbox, log, enq,
        gen, ctl, rec, poll, effect, died, faults>>
    BY <1>26 DEF ConsumerAnswer, conRest, files, audit
  <2> QED
    BY <1>26, <2>1 DEF Footprints
<1>27. ASSUME NEW s \in Slots, ConsumerUnlink(s) 
      PROVE  Footprints
  <2>1. UNCHANGED <<closed, seq, job, requests, processing, secrets,
        responses, outbox, log, enq, gen, ctl, rec, poll, effect, died, faults>>
    BY <1>27 DEF ConsumerUnlink, conRest, files, audit
  <2> QED
    BY <1>27, <2>1 DEF Footprints
<1>28. ASSUME NEW s \in Slots, KillConsumer(s) 
      PROVE  Footprints
  <2>1. UNCHANGED <<closed, seq, job, staging, requests, processing, secrets,
        responses, outbox, log, enq, gen, ctl, rec, poll, effect>>
    BY <1>28 DEF KillConsumer, files, audit
  <2> QED
    BY <1>28, <2>1 DEF Footprints
<1>29. ASSUME NEW j \in Jobs, PruneClaim(j) 
      PROVE  Footprints
  <2>1. UNCHANGED <<closed, seq, job, staging, requests, responses, outbox,
        log, enq, gen, ctl, con, rec, poll, effect, died, faults>>
    BY <1>29 DEF PruneClaim, ctlRest, files, audit
  <2> QED
    BY <1>29, <2>1 DEF Footprints
<1>30. ASSUME NEW j \in Jobs, NEW kind \in {"result", "status"}, PollBegin(j, kind) 
      PROVE  Footprints
  <2>1. UNCHANGED <<closed, seq, job, staging, requests, processing, secrets,
        responses, outbox, log, enq, gen, ctl, con, rec, effect, died, faults>>
    BY <1>30 DEF PollBegin, files, audit
  <2> QED
    BY <1>30, <2>1 DEF Footprints
<1>31. CASE PollRead
  <2>1. UNCHANGED <<closed, seq, job, staging, requests, processing, secrets,
        responses, outbox, log, enq, gen, ctl, con, rec, effect, died, faults>>
    BY <1>31 DEF PollRead, files, audit
  <2> QED
    BY <1>31, <2>1 DEF Footprints
<1>32. CASE StatusRead
  <2>1. UNCHANGED <<closed, seq, job, staging, requests, processing, secrets,
        responses, outbox, log, enq, gen, ctl, con, rec, effect, died, faults>>
    BY <1>32 DEF StatusRead, files, audit
  <2> QED
    BY <1>32, <2>1 DEF Footprints
<1>33. CASE PollReconcile
  <2>1. UNCHANGED <<closed, seq, job, staging, requests, processing, secrets,
        responses, outbox, log, enq, gen, ctl, con, poll, effect, died, faults>>
    BY <1>33 DEF PollReconcile, ReconcileBegin, files, audit
  <2> QED
    BY <1>33, <2>1 DEF Footprints
<1>34. CASE KillService
  <2>1. UNCHANGED <<closed, seq, job, staging, requests, processing, secrets,
        responses, outbox, log, ctl, con, poll, effect, died>>
    BY <1>34 DEF KillService, files, audit
  <2> QED
    BY <1>34, <2>1 DEF Footprints
<1>35. CASE KillDuringBegin
  <2>1. UNCHANGED <<closed, seq, job, staging, requests, processing, secrets,
        responses, ctl, con, rec, poll, effect, died>>
    BY <1>35 DEF KillDuringBegin, files, audit
  <2> QED
    BY <1>35, <2>1 DEF Footprints
<1>36. CASE Restart
  <2>1. UNCHANGED <<closed, seq, job, staging, requests, processing, secrets,
        responses, outbox, log, effect>>
    BY <1>36 DEF Restart, files, audit
  <2> QED
    BY <1>36, <2>1 DEF Footprints
<1> QED
  BY <1>1, <1>2, <1>3, <1>4, <1>5, <1>6, <1>7, <1>8, <1>9, <1>10, <1>11,
        <1>12, <1>13, <1>14, <1>15, <1>16, <1>17, <1>18, <1>19, <1>20, <1>21,
        <1>22, <1>23, <1>24, <1>25, <1>26, <1>27, <1>28, <1>29, <1>30, <1>31,
        <1>32, <1>33, <1>34, <1>35, <1>36
  DEF Next, ServiceStep, ControllerStep, ConsumerStep

(***************************************************************************)
(* How the job files move.                                                 *)
(***************************************************************************)

(* Ending a record rewrites no result; it may clear the pending mark.      *)
LEMMA EndedAnswers ==
    ASSUME NEW i \in Jobs, NEW v, TypeOK, Ended(i, v)
    PROVE  \A j \in Jobs : responses'[j].st = responses[j].st
  BY DEF Ended, TypeOK, FileTypes, Answers

(* The record a sweep looks at is a job's.                                 *)
LEMMA SweptJob ==
    ASSUME QInv, ReconcileRecord
    PROVE  Min(rec.todo) \in rec.todo /\ Min(rec.todo) \in Jobs
  <1>1. rec.todo # {} /\ rec.todo \in SUBSET Jobs
    BY SweepEffect DEF QInv, TypeOK, ActorTypes, Sweeps
  <1> QED
    BY <1>1, HeadOf

(* A result is published once, by the turn or the consumer that has the    *)
(* job, and is never withdrawn (write_response).                           *)
LEMMA AnswersStep ==
    ASSUME QInv, Next, NEW j \in Jobs
    PROVE  \/ responses'[j].st = responses[j].st
           \/ /\ responses[j].st = "none" /\ responses'[j].st # "none" /\ j \in processing
              /\ \E s \in Slots :
                    \/ FailAnswer(s) /\ ctl[s].j = j /\ responses'[j].st = "failed"
                    \/ ConsumerAnswer(s) /\ con[s].j = j /\ responses'[j].st = con[s].v
<1> USE DEF QInv
<1>1. CASE UNCHANGED responses
  BY <1>1
<1>2. CASE Unpublish
  <2>1. enq.j \in Jobs
    BY <1>2, Workers DEF Unpublish, Reserved
  <2>2. UNCHANGED responses \/ Ended(enq.j, "failed")
    BY <1>2, CompleteEffect DEF Unpublish
  <2> QED
    BY <2>1, <2>2, EndedAnswers
<1>3. CASE ReconcileRecord
  <2> DEFINE i == Min(rec.todo)
             v == ReconciledPhase(i, DirSeen(i))
  <2>1. i \in Jobs
    BY <1>3, SweptJob
  <2>2. UNCHANGED responses \/ Ended(i, v)
    BY <1>3, SweepEffect DEF SweepLooks
  <2> HIDE DEF i, v
  <2> QED
    BY <2>1, <2>2, EndedAnswers
<1>4. ASSUME NEW s \in Slots, FailClose(s)
      PROVE  responses'[j].st = responses[j].st
  <2>1. ctl[s].j \in Jobs
    BY <1>4, Workers DEF FailClose, Busy, CtlLabels
  <2>2. UNCHANGED responses \/ Ended(ctl[s].j, "failed")
    BY <1>4, CompleteEffect DEF FailClose
  <2> QED
    BY <2>1, <2>2, EndedAnswers
<1>5. ASSUME NEW s \in Slots, ConsumerClose(s)
      PROVE  responses'[j].st = responses[j].st
  <2>1. con[s].j \in Jobs
    BY <1>5, Workers DEF ConsumerClose
  <2>2. UNCHANGED responses \/ Ended(con[s].j, con[s].v)
    BY <1>5, CompleteEffect DEF ConsumerClose
  <2> QED
    BY <2>1, <2>2, EndedAnswers
<1>6. ASSUME NEW s \in Slots, FailAnswer(s), responses'[j].st # responses[j].st
      PROVE  responses[j].st = "none" /\ ctl[s].j = j /\ responses'[j].st = "failed" /\ j \in processing
  BY <1>6 DEF FailAnswer, Responded, TypeOK, FileTypes, Answers, TurnInv, Busy, CtlLabels
<1>7. ASSUME NEW s \in Slots, ConsumerAnswer(s), responses'[j].st # responses[j].st
      PROVE  responses[j].st = "none" /\ con[s].j = j /\ responses'[j].st = con[s].v /\ j \in processing
  BY <1>7 DEF ConsumerAnswer, Responded, TypeOK, FileTypes, Answers, TurnInv, Busy, CtlLabels
<1> QED
  BY <1>1, <1>2, <1>3, <1>4, <1>5, <1>6, <1>7, Frames DEF Footprints

(* An answered job stays answered, and only a claimed one is answered.     *)
LEMMA RespondedStep ==
    ASSUME QInv, Next, NEW j \in Jobs
    PROVE  /\ Responded(j) => Responded(j)'
           /\ Responded(j)' => Responded(j) \/ j \in processing
  BY AnswersStep DEF Responded

(* A job enters requests/ when it is published and processing/ from there. *)
LEMMA FilesStep ==
    ASSUME QInv, Next, NEW j \in Jobs
    PROVE  /\ j \in requests' => j \in requests \/ (PublishJob /\ j = enq.j)
           /\ j \in processing' => j \in processing \/ j \in requests
<1>1. CASE UNCHANGED <<requests, processing>>
  BY <1>1
<1>2. CASE PublishJob
  BY <1>2 DEF PublishJob
<1>3. ASSUME NEW i \in Jobs, PruneClaim(i)
      PROVE  processing' \subseteq processing /\ requests' = requests
  BY <1>3 DEF PruneClaim
<1>4. ASSUME NEW s \in Slots, Claim(s)
      PROVE  processing' \subseteq processing \cup requests /\ requests' \subseteq requests
  BY <1>4, HeadOf DEF Claim, QInv, TypeOK, FileTypes
<1>5. ASSUME NEW s \in Slots, FinishTurn(s)
      PROVE  processing' \subseteq processing /\ requests' = requests
  BY <1>5 DEF FinishTurn
<1> QED
  BY <1>1, <1>2, <1>3, <1>4, <1>5, Frames DEF Footprints

(* A job that is visible nowhere is not visible again, except by its own   *)
(* publication.                                                            *)
LEMMA NamesStep ==
    ASSUME QInv, Next, NEW j \in Jobs, j \notin JobNames, j \in JobNames'
    PROVE  PublishJob /\ j = enq.j
  BY FilesStep, RespondedStep DEF JobNames, Active

(* A job document is written once, under the number after the last.        *)
LEMMA DocumentStep ==
    ASSUME QInv, Next
    PROVE  \/ UNCHANGED <<seq, job>>
           \/ /\ seq' = seq + 1 /\ seq' \in Jobs
              /\ enq.pc = "match" /\ enq'.pc = "begin" /\ enq'.j = seq' /\ enq'.key = enq.key
              /\ job' = [job EXCEPT ![seq'] = [key |-> enq.key, body |-> enq.body]]
              /\ \A j \in JobNames : job[j].key # enq.key
<1>1. CASE MatchAndReserve
  <2>1. NextJobId = seq + 1 /\ seq \in Nat
    BY NextIsLater, JobQueueAssumption DEF QInv, TypeOK, FileTypes, SomeJob
  <2>2. CASE NextJobId > MaxJobs \/ JobNames # enq.before \/ SameKey(enq.before) # {} \/ QueueFull
    BY <1>1, <2>2, <2>1, JobQueueAssumption DEF MatchAndReserve
  <2>3. CASE ~(NextJobId > MaxJobs \/ JobNames # enq.before \/ SameKey(enq.before) # {} \/ QueueFull)
    <3>1. /\ seq' = seq + 1 /\ enq.pc = "match"
          /\ job' = [job EXCEPT ![seq'] = [key |-> enq.key, body |-> enq.body]]
          /\ enq' = [enq EXCEPT !.pc = "begin", !.j = seq']
      BY <1>1, <2>3, <2>1, JobQueueAssumption DEF MatchAndReserve
    <3>2. seq' \in Jobs
      BY <2>1, <2>3, <3>1, JobQueueAssumption DEF Jobs
    <3>3. enq'.pc = "begin" /\ enq'.j = seq' /\ enq'.key = enq.key
      BY <3>1 DEF QInv, TypeOK, ActorTypes, Enqueues
    <3>4. \A j \in JobNames : job[j].key # enq.key
      BY <2>3 DEF SameKey
    <3> QED
      BY <3>1, <3>2, <3>3, <3>4
  <2> QED
    BY <2>2, <2>3
<1> QED
  BY <1>1, Frames DEF Footprints

(***************************************************************************)
(* The service's enqueue.                                                  *)
(***************************************************************************)

Early == {"idle", "reconcile", "recover", "scan", "match"}

(* Before the reservation an enqueue only looks; after it, it works on the *)
(* number it reserved, which is published in one of the last steps.        *)
LEMMA EnqueueGoesOn ==
    ASSUME QInv, Next
    PROVE  \/ UNCHANGED enq
           \/ enq'.pc \in Early
           \/ enq.pc = "match" /\ enq'.pc = "begin" /\ seq' = seq + 1 /\ enq'.j = seq'
           \/ /\ enq'.j = enq.j /\ enq'.key = enq.key
              /\ \/ BeginAudit /\ enq.pc = "begin" /\ enq'.pc \in {"secret", "publish"}
                 \/ PublishSecret /\ enq.pc = "secret" /\ enq'.pc \in {"publish", "unpublish"}
                 \/ PublishJob /\ enq.pc = "publish" /\ enq'.pc \in {"queued", "unpublish"}
<1> USE DEF QInv, TypeOK, ActorTypes
<1>0. enq \in Enqueues /\ IdleEnq.pc = "idle"
  BY DEF IdleEnq
<1>1. CASE UNCHANGED enq
  BY <1>1
<1>2. ASSUME NEW k \in Keys, NEW b \in Bodies, Enqueue(k, b)
      PROVE  enq'.pc \in Early
  BY <1>2 DEF Enqueue, Early, IdleEnq
<1>3. CASE Recover
  BY <1>0, <1>3 DEF Recover, Enqueues, Early
<1>4. CASE ScanBefore
  BY <1>0, <1>4 DEF ScanBefore, Enqueues, Early
<1>5. CASE MatchAndReserve
  BY <1>0, <1>5, NextIsLater DEF MatchAndReserve, Enqueues, Early, Answer
<1>6. CASE BeginAudit
  BY <1>0, <1>6 DEF BeginAudit, Enqueues, Early, Answer
<1>7. CASE PublishSecret
  BY <1>0, <1>7 DEF PublishSecret, Enqueues
<1>8. CASE PublishJob
  BY <1>0, <1>8 DEF PublishJob, Enqueues
<1>9. CASE Unpublish \/ MarkQueued \/ KillService \/ KillDuringBegin \/ Restart
  BY <1>0, <1>9 DEF Unpublish, MarkQueued, KillService, KillDuringBegin, Restart, Early, Answer
<1>10. ASSUME NEW ok \in BOOLEAN, ReconcileReturn(ok)
       PROVE  enq' = enq \/ enq'.pc \in Early
  BY <1>0, <1>10 DEF ReconcileReturn, Enqueues, Early, Answer
<1>11. CASE ReconcileRecord
  BY <1>10, <1>11, SweepEffect DEF SweepLooks, SweepGoesOn
<1>12. CASE ReconcileDone
  BY <1>10, <1>12 DEF ReconcileDone
<1> QED
  BY <1>1, <1>2, <1>3, <1>4, <1>5, <1>6, <1>7, <1>8, <1>9, <1>11, <1>12, Frames DEF Footprints

(* A job is behind the enqueue once and for all.                           *)
LEMMA PastStep ==
    ASSUME QInv, Next, NEW j \in Jobs, Past(j)
    PROVE  Past(j)'
<1>1. seq \in Nat /\ j \in Nat /\ seq' \in Nat /\ j <= seq /\ (enq.pc \in Unpublished => enq.j # j)
  BY TypeStep DEF QInv, TypeOK, FileTypes, SomeJob, Jobs, Past
<1>2. j <= seq'
  BY <1>1, DocumentStep
<1>3. enq.pc \notin Unpublished /\ enq'.pc \in Unpublished => enq'.j = seq + 1
  BY EnqueueGoesOn, DocumentStep DEF Unpublished, Early
<1>4. enq.pc \in Unpublished /\ enq'.pc \in Unpublished => enq'.j = enq.j
  BY EnqueueGoesOn DEF Unpublished, Early
<1>5. enq'.pc \in Unpublished => enq'.j # j
  BY <1>1, <1>3, <1>4
<1> QED
  BY <1>2, <1>5 DEF Past

(* The request published now is the newest job, so nothing published before it*)
(* changes.                                                                *)
LEMMA PublishedStep ==
    ASSUME QInv, PublishJob, NEW j, j = enq.j, j \in requests'
    PROVE  j \in Jobs /\ j = seq /\ seq' = seq /\ Past(j)'
<1>0. seq \in Nat
  BY JobQueueAssumption DEF QInv, TypeOK, FileTypes, SomeJob
<1>1. enq.pc = "publish" /\ enq.j \in Jobs /\ enq.j = seq /\ seq' = seq
  BY Workers DEF PublishJob, Reserved
<1>2. enq.j \notin requests
  <2>1. enq.j \in JobNames => Past(enq.j)
    BY <1>1 DEF QInv, EnqueueInv
  <2> QED
    BY <1>1, <2>1 DEF JobNames, Active, Past, Unpublished
<1>3. enq' = [enq EXCEPT !.pc = "queued"]
  BY <1>1, <1>2 DEF PublishJob
<1>4. enq'.pc = "queued"
  BY <1>3 DEF QInv, TypeOK, ActorTypes, Enqueues
<1> QED
  BY <1>0, <1>1, <1>4 DEF Past, Unpublished

(* What an enqueue knows between its files survives every step.            *)
LEMMA EnqueueStep ==
    ASSUME QInv, Next
    PROVE  EnqueueInv'
<1> USE DEF QInv, TypeOK, FileTypes, ActorTypes
<1>1. seq \in SomeJob /\ seq' \in SomeJob /\ seq \in Nat /\ seq' \in Nat /\ job \in [Jobs -> Documents]
  BY TypeStep, JobQueueAssumption DEF SomeJob
<1>2. enq'.pc \in Reserved => enq'.j = seq' /\ seq' # 0 /\ job'[enq'.j].key = enq'.key
  <2>1. CASE UNCHANGED <<seq, job>> /\ UNCHANGED enq
    BY <2>1 DEF EnqueueInv
  <2>2. CASE UNCHANGED <<seq, job>> /\ enq.pc \in Reserved /\ enq'.j = enq.j /\ enq'.key = enq.key
    BY <2>2 DEF EnqueueInv
  <2>3. CASE ~(UNCHANGED <<seq, job>>)
    <3>1. enq'.j = seq' /\ seq' \in Jobs /\ enq'.key = enq.key
          /\ job' = [job EXCEPT ![seq'] = [key |-> enq.key, body |-> enq.body]]
      BY <2>3, DocumentStep
    <3>2. job'[seq'].key = enq.key /\ seq' # 0
      BY <1>1, <3>1 DEF Jobs
    <3> QED
      BY <3>1, <3>2
  <2>4. CASE enq'.pc \in Early
    BY <2>4 DEF Early, Reserved
  <2> QED
    BY <1>1, <2>1, <2>2, <2>3, <2>4, EnqueueGoesOn DEF Reserved
<1>3. ASSUME NEW j \in Jobs, j > seq'
      PROVE  job'[j] = NoJob /\ effect'[j] = "none"
  <2>1. j \in Nat /\ j > seq /\ j # seq'
    BY <1>1, <1>3, DocumentStep DEF Jobs
  <2>2. job'[j] = NoJob
    BY <1>1, <2>1, DocumentStep DEF EnqueueInv
  <2>3. ASSUME NEW s \in Slots, ConsumerRun(s) \/ ConsumerRan(s)
        PROVE  con[s].j # j /\ con[s].j \in Jobs
    <3>1. con[s].j \in Jobs /\ ctl[s].j = con[s].j /\ ctl[s].pc = "wait"
      BY <2>3, Workers DEF ConsumerRun, ConsumerRan
    <3>2. con[s].j \in processing
      BY <3>1 DEF TurnInv, Busy, CtlLabels
    <3>3. con[s].j <= seq
      BY <3>1, <3>2 DEF EnqueueInv, JobNames, Active, Past
    <3> QED
      BY <1>1, <2>1, <3>1, <3>3
  <2>4. effect'[j] = effect[j]
    BY <2>3, Frames DEF Footprints, ConsumerRun, ConsumerRan
  <2> QED
    BY <2>1, <2>2, <2>4 DEF EnqueueInv
<1>4. ASSUME NEW j \in JobNames'
      PROVE  Past(j)'
  <2>1. j \in Jobs
    BY DEF JobNames
  <2>2. CASE j \in JobNames
    BY <2>1, <2>2, PastStep DEF EnqueueInv
  <2>3. CASE j \notin JobNames
    <3>1. PublishJob /\ j = enq.j /\ j \in requests'
      BY <2>1, <2>3, NamesStep DEF JobNames, Active, PublishJob, Responded
    <3> QED
      BY <3>1, PublishedStep
  <2> QED
    BY <2>2, <2>3
<1> QED
  BY <1>2, <1>3, <1>4 DEF EnqueueInv

(***************************************************************************)
(* What is gone stays gone: polls and retries.                             *)
(***************************************************************************)

(* Once past publication, a file that left the queue does not come back.   *)
LEMMA GoneStays ==
    ASSUME QInv, Next, NEW j \in Jobs, Past(j)
    PROVE  /\ j \notin requests => j \notin requests'
           /\ j \notin requests /\ j \notin processing => j \notin processing'
           /\ j \notin JobNames => j \notin JobNames'
<1>1. PublishJob => j # enq.j
  BY DEF Past, PublishJob, Unpublished
<1> QED
  BY <1>1, FilesStep, NamesStep

(* What a poll has looked up so far stays true of the files until it answers.*)
LEMMA PollStep ==
    ASSUME QInv, Next
    PROVE  PollInv'
<1> USE DEF QInv
<1>0. poll \in Polls /\ IdlePoll.step = 0 /\ IdlePoll.answer = "none" /\ IdlePoll.kind = "none"
  BY DEF TypeOK, ActorTypes, IdlePoll
<1>1. ASSUME NEW j \in Jobs PROVE j \in JobNames <=> Active(j) \/ Responded(j)
  BY DEF JobNames
<1>2. CASE UNCHANGED poll
  <2>1. ASSUME poll.step > 0 \/ poll.answer = "gone"
        PROVE  /\ poll.j \in Jobs /\ Past(poll.j) /\ Past(poll.j)'
               /\ poll.j \notin requests => poll.j \notin requests'
               /\ poll.j \notin requests /\ poll.j \notin processing => poll.j \notin processing'
               /\ poll.j \notin JobNames => poll.j \notin JobNames'
    <3>1. poll.j \in Jobs /\ Past(poll.j)
      BY <2>1 DEF PollInv
    <3>2. PICK j \in Jobs : j = poll.j /\ Past(j)
      BY <3>1
    <3>3. Past(j)'
      BY <3>2, PastStep
    <3>4. poll'.j = j
      BY <1>2, <3>2
    <3> QED
      BY <1>2, <3>2, <3>3, <3>4, GoneStays
  <2>2. (poll.step > 0 \/ poll.answer = "gone" => poll.j \in Jobs /\ Past(poll.j))'
    BY <1>2, <2>1
  <2>3. (poll.kind = "result" /\ poll.step > 2 => poll.j \notin requests)'
    BY <1>0, <1>2, <2>1 DEF PollInv, Polls
  <2>4. (poll.kind = "result" /\ poll.step > 3 => poll.j \notin processing)'
    BY <1>0, <1>2, <2>1 DEF PollInv, Polls
  <2>5. (poll.step > 0 => poll.answer = "none")'
    BY <1>2 DEF PollInv
  <2>6. NeverFalselyExpired'
    <3>1. ASSUME poll.answer = "gone"
          PROVE  poll.j \notin JobNames'
      BY <1>1, <2>1, <3>1 DEF PollInv, NeverFalselyExpired
    <3> QED
      BY <1>2, <2>1, <3>1 DEF NeverFalselyExpired, JobNames, Active, Responded
  <2> QED
    BY <2>2, <2>3, <2>4, <2>5, <2>6 DEF PollInv
<1>3. ASSUME NEW j \in Jobs, NEW kind \in {"result", "status"}, PollBegin(j, kind)
      PROVE  PollInv'
  <2>1. Past(j) /\ UNCHANGED <<enq, seq>>
    BY <1>1, <1>3 DEF PollBegin, EnqueueInv
  <2>2. poll'.step = 1 /\ poll'.j = j /\ poll'.answer = "none"
    BY <1>3 DEF PollBegin
  <2>3. Past(j)'
    BY <2>1 DEF Past
  <2> QED
    BY <2>2, <2>3 DEF PollInv, NeverFalselyExpired
<1>4. CASE PollRead \/ StatusRead
  <2>1. UNCHANGED <<enq, seq, requests, processing, responses>>
    BY <1>4 DEF PollRead, StatusRead, files
  <2>2. poll.j \in Jobs /\ Past(poll.j) /\ poll.step \in 1..8 /\ poll.answer = "none"
    BY <1>0, <1>4 DEF PollRead, StatusRead, PollInv, PollOrder, Polls
  <2>3. CASE poll' = IdlePoll
    BY <1>0, <2>3 DEF PollInv, NeverFalselyExpired
  <2>4. CASE PollRead /\ poll' # IdlePoll
    <3>1. poll.kind = "result" /\ poll.step \in 1..4 /\ ~Sees(PollOrder[poll.step], poll.j) /\ Len(PollOrder) = 4
      BY <2>4 DEF PollRead, PollOrder
    <3>2. /\ poll.step \in {1, 4} => ~Responded(poll.j)
          /\ poll.step = 2 => poll.j \notin requests
          /\ poll.step = 3 => poll.j \notin processing
      BY <3>1 DEF PollOrder, Sees
    <3>3. CASE poll.step = 4
      <4>1. poll' = [poll EXCEPT !.step = 0, !.answer = "gone"]
        BY <2>4, <3>1, <3>3 DEF PollRead
      <4>2. poll'.step = 0 /\ poll'.j = poll.j /\ poll'.answer = "gone"
        BY <1>0, <4>1 DEF Polls
      <4>3. ~Active(poll.j) /\ ~Responded(poll.j)
        BY <3>1, <3>2, <3>3 DEF PollInv, Active
      <4> QED
        BY <2>1, <2>2, <4>2, <4>3 DEF PollInv, NeverFalselyExpired, Active, Responded, Past
    <3>4. CASE poll.step # 4
      <4>1. poll' = [poll EXCEPT !.step = @ + 1]
        BY <2>4, <3>1, <3>4 DEF PollRead
      <4>2. poll'.step = poll.step + 1 /\ poll'.j = poll.j /\ poll'.answer = "none" /\ poll'.kind = "result"
        BY <1>0, <2>2, <3>1, <4>1 DEF Polls
      <4> QED
        BY <2>1, <2>2, <3>1, <3>2, <4>2 DEF PollInv, NeverFalselyExpired, Past
    <3> QED
      BY <3>3, <3>4
  <2>5. CASE StatusRead /\ poll' # IdlePoll
    <3>1. poll.kind = "status"
      BY <2>5 DEF StatusRead
    <3>2. CASE poll' = [poll EXCEPT !.step = 0, !.names = {}, !.answer = "gone"] /\ JobNames = poll.names
               /\ poll.j \notin poll.names
      <4>1. poll'.step = 0 /\ poll'.j = poll.j /\ poll'.answer = "gone"
        BY <1>0, <3>2 DEF Polls
      <4>2. ~Active(poll.j) /\ ~Responded(poll.j)
        BY <1>1, <2>2, <3>2
      <4> QED
        BY <2>1, <2>2, <4>1, <4>2 DEF PollInv, NeverFalselyExpired, Active, Responded, Past
    <3>3. CASE \E n : poll' = [poll EXCEPT !.step = @ + 1, !.names = n]
      <4>1. poll'.step = poll.step + 1 /\ poll'.j = poll.j /\ poll'.answer = "none" /\ poll'.kind = "status"
        BY <1>0, <2>2, <3>1, <3>3 DEF Polls
      <4> QED
        BY <2>1, <2>2, <4>1 DEF PollInv, NeverFalselyExpired, Past
    <3> QED
      BY <2>5, <3>2, <3>3 DEF StatusRead, StatusAnswer
  <2> QED
    BY <1>4, <2>3, <2>4, <2>5
<1>5. CASE Restart
  BY <1>0, <1>5 DEF Restart, PollInv, NeverFalselyExpired
<1> QED
  BY <1>2, <1>3, <1>4, <1>5, Frames DEF Footprints

(* find_idempotent_job: a second job for a request is reserved only when   *)
(* nothing is left of the first, and nothing of it comes back.             *)
LEMMA RetryStep ==
    ASSUME QInv, Next
    PROVE  RetryInv'
<1> USE DEF QInv
<1>0. /\ seq \in Nat /\ seq' \in Nat /\ job \in [Jobs -> Documents]
      /\ \A j \in Jobs : j \in Nat
  BY TypeStep, JobQueueAssumption DEF TypeOK, FileTypes, SomeJob, Jobs
<1> SUFFICES ASSUME NEW i \in Jobs, NEW j \in Jobs, i < j, j <= seq', job'[i].key = job'[j].key
             PROVE  i \notin JobNames'
  BY DEF RetryInv
<1>1. CASE UNCHANGED <<seq, job>>
  <2>1. i \notin JobNames
    BY <1>1 DEF RetryInv
  <2>2. PublishJob => i # enq.j
    BY <1>0, <1>1, Workers DEF PublishJob, Reserved
  <2> QED
    BY <2>1, <2>2, NamesStep
<1>2. CASE ~(UNCHANGED <<seq, job>>)
  <2>1. /\ seq' = seq + 1 /\ enq.pc = "match"
        /\ job' = [job EXCEPT ![seq'] = [key |-> enq.key, body |-> enq.body]]
        /\ \A k \in JobNames : job[k].key # enq.key
    BY <1>2, DocumentStep
  <2>2. job'[i] = job[i] /\ i <= seq
    BY <1>0, <2>1
  <2>3. i \notin JobNames
    BY <1>0, <2>1, <2>2 DEF RetryInv
  <2> QED
    BY <2>1, <2>3, NamesStep DEF PublishJob
<1> QED
  BY <1>1, <1>2

(* The secret of a queued job is there before the job is, and stays until  *)
(* the job is claimed.                                                     *)
LEMMA SecretStep ==
    ASSUME QInv, Next
    PROVE  SecretInv'
<1> USE DEF QInv
<1>0. /\ requests \subseteq Jobs /\ processing \subseteq Jobs /\ enq \in Enqueues
      /\ enq.pc = "publish" => enq.j \in Jobs /\ enq.j \notin requests /\ enq.j \notin processing
  <2>1. enq.pc = "publish" => enq.j \in Jobs /\ ~Past(enq.j)
    BY Workers DEF Reserved, Past, Unpublished
  <2> QED
    BY <2>1 DEF TypeOK, FileTypes, ActorTypes, EnqueueInv, JobNames, Active
<1>1. ASSUME NEW j, <<"requests", j>> \in secrets, <<"requests", j>> \notin secrets'
      PROVE  \/ Recover /\ ~Active(j)
             \/ Unpublish /\ j = enq.j
             \/ \E s \in Slots : (ClaimSecret(s) \/ FinishTurn(s)) /\ j \in processing
  <2>1. CASE Recover
    <3>1. <<"requests", j>> \in OrphanSecrets /\ <<"requests", j>>[2] = j
      BY <1>1, <2>1 DEF Recover
    <3> QED
      BY <2>1, <3>1 DEF OrphanSecrets
  <2>2. CASE PublishSecret
    BY <1>1, <2>2 DEF PublishSecret
  <2>3. CASE Unpublish
    BY <1>1, <2>3 DEF Unpublish
  <2>4. ASSUME NEW i \in Jobs, PruneClaim(i) PROVE FALSE
    BY <1>1, <2>4 DEF PruneClaim
  <2>5. ASSUME NEW s \in Slots, ClaimSecret(s) PROVE j \in processing
    BY <1>1, <2>5 DEF ClaimSecret, TurnInv, Busy, CtlLabels
  <2>6. ASSUME NEW s \in Slots, FinishTurn(s) PROVE j \in processing
    BY <1>1, <2>6 DEF FinishTurn, TurnInv, Busy, CtlLabels
  <2>7. ASSUME NEW s \in Slots, FailAnswer(s) \/ ConsumerRun(s) \/ ConsumerAnswer(s) PROVE FALSE
    BY <1>1, <2>7 DEF FailAnswer, ConsumerRun, ConsumerAnswer
  <2> QED
    BY <1>1, <2>1, <2>2, <2>3, <2>4, <2>5, <2>6, <2>7, Frames DEF Footprints
<1>2. ASSUME NEW j \in requests', job'[j].key \in Secretful
      PROVE  <<"requests", j>> \in secrets'
  <2>0. j \in Jobs
    BY TypeStep DEF TypeOK, FileTypes
  <2>1. CASE j \in requests
    <3>1. job'[j] = job[j]
      <4>1. j <= seq /\ seq \in Nat
        BY <2>1, <2>0, JobQueueAssumption DEF EnqueueInv, JobNames, Active, Past, TypeOK, FileTypes, SomeJob
      <4> QED
        <5>1. j \in Nat /\ j # seq + 1 /\ job \in [Jobs -> Documents]
          BY <4>1, <2>0 DEF Jobs, TypeOK, FileTypes
        <5> QED
          BY <2>0, <5>1, DocumentStep
    <3>2. <<"requests", j>> \in secrets
      BY <1>2, <2>1, <3>1 DEF SecretInv, SecretWithJob
    <3>3. Unpublish => j # enq.j
      <4>1. enq.pc = "unpublish" => enq.j \in Jobs /\ ~Past(enq.j)
        BY Workers DEF Reserved, Past, Unpublished
      <4>2. Past(j)
        BY <2>0, <2>1 DEF EnqueueInv, JobNames, Active
      <4> QED
        BY <4>1, <4>2 DEF Unpublish
    <3>4. j \notin processing /\ Active(j)
      BY <2>1 DEF TurnInv, Active
    <3> QED
      BY <1>1, <3>2, <3>3, <3>4
  <2>2. CASE j \notin requests
    <3>1. PublishJob /\ j = enq.j
      BY <2>0, <2>2, FilesStep
    <3>2. UNCHANGED <<job, secrets>> /\ enq.pc = "publish" /\ job[j].key = enq.key
      BY <3>1 DEF PublishJob, EnqueueInv, Reserved
    <3> QED
      BY <1>2, <3>1, <3>2 DEF SecretInv
  <2> QED
    BY <2>1, <2>2
<1>3. ASSUME enq'.pc = "publish", enq'.key \in Secretful
      PROVE  <<"requests", enq'.j>> \in secrets'
  <2>1. CASE enq.pc = "publish"
    <3>1. enq'.j = enq.j /\ enq'.key = enq.key
      BY <1>3, <2>1, EnqueueGoesOn DEF Early
    <3>2. <<"requests", enq.j>> \in secrets
      BY <1>3, <2>1, <3>1 DEF SecretInv
    <3> QED
      BY <1>0, <1>1, <2>1, <3>1, <3>2 DEF Recover, Unpublish
  <2>2. CASE enq.pc # "publish"
    <3>1. BeginAudit \/ PublishSecret
      BY <1>3, <2>2, EnqueueGoesOn DEF Early
    <3>2. CASE BeginAudit
      <4>1. enq' = [enq EXCEPT !.pc = IF enq.key \in Secretful THEN "secret" ELSE "publish"] \/ enq' = IdleEnq
        BY <3>2 DEF BeginAudit, Answer
      <4>2. IdleEnq.pc = "idle"
        BY DEF IdleEnq
      <4> QED
        BY <1>0, <1>3, <4>1, <4>2 DEF Enqueues
    <3>3. CASE PublishSecret
      BY <1>0, <1>3, <3>3 DEF PublishSecret, Enqueues
    <3> QED
      BY <3>1, <3>2, <3>3
  <2> QED
    BY <2>1, <2>2
<1> QED
  BY <1>2, <1>3 DEF SecretInv, SecretWithJob

(***************************************************************************)
(* The turns and their consumers.                                          *)
(***************************************************************************)

(* The two worker slots, and the labels at which a slot holds a claimed job.*)
LEMMA Labels ==
    /\ Slots = {"primary", "aux"}
    /\ {"idle", "sweep", "claim"} \cap Busy = {}
    /\ {"secret", "dispatch", "wait", "fail", "fail_close", "fail_answer", "finish"} = Busy
  BY DEF Slots, Busy, CtlLabels

(* Two turns never work on one job.                                        *)
LEMMA Apart ==
    ASSUME QInv, NEW s \in Slots, NEW t \in Slots, s # t, ctl[s].pc \in Busy, ctl[t].pc \in Busy
    PROVE  ctl[s].j # ctl[t].j
  BY DEF QInv, TurnInv, Slots

(* The classes of jobs that are visible do not change.                     *)
LEMMA SameDocument ==
    ASSUME QInv, Next, NEW j \in JobNames
    PROVE  job'[j] = job[j]
<1>1. j \in Jobs /\ j \in Nat /\ seq \in Nat /\ j <= seq /\ job \in [Jobs -> Documents]
  BY JobQueueAssumption DEF QInv, TypeOK, FileTypes, EnqueueInv, JobNames, Past, Jobs, SomeJob
<1> QED
  BY <1>1, DocumentStep

(* A step that changes neither job files nor turns, and starts no consumer *)
(* and no sweep for a turn, keeps the turns apart.                         *)
LEMMA TurnUnmoved ==
    ASSUME QInv, Next, requests' \cap processing' = {}, processing \subseteq processing', UNCHANGED ctl,
           \A s \in Slots : con'[s].pc = "idle" \/ (con[s].pc # "idle" /\ con'[s].j = con[s].j),
           rec' = rec \/ rec'.by \notin Slots \/ (rec'.by = rec.by)
    PROVE  TurnInv'
<1> USE DEF QInv, TurnInv
<1>1. (\A s \in Slots : ctl[s].pc \in Busy => ctl[s].j \in processing)'
  OBVIOUS
<1>2. (\A s \in Slots : con[s].pc # "idle" => ctl[s].pc = "wait" /\ ctl[s].j = con[s].j)'
  OBVIOUS
<1>3. (\A s \in Slots : rec.by = s => ctl[s].pc = "sweep")'
  OBVIOUS
<1>4. (ctl["aux"].pc \in Busy => ctl["aux"].j # ctl["primary"].j /\ MayAdmit("aux", ctl["aux"].j))'
  <2>1. ASSUME ctl["aux"].pc \in Busy
        PROVE  job'[ctl["aux"].j] = job[ctl["aux"].j] /\ job'[ctl["primary"].j] = job[ctl["primary"].j]
    <3>1. ctl["aux"].j \in JobNames /\ ctl["primary"].j \in JobNames
      BY <2>1, Labels DEF JobNames, Active, TypeOK, FileTypes
    <3> QED
      BY <3>1, SameDocument
  <2> QED
    BY <2>1 DEF MayAdmit
<1> QED
  BY <1>1, <1>2, <1>3, <1>4

(* The consumer of a turn goes on, ends or is killed.                      *)
LEMMA ConsumerMoves ==
    ASSUME QInv, NEW t \in Slots, NEW s \in Slots, ConsumerStep(t) \/ KillConsumer(t)
    PROVE  con'[s].pc = "idle" \/ (con[s].pc # "idle" /\ con'[s].j = con[s].j)
<1> USE DEF QInv, TypeOK, ActorTypes
<1>1. con \in [Slots -> Consumers] /\ con[t] \in Consumers /\ con[s] \in Consumers /\ IdleCon.pc = "idle"
  BY DEF IdleCon
<1>2. CASE KillConsumer(t)
  BY <1>1, <1>2 DEF KillConsumer
<1>3. CASE ConsumerClaim(t)
  BY <1>1, <1>3 DEF ConsumerClaim, Goes, Consumers
<1>4. CASE ConsumerRun(t)
  BY <1>1, <1>4 DEF ConsumerRun, Goes, Consumers
<1>5. CASE ConsumerRan(t)
  BY <1>1, <1>5 DEF ConsumerRan, Consumers
<1>6. CASE ConsumerClose(t)
  BY <1>1, <1>6 DEF ConsumerClose, Consumers
<1>7. CASE ConsumerAnswer(t) \/ ConsumerUnlink(t)
  BY <1>1, <1>7 DEF ConsumerAnswer, ConsumerUnlink, Goes, Consumers
<1> QED
  BY <1>2, <1>3, <1>4, <1>5, <1>6, <1>7 DEF ConsumerStep

(* What a worker's turn knows about its job's files survives every step of the*)
(* other slot, of the enqueue and of the poll.                             *)
LEMMA TurnStep ==
    ASSUME QInv, Next
    PROVE  TurnInv'
<1> USE DEF QInv, TypeOK, FileTypes, ActorTypes
<1>0. /\ "aux" \in Slots /\ "primary" \in Slots
      /\ \A s \in Slots : ctl[s] \in Turns /\ con[s] \in Consumers
      /\ Idle.pc = "idle" /\ IdleCon.pc = "idle" /\ IdleRec.by = "nobody" /\ "nobody" \notin Slots
  BY DEF Slots, Idle, IdleCon, IdleRec
<1>1. CASE UNCHANGED <<requests, processing, ctl, con, rec>>
  BY <1>1, TurnUnmoved DEF TurnInv
<1>2. CASE PublishJob
  <2>1. UNCHANGED <<processing, ctl, con, rec>> /\ (requests' = requests \/ requests' = requests \cup {enq.j})
    BY <1>2 DEF PublishJob
  <2>2. enq.j \notin processing
    <3>1. ~Past(enq.j) /\ enq.j \in Jobs
      BY <1>2, Workers DEF PublishJob, Reserved, Past, Unpublished
    <3> QED
      BY <3>1 DEF EnqueueInv, JobNames, Active
  <2>3. requests' \cap processing' = {}
    BY <2>1, <2>2 DEF TurnInv
  <2> QED
    BY <2>1, <2>3, TurnUnmoved
<1>3. ASSUME NEW t \in Slots, ConsumerStep(t) \/ KillConsumer(t)
      PROVE  TurnInv'
  <2>1. UNCHANGED <<requests, processing, ctl, rec>>
    BY <1>3 DEF KillConsumer, files, ConsumerStep, conRest, ConsumerClaim, ConsumerRun, ConsumerRan, ConsumerClose,
       ConsumerAnswer, ConsumerUnlink
  <2>2. \A s \in Slots : con'[s].pc = "idle" \/ (con[s].pc # "idle" /\ con'[s].j = con[s].j)
    BY <1>3, ConsumerMoves
  <2> QED
    BY <2>1, <2>2, TurnUnmoved DEF TurnInv
<1>4. ASSUME NEW k \in Keys, NEW b \in Bodies, Enqueue(k, b)
      PROVE  TurnInv'
  <2>1. UNCHANGED <<requests, processing, ctl, con>> /\ rec'.by = "service"
    BY <1>4 DEF Enqueue, ReconcileBegin, files
  <2> QED
    BY <2>1, TurnUnmoved DEF TurnInv, Slots
<1>5. CASE PollReconcile
  <2>1. UNCHANGED <<requests, processing, ctl, con>> /\ rec'.by = "poll"
    BY <1>5 DEF PollReconcile, ReconcileBegin, files
  <2> QED
    BY <2>1, TurnUnmoved DEF TurnInv, Slots
<1>6. CASE KillService
  <2>1. UNCHANGED <<requests, processing, ctl, con>> /\ (rec' = rec \/ rec' = IdleRec)
    BY <1>6 DEF KillService, files
  <2> QED
    BY <1>0, <2>1, TurnUnmoved DEF TurnInv
<1>7. CASE Restart
  BY <1>0, <1>7, Labels DEF Restart, files, TurnInv
<1>8. ASSUME NEW ok \in BOOLEAN, ReconcileReturn(ok), UNCHANGED <<requests, processing, con, job>>
      PROVE  TurnInv'
  <2>0. /\ rec' = IdleRec
        /\ ctl' = [s \in Slots |-> IF rec.by # s THEN ctl[s] ELSE [ctl[s] EXCEPT !.pc = IF ok THEN "claim" ELSE "idle"]]
    BY <1>8 DEF ReconcileReturn
  <2>1. ASSUME NEW s \in Slots
        PROVE  /\ ctl'[s].j = ctl[s].j
               /\ ctl'[s].pc = ctl[s].pc \/ (ctl[s].pc = "sweep" /\ ctl'[s].pc \in {"claim", "idle"})
    <3>1. CASE rec.by # s
      BY <2>0, <3>1
    <3>2. CASE rec.by = s
      <4>1. ctl'[s] = [ctl[s] EXCEPT !.pc = IF ok THEN "claim" ELSE "idle"]
        BY <2>0, <3>2
      <4> QED
        BY <1>0, <3>2, <4>1 DEF TurnInv, Turns
    <3> QED
      BY <3>1, <3>2
  <2> QED
    BY <1>0, <1>8, <2>0, <2>1, Labels DEF TurnInv, MayAdmit
<1>9. CASE ReconcileRecord
  <2>1. UNCHANGED <<requests, processing, con, job>>
    BY <1>9, SweepEffect
  <2>2. ReconcileReturn(FALSE) \/ (UNCHANGED ctl /\ rec'.by = rec.by)
    BY <1>9, SweepEffect DEF SweepLooks, SweepGoesOn, Sweeps
  <2> QED
    BY <1>8, <2>1, <2>2, TurnUnmoved DEF TurnInv
<1>10. CASE ReconcileDone
  BY <1>8, <1>10 DEF ReconcileDone, files
<1>11. ASSUME NEW s \in Slots, BeginTurn(s)
       PROVE  TurnInv'
  <2>1. /\ ctl[s].pc = "idle" /\ MayTurn(s) /\ ctl' = [ctl EXCEPT ![s].pc = "sweep"] /\ rec'.by = s
        /\ UNCHANGED <<requests, processing, con, job>>
    BY <1>11 DEF BeginTurn, ReconcileBegin, Turn, files
  <2>2. \A t \in Slots : ctl'[t].j = ctl[t].j /\ ctl'[t].pc = IF t = s THEN "sweep" ELSE ctl[t].pc
    BY <1>0, <2>1 DEF Turns
  <2> QED
    BY <1>0, <2>1, <2>2, Labels DEF TurnInv, MayAdmit, MayTurn
<1>12. ASSUME NEW s \in Slots, NEW p, NEW q, p \in Busy, q \in Busy, ctl[s].pc = p, Turn(s, q), rec' = rec,
              requests' = requests, processing' = processing, job' = job, p # "wait",
              \A t \in Slots : \/ con'[t].pc = con[t].pc /\ con'[t].j = con[t].j
                               \/ t = s /\ q = "wait" /\ con'[t].j = ctl[s].j
       PROVE  TurnInv'
  <2>1. \A t \in Slots : ctl'[t].j = ctl[t].j /\ ctl'[t].pc = IF t = s THEN q ELSE ctl[t].pc
    BY <1>0, <1>12 DEF Turns, Turn
  <2>2. s = "primary" => ctl["aux"].pc = "idle"
    BY <1>12, Labels DEF TurnInv
  <2> QED
    BY <1>0, <1>12, <2>1, <2>2, Labels DEF TurnInv, MayAdmit
<1>13. ASSUME NEW s \in Slots, ClaimSecret(s)
       PROVE  TurnInv'
  BY <1>12, <1>13, Labels DEF ClaimSecret, ctlRest
<1>14. ASSUME NEW s \in Slots, Dispatch(s)
       PROVE  TurnInv'
  <2>1. \A t \in Slots : con'[t] = con[t] \/ (t = s /\ con'[t].j = ctl[s].j)
    BY <1>0, <1>14 DEF Dispatch, IdleCon
  <2> QED
    BY <1>12, <1>14, <2>1, Labels DEF Dispatch, ctlRest
<1>15. ASSUME NEW s \in Slots, Waited(s)
       PROVE  TurnInv'
  <2>1. PICK q \in {"finish", "fail"} : ctl' = [ctl EXCEPT ![s].pc = q]
    BY <1>15 DEF Waited, Turn
  <2>2. \A t \in Slots : ctl'[t].j = ctl[t].j /\ ctl'[t].pc = IF t = s THEN q ELSE ctl[t].pc
    BY <1>0, <2>1 DEF Turns
  <2>3. /\ UNCHANGED <<requests, processing, con, job, rec>> /\ con[s].pc = "idle" /\ ctl[s].pc = "wait"
        /\ s = "primary" => ctl["aux"].pc = "idle"
    BY <1>15 DEF Waited, ctlRest
  <2> QED
    BY <1>0, <2>1, <2>2, <2>3, Labels DEF TurnInv, MayAdmit
<1>16. ASSUME NEW s \in Slots, FailClaim(s)
       PROVE  TurnInv'
  BY <1>12, <1>16, Labels DEF FailClaim, files
<1>17. ASSUME NEW s \in Slots, FailClose(s)
       PROVE  TurnInv'
  <2>1. \A t \in Slots : con'[t].pc = con[t].pc /\ con'[t].j = con[t].j
    BY <1>0, <1>17 DEF FailClose, Consumers
  <2> QED
    BY <1>12, <1>17, <2>1, Labels DEF FailClose
<1>18. ASSUME NEW s \in Slots, FailAnswer(s)
       PROVE  TurnInv'
  BY <1>12, <1>18, Labels DEF FailAnswer
<1>19. ASSUME NEW s \in Slots, FinishTurn(s)
       PROVE  TurnInv'
  <2>1. /\ ctl[s].pc = "finish" /\ processing' = processing \ {ctl[s].j}
        /\ ctl' = [ctl EXCEPT ![s] = Idle] /\ con' = [con EXCEPT ![s] = IdleCon]
        /\ UNCHANGED <<requests, rec, job>>
    BY <1>19 DEF FinishTurn, ctlRest
  <2>2. \A t \in Slots : t # s => ctl'[t] = ctl[t] /\ con'[t] = con[t]
    BY <1>0, <2>1
  <2>3. ctl'[s].pc = "idle" /\ con'[s].pc = "idle"
    BY <1>0, <2>1
  <2>4. s = "primary" => ctl["aux"].pc = "idle"
    BY <2>1, Labels DEF TurnInv
  <2>5. (\A t \in Slots : ctl[t].pc \in Busy => ctl[t].j \in processing)'
    BY <2>1, <2>2, <2>3, Apart, Labels DEF TurnInv
  <2> QED
    BY <1>0, <2>1, <2>2, <2>3, <2>4, <2>5, Labels DEF TurnInv, MayAdmit
<1>20. ASSUME NEW j \in Jobs, PruneClaim(j)
       PROVE  TurnInv'
  <2>1. \A s \in Slots : ctl[s].pc \notin Busy
    BY <1>0, <1>20, Labels DEF PruneClaim, TurnInv
  <2> QED
    BY <1>20, <2>1, Labels DEF PruneClaim, TurnInv, ctlRest
<1>21. ASSUME NEW s \in Slots, Claim(s)
       PROVE  TurnInv'
  <2>1. ctl[s].pc = "claim" /\ UNCHANGED <<con, rec, job>> /\ con[s].pc = "idle"
        /\ (s = "primary" => ctl["aux"].pc = "idle")
    BY <1>0, <1>21 DEF Claim, ctlRest, TurnInv
  <2>2. CASE UNCHANGED <<requests, processing>> /\ ctl' = [ctl EXCEPT ![s] = Idle]
    <3>1. \A t \in Slots : ctl'[t] = IF t = s THEN Idle ELSE ctl[t]
      BY <2>2
    <3> QED
      BY <1>0, <2>1, <2>2, <3>1, Labels DEF TurnInv, MayAdmit
  <2>3. ASSUME NEW j, NEW p, p \in Busy \ {"wait"}, j \in requests, MayAdmit(s, j), requests' = requests \ {j},
               processing' = processing \cup {j}, ctl' = [ctl EXCEPT ![s] = [pc |-> p, j |-> j]]
        PROVE  TurnInv'
    <3>1. \A t \in Slots : ctl'[t].pc = IF t = s THEN p ELSE ctl[t].pc
      BY <2>3
    <3>2. \A t \in Slots : ctl'[t].j = IF t = s THEN j ELSE ctl[t].j
      BY <2>3
    <3>3. requests' \cap processing' = {}
      BY <2>3 DEF TurnInv
    <3>4. (ctl["aux"].pc \in Busy => ctl["aux"].j # ctl["primary"].j /\ MayAdmit("aux", ctl["aux"].j))'
      <4>1. ASSUME s = "aux"
            PROVE  ctl["primary"].j \in processing /\ ctl["primary"].j # j
        BY <1>0, <2>1, <2>3, <4>1, Labels DEF TurnInv
      <4> QED
        BY <1>0, <2>1, <2>3, <3>1, <3>2, <4>1, Labels DEF TurnInv, MayAdmit
    <3> QED
      BY <1>0, <2>1, <2>3, <3>1, <3>2, <3>3, <3>4, Labels DEF TurnInv
  <2>4. requests # {} => Min(requests) \in requests
    BY HeadOf
  <2> QED
    BY <1>21, <2>2, <2>3, <2>4, Labels DEF Claim
<1> QED
  BY <1>1, <1>2, <1>3, <1>4, <1>5, <1>6, <1>7, <1>9, <1>10, <1>11, <1>13, <1>14, <1>15, <1>16, <1>17, <1>18, <1>19,
     <1>20, <1>21, Frames DEF Footprints, ConsumerStep

(* How a turn goes on.                                                     *)
LEMMA TurnGoesOn ==
    ASSUME QInv, Next, NEW s \in Slots
    PROVE  \/ ctl'[s].pc \in {"idle", "sweep", "claim"}
           \/ ctl'[s].pc = ctl[s].pc /\ ctl'[s].j = ctl[s].j
           \/ Claim(s) /\ ctl'[s].pc \in {"secret", "fail"} /\ ctl'[s].j \in requests
           \/ /\ ctl'[s].j = ctl[s].j
              /\ \/ ClaimSecret(s) /\ ctl'[s].pc \in {"dispatch", "fail"}
                 \/ Dispatch(s) /\ ctl'[s].pc = "wait"
                 \/ Waited(s) /\ ctl'[s].pc = "finish"
                 \/ Waited(s) /\ ctl'[s].pc = "fail" /\ ~Responded(ctl[s].j)
                       /\ Class[job[ctl[s].j].key] # "serialized"
                 \/ FailClaim(s) /\ ctl'[s].pc = "fail_close"
                 \/ FailClose(s) /\ ctl'[s].pc = "fail_answer"
                 \/ FailAnswer(s) /\ ctl'[s].pc = "finish"
<1> USE DEF QInv, TypeOK, FileTypes, ActorTypes
<1>0. ctl \in [Slots -> Turns] /\ ctl[s] \in Turns /\ Idle.pc = "idle"
  BY DEF Idle
<1>1. CASE UNCHANGED ctl
  BY <1>1
<1>2. CASE Restart
  BY <1>0, <1>2 DEF Restart
<1>3. ASSUME NEW ok \in BOOLEAN, ReconcileReturn(ok)
      PROVE  ctl'[s] = ctl[s] \/ ctl'[s].pc \in {"claim", "idle"}
  <2>1. ctl'[s] = ctl[s] \/ ctl'[s] = [ctl[s] EXCEPT !.pc = IF ok THEN "claim" ELSE "idle"]
    BY <1>3 DEF ReconcileReturn
  <2> QED
    BY <1>0, <2>1 DEF Turns
<1>4. CASE ReconcileRecord
  BY <1>3, <1>4, SweepEffect DEF SweepLooks, SweepGoesOn
<1>5. CASE ReconcileDone
  BY <1>3, <1>5 DEF ReconcileDone
<1>6. ASSUME NEW t \in Slots, NEW q, Turn(t, q)
      PROVE  ctl'[s] = ctl[s] \/ (s = t /\ ctl'[s].pc = q /\ ctl'[s].j = ctl[s].j)
  BY <1>0, <1>6 DEF Turn, Turns
<1>7. ASSUME NEW t \in Slots, BeginTurn(t)
      PROVE  ctl'[s] = ctl[s] \/ ctl'[s].pc = "sweep"
  BY <1>6, <1>7 DEF BeginTurn
<1>8. ASSUME NEW t \in Slots, Claim(t), ctl'[s] # ctl[s], ctl'[s].pc # "idle"
      PROVE  s = t /\ ctl'[s].pc \in {"secret", "fail"} /\ ctl'[s].j \in requests
  BY <1>0, <1>8, HeadOf DEF Claim
<1>9. ASSUME NEW t \in Slots, ClaimSecret(t)
      PROVE  ctl'[s] = ctl[s] \/ (s = t /\ ctl'[s].pc \in {"dispatch", "fail"} /\ ctl'[s].j = ctl[s].j)
  BY <1>6, <1>9 DEF ClaimSecret
<1>10. ASSUME NEW t \in Slots, Dispatch(t)
       PROVE  ctl'[s] = ctl[s] \/ (s = t /\ ctl'[s].pc = "wait" /\ ctl'[s].j = ctl[s].j)
  BY <1>6, <1>10 DEF Dispatch
<1>11. ASSUME NEW t \in Slots, Waited(t)
       PROVE  \/ ctl'[s] = ctl[s]
              \/ /\ s = t /\ ctl'[s].j = ctl[s].j
                 /\ \/ ctl'[s].pc = "finish"
                    \/ ctl'[s].pc = "fail" /\ ~Responded(ctl[s].j) /\ Class[job[ctl[s].j].key] # "serialized"
  BY <1>6, <1>11 DEF Waited
<1>12. ASSUME NEW t \in Slots, FailClaim(t) \/ FailClose(t) \/ FailAnswer(t)
       PROVE  \/ ctl'[s] = ctl[s]
              \/ /\ s = t /\ ctl'[s].j = ctl[s].j
                 /\ \/ FailClaim(s) /\ ctl'[s].pc = "fail_close"
                    \/ FailClose(s) /\ ctl'[s].pc = "fail_answer"
                    \/ FailAnswer(s) /\ ctl'[s].pc = "finish"
  <2>1. FailClaim(t) => Turn(t, "fail_close")
    BY DEF FailClaim
  <2>2. FailClose(t) => Turn(t, "fail_answer")
    BY DEF FailClose
  <2>3. FailAnswer(t) => Turn(t, "finish")
    BY DEF FailAnswer
  <2> QED
    BY <1>6, <1>12, <2>1, <2>2, <2>3
<1>13. ASSUME NEW t \in Slots, FinishTurn(t)
       PROVE  ctl'[s] = ctl[s] \/ ctl'[s].pc = "idle"
  BY <1>0, <1>13 DEF FinishTurn
<1>14. CASE ctl'[s] = ctl[s]
  BY <1>14
<1>15. CASE ctl'[s] # ctl[s]
  BY <1>1, <1>2, <1>3, <1>4, <1>5, <1>7, <1>8, <1>9, <1>10, <1>11, <1>12, <1>13, <1>15, Frames DEF Footprints
<1> QED
  BY <1>14, <1>15

(* How a consumer goes on.                                                 *)
LEMMA ConsumerGoesOn ==
    ASSUME QInv, Next, NEW s \in Slots
    PROVE  \/ con'[s].pc = "idle"
           \/ con'[s].pc = con[s].pc /\ con'[s].j = con[s].j /\ con'[s].v = con[s].v
           \/ Dispatch(s) /\ con'[s].pc = "read" /\ con'[s].j = ctl[s].j /\ con'[s].v = "none"
           \/ /\ con'[s].j = con[s].j
              /\ \/ ConsumerClaim(s) /\ con'[s].pc = "run" /\ con'[s].v = con[s].v
                 \/ ConsumerClaim(s) /\ con'[s].pc = "close" /\ con'[s].v = "failed"
                 \/ ConsumerRun(s) /\ con'[s].pc = "running" /\ con'[s].v = con[s].v
                 \/ ConsumerRun(s) /\ con'[s].pc = "close" /\ con'[s].v = "failed"
                 \/ ConsumerRan(s) /\ con'[s].pc = "close" /\ con'[s].v \in {"succeeded", "failed"}
                 \/ ConsumerClose(s) /\ con'[s].pc = "answer" /\ con'[s].v = con[s].v
                 \/ ConsumerAnswer(s) /\ con'[s].pc = "unlink" /\ con'[s].v = con[s].v
<1> USE DEF QInv, TypeOK, ActorTypes
<1>0. con \in [Slots -> Consumers] /\ con[s] \in Consumers /\ IdleCon.pc = "idle" /\ IdleCon.v = "none"
  BY DEF IdleCon
<1>1. CASE UNCHANGED con
  BY <1>1
<1>2. CASE Restart
  BY <1>0, <1>2 DEF Restart
<1>3. ASSUME NEW t \in Slots, Dispatch(t)
      PROVE  con'[s] = con[s] \/ (s = t /\ con'[s].pc = "read" /\ con'[s].j = ctl[s].j /\ con'[s].v = "none")
  BY <1>0, <1>3 DEF Dispatch, IdleCon
<1>4. ASSUME NEW t \in Slots, FailClose(t)
      PROVE  con'[s].pc = con[s].pc /\ con'[s].j = con[s].j /\ con'[s].v = con[s].v
  BY <1>0, <1>4 DEF FailClose, Consumers
<1>5. ASSUME NEW t \in Slots, FinishTurn(t) \/ KillConsumer(t)
      PROVE  con'[s] = con[s] \/ con'[s].pc = "idle"
  BY <1>0, <1>5 DEF FinishTurn, KillConsumer
<1>6. ASSUME NEW t \in Slots, t # s, ConsumerStep(t)
      PROVE  con'[s] = con[s]
  BY <1>0, <1>6 DEF ConsumerStep, ConsumerClaim, ConsumerRun, ConsumerRan, ConsumerClose, ConsumerAnswer, ConsumerUnlink,
     Goes
<1>7. CASE ConsumerClaim(s)
  BY <1>0, <1>7 DEF ConsumerClaim, Goes, Consumers
<1>8. CASE ConsumerRun(s)
  BY <1>0, <1>8 DEF ConsumerRun, Goes, Consumers
<1>9. CASE ConsumerRan(s)
  BY <1>0, <1>9 DEF ConsumerRan, Consumers
<1>10. CASE ConsumerClose(s)
  BY <1>0, <1>10 DEF ConsumerClose, Consumers
<1>11. CASE ConsumerAnswer(s) \/ ConsumerUnlink(s)
  BY <1>0, <1>11 DEF ConsumerAnswer, ConsumerUnlink, Goes, Consumers
<1>12. CASE con'[s] = con[s]
  BY <1>12
<1>13. CASE con'[s] # con[s]
  BY <1>1, <1>2, <1>3, <1>4, <1>5, <1>6, <1>7, <1>8, <1>9, <1>10, <1>11, <1>13, Frames DEF Footprints, ConsumerStep
<1> QED
  BY <1>12, <1>13

(* A job is answered by the one turn, or the one consumer, that has it.    *)
LEMMA AnsweredBy ==
    ASSUME QInv, Next, NEW j \in Jobs, Responded(j)', ~Responded(j)
    PROVE  \E t \in Slots :
              /\ ctl[t].pc \in Busy /\ ctl[t].j = j
              /\ \/ FailAnswer(t) /\ ctl[t].pc = "fail_answer" /\ ctl'[t].pc = "finish"
                 \/ ConsumerAnswer(t) /\ UNCHANGED ctl /\ ctl[t].pc = "wait" /\ con[t].pc = "answer"
                       /\ con'[t].pc = "unlink" /\ responses'[j].st = con[t].v
<1>1. PICK t \in Slots : \/ FailAnswer(t) /\ ctl[t].j = j
                         \/ ConsumerAnswer(t) /\ con[t].j = j /\ responses'[j].st = con[t].v
  BY AnswersStep DEF Responded
<1>2. CASE FailAnswer(t) /\ ctl[t].j = j
  <2>1. ctl[t].pc = "fail_answer" /\ ctl'[t].pc = "finish"
    BY <1>2 DEF FailAnswer, Turn, QInv, TypeOK, ActorTypes, Turns
  <2> QED
    BY <1>2, <2>1, Labels
<1>3. CASE ConsumerAnswer(t) /\ con[t].j = j /\ responses'[j].st = con[t].v
  <2>1. con[t].pc = "answer" /\ UNCHANGED ctl
    BY <1>3 DEF ConsumerAnswer, conRest
  <2>2. ctl[t].pc = "wait" /\ ctl[t].j = j
    BY <1>3, <2>1, Workers
  <2>3. con' = [con EXCEPT ![t].pc = "unlink"]
    BY <1>3 DEF ConsumerAnswer, Goes
  <2>4. con'[t].pc = "unlink"
    BY <2>3 DEF QInv, TypeOK, ActorTypes, Consumers
  <2> QED
    BY <1>3, <2>1, <2>2, <2>4, Labels
<1> QED
  BY <1>1, <1>2, <1>3

(* Nobody else answers for a job somebody works on.                        *)
LEMMA AnswerStep ==
    ASSUME QInv, Next
    PROVE  AnswerInv'
<1> USE DEF QInv
<1>0. requests \subseteq Jobs /\ requests' \subseteq Jobs
  BY TypeStep DEF TypeOK, FileTypes
<1>1. ASSUME NEW j \in requests' PROVE ~Responded(j)'
  <2>1. CASE j \in requests
    BY <1>0, <2>1, RespondedStep DEF AnswerInv, TurnInv
  <2>2. CASE j \notin requests
    <3>1. PublishJob /\ j = enq.j /\ enq.pc = "publish" /\ j \in Jobs
      BY <1>0, <2>2, FilesStep DEF PublishJob
    <3>2. ~Past(j)
      BY <3>1 DEF Past, Unpublished
    <3> QED
      BY <3>1, <3>2, RespondedStep DEF EnqueueInv, JobNames, Active
  <2> QED
    BY <2>1, <2>2
<1>2. ASSUME NEW s \in Slots, ctl'[s].pc \in Busy \ {"wait", "finish"}
      PROVE  ctl'[s].j \in Jobs /\ responses'[ctl'[s].j].st = "none"
  <2>1. CASE ctl[s].pc \in Busy \ {"wait", "finish"} /\ ctl'[s].j = ctl[s].j
    <3>1. ctl[s].j \in Jobs /\ ~Responded(ctl[s].j)
      BY <2>1, Workers DEF AnswerInv
    <3>2. PICK j \in Jobs : j = ctl[s].j /\ ~Responded(j)
      BY <3>1
    <3>3. ~Responded(j)'
      BY <1>2, <2>1, <3>2, AnsweredBy, Apart
    <3> QED
      BY <2>1, <3>2, <3>3 DEF Responded
  <2>2. CASE Claim(s) /\ ctl'[s].j \in requests
    BY <1>0, <2>2 DEF Claim, ctlRest, AnswerInv, Responded
  <2>3. CASE Waited(s) /\ ctl'[s].j = ctl[s].j /\ ~Responded(ctl[s].j)
    <3>1. ctl[s].j \in Jobs
      BY <2>3, Workers, Labels DEF Waited
    <3> QED
      BY <2>3, <3>1 DEF Waited, ctlRest, Responded
  <2>4. \/ ctl'[s].pc = ctl[s].pc /\ ctl'[s].j = ctl[s].j
        \/ ctl[s].pc \in {"secret", "fail", "fail_close"} /\ ctl'[s].j = ctl[s].j
        \/ Claim(s) /\ ctl'[s].j \in requests
        \/ Waited(s) /\ ctl'[s].j = ctl[s].j /\ ~Responded(ctl[s].j)
    BY <1>2, TurnGoesOn, Labels DEF ClaimSecret, FailClaim, FailClose
  <2> QED
    BY <1>2, <2>1, <2>2, <2>3, <2>4, Labels
<1>3. ASSUME NEW s \in Slots, con'[s].pc \notin {"idle", "unlink"}
      PROVE  con'[s].j \in Jobs /\ responses'[con'[s].j].st = "none"
  <2>1. CASE Dispatch(s) /\ con'[s].j = ctl[s].j
    <3>1. ctl[s].pc = "dispatch" /\ UNCHANGED responses
      BY <2>1 DEF Dispatch, ctlRest
    <3>2. ctl[s].j \in Jobs /\ ~Responded(ctl[s].j)
      BY <3>1, Workers, Labels DEF AnswerInv
    <3> QED
      BY <2>1, <3>1, <3>2 DEF Responded
  <2>2. CASE con[s].pc \notin {"idle", "unlink"} /\ con'[s].j = con[s].j
    <3>1. PICK j \in Jobs : j = con[s].j /\ ~Responded(j)
      BY <2>2, Workers DEF AnswerInv
    <3>2. ctl[s].pc = "wait" /\ ctl[s].j = j
      BY <2>2, <3>1, Workers
    <3>3. ~Responded(j)'
      BY <1>3, <3>1, <3>2, AnsweredBy, Apart, Labels
    <3> QED
      BY <2>2, <3>1, <3>3 DEF Responded
  <2>3. \/ con'[s].pc = con[s].pc /\ con'[s].j = con[s].j
        \/ con[s].pc \notin {"idle", "unlink"} /\ con'[s].j = con[s].j
        \/ Dispatch(s) /\ con'[s].j = ctl[s].j
    BY <1>3, ConsumerGoesOn DEF ConsumerClaim, ConsumerRun, ConsumerRan, ConsumerClose
  <2> QED
    BY <1>3, <2>1, <2>2, <2>3
<1>4. ASSUME NEW s \in Slots, con'[s].pc \in {"close", "answer", "unlink"}
      PROVE  con'[s].v # "none"
  BY <1>4, ConsumerGoesOn DEF AnswerInv, ConsumerClose, ConsumerAnswer
<1> QED
  BY <1>1, <1>2, <1>3, <1>4 DEF AnswerInv, Responded

(***************************************************************************)
(* The audit transaction.                                                  *)
(***************************************************************************)

(* The four things that happen to a transaction: it is opened by the       *)
(* enqueue that reserved the number, queued, claimed, and ended.           *)
Opened(j) ==
    /\ enq.pc = "begin" /\ j = enq.j /\ enq'.pc # "begin"
    /\ \/ /\ \E r \in Records : r.phase \in {"prepared", "publishing", "failed"} /\ outbox' = [outbox EXCEPT ![j] = r]
          /\ log' \in {log, log \cup {<<j, "requested">>}}
          /\ enq'.pc \in {"idle", "secret", "publish"}
       \/ /\ outbox' = outbox /\ enq'.pc = "idle"
          /\ log' = log \cup {<<j, "requested">>, <<j, "failed">>}
Queued(j) ==
    /\ outbox[j].phase \in {"publishing", "queued"} /\ log' = log
    /\ outbox' = [outbox EXCEPT ![j].phase = "queued"]
Started(j) ==
    /\ outbox[j].phase \in {"publishing", "queued"} /\ log' = log
    /\ \E r \in Records : r.phase = "executing" /\ outbox' = [outbox EXCEPT ![j] = r]

(* Why a record of phase p may be ended under v.                           *)
EndedBy(j, v) ==
    \/ \E s \in Slots : ConsumerClose(s) /\ con[s].j = j /\ con[s].v = v
    \/ \E s \in Slots : FailClose(s) /\ ctl[s].j = j /\ v = "failed"
    \/ Unpublish /\ enq.j = j /\ v = "failed"
Reason(j, v) ==
    /\ outbox[j].phase # "none"
    /\ \/ outbox[j].phase = v
       \/ outbox[j].phase \in {"prepared", "publishing", "queued"} /\ v = "failed"
       \/ outbox[j].phase \in {"publishing", "queued", "executing"} /\ Responded(j) /\ v = responses[j].st
       \/ outbox[j].phase = "executing" /\ v = "unknown"
       \/ outbox[j].phase = "executing" /\ EndedBy(j, v)

(* A sweep in progress is the only one to touch the records.               *)
LEMMA OutboxStep ==
    ASSUME QInv, Next
    PROVE  \/ UNCHANGED <<outbox, log>>
           \/ /\ OutboxFree \/ ReconcileRecord
              /\ \E j \in Jobs : \/ Opened(j) \/ Queued(j) \/ Started(j)
                                 \/ \E v \in Terminal : Ended(j, v) /\ Reason(j, v)
<1> USE DEF QInv, TypeOK, FileTypes, ActorTypes
<1>0. outbox \in [Jobs -> Records] /\ enq \in Enqueues /\ IdleEnq.pc = "idle"
  BY DEF IdleEnq
<1>1. CASE UNCHANGED <<outbox, log>>
  BY <1>1
<1>2. ASSUME NEW o \in {"service", "consumer", "controller"}, NEW n \in Nat, NEW p \in Phases
      PROVE  [phase |-> p, owner |-> <<o, n>>] \in Records
  BY DEF Records, Owners
<1>3. CASE BeginAudit
  <2>1. enq.pc = "begin" /\ enq.j \in Jobs /\ OutboxFree
    BY <1>3, Workers DEF BeginAudit, Reserved
  <2>2. CASE AuditBegin(enq.j, TRUE) /\ enq' = [enq EXCEPT !.pc = IF enq.key \in Secretful THEN "secret" ELSE "publish"]
    <3>1. enq'.pc \in {"secret", "publish"}
      BY <1>0, <2>2 DEF Enqueues
    <3>2. [phase |-> "publishing", owner |-> <<"service", gen>>] \in Records
      BY <1>2 DEF Phases
    <3> QED
      BY <2>1, <2>2, <3>1, <3>2 DEF AuditBegin, Opened
  <2>3. CASE AuditBegin(enq.j, FALSE) /\ enq' = IdleEnq
    <3>1. [phase |-> "failed", owner |-> <<"service", gen>>] \in Records
      BY <1>2 DEF Phases, Terminal
    <3> QED
      BY <1>0, <2>1, <2>3, <3>1 DEF AuditBegin, Opened
  <2> QED
    BY <1>3, <2>2, <2>3 DEF BeginAudit, Answer
<1>4. CASE KillDuringBegin
  <2>1. enq.pc = "begin" /\ enq.j \in Jobs /\ OutboxFree
    BY <1>4, Workers DEF KillDuringBegin, Reserved
  <2>2. [phase |-> "prepared", owner |-> <<"service", gen>>] \in Records
    BY <1>2 DEF Phases
  <2> QED
    BY <1>0, <1>4, <2>1, <2>2 DEF KillDuringBegin, Opened
<1>5. CASE MarkQueued
  <2>1. enq.j \in Jobs /\ OutboxFree
    BY <1>5, Workers DEF MarkQueued, Reserved
  <2> QED
    BY <1>5, <2>1 DEF MarkQueued, Queued
<1>6. ASSUME NEW s \in Slots, FailClaim(s) \/ ConsumerClaim(s), ~UNCHANGED outbox
      PROVE  OutboxFree /\ \E j \in Jobs : Started(j)
  <2>1. CASE FailClaim(s)
    <3>1. ctl[s].j \in Jobs /\ OutboxFree
      BY <2>1, Workers, Labels DEF FailClaim
    <3>2. [phase |-> "executing", owner |-> <<"controller", ctl[s].j>>] \in Records
      BY <1>2, <3>1 DEF Phases, Jobs
    <3> QED
      BY <1>6, <2>1, <3>1, <3>2 DEF FailClaim, MayClaim, AuditClaim, Started
  <2>2. CASE ConsumerClaim(s)
    <3>1. con[s].j \in Jobs /\ OutboxFree
      BY <2>2, Workers DEF ConsumerClaim
    <3>2. [phase |-> "executing", owner |-> <<"consumer", con[s].j>>] \in Records
      BY <1>2, <3>1 DEF Phases, Jobs
    <3> QED
      BY <1>6, <2>2, <3>1, <3>2 DEF ConsumerClaim, MayClaim, AuditClaim, Started
  <2> QED
    BY <1>6, <2>1, <2>2
<1>7. ASSUME NEW j \in Jobs, NEW v \in {"failed", "succeeded"}, NEW who, MayComplete(j, v, who), EndedBy(j, v)
      PROVE  Reason(j, v)
  BY <1>7 DEF MayComplete, Reason
<1>8. ASSUME NEW j \in Jobs, NEW v \in {"failed", "succeeded"}, NEW who, NEW pending, AuditComplete(j, v, who, pending),
             EndedBy(j, v), ~UNCHANGED <<outbox, log>>
      PROVE  \E i \in Jobs : \E w \in Terminal : Ended(i, w) /\ Reason(i, w)
  <2>1. MayComplete(j, v, who) /\ Ended(j, v)
    BY <1>8, CompleteEffect
  <2> QED
    BY <1>7, <1>8, <2>1 DEF Terminal
<1>9. CASE Unpublish
  <2>1. enq.j \in Jobs /\ OutboxFree /\ EndedBy(enq.j, "failed")
    BY <1>9, Workers DEF Unpublish, Reserved, EndedBy
  <2> QED
    BY <1>8, <1>9, <2>1 DEF Unpublish
<1>10. ASSUME NEW s \in Slots, FailClose(s), ~UNCHANGED <<outbox, log>>
       PROVE  OutboxFree /\ \E i \in Jobs : \E w \in Terminal : Ended(i, w) /\ Reason(i, w)
  <2>1. ctl[s].j \in Jobs /\ OutboxFree
    BY <1>10, Workers, Labels DEF FailClose
  <2>2. EndedBy(ctl[s].j, "failed")
    BY <1>10 DEF EndedBy
  <2>3. PICK pending \in BOOLEAN : AuditComplete(ctl[s].j, "failed", <<"controller", ctl[s].j>>, pending)
    BY <1>10 DEF FailClose
  <2> QED
    BY <1>8, <1>10, <2>1, <2>2, <2>3
<1>11. ASSUME NEW s \in Slots, ConsumerClose(s), ~UNCHANGED <<outbox, log>>
       PROVE  OutboxFree /\ \E i \in Jobs : \E w \in Terminal : Ended(i, w) /\ Reason(i, w)
  <2>1. con[s].j \in Jobs /\ OutboxFree
    BY <1>11, Workers DEF ConsumerClose
  <2>2. EndedBy(con[s].j, con[s].v) /\ con[s].v \in {"failed", "succeeded"}
    BY <1>11 DEF EndedBy, ConsumerClose, AnswerInv, Consumers
  <2>3. PICK pending \in BOOLEAN : AuditComplete(con[s].j, con[s].v, <<"consumer", con[s].j>>, pending)
    BY <1>11 DEF ConsumerClose
  <2> QED
    BY <1>8, <1>11, <2>1, <2>2, <2>3
<1>12. CASE ReconcileRecord
  <2> DEFINE j == Min(rec.todo)
             v == ReconciledPhase(j, DirSeen(j))
  <2>1. j \in Jobs /\ outbox[j].phase # "none"
    BY <1>12, SweptJob DEF AuditInv
  <2>2. DirSeen(j) \in {"requests", "processing", "responses", "nowhere"} /\ (DirSeen(j) = "responses" => Responded(j))
    <3>1. rec.look \in {1, 2, 3}
      BY DEF Sweeps
    <3> QED
      BY <3>1 DEF DirSeen, LookOrder, Sees
  <2>3. /\ v = "queued" => outbox[j].phase \in {"publishing", "queued"}
        /\ v \in Terminal => Reason(j, v)
    <3>1. outbox[j].phase \in Phases
      BY <1>0, <2>1 DEF Records
    <3> QED
      BY <2>1, <2>2, <3>1, VerdictOfSweep DEF Reason, Phases
  <2>4. \/ UNCHANGED <<outbox, log>>
        \/ outbox' = [outbox EXCEPT ![j].phase = "queued"] /\ log' = log /\ v = "queued"
        \/ v \in Terminal /\ Ended(j, v)
    BY <1>12, SweepEffect DEF SweepLooks
  <2> HIDE DEF j, v
  <2> QED
    BY <1>12, <2>1, <2>3, <2>4 DEF Queued
<1> QED
  BY <1>1, <1>3, <1>4, <1>5, <1>6, <1>9, <1>10, <1>11, <1>12, Frames DEF Footprints, FailClaim, ConsumerClaim, conRest,
     MarkQueued

(* What a step makes of one job's transaction.                             *)
LEMMA LoggedStep ==
    ASSUME NEW j, NEW i, NEW v \in Terminal
    PROVE  /\ log' = log => Logged(j)' = Logged(j)
           /\ log' = log \cup {<<i, "requested">>} => Logged(j)' = Logged(j)
           /\ log' = log \cup {<<i, "requested">>, <<i, v>>} =>
                 Logged(j)' = (IF j = i THEN Logged(j) \cup {v} ELSE Logged(j))
           /\ log' \in {log, log \cup {<<i, "requested">>}, log \cup {<<i, "requested">>, <<i, v>>}} =>
                 /\ <<j, "requested">> \in log => <<j, "requested">> \in log'
                 /\ <<j, "requested">> \in log' => <<j, "requested">> \in log \/ j = i
<1>1. "requested" \notin Terminal
  BY DEF Terminal
<1>2. ASSUME log' = log \cup {<<i, "requested">>}
      PROVE  Logged(j)' = Logged(j)
  BY <1>1, <1>2 DEF Logged
<1>3. ASSUME log' = log \cup {<<i, "requested">>, <<i, v>>}
      PROVE  Logged(j)' = (IF j = i THEN Logged(j) \cup {v} ELSE Logged(j))
  <2>1. \A w \in Terminal : <<j, w>> \in log' <=> <<j, w>> \in log \/ (j = i /\ w = v)
    BY <1>1, <1>3
  <2> QED
    BY <2>1 DEF Logged
<1>4. ASSUME log' \in {log, log \cup {<<i, "requested">>}, log \cup {<<i, "requested">>, <<i, v>>}}
      PROVE  /\ <<j, "requested">> \in log => <<j, "requested">> \in log'
             /\ <<j, "requested">> \in log' => <<j, "requested">> \in log \/ j = i
  BY <1>1, <1>4
<1> QED
  BY <1>2, <1>3, <1>4 DEF Logged

Same(j) ==
    /\ outbox'[j].phase = outbox[j].phase /\ Logged(j)' = Logged(j)
    /\ <<j, "requested">> \in log' <=> <<j, "requested">> \in log
Opens(j) ==
    /\ enq.pc = "begin" /\ j = enq.j /\ enq'.pc # "begin"
    /\ \/ /\ outbox'[j].phase \in {"prepared", "publishing", "failed"} /\ Logged(j)' = Logged(j)
          /\ enq'.pc \in {"idle", "secret", "publish"}
       \/ /\ outbox'[j].phase = outbox[j].phase /\ Logged(j)' = Logged(j) \cup {"failed"}
          /\ <<j, "requested">> \in log' /\ enq'.pc = "idle"
Advances(j) ==
    /\ outbox[j].phase \in {"publishing", "queued"} /\ outbox'[j].phase \in {"queued", "executing"}
    /\ Logged(j)' = Logged(j)
Ends(j, v) ==
    /\ v \in Terminal /\ Reason(j, v)
    /\ \/ outbox'[j].phase = v /\ Logged(j)' \in {Logged(j), Logged(j) \cup {v}}
       \/ outbox'[j].phase = "none" /\ Logged(j)' = Logged(j) \cup {v} /\ <<j, "requested">> \in log'

(* What one step does to one job's audit record: nothing, or exactly one of*)
(* opening, advancing and ending it, under the outbox lock.                *)
LEMMA TransactionStep ==
    ASSUME QInv, Next, NEW j \in Jobs
    PROVE  /\ Same(j) \/ ((OutboxFree \/ ReconcileRecord) /\ (Opens(j) \/ Advances(j) \/ \E v \in Terminal : Ends(j, v)))
           /\ <<j, "requested">> \in log => <<j, "requested">> \in log'
<1>0. outbox \in [Jobs -> Records] /\ NoRecord.phase = "none" /\ "failed" \in Terminal
  BY DEF QInv, TypeOK, FileTypes, NoRecord, Terminal
<1>1. CASE UNCHANGED <<outbox, log>>
  BY <1>1, LoggedStep, <1>0 DEF Same
<1>2. ASSUME NEW i \in Jobs, Opened(i)
      PROVE  Opened(i) /\ (Same(j) \/ Opens(j)) /\ (<<j, "requested">> \in log => <<j, "requested">> \in log')
  <2>1. CASE outbox' = outbox /\ log' = log \cup {<<i, "requested">>, <<i, "failed">>} /\ enq'.pc = "idle"
    BY <1>0, <1>2, <2>1, LoggedStep DEF Same, Opens, Opened
  <2>2. ASSUME NEW r \in Records, r.phase \in {"prepared", "publishing", "failed"}, outbox' = [outbox EXCEPT ![i] = r],
               log' \in {log, log \cup {<<i, "requested">>}}, enq'.pc \in {"idle", "secret", "publish"}
        PROVE  (Same(j) \/ Opens(j)) /\ (<<j, "requested">> \in log => <<j, "requested">> \in log')
    <3>1. outbox'[j] = IF j = i THEN r ELSE outbox[j]
      BY <1>0, <2>2
    <3>2. Logged(j)' = Logged(j) /\ (<<j, "requested">> \in log => <<j, "requested">> \in log')
          /\ (<<j, "requested">> \in log' => <<j, "requested">> \in log \/ j = i)
      BY <1>0, <2>2, LoggedStep
    <3> QED
      BY <1>2, <2>2, <3>1, <3>2 DEF Same, Opens, Opened
  <2> QED
    BY <1>2, <2>1, <2>2 DEF Opened
<1>3. ASSUME NEW i \in Jobs, Queued(i) \/ Started(i)
      PROVE  (Same(j) \/ Advances(j)) /\ log' = log
  <2>1. log' = log /\ Logged(j)' = Logged(j)
    BY <1>0, <1>3, LoggedStep DEF Queued, Started
  <2>2. CASE j = i
    <3>1. outbox[j].phase \in {"publishing", "queued"} /\ outbox'[j].phase \in {"queued", "executing"}
      BY <1>0, <1>3, <2>2 DEF Queued, Started, Records
    <3> QED
      BY <2>1, <3>1 DEF Advances
  <2>3. CASE j # i
    <3>1. outbox'[j] = outbox[j]
      BY <1>0, <1>3, <2>3 DEF Queued, Started
    <3> QED
      BY <2>1, <3>1 DEF Same
  <2> QED
    BY <2>1, <2>2, <2>3
<1>4. ASSUME NEW i \in Jobs, NEW v \in Terminal, Ended(i, v), Reason(i, v)
      PROVE  (Same(j) \/ Ends(j, v)) /\ (<<j, "requested">> \in log => <<j, "requested">> \in log')
  <2>1. CASE j = i
    <3>1. \/ outbox'[j].phase = v /\ (log' = log \/ log' = log \cup {<<j, "requested">>, <<j, v>>})
          \/ outbox'[j].phase = "none" /\ log' = log \cup {<<j, "requested">>, <<j, v>>}
      BY <1>0, <1>4, <2>1 DEF Ended, Records
    <3>2. /\ log' = log => Logged(j)' = Logged(j)
          /\ log' = log \cup {<<j, "requested">>, <<j, v>>} => Logged(j)' = Logged(j) \cup {v}
      BY <1>4, LoggedStep
    <3>3. log' = log \cup {<<j, "requested">>, <<j, v>>} => <<j, "requested">> \in log'
      OBVIOUS
    <3> QED
      BY <1>4, <2>1, <3>1, <3>2, <3>3 DEF Ends
  <2>2. CASE j # i
    <3>1. outbox'[j] = outbox[j] /\ (log' = log \/ log' = log \cup {<<i, "requested">>, <<i, v>>})
      BY <1>0, <1>4, <2>2 DEF Ended
    <3> QED
      BY <1>4, <2>2, <3>1, LoggedStep DEF Same
  <2> QED
    BY <2>1, <2>2
<1> QED
  BY <1>1, <1>2, <1>3, <1>4, OutboxStep

(* Once announced, always announced; once claimed, never queued again.     *)
LEMMA AnnouncedStep ==
    ASSUME QInv, Next, NEW j \in Jobs
    PROVE  /\ Announced(j) => Announced(j)'
           /\ Announced(j)' => Announced(j) \/ (enq.pc = "begin" /\ j = enq.j /\ enq'.pc # "begin")
           /\ Announced(j) /\ Claimed(j) => Claimed(j)'
<1>1. enq.pc = "begin" => ~Announced(enq.j)
  BY DEF QInv, AuditInv
<1>2. CASE Same(j)
  BY <1>2 DEF Same, Announced, Claimed
<1>3. CASE Opens(j)
  BY <1>1, <1>3 DEF Opens, Announced
<1>4. CASE Advances(j)
  BY <1>4 DEF Advances, Announced, Claimed
<1>5. ASSUME NEW v \in Terminal, Ends(j, v)
      PROVE  Announced(j) /\ Announced(j)' /\ Claimed(j)'
  BY <1>5 DEF Ends, Announced, Claimed, Reason, Terminal
<1> QED
  BY <1>2, <1>3, <1>4, <1>5, TransactionStep

(* The records, the log and the files keep telling one story.              *)
LEMMA AuditStep ==
    ASSUME QInv, Next
    PROVE  AuditInv'
<1> USE DEF QInv
<1>0. /\ seq \in Nat /\ seq' \in Nat /\ seq <= seq' /\ processing \subseteq Jobs
      /\ \A j \in Jobs : j \in Nat
      /\ enq.pc = "begin" => enq.j = seq /\ enq.j \in Jobs
  BY TypeStep, DocumentStep, Workers, JobQueueAssumption DEF TypeOK, FileTypes, SomeJob, Jobs, Reserved
<1>1. ASSUME NEW j \in Jobs, j > seq'
      PROVE  ~Announced(j)'
  BY <1>0, <1>1, AnnouncedStep DEF AuditInv
<1>2. ASSUME enq'.pc = "begin"
      PROVE  ~(outbox'[enq'.j].phase # "none" \/ <<enq'.j, "requested">> \in log')
  <2>1. CASE enq' = enq
    <3>1. PICK j \in Jobs : j = enq.j /\ ~Announced(j)
      BY <1>0, <1>2, <2>1 DEF AuditInv
    <3>2. ~Announced(j)'
      BY <1>2, <3>1, AnnouncedStep
    <3> QED
      BY <2>1, <3>1, <3>2 DEF Announced
  <2>2. CASE enq' # enq
    <3>1. seq' = seq + 1 /\ enq'.j = seq' /\ seq' \in Jobs
      BY <1>0, <1>2, <2>2, EnqueueGoesOn, DocumentStep DEF Early
    <3>2. PICK j \in Jobs : j = seq' /\ j > seq
      BY <1>0, <3>1
    <3>3. ~Announced(j)
      BY <3>2 DEF AuditInv
    <3>4. ~Announced(j)'
      BY <1>0, <3>2, <3>3, AnnouncedStep
    <3> QED
      BY <3>1, <3>2, <3>4 DEF Announced
  <2> QED
    BY <2>1, <2>2
<1>3. ASSUME enq'.pc \in {"secret", "publish"}
      PROVE  outbox'[enq'.j].phase # "none" \/ <<enq'.j, "requested">> \in log'
  <2>1. enq.pc \in {"begin", "secret", "publish"} /\ enq'.j = enq.j
    BY <1>3, EnqueueGoesOn DEF Early
  <2>2. PICK j \in Jobs : j = enq.j
    BY <2>1, Workers DEF Reserved
  <2>3. CASE Announced(j)
    BY <2>1, <2>2, <2>3, AnnouncedStep DEF Announced
  <2>4. CASE ~Announced(j)
    <3>1. enq.pc = "begin" /\ BeginAudit
      BY <1>3, <2>1, <2>2, <2>4, EnqueueGoesOn DEF AuditInv, Early
    <3>2. outbox' = [outbox EXCEPT ![enq.j] = [phase |-> "publishing", owner |-> <<"service", gen>>]]
      BY <1>3, <3>1 DEF BeginAudit, Answer, IdleEnq, AuditBegin
    <3>3. outbox'[j].phase = "publishing"
      BY <2>2, <3>2 DEF TypeOK, FileTypes
    <3> QED
      BY <2>1, <2>2, <3>3
  <2> QED
    BY <2>3, <2>4
<1>4. ASSUME NEW j \in JobNames' PROVE Announced(j)'
  <2>0. j \in Jobs
    BY DEF JobNames
  <2>1. CASE j \in JobNames
    BY <2>0, <2>1, AnnouncedStep DEF AuditInv
  <2>2. CASE j \notin JobNames
    BY <2>0, <2>2, NamesStep, AnnouncedStep DEF AuditInv, PublishJob
  <2> QED
    BY <2>1, <2>2
<1>5. ASSUME NEW j \in Jobs
      PROVE  /\ Logged(j)' = {} \/ \E v \in Terminal : Logged(j)' = {v} /\ outbox'[j].phase \in {"none", v}
             /\ ~Announced(j)' => Logged(j)' = {}
  <2>0. /\ Logged(j) = {} \/ \E v \in Terminal : Logged(j) = {v} /\ outbox[j].phase \in {"none", v}
        /\ ~Announced(j) => Logged(j) = {}
        /\ enq.pc = "begin" /\ j = enq.j => ~Announced(j)
    BY DEF AuditInv
  <2>1. CASE Same(j)
    BY <2>0, <2>1, AnnouncedStep DEF Same
  <2>2. CASE Opens(j)
    <3>1. Logged(j) = {} /\ outbox[j].phase = "none"
      BY <2>0, <2>2 DEF Opens, Announced
    <3> QED
      BY <2>2, <3>1 DEF Opens, Announced, Terminal
  <2>3. CASE Advances(j)
    <3>1. Logged(j) = {}
      BY <2>0, <2>3 DEF Advances, Terminal
    <3> QED
      BY <2>3, <3>1 DEF Advances
  <2>4. ASSUME NEW v \in Terminal, Ends(j, v)
        PROVE  <1>5!2
    <3>1. Logged(j) \subseteq {v}
      BY <2>0, <2>4 DEF Ends, Reason, Terminal
    <3>2. Logged(j)' \subseteq {v} /\ outbox'[j].phase \in {"none", v} /\ Announced(j)'
      BY <2>4, <3>1 DEF Ends, Announced, Terminal
    <3> QED
      BY <3>2
  <2> QED
    BY <2>1, <2>2, <2>3, <2>4, TransactionStep
<1>6. /\ \A j \in rec'.todo : outbox'[j].phase # "none"
      /\ rec'.by = "nobody" => rec'.todo = {}
  <2>0. rec \in Sweeps /\ IdleRec.todo = {} /\ rec.todo \subseteq Jobs
    BY DEF TypeOK, ActorTypes, IdleRec, Sweeps
  <2>1. ASSUME NEW by, by # "nobody", ReconcileBegin(by), UNCHANGED outbox
        PROVE  <1>6!1 /\ <1>6!2
    BY <2>1 DEF ReconcileBegin
  <2>2. CASE rec' = IdleRec
    BY <2>0, <2>2
  <2>3. CASE rec' = rec /\ ~ReconcileRecord
    <3>1. ASSUME NEW j \in rec.todo PROVE outbox'[j].phase # "none"
      BY <2>0, <2>3, <3>1, TransactionStep DEF Same, OutboxFree, AuditInv
    <3> QED
      BY <2>3, <3>1 DEF AuditInv
  <2>4. CASE ReconcileRecord
    <3> DEFINE i == Min(rec.todo)
    <3>1. i \in rec.todo /\ i \in Jobs
      BY <2>4, SweptJob
    <3>2. \A j \in rec.todo : outbox[j].phase # "none" /\ j \in Jobs
      BY <2>0 DEF AuditInv
    <3>3. rec.by # "nobody"
      BY <3>1 DEF AuditInv
    <3>4. CASE SweepLooks
      BY <2>0, <3>2, <3>3, <3>4 DEF SweepLooks, Sweeps
    <3>5. CASE ReconcileReturn(FALSE)
      BY <2>2, <3>5 DEF ReconcileReturn
    <3>6. CASE SweepGoesOn(i)
      <4>1. rec'.todo = rec.todo \ {i} /\ rec'.by = rec.by
        BY <2>0, <3>6 DEF SweepGoesOn, Sweeps
      <4>2. ASSUME NEW j \in Jobs, j # i PROVE outbox'[j] = outbox[j]
        BY <2>4, <3>1, <4>2, SweepEffect DEF SweepLooks, Ended, TypeOK, FileTypes
      <4> QED
        BY <3>2, <3>3, <4>1, <4>2
    <3> QED
      BY <2>4, <3>4, <3>5, <3>6, SweepEffect
  <2>5. ASSUME NEW k \in Keys, NEW b \in Bodies, Enqueue(k, b)
        PROVE  <1>6!1 /\ <1>6!2
    BY <2>1, <2>5 DEF Enqueue, audit
  <2>6. ASSUME NEW s \in Slots, BeginTurn(s)
        PROVE  <1>6!1 /\ <1>6!2
    BY <2>1, <2>6 DEF BeginTurn, audit, Slots
  <2>7. CASE PollReconcile
    BY <2>1, <2>7 DEF PollReconcile, audit
  <2>8. CASE (ReconcileDone \/ KillService \/ Restart) /\ rec' # rec
    BY <2>2, <2>8 DEF ReconcileDone, ReconcileReturn, KillService, Restart
  <2> QED
    BY <2>2, <2>3, <2>4, <2>5, <2>6, <2>7, <2>8, Frames DEF Footprints
<1>7. ASSUME NEW s \in Slots, con'[s].pc \in {"run", "running"} \/ (con'[s].pc # "idle" /\ con'[s].v = "succeeded")
      PROVE  outbox'[con'[s].j].phase \notin {"prepared", "publishing", "queued"}
  <2>1. CASE Claims(s) /\ con'[s].j = con[s].j
    <3>1. PICK j \in Jobs : j = con[s].j /\ j \in processing
      BY <1>0, <2>1, Workers, Labels DEF Claims, TurnInv
    <3>2. Announced(j) /\ Claimed(j)
      BY <2>1, <3>1 DEF AuditInv, JobNames, Active
    <3> QED
      BY <2>1, <3>1, <3>2, AnnouncedStep DEF Claimed
  <2>2. CASE ConsumerClaim(s) /\ con'[s].pc = "run" /\ con'[s].j = con[s].j
    <3>1. AuditClaim(con[s].j, <<"consumer", con[s].j>>)
      <4>1. [con EXCEPT ![s].pc = "close", ![s].v = "failed"][s].pc = "close"
        BY DEF TypeOK, ActorTypes, Consumers
      <4> QED
        BY <2>2, <4>1 DEF ConsumerClaim
    <3>2. con[s].j \in Jobs
      BY <2>2, Workers DEF ConsumerClaim
    <3> QED
      BY <2>2, <3>1, <3>2 DEF AuditClaim, TypeOK, FileTypes
  <2>3. CASE ConsumerRan(s) /\ con'[s].j = con[s].j
    BY <2>1, <2>3 DEF ConsumerRan, Claims
  <2>4. \/ con'[s].pc = con[s].pc /\ con'[s].j = con[s].j /\ con'[s].v = con[s].v
        \/ ConsumerClaim(s) /\ con'[s].pc = "run" /\ con'[s].j = con[s].j
        \/ Claims(s) /\ con'[s].j = con[s].j
        \/ ConsumerRan(s) /\ con'[s].j = con[s].j
    BY <1>7, ConsumerGoesOn DEF ConsumerRun, ConsumerClose, ConsumerAnswer, ConsumerClaim, Claims
  <2> QED
    BY <1>7, <2>1, <2>2, <2>3, <2>4 DEF Claims
<1>8. ASSUME NEW j \in Jobs, responses'[j].st = "succeeded"
      PROVE  Claimed(j)'
  <2>1. Announced(j) /\ Claimed(j)
    <3>1. CASE responses[j].st = "succeeded"
      BY <3>1 DEF AuditInv, JobNames, Responded
    <3>2. CASE responses[j].st # "succeeded"
      <4>1. PICK s \in Slots : ConsumerAnswer(s) /\ con[s].j = j /\ con[s].v = "succeeded" /\ j \in processing
        BY <1>8, <3>2, AnswersStep
      <4> QED
        BY <4>1 DEF ConsumerAnswer, Claims, AuditInv, JobNames, Active
    <3> QED
      BY <3>1, <3>2
  <2> QED
    BY <2>1, AnnouncedStep
<1> QED
  BY <1>1, <1>2, <1>3, <1>4, <1>5, <1>6, <1>7, <1>8 DEF AuditInv, Announced, Claims, Claimed

(***************************************************************************)
(* Verdicts.                                                               *)
(***************************************************************************)

(* A job nobody closes and nobody answers may have committed until a sweep *)
(* says that it is unknown, and after.                                     *)
LEMMA CommittedStays ==
    ASSUME QInv, Next, NEW j \in Jobs, MayHaveCommitted(j), Past(j), ~Responded(j)',
           \A s \in Slots : ConsumerClose(s) => con[s].j # j,
           \A s \in Slots : FailClose(s) => ctl[s].j # j
    PROVE  MayHaveCommitted(j)'
<1>1. ~Opens(j) /\ ~Advances(j)
  BY DEF Opens, Advances, Past, Unpublished, MayHaveCommitted
<1>2. ASSUME NEW v \in Terminal, Ends(j, v)
      PROVE  v = "unknown"
  <2>1. Unpublish => enq.j # j
    BY DEF Past, Unpublished, Unpublish
  <2> QED
    BY <1>2, <2>1 DEF Ends, Reason, EndedBy, MayHaveCommitted, Terminal
<1>3. Same(j) \/ Ends(j, "unknown")
  BY <1>1, <1>2, TransactionStep
<1> QED
  BY <1>3 DEF Same, Ends, MayHaveCommitted

(* A success is only ever passed on, from the manager that had it.         *)
LEMMA SucceededStep ==
    ASSUME QInv, Next, NEW j \in Jobs, SaysSucceeded(j)'
    PROVE  \/ SaysSucceeded(j)
           \/ \E s \in Slots : ConsumerRan(s) /\ con[s].j = j /\ con'[s].v = "succeeded"
<1>0. "succeeded" \in Terminal /\ \A v \in Terminal : v \in Logged(j) <=> <<j, v>> \in log
  BY DEF Terminal, Logged
<1>1. ASSUME <<j, "succeeded">> \in log' \/ outbox'[j].phase = "succeeded"
      PROVE  SaysSucceeded(j)
  <2>0. "succeeded" \in Logged(j)' \/ outbox'[j].phase = "succeeded"
    BY <1>0, <1>1 DEF Logged
  <2>1. CASE Same(j)
    BY <1>0, <2>0, <2>1 DEF Same, SaysSucceeded
  <2>2. CASE Opens(j) \/ Advances(j)
    BY <1>0, <2>0, <2>2 DEF Opens, Advances, SaysSucceeded
  <2>3. ASSUME NEW v \in Terminal, Ends(j, v)
        PROVE  SaysSucceeded(j)
    <3>1. v = "succeeded" \/ <<j, "succeeded">> \in log
      BY <1>0, <2>0, <2>3 DEF Ends
    <3>2. ASSUME v = "succeeded", EndedBy(j, v)
          PROVE  SaysSucceeded(j)
      BY <3>2 DEF EndedBy, SaysSucceeded, ConsumerClose
    <3> QED
      BY <2>3, <3>1, <3>2 DEF Ends, Reason, SaysSucceeded
  <2> QED
    BY <2>1, <2>2, <2>3, TransactionStep
<1>2. ASSUME responses'[j].st = "succeeded"
      PROVE  SaysSucceeded(j)
  <2>1. CASE responses[j].st = "succeeded"
    BY <2>1 DEF SaysSucceeded
  <2>2. CASE responses[j].st # "succeeded"
    <3>1. PICK s \in Slots : ConsumerAnswer(s) /\ con[s].j = j /\ con[s].v = "succeeded"
      BY <1>2, <2>2, AnswersStep
    <3>2. con[s].pc = "answer"
      BY <3>1 DEF ConsumerAnswer
    <3> QED
      BY <3>1, <3>2 DEF SaysSucceeded
  <2> QED
    BY <2>1, <2>2
<1>3. ASSUME NEW s \in Slots, con'[s].pc # "idle", con'[s].v = "succeeded", con'[s].j = j
      PROVE  SaysSucceeded(j) \/ (ConsumerRan(s) /\ con[s].j = j)
  BY <1>3, ConsumerGoesOn DEF SaysSucceeded, ConsumerClaim, ConsumerRun, ConsumerClose, ConsumerAnswer
<1> QED
  BY <1>1, <1>2, <1>3 DEF SaysSucceeded

(* The job of a running manager has no verdict, and nobody else has it.    *)
LEMMA RunningHasNone ==
    ASSUME QInv, NEW s \in Slots, con[s].pc \in {"run", "running"}
    PROVE  /\ con[s].j \in JobNames /\ con[s].j \in Jobs /\ ~SaysSucceeded(con[s].j) /\ Past(con[s].j)
           /\ \A t \in Slots : t # s => ~(ctl[t].pc \in Busy /\ ctl[t].j = con[s].j)
           /\ \A t \in Slots : t # s => ~(con[t].pc # "idle" /\ con[t].j = con[s].j)
<1> USE DEF QInv
<1>1. con[s].j \in Jobs /\ ctl[s].pc \in Busy /\ ctl[s].j = con[s].j /\ con[s].j \in processing
  BY Workers, Labels DEF TurnInv
<1>2. \A t \in Slots : t # s => ~(ctl[t].pc \in Busy /\ ctl[t].j = con[s].j)
  BY <1>1, Apart
<1>3. \A t \in Slots : t # s => ~(con[t].pc # "idle" /\ con[t].j = con[s].j)
  BY <1>2, Workers, Labels
<1>4. con[s].j \in JobNames /\ Past(con[s].j)
  BY <1>1 DEF JobNames, Active, EnqueueInv
<1>5. <<con[s].j, "succeeded">> \notin log
  <2>1. "succeeded" \notin Logged(con[s].j)
    BY DEF VerdictInv, MayHaveCommitted
  <2> QED
    BY <2>1 DEF Logged, Terminal
<1>6. ~SaysSucceeded(con[s].j)
  BY <1>3, <1>5 DEF SaysSucceeded, VerdictInv, MayHaveCommitted, Responded
<1> QED
  BY <1>1, <1>2, <1>3, <1>4, <1>6

(* A success that is recorded or answered is a success that happened.      *)
LEMMA VerdictStep ==
    ASSUME QInv, Next
    PROVE  VerdictInv'
<1> USE DEF QInv
<1>1. ASSUME NEW j \in Jobs, SaysSucceeded(j)'
      PROVE  effect'[j] = "done"
  <2>1. ASSUME NEW s \in Slots, ConsumerRan(s), con[s].j = j, con'[s].v = "succeeded"
        PROVE  effect'[j] = "done"
    <3>1. PICK v \in {"succeeded", "failed"} :
             /\ effect' = [effect EXCEPT ![con[s].j] = IF v = "succeeded" THEN "done" ELSE "partial"]
             /\ con' = [con EXCEPT ![s].pc = "close", ![s].v = v]
      BY <2>1 DEF ConsumerRan
    <3>2. con'[s].v = v
      BY <3>1 DEF TypeOK, ActorTypes, Consumers
    <3> QED
      BY <2>1, <3>1, <3>2 DEF TypeOK, FileTypes
  <2>2. CASE SaysSucceeded(j)
    <3>1. ASSUME NEW s \in Slots, ConsumerRun(s) \/ ConsumerRan(s)
          PROVE  con[s].j # j
      BY <2>2, <3>1, RunningHasNone DEF ConsumerRun, ConsumerRan
    <3>2. effect'[j] = effect[j]
      BY <3>1, Frames DEF Footprints, ConsumerRun, ConsumerRan, TypeOK, FileTypes
    <3> QED
      BY <2>2, <3>2 DEF VerdictInv
  <2> QED
    BY <1>1, <2>1, <2>2, SucceededStep
<1>2. ASSUME NEW s \in Slots, con'[s].pc \in {"run", "running"}
      PROVE  con'[s].v = "none" /\ \E j \in Jobs : j = con'[s].j /\ MayHaveCommitted(j)'
  <2>1. CASE con[s].pc \in {"run", "running"} /\ con'[s].j = con[s].j /\ con'[s].v = con[s].v
    <3>1. PICK j \in Jobs : j = con[s].j /\ MayHaveCommitted(j) /\ Past(j)
      BY <2>1, RunningHasNone DEF VerdictInv
    <3>2. ctl[s].pc = "wait" /\ ctl[s].j = j
      BY <2>1, <3>1, Workers
    <3>3. ASSUME NEW t \in Slots, ctl[t].pc \in Busy, ctl[t].j = j
          PROVE  t = s
      BY <2>1, <3>1, <3>3, RunningHasNone
    <3>4. ~Responded(j)'
      BY <2>1, <3>1, <3>2, <3>3, AnsweredBy DEF MayHaveCommitted
    <3>5. /\ \A t \in Slots : ConsumerClose(t) => con[t].j # j
          /\ \A t \in Slots : FailClose(t) => ctl[t].j # j
      BY <2>1, <3>1, <3>2, <3>3, Workers, Labels DEF ConsumerClose, FailClose
    <3>6. MayHaveCommitted(j)'
      BY <3>1, <3>4, <3>5, CommittedStays
    <3> QED
      BY <2>1, <3>1, <3>6 DEF VerdictInv
  <2>2. CASE ConsumerClaim(s) /\ con'[s].j = con[s].j /\ con'[s].v = con[s].v /\ con'[s].pc = "run"
    <3>1. PICK j \in Jobs : j = con[s].j /\ con[s].pc = "read" /\ UNCHANGED <<log, responses>>
      BY <2>2, Workers DEF ConsumerClaim, conRest
    <3>2. MayClaim(j) /\ AuditClaim(j, <<"consumer", j>>)
      <4>1. [con EXCEPT ![s].pc = "close", ![s].v = "failed"][s].pc = "close"
        BY DEF TypeOK, ActorTypes, Consumers
      <4> QED
        BY <2>2, <3>1, <4>1 DEF ConsumerClaim
    <3>3. outbox'[j].phase = "executing"
      BY <3>1, <3>2 DEF AuditClaim, TypeOK, FileTypes
    <3>4. Logged(j) = {}
      BY <3>1, <3>2 DEF MayClaim, AuditInv, Terminal
    <3>5. ~Responded(j)
      BY <3>1 DEF AnswerInv
    <3>6. MayHaveCommitted(j)'
      BY <3>1, <3>3, <3>4, <3>5 DEF MayHaveCommitted, Logged, Responded
    <3> QED
      BY <2>2, <3>1, <3>6 DEF VerdictInv
  <2>3. \/ con[s].pc \in {"run", "running"} /\ con'[s].j = con[s].j /\ con'[s].v = con[s].v
        \/ ConsumerClaim(s) /\ con'[s].j = con[s].j /\ con'[s].v = con[s].v /\ con'[s].pc = "run"
    BY <1>2, ConsumerGoesOn DEF ConsumerRun
  <2> QED
    BY <2>1, <2>2, <2>3
<1>3. ASSUME NEW s \in Slots, con'[s].pc = "read"
      PROVE  con'[s].v = "none"
  BY <1>3, ConsumerGoesOn DEF VerdictInv
<1>5. ASSUME NEW j \in died'
      PROVE  Past(j)'
  <2>1. CASE j \in died
    BY <2>1, PastStep DEF VerdictInv, TypeOK, FileTypes
  <2>2. CASE j \notin died
    <3>1. PICK s \in Slots : j \in Killed(s)
      BY <2>2, Frames DEF Footprints, KillConsumer, Restart
    <3>2. j \in Jobs /\ Past(j)
      BY <3>1, RunningHasNone DEF Killed
    <3> QED
      BY <3>2, PastStep
  <2> QED
    BY <2>1, <2>2
<1>4. ASSUME NEW j \in died', Class[job'[j].key] = "serialized"
      PROVE  /\ MayHaveCommitted(j)' /\ j \notin requests'
             /\ \A s \in Slots : con'[s].pc # "idle" => con'[s].j # j
             /\ \A s \in Slots : ctl'[s].pc \in Busy /\ ctl'[s].j = j => ctl'[s].pc \in {"wait", "finish"}
  <2>0. j \in Jobs /\ died \subseteq Jobs /\ con \in [Slots -> Consumers] /\ ctl \in [Slots -> Turns]
        /\ IdleCon.pc = "idle" /\ Idle.pc = "idle"
    BY TypeStep DEF TypeOK, FileTypes, ActorTypes, IdleCon, Idle
  <2>1. CASE j \in died
    <3>1. job'[j] = job[j]
      <4>1. seq \in Nat /\ j \in Nat /\ job \in [Jobs -> Documents]
        BY <2>0, JobQueueAssumption DEF TypeOK, FileTypes, SomeJob, Jobs
      <4>2. j <= seq
        BY <2>1 DEF VerdictInv, Past
      <4> QED
        BY <2>0, <4>1, <4>2, DocumentStep
    <3>2. Past(j)
      BY <2>1 DEF VerdictInv
    <3>3. /\ MayHaveCommitted(j) /\ j \notin requests
          /\ \A s \in Slots : con[s].pc # "idle" => con[s].j # j
          /\ \A s \in Slots : ctl[s].pc \in Busy /\ ctl[s].j = j => ctl[s].pc \in {"wait", "finish"}
      BY <1>4, <2>1, <3>1 DEF VerdictInv
    <3>4. ~Responded(j)'
      BY <2>0, <3>3, AnsweredBy, Workers, Labels DEF MayHaveCommitted
    <3>5. MayHaveCommitted(j)'
      BY <2>0, <3>2, <3>3, <3>4, CommittedStays, Labels DEF ConsumerClose, FailClose
    <3>6. j \notin requests'
      BY <2>0, <3>2, <3>3, GoneStays
    <3>7. ASSUME NEW s \in Slots, con'[s].pc # "idle"
          PROVE  con'[s].j # j
      <4>1. \/ con'[s].pc = con[s].pc /\ con'[s].j = con[s].j
            \/ con[s].pc # "idle" /\ con'[s].j = con[s].j
            \/ ctl[s].pc = "dispatch" /\ con'[s].j = ctl[s].j
        BY <3>7, ConsumerGoesOn DEF Dispatch, ConsumerClaim, ConsumerRun, ConsumerRan, ConsumerClose, ConsumerAnswer
      <4> QED
        BY <3>3, <3>7, <4>1, Labels
    <3>8. ASSUME NEW s \in Slots, ctl'[s].pc \in Busy, ctl'[s].j = j
          PROVE  ctl'[s].pc \in {"wait", "finish"}
      <4>1. \/ ctl'[s].pc = ctl[s].pc /\ ctl'[s].j = ctl[s].j
            \/ ctl'[s].j \in requests
            \/ ctl'[s].j = ctl[s].j /\ ctl'[s].pc \in {"wait", "finish"}
            \/ ctl'[s].j = ctl[s].j /\ ctl[s].pc \in {"secret", "fail", "fail_close"}
            \/ ctl'[s].j = ctl[s].j /\ Class[job[ctl[s].j].key] # "serialized"
        BY <3>8, TurnGoesOn, Labels DEF ClaimSecret, FailClaim, FailClose
      <4> QED
        BY <1>4, <3>1, <3>3, <3>8, <4>1, Labels
    <3> QED
      BY <3>5, <3>6, <3>7, <3>8
  <2>2. CASE j \notin died
    <3>1. PICK s \in Slots : j \in Killed(s) /\ (KillConsumer(s) \/ Restart)
      BY <2>2, Frames DEF Footprints, KillConsumer, Restart
    <3>2. con[s].pc = "running" /\ con[s].j = j
      BY <3>1 DEF Killed
    <3>3. /\ MayHaveCommitted(j) /\ Past(j) /\ j \notin requests
          /\ \A t \in Slots : t # s => ~(con[t].pc # "idle" /\ con[t].j = j)
          /\ \A t \in Slots : t # s => ~(ctl[t].pc \in Busy /\ ctl[t].j = j)
          /\ ctl[s].pc = "wait"
      BY <3>2, RunningHasNone, Workers, Labels DEF VerdictInv, TurnInv
    <3>4. UNCHANGED <<outbox, log, responses, requests, seq>>
      BY <3>1 DEF KillConsumer, Restart, files, audit
    <3>5. MayHaveCommitted(j)'
      BY <3>3, <3>4 DEF MayHaveCommitted, Logged, Responded
    <3>7. CASE KillConsumer(s)
      <4>1. con' = [con EXCEPT ![s] = IdleCon] /\ ctl' = ctl
        BY <3>7 DEF KillConsumer
      <4>2. ASSUME NEW t \in Slots
            PROVE  (con'[t].pc # "idle" => con'[t].j # j) /\ (ctl'[t].pc \in Busy /\ ctl'[t].j = j => ctl'[t].pc = "wait")
        BY <2>0, <3>3, <4>1
      <4> QED
        BY <3>3, <3>4, <3>5, <4>2
    <3>8. CASE Restart
      <4>1. \A t \in Slots : con'[t] = IdleCon /\ ctl'[t] = Idle
        BY <3>8 DEF Restart
      <4> QED
        BY <2>0, <3>3, <3>4, <3>5, <4>1, Labels
    <3> QED
      BY <3>1, <3>7, <3>8
  <2> QED
    BY <2>1, <2>2
<1> QED
  BY <1>1, <1>2, <1>3, <1>4, <1>5 DEF VerdictInv, MayHaveCommitted, Logged, Responded

(***************************************************************************)
(* The theorems.                                                           *)
(***************************************************************************)

(* An empty service satisfies the invariant.                               *)
LEMMA InitInv == Init => QInv
<1> SUFFICES ASSUME Init PROVE QInv
  OBVIOUS
<1> USE JobQueueAssumption DEF Init
<1>1. TypeOK
  <2>1. NoJob \in Documents /\ NoResponse \in Answers
    BY DEF NoJob, Documents, NoResponse, Answers
  <2>2. seq \in SomeJob
    BY DEF SomeJob
  <2> QED
    BY <2>1, <2>2, Idles DEF TypeOK, FileTypes, ActorTypes
<1>2. /\ JobNames = {} /\ \A j \in Jobs : ~Responded(j) /\ ~Announced(j) /\ Logged(j) = {}
      /\ \A j \in Jobs : responses[j].st = "none" /\ outbox[j].phase = "none"
  BY DEF JobNames, Active, Responded, NoResponse, Announced, NoRecord, Logged
<1>3. /\ enq.pc = "idle" /\ rec.by = "nobody" /\ rec.todo = {} /\ poll.step = 0 /\ poll.answer = "none" /\ poll.kind = "none"
      /\ \A s \in Slots : ctl[s].pc = "idle" /\ con[s].pc = "idle"
  BY DEF IdleEnq, IdleRec, IdlePoll, Idle, IdleCon
<1>4. EnqueueInv /\ SecretInv
  BY <1>2, <1>3 DEF EnqueueInv, Reserved, SecretInv, SecretWithJob
<1>5. TurnInv /\ AnswerInv
  BY <1>2, <1>3, Labels DEF TurnInv, AnswerInv
<1>6. AuditInv
  BY <1>2, <1>3 DEF AuditInv, Claims
<1>7. VerdictInv
  BY <1>2, <1>3 DEF VerdictInv, SaysSucceeded
<1>8. PollInv
  BY <1>3 DEF PollInv, NeverFalselyExpired
<1>9. RetryInv
  BY <1>2 DEF RetryInv
<1> QED
  BY <1>1, <1>4, <1>5, <1>6, <1>7, <1>8, <1>9 DEF QInv

(* The invariant of the queue: the sequence number is behind every job, a  *)
(* claimed file has one turn and one consumer, a job is answered by who    *)
(* has it, a transaction has one verdict, and what is gone stays gone.     *)
THEOREM JobQueueInvariant == Spec => []QInv
<1>1. QInv /\ [Next]_vars => QInv'
  <2>1. CASE Next
    BY <2>1, TypeStep, EnqueueStep, TurnStep, AnswerStep, AuditStep, VerdictStep, PollStep, RetryStep, SecretStep DEF QInv
  <2>2. CASE UNCHANGED vars
    BY <2>2 DEF vars, QInv, TypeOK, FileTypes, ActorTypes, EnqueueInv, Past, JobNames, Active, Responded, TurnInv, MayAdmit,
       AnswerInv, AuditInv, Announced, Claimed, Claims, Logged, VerdictInv, SaysSucceeded, MayHaveCommitted,
       PollInv, NeverFalselyExpired, RetryInv, SecretInv, SecretWithJob
  <2> QED
    BY <2>1, <2>2
<1> QED
  BY <1>1, InitInv, PTL DEF Spec

(* PollTruthful, of run_consumer, fail_claimed_job, the outbox sweep and   *)
(* the polls: no success that the manager did not have, no failure of a    *)
(* job that may have committed, no job called gone that is there.          *)
THEOREM JobQueuePollTruthful == Spec => []PollTruthful
<1>1. QInv => PollTruthful
  <2> SUFFICES ASSUME QInv PROVE PollTruthful
    OBVIOUS
  <2>1. NeverFalselyExpired
    BY DEF QInv, PollInv
  <2>2. ASSUME NEW j \in Jobs, <<j, "succeeded">> \in log \/ responses[j].st = "succeeded"
        PROVE  effect[j] = "done"
    BY <2>2 DEF QInv, VerdictInv, SaysSucceeded
  <2>3. ASSUME NEW j \in died, Class[job[j].key] = "serialized"
        PROVE  <<j, "failed">> \notin log /\ responses[j].st # "failed"
    <3>1. Logged(j) \subseteq {"unknown"} /\ ~Responded(j)
      BY <2>3 DEF QInv, VerdictInv, MayHaveCommitted
    <3>2. "failed" \notin Logged(j)
      BY <3>1
    <3> QED
      BY <3>1, <3>2 DEF Logged, Terminal, Responded
  <2> QED
    BY <2>1, <2>2, <2>3 DEF PollTruthful, VerdictTrue
<1> QED
  BY <1>1, JobQueueInvariant, PTL

(* ClaimsClean, of find_idempotent_job, process_control_queue's admission  *)
(* and the order of enqueue's links: a request runs again only when        *)
(* nothing is left of the first run, incompatible jobs never run side by   *)
(* side, and a queued job has its secret.                                  *)
THEOREM JobQueueClaimsClean == Spec => []ClaimsClean
<1>1. QInv => ClaimsClean
  <2> SUFFICES ASSUME QInv PROVE ClaimsClean
    OBVIOUS
  <2>1. RunsOnce
    <3> SUFFICES ASSUME NEW i \in Jobs, NEW j \in Jobs, i < j, job[i].key = job[j].key, effect[j] # "none"
                 PROVE  ~Responded(i)
      BY DEF RunsOnce
    <3>1. j <= seq
      BY JobQueueAssumption DEF QInv, EnqueueInv, TypeOK, FileTypes, SomeJob, Jobs
    <3>2. i \notin JobNames
      BY <3>1 DEF QInv, RetryInv
    <3> QED
      BY <3>2 DEF JobNames
  <2>2. ClassesApart
    <3> SUFFICES ASSUME \A s \in Slots : con[s].pc = "running"
                 PROVE  LET c == Class[job[con["aux"].j].key]
                        IN  c = "connection" \/ (c = "serialized" /\ Class[job[con["primary"].j].key] = "concurrent")
      BY DEF ClassesApart
    <3>1. \A s \in Slots : ctl[s].pc = "wait" /\ ctl[s].j = con[s].j
      BY Workers
    <3>2. MayAdmit("aux", ctl["aux"].j)
      BY <3>1, Labels DEF QInv, TurnInv
    <3> QED
      BY <3>1, <3>2, Labels DEF MayAdmit
  <2>3. SecretWithJob
    BY DEF QInv, SecretInv
  <2> QED
    BY <2>1, <2>2, <2>3 DEF ClaimsClean
<1> QED
  BY <1>1, JobQueueInvariant, PTL

(***************************************************************************)
(* The refinement of AuditContract.                                        *)
(***************************************************************************)

(* A step touches the transaction of one job at most.                      *)
LEMMA OneAtATime ==
    ASSUME QInv, Next
    PROVE  \E i \in Jobs : \A j \in Jobs : j # i => Same(j)
<1>0. outbox \in [Jobs -> Records] /\ "failed" \in Terminal
  BY DEF QInv, TypeOK, FileTypes, Terminal
<1>1. CASE UNCHANGED <<outbox, log>>
  <2>1. 1 \in Jobs
    BY JobQueueAssumption DEF Jobs
  <2> QED
    BY <1>1, <2>1 DEF Same, Logged
<1>2. ASSUME NEW i \in Jobs, Opened(i) \/ Queued(i) \/ Started(i) \/ (\E v \in Terminal : Ended(i, v)), NEW j \in Jobs, j # i
      PROVE  Same(j)
  <2>1. outbox'[j] = outbox[j]
    BY <1>0, <1>2 DEF Opened, Queued, Started, Ended
  <2>2. \E v \in Terminal : log' \in {log, log \cup {<<i, "requested">>}, log \cup {<<i, "requested">>, <<i, v>>}}
    BY <1>0, <1>2 DEF Opened, Queued, Started, Ended
  <2> QED
    BY <1>2, <2>1, <2>2, LoggedStep DEF Same
<1> QED
  BY <1>1, <1>2, OutboxStep

(* What the audit trail says of a job.                                     *)
LEMMA TrailOf ==
    ASSUME NEW j \in Jobs
    PROVE  /\ \A v : Logged(j) = {v} => verdictOf[j] = v
           /\ Logged(j) = {} => verdictOf[j] =
                 IF outbox[j].phase \in Terminal \cup {"executing"} THEN outbox[j].phase
                 ELSE IF outbox[j].phase = "none" THEN "absent" ELSE "requested"
<1>1. ASSUME NEW v, Logged(j) = {v} PROVE verdictOf[j] = v
  <2>1. (CHOOSE w \in {v} : TRUE) = v
    OBVIOUS
  <2> QED
    BY <1>1, <2>1 DEF verdictOf
<1> QED
  BY <1>1 DEF verdictOf

(* TrailOf for the state after a step.                                     *)
LEMMA TrailNext ==
    ASSUME NEW j \in Jobs
    PROVE  /\ \A v : Logged(j)' = {v} => verdictOf'[j] = v
           /\ Logged(j)' = {} => verdictOf'[j] =
                 IF outbox'[j].phase \in Terminal \cup {"executing"} THEN outbox'[j].phase
                 ELSE IF outbox'[j].phase = "none" THEN "absent" ELSE "requested"
<1>1. ASSUME NEW v, Logged(j)' = {v} PROVE verdictOf'[j] = v
  <2>1. (CHOOSE w \in {v} : TRUE) = v
    OBVIOUS
  <2> QED
    BY <1>1, <2>1 DEF verdictOf
<1> QED
  BY <1>1 DEF verdictOf

(* One step moves a job's trail along at most one edge of the contract.    *)
LEMMA TrailStep ==
    ASSUME QInv, Next, QInv', NEW j \in Jobs
    PROVE  \/ verdictOf'[j] = verdictOf[j]
           \/ verdictOf[j] = "absent" /\ verdictOf'[j] \in {"requested", "failed"}
           \/ verdictOf[j] = "requested" /\ verdictOf'[j] \in {"executing", "failed"}
           \/ verdictOf[j] = "executing" /\ verdictOf'[j] \in Terminal
<1> DEFINE p == outbox[j].phase
           q == outbox'[j].phase
<1>0. /\ Logged(j) = {} \/ \E v \in Terminal : Logged(j) = {v} /\ p \in {"none", v}
      /\ enq.pc = "begin" /\ j = enq.j => ~Announced(j)
      /\ ~Announced(j) => Logged(j) = {}
      /\ p \in Phases /\ responses[j].st \in {"none", "failed", "succeeded"}
      /\ responses[j].st = "succeeded" => Claimed(j)
  BY DEF QInv, AuditInv, TypeOK, FileTypes, Records, Answers
<1>1. CASE Same(j)
  <2>1. Logged(j)' = Logged(j) /\ q = p
    BY <1>1 DEF Same
  <2> QED
    BY <2>1 DEF verdictOf
<1>2. CASE Opens(j)
  <2>1. p = "none" /\ Logged(j) = {}
    BY <1>0, <1>2 DEF Opens, Announced
  <2>2. verdictOf[j] = "absent"
    BY <2>1, TrailOf DEF Terminal
  <2>3. (q \in {"prepared", "publishing", "failed"} /\ Logged(j)' = {}) \/ Logged(j)' = {"failed"}
    BY <1>2, <2>1 DEF Opens
  <2>4. verdictOf'[j] \in {"requested", "failed"}
    BY <2>3, TrailNext DEF Terminal
  <2> QED
    BY <2>2, <2>4
<1>3. CASE Advances(j)
  <2>1. p \in {"publishing", "queued"} /\ q \in {"queued", "executing"} /\ Logged(j) = {} /\ Logged(j)' = {}
    BY <1>0, <1>3 DEF Advances, Terminal
  <2>2. verdictOf[j] = "requested"
    BY <2>1, TrailOf DEF Terminal
  <2>3. verdictOf'[j] \in {"requested", "executing"}
    BY <2>1, TrailNext DEF Terminal
  <2> QED
    BY <2>2, <2>3
<1>4. ASSUME NEW v \in Terminal, Ends(j, v)
      PROVE  \/ verdictOf'[j] = verdictOf[j]
             \/ verdictOf[j] = "requested" /\ verdictOf'[j] = "failed"
             \/ verdictOf[j] = "executing" /\ verdictOf'[j] \in Terminal
  <2>1. verdictOf'[j] = v
    <3>1. Logged(j) \subseteq {v}
      BY <1>0, <1>4 DEF Ends, Reason, Terminal
    <3>2. Logged(j)' = {v} \/ (Logged(j)' = {} /\ q = v)
      BY <1>4, <3>1 DEF Ends
    <3> QED
      BY <1>4, <3>2, TrailNext
  <2>2. CASE p = v
    <3>1. Logged(j) \in {{}, {v}}
      BY <1>0, <2>2 DEF Terminal
    <3>2. verdictOf[j] = v
      BY <2>2, <3>1, TrailOf
    <3> QED
      BY <2>1, <3>2
  <2>3. CASE p \in {"prepared", "publishing", "queued"}
    <3>1. Logged(j) = {} /\ verdictOf[j] = "requested"
      BY <1>0, <2>3, TrailOf DEF Terminal
    <3>2. v = "failed"
      BY <1>0, <1>4, <2>3 DEF Ends, Reason, Claimed, Responded, Terminal
    <3> QED
      BY <2>1, <3>1, <3>2
  <2>4. CASE p = "executing"
    <3>1. Logged(j) = {} /\ verdictOf[j] = "executing"
      BY <1>0, <2>4, TrailOf DEF Terminal
    <3> QED
      BY <2>1, <3>1
  <2> QED
    BY <1>4, <2>2, <2>3, <2>4 DEF Ends, Reason
<1> QED
  BY <1>1, <1>2, <1>3, <1>4, TransactionStep

(* AuditKept: every step of the queue is a step of AuditContract for one   *)
(* job, or leaves the trail alone: the job is announced once, started at   *)
(* most once, and gets one verdict that is never revised.                  *)
THEOREM JobQueueAuditKept == Spec => AuditKept
<1>1. Init => Contract!Init
  <2> SUFFICES ASSUME Init PROVE verdictOf = [j \in Jobs |-> "absent"]
    BY DEF Contract!Init
  <2>1. \A j \in Jobs : verdictOf[j] = "absent"
    BY TrailOf DEF Init, Logged, NoRecord, Terminal
  <2> QED
    BY <2>1 DEF verdictOf
<1>2. QInv /\ QInv' /\ [Next]_vars => [Contract!Next]_verdictOf
  <2> SUFFICES ASSUME QInv, QInv', [Next]_vars PROVE Contract!Next \/ verdictOf' = verdictOf
    OBVIOUS
  <2>1. CASE UNCHANGED vars
    BY <2>1 DEF vars, verdictOf, Logged
  <2>2. CASE Next
    <3>1. PICK i \in Jobs : \A j \in Jobs : j # i => Same(j)
      BY <2>2, OneAtATime
    <3>2. verdictOf' = [verdictOf EXCEPT ![i] = verdictOf'[i]]
      <4>1. ASSUME NEW j \in Jobs, j # i PROVE verdictOf'[j] = verdictOf[j]
        <5>1. Logged(j)' = Logged(j) /\ outbox'[j].phase = outbox[j].phase
          BY <3>1, <4>1 DEF Same
        <5> QED
          BY <5>1 DEF verdictOf
      <4>2. verdictOf = [j \in Jobs |-> verdictOf[j]]
        BY DEF verdictOf
      <4>3. verdictOf' = [j \in Jobs |-> verdictOf'[j]]
        BY DEF verdictOf
      <4> HIDE DEF verdictOf
      <4> QED
        BY <4>1, <4>2, <4>3
    <3>3. CASE verdictOf'[i] = verdictOf[i]
      BY <3>2, <3>3 DEF verdictOf
    <3>4. CASE verdictOf[i] = "absent" /\ verdictOf'[i] \in {"requested", "failed"}
      BY <3>2, <3>4 DEF Contract!Next, Contract!Announce
    <3>5. CASE verdictOf[i] = "requested" /\ verdictOf'[i] \in {"executing", "failed"}
      BY <3>2, <3>5 DEF Contract!Next, Contract!Start, Contract!Abandon
    <3>6. CASE verdictOf[i] = "executing" /\ verdictOf'[i] \in Terminal
      BY <3>2, <3>6 DEF Contract!Next, Contract!Finish, Terminal
    <3> QED
      BY <2>2, <3>3, <3>4, <3>5, <3>6, TrailStep
  <2> QED
    BY <2>1, <2>2
<1> QED
  BY <1>1, <1>2, JobQueueInvariant, PTL DEF Spec, AuditKept, Contract!Spec
=============================================================================
