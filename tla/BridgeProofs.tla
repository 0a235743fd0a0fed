---------------------------- MODULE BridgeProofs ----------------------------
(***************************************************************************)
(* Proofs about the bridge, for any workers, limits, requests, documents   *)
(* and policies.                                                           *)
(***************************************************************************)
EXTENDS BridgeServer, FiniteSetTheorems, TLAPS

(***************************************************************************)
(* Types.                                                                  *)
(***************************************************************************)
Stages == {"free", "received", "failing", "rejecting", "answer", "admitted", "polling",
           "snapshot", "lane", "manager", "waiting", "waking"}
Answers == {"none", "error", "ok", "pending", "accepted", "snapshot"}
Reqs == {NoRequest} \cup {Relayed(q) : q \in Requests}
WorkerStates ==
    [st : Stages, r : Cgis \cup {"none"}, q : Reqs, ans : Answers,
     policy : Policies \cup {NoPolicy}, gen : Nat, since : Nat]

CgiOK == cgi \in [Cgis -> [st : {"idle", "connecting", "sent", "done"}, req : Reqs]]
QueueOK == queue \in Seq(Cgis)
WorkersOK ==
    /\ worker \in [Workers -> WorkerStates]
    /\ \A w \in Workers : worker[w].st # "free" => worker[w].r \in Cgis
PlacesOK == slots \in Int /\ lane \in Int
BuildOK ==
    /\ build \in [gen : Nat, outcome : {"none", "ok", "unavailable", "manager_busy"}]
    /\ builder \in {"none", "waits", "runs"}
    /\ builder # "none" => BuildUnderWay
FailureCounts == [tally : Nat, claimed : [Workers -> Nat], owed : Int, rejected : Nat]
FailuresOK == failures \in FailureCounts

TypeOK ==
    /\ CgiOK /\ QueueOK /\ WorkersOK /\ PlacesOK /\ BuildOK /\ FailuresOK
    /\ backlog \subseteq Cgis

(* A worker that serves nobody is in the state of every worker at the      *)
(* start.                                                                  *)
LEMMA FreeOK == Free \in WorkerStates
  BY DEF Free, WorkerStates, Stages, Answers, Reqs, NoPolicy

(* However the manager's process ends, capture_child says that it did or   *)
(* that it is unavailable.                                                 *)
LEMMA CaptureOK ==
    ASSUME NEW child \in Children
    PROVE  capture_child(child) \in {"ok", "unavailable"}
  BY DEF capture_child

(* What the CGI checks before it connects yields a relayed request or      *)
(* none.                                                                   *)
LEMMA CheckedOK ==
    ASSUME NEW c \in Checked
    PROVE  c.req \in Reqs
  BY DEF Checked, Reqs

(***************************************************************************)
(* How a step moves its worker.                                            *)
(***************************************************************************)
(* One worker becomes s, the others stay as they are.                      *)
Becomes(w, s) ==
    /\ s \in WorkerStates
    /\ s.st # "free" => s.r \in Cgis
    /\ worker' = [worker EXCEPT ![w] = s]

(* A worker given a state of the right type leaves every worker with one.  *)
LEMMA BecomesMoves ==
    ASSUME WorkersOK, NEW w \in Workers, NEW s, Becomes(w, s)
    PROVE  /\ WorkersOK' /\ worker'[w] = s
           /\ \A v \in Workers \ {w} : worker'[v] = worker[v]
  BY DEF WorkersOK, Becomes

(* It goes on to stage t with answer a, about the same request.            *)
Moves(w, t, a) ==
    /\ WorkersOK'
    /\ \A v \in Workers \ {w} : worker'[v] = worker[v]
    /\ worker'[w].st = t /\ worker'[w].ans = a
    /\ worker'[w].gen = worker[w].gen /\ worker'[w].since = worker[w].since

(* Going on to another stage keeps the answer and the build waited for.    *)
LEMMA StepMoves ==
    ASSUME WorkersOK, NEW w \in Workers, NEW t \in Stages \ {"free"},
           worker[w].st # "free", Step(w, t)
    PROVE  Moves(w, t, worker[w].ans)
  <1> DEFINE s == [worker[w] EXCEPT !.st = t]
  <1>1. Becomes(w, s)
    BY DEF Step, Becomes, WorkersOK, WorkerStates
  <1>2. s.st = t /\ s.ans = worker[w].ans /\ s.gen = worker[w].gen /\ s.since = worker[w].since
    BY DEF WorkersOK, WorkerStates
  <1> HIDE DEF s
  <1> QED
    BY <1>1, <1>2, BecomesMoves DEF Moves

(* A worker with an answer writes it next.                                 *)
LEMMA SucceedMoves ==
    ASSUME WorkersOK, NEW w \in Workers, NEW a \in Answers,
           worker[w].st # "free", Succeed(w, a)
    PROVE  Moves(w, "answer", a)
  <1> DEFINE s == [worker[w] EXCEPT !.st = "answer", !.ans = a, !.policy = NoPolicy]
  <1>1. Becomes(w, s)
    BY DEF Succeed, Becomes, WorkersOK, WorkerStates, Stages
  <1>2. s.st = "answer" /\ s.ans = a /\ s.gen = worker[w].gen /\ s.since = worker[w].since
    BY DEF WorkersOK, WorkerStates
  <1> HIDE DEF s
  <1> QED
    BY <1>1, <1>2, BecomesMoves DEF Moves

(* A worker that fails has an error to write, after recording a rejected   *)
(* post when it was one.                                                   *)
LEMMA FailMoves ==
    ASSUME WorkersOK, NEW w \in Workers, NEW e, worker[w].st # "free", Fail(w, e)
    PROVE  \E t \in {"rejecting", "failing"} : Moves(w, t, "error")
  <1> DEFINE t == IF worker[w].policy # NoPolicy THEN "rejecting" ELSE "failing"
             s == [worker[w] EXCEPT !.st = t, !.ans = "error", !.policy = NoPolicy]
  <1>1. t \in {"rejecting", "failing"}
    OBVIOUS
  <1>2. worker' = [worker EXCEPT ![w] = s]
    BY DEF Fail
  <1> HIDE DEF t
  <1>3. Becomes(w, s)
    BY <1>1, <1>2 DEF Becomes, WorkersOK, WorkerStates, Stages, Answers
  <1>4. s.st = t /\ s.ans = "error" /\ s.gen = worker[w].gen /\ s.since = worker[w].since
    BY DEF WorkersOK, WorkerStates
  <1> HIDE DEF s
  <1> QED
    BY <1>1, <1>3, <1>4, BecomesMoves DEF Moves

(* A verdict is an answer when it is ok and a failure otherwise.           *)
LEMMA JudgeMoves ==
    ASSUME WorkersOK, NEW w \in Workers, NEW v, NEW a \in Answers,
           worker[w].st # "free", Judge(w, v, a)
    PROVE  \/ v = "ok" /\ Moves(w, "answer", a)
           \/ \E t \in {"rejecting", "failing"} : Moves(w, t, "error")
  BY SucceedMoves, FailMoves DEF Judge

(***************************************************************************)
(* A step of a worker moves that worker and no other.                      *)
(***************************************************************************)
(* Taking the head of the queue gives one worker a request, or a frame     *)
(* that is too short.                                                      *)
LEMMA TakeMoves ==
    ASSUME TypeOK, NEW w \in Workers, NEW frame, Take(w, frame)
    PROVE  /\ WorkersOK' /\ \A v \in Workers \ {w} : worker'[v] = worker[v]
           /\ worker'[w].st \in {"received", "failing"} /\ worker'[w].ans \in {"none", "error"}
           /\ Head(queue) \in Cgis /\ Tail(queue) \in Seq(Cgis)
  <1> DEFINE r == Head(queue)
             g == [Free EXCEPT !.st = "received", !.r = r, !.q = cgi[r].req]
             b == [Free EXCEPT !.st = "failing", !.r = r, !.ans = "error"]
  <1>1. r \in Cgis /\ Tail(queue) \in Seq(Cgis)
    BY DEF Take, TypeOK, QueueOK
  <1>2. cgi[r].req \in Reqs
    BY <1>1 DEF TypeOK, CgiOK
  <1>3. worker' = [worker EXCEPT ![w] = g] \/ worker' = [worker EXCEPT ![w] = b]
    BY DEF Take
  <1> HIDE DEF r
  <1>4. g \in WorkerStates /\ g.st = "received" /\ g.r = r /\ g.ans = "none"
    BY <1>1, <1>2 DEF Free, WorkerStates, Stages, Answers, Reqs, NoPolicy
  <1>5. b \in WorkerStates /\ b.st = "failing" /\ b.r = r /\ b.ans = "error"
    BY <1>1, <1>2 DEF Free, WorkerStates, Stages, Answers, Reqs, NoPolicy
  <1> HIDE DEF g, b
  <1>6. Becomes(w, g) \/ Becomes(w, b)
    BY <1>1, <1>3, <1>4, <1>5 DEF Becomes
  <1>7. WorkersOK
    BY DEF TypeOK
  <1> QED
    BY <1>1, <1>4, <1>5, <1>6, <1>7, BecomesMoves DEF r

(* A worker that has written its answer is free and holds none.            *)
LEMMA AnswerMoves ==
    ASSUME TypeOK, NEW w \in Workers, worker' = [worker EXCEPT ![w] = Free]
    PROVE  /\ WorkersOK' /\ \A v \in Workers \ {w} : worker'[v] = worker[v]
           /\ worker'[w].st = "free" /\ worker'[w].ans = "none"
  <1>1. Becomes(w, Free) /\ Free.st = "free" /\ Free.ans = "none"
    BY FreeOK DEF Becomes, Free
  <1>2. WorkersOK
    BY DEF TypeOK
  <1> QED
    BY <1>1, <1>2, BecomesMoves

(* A request for the shell snapshot waits for the build that runs, or for  *)
(* one it starts: in either case for one that had not ended when it came.  *)
LEMMA JoinMoves ==
    ASSUME TypeOK, NEW w \in Workers, JoinBuild(w)
    PROVE  /\ WorkersOK' /\ \A v \in Workers \ {w} : worker'[v] = worker[v]
           /\ worker'[w].st = "waiting" /\ worker'[w].ans = worker[w].ans
           /\ worker'[w].gen = build'.gen /\ worker'[w].since = Complete
           /\ BuildOK' /\ build'.gen >= build.gen /\ build'.gen > Complete
           /\ builder' = "runs" <=> builder = "runs"
  <1> DEFINE s == [worker[w] EXCEPT !.st = "waiting", !.gen = build'.gen, !.since = Complete]
  <1>1. /\ BuildOK' /\ build'.gen \in Nat /\ Complete \in Nat
        /\ build'.gen >= build.gen /\ build'.gen > Complete
        /\ builder' = "runs" <=> builder = "runs"
    BY DEF JoinBuild, TypeOK, BuildOK, BuildUnderWay, Complete
  <1>2. worker' = [worker EXCEPT ![w] = s] /\ worker[w].st = "snapshot"
    BY DEF JoinBuild
  <1>3. s \in WorkerStates /\ s.st = "waiting" /\ s.ans = worker[w].ans /\ s.r = worker[w].r
        /\ s.gen = build'.gen /\ s.since = Complete
    BY <1>1 DEF TypeOK, WorkersOK, WorkerStates, Stages
  <1>4. WorkersOK /\ worker[w].r \in Cgis
    BY <1>2 DEF TypeOK, WorkersOK
  <1> HIDE DEF s
  <1>5. Becomes(w, s)
    BY <1>2, <1>3, <1>4 DEF Becomes
  <1> QED
    BY <1>1, <1>3, <1>4, <1>5, BecomesMoves

(* A waiter whose build was replaced waits for the newer one.              *)
LEMMA FollowMoves ==
    ASSUME TypeOK, NEW w \in Workers, worker[w].st = "waiting",
           worker' = [worker EXCEPT ![w].gen = build.gen]
    PROVE  /\ WorkersOK' /\ \A v \in Workers \ {w} : worker'[v] = worker[v]
           /\ worker'[w].st = "waiting" /\ worker'[w].ans = worker[w].ans
           /\ worker'[w].gen = build.gen /\ worker'[w].since = worker[w].since
  <1> DEFINE s == [worker[w] EXCEPT !.gen = build.gen]
  <1>1. s \in WorkerStates /\ s.st = "waiting" /\ s.ans = worker[w].ans /\ s.r = worker[w].r
        /\ s.gen = build.gen /\ s.since = worker[w].since
    BY DEF TypeOK, WorkersOK, WorkerStates, BuildOK
  <1>2. WorkersOK /\ worker[w].r \in Cgis /\ worker' = [worker EXCEPT ![w] = s]
    BY DEF TypeOK, WorkersOK
  <1> HIDE DEF s
  <1>3. Becomes(w, s)
    BY <1>1, <1>2 DEF Becomes
  <1> QED
    BY <1>1, <1>2, <1>3, BecomesMoves

(* The policy admits a request or refuses it; the answer is not written    *)
(* yet.                                                                    *)
LEMMA AdmitMoves ==
    ASSUME TypeOK, NEW w \in Workers, NEW user, NEW marker, NEW policy \in Policies,
           Admit(w, user, marker, policy)
    PROVE  /\ WorkersOK' /\ \A v \in Workers \ {w} : worker'[v] = worker[v]
           /\ worker'[w].st \in {"failing", "rejecting", "admitted"}
           /\ worker'[w].ans = worker[w].ans
           /\ worker'[w].gen = worker[w].gen /\ worker'[w].since = worker[w].since
  <1> DEFINE verdict == Admission(user, marker, policy)
             kept == IF worker[w].q.method = "POST" THEN policy ELSE NoPolicy
             t == CASE verdict # "ok" -> "failing"
                    [] policy.https /\ ~worker[w].q.https ->
                          IF kept = NoPolicy THEN "failing" ELSE "rejecting"
                    [] OTHER -> "admitted"
             p == IF verdict = "ok" /\ (policy.https => worker[w].q.https)
                  THEN kept ELSE NoPolicy
  <1>1. /\ worker' = [worker EXCEPT ![w].st = t, ![w].policy = p]
        /\ worker[w].st = "received"
    BY DEF Admit
  <1>2. p \in Policies \cup {NoPolicy}
    OBVIOUS
  <1> HIDE DEF verdict, kept
  <1>3. t \in {"failing", "rejecting", "admitted"}
    <2>1. CASE verdict # "ok"
      BY <2>1
    <2>2. CASE verdict = "ok" /\ policy.https /\ ~worker[w].q.https
      BY <2>2
    <2>3. CASE verdict = "ok" /\ ~(policy.https /\ ~worker[w].q.https)
      BY <2>3
    <2> QED
      BY <2>1, <2>2, <2>3
  <1> HIDE DEF t, p
  <1> DEFINE s == [worker[w] EXCEPT !.st = t, !.policy = p]
  <1>4. /\ s \in WorkerStates /\ s.st = t /\ s.ans = worker[w].ans /\ s.r = worker[w].r
        /\ s.gen = worker[w].gen /\ s.since = worker[w].since
    BY <1>2, <1>3 DEF TypeOK, WorkersOK, WorkerStates, Stages
  <1>5. WorkersOK /\ worker[w].r \in Cgis /\ worker' = [worker EXCEPT ![w] = s]
    BY <1>1 DEF TypeOK, WorkersOK
  <1> HIDE DEF s
  <1>6. Becomes(w, s)
    BY <1>4, <1>5 DEF Becomes
  <1> QED
    BY <1>4, <1>5, <1>6, <1>3, BecomesMoves

(* A post ends accepted, refused, or with the manager still to be woken.   *)
LEMMA MutateMoves ==
    ASSUME TypeOK, NEW w \in Workers, NEW p, NEW outcome, Mutate(w, p, outcome)
    PROVE  \E t \in {"answer", "failing", "rejecting", "waking"},
              a \in {"error", "accepted", worker[w].ans} : Moves(w, t, a)
  <1>1. WorkersOK /\ worker[w].st = "admitted" /\ worker[w].r \in Cgis
    BY DEF TypeOK, WorkersOK, Mutate
  <1>2. CASE \E e : Fail(w, e)
    BY <1>1, <1>2, FailMoves
  <1>3. CASE Succeed(w, "accepted")
    BY <1>1, <1>3, SucceedMoves DEF Answers
  <1>4. CASE worker' = [worker EXCEPT ![w].st = "waking", ![w].policy = NoPolicy]
    <2> DEFINE s == [worker[w] EXCEPT !.st = "waking", !.policy = NoPolicy]
    <2>1. /\ s \in WorkerStates /\ s.st = "waking" /\ s.ans = worker[w].ans /\ s.r = worker[w].r
          /\ s.gen = worker[w].gen /\ s.since = worker[w].since
      BY <1>1 DEF WorkersOK, WorkerStates, Stages
    <2>2. worker' = [worker EXCEPT ![w] = s]
      BY <1>4
    <2> HIDE DEF s
    <2>3. Becomes(w, s)
      BY <1>1, <2>1, <2>2 DEF Becomes
    <2>4. Moves(w, "waking", worker[w].ans)
      BY <1>1, <2>1, <2>3, BecomesMoves DEF Moves
    <2> QED
      BY <2>4
  <1> QED
    BY <1>2, <1>3, <1>4 DEF Mutate

(***************************************************************************)
(* Types are kept.                                                         *)
(***************************************************************************)
(* Claims and their return keep the failure counts natural numbers.        *)
LEMMA CountedOK ==
    ASSUME FailuresOK, NEW w \in Workers, NEW over
    PROVE  /\ Claim(failures, w, over) \in FailureCounts
           /\ GiveBack(failures, w) \in FailureCounts
  <1>1. /\ failures.owed + 1 \in Int /\ failures.tally + 1 \in Nat
        /\ failures.tally + failures.claimed[w] \in Nat
    BY DEF FailuresOK, FailureCounts
  <1>2. \A n \in Nat : [failures.claimed EXCEPT ![w] = n] \in [Workers -> Nat]
    BY DEF FailuresOK, FailureCounts
  <1>3. 0 \in Nat
    OBVIOUS
  <1>4. GiveBack(failures, w) =
          [failures EXCEPT !.tally = failures.tally + failures.claimed[w],
                           !.claimed = [failures.claimed EXCEPT ![w] = 0]]
    BY DEF GiveBack, NoClaim, FailuresOK, FailureCounts
  <1>5. GiveBack(failures, w) \in FailureCounts
    BY <1>1, <1>2, <1>3, <1>4 DEF FailuresOK, FailureCounts
  <1>6. CASE over
    <2>1. Claim(failures, w, over) =
            [failures EXCEPT !.owed = failures.owed + 1,
                 !.claimed = [failures.claimed EXCEPT ![w] = failures.tally + 1], !.tally = 0]
      BY <1>6 DEF Claim
    <2>2. Claim(failures, w, over) \in FailureCounts
      BY <1>1, <1>2, <1>3, <2>1 DEF FailuresOK, FailureCounts
    <2> QED
      BY <1>5, <2>2
  <1>7. CASE ~over
    <2>1. Claim(failures, w, over) \in FailureCounts
      BY <1>1, <1>7 DEF FailuresOK, FailureCounts, Claim
    <2> QED
      BY <1>5, <2>1
  <1> QED
    BY <1>6, <1>7

(* Every step keeps the states of the CGI processes and the backlog well   *)
(* typed.                                                                  *)
LEMMA CgiStep ==
    ASSUME TypeOK, [Next]_vars
    PROVE  CgiOK' /\ backlog' \subseteq Cgis
  <1>1. ASSUME NEW i \in Starts, LifecycleStep(i) /\ UNCHANGED bridge
        PROVE  CgiOK' /\ backlog' \subseteq Cgis
    BY <1>1, CheckedOK
       DEF bridge, TypeOK, CgiOK, QueueOK, Reqs
  <1>2. ASSUME NEW i \in Starts, ServiceDies(i) PROVE CgiOK' /\ backlog' \subseteq Cgis
    <2>1. CASE phase[i] = "open"
      <3>1. \A r \in Cgis : cgi[r] \in [st : {"idle", "connecting", "sent", "done"}, req : Reqs]
        BY DEF TypeOK, CgiOK
      <3>2. NoRequest \in Reqs
        BY DEF Reqs
      <3>3. backlog' = {} /\ cgi' = [r \in Cgis |-> IF cgi[r].st \in {"sent", "done"}
                              THEN [st |-> "done", req |-> NoRequest] ELSE cgi[r]]
        BY <1>2, <2>1 DEF ServiceDies
      <3> QED
        BY <3>1, <3>2, <3>3 DEF CgiOK
    <2>2. CASE phase[i] # "open"
      BY <1>2, <2>2 DEF ServiceDies, TypeOK, CgiOK
    <2> QED
      BY <2>1, <2>2
  <1>3. ASSUME NEW r \in Cgis, Connect(r) PROVE CgiOK' /\ backlog' \subseteq Cgis
    BY <1>3, CheckedOK
       DEF Connect, TypeOK, CgiOK, QueueOK, Reqs
  <1>4. ASSUME NEW r \in Cgis, ConnectWindowEnds(r) PROVE CgiOK' /\ backlog' \subseteq Cgis
    BY <1>4, CheckedOK
       DEF ConnectWindowEnds, TypeOK, CgiOK, QueueOK, Reqs
  <1>5. ASSUME NEW r \in Cgis, CgiGivesUp(r) PROVE CgiOK' /\ backlog' \subseteq Cgis
    BY <1>5, CheckedOK
       DEF CgiGivesUp, End, TypeOK, CgiOK, QueueOK, Reqs
  <1>6. ASSUME NEW r \in Cgis, NEW c \in Checked, CgiStart(r, c)
        PROVE  CgiOK' /\ backlog' \subseteq Cgis
    BY <1>6, CheckedOK
       DEF CgiStart, TypeOK, CgiOK, QueueOK, Reqs
  <1>7. ASSUME NEW r \in Cgis, NEW over \in BOOLEAN, NEW recorded \in BOOLEAN,
               Accept(r, over, recorded)
        PROVE  CgiOK' /\ backlog' \subseteq Cgis
    BY <1>7, CheckedOK
       DEF Accept, End, RecordSaturated, TypeOK, CgiOK, QueueOK, Reqs
  <1>8. ASSUME BuilderAcquires PROVE CgiOK' /\ backlog' \subseteq Cgis
    BY <1>8, CheckedOK
       DEF BuilderAcquires, TypeOK, CgiOK, QueueOK, Reqs
  <1>9. ASSUME BuilderBusy PROVE CgiOK' /\ backlog' \subseteq Cgis
    BY <1>9, CheckedOK
       DEF BuilderBusy, TypeOK, CgiOK, QueueOK, Reqs
  <1>10. ASSUME NEW child \in Children, BuilderEnds(child)
         PROVE  CgiOK' /\ backlog' \subseteq Cgis
    BY <1>10, CheckedOK
       DEF BuilderEnds, TypeOK, CgiOK, QueueOK, Reqs
  <1>11. ASSUME NEW w \in Workers, NEW frame \in {{}, {"short_header"}, {"short_payload"}},
                Take(w, frame)
         PROVE  CgiOK' /\ backlog' \subseteq Cgis
    BY <1>11, CheckedOK
       DEF Take, Ready, Free, TypeOK, CgiOK, QueueOK, Reqs
  <1>12. ASSUME NEW w \in Workers, ReadResult(w) PROVE CgiOK' /\ backlog' \subseteq Cgis
    BY <1>12, CheckedOK
       DEF ReadResult, Asks, Judge, Succeed, Fail, Step, TypeOK, CgiOK, QueueOK, Reqs
  <1>13. ASSUME NEW w \in Workers, PollEnds(w) PROVE CgiOK' /\ backlog' \subseteq Cgis
    BY <1>13, CheckedOK
       DEF PollEnds, Judge, Succeed, Fail, TypeOK, CgiOK, QueueOK, Reqs
  <1>14. ASSUME NEW w \in Workers, AcquirePermit(w) PROVE CgiOK' /\ backlog' \subseteq Cgis
    BY <1>14, CheckedOK
       DEF AcquirePermit, Step, TypeOK, CgiOK, QueueOK, Reqs
  <1>15. ASSUME NEW w \in Workers, PermitBusy(w) PROVE CgiOK' /\ backlog' \subseteq Cgis
    BY <1>15, CheckedOK
       DEF PermitBusy, Fail, TypeOK, CgiOK, QueueOK, Reqs
  <1>16. ASSUME NEW w \in Workers, JoinBuild(w) PROVE CgiOK' /\ backlog' \subseteq Cgis
    BY <1>16, CheckedOK
       DEF JoinBuild, TypeOK, CgiOK, QueueOK, Reqs
  <1>17. ASSUME NEW w \in Workers, WaiterWakes(w) PROVE CgiOK' /\ backlog' \subseteq Cgis
    BY <1>17, CheckedOK
       DEF WaiterWakes, Judge, Succeed, Fail, TypeOK, CgiOK, QueueOK, Reqs
  <1>18. ASSUME NEW w \in Workers, WaiterTimesOut(w) PROVE CgiOK' /\ backlog' \subseteq Cgis
    BY <1>18, CheckedOK
       DEF WaiterTimesOut, Fail, TypeOK, CgiOK, QueueOK, Reqs
  <1>19. ASSUME NEW w \in Workers, NEW user \in Users, NEW marker \in Markers,
                NEW policy \in Policies, Admit(w, user, marker, policy)
         PROVE  CgiOK' /\ backlog' \subseteq Cgis
    BY <1>19, CheckedOK
       DEF Admit, TypeOK, CgiOK, QueueOK, Reqs
  <1>20. ASSUME NEW w \in Workers, NEW verdict \in {"ok", "unavailable"},
                ReadAtOnce(w, verdict)
         PROVE  CgiOK' /\ backlog' \subseteq Cgis
    BY <1>20, CheckedOK
       DEF ReadAtOnce, Asks, Judge, Succeed, Fail, TypeOK, CgiOK, QueueOK, Reqs
  <1>21. ASSUME NEW w \in Workers, NEW forced \in BOOLEAN,
                NEW verdict \in {"ok", "unavailable"}, LadderRead(w, forced, verdict)
         PROVE  CgiOK' /\ backlog' \subseteq Cgis
    BY <1>21, CheckedOK
       DEF LadderRead, Asks, Judge, Succeed, Fail, Step, TypeOK, CgiOK, QueueOK, Reqs
  <1>22. ASSUME NEW w \in Workers, NEW child \in Children, ManagerEnds(w, child)
         PROVE  CgiOK' /\ backlog' \subseteq Cgis
    BY <1>22, CheckedOK
       DEF ManagerEnds, Judge, Succeed, Fail, TypeOK, CgiOK, QueueOK, Reqs
  <1>23. ASSUME NEW w \in Workers,
                NEW p \in UNION {Posted[policy] : policy \in DOMAIN Posted},
                NEW outcome \in {"queued", "replayed", "full"}, Mutate(w, p, outcome)
         PROVE  CgiOK' /\ backlog' \subseteq Cgis
    BY <1>23, CheckedOK
       DEF Mutate, Succeed, Fail, TypeOK, CgiOK, QueueOK, Reqs
  <1>24. ASSUME NEW w \in Workers, NEW yes \in BOOLEAN, NEW over \in BOOLEAN,
                Wake(w, yes, over)
         PROVE  CgiOK' /\ backlog' \subseteq Cgis
    BY <1>24, CheckedOK
       DEF Wake, Ready, Succeed, Claim, TypeOK, CgiOK, QueueOK, Reqs
  <1>25. ASSUME NEW w \in Workers, NEW yes \in BOOLEAN, NEW over \in BOOLEAN,
                RecordRejectedPost(w, yes, over)
         PROVE  CgiOK' /\ backlog' \subseteq Cgis
    BY <1>25, CheckedOK
       DEF RecordRejectedPost, Ready, Step, Claim, TypeOK, CgiOK, QueueOK, Reqs
  <1>26. ASSUME NEW w \in Workers, NEW over \in BOOLEAN, TallyFailure(w, over)
         PROVE  CgiOK' /\ backlog' \subseteq Cgis
    BY <1>26, CheckedOK
       DEF TallyFailure, Ready, Step, Claim, TypeOK, CgiOK, QueueOK, Reqs
  <1>27. ASSUME NEW w \in Workers, NEW over \in BOOLEAN, Answer(w, over)
         PROVE  CgiOK' /\ backlog' \subseteq Cgis
    BY <1>27, CheckedOK
       DEF Answer, Ready, Free, End, Claim, TypeOK, CgiOK, QueueOK, Reqs
  <1>28. ASSUME NEW w \in Workers, NEW threshold \in {"info", "off"}, NEW made \in BOOLEAN,
                NEW confirmed \in BOOLEAN, RecordFailure(w, threshold, made, confirmed)
         PROVE  CgiOK' /\ backlog' \subseteq Cgis
    BY <1>28, CheckedOK
       DEF RecordFailure, GiveBack, TypeOK, CgiOK, QueueOK, Reqs
  <1>29. ASSUME NEW j \in jobs, NEW found \in ReadBack \cup {stored}, Consume(j, found)
         PROVE  CgiOK' /\ backlog' \subseteq Cgis
    BY <1>29, CheckedOK
       DEF Consume, TypeOK, CgiOK, QueueOK, Reqs
  <1>30. ASSUME UNCHANGED vars PROVE CgiOK' /\ backlog' \subseteq Cgis
    BY <1>30, CheckedOK
       DEF vars, bridge, TypeOK, CgiOK, QueueOK, Reqs
  <1> QED
    BY <1>1, <1>2, <1>3, <1>4, <1>5, <1>6, <1>7, <1>8, <1>9, <1>10, <1>11, <1>12, <1>13,
       <1>14, <1>15, <1>16, <1>17, <1>18, <1>19, <1>20, <1>21, <1>22, <1>23, <1>24, <1>25,
       <1>26, <1>27, <1>28, <1>29, <1>30
    DEF Next, WorkerStep, BuilderStep, AcceptStep

(* Every step leaves the accept queue a sequence of connections.           *)
LEMMA QueueStep ==
    ASSUME TypeOK, [Next]_vars
    PROVE  QueueOK'
  <1>1. ASSUME NEW i \in Starts, LifecycleStep(i) /\ UNCHANGED bridge PROVE QueueOK'
    BY <1>1
       DEF bridge, TypeOK, QueueOK
  <1>2. ASSUME NEW i \in Starts, ServiceDies(i) PROVE QueueOK'
    <2>1. queue' = <<>> \/ queue' = queue
      BY <1>2 DEF ServiceDies
    <2>2. <<>> \in Seq(Cgis) /\ queue \in Seq(Cgis)
      BY DEF TypeOK, QueueOK
    <2> QED
      BY <2>1, <2>2 DEF QueueOK
  <1>3. ASSUME NEW r \in Cgis, Connect(r) PROVE QueueOK'
    BY <1>3
       DEF Connect, TypeOK, QueueOK
  <1>4. ASSUME NEW r \in Cgis, ConnectWindowEnds(r) PROVE QueueOK'
    BY <1>4
       DEF ConnectWindowEnds, TypeOK, QueueOK
  <1>5. ASSUME NEW r \in Cgis, CgiGivesUp(r) PROVE QueueOK'
    BY <1>5
       DEF CgiGivesUp, End, TypeOK, QueueOK
  <1>6. ASSUME NEW r \in Cgis, NEW c \in Checked, CgiStart(r, c) PROVE QueueOK'
    BY <1>6
       DEF CgiStart, TypeOK, QueueOK
  <1>7. ASSUME NEW r \in Cgis, NEW over \in BOOLEAN, NEW recorded \in BOOLEAN,
               Accept(r, over, recorded)
        PROVE  QueueOK'
    BY <1>7
       DEF Accept, End, RecordSaturated, TypeOK, QueueOK
  <1>8. ASSUME BuilderAcquires PROVE QueueOK'
    BY <1>8
       DEF BuilderAcquires, TypeOK, QueueOK
  <1>9. ASSUME BuilderBusy PROVE QueueOK'
    BY <1>9
       DEF BuilderBusy, TypeOK, QueueOK
  <1>10. ASSUME NEW child \in Children, BuilderEnds(child) PROVE QueueOK'
    BY <1>10
       DEF BuilderEnds, TypeOK, QueueOK
  <1>11. ASSUME NEW w \in Workers, NEW frame \in {{}, {"short_header"}, {"short_payload"}},
                Take(w, frame)
         PROVE  QueueOK'
    BY <1>11
       DEF Take, Ready, Free, TypeOK, QueueOK
  <1>12. ASSUME NEW w \in Workers, ReadResult(w) PROVE QueueOK'
    BY <1>12
       DEF ReadResult, Asks, Judge, Succeed, Fail, Step, TypeOK, QueueOK
  <1>13. ASSUME NEW w \in Workers, PollEnds(w) PROVE QueueOK'
    BY <1>13
       DEF PollEnds, Judge, Succeed, Fail, TypeOK, QueueOK
  <1>14. ASSUME NEW w \in Workers, AcquirePermit(w) PROVE QueueOK'
    BY <1>14
       DEF AcquirePermit, Step, TypeOK, QueueOK
  <1>15. ASSUME NEW w \in Workers, PermitBusy(w) PROVE QueueOK'
    BY <1>15
       DEF PermitBusy, Fail, TypeOK, QueueOK
  <1>16. ASSUME NEW w \in Workers, JoinBuild(w) PROVE QueueOK'
    BY <1>16
       DEF JoinBuild, TypeOK, QueueOK
  <1>17. ASSUME NEW w \in Workers, WaiterWakes(w) PROVE QueueOK'
    BY <1>17
       DEF WaiterWakes, Judge, Succeed, Fail, TypeOK, QueueOK
  <1>18. ASSUME NEW w \in Workers, WaiterTimesOut(w) PROVE QueueOK'
    BY <1>18
       DEF WaiterTimesOut, Fail, TypeOK, QueueOK
  <1>19. ASSUME NEW w \in Workers, NEW user \in Users, NEW marker \in Markers,
                NEW policy \in Policies, Admit(w, user, marker, policy)
         PROVE  QueueOK'
    BY <1>19
       DEF Admit, TypeOK, QueueOK
  <1>20. ASSUME NEW w \in Workers, NEW verdict \in {"ok", "unavailable"},
                ReadAtOnce(w, verdict)
         PROVE  QueueOK'
    BY <1>20
       DEF ReadAtOnce, Asks, Judge, Succeed, Fail, TypeOK, QueueOK
  <1>21. ASSUME NEW w \in Workers, NEW forced \in BOOLEAN,
                NEW verdict \in {"ok", "unavailable"}, LadderRead(w, forced, verdict)
         PROVE  QueueOK'
    BY <1>21
       DEF LadderRead, Asks, Judge, Succeed, Fail, Step, TypeOK, QueueOK
  <1>22. ASSUME NEW w \in Workers, NEW child \in Children, ManagerEnds(w, child)
         PROVE  QueueOK'
    BY <1>22
       DEF ManagerEnds, Judge, Succeed, Fail, TypeOK, QueueOK
  <1>23. ASSUME NEW w \in Workers,
                NEW p \in UNION {Posted[policy] : policy \in DOMAIN Posted},
                NEW outcome \in {"queued", "replayed", "full"}, Mutate(w, p, outcome)
         PROVE  QueueOK'
    BY <1>23
       DEF Mutate, Succeed, Fail, TypeOK, QueueOK
  <1>24. ASSUME NEW w \in Workers, NEW yes \in BOOLEAN, NEW over \in BOOLEAN,
                Wake(w, yes, over)
         PROVE  QueueOK'
    BY <1>24
       DEF Wake, Ready, Succeed, Claim, TypeOK, QueueOK
  <1>25. ASSUME NEW w \in Workers, NEW yes \in BOOLEAN, NEW over \in BOOLEAN,
                RecordRejectedPost(w, yes, over)
         PROVE  QueueOK'
    BY <1>25
       DEF RecordRejectedPost, Ready, Step, Claim, TypeOK, QueueOK
  <1>26. ASSUME NEW w \in Workers, NEW over \in BOOLEAN, TallyFailure(w, over)
         PROVE  QueueOK'
    BY <1>26
       DEF TallyFailure, Ready, Step, Claim, TypeOK, QueueOK
  <1>27. ASSUME NEW w \in Workers, NEW over \in BOOLEAN, Answer(w, over) PROVE QueueOK'
    BY <1>27
       DEF Answer, Ready, Free, End, Claim, TypeOK, QueueOK
  <1>28. ASSUME NEW w \in Workers, NEW threshold \in {"info", "off"}, NEW made \in BOOLEAN,
                NEW confirmed \in BOOLEAN, RecordFailure(w, threshold, made, confirmed)
         PROVE  QueueOK'
    BY <1>28
       DEF RecordFailure, GiveBack, TypeOK, QueueOK
  <1>29. ASSUME NEW j \in jobs, NEW found \in ReadBack \cup {stored}, Consume(j, found)
         PROVE  QueueOK'
    BY <1>29
       DEF Consume, TypeOK, QueueOK
  <1>30. ASSUME UNCHANGED vars PROVE QueueOK'
    BY <1>30
       DEF vars, bridge, TypeOK, QueueOK
  <1> QED
    BY <1>1, <1>2, <1>3, <1>4, <1>5, <1>6, <1>7, <1>8, <1>9, <1>10, <1>11, <1>12, <1>13,
       <1>14, <1>15, <1>16, <1>17, <1>18, <1>19, <1>20, <1>21, <1>22, <1>23, <1>24, <1>25,
       <1>26, <1>27, <1>28, <1>29, <1>30
    DEF Next, WorkerStep, BuilderStep, AcceptStep

(* Every step leaves every worker in a state of its type, and with a       *)
(* connection unless it is free.                                           *)
LEMMA WorkersStep ==
    ASSUME TypeOK, [Next]_vars
    PROVE  WorkersOK'
  <1>1. ASSUME NEW i \in Starts, LifecycleStep(i) /\ UNCHANGED bridge PROVE WorkersOK'
    BY <1>1
       DEF bridge, TypeOK, WorkersOK
  <1>2. ASSUME NEW i \in Starts, ServiceDies(i) PROVE WorkersOK'
    BY <1>2, FreeOK
       DEF ServiceDies, TypeOK, WorkersOK, Free
  <1>3. ASSUME NEW r \in Cgis, Connect(r) PROVE WorkersOK'
    BY <1>3
       DEF Connect, TypeOK, WorkersOK, bridge
  <1>4. ASSUME NEW r \in Cgis, ConnectWindowEnds(r) PROVE WorkersOK'
    BY <1>4
       DEF ConnectWindowEnds, TypeOK, WorkersOK, bridge
  <1>5. ASSUME NEW r \in Cgis, CgiGivesUp(r) PROVE WorkersOK'
    BY <1>5
       DEF CgiGivesUp, End, TypeOK, WorkersOK, bridge
  <1>6. ASSUME NEW r \in Cgis, NEW c \in Checked, CgiStart(r, c) PROVE WorkersOK'
    BY <1>6
       DEF CgiStart, TypeOK, WorkersOK, bridge
  <1>7. ASSUME NEW r \in Cgis, NEW over \in BOOLEAN, NEW recorded \in BOOLEAN,
               Accept(r, over, recorded)
        PROVE  WorkersOK'
    BY <1>7
       DEF Accept, End, RecordSaturated, TypeOK, WorkersOK, bridge
  <1>8. ASSUME BuilderAcquires PROVE WorkersOK'
    BY <1>8
       DEF BuilderAcquires, TypeOK, WorkersOK, bridge
  <1>9. ASSUME BuilderBusy PROVE WorkersOK'
    BY <1>9
       DEF BuilderBusy, TypeOK, WorkersOK, bridge
  <1>10. ASSUME NEW child \in Children, BuilderEnds(child) PROVE WorkersOK'
    BY <1>10
       DEF BuilderEnds, TypeOK, WorkersOK, bridge
  <1>11. ASSUME NEW w \in Workers, NEW frame \in {{}, {"short_header"}, {"short_payload"}},
                Take(w, frame)
         PROVE  WorkersOK'
    BY <1>11, TakeMoves
       DEF TypeOK, Moves, Stages, Answers, StoredVerdict
  <1>12. ASSUME NEW w \in Workers, ReadResult(w) PROVE WorkersOK'
    BY <1>12, StepMoves, SucceedMoves, FailMoves, JudgeMoves
       DEF ReadResult, Asks, TypeOK, Moves, Stages, Answers, StoredVerdict
  <1>13. ASSUME NEW w \in Workers, PollEnds(w) PROVE WorkersOK'
    BY <1>13, StepMoves, SucceedMoves, FailMoves, JudgeMoves
       DEF PollEnds, TypeOK, Moves, Stages, Answers, StoredVerdict
  <1>14. ASSUME NEW w \in Workers, AcquirePermit(w) PROVE WorkersOK'
    BY <1>14, StepMoves, SucceedMoves, FailMoves, JudgeMoves
       DEF AcquirePermit, TypeOK, Moves, Stages, Answers, StoredVerdict
  <1>15. ASSUME NEW w \in Workers, PermitBusy(w) PROVE WorkersOK'
    BY <1>15, StepMoves, SucceedMoves, FailMoves, JudgeMoves
       DEF PermitBusy, TypeOK, Moves, Stages, Answers, StoredVerdict
  <1>16. ASSUME NEW w \in Workers, JoinBuild(w) PROVE WorkersOK'
    BY <1>16, JoinMoves
       DEF TypeOK, Moves, Stages, Answers, StoredVerdict
  <1>17. ASSUME NEW w \in Workers, WaiterWakes(w) PROVE WorkersOK'
    BY <1>17, FollowMoves, JudgeMoves
       DEF WaiterWakes, TypeOK, Moves, Stages, Answers, StoredVerdict
  <1>18. ASSUME NEW w \in Workers, WaiterTimesOut(w) PROVE WorkersOK'
    BY <1>18, StepMoves, SucceedMoves, FailMoves, JudgeMoves
       DEF WaiterTimesOut, TypeOK, Moves, Stages, Answers, StoredVerdict
  <1>19. ASSUME NEW w \in Workers, NEW user \in Users, NEW marker \in Markers,
                NEW policy \in Policies, Admit(w, user, marker, policy)
         PROVE  WorkersOK'
    BY <1>19, AdmitMoves
       DEF TypeOK, Moves, Stages, Answers, StoredVerdict
  <1>20. ASSUME NEW w \in Workers, NEW verdict \in {"ok", "unavailable"},
                ReadAtOnce(w, verdict)
         PROVE  WorkersOK'
    BY <1>20, StepMoves, SucceedMoves, FailMoves, JudgeMoves
       DEF ReadAtOnce, Asks, TypeOK, Moves, Stages, Answers, StoredVerdict
  <1>21. ASSUME NEW w \in Workers, NEW forced \in BOOLEAN,
                NEW verdict \in {"ok", "unavailable"}, LadderRead(w, forced, verdict)
         PROVE  WorkersOK'
    BY <1>21, StepMoves, SucceedMoves, FailMoves, JudgeMoves
       DEF LadderRead, Asks, TypeOK, Moves, Stages, Answers, StoredVerdict
  <1>22. ASSUME NEW w \in Workers, NEW child \in Children, ManagerEnds(w, child)
         PROVE  WorkersOK'
    BY <1>22, StepMoves, SucceedMoves, FailMoves, JudgeMoves
       DEF ManagerEnds, TypeOK, Moves, Stages, Answers, StoredVerdict
  <1>23. ASSUME NEW w \in Workers,
                NEW p \in UNION {Posted[policy] : policy \in DOMAIN Posted},
                NEW outcome \in {"queued", "replayed", "full"}, Mutate(w, p, outcome)
         PROVE  WorkersOK'
    BY <1>23, MutateMoves
       DEF TypeOK, Moves, Stages, Answers, StoredVerdict
  <1>24. ASSUME NEW w \in Workers, NEW yes \in BOOLEAN, NEW over \in BOOLEAN,
                Wake(w, yes, over)
         PROVE  WorkersOK'
    BY <1>24, StepMoves, SucceedMoves, FailMoves, JudgeMoves
       DEF Wake, Ready, TypeOK, Moves, Stages, Answers, StoredVerdict
  <1>25. ASSUME NEW w \in Workers, NEW yes \in BOOLEAN, NEW over \in BOOLEAN,
                RecordRejectedPost(w, yes, over)
         PROVE  WorkersOK'
    BY <1>25, StepMoves, SucceedMoves, FailMoves, JudgeMoves
       DEF RecordRejectedPost, Ready, TypeOK, Moves, Stages, Answers, StoredVerdict
  <1>26. ASSUME NEW w \in Workers, NEW over \in BOOLEAN, TallyFailure(w, over)
         PROVE  WorkersOK'
    BY <1>26, StepMoves, SucceedMoves, FailMoves, JudgeMoves
       DEF TallyFailure, Ready, TypeOK, Moves, Stages, Answers, StoredVerdict
  <1>27. ASSUME NEW w \in Workers, NEW over \in BOOLEAN, Answer(w, over) PROVE WorkersOK'
    BY <1>27, AnswerMoves
       DEF Answer, TypeOK, Moves, Stages, Answers, StoredVerdict
  <1>28. ASSUME NEW w \in Workers, NEW threshold \in {"info", "off"}, NEW made \in BOOLEAN,
                NEW confirmed \in BOOLEAN, RecordFailure(w, threshold, made, confirmed)
         PROVE  WorkersOK'
    BY <1>28, StepMoves, SucceedMoves, FailMoves, JudgeMoves
       DEF RecordFailure, GiveBack, TypeOK, WorkersOK, bridge
  <1>29. ASSUME NEW j \in jobs, NEW found \in ReadBack \cup {stored}, Consume(j, found)
         PROVE  WorkersOK'
    BY <1>29
       DEF Consume, TypeOK, WorkersOK, bridge
  <1>30. ASSUME UNCHANGED vars PROVE WorkersOK'
    BY <1>30
       DEF vars, bridge, TypeOK, WorkersOK
  <1> QED
    BY <1>1, <1>2, <1>3, <1>4, <1>5, <1>6, <1>7, <1>8, <1>9, <1>10, <1>11, <1>12, <1>13,
       <1>14, <1>15, <1>16, <1>17, <1>18, <1>19, <1>20, <1>21, <1>22, <1>23, <1>24, <1>25,
       <1>26, <1>27, <1>28, <1>29, <1>30
    DEF Next, WorkerStep, BuilderStep, AcceptStep

(***************************************************************************)
(* Sums over the workers.                                                  *)
(***************************************************************************)
(* Of subsets of a finite set one is smallest: what holds of a set when it *)
(* holds of all its smaller ones holds of every set.                       *)
(* Of a set of subsets of a finite set one is smallest: what holds of a    *)
(* set when it holds of all its smaller ones holds of every set.           *)
LEMMA SmallestSubset ==
    ASSUME NEW S, IsFiniteSet(S), NEW X \in SUBSET (SUBSET S), X # {}
    PROVE  \E A \in X : \A B \in X : B \subseteq A => B = A
  <1>1. X \subseteq FiniteSubsetsOf(S)
    BY FS_Subset DEF FiniteSubsetsOf
  <1>2. PICK A \in X : \A B \in X : ~(<<B, A>> \in StrictSubsetOrdering(S))
    BY <1>1, FS_StrictSubsetOrderingWellFounded, WFMin
  <1>3. ASSUME NEW B \in X, B \subseteq A, B # A PROVE FALSE
    <2>1. <<B, A>> \in StrictSubsetOrdering(S)
      BY <1>3 DEF StrictSubsetOrdering
    <2> QED
      BY <1>2, <2>1
  <1> QED
    BY <1>3

(* f[x] units stand at each x of s.                                        *)
Units(f, s) == {p \in s \X Nat : 1 <= p[2] /\ p[2] <= f[p[1]]}

(* One more index adds as many units as the function has there.            *)
LEMMA UnitsAdd ==
    ASSUME NEW S, NEW f \in [S -> Nat], NEW s \in SUBSET S, NEW x \in s,
           IsFiniteSet(Units(f, s \ {x}))
    PROVE  /\ IsFiniteSet(Units(f, s))
           /\ Cardinality(Units(f, s)) = f[x] + Cardinality(Units(f, s \ {x}))
  <1> DEFINE At == {p \in {x} \X Nat : 1 <= p[2] /\ p[2] <= f[x]}
             b == [n \in 1..f[x] |-> <<x, n>>]
  <1>1. f[x] \in Nat /\ 1 \in Int
    OBVIOUS
  <1>2. IsFiniteSet(1..f[x]) /\ Cardinality(1..f[x]) = f[x]
    BY <1>1, FS_Interval
  <1>3. b \in Bijection(1..f[x], At)
    <2>1. b \in [1..f[x] -> At]
      BY <1>1
    <2>2. \A m, n \in 1..f[x] : b[m] = b[n] => m = n
      OBVIOUS
    <2>3. ASSUME NEW p \in At PROVE \E n \in 1..f[x] : b[n] = p
      <3>1. p = <<x, p[2]>> /\ p[2] \in 1..f[x]
        BY <1>1
      <3>2. b[p[2]] = p
        BY <3>1
      <3> QED
        BY <3>1, <3>2
    <2> HIDE DEF At, b
    <2> QED
      BY <2>1, <2>2, <2>3 DEF Bijection, Injection, IsInjective, Surjection
  <1>4. IsFiniteSet(At) /\ Cardinality(At) = f[x]
    BY <1>2, <1>3, FS_Bijection DEF ExistsBijection
  <1>5. Units(f, s) = Units(f, s \ {x}) \cup At
    BY DEF Units
  <1>6. Units(f, s \ {x}) \cap At = {}
    BY DEF Units
  <1> HIDE DEF At
  <1>7. Cardinality({}) = 0 /\ Cardinality(Units(f, s \ {x})) \in Nat
    BY FS_EmptySet, FS_CardinalityType
  <1>8. /\ IsFiniteSet(Units(f, s \ {x}) \cup At)
        /\ Cardinality(Units(f, s \ {x}) \cup At) =
             Cardinality(Units(f, s \ {x})) + Cardinality(At) - Cardinality({})
    BY <1>4, <1>6, FS_Union
  <1> QED
    BY <1>1, <1>4, <1>5, <1>7, <1>8

(* A sum over finitely many indices has finitely many units.               *)
LEMMA UnitsFinite ==
    ASSUME NEW S, IsFiniteSet(S), NEW f \in [S -> Nat]
    PROVE  /\ Units(f, {}) = {}
           /\ \A s \in SUBSET S : IsFiniteSet(Units(f, s)) /\ Cardinality(Units(f, s)) \in Nat
  <1> DEFINE Odd == {s \in SUBSET S : ~IsFiniteSet(Units(f, s))}
  <1>1. Units(f, {}) = {} /\ IsFiniteSet({})
    BY FS_EmptySet DEF Units
  <1>2. ASSUME Odd # {} PROVE FALSE
    <2>1. PICK s \in Odd : \A t \in Odd : t \subseteq s => t = s
      <3>1. Odd \in SUBSET (SUBSET S)
        OBVIOUS
      <3> HIDE DEF Odd
      <3> QED
        BY <1>2, <3>1, SmallestSubset
    <2>2. s # {}
      BY <1>1
    <2>3. PICK x \in s : TRUE
      BY <2>2
    <2>4. s \ {x} \notin Odd /\ s \ {x} \in SUBSET S
      BY <2>1, <2>3
    <2> QED
      BY <2>1, <2>3, <2>4, UnitsAdd
  <1> QED
    BY <1>1, <1>2, FS_CardinalityType

(* A sum counts units, whatever order it is taken in.                      *)
LEMMA SumIsCount ==
    ASSUME NEW S, IsFiniteSet(S), NEW f \in [S -> Nat]
    PROVE  SumFunction(f) = Cardinality(Units(f, S))
  <1> DEFINE pick(s) == CHOOSE x \in s : TRUE
             from(g) == [s \in SUBSET S |-> IF s = {} THEN 0 ELSE f[pick(s)] + g[s \ {pick(s)}]]
             count == [s \in SUBSET S |-> Cardinality(Units(f, s))]
             iter == CHOOSE g : g = from(g)
  <1>1. SumFunction(f) = iter[S]
    <2>1. DOMAIN f = S
      OBVIOUS
    <2> QED
      BY <2>1 DEF SumFunction, SumFunctionOnSet, FoldFunctionOnSet, MapThenFoldSet
  <1>2. ASSUME NEW s \in SUBSET S, s # {}
        PROVE  /\ pick(s) \in s /\ f[pick(s)] \in Nat
               /\ count[s] = f[pick(s)] + count[s \ {pick(s)}]
    <2>1. pick(s) \in s
      BY <1>2
    <2> HIDE DEF pick
    <2>2. s \ {pick(s)} \in SUBSET S
      OBVIOUS
    <2>3. IsFiniteSet(Units(f, s \ {pick(s)}))
      BY <2>2, UnitsFinite
    <2> QED
      BY <2>1, <2>2, <2>3, UnitsAdd
  <1>3. count[{}] = 0
    BY UnitsFinite, FS_EmptySet
  <1> HIDE DEF pick
  <1>4. count = from(count)
    <2>1. \A s \in SUBSET S : count[s] = from(count)[s]
      <3>1. ASSUME NEW s \in SUBSET S PROVE count[s] = from(count)[s]
        <4>1. CASE s = {}
          BY <1>3, <4>1
        <4>2. CASE s # {}
          <5> HIDE DEF count
          <5> QED
            BY <1>2, <4>2
        <4> QED
          BY <4>1, <4>2
      <3> QED
        BY <3>1
    <2> QED
      BY <2>1
  <1> HIDE DEF count
  <1>5. iter = from(iter)
    BY <1>4
  <1> HIDE DEF iter
  <1> DEFINE Odd == {s \in SUBSET S : iter[s] # count[s]}
  <1>6. ASSUME Odd # {} PROVE FALSE
    <2>1. PICK s \in Odd : \A t \in Odd : t \subseteq s => t = s
      <3>1. Odd \in SUBSET (SUBSET S)
        OBVIOUS
      <3> HIDE DEF Odd
      <3> QED
        BY <1>6, <3>1, SmallestSubset
    <2>2. s \in SUBSET S /\ iter[s] # count[s]
      OBVIOUS
    <2>3. s # {}
      <3>1. from(iter)[{}] = 0
        OBVIOUS
      <3> HIDE DEF from
      <3> QED
        BY <1>3, <1>5, <2>2, <3>1
    <2>4. pick(s) \in s /\ count[s] = f[pick(s)] + count[s \ {pick(s)}]
      BY <1>2, <2>2, <2>3
    <2>5. iter[s] = f[pick(s)] + iter[s \ {pick(s)}]
      <3>1. from(iter)[s] = f[pick(s)] + iter[s \ {pick(s)}]
        BY <2>2, <2>3
      <3> HIDE DEF from
      <3> QED
        BY <1>5, <3>1
    <2>6. s \ {pick(s)} \notin Odd /\ s \ {pick(s)} \in SUBSET S
      BY <2>1, <2>4
    <2> QED
      BY <2>2, <2>4, <2>5, <2>6
  <1>7. iter[S] = count[S]
    BY <1>6
  <1> QED
    BY <1>1, <1>7 DEF count

(* One value changed changes the sum by as much.                           *)
LEMMA SumOfUpdate ==
    ASSUME NEW S, IsFiniteSet(S), NEW f \in [S -> Nat], NEW x \in S, NEW n \in Nat
    PROVE  /\ SumFunction(f) \in Nat
           /\ SumFunction([f EXCEPT ![x] = n]) = SumFunction(f) - f[x] + n
  <1> DEFINE g == [f EXCEPT ![x] = n]
  <1>1. g \in [S -> Nat] /\ g[x] = n /\ S \in SUBSET S /\ S \ {x} \in SUBSET S
    OBVIOUS
  <1>2. Units(g, S \ {x}) = Units(f, S \ {x})
    BY DEF Units
  <1> HIDE DEF g
  <1>3. /\ Cardinality(Units(f, S)) = f[x] + Cardinality(Units(f, S \ {x}))
        /\ Cardinality(Units(g, S)) = n + Cardinality(Units(f, S \ {x}))
        /\ Cardinality(Units(f, S \ {x})) \in Nat /\ Cardinality(Units(f, S)) \in Nat
    BY <1>1, <1>2, UnitsAdd, UnitsFinite
  <1>4. SumFunction(f) = Cardinality(Units(f, S)) /\ SumFunction(g) = Cardinality(Units(g, S))
    BY <1>1, SumIsCount
  <1>5. f[x] \in Nat
    OBVIOUS
  <1>6. SumFunction(g) = SumFunction(f) - f[x] + n /\ SumFunction(f) \in Nat
    BY <1>3, <1>4, <1>5
  <1> QED
    BY <1>6 DEF g

(* Every step keeps the build's number, outcome and builder well typed.    *)
LEMMA BuildStep ==
    ASSUME TypeOK, [Next]_vars
    PROVE  BuildOK'
  <1>1. ASSUME NEW i \in Starts, LifecycleStep(i) /\ UNCHANGED bridge PROVE BuildOK'
    BY <1>1, CaptureOK
       DEF bridge, TypeOK, BuildOK, BuildUnderWay, NoBuild
  <1>2. ASSUME NEW i \in Starts, ServiceDies(i) PROVE BuildOK'
    BY <1>2, CaptureOK
       DEF ServiceDies, TypeOK, BuildOK, BuildUnderWay, NoBuild
  <1>3. ASSUME NEW r \in Cgis, Connect(r) PROVE BuildOK'
    BY <1>3, CaptureOK
       DEF Connect, TypeOK, BuildOK, BuildUnderWay, NoBuild
  <1>4. ASSUME NEW r \in Cgis, ConnectWindowEnds(r) PROVE BuildOK'
    BY <1>4, CaptureOK
       DEF ConnectWindowEnds, TypeOK, BuildOK, BuildUnderWay, NoBuild
  <1>5. ASSUME NEW r \in Cgis, CgiGivesUp(r) PROVE BuildOK'
    BY <1>5, CaptureOK
       DEF CgiGivesUp, End, TypeOK, BuildOK, BuildUnderWay, NoBuild
  <1>6. ASSUME NEW r \in Cgis, NEW c \in Checked, CgiStart(r, c) PROVE BuildOK'
    BY <1>6, CaptureOK
       DEF CgiStart, TypeOK, BuildOK, BuildUnderWay, NoBuild
  <1>7. ASSUME NEW r \in Cgis, NEW over \in BOOLEAN, NEW recorded \in BOOLEAN,
               Accept(r, over, recorded)
        PROVE  BuildOK'
    BY <1>7, CaptureOK
       DEF Accept, End, RecordSaturated, TypeOK, BuildOK, BuildUnderWay, NoBuild
  <1>8. ASSUME BuilderAcquires PROVE BuildOK'
    BY <1>8, CaptureOK
       DEF BuilderAcquires, TypeOK, BuildOK, BuildUnderWay, NoBuild
  <1>9. ASSUME BuilderBusy PROVE BuildOK'
    BY <1>9, CaptureOK
       DEF BuilderBusy, TypeOK, BuildOK, BuildUnderWay, NoBuild
  <1>10. ASSUME NEW child \in Children, BuilderEnds(child) PROVE BuildOK'
    BY <1>10, CaptureOK
       DEF BuilderEnds, TypeOK, BuildOK, BuildUnderWay, NoBuild
  <1>11. ASSUME NEW w \in Workers, NEW frame \in {{}, {"short_header"}, {"short_payload"}},
                Take(w, frame)
         PROVE  BuildOK'
    BY <1>11, CaptureOK
       DEF Take, Ready, Free, TypeOK, BuildOK, BuildUnderWay, NoBuild
  <1>12. ASSUME NEW w \in Workers, ReadResult(w) PROVE BuildOK'
    BY <1>12, CaptureOK
       DEF ReadResult, Asks, Judge, Succeed, Fail, Step, TypeOK, BuildOK, BuildUnderWay,
           NoBuild
  <1>13. ASSUME NEW w \in Workers, PollEnds(w) PROVE BuildOK'
    BY <1>13, CaptureOK
       DEF PollEnds, Judge, Succeed, Fail, TypeOK, BuildOK, BuildUnderWay, NoBuild
  <1>14. ASSUME NEW w \in Workers, AcquirePermit(w) PROVE BuildOK'
    BY <1>14, CaptureOK
       DEF AcquirePermit, Step, TypeOK, BuildOK, BuildUnderWay, NoBuild
  <1>15. ASSUME NEW w \in Workers, PermitBusy(w) PROVE BuildOK'
    BY <1>15, CaptureOK
       DEF PermitBusy, Fail, TypeOK, BuildOK, BuildUnderWay, NoBuild
  <1>16. ASSUME NEW w \in Workers, JoinBuild(w) PROVE BuildOK'
    BY <1>16, CaptureOK
       DEF JoinBuild, TypeOK, BuildOK, BuildUnderWay, NoBuild
  <1>17. ASSUME NEW w \in Workers, WaiterWakes(w) PROVE BuildOK'
    BY <1>17, CaptureOK
       DEF WaiterWakes, Judge, Succeed, Fail, TypeOK, BuildOK, BuildUnderWay, NoBuild
  <1>18. ASSUME NEW w \in Workers, WaiterTimesOut(w) PROVE BuildOK'
    BY <1>18, CaptureOK
       DEF WaiterTimesOut, Fail, TypeOK, BuildOK, BuildUnderWay, NoBuild
  <1>19. ASSUME NEW w \in Workers, NEW user \in Users, NEW marker \in Markers,
                NEW policy \in Policies, Admit(w, user, marker, policy)
         PROVE  BuildOK'
    BY <1>19, CaptureOK
       DEF Admit, TypeOK, BuildOK, BuildUnderWay, NoBuild
  <1>20. ASSUME NEW w \in Workers, NEW verdict \in {"ok", "unavailable"},
                ReadAtOnce(w, verdict)
         PROVE  BuildOK'
    BY <1>20, CaptureOK
       DEF ReadAtOnce, Asks, Judge, Succeed, Fail, TypeOK, BuildOK, BuildUnderWay, NoBuild
  <1>21. ASSUME NEW w \in Workers, NEW forced \in BOOLEAN,
                NEW verdict \in {"ok", "unavailable"}, LadderRead(w, forced, verdict)
         PROVE  BuildOK'
    BY <1>21, CaptureOK
       DEF LadderRead, Asks, Judge, Succeed, Fail, Step, TypeOK, BuildOK, BuildUnderWay,
           NoBuild
  <1>22. ASSUME NEW w \in Workers, NEW child \in Children, ManagerEnds(w, child)
         PROVE  BuildOK'
    BY <1>22, CaptureOK
       DEF ManagerEnds, Judge, Succeed, Fail, TypeOK, BuildOK, BuildUnderWay, NoBuild
  <1>23. ASSUME NEW w \in Workers,
                NEW p \in UNION {Posted[policy] : policy \in DOMAIN Posted},
                NEW outcome \in {"queued", "replayed", "full"}, Mutate(w, p, outcome)
         PROVE  BuildOK'
    BY <1>23, CaptureOK
       DEF Mutate, Succeed, Fail, TypeOK, BuildOK, BuildUnderWay, NoBuild
  <1>24. ASSUME NEW w \in Workers, NEW yes \in BOOLEAN, NEW over \in BOOLEAN,
                Wake(w, yes, over)
         PROVE  BuildOK'
    BY <1>24, CaptureOK
       DEF Wake, Ready, Succeed, Claim, TypeOK, BuildOK, BuildUnderWay, NoBuild
  <1>25. ASSUME NEW w \in Workers, NEW yes \in BOOLEAN, NEW over \in BOOLEAN,
                RecordRejectedPost(w, yes, over)
         PROVE  BuildOK'
    BY <1>25, CaptureOK
       DEF RecordRejectedPost, Ready, Step, Claim, TypeOK, BuildOK, BuildUnderWay, NoBuild
  <1>26. ASSUME NEW w \in Workers, NEW over \in BOOLEAN, TallyFailure(w, over)
         PROVE  BuildOK'
    BY <1>26, CaptureOK
       DEF TallyFailure, Ready, Step, Claim, TypeOK, BuildOK, BuildUnderWay, NoBuild
  <1>27. ASSUME NEW w \in Workers, NEW over \in BOOLEAN, Answer(w, over) PROVE BuildOK'
    BY <1>27, CaptureOK
       DEF Answer, Ready, Free, End, Claim, TypeOK, BuildOK, BuildUnderWay, NoBuild
  <1>28. ASSUME NEW w \in Workers, NEW threshold \in {"info", "off"}, NEW made \in BOOLEAN,
                NEW confirmed \in BOOLEAN, RecordFailure(w, threshold, made, confirmed)
         PROVE  BuildOK'
    BY <1>28, CaptureOK
       DEF RecordFailure, GiveBack, TypeOK, BuildOK, BuildUnderWay, NoBuild
  <1>29. ASSUME NEW j \in jobs, NEW found \in ReadBack \cup {stored}, Consume(j, found)
         PROVE  BuildOK'
    BY <1>29, CaptureOK
       DEF Consume, TypeOK, BuildOK, BuildUnderWay, NoBuild
  <1>30. ASSUME UNCHANGED vars PROVE BuildOK'
    BY <1>30, CaptureOK
       DEF vars, bridge, TypeOK, BuildOK, BuildUnderWay, NoBuild
  <1> QED
    BY <1>1, <1>2, <1>3, <1>4, <1>5, <1>6, <1>7, <1>8, <1>9, <1>10, <1>11, <1>12, <1>13,
       <1>14, <1>15, <1>16, <1>17, <1>18, <1>19, <1>20, <1>21, <1>22, <1>23, <1>24, <1>25,
       <1>26, <1>27, <1>28, <1>29, <1>30
    DEF Next, WorkerStep, BuilderStep, AcceptStep

(* Every step keeps the two counters of places integers.                   *)
LEMMA PlacesStep ==
    ASSUME TypeOK, [Next]_vars
    PROVE  PlacesOK'
  <1>1. ASSUME NEW i \in Starts, LifecycleStep(i) /\ UNCHANGED bridge PROVE PlacesOK'
    BY <1>1
       DEF bridge, TypeOK, PlacesOK
  <1>2. ASSUME NEW i \in Starts, ServiceDies(i) PROVE PlacesOK'
    BY <1>2
       DEF ServiceDies, TypeOK, PlacesOK
  <1>3. ASSUME NEW r \in Cgis, Connect(r) PROVE PlacesOK'
    BY <1>3
       DEF Connect, TypeOK, PlacesOK
  <1>4. ASSUME NEW r \in Cgis, ConnectWindowEnds(r) PROVE PlacesOK'
    BY <1>4
       DEF ConnectWindowEnds, TypeOK, PlacesOK
  <1>5. ASSUME NEW r \in Cgis, CgiGivesUp(r) PROVE PlacesOK'
    BY <1>5
       DEF CgiGivesUp, End, TypeOK, PlacesOK
  <1>6. ASSUME NEW r \in Cgis, NEW c \in Checked, CgiStart(r, c) PROVE PlacesOK'
    BY <1>6
       DEF CgiStart, TypeOK, PlacesOK
  <1>7. ASSUME NEW r \in Cgis, NEW over \in BOOLEAN, NEW recorded \in BOOLEAN,
               Accept(r, over, recorded)
        PROVE  PlacesOK'
    BY <1>7
       DEF Accept, End, RecordSaturated, TypeOK, PlacesOK
  <1>8. ASSUME BuilderAcquires PROVE PlacesOK'
    BY <1>8
       DEF BuilderAcquires, TypeOK, PlacesOK
  <1>9. ASSUME BuilderBusy PROVE PlacesOK'
    BY <1>9
       DEF BuilderBusy, TypeOK, PlacesOK
  <1>10. ASSUME NEW child \in Children, BuilderEnds(child) PROVE PlacesOK'
    BY <1>10
       DEF BuilderEnds, TypeOK, PlacesOK
  <1>11. ASSUME NEW w \in Workers, NEW frame \in {{}, {"short_header"}, {"short_payload"}},
                Take(w, frame)
         PROVE  PlacesOK'
    BY <1>11
       DEF Take, Ready, Free, TypeOK, PlacesOK
  <1>12. ASSUME NEW w \in Workers, ReadResult(w) PROVE PlacesOK'
    BY <1>12
       DEF ReadResult, Asks, Judge, Succeed, Fail, Step, TypeOK, PlacesOK
  <1>13. ASSUME NEW w \in Workers, PollEnds(w) PROVE PlacesOK'
    BY <1>13
       DEF PollEnds, Judge, Succeed, Fail, TypeOK, PlacesOK
  <1>14. ASSUME NEW w \in Workers, AcquirePermit(w) PROVE PlacesOK'
    BY <1>14
       DEF AcquirePermit, Step, TypeOK, PlacesOK
  <1>15. ASSUME NEW w \in Workers, PermitBusy(w) PROVE PlacesOK'
    BY <1>15
       DEF PermitBusy, Fail, TypeOK, PlacesOK
  <1>16. ASSUME NEW w \in Workers, JoinBuild(w) PROVE PlacesOK'
    BY <1>16
       DEF JoinBuild, TypeOK, PlacesOK
  <1>17. ASSUME NEW w \in Workers, WaiterWakes(w) PROVE PlacesOK'
    BY <1>17
       DEF WaiterWakes, Judge, Succeed, Fail, TypeOK, PlacesOK
  <1>18. ASSUME NEW w \in Workers, WaiterTimesOut(w) PROVE PlacesOK'
    BY <1>18
       DEF WaiterTimesOut, Fail, TypeOK, PlacesOK
  <1>19. ASSUME NEW w \in Workers, NEW user \in Users, NEW marker \in Markers,
                NEW policy \in Policies, Admit(w, user, marker, policy)
         PROVE  PlacesOK'
    BY <1>19
       DEF Admit, TypeOK, PlacesOK
  <1>20. ASSUME NEW w \in Workers, NEW verdict \in {"ok", "unavailable"},
                ReadAtOnce(w, verdict)
         PROVE  PlacesOK'
    BY <1>20
       DEF ReadAtOnce, Asks, Judge, Succeed, Fail, TypeOK, PlacesOK
  <1>21. ASSUME NEW w \in Workers, NEW forced \in BOOLEAN,
                NEW verdict \in {"ok", "unavailable"}, LadderRead(w, forced, verdict)
         PROVE  PlacesOK'
    BY <1>21
       DEF LadderRead, Asks, Judge, Succeed, Fail, Step, TypeOK, PlacesOK
  <1>22. ASSUME NEW w \in Workers, NEW child \in Children, ManagerEnds(w, child)
         PROVE  PlacesOK'
    BY <1>22
       DEF ManagerEnds, Judge, Succeed, Fail, TypeOK, PlacesOK
  <1>23. ASSUME NEW w \in Workers,
                NEW p \in UNION {Posted[policy] : policy \in DOMAIN Posted},
                NEW outcome \in {"queued", "replayed", "full"}, Mutate(w, p, outcome)
         PROVE  PlacesOK'
    BY <1>23
       DEF Mutate, Succeed, Fail, TypeOK, PlacesOK
  <1>24. ASSUME NEW w \in Workers, NEW yes \in BOOLEAN, NEW over \in BOOLEAN,
                Wake(w, yes, over)
         PROVE  PlacesOK'
    BY <1>24
       DEF Wake, Ready, Succeed, Claim, TypeOK, PlacesOK
  <1>25. ASSUME NEW w \in Workers, NEW yes \in BOOLEAN, NEW over \in BOOLEAN,
                RecordRejectedPost(w, yes, over)
         PROVE  PlacesOK'
    BY <1>25
       DEF RecordRejectedPost, Ready, Step, Claim, TypeOK, PlacesOK
  <1>26. ASSUME NEW w \in Workers, NEW over \in BOOLEAN, TallyFailure(w, over)
         PROVE  PlacesOK'
    BY <1>26
       DEF TallyFailure, Ready, Step, Claim, TypeOK, PlacesOK
  <1>27. ASSUME NEW w \in Workers, NEW over \in BOOLEAN, Answer(w, over) PROVE PlacesOK'
    BY <1>27
       DEF Answer, Ready, Free, End, Claim, TypeOK, PlacesOK
  <1>28. ASSUME NEW w \in Workers, NEW threshold \in {"info", "off"}, NEW made \in BOOLEAN,
                NEW confirmed \in BOOLEAN, RecordFailure(w, threshold, made, confirmed)
         PROVE  PlacesOK'
    BY <1>28
       DEF RecordFailure, GiveBack, TypeOK, PlacesOK
  <1>29. ASSUME NEW j \in jobs, NEW found \in ReadBack \cup {stored}, Consume(j, found)
         PROVE  PlacesOK'
    BY <1>29
       DEF Consume, TypeOK, PlacesOK
  <1>30. ASSUME UNCHANGED vars PROVE PlacesOK'
    BY <1>30
       DEF vars, bridge, TypeOK, PlacesOK
  <1> QED
    BY <1>1, <1>2, <1>3, <1>4, <1>5, <1>6, <1>7, <1>8, <1>9, <1>10, <1>11, <1>12, <1>13,
       <1>14, <1>15, <1>16, <1>17, <1>18, <1>19, <1>20, <1>21, <1>22, <1>23, <1>24, <1>25,
       <1>26, <1>27, <1>28, <1>29, <1>30
    DEF Next, WorkerStep, BuilderStep, AcceptStep

(* Every step keeps the counts of failures natural numbers.                *)
LEMMA FailuresStep ==
    ASSUME TypeOK, [Next]_vars
    PROVE  FailuresOK'
  <1>1. ASSUME NEW i \in Starts, LifecycleStep(i) /\ UNCHANGED bridge PROVE FailuresOK'
    BY <1>1, CountedOK
       DEF bridge, TypeOK, FailuresOK
  <1>2. ASSUME NEW i \in Starts, ServiceDies(i) PROVE FailuresOK'
    BY <1>2, CountedOK
       DEF ServiceDies, TypeOK, FailuresOK, FailureCounts, NoFailures, NoClaim
  <1>3. ASSUME NEW r \in Cgis, Connect(r) PROVE FailuresOK'
    BY <1>3, CountedOK
       DEF Connect, TypeOK, FailuresOK
  <1>4. ASSUME NEW r \in Cgis, ConnectWindowEnds(r) PROVE FailuresOK'
    BY <1>4, CountedOK
       DEF ConnectWindowEnds, TypeOK, FailuresOK
  <1>5. ASSUME NEW r \in Cgis, CgiGivesUp(r) PROVE FailuresOK'
    BY <1>5, CountedOK
       DEF CgiGivesUp, End, TypeOK, FailuresOK
  <1>6. ASSUME NEW r \in Cgis, NEW c \in Checked, CgiStart(r, c) PROVE FailuresOK'
    BY <1>6, CountedOK
       DEF CgiStart, TypeOK, FailuresOK
  <1>7. ASSUME NEW r \in Cgis, NEW over \in BOOLEAN, NEW recorded \in BOOLEAN,
               Accept(r, over, recorded)
        PROVE  FailuresOK'
    BY <1>7 DEF Accept, End, RecordSaturated, TypeOK, FailuresOK, FailureCounts
  <1>8. ASSUME BuilderAcquires PROVE FailuresOK'
    BY <1>8, CountedOK
       DEF BuilderAcquires, TypeOK, FailuresOK
  <1>9. ASSUME BuilderBusy PROVE FailuresOK'
    BY <1>9, CountedOK
       DEF BuilderBusy, TypeOK, FailuresOK
  <1>10. ASSUME NEW child \in Children, BuilderEnds(child) PROVE FailuresOK'
    BY <1>10, CountedOK
       DEF BuilderEnds, TypeOK, FailuresOK
  <1>11. ASSUME NEW w \in Workers, NEW frame \in {{}, {"short_header"}, {"short_payload"}},
                Take(w, frame)
         PROVE  FailuresOK'
    BY <1>11, CountedOK
       DEF Take, Ready, Free, TypeOK, FailuresOK
  <1>12. ASSUME NEW w \in Workers, ReadResult(w) PROVE FailuresOK'
    BY <1>12, CountedOK
       DEF ReadResult, Asks, Judge, Succeed, Fail, Step, TypeOK, FailuresOK
  <1>13. ASSUME NEW w \in Workers, PollEnds(w) PROVE FailuresOK'
    BY <1>13, CountedOK
       DEF PollEnds, Judge, Succeed, Fail, TypeOK, FailuresOK
  <1>14. ASSUME NEW w \in Workers, AcquirePermit(w) PROVE FailuresOK'
    BY <1>14, CountedOK
       DEF AcquirePermit, Step, TypeOK, FailuresOK
  <1>15. ASSUME NEW w \in Workers, PermitBusy(w) PROVE FailuresOK'
    BY <1>15, CountedOK
       DEF PermitBusy, Fail, TypeOK, FailuresOK
  <1>16. ASSUME NEW w \in Workers, JoinBuild(w) PROVE FailuresOK'
    BY <1>16, CountedOK
       DEF JoinBuild, TypeOK, FailuresOK
  <1>17. ASSUME NEW w \in Workers, WaiterWakes(w) PROVE FailuresOK'
    BY <1>17, CountedOK
       DEF WaiterWakes, Judge, Succeed, Fail, TypeOK, FailuresOK
  <1>18. ASSUME NEW w \in Workers, WaiterTimesOut(w) PROVE FailuresOK'
    BY <1>18, CountedOK
       DEF WaiterTimesOut, Fail, TypeOK, FailuresOK
  <1>19. ASSUME NEW w \in Workers, NEW user \in Users, NEW marker \in Markers,
                NEW policy \in Policies, Admit(w, user, marker, policy)
         PROVE  FailuresOK'
    BY <1>19, CountedOK
       DEF Admit, TypeOK, FailuresOK
  <1>20. ASSUME NEW w \in Workers, NEW verdict \in {"ok", "unavailable"},
                ReadAtOnce(w, verdict)
         PROVE  FailuresOK'
    BY <1>20, CountedOK
       DEF ReadAtOnce, Asks, Judge, Succeed, Fail, TypeOK, FailuresOK
  <1>21. ASSUME NEW w \in Workers, NEW forced \in BOOLEAN,
                NEW verdict \in {"ok", "unavailable"}, LadderRead(w, forced, verdict)
         PROVE  FailuresOK'
    BY <1>21, CountedOK
       DEF LadderRead, Asks, Judge, Succeed, Fail, Step, TypeOK, FailuresOK
  <1>22. ASSUME NEW w \in Workers, NEW child \in Children, ManagerEnds(w, child)
         PROVE  FailuresOK'
    BY <1>22, CountedOK
       DEF ManagerEnds, Judge, Succeed, Fail, TypeOK, FailuresOK
  <1>23. ASSUME NEW w \in Workers,
                NEW p \in UNION {Posted[policy] : policy \in DOMAIN Posted},
                NEW outcome \in {"queued", "replayed", "full"}, Mutate(w, p, outcome)
         PROVE  FailuresOK'
    BY <1>23, CountedOK
       DEF Mutate, Succeed, Fail, TypeOK, FailuresOK
  <1>24. ASSUME NEW w \in Workers, NEW yes \in BOOLEAN, NEW over \in BOOLEAN,
                Wake(w, yes, over)
         PROVE  FailuresOK'
    BY <1>24, CountedOK
       DEF Wake, Ready, TypeOK, FailuresOK
  <1>25. ASSUME NEW w \in Workers, NEW yes \in BOOLEAN, NEW over \in BOOLEAN,
                RecordRejectedPost(w, yes, over)
         PROVE  FailuresOK'
    BY <1>25, CountedOK
       DEF RecordRejectedPost, Ready, TypeOK, FailuresOK
  <1>26. ASSUME NEW w \in Workers, NEW over \in BOOLEAN, TallyFailure(w, over)
         PROVE  FailuresOK'
    BY <1>26, CountedOK
       DEF TallyFailure, Ready, TypeOK, FailuresOK
  <1>27. ASSUME NEW w \in Workers, NEW over \in BOOLEAN, Answer(w, over) PROVE FailuresOK'
    BY <1>27, CountedOK
       DEF Answer, Ready, Free, End, TypeOK, FailuresOK
  <1>28. ASSUME NEW w \in Workers, NEW threshold \in {"info", "off"}, NEW made \in BOOLEAN,
                NEW confirmed \in BOOLEAN, RecordFailure(w, threshold, made, confirmed)
         PROVE  FailuresOK'
    <2> DEFINE appended == made /\ level_visible(threshold, "warn")
               n == failures.claimed[w]
               f == IF appended THEN [failures EXCEPT !.owed = @ - n] ELSE failures
    <2>1. failures' = IF confirmed THEN [f EXCEPT !.claimed[w] = NoClaim] ELSE GiveBack(f, w)
      BY <1>28 DEF RecordFailure
    <2> HIDE DEF appended
    <2>2. f \in FailureCounts
      BY DEF TypeOK, FailuresOK, FailureCounts
    <2> HIDE DEF f
    <2>3. f.tally + f.claimed[w] \in Nat /\ 0 \in Nat
      BY <2>2 DEF FailureCounts
    <2>4. [f.claimed EXCEPT ![w] = 0] \in [Workers -> Nat]
      BY <2>2 DEF FailureCounts
    <2> QED
      BY <2>1, <2>2, <2>3, <2>4 DEF FailuresOK, FailureCounts, GiveBack, NoClaim
  <1>29. ASSUME NEW j \in jobs, NEW found \in ReadBack \cup {stored}, Consume(j, found)
         PROVE  FailuresOK'
    BY <1>29, CountedOK
       DEF Consume, TypeOK, FailuresOK
  <1>30. ASSUME UNCHANGED vars PROVE FailuresOK'
    BY <1>30, CountedOK
       DEF vars, bridge, TypeOK, FailuresOK
  <1> QED
    BY <1>1, <1>2, <1>3, <1>4, <1>5, <1>6, <1>7, <1>8, <1>9, <1>10, <1>11, <1>12, <1>13,
       <1>14, <1>15, <1>16, <1>17, <1>18, <1>19, <1>20, <1>21, <1>22, <1>23, <1>24, <1>25,
       <1>26, <1>27, <1>28, <1>29, <1>30
    DEF Next, WorkerStep, BuilderStep, AcceptStep

(* The first state is well typed.                                          *)
LEMMA TypeInit == Init => TypeOK
  <1> SUFFICES ASSUME Init PROVE TypeOK
    OBVIOUS
  <1>1. CgiOK /\ backlog \subseteq Cgis
    BY DEF Init, CgiOK, Reqs
  <1>2. QueueOK
    BY DEF Init, QueueOK
  <1>3. WorkersOK
    BY FreeOK DEF Init, WorkersOK, Free
  <1>4. PlacesOK /\ BuildOK
    BY DEF Init, PlacesOK, BuildOK, NoBuild
  <1>5. FailuresOK
    BY DEF Init, FailuresOK, FailureCounts, NoFailures, NoClaim
  <1> QED
    BY <1>1, <1>2, <1>3, <1>4, <1>5 DEF TypeOK

(* Every step keeps the types.                                             *)
LEMMA TypeStep == TypeOK /\ [Next]_vars => TypeOK'
  BY CgiStep, QueueStep, WorkersStep, PlacesStep, BuildStep, FailuresStep DEF TypeOK

(***************************************************************************)
(* Places of the pool.                                                     *)
(***************************************************************************)
(* The workers at a stage, and the change one of them makes to their       *)
(* number.                                                                 *)
Crew(x) == {w \in Workers : worker[w].st = x}
Weighs(w, x) == IF worker[w].st = x THEN 1 ELSE 0

(* The workers at a stage are finitely many.                               *)
LEMMA CrewFinite ==
    ASSUME NEW x
    PROVE  IsFiniteSet(Crew(x)) /\ Cardinality(Crew(x)) \in Nat
  <1>1. IsFiniteSet(Crew(x))
    BY BridgeAssumption, FS_Subset DEF Crew
  <1> QED
    BY <1>1, FS_CardinalityType

(* A step of one worker changes the number at a stage by what that worker  *)
(* does to it.                                                             *)
LEMMA OneMoves ==
    ASSUME NEW w \in Workers, NEW x, \A v \in Workers \ {w} : worker'[v] = worker[v]
    PROVE  Cardinality(Crew(x)') = Cardinality(Crew(x)) - Weighs(w, x) + Weighs(w, x)'
  <1> DEFINE Others == {v \in Workers \ {w} : worker[v].st = x}
  <1>1. IsFiniteSet(Others) /\ w \notin Others
    BY BridgeAssumption, FS_Subset
  <1>2. Cardinality(Others) \in Nat /\ Cardinality(Others \cup {w}) = Cardinality(Others) + 1
    BY <1>1, FS_AddElement, FS_CardinalityType
  <1>3. Crew(x) = IF worker[w].st = x THEN Others \cup {w} ELSE Others
    BY DEF Crew
  <1>4. Crew(x)' = IF worker'[w].st = x THEN Others \cup {w} ELSE Others
    BY DEF Crew
  <1> HIDE DEF Others
  <1> QED
    BY <1>2, <1>3, <1>4 DEF Weighs

(* A step of a worker that is at a stage neither before nor after leaves   *)
(* those at it alone.                                                      *)
LEMMA SameCrew ==
    ASSUME NEW w \in Workers, NEW x, \A v \in Workers \ {w} : worker'[v] = worker[v],
           worker[w].st # x, worker'[w].st # x
    PROVE  Crew(x)' = Crew(x)
  BY DEF Crew

(* The builder of the shell snapshot runs the manager as well.             *)
Runs == IF builder = "runs" THEN 1 ELSE 0

(* What the two counters of places stand for.                              *)
PlacesExact ==
    /\ slots = Cardinality(Crew("polling")) /\ slots <= LongPollLimit
    /\ lane = Cardinality(Crew("manager")) + Runs /\ lane <= ManagerLimit

(* A place is taken by who polls or runs the manager, and given back by    *)
(* whatever ends that, the death of the service included.                  *)
LEMMA PlacesHold ==
    ASSUME TypeOK, PlacesExact, [Next]_vars
    PROVE  PlacesExact'
  <1>1. ASSUME NEW i \in Starts, LifecycleStep(i) /\ UNCHANGED bridge PROVE PlacesExact'
    BY <1>1 DEF bridge, PlacesExact, Crew, Runs, bridge
  <1>2. ASSUME NEW i \in Starts, ServiceDies(i) PROVE PlacesExact'
    <2>1. CASE phase[i] = "open"
      <3>1. Crew("polling")' = {} /\ Crew("manager")' = {}
        BY <1>2, <2>1 DEF ServiceDies, Crew, Free
      <3>2. slots' = 0 /\ lane' = 0 /\ builder' = "none"
        BY <1>2, <2>1 DEF ServiceDies
      <3> QED
        BY <3>1, <3>2, FS_EmptySet, BridgeAssumption DEF PlacesExact, Runs
    <2>2. CASE phase[i] # "open"
      BY <1>2, <2>2 DEF ServiceDies, PlacesExact, Crew, Runs
    <2> QED
      BY <2>1, <2>2
  <1>3. ASSUME NEW r \in Cgis, Connect(r) PROVE PlacesExact'
    BY <1>3 DEF Connect, PlacesExact, Crew, Runs
  <1>4. ASSUME NEW r \in Cgis, ConnectWindowEnds(r) PROVE PlacesExact'
    BY <1>4 DEF ConnectWindowEnds, PlacesExact, Crew, Runs
  <1>5. ASSUME NEW r \in Cgis, CgiGivesUp(r) PROVE PlacesExact'
    BY <1>5 DEF CgiGivesUp, End, PlacesExact, Crew, Runs
  <1>6. ASSUME NEW r \in Cgis, NEW c \in Checked, CgiStart(r, c) PROVE PlacesExact'
    BY <1>6 DEF CgiStart, PlacesExact, Crew, Runs
  <1>7. ASSUME NEW r \in Cgis, NEW over \in BOOLEAN, NEW recorded \in BOOLEAN,
               Accept(r, over, recorded)
        PROVE  PlacesExact'
    BY <1>7 DEF Accept, End, RecordSaturated, PlacesExact, Crew, Runs
  <1>8. ASSUME BuilderAcquires PROVE PlacesExact'
    <2>1. Crew("polling")' = Crew("polling") /\ Crew("manager")' = Crew("manager")
      BY <1>8 DEF BuilderAcquires, Crew
    <2>2. slots' = slots /\ lane' = lane + 1 /\ lane < ManagerLimit /\ Runs = 0 /\ Runs' = 1
      BY <1>8 DEF BuilderAcquires, Runs
    <2> QED
      BY <2>1, <2>2, CrewFinite, BridgeAssumption DEF PlacesExact
  <1>9. ASSUME BuilderBusy PROVE PlacesExact'
    BY <1>9 DEF BuilderBusy, PlacesExact, Crew, Runs
  <1>10. ASSUME NEW child \in Children, BuilderEnds(child) PROVE PlacesExact'
    <2>1. Crew("polling")' = Crew("polling") /\ Crew("manager")' = Crew("manager")
      BY <1>10 DEF BuilderEnds, Crew
    <2>2. slots' = slots /\ lane' = lane - 1 /\ Runs = 1 /\ Runs' = 0
      BY <1>10 DEF BuilderEnds, Runs
    <2> QED
      BY <2>1, <2>2, CrewFinite, BridgeAssumption DEF PlacesExact
  <1>11. ASSUME NEW w \in Workers, NEW frame \in {{}, {"short_header"}, {"short_payload"}},
                Take(w, frame)
         PROVE  PlacesExact'
    <2>1. worker[w].st = "free"
      BY <1>11 DEF Take, Ready
    <2>2. /\ \A v \in Workers \ {w} : worker'[v] = worker[v]
          /\ worker[w].st \notin {"polling", "manager"}
          /\ worker'[w].st \notin {"polling", "manager"}
      BY <1>11, <2>1, TakeMoves
    <2>3. slots' = slots /\ lane' = lane /\ (builder' = "runs" <=> builder = "runs")
      BY <1>11 DEF Take, Ready, Free
    <2> QED
      BY <2>2, <2>3, SameCrew DEF PlacesExact, Runs
  <1>12. ASSUME NEW w \in Workers, ReadResult(w) PROVE PlacesExact'
    <2>1. /\ \A v \in Workers \ {w} : worker'[v] = worker[v]
          /\ worker[w].st = "admitted" /\ worker'[w].st # "manager"
          /\ \/ worker'[w].st # "polling" /\ slots' = slots
             \/ worker'[w].st = "polling" /\ slots < LongPollLimit /\ slots' = slots + 1
      BY <1>12, StepMoves, SucceedMoves, FailMoves, JudgeMoves DEF ReadResult, Asks,
         TypeOK, Moves, Stages, Answers
    <2>2. lane' = lane /\ builder' = builder
      BY <1>12 DEF ReadResult, Asks
    <2>3. \A x \in {"polling", "manager"} :
             Cardinality(Crew(x)') = Cardinality(Crew(x)) - Weighs(w, x) + Weighs(w, x)'
      BY <2>1, OneMoves
    <2> QED
      BY <2>1, <2>2, <2>3, CrewFinite, BridgeAssumption DEF PlacesExact, Weighs, Runs
  <1>13. ASSUME NEW w \in Workers, PollEnds(w) PROVE PlacesExact'
    <2>1. /\ \A v \in Workers \ {w} : worker'[v] = worker[v]
          /\ worker[w].st = "polling" /\ worker'[w].st \notin {"polling", "manager"}
      BY <1>13, StepMoves, SucceedMoves, FailMoves, JudgeMoves DEF PollEnds, TypeOK,
         Moves, Stages, Answers
    <2>2. slots' = slots - 1 /\ lane' = lane /\ builder' = builder
      BY <1>13 DEF PollEnds
    <2>3. \A x \in {"polling", "manager"} :
             Cardinality(Crew(x)') = Cardinality(Crew(x)) - Weighs(w, x) + Weighs(w, x)'
      BY <2>1, OneMoves
    <2> QED
      BY <2>1, <2>2, <2>3, CrewFinite, BridgeAssumption DEF PlacesExact, Weighs, Runs
  <1>14. ASSUME NEW w \in Workers, AcquirePermit(w) PROVE PlacesExact'
    <2>1. /\ \A v \in Workers \ {w} : worker'[v] = worker[v]
          /\ worker[w].st = "lane" /\ worker'[w].st = "manager"
      BY <1>14, StepMoves, SucceedMoves, FailMoves, JudgeMoves DEF AcquirePermit, TypeOK,
         Moves, Stages, Answers
    <2>2. slots' = slots /\ lane' = lane + 1 /\ lane < ManagerLimit /\ builder' = builder
      BY <1>14 DEF AcquirePermit
    <2>3. \A x \in {"polling", "manager"} :
             Cardinality(Crew(x)') = Cardinality(Crew(x)) - Weighs(w, x) + Weighs(w, x)'
      BY <2>1, OneMoves
    <2> QED
      BY <2>1, <2>2, <2>3, CrewFinite, BridgeAssumption DEF PlacesExact, Weighs, Runs
  <1>15. ASSUME NEW w \in Workers, PermitBusy(w) PROVE PlacesExact'
    <2>1. /\ \A v \in Workers \ {w} : worker'[v] = worker[v]
          /\ worker[w].st \notin {"polling", "manager"}
          /\ worker'[w].st \notin {"polling", "manager"}
      BY <1>15, StepMoves, SucceedMoves, FailMoves, JudgeMoves DEF PermitBusy, TypeOK,
         Moves, Stages, Answers, StoredVerdict
    <2>2. slots' = slots /\ lane' = lane /\ (builder' = "runs" <=> builder = "runs")
      BY <1>15 DEF PermitBusy
    <2> QED
      BY <2>1, <2>2, SameCrew DEF PlacesExact, Runs
  <1>16. ASSUME NEW w \in Workers, JoinBuild(w) PROVE PlacesExact'
    <2>1. worker[w].st = "snapshot"
      BY <1>16 DEF JoinBuild
    <2>2. /\ \A v \in Workers \ {w} : worker'[v] = worker[v]
          /\ worker[w].st \notin {"polling", "manager"}
          /\ worker'[w].st \notin {"polling", "manager"}
      BY <1>16, <2>1, JoinMoves
    <2>3. slots' = slots /\ lane' = lane /\ (builder' = "runs" <=> builder = "runs")
      BY <1>16, JoinMoves DEF JoinBuild
    <2> QED
      BY <2>2, <2>3, SameCrew DEF PlacesExact, Runs
  <1>17. ASSUME NEW w \in Workers, WaiterWakes(w) PROVE PlacesExact'
    <2>1. /\ \A v \in Workers \ {w} : worker'[v] = worker[v]
          /\ worker[w].st \notin {"polling", "manager"}
          /\ worker'[w].st \notin {"polling", "manager"}
      BY <1>17, FollowMoves, JudgeMoves DEF WaiterWakes, TypeOK, Moves, Stages, Answers,
         StoredVerdict
    <2>2. slots' = slots /\ lane' = lane /\ (builder' = "runs" <=> builder = "runs")
      BY <1>17 DEF WaiterWakes
    <2> QED
      BY <2>1, <2>2, SameCrew DEF PlacesExact, Runs
  <1>18. ASSUME NEW w \in Workers, WaiterTimesOut(w) PROVE PlacesExact'
    <2>1. /\ \A v \in Workers \ {w} : worker'[v] = worker[v]
          /\ worker[w].st \notin {"polling", "manager"}
          /\ worker'[w].st \notin {"polling", "manager"}
      BY <1>18, StepMoves, SucceedMoves, FailMoves, JudgeMoves DEF WaiterTimesOut, TypeOK,
         Moves, Stages, Answers, StoredVerdict
    <2>2. slots' = slots /\ lane' = lane /\ (builder' = "runs" <=> builder = "runs")
      BY <1>18 DEF WaiterTimesOut
    <2> QED
      BY <2>1, <2>2, SameCrew DEF PlacesExact, Runs
  <1>19. ASSUME NEW w \in Workers, NEW user \in Users, NEW marker \in Markers,
                NEW policy \in Policies, Admit(w, user, marker, policy)
         PROVE  PlacesExact'
    <2>1. worker[w].st = "received"
      BY <1>19 DEF Admit
    <2>2. /\ \A v \in Workers \ {w} : worker'[v] = worker[v]
          /\ worker[w].st \notin {"polling", "manager"}
          /\ worker'[w].st \notin {"polling", "manager"}
      BY <1>19, <2>1, AdmitMoves
    <2>3. slots' = slots /\ lane' = lane /\ (builder' = "runs" <=> builder = "runs")
      BY <1>19 DEF Admit
    <2> QED
      BY <2>2, <2>3, SameCrew DEF PlacesExact, Runs
  <1>20. ASSUME NEW w \in Workers, NEW verdict \in {"ok", "unavailable"},
                ReadAtOnce(w, verdict)
         PROVE  PlacesExact'
    <2>1. /\ \A v \in Workers \ {w} : worker'[v] = worker[v]
          /\ worker[w].st \notin {"polling", "manager"}
          /\ worker'[w].st \notin {"polling", "manager"}
      BY <1>20, StepMoves, SucceedMoves, FailMoves, JudgeMoves DEF ReadAtOnce, Asks,
         TypeOK, Moves, Stages, Answers, StoredVerdict
    <2>2. slots' = slots /\ lane' = lane /\ (builder' = "runs" <=> builder = "runs")
      BY <1>20 DEF ReadAtOnce, Asks
    <2> QED
      BY <2>1, <2>2, SameCrew DEF PlacesExact, Runs
  <1>21. ASSUME NEW w \in Workers, NEW forced \in BOOLEAN,
                NEW verdict \in {"ok", "unavailable"}, LadderRead(w, forced, verdict)
         PROVE  PlacesExact'
    <2>1. /\ \A v \in Workers \ {w} : worker'[v] = worker[v]
          /\ worker[w].st \notin {"polling", "manager"}
          /\ worker'[w].st \notin {"polling", "manager"}
      BY <1>21, StepMoves, SucceedMoves, FailMoves, JudgeMoves DEF LadderRead, Asks,
         TypeOK, Moves, Stages, Answers, StoredVerdict
    <2>2. slots' = slots /\ lane' = lane /\ (builder' = "runs" <=> builder = "runs")
      BY <1>21 DEF LadderRead, Asks
    <2> QED
      BY <2>1, <2>2, SameCrew DEF PlacesExact, Runs
  <1>22. ASSUME NEW w \in Workers, NEW child \in Children, ManagerEnds(w, child)
         PROVE  PlacesExact'
    <2>1. /\ \A v \in Workers \ {w} : worker'[v] = worker[v]
          /\ worker[w].st = "manager" /\ worker'[w].st \notin {"polling", "manager"}
      BY <1>22, StepMoves, SucceedMoves, FailMoves, JudgeMoves DEF ManagerEnds, TypeOK,
         Moves, Stages, Answers
    <2>2. slots' = slots /\ lane' = lane - 1 /\ builder' = builder
      BY <1>22 DEF ManagerEnds
    <2>3. \A x \in {"polling", "manager"} :
             Cardinality(Crew(x)') = Cardinality(Crew(x)) - Weighs(w, x) + Weighs(w, x)'
      BY <2>1, OneMoves
    <2> QED
      BY <2>1, <2>2, <2>3, CrewFinite, BridgeAssumption DEF PlacesExact, Weighs, Runs
  <1>23. ASSUME NEW w \in Workers,
                NEW p \in UNION {Posted[policy] : policy \in DOMAIN Posted},
                NEW outcome \in {"queued", "replayed", "full"}, Mutate(w, p, outcome)
         PROVE  PlacesExact'
    <2>1. /\ \A v \in Workers \ {w} : worker'[v] = worker[v]
          /\ worker[w].st \notin {"polling", "manager"}
          /\ worker'[w].st \notin {"polling", "manager"}
      BY <1>23, MutateMoves DEF Mutate, TypeOK, Moves, Stages, Answers, StoredVerdict
    <2>2. slots' = slots /\ lane' = lane /\ (builder' = "runs" <=> builder = "runs")
      BY <1>23 DEF Mutate
    <2> QED
      BY <2>1, <2>2, SameCrew DEF PlacesExact, Runs
  <1>24. ASSUME NEW w \in Workers, NEW yes \in BOOLEAN, NEW over \in BOOLEAN,
                Wake(w, yes, over)
         PROVE  PlacesExact'
    <2>1. /\ \A v \in Workers \ {w} : worker'[v] = worker[v]
          /\ worker[w].st \notin {"polling", "manager"}
          /\ worker'[w].st \notin {"polling", "manager"}
      BY <1>24, StepMoves, SucceedMoves, FailMoves, JudgeMoves DEF Wake, Ready, TypeOK,
         Moves, Stages, Answers, StoredVerdict
    <2>2. slots' = slots /\ lane' = lane /\ (builder' = "runs" <=> builder = "runs")
      BY <1>24 DEF Wake, Ready
    <2> QED
      BY <2>1, <2>2, SameCrew DEF PlacesExact, Runs
  <1>25. ASSUME NEW w \in Workers, NEW yes \in BOOLEAN, NEW over \in BOOLEAN,
                RecordRejectedPost(w, yes, over)
         PROVE  PlacesExact'
    <2>1. /\ \A v \in Workers \ {w} : worker'[v] = worker[v]
          /\ worker[w].st \notin {"polling", "manager"}
          /\ worker'[w].st \notin {"polling", "manager"}
      BY <1>25, StepMoves, SucceedMoves, FailMoves, JudgeMoves DEF RecordRejectedPost,
         Ready, TypeOK, Moves, Stages, Answers, StoredVerdict
    <2>2. slots' = slots /\ lane' = lane /\ (builder' = "runs" <=> builder = "runs")
      BY <1>25 DEF RecordRejectedPost, Ready
    <2> QED
      BY <2>1, <2>2, SameCrew DEF PlacesExact, Runs
  <1>26. ASSUME NEW w \in Workers, NEW over \in BOOLEAN, TallyFailure(w, over)
         PROVE  PlacesExact'
    <2>1. /\ \A v \in Workers \ {w} : worker'[v] = worker[v]
          /\ worker[w].st \notin {"polling", "manager"}
          /\ worker'[w].st \notin {"polling", "manager"}
      BY <1>26, StepMoves, SucceedMoves, FailMoves, JudgeMoves DEF TallyFailure, Ready,
         TypeOK, Moves, Stages, Answers, StoredVerdict
    <2>2. slots' = slots /\ lane' = lane /\ (builder' = "runs" <=> builder = "runs")
      BY <1>26 DEF TallyFailure, Ready
    <2> QED
      BY <2>1, <2>2, SameCrew DEF PlacesExact, Runs
  <1>27. ASSUME NEW w \in Workers, NEW over \in BOOLEAN, Answer(w, over) PROVE PlacesExact'
    <2>1. worker[w].st = "answer" /\ worker' = [worker EXCEPT ![w] = Free]
      BY <1>27 DEF Answer, Ready
    <2>2. /\ \A v \in Workers \ {w} : worker'[v] = worker[v]
          /\ worker[w].st \notin {"polling", "manager"}
          /\ worker'[w].st \notin {"polling", "manager"}
      BY <1>27, <2>1, AnswerMoves
    <2>3. slots' = slots /\ lane' = lane /\ (builder' = "runs" <=> builder = "runs")
      BY <1>27 DEF Answer, Ready, Free, End
    <2> QED
      BY <2>2, <2>3, SameCrew DEF PlacesExact, Runs
  <1>28. ASSUME NEW w \in Workers, NEW threshold \in {"info", "off"}, NEW made \in BOOLEAN,
                NEW confirmed \in BOOLEAN, RecordFailure(w, threshold, made, confirmed)
         PROVE  PlacesExact'
    BY <1>28 DEF RecordFailure, GiveBack, PlacesExact, Crew, Runs
  <1>29. ASSUME NEW j \in jobs, NEW found \in ReadBack \cup {stored}, Consume(j, found)
         PROVE  PlacesExact'
    BY <1>29 DEF Consume, PlacesExact, Crew, Runs
  <1>30. ASSUME UNCHANGED vars PROVE PlacesExact'
    BY <1>30 DEF vars, bridge, PlacesExact, Crew, Runs
  <1> QED
    BY <1>1, <1>2, <1>3, <1>4, <1>5, <1>6, <1>7, <1>8, <1>9, <1>10, <1>11, <1>12, <1>13,
       <1>14, <1>15, <1>16, <1>17, <1>18, <1>19, <1>20, <1>21, <1>22, <1>23, <1>24, <1>25,
       <1>26, <1>27, <1>28, <1>29, <1>30
    DEF Next, WorkerStep, BuilderStep, AcceptStep

(***************************************************************************)
(* Failures.                                                               *)
(***************************************************************************)
(* A failure is owed until a record of it is in the log; it is tallied, or *)
(* claimed by the worker that writes the record.                           *)
(* A claim moves the tally to the worker that will write the record.       *)
LEMMA ClaimCounts ==
    ASSUME FailuresOK, FailuresNeverLost, NEW w \in Workers, NEW over \in BOOLEAN,
           failures.claimed[w] = NoClaim, failures' = Claim(failures, w, over)
    PROVE  FailuresNeverLost'
  <1> DEFINE n == SumFunction(failures.claimed)
  <1>1. /\ failures.tally \in Nat /\ failures.owed \in Int
        /\ failures.claimed \in [Workers -> Nat]
    BY DEF FailuresOK, FailureCounts
  <1>2. n \in Nat
    BY <1>1, BridgeAssumption, SumOfUpdate
  <1>3. failures.owed <= failures.tally + n
    BY DEF FailuresNeverLost
  <1>4. CASE over
    <2> DEFINE c == [failures.claimed EXCEPT ![w] = failures.tally + 1]
    <2>1. failures'.owed = failures.owed + 1 /\ failures'.tally = 0 /\ failures'.claimed = c
      BY <1>4 DEF Claim, FailuresOK, FailureCounts
    <2>2. SumFunction(c) = n + failures.tally + 1
      <3>1. SumFunction(c) = n - failures.claimed[w] + (failures.tally + 1)
        BY <1>1, BridgeAssumption, SumOfUpdate
      <3> HIDE DEF c, n
      <3> QED
        BY <1>1, <1>2, <3>1 DEF NoClaim
    <2> HIDE DEF c, n
    <2> QED
      BY <1>1, <1>2, <1>3, <2>1, <2>2 DEF FailuresNeverLost
  <1>5. CASE ~over
    <2>1. /\ failures'.owed = failures.owed + 1 /\ failures'.tally = failures.tally + 1
          /\ failures'.claimed = failures.claimed
      BY <1>5 DEF Claim, FailuresOK, FailureCounts
    <2> QED
      BY <1>1, <1>2, <1>3, <2>1 DEF FailuresNeverLost
  <1> QED
    BY <1>4, <1>5

(* A record that is confirmed pays what the worker claimed; one that is    *)
(* not gives it back.                                                      *)
LEMMA RecordCounts ==
    ASSUME FailuresOK, FailuresNeverLost, NEW w \in Workers, NEW threshold, NEW made \in BOOLEAN,
           NEW confirmed \in BOOLEAN, RecordFailure(w, threshold, made, confirmed)
    PROVE  FailuresNeverLost'
  <1> DEFINE appended == made /\ level_visible(threshold, "warn")
             n == failures.claimed[w]
             sum == SumFunction(failures.claimed)
             c == [failures.claimed EXCEPT ![w] = 0]
             f == IF appended THEN [failures EXCEPT !.owed = @ - n] ELSE failures
  <1>1. /\ confirmed => appended
        /\ failures' = IF confirmed THEN [f EXCEPT !.claimed[w] = NoClaim] ELSE GiveBack(f, w)
    BY DEF RecordFailure
  <1> HIDE DEF appended
  <1>2. /\ failures.tally \in Nat /\ failures.owed \in Int /\ n \in Nat
        /\ failures.claimed \in [Workers -> Nat]
    BY DEF FailuresOK, FailureCounts
  <1>3. sum \in Nat /\ SumFunction(c) = sum - n + 0
    BY <1>2, BridgeAssumption, SumOfUpdate
  <1>4. failures.owed <= failures.tally + sum
    BY DEF FailuresNeverLost
  <1>5. /\ f.claimed = failures.claimed /\ f.tally = failures.tally /\ f \in FailureCounts
        /\ f.owed = IF appended THEN failures.owed - n ELSE failures.owed
    BY DEF FailuresOK, FailureCounts
  <1> HIDE DEF f
  <1>6. /\ failures'.claimed = c /\ failures'.owed = f.owed
        /\ failures'.tally = IF confirmed THEN failures.tally ELSE failures.tally + n
    BY <1>1, <1>5 DEF GiveBack, NoClaim, FailureCounts
  <1> HIDE DEF c, n, sum
  <1> QED
    BY <1>1, <1>2, <1>3, <1>4, <1>5, <1>6 DEF FailuresNeverLost, sum

(* At the start nothing is owed.                                           *)
LEMMA NoFailuresLost == NoFailures.owed <= NoFailures.tally + SumFunction(NoFailures.claimed)
  <1>1. /\ NoFailures.claimed \in [Workers -> Nat]
        /\ NoFailures.owed = 0 /\ NoFailures.tally = 0
    BY DEF NoFailures, NoClaim
  <1>2. SumFunction(NoFailures.claimed) \in Nat
    <2>1. CASE Workers = {}
      <3>1. SumFunction(NoFailures.claimed) = Cardinality(Units(NoFailures.claimed, Workers))
        BY <1>1, BridgeAssumption, SumIsCount
      <3>2. Workers \in SUBSET Workers
        OBVIOUS
      <3> QED
        BY <1>1, <3>1, <3>2, BridgeAssumption, UnitsFinite
    <2>2. CASE Workers # {}
      BY <1>1, <2>2, BridgeAssumption, SumOfUpdate
    <2> QED
      BY <2>1, <2>2
  <1> QED
    BY <1>1, <1>2

(* A failure is owed until a record of it is in the log: every way a       *)
(* worker ends, and every fault of the log, keeps the count.               *)
LEMMA FailuresHold ==
    ASSUME TypeOK, FailuresNeverLost, [Next]_vars
    PROVE  FailuresNeverLost'
  <1>1. ASSUME NEW i \in Starts, LifecycleStep(i) /\ UNCHANGED bridge
        PROVE  FailuresNeverLost'
    BY <1>1 DEF bridge, FailuresNeverLost
  <1>2. ASSUME NEW i \in Starts, ServiceDies(i) PROVE FailuresNeverLost'
    <2>1. CASE phase[i] = "open"
      BY <1>2, <2>1, NoFailuresLost DEF ServiceDies, FailuresNeverLost
    <2>2. CASE phase[i] # "open"
      BY <1>2, <2>2 DEF ServiceDies, FailuresNeverLost
    <2> QED
      BY <2>1, <2>2
  <1>3. ASSUME NEW r \in Cgis, Connect(r) PROVE FailuresNeverLost'
    BY <1>3 DEF Connect, FailuresNeverLost
  <1>4. ASSUME NEW r \in Cgis, ConnectWindowEnds(r) PROVE FailuresNeverLost'
    BY <1>4 DEF ConnectWindowEnds, FailuresNeverLost
  <1>5. ASSUME NEW r \in Cgis, CgiGivesUp(r) PROVE FailuresNeverLost'
    BY <1>5 DEF CgiGivesUp, FailuresNeverLost
  <1>6. ASSUME NEW r \in Cgis, NEW c \in Checked, CgiStart(r, c) PROVE FailuresNeverLost'
    BY <1>6 DEF CgiStart, FailuresNeverLost
  <1>7. ASSUME NEW r \in Cgis, NEW over \in BOOLEAN, NEW recorded \in BOOLEAN,
               Accept(r, over, recorded)
        PROVE  FailuresNeverLost'
    <2>1. failures' = failures \/ failures' = RecordSaturated(failures, over, recorded)
      BY <1>7 DEF Accept
    <2>2. /\ failures'.owed = failures.owed /\ failures'.tally = failures.tally
          /\ failures'.claimed = failures.claimed
      BY <2>1 DEF RecordSaturated, TypeOK, FailuresOK, FailureCounts
    <2> QED
      BY <2>2 DEF FailuresNeverLost
  <1>8. ASSUME BuilderAcquires PROVE FailuresNeverLost'
    BY <1>8 DEF BuilderAcquires, FailuresNeverLost
  <1>9. ASSUME BuilderBusy PROVE FailuresNeverLost'
    BY <1>9 DEF BuilderBusy, FailuresNeverLost
  <1>10. ASSUME NEW child \in Children, BuilderEnds(child) PROVE FailuresNeverLost'
    BY <1>10 DEF BuilderEnds, FailuresNeverLost
  <1>11. ASSUME NEW w \in Workers, NEW frame \in {{}, {"short_header"}, {"short_payload"}},
                Take(w, frame)
         PROVE  FailuresNeverLost'
    BY <1>11 DEF Take, FailuresNeverLost
  <1>12. ASSUME NEW w \in Workers, ReadResult(w) PROVE FailuresNeverLost'
    BY <1>12 DEF ReadResult, FailuresNeverLost
  <1>13. ASSUME NEW w \in Workers, PollEnds(w) PROVE FailuresNeverLost'
    BY <1>13 DEF PollEnds, FailuresNeverLost
  <1>14. ASSUME NEW w \in Workers, AcquirePermit(w) PROVE FailuresNeverLost'
    BY <1>14 DEF AcquirePermit, FailuresNeverLost
  <1>15. ASSUME NEW w \in Workers, PermitBusy(w) PROVE FailuresNeverLost'
    BY <1>15 DEF PermitBusy, FailuresNeverLost
  <1>16. ASSUME NEW w \in Workers, JoinBuild(w) PROVE FailuresNeverLost'
    BY <1>16 DEF JoinBuild, FailuresNeverLost
  <1>17. ASSUME NEW w \in Workers, WaiterWakes(w) PROVE FailuresNeverLost'
    BY <1>17 DEF WaiterWakes, FailuresNeverLost
  <1>18. ASSUME NEW w \in Workers, WaiterTimesOut(w) PROVE FailuresNeverLost'
    BY <1>18 DEF WaiterTimesOut, FailuresNeverLost
  <1>19. ASSUME NEW w \in Workers, NEW user \in Users, NEW marker \in Markers,
                NEW policy \in Policies, Admit(w, user, marker, policy)
         PROVE  FailuresNeverLost'
    BY <1>19 DEF Admit, FailuresNeverLost
  <1>20. ASSUME NEW w \in Workers, NEW verdict \in {"ok", "unavailable"},
                ReadAtOnce(w, verdict)
         PROVE  FailuresNeverLost'
    BY <1>20 DEF ReadAtOnce, FailuresNeverLost
  <1>21. ASSUME NEW w \in Workers, NEW forced \in BOOLEAN,
                NEW verdict \in {"ok", "unavailable"}, LadderRead(w, forced, verdict)
         PROVE  FailuresNeverLost'
    BY <1>21 DEF LadderRead, FailuresNeverLost
  <1>22. ASSUME NEW w \in Workers, NEW child \in Children, ManagerEnds(w, child)
         PROVE  FailuresNeverLost'
    BY <1>22 DEF ManagerEnds, FailuresNeverLost
  <1>23. ASSUME NEW w \in Workers,
                NEW p \in UNION {Posted[policy] : policy \in DOMAIN Posted},
                NEW outcome \in {"queued", "replayed", "full"}, Mutate(w, p, outcome)
         PROVE  FailuresNeverLost'
    BY <1>23 DEF Mutate, FailuresNeverLost
  <1>24. ASSUME NEW w \in Workers, NEW yes \in BOOLEAN, NEW over \in BOOLEAN,
                Wake(w, yes, over)
         PROVE  FailuresNeverLost'
    <2>1. /\ failures.claimed[w] = NoClaim
          /\ failures' = failures \/ failures' = Claim(failures, w, over)
      BY <1>24 DEF Wake, Ready
    <2> QED
      BY <2>1, ClaimCounts DEF TypeOK, FailuresNeverLost
  <1>25. ASSUME NEW w \in Workers, NEW yes \in BOOLEAN, NEW over \in BOOLEAN,
                RecordRejectedPost(w, yes, over)
         PROVE  FailuresNeverLost'
    <2>1. /\ failures.claimed[w] = NoClaim
          /\ failures' = failures \/ failures' = Claim(failures, w, over)
      BY <1>25 DEF RecordRejectedPost, Ready
    <2> QED
      BY <2>1, ClaimCounts DEF TypeOK, FailuresNeverLost
  <1>26. ASSUME NEW w \in Workers, NEW over \in BOOLEAN, TallyFailure(w, over)
         PROVE  FailuresNeverLost'
    <2>1. /\ failures.claimed[w] = NoClaim
          /\ failures' = failures \/ failures' = Claim(failures, w, over)
      BY <1>26 DEF TallyFailure, Ready
    <2> QED
      BY <2>1, ClaimCounts DEF TypeOK, FailuresNeverLost
  <1>27. ASSUME NEW w \in Workers, NEW over \in BOOLEAN, Answer(w, over)
         PROVE  FailuresNeverLost'
    <2>1. /\ failures.claimed[w] = NoClaim
          /\ failures' = failures \/ failures' = Claim(failures, w, over)
      BY <1>27 DEF Answer, Ready
    <2> QED
      BY <2>1, ClaimCounts DEF TypeOK, FailuresNeverLost
  <1>28. ASSUME NEW w \in Workers, NEW threshold \in {"info", "off"}, NEW made \in BOOLEAN,
                NEW confirmed \in BOOLEAN, RecordFailure(w, threshold, made, confirmed)
         PROVE  FailuresNeverLost'
    BY <1>28, RecordCounts DEF TypeOK
  <1>29. ASSUME NEW j \in jobs, NEW found \in ReadBack \cup {stored}, Consume(j, found)
         PROVE  FailuresNeverLost'
    BY <1>29 DEF Consume, FailuresNeverLost
  <1>30. ASSUME UNCHANGED vars PROVE FailuresNeverLost'
    BY <1>30 DEF vars, bridge, FailuresNeverLost
  <1> QED
    BY <1>1, <1>2, <1>3, <1>4, <1>5, <1>6, <1>7, <1>8, <1>9, <1>10, <1>11, <1>12, <1>13,
       <1>14, <1>15, <1>16, <1>17, <1>18, <1>19, <1>20, <1>21, <1>22, <1>23, <1>24, <1>25,
       <1>26, <1>27, <1>28, <1>29, <1>30
    DEF Next, WorkerStep, BuilderStep, AcceptStep

(***************************************************************************)
(* Snapshots.                                                              *)
(***************************************************************************)
(* Who waits for a build waits for one that had not ended when it came;    *)
(* builds are numbered upwards while the service lives.                    *)
Fresher(w) ==
    /\ worker[w].st = "waiting" => worker[w].gen <= build.gen
    /\ worker[w].st = "waiting" \/ worker[w].ans = "snapshot" => worker[w].gen > worker[w].since

WaitsFresh == \A w \in Workers : Fresher(w)

(* Builds end one after the other, and nobody joins one that has ended.    *)
LEMMA WaitsStep ==
    ASSUME TypeOK, WaitsFresh, [Next]_vars
    PROVE  WaitsFresh'
  <1>1. ASSUME NEW i \in Starts, LifecycleStep(i) /\ UNCHANGED bridge PROVE WaitsFresh'
    BY <1>1 DEF bridge, WaitsFresh, Fresher
  <1>2. ASSUME NEW i \in Starts, ServiceDies(i) PROVE WaitsFresh'
    <2>1. CASE phase[i] = "open"
      BY <1>2, <2>1 DEF ServiceDies, WaitsFresh, Fresher, Free
    <2>2. CASE phase[i] # "open"
      BY <1>2, <2>2 DEF ServiceDies, WaitsFresh, Fresher
    <2> QED
      BY <2>1, <2>2
  <1>3. ASSUME NEW r \in Cgis, Connect(r) PROVE WaitsFresh'
    BY <1>3 DEF Connect, WaitsFresh, Fresher
  <1>4. ASSUME NEW r \in Cgis, ConnectWindowEnds(r) PROVE WaitsFresh'
    BY <1>4 DEF ConnectWindowEnds, WaitsFresh, Fresher
  <1>5. ASSUME NEW r \in Cgis, CgiGivesUp(r) PROVE WaitsFresh'
    BY <1>5 DEF CgiGivesUp, WaitsFresh, Fresher
  <1>6. ASSUME NEW r \in Cgis, NEW c \in Checked, CgiStart(r, c) PROVE WaitsFresh'
    BY <1>6 DEF CgiStart, WaitsFresh, Fresher
  <1>7. ASSUME NEW r \in Cgis, NEW over \in BOOLEAN, NEW recorded \in BOOLEAN,
               Accept(r, over, recorded)
        PROVE  WaitsFresh'
    BY <1>7 DEF Accept, WaitsFresh, Fresher
  <1>8. ASSUME BuilderAcquires PROVE WaitsFresh'
    BY <1>8 DEF BuilderAcquires, WaitsFresh, Fresher
  <1>9. ASSUME BuilderBusy PROVE WaitsFresh'
    BY <1>9 DEF BuilderBusy, WaitsFresh, Fresher, TypeOK, BuildOK
  <1>10. ASSUME NEW child \in Children, BuilderEnds(child) PROVE WaitsFresh'
    BY <1>10 DEF BuilderEnds, WaitsFresh, Fresher, TypeOK, BuildOK
  <1>11. ASSUME NEW w \in Workers, NEW frame \in {{}, {"short_header"}, {"short_payload"}},
                Take(w, frame)
         PROVE  WaitsFresh'
    <2>1. /\ \A v \in Workers \ {w} : worker'[v] = worker[v]
          /\ worker'[w].st # "waiting" /\ worker'[w].ans # "snapshot"
      BY <1>11, TakeMoves
    <2>2. build' = build
      BY <1>11 DEF Take
    <2> QED
      BY <2>1, <2>2 DEF WaitsFresh, Fresher
  <1>12. ASSUME NEW w \in Workers, ReadResult(w) PROVE WaitsFresh'
    <2>1. \E t \in Stages \ {"waiting"}, a \in (Answers \ {"snapshot"}) \cup {worker[w].ans} :
             Moves(w, t, a)
      BY <1>12, StepMoves, SucceedMoves, FailMoves, JudgeMoves DEF ReadResult, Asks,
         TypeOK, Stages, Answers, StoredVerdict
    <2>2. build' = build
      BY <1>12 DEF ReadResult
    <2> QED
      BY <2>1, <2>2 DEF Moves, WaitsFresh, Fresher
  <1>13. ASSUME NEW w \in Workers, PollEnds(w) PROVE WaitsFresh'
    <2>1. \E t \in Stages \ {"waiting"}, a \in (Answers \ {"snapshot"}) \cup {worker[w].ans} :
             Moves(w, t, a)
      BY <1>13, StepMoves, SucceedMoves, FailMoves, JudgeMoves DEF PollEnds, TypeOK,
         Stages, Answers, StoredVerdict
    <2>2. build' = build
      BY <1>13 DEF PollEnds
    <2> QED
      BY <2>1, <2>2 DEF Moves, WaitsFresh, Fresher
  <1>14. ASSUME NEW w \in Workers, AcquirePermit(w) PROVE WaitsFresh'
    <2>1. \E t \in Stages \ {"waiting"}, a \in (Answers \ {"snapshot"}) \cup {worker[w].ans} :
             Moves(w, t, a)
      BY <1>14, StepMoves, SucceedMoves, FailMoves, JudgeMoves DEF AcquirePermit, TypeOK,
         Stages, Answers, StoredVerdict
    <2>2. build' = build
      BY <1>14 DEF AcquirePermit
    <2> QED
      BY <2>1, <2>2 DEF Moves, WaitsFresh, Fresher
  <1>15. ASSUME NEW w \in Workers, PermitBusy(w) PROVE WaitsFresh'
    <2>1. \E t \in Stages \ {"waiting"}, a \in (Answers \ {"snapshot"}) \cup {worker[w].ans} :
             Moves(w, t, a)
      BY <1>15, StepMoves, SucceedMoves, FailMoves, JudgeMoves DEF PermitBusy, TypeOK,
         Stages, Answers, StoredVerdict
    <2>2. build' = build
      BY <1>15 DEF PermitBusy
    <2> QED
      BY <2>1, <2>2 DEF Moves, WaitsFresh, Fresher
  <1>16. ASSUME NEW w \in Workers, JoinBuild(w) PROVE WaitsFresh'
    <2>1. /\ \A v \in Workers \ {w} : worker'[v] = worker[v]
          /\ build'.gen >= build.gen /\ build'.gen \in Nat /\ build.gen \in Nat
          /\ worker'[w].gen = build'.gen /\ worker'[w].gen > worker'[w].since
      BY <1>16, JoinMoves DEF TypeOK, BuildOK
    <2>2. \A v \in Workers : worker[v].gen \in Nat
      BY DEF TypeOK, WorkersOK, WorkerStates
    <2> QED
      BY <2>1, <2>2 DEF WaitsFresh, Fresher
  <1>17. ASSUME NEW w \in Workers, WaiterWakes(w) PROVE WaitsFresh'
    <2>1. build' = build /\ worker[w].st = "waiting" /\ worker[w].gen > worker[w].since
          /\ worker[w].gen <= build.gen
      BY <1>17 DEF WaiterWakes, WaitsFresh, Fresher
    <2>2. CASE worker' = [worker EXCEPT ![w].gen = build.gen]
      <3>1. worker[w].gen \in Nat /\ worker[w].since \in Nat /\ build.gen \in Nat
        BY DEF TypeOK, WorkersOK, WorkerStates, BuildOK
      <3>2. /\ \A v \in Workers \ {w} : worker'[v] = worker[v]
            /\ worker'[w].gen = build.gen /\ worker'[w].since = worker[w].since
        BY <2>1, <2>2, FollowMoves
      <3> QED
        BY <2>1, <3>1, <3>2 DEF WaitsFresh, Fresher
    <2>3. CASE Judge(w, build.outcome, "snapshot")
      <3>1. \E t \in {"answer", "rejecting", "failing"}, a \in {"snapshot", "error"} : Moves(w, t, a)
        BY <2>1, <2>3, JudgeMoves DEF TypeOK, Answers
      <3> QED
        BY <2>1, <3>1 DEF Moves, WaitsFresh, Fresher
    <2> QED
      BY <1>17, <2>2, <2>3 DEF WaiterWakes
  <1>18. ASSUME NEW w \in Workers, WaiterTimesOut(w) PROVE WaitsFresh'
    <2>1. \E t \in Stages \ {"waiting"}, a \in (Answers \ {"snapshot"}) \cup {worker[w].ans} :
             Moves(w, t, a)
      BY <1>18, StepMoves, SucceedMoves, FailMoves, JudgeMoves DEF WaiterTimesOut, TypeOK,
         Stages, Answers, StoredVerdict
    <2>2. build' = build
      BY <1>18 DEF WaiterTimesOut
    <2> QED
      BY <2>1, <2>2 DEF Moves, WaitsFresh, Fresher
  <1>19. ASSUME NEW w \in Workers, NEW user \in Users, NEW marker \in Markers,
                NEW policy \in Policies, Admit(w, user, marker, policy)
         PROVE  WaitsFresh'
    <2>1. /\ \A v \in Workers \ {w} : worker'[v] = worker[v]
          /\ worker'[w].st # "waiting" /\ worker'[w].ans = worker[w].ans
          /\ worker'[w].gen = worker[w].gen /\ worker'[w].since = worker[w].since
      BY <1>19, AdmitMoves
    <2>2. build' = build
      BY <1>19 DEF Admit
    <2> QED
      BY <2>1, <2>2 DEF WaitsFresh, Fresher
  <1>20. ASSUME NEW w \in Workers, NEW verdict \in {"ok", "unavailable"},
                ReadAtOnce(w, verdict)
         PROVE  WaitsFresh'
    <2>1. \E t \in Stages \ {"waiting"}, a \in (Answers \ {"snapshot"}) \cup {worker[w].ans} :
             Moves(w, t, a)
      BY <1>20, StepMoves, SucceedMoves, FailMoves, JudgeMoves DEF ReadAtOnce, Asks,
         TypeOK, Stages, Answers, StoredVerdict
    <2>2. build' = build
      BY <1>20 DEF ReadAtOnce
    <2> QED
      BY <2>1, <2>2 DEF Moves, WaitsFresh, Fresher
  <1>21. ASSUME NEW w \in Workers, NEW forced \in BOOLEAN,
                NEW verdict \in {"ok", "unavailable"}, LadderRead(w, forced, verdict)
         PROVE  WaitsFresh'
    <2>1. \E t \in Stages \ {"waiting"}, a \in (Answers \ {"snapshot"}) \cup {worker[w].ans} :
             Moves(w, t, a)
      BY <1>21, StepMoves, SucceedMoves, FailMoves, JudgeMoves DEF LadderRead, Asks,
         TypeOK, Stages, Answers, StoredVerdict
    <2>2. build' = build
      BY <1>21 DEF LadderRead
    <2> QED
      BY <2>1, <2>2 DEF Moves, WaitsFresh, Fresher
  <1>22. ASSUME NEW w \in Workers, NEW child \in Children, ManagerEnds(w, child)
         PROVE  WaitsFresh'
    <2>1. \E t \in Stages \ {"waiting"}, a \in (Answers \ {"snapshot"}) \cup {worker[w].ans} :
             Moves(w, t, a)
      BY <1>22, StepMoves, SucceedMoves, FailMoves, JudgeMoves DEF ManagerEnds, TypeOK,
         Stages, Answers, StoredVerdict
    <2>2. build' = build
      BY <1>22 DEF ManagerEnds
    <2> QED
      BY <2>1, <2>2 DEF Moves, WaitsFresh, Fresher
  <1>23. ASSUME NEW w \in Workers,
                NEW p \in UNION {Posted[policy] : policy \in DOMAIN Posted},
                NEW outcome \in {"queued", "replayed", "full"}, Mutate(w, p, outcome)
         PROVE  WaitsFresh'
    <2>1. \E t \in Stages \ {"waiting"}, a \in (Answers \ {"snapshot"}) \cup {worker[w].ans} :
             Moves(w, t, a)
      BY <1>23, MutateMoves DEF Mutate, TypeOK, Stages, Answers, StoredVerdict
    <2>2. build' = build
      BY <1>23 DEF Mutate
    <2> QED
      BY <2>1, <2>2 DEF Moves, WaitsFresh, Fresher
  <1>24. ASSUME NEW w \in Workers, NEW yes \in BOOLEAN, NEW over \in BOOLEAN,
                Wake(w, yes, over)
         PROVE  WaitsFresh'
    <2>1. \E t \in Stages \ {"waiting"}, a \in (Answers \ {"snapshot"}) \cup {worker[w].ans} :
             Moves(w, t, a)
      BY <1>24, StepMoves, SucceedMoves, FailMoves, JudgeMoves DEF Wake, Ready, TypeOK,
         Stages, Answers, StoredVerdict
    <2>2. build' = build
      BY <1>24 DEF Wake
    <2> QED
      BY <2>1, <2>2 DEF Moves, WaitsFresh, Fresher
  <1>25. ASSUME NEW w \in Workers, NEW yes \in BOOLEAN, NEW over \in BOOLEAN,
                RecordRejectedPost(w, yes, over)
         PROVE  WaitsFresh'
    <2>1. \E t \in Stages \ {"waiting"}, a \in (Answers \ {"snapshot"}) \cup {worker[w].ans} :
             Moves(w, t, a)
      BY <1>25, StepMoves, SucceedMoves, FailMoves, JudgeMoves DEF RecordRejectedPost,
         Ready, TypeOK, Stages, Answers, StoredVerdict
    <2>2. build' = build
      BY <1>25 DEF RecordRejectedPost
    <2> QED
      BY <2>1, <2>2 DEF Moves, WaitsFresh, Fresher
  <1>26. ASSUME NEW w \in Workers, NEW over \in BOOLEAN, TallyFailure(w, over)
         PROVE  WaitsFresh'
    <2>1. \E t \in Stages \ {"waiting"}, a \in (Answers \ {"snapshot"}) \cup {worker[w].ans} :
             Moves(w, t, a)
      BY <1>26, StepMoves, SucceedMoves, FailMoves, JudgeMoves DEF TallyFailure, Ready,
         TypeOK, Stages, Answers, StoredVerdict
    <2>2. build' = build
      BY <1>26 DEF TallyFailure
    <2> QED
      BY <2>1, <2>2 DEF Moves, WaitsFresh, Fresher
  <1>27. ASSUME NEW w \in Workers, NEW over \in BOOLEAN, Answer(w, over) PROVE WaitsFresh'
    <2>1. build' = build /\ worker' = [worker EXCEPT ![w] = Free]
      BY <1>27 DEF Answer
    <2>2. /\ \A v \in Workers \ {w} : worker'[v] = worker[v]
          /\ worker'[w].st # "waiting" /\ worker'[w].ans # "snapshot"
      BY <2>1, AnswerMoves
    <2> QED
      BY <2>2, <2>1 DEF WaitsFresh, Fresher
  <1>28. ASSUME NEW w \in Workers, NEW threshold \in {"info", "off"}, NEW made \in BOOLEAN,
                NEW confirmed \in BOOLEAN, RecordFailure(w, threshold, made, confirmed)
         PROVE  WaitsFresh'
    BY <1>28 DEF RecordFailure, WaitsFresh, Fresher
  <1>29. ASSUME NEW j \in jobs, NEW found \in ReadBack \cup {stored}, Consume(j, found)
         PROVE  WaitsFresh'
    BY <1>29 DEF Consume, WaitsFresh, Fresher
  <1>30. ASSUME UNCHANGED vars PROVE WaitsFresh'
    BY <1>30 DEF vars, bridge, WaitsFresh, Fresher
  <1> QED
    BY <1>1, <1>2, <1>3, <1>4, <1>5, <1>6, <1>7, <1>8, <1>9, <1>10, <1>11, <1>12, <1>13,
       <1>14, <1>15, <1>16, <1>17, <1>18, <1>19, <1>20, <1>21, <1>22, <1>23, <1>24, <1>25,
       <1>26, <1>27, <1>28, <1>29, <1>30
    DEF Next, WorkerStep, BuilderStep, AcceptStep

(***************************************************************************)
(* What is accepted.                                                       *)
(***************************************************************************)
(* A document that was parsed is still one the consumer parses when its    *)
(* secrets were taken out of it.                                           *)
(* A document that was parsed is still one the consumer parses when its    *)
(* secrets were taken out of it.                                           *)
LEMMA ParsedReadable ==
    ASSUME NEW d \in Documents, parse_mutation_request(d) = "ok"
    PROVE  parse_job(canonical_job_bytes(d)) = "ok"
  <1> DEFINE j == canonical_job_bytes(d)
  <1>1. /\ j.op = d.op /\ j.kind = d.kind /\ j.bounded = d.bounded
        /\ j.has = d.has \ SecretValues
    BY DocumentsAssumption DEF canonical_job_bytes
  <1> HIDE DEF j
  <1>2. /\ d.op \in Operations /\ FieldsKnown(d)
        /\ CASE d.op \in ConnectionOperations -> parse_connection_request(d)
             [] d.op = "set-secret"           -> SetSecretValid(d)
             [] OTHER                         -> ArgumentsValid(d)
    BY DEF parse_mutation_request, Require
  <1>3. FieldsKnown(j)
    BY <1>1, <1>2 DEF FieldsKnown
  <1>4. ArgumentsValid(j)
    <2>1. CASE d.op \in ConnectionOperations
      <3>1. /\ validate_connection_job(d)
            /\ d.op \notin {"configure-profile", "routine", "action", "client-event", "clear-logs"}
        BY <1>2, <2>1 DEF parse_connection_request, ConnectionOperations
      <3>2. validate_connection_job(j)
        BY <1>1, <3>1 DEF validate_connection_job, UrlAllowed, SecretValues
      <3> QED
        BY <1>1, <2>1, <3>1, <3>2 DEF ArgumentsValid
    <2>2. CASE d.op = "set-secret"
      <3>1. d.bounded
        BY <1>2, <2>2 DEF SetSecretValid, ConnectionOperations
      <3> QED
        BY <1>1, <2>2, <3>1 DEF ArgumentsValid, ConnectionOperations
    <2>3. CASE d.op \notin ConnectionOperations /\ d.op # "set-secret"
      <3>1. ArgumentsValid(d)
        BY <1>2, <2>3
      <3>2. validate_configure_profile(d) => validate_configure_profile(j)
        BY <1>1 DEF validate_configure_profile, UrlAllowed, SecretValues
      <3>3. validate_routine(d) => validate_routine(j)
        BY <1>1 DEF validate_routine, RoutineFields, SecretValues
      <3>4. validate_operational_action(d) => validate_operational_action(j)
        BY <1>1 DEF validate_operational_action, SecretValues
      <3> QED
        BY <1>1, <2>3, <3>1, <3>2, <3>3, <3>4 DEF ArgumentsValid
    <2> QED
      BY <2>1, <2>2, <2>3
  <1> QED
    BY <1>1, <1>2, <1>3, <1>4 DEF parse_job, Require, j

(* The two secrets of a connection come out of their envelope as they went *)
(* in; no other can be among its fields.                                   *)
LEMMA SecretsKept ==
    ASSUME NEW d \in Documents, parse_mutation_request(d) = "ok",
           d.op \in ConnectionOperations
    PROVE  decode_connection_secret_envelope(encode_connection_secret_envelope(secret_of(d)))
             = secret_of(d)
  <1>1. secret_of(d) \subseteq {"password_value", "totp_value"}
    <2>1. /\ FieldsKnown(d) /\ parse_connection_request(d)
          /\ d.op # "configure-profile"
      BY DEF parse_mutation_request, Require, ConnectionOperations
    <2>2. d.has \cap SecretValues \subseteq {"password_value", "totp_value", "totp_unusable"}
      <3>1. FieldsOf(d.op) = {"allow_http", "invalid_certs", "password_value",
                              "totp_value", "totp_unusable"}
        BY <2>1 DEF FieldsOf, ConnectionOperations
      <3> QED
        BY <2>1, <3>1 DEF FieldsKnown, SecretValues
    <2> QED
      BY <2>1, <2>2 DEF secret_of, parse_connection_request
  <1> DEFINE s == secret_of(d)
             e == << "password_value" \in s, "totp_value" \in s >>
  <1> HIDE DEF s
  <1>2. CASE s = {}
    BY <1>2 DEF encode_connection_secret_envelope, decode_connection_secret_envelope, s
  <1>3. CASE s # {}
    <2>1. encode_connection_secret_envelope(s) = e
      BY <1>1, <1>3 DEF encode_connection_secret_envelope, s
    <2>2. e # <<>> /\ (e[1] <=> "password_value" \in s) /\ (e[2] <=> "totp_value" \in s)
      OBVIOUS
    <2> HIDE DEF e
    <2>3. decode_connection_secret_envelope(e) = s
      BY <1>1, <2>2 DEF decode_connection_secret_envelope, s
    <2> QED
      BY <2>1, <2>3 DEF s
  <1> QED
    BY <1>2, <1>3

(* What the manager is asked to do that the policy may forbid is what the  *)
(* policy was asked about (dsm_api.rs, the switches of a mutation).        *)
LEMMA ExercisedAsked ==
    ASSUME NEW d, FieldsKnown(d), d.op # "security-policy"
    PROVE  Exercised(d) \subseteq SwitchesAsked(d)
  <1> DEFINE SwitchFor ==
               [allow_http |-> "http_targets", invalid_certs |-> "invalid_tls",
                delete |-> "destructive_sync", allow_delete |-> "destructive_sync",
                remote_log_url |-> "remote_logging", remote_log_token |-> "remote_logging",
                allow_empty_source |-> "empty_source", write_test |-> "doctor_write_test"]
             Args == mutation_manager_arguments(d) \cap Governed
  <1>1. DOMAIN SwitchFor = Governed
    BY DEF Governed
  <1>2. Exercised(d) = {SwitchFor[a] : a \in Args}
    BY <1>1 DEF Exercised
  <1>3. Args \subseteq d.has \cap FieldsOf(d.op)
    <2>1. Args \subseteq d.has
      BY DEF mutation_manager_arguments, DoctorLevel, Governed
    <2> QED
      BY <2>1 DEF FieldsKnown
  <1>4. ASSUME NEW a \in Args PROVE SwitchFor[a] \in SwitchesAsked(d)
    <2>1. a \in d.has /\ a \in FieldsOf(d.op) /\ a \in Governed
      BY <1>3
    <2>2. CASE d.op = "configure-profile"
      BY <2>1, <2>2 DEF FieldsOf, SwitchesAsked, Governed
    <2>3. CASE d.op \in ConnectionOperations
      BY <2>1, <2>3 DEF FieldsOf, SwitchesAsked, Governed, ConnectionOperations
    <2>4. CASE d.op = "set-secret"
      <3>1. a = "remote_log_token"
        BY <2>1, <2>4 DEF FieldsOf, Governed, ConnectionOperations
      <3>2. d.kind # "clear"
        BY <2>4 DEF mutation_manager_arguments, ConnectionOperations
      <3> QED
        BY <2>1, <2>4, <3>1, <3>2 DEF SwitchesAsked, ConnectionOperations
    <2>5. CASE d.op \in {"schedule", "routine"}
      BY <2>1, <2>5 DEF FieldsOf, SwitchesAsked, Governed, ConnectionOperations
    <2>6. CASE d.op = "action"
      BY <2>1, <2>6 DEF FieldsOf, SwitchesAsked, Governed, ConnectionOperations
    <2>7. CASE /\ d.op \notin ConnectionOperations
               /\ d.op \notin {"configure-profile", "set-secret", "schedule", "routine", "action"}
      BY <2>1, <2>7 DEF FieldsOf
    <2> QED
      BY <2>2, <2>3, <2>4, <2>5, <2>6, <2>7
  <1> HIDE DEF SwitchFor, Args
  <1> QED
    BY <1>2, <1>4

(* A post that passes every check is stored as a job that the consumer     *)
(* reads, with the secrets that came and nothing beyond the policy.        *)
LEMMA PostedSound ==
    ASSUME NEW policy \in DOMAIN Posted, NEW p \in Posted[policy], p.verdict = "ok"
    PROVE  p.job.readable /\ p.job.secrets /\ p.job.within
  <1>1. PICK token \in Tokens, d \in Documents :
           p = [verdict |-> MutationVerdict(policy, token, d),
                job |-> IF MutationVerdict(policy, token, d) = "ok" THEN AsJob(d, policy) ELSE NoJob]
    BY DEF Posted
  <1>2. MutationVerdict(policy, token, d) = "ok" /\ p.job = AsJob(d, policy)
    BY <1>1
  <1>3. /\ parse_mutation_request(d) = "ok"
        /\ validate_mutation_against_security_policy(d, policy.on) = "ok"
    BY <1>2 DEF MutationVerdict, Then
  <1>4. FieldsKnown(d)
    BY <1>3 DEF parse_mutation_request, Require
  <1>5. d.op = "security-policy" \/ SwitchesAsked(d) \subseteq policy.on
    BY <1>3 DEF validate_mutation_against_security_policy, Require
  <1>6. d.op = "security-policy" \/ Exercised(d) \subseteq policy.on
    BY <1>4, <1>5, ExercisedAsked
  <1>7. /\ parse_job(canonical_job_bytes(d)) = "ok"
        /\ d.op \in ConnectionOperations =>
             decode_connection_secret_envelope(encode_connection_secret_envelope(secret_of(d)))
                = secret_of(d)
    BY <1>3, ParsedReadable, SecretsKept
  <1>8. /\ AsJob(d, policy).readable /\ AsJob(d, policy).within /\ AsJob(d, policy).secrets
    BY <1>6, <1>7 DEF AsJob
  <1> QED
    BY <1>2, <1>8

(* Whatever response is stored is one that can be read back.               *)
LEMMA StoredReadable == ReadBack \subseteq {"readable"}
  <1> DEFINE answer(op, completed, result) ==
               canonical_queued_response_bytes(op, Now, completed, result, FALSE)
  <1>1. ASSUME NEW op \in Operations, NEW completed \in {Now - 1, Now}, NEW result \in Results,
               answer(op, completed, result).ok
        PROVE  parse_queued_response(answer(op, completed, result)) = "ok"
    <2> DEFINE s == answer(op, completed, result)
               r == [ok |-> TRUE, op |-> op, issued |-> Now, completed |-> completed,
                     result |-> result, pending |-> FALSE,
                     terminal |-> IF result = "failed" THEN "failed" ELSE "succeeded"]
    <2>1. CASE completed < Now \/ parse_manager_result_for_operation(result, op) # "ok"
      BY <1>1, <2>1 DEF canonical_queued_response_bytes
    <2>2. CASE ~(completed < Now \/ parse_manager_result_for_operation(result, op) # "ok")
      <3>1. s = r
        BY <2>2 DEF canonical_queued_response_bytes
      <3>2. completed >= Now
        BY <2>2 DEF Now
      <3>3. parse_queued_response(r) = "ok"
        BY <2>2, <3>2 DEF parse_queued_response, Require
      <3> HIDE DEF r
      <3> QED
        BY <3>1, <3>3
    <2> QED
      BY <2>1, <2>2
  <1> HIDE DEF answer
  <1> DEFINE responses == {answer(op, completed, result) :
                             op \in Operations, completed \in {Now - 1, Now}, result \in Results}
  <1>2. ASSUME NEW s \in responses, s.ok PROVE parse_queued_response(s) = "ok"
    <2>1. PICK op \in Operations, completed \in {Now - 1, Now}, result \in Results :
             s = answer(op, completed, result)
      OBVIOUS
    <2> QED
      BY <1>1, <1>2, <2>1
  <1>3. ReadBack = {IF parse_queued_response(s) = "ok" THEN "readable" ELSE "unreadable" :
                      s \in {x \in responses : x.ok}}
    BY DEF ReadBack, answer
  <1> HIDE DEF responses
  <1> QED
    BY <1>2, <1>3

(* A step accepts only posts that passed, and stores only what can be      *)
(* read.                                                                   *)
LEMMA AcceptedStep ==
    ASSUME AcceptedReadable, [Next]_vars
    PROVE  AcceptedReadable'
  <1>1. ASSUME NEW w \in Workers, NEW p \in UNION {Posted[policy] : policy \in DOMAIN Posted},
               NEW outcome \in {"queued", "replayed", "full"}, Mutate(w, p, outcome)
        PROVE  AcceptedReadable'
    <2>1. /\ stored' = stored
          /\ \/ jobs' = jobs
             \/ p.verdict = "ok" /\ jobs' = jobs \cup {p.job}
      <3>1. CASE p.verdict # "ok"
        BY <1>1, <3>1 DEF Mutate
      <3>2. CASE p.verdict = "ok" /\ outcome = "full"
        BY <1>1, <3>2 DEF Mutate
      <3>3. CASE p.verdict = "ok" /\ outcome = "replayed"
        BY <1>1, <3>3 DEF Mutate
      <3>4. CASE p.verdict = "ok" /\ outcome = "queued"
        BY <1>1, <3>4 DEF Mutate
      <3> QED
        BY <3>1, <3>2, <3>3, <3>4
    <2>2. p.verdict = "ok" => p.job.readable /\ p.job.secrets /\ p.job.within
      BY PostedSound
    <2> QED
      BY <2>1, <2>2 DEF AcceptedReadable
  <1>2. ASSUME NEW j \in jobs, NEW found \in ReadBack \cup {stored}, Consume(j, found)
        PROVE  AcceptedReadable'
    BY <1>2, StoredReadable DEF Consume, AcceptedReadable
  <1>3. ASSUME jobs' = jobs, stored' = stored PROVE AcceptedReadable'
    BY <1>3 DEF AcceptedReadable
  <1>4. ASSUME NEW i \in Starts, LifecycleStep(i) /\ UNCHANGED bridge
        PROVE  AcceptedReadable'
    BY <1>4, <1>3 DEF bridge
  <1>5. ASSUME NEW i \in Starts, ServiceDies(i) PROVE AcceptedReadable'
    BY <1>5, <1>3 DEF ServiceDies
  <1>6. ASSUME NEW r \in Cgis, Connect(r) PROVE AcceptedReadable'
    BY <1>6, <1>3 DEF Connect
  <1>7. ASSUME NEW r \in Cgis, ConnectWindowEnds(r) PROVE AcceptedReadable'
    BY <1>7, <1>3 DEF ConnectWindowEnds
  <1>8. ASSUME NEW r \in Cgis, CgiGivesUp(r) PROVE AcceptedReadable'
    BY <1>8, <1>3 DEF CgiGivesUp
  <1>9. ASSUME NEW r \in Cgis, NEW c \in Checked, CgiStart(r, c) PROVE AcceptedReadable'
    BY <1>9, <1>3 DEF CgiStart
  <1>10. ASSUME NEW r \in Cgis, NEW over \in BOOLEAN, NEW recorded \in BOOLEAN,
                Accept(r, over, recorded)
         PROVE  AcceptedReadable'
    BY <1>10, <1>3 DEF Accept
  <1>11. ASSUME BuilderAcquires PROVE AcceptedReadable'
    BY <1>11, <1>3 DEF BuilderAcquires
  <1>12. ASSUME BuilderBusy PROVE AcceptedReadable'
    BY <1>12, <1>3 DEF BuilderBusy
  <1>13. ASSUME NEW child \in Children, BuilderEnds(child) PROVE AcceptedReadable'
    BY <1>13, <1>3 DEF BuilderEnds
  <1>14. ASSUME NEW w \in Workers, NEW frame \in {{}, {"short_header"}, {"short_payload"}},
                Take(w, frame)
         PROVE  AcceptedReadable'
    BY <1>14, <1>3 DEF Take
  <1>15. ASSUME NEW w \in Workers, ReadResult(w) PROVE AcceptedReadable'
    BY <1>15, <1>3 DEF ReadResult
  <1>16. ASSUME NEW w \in Workers, PollEnds(w) PROVE AcceptedReadable'
    BY <1>16, <1>3 DEF PollEnds
  <1>17. ASSUME NEW w \in Workers, AcquirePermit(w) PROVE AcceptedReadable'
    BY <1>17, <1>3 DEF AcquirePermit
  <1>18. ASSUME NEW w \in Workers, PermitBusy(w) PROVE AcceptedReadable'
    BY <1>18, <1>3 DEF PermitBusy
  <1>19. ASSUME NEW w \in Workers, JoinBuild(w) PROVE AcceptedReadable'
    BY <1>19, <1>3 DEF JoinBuild
  <1>20. ASSUME NEW w \in Workers, WaiterWakes(w) PROVE AcceptedReadable'
    BY <1>20, <1>3 DEF WaiterWakes
  <1>21. ASSUME NEW w \in Workers, WaiterTimesOut(w) PROVE AcceptedReadable'
    BY <1>21, <1>3 DEF WaiterTimesOut
  <1>22. ASSUME NEW w \in Workers, NEW user \in Users, NEW marker \in Markers,
                NEW policy \in Policies, Admit(w, user, marker, policy)
         PROVE  AcceptedReadable'
    BY <1>22, <1>3 DEF Admit
  <1>23. ASSUME NEW w \in Workers, NEW verdict \in {"ok", "unavailable"},
                ReadAtOnce(w, verdict)
         PROVE  AcceptedReadable'
    BY <1>23, <1>3 DEF ReadAtOnce
  <1>24. ASSUME NEW w \in Workers, NEW forced \in BOOLEAN,
                NEW verdict \in {"ok", "unavailable"}, LadderRead(w, forced, verdict)
         PROVE  AcceptedReadable'
    BY <1>24, <1>3 DEF LadderRead
  <1>25. ASSUME NEW w \in Workers, NEW child \in Children, ManagerEnds(w, child)
         PROVE  AcceptedReadable'
    BY <1>25, <1>3 DEF ManagerEnds
  <1>26. ASSUME NEW w \in Workers, NEW yes \in BOOLEAN, NEW over \in BOOLEAN,
                Wake(w, yes, over)
         PROVE  AcceptedReadable'
    BY <1>26, <1>3 DEF Wake
  <1>27. ASSUME NEW w \in Workers, NEW yes \in BOOLEAN, NEW over \in BOOLEAN,
                RecordRejectedPost(w, yes, over)
         PROVE  AcceptedReadable'
    BY <1>27, <1>3 DEF RecordRejectedPost
  <1>28. ASSUME NEW w \in Workers, NEW over \in BOOLEAN, TallyFailure(w, over)
         PROVE  AcceptedReadable'
    BY <1>28, <1>3 DEF TallyFailure
  <1>29. ASSUME NEW w \in Workers, NEW over \in BOOLEAN, Answer(w, over)
         PROVE  AcceptedReadable'
    BY <1>29, <1>3 DEF Answer
  <1>30. ASSUME NEW w \in Workers, NEW threshold \in {"info", "off"}, NEW made \in BOOLEAN,
                NEW confirmed \in BOOLEAN, RecordFailure(w, threshold, made, confirmed)
         PROVE  AcceptedReadable'
    BY <1>30, <1>3 DEF RecordFailure
  <1>31. ASSUME UNCHANGED vars PROVE AcceptedReadable'
    BY <1>31, <1>3 DEF vars, bridge
  <1> QED
    BY <1>1, <1>2, <1>4, <1>5, <1>6, <1>7, <1>8, <1>9, <1>10, <1>11, <1>12, <1>13, <1>14,
       <1>15, <1>16, <1>17, <1>18, <1>19, <1>20, <1>21, <1>22, <1>23, <1>24, <1>25, <1>26,
       <1>27, <1>28, <1>29, <1>30, <1>31
    DEF Next, WorkerStep, BuilderStep, AcceptStep

(***************************************************************************)
(* One listener.                                                           *)
(***************************************************************************)
Phases == {"none", "cleanup", "sweeping", "over"} \cup Attached \cup Detached
Someone == 0..MaxStarts

ServiceTypeOK ==
    /\ phase \in [Starts -> Phases]
    /\ parent \in [Starts -> {"none", "live", "dead"}]
    /\ files \in [pid : Someone, bound : Someone, ready : Someone]
    /\ sock \in [by : Someone, open : BOOLEAN]

(* Starts are made one after the other, each by a parent that lives until  *)
(* the service is detached from it; a later one waits until it has ended.  *)
OneParent ==
    /\ \A i \in Starts : phase[i] = "none" => parent[i] = "none"
    /\ \A i \in Starts : phase[i] \in Attached \cup {"cleanup", "sweeping"} => parent[i] = "live"
    /\ \A i, k \in Starts : i < k /\ (parent[i] = "live" \/ phase[i] = "none") => phase[k] = "none"

Holding == {"pid", "bound", "announced", "cleared", "ready", "open"}
Bound == Holding \ {"pid"}

(* The pid file is a lock, held from the moment it is published; the path  *)
(* of the socket and the ready marker belong to who holds it.              *)
PidIsLock ==
    /\ \A i \in Starts : phase[i] \in Holding => files.pid = i
    /\ \A i \in Starts : phase[i] \in Bound => sock.by = i
    /\ \A i \in Starts : phase[i] = "open" => sock.open
    /\ \A i \in Starts : phase[i] \in {"ready", "open"} => files.ready = i

(* A cleanup that is under way has removed the socket, and nobody holds    *)
(* the lock it is about to remove.                                         *)
SweepSafe ==
    \A i \in Starts : phase[i] = "sweeping" =>
        sock.by = 0 /\ \A j \in Starts : phase[j] \notin Holding

(* A socket nobody can connect to has the pid of its owner beside it: that *)
(* is what lets a later start tell that it is stale.                       *)
SocketHasPid ==
    /\ sock.by # 0 /\ ~sock.open => files.pid = sock.by
    /\ \A i \in Starts : phase[i] = "unwinding" => sock.by # i

ServiceInv ==
    /\ ServiceTypeOK /\ OneParent /\ PidIsLock /\ SweepSafe /\ SocketHasPid

(* What a step of the bridge may do to the service's lifecycle.            *)
ServiceMoves == (\E i \in Starts : LifecycleStep(i) \/ Kill(i)) \/ UNCHANGED service

(* A step of the bridge moves one start of the service, or leaves the      *)
(* service alone.                                                          *)
LEMMA StepMovesService == [Next]_vars => ServiceMoves
  <1> SUFFICES ASSUME [Next]_vars PROVE ServiceMoves
    OBVIOUS
  <1>1. ASSUME NEW i \in Starts, LifecycleStep(i) /\ UNCHANGED bridge PROVE ServiceMoves
    BY <1>1 DEF ServiceMoves
  <1>2. ASSUME NEW i \in Starts, ServiceDies(i) PROVE ServiceMoves
    BY <1>2 DEF ServiceDies, ServiceMoves
  <1>3. ASSUME NEW r \in Cgis, Connect(r) PROVE ServiceMoves
    BY <1>3 DEF Connect, ServiceMoves
  <1>4. ASSUME NEW r \in Cgis, ConnectWindowEnds(r) PROVE ServiceMoves
    BY <1>4 DEF ConnectWindowEnds, ServiceMoves
  <1>5. ASSUME NEW r \in Cgis, CgiGivesUp(r) PROVE ServiceMoves
    BY <1>5 DEF CgiGivesUp, ServiceMoves
  <1>6. ASSUME NEW r \in Cgis, NEW c \in Checked, CgiStart(r, c) PROVE ServiceMoves
    BY <1>6 DEF CgiStart, ServiceMoves
  <1>7. ASSUME NEW r \in Cgis, NEW over \in BOOLEAN, NEW recorded \in BOOLEAN,
               Accept(r, over, recorded)
        PROVE  ServiceMoves
    BY <1>7 DEF Accept, ServiceMoves
  <1>8. ASSUME BuilderAcquires PROVE ServiceMoves
    BY <1>8 DEF BuilderAcquires, ServiceMoves
  <1>9. ASSUME BuilderBusy PROVE ServiceMoves
    BY <1>9 DEF BuilderBusy, ServiceMoves
  <1>10. ASSUME NEW child \in Children, BuilderEnds(child) PROVE ServiceMoves
    BY <1>10 DEF BuilderEnds, ServiceMoves
  <1>11. ASSUME NEW w \in Workers, NEW frame \in {{}, {"short_header"}, {"short_payload"}},
                Take(w, frame)
         PROVE  ServiceMoves
    BY <1>11 DEF Take, ServiceMoves
  <1>12. ASSUME NEW w \in Workers, ReadResult(w) PROVE ServiceMoves
    BY <1>12 DEF ReadResult, ServiceMoves
  <1>13. ASSUME NEW w \in Workers, PollEnds(w) PROVE ServiceMoves
    BY <1>13 DEF PollEnds, ServiceMoves
  <1>14. ASSUME NEW w \in Workers, AcquirePermit(w) PROVE ServiceMoves
    BY <1>14 DEF AcquirePermit, ServiceMoves
  <1>15. ASSUME NEW w \in Workers, PermitBusy(w) PROVE ServiceMoves
    BY <1>15 DEF PermitBusy, ServiceMoves
  <1>16. ASSUME NEW w \in Workers, JoinBuild(w) PROVE ServiceMoves
    BY <1>16 DEF JoinBuild, ServiceMoves
  <1>17. ASSUME NEW w \in Workers, WaiterWakes(w) PROVE ServiceMoves
    BY <1>17 DEF WaiterWakes, ServiceMoves
  <1>18. ASSUME NEW w \in Workers, WaiterTimesOut(w) PROVE ServiceMoves
    BY <1>18 DEF WaiterTimesOut, ServiceMoves
  <1>19. ASSUME NEW w \in Workers, NEW user \in Users, NEW marker \in Markers,
                NEW policy \in Policies, Admit(w, user, marker, policy)
         PROVE  ServiceMoves
    BY <1>19 DEF Admit, ServiceMoves
  <1>20. ASSUME NEW w \in Workers, NEW verdict \in {"ok", "unavailable"},
                ReadAtOnce(w, verdict)
         PROVE  ServiceMoves
    BY <1>20 DEF ReadAtOnce, ServiceMoves
  <1>21. ASSUME NEW w \in Workers, NEW forced \in BOOLEAN,
                NEW verdict \in {"ok", "unavailable"}, LadderRead(w, forced, verdict)
         PROVE  ServiceMoves
    BY <1>21 DEF LadderRead, ServiceMoves
  <1>22. ASSUME NEW w \in Workers, NEW child \in Children, ManagerEnds(w, child)
         PROVE  ServiceMoves
    BY <1>22 DEF ManagerEnds, ServiceMoves
  <1>23. ASSUME NEW w \in Workers,
                NEW p \in UNION {Posted[policy] : policy \in DOMAIN Posted},
                NEW outcome \in {"queued", "replayed", "full"}, Mutate(w, p, outcome)
         PROVE  ServiceMoves
    BY <1>23 DEF Mutate, ServiceMoves
  <1>24. ASSUME NEW w \in Workers, NEW yes \in BOOLEAN, NEW over \in BOOLEAN,
                Wake(w, yes, over)
         PROVE  ServiceMoves
    BY <1>24 DEF Wake, ServiceMoves
  <1>25. ASSUME NEW w \in Workers, NEW yes \in BOOLEAN, NEW over \in BOOLEAN,
                RecordRejectedPost(w, yes, over)
         PROVE  ServiceMoves
    BY <1>25 DEF RecordRejectedPost, ServiceMoves
  <1>26. ASSUME NEW w \in Workers, NEW over \in BOOLEAN, TallyFailure(w, over)
         PROVE  ServiceMoves
    BY <1>26 DEF TallyFailure, ServiceMoves
  <1>27. ASSUME NEW w \in Workers, NEW over \in BOOLEAN, Answer(w, over) PROVE ServiceMoves
    BY <1>27 DEF Answer, ServiceMoves
  <1>28. ASSUME NEW w \in Workers, NEW threshold \in {"info", "off"}, NEW made \in BOOLEAN,
                NEW confirmed \in BOOLEAN, RecordFailure(w, threshold, made, confirmed)
         PROVE  ServiceMoves
    BY <1>28 DEF RecordFailure, ServiceMoves
  <1>29. ASSUME NEW j \in jobs, NEW found \in ReadBack \cup {stored}, Consume(j, found)
         PROVE  ServiceMoves
    BY <1>29 DEF Consume, ServiceMoves
  <1>30. ASSUME UNCHANGED vars PROVE ServiceMoves
    BY <1>30 DEF vars, ServiceMoves
  <1> QED
    BY <1>1, <1>2, <1>3, <1>4, <1>5, <1>6, <1>7, <1>8, <1>9, <1>10, <1>11, <1>12, <1>13,
       <1>14, <1>15, <1>16, <1>17, <1>18, <1>19, <1>20, <1>21, <1>22, <1>23, <1>24, <1>25,
       <1>26, <1>27, <1>28, <1>29, <1>30
    DEF Next, WorkerStep, BuilderStep, AcceptStep

(* Each step seen from one start at a time: the i-th goes to phase p, its  *)
(* parent to q, the others stay.                                           *)
Goes(i, p) == phase'[i] = p /\ \A j \in Starts \ {i} : phase'[j] = phase[j]
ParentGoes(i, q) == parent'[i] = q /\ \A j \in Starts \ {i} : parent'[j] = parent[j]

Begun(i) ==
    /\ phase[i] = "none" /\ Goes(i, "cleanup") /\ ParentGoes(i, "live")
    /\ \A j \in Starts : j < i => phase[j] # "none" /\ parent[j] # "live"
    /\ UNCHANGED <<files, sock>>
SocketSwept(i) ==
    /\ phase[i] = "cleanup" /\ Goes(i, "sweeping") /\ ~Alive(files.pid)
    /\ sock'.by = 0 /\ UNCHANGED <<parent, files>>
FilesSwept(i) ==
    /\ phase[i] = "sweeping" /\ Goes(i, "spawned") /\ UNCHANGED <<parent, sock>>
Refused(i) ==
    /\ phase[i] = "cleanup" /\ Goes(i, "over") /\ ParentGoes(i, "dead")
    /\ UNCHANGED <<files, sock>>
PidPublished(i) ==
    /\ phase[i] = "spawned" /\ Goes(i, "pid") /\ files.pid = 0
    /\ files'.pid = i /\ files'.ready = files.ready /\ UNCHANGED <<parent, sock>>
SocketBound(i) ==
    /\ phase[i] = "pid" /\ Goes(i, "bound")
    /\ sock.by = 0 \/ ~Alive(sock.by)
    /\ sock'.by = i /\ ~sock'.open /\ UNCHANGED <<parent, files>>
BoundPublished(i) ==
    /\ phase[i] = "bound" /\ Goes(i, "announced")
    /\ files'.pid = files.pid /\ files'.ready = files.ready /\ UNCHANGED <<parent, sock>>
Cleared(i) ==
    /\ phase[i] = "announced" /\ Goes(i, "cleared") /\ UNCHANGED <<parent, files, sock>>
ReadyPublished(i) ==
    /\ phase[i] = "cleared" /\ Goes(i, "ready")
    /\ files'.pid = files.pid /\ files'.ready = i /\ UNCHANGED <<parent, sock>>
Opened(i) ==
    /\ phase[i] = "ready" /\ Goes(i, "open") /\ ParentGoes(i, "dead")
    /\ sock'.by = i /\ sock'.open /\ UNCHANGED files
GivenUp(i) ==
    /\ phase[i] \in {"spawned"} \cup Holding /\ Goes(i, "exiting")
    /\ UNCHANGED parent \/ ParentGoes(i, "dead")
    /\ UNCHANGED <<files, sock>>
SocketUnwound(i) ==
    /\ phase[i] = "exiting" /\ Goes(i, "unwinding") /\ sock'.by # i
    /\ sock' = sock \/ (sock.by = i /\ sock'.by = 0)
    /\ UNCHANGED <<parent, files>>
FilesUnwound(i) ==
    /\ phase[i] = "unwinding" /\ Goes(i, "over")
    /\ files.pid # i => files'.pid = files.pid
    /\ files.ready # i => files'.ready = files.ready
    /\ UNCHANGED <<parent, sock>>
Killed(i) ==
    /\ phase[i] \in Attached \cup Detached /\ Goes(i, "over")
    /\ UNCHANGED <<parent, files, sock>>
Orphaned(i) ==
    /\ parent[i] = "live" /\ ParentGoes(i, "dead") /\ UNCHANGED <<files, sock>>
    /\ IF phase[i] \in Attached \cup {"cleanup", "sweeping"} THEN Goes(i, "over")
                                                              ELSE UNCHANGED phase
Undisturbed == UNCHANGED <<phase, parent, files, sock>>

(* Every step has one of these effects, and keeps the types.               *)
ServiceEffect ==
    \/ Undisturbed
    \/ \E i \in Starts : \/ Begun(i) \/ SocketSwept(i) \/ FilesSwept(i) \/ Refused(i)
                         \/ PidPublished(i) \/ SocketBound(i) \/ BoundPublished(i) \/ Cleared(i)
                         \/ ReadyPublished(i) \/ Opened(i) \/ GivenUp(i) \/ SocketUnwound(i)
                         \/ FilesUnwound(i) \/ Killed(i) \/ Orphaned(i)

(* Every step of the lifecycle is one of these effects on one start.       *)
LEMMA StepHasEffect ==
    ASSUME ServiceTypeOK, ServiceMoves
    PROVE  ServiceEffect
  <1>1. ASSUME NEW i \in Starts, BeginStart(i) PROVE Begun(i)
    BY <1>1 DEF BeginStart, To, Begun, Goes, ParentGoes, ServiceTypeOK
  <1>2. ASSUME NEW i \in Starts, CleanUpSocket(i) PROVE SocketSwept(i)
    BY <1>2 DEF CleanUpSocket, MayCleanUp, NoSocket, To, SocketSwept, Goes, ParentGoes,
       ServiceTypeOK
  <1>3. ASSUME NEW i \in Starts, CleanUpFiles(i) PROVE FilesSwept(i)
    BY <1>3 DEF CleanUpFiles, To, FilesSwept, Goes, ParentGoes, ServiceTypeOK
  <1>4. ASSUME NEW i \in Starts, CleanUpRefused(i) PROVE Refused(i)
    BY <1>4 DEF CleanUpRefused, To, Refused, Goes, ParentGoes, ServiceTypeOK
  <1>5. ASSUME NEW i \in Starts, PublishPid(i) PROVE PidPublished(i) \/ GivenUp(i)
    <2>1. CASE files.pid = 0
      BY <1>5, <2>1 DEF PublishPid, Publish, Holding, To, PidPublished, GivenUp, Goes,
         ParentGoes, ServiceTypeOK
    <2>2. CASE ~(files.pid = 0)
      BY <1>5, <2>2 DEF PublishPid, Publish, Holding, To, PidPublished, GivenUp, Goes,
         ParentGoes, ServiceTypeOK
    <2> QED
      BY <2>1, <2>2
  <1>6. ASSUME NEW i \in Starts, BindPrepared(i) PROVE SocketBound(i) \/ GivenUp(i)
    <2>1. CASE StaleSocket(FALSE)
      BY <1>6, <2>1 DEF BindPrepared, StaleSocket, Holding, To, SocketBound, GivenUp,
         Goes, ParentGoes, ServiceTypeOK
    <2>2. CASE ~(StaleSocket(FALSE))
      BY <1>6, <2>2 DEF BindPrepared, StaleSocket, Holding, To, SocketBound, GivenUp,
         Goes, ParentGoes, ServiceTypeOK
    <2> QED
      BY <2>1, <2>2
  <1>7. ASSUME NEW i \in Starts, Announce(i) PROVE BoundPublished(i) \/ GivenUp(i)
    <2>1. CASE files.bound = 0
      BY <1>7, <2>1 DEF Announce, Publish, Holding, To, BoundPublished, GivenUp, Goes,
         ParentGoes, ServiceTypeOK
    <2>2. CASE ~(files.bound = 0)
      BY <1>7, <2>2 DEF Announce, Publish, Holding, To, BoundPublished, GivenUp, Goes,
         ParentGoes, ServiceTypeOK
    <2> QED
      BY <2>1, <2>2
  <1>8. ASSUME NEW i \in Starts, CommitStart(i) PROVE Undisturbed
    BY <1>8 DEF CommitStart, To, Undisturbed, Goes, ParentGoes, ServiceTypeOK
  <1>9. ASSUME NEW i \in Starts, ClearDeathSignal(i) PROVE Cleared(i)
    BY <1>9 DEF ClearDeathSignal, To, Cleared, Goes, ParentGoes, ServiceTypeOK
  <1>10. ASSUME NEW i \in Starts, BecomeReady(i) PROVE ReadyPublished(i) \/ GivenUp(i)
    <2>1. CASE Committed(i) /\ files.ready = 0
      BY <1>10, <2>1 DEF BecomeReady, Holding, To, ReadyPublished, GivenUp, Goes,
         ParentGoes, ServiceTypeOK
    <2>2. CASE ~(Committed(i) /\ files.ready = 0)
      BY <1>10, <2>2 DEF BecomeReady, Holding, To, ReadyPublished, GivenUp, Goes,
         ParentGoes, ServiceTypeOK
    <2> QED
      BY <2>1, <2>2
  <1>11. ASSUME NEW i \in Starts, Activate(i) PROVE Opened(i) \/ GivenUp(i)
    <2>1. CASE sock = [by |-> i, open |-> FALSE]
      BY <1>11, <2>1 DEF Activate, Holding, To, Opened, GivenUp, Goes, ParentGoes,
         ServiceTypeOK
    <2>2. CASE ~(sock = [by |-> i, open |-> FALSE])
      BY <1>11, <2>2 DEF Activate, Holding, To, Opened, GivenUp, Goes, ParentGoes,
         ServiceTypeOK
    <2> QED
      BY <2>1, <2>2
  <1>12. ASSUME NEW i \in Starts, RemoveOwnSocket(i) PROVE SocketUnwound(i)
    BY <1>12 DEF RemoveOwnSocket, NoSocket, Starts, To, SocketUnwound, Goes, ParentGoes,
       ServiceTypeOK
  <1>13. ASSUME NEW i \in Starts, RemoveOwnFiles(i) PROVE FilesUnwound(i)
    BY <1>13 DEF RemoveOwnFiles, OwnRemoved, To, FilesUnwound, Goes, ParentGoes,
       ServiceTypeOK
  <1>14. ASSUME NEW i \in Starts, ParentEnds(i) PROVE Orphaned(i)
    BY <1>14 DEF ParentEnds, To, Orphaned, Goes, ParentGoes, ServiceTypeOK
  <1>15. ASSUME NEW i \in Starts, Kill(i) PROVE Killed(i)
    BY <1>15 DEF Kill, Alive, To, Killed, Goes, ParentGoes, ServiceTypeOK
  <1>16. ASSUME UNCHANGED service PROVE Undisturbed
    BY <1>16 DEF service, Undisturbed
  <1> QED
    BY <1>1, <1>2, <1>3, <1>4, <1>5, <1>6, <1>7, <1>8, <1>9, <1>10, <1>11, <1>12, <1>13,
       <1>14, <1>15, <1>16
    DEF ServiceMoves, LifecycleStep, ServiceEffect

(* Every step keeps the lifecycle well typed.                              *)
LEMMA ServiceTypes ==
    ASSUME ServiceTypeOK, ServiceMoves
    PROVE  ServiceTypeOK'
  <1>1. /\ 0 \in Someone /\ \A i \in Starts : i \in Someone
        /\ \A f, g, h \in Someone : [pid |-> f, bound |-> g, ready |-> h] \in
              [pid : Someone, bound : Someone, ready : Someone]
        /\ \A b \in Someone, o \in BOOLEAN : [by |-> b, open |-> o] \in [by : Someone, open : BOOLEAN]
    BY MaxStartsAssumption DEF Someone, Starts
  <1>2. ASSUME NEW i \in Starts, BeginStart(i) PROVE ServiceTypeOK'
    <2>1. phase' \in [Starts -> Phases]
      BY <1>2 DEF BeginStart, To, ServiceTypeOK, Phases, Attached, Detached
    <2>2. parent' \in [Starts -> {"none", "live", "dead"}]
      BY <1>2 DEF BeginStart, ServiceTypeOK
    <2>3. files' \in [pid : Someone, bound : Someone, ready : Someone]
      BY <1>1, <1>2 DEF BeginStart, ServiceTypeOK
    <2>4. sock' \in [by : Someone, open : BOOLEAN]
      <3>1. sock' = sock
        BY <1>2 DEF BeginStart
      <3> QED
        BY <1>1, <3>1 DEF NoSocket, ServiceTypeOK
    <2> QED
      BY <2>1, <2>2, <2>3, <2>4 DEF ServiceTypeOK
  <1>3. ASSUME NEW i \in Starts, CleanUpSocket(i) PROVE ServiceTypeOK'
    <2>1. phase' \in [Starts -> Phases]
      BY <1>3 DEF CleanUpSocket, To, ServiceTypeOK, Phases, Attached, Detached
    <2>2. parent' \in [Starts -> {"none", "live", "dead"}]
      BY <1>3 DEF CleanUpSocket, ServiceTypeOK
    <2>3. files' \in [pid : Someone, bound : Someone, ready : Someone]
      BY <1>1, <1>3 DEF CleanUpSocket, ServiceTypeOK
    <2>4. sock' \in [by : Someone, open : BOOLEAN]
      <3>1. sock' = NoSocket \/ sock' = sock
        BY <1>3 DEF CleanUpSocket
      <3> QED
        BY <1>1, <3>1 DEF NoSocket, ServiceTypeOK
    <2> QED
      BY <2>1, <2>2, <2>3, <2>4 DEF ServiceTypeOK
  <1>4. ASSUME NEW i \in Starts, CleanUpFiles(i) PROVE ServiceTypeOK'
    <2>1. phase' \in [Starts -> Phases]
      BY <1>4 DEF CleanUpFiles, To, ServiceTypeOK, Phases, Attached, Detached
    <2>2. parent' \in [Starts -> {"none", "live", "dead"}]
      BY <1>4 DEF CleanUpFiles, ServiceTypeOK
    <2>3. files' \in [pid : Someone, bound : Someone, ready : Someone]
      BY <1>1, <1>4 DEF CleanUpFiles, ServiceTypeOK
    <2>4. sock' \in [by : Someone, open : BOOLEAN]
      <3>1. sock' = sock
        BY <1>4 DEF CleanUpFiles
      <3> QED
        BY <1>1, <3>1 DEF NoSocket, ServiceTypeOK
    <2> QED
      BY <2>1, <2>2, <2>3, <2>4 DEF ServiceTypeOK
  <1>5. ASSUME NEW i \in Starts, CleanUpRefused(i) PROVE ServiceTypeOK'
    <2>1. phase' \in [Starts -> Phases]
      BY <1>5 DEF CleanUpRefused, To, ServiceTypeOK, Phases, Attached, Detached
    <2>2. parent' \in [Starts -> {"none", "live", "dead"}]
      BY <1>5 DEF CleanUpRefused, ServiceTypeOK
    <2>3. files' \in [pid : Someone, bound : Someone, ready : Someone]
      BY <1>1, <1>5 DEF CleanUpRefused, ServiceTypeOK
    <2>4. sock' \in [by : Someone, open : BOOLEAN]
      <3>1. sock' = sock
        BY <1>5 DEF CleanUpRefused
      <3> QED
        BY <1>1, <3>1 DEF NoSocket, ServiceTypeOK
    <2> QED
      BY <2>1, <2>2, <2>3, <2>4 DEF ServiceTypeOK
  <1>6. ASSUME NEW i \in Starts, PublishPid(i) PROVE ServiceTypeOK'
    <2>1. phase' \in [Starts -> Phases]
      BY <1>6 DEF PublishPid, Publish, To, ServiceTypeOK, Phases, Attached, Detached
    <2>2. parent' \in [Starts -> {"none", "live", "dead"}]
      BY <1>6 DEF PublishPid, Publish, ServiceTypeOK
    <2>3. files' \in [pid : Someone, bound : Someone, ready : Someone]
      BY <1>1, <1>6 DEF PublishPid, Publish, ServiceTypeOK
    <2>4. sock' \in [by : Someone, open : BOOLEAN]
      <3>1. sock' = sock
        BY <1>6 DEF PublishPid, Publish
      <3> QED
        BY <1>1, <3>1 DEF NoSocket, ServiceTypeOK
    <2> QED
      BY <2>1, <2>2, <2>3, <2>4 DEF ServiceTypeOK
  <1>7. ASSUME NEW i \in Starts, BindPrepared(i) PROVE ServiceTypeOK'
    <2>1. phase' \in [Starts -> Phases]
      BY <1>7 DEF BindPrepared, To, ServiceTypeOK, Phases, Attached, Detached
    <2>2. parent' \in [Starts -> {"none", "live", "dead"}]
      BY <1>7 DEF BindPrepared, ServiceTypeOK
    <2>3. files' \in [pid : Someone, bound : Someone, ready : Someone]
      BY <1>1, <1>7 DEF BindPrepared, ServiceTypeOK
    <2>4. sock' \in [by : Someone, open : BOOLEAN]
      <3>1. sock' = [by |-> i, open |-> FALSE] \/ sock' = sock
        BY <1>7 DEF BindPrepared
      <3> QED
        BY <1>1, <3>1 DEF NoSocket, ServiceTypeOK
    <2> QED
      BY <2>1, <2>2, <2>3, <2>4 DEF ServiceTypeOK
  <1>8. ASSUME NEW i \in Starts, Announce(i) PROVE ServiceTypeOK'
    <2>1. phase' \in [Starts -> Phases]
      BY <1>8 DEF Announce, Publish, To, ServiceTypeOK, Phases, Attached, Detached
    <2>2. parent' \in [Starts -> {"none", "live", "dead"}]
      BY <1>8 DEF Announce, Publish, ServiceTypeOK
    <2>3. files' \in [pid : Someone, bound : Someone, ready : Someone]
      BY <1>1, <1>8 DEF Announce, Publish, ServiceTypeOK
    <2>4. sock' \in [by : Someone, open : BOOLEAN]
      <3>1. sock' = sock
        BY <1>8 DEF Announce, Publish
      <3> QED
        BY <1>1, <3>1 DEF NoSocket, ServiceTypeOK
    <2> QED
      BY <2>1, <2>2, <2>3, <2>4 DEF ServiceTypeOK
  <1>9. ASSUME NEW i \in Starts, CommitStart(i) PROVE ServiceTypeOK'
    <2>1. phase' \in [Starts -> Phases]
      BY <1>9 DEF CommitStart, To, ServiceTypeOK, Phases, Attached, Detached
    <2>2. parent' \in [Starts -> {"none", "live", "dead"}]
      BY <1>9 DEF CommitStart, ServiceTypeOK
    <2>3. files' \in [pid : Someone, bound : Someone, ready : Someone]
      BY <1>1, <1>9 DEF CommitStart, ServiceTypeOK
    <2>4. sock' \in [by : Someone, open : BOOLEAN]
      <3>1. sock' = sock
        BY <1>9 DEF CommitStart
      <3> QED
        BY <1>1, <3>1 DEF NoSocket, ServiceTypeOK
    <2> QED
      BY <2>1, <2>2, <2>3, <2>4 DEF ServiceTypeOK
  <1>10. ASSUME NEW i \in Starts, ClearDeathSignal(i) PROVE ServiceTypeOK'
    <2>1. phase' \in [Starts -> Phases]
      BY <1>10 DEF ClearDeathSignal, To, ServiceTypeOK, Phases, Attached, Detached
    <2>2. parent' \in [Starts -> {"none", "live", "dead"}]
      BY <1>10 DEF ClearDeathSignal, ServiceTypeOK
    <2>3. files' \in [pid : Someone, bound : Someone, ready : Someone]
      BY <1>1, <1>10 DEF ClearDeathSignal, ServiceTypeOK
    <2>4. sock' \in [by : Someone, open : BOOLEAN]
      <3>1. sock' = sock
        BY <1>10 DEF ClearDeathSignal
      <3> QED
        BY <1>1, <3>1 DEF NoSocket, ServiceTypeOK
    <2> QED
      BY <2>1, <2>2, <2>3, <2>4 DEF ServiceTypeOK
  <1>11. ASSUME NEW i \in Starts, BecomeReady(i) PROVE ServiceTypeOK'
    <2>1. phase' \in [Starts -> Phases]
      BY <1>11 DEF BecomeReady, To, ServiceTypeOK, Phases, Attached, Detached
    <2>2. parent' \in [Starts -> {"none", "live", "dead"}]
      BY <1>11 DEF BecomeReady, ServiceTypeOK
    <2>3. files' \in [pid : Someone, bound : Someone, ready : Someone]
      <3>1. files' = files \/ files' = [files EXCEPT !.bound = IF @ = i THEN 0 ELSE @, !.ready = i]
        BY <1>11 DEF BecomeReady
      <3>2. files \in [pid : Someone, bound : Someone, ready : Someone] /\ i \in Someone /\ 0 \in Someone
        BY <1>1, <1>11 DEF ServiceTypeOK
      <3>3. [files EXCEPT !.bound = IF @ = i THEN 0 ELSE @, !.ready = i]
              \in [pid : Someone, bound : Someone, ready : Someone]
        BY <3>2
      <3> QED
        BY <3>1, <3>2, <3>3
    <2>4. sock' \in [by : Someone, open : BOOLEAN]
      <3>1. sock' = sock
        BY <1>11 DEF BecomeReady
      <3> QED
        BY <1>1, <3>1 DEF NoSocket, ServiceTypeOK
    <2> QED
      BY <2>1, <2>2, <2>3, <2>4 DEF ServiceTypeOK
  <1>12. ASSUME NEW i \in Starts, Activate(i) PROVE ServiceTypeOK'
    <2>1. phase' \in [Starts -> Phases]
      BY <1>12 DEF Activate, To, ServiceTypeOK, Phases, Attached, Detached
    <2>2. parent' \in [Starts -> {"none", "live", "dead"}]
      BY <1>12 DEF Activate, ServiceTypeOK
    <2>3. files' \in [pid : Someone, bound : Someone, ready : Someone]
      BY <1>1, <1>12 DEF Activate, ServiceTypeOK
    <2>4. sock' \in [by : Someone, open : BOOLEAN]
      <3>1. sock' = [sock EXCEPT !.open = TRUE] \/ sock' = sock
        BY <1>12 DEF Activate
      <3> QED
        BY <1>1, <3>1 DEF NoSocket, ServiceTypeOK
    <2> QED
      BY <2>1, <2>2, <2>3, <2>4 DEF ServiceTypeOK
  <1>13. ASSUME NEW i \in Starts, RemoveOwnSocket(i) PROVE ServiceTypeOK'
    <2>1. phase' \in [Starts -> Phases]
      BY <1>13 DEF RemoveOwnSocket, To, ServiceTypeOK, Phases, Attached, Detached
    <2>2. parent' \in [Starts -> {"none", "live", "dead"}]
      BY <1>13 DEF RemoveOwnSocket, ServiceTypeOK
    <2>3. files' \in [pid : Someone, bound : Someone, ready : Someone]
      BY <1>1, <1>13 DEF RemoveOwnSocket, ServiceTypeOK
    <2>4. sock' \in [by : Someone, open : BOOLEAN]
      <3>1. sock' = NoSocket \/ sock' = sock
        BY <1>13 DEF RemoveOwnSocket
      <3> QED
        BY <1>1, <3>1 DEF NoSocket, ServiceTypeOK
    <2> QED
      BY <2>1, <2>2, <2>3, <2>4 DEF ServiceTypeOK
  <1>14. ASSUME NEW i \in Starts, RemoveOwnFiles(i) PROVE ServiceTypeOK'
    <2>1. phase' \in [Starts -> Phases]
      BY <1>14 DEF RemoveOwnFiles, To, ServiceTypeOK, Phases, Attached, Detached
    <2>2. parent' \in [Starts -> {"none", "live", "dead"}]
      BY <1>14 DEF RemoveOwnFiles, ServiceTypeOK
    <2>3. files' \in [pid : Someone, bound : Someone, ready : Someone]
      BY <1>1, <1>14 DEF RemoveOwnFiles, OwnRemoved, ServiceTypeOK
    <2>4. sock' \in [by : Someone, open : BOOLEAN]
      <3>1. sock' = sock
        BY <1>14 DEF RemoveOwnFiles
      <3> QED
        BY <1>1, <3>1 DEF NoSocket, ServiceTypeOK
    <2> QED
      BY <2>1, <2>2, <2>3, <2>4 DEF ServiceTypeOK
  <1>15. ASSUME NEW i \in Starts, ParentEnds(i) PROVE ServiceTypeOK'
    <2>1. phase' \in [Starts -> Phases]
      BY <1>15 DEF ParentEnds, To, ServiceTypeOK, Phases, Attached, Detached
    <2>2. parent' \in [Starts -> {"none", "live", "dead"}]
      BY <1>15 DEF ParentEnds, ServiceTypeOK
    <2>3. files' \in [pid : Someone, bound : Someone, ready : Someone]
      BY <1>1, <1>15 DEF ParentEnds, ServiceTypeOK
    <2>4. sock' \in [by : Someone, open : BOOLEAN]
      <3>1. sock' = sock
        BY <1>15 DEF ParentEnds
      <3> QED
        BY <1>1, <3>1 DEF NoSocket, ServiceTypeOK
    <2> QED
      BY <2>1, <2>2, <2>3, <2>4 DEF ServiceTypeOK
  <1>16. ASSUME NEW i \in Starts, Kill(i) PROVE ServiceTypeOK'
    <2>1. phase' \in [Starts -> Phases]
      BY <1>16 DEF Kill, To, ServiceTypeOK, Phases, Attached, Detached
    <2>2. parent' \in [Starts -> {"none", "live", "dead"}]
      BY <1>16 DEF Kill, ServiceTypeOK
    <2>3. files' \in [pid : Someone, bound : Someone, ready : Someone]
      BY <1>1, <1>16 DEF Kill, ServiceTypeOK
    <2>4. sock' \in [by : Someone, open : BOOLEAN]
      <3>1. sock' = sock
        BY <1>16 DEF Kill
      <3> QED
        BY <1>1, <3>1 DEF NoSocket, ServiceTypeOK
    <2> QED
      BY <2>1, <2>2, <2>3, <2>4 DEF ServiceTypeOK
  <1>17. ASSUME UNCHANGED service PROVE ServiceTypeOK'
    BY <1>17 DEF service, ServiceTypeOK
  <1> QED
    BY <1>2, <1>3, <1>4, <1>5, <1>6, <1>7, <1>8, <1>9, <1>10, <1>11, <1>12, <1>13, <1>14,
       <1>15, <1>16, <1>17
    DEF ServiceMoves, LifecycleStep

(* A parent lives until its child is open or given up, and no later start  *)
(* begins before: one parent at a time.                                    *)
LEMMA OneParentStep ==
    ASSUME ServiceInv, ServiceEffect
    PROVE  OneParent'
  <1>1. ASSUME NEW i \in Starts, Begun(i) PROVE OneParent'
    BY <1>1 DEF Begun, Goes, ParentGoes, ServiceInv, OneParent, Attached, Detached,
       Holding, Starts
  <1>2. ASSUME NEW i \in Starts, SocketSwept(i) PROVE OneParent'
    BY <1>2 DEF SocketSwept, Goes, ParentGoes, ServiceInv, OneParent, Attached, Detached,
       Holding, Starts
  <1>3. ASSUME NEW i \in Starts, FilesSwept(i) PROVE OneParent'
    BY <1>3 DEF FilesSwept, Goes, ParentGoes, ServiceInv, OneParent, Attached, Detached,
       Holding, Starts
  <1>4. ASSUME NEW i \in Starts, Refused(i) PROVE OneParent'
    BY <1>4 DEF Refused, Goes, ParentGoes, ServiceInv, OneParent, Attached, Detached,
       Holding, Starts
  <1>5. ASSUME NEW i \in Starts, PidPublished(i) PROVE OneParent'
    BY <1>5 DEF PidPublished, Goes, ParentGoes, ServiceInv, OneParent, Attached, Detached,
       Holding, Starts
  <1>6. ASSUME NEW i \in Starts, SocketBound(i) PROVE OneParent'
    BY <1>6 DEF SocketBound, Goes, ParentGoes, ServiceInv, OneParent, Attached, Detached,
       Holding, Starts
  <1>7. ASSUME NEW i \in Starts, BoundPublished(i) PROVE OneParent'
    BY <1>7 DEF BoundPublished, Goes, ParentGoes, ServiceInv, OneParent, Attached,
       Detached, Holding, Starts
  <1>8. ASSUME NEW i \in Starts, Cleared(i) PROVE OneParent'
    BY <1>8 DEF Cleared, Goes, ParentGoes, ServiceInv, OneParent, Attached, Detached,
       Holding, Starts
  <1>9. ASSUME NEW i \in Starts, ReadyPublished(i) PROVE OneParent'
    BY <1>9 DEF ReadyPublished, Goes, ParentGoes, ServiceInv, OneParent, Attached,
       Detached, Holding, Starts
  <1>10. ASSUME NEW i \in Starts, Opened(i) PROVE OneParent'
    BY <1>10 DEF Opened, Goes, ParentGoes, ServiceInv, OneParent, Attached, Detached,
       Holding, Starts
  <1>11. ASSUME NEW i \in Starts, GivenUp(i) PROVE OneParent'
    BY <1>11 DEF GivenUp, Goes, ParentGoes, ServiceInv, OneParent, Attached, Detached,
       Holding, Starts
  <1>12. ASSUME NEW i \in Starts, SocketUnwound(i) PROVE OneParent'
    BY <1>12 DEF SocketUnwound, Goes, ParentGoes, ServiceInv, OneParent, Attached,
       Detached, Holding, Starts
  <1>13. ASSUME NEW i \in Starts, FilesUnwound(i) PROVE OneParent'
    BY <1>13 DEF FilesUnwound, Goes, ParentGoes, ServiceInv, OneParent, Attached,
       Detached, Holding, Starts
  <1>14. ASSUME NEW i \in Starts, Killed(i) PROVE OneParent'
    BY <1>14 DEF Killed, Goes, ParentGoes, ServiceInv, OneParent, Attached, Detached,
       Holding, Starts
  <1>15. ASSUME NEW i \in Starts, Orphaned(i) PROVE OneParent'
    <2>1. CASE phase[i] \in Attached \cup {"cleanup", "sweeping"}
      BY <1>15, <2>1 DEF Orphaned, Goes, ParentGoes, ServiceInv, OneParent, Attached, Starts
    <2>2. CASE phase[i] \notin Attached \cup {"cleanup", "sweeping"}
      <3>1. phase' = phase /\ parent'[i] = "dead" /\ \A j \in Starts \ {i} : parent'[j] = parent[j]
        BY <1>15, <2>2 DEF Orphaned, ParentGoes
      <3>2. phase[i] # "none"
        BY <1>15 DEF ServiceInv, OneParent, Orphaned
      <3> QED
        BY <2>2, <3>1, <3>2 DEF ServiceInv, OneParent
    <2> QED
      BY <2>1, <2>2
  <1>16. ASSUME Undisturbed PROVE OneParent'
    BY <1>16 DEF Undisturbed, ServiceInv, OneParent, Attached, Detached, Holding, Starts
  <1> QED
    BY <1>1, <1>2, <1>3, <1>4, <1>5, <1>6, <1>7, <1>8, <1>9, <1>10, <1>11, <1>12, <1>13,
       <1>14, <1>15, <1>16
    DEF ServiceEffect

(* The pid file is the lock: it names the start that published it until    *)
(* that start is over, so that two starts are never past it.               *)
LEMMA PidIsLockStep ==
    ASSUME ServiceInv, ServiceEffect
    PROVE  PidIsLock'
  <1>1. ASSUME NEW i \in Starts, Begun(i) PROVE PidIsLock'
    BY <1>1 DEF Begun, Goes, ParentGoes, ServiceInv, OneParent, PidIsLock, SweepSafe,
       SocketHasPid, Attached, Detached, Alive, Holding, Bound, Starts
  <1>2. ASSUME NEW i \in Starts, SocketSwept(i) PROVE PidIsLock'
    BY <1>2 DEF SocketSwept, Goes, ParentGoes, ServiceInv, OneParent, PidIsLock,
       SweepSafe, SocketHasPid, Attached, Detached, Alive, Holding, Bound, Starts
  <1>3. ASSUME NEW i \in Starts, FilesSwept(i) PROVE PidIsLock'
    BY <1>3 DEF FilesSwept, Goes, ParentGoes, ServiceInv, OneParent, PidIsLock, SweepSafe,
       SocketHasPid, Attached, Detached, Alive, Holding, Bound, Starts
  <1>4. ASSUME NEW i \in Starts, Refused(i) PROVE PidIsLock'
    BY <1>4 DEF Refused, Goes, ParentGoes, ServiceInv, OneParent, PidIsLock, SweepSafe,
       SocketHasPid, Attached, Detached, Alive, Holding, Bound, Starts
  <1>5. ASSUME NEW i \in Starts, PidPublished(i) PROVE PidIsLock'
    BY <1>5 DEF PidPublished, Goes, ParentGoes, ServiceInv, OneParent, PidIsLock,
       SweepSafe, SocketHasPid, Attached, Detached, Alive, Holding, Bound, Starts
  <1>6. ASSUME NEW i \in Starts, SocketBound(i) PROVE PidIsLock'
    BY <1>6 DEF SocketBound, Goes, ParentGoes, ServiceInv, OneParent, PidIsLock,
       SweepSafe, SocketHasPid, Attached, Detached, Alive, Holding, Bound, Starts
  <1>7. ASSUME NEW i \in Starts, BoundPublished(i) PROVE PidIsLock'
    BY <1>7 DEF BoundPublished, Goes, ParentGoes, ServiceInv, OneParent, PidIsLock,
       SweepSafe, SocketHasPid, Attached, Detached, Alive, Holding, Bound, Starts
  <1>8. ASSUME NEW i \in Starts, Cleared(i) PROVE PidIsLock'
    BY <1>8 DEF Cleared, Goes, ParentGoes, ServiceInv, OneParent, PidIsLock, SweepSafe,
       SocketHasPid, Attached, Detached, Alive, Holding, Bound, Starts
  <1>9. ASSUME NEW i \in Starts, ReadyPublished(i) PROVE PidIsLock'
    BY <1>9 DEF ReadyPublished, Goes, ParentGoes, ServiceInv, OneParent, PidIsLock,
       SweepSafe, SocketHasPid, Attached, Detached, Alive, Holding, Bound, Starts
  <1>10. ASSUME NEW i \in Starts, Opened(i) PROVE PidIsLock'
    BY <1>10 DEF Opened, Goes, ParentGoes, ServiceInv, OneParent, PidIsLock, SweepSafe,
       SocketHasPid, Attached, Detached, Alive, Holding, Bound, Starts
  <1>11. ASSUME NEW i \in Starts, GivenUp(i) PROVE PidIsLock'
    BY <1>11 DEF GivenUp, Goes, ParentGoes, ServiceInv, OneParent, PidIsLock, SweepSafe,
       SocketHasPid, Attached, Detached, Alive, Holding, Bound, Starts
  <1>12. ASSUME NEW i \in Starts, SocketUnwound(i) PROVE PidIsLock'
    BY <1>12 DEF SocketUnwound, Goes, ParentGoes, ServiceInv, OneParent, PidIsLock,
       SweepSafe, SocketHasPid, Attached, Detached, Alive, Holding, Bound, Starts
  <1>13. ASSUME NEW i \in Starts, FilesUnwound(i) PROVE PidIsLock'
    BY <1>13 DEF FilesUnwound, Goes, ParentGoes, ServiceInv, OneParent, PidIsLock,
       SweepSafe, SocketHasPid, Attached, Detached, Alive, Holding, Bound, Starts
  <1>14. ASSUME NEW i \in Starts, Killed(i) PROVE PidIsLock'
    BY <1>14 DEF Killed, Goes, ParentGoes, ServiceInv, OneParent, PidIsLock, SweepSafe,
       SocketHasPid, Attached, Detached, Alive, Holding, Bound, Starts
  <1>15. ASSUME NEW i \in Starts, Orphaned(i) PROVE PidIsLock'
    BY <1>15 DEF Orphaned, Goes, ParentGoes, ServiceInv, OneParent, PidIsLock, SweepSafe,
       SocketHasPid, Attached, Detached, Alive, Holding, Bound, Starts
  <1>16. ASSUME Undisturbed PROVE PidIsLock'
    BY <1>16 DEF Undisturbed, ServiceInv, OneParent, PidIsLock, SweepSafe, SocketHasPid,
       Attached, Detached, Alive, Holding, Bound, Starts
  <1> QED
    BY <1>1, <1>2, <1>3, <1>4, <1>5, <1>6, <1>7, <1>8, <1>9, <1>10, <1>11, <1>12, <1>13,
       <1>14, <1>15, <1>16
    DEF ServiceEffect

(* A start that cleans up has seen that whoever the pid file names is      *)
(* gone, and nothing comes to life meanwhile.                              *)
LEMMA SweepSafeStep ==
    ASSUME ServiceInv, ServiceEffect
    PROVE  SweepSafe'
  <1>1. ASSUME NEW i \in Starts, Begun(i) PROVE SweepSafe'
    BY <1>1 DEF Begun, Goes, ParentGoes, ServiceInv, OneParent, PidIsLock, SweepSafe,
       Attached, Detached, Alive, Holding, Bound, Starts
  <1>2. ASSUME NEW i \in Starts, SocketSwept(i) PROVE SweepSafe'
    BY <1>2 DEF SocketSwept, Goes, ParentGoes, ServiceInv, OneParent, PidIsLock,
       SweepSafe, Attached, Detached, Alive, Holding, Bound, Starts
  <1>3. ASSUME NEW i \in Starts, FilesSwept(i) PROVE SweepSafe'
    BY <1>3 DEF FilesSwept, Goes, ParentGoes, ServiceInv, OneParent, PidIsLock, SweepSafe,
       Attached, Detached, Alive, Holding, Bound, Starts
  <1>4. ASSUME NEW i \in Starts, Refused(i) PROVE SweepSafe'
    BY <1>4 DEF Refused, Goes, ParentGoes, ServiceInv, OneParent, PidIsLock, SweepSafe,
       Attached, Detached, Alive, Holding, Bound, Starts
  <1>5. ASSUME NEW i \in Starts, PidPublished(i) PROVE SweepSafe'
    BY <1>5 DEF PidPublished, Goes, ParentGoes, ServiceInv, OneParent, PidIsLock,
       SweepSafe, Attached, Detached, Alive, Holding, Bound, Starts
  <1>6. ASSUME NEW i \in Starts, SocketBound(i) PROVE SweepSafe'
    BY <1>6 DEF SocketBound, Goes, ParentGoes, ServiceInv, OneParent, PidIsLock,
       SweepSafe, Attached, Detached, Alive, Holding, Bound, Starts
  <1>7. ASSUME NEW i \in Starts, BoundPublished(i) PROVE SweepSafe'
    BY <1>7 DEF BoundPublished, Goes, ParentGoes, ServiceInv, OneParent, PidIsLock,
       SweepSafe, Attached, Detached, Alive, Holding, Bound, Starts
  <1>8. ASSUME NEW i \in Starts, Cleared(i) PROVE SweepSafe'
    BY <1>8 DEF Cleared, Goes, ParentGoes, ServiceInv, OneParent, PidIsLock, SweepSafe,
       Attached, Detached, Alive, Holding, Bound, Starts
  <1>9. ASSUME NEW i \in Starts, ReadyPublished(i) PROVE SweepSafe'
    BY <1>9 DEF ReadyPublished, Goes, ParentGoes, ServiceInv, OneParent, PidIsLock,
       SweepSafe, Attached, Detached, Alive, Holding, Bound, Starts
  <1>10. ASSUME NEW i \in Starts, Opened(i) PROVE SweepSafe'
    BY <1>10 DEF Opened, Goes, ParentGoes, ServiceInv, OneParent, PidIsLock, SweepSafe,
       Attached, Detached, Alive, Holding, Bound, Starts
  <1>11. ASSUME NEW i \in Starts, GivenUp(i) PROVE SweepSafe'
    BY <1>11 DEF GivenUp, Goes, ParentGoes, ServiceInv, OneParent, PidIsLock, SweepSafe,
       Attached, Detached, Alive, Holding, Bound, Starts
  <1>12. ASSUME NEW i \in Starts, SocketUnwound(i) PROVE SweepSafe'
    BY <1>12 DEF SocketUnwound, Goes, ParentGoes, ServiceInv, OneParent, PidIsLock,
       SweepSafe, Attached, Detached, Alive, Holding, Bound, Starts
  <1>13. ASSUME NEW i \in Starts, FilesUnwound(i) PROVE SweepSafe'
    BY <1>13 DEF FilesUnwound, Goes, ParentGoes, ServiceInv, OneParent, PidIsLock,
       SweepSafe, Attached, Detached, Alive, Holding, Bound, Starts
  <1>14. ASSUME NEW i \in Starts, Killed(i) PROVE SweepSafe'
    BY <1>14 DEF Killed, Goes, ParentGoes, ServiceInv, OneParent, PidIsLock, SweepSafe,
       Attached, Detached, Alive, Holding, Bound, Starts
  <1>15. ASSUME NEW i \in Starts, Orphaned(i) PROVE SweepSafe'
    BY <1>15 DEF Orphaned, Goes, ParentGoes, ServiceInv, OneParent, PidIsLock, SweepSafe,
       Attached, Detached, Alive, Holding, Bound, Starts
  <1>16. ASSUME Undisturbed PROVE SweepSafe'
    BY <1>16 DEF Undisturbed, ServiceInv, OneParent, PidIsLock, SweepSafe, Attached,
       Detached, Alive, Holding, Bound, Starts
  <1> QED
    BY <1>1, <1>2, <1>3, <1>4, <1>5, <1>6, <1>7, <1>8, <1>9, <1>10, <1>11, <1>12, <1>13,
       <1>14, <1>15, <1>16
    DEF ServiceEffect

(* A socket that does not listen yet is that of the start the pid file     *)
(* names, which is what lets a later start tell that it is stale.          *)
LEMMA SocketHasPidStep ==
    ASSUME ServiceInv, ServiceEffect
    PROVE  SocketHasPid'
  <1>1. ASSUME NEW i \in Starts, Begun(i) PROVE SocketHasPid'
    BY <1>1 DEF Begun, Goes, ParentGoes, ServiceInv, OneParent, PidIsLock, SweepSafe,
       SocketHasPid, Attached, Detached, Alive, Holding, Bound, Starts
  <1>2. ASSUME NEW i \in Starts, SocketSwept(i) PROVE SocketHasPid'
    BY <1>2 DEF SocketSwept, Goes, ParentGoes, ServiceInv, OneParent, PidIsLock,
       SweepSafe, SocketHasPid, Attached, Detached, Alive, Holding, Bound, Starts
  <1>3. ASSUME NEW i \in Starts, FilesSwept(i) PROVE SocketHasPid'
    BY <1>3 DEF FilesSwept, Goes, ParentGoes, ServiceInv, OneParent, PidIsLock, SweepSafe,
       SocketHasPid, Attached, Detached, Alive, Holding, Bound, Starts
  <1>4. ASSUME NEW i \in Starts, Refused(i) PROVE SocketHasPid'
    BY <1>4 DEF Refused, Goes, ParentGoes, ServiceInv, OneParent, PidIsLock, SweepSafe,
       SocketHasPid, Attached, Detached, Alive, Holding, Bound, Starts
  <1>5. ASSUME NEW i \in Starts, PidPublished(i) PROVE SocketHasPid'
    BY <1>5 DEF PidPublished, Goes, ParentGoes, ServiceInv, OneParent, PidIsLock,
       SweepSafe, SocketHasPid, Attached, Detached, Alive, Holding, Bound, Starts
  <1>6. ASSUME NEW i \in Starts, SocketBound(i) PROVE SocketHasPid'
    BY <1>6 DEF SocketBound, Goes, ParentGoes, ServiceInv, OneParent, PidIsLock,
       SweepSafe, SocketHasPid, Attached, Detached, Alive, Holding, Bound, Starts
  <1>7. ASSUME NEW i \in Starts, BoundPublished(i) PROVE SocketHasPid'
    BY <1>7 DEF BoundPublished, Goes, ParentGoes, ServiceInv, OneParent, PidIsLock,
       SweepSafe, SocketHasPid, Attached, Detached, Alive, Holding, Bound, Starts
  <1>8. ASSUME NEW i \in Starts, Cleared(i) PROVE SocketHasPid'
    BY <1>8 DEF Cleared, Goes, ParentGoes, ServiceInv, OneParent, PidIsLock, SweepSafe,
       SocketHasPid, Attached, Detached, Alive, Holding, Bound, Starts
  <1>9. ASSUME NEW i \in Starts, ReadyPublished(i) PROVE SocketHasPid'
    BY <1>9 DEF ReadyPublished, Goes, ParentGoes, ServiceInv, OneParent, PidIsLock,
       SweepSafe, SocketHasPid, Attached, Detached, Alive, Holding, Bound, Starts
  <1>10. ASSUME NEW i \in Starts, Opened(i) PROVE SocketHasPid'
    BY <1>10 DEF Opened, Goes, ParentGoes, ServiceInv, OneParent, PidIsLock, SweepSafe,
       SocketHasPid, Attached, Detached, Alive, Holding, Bound, Starts
  <1>11. ASSUME NEW i \in Starts, GivenUp(i) PROVE SocketHasPid'
    BY <1>11 DEF GivenUp, Goes, ParentGoes, ServiceInv, OneParent, PidIsLock, SweepSafe,
       SocketHasPid, Attached, Detached, Alive, Holding, Bound, Starts
  <1>12. ASSUME NEW i \in Starts, SocketUnwound(i) PROVE SocketHasPid'
    BY <1>12 DEF SocketUnwound, Goes, ParentGoes, ServiceInv, OneParent, PidIsLock,
       SweepSafe, SocketHasPid, Attached, Detached, Alive, Holding, Bound, Starts
  <1>13. ASSUME NEW i \in Starts, FilesUnwound(i) PROVE SocketHasPid'
    BY <1>13 DEF FilesUnwound, Goes, ParentGoes, ServiceInv, OneParent, PidIsLock,
       SweepSafe, SocketHasPid, Attached, Detached, Alive, Holding, Bound, Starts
  <1>14. ASSUME NEW i \in Starts, Killed(i) PROVE SocketHasPid'
    BY <1>14 DEF Killed, Goes, ParentGoes, ServiceInv, OneParent, PidIsLock, SweepSafe,
       SocketHasPid, Attached, Detached, Alive, Holding, Bound, Starts
  <1>15. ASSUME NEW i \in Starts, Orphaned(i) PROVE SocketHasPid'
    BY <1>15 DEF Orphaned, Goes, ParentGoes, ServiceInv, OneParent, PidIsLock, SweepSafe,
       SocketHasPid, Attached, Detached, Alive, Holding, Bound, Starts
  <1>16. ASSUME Undisturbed PROVE SocketHasPid'
    BY <1>16 DEF Undisturbed, ServiceInv, OneParent, PidIsLock, SweepSafe, SocketHasPid,
       Attached, Detached, Alive, Holding, Bound, Starts
  <1> QED
    BY <1>1, <1>2, <1>3, <1>4, <1>5, <1>6, <1>7, <1>8, <1>9, <1>10, <1>11, <1>12, <1>13,
       <1>14, <1>15, <1>16
    DEF ServiceEffect

(* The package is installed with no service and no files of one.           *)
LEMMA ServiceStart == ServiceInit => ServiceInv
  <1> SUFFICES ASSUME ServiceInit PROVE ServiceInv
    OBVIOUS
  <1>1. ServiceTypeOK
    BY MaxStartsAssumption DEF ServiceInit, ServiceTypeOK, NoSocket, Phases, Someone
  <1> QED
    BY <1>1 DEF ServiceInit, ServiceInv, OneParent, PidIsLock, SweepSafe, SocketHasPid,
                NoSocket, Attached, Holding, Bound

(***************************************************************************)
(* The theorems.                                                           *)
(***************************************************************************)
BridgeInv ==
    /\ TypeOK /\ PlacesExact /\ FailuresNeverLost /\ WaitsFresh /\ AcceptedReadable
    /\ ServiceInv

(* The invariant of the bridge holds in every state: the types, what the   *)
(* counters of places and failures stand for, which build a request waits  *)
(* for, what is stored for the manager, and the state of the service's     *)
(* files and processes.                                                    *)
THEOREM BridgeInvariant == Spec => []BridgeInv
  <1>1. Init => BridgeInv
    <2> SUFFICES ASSUME Init PROVE BridgeInv
      OBVIOUS
    <2>1. PlacesExact
      <3>1. Crew("polling") = {} /\ Crew("manager") = {} /\ Runs = 0 /\ slots = 0 /\ lane = 0
        BY DEF Init, Crew, Free, Runs
      <3> QED
        BY <3>1, FS_EmptySet, BridgeAssumption DEF PlacesExact
    <2>2. FailuresNeverLost
      BY NoFailuresLost DEF Init, FailuresNeverLost
    <2>3. WaitsFresh /\ AcceptedReadable
      BY DEF Init, WaitsFresh, Fresher, Free, AcceptedReadable
    <2>4. TypeOK /\ ServiceInv
      BY TypeInit, ServiceStart DEF Init
    <2> QED
      BY <2>1, <2>2, <2>3, <2>4 DEF BridgeInv
  <1>2. BridgeInv /\ [Next]_vars => BridgeInv'
    <2> SUFFICES ASSUME BridgeInv, [Next]_vars PROVE BridgeInv'
      OBVIOUS
    <2>1. TypeOK' /\ PlacesExact' /\ FailuresNeverLost' /\ WaitsFresh' /\ AcceptedReadable'
      BY TypeStep, PlacesHold, FailuresHold, WaitsStep, AcceptedStep DEF BridgeInv
    <2>2. ServiceMoves /\ ServiceEffect
      BY StepMovesService, StepHasEffect DEF BridgeInv, ServiceInv
    <2>3. ServiceInv'
      BY <2>2, ServiceTypes, OneParentStep, PidIsLockStep, SweepSafeStep, SocketHasPidStep
      DEF BridgeInv, ServiceInv
    <2> QED
      BY <2>1, <2>3 DEF BridgeInv
  <1> QED
    BY <1>1, <1>2, PTL DEF Spec

(* At most one service listens, it owns the pid, the ready file and the    *)
(* socket, and whatever a killed one left behind, a later start may clean  *)
(* it up (dsm_api.rs cleanup_stale_service_socket, run_supervised_server   *)
(* and run_server_loop).                                                   *)
THEOREM BridgeServiceSingle == Spec => []ServiceSingle
  <1>1. ServiceInv => ServiceSingle
    <2> SUFFICES ASSUME ServiceInv PROVE ServiceSingle
      OBVIOUS
    <2>1. OneListener
      <3>1. ASSUME NEW i \in Starts, phase[i] = "open"
            PROVE  sock = [by |-> i, open |-> TRUE] /\ files.ready = i /\ files.pid = i
        <4>1. /\ sock.by = i /\ sock.open /\ files.ready = i /\ files.pid = i
              /\ sock \in [by : Someone, open : BOOLEAN]
          BY <3>1 DEF ServiceInv, ServiceTypeOK, PidIsLock, Holding, Bound
        <4> QED
          BY <4>1
      <3> QED
        BY <3>1 DEF OneListener, ServiceInv, PidIsLock, Holding
    <2>2. AlwaysStartable
      BY DEF AlwaysStartable, MayCleanUp, StaleSocket, Alive, ServiceInv, ServiceTypeOK,
         Someone,
             Starts, SocketHasPid
    <2> QED
      BY <2>1, <2>2 DEF ServiceSingle
  <1> QED
    BY <1>1, BridgeInvariant, PTL DEF BridgeInv

(* Every place of the long polls and of the manager's lane is held by a    *)
(* worker or the builder that uses it, and no failure is forgotten before  *)
(* it is recorded, however requests, timeouts and the service end          *)
(* (dsm_api.rs LongPollSlot, ManagerPermit and InServiceFailureCoalescer). *)
THEOREM BridgeNothingLeaks == Spec => []NothingLeaks
  <1>1. BridgeInv => NothingLeaks
    BY DEF BridgeInv, NothingLeaks, LanesExact, PlacesExact, Crew, Runs
  <1> QED
    BY <1>1, BridgeInvariant, PTL

(* A snapshot answered was built after it was asked for, and what a post   *)
(* had accepted is a job that the consumer reads, with its secrets and     *)
(* within the policy (dsm_api.rs shell_snapshot_read,                      *)
(* parse_mutation_request and parse_job).                                  *)
THEOREM BridgeAnswersSound == Spec => []AnswersSound
  <1>1. BridgeInv => AnswersSound
    BY DEF BridgeInv, AnswersSound, FreshSnapshot, WaitsFresh, Fresher
  <1> QED
    BY <1>1, BridgeInvariant, PTL
=============================================================================
