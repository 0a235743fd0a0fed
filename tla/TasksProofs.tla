----------------------------- MODULE TasksProofs -----------------------------
(***************************************************************************)
(* Proofs about the tasks DSM runs for a client: for any set of workers,   *)
(* any gate, batches and threshold, any selected files or copy, and any    *)
(* number of requests lost.                                                *)
(*                                                                         *)
(* TasksInvariant has the inductive invariant: beside the count itself it  *)
(* says that a copy is made alone and that, until its start is answered,   *)
(* nothing runs.  That keeps "not started" true of a copy that ends so.    *)
(* A step moves one worker or the copy (Moved, CopyMoved); what it does to *)
(* the loose tasks decides whether the count still covers them.            *)
(***************************************************************************)
EXTENDS Tasks, FiniteSetTheorems, TLAPS

(* What a worker and a copy are.                                           *)
Shaped(c) ==
    c = [w \in Workers |-> [pc |-> c[w].pc, i |-> c[w].i, k |-> c[w].k, task |-> c[w].task,
                            tries |-> c[w].tries, r |-> c[w].r]]

(* The other workers are where they were.                                  *)
Same(c, d, w) == \A v \in Workers : v # w => d[v].pc = c[v].pc /\ d[v].task = c[v].task

(* Only this worker moves, to this place, with this task.                  *)
Moved(c, d, w, p, t) == Shaped(d) /\ d[w].pc = p /\ d[w].task = t /\ Same(c, d, w)

CopyShaped(c) ==
    /\ c = [pc |-> c.pc, task |-> c.task, r |-> c.r, resent |-> c.resent]
    /\ c.pc \in {"off", "check", "start", "poll", "stop", "verify", "done"}

(* The tasks that run with nobody to end them whom the client knows of.    *)
Loose == running \ (Held \cup unheard)

(* Types.                                                                  *)
TasksTypeOK ==
    /\ Shaped(crew) /\ CopyShaped(copy)
    /\ taskCount \in Nat /\ notStopped \in Nat
    /\ running \subseteq 1..taskCount

(* A copy is made alone: no digest is asked for beside it.                 *)
CopyAlone ==
    copy.pc # "off" => pass.phase = "off" /\ \A w \in Workers : crew[w].pc = "out"

(* Before its start is answered a copy has no task, and it is given up for *)
(* a reason that does not say so.                                          *)
NothingYet ==
    /\ copy.pc \in {"check", "start"} => running = {} /\ copied = "none"
    /\ copy.pc = "stop" => copy.r.k # "not-started"

(* The inductive invariant.                                                *)
TasksInv == TasksTypeOK /\ TasksCounted /\ CopyAlone /\ NothingYet /\ NotStartedIsNothing

(* A worker begins afresh.                                                 *)
LEMMA SetAll ==
    ASSUME NEW c, Shaped(c), NEW w \in Workers, NEW p, NEW i, NEW k, NEW t, NEW n, NEW r
    PROVE  Moved(c, [c EXCEPT ![w] = [pc |-> p, i |-> i, k |-> k, task |-> t, tries |-> n, r |-> r]],
                 w, p, t)
  BY DEF Shaped, Same, Moved

(* One field of one worker is set.                                         *)
LEMMA SetPc ==
    ASSUME NEW c, Shaped(c), NEW w \in Workers, NEW p
    PROVE  Moved(c, [c EXCEPT ![w].pc = p], w, p, c[w].task)
  <1>1. PICK i, k, t, n, r : i = c[w].i /\ k = c[w].k /\ t = c[w].task /\ n = c[w].tries /\ r = c[w].r
    OBVIOUS
  <1>2. [c[w] EXCEPT !.pc = p] = [pc |-> p, i |-> i, k |-> k, task |-> t, tries |-> n, r |-> r]
    BY <1>1 DEF Shaped
  <1>3. [c EXCEPT ![w].pc = p] = [c EXCEPT ![w] = [pc |-> p, i |-> i, k |-> k, task |-> t, tries |-> n, r |-> r]]
    BY <1>2
  <1>4. Moved(c, [c EXCEPT ![w] = [pc |-> p, i |-> i, k |-> k, task |-> t, tries |-> n, r |-> r]], w, p, t)
    BY SetAll
  <1>5. Moved(c, [c EXCEPT ![w].pc = p], w, p, t)
    BY <1>3, <1>4
  <1> QED
    BY <1>1, <1>5

(* A call's result is set.                                                 *)
LEMMA SetR ==
    ASSUME NEW c, Shaped(c), NEW w \in Workers, NEW r
    PROVE  Moved(c, [c EXCEPT ![w].r = r], w, c[w].pc, c[w].task)
  <1>1. PICK p, i, k, t, n : p = c[w].pc /\ i = c[w].i /\ k = c[w].k /\ t = c[w].task /\ n = c[w].tries
    OBVIOUS
  <1>2. [c[w] EXCEPT !.r = r] = [pc |-> p, i |-> i, k |-> k, task |-> t, tries |-> n, r |-> r]
    BY <1>1 DEF Shaped
  <1>3. [c EXCEPT ![w].r = r] = [c EXCEPT ![w] = [pc |-> p, i |-> i, k |-> k, task |-> t, tries |-> n, r |-> r]]
    BY <1>2
  <1>4. Moved(c, [c EXCEPT ![w] = [pc |-> p, i |-> i, k |-> k, task |-> t, tries |-> n, r |-> r]], w, p, t)
    BY SetAll
  <1>5. Moved(c, [c EXCEPT ![w].r = r], w, p, t)
    BY <1>3, <1>4
  <1> QED
    BY <1>1, <1>5

(* A request is counted as tried.                                          *)
LEMMA SetTries ==
    ASSUME NEW c, Shaped(c), NEW w \in Workers, NEW n
    PROVE  Moved(c, [c EXCEPT ![w].tries = n], w, c[w].pc, c[w].task)
  <1>1. PICK p, i, k, t, r : p = c[w].pc /\ i = c[w].i /\ k = c[w].k /\ t = c[w].task /\ r = c[w].r
    OBVIOUS
  <1>2. [c[w] EXCEPT !.tries = n] = [pc |-> p, i |-> i, k |-> k, task |-> t, tries |-> n, r |-> r]
    BY <1>1 DEF Shaped
  <1>3. [c EXCEPT ![w].tries = n] = [c EXCEPT ![w] = [pc |-> p, i |-> i, k |-> k, task |-> t, tries |-> n, r |-> r]]
    BY <1>2
  <1>4. Moved(c, [c EXCEPT ![w] = [pc |-> p, i |-> i, k |-> k, task |-> t, tries |-> n, r |-> r]], w, p, t)
    BY SetAll
  <1>5. Moved(c, [c EXCEPT ![w].tries = n], w, p, t)
    BY <1>3, <1>4
  <1> QED
    BY <1>1, <1>5

(* A worker is given a task.                                               *)
LEMMA SetTask ==
    ASSUME NEW c, Shaped(c), NEW w \in Workers, NEW t
    PROVE  Moved(c, [c EXCEPT ![w].task = t], w, c[w].pc, t)
  <1>1. PICK p, i, k, n, r : p = c[w].pc /\ i = c[w].i /\ k = c[w].k /\ n = c[w].tries /\ r = c[w].r
    OBVIOUS
  <1>2. [c[w] EXCEPT !.task = t] = [pc |-> p, i |-> i, k |-> k, task |-> t, tries |-> n, r |-> r]
    BY <1>1 DEF Shaped
  <1>3. [c EXCEPT ![w].task = t] = [c EXCEPT ![w] = [pc |-> p, i |-> i, k |-> k, task |-> t, tries |-> n, r |-> r]]
    BY <1>2
  <1>4. Moved(c, [c EXCEPT ![w] = [pc |-> p, i |-> i, k |-> k, task |-> t, tries |-> n, r |-> r]], w, p, t)
    BY SetAll
  <1>5. Moved(c, [c EXCEPT ![w].task = t], w, p, t)
    BY <1>3, <1>4
  <1> QED
    BY <1>1, <1>5

(* A call comes to a result.                                               *)
LEMMA SetBoth ==
    ASSUME NEW c, Shaped(c), NEW w \in Workers, NEW p, NEW r
    PROVE  Moved(c, [c EXCEPT ![w].pc = p, ![w].r = r], w, p, c[w].task)
  <1>1. PICK e : e = [c EXCEPT ![w].pc = p]
    OBVIOUS
  <1>2. [c EXCEPT ![w].pc = p, ![w].r = r] = [e EXCEPT ![w].r = r]
    BY <1>1 DEF Shaped
  <1>3. Moved(c, e, w, p, c[w].task)
    BY <1>1, SetPc
  <1>4. Moved(e, [e EXCEPT ![w].r = r], w, e[w].pc, e[w].task)
    BY <1>3, SetR DEF Moved
  <1> QED
    BY <1>2, <1>3, <1>4 DEF Moved, Same

(* A start is answered with its task.                                      *)
LEMMA SetPoll ==
    ASSUME NEW c, Shaped(c), NEW w \in Workers, NEW p, NEW t
    PROVE  Moved(c, [c EXCEPT ![w].pc = p, ![w].task = t], w, p, t)
  <1>1. PICK e : e = [c EXCEPT ![w].pc = p]
    OBVIOUS
  <1>2. [c EXCEPT ![w].pc = p, ![w].task = t] = [e EXCEPT ![w].task = t]
    BY <1>1 DEF Shaped
  <1>3. Moved(c, e, w, p, c[w].task)
    BY <1>1, SetPc
  <1>4. Moved(e, [e EXCEPT ![w].task = t], w, e[w].pc, t)
    BY <1>3, SetTask DEF Moved
  <1> QED
    BY <1>2, <1>3, <1>4 DEF Moved, Same

(* Who holds a task.                                                       *)
LEMMA HeldIs ==
    ASSUME NEW t
    PROVE  t \in Held <=> \/ \E w \in Workers : crew[w].pc \in {"poll", "stop"} /\ crew[w].task = t
                          \/ copy.pc \in {"poll", "stop"} /\ copy.task = t
  BY DEF Held

(* And who will hold it after the step.                                    *)
LEMMA HeldNext ==
    ASSUME NEW t
    PROVE  t \in Held' <=> \/ \E w \in Workers : crew'[w].pc \in {"poll", "stop"} /\ crew'[w].task = t
                           \/ copy'.pc \in {"poll", "stop"} /\ copy'.task = t
  BY DEF Held

(* No task is loose that was not, or one is and is counted.                *)
LEMMA LooseKept ==
    ASSUME TasksInv, notStopped' = notStopped, Loose' \subseteq Loose
    PROVE  TasksCounted'
  <1>1. IsFiniteSet(Loose)
    <2>1. taskCount \in Int /\ 1 \in Int
      BY DEF TasksInv, TasksTypeOK
    <2>2. IsFiniteSet(1..taskCount)
      BY <2>1, FS_Interval
    <2>3. Loose \subseteq 1..taskCount
      BY DEF TasksInv, TasksTypeOK, Loose
    <2> QED
      BY <2>2, <2>3, FS_Subset
  <1>2. Cardinality(Loose') <= Cardinality(Loose) /\ Cardinality(Loose') \in Nat /\ Cardinality(Loose) \in Nat
    BY <1>1, FS_Subset, FS_CardinalityType
  <1> QED
    BY <1>2 DEF TasksInv, TasksTypeOK, TasksCounted, Loose

(* A task that may have become loose was counted.                          *)
LEMMA LooseCounted ==
    ASSUME TasksInv, notStopped' = notStopped + 1, NEW t, Loose' \subseteq Loose \cup {t}
    PROVE  TasksCounted'
  <1>1. IsFiniteSet(Loose)
    <2>1. taskCount \in Int /\ 1 \in Int
      BY DEF TasksInv, TasksTypeOK
    <2>2. IsFiniteSet(1..taskCount)
      BY <2>1, FS_Interval
    <2>3. Loose \subseteq 1..taskCount
      BY DEF TasksInv, TasksTypeOK, Loose
    <2> QED
      BY <2>2, <2>3, FS_Subset
  <1>2. IsFiniteSet(Loose \cup {t}) /\ Cardinality(Loose \cup {t}) <= Cardinality(Loose) + 1 /\ Cardinality(Loose) \in Nat
    BY <1>1, FS_AddElement, FS_CardinalityType
  <1>3. Cardinality(Loose') <= Cardinality(Loose \cup {t}) /\ Cardinality(Loose') \in Nat /\ Cardinality(Loose \cup {t}) \in Nat
    BY <1>2, FS_Subset, FS_CardinalityType
  <1> QED
    BY <1>2, <1>3 DEF TasksInv, TasksTypeOK, TasksCounted, Loose

(* Nothing is under way when a job begins.                                 *)
LEMMA TasksStart ==
    ASSUME NEW j, TasksInit(j)
    PROVE  TasksInv
  <1>1. Shaped(crew)
    <2>1. CASE j.op = "verify"
      <3>1. crew = [w \in Workers |-> [[Out EXCEPT !.pc = "acquire"] EXCEPT !.i = 1]]
        BY <2>1 DEF TasksInit
      <3>2. [[Out EXCEPT !.pc = "acquire"] EXCEPT !.i = 1]
              = [pc |-> "acquire", i |-> 1, k |-> 0, task |-> 0, tries |-> 0, r |-> Good("none")]
        <4>1. [Out EXCEPT !.pc = "acquire"]
                = [pc |-> "acquire", i |-> 0, k |-> 0, task |-> 0, tries |-> 0, r |-> Good("none")]
          BY DEF Out
        <4> DEFINE o == [pc |-> "acquire", i |-> 0, k |-> 0, task |-> 0, tries |-> 0,
                         r |-> Good("none")]
        <4>2. [o EXCEPT !.i = 1] = [pc |-> "acquire", i |-> 1, k |-> 0, task |-> 0, tries |-> 0,
                                    r |-> Good("none")]
          OBVIOUS
        <4> QED
          BY <4>1, <4>2
      <3> QED
        BY <3>1, <3>2 DEF Shaped
    <2>2. CASE j.op # "verify"
      BY <2>2 DEF TasksInit, Shaped, Out
    <2> QED
      BY <2>1, <2>2
  <1>2. CopyShaped(copy)
    BY DEF TasksInit, CopyShaped
  <1>3. Loose = {} /\ taskCount = 0 /\ notStopped = 0 /\ running = {} /\ copied = "none" /\ copy.pc # "stop"
    BY DEF TasksInit, Loose
  <1>4. TasksCounted
    BY <1>3, FS_EmptySet DEF TasksCounted, Loose
  <1>5. CopyAlone
    <2>1. copy.pc # "off" => j.op = "copy"
      BY DEF TasksInit
    <2> QED
      BY <2>1 DEF TasksInit, CopyAlone, Out
  <1> QED
    BY <1>1, <1>2, <1>3, <1>4, <1>5 DEF TasksInv, TasksTypeOK, NothingYet, NotStartedIsNothing

LEMMA UnnamedIs ==
    Unnamed.reached /\ Unnamed.status = 200 /\ Unnamed.length = "exact" /\ Unnamed.form = "garbled"
  BY DEF Unnamed, Lost

(* The sends of a start: what is good names the task DSM began.            *)
LEMMA StartGood ==
    ASSUME NEW code, NEW answer \in StartAnswers(code), IsGood(send_attempt(answer, {}))
    PROVE  code = 0 /\ Said(answer)
  <1>1. CASE answer = Lost
    BY <1>1 DEF send_attempt, Lost, IsGood, Fail, remaining_control_timeout
  <1>4. CASE answer = Unnamed
    <2>1. answer.reached /\ answer.status = 200 /\ answer.length = "exact" /\ answer.form = "garbled"
      BY <1>4, UnnamedIs
    <2> QED
      BY <2>1 DEF send_attempt, IsGood, Fail, remaining_control_timeout, decode_response_observed, decode_response_body
  <1>2. CASE answer = Refusal(code) /\ code # 0
    BY <1>2 DEF send_attempt, Refusal, Lost, IsGood, Fail, remaining_control_timeout, decode_response_observed, decode_response_body
  <1>3. CASE answer = Success(NewTask) /\ code = 0
    BY <1>3 DEF Success, Lost, Said
  <1> QED
    BY <1>1, <1>2, <1>3, <1>4 DEF StartAnswers

(* And an answered start of a file that can be started is good.            *)
LEMMA StartBad ==
    ASSUME NEW code, NEW answer \in StartAnswers(code), code = 0, Said(answer)
    PROVE  IsGood(send_attempt(answer, {}))
  <1>1. answer = Success(NewTask) \/ answer = Lost \/ answer = Unnamed
    BY DEF StartAnswers
  <1>2. ~Said(Lost) /\ ~Said(Unnamed)
    BY UnnamedIs DEF Lost, Said
  <1>3. answer = Success(NewTask)
    BY <1>1, <1>2
  <1>4. answer.reached /\ answer.status = 200 /\ answer.length = "exact" /\ answer.form = "success"
    BY <1>3 DEF Success, Lost
  <1>5. decode_response_body(answer) = Good(answer.data)
    BY <1>4 DEF decode_response_body
  <1>6. decode_response_observed(answer) = decode_response_body(answer)
    BY <1>4 DEF decode_response_observed
  <1>7. send_attempt(answer, {}) = decode_response_observed(answer)
    BY <1>4 DEF send_attempt, remaining_control_timeout
  <1> QED
    BY <1>5, <1>6, <1>7 DEF IsGood, Good

(* What holds of a worker's step, which no copy is beside.                 *)
LEMMA BesideNoCopy ==
    ASSUME TasksInv, copy.pc = "off", copy' = copy, TasksTypeOK', TasksCounted'
    PROVE  TasksInv'
  BY DEF TasksInv, CopyAlone, NothingYet, NotStartedIsNothing

(* While a worker is at work no copy is made.                              *)
LEMMA AtWork ==
    ASSUME TasksInv, NEW w \in Workers, crew[w].pc # "out"
    PROVE  copy.pc = "off"
  BY DEF TasksInv, CopyAlone

(* Held tasks stay held but for those of the worker that moves.            *)
LEMMA HeldBut ==
    ASSUME copy' = copy, NEW w \in Workers, Same(crew, crew', w)
    PROVE  Held \ {crew[w].task} \subseteq Held'
  <1> SUFFICES ASSUME NEW t \in Held, t # crew[w].task PROVE t \in Held'
    OBVIOUS
  <1> QED
    BY HeldIs, HeldNext DEF Same

(* And those of a worker who keeps its task stay held too.                 *)
LEMMA HeldStays ==
    ASSUME copy' = copy, NEW w \in Workers, Same(crew, crew', w),
           crew[w].pc \in {"poll", "stop"} =>
             crew'[w].pc \in {"poll", "stop"} /\ crew'[w].task = crew[w].task
    PROVE  Held \subseteq Held'
  <1> SUFFICES ASSUME NEW t \in Held PROVE t \in Held'
    OBVIOUS
  <1> QED
    BY HeldIs, HeldNext DEF Same

(* A worker moves on without a task.                                       *)
LEMMA WorkerMoves ==
    ASSUME TasksInv, NEW w \in Workers, crew[w].pc \notin {"out", "poll", "stop"}, Shaped(crew'),
           Same(crew, crew', w),
           UNCHANGED <<copy, dsmTaskVars, notStopped, unheard>>
    PROVE  TasksInv'
  <1>1. copy.pc = "off" /\ copy' = copy
    BY AtWork
  <1>2. Held \subseteq Held'
    BY <1>1, HeldStays
  <1>3. Loose' \subseteq Loose
    BY <1>2 DEF Loose, dsmTaskVars
  <1>4. TasksCounted'
    BY <1>3, LooseKept
  <1>5. TasksTypeOK'
    BY <1>1 DEF TasksInv, TasksTypeOK, dsmTaskVars
  <1> QED
    BY <1>1, <1>4, <1>5, BesideNoCopy

(* The workers who have nothing of their own.                              *)
LEMMA OutIs == Out = [pc |-> "out", i |-> 0, k |-> 0, task |-> 0, tries |-> 0, r |-> Good("none")]
  BY DEF Out

(* A worker with a file to work on has no task yet.                        *)
LEMMA TakenIs ==
    ASSUME NEW k, NEW i
    PROVE  [Out EXCEPT !.pc = "acquire", !.k = k, !.i = i]
              = [pc |-> "acquire", i |-> i, k |-> k, task |-> 0, tries |-> 0, r |-> Good("none")]
  <1> DEFINE o == [pc |-> "acquire", i |-> 0, k |-> 0, task |-> 0, tries |-> 0, r |-> Good("none")]
             q == [pc |-> "acquire", i |-> 0, k |-> k, task |-> 0, tries |-> 0, r |-> Good("none")]
  <1>1. [Out EXCEPT !.pc = "acquire"] = o
    BY OutIs
  <1>2. [o EXCEPT !.k = k] = q
    OBVIOUS
  <1>3. [q EXCEPT !.i = i] = [pc |-> "acquire", i |-> i, k |-> k, task |-> 0, tries |-> 0,
                              r |-> Good("none")]
    OBVIOUS
  <1>4. [Out EXCEPT !.pc = "acquire", !.k = k, !.i = i]
          = [[[Out EXCEPT !.pc = "acquire"] EXCEPT !.k = k] EXCEPT !.i = i]
    OBVIOUS
  <1> QED
    BY <1>1, <1>2, <1>3, <1>4

(* Taking the next file of the batch.                                      *)
LEMMA TakeKeeps ==
    ASSUME TasksInv, NEW w \in Workers, Take(w)
    PROVE  TasksInv'
  <1>1. Shaped(crew) /\ crew[w].pc = "take"
    BY DEF TasksInv, TasksTypeOK, Take
  <1>2. \/ crew' = [crew EXCEPT ![w] = Out]
        \/ crew' = [crew EXCEPT ![w] = [Out EXCEPT !.pc = "acquire", !.k = batch.cursor,
                                        !.i = Selected(FALSE)[batch.cursor]]]
    BY DEF Take
  <1>3. \E p : Moved(crew, crew', w, p, 0)
    <2>1. CASE crew' = [crew EXCEPT ![w] = Out]
      BY <1>1, <2>1, OutIs, SetAll
    <2>2. CASE crew' = [crew EXCEPT ![w] = [Out EXCEPT !.pc = "acquire", !.k = batch.cursor,
                                            !.i = Selected(FALSE)[batch.cursor]]]
      <3>1. PICK k, i : k = batch.cursor /\ i = Selected(FALSE)[batch.cursor]
        OBVIOUS
      <3>2. crew' = [crew EXCEPT ![w] = [pc |-> "acquire", i |-> i, k |-> k, task |-> 0, tries |-> 0,
                                         r |-> Good("none")]]
        BY <2>2, <3>1, TakenIs
      <3> QED
        BY <1>1, <3>2, SetAll
    <2> QED
      BY <1>2, <2>1, <2>2
  <1> QED
    BY <1>1, <1>3, WorkerMoves DEF Take, Moved

(* Waiting for a place at the gate.                                        *)
LEMMA AcquireKeeps ==
    ASSUME TasksInv, NEW w \in Workers, Acquire(w)
    PROVE  TasksInv'
  <1>1. Shaped(crew) /\ crew[w].pc = "acquire"
    BY DEF TasksInv, TasksTypeOK, Acquire
  <1>2. \/ crew' = [crew EXCEPT ![w].pc = "start"]
        \/ crew' = [crew EXCEPT ![w].pc = "report", ![w].r = Fail("cancelled", 0)]
    BY DEF Acquire, Return
  <1>3. \E p : Moved(crew, crew', w, p, crew[w].task)
    BY <1>1, <1>2, SetPc, SetBoth
  <1> QED
    BY <1>1, <1>3, WorkerMoves DEF Acquire, Moved

(* Reporting a file's result.                                              *)
LEMMA ReportKeeps ==
    ASSUME TasksInv, NEW w \in Workers, Report(w)
    PROVE  TasksInv'
  <1>1. Shaped(crew) /\ crew[w].pc = "report"
    BY DEF TasksInv, TasksTypeOK, Report
  <1>2. \/ crew' = [crew EXCEPT ![w] = [Out EXCEPT !.r = crew[w].r]]
        \/ crew' = [crew EXCEPT ![w] = Out]
        \/ crew' = [crew EXCEPT ![w] = [Out EXCEPT !.pc = "take"]]
    BY DEF Report
  <1>3. /\ \A r : [Out EXCEPT !.r = r] = [pc |-> "out", i |-> 0, k |-> 0, task |-> 0, tries |-> 0,
                                          r |-> r]
        /\ [Out EXCEPT !.pc = "take"] = [pc |-> "take", i |-> 0, k |-> 0, task |-> 0, tries |-> 0,
                                         r |-> Good("none")]
    BY OutIs
  <1>4. \E p : Moved(crew, crew', w, p, 0)
    <2>1. CASE crew' = [crew EXCEPT ![w] = [Out EXCEPT !.r = crew[w].r]]
      <3>1. PICK r : r = crew[w].r
        OBVIOUS
      <3>2. crew' = [crew EXCEPT ![w] = [pc |-> "out", i |-> 0, k |-> 0, task |-> 0, tries |-> 0,
                                         r |-> r]]
        BY <1>3, <2>1, <3>1
      <3> QED
        BY <1>1, <3>2, SetAll
    <2>2. CASE crew' = [crew EXCEPT ![w] = Out]
      BY <1>1, <2>2, OutIs, SetAll
    <2>3. CASE crew' = [crew EXCEPT ![w] = [Out EXCEPT !.pc = "take"]]
      <3>1. crew' = [crew EXCEPT ![w] = [pc |-> "take", i |-> 0, k |-> 0, task |-> 0, tries |-> 0,
                                         r |-> Good("none")]]
        BY <1>3, <2>3
      <3> QED
        BY <1>1, <3>1, SetAll
    <2> QED
      BY <1>2, <2>1, <2>2, <2>3
  <1> QED
    BY <1>1, <1>4, WorkerMoves DEF Report, Moved

(* A task that DSM began is the caller's, or its start went unheard.       *)
LEMMA StartKeeps ==
    ASSUME TasksInv, NEW w \in Workers, Start(w)
    PROVE  TasksInv'
  <1> DEFINE code == job.files[crew[w].i].startCode
  <1>1. Shaped(crew) /\ crew[w].pc = "start" /\ copy' = copy /\ copied' = copied /\ notStopped' = notStopped
    BY DEF TasksInv, TasksTypeOK, Start
  <1>2. PICK answer \in StartAnswers(code), done \in BOOLEAN :
          /\ done => code = 0
          /\ Said(answer) => (done <=> code = 0)
          /\ IF done THEN Began ELSE UNCHANGED <<running, taskCount>>
          /\ unheard' = IF done /\ ~ Said(answer) THEN unheard \cup {NewTask} ELSE unheard
          /\ IF IsGood(send_attempt(answer, {}))
             THEN crew' = [crew EXCEPT ![w].pc = "poll", ![w].task = NewTask]
             ELSE \/ crew' = [crew EXCEPT ![w].tries = @ + 1]
                  \/ Return(w, send_attempt(answer, {}))
    BY DEF Start
  <1> HIDE DEF code
  <1>3. \/ Moved(crew, crew', w, "poll", NewTask) /\ IsGood(send_attempt(answer, {}))
        \/ Moved(crew, crew', w, "start", crew[w].task) /\ ~ IsGood(send_attempt(answer, {}))
        \/ Moved(crew, crew', w, "report", crew[w].task) /\ ~ IsGood(send_attempt(answer, {}))
    <2>1. CASE IsGood(send_attempt(answer, {}))
      BY <1>1, <1>2, <2>1, SetPoll
    <2>2. CASE ~ IsGood(send_attempt(answer, {})) /\ crew' = [crew EXCEPT ![w].tries = @ + 1]
      <3>1. PICK n : n = crew[w].tries + 1
        OBVIOUS
      <3>2. crew' = [crew EXCEPT ![w].tries = n]
        BY <1>1, <2>2, <3>1 DEF Shaped
      <3> QED
        <4>1. Moved(crew, crew', w, crew[w].pc, crew[w].task)
          BY <1>1, <3>2, SetTries
        <4> QED
          BY <1>1, <2>2, <4>1
    <2>3. CASE ~ IsGood(send_attempt(answer, {})) /\ Return(w, send_attempt(answer, {}))
      BY <1>1, <2>3, SetBoth DEF Return
    <2> QED
      BY <1>2, <2>1, <2>2, <2>3
  <1>4. Held \subseteq Held'
    BY <1>1, <1>3, HeldStays DEF Moved
  <1>5. Loose' \subseteq Loose
    <2>1. CASE ~done
      BY <1>2, <1>4, <2>1 DEF Loose
    <2>2. CASE done /\ ~Said(answer)
      BY <1>2, <1>4, <2>2 DEF Loose, Began
    <2>3. CASE done /\ Said(answer)
      <3>1. IsGood(send_attempt(answer, {}))
        BY <1>2, <2>3, StartBad
      <3>2. NewTask \in Held'
        <4>1. crew'[w].pc = "poll" /\ crew'[w].task = NewTask
          BY <1>3, <3>1 DEF Moved
        <4> QED
          BY <4>1, HeldNext
      <3> QED
        BY <1>2, <1>4, <2>3, <3>2 DEF Loose, Began
    <2> QED
      BY <2>1, <2>2, <2>3
  <1>6. TasksCounted'
    BY <1>1, <1>5, LooseKept
  <1>7. TasksTypeOK'
    <2>1. taskCount' \in Nat /\ running' \subseteq 1..taskCount'
      BY <1>2 DEF TasksInv, TasksTypeOK, Began, NewTask
    <2> QED
      BY <1>1, <1>3, <2>1 DEF TasksInv, TasksTypeOK, Moved
  <1> QED
    BY <1>1, <1>6, <1>7, AtWork, BesideNoCopy

(* Asking for a digest: the task has ended, or the worker turns to stop it.*)
LEMMA PollKeeps ==
    ASSUME TasksInv, NEW w \in Workers, Poll(w)
    PROVE  TasksInv'
  <1>1. /\ Shaped(crew) /\ crew[w].pc = "poll" /\ copy' = copy
        /\ UNCHANGED <<dsmTaskVars, notStopped, unheard>>
    BY DEF TasksInv, TasksTypeOK, Poll
  <1>2. \/ \E r : GiveUp(w, r)
        \/ crew[w].task \notin running /\ \E r : Return(w, r)
    BY DEF Poll
  <1>3. \/ Moved(crew, crew', w, "stop", crew[w].task)
        \/ crew[w].task \notin running /\ Moved(crew, crew', w, "report", crew[w].task)
    <2>1. ASSUME NEW r, GiveUp(w, r) PROVE Moved(crew, crew', w, "stop", crew[w].task)
      BY <1>1, <2>1, SetBoth DEF GiveUp
    <2>2. ASSUME NEW r, Return(w, r) PROVE Moved(crew, crew', w, "report", crew[w].task)
      BY <1>1, <2>2, SetBoth DEF Return
    <2> QED
      BY <1>2, <2>1, <2>2
  <1>4. Loose' \subseteq Loose
    <2>1. CASE Moved(crew, crew', w, "stop", crew[w].task)
      <3>1. Held \subseteq Held'
        BY <1>1, <2>1, HeldStays DEF Moved
      <3> QED
        BY <1>1, <3>1 DEF Loose, dsmTaskVars
    <2>2. CASE crew[w].task \notin running /\ Moved(crew, crew', w, "report", crew[w].task)
      <3>1. Held \ {crew[w].task} \subseteq Held'
        BY <1>1, <2>2, HeldBut DEF Moved
      <3> QED
        BY <1>1, <2>2, <3>1 DEF Loose, dsmTaskVars
    <2> QED
      BY <1>3, <2>1, <2>2
  <1>5. TasksCounted'
    BY <1>1, <1>4, LooseKept
  <1>6. TasksTypeOK'
    BY <1>1, <1>3 DEF TasksInv, TasksTypeOK, Moved, dsmTaskVars
  <1> QED
    BY <1>1, <1>5, <1>6, AtWork, BesideNoCopy

(* A task given up is ended, or counted if it may not be.                  *)
LEMMA StopCounts ==
    ASSUME TasksInv, NEW t, stop_task(t), Held \ {t} \subseteq Held', unheard' = unheard, taskCount' = taskCount
    PROVE  /\ TasksCounted'
           /\ taskCount' \in Nat /\ notStopped' \in Nat /\ running' \subseteq 1..taskCount' /\ running' \subseteq running
  <1>1. \/ notStopped' = notStopped /\ running' = running \ {t}
        \/ notStopped' = notStopped + 1 /\ running' \in {running, running \ {t}}
    BY DEF stop_task
  <1>2. CASE notStopped' = notStopped /\ running' = running \ {t}
    <2>1. Loose' \subseteq Loose
      BY <1>2 DEF Loose
    <2> QED
      BY <1>2, <2>1, LooseKept DEF TasksInv, TasksTypeOK
  <1>3. CASE notStopped' = notStopped + 1 /\ running' \in {running, running \ {t}}
    <2>1. Loose' \subseteq Loose \cup {t}
      BY <1>3 DEF Loose
    <2> QED
      BY <1>3, <2>1, LooseCounted DEF TasksInv, TasksTypeOK
  <1> QED
    BY <1>1, <1>2, <1>3

(* A worker's stop of its task.                                            *)
LEMMA StopKeeps ==
    ASSUME TasksInv, NEW w \in Workers, Stop(w)
    PROVE  TasksInv'
  <1>1. /\ Shaped(crew) /\ crew[w].pc = "stop" /\ copy' = copy /\ stop_task(crew[w].task)
        /\ crew' = [crew EXCEPT ![w].pc = "report"] /\ unheard' = unheard /\ taskCount' = taskCount
    BY DEF TasksInv, TasksTypeOK, Stop
  <1>2. Moved(crew, crew', w, "report", crew[w].task)
    BY <1>1, SetPc
  <1>3. Held \ {crew[w].task} \subseteq Held'
    BY <1>1, <1>2, HeldBut DEF Moved
  <1>4. TasksCounted' /\ taskCount' \in Nat /\ notStopped' \in Nat /\ running' \subseteq 1..taskCount'
    BY <1>1, <1>3, StopCounts
  <1>5. TasksTypeOK'
    BY <1>1, <1>2, <1>4 DEF TasksInv, TasksTypeOK, Moved
  <1> QED
    BY <1>1, <1>4, <1>5, AtWork, BesideNoCopy

(* The pass itself moves on between batches, when no worker has a task.    *)
LEMMA PassKeeps ==
    ASSUME TasksInv, PassStep
    PROVE  TasksInv'
  <1>1. pass.phase # "off" /\ UNCHANGED <<copy, dsmTaskVars, notStopped, unheard>>
    BY DEF PassStep, populate_remote_content_fingerprints_deferring, populate_remote_content_fingerprints,
       populate_remote_content_digests, PassCancelled, BeginBatch, EndBatch, InPass
  <1>2. copy.pc = "off" /\ copy' = copy
    BY <1>1 DEF TasksInv, CopyAlone
  <1>3. \/ crew' = crew
        \/ /\ \A w \in Workers : crew[w].pc = "out"
           /\ \E hands : crew' = [w \in Workers |-> IF w \in hands THEN [Out EXCEPT !.pc = "take"] ELSE Out]
    BY DEF PassStep, populate_remote_content_fingerprints_deferring, populate_remote_content_fingerprints,
       populate_remote_content_digests, PassCancelled, BeginBatch, EndBatch, InPass
  <1>4. Shaped(crew') /\ Held \subseteq Held'
    <2>1. CASE crew' = crew
      <3>1. Held' = Held
        BY <1>2, <2>1 DEF Held
      <3> QED
        BY <2>1, <3>1 DEF TasksInv, TasksTypeOK
    <2>2. ASSUME \A w \in Workers : crew[w].pc = "out", NEW hands,
                 crew' = [w \in Workers |-> IF w \in hands THEN [Out EXCEPT !.pc = "take"] ELSE Out]
          PROVE  Shaped(crew') /\ Held \subseteq Held'
      <3>1. [Out EXCEPT !.pc = "take"] = [pc |-> "take", i |-> 0, k |-> 0, task |-> 0, tries |-> 0,
                                          r |-> Good("none")]
        BY OutIs
      <3>2. Shaped(crew')
        BY <2>2, <3>1, OutIs DEF Shaped
      <3>3. Held = {}
        BY <1>2, <2>2 DEF Held
      <3> QED
        BY <3>2, <3>3
    <2> QED
      BY <1>3, <2>1, <2>2
  <1>5. Loose' \subseteq Loose
    BY <1>1, <1>4 DEF Loose, dsmTaskVars
  <1>6. TasksCounted'
    BY <1>1, <1>5, LooseKept
  <1>7. TasksTypeOK'
    BY <1>1, <1>4 DEF TasksInv, TasksTypeOK, dsmTaskVars
  <1> QED
    BY <1>2, <1>6, <1>7, BesideNoCopy

(* The copy's place and its result are set.                                *)
CopyMoved(d, p, t) == CopyShaped(d) /\ d.pc = p /\ d.task = t

(* A copy goes to another place.                                           *)
LEMMA CopyPlace ==
    ASSUME NEW c, CopyShaped(c), NEW p \in {"start", "verify", "done"}
    PROVE  CopyMoved([c EXCEPT !.pc = p], p, c.task) /\ [c EXCEPT !.pc = p].r = c.r
  BY DEF CopyShaped, CopyMoved

(* A copy comes to a result.                                               *)
LEMMA CopyResult ==
    ASSUME NEW c, CopyShaped(c), NEW p \in {"stop", "done"}, NEW r
    PROVE  CopyMoved([c EXCEPT !.pc = p, !.r = r], p, c.task) /\ [c EXCEPT !.pc = p, !.r = r].r = r
  <1>1. PICK e : e = [c EXCEPT !.pc = p]
    OBVIOUS
  <1>2. e = [pc |-> p, task |-> c.task, r |-> c.r, resent |-> c.resent]
    BY <1>1 DEF CopyShaped
  <1>3. [c EXCEPT !.pc = p, !.r = r] = [e EXCEPT !.r = r]
    BY <1>1 DEF CopyShaped
  <1>4. [e EXCEPT !.r = r] = [pc |-> p, task |-> c.task, r |-> r, resent |-> c.resent]
    BY <1>2
  <1> QED
    BY <1>3, <1>4 DEF CopyShaped, CopyMoved

(* A copy is told its task.                                                *)
LEMMA CopyBegun ==
    ASSUME NEW c, CopyShaped(c), NEW t
    PROVE  CopyMoved([c EXCEPT !.pc = "poll", !.task = t], "poll", t)
  <1>1. PICK p : p = "poll"
    OBVIOUS
  <1>2. PICK e : e = [c EXCEPT !.pc = p]
    OBVIOUS
  <1>3. e = [pc |-> p, task |-> c.task, r |-> c.r, resent |-> c.resent]
    BY <1>2 DEF CopyShaped
  <1>4. [c EXCEPT !.pc = "poll", !.task = t] = [e EXCEPT !.task = t]
    BY <1>1, <1>2 DEF CopyShaped
  <1>5. [e EXCEPT !.task = t] = [pc |-> p, task |-> t, r |-> c.r, resent |-> c.resent]
    BY <1>3
  <1> QED
    BY <1>1, <1>4, <1>5 DEF CopyShaped, CopyMoved

(* No digest begins beside a copy.                                         *)
LEMMA StillAlone ==
    ASSUME TasksInv, copy.pc # "off", UNCHANGED passVars
    PROVE  /\ CopyAlone' /\ Shaped(crew')
  BY DEF TasksInv, TasksTypeOK, CopyAlone, passVars

(* The checks before a copy is asked for.                                  *)
LEMMA CopyCheckKeeps ==
    ASSUME TasksInv, CopyCheck
    PROVE  TasksInv'
  <1>1. /\ copy.pc = "check" /\ CopyShaped(copy)
        /\ UNCHANGED <<passVars, dsmTaskVars, notStopped, unheard>>
    BY DEF CopyCheck, TasksInv, TasksTypeOK
  <1>2. \/ copy' = [copy EXCEPT !.pc = "start"]
        \/ \E r : copy' = [copy EXCEPT !.pc = "done", !.r = r]
    BY DEF CopyCheck, CopyEnds
  <1>3. CopyShaped(copy') /\ copy'.pc \in {"start", "done"}
    <2>1. CASE copy' = [copy EXCEPT !.pc = "start"]
      BY <1>1, <2>1, CopyPlace DEF CopyMoved
    <2>2. ASSUME NEW r, copy' = [copy EXCEPT !.pc = "done", !.r = r]
          PROVE  CopyShaped(copy') /\ copy'.pc = "done"
      BY <1>1, <2>2, CopyResult DEF CopyMoved
    <2> QED
      BY <1>2, <2>1, <2>2
  <1>4. CopyAlone' /\ Shaped(crew')
    BY <1>1, StillAlone
  <1>5. running' = {} /\ copied' = "none"
    BY <1>1 DEF TasksInv, NothingYet, dsmTaskVars
  <1>6. Loose' \subseteq Loose
    BY <1>5 DEF Loose
  <1>7. TasksCounted'
    BY <1>1, <1>6, LooseKept
  <1> QED
    BY <1>1, <1>3, <1>4, <1>5, <1>7 DEF TasksInv, TasksTypeOK, NothingYet, NotStartedIsNothing, dsmTaskVars

(* A renewed session starts the copy again, with nothing begun.            *)
LEMMA CopyRenewedKeeps ==
    ASSUME TasksInv, CopyRenewed
    PROVE  TasksInv'
  <1>1. /\ copy.pc = "start" /\ CopyShaped(copy)
        /\ UNCHANGED <<passVars, dsmTaskVars, notStopped, unheard>>
        /\ copy' = [copy EXCEPT !.resent = TRUE]
    BY DEF CopyRenewed, TasksInv, TasksTypeOK
  <1>2. PICK yes : yes = TRUE
    OBVIOUS
  <1>3. copy' = [copy EXCEPT !.resent = yes]
    BY <1>1, <1>2
  <1>4. CopyShaped(copy') /\ copy'.pc = "start"
    BY <1>1, <1>3 DEF CopyShaped
  <1>5. CopyAlone' /\ Shaped(crew')
    BY <1>1, StillAlone
  <1>6. running' = {} /\ copied' = "none"
    BY <1>1 DEF TasksInv, NothingYet, dsmTaskVars
  <1>7. Loose' \subseteq Loose
    BY <1>6 DEF Loose
  <1>8. TasksCounted'
    BY <1>1, <1>7, LooseKept
  <1> QED
    BY <1>1, <1>4, <1>5, <1>6, <1>8 DEF TasksInv, TasksTypeOK, NothingYet, NotStartedIsNothing, dsmTaskVars

(* What a proxy between says.                                              *)
LEMMA BadGateway ==
    ASSUME NEW answer, answer = [Lost EXCEPT !.reached = TRUE, !.status = 502]
    PROVE  answer.reached /\ answer.status = 502 /\ answer.length = "exact" /\ answer.form = "none"
  <1>1. answer.reached
    BY DEF Lost
  <1>2. answer.status = 502 /\ answer.length = "exact" /\ answer.form = "none"
    BY DEF Lost
  <1> QED
    BY <1>1, <1>2

(* What an answer that did not come, or a proxy's, is called.              *)
LEMMA NotSaid ==
    ASSUME NEW answer, answer \in {Lost, Unnamed, [Lost EXCEPT !.reached = TRUE, !.status = 502]}
    PROVE  LET r == send_attempt(answer, {}) IN ~IsGood(r) /\ copy_start_error(r).k # "not-started"
  <1>1. \/ ~answer.reached
        \/ answer.reached /\ answer.status = 502 /\ answer.length = "exact" /\ answer.form = "none"
        \/ answer.reached /\ answer.status = 200 /\ answer.length = "exact" /\ answer.form = "garbled"
    BY BadGateway, UnnamedIs DEF Lost
  <1>2. CASE ~answer.reached
    <2>1. send_attempt(answer, {}) = Fail("http", 0)
      BY <1>2 DEF send_attempt, remaining_control_timeout
    <2> QED
      BY <2>1 DEF Fail, IsGood, copy_start_error, ApiCode
  <1>3. CASE answer.reached /\ answer.status = 502 /\ answer.length = "exact" /\ answer.form = "none"
    <2>1. decode_response_body(answer) = Fail("status", answer.status)
      BY <1>3 DEF decode_response_body
    <2>2. decode_response_observed(answer) = decode_response_body(answer)
      BY <1>3 DEF decode_response_observed
    <2>3. send_attempt(answer, {}) = Fail("status", answer.status)
      BY <1>3, <2>1, <2>2 DEF send_attempt, remaining_control_timeout
    <2> QED
      BY <2>3 DEF Fail, IsGood, copy_start_error, ApiCode
  <1>4. CASE answer.reached /\ answer.status = 200 /\ answer.length = "exact" /\ answer.form = "garbled"
    <2>1. decode_response_body(answer) = Fail("invalid", 0)
      BY <1>4 DEF decode_response_body
    <2>2. decode_response_observed(answer) = decode_response_body(answer)
      BY <1>4 DEF decode_response_observed
    <2>3. send_attempt(answer, {}) = Fail("invalid", 0)
      BY <1>4, <2>1, <2>2 DEF send_attempt, remaining_control_timeout
    <2> QED
      BY <2>3 DEF Fail, IsGood, copy_start_error, ApiCode
  <1> QED
    BY <1>1, <1>2, <1>3, <1>4

(* The start of a copy: its task is named, or unheard, or was never begun. *)
LEMMA CopyStartKeeps ==
    ASSUME TasksInv, CopyStart
    PROVE  TasksInv'
  <1>1. /\ copy.pc = "start" /\ CopyShaped(copy) /\ UNCHANGED <<passVars, copied, notStopped>>
        /\ running = {} /\ copied = "none"
    BY DEF CopyStart, TasksInv, TasksTypeOK, NothingYet
  <1>2. PICK answer \in StartAnswers(job.startCode) \cup {[Lost EXCEPT !.reached = TRUE, !.status = 502]},
             done \in BOOLEAN :
          /\ done => job.startCode = 0
          /\ Said(answer) => (done <=> job.startCode = 0)
          /\ IF done THEN Began ELSE UNCHANGED <<running, taskCount>>
          /\ unheard' = IF done /\ ~ Said(answer) THEN unheard \cup {NewTask} ELSE unheard
          /\ IF IsGood(send_attempt(answer, {}))
             THEN copy' = [copy EXCEPT !.pc = "poll", !.task = NewTask]
             ELSE copy' = [copy EXCEPT !.pc = "done", !.r = copy_start_error(send_attempt(answer, {}))]
    BY ZenonT(90) DEF CopyStart, CopyEnds
  <1>3. \/ IsGood(send_attempt(answer, {})) /\ CopyMoved(copy', "poll", NewTask)
        \/ /\ ~IsGood(send_attempt(answer, {})) /\ CopyMoved(copy', "done", copy.task)
           /\ copy'.r = copy_start_error(send_attempt(answer, {}))
    <2>1. CASE IsGood(send_attempt(answer, {}))
      <3>1. PICK t : t = NewTask
        OBVIOUS
      <3>2. copy' = [copy EXCEPT !.pc = "poll", !.task = t]
        BY <1>2, <2>1, <3>1
      <3>3. CopyMoved(copy', "poll", t)
        BY <1>1, <3>2, CopyBegun
      <3> QED
        BY <2>1, <3>1, <3>3
    <2>2. CASE ~IsGood(send_attempt(answer, {}))
      <3>1. PICK r : r = copy_start_error(send_attempt(answer, {}))
        OBVIOUS
      <3>2. copy' = [copy EXCEPT !.pc = "done", !.r = r]
        BY <1>2, <2>2, <3>1
      <3> QED
        <4>1. CopyMoved([copy EXCEPT !.pc = "done", !.r = r], "done", copy.task)
          BY <1>1, CopyResult
        <4>2. [copy EXCEPT !.pc = "done", !.r = r].r = r
          BY <1>1, CopyResult
        <4> QED
          BY <2>2, <3>1, <3>2, <4>1, <4>2
    <2> QED
      BY <2>1, <2>2
  <1>4. CopyAlone' /\ Shaped(crew')
    BY <1>1, StillAlone
  <1>5. done => \/ answer = Success(NewTask)
                \/ answer \in {Lost, Unnamed, [Lost EXCEPT !.reached = TRUE, !.status = 502]}
    BY <1>2 DEF StartAnswers
  <1>6. answer = Success(NewTask) /\ job.startCode = 0 => IsGood(send_attempt(answer, {}))
    <2> SUFFICES ASSUME answer = Success(NewTask), job.startCode = 0
                 PROVE  IsGood(send_attempt(answer, {}))
      OBVIOUS
    <2>1. answer \in StartAnswers(job.startCode)
      BY DEF StartAnswers
    <2>2. Said(answer)
      BY DEF Success, Lost, Said
    <2> QED
      BY <2>1, <2>2, StartBad
  <1>7. answer \in {Lost, Unnamed, [Lost EXCEPT !.reached = TRUE, !.status = 502]} => ~Said(answer)
    BY BadGateway, UnnamedIs DEF Lost, Said
  <1>8. CASE IsGood(send_attempt(answer, {})) /\ CopyMoved(copy', "poll", NewTask)
    <2>1. NewTask \in Held'
      BY <1>8, HeldNext DEF CopyMoved
    <2>2. Loose' \subseteq Loose
      BY <1>1, <1>2, <2>1 DEF Loose, Began
    <2>3. TasksCounted'
      BY <1>1, <2>2, LooseKept
    <2>4. taskCount' \in Nat /\ running' \subseteq 1..taskCount'
      BY <1>2 DEF TasksInv, TasksTypeOK, Began, NewTask
    <2> QED
      BY <1>1, <1>4, <1>8, <2>3, <2>4 DEF TasksInv, TasksTypeOK, NothingYet, NotStartedIsNothing, CopyMoved
  <1>9. CASE /\ ~IsGood(send_attempt(answer, {})) /\ CopyMoved(copy', "done", copy.task)
             /\ copy'.r = copy_start_error(send_attempt(answer, {}))
    <2>1. done => ~Said(answer) /\ copy'.r.k # "not-started"
      BY <1>2, <1>5, <1>6, <1>7, <1>9, NotSaid
    <2>2. Loose' \subseteq Loose
      BY <1>1, <1>2, <2>1 DEF Loose, Began
    <2>3. TasksCounted'
      BY <1>1, <2>2, LooseKept
    <2>4. taskCount' \in Nat /\ running' \subseteq 1..taskCount'
      BY <1>2 DEF TasksInv, TasksTypeOK, Began, NewTask
    <2>5. copy'.r.k = "not-started" => running' = {} /\ copied' = "none"
      BY <1>1, <1>2, <2>1
    <2> QED
      BY <1>1, <1>4, <1>9, <2>3, <2>4, <2>5 DEF TasksInv, TasksTypeOK, NothingYet, NotStartedIsNothing, CopyMoved
  <1> QED
    BY <1>3, <1>8, <1>9

(* Once started a copy ends with what it found, never as not started.      *)
LEMMA CopyGoesOn ==
    ASSUME TasksInv, copy.pc \in {"poll", "verify"},
           UNCHANGED <<passVars, dsmTaskVars, notStopped, unheard>>,
           CopyShaped(copy'), copy'.pc \in {"stop", "verify", "done"},
           copy'.pc \in {"stop", "done"} => copy'.r.k # "not-started",
           copy'.pc = "stop" => copy'.task = copy.task /\ copy.pc = "poll",
           copy'.pc # "stop" /\ copy.pc = "poll" => copy.task \notin running
    PROVE  TasksInv'
  <1>1. CopyAlone' /\ Shaped(crew')
    BY StillAlone
  <1>2. Loose' \subseteq Loose
    <2> SUFFICES ASSUME NEW t \in running, t \in Held PROVE t \in Held'
      BY DEF Loose, dsmTaskVars
    <2>1. copy.pc = "poll" /\ copy.task = t
      BY HeldIs DEF TasksInv, CopyAlone
    <2>2. copy'.pc = "stop" /\ copy'.task = t
      BY <2>1
    <2> QED
      BY <2>2, HeldNext
  <1>3. TasksCounted'
    BY <1>2, LooseKept
  <1> QED
    BY <1>1, <1>3 DEF TasksInv, TasksTypeOK, NothingYet, NotStartedIsNothing, dsmTaskVars

(* Asking for the copy's status: it goes on only when its task has ended.  *)
LEMMA CopyPollKeeps ==
    ASSUME TasksInv, CopyPoll
    PROVE  TasksInv'
  <1>1. /\ copy.pc = "poll" /\ CopyShaped(copy)
        /\ UNCHANGED <<passVars, dsmTaskVars, notStopped, unheard>>
    BY DEF CopyPoll, TasksInv, TasksTypeOK
  <1>2. \/ \E r : r.k # "not-started" /\ copy' = [copy EXCEPT !.pc = "stop", !.r = r]
        \/ /\ copy.task \notin running
           /\ \E r : r.k # "not-started" /\ copy' = [copy EXCEPT !.pc = "done", !.r = r]
        \/ copy.task \notin running /\ copy' = [copy EXCEPT !.pc = "verify"]
    BY DEF CopyPoll, CopyGiveUp, CopyEnds, Fail
  <1>3. ASSUME NEW r, r.k # "not-started", NEW p \in {"stop", "done"},
               p = "stop" \/ copy.task \notin running,
               copy' = [copy EXCEPT !.pc = p, !.r = r]
        PROVE  TasksInv'
    <2>1. CopyMoved([copy EXCEPT !.pc = p, !.r = r], p, copy.task)
      BY <1>1, CopyResult
    <2>2. [copy EXCEPT !.pc = p, !.r = r].r = r
      BY <1>1, CopyResult
    <2>3. CopyShaped(copy') /\ copy'.pc = p /\ copy'.task = copy.task /\ copy'.r = r
      BY <1>3, <2>1, <2>2 DEF CopyMoved
    <2> QED
      BY <1>1, <1>3, <2>3, CopyGoesOn
  <1>4. CASE copy.task \notin running /\ copy' = [copy EXCEPT !.pc = "verify"]
    <2>1. CopyShaped(copy') /\ copy'.pc = "verify"
      BY <1>1, <1>4, CopyPlace DEF CopyMoved
    <2> QED
      BY <1>1, <1>4, <2>1, CopyGoesOn
  <1> QED
    BY <1>2, <1>3, <1>4

(* Comparing what was copied.                                              *)
LEMMA CopyVerifyKeeps ==
    ASSUME TasksInv, verify_remote_content
    PROVE  TasksInv'
  <1>1. /\ copy.pc = "verify" /\ CopyShaped(copy)
        /\ UNCHANGED <<passVars, dsmTaskVars, notStopped, unheard>>
    BY DEF verify_remote_content, TasksInv, TasksTypeOK
  <1>2. PICK r : r.k # "not-started" /\ copy' = [copy EXCEPT !.pc = "done", !.r = r]
    BY DEF verify_remote_content, CopyEnds, Fail, Good
  <1>3. CopyMoved([copy EXCEPT !.pc = "done", !.r = r], "done", copy.task)
    BY <1>1, CopyResult
  <1>4. [copy EXCEPT !.pc = "done", !.r = r].r = r
    BY <1>1, CopyResult
  <1>5. CopyShaped(copy') /\ copy'.pc = "done" /\ copy'.r = r
    BY <1>2, <1>3, <1>4 DEF CopyMoved
  <1> QED
    BY <1>1, <1>2, <1>5, CopyGoesOn

(* The copy's stop of its task.                                            *)
LEMMA CopyStopKeeps ==
    ASSUME TasksInv, CopyStop
    PROVE  TasksInv'
  <1>1. /\ copy.pc = "stop" /\ CopyShaped(copy) /\ UNCHANGED <<passVars, copied, taskCount, unheard>>
        /\ stop_task(copy.task) /\ copy' = [copy EXCEPT !.pc = "done"] /\ copy.r.k # "not-started"
    BY DEF CopyStop, TasksInv, TasksTypeOK, NothingYet
  <1>2. CopyMoved(copy', "done", copy.task) /\ copy'.r = copy.r
    BY <1>1, CopyPlace
  <1>3. CopyAlone' /\ Shaped(crew')
    BY <1>1, StillAlone
  <1>4. Held \ {copy.task} \subseteq Held'
    <2> SUFFICES ASSUME NEW t \in Held, t # copy.task PROVE FALSE
      OBVIOUS
    <2> QED
      BY <1>1, HeldIs DEF TasksInv, CopyAlone
  <1>5. TasksCounted' /\ taskCount' \in Nat /\ notStopped' \in Nat /\ running' \subseteq 1..taskCount'
    BY <1>1, <1>4, StopCounts
  <1> QED
    BY <1>1, <1>2, <1>3, <1>5 DEF TasksInv, TasksTypeOK, NothingYet, NotStartedIsNothing, CopyMoved

(* A task that ends by itself.                                             *)
LEMMA TaskEndsKeeps ==
    ASSUME TasksInv, NEW t \in running, TaskEnds(t)
    PROVE  TasksInv'
  <1>1. UNCHANGED <<passVars, copy, taskCount, notStopped, unheard>> /\ running' = running \ {t}
    BY DEF TaskEnds
  <1>2. copy.pc \notin {"check", "start"} /\ ~(copy.pc = "done" /\ copy.r.k = "not-started")
    BY DEF TasksInv, NothingYet, NotStartedIsNothing
  <1>3. Held' = Held
    BY <1>1 DEF Held, passVars
  <1>4. Loose' \subseteq Loose
    BY <1>1, <1>3 DEF Loose
  <1>5. TasksCounted'
    BY <1>1, <1>4, LooseKept
  <1> QED
    BY <1>1, <1>2, <1>5 DEF TasksInv, TasksTypeOK, CopyAlone, NothingYet, NotStartedIsNothing, passVars

(* What no task and nobody's place depends on.                             *)
LEMMA TasksStay ==
    ASSUME TasksInv, UNCHANGED <<passVars, copy, dsmTaskVars, notStopped, unheard>>
    PROVE  TasksInv'
  BY DEF TasksInv, TasksTypeOK, TasksCounted, Held, CopyAlone, NothingYet, NotStartedIsNothing, passVars, dsmTaskVars

(* Every step keeps the invariant.                                         *)
LEMMA TasksStep ==
    ASSUME TasksInv, [TasksNext]_taskVars
    PROVE  TasksInv'
  <1>1. CASE PassStep
    BY <1>1, PassKeeps
  <1>2. ASSUME NEW w \in Workers, WorkerStep(w) PROVE TasksInv'
    BY <1>2, TakeKeeps, AcquireKeeps, StartKeeps, PollKeeps, StopKeeps, ReportKeeps DEF WorkerStep
  <1>3. CASE CopyStep
    BY <1>3, CopyCheckKeeps, CopyStartKeeps, CopyPollKeeps, CopyStopKeeps, CopyVerifyKeeps DEF CopyStep
  <1>4. CASE CopyRenewed
    BY <1>4, CopyRenewedKeeps
  <1>5. ASSUME NEW t \in running, TaskEnds(t) PROVE TasksInv'
    BY <1>5, TaskEndsKeeps
  <1>6. CASE CancelTasks
    BY <1>6, TasksStay DEF CancelTasks
  <1>7. CASE UNCHANGED taskVars
    BY <1>7, TasksStay DEF taskVars
  <1> QED
    BY <1>1, <1>2, <1>3, <1>4, <1>5, <1>6, <1>7 DEF TasksNext

(* The invariant holds in every state of whatever job DSM is given.        *)
THEOREM TasksInvariant ==
    ASSUME NEW CONSTANT j
    PROVE  TasksInit(j) /\ [][TasksNext]_taskVars => []TasksInv
  BY TasksStart, TasksStep, PTL

(* DSM is left with no task that the run does not know of, whatever was    *)
(* lost, cancelled or out of time, and a copy reported as not started has  *)
(* none behind it (stop_task, copy_start_error, api.rs:2218).              *)
THEOREM TasksAreAccounted ==
    ASSUME NEW CONSTANT j
    PROVE  TasksInit(j) /\ [][TasksNext]_taskVars => []TasksAccounted
  <1>1. TasksInv => TasksAccounted
    BY DEF TasksInv, TasksAccounted
  <1> QED
    BY <1>1, TasksInvariant, PTL
=============================================================================
