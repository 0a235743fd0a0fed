-------------------------- MODULE UploadPoolProofs --------------------------
(***************************************************************************)
(* Proofs about the upload pool of UploadPool, for every number of workers *)
(* and uploads, every set of refusal classes and every breaker the earlier *)
(* phases may hand over.                                                   *)
(***************************************************************************)
EXTENDS UploadPool, FiniteSetTheorems, TLAPS

(* The breaker's methods return breakers.                                  *)
LEMMA BreakerType ==
    ASSUME NEW b \in Breakers
    PROVE  /\ Accepted(b) \in Breakers
           /\ \A c \in Classes \cup {NotRefused} : SettledAs(b, c) \in Breakers
  <1>1. Settle(b) \in Breakers
    BY DEF Settle, Breakers
  <1>2. Accepted(b) \in Breakers
    BY <1>1 DEF Accepted, Breakers
  <1>3. ASSUME NEW c \in Classes \cup {NotRefused}
        PROVE  SettledAs(b, c) \in Breakers
    <2>1. CASE c = NotRefused
      BY <1>1, <2>1 DEF SettledAs, Excluded
    <2>2. CASE c # NotRefused
      <3>1. SettledAs(b, c) =
              [pending     |-> Settle(b).pending,
               adjudicated |-> Settle(b).adjudicated + 1,
               inSync      |-> Settle(b).inSync,
               refused     |-> [Settle(b).refused EXCEPT ![c] = @ + 1]]
        BY <1>1, <2>2 DEF SettledAs, Breakers
      <3>2. [Settle(b).refused EXCEPT ![c] = @ + 1] \in [Classes -> Nat]
        BY <1>1, <1>3, <2>2 DEF Breakers
      <3> QED
        BY <1>1, <3>1, <3>2 DEF Breakers
    <2> QED
      BY <2>1, <2>2
  <1> QED
    BY <1>2, <1>3

(* One settlement takes one write out of the pending ones.                 *)
LEMMA SettlePending ==
    ASSUME NEW b \in Breakers, b.pending > 0
    PROVE  /\ Accepted(b).pending = b.pending - 1
           /\ \A c \in Classes \cup {NotRefused} : SettledAs(b, c).pending = b.pending - 1
  <1>1. Settle(b) \in Breakers /\ Settle(b).pending = b.pending - 1
    BY DEF Settle, Breakers
  <1>2. Accepted(b).pending = b.pending - 1
    BY <1>1 DEF Accepted, Breakers
  <1>3. ASSUME NEW c \in Classes \cup {NotRefused}
        PROVE  SettledAs(b, c).pending = b.pending - 1
    BY <1>1 DEF SettledAs, Excluded, Breakers
  <1> QED
    BY <1>2, <1>3

(* A settlement of a pending write never makes a tripped breaker pass: the *)
(* considered writes do not grow and no class loses a refusal.             *)
LEMMA SettleKeepsTrip ==
    ASSUME NEW b \in Breakers, b.pending > 0, Trips(b)
    PROVE  /\ Trips(Accepted(b))
           /\ \A c \in Classes \cup {NotRefused} : Trips(SettledAs(b, c))
  <1>1. PICK d \in Classes : b.refused[d] >= 3 /\ b.refused[d] * 2 > Considered(b)
    BY DEF Trips
  <1>2. /\ Settle(b) \in Breakers
        /\ Settle(b).pending = b.pending - 1
        /\ Settle(b).adjudicated = b.adjudicated
        /\ Settle(b).inSync = b.inSync
        /\ Settle(b).refused = b.refused
    BY DEF Settle, Breakers
  <1>3. b.refused[d] \in Nat
    BY DEF Breakers
  <1>4. Trips(Accepted(b))
    <2>1. /\ Accepted(b).refused = b.refused
          /\ Considered(Accepted(b)) = Considered(b)
      BY <1>2 DEF Accepted, Considered, Breakers
    <2> QED
      BY <1>1, <2>1 DEF Trips
  <1>5. ASSUME NEW c \in Classes \cup {NotRefused}
        PROVE  Trips(SettledAs(b, c))
    <2>1. CASE c = NotRefused
      <3>1. /\ SettledAs(b, c).refused = b.refused
            /\ Considered(SettledAs(b, c)) = Considered(b) - 1
        BY <1>2, <2>1 DEF SettledAs, Excluded, Considered, Breakers
      <3>2. Considered(b) \in Nat
        BY DEF Considered, Breakers
      <3> QED
        BY <1>1, <1>3, <3>1, <3>2 DEF Trips
    <2>2. CASE c # NotRefused
      <3>1. /\ SettledAs(b, c).refused = [b.refused EXCEPT ![c] = @ + 1]
            /\ Considered(SettledAs(b, c)) = Considered(b)
        BY <1>2, <2>2 DEF SettledAs, Considered, Breakers
      <3>2. SettledAs(b, c).refused[d] >= b.refused[d]
        BY <1>3, <3>1 DEF Breakers
      <3>3. /\ SettledAs(b, c).refused[d] \in Nat
            /\ Considered(b) \in Nat
        BY <3>1, <1>3 DEF Considered, Breakers
      <3> QED
        BY <1>1, <1>3, <3>1, <3>2, <3>3 DEF Trips
    <2> QED
      BY <2>1, <2>2
  <1> QED
    BY <1>4, <1>5

(* A worker at the judge holds a write that is still pending.              *)
LEMMA JudgedIsPending ==
    ASSUME TypeOK, QueueInv, NEW w \in Workers, pc[w] \in Unjudged
    PROVE  /\ item[w] \in Uploads
           /\ IsFiniteSet(settled)
           /\ breaker.pending > 0
           /\ Cardinality(settled \cup {item[w]}) = Cardinality(settled) + 1
  <1>1. item[w] \in Uploads /\ item[w] \notin settled
    BY DEF TypeOK, QueueInv, Holding, Unjudged, Uploads, NoUpload
  <1>2. IsFiniteSet(Uploads) /\ Cardinality(Uploads) = N
    BY NAssumption, FS_Interval DEF Uploads
  <1>3. IsFiniteSet(settled)
    BY <1>2, FS_Subset DEF TypeOK
  <1>4. Cardinality(settled \cup {item[w]}) = Cardinality(settled) + 1
    BY <1>1, <1>3, FS_AddElement
  <1>5. settled \cup {item[w]} \subseteq Uploads
    BY <1>1 DEF TypeOK
  <1>6. Cardinality(settled \cup {item[w]}) <= N
    BY <1>2, <1>5, FS_Subset
  <1>7. Cardinality(settled) \in Nat
    BY <1>3, FS_CardinalityType
  <1> QED
    BY <1>1, <1>3, <1>4, <1>6, <1>7, NAssumption DEF QueueInv

(* The outcomes a worker reports, and their tags.                          *)
LEMMA OutcomeType ==
    /\ Uploaded \in Outcomes /\ Uploaded.tag = "Uploaded"
    /\ \A c \in Classes \cup {NotRefused} :
          Deferred(c) \in Outcomes /\ Deferred(c).tag = "Deferred" /\ Deferred(c).class = c
    /\ \A e \in {"Cancelled", "Failure"} :
          Failed(e) \in Outcomes /\ Failed(e).tag = "Failed" /\ Failed(e).error = e
  BY DEF Outcomes, Uploaded, Deferred, Failed

(* Reading an outcome of one of the three kinds.                           *)
LEMMA OutcomeCases ==
    ASSUME NEW o \in Outcomes
    PROVE  /\ o.tag \in {"Uploaded", "Deferred", "Failed"}
           /\ o.tag = "Deferred" => o.class \in Classes \cup {NotRefused}
           /\ o.tag = "Failed" => o.error \in {"Cancelled", "Failure"}
  BY DEF Outcomes

(* Concluding an upload touches outcome, stop and pc only.                 *)
LEMMA ConcludeType ==
    ASSUME TypeOK, NEW w \in Workers, NEW o \in Outcomes, Conclude(w, o)
    PROVE  /\ outcome' \in [Workers -> Outcomes]
           /\ stop' \in BOOLEAN
           /\ pc' \in [Workers -> Labels]
           /\ pc' = [pc EXCEPT ![w] = IF o.tag = "Failed" THEN "send" ELSE "judge"]
           /\ outcome' = [outcome EXCEPT ![w] = o]
           /\ stop' = (stop \/ o.tag = "Failed")
  BY DEF TypeOK, Conclude, Goto, Labels

(* The pool starts with a full queue and nothing settled.                  *)
LEMMA InitIInv == Init => IInv
  <1> SUFFICES ASSUME Init PROVE IInv
    OBVIOUS
  <1>1. breaker \in Breakers /\ breaker.pending = N
    BY StartAssumption DEF Init
  <1>2. TypeOK
    <2>1. channel \in Seq([upload : Uploads, outcome : Outcomes])
      BY DEF Init
    <2>2. outcome \in [Workers -> Outcomes]
      BY OutcomeType DEF Init
    <2>3. /\ next \in 1 .. N + 1
          /\ late \in [Workers -> Nat]
          /\ pc \in [Workers -> Labels]
          /\ item \in [Workers -> Uploads \cup {NoUpload}]
      BY NAssumption DEF Init, Labels
    <2> QED
      BY <1>1, <2>1, <2>2, <2>3 DEF Init, TypeOK, NoError, Errors
  <1>3. QueueInv
    <2>1. Cardinality({}) = 0
      BY FS_EmptySet
    <2> QED
      BY <1>1, <2>1, NAssumption DEF Init, QueueInv, Holding, Unjudged, NoUpload
  <1>4. OutcomeInv /\ LateInv /\ TripInv /\ VerdictFailsRun
    BY DEF Init, OutcomeInv, LateInv, TripInv, VerdictFailsRun
  <1> QED
    BY <1>2, <1>3, <1>4 DEF IInv

(* A worker without work holds no upload.                                  *)
LEMMA LookForWorkStep ==
    ASSUME IInv, NEW w \in Workers, LookForWork(w)
    PROVE  IInv'
  <1> USE DEF Goto, historyVars, collectorVars, workerVars
  <1>1. TypeOK'
    BY NAssumption
       DEF IInv, TypeOK, QueueInv, Labels, Outcomes, Uploads, NoUpload, LookForWork
  <1>2. QueueInv'
    BY NAssumption
       DEF IInv, TypeOK, QueueInv, Holding, Unjudged, Labels, Uploads, NoUpload, LookForWork
  <1>3. OutcomeInv'
    BY DEF IInv, TypeOK, OutcomeInv, Labels, LookForWork
  <1>4. LateInv'
    BY NoWorkerAssumption DEF IInv, TypeOK, LateInv, Labels, LookForWork
  <1>5. TripInv' /\ VerdictFailsRun'
    BY NoWorkerAssumption DEF IInv, TypeOK, TripInv, VerdictFailsRun, Labels, LookForWork
  <1> QED
    BY <1>1, <1>2, <1>3, <1>4, <1>5 DEF IInv

(* The pop is what gives an upload to one worker only.                     *)
LEMMA PopStep ==
    ASSUME IInv, NEW w \in Workers, Pop(w)
    PROVE  IInv'
  <1> USE DEF Goto, historyVars, collectorVars
  <1>1. CASE next <= N
    <2>1. /\ item' = [item EXCEPT ![w] = next]
          /\ next' = next + 1
          /\ pc' = [pc EXCEPT ![w] = "precondition"]
      BY <1>1 DEF Pop
    <2>2. next \in Uploads /\ next' \in 1 .. N + 1
      BY <1>1, <2>1, NAssumption DEF IInv, TypeOK, Uploads
    <2>3. TypeOK'
      BY <2>1, <2>2 DEF IInv, TypeOK, Labels, Pop
    <2>4. QueueInv'
      <3>1. /\ item \in [Workers -> Int]
            /\ next \in Int
            /\ \A u \in settled : u \in Int
            /\ next # NoUpload
        BY <2>2, NAssumption DEF IInv, TypeOK, Uploads, NoUpload
      <3>2. settled' = settled /\ breaker' = breaker
        BY DEF Pop
      <3>3. /\ \A v \in Workers : item'[v] < next'
            /\ \A u \in settled' : u < next'
        BY <2>1, <3>1, <3>2 DEF IInv, QueueInv
      <3>4. \A v \in Workers : pc'[v] \in Holding => item'[v] # NoUpload
        BY <2>1, <3>1 DEF IInv, TypeOK, QueueInv, Holding
      <3>5. \A u, v \in Workers : u # v /\ item'[u] = item'[v] => item'[v] = NoUpload
        BY <2>1, <3>1 DEF IInv, QueueInv
      <3>6. \A v \in Workers : pc'[v] \in Unjudged => item'[v] \notin settled'
        BY <2>1, <3>1, <3>2 DEF IInv, TypeOK, QueueInv, Unjudged
      <3> QED
        BY <3>2, <3>3, <3>4, <3>5, <3>6 DEF IInv, QueueInv
    <2>5. OutcomeInv' /\ LateInv' /\ TripInv' /\ VerdictFailsRun'
      BY <2>1, NoWorkerAssumption
      DEF IInv, TypeOK, OutcomeInv, LateInv, TripInv, VerdictFailsRun, Pop
    <2> QED
      BY <2>3, <2>4, <2>5 DEF IInv
  <1>2. CASE ~(next <= N)
    <2>1. /\ pc' = [pc EXCEPT ![w] = "done"]
          /\ UNCHANGED <<item, next>>
      BY <1>2 DEF Pop
    <2>2. TypeOK'
      BY <2>1 DEF IInv, TypeOK, Labels, Pop
    <2>3. QueueInv'
      BY <2>1 DEF IInv, TypeOK, QueueInv, Holding, Unjudged, Pop
    <2>4. OutcomeInv' /\ LateInv' /\ TripInv' /\ VerdictFailsRun'
      BY <2>1, NoWorkerAssumption
      DEF IInv, TypeOK, OutcomeInv, LateInv, TripInv, VerdictFailsRun, Pop
    <2> QED
      BY <2>2, <2>3, <2>4 DEF IInv
  <1> QED
    BY <1>1, <1>2

(* The precondition's round trip changes no shared state.                  *)
LEMMA PreconditionHoldsStep ==
    ASSUME IInv, NEW w \in Workers, PreconditionHolds(w)
    PROVE  IInv'
  <1> USE DEF Goto, historyVars, collectorVars, workerVars
  <1>1. TypeOK'
    BY NAssumption
       DEF IInv, TypeOK, QueueInv, Labels, Outcomes, Uploads, NoUpload, PreconditionHolds
  <1>2. QueueInv'
    BY NAssumption
       DEF IInv, TypeOK, QueueInv, Holding, Unjudged, Labels, Uploads, NoUpload, PreconditionHolds
  <1>3. OutcomeInv'
    BY DEF IInv, TypeOK, OutcomeInv, Labels, PreconditionHolds
  <1>4. LateInv'
    BY NoWorkerAssumption DEF IInv, TypeOK, LateInv, Labels, PreconditionHolds
  <1>5. TripInv' /\ VerdictFailsRun'
    BY NoWorkerAssumption
       DEF IInv, TypeOK, TripInv, VerdictFailsRun, Labels, PreconditionHolds
  <1> QED
    BY <1>1, <1>2, <1>3, <1>4, <1>5 DEF IInv

(* A failed precondition ends in a deferral or stops the peers.            *)
LEMMA PreconditionFailsStep ==
    ASSUME IInv, NEW w \in Workers, PreconditionFails(w)
    PROVE  IInv'
  <1> USE DEF historyVars, collectorVars, workerVars
  <1>1. PICK o \in Outcomes : Conclude(w, o)
    BY OutcomeType DEF PreconditionFails
  <1>2. /\ pc' \in [Workers -> Labels]
        /\ pc' = [pc EXCEPT ![w] = IF o.tag = "Failed" THEN "send" ELSE "judge"]
        /\ outcome' \in [Workers -> Outcomes]
        /\ outcome' = [outcome EXCEPT ![w] = o]
        /\ stop' = (stop \/ o.tag = "Failed")
        /\ stop' \in BOOLEAN
    BY <1>1, ConcludeType DEF IInv
  <1>3. TypeOK'
    BY <1>2 DEF IInv, TypeOK, PreconditionFails
  <1>4. QueueInv'
    BY <1>2 DEF IInv, TypeOK, QueueInv, Holding, Unjudged, PreconditionFails
  <1>5. OutcomeInv'
    BY <1>2 DEF IInv, TypeOK, OutcomeInv, PreconditionFails
  <1>6. LateInv'
    BY <1>2, NoWorkerAssumption DEF IInv, TypeOK, LateInv, PreconditionFails
  <1>7. TripInv' /\ VerdictFailsRun'
    BY <1>2, NoWorkerAssumption
       DEF IInv, TypeOK, TripInv, VerdictFailsRun, PreconditionFails
  <1> QED
    BY <1>3, <1>4, <1>5, <1>6, <1>7 DEF IInv

(* After a verdict only a worker that looked before stop was set goes on.  *)
LEMMA LastLookStep ==
    ASSUME IInv, NEW w \in Workers, LastLook(w)
    PROVE  IInv'
  <1> USE DEF Goto, historyVars, collectorVars
  <1>1. CASE stop \/ cancelled
    <2>1. pc' = [pc EXCEPT ![w] = "done"] /\ UNCHANGED late
      BY <1>1 DEF LastLook
    <2>2. TypeOK'
      BY <2>1 DEF IInv, TypeOK, Labels, LastLook
    <2>3. QueueInv'
      BY <2>1 DEF IInv, TypeOK, QueueInv, Holding, Unjudged, LastLook
    <2>4. OutcomeInv' /\ LateInv' /\ TripInv' /\ VerdictFailsRun'
      BY <2>1, NoWorkerAssumption
      DEF IInv, TypeOK, OutcomeInv, LateInv, TripInv, VerdictFailsRun, LastLook
    <2> QED
      BY <2>2, <2>3, <2>4 DEF IInv
  <1>2. CASE ~stop /\ ~cancelled
    <2>1. /\ pc[w] = "look"
          /\ pc' = [pc EXCEPT ![w] = "uploading"]
          /\ late' = [late EXCEPT ![w] = IF verdictBy = NoWorker THEN @ ELSE @ + 1]
      BY <1>2 DEF LastLook
    <2>2. TypeOK'
      <3>1. late' \in [Workers -> Nat]
        BY <2>1 DEF IInv, TypeOK
      <3> QED
        BY <2>1, <3>1 DEF IInv, TypeOK, Labels, LastLook
    <2>3. QueueInv'
      BY <2>1 DEF IInv, TypeOK, QueueInv, Holding, Unjudged, LastLook
    <2>4. LateInv'
      (* Without stop, a worker at its last look has no late request yet.   *)
      <3>1. CASE verdictBy = NoWorker
        BY <2>1, <3>1 DEF IInv, TypeOK, LateInv, LastLook
      <3>2. CASE verdictBy # NoWorker
        <4>1. verdictBy # w /\ verdictBy \in Workers
          BY <1>2, <2>1, <3>2 DEF IInv, TypeOK, LateInv
        <4>2. late[w] = 0
          <5>1. late[w] \in Nat
            BY DEF IInv, TypeOK
          <5>2. late[w] <= 1
            BY <3>2 DEF IInv, LateInv
          <5>3. late[w] # 1
            BY <1>2, <2>1, <3>2 DEF IInv, LateInv
          <5> QED
            BY <5>1, <5>2, <5>3
        <4>3. late' = [late EXCEPT ![w] = 1]
          BY <2>1, <3>2, <4>2 DEF IInv, TypeOK
        <4> QED
          BY <1>2, <2>1, <4>1, <4>3 DEF IInv, TypeOK, LateInv, LastLook
      <3> QED
        BY <3>1, <3>2
    <2>5. OutcomeInv' /\ TripInv' /\ VerdictFailsRun'
      BY <2>1, NoWorkerAssumption
      DEF IInv, TypeOK, OutcomeInv, TripInv, VerdictFailsRun, LastLook
    <2> QED
      BY <2>2, <2>3, <2>4, <2>5 DEF IInv
  <1> QED
    BY <1>1, <1>2

(* What the upload answers is judged unless it failed.                     *)
LEMMA UploadAnswersStep ==
    ASSUME IInv, NEW w \in Workers, UploadAnswers(w)
    PROVE  IInv'
  <1> USE DEF historyVars, collectorVars, workerVars
  <1>1. PICK o \in Outcomes :
          Conclude(w, o) /\ (landed' = landed \cup {item[w]} \/ landed' = landed)
    BY OutcomeType DEF UploadAnswers
  <1>2. /\ pc' \in [Workers -> Labels]
        /\ pc' = [pc EXCEPT ![w] = IF o.tag = "Failed" THEN "send" ELSE "judge"]
        /\ outcome' \in [Workers -> Outcomes]
        /\ outcome' = [outcome EXCEPT ![w] = o]
        /\ stop' = (stop \/ o.tag = "Failed")
        /\ stop' \in BOOLEAN
    BY <1>1, ConcludeType DEF IInv
  <1>3. TypeOK'
    BY <1>2, <1>1, JudgedIsPending DEF IInv, TypeOK, Unjudged, UploadAnswers
  <1>4. QueueInv'
    BY <1>2 DEF IInv, TypeOK, QueueInv, Holding, Unjudged, UploadAnswers
  <1>5. OutcomeInv'
    BY <1>2 DEF IInv, TypeOK, OutcomeInv, UploadAnswers
  <1>6. LateInv'
    BY <1>2, NoWorkerAssumption DEF IInv, TypeOK, LateInv, UploadAnswers
  <1>7. TripInv' /\ VerdictFailsRun'
    BY <1>2, NoWorkerAssumption DEF IInv, TypeOK, TripInv, VerdictFailsRun, UploadAnswers
  <1> QED
    BY <1>3, <1>4, <1>5, <1>6, <1>7 DEF IInv

(* An aborted upload is a failure and is not judged.                       *)
LEMMA UploadAbortedStep ==
    ASSUME IInv, NEW w \in Workers, NEW byUser \in BOOLEAN, UploadAborted(w, byUser)
    PROVE  IInv'
  <1> USE DEF historyVars, collectorVars, workerVars
  <1>1. PICK o \in Outcomes : Conclude(w, o)
    BY OutcomeType DEF UploadAborted
  <1>2. /\ pc' \in [Workers -> Labels]
        /\ pc' = [pc EXCEPT ![w] = IF o.tag = "Failed" THEN "send" ELSE "judge"]
        /\ outcome' \in [Workers -> Outcomes]
        /\ outcome' = [outcome EXCEPT ![w] = o]
        /\ stop' = (stop \/ o.tag = "Failed")
        /\ stop' \in BOOLEAN
    BY <1>1, ConcludeType DEF IInv
  <1>3. TypeOK'
    BY <1>2 DEF IInv, TypeOK, UploadAborted
  <1>4. QueueInv'
    BY <1>2 DEF IInv, TypeOK, QueueInv, Holding, Unjudged, UploadAborted
  <1>5. OutcomeInv'
    BY <1>2 DEF IInv, TypeOK, OutcomeInv, UploadAborted
  <1>6. LateInv'
    BY <1>2, NoWorkerAssumption DEF IInv, TypeOK, LateInv, UploadAborted
  <1>7. TripInv' /\ VerdictFailsRun'
    BY <1>2, NoWorkerAssumption DEF IInv, TypeOK, TripInv, VerdictFailsRun, UploadAborted
  <1> QED
    BY <1>3, <1>4, <1>5, <1>6, <1>7 DEF IInv

(* The verdict's worker raises stop while it holds the judge lock.         *)
LEMMA StopPeersStep ==
    ASSUME IInv, NEW w \in Workers, StopPeers(w)
    PROVE  IInv'
  <1> USE DEF Goto, historyVars, collectorVars, workerVars
  <1>1. TypeOK'
    BY NAssumption
       DEF IInv, TypeOK, QueueInv, Labels, Outcomes, Uploads, NoUpload, StopPeers
  <1>2. QueueInv'
    BY NAssumption
       DEF IInv, TypeOK, QueueInv, Holding, Unjudged, Labels, Uploads, NoUpload, StopPeers
  <1>3. OutcomeInv'
    BY DEF IInv, TypeOK, OutcomeInv, Labels, StopPeers
  <1>4. LateInv'
    BY NoWorkerAssumption DEF IInv, TypeOK, LateInv, Labels, StopPeers
  <1>5. TripInv' /\ VerdictFailsRun'
    BY NoWorkerAssumption DEF IInv, TypeOK, TripInv, VerdictFailsRun, Labels, StopPeers
  <1> QED
    BY <1>1, <1>2, <1>3, <1>4, <1>5 DEF IInv

(* The verdict is recorded before the judge lock is dropped.               *)
LEMMA RecordTripStep ==
    ASSUME IInv, NEW w \in Workers, RecordTrip(w)
    PROVE  IInv'
  <1> USE DEF Goto, historyVars, collectorVars, workerVars
  <1>1. TypeOK'
    BY NAssumption
       DEF IInv, TypeOK, QueueInv, Labels, Outcomes, Uploads, NoUpload, RecordTrip
  <1>2. QueueInv'
    BY NAssumption
       DEF IInv, TypeOK, QueueInv, Holding, Unjudged, Labels, Uploads, NoUpload, RecordTrip
  <1>3. OutcomeInv'
    BY DEF IInv, TypeOK, OutcomeInv, Labels, RecordTrip
  <1>4. LateInv'
    BY NoWorkerAssumption DEF IInv, TypeOK, LateInv, Labels, RecordTrip
  <1>5. TripInv' /\ VerdictFailsRun'
    BY NoWorkerAssumption DEF IInv, TypeOK, TripInv, VerdictFailsRun, Labels, RecordTrip
  <1> QED
    BY <1>1, <1>2, <1>3, <1>4, <1>5 DEF IInv

(* The judge settles one write under the lock, and keeps it on a verdict.  *)
LEMMA JudgeUploadStep ==
    ASSUME IInv, NEW w \in Workers, JudgeUpload(w)
    PROVE  IInv'
  <1> USE DEF Goto, collectorVars
  <1>1. /\ item[w] \in Uploads
        /\ IsFiniteSet(settled)
        /\ breaker.pending > 0
        /\ Cardinality(settled \cup {item[w]}) = Cardinality(settled) + 1
    BY JudgedIsPending DEF IInv, JudgeUpload, Unjudged
  <1>2. breaker' \in Breakers /\ breaker'.pending = breaker.pending - 1
    <2>1. breaker \in Breakers /\ outcome[w] \in Outcomes /\ outcome[w].tag # "Failed"
      BY DEF IInv, TypeOK, OutcomeInv, JudgeUpload
    <2>2. CASE outcome[w].tag = "Uploaded"
      BY <1>1, <2>1, <2>2, BreakerType, SettlePending DEF JudgeUpload, SettleOutcome
    <2>3. CASE outcome[w].tag # "Uploaded"
      <3>1. outcome[w].class \in Classes \cup {NotRefused}
        BY <2>1, <2>3, OutcomeCases
      <3> QED
        BY <1>1, <2>1, <2>3, <3>1, BreakerType, SettlePending DEF JudgeUpload, SettleOutcome
    <2> QED
      BY <2>2, <2>3
  <1>3. /\ pc[w] = "judge"
        /\ judge = NoWorker
        /\ settled' = settled \cup {item[w]}
        /\ settled' \subseteq Uploads
        /\ pc' = [pc EXCEPT ![w] = IF Trips(breaker') THEN "stopPeers" ELSE "send"]
        /\ pc' \in [Workers -> Labels]
    BY <1>1 DEF JudgeUpload, IInv, TypeOK, Labels
  <1>4. /\ judge' = IF Trips(breaker') THEN w ELSE judge
        /\ verdictBy' = IF Trips(breaker') /\ verdictBy = NoWorker THEN w ELSE verdictBy
        /\ late' = IF Trips(breaker') /\ verdictBy = NoWorker
                   THEN [v \in Workers |-> IF pc[v] = "uploading" THEN 1 ELSE 0]
                   ELSE late
    BY DEF JudgeUpload
  <1>5. TypeOK'
    <2>1. late' \in [Workers -> Nat]
      BY <1>4 DEF IInv, TypeOK
    <2>2. judge' \in Workers \cup {NoWorker} /\ verdictBy' \in Workers \cup {NoWorker}
      BY <1>4 DEF IInv, TypeOK
    <2> QED
      BY <1>2, <1>3, <2>1, <2>2 DEF IInv, TypeOK, JudgeUpload
  <1>6. QueueInv'
    <2>1. item' = item /\ next' = next
      BY DEF JudgeUpload
    <2>2. \A v \in Workers : pc'[v] \in Unjudged => item'[v] \notin settled'
      BY <1>1, <1>3, <2>1 DEF IInv, TypeOK, QueueInv, Unjudged, Holding, Uploads, NoUpload
    <2>3. breaker'.pending = N - Cardinality(settled')
      <3>1. Cardinality(settled) \in Nat
        BY <1>1, FS_CardinalityType
      <3> QED
        BY <1>1, <1>2, <1>3, <3>1, NAssumption DEF IInv, QueueInv
    <2>4. \A v \in Workers : pc'[v] \in Holding => item'[v] # NoUpload
      BY <1>1, <1>3, <2>1 DEF IInv, TypeOK, QueueInv, Holding
    <2>5. \A u \in settled' : u < next'
      BY <1>3, <2>1 DEF IInv, QueueInv
    <2> QED
      BY <2>1, <2>2, <2>3, <2>4, <2>5 DEF IInv, QueueInv
  <1>7. OutcomeInv'
    BY <1>3 DEF IInv, TypeOK, OutcomeInv, JudgeUpload
  <1>8. LateInv'
    <2>1. stop' = stop
      BY DEF JudgeUpload
    <2>2. CASE Trips(breaker') /\ verdictBy = NoWorker
      BY <1>3, <1>4, <2>1, <2>2, NoWorkerAssumption DEF IInv, TypeOK, LateInv
    (* The verdict has fallen before: the free lock says that stop is set.  *)
    <2>3. CASE verdictBy # NoWorker
      BY <1>3, <1>4, <2>1, <2>3, NoWorkerAssumption DEF IInv, TypeOK, LateInv
    <2>4. CASE verdictBy = NoWorker /\ ~Trips(breaker')
      BY <1>3, <1>4, <2>1, <2>4, NoWorkerAssumption DEF IInv, TypeOK, LateInv
    <2> QED
      BY <2>2, <2>3, <2>4
  <1>9. TripInv' /\ VerdictFailsRun'
    <2>1. TripInv'
      BY <1>3, <1>4, NoWorkerAssumption DEF IInv, TypeOK, TripInv, JudgeUpload
    <2>2. VerdictFailsRun'
      BY <1>3, <1>4, NoWorkerAssumption
         DEF IInv, TypeOK, TripInv, VerdictFailsRun, JudgeUpload
    <2> QED
      BY <2>1, <2>2
  <1> QED
    BY <1>5, <1>6, <1>7, <1>8, <1>9 DEF IInv

(* A sent outcome leaves the worker without an upload.                     *)
LEMMA SendStep ==
    ASSUME IInv, NEW w \in Workers, Send(w)
    PROVE  IInv'
  <1> USE DEF Goto, historyVars, collectorVars
  <1>1. /\ pc[w] = "send"
        /\ pc' = [pc EXCEPT ![w] = "loop"]
        /\ item' = [item EXCEPT ![w] = NoUpload]
        /\ outcome' = [outcome EXCEPT ![w] = Uploaded]
        /\ channel' = Append(channel, [upload |-> item[w], outcome |-> outcome[w]])
    BY DEF Send
  <1>2. TypeOK'
    <2>1. item[w] \in Uploads /\ outcome[w] \in Outcomes
      BY <1>1 DEF IInv, TypeOK, QueueInv, Holding
    <2>2. channel' \in Seq([upload : Uploads, outcome : Outcomes])
      BY <1>1, <2>1 DEF IInv, TypeOK
    <2>3. /\ pc' \in [Workers -> Labels]
          /\ item' \in [Workers -> Uploads \cup {NoUpload}]
          /\ outcome' \in [Workers -> Outcomes]
      BY <1>1, OutcomeType DEF IInv, TypeOK, Labels
    <2> QED
      BY <2>2, <2>3 DEF IInv, TypeOK, Send
  <1>3. QueueInv'
    <2>1. next > NoUpload
      BY DEF IInv, TypeOK, NoUpload
    <2> QED
      BY <1>1, <2>1 DEF IInv, TypeOK, QueueInv, Holding, Unjudged, Send
  <1>4. OutcomeInv' /\ TripInv' /\ VerdictFailsRun'
    BY <1>1, NoWorkerAssumption
    DEF IInv, TypeOK, OutcomeInv, TripInv, VerdictFailsRun, Send
  <1>5. LateInv'
    BY <1>1, NoWorkerAssumption DEF IInv, TypeOK, LateInv, Send
  <1> QED
    BY <1>2, <1>3, <1>4, <1>5 DEF IInv

(* The collector touches only what it counts and the first error.          *)
LEMMA CollectStep ==
    ASSUME IInv, Collect
    PROVE  IInv'
  <1> USE DEF historyVars, workerVars
  <1>1. TypeOK'
    <2> DEFINE m == Head(channel)
    <2>1. /\ m \in [upload : Uploads, outcome : Outcomes]
          /\ channel' \in Seq([upload : Uploads, outcome : Outcomes])
      <3> DEFINE Messages == [upload : Uploads, outcome : Outcomes]
      <3>1. channel \in Seq(Messages) /\ channel # << >> /\ channel' = Tail(channel)
        BY DEF IInv, TypeOK, Collect
      <3> HIDE DEF Messages
      <3>2. Head(channel) \in Messages /\ Tail(channel) \in Seq(Messages)
        BY <3>1
      <3> QED
        BY <3>1, <3>2 DEF Messages
    <2>2. m.upload \in Uploads /\ m.outcome \in Outcomes
      BY <2>1
    <2>3. uploaded' \subseteq Uploads /\ deferred' \subseteq Uploads
      BY <2>2 DEF IInv, TypeOK, Collect
    <2>4. firstError' \in {NoError, "Cancelled", "Failure"}
      BY <2>2, OutcomeCases DEF IInv, TypeOK, Collect, RecordWorkerError
    <2> QED
      BY <2>1, <2>3, <2>4 DEF IInv, TypeOK, Collect
  <1>2. QueueInv' /\ OutcomeInv' /\ LateInv' /\ TripInv' /\ VerdictFailsRun'
    BY DEF IInv, QueueInv, OutcomeInv, LateInv, TripInv, VerdictFailsRun, Collect
  <1> QED
    BY <1>1, <1>2 DEF IInv

(* The result is a verdict if there was one.                               *)
LEMMA FinishStep ==
    ASSUME IInv, Finish
    PROVE  IInv'
  <1> USE DEF historyVars, workerVars
  <1> DEFINE error == IF tripped = NoError THEN firstError
                      ELSE RecordWorkerError(firstError, tripped)
  <1>1. error \in Errors \cup {NoError}
    BY DEF IInv, TypeOK, RecordWorkerError, Errors, NoError
  <1>2. result' = IF error # NoError THEN error
                  ELSE IF Trips(breaker) THEN "ShareWide"
                  ELSE IF cancelled THEN "Cancelled" ELSE "Ok"
    BY DEF Finish, PhaseResult
  <1>3. TypeOK'
    <2>1. result' \in Errors \cup {"running", "Ok"}
      BY <1>1, <1>2 DEF Errors
    <2> QED
      BY <2>1 DEF IInv, TypeOK, Finish
  <1>4. QueueInv' /\ OutcomeInv' /\ LateInv' /\ TripInv'
    BY DEF IInv, QueueInv, OutcomeInv, LateInv, TripInv, Finish
  <1>5. VerdictFailsRun'
    <2>1. verdictBy # NoWorker => tripped = "ShareWide"
      BY DEF IInv, TypeOK, TripInv, Finish
    <2>2. tripped = "ShareWide" => error \in {"ShareWide", "Failure"}
      BY DEF IInv, TypeOK, RecordWorkerError, NoError
    <2>3. verdictBy' = verdictBy
      BY DEF Finish
    <2> QED
      BY <1>2, <2>1, <2>2, <2>3 DEF VerdictFailsRun, NoError
  <1> QED
    BY <1>3, <1>4, <1>5 DEF IInv

(* A cancellation touches only the token.                                  *)
LEMMA CancelStep ==
    ASSUME IInv, Cancel
    PROVE  IInv'
  BY DEF IInv, TypeOK, QueueInv, OutcomeInv, LateInv, TripInv, VerdictFailsRun, Cancel,
         historyVars, workerVars, collectorVars

(* Every step of the pool, and every stuttering step, keeps the invariant. *)
LEMMA NextIInv == IInv /\ [Next]_vars => IInv'
  <1> SUFFICES ASSUME IInv, [Next]_vars PROVE IInv'
    OBVIOUS
  <1>1. ASSUME NEW w \in Workers, WorkerStep(w) PROVE IInv'
    BY <1>1, LookForWorkStep, PopStep, PreconditionHoldsStep, PreconditionFailsStep,
       LastLookStep, UploadAnswersStep, UploadAbortedStep, JudgeUploadStep,
       StopPeersStep, RecordTripStep, SendStep
    DEF WorkerStep
  <1>2. CASE UNCHANGED vars
    BY <1>2 DEF IInv, TypeOK, QueueInv, OutcomeInv, LateInv, TripInv, VerdictFailsRun,
       vars, historyVars, workerVars, collectorVars
  <1>3. CASE Over
    BY <1>2, <1>3 DEF Over
  <1> QED
    BY <1>1, <1>2, <1>3, CollectStep, FinishStep, CancelStep DEF Next

(* The pool's variables keep their types and the invariant holds in every  *)
(* reachable state.                                                        *)
THEOREM PoolInvariant == Spec => []IInv
  <1>1. Init => IInv
    BY InitIInv
  <1>2. IInv /\ [Next]_vars => IInv'
    BY NextIInv
  <1> QED
    BY <1>1, <1>2, PTL DEF Spec

(* Type correctness of the upload pool.                                    *)
THEOREM PoolTypeOK == Spec => []TypeOK
  <1>1. IInv => TypeOK
    BY DEF IInv
  <1> QED
    BY <1>1, PoolInvariant, PTL

(* However many workers race, each planned upload settles the breaker      *)
(* once: settle() is never called with nothing pending.                    *)
THEOREM PoolSettledOnce == Spec => []SettledOnce
  <1>1. IInv => SettledOnce
    <2> SUFFICES ASSUME IInv PROVE SettledOnce
      OBVIOUS
    <2>1. \A w \in Workers : pc[w] = "judge" => breaker.pending > 0
      BY JudgedIsPending DEF IInv, Unjudged
    <2> QED
      BY <2>1 DEF IInv, QueueInv, SettledOnce
  <1> QED
    BY <1>1, PoolInvariant, PTL

(* At most one request per other worker is in flight at the verdict or     *)
(* sent after it, for any number of workers and uploads.                   *)
THEOREM PoolOvershoot == Spec => []Overshoot
  <1>1. IInv => Overshoot
    BY DEF IInv, LateInv, Overshoot
  <1> QED
    BY <1>1, PoolInvariant, PTL

(* A verdict is never reported as success or as a cancellation.            *)
THEOREM PoolVerdictFailsRun == Spec => []VerdictFailsRun
  <1>1. IInv => VerdictFailsRun
    BY DEF IInv
  <1> QED
    BY <1>1, PoolInvariant, PTL

(* A breaker that tripped stays tripped: the verdict in mid-run is the     *)
(* verdict the end of the run would have reached.                          *)
THEOREM PoolVerdictStable == Spec => VerdictStable
  <1>1. IInv /\ [Next]_vars => [Trips(breaker) => Trips(breaker')]_vars
    <2> SUFFICES ASSUME IInv, Next, Trips(breaker)
                 PROVE  Trips(breaker')
      OBVIOUS
    <2>1. ASSUME NEW w \in Workers, JudgeUpload(w)
          PROVE  Trips(breaker')
      <3>1. /\ breaker \in Breakers
            /\ breaker.pending > 0
            /\ outcome[w] \in Outcomes
            /\ outcome[w].tag # "Failed"
        BY <2>1, JudgedIsPending DEF IInv, TypeOK, OutcomeInv, JudgeUpload, Unjudged
      <3>2. CASE outcome[w].tag = "Uploaded"
        BY <2>1, <3>1, <3>2, SettleKeepsTrip DEF JudgeUpload, SettleOutcome
      <3>3. CASE outcome[w].tag # "Uploaded"
        <4>1. outcome[w].class \in Classes \cup {NotRefused}
          BY <3>1, <3>3, OutcomeCases
        <4> QED
          BY <2>1, <3>1, <3>3, <4>1, SettleKeepsTrip DEF JudgeUpload, SettleOutcome
      <3> QED
        BY <3>2, <3>3
    <2>2. CASE UNCHANGED breaker
      BY <2>2
    <2>3. ASSUME NEW w \in Workers, WorkerStep(w), ~JudgeUpload(w)
          PROVE  UNCHANGED breaker
      BY <2>3 DEF WorkerStep, LookForWork, Pop, PreconditionHolds, PreconditionFails,
         LastLook, UploadAnswers, UploadAborted, StopPeers, RecordTrip, Send
    <2> QED
      BY <2>1, <2>2, <2>3 DEF Next, Collect, Finish, Cancel, Over, vars
  <1> QED
    BY <1>1, PoolInvariant, PTL DEF Spec, VerdictStable

(* Sending adds a message to what is sent.                                 *)
LEMMA SentAppend ==
    ASSUME TypeOK, QueueInv, NEW w \in Workers, Send(w)
    PROVE  Sent' = Sent \cup {[upload |-> item[w], outcome |-> outcome[w]]}
  <1> DEFINE Messages == [upload : Uploads, outcome : Outcomes]
             m == [upload |-> item[w], outcome |-> outcome[w]]
  <1>1. channel \in Seq(Messages) /\ m \in Messages /\ channel' = Append(channel, m)
    <2>1. item[w] \in Uploads
      BY DEF TypeOK, QueueInv, Send, Holding
    <2> QED
      BY <2>1 DEF TypeOK, Send
  <1> HIDE DEF Messages, m
  <1>2. /\ Len(channel') = Len(channel) + 1 /\ Len(channel) \in Nat
        /\ \A i \in 1 .. Len(channel) : channel'[i] = channel[i]
        /\ channel'[Len(channel) + 1] = m
    BY <1>1
  <1>3. Sent' = Sent \cup {m}
    BY <1>2 DEF Sent
  <1> QED
    BY <1>3 DEF m

(* Collecting takes at most the collected message out of what is sent.     *)
LEMMA SentTail ==
    ASSUME TypeOK, Collect
    PROVE  /\ Head(channel) \in Sent
           /\ Sent' \subseteq Sent
           /\ Sent \subseteq Sent' \cup {Head(channel)}
           /\ \A m \in Sent : m.upload \in Uploads /\ m.outcome \in Outcomes
  <1> DEFINE Messages == [upload : Uploads, outcome : Outcomes]
  <1>0. \A m \in Messages : m.upload \in Uploads /\ m.outcome \in Outcomes
    OBVIOUS
  <1>1. channel \in Seq(Messages) /\ channel # << >> /\ channel' = Tail(channel)
    BY DEF TypeOK, Collect
  <1> HIDE DEF Messages
  <1>2. /\ Len(channel) \in Nat \ {0} /\ Len(channel') = Len(channel) - 1
        /\ Head(channel) = channel[1]
        /\ \A i \in 1 .. Len(channel') : channel'[i] = channel[i + 1]
        /\ \A i \in 1 .. Len(channel) : channel[i] \in Messages
    BY <1>1
  <1>3. ASSUME NEW i \in 2 .. Len(channel) PROVE channel[i] \in Sent'
    <2>1. i - 1 \in 1 .. Len(channel') /\ channel'[i - 1] = channel[i]
      BY <1>2
    <2> QED
      BY <2>1 DEF Sent
  <1>4. Sent \subseteq Sent' \cup {channel[1]}
    <2>1. \A i \in 1 .. Len(channel) : i = 1 \/ i \in 2 .. Len(channel)
      BY <1>2
    <2> QED
      BY <1>3, <2>1 DEF Sent
  <1>5. Sent' \subseteq Sent
    <2>1. \A i \in 1 .. Len(channel') : i + 1 \in 1 .. Len(channel)
      BY <1>2
    <2> QED
      BY <1>2, <2>1 DEF Sent
  <1>6. Head(channel) \in Sent
    BY <1>2 DEF Sent
  <1>7. \A m \in Sent : m \in Messages
    BY <1>2 DEF Sent
  <1> QED
    BY <1>0, <1>2, <1>4, <1>5, <1>6, <1>7

(* LookForWork keeps causes, accounts and counts true.                     *)
LEMMA LookForWorkTruth ==
    ASSUME IInv, TruthInv, NEW w \in Workers, LookForWork(w)
    PROVE  TruthInv'
  <1> USE OutcomeType DEF IInv, TypeOK, historyVars, workerVars, collectorVars
  <1>0. Sent' = Sent
    BY DEF LookForWork, Sent
  <1>h. (Halting => Halting') /\ (Failing => Failing')
    BY <1>0 DEF LookForWork, Goto, Halting, Failing, Erring, Judged
  <1>1. CauseInv'
    BY <1>0 DEF LookForWork, Goto, TruthInv, CauseInv, Halting, Failing, Erring, Judged
  <1>2. AccountInv'
    BY <1>0, <1>h DEF LookForWork, Goto, TruthInv, CauseInv, AccountInv, Halting, Failing, Erring, Judged, Holding, QueueInv, NoUpload, Uploads
  <1>3. CountInv'
    BY <1>0 DEF LookForWork, Goto, TruthInv, CountInv, OnItsWay, Reporting
  <1>4. EndInv'
    BY DEF LookForWork, TruthInv, EndInv, CancelledIsGenuine, OkAccountsForAll, TripInv
  <1> QED
    BY <1>1, <1>2, <1>3, <1>4 DEF TruthInv

(* Pop keeps causes, accounts and counts true.                             *)
LEMMA PopTruth ==
    ASSUME IInv, TruthInv, NEW w \in Workers, Pop(w)
    PROVE  TruthInv'
  <1> USE OutcomeType DEF IInv, TypeOK, historyVars, workerVars, collectorVars
  <1>0. Sent' = Sent
    BY DEF Pop, Sent
  <1>h. (Halting => Halting') /\ (Failing => Failing')
    BY <1>0 DEF Pop, Goto, Halting, Failing, Erring, Judged
  <1>1. CauseInv'
    BY <1>0 DEF Pop, Goto, TruthInv, CauseInv, Halting, Failing, Erring, Judged
  <1>2. AccountInv'
    <2>1. CASE ~Halting /\ ~Halting'
      <3>1. \A v \in Workers : pc'[v] = "done" => next' = N + 1
        BY <2>1, NAssumption DEF Pop, Goto, TruthInv, AccountInv, CauseInv, Halting
      <3>2. ASSUME NEW u \in Uploads, u < next'
            PROVE  \/ u \in uploaded' \cup deferred'
                   \/ \E v \in Workers : pc'[v] \in Holding /\ item'[v] = u
                   \/ \E m \in Sent : m.upload = u
        <4>1. CASE u < next
          <5>1. ASSUME NEW v \in Workers, pc[v] \in Holding, item[v] = u
                PROVE  pc'[v] \in Holding /\ item'[v] = u
            BY <2>1, <5>1 DEF Pop, Goto, TruthInv, CauseInv, Halting, Holding
          <5>2. uploaded' = uploaded /\ deferred' = deferred
            BY DEF Pop
          <5> QED
            BY <2>1, <4>1, <5>1, <5>2 DEF TruthInv, AccountInv
        <4>2. CASE ~(u < next)
          BY <3>2, <4>2 DEF Pop, Goto, Holding, Uploads
        <4> QED
          BY <4>1, <4>2
      <3> QED
        BY <1>0, <3>1, <3>2 DEF AccountInv
    <2> QED
      BY <1>h, <2>1 DEF AccountInv
  <1>3. CountInv'
    <2>1. ASSUME NEW u \in Uploads, NEW v \in Workers
          PROVE  (pc'[v] \in Reporting /\ item'[v] = u /\ outcome'[v].tag = "Uploaded") <=>
                 \/ pc[v] \in Reporting /\ item[v] = u /\ outcome[v].tag = "Uploaded"
      BY DEF Pop, Goto, Reporting
    <2>2. uploaded' = uploaded /\ landed' = landed
      BY DEF Pop
    <2> QED
      BY <1>0, <2>1, <2>2 DEF TruthInv, CountInv, OnItsWay
  <1>4. EndInv'
    BY DEF Pop, TruthInv, EndInv, CancelledIsGenuine, OkAccountsForAll, TripInv
  <1> QED
    BY <1>1, <1>2, <1>3, <1>4 DEF TruthInv

(* PreconditionHolds keeps causes, accounts and counts true.               *)
LEMMA PreconditionHoldsTruth ==
    ASSUME IInv, TruthInv, NEW w \in Workers, PreconditionHolds(w)
    PROVE  TruthInv'
  <1> USE OutcomeType DEF IInv, TypeOK, historyVars, workerVars, collectorVars
  <1>0. Sent' = Sent
    BY DEF PreconditionHolds, Sent
  <1>h. (Halting => Halting') /\ (Failing => Failing')
    BY <1>0 DEF PreconditionHolds, Goto, Halting, Failing, Erring, Judged
  <1>1. CauseInv'
    BY <1>0 DEF PreconditionHolds, Goto, TruthInv, CauseInv, Halting, Failing, Erring, Judged
  <1>2. AccountInv'
    BY <1>0, <1>h DEF PreconditionHolds, Goto, TruthInv, CauseInv, AccountInv, Halting, Failing, Erring, Judged, Holding, QueueInv, NoUpload, Uploads
  <1>3. CountInv'
    BY <1>0 DEF PreconditionHolds, Goto, TruthInv, CountInv, OnItsWay, Reporting
  <1>4. EndInv'
    BY DEF PreconditionHolds, TruthInv, EndInv, CancelledIsGenuine, OkAccountsForAll, TripInv
  <1> QED
    BY <1>1, <1>2, <1>3, <1>4 DEF TruthInv

(* PreconditionFails keeps causes, accounts and counts true.               *)
LEMMA PreconditionFailsTruth ==
    ASSUME IInv, TruthInv, NEW w \in Workers, PreconditionFails(w)
    PROVE  TruthInv'
  <1> USE OutcomeType DEF IInv, TypeOK, historyVars, workerVars, collectorVars
  <1>0. Sent' = Sent
    BY DEF PreconditionFails, Sent
  <1>h. (Halting => Halting') /\ (Failing => Failing')
    <2>1. \A v \in Workers : v # w => pc'[v] = pc[v] /\ outcome'[v] = outcome[v]
      BY DEF PreconditionFails, Goto, Conclude
    <2>2. pc[w] \notin {"send", "stopPeers", "recordTrip"}
      BY DEF PreconditionFails
    <2>3. UNCHANGED <<firstError, tripped, cancelled>>
      BY DEF PreconditionFails
    <2>4. /\ Judged => Judged'
          /\ \A e : Erring(e) => Erring(e)'
      <3>1. ASSUME NEW e PROVE Erring(e) => Erring(e)'
        BY <1>0, <2>1, <2>2, <2>3 DEF Erring, Failed
      <3> QED
        BY <2>1, <2>2, <2>3, <3>1 DEF Judged
    <2> QED
      BY <2>3, <2>4 DEF Halting, Failing
  <1>1. CauseInv'
    <2>1. \A v \in Workers : v # w => pc'[v] = pc[v] /\ outcome'[v] = outcome[v]
      BY DEF PreconditionFails, Goto, Conclude
    <2>2. outcome'[w] = Failed("Cancelled") => cancelled
      BY DEF PreconditionFails, Conclude
    <2>3. UNCHANGED <<firstError, tripped, cancelled, userStopped>>
      BY DEF PreconditionFails
    <2>4. stop' => stop \/ (pc'[w] = "send" /\ outcome'[w] \in {Failed("Failure"), Failed("Cancelled")})
      BY DEF PreconditionFails, Conclude, Goto
    <2>5. stop' => Halting'
      BY <1>h, <2>4 DEF TruthInv, CauseInv, Halting, Failing, Erring
    <2>6. Erring("Cancelled")' => cancelled \/ Erring("Cancelled")
      BY <1>0, <2>1, <2>2, <2>3 DEF Erring
    <2> QED
      BY <1>h, <2>3, <2>5, <2>6 DEF TruthInv, CauseInv
  <1>2. AccountInv'
    <2>1. CASE ~Halting /\ ~Halting'
      <3>1. \A v \in Workers : pc'[v] = "done" => next' = N + 1
        BY <2>1, NAssumption DEF PreconditionFails, Goto, Conclude, TruthInv, AccountInv, CauseInv, Halting
      <3>2. ASSUME NEW u \in Uploads, u < next'
            PROVE  \/ u \in uploaded' \cup deferred'
                   \/ \E v \in Workers : pc'[v] \in Holding /\ item'[v] = u
                   \/ \E m \in Sent : m.upload = u
        <4>1. CASE u < next
          <5>1. ASSUME NEW v \in Workers, pc[v] \in Holding, item[v] = u
                PROVE  pc'[v] \in Holding /\ item'[v] = u
            BY <2>1, <5>1 DEF PreconditionFails, Goto, Conclude, TruthInv, CauseInv, Halting, Holding
          <5>2. uploaded' = uploaded /\ deferred' = deferred
            BY DEF PreconditionFails
          <5> QED
            BY <2>1, <4>1, <5>1, <5>2 DEF TruthInv, AccountInv
        <4>2. CASE ~(u < next)
          BY <3>2, <4>2 DEF PreconditionFails, Goto, Holding, Uploads
        <4> QED
          BY <4>1, <4>2
      <3> QED
        BY <1>0, <3>1, <3>2 DEF AccountInv
    <2> QED
      BY <1>h, <2>1 DEF AccountInv
  <1>3. CountInv'
    <2>1. ASSUME NEW u \in Uploads, NEW v \in Workers
          PROVE  (pc'[v] \in Reporting /\ item'[v] = u /\ outcome'[v].tag = "Uploaded") <=>
                 \/ pc[v] \in Reporting /\ item[v] = u /\ outcome[v].tag = "Uploaded"
      BY DEF PreconditionFails, Goto, Conclude, Reporting
    <2>2. uploaded' = uploaded /\ landed' = landed
      BY DEF PreconditionFails, Conclude
    <2> QED
      BY <1>0, <2>1, <2>2 DEF TruthInv, CountInv, OnItsWay
  <1>4. EndInv'
    BY DEF PreconditionFails, Conclude, TruthInv, EndInv, CancelledIsGenuine, OkAccountsForAll, TripInv
  <1> QED
    BY <1>1, <1>2, <1>3, <1>4 DEF TruthInv

(* LastLook keeps causes, accounts and counts true.                        *)
LEMMA LastLookTruth ==
    ASSUME IInv, TruthInv, NEW w \in Workers, LastLook(w)
    PROVE  TruthInv'
  <1> USE OutcomeType DEF IInv, TypeOK, historyVars, workerVars, collectorVars
  <1>0. Sent' = Sent
    BY DEF LastLook, Sent
  <1>h. (Halting => Halting') /\ (Failing => Failing')
    BY <1>0 DEF LastLook, Goto, Halting, Failing, Erring, Judged
  <1>1. CauseInv'
    BY <1>0 DEF LastLook, Goto, TruthInv, CauseInv, Halting, Failing, Erring, Judged
  <1>2. AccountInv'
    <2>1. CASE ~Halting /\ ~Halting'
      <3>1. \A v \in Workers : pc'[v] = "done" => next' = N + 1
        BY <2>1, NAssumption DEF LastLook, Goto, TruthInv, AccountInv, CauseInv, Halting
      <3>2. ASSUME NEW u \in Uploads, u < next'
            PROVE  \/ u \in uploaded' \cup deferred'
                   \/ \E v \in Workers : pc'[v] \in Holding /\ item'[v] = u
                   \/ \E m \in Sent : m.upload = u
        <4>1. CASE u < next
          <5>1. ASSUME NEW v \in Workers, pc[v] \in Holding, item[v] = u
                PROVE  pc'[v] \in Holding /\ item'[v] = u
            BY <2>1, <5>1 DEF LastLook, Goto, TruthInv, CauseInv, Halting, Holding
          <5>2. uploaded' = uploaded /\ deferred' = deferred
            BY DEF LastLook
          <5> QED
            BY <2>1, <4>1, <5>1, <5>2 DEF TruthInv, AccountInv
        <4>2. CASE ~(u < next)
          BY <3>2, <4>2 DEF LastLook, Goto, Holding, Uploads
        <4> QED
          BY <4>1, <4>2
      <3> QED
        BY <1>0, <3>1, <3>2 DEF AccountInv
    <2> QED
      BY <1>h, <2>1 DEF AccountInv
  <1>3. CountInv'
    <2>1. ASSUME NEW u \in Uploads, NEW v \in Workers
          PROVE  (pc'[v] \in Reporting /\ item'[v] = u /\ outcome'[v].tag = "Uploaded") <=>
                 \/ pc[v] \in Reporting /\ item[v] = u /\ outcome[v].tag = "Uploaded"
      BY DEF LastLook, Goto, Reporting
    <2>2. uploaded' = uploaded /\ landed' = landed
      BY DEF LastLook
    <2> QED
      BY <1>0, <2>1, <2>2 DEF TruthInv, CountInv, OnItsWay
  <1>4. EndInv'
    BY DEF LastLook, TruthInv, EndInv, CancelledIsGenuine, OkAccountsForAll, TripInv
  <1> QED
    BY <1>1, <1>2, <1>3, <1>4 DEF TruthInv

(* UploadAnswers keeps causes, accounts and counts true.                   *)
LEMMA UploadAnswersTruth ==
    ASSUME IInv, TruthInv, NEW w \in Workers, UploadAnswers(w)
    PROVE  TruthInv'
  <1> USE OutcomeType DEF IInv, TypeOK, historyVars, workerVars, collectorVars
  <1>0. Sent' = Sent
    BY DEF UploadAnswers, Sent
  <1>h. (Halting => Halting') /\ (Failing => Failing')
    <2>1. \A v \in Workers : v # w => pc'[v] = pc[v] /\ outcome'[v] = outcome[v]
      BY DEF UploadAnswers, Goto, Conclude
    <2>2. pc[w] \notin {"send", "stopPeers", "recordTrip"}
      BY DEF UploadAnswers
    <2>3. UNCHANGED <<firstError, tripped, cancelled>>
      BY DEF UploadAnswers
    <2>4. /\ Judged => Judged'
          /\ \A e : Erring(e) => Erring(e)'
      <3>1. ASSUME NEW e PROVE Erring(e) => Erring(e)'
        BY <1>0, <2>1, <2>2, <2>3 DEF Erring, Failed
      <3> QED
        BY <2>1, <2>2, <2>3, <3>1 DEF Judged
    <2> QED
      BY <2>3, <2>4 DEF Halting, Failing
  <1>1. CauseInv'
    <2>1. \A v \in Workers : v # w => pc'[v] = pc[v] /\ outcome'[v] = outcome[v]
      BY DEF UploadAnswers, Goto, Conclude
    <2>2. outcome'[w] = Failed("Cancelled") => cancelled
      BY DEF UploadAnswers, Conclude
    <2>3. UNCHANGED <<firstError, tripped, cancelled, userStopped>>
      BY DEF UploadAnswers
    <2>4. stop' => stop \/ (pc'[w] = "send" /\ outcome'[w] \in {Failed("Failure"), Failed("Cancelled")})
      BY DEF UploadAnswers, Conclude, Goto
    <2>5. stop' => Halting'
      BY <1>h, <2>4 DEF TruthInv, CauseInv, Halting, Failing, Erring
    <2>6. Erring("Cancelled")' => cancelled \/ Erring("Cancelled")
      BY <1>0, <2>1, <2>2, <2>3 DEF Erring
    <2> QED
      BY <1>h, <2>3, <2>5, <2>6 DEF TruthInv, CauseInv
  <1>2. AccountInv'
    <2>1. CASE ~Halting /\ ~Halting'
      <3>1. \A v \in Workers : pc'[v] = "done" => next' = N + 1
        BY <2>1, NAssumption DEF UploadAnswers, Goto, Conclude, TruthInv, AccountInv, CauseInv, Halting
      <3>2. ASSUME NEW u \in Uploads, u < next'
            PROVE  \/ u \in uploaded' \cup deferred'
                   \/ \E v \in Workers : pc'[v] \in Holding /\ item'[v] = u
                   \/ \E m \in Sent : m.upload = u
        <4>1. CASE u < next
          <5>1. ASSUME NEW v \in Workers, pc[v] \in Holding, item[v] = u
                PROVE  pc'[v] \in Holding /\ item'[v] = u
            BY <2>1, <5>1 DEF UploadAnswers, Goto, Conclude, TruthInv, CauseInv, Halting, Holding
          <5>2. uploaded' = uploaded /\ deferred' = deferred
            BY DEF UploadAnswers
          <5> QED
            BY <2>1, <4>1, <5>1, <5>2 DEF TruthInv, AccountInv
        <4>2. CASE ~(u < next)
          BY <3>2, <4>2 DEF UploadAnswers, Goto, Holding, Uploads
        <4> QED
          BY <4>1, <4>2
      <3> QED
        BY <1>0, <3>1, <3>2 DEF AccountInv
    <2> QED
      BY <1>h, <2>1 DEF AccountInv
  <1>3. CountInv'
    <2>1. ASSUME NEW u \in Uploads, NEW v \in Workers
          PROVE  (pc'[v] \in Reporting /\ item'[v] = u /\ outcome'[v].tag = "Uploaded") <=>
                 \/ pc[v] \in Reporting /\ item[v] = u /\ outcome[v].tag = "Uploaded"
                 \/ v = w /\ u = item[w] /\ outcome'[w] = Uploaded
      BY DEF UploadAnswers, Goto, Conclude, Reporting
    <2>2. uploaded' = uploaded /\ landed' = landed \cup (IF outcome'[w] = Uploaded THEN {item[w]} ELSE {})
      BY DEF UploadAnswers, Conclude
    <2> QED
      BY <1>0, <2>1, <2>2 DEF TruthInv, CountInv, OnItsWay
  <1>4. EndInv'
    BY DEF UploadAnswers, Conclude, TruthInv, EndInv, CancelledIsGenuine, OkAccountsForAll, TripInv
  <1> QED
    BY <1>1, <1>2, <1>3, <1>4 DEF TruthInv

(* UploadAborted keeps causes, accounts and counts true.                   *)
LEMMA UploadAbortedTruth ==
    ASSUME IInv, TruthInv, NEW w \in Workers, NEW byUser, UploadAborted(w, byUser)
    PROVE  TruthInv'
  <1> USE OutcomeType DEF IInv, TypeOK, historyVars, workerVars, collectorVars
  <1>0. Sent' = Sent
    BY DEF UploadAborted, Sent
  <1>h. (Halting => Halting') /\ (Failing => Failing')
    BY <1>0 DEF UploadAborted, Goto, Conclude, Halting, Failing, Erring, Judged
  <1>1. CauseInv'
    BY <1>0 DEF UploadAborted, Goto, Conclude, TruthInv, CauseInv, Halting, Failing, Erring, Judged
  <1>2. AccountInv'
    BY <1>0, <1>h DEF UploadAborted, Goto, Conclude, TruthInv, CauseInv, AccountInv, Halting, Failing, Erring, Judged, Holding, QueueInv, NoUpload, Uploads
  <1>3. CountInv'
    BY <1>0 DEF UploadAborted, Goto, Conclude, TruthInv, CountInv, OnItsWay, Reporting
  <1>4. EndInv'
    BY DEF UploadAborted, Conclude, TruthInv, EndInv, CancelledIsGenuine, OkAccountsForAll, TripInv
  <1> QED
    BY <1>1, <1>2, <1>3, <1>4 DEF TruthInv

(* JudgeUpload keeps causes, accounts and counts true.                     *)
LEMMA JudgeUploadTruth ==
    ASSUME IInv, TruthInv, NEW w \in Workers, JudgeUpload(w)
    PROVE  TruthInv'
  <1> USE OutcomeType DEF IInv, TypeOK, historyVars, workerVars, collectorVars
  <1>0. Sent' = Sent
    BY DEF JudgeUpload, Sent
  <1>h. (Halting => Halting') /\ (Failing => Failing')
    BY <1>0 DEF JudgeUpload, Goto, Halting, Failing, Erring, Judged
  <1>1. CauseInv'
    <2>1. Erring("Cancelled")' => Erring("Cancelled")
      <3>1. outcome' = outcome /\ outcome[w] # Failed("Cancelled")
        BY DEF JudgeUpload, OutcomeInv
      <3> QED
        BY <1>0, <3>1 DEF JudgeUpload, Goto, Erring
    <2>2. UNCHANGED <<stop, cancelled, userStopped>>
      BY DEF JudgeUpload
    <2> QED
      BY <1>h, <2>1, <2>2 DEF TruthInv, CauseInv
  <1>2. AccountInv'
    <2>1. CASE Halting
      BY <1>h, <2>1 DEF AccountInv
    <2>2. CASE ~Halting
      <3>1. /\ \A v \in Workers : pc[v] = "done" => next = N + 1
            /\ \A u \in Uploads : u < next =>
                  \/ u \in uploaded \cup deferred
                  \/ \E v \in Workers : pc[v] \in Holding /\ item[v] = u
                  \/ \E m \in Sent : m.upload = u
        BY <2>2 DEF TruthInv, AccountInv
      <3>2. UNCHANGED <<next, item, uploaded, deferred>>
        BY DEF JudgeUpload
      <3>3. \A v \in Workers : /\ pc'[v] = "done" => pc[v] = "done"
                               /\ pc[v] \in Holding => pc'[v] \in Holding
        BY DEF JudgeUpload, Goto, Holding
      <3> QED
        BY <1>0, <3>1, <3>2, <3>3 DEF AccountInv
    <2> QED
      BY <2>1, <2>2
  <1>3. CountInv'
    <2>1. \A v \in Workers : pc'[v] \in Reporting <=> pc[v] \in Reporting
      BY DEF JudgeUpload, Goto, Reporting
    <2>2. UNCHANGED <<item, outcome, uploaded, landed>>
      BY DEF JudgeUpload
    <2> QED
      BY <1>0, <2>1, <2>2 DEF TruthInv, CountInv, OnItsWay
  <1>4. EndInv'
    BY DEF JudgeUpload, TruthInv, EndInv, CancelledIsGenuine, OkAccountsForAll, TripInv
  <1> QED
    BY <1>1, <1>2, <1>3, <1>4 DEF TruthInv

(* StopPeers keeps causes, accounts and counts true.                       *)
LEMMA StopPeersTruth ==
    ASSUME IInv, TruthInv, NEW w \in Workers, StopPeers(w)
    PROVE  TruthInv'
  <1> USE OutcomeType DEF IInv, TypeOK, historyVars, workerVars, collectorVars
  <1>0. Sent' = Sent
    BY DEF StopPeers, Sent
  <1>h. (Halting => Halting') /\ (Failing => Failing')
    BY <1>0 DEF StopPeers, Goto, Halting, Failing, Erring, Judged
  <1>1. CauseInv'
    BY <1>0 DEF StopPeers, Goto, TruthInv, CauseInv, Halting, Failing, Erring, Judged
  <1>2. AccountInv'
    BY <1>0, <1>h DEF StopPeers, Goto, TruthInv, CauseInv, AccountInv, Halting, Failing, Erring, Judged, Holding, QueueInv, NoUpload, Uploads
  <1>3. CountInv'
    BY <1>0 DEF StopPeers, Goto, TruthInv, CountInv, OnItsWay, Reporting
  <1>4. EndInv'
    BY DEF StopPeers, TruthInv, EndInv, CancelledIsGenuine, OkAccountsForAll, TripInv
  <1> QED
    BY <1>1, <1>2, <1>3, <1>4 DEF TruthInv

(* RecordTrip keeps causes, accounts and counts true.                      *)
LEMMA RecordTripTruth ==
    ASSUME IInv, TruthInv, NEW w \in Workers, RecordTrip(w)
    PROVE  TruthInv'
  <1> USE OutcomeType DEF IInv, TypeOK, historyVars, workerVars, collectorVars
  <1>0. Sent' = Sent
    BY DEF RecordTrip, Sent
  <1>h. (Halting => Halting') /\ (Failing => Failing')
    BY <1>0 DEF RecordTrip, Goto, Halting, Failing, Erring, Judged
  <1>1. CauseInv'
    BY <1>0 DEF RecordTrip, Goto, TruthInv, CauseInv, Halting, Failing, Erring, Judged
  <1>2. AccountInv'
    BY <1>0, <1>h DEF RecordTrip, Goto, TruthInv, CauseInv, AccountInv, Halting, Failing, Erring, Judged, Holding, QueueInv, NoUpload, Uploads
  <1>3. CountInv'
    BY <1>0 DEF RecordTrip, Goto, TruthInv, CountInv, OnItsWay, Reporting
  <1>4. EndInv'
    BY DEF RecordTrip, TruthInv, EndInv, CancelledIsGenuine, OkAccountsForAll, TripInv
  <1> QED
    BY <1>1, <1>2, <1>3, <1>4 DEF TruthInv

(* What a worker held is now a message: no error, upload or count is lost on*)
(* the way.                                                                *)
LEMMA SendTruth ==
    ASSUME IInv, TruthInv, NEW w \in Workers, Send(w)
    PROVE  TruthInv'
  <1> USE OutcomeType DEF IInv, TypeOK, historyVars, workerVars, collectorVars
  <1> DEFINE m == [upload |-> item[w], outcome |-> outcome[w]]
  <1>0. Sent' = Sent \cup {m} /\ m.upload = item[w] /\ m.outcome = outcome[w]
    BY SentAppend
  <1>1. /\ pc[w] = "send" /\ pc'[w] = "loop" /\ item[w] \in Uploads
        /\ \A v \in Workers : v # w => pc'[v] = pc[v] /\ item'[v] = item[v] /\ outcome'[v] = outcome[v]
        /\ UNCHANGED <<next, stop, cancelled, tripped, firstError, uploaded, deferred, result, landed, userStopped>>
    BY DEF Send, Goto, QueueInv, Holding
  <1> HIDE DEF m
  <1>2. \A e : Erring(e)' <=> Erring(e)
    <2> SUFFICES ASSUME NEW e PROVE Erring(e)' <=> Erring(e)
      OBVIOUS
    <2>1. ASSUME NEW v \in Workers, pc[v] = "send", outcome[v] = Failed(e)
          PROVE  Erring(e)'
      <3>1. CASE v = w
        BY <1>0, <2>1, <3>1 DEF Erring, Failed
      <3>2. CASE v # w
        BY <1>1, <2>1, <3>2 DEF Erring, Failed
      <3> QED
        BY <3>1, <3>2
    <2>2. ASSUME NEW v \in Workers, pc'[v] = "send", outcome'[v] = Failed(e)
          PROVE  Erring(e)
      BY <1>1, <2>2 DEF Erring
    <2>3. ASSUME NEW n \in Sent', n.outcome = Failed(e)
          PROVE  Erring(e)
      BY <1>0, <1>1, <2>3 DEF Erring
    <2> QED
      BY <1>0, <1>1, <2>1, <2>2, <2>3 DEF Erring, Failed
  <1>3. Judged' <=> Judged
    BY <1>1 DEF Judged
  <1>4. (Halting' <=> Halting) /\ (Failing' <=> Failing)
    BY <1>1, <1>2, <1>3 DEF Halting, Failing
  <1>5. CauseInv'
    BY <1>1, <1>2, <1>4 DEF TruthInv, CauseInv
  <1>6. AccountInv'
    <2>1. CASE ~Halting
      <3>1. \A v \in Workers : pc'[v] = "done" => next' = N + 1
        BY <1>1, <2>1 DEF TruthInv, AccountInv
      <3>2. ASSUME NEW u \in Uploads, u < next
            PROVE  \/ u \in uploaded \cup deferred
                   \/ \E v \in Workers : pc'[v] \in Holding /\ item'[v] = u
                   \/ \E n \in Sent' : n.upload = u
        <4>1. ASSUME NEW v \in Workers, pc[v] \in Holding, item[v] = u
              PROVE  (pc'[v] \in Holding /\ item'[v] = u) \/ m.upload = u
          BY <1>0, <1>1, <4>1
        <4> QED
          BY <1>0, <2>1, <3>2, <4>1 DEF TruthInv, AccountInv
      <3> QED
        BY <1>1, <3>1, <3>2 DEF AccountInv
    <2> QED
      BY <1>4, <2>1 DEF AccountInv
  <1>7. CountInv'
    <2>1. ASSUME NEW u \in Uploads PROVE OnItsWay(u, "Uploaded")' <=> OnItsWay(u, "Uploaded")
      <3>1. ASSUME NEW v \in Workers, pc[v] \in Reporting, item[v] = u, outcome[v].tag = "Uploaded"
            PROVE  OnItsWay(u, "Uploaded")'
        <4>1. v # w => pc'[v] \in Reporting /\ item'[v] = u /\ outcome'[v].tag = "Uploaded"
          BY <1>1, <3>1
        <4>2. v = w => m \in Sent' /\ m.upload = u /\ m.outcome.tag = "Uploaded"
          BY <1>0, <3>1
        <4> QED
          BY <4>1, <4>2 DEF OnItsWay
      <3>2. ASSUME NEW v \in Workers, pc'[v] \in Reporting, item'[v] = u, outcome'[v].tag = "Uploaded"
            PROVE  OnItsWay(u, "Uploaded")
        <4>1. v # w
          BY <1>1, <3>2 DEF Reporting
        <4> QED
          BY <1>1, <3>2, <4>1 DEF OnItsWay
      <3>3. m.upload = u /\ m.outcome.tag = "Uploaded" => OnItsWay(u, "Uploaded")
        BY <1>0, <1>1 DEF OnItsWay, Reporting
      <3> QED
        BY <1>0, <3>1, <3>2, <3>3 DEF OnItsWay
    <2> QED
      BY <1>1, <2>1 DEF TruthInv, CountInv
  <1>8. EndInv'
    <2>1. result = "running"
      BY <1>1 DEF TripInv
    <2> QED
      BY <1>1, <2>1 DEF EndInv, CancelledIsGenuine, OkAccountsForAll
  <1> QED
    BY <1>5, <1>6, <1>7, <1>8 DEF TruthInv

(* record_worker_error keeps a failure over a cancellation, so that no cause*)
(* is forgotten when it is collected.                                      *)
LEMMA CollectTruth ==
    ASSUME IInv, TruthInv, Collect
    PROVE  TruthInv'
  <1> USE OutcomeType DEF IInv, TypeOK, historyVars, workerVars, collectorVars
  <1> DEFINE m == Head(channel)
  <1>0. /\ m \in Sent /\ Sent' \subseteq Sent /\ Sent \subseteq Sent' \cup {m}
        /\ m.upload \in Uploads /\ m.outcome \in Outcomes
    BY SentTail
  <1>1. /\ UNCHANGED <<next, pc, item, outcome, stop, cancelled, tripped, result, landed, userStopped>>
        /\ uploaded' = IF m.outcome.tag = "Uploaded" THEN uploaded \cup {m.upload} ELSE uploaded
        /\ deferred' = IF m.outcome.tag = "Deferred" THEN deferred \cup {m.upload} ELSE deferred
        /\ firstError' = IF m.outcome.tag = "Failed"
                         THEN RecordWorkerError(firstError, m.outcome.error) ELSE firstError
    BY DEF Collect
  <1> HIDE DEF m
  <1>2. m.outcome.tag = "Failed" =>
          m.outcome.error \in {"Cancelled", "Failure"} /\ m.outcome = Failed(m.outcome.error)
    BY <1>0 DEF Outcomes, Failed
  <1>3. Erring("Failure") => Erring("Failure")'
    BY <1>0, <1>1, <1>2 DEF Erring, RecordWorkerError, NoError
  <1>4. Erring("Cancelled")' => Erring("Cancelled")
    BY <1>0, <1>1, <1>2 DEF Erring, RecordWorkerError, NoError
  <1>5. Erring("Cancelled") => Erring("Cancelled")' \/ Erring("Failure")'
    BY <1>0, <1>1, <1>2 DEF Erring, RecordWorkerError, NoError
  <1>6. Judged' <=> Judged
    BY <1>1 DEF Judged
  <1>7. (Halting => Halting') /\ (Failing => Failing')
    BY <1>1, <1>3, <1>5, <1>6 DEF Halting, Failing
  <1>8. CauseInv'
    BY <1>1, <1>4, <1>7 DEF TruthInv, CauseInv
  <1>9. AccountInv'
    <2>1. CASE ~Halting
      <3>1. m.outcome.tag # "Failed"
        BY <1>0, <1>2, <2>1 DEF Halting, Failing, Erring
      <3>2. m.upload \in uploaded' \cup deferred'
        BY <1>0, <1>1, <3>1, OutcomeCases
      <3>3. uploaded \subseteq uploaded' /\ deferred \subseteq deferred'
        BY <1>1
      <3>4. ASSUME NEW u \in Uploads, u < next
            PROVE  \/ u \in uploaded' \cup deferred'
                   \/ \E v \in Workers : pc[v] \in Holding /\ item[v] = u
                   \/ \E n \in Sent' : n.upload = u
        BY <1>0, <2>1, <3>2, <3>3, <3>4 DEF TruthInv, AccountInv
      <3> QED
        BY <1>1, <2>1, <3>4 DEF TruthInv, AccountInv
    <2> QED
      BY <1>7, <2>1 DEF AccountInv
  <1>10. CountInv'
    <2>1. ASSUME NEW u \in Uploads
          PROVE  u \in uploaded' \/ OnItsWay(u, "Uploaded")' <=> u \in uploaded \/ OnItsWay(u, "Uploaded")
      <3>1. OnItsWay(u, "Uploaded") =>
              OnItsWay(u, "Uploaded")' \/ (u = m.upload /\ m.outcome.tag = "Uploaded")
        BY <1>0, <1>1 DEF OnItsWay
      <3>2. OnItsWay(u, "Uploaded")' => OnItsWay(u, "Uploaded")
        BY <1>0, <1>1 DEF OnItsWay
      <3>3. m.upload = u /\ m.outcome.tag = "Uploaded" => OnItsWay(u, "Uploaded")
        BY <1>0 DEF OnItsWay
      <3> QED
        BY <1>1, <3>1, <3>2, <3>3
    <2> QED
      BY <1>1, <2>1 DEF TruthInv, CountInv
  <1>11. EndInv'
    <2>1. result = "running"
      BY DEF TruthInv, EndInv, Collect
    <2> QED
      BY <1>1, <2>1 DEF EndInv, CancelledIsGenuine, OkAccountsForAll
  <1> QED
    BY <1>8, <1>9, <1>10, <1>11 DEF TruthInv

(* With everybody done and the channel empty, what is recorded is all there*)
(* was.                                                                    *)
LEMMA FinishTruth ==
    ASSUME IInv, TruthInv, Finish
    PROVE  TruthInv'
  <1> USE DEF IInv, TypeOK, historyVars, workerVars, collectorVars
  <1>0. Sent = {} /\ Sent' = Sent /\ \A w \in Workers : pc[w] = "done"
    BY DEF Finish, Sent
  <1>1. CauseInv' /\ AccountInv' /\ CountInv'
    BY <1>0 DEF Finish, TruthInv, CauseInv, AccountInv, CountInv, OnItsWay, Halting, Failing, Erring, Judged
  <1>2. (Erring("Failure") <=> firstError = "Failure") /\ (Erring("Cancelled") <=> firstError = "Cancelled")
    BY <1>0 DEF Erring
  <1>3. Judged <=> tripped = "ShareWide"
    BY <1>0 DEF Judged
  <1>4. result' = "Cancelled" => cancelled \/ (firstError = "Cancelled" /\ tripped = NoError)
    BY DEF Finish, PhaseResult, RecordWorkerError, NoError
  <1>5. result' = "Ok" => ~cancelled /\ firstError = NoError /\ tripped = NoError
    BY DEF Finish, PhaseResult, RecordWorkerError, NoError
  <1>6. CancelledIsGenuine'
    BY <1>2, <1>3, <1>4 DEF CancelledIsGenuine, TruthInv, CauseInv, Failing, NoError, Finish
  <1>7. OkAccountsForAll'
    <2> SUFFICES ASSUME result' = "Ok" PROVE uploaded \cup deferred = Uploads
      BY DEF OkAccountsForAll, Finish
    <2>1. ~Halting
      BY <1>2, <1>3, <1>5 DEF Halting, Failing, NoError
    <2>2. PICK w \in Workers : pc[w] = "done"
      BY <1>0, WorkersAssumption
    <2>3. next = N + 1
      BY <2>1, <2>2 DEF TruthInv, AccountInv
    <2>4. ASSUME NEW u \in Uploads PROVE u \in uploaded \cup deferred
      <3>1. u < next
        BY <2>3, NAssumption DEF Uploads
      <3> QED
        BY <1>0, <2>1, <3>1 DEF TruthInv, AccountInv, Holding
    <2> QED
      BY <2>4
  <1> QED
    BY <1>1, <1>6, <1>7 DEF TruthInv, EndInv, Finish

(* A cancellation is itself a cause.                                       *)
LEMMA CancelTruth ==
    ASSUME IInv, TruthInv, Cancel
    PROVE  TruthInv'
  <1> USE DEF historyVars, workerVars, collectorVars
  <1>0. Sent' = Sent
    BY DEF Cancel, Sent
  <1> QED
    BY <1>0 DEF Cancel, TruthInv, CauseInv, AccountInv, CountInv, EndInv, OnItsWay, Halting,
       Failing, Erring, Judged, CancelledIsGenuine, OkAccountsForAll

(* Nothing is counted before the pool starts.                              *)
LEMMA InitTruth == Init => TruthInv
  <1> SUFFICES ASSUME Init PROVE TruthInv
    OBVIOUS
  <1> USE DEF Init
  <1>0. Sent = {}
    BY DEF Sent
  <1>1. ~Erring("Failure") /\ ~Erring("Cancelled")
    BY <1>0 DEF Erring, NoError
  <1>2. AccountInv
    BY NAssumption DEF AccountInv, Uploads
  <1>3. CountInv
    BY <1>0 DEF CountInv, OnItsWay, Reporting
  <1> QED
    BY <1>1, <1>2, <1>3 DEF TruthInv, CauseInv, EndInv, CancelledIsGenuine, OkAccountsForAll

(* Every step of the pool keeps what it says of itself true.               *)
LEMMA NextTruth == IInv /\ TruthInv /\ [Next]_vars => TruthInv'
  <1> SUFFICES ASSUME IInv, TruthInv, [Next]_vars PROVE TruthInv'
    OBVIOUS
  <1>1. ASSUME NEW w \in Workers, WorkerStep(w) PROVE TruthInv'
    BY <1>1, LookForWorkTruth, PopTruth, PreconditionHoldsTruth, PreconditionFailsTruth,
       LastLookTruth, UploadAnswersTruth, UploadAbortedTruth, JudgeUploadTruth,
       StopPeersTruth, RecordTripTruth, SendTruth
    DEF WorkerStep
  <1>2. CASE UNCHANGED vars
    <2>0. Sent' = Sent
      BY <1>2 DEF vars, Sent
    <2> QED
      BY <1>2, <2>0 DEF vars, historyVars, workerVars, collectorVars, TruthInv, CauseInv, AccountInv,
         CountInv, EndInv, OnItsWay, Halting, Failing, Erring, Judged, CancelledIsGenuine, OkAccountsForAll
  <1>3. CASE Over
    BY <1>2, <1>3 DEF Over
  <1> QED
    BY <1>1, <1>2, <1>3, CollectTruth, FinishTruth, CancelTruth DEF Next

(* A verdict or a failure is reported under its own cause, Cancelled only  *)
(* when somebody cancelled, success only when every upload is accounted    *)
(* for, and the counts are what the NAS accepted: for any number of        *)
(* workers and uploads.                                                    *)
THEOREM PoolPhaseOutcomeTrue == Spec => []PhaseOutcomeTrue
  <1>1. Init => TruthInv
    BY InitTruth
  <1>2. IInv /\ TruthInv /\ [Next]_vars => TruthInv'
    BY NextTruth
  <1>3. IInv /\ TruthInv => PhaseOutcomeTrue
    <2> SUFFICES ASSUME IInv, TruthInv, result # "running" PROVE uploaded = landed
      BY DEF IInv, TruthInv, EndInv, PhaseOutcomeTrue, CancelledIsGenuine, OkAccountsForAll, CountsHonest
    <2>1. Sent = {} /\ \A w \in Workers : pc[w] = "done"
      BY DEF IInv, TripInv, TruthInv, EndInv, Sent
    <2>2. \A u \in Uploads : u \in landed <=> u \in uploaded
      BY <2>1 DEF TruthInv, CountInv, OnItsWay, Reporting
    <2> QED
      BY <2>2 DEF IInv, TypeOK
  <1> QED
    BY <1>1, <1>2, <1>3, PoolInvariant, PTL DEF Spec

=============================================================================
