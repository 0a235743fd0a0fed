----------------------------- MODULE UploadPool -----------------------------
(***************************************************************************)
(* The upload phase of execute_with_observer (src/src/sync.rs): a bounded  *)
(* pool of worker threads that drain one queue of planned uploads, judge   *)
(* the refusal breaker under a lock, and report through a channel to one   *)
(* collector, which picks the run's result.                                *)
(*                                                                         *)
(* An upload is its position 1..N in the plan, so that the VecDeque of the *)
(* code is the interval next..N.  Poisoned locks (a worker that panicked)  *)
(* are not modelled: thread::scope re-raises the panic.                    *)
(***************************************************************************)
EXTENDS RefusalBreaker, Sequences, FiniteSets

CONSTANTS
    Workers,     \* the threads of the pool: options.jobs.clamp(1, 16), at most one per upload
    N,           \* uploads still open when the pool starts
    StartBreakers  \* the breakers the create and copy phases may hand over

Uploads == 1 .. N

ASSUME NAssumption == N \in Nat \ {0}
ASSUME WorkersAssumption == IsFiniteSet(Workers) /\ Workers # {}

(* The folder creates and the copies are all settled when the pool starts, *)
(* and the check before the pool has passed.                               *)
ASSUME StartAssumption ==
    \A b \in StartBreakers : b \in Breakers /\ b.pending = N /\ ~Trips(b)

NoUpload == 0
NoWorker == "noWorker"
NoError  == "none"

ASSUME NoWorkerAssumption == NoWorker \notin Workers

(* Error::Cancelled, any other error of one worker, and the breaker's      *)
(* RemoteRefusalsShareWide.                                                *)
Errors == {"Cancelled", "Failure", "ShareWide"}

(* UploadOutcome.  A deferral carries the class DSM refused the path with, *)
(* or NotRefused: the file changed locally or its destination remotely.    *)
Outcomes ==
    [tag : {"Uploaded"}] \cup
    [tag : {"Deferred"}, class : Classes \cup {NotRefused}] \cup
    [tag : {"Failed"}, error : {"Cancelled", "Failure"}]

Uploaded == [tag |-> "Uploaded"]
Deferred(c) == [tag |-> "Deferred", class |-> c]
Failed(e) == [tag |-> "Failed", error |-> e]

VARIABLES
    next,        \* the front of the upload queue
    pc,          \* where each worker is
    item,        \* the upload each worker holds
    outcome,     \* what its last upload came to
    stop,        \* the AtomicBool the workers share
    cancelled,   \* the run's CancellationToken
    breaker,     \* the RefusalBreaker behind the judge lock
    judge,       \* which worker holds the judge lock
    tripped,     \* Mutex<Option<Error>>
    channel,     \* outcomes sent and not yet received
    firstError,  \* the collector's first_error
    uploaded,    \* what the collector counted as uploaded
    deferred,    \* what it recorded as deferred
    result,      \* what the phase returns; "running" until then
    settled,     \* history: the uploads the breaker has settled
    landed,      \* history: the uploads the NAS accepted
    userStopped, \* history: the embedder's observer answered false
    verdictBy,   \* history: the worker whose settlement first tripped the breaker
    late         \* history: per worker, its requests in flight at the verdict or begun after it

workerVars == <<pc, item, outcome>>
collectorVars == <<firstError, uploaded, deferred, result>>
historyVars == <<settled, landed, userStopped, verdictBy, late>>
vars == <<next, workerVars, stop, cancelled, breaker, judge, tripped, channel,
          collectorVars, historyVars>>

Init ==
    /\ next = 1
    /\ pc = [w \in Workers |-> "loop"]
    /\ item = [w \in Workers |-> NoUpload]
    /\ outcome = [w \in Workers |-> Uploaded]
    /\ stop = FALSE
    /\ cancelled = FALSE
    /\ breaker \in StartBreakers
    /\ judge = NoWorker
    /\ tripped = NoError
    /\ channel = << >>
    /\ firstError = NoError
    /\ uploaded = {}
    /\ deferred = {}
    /\ result = "running"
    /\ settled = {}
    /\ landed = {}
    /\ userStopped = FALSE
    /\ verdictBy = NoWorker
    /\ late = [w \in Workers |-> 0]

Goto(w, label) == pc' = [pc EXCEPT ![w] = label]

(* A worker that has an outcome stops its peers at once when it failed,    *)
(* and goes to the judge otherwise.                                        *)
Conclude(w, o) ==
    /\ outcome' = [outcome EXCEPT ![w] = o]
    /\ IF o.tag = "Failed"
       THEN stop' = TRUE /\ Goto(w, "send")
       ELSE UNCHANGED stop /\ Goto(w, "judge")

-----------------------------------------------------------------------------
(* The top of the loop: stop and the token are read before the queue.      *)
LookForWork(w) ==
    /\ pc[w] = "loop"
    /\ Goto(w, IF stop \/ cancelled THEN "done" ELSE "pop")
    /\ UNCHANGED <<next, item, outcome, stop, cancelled, breaker, judge, tripped,
                   channel, collectorVars, historyVars>>

Pop(w) ==
    /\ pc[w] = "pop"
    /\ IF next <= N
       THEN /\ item' = [item EXCEPT ![w] = next]
            /\ next' = next + 1
            /\ Goto(w, "precondition")
       ELSE /\ Goto(w, "done")
            /\ UNCHANGED <<item, next>>
    /\ UNCHANGED <<outcome, stop, cancelled, breaker, judge, tripped, channel,
                   collectorVars, historyVars>>

(* upload_precondition_holds: one round trip to the NAS.                   *)
PreconditionHolds(w) ==
    /\ pc[w] = "precondition"
    /\ Goto(w, "look")
    /\ UNCHANGED <<next, item, outcome, stop, cancelled, breaker, judge, tripped,
                   channel, collectorVars, historyVars>>

PreconditionFails(w) ==
    /\ pc[w] = "precondition"
    /\ \E o \in {Deferred(NotRefused), Failed("Failure"), Failed("Cancelled")} :
          /\ o = Failed("Cancelled") => cancelled
          /\ Conclude(w, o)
    /\ UNCHANGED <<next, item, cancelled, breaker, judge, tripped, channel,
                   collectorVars, historyVars>>

(* The last look before the request: a verdict reached meanwhile ends the  *)
(* worker, and the upload it holds is never sent.                          *)
LastLook(w) ==
    /\ pc[w] = "look"
    /\ IF stop \/ cancelled
       THEN Goto(w, "done") /\ UNCHANGED late
       ELSE /\ Goto(w, "uploading")
            /\ late' = [late EXCEPT ![w] =
                            IF verdictBy = NoWorker THEN @ ELSE @ + 1]
    /\ UNCHANGED <<next, item, outcome, stop, cancelled, breaker, judge, tripped,
                   channel, collectorVars, settled, landed, userStopped, verdictBy>>

(* The upload succeeds, is refused by DSM, fails for a cause of its own    *)
(* path, or fails the run.                                                 *)
UploadAnswers(w) ==
    /\ pc[w] = "uploading"
    /\ \E o \in {Uploaded, Failed("Failure")} \cup
                {Deferred(c) : c \in Classes \cup {NotRefused}} :
          /\ Conclude(w, o)
          /\ landed' = IF o = Uploaded THEN landed \cup {item[w]} ELSE landed
    /\ UNCHANGED <<next, item, cancelled, breaker, judge, tripped, channel,
                   collectorVars, settled, userStopped, verdictBy, late>>

(* The observer answers false and the transfer ends as Cancelled: the run  *)
(* was cancelled, a peer set stop, or the embedder's own observer said so. *)
UploadAborted(w, byUser) ==
    /\ pc[w] = "uploading"
    /\ byUser \/ stop \/ cancelled
    /\ userStopped' = (userStopped \/ byUser)
    /\ Conclude(w, Failed("Cancelled"))
    /\ UNCHANGED <<next, item, cancelled, breaker, judge, tripped, channel,
                   collectorVars, settled, landed, verdictBy, late>>

(* The breaker after outcome o is settled.                                 *)
SettleTwice(b, o) ==
    IF o.tag = "Uploaded" THEN Accepted(b) ELSE SettledAs(Excluded(b), o.class)
SettleOutcome(b, o) ==
    IF o.tag = "Uploaded" THEN Accepted(b) ELSE SettledAs(b, o.class)

(* Settle under the judge lock, then check.  A verdict keeps the lock for  *)
(* the two stores that follow.                                             *)
JudgeUpload(w) ==
    /\ pc[w] = "judge"
    /\ judge = NoWorker
    /\ breaker' = SettleOutcome(breaker, outcome[w])
    /\ settled' = settled \cup {item[w]}
    /\ IF Trips(breaker')
       THEN /\ judge' = w
            /\ Goto(w, "stopPeers")
            /\ IF verdictBy = NoWorker
               THEN /\ verdictBy' = w
                    /\ late' = [v \in Workers |-> IF pc[v] = "uploading" THEN 1 ELSE 0]
               ELSE UNCHANGED <<verdictBy, late>>
       ELSE /\ Goto(w, "send")
            /\ UNCHANGED <<judge, verdictBy, late>>
    /\ UNCHANGED <<next, item, outcome, stop, cancelled, tripped, channel,
                   collectorVars, landed, userStopped>>

StopPeersForgotten(w) ==
    /\ pc[w] = "stopPeers"
    /\ Goto(w, "recordTrip")
    /\ UNCHANGED <<next, item, outcome, stop, cancelled, breaker, judge, tripped,
                   channel, collectorVars, historyVars>>

StopPeers(w) ==
    /\ pc[w] = "stopPeers"
    /\ stop' = TRUE
    /\ Goto(w, "recordTrip")
    /\ UNCHANGED <<next, item, outcome, cancelled, breaker, judge, tripped,
                   channel, collectorVars, historyVars>>

(* tripped.get_or_insert, then the judge lock is dropped.                  *)
RecordTripHoldingLock(w) ==
    /\ pc[w] = "recordTrip"
    /\ tripped' = "ShareWide"
    /\ Goto(w, "send")
    /\ UNCHANGED <<next, item, outcome, stop, cancelled, breaker, judge, channel,
                   collectorVars, historyVars>>

RecordTrip(w) ==
    /\ pc[w] = "recordTrip"
    /\ tripped' = "ShareWide"
    /\ judge' = NoWorker
    /\ Goto(w, "send")
    /\ UNCHANGED <<next, item, outcome, stop, cancelled, breaker, channel,
                   collectorVars, historyVars>>

(* The iteration ends, and with it the worker's locals.                    *)
Send(w) ==
    /\ pc[w] = "send"
    /\ channel' = Append(channel, [upload |-> item[w], outcome |-> outcome[w]])
    /\ item' = [item EXCEPT ![w] = NoUpload]
    /\ outcome' = [outcome EXCEPT ![w] = Uploaded]
    /\ Goto(w, "loop")
    /\ UNCHANGED <<next, stop, cancelled, breaker, judge, tripped,
                   collectorVars, historyVars>>

-----------------------------------------------------------------------------
(* record_worker_error: the first error stays, but any other error         *)
(* replaces Cancelled.                                                     *)
RecordFirstError(first, error) == IF first = NoError THEN error ELSE first
RecordWorkerError(first, error) ==
    IF first = NoError \/ first = "Cancelled" THEN error ELSE first

Collect ==
    /\ channel # << >>
    /\ channel' = Tail(channel)
    /\ LET m == Head(channel) IN
       /\ uploaded' = IF m.outcome.tag = "Uploaded"
                      THEN uploaded \cup {m.upload} ELSE uploaded
       /\ deferred' = IF m.outcome.tag = "Deferred"
                      THEN deferred \cup {m.upload} ELSE deferred
       /\ firstError' = IF m.outcome.tag = "Failed"
                        THEN RecordWorkerError(firstError, m.outcome.error)
                        ELSE firstError
    /\ UNCHANGED <<next, workerVars, stop, cancelled, breaker, judge, tripped,
                   result, historyVars>>

(* The verdict joins the errors, and a phase without one still checks the  *)
(* breaker and the token.                                                  *)
PhaseResult ==
    LET error == IF tripped = NoError THEN firstError
                 ELSE RecordWorkerError(firstError, tripped) IN
    IF error # NoError THEN error
    ELSE IF Trips(breaker) THEN "ShareWide"
    ELSE IF cancelled THEN "Cancelled" ELSE "Ok"

(* Every sender is dropped and the channel is empty.                       *)

Finish ==
    /\ result = "running"
    /\ \A w \in Workers : pc[w] = "done"
    /\ channel = << >>
    /\ result' = PhaseResult
    /\ UNCHANGED <<next, workerVars, stop, cancelled, breaker, judge, tripped,
                   channel, firstError, uploaded, deferred, historyVars>>

(* Ctrl-C, a batch that gives up, or an SDK caller, at any moment.         *)
Cancel ==
    /\ ~cancelled
    /\ result = "running"
    /\ cancelled' = TRUE
    /\ UNCHANGED <<next, workerVars, stop, breaker, judge, tripped, channel,
                   collectorVars, historyVars>>

(* The phase is over; the run goes on elsewhere.                           *)
Over ==
    /\ result # "running"
    /\ UNCHANGED vars

WorkerStep(w) ==
    \/ LookForWork(w)
    \/ Pop(w)
    \/ PreconditionHolds(w)
    \/ PreconditionFails(w)
    \/ LastLook(w)
    \/ UploadAnswers(w)
    \/ \E byUser \in BOOLEAN : UploadAborted(w, byUser)
    \/ JudgeUpload(w)
    \/ StopPeers(w)
    \/ RecordTrip(w)
    \/ Send(w)

Next ==
    \/ \E w \in Workers : WorkerStep(w)
    \/ Collect
    \/ Finish
    \/ Cancel
    \/ Over

(* Threads are scheduled and every request ends by its --timeout at the    *)
(* latest; nobody is obliged to cancel.                                    *)
Spec ==
    /\ Init
    /\ [][Next]_vars
    /\ \A w \in Workers : WF_vars(WorkerStep(w))
    /\ WF_vars(Collect)
    /\ WF_vars(Finish)
-----------------------------------------------------------------------------
Labels == {"loop", "pop", "precondition", "look", "uploading", "judge",
           "stopPeers", "recordTrip", "send", "done"}

(* Every variable keeps its type.                                          *)
TypeOK ==
    /\ next \in 1 .. N + 1
    /\ pc \in [Workers -> Labels]
    /\ item \in [Workers -> Uploads \cup {NoUpload}]
    /\ outcome \in [Workers -> Outcomes]
    /\ stop \in BOOLEAN
    /\ cancelled \in BOOLEAN
    /\ breaker \in Breakers
    /\ judge \in Workers \cup {NoWorker}
    /\ tripped \in {NoError, "ShareWide"}
    /\ channel \in Seq([upload : Uploads, outcome : Outcomes])
    /\ firstError \in {NoError, "Cancelled", "Failure"}
    /\ uploaded \subseteq Uploads
    /\ deferred \subseteq Uploads
    /\ result \in Errors \cup {"running", "Ok"}
    /\ settled \subseteq Uploads
    /\ landed \subseteq Uploads
    /\ userStopped \in BOOLEAN
    /\ verdictBy \in Workers \cup {NoWorker}
    /\ late \in [Workers -> Nat]

(* Each planned upload settles the breaker exactly once, whichever workers *)
(* race: what is pending is what nobody has settled yet.  The debug_assert *)
(* of settle() ("a planned write settled twice") never fires.              *)
SettledOnce ==
    /\ breaker.pending = N - Cardinality(settled)
    /\ \A w \in Workers : pc[w] = "judge" => breaker.pending > 0

(* The considered writes only shrink and the refusals only grow: once the  *)
(* breaker trips, no later settlement untrips it, so that the verdict in   *)
(* mid-run is the verdict at the end of the run.                           *)
VerdictStable == [][Trips(breaker) => Trips(breaker')]_vars

(* When the verdict falls, the worker that reached it has nothing in       *)
(* flight, and every other worker has at most one request in flight or     *)
(* still to send: the bound on uploads a doomed share still receives.      *)
Overshoot ==
    verdictBy # NoWorker =>
        /\ late[verdictBy] = 0
        /\ \A w \in Workers : late[w] <= 1

(* A verdict of the breaker fails the run under a cause an operator can    *)
(* act on: it is never reported as success, nor as a cancellation by the   *)
(* peers it interrupted.                                                   *)
VerdictFailsRun ==
    result # "running" /\ verdictBy # NoWorker => result \in {"ShareWide", "Failure"}

(* "Operation cancelled" is the result only when somebody cancelled: a     *)
(* failure that stopped the peers is never reported under their Cancelled. *)
CancelledIsGenuine ==
    result = "Cancelled" => cancelled \/ userStopped

(* Success means that every upload of the queue was uploaded or deferred,  *)
(* although workers leave the loop early without an outcome.               *)
OkAccountsForAll ==
    result = "Ok" => uploaded \cup deferred = Uploads

(* Whatever the result, the report counts exactly the uploads the NAS      *)
(* accepted, those that completed while the run was failing included.      *)
CountsHonest ==
    result # "running" => uploaded = landed

(* What the phase says of itself is so: a verdict or a failure is reported *)
(* under its own cause, success accounts for every upload, and the report  *)
(* counts what the NAS holds (sync.rs:1944, apply_outcome and the end of   *)
(* execute_uploads).                                                       *)
PhaseOutcomeTrue == VerdictFailsRun /\ CancelledIsGenuine /\ OkAccountsForAll /\ CountsHonest

(* The phase ends: no worker waits for a lock or a request for ever.       *)
Terminates == <>(result # "running")
-----------------------------------------------------------------------------
(* The inductive invariant behind the safety properties above, proved in   *)
(* UploadPoolProofs.                                                       *)

(* A worker between its pop and its send holds an upload that left the     *)
(* queue, no two workers hold the same one, and it is not settled before   *)
(* its worker has been at the judge.                                       *)
Holding == {"precondition", "look", "uploading", "judge", "stopPeers",
            "recordTrip", "send"}
Unjudged == {"precondition", "look", "uploading", "judge"}

QueueInv ==
    /\ \A w \in Workers : item[w] < next
    /\ \A w \in Workers : pc[w] \in Holding => item[w] # NoUpload
    /\ \A v, w \in Workers : v # w /\ item[v] = item[w] => item[w] = NoUpload
    /\ \A w \in Workers : pc[w] \in Unjudged => item[w] \notin settled
    /\ \A u \in settled : u < next
    /\ breaker.pending = N - Cardinality(settled)

(* Only an outcome that is not a failure is judged.                        *)
OutcomeInv ==
    \A w \in Workers : pc[w] = "judge" => outcome[w].tag # "Failed"

(* From the verdict until stop is set, the worker that reached it holds    *)
(* the judge lock, so that a peer with a late request cannot get past the  *)
(* judge to send another.                                                  *)
LateInv ==
    /\ verdictBy # NoWorker /\ ~stop =>
          judge = verdictBy /\ pc[verdictBy] = "stopPeers"
    /\ \A w \in Workers : pc[w] = "recordTrip" => stop
    /\ verdictBy # NoWorker =>
          /\ late[verdictBy] = 0
          /\ \A w \in Workers : late[w] <= 1
          /\ ~stop => \A w \in Workers :
                late[w] = 1 => pc[w] \in {"uploading", "judge"}

(* A verdict is on its way to tripped, or already there, and the collector *)
(* outlives the workers.                                                   *)
TripInv ==
    /\ verdictBy # NoWorker =>
          \/ tripped = "ShareWide"
          \/ pc[verdictBy] \in {"stopPeers", "recordTrip"}
    /\ result # "running" => \A w \in Workers : pc[w] = "done"

IInv == TypeOK /\ QueueInv /\ OutcomeInv /\ LateInv /\ TripInv /\ VerdictFailsRun

(* What is on its way to the collector: the messages in the channel, and   *)
(* the outcomes of workers that have been judged or stopped their peers.   *)
Reporting == {"judge", "stopPeers", "recordTrip", "send"}
Sent == {channel[i] : i \in 1 .. Len(channel)}
OnItsWay(u, tag) ==
    \/ \E w \in Workers : pc[w] \in Reporting /\ item[w] = u /\ outcome[w].tag = tag
    \/ \E m \in Sent : m.upload = u /\ m.outcome.tag = tag

(* An error of this kind is recorded or on its way; so is a verdict.       *)
Erring(e) ==
    \/ firstError = e
    \/ \E w \in Workers : pc[w] = "send" /\ outcome[w] = Failed(e)
    \/ \E m \in Sent : m.outcome = Failed(e)
Judged ==
    \/ tripped = "ShareWide"
    \/ \E w \in Workers : pc[w] \in {"stopPeers", "recordTrip"}
Failing == Erring("Failure") \/ Judged
Halting == cancelled \/ Erring("Cancelled") \/ Failing

(* The flag is up, and a worker says Cancelled, only for a cause that the  *)
(* collector will hear of; Cancelled is never the only one unless somebody *)
(* cancelled.                                                              *)
CauseInv ==
    /\ stop => Halting
    /\ Erring("Cancelled") => cancelled \/ userStopped \/ Failing

(* Without such a cause every upload that left the queue is counted, on    *)
(* its way or held, and a worker is done only when the queue is empty.     *)
AccountInv ==
    \/ Halting
    \/ /\ \A w \in Workers : pc[w] = "done" => next = N + 1
       /\ \A u \in Uploads : u < next =>
             \/ u \in uploaded \cup deferred
             \/ \E w \in Workers : pc[w] \in Holding /\ item[w] = u
             \/ \E m \in Sent : m.upload = u

(* The NAS holds what is counted or on its way to be counted.              *)
CountInv ==
    \A u \in Uploads : u \in landed <=> u \in uploaded \/ OnItsWay(u, "Uploaded")

(* The phase ends on an empty channel, with a result that is true.         *)
EndInv ==
    /\ result # "running" => channel = << >>
    /\ CancelledIsGenuine
    /\ OkAccountsForAll

TruthInv == CauseInv /\ AccountInv /\ CountInv /\ EndInv
=============================================================================
