------------------------------ MODULE RemoteLog ------------------------------
(***************************************************************************)
(* The remote sink of the event log, of src/src/observability.rs:          *)
(* RemoteSink with its bounded channel, the delivery thread remote_worker, *)
(* the counters of RemoteStatus, and the calls emit, flush and shutdown of *)
(* EventLogger that reach it from any number of threads.  Each atomic      *)
(* operation of a call is a step of its own, so that calls, the worker and *)
(* its end interleave as they do in the program.  The local sinks of the   *)
(* log are LocalLog's.                                                     *)
(***************************************************************************)
EXTENDS Integers, Sequences, FiniteSets

CONSTANTS
    Callers,   \* threads that share the logger
    NoCaller,  \* stands for an answer nobody waits for any more
    Capacity,  \* queue_capacity
    MaxCalls   \* bound on the calls of each thread

ASSUME CapacityAssumption == Capacity \in Nat \ {0}
ASSUME MaxCallsAssumption == MaxCalls \in Nat
ASSUME CallersAssumption == IsFiniteSet(Callers) /\ NoCaller \notin Callers

VARIABLES
    required,     \* RemoteDelivery::Required, or best effort
    closed,       \* RemoteSink.closed
    slot,         \* RemoteSink.sender holds the sender
    queue,        \* the channel
    accepted, handled, dropped, exited, \* RemoteStatus
    firstFailure, \* RemoteStatus.first_failure is set
    wpc,          \* where the worker is
    wev,          \* the event it sends
    pc,           \* where each call is
    ev,           \* the event of a call of emit
    ack,          \* the answer to a control command
    read,         \* the drops a report has read
    calls,        \* calls made so far
    report,       \* history: the last report each thread was given
    emitted,      \* history: events emitted
    returned,     \* history: events whose emit returned Ok
    refused,      \* history: events turned away with an error, uncounted
    delivered,    \* history: events the collector has
    since,        \* history: what had been returned when a control call began
    confirmed     \* history: events a flush or shutdown vouched for

sinkVars == <<closed, slot, required>>
statusVars == <<accepted, handled, dropped, exited, firstFailure>>
workerVars == <<wpc, wev, delivered>>
callVars == <<ev, ack, read, since>>
historyVars == <<report, emitted, returned, refused, confirmed>>
vars == <<sinkVars, queue, statusVars, workerVars, pc, callVars, calls, historyVars>>

Event(e) == [kind |-> "event", ev |-> e, by |-> NoCaller]
Control(k, c) == [kind |-> k, ev |-> 0, by |-> c]

Init ==
    /\ required \in BOOLEAN /\ closed = FALSE /\ slot = TRUE
    /\ queue = <<>>
    /\ accepted = 0 /\ handled = 0 /\ dropped = 0 /\ exited = FALSE /\ firstFailure = FALSE
    /\ wpc = "recv" /\ wev = 0 /\ delivered = {}
    /\ pc = [c \in Callers |-> "idle"]
    /\ ev = [c \in Callers |-> 0]
    /\ ack = [c \in Callers |-> "none"]
    /\ read = [c \in Callers |-> 0]
    /\ since = [c \in Callers |-> {}]
    /\ calls = [c \in Callers |-> 0]
    /\ report = [c \in Callers |-> 0]
    /\ emitted = 0 /\ returned = {} /\ refused = {} /\ confirmed = {}

-----------------------------------------------------------------------------
Goes(c, label) == pc' = [pc EXCEPT ![c] = label]

Calls(c) == pc[c] = "idle" /\ calls[c] < MaxCalls /\ calls' = [calls EXCEPT ![c] = @ + 1]

(* enqueue, reached from emit: an event the level permits.                 *)
Emit(c) ==
    /\ Calls(c)
    /\ emitted' = emitted + 1
    /\ ev' = [ev EXCEPT ![c] = emitted + 1]
    /\ Goes(c, IF closed THEN "countDrop" ELSE "failure")
    /\ UNCHANGED <<sinkVars, queue, statusVars, workerVars, ack, read, since,
                   report, returned, refused, confirmed>>

(* An error that leaves no trace in the counters.                          *)
TurnsAway(c) ==
    /\ refused' = refused \cup {ev[c]}
    /\ Goes(c, "idle")

EmitFailure(c) ==
    /\ pc[c] = "failure"
    /\ IF required /\ firstFailure THEN TurnsAway(c) ELSE Goes(c, "sender") /\ UNCHANGED refused
    /\ UNCHANGED <<sinkVars, queue, statusVars, workerVars, callVars, calls, report, emitted,
                   returned, confirmed>>

EmitSender(c) ==
    /\ pc[c] = "sender"
    /\ IF slot THEN Goes(c, "accept") /\ UNCHANGED refused ELSE TurnsAway(c)
    /\ UNCHANGED <<sinkVars, queue, statusVars, workerVars, callVars, calls, report, emitted,
                   returned, confirmed>>

EmitAccept(c) ==
    /\ pc[c] = "accept"
    /\ accepted' = accepted + 1
    /\ Goes(c, "trySend")
    /\ UNCHANGED <<sinkVars, queue, handled, dropped, exited, firstFailure, workerVars,
                   callVars, calls, historyVars>>

(* The channel refuses what it has no room for, and everything once its    *)
(* receiver is gone.                                                       *)
Disconnected == wpc = "gone"
Full == Len(queue) >= Capacity

EmitTrySend(c) ==
    /\ pc[c] = "trySend"
    /\ IF Disconnected \/ Full
       THEN Goes(c, "takeBack") /\ UNCHANGED <<queue, returned>>
       ELSE /\ queue' = Append(queue, Event(ev[c]))
            /\ returned' = returned \cup {ev[c]}
            /\ Goes(c, "idle")
    /\ UNCHANGED <<sinkVars, statusVars, workerVars, callVars, calls, report, emitted, refused,
                   confirmed>>

(* A refused event stops being accepted, and only then is dropped.         *)
EmitTakeBack(c) ==
    /\ pc[c] = "takeBack"
    /\ accepted' = accepted - 1
    /\ Goes(c, "countDrop")
    /\ UNCHANGED <<sinkVars, queue, handled, dropped, exited, firstFailure, workerVars,
                   callVars, calls, historyVars>>

EmitNotCounted(c) ==
    /\ pc[c] = "countDrop"
    /\ returned' = IF required THEN returned ELSE returned \cup {ev[c]}
    /\ Goes(c, "idle")
    /\ UNCHANGED <<sinkVars, queue, statusVars, workerVars, callVars, calls, report, emitted,
                   refused, confirmed>>

(* The loss is counted; only in required mode is it an error, too.         *)
EmitCountDrop(c) ==
    /\ pc[c] = "countDrop"
    /\ dropped' = dropped + 1
    /\ returned' = IF required THEN returned ELSE returned \cup {ev[c]}
    /\ Goes(c, "idle")
    /\ UNCHANGED <<sinkVars, queue, accepted, handled, exited, firstFailure, workerVars,
                   callVars, calls, report, emitted, refused, confirmed>>

-----------------------------------------------------------------------------
(* flush and shutdown: the first shutdown closes the sink, a later one     *)
(* only reads the report.                                                  *)
Flush(c) ==
    /\ Calls(c)
    /\ IF closed THEN UNCHANGED pc ELSE Goes(c, "flush")
    /\ since' = [since EXCEPT ![c] = returned]
    /\ ack' = [ack EXCEPT ![c] = "none"]
    /\ UNCHANGED <<sinkVars, queue, statusVars, workerVars, ev, read, historyVars>>

Shutdown(c) ==
    /\ Calls(c)
    /\ closed' = TRUE
    /\ Goes(c, IF closed THEN "report" ELSE "shutdown")
    /\ since' = [since EXCEPT ![c] = returned]
    /\ ack' = [ack EXCEPT ![c] = "none"]
    /\ UNCHANGED <<slot, required, queue, statusVars, workerVars, ev, read, historyVars>>

(* delivery_result: in best effort a failure is none.                      *)
DeliveryResult(ok) == IF ok \/ ~required THEN "ok" ELSE "error"

(* The end of control: the flush returns, the shutdown goes on to take the *)
(* sender.  In required mode a success vouches for what came before.       *)
ControlEnds(c, r) ==
    /\ Goes(c, IF pc[c] \in {"flush", "awaitFlush"} THEN "idle" ELSE "takeSender")
    /\ confirmed' = confirmed \cup (IF r = "ok" /\ required THEN since[c] ELSE {})

(* The command is sent, or its time runs out while the queue is full.      *)
ControlSend(c) ==
    /\ pc[c] \in {"flush", "shutdown"}
    /\ \/ /\ slot /\ ~Disconnected /\ ~Full
          /\ queue' = Append(queue, Control(pc[c], c))
          /\ Goes(c, IF pc[c] = "flush" THEN "awaitFlush" ELSE "awaitShutdown")
          /\ UNCHANGED confirmed
       \/ /\ slot /\ Disconnected
          /\ ControlEnds(c, DeliveryResult(FALSE))
          /\ UNCHANGED queue
       \/ /\ ~slot \/ (~Disconnected /\ Full)
          /\ ControlEnds(c, "error")
          /\ UNCHANGED queue
    /\ UNCHANGED <<sinkVars, statusVars, workerVars, ev, ack, read, since, calls, report,
                   emitted, returned, refused>>

Awaits(c) == pc[c] \in {"awaitFlush", "awaitShutdown"}

ControlAnswered(c) ==
    /\ Awaits(c) /\ ack[c] \in {"ok", "failed"}
    /\ ControlEnds(c, DeliveryResult(ack[c] = "ok"))
    /\ UNCHANGED <<sinkVars, queue, statusVars, workerVars, ev, ack, read, since, calls,
                   report, emitted, returned, refused>>

(* recv_timeout fails: the deadline passes, or the worker is gone with the *)
(* command.  The answer, if it ever comes, finds nobody.                   *)
WaitWithoutDeadline(c) == ack[c] = "gone"
WaitEnds(c) == ack[c] \in {"none", "gone"}

ControlTimesOut(c) ==
    /\ Awaits(c) /\ WaitEnds(c)
    /\ queue' = [i \in DOMAIN queue |->
                    IF queue[i].by = c THEN [queue[i] EXCEPT !.by = NoCaller] ELSE queue[i]]
    /\ ControlEnds(c, "error")
    /\ UNCHANGED <<sinkVars, statusVars, workerVars, ev, ack, read, since, calls, report,
                   emitted, returned, refused>>

ShutdownTakesSender(c) ==
    /\ pc[c] = "takeSender"
    /\ slot' = FALSE
    /\ Goes(c, "join")
    /\ UNCHANGED <<closed, required, queue, statusVars, workerVars, callVars, calls, historyVars>>

(* finish_worker_within: the worker is joined, or detached at the deadline.*)
ShutdownJoins(c) ==
    /\ pc[c] = "join"
    /\ Goes(c, "report")
    /\ UNCHANGED <<sinkVars, queue, statusVars, workerVars, callVars, calls, historyVars>>

(* report: the counted drops are read first.                               *)
ReportReads(c) ==
    /\ pc[c] = "report"
    /\ read' = [read EXCEPT ![c] = dropped]
    /\ Goes(c, "reportRest")
    /\ UNCHANGED <<sinkVars, queue, statusVars, workerVars, ev, ack, since, calls,
                   historyVars>>

Unfinished == IF exited /\ accepted > handled THEN accepted - handled ELSE 0

ReportEnds(c) ==
    /\ pc[c] = "reportRest"
    /\ report' = [report EXCEPT ![c] = read[c] + Unfinished]
    /\ Goes(c, "idle")
    /\ UNCHANGED <<sinkVars, queue, statusVars, workerVars, callVars, calls, emitted, returned,
                   refused, confirmed>>

-----------------------------------------------------------------------------
(* Who may still send: a call that holds a clone of the sender, or one     *)
(* that can take it.                                                       *)
SenderLives == slot \/ \E c \in Callers : pc[c] \in {"accept", "trySend", "takeBack"}

Answers(c, a) == ack' = IF c \in Callers THEN [ack EXCEPT ![c] = a] ELSE ack

Answer == IF firstFailure THEN "failed" ELSE "ok"

(* remote_worker takes the next command, or finds every sender gone.       *)
WorkerReceives ==
    /\ wpc = "recv"
    /\ \/ /\ queue # <<>>
          /\ queue' = Tail(queue)
          /\ LET command == Head(queue) IN
                \/ /\ command.kind = "event"
                   /\ wpc' = "send" /\ wev' = command.ev
                   /\ UNCHANGED ack
                \/ /\ command.kind # "event"
                   /\ Answers(command.by, Answer)
                   /\ wpc' = IF command.kind = "shutdown" THEN "leaving" ELSE "recv"
                   /\ UNCHANGED wev
       \/ /\ queue = <<>> /\ ~SenderLives
          /\ wpc' = "leaving"
          /\ UNCHANGED <<queue, wev, ack>>
    /\ UNCHANGED <<sinkVars, statusVars, delivered, pc, ev, read, since, calls, historyVars>>

(* The collector takes the event, or the request fails or is rejected.     *)
WorkerSends ==
    /\ wpc = "send"
    /\ handled' = handled + 1
    /\ \/ delivered' = delivered \cup {wev} /\ UNCHANGED firstFailure
       \/ firstFailure' = TRUE /\ UNCHANGED delivered
    /\ wpc' = "recv"
    /\ UNCHANGED <<sinkVars, queue, accepted, dropped, exited, wev, pc, callVars, calls, historyVars>>

(* The transport panics.                                                   *)
WorkerPanics ==
    /\ wpc = "send"
    /\ wpc' = "leaving"
    /\ UNCHANGED <<sinkVars, queue, statusVars, wev, delivered, pc, callVars, calls, historyVars>>

(* WorkerExitGuard, dropped before the receiver is.                        *)
WorkerExits ==
    /\ wpc = "leaving"
    /\ exited' = TRUE
    /\ wpc' = "exited"
    /\ UNCHANGED <<sinkVars, queue, accepted, handled, dropped, firstFailure, wev, delivered,
                   pc, callVars, calls, historyVars>>

(* The receiver is dropped with all that is queued.                        *)
WorkerGone ==
    /\ wpc = "exited"
    /\ wpc' = "gone"
    /\ queue' = <<>>
    /\ ack' = [c \in Callers |->
                  IF \E i \in DOMAIN queue : queue[i].by = c THEN "gone" ELSE ack[c]]
    /\ UNCHANGED <<sinkVars, statusVars, wev, delivered, pc, ev, read, since, calls,
                   historyVars>>

WorkerStep == WorkerReceives \/ WorkerSends \/ WorkerPanics \/ WorkerExits \/ WorkerGone

CallStep(c) ==
    \/ EmitFailure(c) \/ EmitSender(c) \/ EmitAccept(c) \/ EmitTrySend(c)
    \/ EmitTakeBack(c) \/ EmitCountDrop(c)
    \/ ControlSend(c) \/ ControlAnswered(c) \/ ControlTimesOut(c)
    \/ ShutdownTakesSender(c) \/ ShutdownJoins(c) \/ ReportReads(c) \/ ReportEnds(c)

Quiet == \A c \in Callers : pc[c] = "idle"

Over ==
    /\ Quiet /\ \A c \in Callers : calls[c] = MaxCalls
    /\ wpc = "gone" \/ (wpc = "recv" /\ queue = <<>> /\ SenderLives)
    /\ UNCHANGED vars

Next ==
    \/ \E c \in Callers : Emit(c) \/ Flush(c) \/ Shutdown(c) \/ CallStep(c)
    \/ WorkerStep
    \/ Over

(* Threads run on; the worker is not obliged to: its transport may hang.   *)
Spec == Init /\ [][Next]_vars /\ \A c \in Callers : WF_vars(CallStep(c))
-----------------------------------------------------------------------------

(* Once the worker is gone and no call is running, the report accounts for *)
(* every event: it was attempted, or turned away with an error, or counted *)
(* as dropped, whether the queue was full, the sink closed, or the worker  *)
(* died with it.                                                           *)
LossesCounted ==
    Quiet /\ wpc = "gone" =>
        dropped + Unfinished = emitted - handled - Cardinality(refused)

(* In required mode a flush or shutdown that succeeds vouches for the      *)
(* delivery of every event whose emit had returned before it.              *)
ConfirmedDelivered == confirmed \subseteq delivered

(* A report never counts a loss that did not happen, although it reads     *)
(* counters that other threads are changing.                               *)
ReportNeverInvents ==
    Quiet /\ wpc = "gone" => \A c \in Callers : report[c] <= dropped + Unfinished

(* What the sink says of its deliveries is so: every loss is counted, and  *)
(* a confirmed flush confirms deliveries (observability.rs:2182, 2457).    *)
DeliveryReported == LossesCounted /\ ReportNeverInvents /\ ConfirmedDelivered

(* Every call returns, also when the transport hangs.                      *)
CallsReturn == \A c \in Callers : pc[c] # "idle" ~> pc[c] = "idle"
-----------------------------------------------------------------------------
(* The inductive invariant behind DeliveryReported, proved in              *)
(* RemoteLogProofs.                                                        *)

Labels == {"idle", "failure", "sender", "accept", "trySend", "takeBack", "countDrop",
           "flush", "shutdown", "awaitFlush", "awaitShutdown", "takeSender", "join",
           "report", "reportRest"}
Uncounted == {"failure", "sender", "accept", "countDrop"}
Pushing == {"trySend", "takeBack"}
At(labels) == {c \in Callers : pc[c] \in labels}

Commands == [kind : {"event", "flush", "shutdown"}, ev : Nat, by : Callers \cup {NoCaller}]

TypeOK ==
    /\ required \in BOOLEAN /\ queue \in Seq(Commands)
    /\ accepted \in Int /\ handled \in Nat /\ dropped \in Nat /\ emitted \in Nat
    /\ wpc \in {"recv", "send", "leaving", "exited", "gone"}
    /\ exited <=> wpc \in {"exited", "gone"}
    /\ pc \in [Callers -> Labels]
    /\ ev \in [Callers -> Nat]
    /\ ack \in [Callers -> {"none", "ok", "failed", "gone"}]
    /\ read \in [Callers -> Nat] /\ report \in [Callers -> Int]

(* The event of each call of emit is its own until it is turned away.      *)
OwnEvents ==
    /\ \A c \in At(Uncounted \cup Pushing) : ev[c] \in 1..emitted /\ ev[c] \notin refused
    /\ \A c, d \in At(Uncounted \cup Pushing) : ev[c] = ev[d] => c = d
    /\ refused \subseteq 1..emitted

(* An emitted event is accepted, dropped, turned away or about to be, and  *)
(* an accepted one is handled, under way, about to be taken back, or was   *)
(* lost with the worker.                                                   *)
Sending == IF wpc = "send" THEN 1 ELSE 0
EventsOf(q) == {i \in DOMAIN q : q[i].kind = "event"}

CountInv ==
    /\ emitted = accepted + dropped + Cardinality(refused) + Cardinality(At(Uncounted))
    /\ handled + Cardinality(EventsOf(queue)) + Cardinality(At(Pushing)) + Sending <= accepted

(* What a report says was lost when it was read stays lost.                *)
ReportInv ==
    \A c \in Callers :
        /\ read[c] <= dropped
        /\ \/ report[c] <= dropped
           \/ exited /\ report[c] <= dropped + accepted + Cardinality(At({"countDrop"})) - handled

(* A control command in the channel is the one its caller waits for.       *)
CommandInv ==
    /\ \A i \in DOMAIN queue : queue[i].by \in Callers =>
          queue[i].kind # "event" /\ Awaits(queue[i].by) /\ ack[queue[i].by] = "none"
    /\ \A i, j \in DOMAIN queue : queue[i].by \in Callers /\ queue[i].by = queue[j].by => i = j
    /\ \A c \in At({"flush", "shutdown"}) : ack[c] = "none"

(* As long as nothing failed, what was returned is delivered or on its way *)
(* in order: before the command that is to vouch for it.                   *)
Underway(e, n) ==
    \/ e \in delivered
    \/ wpc = "send" /\ wev = e
    \/ \E i \in EventsOf(queue) : i <= n /\ queue[i].ev = e

SinceInv == \A c \in Callers : since[c] \subseteq returned

UnderwayInv ==
    required /\ ~firstFailure /\ wpc \in {"recv", "send"} =>
        /\ \A e \in returned : Underway(e, Len(queue))
        /\ \A i \in DOMAIN queue : queue[i].by \in Callers =>
              \A e \in since[queue[i].by] : Underway(e, i)

AnswerInv ==
    required => \A c \in Callers : Awaits(c) /\ ack[c] = "ok" => since[c] \subseteq delivered

VouchInv == SinceInv /\ UnderwayInv /\ AnswerInv /\ ConfirmedDelivered

IInv == TypeOK /\ OwnEvents /\ CountInv /\ ReportInv /\ CommandInv /\ VouchInv
=============================================================================
