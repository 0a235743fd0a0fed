--------------------------- MODULE MonitoringProofs --------------------------
(***************************************************************************)
(* Proofs about what a run tells of itself and what it remembers.          *)
(* RemoteLog: the remote sink, for any threads, any queue capacity and any *)
(* number of calls, with the inductive invariant IInv and DeliveryReported *)
(* from it. StatusCache: the digest cache, for any files, processes, edits *)
(* and faults, with the inductive invariant CacheInv and CacheTrue from it.*)
(* Progress: the record and the counters, for any workers, sizes and       *)
(* operations, with RecordInv and TrackerInv and ProgressTrue from them.   *)
(***************************************************************************)
EXTENDS RemoteLog, StatusCache, Progress, FiniteSetTheorems, TLAPS

(***************************************************************************)
(* Counting.                                                               *)
(***************************************************************************)

(* One caller moves: each set of callers gains or loses it.                *)
Weighs(c, S) == IF pc[c] \in S THEN 1 ELSE 0

LEMMA AtCounts ==
    ASSUME NEW S
    PROVE  Cardinality(At(S)) \in Nat /\ Cardinality(At(S)') \in Nat
  <1>1. IsFiniteSet(At(S)) /\ IsFiniteSet(At(S)')
    BY CallersAssumption, FS_Subset DEF At
  <1> QED
    BY <1>1, FS_CardinalityType

LEMMA OneMoves ==
    ASSUME NEW c \in Callers, NEW S, \A d \in Callers \ {c} : pc'[d] = pc[d]
    PROVE  Cardinality(At(S)') = Cardinality(At(S)) - Weighs(c, S) + Weighs(c, S)'
  <1> DEFINE Others == {d \in Callers \ {c} : pc[d] \in S}
  <1>1. IsFiniteSet(Others) /\ c \notin Others
    BY CallersAssumption, FS_Subset
  <1>2. Cardinality(Others) \in Nat /\ Cardinality(Others \cup {c}) = Cardinality(Others) + 1
    BY <1>1, FS_AddElement, FS_CardinalityType
  <1>3. At(S) = IF pc[c] \in S THEN Others \cup {c} ELSE Others
    BY DEF At
  <1>4. At(S)' = IF pc'[c] \in S THEN Others \cup {c} ELSE Others
    BY DEF At
  <1> HIDE DEF Others
  <1> QED
    BY <1>2, <1>3, <1>4 DEF Weighs

LEMMA NoneMoves ==
    ASSUME NEW S, pc' = pc
    PROVE  At(S)' = At(S)
  BY DEF At

(* The events of a queue, at its ends.                                     *)
LEMMA EventsCount ==
    ASSUME NEW q \in Seq(Commands)
    PROVE  IsFiniteSet(EventsOf(q)) /\ Cardinality(EventsOf(q)) \in Nat
  <1>1. EventsOf(q) \subseteq 1..Len(q) /\ 1 \in Int /\ Len(q) \in Int
    BY DEF EventsOf
  <1>2. IsFiniteSet(1..Len(q))
    BY <1>1, FS_Interval
  <1>3. IsFiniteSet(EventsOf(q))
    BY <1>1, <1>2, FS_Subset
  <1> QED
    BY <1>3, FS_CardinalityType

LEMMA EventsAppended ==
    ASSUME NEW q \in Seq(Commands), NEW m \in Commands
    PROVE  Cardinality(EventsOf(Append(q, m))) =
             Cardinality(EventsOf(q)) + (IF m.kind = "event" THEN 1 ELSE 0)
  <1> DEFINE E == EventsOf(q)
             n == Len(q) + 1
  <1>1. EventsOf(Append(q, m)) = IF m.kind = "event" THEN E \cup {n} ELSE E
    BY DEF EventsOf
  <1>2. n \notin E /\ IsFiniteSet(E) /\ Cardinality(E) \in Nat
    BY EventsCount DEF EventsOf
  <1> HIDE DEF E, n
  <1>3. Cardinality(E \cup {n}) = Cardinality(E) + 1
    BY <1>2, FS_AddElement
  <1>4. Cardinality(EventsOf(Append(q, m))) = Cardinality(E) + (IF m.kind = "event" THEN 1 ELSE 0)
    BY <1>1, <1>2, <1>3
  <1> QED
    BY <1>4 DEF E

LEMMA EventsTaken ==
    ASSUME NEW q \in Seq(Commands), q # <<>>
    PROVE  Cardinality(EventsOf(Tail(q))) =
             Cardinality(EventsOf(q)) - (IF Head(q).kind = "event" THEN 1 ELSE 0)
  <1> DEFINE E == EventsOf(q)
             T == EventsOf(Tail(q))
             Rest == E \ {1}
             Up == [i \in T |-> i + 1]
  <1>1. Tail(q) \in Seq(Commands) /\ Len(Tail(q)) = Len(q) - 1 /\ Len(q) \in Nat \ {0}
        /\ \A i \in 1..Len(q) - 1 : Tail(q)[i] = q[i + 1]
    OBVIOUS
  <1>2. \A i \in T : i \in Int /\ i + 1 \in Rest
    BY <1>1 DEF EventsOf
  <1>3. \A k \in Rest : k \in Int /\ k - 1 \in T
    BY <1>1 DEF EventsOf
  <1>4. IsFiniteSet(E) /\ IsFiniteSet(T)
    BY <1>1, EventsCount
  <1>5. 1 \in E <=> Head(q).kind = "event"
    BY <1>1 DEF EventsOf
  <1> HIDE DEF E, T
  <1>6. Up \in [T -> Rest] /\ \A i \in T : Up[i] = i + 1
    BY <1>2
  <1>7. \A k \in Rest : k = Up[k - 1]
    BY <1>3
  <1> HIDE DEF Up, Rest
  <1>8. Up \in Injection(T, Rest)
    BY <1>2, <1>6 DEF Injection, IsInjective
  <1>9. Up \in Surjection(T, Rest)
    BY <1>3, <1>6, <1>7 DEF Surjection
  <1>10. Up \in Bijection(T, Rest)
    BY <1>8, <1>9 DEF Bijection
  <1>11. Cardinality(T) = Cardinality(Rest)
    <2>1. ExistsBijection(T, Rest)
      BY <1>10 DEF ExistsBijection
    <2> QED
      BY <1>4, <2>1, FS_Bijection
  <1>12. CASE 1 \in E
    <2>1. Cardinality(Rest) = Cardinality(E) - 1
      BY <1>4, <1>12, FS_RemoveElement DEF Rest
    <2> QED
      BY <1>5, <1>11, <1>12, <2>1 DEF E, T
  <1>13. CASE 1 \notin E
    <2>1. Rest = E /\ Cardinality(E) \in Nat
      BY <1>4, <1>13, FS_CardinalityType DEF Rest
    <2> QED
      BY <1>5, <1>11, <1>13, <2>1 DEF E, T
  <1> QED
    BY <1>12, <1>13

(***************************************************************************)
(* The queue.                                                              *)
(***************************************************************************)

(* A call that stops waiting leaves its command to nobody.                 *)
LEMMA OrphanedQueue ==
    ASSUME NEW c \in Callers, TypeOK, ControlTimesOut(c)
    PROVE  /\ queue' \in Seq(Commands) /\ Len(queue') = Len(queue)
           /\ DOMAIN queue' = DOMAIN queue
           /\ \A i \in DOMAIN queue :
                 /\ queue'[i].kind = queue[i].kind /\ queue'[i].ev = queue[i].ev
                 /\ queue'[i].by = IF queue[i].by = c THEN NoCaller ELSE queue[i].by
           /\ EventsOf(queue') = EventsOf(queue)
  <1>1. /\ queue \in Seq(Commands) /\ DOMAIN queue = 1..Len(queue) /\ Len(queue) \in Nat
        /\ \A i \in DOMAIN queue : queue[i] \in Commands
    BY DEF TypeOK
  <1>2. /\ queue' = [i \in DOMAIN queue |->
                        IF queue[i].by = c THEN [queue[i] EXCEPT !.by = NoCaller] ELSE queue[i]]
    BY DEF ControlTimesOut
  <1>3. \A i \in DOMAIN queue :
           /\ queue'[i] \in Commands
           /\ queue'[i].kind = queue[i].kind /\ queue'[i].ev = queue[i].ev
           /\ queue'[i].by = IF queue[i].by = c THEN NoCaller ELSE queue[i].by
    BY <1>1, <1>2 DEF Commands
  <1>4. queue' \in Seq(Commands) /\ Len(queue') = Len(queue) /\ DOMAIN queue' = DOMAIN queue
    BY <1>1, <1>2, <1>3
  <1>5. EventsOf(queue') = EventsOf(queue)
    BY <1>3, <1>4 DEF EventsOf
  <1> QED
    BY <1>3, <1>4, <1>5

(***************************************************************************)
(* Types.                                                                  *)
(***************************************************************************)

(* The type invariant is kept.                                             *)
LEMMA StepType ==
    ASSUME TypeOK, [Next]_vars
    PROVE  TypeOK'
  <1>1. ASSUME NEW c \in Callers, Emit(c) PROVE TypeOK'
    BY <1>1
       DEF Emit, Calls, Goes, sinkVars, statusVars, workerVars, TypeOK, Labels
  <1>2. ASSUME NEW c \in Callers, EmitFailure(c) PROVE TypeOK'
    BY <1>2
       DEF EmitFailure, Goes, TurnsAway, sinkVars, statusVars, workerVars, callVars, TypeOK,
          Labels
  <1>3. ASSUME NEW c \in Callers, EmitSender(c) PROVE TypeOK'
    BY <1>3
       DEF EmitSender, Goes, TurnsAway, sinkVars, statusVars, workerVars, callVars, TypeOK,
          Labels
  <1>4. ASSUME NEW c \in Callers, EmitAccept(c) PROVE TypeOK'
    BY <1>4
       DEF EmitAccept, Goes, sinkVars, workerVars, callVars, historyVars, TypeOK, Labels
  <1>5. ASSUME NEW c \in Callers, EmitTrySend(c) PROVE TypeOK'
    <2>1. queue \in Seq(Commands) /\ Event(ev[c]) \in Commands
      BY <1>5 DEF EmitTrySend, TypeOK, Commands, Event
    <2>2. queue' \in {queue, Append(queue, Event(ev[c]))}
      BY <1>5 DEF EmitTrySend
    <2>3. queue' \in Seq(Commands)
      BY <2>1, <2>2
    <2> QED
      BY <1>5, <2>3 DEF EmitTrySend, Goes, Disconnected, Full, sinkVars, statusVars,
         workerVars, callVars, TypeOK, Labels
  <1>6. ASSUME NEW c \in Callers, EmitTakeBack(c) PROVE TypeOK'
    BY <1>6
       DEF EmitTakeBack, Goes, sinkVars, workerVars, callVars, historyVars, TypeOK, Labels
  <1>7. ASSUME NEW c \in Callers, EmitCountDrop(c) PROVE TypeOK'
    BY <1>7
       DEF EmitCountDrop, Goes, sinkVars, workerVars, callVars, TypeOK, Labels
  <1>8. ASSUME NEW c \in Callers, Flush(c) PROVE TypeOK'
    BY <1>8
       DEF Flush, Calls, Goes, sinkVars, statusVars, workerVars, historyVars, TypeOK, Labels
  <1>9. ASSUME NEW c \in Callers, Shutdown(c) PROVE TypeOK'
    BY <1>9
       DEF Shutdown, Calls, Goes, statusVars, workerVars, historyVars, TypeOK, Labels
  <1>10. ASSUME NEW c \in Callers, ControlSend(c) PROVE TypeOK'
    <2>1. queue \in Seq(Commands) /\ Control(pc[c], c) \in Commands
      BY <1>10 DEF ControlSend, TypeOK, Commands, Control
    <2>2. queue' \in {queue, Append(queue, Control(pc[c], c))}
      BY <1>10 DEF ControlSend
    <2>3. queue' \in Seq(Commands)
      BY <2>1, <2>2
    <2> QED
      BY <1>10, <2>3 DEF ControlSend, Goes, ControlEnds, DeliveryResult, Disconnected,
         Full, sinkVars, statusVars, workerVars, TypeOK, Labels
  <1>11. ASSUME NEW c \in Callers, ControlAnswered(c) PROVE TypeOK'
    BY <1>11
       DEF ControlAnswered, Goes, Awaits, ControlEnds, DeliveryResult, sinkVars, statusVars,
          workerVars, TypeOK, Labels
  <1>12. ASSUME NEW c \in Callers, ControlTimesOut(c) PROVE TypeOK'
    BY <1>12, OrphanedQueue
       DEF ControlTimesOut, Goes, Awaits, WaitEnds, ControlEnds, sinkVars, statusVars,
          workerVars, TypeOK, Labels
  <1>13. ASSUME NEW c \in Callers, ShutdownTakesSender(c) PROVE TypeOK'
    BY <1>13
       DEF ShutdownTakesSender, Goes, statusVars, workerVars, callVars, historyVars, TypeOK,
          Labels
  <1>14. ASSUME NEW c \in Callers, ShutdownJoins(c) PROVE TypeOK'
    BY <1>14
       DEF ShutdownJoins, Goes, sinkVars, statusVars, workerVars, callVars, historyVars,
          TypeOK, Labels
  <1>15. ASSUME NEW c \in Callers, ReportReads(c) PROVE TypeOK'
    BY <1>15
       DEF ReportReads, Goes, sinkVars, statusVars, workerVars, historyVars, TypeOK, Labels
  <1>16. ASSUME NEW c \in Callers, ReportEnds(c) PROVE TypeOK'
    BY <1>16
       DEF ReportEnds, Goes, Unfinished, sinkVars, statusVars, workerVars, callVars, TypeOK,
          Labels
  <1>17. ASSUME WorkerReceives PROVE TypeOK'
    <2>1. /\ queue \in Seq(Commands)
          /\ queue # <<>> => Tail(queue) \in Seq(Commands) /\ Head(queue) \in Commands
      BY DEF TypeOK
    <2>2. queue' \in Seq(Commands)
      BY <1>17, <2>1 DEF WorkerReceives
    <2>3. wpc' \in {"recv", "send", "leaving"} /\ wpc = "recv"
      BY <1>17 DEF WorkerReceives
    <2>4. ack' \in [Callers -> {"none", "ok", "failed", "gone"}]
      BY <1>17 DEF WorkerReceives, Answers, Answer, TypeOK
    <2> QED
      BY <1>17, <2>2, <2>3, <2>4 DEF WorkerReceives, sinkVars, statusVars, historyVars,
         TypeOK
  <1>18. ASSUME WorkerSends PROVE TypeOK'
    BY <1>18
       DEF WorkerSends, sinkVars, callVars, historyVars, TypeOK, Labels
  <1>19. ASSUME WorkerPanics PROVE TypeOK'
    BY <1>19
       DEF WorkerPanics, sinkVars, statusVars, callVars, historyVars, TypeOK, Labels
  <1>20. ASSUME WorkerExits PROVE TypeOK'
    BY <1>20
       DEF WorkerExits, sinkVars, callVars, historyVars, TypeOK, Labels
  <1>21. ASSUME WorkerGone PROVE TypeOK'
    BY <1>21
       DEF WorkerGone, sinkVars, statusVars, historyVars, TypeOK, Labels
  <1>22. ASSUME UNCHANGED vars PROVE TypeOK'
    BY <1>22
       DEF vars, sinkVars, statusVars, workerVars, callVars, historyVars, TypeOK, Labels
  <1> QED
    BY <1>1, <1>2, <1>3, <1>4, <1>5, <1>6, <1>7, <1>8, <1>9, <1>10, <1>11, <1>12, <1>13,
       <1>14, <1>15, <1>16, <1>17, <1>18, <1>19, <1>20, <1>21, <1>22
       DEF Next, CallStep, WorkerStep, Over

(***************************************************************************)
(* Events are counted once.                                                *)
(***************************************************************************)

(* Every event in a call is that call's own.                               *)
LEMMA StepOwn ==
    ASSUME TypeOK, OwnEvents, [Next]_vars
    PROVE  OwnEvents'
  <1>1. ASSUME NEW c \in Callers, Emit(c) PROVE OwnEvents'
    BY <1>1
       DEF Emit, Calls, Goes, sinkVars, statusVars, workerVars, TypeOK, OwnEvents, At,
          Uncounted, Pushing
  <1>2. ASSUME NEW c \in Callers, EmitFailure(c) PROVE OwnEvents'
    <2> DEFINE S == Uncounted \cup Pushing
    <2>1. /\ c \in At(S) /\ ev' = ev /\ emitted' = emitted
          /\ \A d \in Callers \ {c} : pc'[d] = pc[d]
          /\ refused' = refused \/ (refused' = refused \cup {ev[c]} /\ pc'[c] = "idle")
      BY <1>2 DEF EmitFailure, Goes, TurnsAway, callVars, TypeOK, At, Uncounted, Pushing
    <2>2. At(S)' \subseteq At(S)
      BY <2>1 DEF At
    <2>3. refused' # refused => c \notin At(S)'
      BY <2>1 DEF At, Uncounted, Pushing
    <2> HIDE DEF S
    <2> QED
      BY <2>1, <2>2, <2>3 DEF OwnEvents, S
  <1>3. ASSUME NEW c \in Callers, EmitSender(c) PROVE OwnEvents'
    <2> DEFINE S == Uncounted \cup Pushing
    <2>1. /\ c \in At(S) /\ ev' = ev /\ emitted' = emitted
          /\ \A d \in Callers \ {c} : pc'[d] = pc[d]
          /\ refused' = refused \/ (refused' = refused \cup {ev[c]} /\ pc'[c] = "idle")
      BY <1>3 DEF EmitSender, Goes, TurnsAway, callVars, TypeOK, At, Uncounted, Pushing
    <2>2. At(S)' \subseteq At(S)
      BY <2>1 DEF At
    <2>3. refused' # refused => c \notin At(S)'
      BY <2>1 DEF At, Uncounted, Pushing
    <2> HIDE DEF S
    <2> QED
      BY <2>1, <2>2, <2>3 DEF OwnEvents, S
  <1>4. ASSUME NEW c \in Callers, EmitAccept(c) PROVE OwnEvents'
    BY <1>4
       DEF EmitAccept, Goes, sinkVars, workerVars, callVars, historyVars, TypeOK, OwnEvents,
          At, Uncounted, Pushing
  <1>5. ASSUME NEW c \in Callers, EmitTrySend(c) PROVE OwnEvents'
    <2> DEFINE S == Uncounted \cup Pushing
    <2>1. /\ c \in At(S) /\ ev' = ev /\ emitted' = emitted
          /\ \A d \in Callers \ {c} : pc'[d] = pc[d]
          /\ refused' = refused \/ (refused' = refused \cup {ev[c]} /\ pc'[c] = "idle")
      BY <1>5 DEF EmitTrySend, Goes, TurnsAway, callVars, TypeOK, At, Uncounted, Pushing
    <2>2. At(S)' \subseteq At(S)
      BY <2>1 DEF At
    <2>3. refused' # refused => c \notin At(S)'
      BY <2>1 DEF At, Uncounted, Pushing
    <2> HIDE DEF S
    <2> QED
      BY <2>1, <2>2, <2>3 DEF OwnEvents, S
  <1>6. ASSUME NEW c \in Callers, EmitTakeBack(c) PROVE OwnEvents'
    BY <1>6
       DEF EmitTakeBack, Goes, sinkVars, workerVars, callVars, historyVars, TypeOK,
          OwnEvents, At, Uncounted, Pushing
  <1>7. ASSUME NEW c \in Callers, EmitCountDrop(c) PROVE OwnEvents'
    BY <1>7
       DEF EmitCountDrop, Goes, sinkVars, workerVars, callVars, TypeOK, OwnEvents, At,
          Uncounted, Pushing
  <1>8. ASSUME NEW c \in Callers, Flush(c) PROVE OwnEvents'
    BY <1>8
       DEF Flush, Calls, Goes, sinkVars, statusVars, workerVars, historyVars, TypeOK,
          OwnEvents, At, Uncounted, Pushing
  <1>9. ASSUME NEW c \in Callers, Shutdown(c) PROVE OwnEvents'
    BY <1>9
       DEF Shutdown, Calls, Goes, statusVars, workerVars, historyVars, TypeOK, OwnEvents,
          At, Uncounted, Pushing
  <1>10. ASSUME NEW c \in Callers, ControlSend(c) PROVE OwnEvents'
    <2> DEFINE S == Uncounted \cup Pushing
    <2>1. /\ UNCHANGED <<ev, emitted, refused>>
          /\ \A d \in Callers : d # c => pc'[d] = pc[d]
          /\ pc'[c] \in {"idle", "takeSender", "awaitFlush", "awaitShutdown"}
      BY <1>10 DEF ControlSend, ControlEnds, Goes, TypeOK
    <2>2. At(S)' \subseteq At(S)
      BY <2>1 DEF At, Uncounted, Pushing
    <2> HIDE DEF S
    <2> QED
      BY <2>1, <2>2 DEF OwnEvents, S
  <1>11. ASSUME NEW c \in Callers, ControlAnswered(c) PROVE OwnEvents'
    BY <1>11
       DEF ControlAnswered, Goes, Awaits, ControlEnds, DeliveryResult, sinkVars, statusVars,
          workerVars, TypeOK, OwnEvents, At, Uncounted, Pushing
  <1>12. ASSUME NEW c \in Callers, ControlTimesOut(c) PROVE OwnEvents'
    BY <1>12
       DEF ControlTimesOut, Goes, Awaits, WaitEnds, ControlEnds, sinkVars, statusVars,
          workerVars, TypeOK, OwnEvents, At, Uncounted, Pushing
  <1>13. ASSUME NEW c \in Callers, ShutdownTakesSender(c) PROVE OwnEvents'
    BY <1>13
       DEF ShutdownTakesSender, Goes, statusVars, workerVars, callVars, historyVars, TypeOK,
          OwnEvents, At, Uncounted, Pushing
  <1>14. ASSUME NEW c \in Callers, ShutdownJoins(c) PROVE OwnEvents'
    BY <1>14
       DEF ShutdownJoins, Goes, sinkVars, statusVars, workerVars, callVars, historyVars,
          TypeOK, OwnEvents, At, Uncounted, Pushing
  <1>15. ASSUME NEW c \in Callers, ReportReads(c) PROVE OwnEvents'
    BY <1>15
       DEF ReportReads, Goes, sinkVars, statusVars, workerVars, historyVars, TypeOK,
          OwnEvents, At, Uncounted, Pushing
  <1>16. ASSUME NEW c \in Callers, ReportEnds(c) PROVE OwnEvents'
    BY <1>16
       DEF ReportEnds, Goes, Unfinished, sinkVars, statusVars, workerVars, callVars, TypeOK,
          OwnEvents, At, Uncounted, Pushing
  <1>17. ASSUME WorkerReceives PROVE OwnEvents'
    BY <1>17
       DEF WorkerReceives, Answers, Answer, sinkVars, statusVars, historyVars, TypeOK,
          OwnEvents, At, Uncounted, Pushing
  <1>18. ASSUME WorkerSends PROVE OwnEvents'
    BY <1>18
       DEF WorkerSends, sinkVars, callVars, historyVars, TypeOK, OwnEvents, At, Uncounted,
          Pushing
  <1>19. ASSUME WorkerPanics PROVE OwnEvents'
    BY <1>19
       DEF WorkerPanics, sinkVars, statusVars, callVars, historyVars, TypeOK, OwnEvents, At,
          Uncounted, Pushing
  <1>20. ASSUME WorkerExits PROVE OwnEvents'
    BY <1>20
       DEF WorkerExits, sinkVars, callVars, historyVars, TypeOK, OwnEvents, At, Uncounted,
          Pushing
  <1>21. ASSUME WorkerGone PROVE OwnEvents'
    BY <1>21
       DEF WorkerGone, sinkVars, statusVars, historyVars, TypeOK, OwnEvents, At, Uncounted,
          Pushing
  <1>22. ASSUME UNCHANGED vars PROVE OwnEvents'
    BY <1>22
       DEF vars, sinkVars, statusVars, workerVars, callVars, historyVars, TypeOK, OwnEvents,
          At, Uncounted, Pushing
  <1> QED
    BY <1>1, <1>2, <1>3, <1>4, <1>5, <1>6, <1>7, <1>8, <1>9, <1>10, <1>11, <1>12, <1>13,
       <1>14, <1>15, <1>16, <1>17, <1>18, <1>19, <1>20, <1>21, <1>22
       DEF Next, CallStep, WorkerStep, Over

(* An event turned away had not been turned away before.                   *)
LEMMA RefusedCount ==
    ASSUME TypeOK, OwnEvents
    PROVE  /\ Cardinality(refused) \in Nat
           /\ \A c \in At(Uncounted) : Cardinality(refused \cup {ev[c]}) = Cardinality(refused) + 1
  <1>1. IsFiniteSet(1..emitted)
    <2>1. 1 \in Int /\ emitted \in Int
      BY DEF TypeOK
    <2> QED
      BY <2>1, FS_Interval
  <1>2. IsFiniteSet(refused)
    BY <1>1, FS_Subset DEF OwnEvents
  <1>3. ASSUME NEW c \in At(Uncounted)
        PROVE  Cardinality(refused \cup {ev[c]}) = Cardinality(refused) + 1
    <2>1. ev[c] \notin refused
      BY DEF OwnEvents, At
    <2> QED
      BY <1>2, <2>1, FS_AddElement
  <1> QED
    BY <1>2, <1>3, FS_CardinalityType

(* What a step of one call does to the sets of calls that are counted.     *)
Moves(c) ==
    /\ Cardinality(At(Uncounted)') =
         Cardinality(At(Uncounted)) - Weighs(c, Uncounted) + Weighs(c, Uncounted)'
    /\ Cardinality(At(Pushing)') =
         Cardinality(At(Pushing)) - Weighs(c, Pushing) + Weighs(c, Pushing)'
    /\ Cardinality(At({"countDrop"})') =
         Cardinality(At({"countDrop"})) - Weighs(c, {"countDrop"}) + Weighs(c, {"countDrop"})'

Numbers ==
    /\ Cardinality(At(Uncounted)) \in Nat /\ Cardinality(At(Pushing)) \in Nat
    /\ Cardinality(At({"countDrop"})) \in Nat
    /\ Cardinality(EventsOf(queue)) \in Nat /\ Cardinality(EventsOf(<<>>)) = 0
    /\ accepted \in Int /\ handled \in Nat /\ dropped \in Nat /\ emitted \in Nat
    /\ Cardinality(refused) \in Nat /\ Sending \in {0, 1}

LEMMA NumbersHold ==
    ASSUME TypeOK, OwnEvents
    PROVE  Numbers
  <1>1. EventsOf(<<>>) = {}
    BY DEF EventsOf
  <1>2. queue \in Seq(Commands)
    BY DEF TypeOK
  <1> QED
    BY <1>1, <1>2, AtCounts, EventsCount, RefusedCount, FS_EmptySet
       DEF Numbers, TypeOK, Sending

LEMMA CallMoves ==
    ASSUME NEW c \in Callers, TypeOK, Emit(c) \/ Flush(c) \/ Shutdown(c) \/ CallStep(c)
    PROVE  Moves(c)
  <1>1. \A d \in Callers \ {c} : pc'[d] = pc[d]
    <2>1. CASE Emit(c)
      BY <2>1 DEF Emit, TypeOK, Goes
    <2>2. CASE EmitFailure(c)
      BY <2>2 DEF EmitFailure, TypeOK, Goes, TurnsAway
    <2>3. CASE EmitSender(c)
      BY <2>3 DEF EmitSender, TypeOK, Goes, TurnsAway
    <2>4. CASE EmitAccept(c)
      BY <2>4 DEF EmitAccept, TypeOK, Goes
    <2>5. CASE EmitTrySend(c)
      BY <2>5 DEF EmitTrySend, TypeOK, Goes
    <2>6. CASE EmitTakeBack(c)
      BY <2>6 DEF EmitTakeBack, TypeOK, Goes
    <2>7. CASE EmitCountDrop(c)
      BY <2>7 DEF EmitCountDrop, TypeOK, Goes
    <2>8. CASE Flush(c)
      BY <2>8 DEF Flush, TypeOK, Goes
    <2>9. CASE Shutdown(c)
      BY <2>9 DEF Shutdown, TypeOK, Goes
    <2>10. CASE ControlSend(c)
      BY <2>10 DEF ControlSend, TypeOK, Goes, ControlEnds
    <2>11. CASE ControlAnswered(c)
      BY <2>11 DEF ControlAnswered, TypeOK, Goes, ControlEnds
    <2>12. CASE ControlTimesOut(c)
      BY <2>12 DEF ControlTimesOut, TypeOK, Goes, ControlEnds
    <2>13. CASE ShutdownTakesSender(c)
      BY <2>13 DEF ShutdownTakesSender, TypeOK, Goes
    <2>14. CASE ShutdownJoins(c)
      BY <2>14 DEF ShutdownJoins, TypeOK, Goes
    <2>15. CASE ReportReads(c)
      BY <2>15 DEF ReportReads, TypeOK, Goes
    <2>16. CASE ReportEnds(c)
      BY <2>16 DEF ReportEnds, TypeOK, Goes
    <2> QED
      BY <2>1, <2>2, <2>3, <2>4, <2>5, <2>6, <2>7, <2>8, <2>9, <2>10, <2>11, <2>12, <2>13,
         <2>14, <2>15, <2>16 DEF CallStep
  <1> QED
    BY <1>1, OneMoves DEF Moves

(* The counters account for every event, whatever overtakes what.          *)
LEMMA StepCount ==
    ASSUME TypeOK, OwnEvents, CountInv, [Next]_vars
    PROVE  CountInv'
  <1>1. ASSUME NEW c \in Callers, Emit(c) PROVE CountInv'
    <2>1. Moves(c) /\ Numbers
      BY <1>1, CallMoves, NumbersHold DEF CallStep
    <2>2. /\ Weighs(c, Uncounted) = 0 /\ Weighs(c, Uncounted)' = 1
          /\ Weighs(c, Pushing) = 0 /\ Weighs(c, Pushing)' = 0
      BY <1>1 DEF Emit, TypeOK, Weighs, Uncounted, Pushing, Calls, Goes
    <2>3. /\ queue' = queue
          /\ refused' = refused
          /\ emitted' = emitted + 1 /\ accepted' = accepted
          /\ handled' = handled /\ dropped' = dropped
          /\ Sending' = Sending
      BY <1>1 DEF Emit, Calls, Goes, sinkVars, statusVars, workerVars, Sending
    <2>4. /\ Cardinality(At(Uncounted)') = Cardinality(At(Uncounted)) + 1
          /\ Cardinality(At(Pushing)') = Cardinality(At(Pushing))
      BY <2>1, <2>2 DEF Moves, Numbers
    <2>5. /\ emitted = accepted + dropped + Cardinality(refused) + Cardinality(At(Uncounted))
           /\ handled + Cardinality(EventsOf(queue)) + Cardinality(At(Pushing)) + Sending <= accepted
           /\ emitted \in Nat /\ accepted \in Int /\ dropped \in Nat /\ handled \in Nat
           /\ Cardinality(refused) \in Nat /\ Cardinality(At(Uncounted)) \in Nat
           /\ Cardinality(EventsOf(queue)) \in Nat /\ Cardinality(At(Pushing)) \in Nat /\ Sending \in Nat
      BY <2>1 DEF CountInv, Numbers
    <2>6. emitted' = accepted' + dropped' + Cardinality(refused') + Cardinality(At(Uncounted)')
      BY <2>3, <2>4, <2>5
    <2>7. handled' + Cardinality(EventsOf(queue')) + Cardinality(At(Pushing)') + Sending' <= accepted'
      BY <2>3, <2>4, <2>5
    <2> QED
      BY <2>6, <2>7 DEF CountInv
  <1>2. ASSUME NEW c \in Callers, EmitFailure(c) PROVE CountInv'
    <2>1. Moves(c) /\ Numbers
      BY <1>2, CallMoves, NumbersHold DEF CallStep
    <2>2. /\ Weighs(c, Uncounted) = 1 /\ Weighs(c, Uncounted)' = (IF required /\ firstFailure THEN 0 ELSE 1)
          /\ Weighs(c, Pushing) = 0 /\ Weighs(c, Pushing)' = 0
      BY <1>2 DEF EmitFailure, TypeOK, Weighs, Uncounted, Pushing, Goes, TurnsAway
    <2>3. /\ queue' = queue
          /\ refused' = IF required /\ firstFailure THEN refused \cup {ev[c]} ELSE refused
          /\ emitted' = emitted /\ accepted' = accepted
          /\ handled' = handled /\ dropped' = dropped
          /\ Sending' = Sending
      BY <1>2 DEF EmitFailure, Goes, TurnsAway, sinkVars, statusVars, workerVars,
         callVars, Sending
    <2>4. /\ Cardinality(refused) \in Nat
          /\ c \in At(Uncounted) => Cardinality(refused \cup {ev[c]}) = Cardinality(refused) + 1
      BY RefusedCount
    <2>5. c \in At(Uncounted)
      BY <1>2 DEF EmitFailure, At, Uncounted
    <2>6. /\ Cardinality(At(Uncounted)') = Cardinality(At(Uncounted)) - 1 + (IF required /\ firstFailure THEN 0 ELSE 1)
          /\ Cardinality(At(Pushing)') = Cardinality(At(Pushing))
      BY <2>1, <2>2 DEF Moves, Numbers
    <2>7. /\ emitted = accepted + dropped + Cardinality(refused) + Cardinality(At(Uncounted))
           /\ handled + Cardinality(EventsOf(queue)) + Cardinality(At(Pushing)) + Sending <= accepted
           /\ emitted \in Nat /\ accepted \in Int /\ dropped \in Nat /\ handled \in Nat
           /\ Cardinality(refused) \in Nat /\ Cardinality(At(Uncounted)) \in Nat
           /\ Cardinality(EventsOf(queue)) \in Nat /\ Cardinality(At(Pushing)) \in Nat /\ Sending \in Nat
      BY <2>1 DEF CountInv, Numbers
    <2>8. /\ Cardinality(refused') + Cardinality(At(Uncounted)') =
               Cardinality(refused) + Cardinality(At(Uncounted))
          /\ Cardinality(refused') \in Int /\ Cardinality(At(Uncounted)') \in Int
      <3>1. CASE required /\ firstFailure
        BY <2>1, <2>3, <2>4, <2>5, <2>6, <3>1 DEF Numbers
      <3>2. CASE ~(required /\ firstFailure)
        BY <2>1, <2>3, <2>4, <2>5, <2>6, <3>2 DEF Numbers
      <3> QED
        BY <3>1, <3>2
    <2>9. emitted' = emitted /\ accepted' = accepted /\ dropped' = dropped
      BY <2>3
    <2>10. emitted' = accepted' + dropped' + Cardinality(refused') + Cardinality(At(Uncounted)')
      BY <2>8, <2>9, <2>7
    <2>11. handled' + Cardinality(EventsOf(queue')) + Cardinality(At(Pushing)') + Sending' <= accepted'
      BY <2>3, <2>6, <2>7
    <2> QED
      BY <2>10, <2>11 DEF CountInv
  <1>3. ASSUME NEW c \in Callers, EmitSender(c) PROVE CountInv'
    <2>1. Moves(c) /\ Numbers
      BY <1>3, CallMoves, NumbersHold DEF CallStep
    <2>2. /\ Weighs(c, Uncounted) = 1 /\ Weighs(c, Uncounted)' = (IF slot THEN 1 ELSE 0)
          /\ Weighs(c, Pushing) = 0 /\ Weighs(c, Pushing)' = 0
      BY <1>3 DEF EmitSender, TypeOK, Weighs, Uncounted, Pushing, Goes, TurnsAway
    <2>3. /\ queue' = queue
          /\ refused' = IF ~slot THEN refused \cup {ev[c]} ELSE refused
          /\ emitted' = emitted /\ accepted' = accepted
          /\ handled' = handled /\ dropped' = dropped
          /\ Sending' = Sending
      BY <1>3 DEF EmitSender, Goes, TurnsAway, sinkVars, statusVars, workerVars, callVars,
         Sending
    <2>4. /\ Cardinality(refused) \in Nat
          /\ c \in At(Uncounted) => Cardinality(refused \cup {ev[c]}) = Cardinality(refused) + 1
      BY RefusedCount
    <2>5. c \in At(Uncounted)
      BY <1>3 DEF EmitSender, At, Uncounted
    <2>6. /\ Cardinality(At(Uncounted)') = Cardinality(At(Uncounted)) - 1 + (IF slot THEN 1 ELSE 0)
          /\ Cardinality(At(Pushing)') = Cardinality(At(Pushing))
      BY <2>1, <2>2 DEF Moves, Numbers
    <2>7. /\ emitted = accepted + dropped + Cardinality(refused) + Cardinality(At(Uncounted))
           /\ handled + Cardinality(EventsOf(queue)) + Cardinality(At(Pushing)) + Sending <= accepted
           /\ emitted \in Nat /\ accepted \in Int /\ dropped \in Nat /\ handled \in Nat
           /\ Cardinality(refused) \in Nat /\ Cardinality(At(Uncounted)) \in Nat
           /\ Cardinality(EventsOf(queue)) \in Nat /\ Cardinality(At(Pushing)) \in Nat /\ Sending \in Nat
      BY <2>1 DEF CountInv, Numbers
    <2>8. /\ Cardinality(refused') + Cardinality(At(Uncounted)') =
               Cardinality(refused) + Cardinality(At(Uncounted))
          /\ Cardinality(refused') \in Int /\ Cardinality(At(Uncounted)') \in Int
      <3>1. CASE ~slot
        BY <2>1, <2>3, <2>4, <2>5, <2>6, <3>1 DEF Numbers
      <3>2. CASE ~(~slot)
        BY <2>1, <2>3, <2>4, <2>5, <2>6, <3>2 DEF Numbers
      <3> QED
        BY <3>1, <3>2
    <2>9. emitted' = emitted /\ accepted' = accepted /\ dropped' = dropped
      BY <2>3
    <2>10. emitted' = accepted' + dropped' + Cardinality(refused') + Cardinality(At(Uncounted)')
      BY <2>8, <2>9, <2>7
    <2>11. handled' + Cardinality(EventsOf(queue')) + Cardinality(At(Pushing)') + Sending' <= accepted'
      BY <2>3, <2>6, <2>7
    <2> QED
      BY <2>10, <2>11 DEF CountInv
  <1>4. ASSUME NEW c \in Callers, EmitAccept(c) PROVE CountInv'
    <2>1. Moves(c) /\ Numbers
      BY <1>4, CallMoves, NumbersHold DEF CallStep
    <2>2. /\ Weighs(c, Uncounted) = 1 /\ Weighs(c, Uncounted)' = 0
          /\ Weighs(c, Pushing) = 0 /\ Weighs(c, Pushing)' = 1
      BY <1>4 DEF EmitAccept, TypeOK, Weighs, Uncounted, Pushing, Goes
    <2>3. /\ queue' = queue
          /\ refused' = refused
          /\ emitted' = emitted /\ accepted' = accepted + 1
          /\ handled' = handled /\ dropped' = dropped
          /\ Sending' = Sending
      BY <1>4 DEF EmitAccept, Goes, sinkVars, workerVars, callVars, historyVars, Sending
    <2>4. /\ Cardinality(At(Uncounted)') = Cardinality(At(Uncounted)) - 1
          /\ Cardinality(At(Pushing)') = Cardinality(At(Pushing)) + 1
      BY <2>1, <2>2 DEF Moves, Numbers
    <2>5. /\ emitted = accepted + dropped + Cardinality(refused) + Cardinality(At(Uncounted))
           /\ handled + Cardinality(EventsOf(queue)) + Cardinality(At(Pushing)) + Sending <= accepted
           /\ emitted \in Nat /\ accepted \in Int /\ dropped \in Nat /\ handled \in Nat
           /\ Cardinality(refused) \in Nat /\ Cardinality(At(Uncounted)) \in Nat
           /\ Cardinality(EventsOf(queue)) \in Nat /\ Cardinality(At(Pushing)) \in Nat /\ Sending \in Nat
      BY <2>1 DEF CountInv, Numbers
    <2>6. emitted' = accepted' + dropped' + Cardinality(refused') + Cardinality(At(Uncounted)')
      BY <2>3, <2>4, <2>5
    <2>7. handled' + Cardinality(EventsOf(queue')) + Cardinality(At(Pushing)') + Sending' <= accepted'
      BY <2>3, <2>4, <2>5
    <2> QED
      BY <2>6, <2>7 DEF CountInv
  <1>5. ASSUME NEW c \in Callers, EmitTrySend(c) PROVE CountInv'
    <2>1. Moves(c) /\ Numbers
      BY <1>5, CallMoves, NumbersHold DEF CallStep
    <2>2. /\ Weighs(c, Uncounted) = 0 /\ Weighs(c, Uncounted)' = 0
          /\ Weighs(c, Pushing) = 1 /\ Weighs(c, Pushing)' = (IF Disconnected \/ Full THEN 1 ELSE 0)
      BY <1>5 DEF EmitTrySend, TypeOK, Weighs, Uncounted, Pushing, Goes, Disconnected, Full
    <2>3. /\ queue' = IF Disconnected \/ Full THEN queue ELSE Append(queue, Event(ev[c]))
          /\ refused' = refused
          /\ emitted' = emitted /\ accepted' = accepted
          /\ handled' = handled /\ dropped' = dropped
          /\ Sending' = Sending
      BY <1>5 DEF EmitTrySend, Goes, Disconnected, Full, sinkVars, statusVars, workerVars,
         callVars, Sending
    <2>4. queue \in Seq(Commands) /\ Event(ev[c]) \in Commands
      BY <1>5 DEF TypeOK, Commands, Event
    <2>5. Cardinality(EventsOf(Append(queue, Event(ev[c])))) = Cardinality(EventsOf(queue)) + 1
      BY <2>4, EventsAppended, EventsCount DEF Event
    <2>6. /\ Cardinality(At(Uncounted)') = Cardinality(At(Uncounted))
          /\ Cardinality(At(Pushing)') = Cardinality(At(Pushing)) - 1 + (IF Disconnected \/ Full THEN 1 ELSE 0)
      BY <2>1, <2>2 DEF Moves, Numbers
    <2>7. /\ emitted = accepted + dropped + Cardinality(refused) + Cardinality(At(Uncounted))
           /\ handled + Cardinality(EventsOf(queue)) + Cardinality(At(Pushing)) + Sending <= accepted
           /\ emitted \in Nat /\ accepted \in Int /\ dropped \in Nat /\ handled \in Nat
           /\ Cardinality(refused) \in Nat /\ Cardinality(At(Uncounted)) \in Nat
           /\ Cardinality(EventsOf(queue)) \in Nat /\ Cardinality(At(Pushing)) \in Nat /\ Sending \in Nat
      BY <2>1 DEF CountInv, Numbers
    <2>8. emitted' = accepted' + dropped' + Cardinality(refused') + Cardinality(At(Uncounted)')
      BY <2>3, <2>5, <2>6, <2>7
    <2>9. handled' + Cardinality(EventsOf(queue')) + Cardinality(At(Pushing)') + Sending' <= accepted'
      <3>1. CASE Disconnected \/ Full
        BY <2>3, <2>6, <2>7, <3>1
      <3>2. CASE ~(Disconnected \/ Full)
        <4>1. /\ Cardinality(EventsOf(queue')) = Cardinality(EventsOf(queue)) + 1
              /\ Cardinality(At(Pushing)') = Cardinality(At(Pushing)) - 1
          BY <2>3, <2>5, <2>6, <2>7, <3>2
        <4>2. handled' = handled /\ accepted' = accepted /\ Sending' = Sending
          BY <2>3
        <4> QED
          BY <2>7, <4>1, <4>2
      <3> QED
        BY <3>1, <3>2
    <2> QED
      BY <2>8, <2>9 DEF CountInv
  <1>6. ASSUME NEW c \in Callers, EmitTakeBack(c) PROVE CountInv'
    <2>1. Moves(c) /\ Numbers
      BY <1>6, CallMoves, NumbersHold DEF CallStep
    <2>2. /\ Weighs(c, Uncounted) = 0 /\ Weighs(c, Uncounted)' = 1
          /\ Weighs(c, Pushing) = 1 /\ Weighs(c, Pushing)' = 0
      BY <1>6 DEF EmitTakeBack, TypeOK, Weighs, Uncounted, Pushing, Goes
    <2>3. /\ queue' = queue
          /\ refused' = refused
          /\ emitted' = emitted /\ accepted' = accepted - 1
          /\ handled' = handled /\ dropped' = dropped
          /\ Sending' = Sending
      BY <1>6 DEF EmitTakeBack, Goes, sinkVars, workerVars, callVars, historyVars, Sending
    <2>4. /\ Cardinality(At(Uncounted)') = Cardinality(At(Uncounted)) + 1
          /\ Cardinality(At(Pushing)') = Cardinality(At(Pushing)) - 1
      BY <2>1, <2>2 DEF Moves, Numbers
    <2>5. /\ emitted = accepted + dropped + Cardinality(refused) + Cardinality(At(Uncounted))
           /\ handled + Cardinality(EventsOf(queue)) + Cardinality(At(Pushing)) + Sending <= accepted
           /\ emitted \in Nat /\ accepted \in Int /\ dropped \in Nat /\ handled \in Nat
           /\ Cardinality(refused) \in Nat /\ Cardinality(At(Uncounted)) \in Nat
           /\ Cardinality(EventsOf(queue)) \in Nat /\ Cardinality(At(Pushing)) \in Nat /\ Sending \in Nat
      BY <2>1 DEF CountInv, Numbers
    <2>6. emitted' = accepted' + dropped' + Cardinality(refused') + Cardinality(At(Uncounted)')
      BY <2>3, <2>4, <2>5
    <2>7. handled' + Cardinality(EventsOf(queue')) + Cardinality(At(Pushing)') + Sending' <= accepted'
      BY <2>3, <2>4, <2>5
    <2> QED
      BY <2>6, <2>7 DEF CountInv
  <1>7. ASSUME NEW c \in Callers, EmitCountDrop(c) PROVE CountInv'
    <2>1. Moves(c) /\ Numbers
      BY <1>7, CallMoves, NumbersHold DEF CallStep
    <2>2. /\ Weighs(c, Uncounted) = 1 /\ Weighs(c, Uncounted)' = 0
          /\ Weighs(c, Pushing) = 0 /\ Weighs(c, Pushing)' = 0
      BY <1>7 DEF EmitCountDrop, TypeOK, Weighs, Uncounted, Pushing, Goes
    <2>3. /\ queue' = queue
          /\ refused' = refused
          /\ emitted' = emitted /\ accepted' = accepted
          /\ handled' = handled /\ dropped' = dropped + 1
          /\ Sending' = Sending
      BY <1>7 DEF EmitCountDrop, Goes, sinkVars, workerVars, callVars, Sending
    <2>4. /\ Cardinality(At(Uncounted)') = Cardinality(At(Uncounted)) - 1
          /\ Cardinality(At(Pushing)') = Cardinality(At(Pushing))
      BY <2>1, <2>2 DEF Moves, Numbers
    <2>5. /\ emitted = accepted + dropped + Cardinality(refused) + Cardinality(At(Uncounted))
           /\ handled + Cardinality(EventsOf(queue)) + Cardinality(At(Pushing)) + Sending <= accepted
           /\ emitted \in Nat /\ accepted \in Int /\ dropped \in Nat /\ handled \in Nat
           /\ Cardinality(refused) \in Nat /\ Cardinality(At(Uncounted)) \in Nat
           /\ Cardinality(EventsOf(queue)) \in Nat /\ Cardinality(At(Pushing)) \in Nat /\ Sending \in Nat
      BY <2>1 DEF CountInv, Numbers
    <2>6. emitted' = accepted' + dropped' + Cardinality(refused') + Cardinality(At(Uncounted)')
      BY <2>3, <2>4, <2>5
    <2>7. handled' + Cardinality(EventsOf(queue')) + Cardinality(At(Pushing)') + Sending' <= accepted'
      BY <2>3, <2>4, <2>5
    <2> QED
      BY <2>6, <2>7 DEF CountInv
  <1>8. ASSUME NEW c \in Callers, Flush(c) PROVE CountInv'
    <2>1. Moves(c) /\ Numbers
      BY <1>8, CallMoves, NumbersHold DEF CallStep
    <2>2. /\ Weighs(c, Uncounted) = 0 /\ Weighs(c, Uncounted)' = 0
          /\ Weighs(c, Pushing) = 0 /\ Weighs(c, Pushing)' = 0
      BY <1>8 DEF Flush, TypeOK, Weighs, Uncounted, Pushing, Calls, Goes
    <2>3. /\ queue' = queue
          /\ refused' = refused
          /\ emitted' = emitted /\ accepted' = accepted
          /\ handled' = handled /\ dropped' = dropped
          /\ Sending' = Sending
      BY <1>8 DEF Flush, Calls, Goes, sinkVars, statusVars, workerVars, historyVars, Sending
    <2>4. /\ Cardinality(At(Uncounted)') = Cardinality(At(Uncounted))
          /\ Cardinality(At(Pushing)') = Cardinality(At(Pushing))
      BY <2>1, <2>2 DEF Moves, Numbers
    <2>5. /\ emitted = accepted + dropped + Cardinality(refused) + Cardinality(At(Uncounted))
           /\ handled + Cardinality(EventsOf(queue)) + Cardinality(At(Pushing)) + Sending <= accepted
           /\ emitted \in Nat /\ accepted \in Int /\ dropped \in Nat /\ handled \in Nat
           /\ Cardinality(refused) \in Nat /\ Cardinality(At(Uncounted)) \in Nat
           /\ Cardinality(EventsOf(queue)) \in Nat /\ Cardinality(At(Pushing)) \in Nat /\ Sending \in Nat
      BY <2>1 DEF CountInv, Numbers
    <2>6. emitted' = accepted' + dropped' + Cardinality(refused') + Cardinality(At(Uncounted)')
      BY <2>3, <2>4, <2>5
    <2>7. handled' + Cardinality(EventsOf(queue')) + Cardinality(At(Pushing)') + Sending' <= accepted'
      BY <2>3, <2>4, <2>5
    <2> QED
      BY <2>6, <2>7 DEF CountInv
  <1>9. ASSUME NEW c \in Callers, Shutdown(c) PROVE CountInv'
    <2>1. Moves(c) /\ Numbers
      BY <1>9, CallMoves, NumbersHold DEF CallStep
    <2>2. /\ Weighs(c, Uncounted) = 0 /\ Weighs(c, Uncounted)' = 0
          /\ Weighs(c, Pushing) = 0 /\ Weighs(c, Pushing)' = 0
      BY <1>9 DEF Shutdown, TypeOK, Weighs, Uncounted, Pushing, Calls, Goes
    <2>3. /\ queue' = queue
          /\ refused' = refused
          /\ emitted' = emitted /\ accepted' = accepted
          /\ handled' = handled /\ dropped' = dropped
          /\ Sending' = Sending
      BY <1>9 DEF Shutdown, Calls, Goes, statusVars, workerVars, historyVars, Sending
    <2>4. /\ Cardinality(At(Uncounted)') = Cardinality(At(Uncounted))
          /\ Cardinality(At(Pushing)') = Cardinality(At(Pushing))
      BY <2>1, <2>2 DEF Moves, Numbers
    <2>5. /\ emitted = accepted + dropped + Cardinality(refused) + Cardinality(At(Uncounted))
           /\ handled + Cardinality(EventsOf(queue)) + Cardinality(At(Pushing)) + Sending <= accepted
           /\ emitted \in Nat /\ accepted \in Int /\ dropped \in Nat /\ handled \in Nat
           /\ Cardinality(refused) \in Nat /\ Cardinality(At(Uncounted)) \in Nat
           /\ Cardinality(EventsOf(queue)) \in Nat /\ Cardinality(At(Pushing)) \in Nat /\ Sending \in Nat
      BY <2>1 DEF CountInv, Numbers
    <2>6. emitted' = accepted' + dropped' + Cardinality(refused') + Cardinality(At(Uncounted)')
      BY <2>3, <2>4, <2>5
    <2>7. handled' + Cardinality(EventsOf(queue')) + Cardinality(At(Pushing)') + Sending' <= accepted'
      BY <2>3, <2>4, <2>5
    <2> QED
      BY <2>6, <2>7 DEF CountInv
  <1>10. ASSUME NEW c \in Callers, ControlSend(c) PROVE CountInv'
    <2>1. Moves(c) /\ Numbers
      BY <1>10, CallMoves, NumbersHold DEF CallStep
    <2>2. /\ Weighs(c, Uncounted) = 0 /\ Weighs(c, Uncounted)' = 0
          /\ Weighs(c, Pushing) = 0 /\ Weighs(c, Pushing)' = 0
      BY <1>10 DEF ControlSend, TypeOK, Weighs, Uncounted, Pushing, Goes, ControlEnds,
         Disconnected, Full
    <2>3. /\ queue' \in {queue, Append(queue, Control(pc[c], c))}
          /\ refused' = refused
          /\ emitted' = emitted /\ accepted' = accepted
          /\ handled' = handled /\ dropped' = dropped
          /\ Sending' = Sending
      BY <1>10 DEF ControlSend, Goes, ControlEnds, DeliveryResult, Disconnected, Full,
         sinkVars, statusVars, workerVars, Sending
    <2>4. queue \in Seq(Commands) /\ Control(pc[c], c) \in Commands
      BY <1>10 DEF TypeOK, Commands, Control, ControlSend
    <2>5. Cardinality(EventsOf(Append(queue, Control(pc[c], c)))) = Cardinality(EventsOf(queue))
      BY <1>10, <2>4, EventsAppended, EventsCount DEF Control, ControlSend
    <2>6. Cardinality(EventsOf(queue')) = Cardinality(EventsOf(queue))
      <3>1. CASE queue' = queue
        BY <3>1
      <3>2. CASE queue' = Append(queue, Control(pc[c], c))
        BY <2>1, <2>5, <3>2 DEF Numbers
      <3> QED
        BY <2>3, <3>1, <3>2
    <2>7. /\ Cardinality(At(Uncounted)') = Cardinality(At(Uncounted))
          /\ Cardinality(At(Pushing)') = Cardinality(At(Pushing))
      BY <2>1, <2>2 DEF Moves, Numbers
    <2>8. /\ emitted = accepted + dropped + Cardinality(refused) + Cardinality(At(Uncounted))
           /\ handled + Cardinality(EventsOf(queue)) + Cardinality(At(Pushing)) + Sending <= accepted
           /\ emitted \in Nat /\ accepted \in Int /\ dropped \in Nat /\ handled \in Nat
           /\ Cardinality(refused) \in Nat /\ Cardinality(At(Uncounted)) \in Nat
           /\ Cardinality(EventsOf(queue)) \in Nat /\ Cardinality(At(Pushing)) \in Nat /\ Sending \in Nat
      BY <2>1 DEF CountInv, Numbers
    <2>9. emitted' = accepted' + dropped' + Cardinality(refused') + Cardinality(At(Uncounted)')
      BY <2>3, <2>7, <2>6, <2>8
    <2>10. handled' + Cardinality(EventsOf(queue')) + Cardinality(At(Pushing)') + Sending' <= accepted'
      BY <2>3, <2>7, <2>6, <2>8
    <2> QED
      BY <2>9, <2>10 DEF CountInv
  <1>11. ASSUME NEW c \in Callers, ControlAnswered(c) PROVE CountInv'
    <2>1. Moves(c) /\ Numbers
      BY <1>11, CallMoves, NumbersHold DEF CallStep
    <2>2. /\ Weighs(c, Uncounted) = 0 /\ Weighs(c, Uncounted)' = 0
          /\ Weighs(c, Pushing) = 0 /\ Weighs(c, Pushing)' = 0
      BY <1>11 DEF ControlAnswered, TypeOK, Weighs, Uncounted, Pushing, Goes, Awaits,
         ControlEnds
    <2>3. /\ queue' = queue
          /\ refused' = refused
          /\ emitted' = emitted /\ accepted' = accepted
          /\ handled' = handled /\ dropped' = dropped
          /\ Sending' = Sending
      BY <1>11 DEF ControlAnswered, Goes, Awaits, ControlEnds, DeliveryResult, sinkVars,
         statusVars, workerVars, Sending
    <2>4. /\ Cardinality(At(Uncounted)') = Cardinality(At(Uncounted))
          /\ Cardinality(At(Pushing)') = Cardinality(At(Pushing))
      BY <2>1, <2>2 DEF Moves, Numbers
    <2>5. /\ emitted = accepted + dropped + Cardinality(refused) + Cardinality(At(Uncounted))
           /\ handled + Cardinality(EventsOf(queue)) + Cardinality(At(Pushing)) + Sending <= accepted
           /\ emitted \in Nat /\ accepted \in Int /\ dropped \in Nat /\ handled \in Nat
           /\ Cardinality(refused) \in Nat /\ Cardinality(At(Uncounted)) \in Nat
           /\ Cardinality(EventsOf(queue)) \in Nat /\ Cardinality(At(Pushing)) \in Nat /\ Sending \in Nat
      BY <2>1 DEF CountInv, Numbers
    <2>6. emitted' = accepted' + dropped' + Cardinality(refused') + Cardinality(At(Uncounted)')
      BY <2>3, <2>4, <2>5
    <2>7. handled' + Cardinality(EventsOf(queue')) + Cardinality(At(Pushing)') + Sending' <= accepted'
      BY <2>3, <2>4, <2>5
    <2> QED
      BY <2>6, <2>7 DEF CountInv
  <1>12. ASSUME NEW c \in Callers, ControlTimesOut(c) PROVE CountInv'
    <2>1. Moves(c) /\ Numbers
      BY <1>12, CallMoves, NumbersHold DEF CallStep
    <2>2. /\ Weighs(c, Uncounted) = 0 /\ Weighs(c, Uncounted)' = 0
          /\ Weighs(c, Pushing) = 0 /\ Weighs(c, Pushing)' = 0
      BY <1>12 DEF ControlTimesOut, TypeOK, Weighs, Uncounted, Pushing, Goes, Awaits,
         ControlEnds
    <2>3. /\ EventsOf(queue') = EventsOf(queue)
          /\ refused' = refused
          /\ emitted' = emitted /\ accepted' = accepted
          /\ handled' = handled /\ dropped' = dropped
          /\ Sending' = Sending
      BY <1>12, OrphanedQueue DEF ControlTimesOut, Goes, Awaits, WaitEnds, ControlEnds,
         sinkVars, statusVars, workerVars, Sending
    <2>4. /\ Cardinality(At(Uncounted)') = Cardinality(At(Uncounted))
          /\ Cardinality(At(Pushing)') = Cardinality(At(Pushing))
      BY <2>1, <2>2 DEF Moves, Numbers
    <2>5. /\ emitted = accepted + dropped + Cardinality(refused) + Cardinality(At(Uncounted))
           /\ handled + Cardinality(EventsOf(queue)) + Cardinality(At(Pushing)) + Sending <= accepted
           /\ emitted \in Nat /\ accepted \in Int /\ dropped \in Nat /\ handled \in Nat
           /\ Cardinality(refused) \in Nat /\ Cardinality(At(Uncounted)) \in Nat
           /\ Cardinality(EventsOf(queue)) \in Nat /\ Cardinality(At(Pushing)) \in Nat /\ Sending \in Nat
      BY <2>1 DEF CountInv, Numbers
    <2>6. emitted' = accepted' + dropped' + Cardinality(refused') + Cardinality(At(Uncounted)')
      BY <2>3, <2>4, <2>5
    <2>7. handled' + Cardinality(EventsOf(queue')) + Cardinality(At(Pushing)') + Sending' <= accepted'
      BY <2>3, <2>4, <2>5
    <2> QED
      BY <2>6, <2>7 DEF CountInv
  <1>13. ASSUME NEW c \in Callers, ShutdownTakesSender(c) PROVE CountInv'
    <2>1. Moves(c) /\ Numbers
      BY <1>13, CallMoves, NumbersHold DEF CallStep
    <2>2. /\ Weighs(c, Uncounted) = 0 /\ Weighs(c, Uncounted)' = 0
          /\ Weighs(c, Pushing) = 0 /\ Weighs(c, Pushing)' = 0
      BY <1>13 DEF ShutdownTakesSender, TypeOK, Weighs, Uncounted, Pushing, Goes
    <2>3. /\ queue' = queue
          /\ refused' = refused
          /\ emitted' = emitted /\ accepted' = accepted
          /\ handled' = handled /\ dropped' = dropped
          /\ Sending' = Sending
      BY <1>13 DEF ShutdownTakesSender, Goes, statusVars, workerVars, callVars,
         historyVars, Sending
    <2>4. /\ Cardinality(At(Uncounted)') = Cardinality(At(Uncounted))
          /\ Cardinality(At(Pushing)') = Cardinality(At(Pushing))
      BY <2>1, <2>2 DEF Moves, Numbers
    <2>5. /\ emitted = accepted + dropped + Cardinality(refused) + Cardinality(At(Uncounted))
           /\ handled + Cardinality(EventsOf(queue)) + Cardinality(At(Pushing)) + Sending <= accepted
           /\ emitted \in Nat /\ accepted \in Int /\ dropped \in Nat /\ handled \in Nat
           /\ Cardinality(refused) \in Nat /\ Cardinality(At(Uncounted)) \in Nat
           /\ Cardinality(EventsOf(queue)) \in Nat /\ Cardinality(At(Pushing)) \in Nat /\ Sending \in Nat
      BY <2>1 DEF CountInv, Numbers
    <2>6. emitted' = accepted' + dropped' + Cardinality(refused') + Cardinality(At(Uncounted)')
      BY <2>3, <2>4, <2>5
    <2>7. handled' + Cardinality(EventsOf(queue')) + Cardinality(At(Pushing)') + Sending' <= accepted'
      BY <2>3, <2>4, <2>5
    <2> QED
      BY <2>6, <2>7 DEF CountInv
  <1>14. ASSUME NEW c \in Callers, ShutdownJoins(c) PROVE CountInv'
    <2>1. Moves(c) /\ Numbers
      BY <1>14, CallMoves, NumbersHold DEF CallStep
    <2>2. /\ Weighs(c, Uncounted) = 0 /\ Weighs(c, Uncounted)' = 0
          /\ Weighs(c, Pushing) = 0 /\ Weighs(c, Pushing)' = 0
      BY <1>14 DEF ShutdownJoins, TypeOK, Weighs, Uncounted, Pushing, Goes
    <2>3. /\ queue' = queue
          /\ refused' = refused
          /\ emitted' = emitted /\ accepted' = accepted
          /\ handled' = handled /\ dropped' = dropped
          /\ Sending' = Sending
      BY <1>14 DEF ShutdownJoins, Goes, sinkVars, statusVars, workerVars, callVars,
         historyVars, Sending
    <2>4. /\ Cardinality(At(Uncounted)') = Cardinality(At(Uncounted))
          /\ Cardinality(At(Pushing)') = Cardinality(At(Pushing))
      BY <2>1, <2>2 DEF Moves, Numbers
    <2>5. /\ emitted = accepted + dropped + Cardinality(refused) + Cardinality(At(Uncounted))
           /\ handled + Cardinality(EventsOf(queue)) + Cardinality(At(Pushing)) + Sending <= accepted
           /\ emitted \in Nat /\ accepted \in Int /\ dropped \in Nat /\ handled \in Nat
           /\ Cardinality(refused) \in Nat /\ Cardinality(At(Uncounted)) \in Nat
           /\ Cardinality(EventsOf(queue)) \in Nat /\ Cardinality(At(Pushing)) \in Nat /\ Sending \in Nat
      BY <2>1 DEF CountInv, Numbers
    <2>6. emitted' = accepted' + dropped' + Cardinality(refused') + Cardinality(At(Uncounted)')
      BY <2>3, <2>4, <2>5
    <2>7. handled' + Cardinality(EventsOf(queue')) + Cardinality(At(Pushing)') + Sending' <= accepted'
      BY <2>3, <2>4, <2>5
    <2> QED
      BY <2>6, <2>7 DEF CountInv
  <1>15. ASSUME NEW c \in Callers, ReportReads(c) PROVE CountInv'
    <2>1. Moves(c) /\ Numbers
      BY <1>15, CallMoves, NumbersHold DEF CallStep
    <2>2. /\ Weighs(c, Uncounted) = 0 /\ Weighs(c, Uncounted)' = 0
          /\ Weighs(c, Pushing) = 0 /\ Weighs(c, Pushing)' = 0
      BY <1>15 DEF ReportReads, TypeOK, Weighs, Uncounted, Pushing, Goes
    <2>3. /\ queue' = queue
          /\ refused' = refused
          /\ emitted' = emitted /\ accepted' = accepted
          /\ handled' = handled /\ dropped' = dropped
          /\ Sending' = Sending
      BY <1>15 DEF ReportReads, Goes, sinkVars, statusVars, workerVars, historyVars, Sending
    <2>4. /\ Cardinality(At(Uncounted)') = Cardinality(At(Uncounted))
          /\ Cardinality(At(Pushing)') = Cardinality(At(Pushing))
      BY <2>1, <2>2 DEF Moves, Numbers
    <2>5. /\ emitted = accepted + dropped + Cardinality(refused) + Cardinality(At(Uncounted))
           /\ handled + Cardinality(EventsOf(queue)) + Cardinality(At(Pushing)) + Sending <= accepted
           /\ emitted \in Nat /\ accepted \in Int /\ dropped \in Nat /\ handled \in Nat
           /\ Cardinality(refused) \in Nat /\ Cardinality(At(Uncounted)) \in Nat
           /\ Cardinality(EventsOf(queue)) \in Nat /\ Cardinality(At(Pushing)) \in Nat /\ Sending \in Nat
      BY <2>1 DEF CountInv, Numbers
    <2>6. emitted' = accepted' + dropped' + Cardinality(refused') + Cardinality(At(Uncounted)')
      BY <2>3, <2>4, <2>5
    <2>7. handled' + Cardinality(EventsOf(queue')) + Cardinality(At(Pushing)') + Sending' <= accepted'
      BY <2>3, <2>4, <2>5
    <2> QED
      BY <2>6, <2>7 DEF CountInv
  <1>16. ASSUME NEW c \in Callers, ReportEnds(c) PROVE CountInv'
    <2>1. Moves(c) /\ Numbers
      BY <1>16, CallMoves, NumbersHold DEF CallStep
    <2>2. /\ Weighs(c, Uncounted) = 0 /\ Weighs(c, Uncounted)' = 0
          /\ Weighs(c, Pushing) = 0 /\ Weighs(c, Pushing)' = 0
      BY <1>16 DEF ReportEnds, TypeOK, Weighs, Uncounted, Pushing, Goes
    <2>3. /\ queue' = queue
          /\ refused' = refused
          /\ emitted' = emitted /\ accepted' = accepted
          /\ handled' = handled /\ dropped' = dropped
          /\ Sending' = Sending
      BY <1>16 DEF ReportEnds, Goes, Unfinished, sinkVars, statusVars, workerVars,
         callVars, Sending
    <2>4. /\ Cardinality(At(Uncounted)') = Cardinality(At(Uncounted))
          /\ Cardinality(At(Pushing)') = Cardinality(At(Pushing))
      BY <2>1, <2>2 DEF Moves, Numbers
    <2>5. /\ emitted = accepted + dropped + Cardinality(refused) + Cardinality(At(Uncounted))
           /\ handled + Cardinality(EventsOf(queue)) + Cardinality(At(Pushing)) + Sending <= accepted
           /\ emitted \in Nat /\ accepted \in Int /\ dropped \in Nat /\ handled \in Nat
           /\ Cardinality(refused) \in Nat /\ Cardinality(At(Uncounted)) \in Nat
           /\ Cardinality(EventsOf(queue)) \in Nat /\ Cardinality(At(Pushing)) \in Nat /\ Sending \in Nat
      BY <2>1 DEF CountInv, Numbers
    <2>6. emitted' = accepted' + dropped' + Cardinality(refused') + Cardinality(At(Uncounted)')
      BY <2>3, <2>4, <2>5
    <2>7. handled' + Cardinality(EventsOf(queue')) + Cardinality(At(Pushing)') + Sending' <= accepted'
      BY <2>3, <2>4, <2>5
    <2> QED
      BY <2>6, <2>7 DEF CountInv
  <1>17. ASSUME WorkerReceives PROVE CountInv'
    <2>1. pc' = pc /\ At(Uncounted)' = At(Uncounted) /\ At(Pushing)' = At(Pushing) /\ Numbers
      BY <1>17, NoneMoves, NumbersHold DEF WorkerReceives, callVars
    <2>2. queue # <<>> => Cardinality(EventsOf(Tail(queue))) =
                            Cardinality(EventsOf(queue)) - (IF Head(queue).kind = "event" THEN 1 ELSE 0)
      BY EventsTaken DEF TypeOK
    <2>3. /\ UNCHANGED <<emitted, accepted, handled, dropped, refused>> /\ wpc = "recv"
          /\ \/ queue # <<>> /\ queue' = Tail(queue) /\ (wpc' = "send" => Head(queue).kind = "event")
             \/ queue' = queue /\ wpc' # "send"
      BY <1>17 DEF WorkerReceives, sinkVars, statusVars, historyVars
    <2>4. Cardinality(EventsOf(queue')) + Sending' <= Cardinality(EventsOf(queue)) /\ Sending = 0
      <3>1. CASE queue' = queue /\ wpc' # "send"
        BY <2>1, <2>3, <3>1 DEF Numbers, Sending
      <3>2. CASE queue # <<>> /\ queue' = Tail(queue) /\ (wpc' = "send" => Head(queue).kind = "event")
        BY <2>1, <2>2, <2>3, <3>2 DEF Numbers, Sending
      <3> QED
        BY <2>3, <3>1, <3>2
    <2>5. Cardinality(EventsOf(queue')) \in Nat /\ Sending' \in {0, 1}
      BY EventsCount, StepType DEF TypeOK, Sending
    <2>6. /\ emitted = accepted + dropped + Cardinality(refused) + Cardinality(At(Uncounted))
          /\ handled + Cardinality(EventsOf(queue)) + Cardinality(At(Pushing)) <= accepted
          /\ accepted \in Int /\ handled \in Nat
          /\ Cardinality(EventsOf(queue)) \in Nat /\ Cardinality(At(Pushing)) \in Nat
      BY <2>1, <2>4 DEF CountInv, Numbers
    <2>7. /\ UNCHANGED <<emitted, accepted, handled, dropped, refused>>
          /\ At(Uncounted)' = At(Uncounted) /\ At(Pushing)' = At(Pushing)
          /\ Cardinality(EventsOf(queue')) + Sending' <= Cardinality(EventsOf(queue))
      BY <2>1, <2>3, <2>4
    <2>8. handled + Cardinality(EventsOf(queue')) + Cardinality(At(Pushing)) + Sending' <= accepted
      BY <2>5, <2>6, <2>7
    <2> QED
      BY <2>6, <2>7, <2>8 DEF CountInv
  <1>18. ASSUME WorkerSends PROVE CountInv'
    <2>1. pc' = pc /\ At(Uncounted)' = At(Uncounted) /\ At(Pushing)' = At(Pushing) /\ Numbers
      BY <1>18, NoneMoves, NumbersHold DEF WorkerSends, callVars
    <2> QED
      BY <1>18, <2>1 DEF WorkerSends, sinkVars, callVars, historyVars, TypeOK, CountInv,
         Numbers, Sending
  <1>19. ASSUME WorkerPanics PROVE CountInv'
    <2>1. pc' = pc /\ At(Uncounted)' = At(Uncounted) /\ At(Pushing)' = At(Pushing) /\ Numbers
      BY <1>19, NoneMoves, NumbersHold DEF WorkerPanics, callVars
    <2> QED
      BY <1>19, <2>1 DEF WorkerPanics, sinkVars, statusVars, callVars, historyVars,
         TypeOK, CountInv, Numbers, Sending
  <1>20. ASSUME WorkerExits PROVE CountInv'
    <2>1. pc' = pc /\ At(Uncounted)' = At(Uncounted) /\ At(Pushing)' = At(Pushing) /\ Numbers
      BY <1>20, NoneMoves, NumbersHold DEF WorkerExits, callVars
    <2> QED
      BY <1>20, <2>1 DEF WorkerExits, sinkVars, callVars, historyVars, TypeOK, CountInv,
         Numbers, Sending
  <1>21. ASSUME WorkerGone PROVE CountInv'
    <2>1. pc' = pc /\ At(Uncounted)' = At(Uncounted) /\ At(Pushing)' = At(Pushing) /\ Numbers
      BY <1>21, NoneMoves, NumbersHold DEF WorkerGone, callVars
    <2> QED
      BY <1>21, <2>1 DEF WorkerGone, sinkVars, statusVars, historyVars, TypeOK, CountInv,
         Numbers, Sending
  <1>22. ASSUME UNCHANGED vars PROVE CountInv'
    <2>1. pc' = pc /\ At(Uncounted)' = At(Uncounted) /\ At(Pushing)' = At(Pushing) /\ Numbers
      BY <1>22, NoneMoves, NumbersHold DEF vars, sinkVars, statusVars, workerVars,
         callVars, historyVars
    <2> QED
      BY <1>22, <2>1 DEF vars, sinkVars, statusVars, workerVars, callVars, historyVars,
         CountInv, Sending
  <1> QED
    BY <1>1, <1>2, <1>3, <1>4, <1>5, <1>6, <1>7, <1>8, <1>9, <1>10, <1>11, <1>12, <1>13,
       <1>14, <1>15, <1>16, <1>17, <1>18, <1>19, <1>20, <1>21, <1>22
       DEF Next, CallStep, WorkerStep, Over

(***************************************************************************)
(* Reports.                                                                *)
(***************************************************************************)

(* The most a report can count once the worker has exited.                 *)
Lost == dropped + accepted + Cardinality(At({"countDrop"})) - handled

LossesGrow == dropped' >= dropped /\ (exited => exited' /\ Lost' >= Lost)

(* A loss that a report may have counted is not undone.                    *)
LEMMA StepLoses ==
    ASSUME TypeOK, OwnEvents, [Next]_vars
    PROVE  LossesGrow
  <1>1. ASSUME NEW c \in Callers, Emit(c) PROVE LossesGrow
    <2>1. Moves(c) /\ Numbers
      BY <1>1, CallMoves, NumbersHold DEF CallStep
    <2>2. Weighs(c, {"countDrop"}) = 0 /\ Weighs(c, {"countDrop"})' = (IF closed THEN 1 ELSE 0)
      BY <1>1 DEF Emit, TypeOK, Weighs, Calls, Goes
    <2>3. accepted' = accepted /\ handled' = handled /\ dropped' = dropped /\ exited' = exited
      BY <1>1 DEF Emit, Calls, Goes, sinkVars, statusVars, workerVars
    <2>4. Cardinality(At({"countDrop"})') = Cardinality(At({"countDrop"})) + (IF closed THEN 1 ELSE 0)
      BY <2>1, <2>2 DEF Moves, Numbers
    <2> QED
      BY <2>1, <2>3, <2>4 DEF LossesGrow, Lost, Numbers
  <1>2. ASSUME NEW c \in Callers, EmitFailure(c) PROVE LossesGrow
    <2>1. Moves(c) /\ Numbers
      BY <1>2, CallMoves, NumbersHold DEF CallStep
    <2>2. Weighs(c, {"countDrop"}) = 0 /\ Weighs(c, {"countDrop"})' = 0
      BY <1>2 DEF EmitFailure, TypeOK, Weighs, Goes, TurnsAway
    <2>3. accepted' = accepted /\ handled' = handled /\ dropped' = dropped /\ exited' = exited
      BY <1>2 DEF EmitFailure, Goes, TurnsAway, sinkVars, statusVars, workerVars, callVars
    <2>4. Cardinality(At({"countDrop"})') = Cardinality(At({"countDrop"}))
      BY <2>1, <2>2 DEF Moves, Numbers
    <2> QED
      BY <2>1, <2>3, <2>4 DEF LossesGrow, Lost, Numbers
  <1>3. ASSUME NEW c \in Callers, EmitSender(c) PROVE LossesGrow
    <2>1. Moves(c) /\ Numbers
      BY <1>3, CallMoves, NumbersHold DEF CallStep
    <2>2. Weighs(c, {"countDrop"}) = 0 /\ Weighs(c, {"countDrop"})' = 0
      BY <1>3 DEF EmitSender, TypeOK, Weighs, Goes, TurnsAway
    <2>3. accepted' = accepted /\ handled' = handled /\ dropped' = dropped /\ exited' = exited
      BY <1>3 DEF EmitSender, Goes, TurnsAway, sinkVars, statusVars, workerVars, callVars
    <2>4. Cardinality(At({"countDrop"})') = Cardinality(At({"countDrop"}))
      BY <2>1, <2>2 DEF Moves, Numbers
    <2> QED
      BY <2>1, <2>3, <2>4 DEF LossesGrow, Lost, Numbers
  <1>4. ASSUME NEW c \in Callers, EmitAccept(c) PROVE LossesGrow
    <2>1. Moves(c) /\ Numbers
      BY <1>4, CallMoves, NumbersHold DEF CallStep
    <2>2. Weighs(c, {"countDrop"}) = 0 /\ Weighs(c, {"countDrop"})' = 0
      BY <1>4 DEF EmitAccept, TypeOK, Weighs, Goes
    <2>3. accepted' = accepted + 1 /\ handled' = handled /\ dropped' = dropped /\ exited' = exited
      BY <1>4 DEF EmitAccept, Goes, sinkVars, workerVars, callVars, historyVars
    <2>4. Cardinality(At({"countDrop"})') = Cardinality(At({"countDrop"}))
      BY <2>1, <2>2 DEF Moves, Numbers
    <2> QED
      BY <2>1, <2>3, <2>4 DEF LossesGrow, Lost, Numbers
  <1>5. ASSUME NEW c \in Callers, EmitTrySend(c) PROVE LossesGrow
    <2>1. Moves(c) /\ Numbers
      BY <1>5, CallMoves, NumbersHold DEF CallStep
    <2>2. Weighs(c, {"countDrop"}) = 0 /\ Weighs(c, {"countDrop"})' = 0
      BY <1>5 DEF EmitTrySend, TypeOK, Weighs, Goes, Disconnected, Full
    <2>3. accepted' = accepted /\ handled' = handled /\ dropped' = dropped /\ exited' = exited
      BY <1>5 DEF EmitTrySend, Goes, Disconnected, Full, sinkVars, statusVars, workerVars,
         callVars
    <2>4. Cardinality(At({"countDrop"})') = Cardinality(At({"countDrop"}))
      BY <2>1, <2>2 DEF Moves, Numbers
    <2> QED
      BY <2>1, <2>3, <2>4 DEF LossesGrow, Lost, Numbers
  <1>6. ASSUME NEW c \in Callers, EmitTakeBack(c) PROVE LossesGrow
    <2>1. Moves(c) /\ Numbers
      BY <1>6, CallMoves, NumbersHold DEF CallStep
    <2>2. Weighs(c, {"countDrop"}) = 0 /\ Weighs(c, {"countDrop"})' = 1
      BY <1>6 DEF EmitTakeBack, TypeOK, Weighs, Goes
    <2>3. accepted' = accepted - 1 /\ handled' = handled /\ dropped' = dropped /\ exited' = exited
      BY <1>6 DEF EmitTakeBack, Goes, sinkVars, workerVars, callVars, historyVars
    <2>4. Cardinality(At({"countDrop"})') = Cardinality(At({"countDrop"})) + 1
      BY <2>1, <2>2 DEF Moves, Numbers
    <2> QED
      BY <2>1, <2>3, <2>4 DEF LossesGrow, Lost, Numbers
  <1>7. ASSUME NEW c \in Callers, EmitCountDrop(c) PROVE LossesGrow
    <2>1. Moves(c) /\ Numbers
      BY <1>7, CallMoves, NumbersHold DEF CallStep
    <2>2. Weighs(c, {"countDrop"}) = 1 /\ Weighs(c, {"countDrop"})' = 0
      BY <1>7 DEF EmitCountDrop, TypeOK, Weighs, Goes
    <2>3. accepted' = accepted /\ handled' = handled /\ dropped' = dropped + 1 /\ exited' = exited
      BY <1>7 DEF EmitCountDrop, Goes, sinkVars, workerVars, callVars
    <2>4. Cardinality(At({"countDrop"})') = Cardinality(At({"countDrop"})) - 1
      BY <2>1, <2>2 DEF Moves, Numbers
    <2> QED
      BY <2>1, <2>3, <2>4 DEF LossesGrow, Lost, Numbers
  <1>8. ASSUME NEW c \in Callers, Flush(c) PROVE LossesGrow
    <2>1. Moves(c) /\ Numbers
      BY <1>8, CallMoves, NumbersHold DEF CallStep
    <2>2. Weighs(c, {"countDrop"}) = 0 /\ Weighs(c, {"countDrop"})' = 0
      BY <1>8 DEF Flush, TypeOK, Weighs, Calls, Goes
    <2>3. accepted' = accepted /\ handled' = handled /\ dropped' = dropped /\ exited' = exited
      BY <1>8 DEF Flush, Calls, Goes, sinkVars, statusVars, workerVars, historyVars
    <2>4. Cardinality(At({"countDrop"})') = Cardinality(At({"countDrop"}))
      BY <2>1, <2>2 DEF Moves, Numbers
    <2> QED
      BY <2>1, <2>3, <2>4 DEF LossesGrow, Lost, Numbers
  <1>9. ASSUME NEW c \in Callers, Shutdown(c) PROVE LossesGrow
    <2>1. Moves(c) /\ Numbers
      BY <1>9, CallMoves, NumbersHold DEF CallStep
    <2>2. Weighs(c, {"countDrop"}) = 0 /\ Weighs(c, {"countDrop"})' = 0
      BY <1>9 DEF Shutdown, TypeOK, Weighs, Calls, Goes
    <2>3. accepted' = accepted /\ handled' = handled /\ dropped' = dropped /\ exited' = exited
      BY <1>9 DEF Shutdown, Calls, Goes, statusVars, workerVars, historyVars
    <2>4. Cardinality(At({"countDrop"})') = Cardinality(At({"countDrop"}))
      BY <2>1, <2>2 DEF Moves, Numbers
    <2> QED
      BY <2>1, <2>3, <2>4 DEF LossesGrow, Lost, Numbers
  <1>10. ASSUME NEW c \in Callers, ControlSend(c) PROVE LossesGrow
    <2>1. Moves(c) /\ Numbers
      BY <1>10, CallMoves, NumbersHold DEF CallStep
    <2>2. Weighs(c, {"countDrop"}) = 0 /\ Weighs(c, {"countDrop"})' = 0
      BY <1>10 DEF ControlSend, TypeOK, Weighs, Goes, ControlEnds, Disconnected, Full
    <2>3. accepted' = accepted /\ handled' = handled /\ dropped' = dropped /\ exited' = exited
      BY <1>10 DEF ControlSend, Goes, ControlEnds, DeliveryResult, Disconnected, Full,
         sinkVars, statusVars, workerVars
    <2>4. Cardinality(At({"countDrop"})') = Cardinality(At({"countDrop"}))
      BY <2>1, <2>2 DEF Moves, Numbers
    <2> QED
      BY <2>1, <2>3, <2>4 DEF LossesGrow, Lost, Numbers
  <1>11. ASSUME NEW c \in Callers, ControlAnswered(c) PROVE LossesGrow
    <2>1. Moves(c) /\ Numbers
      BY <1>11, CallMoves, NumbersHold DEF CallStep
    <2>2. Weighs(c, {"countDrop"}) = 0 /\ Weighs(c, {"countDrop"})' = 0
      BY <1>11 DEF ControlAnswered, TypeOK, Weighs, Goes, Awaits, ControlEnds
    <2>3. accepted' = accepted /\ handled' = handled /\ dropped' = dropped /\ exited' = exited
      BY <1>11 DEF ControlAnswered, Goes, Awaits, ControlEnds, DeliveryResult, sinkVars,
         statusVars, workerVars
    <2>4. Cardinality(At({"countDrop"})') = Cardinality(At({"countDrop"}))
      BY <2>1, <2>2 DEF Moves, Numbers
    <2> QED
      BY <2>1, <2>3, <2>4 DEF LossesGrow, Lost, Numbers
  <1>12. ASSUME NEW c \in Callers, ControlTimesOut(c) PROVE LossesGrow
    <2>1. Moves(c) /\ Numbers
      BY <1>12, CallMoves, NumbersHold DEF CallStep
    <2>2. Weighs(c, {"countDrop"}) = 0 /\ Weighs(c, {"countDrop"})' = 0
      BY <1>12 DEF ControlTimesOut, TypeOK, Weighs, Goes, Awaits, ControlEnds
    <2>3. accepted' = accepted /\ handled' = handled /\ dropped' = dropped /\ exited' = exited
      BY <1>12 DEF ControlTimesOut, Goes, Awaits, WaitEnds, ControlEnds, sinkVars,
         statusVars, workerVars
    <2>4. Cardinality(At({"countDrop"})') = Cardinality(At({"countDrop"}))
      BY <2>1, <2>2 DEF Moves, Numbers
    <2> QED
      BY <2>1, <2>3, <2>4 DEF LossesGrow, Lost, Numbers
  <1>13. ASSUME NEW c \in Callers, ShutdownTakesSender(c) PROVE LossesGrow
    <2>1. Moves(c) /\ Numbers
      BY <1>13, CallMoves, NumbersHold DEF CallStep
    <2>2. Weighs(c, {"countDrop"}) = 0 /\ Weighs(c, {"countDrop"})' = 0
      BY <1>13 DEF ShutdownTakesSender, TypeOK, Weighs, Goes
    <2>3. accepted' = accepted /\ handled' = handled /\ dropped' = dropped /\ exited' = exited
      BY <1>13 DEF ShutdownTakesSender, Goes, statusVars, workerVars, callVars, historyVars
    <2>4. Cardinality(At({"countDrop"})') = Cardinality(At({"countDrop"}))
      BY <2>1, <2>2 DEF Moves, Numbers
    <2> QED
      BY <2>1, <2>3, <2>4 DEF LossesGrow, Lost, Numbers
  <1>14. ASSUME NEW c \in Callers, ShutdownJoins(c) PROVE LossesGrow
    <2>1. Moves(c) /\ Numbers
      BY <1>14, CallMoves, NumbersHold DEF CallStep
    <2>2. Weighs(c, {"countDrop"}) = 0 /\ Weighs(c, {"countDrop"})' = 0
      BY <1>14 DEF ShutdownJoins, TypeOK, Weighs, Goes
    <2>3. accepted' = accepted /\ handled' = handled /\ dropped' = dropped /\ exited' = exited
      BY <1>14 DEF ShutdownJoins, Goes, sinkVars, statusVars, workerVars, callVars,
         historyVars
    <2>4. Cardinality(At({"countDrop"})') = Cardinality(At({"countDrop"}))
      BY <2>1, <2>2 DEF Moves, Numbers
    <2> QED
      BY <2>1, <2>3, <2>4 DEF LossesGrow, Lost, Numbers
  <1>15. ASSUME NEW c \in Callers, ReportReads(c) PROVE LossesGrow
    <2>1. Moves(c) /\ Numbers
      BY <1>15, CallMoves, NumbersHold DEF CallStep
    <2>2. Weighs(c, {"countDrop"}) = 0 /\ Weighs(c, {"countDrop"})' = 0
      BY <1>15 DEF ReportReads, TypeOK, Weighs, Goes
    <2>3. accepted' = accepted /\ handled' = handled /\ dropped' = dropped /\ exited' = exited
      BY <1>15 DEF ReportReads, Goes, sinkVars, statusVars, workerVars, historyVars
    <2>4. Cardinality(At({"countDrop"})') = Cardinality(At({"countDrop"}))
      BY <2>1, <2>2 DEF Moves, Numbers
    <2> QED
      BY <2>1, <2>3, <2>4 DEF LossesGrow, Lost, Numbers
  <1>16. ASSUME NEW c \in Callers, ReportEnds(c) PROVE LossesGrow
    <2>1. Moves(c) /\ Numbers
      BY <1>16, CallMoves, NumbersHold DEF CallStep
    <2>2. Weighs(c, {"countDrop"}) = 0 /\ Weighs(c, {"countDrop"})' = 0
      BY <1>16 DEF ReportEnds, TypeOK, Weighs, Goes
    <2>3. accepted' = accepted /\ handled' = handled /\ dropped' = dropped /\ exited' = exited
      BY <1>16 DEF ReportEnds, Goes, Unfinished, sinkVars, statusVars, workerVars, callVars
    <2>4. Cardinality(At({"countDrop"})') = Cardinality(At({"countDrop"}))
      BY <2>1, <2>2 DEF Moves, Numbers
    <2> QED
      BY <2>1, <2>3, <2>4 DEF LossesGrow, Lost, Numbers
  <1>17. ASSUME WorkerReceives PROVE LossesGrow
    <2>1. Numbers /\ At({"countDrop"})' = At({"countDrop"})
      BY <1>17, NumbersHold, NoneMoves DEF WorkerReceives
    <2>2. UNCHANGED <<accepted, handled, dropped, exited>>
      BY <1>17 DEF WorkerReceives, Answers, Answer, sinkVars, statusVars, historyVars
    <2> QED
      BY <2>1, <2>2 DEF LossesGrow, Lost, Numbers
  <1>18. ASSUME WorkerSends PROVE LossesGrow
    <2>1. Numbers /\ At({"countDrop"})' = At({"countDrop"})
      BY <1>18, NumbersHold, NoneMoves DEF WorkerSends
    <2>2. ~exited /\ dropped' = dropped
      BY <1>18 DEF WorkerSends, sinkVars, callVars, historyVars, TypeOK
    <2> QED
      BY <2>1, <2>2 DEF LossesGrow, Lost, Numbers
  <1>19. ASSUME WorkerPanics PROVE LossesGrow
    <2>1. Numbers /\ At({"countDrop"})' = At({"countDrop"})
      BY <1>19, NumbersHold, NoneMoves DEF WorkerPanics
    <2>2. UNCHANGED <<accepted, handled, dropped, exited>>
      BY <1>19 DEF WorkerPanics, sinkVars, statusVars, callVars, historyVars
    <2> QED
      BY <2>1, <2>2 DEF LossesGrow, Lost, Numbers
  <1>20. ASSUME WorkerExits PROVE LossesGrow
    <2>1. Numbers /\ At({"countDrop"})' = At({"countDrop"})
      BY <1>20, NumbersHold, NoneMoves DEF WorkerExits
    <2>2. UNCHANGED <<accepted, handled, dropped>> /\ exited'
      BY <1>20 DEF WorkerExits, sinkVars, callVars, historyVars
    <2> QED
      BY <2>1, <2>2 DEF LossesGrow, Lost, Numbers
  <1>21. ASSUME WorkerGone PROVE LossesGrow
    <2>1. Numbers /\ At({"countDrop"})' = At({"countDrop"})
      BY <1>21, NumbersHold, NoneMoves DEF WorkerGone
    <2>2. UNCHANGED <<accepted, handled, dropped, exited>>
      BY <1>21 DEF WorkerGone, sinkVars, statusVars, historyVars
    <2> QED
      BY <2>1, <2>2 DEF LossesGrow, Lost, Numbers
  <1>22. ASSUME UNCHANGED vars PROVE LossesGrow
    <2>1. Numbers /\ At({"countDrop"})' = At({"countDrop"})
      BY <1>22, NumbersHold, NoneMoves DEF vars
    <2>2. UNCHANGED <<accepted, handled, dropped, exited>>
      BY <1>22 DEF vars, sinkVars, statusVars, workerVars, callVars, historyVars
    <2> QED
      BY <2>1, <2>2 DEF LossesGrow, Lost, Numbers
  <1> QED
    BY <1>1, <1>2, <1>3, <1>4, <1>5, <1>6, <1>7, <1>8, <1>9, <1>10, <1>11, <1>12, <1>13,
       <1>14, <1>15, <1>16, <1>17, <1>18, <1>19, <1>20, <1>21, <1>22
       DEF Next, CallStep, WorkerStep, Over

(* What a report says was lost when it was read stays lost.                *)
LEMMA StepReport ==
    ASSUME TypeOK, OwnEvents, ReportInv, [Next]_vars
    PROVE  ReportInv'
  <1> DEFINE Bounds(n) == n <= dropped \/ (exited /\ n <= Lost)
             Bounded(d, r, n) == r <= dropped' /\ (n <= dropped' \/ (exited' /\ n <= Lost'))
  <1>1. LossesGrow /\ Numbers
    BY StepLoses, NumbersHold
  <1>2. dropped \in Nat /\ dropped' \in Nat /\ Lost \in Int /\ Lost' \in Int
    <2>1. /\ dropped' \in Nat /\ accepted' \in Int /\ handled' \in Nat
          /\ Cardinality(At({"countDrop"})') \in Nat
      BY StepType, AtCounts DEF TypeOK
    <2> QED
      BY <1>1, <2>1 DEF Numbers, Lost
  <1>3. ASSUME NEW d \in Callers, read'[d] = read[d], report'[d] = report[d]
        PROVE  Bounded(d, read'[d], report'[d])
    <2>1. read[d] \in Nat /\ report[d] \in Int
      BY DEF TypeOK
    <2>2. read[d] <= dropped /\ Bounds(report[d])
      BY DEF ReportInv, Lost
    <2> QED
      BY <1>1, <1>2, <1>3, <2>1, <2>2 DEF LossesGrow
  <1>4. ASSUME NEW c \in Callers, ReportReads(c), NEW d \in Callers
        PROVE  Bounded(d, read'[d], report'[d])
    <2>1. CASE d = c
      <3>1. read'[d] = dropped /\ report'[d] = report[d]
        BY <1>4, <2>1 DEF ReportReads, historyVars, TypeOK
      <3>2. report[d] \in Int /\ Bounds(report[d])
        BY DEF TypeOK, ReportInv, Lost
      <3> QED
        BY <1>1, <1>2, <3>1, <3>2 DEF LossesGrow
    <2>2. CASE d # c
      BY <1>3, <1>4, <2>2 DEF ReportReads, historyVars, TypeOK
    <2> QED
      BY <2>1, <2>2
  <1>5. ASSUME NEW c \in Callers, ReportEnds(c), NEW d \in Callers
        PROVE  Bounded(d, read'[d], report'[d])
    <2>1. CASE d = c
      <3>1. /\ read'[d] = read[d] /\ read[d] \in Nat /\ read[d] <= dropped
            /\ report'[d] = read[d] + Unfinished
        BY <1>5, <2>1 DEF ReportEnds, callVars, TypeOK, ReportInv
      <3>2. Unfinished = 0 \/ (exited /\ Unfinished = accepted - handled)
        BY DEF Unfinished
      <3>3. report'[d] \in Int /\ Bounds(report'[d])
        <4>1. CASE Unfinished = 0
          BY <1>2, <3>1, <4>1
        <4>2. CASE exited /\ Unfinished = accepted - handled
          BY <1>1, <1>2, <3>1, <4>2 DEF Numbers, Lost
        <4> QED
          BY <3>2, <4>1, <4>2
      <3> QED
        BY <1>1, <1>2, <3>1, <3>3 DEF LossesGrow
    <2>2. CASE d # c
      BY <1>3, <1>5, <2>2 DEF ReportEnds, callVars, TypeOK
    <2> QED
      BY <2>1, <2>2
  <1>6. ASSUME UNCHANGED <<read, report>>, NEW d \in Callers PROVE Bounded(d, read'[d], report'[d])
    BY <1>3, <1>6
  <1>7. \/ UNCHANGED <<read, report>> \/ \E c \in Callers : ReportReads(c) \/ ReportEnds(c)
    <2>1. ASSUME NEW c \in Callers, Emit(c) PROVE UNCHANGED <<read, report>>
      BY <2>1 DEF Emit
    <2>2. ASSUME NEW c \in Callers, EmitFailure(c) PROVE UNCHANGED <<read, report>>
      BY <2>2 DEF EmitFailure, callVars
    <2>3. ASSUME NEW c \in Callers, EmitSender(c) PROVE UNCHANGED <<read, report>>
      BY <2>3 DEF EmitSender, callVars
    <2>4. ASSUME NEW c \in Callers, EmitAccept(c) PROVE UNCHANGED <<read, report>>
      BY <2>4 DEF EmitAccept, callVars, historyVars
    <2>5. ASSUME NEW c \in Callers, EmitTrySend(c) PROVE UNCHANGED <<read, report>>
      BY <2>5 DEF EmitTrySend, callVars
    <2>6. ASSUME NEW c \in Callers, EmitTakeBack(c) PROVE UNCHANGED <<read, report>>
      BY <2>6 DEF EmitTakeBack, callVars, historyVars
    <2>7. ASSUME NEW c \in Callers, EmitCountDrop(c) PROVE UNCHANGED <<read, report>>
      BY <2>7 DEF EmitCountDrop, callVars
    <2>8. ASSUME NEW c \in Callers, Flush(c) PROVE UNCHANGED <<read, report>>
      BY <2>8 DEF Flush, historyVars
    <2>9. ASSUME NEW c \in Callers, Shutdown(c) PROVE UNCHANGED <<read, report>>
      BY <2>9 DEF Shutdown, historyVars
    <2>10. ASSUME NEW c \in Callers, ControlSend(c) PROVE UNCHANGED <<read, report>>
      BY <2>10 DEF ControlSend
    <2>11. ASSUME NEW c \in Callers, ControlAnswered(c) PROVE UNCHANGED <<read, report>>
      BY <2>11 DEF ControlAnswered
    <2>12. ASSUME NEW c \in Callers, ControlTimesOut(c) PROVE UNCHANGED <<read, report>>
      BY <2>12 DEF ControlTimesOut
    <2>13. ASSUME NEW c \in Callers, ShutdownTakesSender(c) PROVE UNCHANGED <<read, report>>
      BY <2>13 DEF ShutdownTakesSender, callVars, historyVars
    <2>14. ASSUME NEW c \in Callers, ShutdownJoins(c) PROVE UNCHANGED <<read, report>>
      BY <2>14 DEF ShutdownJoins, callVars, historyVars
    <2>15. ASSUME WorkerReceives PROVE UNCHANGED <<read, report>>
      BY <2>15 DEF WorkerReceives, historyVars
    <2>16. ASSUME WorkerSends PROVE UNCHANGED <<read, report>>
      BY <2>16 DEF WorkerSends, callVars, historyVars
    <2>17. ASSUME WorkerPanics PROVE UNCHANGED <<read, report>>
      BY <2>17 DEF WorkerPanics, callVars, historyVars
    <2>18. ASSUME WorkerExits PROVE UNCHANGED <<read, report>>
      BY <2>18 DEF WorkerExits, callVars, historyVars
    <2>19. ASSUME WorkerGone PROVE UNCHANGED <<read, report>>
      BY <2>19 DEF WorkerGone, historyVars
    <2>20. ASSUME UNCHANGED vars PROVE UNCHANGED <<read, report>>
      BY <2>20 DEF vars, callVars, historyVars
    <2> QED
      BY <2>1, <2>2, <2>3, <2>4, <2>5, <2>6, <2>7, <2>8, <2>9, <2>10, <2>11, <2>12, <2>13,
         <2>14, <2>15, <2>16, <2>17, <2>18, <2>19, <2>20 DEF Next, CallStep, WorkerStep, Over
  <1> QED
    BY <1>4, <1>5, <1>6, <1>7 DEF ReportInv, Lost

(***************************************************************************)
(* Commands and answers.                                                   *)
(***************************************************************************)

(* A queue that grows at its end or loses its head.                        *)
LEMMA Appended ==
    ASSUME NEW q \in Seq(Commands), NEW m \in Commands
    PROVE  /\ Append(q, m) \in Seq(Commands) /\ Len(Append(q, m)) = Len(q) + 1 /\ Len(q) \in Nat
           /\ DOMAIN q = 1..Len(q) /\ DOMAIN Append(q, m) = 1..(Len(q) + 1)
           /\ \A i \in DOMAIN q : Append(q, m)[i] = q[i]
           /\ Append(q, m)[Len(q) + 1] = m
  OBVIOUS

LEMMA Taken ==
    ASSUME NEW q \in Seq(Commands), q # <<>>
    PROVE  /\ Tail(q) \in Seq(Commands) /\ Len(q) \in Nat \ {0}
           /\ Head(q) = q[1] /\ Head(q) \in Commands
           /\ DOMAIN q = 1..Len(q) /\ Len(Tail(q)) = Len(q) - 1
           /\ DOMAIN Tail(q) = 1..(Len(q) - 1)
           /\ \A i \in 1..(Len(q) - 1) : Tail(q)[i] = q[i + 1]
  OBVIOUS

(* A command in the channel is waited for by the call it names.            *)
LEMMA StepCommand ==
    ASSUME TypeOK, CommandInv, [Next]_vars
    PROVE  CommandInv'
  <1>1. ASSUME NEW c \in Callers, Emit(c) PROVE CommandInv'
    BY <1>1
       DEF Emit, Calls, Goes, sinkVars, statusVars, workerVars, TypeOK, CommandInv, Awaits,
          At
  <1>2. ASSUME NEW c \in Callers, EmitFailure(c) PROVE CommandInv'
    BY <1>2
       DEF EmitFailure, Goes, TurnsAway, sinkVars, statusVars, workerVars, callVars, TypeOK,
          CommandInv, Awaits, At
  <1>3. ASSUME NEW c \in Callers, EmitSender(c) PROVE CommandInv'
    BY <1>3
       DEF EmitSender, Goes, TurnsAway, sinkVars, statusVars, workerVars, callVars, TypeOK,
          CommandInv, Awaits, At
  <1>4. ASSUME NEW c \in Callers, EmitAccept(c) PROVE CommandInv'
    BY <1>4
       DEF EmitAccept, Goes, sinkVars, workerVars, callVars, historyVars, TypeOK,
          CommandInv, Awaits, At
  <1>5. ASSUME NEW c \in Callers, EmitTrySend(c) PROVE CommandInv'
    <2> DEFINE m == Event(ev[c])
    <2>1. /\ ack' = ack /\ (queue' = queue \/ queue' = Append(queue, m))
          /\ \A d \in Callers : pc'[d] = pc[d] \/ (~Awaits(d) /\ pc'[d] \in {"idle", "takeBack"})
      BY <1>5 DEF EmitTrySend, Goes, callVars, TypeOK, Awaits
    <2>2. queue \in Seq(Commands) /\ m \in Commands /\ m.by = NoCaller /\ NoCaller \notin Callers
      BY CallersAssumption DEF TypeOK, Commands, Event
    <2> HIDE DEF m
    <2>3. CASE queue' = queue
      BY <2>1, <2>3 DEF CommandInv, Awaits, At
    <2>4. CASE queue' = Append(queue, m)
      BY <2>1, <2>2, <2>4, Appended DEF CommandInv, Awaits, At
    <2> QED
      BY <2>1, <2>3, <2>4
  <1>6. ASSUME NEW c \in Callers, EmitTakeBack(c) PROVE CommandInv'
    BY <1>6
       DEF EmitTakeBack, Goes, sinkVars, workerVars, callVars, historyVars, TypeOK,
          CommandInv, Awaits, At
  <1>7. ASSUME NEW c \in Callers, EmitCountDrop(c) PROVE CommandInv'
    BY <1>7
       DEF EmitCountDrop, Goes, sinkVars, workerVars, callVars, TypeOK, CommandInv, Awaits,
          At
  <1>8. ASSUME NEW c \in Callers, Flush(c) PROVE CommandInv'
    BY <1>8
       DEF Flush, Calls, Goes, sinkVars, statusVars, workerVars, historyVars, TypeOK,
          CommandInv, Awaits, At
  <1>9. ASSUME NEW c \in Callers, Shutdown(c) PROVE CommandInv'
    BY <1>9
       DEF Shutdown, Calls, Goes, statusVars, workerVars, historyVars, TypeOK, CommandInv,
          Awaits, At
  <1>10. ASSUME NEW c \in Callers, ControlSend(c) PROVE CommandInv'
    <2> DEFINE m == Control(pc[c], c)
    <2>1. /\ ack' = ack /\ ~Awaits(c) /\ ack[c] = "none"
          /\ \A d \in Callers \ {c} : pc'[d] = pc[d]
      BY <1>10 DEF ControlSend, ControlEnds, Goes, TypeOK, Awaits, CommandInv, At
    <2>2. \/ queue' = queue /\ pc'[c] \notin {"flush", "shutdown"}
          \/ queue' = Append(queue, m) /\ pc'[c] \in {"awaitFlush", "awaitShutdown"}
      BY <1>10 DEF ControlSend, ControlEnds, Goes, TypeOK
    <2>3. queue \in Seq(Commands) /\ m \in Commands /\ m.by = c /\ m.kind # "event"
      BY <1>10 DEF ControlSend, TypeOK, Commands, Control
    <2>4. \A i \in DOMAIN queue : queue[i].by # c
      BY <2>1 DEF CommandInv
    <2> HIDE DEF m
    <2>5. CASE queue' = queue /\ pc'[c] \notin {"flush", "shutdown"}
      BY <2>1, <2>4, <2>5 DEF CommandInv, Awaits, At
    <2>6. CASE queue' = Append(queue, m) /\ pc'[c] \in {"awaitFlush", "awaitShutdown"}
      <3>1. \A i \in DOMAIN queue' : queue'[i].by \in Callers =>
               queue'[i].kind # "event" /\ pc'[queue'[i].by] \in {"awaitFlush", "awaitShutdown"} /\ ack'[queue'[i].by] = "none"
        BY <2>1, <2>3, <2>4, <2>6, Appended DEF CommandInv, Awaits
      <3>2. \A i, j \in DOMAIN queue' : queue'[i].by \in Callers /\ queue'[i].by = queue'[j].by => i = j
        BY <2>3, <2>4, <2>6, Appended DEF CommandInv
      <3>3. \A d \in At({"flush", "shutdown"})' : ack'[d] = "none"
        BY <2>1, <2>6 DEF CommandInv, At
      <3> QED
        BY <3>1, <3>2, <3>3 DEF CommandInv, Awaits
    <2> QED
      BY <2>2, <2>5, <2>6
  <1>11. ASSUME NEW c \in Callers, ControlAnswered(c) PROVE CommandInv'
    BY <1>11
       DEF ControlAnswered, Goes, Awaits, ControlEnds, DeliveryResult, sinkVars, statusVars,
          workerVars, TypeOK, CommandInv, At
  <1>12. ASSUME NEW c \in Callers, ControlTimesOut(c) PROVE CommandInv'
    BY <1>12, OrphanedQueue, CallersAssumption
       DEF ControlTimesOut, Goes, Awaits, WaitEnds, ControlEnds, sinkVars, statusVars,
          workerVars, TypeOK, CommandInv, At
  <1>13. ASSUME NEW c \in Callers, ShutdownTakesSender(c) PROVE CommandInv'
    BY <1>13
       DEF ShutdownTakesSender, Goes, statusVars, workerVars, callVars, historyVars, TypeOK,
          CommandInv, Awaits, At
  <1>14. ASSUME NEW c \in Callers, ShutdownJoins(c) PROVE CommandInv'
    BY <1>14
       DEF ShutdownJoins, Goes, sinkVars, statusVars, workerVars, callVars, historyVars,
          TypeOK, CommandInv, Awaits, At
  <1>15. ASSUME NEW c \in Callers, ReportReads(c) PROVE CommandInv'
    BY <1>15
       DEF ReportReads, Goes, sinkVars, statusVars, workerVars, historyVars, TypeOK,
          CommandInv, Awaits, At
  <1>16. ASSUME NEW c \in Callers, ReportEnds(c) PROVE CommandInv'
    BY <1>16
       DEF ReportEnds, Goes, Unfinished, sinkVars, statusVars, workerVars, callVars, TypeOK,
          CommandInv, Awaits, At
  <1>17. ASSUME WorkerReceives PROVE CommandInv'
    <2>1. pc' = pc
      BY <1>17 DEF WorkerReceives
    <2>2. CASE queue # <<>> /\ queue' = Tail(queue)
      <3> DEFINE b == Head(queue).by
      <3>1. queue \in Seq(Commands)
        BY DEF TypeOK
      <3>2. \A d \in Callers : d # b => ack'[d] = ack[d]
        BY <1>17, <2>2 DEF WorkerReceives, Answers, TypeOK
      <3>3. b \in Callers => Awaits(b) /\ \A i \in DOMAIN queue' : queue'[i].by # b
        BY <2>2, <3>1, Taken DEF CommandInv
      <3> HIDE DEF b
      <3>4. \A i \in DOMAIN queue' : queue'[i].by \in Callers =>
               queue'[i].kind # "event" /\ pc'[queue'[i].by] \in {"awaitFlush", "awaitShutdown"} /\ ack'[queue'[i].by] = "none"
        BY <2>1, <2>2, <3>1, <3>2, <3>3, Taken DEF CommandInv, Awaits
      <3>5. \A i, j \in DOMAIN queue' : queue'[i].by \in Callers /\ queue'[i].by = queue'[j].by => i = j
        BY <2>2, <3>1, Taken DEF CommandInv
      <3>6. \A d \in At({"flush", "shutdown"})' : ack'[d] = "none"
        BY <2>1, <3>2, <3>3 DEF CommandInv, At, Awaits
      <3> QED
        BY <3>4, <3>5, <3>6 DEF CommandInv, Awaits
    <2>3. CASE queue' = queue /\ ack' = ack
      BY <2>1, <2>3 DEF CommandInv, Awaits, At
    <2> QED
      BY <1>17, <2>2, <2>3 DEF WorkerReceives
  <1>18. ASSUME WorkerSends PROVE CommandInv'
    BY <1>18
       DEF WorkerSends, sinkVars, callVars, historyVars, TypeOK, CommandInv, Awaits, At
  <1>19. ASSUME WorkerPanics PROVE CommandInv'
    BY <1>19
       DEF WorkerPanics, sinkVars, statusVars, callVars, historyVars, TypeOK, CommandInv,
          Awaits, At
  <1>20. ASSUME WorkerExits PROVE CommandInv'
    BY <1>20
       DEF WorkerExits, sinkVars, callVars, historyVars, TypeOK, CommandInv, Awaits, At
  <1>21. ASSUME WorkerGone PROVE CommandInv'
    <2>1. pc' = pc /\ DOMAIN queue' = {}
      BY <1>21 DEF WorkerGone
    <2>2. \A d \in At({"flush", "shutdown"}) : ack'[d] = ack[d]
      BY <1>21 DEF WorkerGone, CommandInv, Awaits, At
    <2> QED
      BY <2>1, <2>2 DEF CommandInv, At
  <1>22. ASSUME UNCHANGED vars PROVE CommandInv'
    BY <1>22
       DEF vars, sinkVars, statusVars, workerVars, callVars, historyVars, TypeOK,
          CommandInv, Awaits, At
  <1> QED
    BY <1>1, <1>2, <1>3, <1>4, <1>5, <1>6, <1>7, <1>8, <1>9, <1>10, <1>11, <1>12, <1>13,
       <1>14, <1>15, <1>16, <1>17, <1>18, <1>19, <1>20, <1>21, <1>22
       DEF Next, CallStep, WorkerStep, Over

(***************************************************************************)
(* What a success vouches for.                                             *)
(***************************************************************************)

(* A step that leaves the deliveries and the waits alone.                  *)
LEMMA Untouched ==
    ASSUME VouchInv, UNCHANGED <<required, queue, firstFailure, wpc, wev, delivered, returned,
                                 since, ack, confirmed>>,
           \A d \in Callers : Awaits(d)' => Awaits(d)
    PROVE  VouchInv'
  BY DEF VouchInv, SinceInv, UnderwayInv, AnswerInv, ConfirmedDelivered, Underway

(* What was returned is delivered before the command that vouches for it.  *)
LEMMA StepVouches ==
    ASSUME TypeOK, CommandInv, VouchInv, [Next]_vars
    PROVE  VouchInv'
  <1>1. ASSUME NEW c \in Callers, Emit(c) PROVE VouchInv'
    BY <1>1
       DEF Emit, Calls, Goes, sinkVars, statusVars, workerVars, TypeOK, VouchInv, SinceInv,
          UnderwayInv, AnswerInv, ConfirmedDelivered, CommandInv, Awaits, Underway, EventsOf
  <1>2. ASSUME NEW c \in Callers, EmitFailure(c) PROVE VouchInv'
    <2>1. /\ UNCHANGED <<required, queue, firstFailure, wpc, wev, delivered, returned, since, ack,
                        confirmed>>
          /\ \A d \in Callers : Awaits(d)' => Awaits(d)
      BY <1>2 DEF EmitFailure, Goes, TurnsAway, sinkVars, statusVars, workerVars,
         callVars, TypeOK, Awaits
    <2> QED
      BY <2>1, Untouched
  <1>3. ASSUME NEW c \in Callers, EmitSender(c) PROVE VouchInv'
    <2>1. /\ UNCHANGED <<required, queue, firstFailure, wpc, wev, delivered, returned, since, ack,
                        confirmed>>
          /\ \A d \in Callers : Awaits(d)' => Awaits(d)
      BY <1>3 DEF EmitSender, Goes, TurnsAway, sinkVars, statusVars, workerVars, callVars,
         TypeOK, Awaits
    <2> QED
      BY <2>1, Untouched
  <1>4. ASSUME NEW c \in Callers, EmitAccept(c) PROVE VouchInv'
    BY <1>4
       DEF EmitAccept, Goes, sinkVars, workerVars, callVars, historyVars, TypeOK, VouchInv,
          SinceInv, UnderwayInv, AnswerInv, ConfirmedDelivered, CommandInv, Awaits,
          Underway, EventsOf
  <1>5. ASSUME NEW c \in Callers, EmitTrySend(c) PROVE VouchInv'
    <2> DEFINE m == Event(ev[c])
    <2> DEFINE Via(e, n) == \/ e \in delivered'
                            \/ wpc' = "send" /\ wev' = e
                            \/ \E i \in EventsOf(queue') : i <= n /\ queue'[i].ev = e
    <2>1. /\ UNCHANGED <<required, firstFailure, wpc, wev, delivered, since, ack, confirmed>>
          /\ \A d \in Callers : Awaits(d)' => Awaits(d)
          /\ \/ UNCHANGED <<queue, returned>>
             \/ queue' = Append(queue, m) /\ returned' = returned \cup {ev[c]}
      BY <1>5 DEF EmitTrySend, Goes, sinkVars, statusVars, workerVars, callVars, TypeOK,
         Awaits
    <2>2. /\ queue \in Seq(Commands) /\ m \in Commands /\ m.by \notin Callers
          /\ m.kind = "event" /\ m.ev = ev[c]
      BY CallersAssumption DEF TypeOK, Commands, Event
    <2> HIDE DEF m
    <2>3. CASE UNCHANGED <<queue, returned>>
      BY <2>1, <2>3, Untouched
    <2>4. CASE queue' = Append(queue, m) /\ returned' = returned \cup {ev[c]}
      <3>1. \A e : \A n \in 0..Len(queue) : Underway(e, n) => Via(e, n)
        BY <2>1, <2>2, <2>4, Appended DEF Underway, EventsOf
      <3>2. Len(queue') \in EventsOf(queue') /\ queue'[Len(queue')].ev = ev[c] /\ Len(queue') \in Nat
        BY <2>2, <2>4, Appended DEF EventsOf
      <3>3. \A e, n : n \in 0..Len(queue) /\ Via(e, n) => Via(e, Len(queue'))
        BY <2>2, <2>4, Appended DEF EventsOf
      <3>4. ASSUME required, ~firstFailure, wpc \in {"recv", "send"}
            PROVE  /\ \A e \in returned' : Via(e, Len(queue'))
                   /\ \A i \in DOMAIN queue' : queue'[i].by \in Callers =>
                         \A e \in since'[queue'[i].by] : Via(e, i)
        <4>1. \A e \in returned : Underway(e, Len(queue)) /\ Len(queue) \in 0..Len(queue)
          BY <2>2, <3>4 DEF VouchInv, UnderwayInv
        <4>2. ASSUME NEW e \in returned' PROVE Via(e, Len(queue'))
          <5>1. CASE e = ev[c]
            BY <3>2, <5>1
          <5>2. CASE e \in returned
            BY <3>1, <3>3, <4>1, <5>2
          <5> QED
            BY <2>4, <5>1, <5>2
        <4>3. ASSUME NEW i \in DOMAIN queue', queue'[i].by \in Callers
              PROVE  \A e \in since'[queue'[i].by] : Via(e, i)
          <5>1. i \in DOMAIN queue /\ i \in 0..Len(queue) /\ queue'[i] = queue[i]
            BY <2>2, <2>4, <4>3, Appended
          <5>2. \A e \in since[queue[i].by] : Underway(e, i)
            BY <3>4, <4>3, <5>1 DEF VouchInv, UnderwayInv
          <5> QED
            BY <2>1, <3>1, <5>1, <5>2
        <4> QED
          BY <4>2, <4>3
      <3>5. UnderwayInv'
        BY <2>1, <3>4 DEF UnderwayInv, Underway
      <3> QED
        BY <2>1, <2>4, <3>5 DEF VouchInv, SinceInv, AnswerInv, ConfirmedDelivered
    <2> QED
      BY <2>1, <2>3, <2>4
  <1>6. ASSUME NEW c \in Callers, EmitTakeBack(c) PROVE VouchInv'
    BY <1>6
       DEF EmitTakeBack, Goes, sinkVars, workerVars, callVars, historyVars, TypeOK,
          VouchInv, SinceInv, UnderwayInv, AnswerInv, ConfirmedDelivered, CommandInv,
          Awaits, Underway, EventsOf
  <1>7. ASSUME NEW c \in Callers, EmitCountDrop(c) PROVE VouchInv'
    BY <1>7
       DEF EmitCountDrop, Goes, sinkVars, workerVars, callVars, TypeOK, VouchInv, SinceInv,
          UnderwayInv, AnswerInv, ConfirmedDelivered, CommandInv, Awaits, Underway, EventsOf
  <1>8. ASSUME NEW c \in Callers, Flush(c) PROVE VouchInv'
    <2>1. /\ UNCHANGED <<required, queue, firstFailure, wpc, wev, delivered, returned, confirmed>>
          /\ \A d \in Callers \ {c} : since'[d] = since[d] /\ ack'[d] = ack[d]
          /\ \A d \in Callers : Awaits(d)' => Awaits(d)
          /\ ~Awaits(c) /\ ~Awaits(c)'
      BY <1>8 DEF Flush, Calls, Goes, sinkVars, statusVars, workerVars, historyVars,
         TypeOK, Awaits
    <2>2. since'[c] = returned \/ since'[c] = since[c]
      BY <1>8, <2>1 DEF Flush
    <2>3. \A i \in DOMAIN queue : queue[i].by # c
      BY <2>1 DEF CommandInv
    <2>4. SinceInv'
      BY <2>1, <2>2 DEF VouchInv, SinceInv
    <2>5. UnderwayInv'
      BY <2>1, <2>3 DEF VouchInv, UnderwayInv, Underway
    <2> QED
      BY <2>1, <2>4, <2>5 DEF VouchInv, AnswerInv, ConfirmedDelivered
  <1>9. ASSUME NEW c \in Callers, Shutdown(c) PROVE VouchInv'
    <2>1. /\ UNCHANGED <<required, queue, firstFailure, wpc, wev, delivered, returned, confirmed>>
          /\ \A d \in Callers \ {c} : since'[d] = since[d] /\ ack'[d] = ack[d]
          /\ \A d \in Callers : Awaits(d)' => Awaits(d)
          /\ ~Awaits(c) /\ ~Awaits(c)'
      BY <1>9 DEF Shutdown, Calls, Goes, statusVars, workerVars, historyVars, TypeOK, Awaits
    <2>2. since'[c] = returned \/ since'[c] = since[c]
      BY <1>9, <2>1 DEF Shutdown
    <2>3. \A i \in DOMAIN queue : queue[i].by # c
      BY <2>1 DEF CommandInv
    <2>4. SinceInv'
      BY <2>1, <2>2 DEF VouchInv, SinceInv
    <2>5. UnderwayInv'
      BY <2>1, <2>3 DEF VouchInv, UnderwayInv, Underway
    <2> QED
      BY <2>1, <2>4, <2>5 DEF VouchInv, AnswerInv, ConfirmedDelivered
  <1>10. ASSUME NEW c \in Callers, ControlSend(c) PROVE VouchInv'
    <2> DEFINE m == Control(pc[c], c)
    <2> DEFINE Via(e, n) == \/ e \in delivered'
                            \/ wpc' = "send" /\ wev' = e
                            \/ \E i \in EventsOf(queue') : i <= n /\ queue'[i].ev = e
    <2>1. /\ UNCHANGED <<required, firstFailure, wpc, wev, delivered, returned, since, ack>>
          /\ \A d \in Callers \ {c} : Awaits(d)' => Awaits(d)
          /\ ~Awaits(c) /\ ack[c] = "none"
          /\ queue' = queue \/ queue' = Append(queue, m)
      BY <1>10 DEF ControlSend, Goes, ControlEnds, sinkVars, statusVars, workerVars,
                  TypeOK, Awaits, CommandInv, At
    <2>2. confirmed' = confirmed
      <3>1. \/ confirmed' = confirmed
            \/ \E r : confirmed' = confirmed \cup (IF r = "ok" /\ required THEN since[c] ELSE {}) /\
                      (r = "error" \/ (r = DeliveryResult(FALSE)))
        BY <1>10 DEF ControlSend, ControlEnds
      <3> QED
        BY <3>1 DEF DeliveryResult
    <2>3. queue \in Seq(Commands) /\ m \in Commands /\ m.by = c /\ m.kind # "event"
      BY <1>10 DEF ControlSend, TypeOK, Commands, Control
    <2> HIDE DEF m
    <2>4. SinceInv' /\ AnswerInv' /\ ConfirmedDelivered'
      BY <2>1, <2>2 DEF VouchInv, SinceInv, AnswerInv, ConfirmedDelivered, Awaits
    <2>5. CASE queue' = queue
      BY <2>1, <2>4, <2>5 DEF VouchInv, UnderwayInv, Underway
    <2>6. CASE queue' = Append(queue, m)
      <3>1. \A e, n : n \in 0..(Len(queue) + 1) /\ Underway(e, n) => Via(e, n)
        BY <2>1, <2>3, <2>6, Appended DEF Underway, EventsOf
      <3>2. /\ Len(queue) \in Nat /\ Len(queue') = Len(queue) + 1
            /\ \A e, n : n \in 0..Len(queue) /\ Underway(e, n) => Underway(e, Len(queue) + 1)
        BY <2>3, <2>6, Appended DEF Underway, EventsOf
      <3>3. ASSUME required, ~firstFailure, wpc \in {"recv", "send"}
            PROVE  /\ \A e \in returned : Via(e, Len(queue'))
                   /\ \A i \in DOMAIN queue' : queue'[i].by \in Callers =>
                         \A e \in since[queue'[i].by] : Via(e, i)
        <4>1. \A e \in returned : Underway(e, Len(queue))
          BY <3>3 DEF VouchInv, UnderwayInv
        <4>2. \A e \in returned : Via(e, Len(queue'))
          BY <3>1, <3>2, <4>1
        <4>3. ASSUME NEW i \in DOMAIN queue', queue'[i].by \in Callers
              PROVE  \A e \in since[queue'[i].by] : Via(e, i)
          <5>1. CASE i \in DOMAIN queue
            <6>1. i \in 0..(Len(queue) + 1) /\ queue'[i] = queue[i]
              BY <2>3, <2>6, <5>1, Appended
            <6>2. \A e \in since[queue[i].by] : Underway(e, i)
              BY <3>3, <4>3, <5>1, <6>1 DEF VouchInv, UnderwayInv
            <6> QED
              BY <3>1, <6>1, <6>2
          <5>2. CASE i \notin DOMAIN queue
            <6>1. i = Len(queue') /\ queue'[i].by = c
              BY <2>3, <2>6, <4>3, <5>2, Appended
            <6> QED
              BY <4>2, <6>1 DEF VouchInv, SinceInv
          <5> QED
            BY <5>1, <5>2
        <4> QED
          BY <4>2, <4>3
      <3>4. UnderwayInv'
        BY <2>1, <3>3 DEF UnderwayInv, Underway
      <3> QED
        BY <2>4, <3>4 DEF VouchInv
    <2> QED
      BY <2>1, <2>5, <2>6
  <1>11. ASSUME NEW c \in Callers, ControlAnswered(c) PROVE VouchInv'
    BY <1>11
       DEF ControlAnswered, Goes, Awaits, ControlEnds, DeliveryResult, sinkVars, statusVars,
          workerVars, TypeOK, VouchInv, SinceInv, UnderwayInv, AnswerInv,
          ConfirmedDelivered, CommandInv, Underway, EventsOf
  <1>12. ASSUME NEW c \in Callers, ControlTimesOut(c) PROVE VouchInv'
    <2> DEFINE Via(e, n) == \/ e \in delivered'
                            \/ wpc' = "send" /\ wev' = e
                            \/ \E i \in EventsOf(queue') : i <= n /\ queue'[i].ev = e
    <2>1. /\ UNCHANGED <<required, firstFailure, wpc, wev, delivered, returned, since, ack>>
          /\ \A d \in Callers : Awaits(d)' => Awaits(d)
          /\ confirmed' = confirmed
      BY <1>12 DEF ControlTimesOut, Goes, ControlEnds, sinkVars, statusVars, workerVars,
         TypeOK, Awaits
    <2>2. /\ Len(queue') = Len(queue) /\ DOMAIN queue' = DOMAIN queue
          /\ EventsOf(queue') = EventsOf(queue)
          /\ \A i \in DOMAIN queue : /\ queue'[i].ev = queue[i].ev
                                     /\ queue'[i].by \in Callers => queue'[i].by = queue[i].by
      BY <1>12, OrphanedQueue, CallersAssumption
    <2>3. \A e, n : Underway(e, n) => Via(e, n)
      BY <2>1, <2>2 DEF Underway, EventsOf
    <2> HIDE DEF Via
    <2>4. ASSUME required, ~firstFailure, wpc \in {"recv", "send"}
          PROVE  /\ \A e \in returned : Via(e, Len(queue'))
                 /\ \A i \in DOMAIN queue' : queue'[i].by \in Callers =>
                       \A e \in since[queue'[i].by] : Via(e, i)
      BY <2>2, <2>3, <2>4 DEF VouchInv, UnderwayInv
    <2>5. UnderwayInv'
      BY <2>1, <2>4 DEF UnderwayInv, Underway, Via
    <2> QED
      BY <2>1, <2>5 DEF VouchInv, SinceInv, AnswerInv, ConfirmedDelivered
  <1>13. ASSUME NEW c \in Callers, ShutdownTakesSender(c) PROVE VouchInv'
    BY <1>13
       DEF ShutdownTakesSender, Goes, statusVars, workerVars, callVars, historyVars, TypeOK,
          VouchInv, SinceInv, UnderwayInv, AnswerInv, ConfirmedDelivered, CommandInv,
          Awaits, Underway, EventsOf
  <1>14. ASSUME NEW c \in Callers, ShutdownJoins(c) PROVE VouchInv'
    BY <1>14
       DEF ShutdownJoins, Goes, sinkVars, statusVars, workerVars, callVars, historyVars,
          TypeOK, VouchInv, SinceInv, UnderwayInv, AnswerInv, ConfirmedDelivered,
          CommandInv, Awaits, Underway, EventsOf
  <1>15. ASSUME NEW c \in Callers, ReportReads(c) PROVE VouchInv'
    BY <1>15
       DEF ReportReads, Goes, sinkVars, statusVars, workerVars, historyVars, TypeOK,
          VouchInv, SinceInv, UnderwayInv, AnswerInv, ConfirmedDelivered, CommandInv,
          Awaits, Underway, EventsOf
  <1>16. ASSUME NEW c \in Callers, ReportEnds(c) PROVE VouchInv'
    BY <1>16
       DEF ReportEnds, Goes, Unfinished, sinkVars, statusVars, workerVars, callVars, TypeOK,
          VouchInv, SinceInv, UnderwayInv, AnswerInv, ConfirmedDelivered, CommandInv,
          Awaits, Underway, EventsOf
  <1>17. ASSUME WorkerReceives PROVE VouchInv'
    <2> DEFINE Via(e, n) == \/ e \in delivered'
                            \/ wpc' = "send" /\ wev' = e
                            \/ \E i \in EventsOf(queue') : i <= n /\ queue'[i].ev = e
    <2>1. /\ UNCHANGED <<required, firstFailure, delivered, returned, since, confirmed, pc>>
          /\ wpc = "recv"
      BY <1>17 DEF WorkerReceives, sinkVars, statusVars, historyVars
    <2>2. SinceInv' /\ ConfirmedDelivered'
      BY <2>1 DEF VouchInv, SinceInv, ConfirmedDelivered
    <2>3. CASE queue # <<>> /\ queue' = Tail(queue) /\ Head(queue).kind = "event"
      <3>1. ack' = ack /\ wpc' = "send" /\ wev' = Head(queue).ev
        BY <1>17, <2>3 DEF WorkerReceives
      <3>2. queue \in Seq(Commands)
        BY DEF TypeOK
      <3>3. ASSUME NEW e, NEW n \in 1..Len(queue), Underway(e, n) PROVE Via(e, n - 1)
        <4>1. CASE e \in delivered
          BY <2>1, <4>1
        <4>2. ASSUME NEW i \in EventsOf(queue), i <= n, queue[i].ev = e PROVE Via(e, n - 1)
          <5>1. i \in 1..Len(queue) /\ queue[i].kind = "event"
            BY <3>2, <4>2, Taken DEF EventsOf
          <5>2. CASE i = 1
            BY <2>3, <3>1, <3>2, <4>2, <5>1, <5>2, Taken
          <5>3. CASE i # 1
            <6>1. i - 1 \in EventsOf(queue') /\ i - 1 <= n - 1 /\ queue'[i - 1].ev = e
              BY <2>3, <3>2, <4>2, <5>1, <5>3, Taken DEF EventsOf
            <6> QED
              BY <6>1
          <5> QED
            BY <5>2, <5>3
        <4> QED
          BY <2>1, <3>3, <4>1, <4>2 DEF Underway
      <3> HIDE DEF Via
      <3>4. ASSUME required, ~firstFailure
            PROVE  /\ \A e \in returned : Via(e, Len(queue'))
                   /\ \A i \in DOMAIN queue' : queue'[i].by \in Callers =>
                         \A e \in since[queue'[i].by] : Via(e, i)
        <4>1. /\ \A e \in returned : Underway(e, Len(queue))
              /\ \A i \in DOMAIN queue : queue[i].by \in Callers =>
                    \A e \in since[queue[i].by] : Underway(e, i)
          BY <2>1, <3>4 DEF VouchInv, UnderwayInv
        <4>2. Len(queue) \in 1..Len(queue) /\ Len(queue') = Len(queue) - 1
          BY <2>3, <3>2, Taken
        <4>3. \A i \in DOMAIN queue' : /\ i + 1 \in 1..Len(queue) /\ i + 1 \in DOMAIN queue
                                       /\ i = i + 1 - 1 /\ queue'[i] = queue[i + 1]
          BY <2>3, <3>2, Taken
        <4>4. \A e \in returned : Via(e, Len(queue'))
          BY <3>3, <4>1, <4>2
        <4>5. ASSUME NEW i \in DOMAIN queue', queue'[i].by \in Callers
              PROVE  \A e \in since[queue'[i].by] : Via(e, i)
          <5> DEFINE n == i + 1
          <5>1. n \in 1..Len(queue) /\ n - 1 = i
            BY <4>3
          <5>2. \A e \in since[queue'[i].by] : Underway(e, n)
            BY <4>1, <4>3, <4>5
          <5> HIDE DEF n
          <5>3. ASSUME NEW e \in since[queue'[i].by] PROVE Via(e, i)
            <6>1. Via(e, n - 1)
              BY <3>3, <5>1, <5>2
            <6> QED
              BY <5>1, <6>1
          <5> QED
            BY <5>3
        <4> QED
          BY <4>4, <4>5
      <3>5. UnderwayInv'
        BY <2>1, <3>4 DEF UnderwayInv, Underway, Via
      <3>6. AnswerInv'
        BY <2>1, <3>1 DEF VouchInv, AnswerInv, Awaits
      <3> QED
        BY <2>2, <3>5, <3>6 DEF VouchInv
    <2>4. CASE queue # <<>> /\ queue' = Tail(queue) /\ Head(queue).kind # "event"
      <3> DEFINE b == Head(queue).by
      <3>1. /\ \A d \in Callers : d # b => ack'[d] = ack[d]
            /\ b \in Callers => ack'[b] = Answer
            /\ wpc' \in {"recv", "leaving"}
        BY <1>17, <2>4 DEF WorkerReceives, Answers, TypeOK
      <3>2. queue \in Seq(Commands)
        BY DEF TypeOK
      <3>3. ASSUME NEW e, NEW n \in 1..Len(queue), Underway(e, n) PROVE Via(e, n - 1)
        <4>1. CASE e \in delivered
          BY <2>1, <4>1
        <4>2. ASSUME NEW i \in EventsOf(queue), i <= n, queue[i].ev = e PROVE Via(e, n - 1)
          <5>1. i \in 1..Len(queue) /\ queue[i].kind = "event"
            BY <3>2, <4>2, Taken DEF EventsOf
          <5>2. CASE i = 1
            BY <2>4, <3>2, <4>2, <5>1, <5>2, Taken
          <5>3. CASE i # 1
            <6>1. i - 1 \in EventsOf(queue') /\ i - 1 <= n - 1 /\ queue'[i - 1].ev = e
              BY <2>4, <3>2, <4>2, <5>1, <5>3, Taken DEF EventsOf
            <6> QED
              BY <6>1
          <5> QED
            BY <5>2, <5>3
        <4> QED
          BY <2>1, <3>3, <4>1, <4>2 DEF Underway
      <3>4. \A e : Underway(e, 1) => e \in delivered
        BY <2>1, <2>4, <3>2, Taken DEF Underway, EventsOf
      <3>5. b \in Callers /\ required /\ ~firstFailure => since[b] \subseteq delivered
        BY <2>1, <2>4, <3>2, <3>4, Taken DEF VouchInv, UnderwayInv
      <3> HIDE DEF Via, b
      <3>6. ASSUME required, ~firstFailure
            PROVE  /\ \A e \in returned : Via(e, Len(queue'))
                   /\ \A i \in DOMAIN queue' : queue'[i].by \in Callers =>
                         \A e \in since[queue'[i].by] : Via(e, i)
        <4>1. /\ \A e \in returned : Underway(e, Len(queue))
              /\ \A i \in DOMAIN queue : queue[i].by \in Callers =>
                    \A e \in since[queue[i].by] : Underway(e, i)
          BY <2>1, <3>6 DEF VouchInv, UnderwayInv
        <4>2. Len(queue) \in 1..Len(queue) /\ Len(queue') = Len(queue) - 1
          BY <2>4, <3>2, Taken
        <4>3. \A i \in DOMAIN queue' : /\ i + 1 \in 1..Len(queue) /\ i + 1 \in DOMAIN queue
                                       /\ i = i + 1 - 1 /\ queue'[i] = queue[i + 1]
          BY <2>4, <3>2, Taken
        <4>4. \A e \in returned : Via(e, Len(queue'))
          BY <3>3, <4>1, <4>2
        <4>5. ASSUME NEW i \in DOMAIN queue', queue'[i].by \in Callers
              PROVE  \A e \in since[queue'[i].by] : Via(e, i)
          <5> DEFINE n == i + 1
          <5>1. n \in 1..Len(queue) /\ n - 1 = i
            BY <4>3
          <5>2. \A e \in since[queue'[i].by] : Underway(e, n)
            BY <4>1, <4>3, <4>5
          <5> HIDE DEF n
          <5>3. ASSUME NEW e \in since[queue'[i].by] PROVE Via(e, i)
            <6>1. Via(e, n - 1)
              BY <3>3, <5>1, <5>2
            <6> QED
              BY <5>1, <6>1
          <5> QED
            BY <5>3
        <4> QED
          BY <4>4, <4>5
      <3>7. UnderwayInv'
        BY <2>1, <3>6 DEF UnderwayInv, Underway, Via
      <3>8. AnswerInv'
        BY <2>1, <3>1, <3>5 DEF VouchInv, AnswerInv, Awaits, Answer
      <3> QED
        BY <2>2, <3>7, <3>8 DEF VouchInv
    <2>5. CASE queue' = queue /\ ack' = ack /\ wpc' = "leaving"
      BY <2>1, <2>2, <2>5 DEF VouchInv, UnderwayInv, AnswerInv, Awaits
    <2> QED
      BY <1>17, <2>3, <2>4, <2>5 DEF WorkerReceives
  <1>18. ASSUME WorkerSends PROVE VouchInv'
    BY <1>18
       DEF WorkerSends, sinkVars, callVars, historyVars, TypeOK, VouchInv, SinceInv,
          UnderwayInv, AnswerInv, ConfirmedDelivered, CommandInv, Awaits, Underway, EventsOf
  <1>19. ASSUME WorkerPanics PROVE VouchInv'
    BY <1>19
       DEF WorkerPanics, sinkVars, statusVars, callVars, historyVars, TypeOK, VouchInv,
          SinceInv, UnderwayInv, AnswerInv, ConfirmedDelivered, CommandInv, Awaits,
          Underway, EventsOf
  <1>20. ASSUME WorkerExits PROVE VouchInv'
    BY <1>20
       DEF WorkerExits, sinkVars, callVars, historyVars, TypeOK, VouchInv, SinceInv,
          UnderwayInv, AnswerInv, ConfirmedDelivered, CommandInv, Awaits, Underway, EventsOf
  <1>21. ASSUME WorkerGone PROVE VouchInv'
    BY <1>21
       DEF WorkerGone, sinkVars, statusVars, historyVars, TypeOK, VouchInv, SinceInv,
          UnderwayInv, AnswerInv, ConfirmedDelivered, CommandInv, Awaits, Underway, EventsOf
  <1>22. ASSUME UNCHANGED vars PROVE VouchInv'
    BY <1>22
       DEF vars, sinkVars, statusVars, workerVars, callVars, historyVars, TypeOK, VouchInv,
          SinceInv, UnderwayInv, AnswerInv, ConfirmedDelivered, CommandInv, Awaits,
          Underway, EventsOf
  <1> QED
    BY <1>1, <1>2, <1>3, <1>4, <1>5, <1>6, <1>7, <1>8, <1>9, <1>10, <1>11, <1>12, <1>13,
       <1>14, <1>15, <1>16, <1>17, <1>18, <1>19, <1>20, <1>21, <1>22
       DEF Next, CallStep, WorkerStep, Over

(***************************************************************************)
(* The invariant, and what the sink reports.                               *)
(***************************************************************************)

LEMMA InitHolds ==
    ASSUME Init
    PROVE  IInv
  <1>1. queue \in Seq(Commands) /\ DOMAIN queue = {} /\ EventsOf(queue) = {}
    BY DEF Init, EventsOf
  <1>2. /\ At(Uncounted) = {} /\ At(Pushing) = {} /\ At(Uncounted \cup Pushing) = {}
        /\ At({"flush", "shutdown"}) = {} /\ At({"countDrop"}) = {}
    BY DEF Init, At, Uncounted, Pushing
  <1>3. Cardinality({}) = 0
    BY FS_EmptySet
  <1>4. TypeOK
    BY <1>1 DEF Init, TypeOK, Labels
  <1>5. OwnEvents
    BY <1>2 DEF Init, OwnEvents
  <1>6. CountInv
    <2>1. /\ emitted = 0 /\ accepted = 0 /\ dropped = 0 /\ handled = 0 /\ refused = {}
          /\ wpc # "send"
      BY DEF Init
    <2> QED
      BY <1>1, <1>2, <1>3, <2>1 DEF CountInv, Sending
  <1>7. ReportInv
    BY DEF Init, ReportInv
  <1>8. CommandInv
    BY <1>1, <1>2 DEF CommandInv
  <1>9. VouchInv
    BY <1>1 DEF Init, VouchInv, SinceInv, UnderwayInv, AnswerInv, ConfirmedDelivered, Awaits
  <1> QED
    BY <1>4, <1>5, <1>6, <1>7, <1>8, <1>9 DEF IInv

LEMMA StepHolds ==
    ASSUME IInv, [Next]_vars
    PROVE  IInv'
  BY StepType, StepOwn, StepCount, StepReport, StepCommand, StepVouches DEF IInv

(* In every behaviour of the sink each event is counted in one place, a    *)
(* report counts no more than was lost, a command is waited for by the     *)
(* call it names, and what is vouched for has been delivered, in the order *)
(* of the channel.                                                         *)
THEOREM RemoteLogInvariant == Spec => []IInv
  <1>1. Init => IInv
    BY InitHolds
  <1>2. IInv /\ [Next]_vars => IInv'
    BY StepHolds
  <1> QED
    BY <1>1, <1>2, PTL DEF Spec

LEMMA ReportedHolds ==
    ASSUME IInv
    PROVE  DeliveryReported
  <1>1. ConfirmedDelivered
    BY DEF IInv, VouchInv
  <1>2. ASSUME Quiet, wpc = "gone"
        PROVE  /\ dropped + Unfinished = emitted - handled - Cardinality(refused)
               /\ \A c \in Callers : report[c] <= dropped + Unfinished
    <2>1. At(Uncounted) = {} /\ At(Pushing) = {} /\ At({"countDrop"}) = {}
      BY <1>2 DEF Quiet, At, Uncounted, Pushing
    <2>2. Cardinality({}) = 0
      BY FS_EmptySet
    <2>3. exited /\ Numbers
      BY <1>2, NumbersHold DEF IInv, TypeOK
    <2>4. /\ emitted = accepted + dropped + Cardinality(refused)
          /\ handled <= accepted
      BY <1>2, <2>1, <2>2, <2>3 DEF IInv, CountInv, Numbers, Sending
    <2>5. Unfinished = accepted - handled
      BY <2>3, <2>4 DEF Unfinished, Numbers
    <2>6. dropped + Unfinished = emitted - handled - Cardinality(refused)
      BY <2>3, <2>4, <2>5 DEF Numbers
    <2>7. ASSUME NEW c \in Callers PROVE report[c] <= dropped + Unfinished
      <3>1. report[c] \in Int
        BY DEF IInv, TypeOK
      <3>2. Cardinality(At({"countDrop"})) = 0
        BY <2>1, <2>2
      <3>3. \/ report[c] <= dropped
            \/ report[c] <= dropped + accepted + Cardinality(At({"countDrop"})) - handled
        BY DEF IInv, ReportInv
      <3> QED
        BY <2>3, <2>4, <2>5, <3>1, <3>2, <3>3 DEF Numbers
    <2> QED
      BY <2>6, <2>7
  <1> QED
    BY <1>1, <1>2 DEF DeliveryReported, LossesCounted, ReportNeverInvents

(* What the sink says of its deliveries is so: once the worker is gone and *)
(* no call runs, the report accounts for every event that was emitted, no  *)
(* earlier report counted more, and a flush or shutdown that succeeded in  *)
(* required mode vouched only for events the collector has.                *)
THEOREM RemoteLogDeliveryReported == Spec => []DeliveryReported
  <1>1. IInv => DeliveryReported
    BY ReportedHolds
  <1> QED
    BY RemoteLogInvariant, <1>1, PTL

(***************************************************************************)
(* The status cache.                                                       *)
(***************************************************************************)

(* A map of some of the files.                                             *)
Partial(S) == UNION {[D -> S] : D \in SUBSET Files}

Sight       == [body : AnyBody, m : Nat, id : Nat, reused : SUBSET (Nat \X Nat)]
RemoteSight == [body : AnyBody, rm : Nat, at : Nat, blurred : BOOLEAN]
Digests     == {<<>>} \cup [Files -> AnyBody]
Hashing     == {"hash", "md5", "write"}
PassStages  == {"hash", "md5", "write", "idle", "claim", "scan", "list", "rename", "rollup"}
Pass == [at : PassStages, now : Nat, refresh : BOOLEAN, scoped : BOOLEAN, version : Nat,
         cache : BOOLEAN, local : Partial(Sight), remote : Partial(RemoteSight),
         ld : Digests, rd : Digests, served : Partial(Record), probes : Partial(Record),
         canary : Nat]
CacheFile == [form : Forms, gen : Nat, canary : Nat, version : Nat, recs : Partial(Record)]
Temporary == [file : CacheFile, at : Nat]

CacheTypeOK ==
    /\ clock \in Nat /\ version \in Nat
    /\ disk \in [Files -> Sight] /\ nas \in [Files -> RemoteSight]
    /\ cacheFile \in CacheFile /\ temps \in [Procs -> Temporary]
    /\ passes \in [Procs -> Pass]

(* What a scan, or a stored record, says of a source file: at time t it    *)
(* was found to have the body b, under this time and identity. Only those  *)
(* dated after the file's own time can be believed, and of these only what *)
(* is not disguised.                                                       *)
Claim == [m : Nat, id : Nat, b : AnyBody, t : Nat]
LocalClaim(pass, f) == [m |-> pass.local[f].m, id |-> pass.local[f].id,
                        b |-> pass.local[f].body, t |-> pass.now]
RecordClaim(rec) == [m |-> rec.m, id |-> rec.id, b |-> rec.l, t |-> rec.t]
Stored == {cacheFile} \cup {temps[p].file : p \in Procs}

Sightings(f) ==
    {s \in Claim : /\ s.m < s.t /\ ~Disguised(f, s)
                   /\ \/ \E p \in Procs : f \in DOMAIN passes[p].local
                                             /\ s = LocalClaim(passes[p], f)
                      \/ \E file \in Stored : f \in DOMAIN file.recs
                                                 /\ s = RecordClaim(file.recs[f])}

(* It is true of the file until its time or identity changes for good.     *)
Stands(f, s) ==
    /\ s.t <= clock /\ s.id <= disk[f].id
    /\ s.id = disk[f].id /\ s.m = disk[f].m => s.b = disk[f].body

SightingsTrue  == \A f \in Files : \A s \in Sightings(f) : Stands(f, s)
SightingsAgree ==
    \A f \in Files : \A s, u \in Sightings(f) : s.m = u.m /\ s.id = u.id => s.b = u.b

(* The same of a destination file, known by its time alone, which another  *)
(* program may set back.                                                   *)
RemoteStands(f, rm, r) ==
    rm <= nas[f].at /\ (rm = nas[f].rm => r = nas[f].body \/ nas[f].blurred)

RecordStands(f, rec) ==
    /\ RemoteStands(f, rec.rm, rec.r)
    /\ rec.redated \/ rec.h >= rec.t
RecordsStand == \A file \in Stored : \A f \in DOMAIN file.recs : RecordStands(f, file.recs[f])

(* Where a pass is: what it listed and digested still stands.              *)
PassStands(pass) ==
    /\ pass.now <= clock
    /\ \A f \in DOMAIN pass.remote :
          /\ pass.remote[f].rm <= nas[f].at
          /\ pass.at \in Hashing /\ pass.rd[f] # None =>
                RemoteStands(f, pass.remote[f].rm, pass.rd[f])
    /\ pass.at \in {"claim", "scan"} => pass.served = <<>>
    /\ pass.at \in Hashing => pass.ld \in [Files -> AnyBody] /\ pass.rd \in [Files -> AnyBody]
    /\ pass.at = "hash" =>
          \A f \in DOMAIN pass.local :
             pass.ld[f] # None => pass.ld[f] = pass.local[f].body \/ Disguised(f, pass.local[f])
    /\ pass.at \in {"md5", "write"} =>
          \A f \in DOMAIN pass.local :
             pass.local[f].m < pass.now =>
                pass.ld[f] = pass.local[f].body \/ Disguised(f, pass.local[f])
    /\ pass.at = "write" => \A f \in comparison(pass) : pass.rd[f] # None

ServedStands(pass) ==
    \A f \in DOMAIN pass.served :
        /\ pass.served[f].l = pass.local[f].body \/ Disguised(f, pass.local[f])
        /\ pass.served[f].r = pass.remote[f].body \/ pass.remote[f].blurred
        /\ pass.served[f].redated \/ pass.now - pass.served[f].h <= MaxAge

PassesStand == \A p \in Procs : PassStands(passes[p]) /\ ServedStands(passes[p])

CacheInv ==
    /\ CacheTypeOK
    /\ \A f \in Files : nas[f].rm <= nas[f].at /\ nas[f].at <= clock
    /\ SightingsTrue /\ SightingsAgree
    /\ RecordsStand /\ PassesStand

(* Maps of some of the files.                                              *)
LEMMA PartialElim ==
    ASSUME NEW S, NEW g \in Partial(S)
    PROVE  DOMAIN g \subseteq Files /\ g \in [DOMAIN g -> S] /\ \A f \in DOMAIN g : g[f] \in S
  <1>1. PICK D \in SUBSET Files : g \in [D -> S]
    BY DEF Partial
  <1> QED
    BY <1>1

LEMMA PartialIntro ==
    ASSUME NEW S, NEW D \in SUBSET Files, NEW g \in [D -> S]
    PROVE  g \in Partial(S)
  BY DEF Partial

LEMMA PartialEmpty ==
    ASSUME NEW S
    PROVE  <<>> \in Partial(S) /\ DOMAIN <<>> = {}
  <1>1. <<>> \in [{} -> S] /\ DOMAIN <<>> = {}
    OBVIOUS
  <1> QED
    BY <1>1, PartialIntro

LEMMA MinPair ==
    ASSUME NEW a \in Int, NEW b \in Int
    PROVE  Min({a, b}) \in Int /\ Min({a, b}) <= a /\ Min({a, b}) <= b
  <1>1. \E x \in {a, b} : \A y \in {a, b} : x <= y
    <2>1. CASE a <= b BY <2>1
    <2>2. CASE b <= a BY <2>2
    <2> QED BY <2>1, <2>2
  <1> QED
    BY <1>1 DEF Min

LEMMA MaxPair ==
    ASSUME NEW a \in Nat, NEW b \in Nat
    PROVE  Max({a, b}) \in Nat /\ Max({a, b}) >= a /\ Max({a, b}) >= b
  <1>1. \E x \in {a, b} : \A y \in {a, b} : x >= y
    <2>1. CASE a <= b BY <2>1
    <2>2. CASE b <= a BY <2>2
    <2> QED BY <2>1, <2>2
  <1> QED
    BY <1>1 DEF Max

LEMMA NoFileIsFile ==
    NoFile \in CacheFile /\ DOMAIN NoFile.recs = {}
  <1>1. <<>> \in Partial(Record) /\ DOMAIN <<>> = {}
    BY PartialEmpty
  <1> QED
    BY <1>1 DEF NoFile, CacheFile, Forms

LEMMA NoPassStands ==
    ASSUME clock' \in Nat
    PROVE  NoPass \in Pass /\ NoPass.local = <<>> /\ PassStands(NoPass)' /\ ServedStands(NoPass)
  <1>1. /\ <<>> \in Partial(Record) /\ <<>> \in Partial(Sight) /\ <<>> \in Partial(RemoteSight)
        /\ DOMAIN <<>> = {}
    BY PartialEmpty
  <1>2. NoPass \in Pass
    BY <1>1 DEF NoPass, Pass, PassStages, Digests
  <1>3. NoPass.at = "idle" /\ NoPass.now = 0 /\ DOMAIN NoPass.remote = {}
        /\ DOMAIN NoPass.served = {} /\ NoPass.local = <<>>
    BY <1>1 DEF NoPass
  <1> QED
    BY <1>2, <1>3 DEF PassStands, ServedStands, Hashing

(***************************************************************************)
(* What a step leaves as it was.                                           *)
(***************************************************************************)

LEMMA PassStays ==
    ASSUME CacheTypeOK, NEW pass \in Pass, PassStands(pass),
           clock' \in Nat, clock <= clock', nas' = nas, disk' = disk
    PROVE  PassStands(pass)'
  <1>1. pass.now \in Nat
    BY DEF Pass
  <1>2. pass.now <= clock'
    BY <1>1 DEF PassStands, CacheTypeOK
  <1> QED
    BY <1>2 DEF PassStands, RemoteStands, comparison, Disguised

LEMMA OnePass ==
    ASSUME CacheInv, NEW p \in Procs, NEW new \in Pass, passes' = [passes EXCEPT ![p] = new],
           PassStands(new)', ServedStands(new), clock' = clock, nas' = nas, disk' = disk
    PROVE  passes' \in [Procs -> Pass] /\ PassesStand'
  <1>1. passes \in [Procs -> Pass] /\ clock \in Nat
    BY DEF CacheInv, CacheTypeOK
  <1>2. ASSUME NEW q \in Procs
        PROVE  PassStands(passes[q])' /\ ServedStands(passes[q])'
    <2>1. CASE q = p
      <3>1. passes'[q] = new
        BY <1>1, <2>1
      <3> QED
        BY <3>1 DEF PassStands, ServedStands, Disguised
    <2>2. CASE q # p
      <3>1. passes'[q] = passes[q] /\ passes[q] \in Pass
        BY <1>1, <2>2
      <3>2. PassStands(passes[q]) /\ ServedStands(passes[q])
        BY DEF CacheInv, PassesStand
      <3> DEFINE old == passes[q]
      <3>3. PassStands(old)'
        BY <1>1, <3>1, <3>2 DEF PassStands, RemoteStands, comparison, Disguised
      <3> QED
        BY <3>1, <3>2, <3>3 DEF PassStands, ServedStands, Disguised
    <2> QED
      BY <2>1, <2>2
  <1> QED
    BY <1>1, <1>2 DEF PassesStand

(* A pass keeps what it scanned, or forgets it.                            *)
ScansKept ==
    \A p \in Procs : \/ passes'[p].local = <<>>
                     \/ passes'[p].local = passes[p].local /\ passes'[p].now = passes[p].now

RecordSound(f, rec) ==
    /\ RecordStands(f, rec)
    /\ rec.m < rec.t /\ ~Disguised(f, rec) => RecordClaim(rec) \in Sightings(f)

(* A file whose every record stands and says what was seen before.         *)
FileSound(file) == \A f \in DOMAIN file.recs : RecordSound(f, file.recs[f])

LEMMA StoredTypes ==
    ASSUME CacheTypeOK, NEW file \in Stored
    PROVE  /\ file \in CacheFile /\ DOMAIN file.recs \subseteq Files
           /\ \A f \in DOMAIN file.recs : file.recs[f] \in Record
  <1>1. file \in CacheFile
    BY DEF CacheTypeOK, Stored, Temporary
  <1>2. file.recs \in Partial(Record)
    BY <1>1 DEF CacheFile
  <1> QED
    BY <1>1, <1>2, PartialElim

LEMMA StoredSound ==
    ASSUME CacheInv, NEW file \in Stored
    PROVE  FileSound(file)
  <1> SUFFICES ASSUME NEW f \in DOMAIN file.recs
               PROVE  RecordSound(f, file.recs[f])
    BY DEF FileSound
  <1>1. file.recs[f] \in Record
    BY StoredTypes DEF CacheInv
  <1>2. RecordStands(f, file.recs[f])
    BY DEF CacheInv, RecordsStand
  <1>3. RecordClaim(file.recs[f]) \in Claim
    BY <1>1 DEF Record, RecordClaim, Claim
  <1>4. RecordClaim(file.recs[f]).m = file.recs[f].m /\ RecordClaim(file.recs[f]).t = file.recs[f].t
    BY DEF RecordClaim
  <1>5. Disguised(f, RecordClaim(file.recs[f])) => Disguised(f, file.recs[f])
    BY DEF Disguised, RecordClaim
  <1>6. file.recs[f].m < file.recs[f].t /\ ~Disguised(f, file.recs[f])
           => RecordClaim(file.recs[f]) \in Sightings(f)
    BY <1>3, <1>4, <1>5 DEF Sightings
  <1> QED
    BY <1>2, <1>6 DEF RecordSound

LEMMA NoFileSound ==
    FileSound(NoFile)
  BY NoFileIsFile DEF FileSound

LEMMA NothingNew ==
    ASSUME CacheInv, disk' = disk, nas' = nas, clock' \in Nat, clock <= clock', ScansKept,
           \A file \in Stored' : FileSound(file)
    PROVE  SightingsTrue' /\ SightingsAgree' /\ RecordsStand'
  <1>1. ASSUME NEW f \in Files, NEW s \in Sightings(f)'
        PROVE  s \in Sightings(f)
    <2>1. s \in Claim /\ s.m < s.t /\ ~Disguised(f, s)
      BY <1>1 DEF Sightings, Disguised
    <2>2. CASE \E p \in Procs : f \in DOMAIN passes'[p].local /\ s = LocalClaim(passes'[p], f)
      <3>1. PICK p \in Procs : f \in DOMAIN passes'[p].local /\ s = LocalClaim(passes'[p], f)
        BY <2>2
      <3>2. passes'[p].local # <<>>
        BY <3>1, PartialEmpty
      <3>3. f \in DOMAIN passes[p].local /\ s = LocalClaim(passes[p], f)
        BY <3>1, <3>2 DEF ScansKept, LocalClaim
      <3> QED
        BY <2>1, <3>3 DEF Sightings
    <2>3. CASE \E file \in Stored' : f \in DOMAIN file.recs /\ s = RecordClaim(file.recs[f])
      <3>1. PICK file \in Stored' : f \in DOMAIN file.recs /\ s = RecordClaim(file.recs[f])
        BY <2>3
      <3>2. RecordSound(f, file.recs[f])
        BY <3>1 DEF FileSound
      <3>3. /\ s.m = file.recs[f].m /\ s.t = file.recs[f].t
            /\ Disguised(f, file.recs[f]) => Disguised(f, s)
        BY <3>1 DEF RecordClaim, Disguised
      <3> QED
        BY <2>1, <3>1, <3>2, <3>3 DEF RecordSound
    <2> QED
      BY <1>1, <2>2, <2>3 DEF Sightings
  <1>2. SightingsTrue'
    <2> SUFFICES ASSUME NEW f \in Files, NEW s \in Sightings(f)'
                 PROVE  Stands(f, s)'
      BY DEF SightingsTrue
    <2>1. Stands(f, s) /\ s.t \in Nat
      BY <1>1 DEF CacheInv, SightingsTrue, Sightings, Claim
    <2>2. s.t <= clock'
      BY <2>1 DEF Stands, CacheInv, CacheTypeOK
    <2> QED
      BY <2>1, <2>2 DEF Stands
  <1>3. SightingsAgree'
    BY <1>1 DEF CacheInv, SightingsAgree
  <1>4. RecordsStand'
    <2> SUFFICES ASSUME NEW file \in Stored', NEW f \in DOMAIN file.recs
                 PROVE  RecordStands(f, file.recs[f])'
      BY DEF RecordsStand
    <2>1. RecordStands(f, file.recs[f])
      BY DEF FileSound, RecordSound
    <2> QED
      BY <2>1 DEF RecordStands, RemoteStands
  <1> QED
    BY <1>2, <1>3, <1>4

(* A pass goes on, and stores nothing that was not seen before.            *)
LEMMA PassMoves ==
    ASSUME CacheInv, NEW p \in Procs, NEW new \in Pass, passes' = [passes EXCEPT ![p] = new],
           new.local = <<>> \/ (new.local = passes[p].local /\ new.now = passes[p].now),
           PassStands(new)', ServedStands(new),
           UNCHANGED <<clock, disk, nas>>, version' \in Nat,
           cacheFile' \in CacheFile, temps' \in [Procs -> Temporary],
           \A file \in Stored' : FileSound(file)
    PROVE  CacheInv'
  <1>1. passes' \in [Procs -> Pass] /\ PassesStand'
    BY OnePass
  <1>2. passes \in [Procs -> Pass] /\ clock \in Nat
    BY DEF CacheInv, CacheTypeOK
  <1>3. ScansKept
    BY <1>2 DEF ScansKept
  <1>4. SightingsTrue' /\ SightingsAgree' /\ RecordsStand'
    BY <1>2, <1>3, NothingNew
  <1> QED
    BY <1>1, <1>4 DEF CacheInv, CacheTypeOK

LEMMA StoredKept ==
    ASSUME CacheInv, UNCHANGED <<cacheFile, temps>>
    PROVE  /\ cacheFile' \in CacheFile /\ temps' \in [Procs -> Temporary]
           /\ \A file \in Stored' : FileSound(file)
  <1>1. Stored' = Stored
    BY DEF Stored
  <1> QED
    BY <1>1, StoredSound DEF CacheInv, CacheTypeOK

(* The pass does not touch the directory.                                  *)
LEMMA PassMovesAlone ==
    ASSUME CacheInv, NEW p \in Procs, NEW new \in Pass, Step(p, new), UNCHANGED dirVars,
           new.local = <<>> \/ (new.local = passes[p].local /\ new.now = passes[p].now),
           PassStands(new)', ServedStands(new)
    PROVE  CacheInv'
  <1>1. /\ passes' = [passes EXCEPT ![p] = new]
        /\ UNCHANGED <<clock, disk, nas, version, cacheFile, temps>>
    BY DEF Step, dirVars, worldVars
  <1>2. version' \in Nat
    BY <1>1 DEF CacheInv, CacheTypeOK
  <1> QED
    BY <1>1, <1>2, StoredKept, PassMoves

LEMMA PassEnds ==
    ASSUME CacheInv, NEW p \in Procs, Step(p, NoPass), UNCHANGED dirVars
    PROVE  CacheInv'
  <1>1. clock' \in Nat
    BY DEF CacheInv, CacheTypeOK, Step
  <1> QED
    BY <1>1, NoPassStands, PassMovesAlone

(***************************************************************************)
(* The steps of a pass, each of which keeps the invariant.                 *)
(***************************************************************************)

LEMMA OpenPassStep ==
    ASSUME CacheInv, NEW p \in Procs, NEW refresh \in BOOLEAN, NEW scoped \in BOOLEAN,
           OpenPass(p, refresh, scoped)
    PROVE  CacheInv'
  <1> DEFINE pass == [NoPass EXCEPT !.at = "scan", !.now = clock, !.refresh = refresh,
                             !.scoped = scoped, !.version = version]
             marked == cacheDir.marker = "ours"
  <1>1. clock' = clock /\ clock \in Nat /\ version \in Nat /\ passes \in [Procs -> Pass]
    BY DEF OpenPass, CacheInv, CacheTypeOK
  <1>2. /\ UNCHANGED <<disk, nas, version, cacheFile, temps>>
    BY DEF OpenPass, worldVars, dirVars
  <1>3. \/ passes' = [passes EXCEPT ![p] = pass]
        \/ passes' = [passes EXCEPT ![p] = [pass EXCEPT !.at = "claim"]]
        \/ passes' = [passes EXCEPT ![p] = [pass EXCEPT !.cache = marked]]
    BY DEF OpenPass
  <1>4. /\ NoPass \in Pass /\ NoPass.local = <<>>
        /\ DOMAIN NoPass.remote = {} /\ NoPass.served = <<>> /\ DOMAIN <<>> = {}
    BY <1>1, NoPassStands, PartialEmpty DEF NoPass
  <1>5. /\ pass \in Pass /\ pass.at = "scan" /\ pass.now = clock /\ pass.local = NoPass.local
        /\ pass.remote = NoPass.remote /\ pass.served = NoPass.served
    BY <1>1, <1>4 DEF Pass, PassStages
  <1>6. marked \in BOOLEAN
    OBVIOUS
  <1> HIDE DEF pass, marked
  <1>7. ASSUME NEW new \in Pass, passes' = [passes EXCEPT ![p] = new], new.now = clock,
               new.local = <<>>, new.at \in {"scan", "claim"},
               DOMAIN new.remote = {}, new.served = <<>>
        PROVE  CacheInv'
    <2>1. PassStands(new)' /\ ServedStands(new)
      BY <1>1, <1>4, <1>7 DEF PassStands, ServedStands, Hashing
    <2>2. version' \in Nat
      BY <1>1, <1>2
    <2> QED
      BY <1>1, <1>2, <1>7, <2>1, <2>2, StoredKept, PassMoves
  <1>8. CASE passes' = [passes EXCEPT ![p] = pass]
    BY <1>4, <1>5, <1>7, <1>8
  <1>9. CASE passes' = [passes EXCEPT ![p] = [pass EXCEPT !.at = "claim"]]
    <2> DEFINE new == [pass EXCEPT !.at = "claim"]
    <2>1. /\ new \in Pass /\ new.at = "claim" /\ new.now = pass.now /\ new.local = pass.local
          /\ new.remote = pass.remote /\ new.served = pass.served
      BY <1>5 DEF Pass, PassStages
    <2> HIDE DEF new
    <2> QED
      BY <1>4, <1>5, <1>7, <1>9, <2>1 DEF new
  <1>10. CASE passes' = [passes EXCEPT ![p] = [pass EXCEPT !.cache = marked]]
    <2> DEFINE new == [pass EXCEPT !.cache = marked]
    <2>1. /\ new \in Pass /\ new.at = pass.at /\ new.now = pass.now /\ new.local = pass.local
          /\ new.remote = pass.remote /\ new.served = pass.served
      BY <1>5, <1>6 DEF Pass
    <2> HIDE DEF new
    <2> QED
      BY <1>4, <1>5, <1>7, <1>10, <2>1 DEF new
  <1> QED
    BY <1>3, <1>8, <1>9, <1>10

LEMMA NotHashing ==
    ASSUME NEW old, NEW new, PassStands(old), UNCHANGED <<clock, nas>>,
           new.now = old.now, new.remote = old.remote,
           new.at \notin {"hash", "md5", "write", "claim"}, new.at = "scan" => new.served = <<>>
    PROVE  PassStands(new)'
  <1>1. new.at \notin Hashing
    BY DEF Hashing
  <1>2. \A f \in DOMAIN new.remote : new.remote[f].rm <= nas'[f].at
    BY DEF PassStands
  <1>3. new.now <= clock'
    BY DEF PassStands
  <1> QED
    BY <1>1, <1>2, <1>3 DEF PassStands

LEMMA WriteMarkerStep ==
    ASSUME CacheInv, NEW p \in Procs, WriteMarker(p)
    PROVE  CacheInv'
  <1>1. PICK old : old = passes[p]
    OBVIOUS
  <1>2. PICK new : new = [old EXCEPT !.at = "scan", !.cache = TRUE]
    OBVIOUS
  <1>3. /\ passes \in [Procs -> Pass] /\ clock \in Nat /\ version \in Nat /\ old \in Pass
        /\ PassStands(old) /\ ServedStands(old) /\ old.at = "claim"
    BY <1>1 DEF CacheInv, CacheTypeOK, PassesStand, WriteMarker
  <1>4. UNCHANGED <<clock, disk, nas, version, cacheFile, temps>>
    BY DEF WriteMarker, worldVars, dirVars
  <1>5. passes' = [passes EXCEPT ![p] = new]
    BY <1>1, <1>2, <1>3 DEF WriteMarker
  <1>6. /\ new \in Pass /\ new.at = "scan" /\ new.now = old.now
        /\ new.local = old.local /\ new.remote = old.remote /\ new.served = old.served
    BY <1>2, <1>3 DEF Pass, PassStages
  <1>7. PassStands(new)'
    <2>1. new.served = <<>>
      BY <1>3, <1>6 DEF PassStands
    <2> QED
      BY <1>3, <1>4, <1>6, <2>1, NotHashing
  <1>8. ServedStands(new)
    BY <1>3, <1>6 DEF ServedStands
  <1>9. version' \in Nat /\ new.local = passes[p].local /\ new.now = passes[p].now
    BY <1>1, <1>3, <1>4, <1>6
  <1> QED
    BY <1>4, <1>5, <1>6, <1>7, <1>8, <1>9, StoredKept, PassMoves

(* The one step that sees something new: the files as they are.            *)
LEMMA ScanLocalStep ==
    ASSUME CacheInv, NEW p \in Procs, ScanLocal(p)
    PROVE  CacheInv'
  <1>1. PICK old : old = passes[p]
    OBVIOUS
  <1>2. PICK found : found = [f \in {g \in Looks(old) : disk[g].body # None} |-> disk[f]]
    OBVIOUS
  <1>3. PICK new : new = [old EXCEPT !.at = "list", !.local = found, !.ld = Blank, !.rd = Blank]
    OBVIOUS
  <1>4. /\ passes \in [Procs -> Pass] /\ clock \in Nat /\ version \in Nat
        /\ disk \in [Files -> Sight] /\ old \in Pass
        /\ PassStands(old) /\ ServedStands(old) /\ old.at = "scan"
    BY <1>1 DEF CacheInv, CacheTypeOK, PassesStand, ScanLocal
  <1>5. UNCHANGED <<clock, disk, nas, version, cacheFile, temps>>
        /\ passes' = [passes EXCEPT ![p] = new]
    BY <1>1, <1>2, <1>3 DEF ScanLocal, Step, worldVars, dirVars
  <1>6. /\ new \in Pass /\ new.at = "list" /\ new.now = old.now
        /\ new.local = found /\ new.remote = old.remote /\ new.served = old.served
    <2>1. {g \in Looks(old) : disk[g].body # None} \in SUBSET Files
      BY ScopeAssumption DEF Looks
    <2>2. found \in [{g \in Looks(old) : disk[g].body # None} -> Sight]
      BY <1>2, <1>4, <2>1
    <2>3. found \in Partial(Sight)
      BY <2>1, <2>2, PartialIntro
    <2>4. Blank \in Digests
      BY DEF Blank, Digests, AnyBody
    <2> QED
      BY <1>3, <1>4, <2>3, <2>4 DEF Pass, PassStages
  <1>7. PassStands(new)'
    BY <1>4, <1>5, <1>6, NotHashing
  <1>8. ServedStands(new)
    BY <1>4, <1>6, PartialEmpty DEF PassStands, ServedStands
  <1>9. passes' \in [Procs -> Pass] /\ PassesStand'
    BY <1>5, <1>6, <1>7, <1>8, OnePass
  <1>10. Stored' = Stored
    BY <1>5 DEF Stored
  <1>11. ASSUME NEW f \in Files, NEW s \in Sightings(f)'
         PROVE  \/ s \in Sightings(f)
                \/ s.m = disk[f].m /\ s.id = disk[f].id /\ s.b = disk[f].body /\ s.t <= clock
    <2>1. s \in Claim /\ s.m < s.t /\ ~Disguised(f, s)
      BY <1>5, <1>11 DEF Sightings, Disguised
    <2>2. CASE \E q \in Procs : f \in DOMAIN passes'[q].local /\ s = LocalClaim(passes'[q], f)
      <3>1. PICK q \in Procs : f \in DOMAIN passes'[q].local /\ s = LocalClaim(passes'[q], f)
        BY <2>2
      <3>2. CASE q # p
        <4>1. passes'[q] = passes[q]
          BY <1>4, <1>5, <3>2
        <4> QED
          BY <2>1, <3>1, <4>1 DEF Sightings
      <3>3. CASE q = p
        <4>1. passes'[q] = new
          BY <1>4, <1>5, <3>3
        <4>2. f \in DOMAIN found /\ s = LocalClaim(new, f)
          BY <1>6, <3>1, <4>1
        <4>3. found[f] = disk[f]
          BY <1>2, <4>2
        <4>4. s.m = disk[f].m /\ s.id = disk[f].id /\ s.b = disk[f].body /\ s.t = old.now
          BY <1>6, <4>2, <4>3 DEF LocalClaim
        <4> QED
          BY <1>4, <4>4 DEF PassStands
      <3> QED
        BY <3>2, <3>3
    <2>3. CASE \E file \in Stored' : f \in DOMAIN file.recs /\ s = RecordClaim(file.recs[f])
      BY <1>10, <2>1, <2>3 DEF Sightings
    <2> QED
      BY <1>11, <2>2, <2>3 DEF Sightings
  <1>12. SightingsTrue'
    <2> SUFFICES ASSUME NEW f \in Files, NEW s \in Sightings(f)'
                 PROVE  Stands(f, s)'
      BY DEF SightingsTrue
    <2>1. CASE s \in Sightings(f)
      BY <1>5, <2>1 DEF CacheInv, SightingsTrue, Stands
    <2>2. CASE s.m = disk[f].m /\ s.id = disk[f].id /\ s.b = disk[f].body /\ s.t <= clock
      <3>1. disk[f].id \in Nat
        BY <1>4 DEF Sight
      <3> QED
        BY <1>5, <2>2, <3>1 DEF Stands
    <2> QED
      BY <1>11, <2>1, <2>2
  <1>13. SightingsAgree'
    <2> SUFFICES ASSUME NEW f \in Files, NEW s \in Sightings(f)', NEW u \in Sightings(f)',
                        s.m = u.m, s.id = u.id
                 PROVE  s.b = u.b
      BY DEF SightingsAgree
    <2>1. ASSUME NEW x \in Sightings(f)
          PROVE  Stands(f, x)
      BY DEF CacheInv, SightingsTrue
    <2>2. CASE s \in Sightings(f) /\ u \in Sightings(f)
      BY <2>2 DEF CacheInv, SightingsAgree
    <2>3. CASE s \in Sightings(f) /\ u \notin Sightings(f)
      BY <1>11, <2>1, <2>3 DEF Stands
    <2>4. CASE s \notin Sightings(f) /\ u \in Sightings(f)
      BY <1>11, <2>1, <2>4 DEF Stands
    <2>5. CASE s \notin Sightings(f) /\ u \notin Sightings(f)
      BY <1>11, <2>5
    <2> QED
      BY <2>2, <2>3, <2>4, <2>5
  <1>14. RecordsStand'
    BY <1>5, <1>10 DEF CacheInv, RecordsStand, RecordStands, RemoteStands
  <1> QED
    BY <1>5, <1>9, <1>12, <1>13, <1>14 DEF CacheInv, CacheTypeOK

(* What is believed of the file is true of what the pass found.            *)
Believed(pass, f, rec) ==
    /\ rec \in Record /\ f \in comparison(pass)
    /\ ~Expired(rec, pass) /\ Proves(rec, pass, f)
    /\ rec.m < rec.t - Window

LEMMA BelievedTrue ==
    ASSUME CacheInv, NEW pass \in Pass, NEW f, NEW rec, RecordSound(f, rec),
           Believed(pass, f, rec), f \in Files,
           pass.local[f].m < pass.now /\ ~Disguised(f, pass.local[f])
              => LocalClaim(pass, f) \in Sightings(f),
           pass.remote[f] = nas[f]
    PROVE  /\ rec.l = pass.local[f].body \/ Disguised(f, pass.local[f])
           /\ rec.r = pass.remote[f].body \/ pass.remote[f].blurred
           /\ RemoteStands(f, pass.remote[f].rm, rec.r)
           /\ rec.redated \/ pass.now - rec.h <= MaxAge
  <1>1. /\ rec.m \in Nat /\ rec.t \in Nat /\ rec.h \in Nat /\ pass.now \in Nat /\ MaxAge \in Nat
    BY ScopeAssumption DEF Believed, Record, Pass
  <1>2. rec.t <= pass.now /\ pass.now - MaxAge <= rec.t /\ rec.m < rec.t
    BY <1>1 DEF Believed, Expired, Window
  <1>3. pass.local[f].m = rec.m /\ pass.local[f].id = rec.id /\ pass.remote[f].rm = rec.rm
    BY DEF Believed, Proves
  <1>4. rec.l = pass.local[f].body \/ Disguised(f, pass.local[f])
    <2> SUFFICES ASSUME ~Disguised(f, pass.local[f])
                 PROVE  rec.l = pass.local[f].body
      OBVIOUS
    <2>1. RecordClaim(rec) \in Sightings(f) /\ LocalClaim(pass, f) \in Sightings(f)
      BY <1>1, <1>2, <1>3 DEF RecordSound, Disguised
    <2>2. RecordClaim(rec).m = LocalClaim(pass, f).m /\ RecordClaim(rec).id = LocalClaim(pass, f).id
      BY <1>3 DEF RecordClaim, LocalClaim
    <2>3. RecordClaim(rec).b = LocalClaim(pass, f).b
      BY <2>1, <2>2 DEF CacheInv, SightingsAgree
    <2> QED
      BY <2>3 DEF RecordClaim, LocalClaim
  <1>5. RemoteStands(f, rec.rm, rec.r)
    BY DEF RecordSound, RecordStands
  <1>6. rec.r = pass.remote[f].body \/ pass.remote[f].blurred
    BY <1>3, <1>5 DEF RemoteStands
  <1>7. rec.redated \/ pass.now - rec.h <= MaxAge
    BY <1>1, <1>2 DEF RecordSound, RecordStands
  <1> QED
    BY <1>3, <1>4, <1>5, <1>6, <1>7

LEMMA ReadInto ==
    ASSUME CacheInv, NEW pass \in Pass, NEW found, found = read_into(cacheFile, pass)
    PROVE  /\ found.served \in Partial(Record) /\ found.probes \in Partial(Record)
           /\ found.canary \in Nat
           /\ \A f \in DOMAIN found.served : /\ f \in DOMAIN cacheFile.recs
                                            /\ found.served[f] = cacheFile.recs[f]
                                            /\ Believed(pass, f, cacheFile.recs[f])
  <1> DEFINE good == {f \in DOMAIN cacheFile.recs :
                        /\ ~Expired(cacheFile.recs[f], pass) /\ ~racy(cacheFile.recs[f], cacheFile)
                        /\ Proves(cacheFile.recs[f], pass, f)}
             On(S) == [f \in S |-> cacheFile.recs[f]]
  <1>1. /\ cacheFile \in CacheFile /\ DOMAIN cacheFile.recs \subseteq Files
        /\ \A f \in DOMAIN cacheFile.recs : cacheFile.recs[f] \in Record
        /\ pass.now \in Nat
    BY StoredTypes DEF CacheInv, Stored, Pass
  <1>2. \E S, P \in SUBSET good : found.served = On(S) /\ found.probes = On(P)
    <2> DEFINE stride == IF AuditDue(cacheFile, pass)
                         THEN canary_stride(Cardinality(DOMAIN cacheFile.recs)) ELSE 0
               picked == {f \in good : stride > 0 /\ Place(f, good) % stride = cacheFile.gen % stride}
               probed == {f \in picked : Place(f, picked) < Canary}
    <2>1. found.served = On(good \ probed) /\ found.probes = On(probed)
      BY DEF read_into
    <2>2. good \ probed \in SUBSET good /\ probed \in SUBSET good
      OBVIOUS
    <2> QED
      BY <2>1, <2>2
  <1>3. found.canary \in Nat
    <2>1. found.canary \in {pass.now, cacheFile.canary}
      BY DEF read_into
    <2> QED
      BY <1>1, <2>1 DEF CacheFile
  <1>4. ASSUME NEW S \in SUBSET good
        PROVE  On(S) \in Partial(Record)
    <2>1. S \in SUBSET Files /\ On(S) \in [S -> Record]
      BY <1>1
    <2> QED
      BY <2>1, PartialIntro
  <1>5. ASSUME NEW f \in good
        PROVE  Believed(pass, f, cacheFile.recs[f])
    <2> DEFINE rec == cacheFile.recs[f]
    <2>1. rec \in Record /\ rec.m \in Nat /\ rec.t \in Nat /\ cacheFile.gen \in Nat
      BY <1>1 DEF Record, CacheFile
    <2>2. Min({rec.t, cacheFile.gen}) \in Int /\ Min({rec.t, cacheFile.gen}) <= rec.t
      <3>1. rec.t \in Int /\ cacheFile.gen \in Int
        BY <2>1
      <3> HIDE DEF rec
      <3> QED
        BY <3>1, MinPair
    <2>3. ~(rec.m >= Min({rec.t, cacheFile.gen}) - Window)
      BY DEF racy
    <2>4. rec.m < rec.t - Window
      BY <2>1, <2>2, <2>3 DEF Window
    <2> QED
      BY <2>1, <2>4 DEF Believed, Proves
  <1> HIDE DEF good
  <1> QED
    <2>1. PICK S, P \in SUBSET good : found.served = On(S) /\ found.probes = On(P)
      BY <1>2
    <2>2. \A f \in S : f \in DOMAIN cacheFile.recs
      BY DEF good
    <2> QED
      BY <1>3, <1>4, <1>5, <2>1, <2>2

LEMMA ServeStep ==
    ASSUME CacheInv, NEW p \in Procs, serve(p)
    PROVE  CacheInv'
  <1>1. PICK old : old = passes[p]
    OBVIOUS
  <1>2. PICK listed : listed = ListedRemote(old)
    OBVIOUS
  <1>3. PICK pass : pass = [old EXCEPT !.remote = listed]
    OBVIOUS
  <1>4. PICK nothing : nothing = [served |-> <<>>, probes |-> <<>>, canary |-> 0]
    OBVIOUS
  <1>5. PICK found : /\ found = read_into(cacheFile, pass) \/ found = nothing
                    /\ Step(p, [pass EXCEPT !.at = "hash", !.served = found.served,
                                  !.probes = found.probes, !.canary = found.canary,
                                  !.ld = [f \in Files |-> IF f \in DOMAIN found.served
                                                          THEN found.served[f].l ELSE None],
                                  !.rd = [f \in Files |-> IF f \in DOMAIN found.served
                                                          THEN found.served[f].r ELSE None]])
    <2> DEFINE use == /\ pass.cache /\ ~pass.refresh /\ comparison(pass) # {}
                      /\ cacheFile.form = "ok" /\ header_matches(cacheFile, pass)
               got == IF use THEN read_into(cacheFile, pass) ELSE nothing
    <2>1. got = read_into(cacheFile, pass) \/ got = nothing
      OBVIOUS
    <2>2. Step(p, [pass EXCEPT !.at = "hash", !.served = got.served,
                                  !.probes = got.probes, !.canary = got.canary,
                                  !.ld = [f \in Files |-> IF f \in DOMAIN got.served
                                                          THEN got.served[f].l ELSE None],
                                  !.rd = [f \in Files |-> IF f \in DOMAIN got.served
                                                          THEN got.served[f].r ELSE None]])
      BY <1>1, <1>2, <1>3, <1>4 DEF serve
    <2> HIDE DEF got
    <2> QED
      BY <2>1, <2>2
  <1>6. PICK ld, rd :
          /\ ld = [f \in Files |-> IF f \in DOMAIN found.served THEN found.served[f].l ELSE None]
          /\ rd = [f \in Files |-> IF f \in DOMAIN found.served THEN found.served[f].r ELSE None]
    OBVIOUS
  <1>7. PICK new : new = [pass EXCEPT !.at = "hash", !.served = found.served,
                            !.probes = found.probes, !.canary = found.canary, !.ld = ld, !.rd = rd]
    OBVIOUS
  <1>8. Step(p, new) /\ UNCHANGED dirVars
    BY <1>5, <1>6, <1>7 DEF serve
  <1>9. /\ passes \in [Procs -> Pass] /\ clock \in Nat /\ old \in Pass
        /\ nas \in [Files -> RemoteSight] /\ PassStands(old)
    BY <1>1 DEF CacheInv, CacheTypeOK, PassesStand
  <1>10. UNCHANGED <<clock, nas, disk>>
    BY <1>8 DEF Step, worldVars
  <1>11. /\ listed \in Partial(RemoteSight)
         /\ \A f \in DOMAIN listed : f \in Files /\ listed[f] = nas[f] /\ nas[f] \in RemoteSight
    <2> DEFINE there == {g \in Looks(old) : nas[g].body # None}
    <2>1. there \in SUBSET Files
      BY ScopeAssumption DEF Looks
    <2>2. listed = [f \in there |-> nas[f]]
      BY <1>2 DEF ListedRemote
    <2>3. listed \in [there -> RemoteSight]
      BY <1>9, <2>1, <2>2
    <2> QED
      BY <1>9, <2>1, <2>2, <2>3, PartialIntro
  <1>12. /\ pass \in Pass /\ pass.now = old.now /\ pass.local = old.local /\ pass.remote = listed
    BY <1>3, <1>9, <1>11 DEF Pass
  <1>13. /\ found.served \in Partial(Record) /\ found.probes \in Partial(Record)
         /\ found.canary \in Nat
         /\ \A f \in DOMAIN found.served : /\ f \in DOMAIN cacheFile.recs
                                          /\ found.served[f] = cacheFile.recs[f]
                                          /\ Believed(pass, f, cacheFile.recs[f])
    <2>1. CASE found = read_into(cacheFile, pass)
      BY <1>12, <2>1, ReadInto
    <2>2. CASE found = nothing
      BY <1>4, <2>2, PartialEmpty
    <2> QED
      BY <1>5, <2>1, <2>2
  <1>14. ASSUME NEW f \in DOMAIN found.served
         PROVE  /\ f \in Files /\ found.served[f] \in Record
                /\ found.served[f].l = pass.local[f].body \/ Disguised(f, pass.local[f])
                /\ found.served[f].r = pass.remote[f].body \/ pass.remote[f].blurred
                /\ RemoteStands(f, pass.remote[f].rm, found.served[f].r)
                /\ found.served[f].redated \/ pass.now - found.served[f].h <= MaxAge
    <2>1. PICK rec : rec = cacheFile.recs[f]
      OBVIOUS
    <2>2. /\ f \in DOMAIN cacheFile.recs /\ found.served[f] = rec /\ Believed(pass, f, rec)
      BY <1>13, <2>1
    <2>3. RecordSound(f, rec)
      BY <2>1, <2>2, StoredSound DEF Stored, FileSound
    <2>4. f \in DOMAIN pass.local /\ f \in DOMAIN pass.remote /\ f \in Files
      BY <1>11, <1>12, <2>2 DEF Believed, comparison
    <2>5. LocalClaim(pass, f) = LocalClaim(passes[p], f)
      BY <1>1, <1>12 DEF LocalClaim
    <2>6. pass.local[f] \in Sight /\ pass.now \in Nat
      BY <1>12, <2>4, PartialElim DEF Pass
    <2>7. LocalClaim(pass, f) \in Claim
      BY <2>6 DEF LocalClaim, Claim, Sight
    <2>8. pass.local[f].m < pass.now /\ ~Disguised(f, pass.local[f])
             => LocalClaim(pass, f) \in Sightings(f)
      <3> SUFFICES ASSUME pass.local[f].m < pass.now, ~Disguised(f, pass.local[f])
                   PROVE  LocalClaim(pass, f) \in Sightings(f)
        OBVIOUS
      <3>1. LocalClaim(pass, f).m < LocalClaim(pass, f).t /\ ~Disguised(f, LocalClaim(pass, f))
        BY DEF LocalClaim, Disguised
      <3>2. f \in DOMAIN passes[p].local
        BY <1>1, <1>12, <2>4
      <3> QED
        BY <2>5, <2>7, <3>1, <3>2 DEF Sightings
    <2>9. pass.remote[f] = nas[f]
      BY <1>11, <1>12, <2>4
    <2>10. rec \in Record
      BY <2>2 DEF Believed
    <2> QED
      BY <1>12, <2>2, <2>3, <2>4, <2>8, <2>9, <2>10, BelievedTrue
  <1>15. ld \in [Files -> AnyBody] /\ rd \in [Files -> AnyBody]
    <2>1. \A f \in DOMAIN found.served : found.served[f].l \in AnyBody /\ found.served[f].r \in AnyBody
      BY <1>14 DEF Record
    <2> QED
      BY <1>6, <2>1 DEF AnyBody
  <1>16. /\ new \in Pass /\ new.at = "hash" /\ new.now = old.now /\ new.local = old.local
         /\ new.remote = listed /\ new.served = found.served /\ new.ld = ld /\ new.rd = rd
    BY <1>7, <1>12, <1>13, <1>15 DEF Pass, PassStages, Digests
  <1>17. ServedStands(new)
    BY <1>12, <1>14, <1>16 DEF ServedStands
  <1>18. PassStands(new)'
    <2>1. new.now <= clock'
      BY <1>9, <1>10, <1>16 DEF PassStands
    <2>2. \A f \in DOMAIN new.local :
             new.ld[f] # None => new.ld[f] = new.local[f].body \/ Disguised(f, new.local[f])
      <3>1. DOMAIN new.local \subseteq Files
        BY <1>16, PartialElim DEF Pass
      <3> QED
        BY <1>6, <1>12, <1>14, <1>16, <3>1
    <2>3. ASSUME NEW f \in DOMAIN new.remote
          PROVE  /\ new.remote[f].rm <= nas[f].at
                 /\ new.rd[f] # None => RemoteStands(f, new.remote[f].rm, new.rd[f])
      <3>1. f \in Files /\ new.remote[f].rm = nas[f].rm /\ nas[f].rm <= nas[f].at
        BY <1>11, <1>16 DEF CacheInv
      <3>2. new.rd[f] # None => f \in DOMAIN found.served /\ new.rd[f] = found.served[f].r
        BY <1>6, <1>16, <3>1
      <3> QED
        BY <1>12, <1>14, <1>16, <3>1, <3>2
    <2>4. \A f \in DOMAIN new.remote :
             /\ new.remote[f].rm <= nas'[f].at
             /\ new.rd[f] # None => RemoteStands(f, new.remote[f].rm, new.rd[f])'
      BY <1>10, <2>3 DEF RemoteStands
    <2> QED
      BY <1>10, <1>15, <1>16, <2>1, <2>2, <2>4 DEF PassStands, Disguised
  <1> QED
    BY <1>1, <1>8, <1>16, <1>17, <1>18, PassMovesAlone

(* A file whose time and identity are as scanned has, unless it may have   *)
(* changed within its second, the body that was scanned, or is disguised.  *)
LEMMA HashLocalStep ==
    ASSUME CacheInv, NEW p \in Procs, HashLocal(p)
    PROVE  CacheInv'
  <1>1. PICK pass : pass = passes[p]
    OBVIOUS
  <1>2. PICK todo : todo = {f \in DOMAIN pass.local : pass.ld[f] = None}
    OBVIOUS
  <1>3. /\ passes \in [Procs -> Pass] /\ clock \in Nat /\ pass \in Pass
        /\ disk \in [Files -> Sight] /\ PassStands(pass) /\ ServedStands(pass) /\ pass.at = "hash"
    BY <1>1 DEF CacheInv, CacheTypeOK, PassesStand, HashLocal
  <1>4. PICK ld : ld = [f \in Files |-> IF f \in todo THEN disk[f].body ELSE pass.ld[f]]
    OBVIOUS
  <1>5. PICK new : new = [pass EXCEPT !.at = "md5", !.ld = ld]
    OBVIOUS
  <1>6. \/ Step(p, NoPass) /\ UNCHANGED dirVars
        \/ /\ Step(p, new) /\ UNCHANGED dirVars
           /\ \A f \in todo : disk[f].m = pass.local[f].m /\ disk[f].id = pass.local[f].id
    <2>1. new = [pass EXCEPT !.at = "md5",
                    !.ld = [f \in Files |-> IF f \in todo THEN disk[f].body ELSE @[f]]]
      BY <1>4, <1>5
    <2> QED
      BY <1>1, <1>2, <2>1 DEF HashLocal
  <1>7. CASE Step(p, NoPass) /\ UNCHANGED dirVars
    BY <1>7, PassEnds
  <1>8. CASE /\ Step(p, new) /\ UNCHANGED dirVars
             /\ \A f \in todo : disk[f].m = pass.local[f].m /\ disk[f].id = pass.local[f].id
    <2>1. pass.ld \in [Files -> AnyBody] /\ pass.rd \in [Files -> AnyBody]
      BY <1>3 DEF PassStands, Hashing
    <2>2. ld \in [Files -> AnyBody]
      BY <1>3, <1>4, <2>1 DEF Sight
    <2>3. /\ new \in Pass /\ new.at = "md5" /\ new.now = pass.now /\ new.local = pass.local
          /\ new.remote = pass.remote /\ new.served = pass.served /\ new.ld = ld
          /\ new.rd = pass.rd
      BY <1>3, <1>5, <2>2 DEF Pass, PassStages, Digests
    <2>4. DOMAIN pass.local \subseteq Files /\ \A f \in DOMAIN pass.local : pass.local[f] \in Sight
      BY <1>3, PartialElim DEF Pass
    <2>5. ASSUME NEW f \in DOMAIN pass.local, pass.local[f].m < pass.now
          PROVE  ld[f] = pass.local[f].body \/ Disguised(f, pass.local[f])
      <3>1. CASE f \notin todo
        BY <1>2, <1>3, <1>4, <2>4, <3>1 DEF PassStands
      <3>2. CASE f \in todo /\ ~Disguised(f, pass.local[f])
        <4>1. LocalClaim(pass, f) \in Claim
          BY <1>3, <2>4 DEF LocalClaim, Claim, Sight, Pass
        <4>2. LocalClaim(pass, f).m < LocalClaim(pass, f).t /\ ~Disguised(f, LocalClaim(pass, f))
          BY <2>5, <3>2 DEF LocalClaim, Disguised
        <4>3. LocalClaim(pass, f) = LocalClaim(passes[p], f) /\ f \in DOMAIN passes[p].local
          BY <1>1
        <4>4. LocalClaim(pass, f) \in Sightings(f)
          BY <4>1, <4>2, <4>3 DEF Sightings
        <4>5. Stands(f, LocalClaim(pass, f))
          BY <2>4, <4>4 DEF CacheInv, SightingsTrue
        <4>6. pass.local[f].body = disk[f].body
          BY <1>8, <3>2, <4>5 DEF Stands, LocalClaim
        <4> QED
          BY <1>4, <2>4, <3>2, <4>6
      <3> QED
        BY <3>1, <3>2
    <2>6. ServedStands(new)
      BY <1>3, <2>3 DEF ServedStands
    <2>7. UNCHANGED <<clock, nas, disk>>
      BY <1>8 DEF Step, worldVars
    <2>8. PassStands(new)'
      <3>1. \A f \in DOMAIN new.remote :
               /\ new.remote[f].rm <= nas'[f].at
               /\ new.rd[f] # None => RemoteStands(f, new.remote[f].rm, new.rd[f])'
        BY <1>3, <2>3, <2>7 DEF PassStands, RemoteStands, Hashing
      <3>2. new.now <= clock'
        BY <1>3, <2>3, <2>7 DEF PassStands
      <3> QED
        BY <2>1, <2>2, <2>3, <2>5, <2>7, <3>1, <3>2 DEF PassStands, Disguised
    <2> QED
      BY <1>1, <1>8, <2>3, <2>6, <2>8, PassMovesAlone
  <1> QED
    BY <1>6, <1>7, <1>8

LEMMA HashRemoteStep ==
    ASSUME CacheInv, NEW p \in Procs, HashRemote(p)
    PROVE  CacheInv'
  <1>1. PICK old : old = passes[p]
    OBVIOUS
  <1>2. PICK todo : todo = {f \in comparison(old) : old.rd[f] = None}
    OBVIOUS
  <1>3. PICK rd : rd = [f \in Files |-> IF f \in todo THEN nas[f].body ELSE old.rd[f]]
    OBVIOUS
  <1>4. PICK pass : pass = [old EXCEPT !.rd = rd]
    OBVIOUS
  <1>5. PICK again : again = [pass EXCEPT !.at = "hash", !.served = <<>>, !.probes = <<>>,
                                          !.ld = Blank, !.rd = Blank]
    OBVIOUS
  <1>6. PICK done : done = [pass EXCEPT !.at = "write"]
    OBVIOUS
  <1>7. \/ Step(p, NoPass) /\ UNCHANGED dirVars
        \/ Step(p, again) /\ cacheFile' = NoFile /\ UNCHANGED temps
        \/ /\ Step(p, done) /\ UNCHANGED dirVars
           /\ \A f \in todo : nas[f].body # None
    BY <1>1, <1>2, <1>3, <1>4, <1>5, <1>6 DEF HashRemote
  <1>8. /\ passes \in [Procs -> Pass] /\ clock \in Nat /\ old \in Pass
        /\ nas \in [Files -> RemoteSight] /\ PassStands(old) /\ ServedStands(old)
        /\ old.at = "md5"
    BY <1>1 DEF CacheInv, CacheTypeOK, PassesStand, HashRemote
  <1>9. old.ld \in [Files -> AnyBody] /\ old.rd \in [Files -> AnyBody]
    BY <1>8 DEF PassStands, Hashing
  <1>10. rd \in [Files -> AnyBody]
    BY <1>3, <1>8, <1>9 DEF RemoteSight
  <1>11. /\ pass \in Pass /\ pass.now = old.now /\ pass.local = old.local
         /\ pass.remote = old.remote /\ pass.served = old.served /\ pass.ld = old.ld
         /\ pass.rd = rd
    BY <1>4, <1>8, <1>10 DEF Pass, Digests
  <1>12. DOMAIN old.remote \subseteq Files /\ \A f \in DOMAIN old.remote : old.remote[f] \in RemoteSight
    BY <1>8, PartialElim DEF Pass
  <1>13. CASE Step(p, NoPass) /\ UNCHANGED dirVars
    BY <1>13, PassEnds
  <1>14. CASE Step(p, again) /\ cacheFile' = NoFile /\ UNCHANGED temps
    <2>1. Blank \in [Files -> AnyBody] /\ \A f \in Files : Blank[f] = None
      BY DEF Blank, AnyBody
    <2>2. /\ again \in Pass /\ again.at = "hash" /\ again.now = old.now /\ again.local = old.local
          /\ again.remote = old.remote /\ again.served = <<>> /\ again.ld = Blank
          /\ again.rd = Blank
      BY <1>5, <1>11, <2>1, PartialEmpty DEF Pass, PassStages, Digests
    <2>3. ServedStands(again)
      BY <2>2, PartialEmpty DEF ServedStands
    <2>4. /\ UNCHANGED <<clock, disk, nas, version>>
          /\ passes' = [passes EXCEPT ![p] = again]
      BY <1>14 DEF Step, worldVars
    <2>5. PassStands(again)'
      <3>1. DOMAIN again.local \subseteq Files
        BY <1>8, <2>2, PartialElim DEF Pass
      <3>2. \A f \in DOMAIN again.remote :
               again.remote[f].rm <= nas'[f].at /\ again.rd[f] = None
        BY <1>8, <1>12, <2>1, <2>2, <2>4 DEF PassStands
      <3>3. again.now <= clock'
        BY <1>8, <2>2, <2>4 DEF PassStands
      <3> QED
        BY <2>1, <2>2, <3>1, <3>2, <3>3 DEF PassStands
    <2>6. /\ cacheFile' \in CacheFile /\ temps' \in [Procs -> Temporary] /\ version' \in Nat
          /\ \A file \in Stored' : FileSound(file)
      <3>1. \A file \in Stored' : file = NoFile \/ file \in Stored
        BY <1>14 DEF Stored
      <3> QED
        BY <1>14, <2>4, <3>1, NoFileIsFile, NoFileSound, StoredSound DEF CacheInv, CacheTypeOK
    <2> QED
      BY <1>1, <2>2, <2>3, <2>4, <2>5, <2>6, PassMoves
  <1>15. CASE /\ Step(p, done) /\ UNCHANGED dirVars
              /\ \A f \in todo : nas[f].body # None
    <2>1. /\ done \in Pass /\ done.at = "write" /\ done.now = old.now /\ done.local = old.local
          /\ done.remote = old.remote /\ done.served = old.served /\ done.ld = old.ld
          /\ done.rd = rd
      BY <1>6, <1>11 DEF Pass, PassStages
    <2>2. ServedStands(done)
      BY <1>8, <2>1 DEF ServedStands
    <2>3. UNCHANGED <<clock, nas, disk>>
      BY <1>15 DEF Step, worldVars
    <2>4. PassStands(done)'
      <3>1. ASSUME NEW f \in DOMAIN old.remote
            PROVE  /\ old.remote[f].rm <= nas[f].at
                   /\ rd[f] # None => RemoteStands(f, old.remote[f].rm, rd[f])
        <4>1. old.remote[f].rm <= nas[f].at
          BY <1>8 DEF PassStands
        <4>2. CASE f \in todo
          BY <1>3, <1>12, <4>1, <4>2 DEF RemoteStands
        <4>3. CASE f \notin todo
          <5>1. rd[f] = old.rd[f]
            BY <1>3, <1>12, <4>3
          <5> QED
            BY <1>8, <4>1, <5>1 DEF PassStands, Hashing
        <4> QED
          BY <4>2, <4>3
      <3>2. \A f \in DOMAIN done.remote :
               /\ done.remote[f].rm <= nas'[f].at
               /\ done.rd[f] # None => RemoteStands(f, done.remote[f].rm, done.rd[f])'
        BY <2>1, <2>3, <3>1 DEF RemoteStands
      <3>3. done.now <= clock'
        BY <1>8, <2>1, <2>3 DEF PassStands
      <3>4. \A f \in DOMAIN done.local :
               done.local[f].m < done.now =>
                  done.ld[f] = done.local[f].body \/ Disguised(f, done.local[f])
        BY <1>8, <2>1 DEF PassStands
      <3>5. \A f \in comparison(done) : done.rd[f] # None
        <4>1. comparison(done) = comparison(old) /\ comparison(old) \subseteq Files
          BY <1>12, <2>1 DEF comparison
        <4> QED
          BY <1>2, <1>3, <1>15, <2>1, <4>1
      <3> QED
        BY <1>9, <1>10, <2>1, <2>3, <3>2, <3>3, <3>4, <3>5 DEF PassStands, Disguised
    <2> QED
      BY <1>1, <1>15, <2>1, <2>2, <2>4, PassMovesAlone
  <1> QED
    BY <1>7, <1>13, <1>14, <1>15

(* What a pass is about to store it saw itself: the remote digest stands,  *)
(* and the local one, where it can be believed, is of the body it scanned. *)
LEMMA FreshSound ==
    ASSUME CacheInv, NEW p \in Procs, passes[p].at = "write",
           NEW f \in DOMAIN observation_stream(passes[p]),
           NEW rec, rec = observation_stream(passes[p])[f]
    PROVE  /\ f \in Files /\ rec \in Record /\ RecordSound(f, rec)
           /\ rec.redated \/ rec.h = passes[p].now
  <1>1. PICK pass : pass = passes[p]
    OBVIOUS
  <1>2. pass \in Pass /\ pass.at = "write" /\ PassStands(pass) /\ ServedStands(pass)
    BY <1>1 DEF CacheInv, CacheTypeOK, PassesStand
  <1>3. f \in comparison(pass) /\ pass.ld[f] = pass.rd[f]
    BY <1>1 DEF observation_stream
  <1>4. rec = [m |-> pass.local[f].m, id |-> pass.local[f].id, l |-> pass.ld[f],
               rm |-> pass.remote[f].rm, r |-> pass.rd[f], t |-> pass.now,
               h |-> IF f \in DOMAIN pass.served THEN pass.served[f].h ELSE pass.now,
               redated |-> f \in DOMAIN pass.served]
    BY <1>1 DEF observation_stream
  <1>5. /\ f \in Files /\ f \in DOMAIN pass.local /\ f \in DOMAIN pass.remote
        /\ pass.local[f] \in Sight /\ pass.remote[f] \in RemoteSight
    BY <1>2, <1>3, PartialElim DEF Pass, comparison
  <1>6. pass.ld[f] \in AnyBody /\ pass.rd[f] \in AnyBody /\ pass.rd[f] # None
    BY <1>2, <1>3, <1>5 DEF PassStands, Hashing
  <1>7. f \in DOMAIN pass.served => pass.served[f].h \in Nat
    <2>1. pass.served \in Partial(Record)
      BY <1>2 DEF Pass
    <2>2. \A g \in DOMAIN pass.served : pass.served[g] \in Record
      BY <2>1, PartialElim
    <2> QED
      BY <2>2 DEF Record
  <1>8. pass.now \in Nat
    BY <1>2 DEF Pass
  <1>9. rec \in Record
    BY <1>4, <1>5, <1>6, <1>7, <1>8 DEF Record, Sight, RemoteSight
  <1>10. RemoteStands(f, rec.rm, rec.r)
    BY <1>2, <1>4, <1>5, <1>6 DEF PassStands, Hashing
  <1>11. rec.redated \/ (rec.h = pass.now /\ rec.h >= rec.t)
    <2>1. CASE f \in DOMAIN pass.served
      <3>1. PICK redated : redated = (f \in DOMAIN pass.served)
        OBVIOUS
      <3>2. rec.redated = redated
        BY <1>4, <3>1
      <3> QED
        BY <2>1, <3>1, <3>2, Zenon
    <2>2. CASE f \notin DOMAIN pass.served
      <3>1. rec.h = pass.now /\ rec.t = pass.now
        BY <1>4, <2>2
      <3> QED
        BY <1>8, <3>1
    <2> QED
      BY <2>1, <2>2
  <1>12. ASSUME rec.m < rec.t, ~Disguised(f, rec)
         PROVE  RecordClaim(rec) \in Sightings(f)
    <2>1. pass.ld[f] = pass.local[f].body
      BY <1>2, <1>4, <1>5, <1>12 DEF PassStands, Disguised
    <2>2. RecordClaim(rec) = LocalClaim(passes[p], f)
      BY <1>1, <1>4, <2>1 DEF RecordClaim, LocalClaim
    <2>3. /\ RecordClaim(rec) \in Claim /\ RecordClaim(rec).m < RecordClaim(rec).t
          /\ ~Disguised(f, RecordClaim(rec))
      BY <1>9, <1>12 DEF RecordClaim, Claim, Record, Disguised
    <2> QED
      BY <1>1, <1>5, <2>2, <2>3 DEF Sightings
  <1> QED
    BY <1>1, <1>5, <1>9, <1>10, <1>11, <1>12 DEF RecordSound, RecordStands

(* What it carries over stood already.                                     *)
LEMMA CarriedSound ==
    ASSUME CacheInv, NEW pass \in Pass,
           NEW f \in DOMAIN CarriedRecords(cacheFile, pass),
           NEW rec, rec = CarriedRecords(cacheFile, pass)[f]
    PROVE  /\ f \in Files /\ rec \in Record /\ RecordSound(f, rec)
           /\ rec.t <= pass.now
  <1>1. /\ f \in DOMAIN cacheFile.recs /\ rec = cacheFile.recs[f]
        /\ ~Expired(cacheFile.recs[f], pass)
    BY PartialEmpty DEF CarriedRecords
  <1>2. f \in Files /\ rec \in Record /\ RecordSound(f, rec)
    BY <1>1, StoredTypes, StoredSound DEF Stored, FileSound, CacheInv
  <1>3. rec.t <= pass.now
    BY <1>1, <1>2 DEF Expired, Record, Pass
  <1> QED
    BY <1>2, <1>3

(* Evidence that was stored already keeps its date.                        *)
LEMMA MergedSound ==
    ASSUME CacheInv, NEW f \in Files, NEW now \in Nat,
           NEW old \in Record, NEW new \in Record, RecordSound(f, old), RecordSound(f, new),
           old.t <= now, new.redated \/ new.h = now, is_same_evidence_as(old, new),
           NEW rec, rec = [new EXCEPT !.t = old.t, !.h = Max({new.h, old.h}),
                                      !.redated = new.redated /\ old.redated]
    PROVE  rec \in Record /\ RecordSound(f, rec)
  <1>1. PICK h : h = Max({new.h, old.h})
    OBVIOUS
  <1>2. h \in Nat /\ h >= new.h /\ h >= old.h
    BY <1>1, MaxPair DEF Record
  <1>3. PICK redated \in BOOLEAN : redated = (new.redated /\ old.redated)
    OBVIOUS
  <1>4. rec = [new EXCEPT !.t = old.t, !.h = h, !.redated = redated]
    BY <1>1, <1>3
  <1>5. /\ rec \in Record /\ rec.t = old.t /\ rec.h = h /\ rec.redated = redated
        /\ rec.m = new.m /\ rec.id = new.id /\ rec.l = new.l /\ rec.rm = new.rm /\ rec.r = new.r
    BY <1>2, <1>4 DEF Record
  <1>6. RemoteStands(f, rec.rm, rec.r)
    BY <1>5 DEF RecordSound, RecordStands
  <1>8. rec.redated \/ rec.h >= rec.t
    <2>1. CASE ~new.redated
      BY <1>2, <1>5, <2>1 DEF Record
    <2>2. CASE ~old.redated
      <3>1. old.h >= old.t
        BY <2>2 DEF RecordSound, RecordStands
      <3> QED
        BY <1>2, <1>5, <3>1 DEF Record
    <2>3. CASE new.redated /\ old.redated
      BY <1>3, <1>5, <2>3
    <2> QED
      BY <2>1, <2>2, <2>3
  <1>9. rec.m < rec.t /\ ~Disguised(f, rec) => RecordClaim(rec) \in Sightings(f)
    <2>1. /\ RecordClaim(rec) = RecordClaim(old) /\ rec.m = old.m
          /\ Disguised(f, old) => Disguised(f, rec)
      BY <1>5 DEF RecordClaim, is_same_evidence_as, Disguised
    <2> QED
      BY <1>5, <2>1 DEF RecordSound
  <1> QED
    BY <1>5, <1>6, <1>8, <1>9 DEF RecordSound, RecordStands

(* So what is stored is sound, record by record.                           *)
LEMMA WriteMerged ==
    ASSUME CacheInv, NEW p \in Procs, passes[p].at = "write",
           NEW file, file = write_merged(cacheFile, passes[p])
    PROVE  file \in CacheFile /\ FileSound(file)
  <1>1. PICK pass : pass = passes[p]
    OBVIOUS
  <1>2. PICK fresh, old : fresh = observation_stream(pass) /\ old = CarriedRecords(cacheFile, pass)
    OBVIOUS
  <1> DEFINE Rec(f) == IF f \notin DOMAIN fresh THEN old[f]
                  ELSE IF f \in DOMAIN old /\ is_same_evidence_as(old[f], fresh[f])
                  THEN [fresh[f] EXCEPT !.t = old[f].t, !.h = Max({@, old[f].h}),
                                        !.redated = @ /\ old[f].redated]
                  ELSE fresh[f]
             all  == DOMAIN fresh \cup DOMAIN old
             kept == {f \in all : Place(f, all) < EntryLimit}
  <1>3. file = [form |-> "ok", gen |-> pass.now, canary |-> pass.canary,
                version |-> pass.version, recs |-> [f \in kept |-> Rec(f)]]
    BY <1>1, <1>2 DEF write_merged
  <1>4. pass \in Pass /\ pass.at = "write"
    BY <1>1 DEF CacheInv, CacheTypeOK
  <1>5. ASSUME NEW f \in all
        PROVE  f \in Files /\ Rec(f) \in Record /\ RecordSound(f, Rec(f))
    <2>1. CASE f \notin DOMAIN fresh
      BY <1>2, <1>4, <2>1, CarriedSound
    <2>2. CASE f \in DOMAIN fresh /\ f \in DOMAIN old /\ is_same_evidence_as(old[f], fresh[f])
      <3>1. PICK new, was : new = fresh[f] /\ was = old[f]
        OBVIOUS
      <3>2. f \in Files /\ new \in Record /\ RecordSound(f, new) /\ (new.redated \/ new.h = pass.now)
        BY <1>1, <1>2, <2>2, <3>1, FreshSound
      <3>3. was \in Record /\ RecordSound(f, was) /\ was.t <= pass.now
        BY <1>2, <1>4, <2>2, <3>1, CarriedSound
      <3>4. Rec(f) = [new EXCEPT !.t = was.t, !.h = Max({new.h, was.h}),
                                 !.redated = new.redated /\ was.redated]
        BY <2>2, <3>1
      <3>5. pass.now \in Nat /\ is_same_evidence_as(was, new)
        BY <1>4, <2>2, <3>1 DEF Pass
      <3> HIDE DEF Rec
      <3> QED
        BY <3>2, <3>3, <3>4, <3>5, MergedSound
    <2>3. CASE /\ f \in DOMAIN fresh
               /\ ~(f \in DOMAIN old /\ is_same_evidence_as(old[f], fresh[f]))
      <3>1. Rec(f) = fresh[f]
        BY <2>3
      <3>2. f \in Files /\ fresh[f] \in Record /\ RecordSound(f, fresh[f])
        BY <1>1, <1>2, <2>3, FreshSound
      <3> HIDE DEF Rec
      <3> QED
        BY <3>1, <3>2
    <2> QED
      BY <2>1, <2>2, <2>3
  <1> HIDE DEF Rec
  <1>6. PICK recs : recs = [f \in kept |-> Rec(f)]
    OBVIOUS
  <1>7. recs \in Partial(Record) /\ DOMAIN recs = kept
    <2>1. kept \in SUBSET Files /\ recs \in [kept -> Record]
      BY <1>5, <1>6
    <2> QED
      BY <1>6, <2>1, PartialIntro
  <1>8. /\ file.form = "ok" /\ file.recs = recs
        /\ file = [form |-> "ok", gen |-> pass.now, canary |-> pass.canary,
                   version |-> pass.version, recs |-> recs]
    BY <1>3, <1>6
  <1>9. file \in CacheFile
    BY <1>4, <1>7, <1>8 DEF CacheFile, Forms, Pass
  <1>10. FileSound(file)
    BY <1>5, <1>6, <1>7, <1>8 DEF FileSound
  <1> QED
    BY <1>9, <1>10

(* A pass goes to its next stage, or is over, and looks at nothing.        *)
LEMMA PassAdvances ==
    ASSUME CacheInv, NEW p \in Procs, NEW at \in {"rename", "rollup"},
           NEW new, new = [passes[p] EXCEPT !.at = at], UNCHANGED <<clock, nas>>,
           passes[p].at \notin {"claim", "scan"}
    PROVE  /\ new \in Pass /\ new.local = passes[p].local /\ new.now = passes[p].now
           /\ PassStands(new)' /\ ServedStands(new)
  <1>1. PICK pass : pass = passes[p]
    OBVIOUS
  <1>2. pass \in Pass /\ PassStands(pass) /\ ServedStands(pass)
    BY <1>1 DEF CacheInv, CacheTypeOK, PassesStand
  <1>3. /\ new \in Pass /\ new.at = at /\ new.now = pass.now /\ new.local = pass.local
        /\ new.remote = pass.remote /\ new.served = pass.served
    BY <1>1, <1>2 DEF Pass, PassStages
  <1>4. new.at \notin Hashing /\ new.at \notin {"claim", "scan", "hash", "md5", "write"}
    BY <1>3 DEF Hashing
  <1>5. new.now <= clock' /\ \A f \in DOMAIN new.remote : new.remote[f].rm <= nas'[f].at
    BY <1>2, <1>3 DEF PassStands
  <1>6. PassStands(new)'
    BY <1>4, <1>5 DEF PassStands
  <1>7. ServedStands(new)
    BY <1>2, <1>3 DEF ServedStands
  <1> QED
    BY <1>1, <1>3, <1>6, <1>7

LEMMA SweptSound ==
    ASSUME CacheInv
    PROVE  /\ Swept \in [Procs -> Temporary]
           /\ \A q \in Procs : Swept[q].file \in CacheFile /\ FileSound(Swept[q].file)
  <1>1. temps \in [Procs -> Temporary] /\ clock \in Nat
    BY DEF CacheInv, CacheTypeOK
  <1>2. ASSUME NEW q \in Procs
        PROVE  Swept[q] \in Temporary /\ (Swept[q].file = NoFile \/ Swept[q].file \in Stored)
    <2>1. temps[q] \in Temporary /\ temps[q].file \in Stored
      BY <1>1 DEF Stored
    <2>2. [file |-> NoFile, at |-> 0] \in Temporary
      BY NoFileIsFile DEF Temporary
    <2>3. Swept[q] = [file |-> NoFile, at |-> 0] \/ Swept[q] = temps[q]
      BY DEF Swept
    <2> QED
      BY <2>1, <2>2, <2>3
  <1>3. Swept \in [Procs -> Temporary]
    BY <1>2 DEF Swept
  <1>4. ASSUME NEW q \in Procs
        PROVE  Swept[q].file \in CacheFile /\ FileSound(Swept[q].file)
    <2>1. Swept[q].file \in CacheFile
      BY <1>2 DEF Temporary
    <2> QED
      BY <1>2, <2>1, NoFileSound, StoredSound
  <1> QED
    BY <1>3, <1>4

LEMMA StoreTempStep ==
    ASSUME CacheInv, NEW p \in Procs, StoreTemp(p)
    PROVE  CacheInv'
  <1>1. PICK new : new = [passes[p] EXCEPT !.at = "rename"]
    OBVIOUS
  <1>2. PICK file : file = write_merged(cacheFile, passes[p])
    OBVIOUS
  <1>3. PICK temp : temp = [file |-> file, at |-> clock]
    OBVIOUS
  <1>4. PICK swept : swept = Swept
    OBVIOUS
  <1>5. /\ passes[p].at = "write" /\ Step(p, new) /\ cacheFile' = cacheFile
        /\ temps' = [swept EXCEPT ![p] = temp]
    BY <1>1, <1>2, <1>3, <1>4 DEF StoreTemp
  <1>6. /\ UNCHANGED <<clock, disk, nas, version>>
        /\ passes' = [passes EXCEPT ![p] = new]
    BY <1>5 DEF Step, worldVars
  <1>7. /\ new \in Pass /\ new.local = passes[p].local /\ new.now = passes[p].now
        /\ PassStands(new)' /\ ServedStands(new)
    BY <1>1, <1>5, <1>6, PassAdvances
  <1>8. file \in CacheFile /\ FileSound(file)
    BY <1>2, <1>5, WriteMerged
  <1>9. temp \in Temporary /\ temp.file = file
    BY <1>3, <1>8 DEF Temporary, CacheInv, CacheTypeOK
  <1>10. /\ swept \in [Procs -> Temporary]
         /\ \A q \in Procs : FileSound(swept[q].file)
    BY <1>4, SweptSound
  <1>11. temps' \in [Procs -> Temporary]
    BY <1>5, <1>9, <1>10
  <1>12. ASSUME NEW stored \in Stored'
         PROVE  FileSound(stored)
    <2>1. CASE stored = cacheFile
      BY <2>1, StoredSound DEF Stored
    <2>2. CASE \E q \in Procs : stored = temps'[q].file
      <3>1. PICK q \in Procs : stored = temps'[q].file
        BY <2>2
      <3>2. CASE q = p
        BY <1>5, <1>8, <1>9, <1>10, <3>1, <3>2
      <3>3. CASE q # p
        <4>1. temps'[q] = swept[q]
          BY <1>5, <1>10, <3>3
        <4> QED
          BY <1>10, <3>1, <4>1
      <3> QED
        BY <3>2, <3>3
    <2> QED
      BY <1>5, <2>1, <2>2 DEF Stored
  <1>13. version' \in Nat /\ cacheFile' \in CacheFile
    BY <1>5, <1>6 DEF CacheInv, CacheTypeOK
  <1> QED
    BY <1>6, <1>7, <1>11, <1>12, <1>13, PassMoves

LEMMA StoreRenameStep ==
    ASSUME CacheInv, NEW p \in Procs, StoreRename(p)
    PROVE  CacheInv'
  <1>1. PICK new : new = [passes[p] EXCEPT !.at = "rollup"]
    OBVIOUS
  <1>2. PICK none : none = [file |-> NoFile, at |-> 0]
    OBVIOUS
  <1>3. /\ passes[p].at = "rename" /\ Step(p, new)
        /\ temps' = [temps EXCEPT ![p] = none]
        /\ cacheFile' = cacheFile \/ cacheFile' = temps[p].file
    BY <1>1, <1>2 DEF StoreRename
  <1>4. /\ UNCHANGED <<clock, disk, nas, version>>
        /\ passes' = [passes EXCEPT ![p] = new]
    BY <1>3 DEF Step, worldVars
  <1>5. /\ new \in Pass /\ new.local = passes[p].local /\ new.now = passes[p].now
        /\ PassStands(new)' /\ ServedStands(new)
    BY <1>1, <1>3, <1>4, PassAdvances
  <1>6. none \in Temporary /\ none.file = NoFile
    BY <1>2, NoFileIsFile DEF Temporary
  <1>7. temps \in [Procs -> Temporary] /\ cacheFile \in CacheFile /\ version' \in Nat
    BY <1>4 DEF CacheInv, CacheTypeOK
  <1>8. temps' \in [Procs -> Temporary] /\ cacheFile' \in CacheFile
    BY <1>3, <1>6, <1>7 DEF Temporary
  <1>9. ASSUME NEW stored \in Stored'
        PROVE  stored = NoFile \/ stored \in Stored
    <2>1. CASE stored = cacheFile'
      BY <1>3, <2>1 DEF Stored
    <2>2. CASE \E q \in Procs : stored = temps'[q].file
      <3>1. PICK q \in Procs : stored = temps'[q].file
        BY <2>2
      <3>2. temps'[q] = none \/ temps'[q] = temps[q]
        BY <1>3, <1>7
      <3> QED
        BY <1>6, <3>1, <3>2 DEF Stored
    <2> QED
      BY <2>1, <2>2 DEF Stored
  <1>10. \A stored \in Stored' : FileSound(stored)
    BY <1>9, NoFileSound, StoredSound
  <1> QED
    BY <1>4, <1>5, <1>7, <1>8, <1>10, PassMoves

LEMMA store_rollupStep ==
    ASSUME CacheInv, NEW p \in Procs, store_rollup(p)
    PROVE  CacheInv'
  <1>1. Step(p, NoPass) /\ temps' = Swept /\ cacheFile' = cacheFile
    BY DEF store_rollup
  <1>2. /\ UNCHANGED <<clock, disk, nas, version>>
        /\ passes' = [passes EXCEPT ![p] = NoPass]
    BY <1>1 DEF Step, worldVars
  <1>3. clock' \in Nat /\ version' \in Nat /\ cacheFile' \in CacheFile
    BY <1>1, <1>2 DEF CacheInv, CacheTypeOK
  <1>4. temps' \in [Procs -> Temporary]
    BY <1>1, SweptSound
  <1>5. \A stored \in Stored' : FileSound(stored)
    BY <1>1, SweptSound, StoredSound DEF Stored
  <1> QED
    BY <1>2, <1>3, <1>4, <1>5, NoPassStands, PassMoves

LEMMA KillStep ==
    ASSUME CacheInv, NEW p \in Procs, Kill(p)
    PROVE  CacheInv'
  <1>1. /\ UNCHANGED <<clock, disk, nas, version, cacheFile, temps>>
        /\ passes' = [passes EXCEPT ![p] = NoPass]
    BY DEF Kill, worldVars, dirVars
  <1>2. clock' \in Nat /\ version' \in Nat
    BY <1>1 DEF CacheInv, CacheTypeOK
  <1> QED
    BY <1>1, <1>2, StoredKept, NoPassStands, PassMoves

(* Time passes, the program is upgraded, totals are asked for: what stands *)
(* goes on standing.                                                       *)
LEMMA TimePasses ==
    ASSUME CacheInv, UNCHANGED <<disk, nas, cacheFile, temps, passes>>,
           clock' \in Nat, clock <= clock', version' \in Nat
    PROVE  CacheInv'
  <1>1. passes \in [Procs -> Pass] /\ clock \in Nat /\ nas \in [Files -> RemoteSight]
    BY DEF CacheInv, CacheTypeOK
  <1>2. PassesStand'
    <2> SUFFICES ASSUME NEW p \in Procs
                 PROVE  PassStands(passes[p])' /\ ServedStands(passes[p])'
      BY DEF PassesStand
    <2>1. PICK pass : pass = passes[p]
      OBVIOUS
    <2>2. pass \in Pass /\ PassStands(pass) /\ ServedStands(pass) /\ passes'[p] = pass
      BY <1>1, <2>1 DEF CacheInv, PassesStand
    <2>3. PassStands(pass)'
      BY <2>2, PassStays DEF CacheInv
    <2> QED
      BY <2>2, <2>3 DEF PassStands, ServedStands, Disguised
  <1>3. SightingsTrue' /\ SightingsAgree' /\ RecordsStand'
    BY StoredKept, NothingNew DEF ScansKept
  <1>4. \A f \in Files : nas'[f].rm <= nas'[f].at /\ nas'[f].at <= clock'
    BY <1>1 DEF CacheInv, RemoteSight
  <1> QED
    BY <1>2, <1>3, <1>4 DEF CacheInv, CacheTypeOK

(***************************************************************************)
(* The world's steps.                                                      *)
(***************************************************************************)

(* A source file changes. Its own time is now, or it is another file, or   *)
(* what it shows is marked reused: in no case can anything seen before be  *)
(* mistaken for it.                                                        *)
LEMMA LocalChanges ==
    ASSUME CacheInv, NEW f \in Files, NEW new \in Sight, disk' = [disk EXCEPT ![f] = new],
           disk[f].reused \subseteq new.reused,
           \/ new.id > disk[f].id
           \/ new.id = disk[f].id /\ (new.m = clock \/ <<new.m, new.id>> \in new.reused),
           UNCHANGED <<clock, nas, version, cacheFile, temps, passes>>
    PROVE  CacheInv'
  <1>1. /\ disk \in [Files -> Sight] /\ clock \in Nat /\ passes \in [Procs -> Pass]
    BY DEF CacheInv, CacheTypeOK
  <1>2. disk' \in [Files -> Sight] /\ disk'[f] = new /\ \A g \in Files \ {f} : disk'[g] = disk[g]
    BY <1>1
  <1>3. \A g \in Files : \A s : Disguised(g, s) => Disguised(g, s)'
    BY <1>2 DEF Disguised
  <1>4. ASSUME NEW g \in Files, NEW s \in Sightings(g)'
        PROVE  s \in Sightings(g) /\ ~Disguised(g, s)'
    <2>1. ~Disguised(g, s)' /\ ~Disguised(g, s)
      BY <1>3, <1>4 DEF Sightings
    <2> QED
      BY <1>4, <2>1 DEF Sightings, Stored, LocalClaim
  <1>5. SightingsTrue'
    <2> SUFFICES ASSUME NEW g \in Files, NEW s \in Sightings(g)'
                 PROVE  Stands(g, s)'
      BY DEF SightingsTrue
    <2>1. s \in Sightings(g) /\ ~Disguised(g, s)'
      BY <1>4
    <2>2. Stands(g, s) /\ s \in Claim /\ s.m < s.t
      BY <2>1 DEF CacheInv, SightingsTrue, Sightings
    <2>3. CASE g # f
      BY <1>2, <2>2, <2>3 DEF Stands
    <2>4. CASE g = f
      <3>1. s.t <= clock /\ s.id <= disk[f].id /\ disk[f] \in Sight
        BY <1>1, <2>2, <2>4 DEF Stands
      <3>2. s.m # clock /\ s.id <= new.id
        BY <1>1, <2>2, <3>1 DEF Claim, Sight
      <3>3. ~(s.id = new.id /\ s.m = new.m)
        <4>1. <<s.m, s.id>> \notin new.reused
          BY <1>2, <2>1, <2>4 DEF Disguised
        <4> QED
          BY <2>2, <3>1, <3>2, <4>1 DEF Claim, Sight
      <3> QED
        BY <1>2, <2>4, <3>1, <3>2, <3>3 DEF Stands
    <2> QED
      BY <2>3, <2>4
  <1>6. SightingsAgree'
    BY <1>4 DEF CacheInv, SightingsAgree
  <1>7. RecordsStand'
    BY DEF CacheInv, RecordsStand, RecordStands, RemoteStands, Stored
  <1>8. PassesStand'
    <2> SUFFICES ASSUME NEW p \in Procs
                 PROVE  PassStands(passes[p])' /\ ServedStands(passes[p])'
      BY DEF PassesStand
    <2>1. PICK pass : pass = passes[p]
      OBVIOUS
    <2>2. passes'[p] = pass /\ pass \in Pass /\ PassStands(pass) /\ ServedStands(pass)
      BY <1>1, <2>1 DEF CacheInv, PassesStand
    <2>3. DOMAIN pass.local \subseteq Files /\ DOMAIN pass.served \subseteq Files
      BY <2>2, PartialElim DEF Pass
    <2>4. PassStands(pass)'
      BY <1>3, <2>2, <2>3 DEF PassStands, RemoteStands, comparison
    <2>5. ServedStands(pass)'
      BY <1>3, <2>2, <2>3 DEF ServedStands
    <2> QED
      BY <2>2, <2>4, <2>5 DEF PassStands, ServedStands, Disguised
  <1> QED
    BY <1>1, <1>2, <1>5, <1>6, <1>7, <1>8 DEF CacheInv, CacheTypeOK

LEMMA EditLocalStep ==
    ASSUME CacheInv, NEW f \in Edited, NEW b \in Bodies, NEW m \in 0..clock, EditLocal(f, b, m)
    PROVE  CacheInv'
  <1>1. /\ f \in Files /\ disk \in [Files -> Sight] /\ clock \in Nat /\ disk[f] \in Sight
        /\ UNCHANGED <<clock, nas, version, cacheFile, temps, passes>>
    BY ScopeAssumption DEF EditLocal, World, dirVars, CacheInv, CacheTypeOK
  <1>2. PICK reused : reused = IF m = clock THEN disk[f].reused
                               ELSE disk[f].reused \cup {<<m, disk[f].id>>}
    OBVIOUS
  <1>3. PICK new : new = [body |-> b, m |-> m, id |-> disk[f].id, reused |-> reused]
    OBVIOUS
  <1>4. m \in Nat /\ disk[f].id \in Nat /\ disk[f].reused \subseteq Nat \X Nat
    BY <1>1 DEF Sight
  <1>5. reused \subseteq Nat \X Nat /\ disk[f].reused \subseteq reused
        /\ (m = clock \/ <<m, disk[f].id>> \in reused)
    BY <1>2, <1>4
  <1>6. /\ new \in Sight /\ new.id = disk[f].id /\ disk[f].reused \subseteq new.reused
        /\ (new.m = clock \/ <<new.m, new.id>> \in new.reused)
    BY <1>3, <1>4, <1>5 DEF Sight, AnyBody
  <1>7. disk' = [disk EXCEPT ![f] = new]
    BY <1>1, <1>2, <1>3 DEF EditLocal, World
  <1> QED
    BY <1>1, <1>6, <1>7, LocalChanges

LEMMA ReplaceLocalStep ==
    ASSUME CacheInv, NEW f \in Edited, NEW b \in Bodies, ReplaceLocal(f, b)
    PROVE  CacheInv'
  <1>1. /\ f \in Files /\ disk \in [Files -> Sight] /\ clock \in Nat /\ disk[f] \in Sight
        /\ UNCHANGED <<clock, nas, version, cacheFile, temps, passes>>
    BY ScopeAssumption DEF ReplaceLocal, World, dirVars, CacheInv, CacheTypeOK
  <1>2. PICK id, reused : id = disk[f].id /\ reused = disk[f].reused
    OBVIOUS
  <1>3. id \in Nat /\ id + 1 \in Nat /\ id + 1 > id /\ reused \in SUBSET (Nat \X Nat)
    BY <1>1, <1>2 DEF Sight
  <1>4. PICK new : new = [body |-> b, m |-> 0, id |-> id + 1, reused |-> reused]
    OBVIOUS
  <1>5. new \in Sight /\ new.id = id + 1 /\ new.reused = reused
    BY <1>1, <1>3, <1>4 DEF Sight, AnyBody
  <1>6. new.id > disk[f].id /\ new.reused = disk[f].reused
    BY <1>2, <1>3, <1>5
  <1>7. disk' = [disk EXCEPT ![f] = new]
    BY <1>1, <1>2, <1>4 DEF ReplaceLocal, World, Sight
  <1> QED
    BY <1>1, <1>5, <1>6, <1>7, LocalChanges

LEMMA DeleteLocalStep ==
    ASSUME CacheInv, NEW f \in Edited, DeleteLocal(f)
    PROVE  CacheInv'
  <1>1. /\ f \in Files /\ disk \in [Files -> Sight] /\ clock \in Nat /\ disk[f] \in Sight
        /\ UNCHANGED <<clock, nas, version, cacheFile, temps, passes>>
    BY ScopeAssumption DEF DeleteLocal, World, dirVars, CacheInv, CacheTypeOK
  <1>2. PICK id, reused : id = disk[f].id /\ reused = disk[f].reused
    OBVIOUS
  <1>3. id \in Nat /\ id + 1 \in Nat /\ id + 1 > id /\ reused \in SUBSET (Nat \X Nat)
    BY <1>1, <1>2 DEF Sight
  <1>4. PICK new : new = [body |-> None, m |-> clock, id |-> id + 1, reused |-> reused]
    OBVIOUS
  <1>5. new \in Sight /\ new.id = id + 1 /\ new.reused = reused
    BY <1>1, <1>3, <1>4 DEF Sight, AnyBody
  <1>6. new.id > disk[f].id /\ new.reused = disk[f].reused
    BY <1>2, <1>3, <1>5
  <1>7. disk' = [disk EXCEPT ![f] = new]
    BY <1>1, <1>2, <1>4 DEF DeleteLocal, World, Sight
  <1> QED
    BY <1>1, <1>5, <1>6, <1>7, LocalChanges

(* A destination file is rewritten: its time is new, or what was known of  *)
(* it is no longer told apart.                                             *)
LEMMA EditRemoteStep ==
    ASSUME CacheInv, NEW f \in Edited, NEW b \in Bodies, NEW rm \in 0..clock, EditRemote(f, b, rm)
    PROVE  CacheInv'
  <1>1. /\ f \in Files /\ nas \in [Files -> RemoteSight] /\ clock \in Nat
        /\ UNCHANGED <<clock, disk, version, cacheFile, temps, passes>>
    BY ScopeAssumption DEF EditRemote, World, dirVars, CacheInv, CacheTypeOK
  <1>2. PICK blurred \in BOOLEAN : blurred = (rm # clock \/ nas[f].at = clock)
    OBVIOUS
  <1>3. PICK new : new = [body |-> b, rm |-> rm, at |-> clock, blurred |-> blurred]
    OBVIOUS
  <1>4. nas' = [nas EXCEPT ![f] = new]
    BY <1>2, <1>3 DEF EditRemote, World
  <1>5. /\ new \in RemoteSight /\ new.at = clock /\ new.rm <= clock
        /\ new.rm # clock \/ nas[f].at = clock => new.blurred
    <2>1. rm \in Nat /\ rm <= clock /\ b \in AnyBody
      BY <1>1 DEF AnyBody
    <2>2. /\ new.at = clock /\ new.rm = rm /\ new.blurred = blurred
          /\ new \in RemoteSight
      BY <1>1, <1>2, <1>3, <2>1 DEF RemoteSight
    <2>3. rm # clock \/ nas[f].at = clock => blurred
      BY <1>2
    <2> QED
      BY <2>1, <2>2, <2>3
  <1>6. nas[f].at \in Nat /\ nas[f].at <= clock
    BY <1>1 DEF CacheInv, RemoteSight
  <1>7. /\ nas' \in [Files -> RemoteSight] /\ nas'[f] = new
        /\ \A g \in Files \ {f} : nas'[g] = nas[g]
    BY <1>1, <1>4, <1>5
  <1>8. ASSUME NEW g \in Files, NEW seen \in Nat, NEW r
        PROVE  /\ seen <= nas[g].at => seen <= nas'[g].at
               /\ RemoteStands(g, seen, r) => RemoteStands(g, seen, r)'
    <2>1. CASE g # f
      BY <1>7, <2>1 DEF RemoteStands
    <2>2. CASE g = f
      <3>1. seen <= nas[f].at => seen <= new.at /\ (seen = new.rm => new.blurred)
        BY <1>1, <1>5, <1>6
      <3> QED
        BY <1>7, <2>2, <3>1 DEF RemoteStands
    <2> QED
      BY <2>1, <2>2
  <1>9. \A g \in Files : Sightings(g)' = Sightings(g)
    BY <1>1 DEF Sightings, Stored, Disguised
  <1>10. SightingsTrue' /\ SightingsAgree'
    BY <1>1, <1>9 DEF CacheInv, SightingsTrue, SightingsAgree, Stands
  <1>11. RecordsStand'
    <2> SUFFICES ASSUME NEW file \in Stored, NEW g \in DOMAIN file.recs
                 PROVE  RecordStands(g, file.recs[g])'
      BY <1>1 DEF RecordsStand, Stored
    <2>1. RecordStands(g, file.recs[g])
      BY DEF CacheInv, RecordsStand
    <2>2. g \in Files /\ file.recs[g] \in Record
      BY StoredTypes DEF CacheInv
    <2>3. file.recs[g].rm \in Nat
      BY <2>2 DEF Record
    <2> QED
      BY <1>8, <2>1, <2>2, <2>3 DEF RecordStands
  <1>12. PassesStand'
    <2> SUFFICES ASSUME NEW p \in Procs
                 PROVE  PassStands(passes[p])' /\ ServedStands(passes[p])'
      BY DEF PassesStand
    <2>1. PICK pass : pass = passes[p]
      OBVIOUS
    <2>2. passes'[p] = pass /\ pass \in Pass /\ PassStands(pass) /\ ServedStands(pass)
      BY <1>1, <2>1 DEF CacheInv, CacheTypeOK, PassesStand
    <2>3. pass.remote \in Partial(RemoteSight)
      BY <2>2 DEF Pass
    <2>4. /\ DOMAIN pass.remote \subseteq Files
          /\ \A g \in DOMAIN pass.remote : pass.remote[g] \in RemoteSight
      BY <2>3, PartialElim
    <2>5. \A g \in DOMAIN pass.remote : pass.remote[g].rm \in Nat
      BY <2>4 DEF RemoteSight
    <2>6. ASSUME NEW g \in DOMAIN pass.remote
          PROVE  /\ pass.remote[g].rm <= nas'[g].at
                 /\ pass.at \in Hashing /\ pass.rd[g] # None =>
                       RemoteStands(g, pass.remote[g].rm, pass.rd[g])'
      BY <1>8, <2>2, <2>4, <2>5 DEF PassStands
    <2>7. PassStands(pass)'
      BY <1>1, <2>2, <2>6 DEF PassStands, comparison, Disguised
    <2> QED
      BY <1>1, <2>2, <2>7 DEF PassStands, ServedStands, Disguised
  <1>13. \A g \in Files : nas'[g].rm <= nas'[g].at /\ nas'[g].at <= clock'
    BY <1>1, <1>5, <1>7 DEF CacheInv
  <1> QED
    BY <1>1, <1>7, <1>10, <1>11, <1>12, <1>13 DEF CacheInv, CacheTypeOK

(* What is left of a torn file stood before.                               *)
LEMMA PowerLossStep ==
    ASSUME CacheInv, NEW form \in {"cut", "empty", "garbled"}, PowerLoss(form)
    PROVE  CacheInv'
  <1>1. /\ UNCHANGED <<clock, disk, nas, version>>
        /\ passes' = [p \in Procs |-> NoPass]
        /\ temps' = [p \in Procs |-> [file |-> NoFile, at |-> 0]]
    BY DEF PowerLoss, worldVars
  <1>2. clock' \in Nat /\ version' \in Nat /\ disk' \in [Files -> Sight]
        /\ nas' \in [Files -> RemoteSight] /\ clock' = clock /\ cacheFile \in CacheFile
    BY <1>1 DEF CacheInv, CacheTypeOK
  <1>3. PICK S, recs : /\ S \subseteq DOMAIN cacheFile.recs
                       /\ recs = [f \in S |-> cacheFile.recs[f]]
                       /\ cacheFile' = [cacheFile EXCEPT !.form = form, !.recs = recs]
    <2>1. CASE form = "cut" /\ Len(PathSeq) > 0
      <3>1. PICK S, recs : /\ S = DOMAIN cacheFile.recs \ {PathSeq[Len(PathSeq)]}
                           /\ recs = [f \in S |-> cacheFile.recs[f]]
        OBVIOUS
      <3>2. cacheFile' = [cacheFile EXCEPT !.form = form, !.recs = recs]
        BY <2>1, <3>1 DEF PowerLoss
      <3> QED
        BY <3>1, <3>2
    <2>2. CASE ~(form = "cut" /\ Len(PathSeq) > 0)
      <3>1. PICK recs : recs = cacheFile.recs
        OBVIOUS
      <3>2. cacheFile' = [cacheFile EXCEPT !.form = form, !.recs = recs]
        BY <2>2, <3>1 DEF PowerLoss
      <3>3. cacheFile.recs \in Partial(Record)
        BY <1>2 DEF CacheFile
      <3>4. recs = [f \in DOMAIN cacheFile.recs |-> cacheFile.recs[f]]
        BY <3>1, <3>3, PartialElim
      <3> QED
        BY <3>2, <3>4
    <2> QED
      BY <2>1, <2>2
  <1>4. DOMAIN recs = S /\ \A f \in S : recs[f] = cacheFile.recs[f]
    BY <1>3
  <1>5. recs \in Partial(Record)
    <2>1. S \in SUBSET Files /\ \A f \in S : cacheFile.recs[f] \in Record
      BY <1>3, StoredTypes DEF Stored, CacheInv
    <2>2. recs \in [S -> Record]
      BY <1>3, <2>1
    <2> QED
      BY <2>1, <2>2, PartialIntro
  <1>6. cacheFile' \in CacheFile /\ cacheFile'.recs = recs
    BY <1>2, <1>3, <1>5 DEF CacheFile, Forms
  <1>7. [file |-> NoFile, at |-> 0] \in Temporary
    BY NoFileIsFile DEF Temporary
  <1>8. temps' \in [Procs -> Temporary] /\ \A q \in Procs : temps'[q].file = NoFile
    BY <1>1, <1>7
  <1>9. \A file \in Stored' : FileSound(file)
    <2>1. FileSound(cacheFile)
      BY StoredSound DEF Stored
    <2>2. FileSound(cacheFile')
      <3>1. PICK file : file = cacheFile'
        OBVIOUS
      <3>2. file.recs = recs
        BY <1>6, <3>1
      <3>3. FileSound(file)
        BY <1>3, <1>4, <2>1, <3>2 DEF FileSound
      <3> QED
        BY <3>1, <3>3
    <2> QED
      BY <1>8, <2>2, NoFileSound DEF Stored
  <1>10. PassStands(NoPass)' /\ ServedStands(NoPass) /\ NoPass \in Pass /\ NoPass.local = <<>>
    BY <1>2, NoPassStands
  <1>11. PassesStand' /\ passes' \in [Procs -> Pass] /\ ScansKept
    <2>1. \A q \in Procs : passes'[q] = NoPass
      BY <1>1
    <2> QED
      BY <1>1, <1>10, <2>1 DEF PassesStand, ScansKept, PassStands, ServedStands, Disguised
  <1>12. SightingsTrue' /\ SightingsAgree' /\ RecordsStand'
    BY <1>1, <1>2, <1>9, <1>11, NothingNew DEF CacheInv, CacheTypeOK
  <1>13. \A f \in Files : nas'[f].rm <= nas'[f].at /\ nas'[f].at <= clock'
    BY <1>1 DEF CacheInv
  <1> QED
    BY <1>2, <1>6, <1>8, <1>11, <1>12, <1>13 DEF CacheInv, CacheTypeOK

(***************************************************************************)
(* The invariant, and what it gives.                                       *)
(***************************************************************************)

(* Nothing has been seen yet but by the passes that left the file found.   *)
LEMMA CacheInitInv ==
    CacheInit => CacheInv
  <1> SUFFICES ASSUME CacheInit
               PROVE  CacheInv
    OBVIOUS
  <1>1. PICK scene \in Scenes : cacheFile = scene.file
    BY DEF CacheInit
  <1>2. LeftByPasses(cacheFile)
    BY <1>1, ScenesAssumption
  <1>3. cacheFile \in CacheFile
    <2>1. cacheFile.recs \in Partial(Record)
      BY <1>2, PartialIntro DEF LeftByPasses
    <2> QED
      BY <1>2, <2>1 DEF LeftByPasses, CacheFile
  <1>4. [file |-> NoFile, at |-> 0] \in Temporary
    BY NoFileIsFile DEF Temporary
  <1>5. /\ temps \in [Procs -> Temporary] /\ \A p \in Procs : temps[p].file = NoFile
        /\ \A p \in Procs : passes[p] = NoPass
        /\ clock = 2 /\ version = 1 /\ disk = FirstDisk /\ nas = FirstNas
    BY <1>4 DEF CacheInit
  <1>6. /\ <<>> \in Partial(Record) /\ <<>> \in Partial(Sight) /\ <<>> \in Partial(RemoteSight)
        /\ DOMAIN <<>> = {}
    BY PartialEmpty
  <1>7. NoPass \in Pass /\ NoPass.local = <<>> /\ PassStands(NoPass) /\ ServedStands(NoPass)
    <2>1. NoPass \in Pass
      BY <1>6 DEF NoPass, Pass, PassStages, Digests
    <2>2. NoPass.at = "idle" /\ NoPass.now = 0 /\ DOMAIN NoPass.remote = {}
          /\ DOMAIN NoPass.served = {} /\ NoPass.local = <<>>
      BY <1>6 DEF NoPass
    <2> QED
      BY <1>5, <2>1, <2>2 DEF PassStands, ServedStands, Hashing
  <1>8. disk \in [Files -> Sight] /\ nas \in [Files -> RemoteSight]
    BY <1>5, ScopeAssumption DEF FirstDisk, FirstNas, Sight, RemoteSight, AnyBody
  <1>9. passes \in [Procs -> Pass]
    BY <1>7 DEF CacheInit
  <1>10. CacheTypeOK
    BY <1>3, <1>5, <1>8, <1>9 DEF CacheTypeOK
  <1>11. ASSUME NEW f \in Files, NEW s \in Sightings(f)
         PROVE  /\ s.t <= 2 /\ s.id <= 1
                /\ s.id = 1 /\ s.m = FirstDisk[f].m => s.b = "a"
                /\ f \in DOMAIN cacheFile.recs /\ s = RecordClaim(cacheFile.recs[f])
    <2>1. s \in Claim /\ s.m < s.t
      BY DEF Sightings
    <2>2. \A p \in Procs : f \notin DOMAIN passes[p].local
      BY <1>5, <1>6, <1>7
    <2>3. PICK file \in Stored : f \in DOMAIN file.recs /\ s = RecordClaim(file.recs[f])
      BY <2>2 DEF Sightings
    <2>4. file = cacheFile
      BY <1>5, <2>3, NoFileIsFile DEF Stored
    <2>5. PICK rec : rec = cacheFile.recs[f]
      OBVIOUS
    <2>6. s.m = rec.m /\ s.id = rec.id /\ s.b = rec.l /\ s.t = rec.t
      BY <2>3, <2>4, <2>5 DEF RecordClaim
    <2>7. rec.t <= 2 /\ rec.id <= 1 /\ (rec.id = 1 /\ rec.m = FirstDisk[f].m => rec.l = "a")
      BY <1>2, <2>1, <2>3, <2>4, <2>5, <2>6 DEF LeftByPasses
    <2> QED
      BY <2>3, <2>4, <2>6, <2>7
  <1>12. SightingsTrue
    <2> SUFFICES ASSUME NEW f \in Files, NEW s \in Sightings(f)
                 PROVE  Stands(f, s)
      BY DEF SightingsTrue
    <2>1. disk[f].id = 1 /\ disk[f].m = FirstDisk[f].m /\ disk[f].body = "a"
      BY <1>5 DEF FirstDisk
    <2> QED
      BY <1>5, <1>11, <2>1 DEF Stands
  <1>13. SightingsAgree
    BY <1>11 DEF SightingsAgree
  <1>14. RecordsStand
    <2> SUFFICES ASSUME NEW file \in Stored, NEW f \in DOMAIN file.recs
                 PROVE  RecordStands(f, file.recs[f])
      BY DEF RecordsStand
    <2>1. file = cacheFile
      BY <1>5, NoFileIsFile DEF Stored
    <2>2. PICK rec : rec = cacheFile.recs[f]
      OBVIOUS
    <2>3. f \in Files /\ (rec.redated \/ rec.h >= rec.t) /\ rec.rm = 0 /\ rec.r = "a"
      BY <1>2, <2>1, <2>2 DEF LeftByPasses
    <2>4. nas[f].rm = 0 /\ nas[f].body = "a" /\ nas[f].at = 0
      BY <1>5, <2>3 DEF FirstNas
    <2>5. RemoteStands(f, rec.rm, rec.r)
      BY <2>3, <2>4 DEF RemoteStands
    <2> QED
      BY <2>1, <2>2, <2>3, <2>5 DEF RecordStands
  <1>15. PassesStand
    BY <1>5, <1>7 DEF PassesStand
  <1>16. \A f \in Files : nas[f].rm <= nas[f].at /\ nas[f].at <= clock
    BY <1>5 DEF FirstNas
  <1> QED
    BY <1>10, <1>12, <1>13, <1>14, <1>15, <1>16 DEF CacheInv

LEMMA PassStepKeeps ==
    ASSUME CacheInv, NEW p \in Procs, PassStep(p)
    PROVE  CacheInv'
  BY WriteMarkerStep, ScanLocalStep, ServeStep, HashLocalStep, HashRemoteStep, StoreTempStep,
     StoreRenameStep, store_rollupStep DEF PassStep

(* Every step, of a pass or of the world, keeps it.                        *)
LEMMA CacheNextInv ==
    CacheInv /\ [CacheNext]_cacheVars => CacheInv'
  <1> SUFFICES ASSUME CacheInv, [CacheNext]_cacheVars
               PROVE  CacheInv'
    OBVIOUS
  <1>1. clock \in Nat /\ version \in Nat
    BY DEF CacheInv, CacheTypeOK
  <1>2. ASSUME NEW p \in Procs, PassStep(p) \/ Kill(p)
        PROVE  CacheInv'
    BY <1>2, PassStepKeeps, KillStep
  <1>3. ASSUME NEW p \in Procs, NEW k \in PassKinds, OpenPass(p, k.refresh, k.scoped)
        PROVE  CacheInv'
    <2>1. k.refresh \in BOOLEAN /\ k.scoped \in BOOLEAN
      BY DEF PassKinds
    <2> QED
      BY <1>3, <2>1, OpenPassStep
  <1>4. CASE Tick
    <2>1. UNCHANGED <<disk, nas, cacheFile, temps, passes, version>> /\ clock' = clock + 1
      BY <1>4 DEF Tick, worldVars, dirVars
    <2>2. clock' \in Nat /\ clock <= clock' /\ version' \in Nat
      BY <1>1, <2>1
    <2> QED
      BY <2>1, <2>2, TimePasses
  <1>5. CASE Upgrade
    <2>1. UNCHANGED <<disk, nas, cacheFile, temps, passes, clock>> /\ version' = 2
      BY <1>5 DEF Upgrade, dirVars
    <2>2. clock' \in Nat /\ clock <= clock' /\ version' \in Nat
      BY <1>1, <2>1
    <2> QED
      BY <2>1, <2>2, TimePasses
  <1>6. ASSUME NEW ask \in RollupAsks, run_status_rollup(ask)
        PROVE  CacheInv'
    <2>1. UNCHANGED <<disk, nas, cacheFile, temps, passes, clock, version>>
      BY <1>6 DEF run_status_rollup, worldVars, dirVars
    <2>2. clock' \in Nat /\ clock <= clock' /\ version' \in Nat
      BY <1>1, <2>1
    <2> QED
      BY <2>1, <2>2, TimePasses
  <1>7. ASSUME NEW f \in Edited,
               \/ DeleteLocal(f)
               \/ \E b \in Bodies :
                     \/ ReplaceLocal(f, b)
                     \/ \E m \in 0..clock : EditLocal(f, b, m) \/ EditRemote(f, b, m)
        PROVE  CacheInv'
    BY <1>7, DeleteLocalStep, EditLocalStep, ReplaceLocalStep, EditRemoteStep
  <1>8. ASSUME NEW form \in {"cut", "empty", "garbled"}, PowerLoss(form)
        PROVE  CacheInv'
    BY <1>8, PowerLossStep
  <1>9. CASE UNCHANGED cacheVars
    <2>1. UNCHANGED <<disk, nas, cacheFile, temps, passes, clock, version>>
      BY <1>9 DEF cacheVars, worldVars, dirVars
    <2>2. clock' \in Nat /\ clock <= clock' /\ version' \in Nat
      BY <1>1, <2>1
    <2> QED
      BY <2>1, <2>2, TimePasses
  <1> QED
    BY <1>2, <1>3, <1>4, <1>5, <1>6, <1>7, <1>8, <1>9 DEF CacheNext

(* A pass that stands has served the truth.                                *)
LEMMA CacheInvTrue ==
    CacheInv => CacheTrue
  BY DEF CacheInv, PassesStand, ServedStands, CacheTrue, ServedTrue, AgeBounded

(* In every behaviour of the cache whatever is stored or scanned, and can  *)
(* be believed at all, is true of the file until it changes, no two such   *)
(* sightings disagree, and a pass holds only digests that still stand:     *)
(* other programs may set any file's time back, and only what they         *)
(* disguised so is left out.                                               *)
THEOREM CacheInvariant ==
    CacheInit /\ [][CacheNext]_cacheVars => []CacheInv
  BY CacheInitInv, CacheNextInv, PTL

(* A digest served without reading a file is the digest of the file as     *)
(* that pass scanned and listed it, and was really taken within the        *)
(* maximum age, whatever other passes, edits, upgrades, kills and power    *)
(* losses came before; but for a local file given other bytes under the    *)
(* time and identity it shows, for a remote rewrite within its own second  *)
(* or with its time set back, and, as to age, for evidence another pass    *)
(* removed or replaced before it was stored.                               *)
THEOREM StatusCacheTrue ==
    CacheInit /\ [][CacheNext]_cacheVars => []CacheTrue
  BY CacheInvariant, CacheInvTrue, PTL

(***************************************************************************)
(* The progress record.                                                    *)
(***************************************************************************)
PhaseIds == {"scan_local", "connect", "authenticate", "list_remote", "compare", "build_report",
             "store_results", "build_plan", "upload", "reconcile", "resolve_secrets", "contact",
             "logout"}

Writing == {"open", "write", "rename"}

Published == [request : {"r1"}, job : {"j1"}, section : PhaseIds, at : Nat, count : Nat,
              whole : BOOLEAN]

(* A file is missing or holds a document.                                  *)
Slot(x) == x = NoRecord \/ (x = <<x[1]>> /\ x[1] \in Published)

FilesOK(f) == f = [tmp |-> f.tmp, final |-> f.final] /\ Slot(f.tmp) /\ Slot(f.final)

RecordTypeOK ==
    /\ job \in [op : ProgressJobs, at : {"queued", "running", "ended", "answered"}, next : Nat]
    /\ recorder \in [on : BOOLEAN, phase : 0..8, count : Nat, lock : BOOLEAN,
                     last : {recorder.last}, pc : Writing \cup {"idle"}]
    /\ FilesOK(files)
    /\ tk \in [Tickers -> [pc : Writing \cup {"idle", "lock"}, total : Nat]]
    /\ moment \in Nat
    /\ items \in [1..8 -> Nat]

(* The documents that are whole, name a phase the job has entered, and counts *)
(* no more than that phase really counted.                                 *)
Truthful ==
    {d \in Published :
        /\ d.whole
        /\ \E n \in 1..8 : /\ n < job.next /\ n \in DOMAIN Phases
                           /\ d.section = Phases[n] /\ d.count <= items[n]}

(* Only a running recorder is written through; a phase's write finds no    *)
(* worker in the middle of its own, and the lock keeps the workers' apart. *)
OneWriter ==
    /\ recorder.on => job.op \in DOMAIN operation_phases
    /\ recorder.pc # "idle" => \A w \in Tickers : tk[w].pc = "idle"
    /\ \A w \in Tickers : tk[w].pc \in Writing => recorder.lock
    /\ \A w, v \in Tickers : tk[w].pc \in Writing /\ tk[v].pc \in Writing => w = v

(* What is counted, and what a worker carries to the write, was counted in *)
(* the phase the recorder is in.                                           *)
CountsStand ==
    LET step == recorder.phase IN
    /\ step < job.next
    /\ step > 0 => step \in DOMAIN Phases
    /\ recorder.pc # "idle" => step > 0
    /\ step > 0 => recorder.count <= items[step]
    /\ \A w \in Tickers : tk[w].pc # "idle" => step > 0 /\ tk[w].total <= items[step]

(* What is about to be renamed, and what a poll may read, is sound.        *)
FilesSound ==
    /\ recorder.pc = "rename" \/ (\E w \in Tickers : tk[w].pc = "rename") =>
        files.tmp # NoRecord /\ files.tmp[1] \in Truthful
    /\ files.final # NoRecord => files.final[1] \in Truthful

RecordInv == RecordTypeOK /\ OneWriter /\ CountsStand /\ FilesSound

(* The catalogues name each phase once, and none is longer than eight.     *)
Catalogue(specs) ==
    /\ Len(specs) \in 0..8
    /\ DOMAIN specs = 1..Len(specs)
    /\ \A m, n \in DOMAIN specs : specs[m] = specs[n] => m = n
    /\ \A n \in DOMAIN specs : specs[n] \in PhaseIds

(* The catalogues list the phases of each operation once, and no more of   *)
(* them than a record can name (lib.rs:156).                               *)
LEMMA Catalogues ==
    ASSUME NEW op \in DOMAIN operation_phases
    PROVE  op # "doctor" /\ Catalogue(operation_phases[op])
  <1>1. op \in {"sync-status", "plan", "run", "resync", "connection"}
    BY DEF operation_phases
  <1>2. CASE op = "sync-status"
    <2> DEFINE specs == <<"scan_local", "connect", "authenticate", "list_remote", "compare",
                "build_report", "store_results">>
    <2>1. operation_phases[op] = specs
      BY <1>2 DEF operation_phases
    <2>2. Len(specs) = 7 /\ DOMAIN specs = 1..7
      OBVIOUS
    <2>3. \A m, n \in 1..7 : specs[m] = specs[n] => m = n
      OBVIOUS
    <2>4. \A n \in 1..7 : specs[n] \in PhaseIds
      BY DEF PhaseIds
    <2> HIDE DEF specs
    <2> QED
      BY <1>1, <1>2, <2>1, <2>2, <2>3, <2>4 DEF Catalogue
  <1>3. CASE op = "plan"
    <2> DEFINE specs == <<"scan_local", "connect", "authenticate", "list_remote", "compare",
                "build_plan">>
    <2>1. operation_phases[op] = specs
      BY <1>3 DEF operation_phases
    <2>2. Len(specs) = 6 /\ DOMAIN specs = 1..6
      OBVIOUS
    <2>3. \A m, n \in 1..6 : specs[m] = specs[n] => m = n
      OBVIOUS
    <2>4. \A n \in 1..6 : specs[n] \in PhaseIds
      BY DEF PhaseIds
    <2> HIDE DEF specs
    <2> QED
      BY <1>1, <1>3, <2>1, <2>2, <2>3, <2>4 DEF Catalogue
  <1>4. CASE op = "connection"
    <2> DEFINE specs == <<"resolve_secrets", "authenticate", "contact", "logout">>
    <2>1. operation_phases[op] = specs
      BY <1>4 DEF operation_phases
    <2>2. Len(specs) = 4 /\ DOMAIN specs = 1..4
      OBVIOUS
    <2>3. \A m, n \in 1..4 : specs[m] = specs[n] => m = n
      OBVIOUS
    <2>4. \A n \in 1..4 : specs[n] \in PhaseIds
      BY DEF PhaseIds
    <2> HIDE DEF specs
    <2> QED
      BY <1>1, <1>4, <2>1, <2>2, <2>3, <2>4 DEF Catalogue
  <1>5. CASE op \in {"run", "resync"}
    <2> DEFINE specs == <<"scan_local", "connect", "authenticate", "list_remote", "compare",
                "build_plan", "upload", "reconcile">>
    <2>1. operation_phases[op] = specs
      BY <1>5 DEF operation_phases
    <2>2. Len(specs) = 8 /\ DOMAIN specs = 1..8
      OBVIOUS
    <2>3. \A m, n \in 1..8 : specs[m] = specs[n] => m = n
      OBVIOUS
    <2>4. \A n \in 1..8 : specs[n] \in PhaseIds
      BY DEF PhaseIds
    <2> HIDE DEF specs
    <2> QED
      BY <1>1, <1>5, <2>1, <2>2, <2>3, <2>4 DEF Catalogue
  <1> QED
    BY <1>1, <1>2, <1>3, <1>4, <1>5

(* Whatever the job is, its phases are listed once.                        *)
LEMMA PhasesListed == Catalogue(Phases)
  <1>1. CASE job.op \in DOMAIN operation_phases
    BY <1>1, Catalogues DEF Phases
  <1>2. CASE job.op \notin DOMAIN operation_phases
    BY <1>2 DEF Phases, Catalogue
  <1> QED
    BY <1>1, <1>2

(* What the types say of the parts.                                        *)
LEMMA RecordParts ==
    ASSUME RecordTypeOK
    PROVE  /\ job.next \in Nat /\ moment \in Nat
           /\ recorder.phase \in 0..8 /\ recorder.phase \in Nat /\ recorder.count \in Nat
           /\ \A n \in 1..8 : items[n] \in Nat
           /\ \A w \in Tickers : tk[w].total \in Nat
  BY DEF RecordTypeOK

(* A truthful document stays so while the job goes on.                     *)
LEMMA TruthfulStay ==
    ASSUME RecordTypeOK, job'.op = job.op, job'.next \in Nat, job.next <= job'.next,
           items' \in [1..8 -> Nat], \A n \in 1..8 : items[n] <= items'[n]
    PROVE  Truthful \subseteq Truthful'
  <1> SUFFICES ASSUME NEW d \in Truthful PROVE d \in Truthful'
    OBVIOUS
  <1>1. Phases' = Phases
    BY DEF Phases
  <1>2. PICK n \in 1..8 :
            n < job.next /\ n \in DOMAIN Phases /\ d.section = Phases[n] /\ d.count <= items[n]
    BY DEF Truthful
  <1>3. d \in Published /\ d.whole
    BY DEF Truthful
  <1>4. d.count <= items'[n]
    <2>1. items[n] \in Nat /\ items'[n] \in Nat /\ items[n] <= items'[n] /\ d.count \in Nat
      BY <1>3, RecordParts DEF Published
    <2> QED
      BY <1>2, <2>1
  <1>5. n < job'.next
    <2>1. n \in Nat /\ job.next \in Nat
      BY RecordParts
    <2> QED
      BY <1>2, <2>1
  <1> QED
    BY <1>1, <1>2, <1>3, <1>4, <1>5 DEF Truthful

(* One step of a write: the document reaches the staging file whole before *)
(* it is renamed, and only the rename replaces the published record.       *)
LEMMA PublishStep ==
    ASSUME NEW at \in Writing, NEW f, FilesOK(f),
           NEW doc \in Published, NEW p \in Publish(at, f, doc),
           at = "rename" => f.tmp # NoRecord
    PROVE  /\ FilesOK(p[2])
           /\ p[1] \in {"write", "rename", "done"}
           /\ p[1] = "rename" => p[2].tmp = <<doc>> /\ p[2].tmp # NoRecord
           /\ p[2].final = f.final \/ (at = "rename" /\ p[2].final = f.tmp)
  <1>1. [doc EXCEPT !.whole = FALSE] \in Published
    BY DEF Published
  <1>2. f = [tmp |-> f.tmp, final |-> f.final] /\ Slot(f.tmp) /\ Slot(f.final)
    BY DEF FilesOK
  <1>3. /\ \A d \in Published : <<d>> # NoRecord /\ <<d>>[1] = d /\ Slot(<<d>>)
        /\ Slot(NoRecord)
    BY DEF NoRecord, Slot
  <1>4. CASE p = <<"done", f>>
    BY <1>4
  <1>5. CASE at = "open" /\ p # <<"done", f>>
    <2> DEFINE torn == <<[doc EXCEPT !.whole = FALSE]>>
    <2>1. p = <<"write", [f EXCEPT !.tmp = torn]>>
      BY <1>5 DEF Publish
    <2>2. Slot(torn)
      BY <1>1, <1>3
    <2> HIDE DEF torn
    <2>3. [f EXCEPT !.tmp = torn] = [tmp |-> torn, final |-> f.final]
      BY <1>2
    <2> QED
      BY <1>2, <2>1, <2>2, <2>3 DEF FilesOK
  <1>6. CASE at = "write" /\ p # <<"done", f>>
    <2> DEFINE whole == <<doc>>
    <2>1. p = <<"rename", [f EXCEPT !.tmp = whole]>>
      BY <1>6 DEF Publish
    <2>2. Slot(whole) /\ whole # NoRecord
      BY <1>3
    <2> HIDE DEF whole
    <2>3. [f EXCEPT !.tmp = whole] = [tmp |-> whole, final |-> f.final]
      BY <1>2
    <2>4. /\ FilesOK(p[2]) /\ p[1] = "rename" /\ p[2].final = f.final
          /\ p[2].tmp = whole /\ p[2].tmp # NoRecord
      BY <1>2, <2>1, <2>2, <2>3 DEF FilesOK
    <2> QED
      BY <2>4 DEF whole
  <1>7. CASE at = "rename" /\ p # <<"done", f>>
    <2>1. p = <<"done", [tmp |-> NoRecord, final |-> f.tmp]>>
      BY <1>7 DEF Publish
    <2> QED
      BY <1>2, <1>3, <1>7, <2>1 DEF FilesOK
  <1> QED
    BY <1>4, <1>5, <1>6, <1>7 DEF Writing

(* The document of a phase the job has entered is truthful.                *)
LEMMA DocumentTruthful ==
    ASSUME RecordTypeOK, CountsStand, recorder.phase > 0, NEW count \in Nat,
           count <= items[recorder.phase]
    PROVE  Document(recorder.phase, count) \in Truthful
  <1> DEFINE doc == Document(recorder.phase, count)
  <1>1. recorder.phase \in DOMAIN Phases /\ recorder.phase \in 1..8 /\ recorder.phase < job.next
    BY RecordParts DEF CountsStand
  <1>2. Phases[recorder.phase] \in PhaseIds
    BY <1>1, PhasesListed DEF Catalogue
  <1>3. doc \in Published
    BY <1>2 DEF Document, Ids, Published, RecordTypeOK
  <1>4. doc.whole /\ doc.section = Phases[recorder.phase] /\ doc.count = count
    BY DEF Document
  <1> HIDE DEF doc
  <1> QED
    BY <1>1, <1>3, <1>4 DEF Truthful, doc

(* The files are left alone, and nobody comes to the rename.               *)
LEMMA FilesStay ==
    ASSUME FilesSound, files' = files, Truthful \subseteq Truthful',
           recorder'.pc = "rename" => recorder.pc = "rename",
           \A w \in Tickers : tk'[w].pc = "rename" => tk[w].pc = "rename"
    PROVE  FilesSound'
  BY DEF FilesSound

(* The invariant of the record holds at the start,                         *)
LEMMA RecordInitInv == RecordInit => RecordInv
  <1> SUFFICES ASSUME RecordInit PROVE RecordInv
    OBVIOUS
  <1>1. FilesOK(files)
    BY DEF RecordInit, FilesOK, Slot
  <1>2. RecordTypeOK
    BY <1>1 DEF RecordInit, RecordTypeOK, NoTick
  <1>3. OneWriter /\ FilesSound
    BY DEF RecordInit, OneWriter, FilesSound, NoTick, Writing
  <1>4. CountsStand
    BY PhasesListed DEF RecordInit, CountsStand, NoTick, Catalogue
  <1> QED
    BY <1>2, <1>3, <1>4 DEF RecordInv

(* when the consumer starts the job (attach_progress_record),              *)
LEMMA StartJobStep == RecordInv /\ StartJob => RecordInv'
  <1> SUFFICES ASSUME RecordInv, StartJob PROVE RecordInv'
    OBVIOUS
  <1>1. RecordTypeOK'
    BY DEF RecordInv, StartJob, RecordTypeOK
  <1>2. OneWriter' /\ CountsStand'
    BY DEF RecordInv, StartJob, RecordTypeOK, OneWriter, CountsStand, Phases
  <1>3. Truthful \subseteq Truthful'
    BY DEF RecordInv, StartJob, RecordTypeOK, Truthful, Phases
  <1>4. FilesSound'
    <2>1. recorder'.pc = recorder.pc /\ UNCHANGED <<files, tk>>
      BY DEF RecordInv, StartJob, RecordTypeOK
    <2> QED
      BY <1>3, <2>1, FilesStay DEF RecordInv
  <1> QED
    BY <1>1, <1>2, <1>4 DEF RecordInv

(* when a phase is entered, which drops the count of the one before        *)
(* (ProgressRecorder::phase),                                              *)
LEMMA EnterPhaseStep == RecordInv /\ EnterPhase => RecordInv'
  <1> SUFFICES ASSUME RecordInv, EnterPhase PROVE RecordInv'
    OBVIOUS
  <1>1. PICK step :
            /\ step \in job.next..Len(Phases)
            /\ job' = [job EXCEPT !.next = step + 1]
            /\ recorder' = [recorder EXCEPT !.phase = step, !.count = PhaseCount(recorder),
                                           !.pc = "open"]
    BY DEF EnterPhase
  <1>2. /\ UNCHANGED <<files, tk, moment, items>> /\ recorder.on /\ recorder.pc = "idle"
        /\ \A w \in Tickers : tk[w].pc = "idle"
    BY DEF EnterPhase
  <1>3. RecordTypeOK /\ OneWriter /\ CountsStand /\ FilesSound
    BY DEF RecordInv
  <1>4. step \in 1..8 /\ job.next <= step /\ step \in DOMAIN Phases
    <2> DEFINE length == Len(Phases)
    <2>1. length \in 0..8 /\ DOMAIN Phases = 1..length
      BY PhasesListed DEF Catalogue
    <2>2. step \in job.next..length
      BY <1>1
    <2> HIDE DEF length
    <2>3. job.next \in Nat /\ recorder.phase \in Nat /\ recorder.phase < job.next
      BY <1>3, RecordParts DEF CountsStand
    <2> QED
      BY <2>1, <2>2, <2>3
  <1>5. /\ job' = [job EXCEPT !.next = step + 1]
        /\ recorder' = [recorder EXCEPT !.phase = step, !.count = 0, !.pc = "open"]
    BY <1>1 DEF PhaseCount
  <1> HIDE <1>1
  <1>6. /\ job' \in [op : ProgressJobs, at : {"queued", "running", "ended", "answered"}, next : Nat]
        /\ job'.op = job.op /\ job'.next = step + 1
    <2>1. step + 1 \in Nat
      BY <1>4
    <2> QED
      BY <1>3, <1>5, <2>1 DEF RecordTypeOK
  <1>7. /\ recorder' \in [on : BOOLEAN, phase : 0..8, count : Nat, lock : BOOLEAN,
                          last : {recorder'.last}, pc : Writing \cup {"idle"}]
        /\ recorder'.on = recorder.on /\ recorder'.phase = step /\ recorder'.count = 0
        /\ recorder'.pc = "open" /\ recorder'.lock = recorder.lock
    <2>1. step \in 0..8
      BY <1>4
    <2> QED
      BY <1>3, <1>5, <2>1 DEF RecordTypeOK, Writing
  <1>8. RecordTypeOK'
    BY <1>2, <1>3, <1>6, <1>7 DEF RecordTypeOK, FilesOK, Slot
  <1>9. OneWriter'
    BY <1>2, <1>3, <1>6, <1>7 DEF OneWriter, Writing
  <1>10. CountsStand'
    <2>1. Phases' = Phases
      BY <1>6 DEF Phases
    <2>2. step < job'.next /\ step > 0
      BY <1>4, <1>6
    <2>3. recorder'.count <= items'[step]
      BY <1>2, <1>3, <1>4, <1>7, RecordParts
    <2> QED
      BY <1>2, <1>4, <1>7, <2>1, <2>2, <2>3 DEF CountsStand
  <1>11. Truthful \subseteq Truthful'
    <2>1. items' \in [1..8 -> Nat] /\ (\A n \in 1..8 : items[n] <= items'[n])
      BY <1>2, <1>3 DEF RecordTypeOK
    <2>2. job'.next \in Nat /\ job.next <= job'.next
      <3>1. job.next \in Nat
        BY <1>3, RecordParts
      <3> QED
        BY <1>4, <1>6, <3>1
    <2> QED
      BY <1>3, <1>6, <2>1, <2>2, TruthfulStay
  <1>12. FilesSound'
    BY <1>2, <1>3, <1>7, <1>11, FilesStay
  <1> QED
    BY <1>8, <1>9, <1>10, <1>12 DEF RecordInv

(* at each step of that phase's own write,                                 *)
LEMMA PhaseWriteStep == RecordInv /\ PhaseWrite => RecordInv'
  <1> SUFFICES ASSUME RecordInv, PhaseWrite PROVE RecordInv'
    OBVIOUS
  <1> DEFINE doc == Document(recorder.phase, 0)
  <1>1. /\ recorder.pc \in Writing /\ UNCHANGED <<job, tk, moment, items>>
        /\ \A w \in Tickers : tk[w].pc = "idle"
    BY DEF PhaseWrite, RecordInv, OneWriter, Writing
  <1>2. doc \in Truthful /\ doc \in Published
    <2>1. recorder.phase > 0 /\ recorder.phase \in 1..8
      <3>1. recorder.pc # "idle"
        BY <1>1 DEF Writing
      <3> QED
        BY <3>1, RecordParts DEF RecordInv, CountsStand
    <2>2. 0 <= items[recorder.phase]
      BY <2>1, RecordParts DEF RecordInv
    <2> QED
      BY <2>1, <2>2, DocumentTruthful DEF RecordInv, Truthful
  <1> HIDE DEF doc
  <1>3. PICK p \in Publish(recorder.pc, files, doc) :
            /\ files' = p[2]
            /\ recorder' = [recorder EXCEPT !.pc = IF p[1] = "done" THEN "idle" ELSE p[1],
                                           !.last = IF p[1] = "done" THEN <<moment>> ELSE @]
    BY DEF PhaseWrite, doc
  <1>4. recorder.pc = "rename" => files.tmp # NoRecord /\ files.tmp[1] \in Truthful
    BY DEF RecordInv, FilesSound
  <1>5. /\ FilesOK(files)'
        /\ p[1] \in {"write", "rename", "done"}
        /\ p[1] = "rename" => files'.tmp = <<doc>> /\ files'.tmp # NoRecord
        /\ files'.final = files.final \/ (recorder.pc = "rename" /\ files'.final = files.tmp)
    BY <1>1, <1>2, <1>3, <1>4, PublishStep DEF RecordInv, RecordTypeOK
  <1>7. /\ recorder' \in [on : BOOLEAN, phase : 0..8, count : Nat, lock : BOOLEAN,
                          last : {recorder'.last}, pc : Writing \cup {"idle"}]
        /\ recorder'.on = recorder.on /\ recorder'.phase = recorder.phase
        /\ recorder'.count = recorder.count /\ recorder'.lock = recorder.lock
        /\ recorder'.pc = "rename" => p[1] = "rename"
    BY <1>3, <1>5 DEF RecordInv, RecordTypeOK, Writing
  <1>8. RecordTypeOK'
    BY <1>1, <1>5, <1>7 DEF RecordInv, RecordTypeOK
  <1>9. OneWriter'
    BY <1>1, <1>7 DEF RecordInv, OneWriter, Writing
  <1>10. CountsStand'
    BY <1>1, <1>7 DEF RecordInv, CountsStand, Phases, Writing
  <1>11. Truthful \subseteq Truthful'
    BY <1>1 DEF Truthful, Phases
  <1>12. FilesSound'
    <2>1. recorder'.pc = "rename" => files'.tmp # NoRecord /\ files'.tmp[1] \in Truthful'
      <3>1. <<doc>>[1] = doc
        OBVIOUS
      <3> QED
        BY <1>2, <1>5, <1>7, <1>11, <3>1
    <2>2. files'.final # NoRecord => files'.final[1] \in Truthful'
      BY <1>4, <1>5, <1>11 DEF RecordInv, FilesSound
    <2> QED
      BY <1>1, <2>1, <2>2 DEF FilesSound
  <1> QED
    BY <1>8, <1>9, <1>10, <1>12 DEF RecordInv

(* when a worker counts (tick and add),                                    *)
LEMMA CountStep ==
    ASSUME RecordInv, NEW w \in Tickers, NEW amount \in 1..2, Count(w, amount)
    PROVE  RecordInv'
  <1> DEFINE total == recorder.count + amount
             step == recorder.phase
  <1>1. /\ recorder.on /\ step > 0 /\ recorder.pc = "idle" /\ tk[w].pc = "idle"
        /\ recorder' = [recorder EXCEPT !.count = total]
        /\ items' = [items EXCEPT ![step] = @ + amount]
        /\ tk' = [tk EXCEPT ![w] = IF total % Trigger >= amount THEN NoTick
                                   ELSE [pc |-> "lock", total |-> total]]
        /\ UNCHANGED <<job, files, moment>>
    BY DEF Count
  <1>2. RecordTypeOK /\ OneWriter /\ CountsStand /\ FilesSound
    BY DEF RecordInv
  <1>3. /\ step \in 1..8 /\ items[step] \in Nat /\ recorder.count \in Nat /\ total \in Nat
        /\ recorder.count <= items[step]
    BY <1>1, <1>2, RecordParts DEF CountsStand
  <1>4. /\ items' \in [1..8 -> Nat] /\ items'[step] = items[step] + amount
        /\ total <= items'[step] /\ (\A n \in 1..8 : items[n] <= items'[n])
    BY <1>1, <1>2, <1>3 DEF RecordTypeOK
  <1> HIDE DEF total, step
  <1>5. /\ recorder' \in [on : BOOLEAN, phase : 0..8, count : Nat, lock : BOOLEAN,
                          last : {recorder'.last}, pc : Writing \cup {"idle"}]
        /\ recorder'.on = recorder.on /\ recorder'.phase = recorder.phase
        /\ recorder'.count = total /\ recorder'.pc = "idle" /\ recorder'.lock = recorder.lock
    BY <1>1, <1>2, <1>3 DEF RecordTypeOK, Writing
  <1>6. /\ tk' \in [Tickers -> [pc : Writing \cup {"idle", "lock"}, total : Nat]]
        /\ tk'[w].pc \in {"idle", "lock"} /\ tk'[w].total \in {0, total}
        /\ \A v \in Tickers \ {w} : tk'[v] = tk[v]
    BY <1>1, <1>2, <1>3 DEF RecordTypeOK, NoTick
  <1>7. RecordTypeOK'
    BY <1>1, <1>2, <1>4, <1>5, <1>6 DEF RecordTypeOK, FilesOK, Slot
  <1>8. OneWriter'
    BY <1>1, <1>2, <1>5, <1>6 DEF OneWriter, Writing
  <1>9. CountsStand'
    <2>1. Phases' = Phases /\ recorder'.phase = step /\ step > 0
      BY <1>1, <1>5 DEF Phases, step
    <2>2. step < job'.next /\ step \in DOMAIN Phases
      BY <1>1, <1>2 DEF CountsStand, step
    <2>3. ASSUME NEW v \in Tickers, tk'[v].pc # "idle" PROVE tk'[v].total <= items'[step]
      <3>1. CASE v = w
        BY <1>3, <1>4, <1>6, <3>1
      <3>2. CASE v # w
        <4>1. tk'[v] = tk[v] /\ tk[v].total <= items[step] /\ tk[v].total \in Nat
          BY <1>2, <1>6, <2>3, <3>2, RecordParts DEF CountsStand, step
        <4> QED
          BY <1>3, <1>4, <4>1
      <3> QED
        BY <3>1, <3>2
    <2> QED
      BY <1>4, <1>5, <2>1, <2>2, <2>3 DEF CountsStand
  <1>10. Truthful \subseteq Truthful'
    <2>1. job'.op = job.op /\ job'.next \in Nat /\ job.next <= job'.next
      BY <1>1, <1>2, RecordParts
    <2> QED
      BY <1>2, <1>4, <2>1, TruthfulStay
  <1>11. FilesSound'
    <2>1. \A v \in Tickers : tk'[v].pc = "rename" => tk[v].pc = "rename"
      BY <1>6
    <2> QED
      BY <1>1, <1>2, <1>5, <1>10, <2>1, FilesStay
  <1> QED
    BY <1>7, <1>8, <1>9, <1>11 DEF RecordInv

(* Nothing that a document is judged by changes.                           *)
LEMMA SameTruth ==
    ASSUME job'.op = job.op, job'.next = job.next, items' = items
    PROVE  Truthful \subseteq Truthful' /\ Phases' = Phases
  BY DEF Truthful, Phases

(* when it finds the throttle open, or gives the write up,                 *)
LEMMA TickLockStep ==
    ASSUME RecordInv, NEW w \in Tickers, TickLock(w)
    PROVE  RecordInv'
  <1>1. tk[w].pc = "lock" /\ ~recorder.lock /\ UNCHANGED <<job, files, moment, items>>
    BY DEF TickLock
  <1>2. RecordTypeOK /\ OneWriter /\ CountsStand /\ FilesSound
    BY DEF RecordInv
  <1>3. Truthful \subseteq Truthful' /\ Phases' = Phases
    BY <1>1, SameTruth
  <1>4. CASE tk' = [tk EXCEPT ![w] = NoTick] /\ UNCHANGED recorder
    <2>1. /\ tk' \in [Tickers -> [pc : Writing \cup {"idle", "lock"}, total : Nat]]
          /\ tk'[w].pc = "idle" /\ \A v \in Tickers \ {w} : tk'[v] = tk[v]
      BY <1>2, <1>4 DEF RecordTypeOK, NoTick
    <2>2. RecordTypeOK'
      BY <1>1, <1>2, <1>4, <2>1 DEF RecordTypeOK, FilesOK, Slot
    <2>3. OneWriter'
      BY <1>1, <1>2, <1>4, <2>1 DEF OneWriter, Writing
    <2>4. CountsStand'
      BY <1>1, <1>2, <1>3, <1>4, <2>1 DEF CountsStand
    <2>5. FilesSound'
      <3>1. \A v \in Tickers : tk'[v].pc = "rename" => tk[v].pc = "rename"
        BY <2>1
      <3> QED
        BY <1>1, <1>2, <1>3, <1>4, <3>1, FilesStay
    <2> QED
      BY <2>2, <2>3, <2>4, <2>5 DEF RecordInv
  <1>5. CASE tk' = [tk EXCEPT ![w].pc = "open"] /\ recorder' = [recorder EXCEPT !.lock = TRUE]
    <2>1. /\ tk' \in [Tickers -> [pc : Writing \cup {"idle", "lock"}, total : Nat]]
          /\ tk'[w].pc = "open" /\ tk'[w].total = tk[w].total
          /\ \A v \in Tickers \ {w} : tk'[v] = tk[v]
      BY <1>2, <1>5 DEF RecordTypeOK, Writing
    <2>2. /\ recorder' \in [on : BOOLEAN, phase : 0..8, count : Nat, lock : BOOLEAN,
                            last : {recorder'.last}, pc : Writing \cup {"idle"}]
          /\ recorder'.on = recorder.on /\ recorder'.phase = recorder.phase
          /\ recorder'.count = recorder.count /\ recorder'.pc = recorder.pc /\ recorder'.lock
      BY <1>2, <1>5 DEF RecordTypeOK
    <2>3. RecordTypeOK'
      BY <1>1, <1>2, <2>1, <2>2 DEF RecordTypeOK, FilesOK, Slot
    <2>4. \A v \in Tickers : tk[v].pc \notin Writing
      BY <1>1, <1>2 DEF OneWriter
    <2>5. OneWriter'
      BY <1>1, <1>2, <2>1, <2>2, <2>4 DEF OneWriter
    <2>6. CountsStand'
      BY <1>1, <1>2, <1>3, <2>1, <2>2 DEF CountsStand
    <2>7. FilesSound'
      <3>1. \A v \in Tickers : tk'[v].pc = "rename" => tk[v].pc = "rename"
        BY <2>1
      <3> QED
        BY <1>1, <1>2, <1>3, <2>2, <3>1, FilesStay
    <2> QED
      BY <2>3, <2>5, <2>6, <2>7 DEF RecordInv
  <1> QED
    BY <1>4, <1>5 DEF TickLock

(* at each step of its write, under the lock,                              *)
LEMMA TickWriteStep ==
    ASSUME RecordInv, NEW w \in Tickers, TickWrite(w)
    PROVE  RecordInv'
  <1> DEFINE doc == Document(recorder.phase, tk[w].total)
  <1>1. /\ tk[w].pc \in Writing /\ UNCHANGED <<job, moment, items>>
    BY DEF TickWrite, Writing
  <1>2. RecordTypeOK /\ OneWriter /\ CountsStand /\ FilesSound
    BY DEF RecordInv
  <1>3. /\ recorder.pc = "idle"
        /\ \A v \in Tickers \ {w} : tk[v].pc \notin Writing
    BY <1>1, <1>2 DEF OneWriter, Writing
  <1>4. doc \in Truthful /\ doc \in Published
    <2>1. tk[w].pc # "idle"
      BY <1>1 DEF Writing
    <2>2. recorder.phase > 0 /\ tk[w].total <= items[recorder.phase] /\ tk[w].total \in Nat
      BY <1>2, <2>1, RecordParts DEF CountsStand
    <2> QED
      BY <1>2, <2>2, DocumentTruthful DEF Truthful
  <1>5. tk[w].pc = "rename" => files.tmp # NoRecord /\ files.tmp[1] \in Truthful
    BY <1>2 DEF FilesSound
  <1> HIDE DEF doc
  <1>6. PICK p \in Publish(tk[w].pc, files, doc) :
            /\ files' = p[2]
            /\ IF p[1] = "done"
               THEN /\ tk' = [tk EXCEPT ![w] = NoTick]
                    /\ recorder' = [recorder EXCEPT !.lock = FALSE, !.last = <<moment>>]
               ELSE tk' = [tk EXCEPT ![w].pc = p[1]] /\ UNCHANGED recorder
    BY DEF TickWrite, doc
  <1>7. /\ FilesOK(files)'
        /\ p[1] \in {"write", "rename", "done"}
        /\ p[1] = "rename" => files'.tmp = <<doc>> /\ files'.tmp # NoRecord
        /\ files'.final = files.final \/ (tk[w].pc = "rename" /\ files'.final = files.tmp)
    BY <1>1, <1>2, <1>4, <1>5, <1>6, PublishStep DEF RecordTypeOK
  <1>8. Truthful \subseteq Truthful' /\ Phases' = Phases
    BY <1>1, SameTruth
  <1>9. /\ tk' \in [Tickers -> [pc : Writing \cup {"idle", "lock"}, total : Nat]]
        /\ \A v \in Tickers \ {w} : tk'[v] = tk[v]
        /\ tk'[w].pc # "idle" => tk'[w].total = tk[w].total /\ recorder' = recorder
        /\ tk'[w].pc \in Writing \cup {"idle"}
        /\ tk'[w].pc = "rename" => p[1] = "rename"
    <2>1. CASE p[1] = "done"
      BY <1>2, <1>6, <2>1 DEF RecordTypeOK, NoTick
    <2>2. CASE p[1] # "done"
      BY <1>2, <1>6, <1>7, <2>2 DEF RecordTypeOK, Writing
    <2> QED
      BY <2>1, <2>2
  <1>10. /\ recorder' \in [on : BOOLEAN, phase : 0..8, count : Nat, lock : BOOLEAN,
                           last : {recorder'.last}, pc : Writing \cup {"idle"}]
         /\ recorder'.on = recorder.on /\ recorder'.phase = recorder.phase
         /\ recorder'.count = recorder.count /\ recorder'.pc = recorder.pc
    <2>1. CASE p[1] = "done"
      BY <1>2, <1>6, <2>1 DEF RecordTypeOK
    <2>2. CASE p[1] # "done"
      BY <1>2, <1>6, <2>2 DEF RecordTypeOK
    <2> QED
      BY <2>1, <2>2
  <1>11. RecordTypeOK'
    BY <1>1, <1>2, <1>7, <1>9, <1>10 DEF RecordTypeOK
  <1>12. OneWriter'
    <2>1. tk'[w].pc \in Writing => recorder'.lock
      BY <1>1, <1>2, <1>9 DEF OneWriter, Writing
    <2>2. \A v \in Tickers \ {w} : tk'[v].pc \notin Writing
      BY <1>3, <1>9
    <2>3. recorder'.on => job'.op \in DOMAIN operation_phases
      BY <1>1, <1>2, <1>10 DEF OneWriter
    <2> QED
      BY <1>3, <1>10, <2>1, <2>2, <2>3 DEF OneWriter
  <1>13. CountsStand'
    <2>1. tk[w].pc # "idle"
      BY <1>1 DEF Writing
    <2> QED
      BY <1>1, <1>2, <1>8, <1>9, <1>10, <2>1 DEF CountsStand
  <1>14. FilesSound'
    <2>1. \A v \in Tickers \ {w} : tk'[v].pc # "rename"
      BY <1>3, <1>9 DEF Writing
    <2>2. tk'[w].pc = "rename" => files'.tmp # NoRecord /\ files'.tmp[1] \in Truthful'
      <3>1. <<doc>>[1] = doc
        OBVIOUS
      <3> QED
        BY <1>4, <1>7, <1>8, <1>9, <3>1
    <2>3. files'.final # NoRecord => files'.final[1] \in Truthful'
      BY <1>2, <1>5, <1>7, <1>8 DEF FilesSound
    <2> QED
      BY <1>3, <1>10, <2>1, <2>2, <2>3 DEF FilesSound
  <1> QED
    BY <1>11, <1>12, <1>13, <1>14 DEF RecordInv

(* when the core ends or is killed in the middle of a write,               *)
LEMMA CoreEndsStep ==
    ASSUME RecordInv, NEW killed \in BOOLEAN, CoreEnds(killed)
    PROVE  RecordInv'
  <1>1. /\ job' = [job EXCEPT !.at = "ended"] /\ UNCHANGED <<moment, items>>
        /\ files' = [files EXCEPT !.tmp = IF killed \/ ~recorder.on THEN @ ELSE NoRecord]
        /\ recorder' = [recorder EXCEPT !.on = FALSE, !.pc = "idle"]
        /\ tk' = [v \in Tickers |-> NoTick]
    BY DEF CoreEnds
  <1>2. RecordTypeOK /\ OneWriter /\ CountsStand /\ FilesSound
    BY DEF RecordInv
  <1>3. files.tmp = files'.tmp \/ files'.tmp = NoRecord
    BY <1>1, <1>2 DEF RecordTypeOK, FilesOK
  <1>4. FilesOK(files)' /\ files'.final = files.final
    BY <1>1, <1>2, <1>3 DEF RecordTypeOK, FilesOK, Slot
  <1>5. /\ job' \in [op : ProgressJobs, at : {"queued", "running", "ended", "answered"}, next : Nat]
        /\ job'.op = job.op /\ job'.next = job.next
    BY <1>1, <1>2 DEF RecordTypeOK
  <1>6. RecordTypeOK'
    BY <1>1, <1>2, <1>4, <1>5 DEF RecordTypeOK, NoTick
  <1>7. Truthful \subseteq Truthful' /\ Phases' = Phases
    BY <1>1, <1>5, SameTruth
  <1>8. recorder'.pc = "idle" /\ ~recorder'.on /\ \A v \in Tickers : tk'[v].pc = "idle"
    BY <1>1, <1>2 DEF RecordTypeOK, NoTick
  <1>9. OneWriter'
    BY <1>8 DEF OneWriter, Writing
  <1>10. CountsStand'
    <2>1. recorder'.phase = recorder.phase /\ recorder'.count = recorder.count
      BY <1>1, <1>2 DEF RecordTypeOK
    <2> QED
      BY <1>1, <1>2, <1>5, <1>7, <1>8, <2>1 DEF CountsStand
  <1>11. FilesSound'
    BY <1>2, <1>4, <1>7, <1>8 DEF FilesSound
  <1> QED
    BY <1>6, <1>9, <1>10, <1>11 DEF RecordInv

(* and when the consumer removes what is left (ProgressRecordGuard).       *)
LEMMA JobEndsStep == RecordInv /\ JobEnds => RecordInv'
  <1> SUFFICES ASSUME RecordInv, JobEnds PROVE RecordInv'
    OBVIOUS
  <1>1. PICK removed \in BOOLEAN :
            files' = [files EXCEPT !.final = IF removed THEN NoRecord ELSE @]
    BY DEF JobEnds
  <1>2. job' = [job EXCEPT !.at = "answered"] /\ UNCHANGED <<recorder, tk, moment, items>>
    BY DEF JobEnds
  <1>3. RecordTypeOK /\ OneWriter /\ CountsStand /\ FilesSound
    BY DEF RecordInv
  <1>4. files'.tmp = files.tmp /\ files'.final \in {files.final, NoRecord}
    BY <1>1, <1>3 DEF RecordTypeOK, FilesOK
  <1>5. FilesOK(files)'
    BY <1>1, <1>3, <1>4 DEF RecordTypeOK, FilesOK, Slot
  <1>6. /\ job' \in [op : ProgressJobs, at : {"queued", "running", "ended", "answered"}, next : Nat]
        /\ job'.op = job.op /\ job'.next = job.next
    BY <1>2, <1>3 DEF RecordTypeOK
  <1>7. Truthful \subseteq Truthful' /\ Phases' = Phases
    BY <1>2, <1>6, SameTruth
  <1>8. RecordTypeOK'
    BY <1>2, <1>3, <1>5, <1>6 DEF RecordTypeOK
  <1>9. OneWriter' /\ CountsStand'
    BY <1>2, <1>3, <1>6, <1>7 DEF OneWriter, CountsStand
  <1>10. FilesSound'
    BY <1>2, <1>3, <1>4, <1>7 DEF FilesSound
  <1> QED
    BY <1>8, <1>9, <1>10 DEF RecordInv

(* Only the clock moves, or nothing does.                                  *)
LEMMA RecordTimeStep ==
    ASSUME RecordInv, UNCHANGED <<job, recorder, files, tk, items>>, moment' \in Nat
    PROVE  RecordInv'
  <1>1. Truthful \subseteq Truthful' /\ Phases' = Phases
    BY SameTruth
  <1>2. RecordTypeOK'
    BY DEF RecordInv, RecordTypeOK, FilesOK, Slot
  <1>3. OneWriter' /\ CountsStand'
    BY <1>1 DEF RecordInv, OneWriter, CountsStand
  <1>4. FilesSound'
    BY <1>1, FilesStay DEF RecordInv
  <1> QED
    BY <1>2, <1>3, <1>4 DEF RecordInv

(* Every step of the record keeps its invariant.                           *)
LEMMA RecordNextInv == RecordInv /\ [RecordNext]_recordVars => RecordInv'
  <1> SUFFICES ASSUME RecordInv, [RecordNext]_recordVars PROVE RecordInv'
    OBVIOUS
  <1>1. moment \in Nat
    BY DEF RecordInv, RecordTypeOK
  <1>2. CASE RecordTime \/ UNCHANGED recordVars
    <2>1. UNCHANGED <<job, recorder, files, tk, items>> /\ moment' \in Nat
      BY <1>1, <1>2 DEF RecordTime, recordVars
    <2> QED
      BY <2>1, RecordTimeStep
  <1>3. ASSUME NEW w \in Tickers,
               TickLock(w) \/ TickWrite(w) \/ (\E n \in 1..2 : Count(w, n))
        PROVE  RecordInv'
    BY <1>3, CountStep, TickLockStep, TickWriteStep
  <1>4. ASSUME NEW k \in BOOLEAN, CoreEnds(k) PROVE RecordInv'
    BY <1>4, CoreEndsStep
  <1> QED
    BY <1>2, <1>3, <1>4, StartJobStep, EnterPhaseStep, PhaseWriteStep, JobEndsStep
    DEF RecordNext

(* A truthful record is read as what it says: the catalogue gives back the *)
(* step of the phase it names.                                             *)
LEMMA RecordInvTruthful == RecordInv => ProgressTruthful
  <1> SUFFICES ASSUME RecordInv, files.final # NoRecord
               PROVE  /\ files.final[1].whole
                      /\ PollTold # <<>> =>
                            /\ PollTold[1].step < job.next
                            /\ PollTold[1].count <= items[PollTold[1].step]
    <2>1. files.final = NoRecord => PollTold = <<>>
      BY DEF PollTold, validated_progress
    <2> QED
      BY <2>1 DEF ProgressTruthful
  <1> DEFINE d == files.final[1]
  <1>1. d \in Truthful
    BY DEF RecordInv, FilesSound
  <1>2. d.whole
    BY <1>1 DEF Truthful
  <1>3. PICK n \in 1..8 :
            n < job.next /\ n \in DOMAIN Phases /\ d.section = Phases[n] /\ d.count <= items[n]
    BY <1>1 DEF Truthful
  <1>4. job.op \in DOMAIN operation_phases /\ Phases = operation_phases[job.op]
    BY <1>3 DEF Phases
  <1>5. job.op # "doctor"
    BY <1>4, Catalogues
  <1> DEFINE steps_of == {m \in DOMAIN Phases : Phases[m] = d.section}
             told == operation_phase(job.op, d.section)
  <1>6. steps_of = {n}
    <2>1. \A m \in DOMAIN Phases : Phases[m] = Phases[n] => m = n
      BY <1>3, PhasesListed DEF Catalogue
    <2> QED
      BY <1>3, <2>1
  <1>7. Min({n}) = n
    BY DEF Min
  <1>8. told # <<>> /\ told[1].step = n
    <2>1. told = <<[step |-> n, total |-> Len(Phases), unit |-> PhaseUnit(d.section)]>>
      BY <1>4, <1>5, <1>6, <1>7 DEF operation_phase
    <2> DEFINE phase == [step |-> n, total |-> Len(Phases), unit |-> PhaseUnit(d.section)]
    <2>2. phase.step = n
      OBVIOUS
    <2> HIDE DEF phase, told
    <2>3. told = <<phase>>
      BY <2>1 DEF phase
    <2> QED
      BY <2>2, <2>3
  <1> HIDE DEF d, told
  <1>9. PollTold # <<>> => PollTold[1].step = n /\ PollTold[1].count = d.count
    <2> DEFINE view == [step |-> told[1].step, total |-> told[1].total, unit |-> told[1].unit,
                        at |-> d.at, count |-> d.count]
    <2>1. PollTold # <<>> => PollTold = <<view>>
      BY <1>8 DEF PollTold, validated_progress, d, told
    <2>2. view.step = n /\ view.count = d.count
      BY <1>8
    <2> HIDE DEF view
    <2> QED
      BY <2>1, <2>2
  <1> QED
    BY <1>2, <1>3, <1>9 DEF d

(***************************************************************************)
(* The progress tracker.                                                   *)
(***************************************************************************)
Opened == [kind : {"upload", "other"}, total : Nat, attempt : Nat, bytes : Nat]

TrackerTypeOK ==
    /\ tracker \in [next : Nat \ {0}, active : {tracker.active}, completed : Nat, failed : Nat,
                    files : Nat, badFiles : Nat, logical : Nat, wire : Nat]
    /\ tracker.active \in [DOMAIN tracker.active -> Opened]
    /\ ended \in [DOMAIN ended -> [ok : BOOLEAN, total : Nat]]
    /\ up \in [Uploaders -> [id : Nat, attempt : Nat, kind : {"idle", "sending"}]]

(* An active operation has not sent more than its file holds, and belongs  *)
(* to at most one worker.                                                  *)
OperationsOwned ==
    /\ \A id \in DOMAIN tracker.active : tracker.active[id].bytes <= tracker.active[id].total
    /\ \A u \in Uploaders : up[u].kind # "idle" => up[u].id \in DOMAIN tracker.active
    /\ \A u, v \in Uploaders :
        up[u].kind # "idle" /\ up[v].kind # "idle" /\ up[u].id = up[v].id => u = v

TrackerInv ==
    /\ TrackerTypeOK /\ OperationsOwned /\ ProgressExact
    /\ IsFiniteSet(BytesShown)
(* The operations started, and the bytes that f shows of those in I.       *)
Started == 1..(tracker.next - 1)

Marked(f, I) == UNION {{id} \X (1..f[id]) : id \in I}

(* The bytes shown, as the numbers say.                                    *)
LEMMA ShownMarked == BytesShown = Marked(Shown, Started) /\ DOMAIN Shown = Started
  BY DEF BytesShown, Marked, Shown, Started

(* One operation shows as many bytes as its number says.                   *)
LEMMA OneMarked ==
    ASSUME NEW I, NEW f, NEW x \in I, f[x] \in Nat, IsFiniteSet(Marked(f, I \ {x}))
    PROVE  /\ IsFiniteSet(Marked(f, I))
           /\ Cardinality(Marked(f, I)) = Cardinality(Marked(f, I \ {x})) + f[x]
           /\ Cardinality(Marked(f, I \ {x})) \in Nat
  <1> DEFINE Own == {x} \X (1..f[x])
             Rest == Marked(f, I \ {x})
             b == [n \in 1..f[x] |-> <<x, n>>]
  <1>1. IsFiniteSet(1..f[x]) /\ Cardinality(1..f[x]) = f[x]
    BY FS_Interval
  <1>2. b \in Bijection(1..f[x], Own)
    <2>1. b \in [1..f[x] -> Own]
      OBVIOUS
    <2>2. \A m, n \in 1..f[x] : b[m] = b[n] => m = n
      OBVIOUS
    <2>3. \A p \in Own : \E n \in 1..f[x] : b[n] = p
      OBVIOUS
    <2> HIDE DEF Own, b
    <2> QED
      BY <2>1, <2>2, <2>3 DEF Bijection, Injection, IsInjective, Surjection
  <1>3. IsFiniteSet(Own) /\ Cardinality(Own) = f[x]
    BY <1>1, <1>2, FS_Bijection DEF ExistsBijection
  <1>4. Marked(f, I) = Rest \cup Own
    BY DEF Marked
  <1>5. Rest \cap Own = {}
    BY DEF Marked
  <1>0. IsFiniteSet(Rest)
    OBVIOUS
  <1> HIDE DEF Own, Rest
  <1>6. Cardinality({}) = 0 /\ Cardinality(Rest) \in Nat
    BY <1>0, FS_EmptySet, FS_CardinalityType
  <1>7. /\ IsFiniteSet(Rest \cup Own)
        /\ Cardinality(Rest \cup Own) = Cardinality(Rest) + Cardinality(Own) - Cardinality({})
    BY <1>0, <1>3, <1>5, FS_Union
  <1> QED
    BY <1>3, <1>4, <1>6, <1>7 DEF Rest

(* When one operation moves, or is new, the bytes shown move by as much.   *)
LEMMA OneShown ==
    ASSUME IsFiniteSet(BytesShown), tracker.next \in Nat \ {0},
           tracker'.next \in {tracker.next, tracker.next + 1},
           NEW x \in Started', x \in Started \/ x = tracker.next,
           tracker'.next # tracker.next => x = tracker.next,
           \A id \in Started : Shown[id] \in Nat,
           \A id \in Started \ {x} : Shown'[id] = Shown[id],
           Shown'[x] \in Nat
    PROVE  LET old == IF x \in Started THEN Shown[x] ELSE 0 IN
           /\ IsFiniteSet(BytesShown')
           /\ Cardinality(BytesShown') = Cardinality(BytesShown) - old + Shown'[x]
           /\ Cardinality(BytesShown) \in Nat /\ old \in Nat /\ old <= Cardinality(BytesShown)
  <1> DEFINE Others == Started \ {x}
             Rest == Marked(Shown, Others)
  <1>1. Started' \ {x} = Others
    BY DEF Started
  <1>2. Marked(Shown', Others) = Rest
    BY DEF Marked
  <1>3. BytesShown = Marked(Shown, Started) /\ BytesShown' = Marked(Shown', Started')
    BY DEF BytesShown, Marked, Shown, Started
  <1>4. IsFiniteSet(Rest)
    <2>1. Rest \subseteq BytesShown
      BY <1>3 DEF Marked
    <2> QED
      BY <2>1, FS_Subset
  <1>5. /\ IsFiniteSet(BytesShown')
        /\ Cardinality(BytesShown') = Cardinality(Rest) + Shown'[x]
        /\ Cardinality(Rest) \in Nat
    <2> DEFINE J == Started'
               g == Shown'
    <2>1. x \in J /\ g[x] \in Nat /\ Marked(g, J \ {x}) = Rest /\ BytesShown' = Marked(g, J)
      BY <1>1, <1>2, <1>3
    <2> HIDE DEF J, g, Rest
    <2>2. IsFiniteSet(Marked(g, J \ {x}))
      BY <1>4, <2>1
    <2>3. /\ IsFiniteSet(Marked(g, J))
          /\ Cardinality(Marked(g, J)) = Cardinality(Marked(g, J \ {x})) + g[x]
          /\ Cardinality(Marked(g, J \ {x})) \in Nat
      BY <2>1, <2>2, OneMarked
    <2>4. g[x] = Shown'[x]
      BY DEF g
    <2> QED
      BY <2>1, <2>3, <2>4
  <1>6. CASE x \in Started
    <2>1. Cardinality(BytesShown) = Cardinality(Rest) + Shown[x] /\ Shown[x] \in Nat
      <3> DEFINE J == Started
                 g == Shown
      <3>1. x \in J /\ g[x] \in Nat /\ Marked(g, J \ {x}) = Rest /\ BytesShown = Marked(g, J)
        BY <1>3, <1>6
      <3> HIDE DEF J, g, Rest
      <3>2. IsFiniteSet(Marked(g, J \ {x}))
        BY <1>4, <3>1
      <3>3. /\ IsFiniteSet(Marked(g, J))
            /\ Cardinality(Marked(g, J)) = Cardinality(Marked(g, J \ {x})) + g[x]
            /\ Cardinality(Marked(g, J \ {x})) \in Nat
        BY <3>1, <3>2, OneMarked
      <3>4. g[x] = Shown[x]
        BY DEF g
      <3> QED
        BY <3>1, <3>3, <3>4
    <2> HIDE DEF Rest
    <2> QED
      BY <1>5, <1>6, <2>1
  <1>7. CASE x \notin Started
    <2>1. Rest = BytesShown
      <3>1. Others = Started
        BY <1>7
      <3> QED
        BY <1>3, <3>1
    <2> HIDE DEF Rest
    <2>2. Cardinality(BytesShown') = Cardinality(BytesShown) + Shown'[x]
          /\ Cardinality(BytesShown) \in Nat
      BY <1>5, <2>1
    <2>3. Cardinality(BytesShown') = Cardinality(BytesShown) - 0 + Shown'[x]
      BY <2>2
    <2> QED
      BY <1>5, <1>7, <2>2, <2>3
  <1> QED
    BY <1>6, <1>7

(* What the invariant says of the parts.                                   *)
LEMMA TrackerParts ==
    ASSUME TrackerInv
    PROVE  /\ tracker.next \in Nat \ {0} /\ tracker.logical \in Nat /\ tracker.wire \in Nat
           /\ tracker.completed \in Nat /\ tracker.failed \in Nat
           /\ tracker.files \in Nat /\ tracker.badFiles \in Nat
           /\ tracker.logical <= tracker.wire
           /\ tracker.logical = Cardinality(BytesShown) /\ IsFiniteSet(BytesShown)
           /\ Started = DOMAIN tracker.active \cup DOMAIN ended
           /\ DOMAIN tracker.active \cap DOMAIN ended = {}
           /\ tracker.next \notin Started
           /\ \A id \in DOMAIN tracker.active :
                /\ tracker.active[id] \in Opened
                /\ tracker.active[id].bytes \in Nat /\ tracker.active[id].total \in Nat
                /\ tracker.active[id].bytes <= tracker.active[id].total
                /\ Shown[id] = tracker.active[id].bytes
           /\ \A id \in DOMAIN ended :
                /\ ended[id].ok \in BOOLEAN /\ ended[id].total \in Nat
                /\ Shown[id] = IF ended[id].ok THEN ended[id].total ELSE 0
  <1>1. TrackerTypeOK /\ OperationsOwned /\ ProgressExact /\ IsFiniteSet(BytesShown)
    BY DEF TrackerInv
  <1>2. /\ tracker.next \in Nat \ {0} /\ tracker.logical \in Nat /\ tracker.wire \in Nat
        /\ tracker.completed \in Nat /\ tracker.failed \in Nat
        /\ tracker.files \in Nat /\ tracker.badFiles \in Nat
    BY <1>1 DEF TrackerTypeOK
  <1>3. /\ Started = DOMAIN tracker.active \cup DOMAIN ended
        /\ DOMAIN tracker.active \cap DOMAIN ended = {}
        /\ tracker.next \notin Started
        /\ tracker.logical <= tracker.wire /\ tracker.logical = Cardinality(BytesShown)
    BY <1>1, <1>2 DEF ProgressExact, Started
  <1>4. ASSUME NEW id \in DOMAIN tracker.active
        PROVE  /\ tracker.active[id] \in Opened
               /\ tracker.active[id].bytes \in Nat /\ tracker.active[id].total \in Nat
               /\ tracker.active[id].bytes <= tracker.active[id].total
               /\ Shown[id] = tracker.active[id].bytes
    <2>1. tracker.active[id] \in Opened
      BY <1>1 DEF TrackerTypeOK
    <2>2. id \in 1..(tracker.next - 1) /\ id \notin DOMAIN ended
      BY <1>3 DEF Started
    <2> QED
      BY <1>1, <2>1, <2>2 DEF Opened, OperationsOwned, Shown
  <1>5. ASSUME NEW id \in DOMAIN ended
        PROVE  /\ ended[id].ok \in BOOLEAN /\ ended[id].total \in Nat
               /\ Shown[id] = IF ended[id].ok THEN ended[id].total ELSE 0
    <2>1. ended[id] \in [ok : BOOLEAN, total : Nat]
      BY <1>1 DEF TrackerTypeOK
    <2>2. id \in 1..(tracker.next - 1)
      BY <1>3 DEF Started
    <2> QED
      BY <2>1, <2>2 DEF Shown
  <1> QED
    BY <1>1, <1>2, <1>3, <1>4, <1>5

(* The invariant of the tracker holds at the start,                        *)
LEMMA TrackerInitInv == TrackerInit => TrackerInv
  <1> SUFFICES ASSUME TrackerInit PROVE TrackerInv
    OBVIOUS
  <1>1. DOMAIN tracker.active = {} /\ DOMAIN ended = {} /\ 1..(tracker.next - 1) = {}
    BY DEF TrackerInit
  <1>2. TrackerTypeOK
    <2>1. tracker.active \in [DOMAIN tracker.active -> Opened]
      BY DEF TrackerInit
    <2>2. ended \in [DOMAIN ended -> [ok : BOOLEAN, total : Nat]]
      BY DEF TrackerInit
    <2>3. up \in [Uploaders -> [id : Nat, attempt : Nat, kind : {"idle", "sending"}]]
      BY DEF TrackerInit, NoUpload
    <2>4. tracker \in [next : Nat \ {0}, active : {tracker.active}, completed : Nat, failed : Nat,
                      files : Nat, badFiles : Nat, logical : Nat, wire : Nat]
      BY DEF TrackerInit
    <2> QED
      BY <2>1, <2>2, <2>3, <2>4 DEF TrackerTypeOK
  <1>3. OperationsOwned
    BY <1>1 DEF OperationsOwned, TrackerInit, NoUpload
  <1>4. BytesShown = {}
    BY <1>1 DEF BytesShown, Shown
  <1>5. {id \in DOMAIN ended : ended[id].ok} = {} /\ {id \in DOMAIN ended : ~ended[id].ok} = {}
    BY <1>1
  <1>6. tracker.completed = 0 /\ tracker.failed = 0 /\ tracker.logical = 0 /\ tracker.wire = 0
    BY DEF TrackerInit
  <1>7. ProgressExact
    BY <1>1, <1>4, <1>5, <1>6, FS_EmptySet DEF ProgressExact
  <1> QED
    BY <1>2, <1>3, <1>4, <1>7, FS_EmptySet DEF TrackerInv

(* What an operation shows before a step: nothing, if the step starts it.  *)
Before(x) == IF x \in Started THEN Shown[x] ELSE 0

(* A step of the tracker moves one operation, x: it may be new, it may     *)
(* end, and nothing else changes.                                          *)
OnlyMoves(x) ==
    /\ tracker'.next \in {tracker.next, tracker.next + 1}
    /\ x \in Started \/ (x = tracker.next /\ tracker'.next = tracker.next + 1)
    /\ tracker'.next # tracker.next => x = tracker.next
    /\ Started' = DOMAIN tracker'.active \cup DOMAIN ended'
    /\ DOMAIN tracker'.active \cap DOMAIN ended' = {}
    /\ \A id \in DOMAIN tracker'.active \ {x} :
           id \in DOMAIN tracker.active /\ tracker'.active[id] = tracker.active[id]
    /\ \A id \in DOMAIN ended' \ {x} : id \in DOMAIN ended /\ ended'[id] = ended[id]
    /\ Shown'[x] \in Nat

(* The bytes shown follow the operation that moves.                        *)
LEMMA OneOperation ==
    ASSUME TrackerInv, NEW x, OnlyMoves(x)
    PROVE  /\ IsFiniteSet(BytesShown')
           /\ Cardinality(BytesShown') = tracker.logical - Before(x) + Shown'[x]
           /\ Before(x) \in Nat /\ Before(x) <= tracker.logical /\ tracker.logical \in Nat
  <1>0. /\ tracker'.next \in {tracker.next, tracker.next + 1}
        /\ x \in Started \/ (x = tracker.next /\ tracker'.next = tracker.next + 1)
        /\ tracker'.next # tracker.next => x = tracker.next
        /\ Started' = DOMAIN tracker'.active \cup DOMAIN ended'
        /\ DOMAIN tracker'.active \cap DOMAIN ended' = {}
        /\ \A id \in DOMAIN tracker'.active \ {x} :
               id \in DOMAIN tracker.active /\ tracker'.active[id] = tracker.active[id]
        /\ \A id \in DOMAIN ended' \ {x} : id \in DOMAIN ended /\ ended'[id] = ended[id]
        /\ Shown'[x] \in Nat
    BY DEF OnlyMoves
  <1>1. tracker.next \in Nat \ {0} /\ x \in Started'
    BY <1>0, TrackerParts DEF Started
  <1>2. \A id \in Started : Shown[id] \in Nat
    BY TrackerParts
  <1>3. ASSUME NEW id \in Started \ {x} PROVE Shown'[id] = Shown[id]
    <2>1. id \in Started' /\ id \in Started
      BY <1>0, <1>1 DEF Started
    <2>2. CASE id \in DOMAIN ended'
      <3>1. id \in DOMAIN ended /\ ended'[id] = ended[id]
        BY <1>0, <2>2
      <3> QED
        BY <2>1, <2>2, <3>1 DEF Shown, Started
    <2>3. CASE id \notin DOMAIN ended'
      <3>1. id \in DOMAIN tracker.active /\ tracker'.active[id] = tracker.active[id]
        BY <1>0, <2>1, <2>3
      <3>2. id \notin DOMAIN ended
        BY <3>1, TrackerParts
      <3> QED
        BY <2>1, <2>3, <3>1, <3>2 DEF Shown, Started
    <2> QED
      BY <2>2, <2>3
  <1>4. IsFiniteSet(BytesShown) /\ tracker.logical = Cardinality(BytesShown)
    BY TrackerParts
  <1>5. /\ IsFiniteSet(BytesShown')
        /\ Cardinality(BytesShown') = Cardinality(BytesShown) - Before(x) + Shown'[x]
        /\ Cardinality(BytesShown) \in Nat
        /\ Before(x) \in Nat /\ Before(x) <= Cardinality(BytesShown)
    BY <1>0, <1>1, <1>2, <1>3, <1>4, OneShown DEF Before
  <1> QED
    BY <1>4, <1>5

(* One more operation has ended: it is counted with those that completed   *)
(* or with those that failed.                                              *)
LEMMA OneEnded ==
    ASSUME TrackerInv, NEW x, x \notin DOMAIN ended, NEW ok \in BOOLEAN, NEW total \in Nat,
           ended' = With(ended, x, [ok |-> ok, total |-> total])
    PROVE  /\ DOMAIN ended' = DOMAIN ended \cup {x}
           /\ ended'[x] = [ok |-> ok, total |-> total]
           /\ \A id \in DOMAIN ended : ended'[id] = ended[id]
           /\ ended' \in [DOMAIN ended' -> [ok : BOOLEAN, total : Nat]]
           /\ Cardinality({id \in DOMAIN ended' : ended'[id].ok}) =
                 tracker.completed + (IF ok THEN 1 ELSE 0)
           /\ Cardinality({id \in DOMAIN ended' : ~ended'[id].ok}) =
                 tracker.failed + (IF ok THEN 0 ELSE 1)
  <1> DEFINE Good == {id \in DOMAIN ended : ended[id].ok}
             Bad == {id \in DOMAIN ended : ~ended[id].ok}
  <1>1. /\ DOMAIN ended' = DOMAIN ended \cup {x}
        /\ ended'[x] = [ok |-> ok, total |-> total]
        /\ \A id \in DOMAIN ended : ended'[id] = ended[id]
    BY DEF With
  <1>2. ended \in [DOMAIN ended -> [ok : BOOLEAN, total : Nat]]
    BY DEF TrackerInv, TrackerTypeOK
  <1>3. ended' \in [DOMAIN ended' -> [ok : BOOLEAN, total : Nat]]
    <2>1. \A id \in DOMAIN ended' : ended'[id] \in [ok : BOOLEAN, total : Nat]
      BY <1>1, <1>2
    <2>2. ended' = [id \in DOMAIN ended' |-> ended'[id]]
      BY DEF With
    <2> QED
      BY <2>1, <2>2
  <1>4. IsFiniteSet(Good) /\ IsFiniteSet(Bad)
    <2>1. tracker.next - 1 \in Int /\ Started = DOMAIN tracker.active \cup DOMAIN ended
      BY TrackerParts
    <2>2. IsFiniteSet(Started) /\ Good \subseteq Started /\ Bad \subseteq Started
      BY <2>1, FS_Interval DEF Started
    <2> HIDE DEF Good, Bad
    <2> QED
      BY <2>2, FS_Subset
  <1>5. tracker.completed = Cardinality(Good) /\ tracker.failed = Cardinality(Bad)
    BY DEF TrackerInv, ProgressExact
  <1>6. x \notin Good /\ x \notin Bad
    OBVIOUS
  <1>7. /\ {id \in DOMAIN ended' : ended'[id].ok} = IF ok THEN Good \cup {x} ELSE Good
        /\ {id \in DOMAIN ended' : ~ended'[id].ok} = IF ok THEN Bad ELSE Bad \cup {x}
    <2>1. ended'[x].ok = ok
      BY <1>1
    <2> QED
      BY <1>1, <2>1
  <1> HIDE DEF Good, Bad
  <1>8. /\ Cardinality(Good \cup {x}) = Cardinality(Good) + 1
        /\ Cardinality(Bad \cup {x}) = Cardinality(Bad) + 1
        /\ Cardinality(Good) \in Nat /\ Cardinality(Bad) \in Nat
    BY <1>4, <1>6, FS_AddElement, FS_CardinalityType
  <1> DEFINE NowGood == {id \in DOMAIN ended' : ended'[id].ok}
             NowBad == {id \in DOMAIN ended' : ~ended'[id].ok}
  <1>9. /\ NowGood = (IF ok THEN Good \cup {x} ELSE Good)
        /\ NowBad = (IF ok THEN Bad ELSE Bad \cup {x})
    BY <1>7
  <1> HIDE DEF NowGood, NowBad
  <1>10. /\ Cardinality(NowGood) = tracker.completed + (IF ok THEN 1 ELSE 0)
         /\ Cardinality(NowBad) = tracker.failed + (IF ok THEN 0 ELSE 1)
    BY <1>5, <1>8, <1>9
  <1> QED
    BY <1>1, <1>3, <1>10 DEF NowGood, NowBad

(* and when an upload is opened (observer_factory).                        *)
LEMMA UploadOpensStep ==
    ASSUME TrackerInv, NEW u \in Uploaders, NEW size \in Sizes, UploadOpens(u, size)
    PROVE  TrackerInv'
  <1> DEFINE x == tracker.next
             op == [kind |-> "upload", total |-> size, attempt |-> 0, bytes |-> 0]
  <1>1. /\ tracker' = [tracker EXCEPT !.next = @ + 1, !.active = With(@, x, op)]
        /\ up' = [up EXCEPT ![u] = [id |-> x, attempt |-> 0, kind |-> "sending"]]
        /\ up[u] = NoUpload /\ UNCHANGED ended
    BY DEF UploadOpens, start
  <1>2. TrackerTypeOK /\ OperationsOwned /\ ProgressExact
    BY DEF TrackerInv
  <1>3. x \in Nat \ {0} /\ x \notin Started
    BY TrackerParts
  <1>4. op \in Opened /\ op.bytes = 0 /\ op.total = size /\ size \in Nat
    BY SizesAssumption DEF Opened
  <1> HIDE DEF x, op
  <1>5. /\ tracker' \in [next : Nat \ {0}, active : {tracker'.active}, completed : Nat, failed : Nat,
                         files : Nat, badFiles : Nat, logical : Nat, wire : Nat]
        /\ tracker'.next = x + 1 /\ tracker'.active = With(tracker.active, x, op)
        /\ tracker'.completed = tracker.completed /\ tracker'.failed = tracker.failed
        /\ tracker'.logical = tracker.logical /\ tracker'.wire = tracker.wire
    <2> DEFINE n == tracker.next + 1
               more == With(tracker.active, x, op)
    <2>1. n \in Nat \ {0} /\ n = x + 1
      BY <1>3 DEF x
    <2>2. tracker' = [tracker EXCEPT !.next = n, !.active = more]
      BY <1>1
    <2> HIDE DEF n, more
    <2>3. tracker \in [next : Nat \ {0}, active : {tracker.active}, completed : Nat, failed : Nat,
                      files : Nat, badFiles : Nat, logical : Nat, wire : Nat]
      BY <1>2 DEF TrackerTypeOK
    <2>4. /\ tracker'.next = n /\ tracker'.active = more
          /\ tracker'.completed = tracker.completed /\ tracker'.failed = tracker.failed
          /\ tracker'.logical = tracker.logical /\ tracker'.wire = tracker.wire
      BY <2>2, <2>3
    <2>5. tracker' \in [next : Nat \ {0}, active : {tracker'.active}, completed : Nat, failed : Nat,
                       files : Nat, badFiles : Nat, logical : Nat, wire : Nat]
      BY <2>1, <2>2, <2>3
    <2> QED
      BY <2>1, <2>4, <2>5 DEF more
  <1>6. /\ DOMAIN tracker'.active = DOMAIN tracker.active \cup {x} /\ tracker'.active[x] = op
        /\ x \notin DOMAIN tracker.active
        /\ \A id \in DOMAIN tracker.active : tracker'.active[id] = tracker.active[id]
    BY <1>3, <1>5, TrackerParts DEF With
  <1>7. tracker'.active \in [DOMAIN tracker'.active -> Opened]
    <2>1. \A id \in DOMAIN tracker'.active : tracker'.active[id] \in Opened
      BY <1>4, <1>6, TrackerParts
    <2>2. tracker'.active = [id \in DOMAIN tracker'.active |-> tracker'.active[id]]
      BY <1>5 DEF With
    <2> QED
      BY <2>1, <2>2
  <1>8. /\ up' \in [Uploaders -> [id : Nat, attempt : Nat, kind : {"idle", "sending"}]]
        /\ up'[u].id = x /\ \A v \in Uploaders \ {u} : up'[v] = up[v]
    BY <1>1, <1>2, <1>3 DEF TrackerTypeOK
  <1>9. TrackerTypeOK'
    BY <1>1, <1>2, <1>5, <1>7, <1>8 DEF TrackerTypeOK
  <1>10. OperationsOwned'
    <2>1. \A id \in DOMAIN tracker'.active : tracker'.active[id].bytes <= tracker'.active[id].total
      BY <1>4, <1>6, TrackerParts
    <2>2. \A v \in Uploaders \ {u} :
            up'[v].kind # "idle" => up'[v].id \in DOMAIN tracker.active /\ up'[v].id # x
      BY <1>2, <1>6, <1>8 DEF OperationsOwned
    <2> QED
      BY <1>2, <1>6, <1>8, <2>1, <2>2 DEF OperationsOwned
  <1>11. Started' = Started \cup {x} /\ Started' = DOMAIN tracker'.active \cup DOMAIN ended'
         /\ DOMAIN tracker'.active \cap DOMAIN ended' = {}
    <2>1. Started' = Started \cup {x}
      BY <1>3, <1>5 DEF Started, x
    <2>2. Started = DOMAIN tracker.active \cup DOMAIN ended
          /\ DOMAIN tracker.active \cap DOMAIN ended = {} /\ x \notin DOMAIN ended
      BY <1>3, TrackerParts
    <2> QED
      BY <1>1, <1>6, <2>1, <2>2
  <1>12. Shown'[x] = 0
    <2>1. x \in 1..(tracker'.next - 1) /\ x \notin DOMAIN ended'
      <3>1. x \notin DOMAIN ended
        BY <1>3, TrackerParts
      <3> QED
        BY <1>1, <1>3, <1>5, <3>1
    <2> QED
      BY <1>4, <1>6, <2>1 DEF Shown
  <1>13. /\ IsFiniteSet(BytesShown')
         /\ Cardinality(BytesShown') = tracker.logical - 0 + 0 /\ tracker.logical \in Nat
    <2>1. tracker'.next \in {tracker.next, tracker.next + 1}
          /\ (x = tracker.next /\ tracker'.next = tracker.next + 1)
      BY <1>5 DEF x
    <2>2. \A id \in DOMAIN tracker'.active \ {x} :
             id \in DOMAIN tracker.active /\ tracker'.active[id] = tracker.active[id]
      BY <1>6
    <2>3. \A id \in DOMAIN ended' \ {x} : id \in DOMAIN ended /\ ended'[id] = ended[id]
      BY <1>1
    <2>4. Before(x) = 0
      BY <1>3 DEF Before
    <2>5. OnlyMoves(x)
      BY <1>11, <1>12, <2>1, <2>2, <2>3 DEF OnlyMoves
    <2> QED
      BY <1>12, <2>4, <2>5, OneOperation
  <1>14. ProgressExact'
    <2>1. 1..(tracker'.next - 1) = DOMAIN tracker'.active \cup DOMAIN ended'
      BY <1>11 DEF Started
    <2> QED
      BY <1>1, <1>2, <1>5, <1>11, <1>13, <2>1 DEF ProgressExact
  <1> QED
    BY <1>9, <1>10, <1>13, <1>14 DEF TrackerInv

(* What an operation shows is among the bytes counted.                     *)
LEMMA HeldBytes ==
    ASSUME TrackerInv, NEW x \in DOMAIN tracker.active
    PROVE  tracker.active[x].bytes <= tracker.logical
  <1> DEFINE J == Started
             g == Shown
  <1>1. /\ x \in J /\ g[x] = tracker.active[x].bytes /\ g[x] \in Nat
        /\ IsFiniteSet(Marked(g, J)) /\ tracker.logical = Cardinality(Marked(g, J))
    BY TrackerParts, ShownMarked
  <1> HIDE DEF J, g
  <1>2. Marked(g, J \ {x}) \subseteq Marked(g, J)
    BY DEF Marked
  <1>3. IsFiniteSet(Marked(g, J \ {x}))
    BY <1>1, <1>2, FS_Subset
  <1>4. /\ Cardinality(Marked(g, J)) = Cardinality(Marked(g, J \ {x})) + g[x]
        /\ Cardinality(Marked(g, J \ {x})) \in Nat
    BY <1>1, <1>3, OneMarked
  <1> QED
    BY <1>1, <1>4

(* An active operation moves to b bytes, and the counters with it.         *)
Moved(x, b, a) ==
    [tracker.active EXCEPT ![x] = [tracker.active[x] EXCEPT !.bytes = b, !.attempt = a]]

MovedTo(x, b, a, l, w) == [tracker EXCEPT !.active = Moved(x, b, a), !.logical = l, !.wire = w]

LEMMA OperationMoves ==
    ASSUME TrackerInv, NEW x \in DOMAIN tracker.active,
           NEW b \in Nat, NEW a \in Nat, NEW l \in Nat, NEW w \in Nat,
           tracker' = MovedTo(x, b, a, l, w),
           b <= tracker.active[x].total, l <= w,
           l = tracker.logical - tracker.active[x].bytes + b,
           UNCHANGED ended,
           up' \in [Uploaders -> [id : Nat, attempt : Nat, kind : {"idle", "sending"}]],
           \A v \in Uploaders : up'[v].id = up[v].id /\ up'[v].kind = up[v].kind
    PROVE  TrackerInv'
  <1> DEFINE op == [tracker.active[x] EXCEPT !.bytes = b, !.attempt = a]
             now == Moved(x, b, a)
  <1>1. TrackerTypeOK /\ OperationsOwned /\ ProgressExact
    BY DEF TrackerInv
  <1>2. op \in Opened /\ op.bytes = b /\ op.total = tracker.active[x].total
    <2>1. tracker.active[x] \in Opened
      BY TrackerParts
    <2> QED
      BY <2>1 DEF Opened
  <1>3. tracker' = [tracker EXCEPT !.active = now, !.logical = l, !.wire = w]
    BY DEF MovedTo
  <1>4. /\ DOMAIN now = DOMAIN tracker.active /\ now[x] = op
        /\ \A id \in DOMAIN tracker.active \ {x} : now[id] = tracker.active[id]
        /\ now \in [DOMAIN now -> Opened]
    <2>1. tracker.active \in [DOMAIN tracker.active -> Opened]
      BY <1>1 DEF TrackerTypeOK
    <2> QED
      BY <1>2, <2>1 DEF Moved
  <1> HIDE DEF op, now
  <1>5. /\ tracker' \in [next : Nat \ {0}, active : {tracker'.active}, completed : Nat, failed : Nat,
                         files : Nat, badFiles : Nat, logical : Nat, wire : Nat]
        /\ tracker'.next = tracker.next /\ tracker'.active = now
        /\ tracker'.completed = tracker.completed /\ tracker'.failed = tracker.failed
        /\ tracker'.logical = l /\ tracker'.wire = w
    <2>1. tracker \in [next : Nat \ {0}, active : {tracker.active}, completed : Nat, failed : Nat,
                      files : Nat, badFiles : Nat, logical : Nat, wire : Nat]
      BY <1>1 DEF TrackerTypeOK
    <2> QED
      BY <1>3, <2>1
  <1>6. TrackerTypeOK'
    BY <1>1, <1>4, <1>5 DEF TrackerTypeOK
  <1>7. OperationsOwned'
    <2>1. \A id \in DOMAIN tracker'.active : tracker'.active[id].bytes <= tracker'.active[id].total
      BY <1>2, <1>4, <1>5, TrackerParts
    <2>2. DOMAIN tracker'.active = DOMAIN tracker.active
      BY <1>4, <1>5
    <2>3. \A v \in Uploaders : up'[v].id = up[v].id /\ up'[v].kind = up[v].kind
      OBVIOUS
    <2> QED
      BY <1>1, <2>1, <2>2, <2>3 DEF OperationsOwned
  <1>8. /\ x \in Started /\ x \notin DOMAIN ended /\ Started' = Started
        /\ Shown[x] = tracker.active[x].bytes
        /\ Started' = DOMAIN tracker'.active \cup DOMAIN ended'
        /\ DOMAIN tracker'.active \cap DOMAIN ended' = {}
    <2>1. Started' = Started
      BY <1>5 DEF Started
    <2> QED
      BY <1>4, <1>5, <2>1, TrackerParts
  <1>9. Shown'[x] = b
    <2>1. x \in 1..(tracker'.next - 1) /\ x \notin DOMAIN ended'
      BY <1>8 DEF Started
    <2> QED
      BY <1>2, <1>4, <1>5, <2>1 DEF Shown
  <1>10. /\ IsFiniteSet(BytesShown')
         /\ Cardinality(BytesShown') = tracker.logical - tracker.active[x].bytes + b
    <2>1. Before(x) = Shown[x]
      BY <1>8 DEF Before
    <2>2. tracker'.next \in {tracker.next, tracker.next + 1}
          /\ (tracker'.next # tracker.next => x = tracker.next)
      BY <1>5
    <2>3. /\ \A id \in DOMAIN tracker'.active \ {x} :
               id \in DOMAIN tracker.active /\ tracker'.active[id] = tracker.active[id]
          /\ \A id \in DOMAIN ended' \ {x} : id \in DOMAIN ended /\ ended'[id] = ended[id]
      BY <1>4, <1>5
    <2>4. Shown'[x] \in Nat
      BY <1>9
    <2>5. x \in Started \/ (x = tracker.next /\ tracker'.next = tracker.next + 1)
      BY <1>8
    <2>6. /\ Started' = DOMAIN tracker'.active \cup DOMAIN ended'
          /\ DOMAIN tracker'.active \cap DOMAIN ended' = {}
      BY <1>8
    <2>7. OnlyMoves(x)
      BY <2>2, <2>3, <2>4, <2>5, <2>6 DEF OnlyMoves
    <2>8. /\ IsFiniteSet(BytesShown')
          /\ Cardinality(BytesShown') = tracker.logical - Shown[x] + Shown'[x]
      BY <2>1, <2>7, OneOperation
    <2> QED
      BY <1>8, <1>9, <2>8
  <1>11. ProgressExact'
    <2>1. 1..(tracker'.next - 1) = DOMAIN tracker'.active \cup DOMAIN ended'
      BY <1>8 DEF Started
    <2>2. tracker'.logical = Cardinality(BytesShown')
      BY <1>5, <1>10
    <2>3. tracker'.wire >= tracker'.logical
      BY <1>5
    <2> QED
      BY <1>1, <1>5, <1>8, <2>1, <2>2, <2>3 DEF ProgressExact
  <1> QED
    BY <1>6, <1>7, <1>10, <1>11 DEF TrackerInv

(* An attempt gives back the bytes of the one before it.                   *)
LEMMA AttemptStep ==
    ASSUME TrackerInv, NEW u \in Uploaders, up[u].kind # "idle",
           tracker' = begin_attempt(tracker, up[u].id), UNCHANGED ended,
           up' = [up EXCEPT ![u].attempt = @ + 1]
    PROVE  TrackerInv'
  <1> DEFINE x == up[u].id
             a == tracker.active[x].attempt + 1
             l == tracker.logical - tracker.active[x].bytes
             w == tracker.wire
             op == [tracker.active[x] EXCEPT !.bytes = 0, !.attempt = a]
             now == [tracker.active EXCEPT ![x] = op]
  <1>1. TrackerTypeOK /\ x \in DOMAIN tracker.active
    BY DEF TrackerInv, OperationsOwned
  <1>2. /\ tracker.active[x] \in Opened /\ tracker.active[x].bytes \in Nat
        /\ tracker.logical \in Nat /\ tracker.wire \in Nat /\ tracker.logical <= tracker.wire
        /\ tracker.active[x].total \in Nat /\ tracker.active[x].bytes <= tracker.logical
    BY <1>1, TrackerParts, HeldBytes
  <1>3. /\ a \in Nat /\ l \in Nat /\ w \in Nat /\ l <= w
        /\ l = tracker.logical - tracker.active[x].bytes + 0
    BY <1>2 DEF Opened
  <1>4. Monus(tracker.logical, tracker.active[x].bytes) = l
    BY <1>2 DEF Monus
  <1>5. tracker' = [tracker EXCEPT !.active = now, !.logical = l, !.wire = w]
    <2>1. tracker' = [tracker EXCEPT !.logical = l,
                                     !.active[x].bytes = 0, !.active[x].attempt = @ + 1]
      BY <1>4 DEF begin_attempt
    <2>2. tracker.active \in [DOMAIN tracker.active -> Opened]
          /\ tracker \in [next : Nat \ {0}, active : {tracker.active}, completed : Nat, failed : Nat,
                          files : Nat, badFiles : Nat, logical : Nat, wire : Nat]
      BY <1>1 DEF TrackerTypeOK
    <2>3. tracker' = [tracker EXCEPT !.logical = l, !.active = now]
      BY <1>1, <1>2, <2>1, <2>2 DEF Opened
    <2> HIDE DEF now, l
    <2> QED
      BY <2>2, <2>3
  <1>6. /\ up' \in [Uploaders -> [id : Nat, attempt : Nat, kind : {"idle", "sending"}]]
        /\ \A v \in Uploaders : up'[v].id = up[v].id /\ up'[v].kind = up[v].kind
    BY <1>1 DEF TrackerTypeOK
  <1>7. 0 <= tracker.active[x].total
    BY <1>2
  <1>8. tracker' = MovedTo(x, 0, a, l, w)
    BY <1>5 DEF MovedTo, Moved
  <1> HIDE DEF x, a, l, w, op, now
  <1> QED
    BY <1>1, <1>3, <1>6, <1>7, <1>8, OperationMoves

(* Bytes are counted up to what the file holds.                            *)
LEMMA BytesStep ==
    ASSUME TrackerInv, NEW u \in Uploaders, up[u].kind # "idle", NEW delta \in 1..2,
           tracker' = advance(tracker, up[u].id, delta), UNCHANGED <<ended, up>>
    PROVE  TrackerInv'
  <1> DEFINE x == up[u].id
             room == Monus(tracker.active[x].total, tracker.active[x].bytes)
             taken == IF delta < room THEN delta ELSE room
             a == tracker.active[x].attempt
             b == tracker.active[x].bytes + taken
             l == tracker.logical + taken
             w == tracker.wire + taken
             op == [tracker.active[x] EXCEPT !.bytes = b, !.attempt = a]
             now == [tracker.active EXCEPT ![x] = op]
  <1>1. TrackerTypeOK /\ x \in DOMAIN tracker.active
    BY DEF TrackerInv, OperationsOwned
  <1>2. /\ tracker.active[x] \in Opened /\ tracker.active[x].bytes \in Nat
        /\ tracker.logical \in Nat /\ tracker.wire \in Nat /\ tracker.logical <= tracker.wire
        /\ tracker.active[x].total \in Nat /\ tracker.active[x].bytes <= tracker.active[x].total
    BY <1>1, TrackerParts
  <1>3. taken \in Nat /\ b <= tracker.active[x].total
    BY <1>2 DEF Monus
  <1> HIDE DEF taken
  <1>4. /\ a \in Nat /\ b \in Nat /\ l \in Nat /\ w \in Nat /\ l <= w
        /\ l = tracker.logical - tracker.active[x].bytes + b
    BY <1>2, <1>3 DEF Opened
  <1>5. tracker' = [tracker EXCEPT !.active = now, !.logical = l, !.wire = w]
    <2>1. tracker' = [tracker EXCEPT !.active[x].bytes = @ + taken,
                                     !.logical = @ + taken, !.wire = @ + taken]
      BY DEF advance, taken
    <2>2. tracker.active \in [DOMAIN tracker.active -> Opened]
          /\ tracker \in [next : Nat \ {0}, active : {tracker.active}, completed : Nat, failed : Nat,
                          files : Nat, badFiles : Nat, logical : Nat, wire : Nat]
      BY <1>1 DEF TrackerTypeOK
    <2>3. [tracker.active[x] EXCEPT !.bytes = @ + taken] = op
      BY <1>2 DEF Opened
    <2>4. [tracker.active EXCEPT ![x].bytes = @ + taken] = now
      BY <2>3
    <2> QED
      BY <2>1, <2>4
  <1>6. /\ up' \in [Uploaders -> [id : Nat, attempt : Nat, kind : {"idle", "sending"}]]
        /\ \A v \in Uploaders : up'[v].id = up[v].id /\ up'[v].kind = up[v].kind
    BY <1>1 DEF TrackerTypeOK
  <1>8. tracker' = MovedTo(x, b, a, l, w)
    BY <1>5 DEF MovedTo, Moved
  <1> HIDE DEF x, a, b, l, w, op, now
  <1> QED
    BY <1>1, <1>3, <1>4, <1>6, <1>8, OperationMoves

(* The operation x ends, and its bytes are shown as its end says.          *)
Closes(x, ok, total) ==
    /\ tracker' \in [next : Nat \ {0}, active : {tracker'.active}, completed : Nat, failed : Nat,
                     files : Nat, badFiles : Nat, logical : Nat, wire : Nat]
    /\ \/ x \in Started /\ tracker'.next = tracker.next
       \/ x = tracker.next /\ tracker'.next = tracker.next + 1
    /\ tracker'.active = Restrict(tracker.active, DOMAIN tracker.active \ {x})
    /\ ended' = With(ended, x, [ok |-> ok, total |-> total])
    /\ up' \in [Uploaders -> [id : Nat, attempt : Nat, kind : {"idle", "sending"}]]
    /\ \A v \in Uploaders : up'[v].kind # "idle" => up'[v] = up[v] /\ up[v].id # x
    /\ tracker'.completed = tracker.completed + (IF ok THEN 1 ELSE 0)
    /\ tracker'.failed = tracker.failed + (IF ok THEN 0 ELSE 1)
    /\ tracker'.logical = tracker.logical - Before(x) + (IF ok THEN total ELSE 0)
    /\ tracker'.logical <= tracker'.wire

LEMMA OneCloses ==
    ASSUME TrackerInv, NEW x, x \notin DOMAIN ended, NEW ok \in BOOLEAN, NEW total \in Nat,
           Closes(x, ok, total)
    PROVE  TrackerInv'
  <1>0. /\ tracker' \in [next : Nat \ {0}, active : {tracker'.active}, completed : Nat, failed : Nat,
                         files : Nat, badFiles : Nat, logical : Nat, wire : Nat]
        /\ \/ x \in Started /\ tracker'.next = tracker.next
           \/ x = tracker.next /\ tracker'.next = tracker.next + 1
        /\ tracker'.active = Restrict(tracker.active, DOMAIN tracker.active \ {x})
        /\ ended' = With(ended, x, [ok |-> ok, total |-> total])
        /\ up' \in [Uploaders -> [id : Nat, attempt : Nat, kind : {"idle", "sending"}]]
        /\ \A v \in Uploaders : up'[v].kind # "idle" => up'[v] = up[v] /\ up[v].id # x
        /\ tracker'.completed = tracker.completed + (IF ok THEN 1 ELSE 0)
        /\ tracker'.failed = tracker.failed + (IF ok THEN 0 ELSE 1)
        /\ tracker'.logical = tracker.logical - Before(x) + (IF ok THEN total ELSE 0)
        /\ tracker'.logical <= tracker'.wire
    BY DEF Closes
  <1>1. TrackerTypeOK /\ OperationsOwned /\ ProgressExact
    BY DEF TrackerInv
  <1>2. /\ DOMAIN tracker'.active = DOMAIN tracker.active \ {x}
        /\ \A id \in DOMAIN tracker'.active : tracker'.active[id] = tracker.active[id]
        /\ tracker'.active \in [DOMAIN tracker'.active -> Opened]
    <2>1. tracker.active \in [DOMAIN tracker.active -> Opened]
      BY <1>1 DEF TrackerTypeOK
    <2> DEFINE rest == Restrict(tracker.active, DOMAIN tracker.active \ {x})
    <2>2. /\ DOMAIN rest = DOMAIN tracker.active \ {x}
          /\ \A id \in DOMAIN rest : rest[id] = tracker.active[id]
          /\ rest \in [DOMAIN rest -> Opened]
      BY <2>1 DEF Restrict
    <2>3. tracker'.active = rest
      BY <1>0
    <2> HIDE DEF rest
    <2> QED
      BY <2>2, <2>3
  <1>3. /\ DOMAIN ended' = DOMAIN ended \cup {x}
        /\ ended'[x] = [ok |-> ok, total |-> total]
        /\ \A id \in DOMAIN ended : ended'[id] = ended[id]
        /\ ended' \in [DOMAIN ended' -> [ok : BOOLEAN, total : Nat]]
        /\ Cardinality({id \in DOMAIN ended' : ended'[id].ok}) = tracker'.completed
        /\ Cardinality({id \in DOMAIN ended' : ~ended'[id].ok}) = tracker'.failed
    BY <1>0, OneEnded
  <1>4. TrackerTypeOK'
    BY <1>0, <1>2, <1>3 DEF TrackerTypeOK
  <1>5. OperationsOwned'
    <2>1. \A id \in DOMAIN tracker'.active : tracker'.active[id].bytes <= tracker'.active[id].total
      BY <1>1, <1>2 DEF OperationsOwned
    <2>2. \A v \in Uploaders : up'[v].kind # "idle" => up'[v] = up[v] /\ up[v].id # x
      BY <1>0
    <2>3. \A v \in Uploaders : up'[v].kind # "idle" => up'[v].id \in DOMAIN tracker'.active
      BY <1>1, <1>2, <2>2 DEF OperationsOwned
    <2>4. \A v, z \in Uploaders :
            up'[v].kind # "idle" /\ up'[z].kind # "idle" /\ up'[v].id = up'[z].id => v = z
      BY <1>1, <2>2 DEF OperationsOwned
    <2> QED
      BY <2>1, <2>3, <2>4 DEF OperationsOwned
  <1>6. /\ tracker.next \in Nat \ {0}
        /\ Started = DOMAIN tracker.active \cup DOMAIN ended
        /\ DOMAIN tracker.active \cap DOMAIN ended = {} /\ tracker.next \notin Started
    BY TrackerParts
  <1>7. Started' = Started \cup {x}
    BY <1>0, <1>6 DEF Started
  <1>8. /\ Started' = DOMAIN tracker'.active \cup DOMAIN ended'
        /\ DOMAIN tracker'.active \cap DOMAIN ended' = {}
    BY <1>2, <1>3, <1>6, <1>7
  <1>9. Shown'[x] = (IF ok THEN total ELSE 0) /\ Shown'[x] \in Nat
    <2>1. x \in 1..(tracker'.next - 1) /\ x \in DOMAIN ended'
      BY <1>3, <1>7 DEF Started
    <2> QED
      BY <1>3, <2>1 DEF Shown
  <1>10. IsFiniteSet(BytesShown') /\ tracker'.logical = Cardinality(BytesShown')
    <2>1. tracker'.next \in {tracker.next, tracker.next + 1}
          /\ (tracker'.next # tracker.next => x = tracker.next)
      BY <1>0, <1>6
    <2>2. x \in Started \/ (x = tracker.next /\ tracker'.next = tracker.next + 1)
      BY <1>0, <1>6
    <2>3. Shown'[x] \in Nat
      BY <1>9
    <2>4. \A id \in DOMAIN tracker'.active \ {x} :
             id \in DOMAIN tracker.active /\ tracker'.active[id] = tracker.active[id]
      BY <1>2
    <2>5. \A id \in DOMAIN ended' \ {x} : id \in DOMAIN ended /\ ended'[id] = ended[id]
      BY <1>3
    <2>6. tracker'.logical = tracker.logical - Before(x) + Shown'[x]
      BY <1>0, <1>9
    <2>7. OnlyMoves(x)
      BY <1>8, <2>1, <2>2, <2>4, <2>5, <2>3 DEF OnlyMoves
    <2>8. /\ IsFiniteSet(BytesShown')
          /\ Cardinality(BytesShown') = tracker.logical - Before(x) + Shown'[x]
      BY <2>7, OneOperation
    <2> QED
      BY <2>6, <2>8
  <1>11. ProgressExact'
    <2>1. 1..(tracker'.next - 1) = DOMAIN tracker'.active \cup DOMAIN ended'
      BY <1>8 DEF Started
    <2>2. tracker'.wire >= tracker'.logical
      BY <1>0
    <2> QED
      BY <1>3, <1>8, <1>10, <2>1, <2>2 DEF ProgressExact
  <1> QED
    BY <1>4, <1>5, <1>10, <1>11 DEF TrackerInv

(* A worker's end, or its loss, closes the operation it held.              *)
LEMMA FinishStep ==
    ASSUME TrackerInv, NEW u \in Uploaders, up[u].kind # "idle", NEW ok \in BOOLEAN,
           tracker' = finish(tracker, up[u].id, ok), ended' = AsEnded(tracker, up[u].id, ok),
           up' = [up EXCEPT ![u] = NoUpload]
    PROVE  TrackerInv'
  <1> DEFINE x == up[u].id
             op == tracker.active[x]
             gone == Restrict(tracker.active, DOMAIN tracker.active \ {x})
             total == op.total
             c == tracker.completed + 1
             f == tracker.failed + 1
             good == tracker.files + IsFile(op.kind)
             bad == tracker.badFiles + IsFile(op.kind)
             rest == Monus(op.total, op.bytes)
             l == tracker.logical + rest
             w == tracker.wire + rest
             less == Monus(tracker.logical, op.bytes)
  <1>1. TrackerTypeOK /\ OperationsOwned /\ x \in DOMAIN tracker.active
    BY DEF TrackerInv, OperationsOwned
  <1>2. /\ op.bytes \in Nat /\ op.total \in Nat /\ op.bytes <= op.total
        /\ op.bytes <= tracker.logical
        /\ tracker.logical \in Nat /\ tracker.wire \in Nat /\ tracker.logical <= tracker.wire
        /\ tracker.completed \in Nat /\ tracker.failed \in Nat
        /\ tracker.files \in Nat /\ tracker.badFiles \in Nat
        /\ x \in Started /\ x \notin DOMAIN ended /\ Shown[x] = op.bytes
    BY <1>1, TrackerParts, HeldBytes
  <1>3. /\ IsFile(op.kind) \in Nat /\ rest = op.total - op.bytes
        /\ less = tracker.logical - op.bytes /\ Before(x) = op.bytes
    BY <1>2 DEF IsFile, Monus, Before
  <1>4. /\ c \in Nat /\ f \in Nat /\ good \in Nat /\ bad \in Nat
        /\ l \in Nat /\ w \in Nat /\ l <= w /\ less \in Nat /\ less <= tracker.wire
        /\ l = tracker.logical - Before(x) + total /\ less = tracker.logical - Before(x) + 0
        /\ c = tracker.completed + 1 /\ f = tracker.failed + 1
    BY <1>2, <1>3
  <1>5. tracker \in [next : Nat \ {0}, active : {tracker.active}, completed : Nat, failed : Nat,
                     files : Nat, badFiles : Nat, logical : Nat, wire : Nat]
    BY <1>1 DEF TrackerTypeOK
  <1>6. /\ up' \in [Uploaders -> [id : Nat, attempt : Nat, kind : {"idle", "sending"}]]
        /\ \A v \in Uploaders : up'[v].kind # "idle" => up'[v] = up[v] /\ up[v].id # x
    <2>1. up'[u] = NoUpload /\ \A v \in Uploaders \ {u} : up'[v] = up[v]
      BY <1>1 DEF TrackerTypeOK
    <2> QED
      BY <1>1, <2>1 DEF TrackerTypeOK, OperationsOwned, NoUpload
  <1>7. ended' = With(ended, x, [ok |-> ok, total |-> total]) /\ total \in Nat
    BY <1>2 DEF AsEnded
  <1>8. ok => tracker' = [tracker EXCEPT !.active = gone, !.logical = l, !.wire = w,
                                         !.completed = c, !.files = good]
    BY <1>5 DEF finish
  <1>9. ~ok => tracker' = [tracker EXCEPT !.active = gone, !.logical = less,
                                          !.failed = f, !.badFiles = bad]
    BY <1>5 DEF finish
  <1> HIDE DEF gone, c, f, good, bad, l, w, less, rest
  <1>10. /\ tracker' \in [next : Nat \ {0}, active : {tracker'.active}, completed : Nat, failed : Nat,
                          files : Nat, badFiles : Nat, logical : Nat, wire : Nat]
         /\ tracker'.next = tracker.next /\ tracker'.active = gone
    <2>1. CASE ok
      BY <1>4, <1>5, <1>8, <2>1
    <2>2. CASE ~ok
      BY <1>4, <1>5, <1>9, <2>2
    <2> QED
      BY <2>1, <2>2
  <1>11. /\ tracker'.completed = tracker.completed + (IF ok THEN 1 ELSE 0)
         /\ tracker'.failed = tracker.failed + (IF ok THEN 0 ELSE 1)
         /\ tracker'.logical = tracker.logical - Before(x) + (IF ok THEN total ELSE 0)
         /\ tracker'.logical <= tracker'.wire
    <2>1. CASE ok
      <3>1. /\ tracker'.completed = c /\ tracker'.failed = tracker.failed
            /\ tracker'.logical = l /\ tracker'.wire = w
        BY <1>5, <1>8, <2>1
      <3>2. tracker.failed = tracker.failed + 0
        BY <1>2
      <3> QED
        BY <1>4, <2>1, <3>1, <3>2
    <2>2. CASE ~ok
      <3>1. /\ tracker'.completed = tracker.completed /\ tracker'.failed = f
            /\ tracker'.logical = less /\ tracker'.wire = tracker.wire
        BY <1>5, <1>9, <2>2
      <3> QED
        BY <1>2, <1>4, <2>2, <3>1
    <2> QED
      BY <2>1, <2>2
  <1>12. tracker'.active = Restrict(tracker.active, DOMAIN tracker.active \ {x})
    BY <1>10 DEF gone
  <1> HIDE DEF x, op, total
  <1>13. Closes(x, ok, total)
    BY <1>2, <1>6, <1>7, <1>10, <1>11, <1>12 DEF Closes
  <1> QED
    BY <1>2, <1>7, <1>13, OneCloses

(* A deletion, a folder or a server copy opens its operation and closes it. *)
LEMMA ExecutionStep ==
    ASSUME TrackerInv, NEW kind \in {"upload", "other"}, NEW bytes \in Nat,
           tracker' = finish(start(tracker, kind, bytes), tracker.next, TRUE),
           ended' = AsEnded(start(tracker, kind, bytes), tracker.next, TRUE), UNCHANGED up
    PROVE  TrackerInv'
  <1> DEFINE x == tracker.next
             op == [kind |-> kind, total |-> bytes, attempt |-> 0, bytes |-> 0]
             begun == start(tracker, kind, bytes)
             opened == With(tracker.active, x, op)
             n == x + 1
             gone == Restrict(tracker.active, DOMAIN tracker.active \ {x})
             c == tracker.completed + 1
             good == tracker.files + IsFile(kind)
             l == tracker.logical + bytes
             w == tracker.wire + bytes
  <1>1. TrackerTypeOK /\ OperationsOwned
    BY DEF TrackerInv
  <1>2. /\ tracker.logical \in Nat /\ tracker.wire \in Nat /\ tracker.logical <= tracker.wire
        /\ tracker.completed \in Nat /\ tracker.failed \in Nat /\ tracker.files \in Nat
        /\ x \in Nat \ {0} /\ x \notin Started /\ x \notin DOMAIN ended
        /\ x \notin DOMAIN tracker.active
    BY TrackerParts
  <1>3. Before(x) = 0 /\ IsFile(kind) \in Nat
    BY <1>2 DEF Before, IsFile
  <1>4. /\ c \in Nat /\ good \in Nat /\ l \in Nat /\ w \in Nat /\ l <= w /\ n \in Nat \ {0}
        /\ l = tracker.logical - Before(x) + bytes
    BY <1>2, <1>3
  <1>5. tracker \in [next : Nat \ {0}, active : {tracker.active}, completed : Nat, failed : Nat,
                     files : Nat, badFiles : Nat, logical : Nat, wire : Nat]
    BY <1>1 DEF TrackerTypeOK
  <1>6. begun = [tracker EXCEPT !.next = n, !.active = opened]
    BY <1>5 DEF start
  <1>7. opened[x] = op /\ Restrict(opened, DOMAIN opened \ {x}) = gone
    <2>1. DOMAIN opened = DOMAIN tracker.active \cup {x} /\ opened[x] = op
          /\ \A id \in DOMAIN tracker.active : opened[id] = tracker.active[id]
      BY <1>2 DEF With
    <2>2. DOMAIN opened \ {x} = DOMAIN tracker.active \ {x}
      BY <2>1
    <2> QED
      BY <2>1, <2>2 DEF Restrict
  <1>8. op.kind = kind /\ op.total = bytes /\ op.bytes = 0 /\ Monus(op.total, op.bytes) = bytes
    BY DEF Monus
  <1> HIDE DEF opened, op, n
  <1>9. begun.active = opened /\ begun.completed = tracker.completed /\ begun.files = tracker.files
        /\ begun.logical = tracker.logical /\ begun.wire = tracker.wire
    BY <1>5, <1>6
  <1>10. begun.active[x] = op
    BY <1>7, <1>9
  <1>11. tracker' = [begun EXCEPT !.active = gone, !.logical = l, !.wire = w,
                                  !.completed = c, !.files = good]
    BY <1>5, <1>6, <1>7, <1>8, <1>9, <1>10 DEF finish
  <1>12. ended' = With(ended, x, [ok |-> TRUE, total |-> bytes])
    BY <1>8, <1>10 DEF AsEnded
  <1> HIDE DEF gone, c, good, l, w, begun
  <1>13. tracker' = [tracker EXCEPT !.next = n, !.active = gone, !.logical = l, !.wire = w,
                                    !.completed = c, !.files = good]
    BY <1>5, <1>6, <1>11
  <1>14. /\ tracker' \in [next : Nat \ {0}, active : {tracker'.active}, completed : Nat, failed : Nat,
                          files : Nat, badFiles : Nat, logical : Nat, wire : Nat]
         /\ tracker'.next = n /\ tracker'.active = gone /\ tracker'.completed = c
         /\ tracker'.failed = tracker.failed /\ tracker'.logical = l /\ tracker'.wire = w
    BY <1>4, <1>5, <1>13
  <1>15. /\ tracker'.completed = tracker.completed + (IF TRUE THEN 1 ELSE 0)
         /\ tracker'.failed = tracker.failed + (IF TRUE THEN 0 ELSE 1)
         /\ tracker'.logical = tracker.logical - Before(x) + (IF TRUE THEN bytes ELSE 0)
         /\ tracker'.logical <= tracker'.wire
    <2>1. c = tracker.completed + 1 /\ tracker.failed = tracker.failed + 0
      BY <1>2 DEF c
    <2> QED
      BY <1>4, <1>14, <2>1
  <1>16. /\ up' \in [Uploaders -> [id : Nat, attempt : Nat, kind : {"idle", "sending"}]]
         /\ \A v \in Uploaders : up'[v].kind # "idle" => up'[v] = up[v] /\ up[v].id # x
    BY <1>1, <1>2 DEF TrackerTypeOK, OperationsOwned
  <1>17. /\ tracker'.active = Restrict(tracker.active, DOMAIN tracker.active \ {x})
         /\ x = tracker.next /\ tracker'.next = tracker.next + 1
    BY <1>14 DEF gone, n
  <1> HIDE DEF x
  <1>18. Closes(x, TRUE, bytes)
    BY <1>12, <1>14, <1>15, <1>16, <1>17 DEF Closes
  <1> QED
    BY <1>2, <1>18, OneCloses

(* Every step of the tracker keeps its invariant.                          *)
LEMMA TrackerNextInv == TrackerInv /\ [TrackerNext]_trackerVars => TrackerInv'
  <1> SUFFICES ASSUME TrackerInv, [TrackerNext]_trackerVars PROVE TrackerInv'
    OBVIOUS
  <1>1. ASSUME NEW u \in Uploaders, NEW s \in Sizes, UploadOpens(u, s) PROVE TrackerInv'
    BY <1>1, UploadOpensStep
  <1>2. ASSUME NEW u \in Uploaders, NEW e, Observe(u, e) PROVE TrackerInv'
    <2>0. up[u].kind # "idle"
      BY <1>2 DEF Observe
    <2>1. CASE /\ tracker' = begin_attempt(tracker, up[u].id)
               /\ up' = [up EXCEPT ![u].attempt = @ + 1] /\ UNCHANGED ended
      BY <2>0, <2>1, AttemptStep
    <2>2. ASSUME NEW delta \in 1..2, tracker' = advance(tracker, up[u].id, delta),
                 UNCHANGED <<up, ended>>
          PROVE  TrackerInv'
      BY <2>0, <2>2, BytesStep
    <2>3. CASE /\ tracker' = finish(tracker, up[u].id, e = "completed")
               /\ ended' = AsEnded(tracker, up[u].id, e = "completed")
               /\ up' = [up EXCEPT ![u] = NoUpload]
      <3> DEFINE ok == e = "completed"
      <3>1. ok \in BOOLEAN
        OBVIOUS
      <3>2. tracker' = finish(tracker, up[u].id, ok) /\ ended' = AsEnded(tracker, up[u].id, ok)
            /\ up' = [up EXCEPT ![u] = NoUpload]
        BY <2>3
      <3> HIDE DEF ok
      <3> QED
        BY <2>0, <3>1, <3>2, FinishStep
    <2> QED
      BY <1>2, <2>1, <2>2, <2>3 DEF Observe
  <1>3. ASSUME NEW u \in Uploaders, UploadDropped(u) PROVE TrackerInv'
    BY <1>3, FinishStep DEF UploadDropped
  <1>4. ASSUME NEW e, ExecutionEvent(e) PROVE TrackerInv'
    <2> DEFINE kind == IF e = "copied" THEN "upload" ELSE "other"
    <2>1. PICK bytes \in IF e = "copied" THEN Sizes ELSE {0} :
             /\ tracker' = finish(start(tracker, kind, bytes), tracker.next, TRUE)
             /\ ended' = AsEnded(start(tracker, kind, bytes), tracker.next, TRUE)
      BY <1>4 DEF ExecutionEvent
    <2>2. bytes \in Nat /\ kind \in {"upload", "other"} /\ UNCHANGED up
      BY <1>4, SizesAssumption DEF ExecutionEvent
    <2> HIDE DEF kind
    <2> QED
      BY <2>1, <2>2, ExecutionStep
  <1>5. CASE UNCHANGED <<tracker, up, ended>>
    <2>1. /\ Shown' = Shown /\ BytesShown' = BytesShown
      BY <1>5 DEF Shown, BytesShown
    <2> QED
      BY <1>5, <2>1 DEF TrackerInv, TrackerTypeOK, OperationsOwned, ProgressExact
  <1>6. ASSUME WiringFinish PROVE TrackerInv'
    BY <1>5, <1>6 DEF WiringFinish
  <1>7. CASE UNCHANGED trackerVars
    BY <1>5, <1>7 DEF trackerVars
  <1> QED
    BY <1>1, <1>2, <1>3, <1>4, <1>6, <1>7 DEF TrackerNext

(* In every behaviour the published record is missing or a whole document  *)
(* that names a phase the job has entered and counts no more than that     *)
(* phase counted, whatever write failed or was cut off at any step.        *)
THEOREM ProgressRecordInvariant ==
    RecordInit /\ [][RecordNext]_recordVars => []RecordInv
  BY RecordInitInv, RecordNextInv, PTL

(* In every behaviour each operation started is active with one worker, or *)
(* was counted once, and the bytes shown are those of the operations that  *)
(* completed and of the attempts under way.                                *)
THEOREM ProgressTrackerInvariant ==
    TrackerInit /\ [][TrackerNext]_trackerVars => []TrackerInv
  BY TrackerInitInv, TrackerNextInv, PTL

(* What a poll reads and what a screen counts is so: for any workers, any  *)
(* sizes, any number of operations and retries, and any catalogue position *)
(* a job reaches (progress_record.rs:197, progress.rs:278).                *)
THEOREM ProgressIsTrue ==
    RecordInit /\ TrackerInit /\ [][RecordNext]_recordVars /\ [][TrackerNext]_trackerVars
        => []ProgressTrue
  <1>1. RecordInv /\ TrackerInv => ProgressTrue
    BY RecordInvTruthful DEF TrackerInv, ProgressTrue
  <1> QED
    BY <1>1, ProgressRecordInvariant, ProgressTrackerInvariant, PTL
=============================================================================
