--------------------------- MODULE ExecutorProofs ---------------------------
(***************************************************************************)
(* Proofs about the run of Executor, for every tree, every plan that       *)
(* build_plan can make of it, every entry another writer may leave and     *)
(* every number of edits: the inductive invariant IInv, and with it that a *)
(* run loses nothing (NothingLost); then SInv, inductive beside it, and    *)
(* with both that every planned action is carried out or named, settles    *)
(* the breaker once, and leaves alone what was deferred                    *)
(* (EverythingSettled).                                                    *)
(*                                                                         *)
(* What a step does to the NAS is one of six things (NasStep): nothing, an *)
(* edit by another writer, a deletion, an addition, an upload or a         *)
(* case-only rename.  The parts of IInv that speak of entries are shown    *)
(* for the six; the parts that speak of the run's own state action by      *)
(* action.                                                                 *)
(***************************************************************************)
EXTENDS Executor, FiniteSetTheorems, TLAPS

(***************************************************************************)
(* The action at hand.                                                     *)
(***************************************************************************)

(* A nonempty set of naturals has a smallest member: the loops take the    *)
(* first action of the plan's sequence that is left.  The initial segments *)
(* 1..x of X are well-founded under inclusion.                             *)
LEMMA MinOf ==
    ASSUME NEW X \in SUBSET Nat, X # {}
    PROVE  Min(X) \in X /\ \A y \in X : Min(X) <= y
  <1> DEFINE Below == {1..x : x \in X}
  <1>1. Below \subseteq FiniteSubsetsOf(Nat) /\ Below # {}
    <2>1. ASSUME NEW x \in X PROVE 1..x \in SUBSET Nat /\ IsFiniteSet(1..x)
      BY FS_Interval
    <2> QED
      BY <2>1 DEF FiniteSubsetsOf
  <1>2. PICK A \in Below : \A B \in Below : ~(<<B, A>> \in StrictSubsetOrdering(Nat))
    <2> HIDE DEF Below
    <2> QED
      BY <1>1, FS_StrictSubsetOrderingWellFounded, WFMin
  <1>3. PICK x \in X : A = 1..x
    BY <1>2
  <1>4. ASSUME NEW y \in X, y < x PROVE FALSE
    <2>1. 1..y \in SUBSET Nat /\ 1..x \in SUBSET Nat /\ 1..y \subseteq 1..x /\ x \in 1..x /\ x \notin 1..y
      BY <1>4
    <2>2. <<1..y, 1..x>> \in StrictSubsetOrdering(Nat)
      BY <2>1 DEF StrictSubsetOrdering
    <2>3. 1..y \in Below
      OBVIOUS
    <2> QED
      BY <2>2, <2>3, <1>2, <1>3
  <1>5. \A y \in X : x <= y
    BY <1>4
  <1> QED
    BY <1>5 DEF Min

(* The plan of a run is one of the plans of PlanAssumption.                *)
LEMMA PlanHolds ==
    ASSUME TypeOK
    PROVE  Planned(plan)
  BY PlanAssumption DEF TypeOK, PlannedFor

(* The queue each loop takes its actions from.                             *)
QueueAt ==
    /\ pc \in {"preDelete", "preDeleteRequest"} => Queue = plan.preDeletes
    /\ pc = "create" => Queue = plan.creates
    /\ pc \in {"copy", "copyRequest", "copyFallback", "copyUpload"} => Queue = plan.copies
    /\ pc \in {"postDelete", "postDeleteRequest"} => Queue = plan.postDeletes
    /\ pc = "rename" => Queue = plan.renames

LEMMA QueueHolds == QueueAt /\ QueueAt'
  BY DEF QueueAt, Queue

(* The plan's sequences are sequences.                                     *)
LEMMA QueueDomain ==
    ASSUME TypeOK, pc \in Loops
    PROVE  DOMAIN Queue \subseteq Nat
  <1>1. IsSequence(Queue)
    BY PlanHolds, QueueHolds DEF Planned, QueueAt, Loops
  <1>2. DOMAIN Queue = 1..Len(Queue) /\ Len(Queue) \in Nat
    <2> HIDE DEF Elements
    <2> QED
      BY <1>1 DEF IsSequence
  <1> QED
    BY <1>2

(* A loop that is not through has an action at hand, one of its queue.     *)
LEMMA CurrentIn ==
    ASSUME TypeOK, pc \in Loops, todo # {}
    PROVE  Current \in todo /\ Current \in Elements(Queue)
  <1> DEFINE left == {i \in DOMAIN Queue : Queue[i] \in todo}
  <1>1. todo \subseteq Elements(Queue)
    BY DEF TypeOK
  <1>2. left # {} /\ left \in SUBSET Nat
    BY <1>1, QueueDomain DEF Elements
  <1>3. Min(left) \in left
    BY <1>2, MinOf
  <1> QED
    BY <1>1, <1>3 DEF Current

(* It is the first of those that are left.                                 *)
LEMMA CurrentFirst ==
    ASSUME TypeOK, pc \in Loops, todo # {}
    PROVE  \E i \in DOMAIN Queue :
               /\ Current = Queue[i] /\ i \in Nat
               /\ \A d \in todo \ {Current} : \E j \in DOMAIN Queue : j \in Nat /\ i < j /\ d = Queue[j]
  <1> DEFINE left == {i \in DOMAIN Queue : Queue[i] \in todo}
  <1>1. DOMAIN Queue \subseteq Nat
    BY QueueDomain
  <1>2. todo \subseteq Elements(Queue)
    BY DEF TypeOK
  <1>3. left # {} /\ left \in SUBSET Nat
    BY <1>1, <1>2 DEF Elements
  <1>4. Min(left) \in left /\ \A j \in left : Min(left) <= j
    BY <1>3, MinOf
  <1>5. Current = Queue[Min(left)]
    BY DEF Current
  <1>6. ASSUME NEW d \in todo \ {Current}
        PROVE  \E j \in DOMAIN Queue : j \in Nat /\ Min(left) < j /\ d = Queue[j]
    <2>1. PICK j \in DOMAIN Queue : d = Queue[j]
      BY <1>2 DEF Elements
    <2>2. j \in left /\ j # Min(left) /\ j \in Nat /\ Min(left) \in Nat
      BY <1>1, <1>3, <1>4, <1>5, <1>6, <2>1
    <2> QED
      BY <1>4, <2>1, <2>2
  <1> QED
    BY <1>3, <1>4, <1>5, <1>6

(* Which of the plan's actions that is.                                    *)
AtHand ==
    /\ (pc = "preDelete" /\ todo # {}) \/ pc = "preDeleteRequest" =>
          Current \in todo /\ Current \in Elements(plan.preDeletes)
    /\ pc = "create" /\ todo # {} => Current \in todo /\ Current \in Elements(plan.creates)
    /\ (pc = "copy" /\ todo # {}) \/ pc \in {"copyRequest", "copyFallback", "copyUpload"} =>
          Current \in todo /\ Current \in Elements(plan.copies) /\ Current \in Writes(plan)
    /\ (pc = "postDelete" /\ todo # {}) \/ pc = "postDeleteRequest" =>
          Current \in todo /\ Current \in Elements(plan.postDeletes)
    /\ pc = "rename" /\ todo # {} => Current \in todo /\ Current \in Elements(plan.renames)

LEMMA AtHandHolds ==
    ASSUME TypeOK
    PROVE  AtHand
  BY CurrentIn, QueueHolds DEF TypeOK, AtHand, QueueAt, Loops, Writes

(***************************************************************************)
(* The phases, and what only grows.                                        *)
(***************************************************************************)

Stays == UNCHANGED vars

(* The run goes through its phases in order, and a run that failed while   *)
(* uploads were in flight only drains.                                     *)
Onward ==
    /\ pc' \in Labels
    /\ pc' \in Before => pc \in Before
    /\ pc' = "preflight" => pc = "preflight" /\ deferrals' = deferrals
    /\ pc' \in Writing =>
          \/ pc \in Writing
          \/ pc = "preDelete" /\ open' = {a \in Writes(plan) : ~Covered(a.rel)} /\ deferrals' = deferrals
    /\ pc' \in Deleting => pc \in Deleting \/ (pc = "upload" /\ open \cup inflight = {})
    /\ pc' = "upload" => pc = "upload" \/ (pc = "copy" /\ todo = {})
    /\ pc \in {"rename", "end"} => pc' \in {"rename", "end"}

Grows ==
    /\ plan' = plan
    /\ deferrals \subseteq deferrals' /\ done \subseteq done'
    /\ skipped \subseteq skipped' /\ touched \subseteq touched'

(* Nothing is planned anew, and what is deferred, done, counted as kept or *)
(* touched by others stays so.                                             *)
LEMMA StepGrows ==
    ASSUME pc = "preflight" => deferrals = {}, [Next]_vars
    PROVE  Grows
  <1>1. ASSUME Preflight PROVE Grows
    BY <1>1
       DEF Preflight, Looks, worldVars, Grows
  <1>2. ASSUME PreDeleteBatch PROVE Grows
    BY <1>2
       DEF PreDeleteBatch, historyVars, worldVars, Grows
  <1>3. ASSUME PreDeleteCheck PROVE Grows
    BY <1>3
       DEF PreDeleteCheck, At, DropCurrent, Looks, Fails, FailsAfter, worldVars, Grows
  <1>4. ASSUME PreDeleteRequest PROVE Grows
    BY <1>4
       DEF PreDeleteRequest, DropCurrent, Fails, FailsAfter, Grows
  <1>5. ASSUME OpenWrites PROVE Grows
    BY <1>5
       DEF OpenWrites, Through, historyVars, worldVars, Grows
  <1>6. ASSUME CreateExcluded PROVE Grows
    BY <1>6
       DEF CreateExcluded, At, DropCurrent, Judged, JudgedWith, FailsAfter, historyVars,
          worldVars, Grows
  <1>7. ASSUME CreateFolder PROVE Grows
    BY <1>7
       DEF CreateFolder, At, DropCurrent, Grows
  <1>8. ASSUME NEW c \in Classes, CreateRefused(c) PROVE Grows
    BY <1>8
       DEF CreateRefused, At, DropCurrent, Judged, JudgedWith, FailsAfter, historyVars, worldVars,
          Grows
  <1>9. ASSUME CopyBatch PROVE Grows
    BY <1>9
       DEF CopyBatch, Through, Judged, JudgedWith, FailsAfter, historyVars, worldVars, Grows
  <1>10. ASSUME CopyCheck PROVE Grows
    BY <1>10
       DEF CopyCheck, At, CopyLeftOut, DropCurrent, Judged, JudgedWith, Fails, FailsAfter, Looks,
          worldVars, Grows
  <1>11. ASSUME CopySucceeds PROVE Grows
    BY <1>11
       DEF CopySucceeds, DropCurrent, Fails, FailsAfter, Grows
  <1>12. ASSUME NEW remains \in {Absent} \cup ForeignEntries, CopyFails(remains) PROVE Grows
    BY <1>12
       DEF CopyFails, historyVars, Grows
  <1>13. ASSUME CopyFallbackCheck PROVE Grows
    BY <1>13
       DEF CopyFallbackCheck, CopyLeftOut, DropCurrent, Judged, JudgedWith, FailsAfter, Looks,
          worldVars, Grows
  <1>14. ASSUME CopyUploadLands PROVE Grows
    BY <1>14
       DEF CopyUploadLands, DropCurrent, Grows
  <1>15. ASSUME NEW c \in Classes \cup {NotRefused}, CopyUploadDeferred(c) PROVE Grows
    BY <1>15
       DEF CopyUploadDeferred, CopyLeftOut, DropCurrent, Judged, JudgedWith, FailsAfter, Grows
  <1>16. ASSUME CopyVerify PROVE Grows
    BY <1>16
       DEF CopyVerify, Through, Judged, JudgedWith, Fails, FailsAfter, historyVars, worldVars,
          Grows
  <1>17. ASSUME NEW a \in open, UploadLook(a) PROVE Grows
    BY <1>17
       DEF UploadLook, Judged, JudgedWith, FailsAfter, Looks, worldVars, Grows
  <1>18. ASSUME NEW a \in inflight, Upload(a) PROVE Grows
    BY <1>18
       DEF Upload, Grows
  <1>19. ASSUME NEW a \in inflight, NEW c \in Classes \cup {NotRefused}, UploadDeferred(a, c) PROVE Grows
    BY <1>19
       DEF UploadDeferred, JudgedWith, FailsAfter, Grows
  <1>20. ASSUME NEW a \in inflight, DrainUpload(a) PROVE Grows
    BY <1>20
       DEF DrainUpload, Grows
  <1>21. ASSUME PostDeleteBatch PROVE Grows
    BY <1>21
       DEF PostDeleteBatch, UploadsSettled, Fails, FailsAfter, historyVars, worldVars, Grows
  <1>22. ASSUME PostDeleteDecide PROVE Grows
    BY <1>22
       DEF PostDeleteDecide, At, KeepDelete, DropCurrent, Looks, worldVars, Grows
  <1>23. ASSUME PostDeleteAbsenceUnknown PROVE Grows
    BY <1>23
       DEF PostDeleteAbsenceUnknown, At, KeepDelete, DropCurrent, historyVars, worldVars, Grows
  <1>24. ASSUME PostDeleteRequest PROVE Grows
    BY <1>24
       DEF PostDeleteRequest, DropCurrent, Grows
  <1>25. ASSUME NEW concernsRun \in BOOLEAN, PostDeleteRefused(concernsRun) PROVE Grows
    BY <1>25
       DEF PostDeleteRefused, KeepDelete, DropCurrent, Fails, FailsAfter, historyVars, worldVars,
          Grows
  <1>26. ASSUME NEW a \in reappeared, ReuploadCheck(a) PROVE Grows
    BY <1>26
       DEF ReuploadCheck, Through, Looks, worldVars, Grows
  <1>27. ASSUME NEW u \in inflight, Reupload(u) PROVE Grows
    BY <1>27
       DEF Reupload, Through, Grows
  <1>28. ASSUME StartRenames PROVE Grows
    BY <1>28
       DEF StartRenames, Through, historyVars, worldVars, Grows
  <1>29. ASSUME Rename PROVE Grows
    BY <1>29
       DEF Rename, At, DropCurrent, Grows
  <1>30. ASSUME RenamePending PROVE Grows
    BY <1>30
       DEF RenamePending, At, DropCurrent, historyVars, worldVars, Grows
  <1>31. ASSUME Complete PROVE Grows
    BY <1>31
       DEF Complete, Through, historyVars, worldVars, Grows
  <1>32. ASSUME FailRun PROVE Grows
    BY <1>32
       DEF FailRun, Fails, FailsAfter, historyVars, worldVars, Grows
  <1>33. ASSUME DeleteAnswerLost PROVE Grows
    BY <1>33
       DEF DeleteAnswerLost, KeepDelete, DropCurrent, Fails, FailsAfter, Grows
  <1>34. ASSUME NEW p \in Paths, NEW e \in ForeignEntries \cup {Absent}, RemoteEdit(p, e) PROVE Grows
    BY <1>34
       DEF RemoteEdit, Grows
  <1>35. ASSUME NEW p \in Paths, NEW e \in LocalEntries \cup {Absent}, LocalEdit(p, e) PROVE Grows
    BY <1>35
       DEF LocalEdit, Grows
  <1>36. ASSUME Stays PROVE Grows
    BY <1>36
       DEF Stays, vars, historyVars, editVars, worldVars, Grows
  <1> QED
    BY <1>1, <1>2, <1>3, <1>4, <1>5, <1>6, <1>7, <1>8, <1>9, <1>10, <1>11, <1>12, <1>13, <1>14,
       <1>15, <1>16, <1>17, <1>18, <1>19, <1>20, <1>21, <1>22, <1>23, <1>24, <1>25, <1>26, <1>27,
       <1>28, <1>29, <1>30, <1>31, <1>32, <1>33, <1>34, <1>35, <1>36 DEF Next, RunStep, Over, Stays

(* Every action goes on in the order of execute_with_observer.             *)
LEMMA StepOnward ==
    ASSUME pc \in Labels, inflight # {} => pc \in {"upload", "drain", "postDelete"}, [Next]_vars
    PROVE  Onward
  <1>1. ASSUME Preflight PROVE Onward
    BY <1>1
       DEF Preflight, Looks, worldVars, Onward, Labels, Before, Writing, Deleting
  <1>2. ASSUME PreDeleteBatch PROVE Onward
    BY <1>2
       DEF PreDeleteBatch, historyVars, worldVars, Onward, Labels, Before, Writing, Deleting
  <1>3. ASSUME PreDeleteCheck PROVE Onward
    BY <1>3
       DEF PreDeleteCheck, At, DropCurrent, Looks, Fails, FailsAfter, worldVars, Onward, Labels,
          Before, Writing, Deleting
  <1>4. ASSUME PreDeleteRequest PROVE Onward
    BY <1>4
       DEF PreDeleteRequest, DropCurrent, Fails, FailsAfter, Onward, Labels, Before, Writing,
          Deleting
  <1>5. ASSUME OpenWrites PROVE Onward
    BY <1>5
       DEF OpenWrites, Through, historyVars, worldVars, Onward, Labels, Before, Writing, Deleting,
          Writes
  <1>6. ASSUME CreateExcluded PROVE Onward
    BY <1>6
       DEF CreateExcluded, At, DropCurrent, Judged, JudgedWith, FailsAfter, historyVars,
          worldVars, Onward, Labels, Before, Writing, Deleting
  <1>7. ASSUME CreateFolder PROVE Onward
    BY <1>7
       DEF CreateFolder, At, DropCurrent, Onward, Labels, Before, Writing, Deleting
  <1>8. ASSUME NEW c \in Classes, CreateRefused(c) PROVE Onward
    BY <1>8
       DEF CreateRefused, At, DropCurrent, Judged, JudgedWith, FailsAfter, historyVars, worldVars,
          Onward, Labels, Before, Writing, Deleting
  <1>9. ASSUME CopyBatch PROVE Onward
    BY <1>9
       DEF CopyBatch, Through, Judged, JudgedWith, FailsAfter, historyVars, worldVars, Onward,
          Labels, Before, Writing, Deleting
  <1>10. ASSUME CopyCheck PROVE Onward
    BY <1>10
       DEF CopyCheck, At, CopyLeftOut, DropCurrent, Judged, JudgedWith, Fails, FailsAfter, Looks,
          worldVars, Onward, Labels, Before, Writing, Deleting
  <1>11. ASSUME CopySucceeds PROVE Onward
    BY <1>11
       DEF CopySucceeds, DropCurrent, Fails, FailsAfter, Onward, Labels, Before, Writing, Deleting
  <1>12. ASSUME NEW remains \in {Absent} \cup ForeignEntries, CopyFails(remains) PROVE Onward
    BY <1>12
       DEF CopyFails, historyVars, Onward, Labels, Before, Writing, Deleting
  <1>13. ASSUME CopyFallbackCheck PROVE Onward
    BY <1>13
       DEF CopyFallbackCheck, CopyLeftOut, DropCurrent, Judged, JudgedWith, FailsAfter, Looks,
          worldVars, Onward, Labels, Before, Writing, Deleting
  <1>14. ASSUME CopyUploadLands PROVE Onward
    BY <1>14
       DEF CopyUploadLands, DropCurrent, Onward, Labels, Before, Writing, Deleting
  <1>15. ASSUME NEW c \in Classes \cup {NotRefused}, CopyUploadDeferred(c) PROVE Onward
    BY <1>15
       DEF CopyUploadDeferred, CopyLeftOut, DropCurrent, Judged, JudgedWith, FailsAfter, Onward,
          Labels, Before, Writing, Deleting
  <1>16. ASSUME CopyVerify PROVE Onward
    BY <1>16
       DEF CopyVerify, Through, Judged, JudgedWith, Fails, FailsAfter, historyVars, worldVars,
          Onward, Labels, Before, Writing, Deleting
  <1>17. ASSUME NEW a \in open, UploadLook(a) PROVE Onward
    BY <1>17
       DEF UploadLook, Judged, JudgedWith, FailsAfter, Looks, worldVars, Onward, Labels, Before,
          Writing, Deleting
  <1>18. ASSUME NEW a \in inflight, Upload(a) PROVE Onward
    BY <1>18
       DEF Upload, Onward, Labels, Before, Writing, Deleting
  <1>19. ASSUME NEW a \in inflight, NEW c \in Classes \cup {NotRefused}, UploadDeferred(a, c) PROVE Onward
    BY <1>19
       DEF UploadDeferred, JudgedWith, FailsAfter, Onward, Labels, Before, Writing, Deleting
  <1>20. ASSUME NEW a \in inflight, DrainUpload(a) PROVE Onward
    BY <1>20
       DEF DrainUpload, Onward, Labels, Before, Writing, Deleting
  <1>21. ASSUME PostDeleteBatch PROVE Onward
    BY <1>21
       DEF PostDeleteBatch, UploadsSettled, Fails, FailsAfter, historyVars, worldVars, Onward,
          Labels, Before, Writing, Deleting
  <1>22. ASSUME PostDeleteDecide PROVE Onward
    BY <1>22
       DEF PostDeleteDecide, At, KeepDelete, DropCurrent, Looks, worldVars, Onward, Labels,
          Before, Writing, Deleting
  <1>23. ASSUME PostDeleteAbsenceUnknown PROVE Onward
    BY <1>23
       DEF PostDeleteAbsenceUnknown, At, KeepDelete, DropCurrent, historyVars, worldVars, Onward,
          Labels, Before, Writing, Deleting
  <1>24. ASSUME PostDeleteRequest PROVE Onward
    BY <1>24
       DEF PostDeleteRequest, DropCurrent, Onward, Labels, Before, Writing, Deleting
  <1>25. ASSUME NEW concernsRun \in BOOLEAN, PostDeleteRefused(concernsRun) PROVE Onward
    BY <1>25
       DEF PostDeleteRefused, KeepDelete, DropCurrent, Fails, FailsAfter, historyVars, worldVars,
          Onward, Labels, Before, Writing, Deleting
  <1>26. ASSUME NEW a \in reappeared, ReuploadCheck(a) PROVE Onward
    BY <1>26
       DEF ReuploadCheck, Through, Looks, worldVars, Onward, Labels, Before, Writing, Deleting
  <1>27. ASSUME NEW u \in inflight, Reupload(u) PROVE Onward
    BY <1>27
       DEF Reupload, Through, Onward, Labels, Before, Writing, Deleting
  <1>28. ASSUME StartRenames PROVE Onward
    BY <1>28
       DEF StartRenames, Through, historyVars, worldVars, Onward, Labels, Before, Writing,
          Deleting
  <1>29. ASSUME Rename PROVE Onward
    BY <1>29
       DEF Rename, At, DropCurrent, Onward, Labels, Before, Writing, Deleting
  <1>30. ASSUME RenamePending PROVE Onward
    BY <1>30
       DEF RenamePending, At, DropCurrent, historyVars, worldVars, Onward, Labels, Before,
          Writing, Deleting
  <1>31. ASSUME Complete PROVE Onward
    BY <1>31
       DEF Complete, Through, historyVars, worldVars, Onward, Labels, Before, Writing, Deleting
  <1>32. ASSUME FailRun PROVE Onward
    BY <1>32
       DEF FailRun, Fails, FailsAfter, historyVars, worldVars, Onward, Labels, Before, Writing,
          Deleting
  <1>33. ASSUME DeleteAnswerLost PROVE Onward
    BY <1>33
       DEF DeleteAnswerLost, KeepDelete, DropCurrent, Fails, FailsAfter, Onward, Labels, Before,
          Writing, Deleting
  <1>34. ASSUME NEW p \in Paths, NEW e \in ForeignEntries \cup {Absent}, RemoteEdit(p, e) PROVE Onward
    BY <1>34
       DEF RemoteEdit, Onward, Labels, Before, Writing, Deleting
  <1>35. ASSUME NEW p \in Paths, NEW e \in LocalEntries \cup {Absent}, LocalEdit(p, e) PROVE Onward
    BY <1>35
       DEF LocalEdit, Onward, Labels, Before, Writing, Deleting
  <1>36. ASSUME Stays PROVE Onward
    BY <1>36
       DEF Stays, vars, historyVars, editVars, worldVars, Onward, Labels, Before, Writing,
          Deleting
  <1> QED
    BY <1>1, <1>2, <1>3, <1>4, <1>5, <1>6, <1>7, <1>8, <1>9, <1>10, <1>11, <1>12, <1>13, <1>14,
       <1>15, <1>16, <1>17, <1>18, <1>19, <1>20, <1>21, <1>22, <1>23, <1>24, <1>25, <1>26, <1>27,
       <1>28, <1>29, <1>30, <1>31, <1>32, <1>33, <1>34, <1>35, <1>36 DEF Next, RunStep, Over, Stays

(***************************************************************************)
(* What a step does to the NAS.                                            *)
(***************************************************************************)

NasQuiet == remote' = remote /\ touched' = touched /\ destroyed' = destroyed

NasEdited ==
    \E p \in Paths, e \in Entries :
        /\ remote' = [remote EXCEPT ![p] = e]
        /\ touched' = touched \cup {p} /\ freshRemote' = freshRemote \cup {p}
        /\ destroyed' = destroyed /\ pc \notin {"end"}
        /\ UNCHANGED <<pc, inflight, open, skipped>> /\ remoteEdits' = remoteEdits + 1

NasDeleted ==
    /\ pc \in {"preDeleteRequest", "postDeleteRequest"}
    /\ remote' = [remote EXCEPT ![Current.path] = Absent]
    /\ touched' = touched
    /\ \E back \in BOOLEAN :
          /\ Destroys(Current.path, Current.snap, back)
          /\ back => pc = "postDeleteRequest" /\ LocalBack(Current)

(* A folder or a server copy, where there is no file.                      *)
NasAdded ==
    \E p \in Paths, e \in Entries \ {Absent} :
        /\ pc \in {"create", "copyRequest"} /\ p = Current.dest
        /\ pc = "create" => todo # {} /\ ~Covered(Current.rel)
        /\ remote[p].kind # "file"
        /\ remote' = WithParents(remote, p, e)
        /\ touched' = touched /\ destroyed' = destroyed

(* An upload in flight, or the fallback of a copy.  A run that is failing  *)
(* only ends those that land.                                              *)
Uploading == inflight \cup IF pc = "copyUpload" THEN {Current} ELSE {}

NasUploaded ==
    \E a \in Uploading :
        /\ UploadStreams(a) /\ UploadWrites(a)
        /\ touched' = touched
        /\ pc \in {"copyUpload", "upload", "drain", "postDelete"}
        /\ pc = "drain" => local[a.src].body = a.local.body
        /\ a \notin inflight' /\ skipped' = skipped

NasRenamed == pc = "rename" /\ Rename

NasStep == NasQuiet \/ NasEdited \/ NasDeleted \/ NasAdded \/ NasUploaded \/ NasRenamed

(* The six things are all there is.                                        *)
LEMMA StepOnNas ==
    ASSUME TypeOK, FlightInv, [Next]_vars
    PROVE  NasStep
  <1>1. ASSUME Preflight PROVE NasQuiet
    BY <1>1
       DEF Preflight, Looks, worldVars, NasQuiet
  <1>2. ASSUME PreDeleteBatch PROVE NasQuiet
    BY <1>2
       DEF PreDeleteBatch, historyVars, worldVars, NasQuiet
  <1>3. ASSUME PreDeleteCheck PROVE NasQuiet
    BY <1>3
       DEF PreDeleteCheck, At, DropCurrent, Looks, Fails, FailsAfter, worldVars, NasQuiet
  <1>4. ASSUME PreDeleteRequest PROVE NasQuiet \/ NasDeleted
    BY <1>4
       DEF PreDeleteRequest, DropCurrent, Fails, FailsAfter, NasQuiet, NasDeleted
  <1>5. ASSUME OpenWrites PROVE NasQuiet
    BY <1>5
       DEF OpenWrites, Through, historyVars, worldVars, NasQuiet
  <1>6. ASSUME CreateExcluded PROVE NasQuiet
    BY <1>6
       DEF CreateExcluded, At, DropCurrent, Judged, JudgedWith, FailsAfter, historyVars,
          worldVars, NasQuiet
  <1>7. ASSUME CreateFolder PROVE NasAdded
    BY <1>7, AtHandHolds, PlanHolds
       DEF CreateFolder, At, DropCurrent, NasAdded, AtHand, Planned, Entries, Dir, Absent, Entry
  <1>8. ASSUME NEW c \in Classes, CreateRefused(c) PROVE NasQuiet
    BY <1>8
       DEF CreateRefused, At, DropCurrent, Judged, JudgedWith, FailsAfter, historyVars, worldVars,
          NasQuiet
  <1>9. ASSUME CopyBatch PROVE NasQuiet
    BY <1>9
       DEF CopyBatch, Through, Judged, JudgedWith, FailsAfter, historyVars, worldVars, NasQuiet
  <1>10. ASSUME CopyCheck PROVE NasQuiet
    BY <1>10
       DEF CopyCheck, At, CopyLeftOut, DropCurrent, Judged, JudgedWith, Fails, FailsAfter, Looks,
          worldVars, NasQuiet
  <1>11. ASSUME CopySucceeds PROVE NasAdded
    BY <1>11, AtHandHolds, PlanHolds
       DEF CopySucceeds, DropCurrent, Fails, FailsAfter, NasAdded, AtHand, Planned, TypeOK,
          Absent, Entry
  <1>12. ASSUME NEW remains \in {Absent} \cup ForeignEntries, CopyFails(remains) PROVE NasQuiet \/ NasAdded
    BY <1>12, AtHandHolds, PlanHolds, TreeAssumption
       DEF CopyFails, historyVars, NasQuiet, NasAdded, AtHand, Planned, Absent, Entry
  <1>13. ASSUME CopyFallbackCheck PROVE NasQuiet
    BY <1>13
       DEF CopyFallbackCheck, CopyLeftOut, DropCurrent, Judged, JudgedWith, FailsAfter, Looks,
          worldVars, NasQuiet
  <1>14. ASSUME CopyUploadLands PROVE NasUploaded
    BY <1>14
       DEF CopyUploadLands, DropCurrent, NasUploaded, Uploading, UploadLands, UploadDirties,
          FlightInv
  <1>15. ASSUME NEW c \in Classes \cup {NotRefused}, CopyUploadDeferred(c) PROVE NasQuiet \/ NasUploaded
    BY <1>15
       DEF CopyUploadDeferred, CopyLeftOut, DropCurrent, Judged, JudgedWith, FailsAfter, NasQuiet,
          NasUploaded, Uploading, UploadLands, UploadDirties, FlightInv
  <1>16. ASSUME CopyVerify PROVE NasQuiet
    BY <1>16
       DEF CopyVerify, Through, Judged, JudgedWith, Fails, FailsAfter, historyVars, worldVars,
          NasQuiet
  <1>17. ASSUME NEW a \in open, UploadLook(a) PROVE NasQuiet
    BY <1>17
       DEF UploadLook, Judged, JudgedWith, FailsAfter, Looks, worldVars, NasQuiet
  <1>18. ASSUME NEW a \in inflight, Upload(a) PROVE NasUploaded
    BY <1>18
       DEF Upload, NasUploaded, Uploading, UploadLands, UploadDirties, FlightInv
  <1>19. ASSUME NEW a \in inflight, NEW c \in Classes \cup {NotRefused}, UploadDeferred(a, c) PROVE NasQuiet \/ NasUploaded
    BY <1>19
       DEF UploadDeferred, JudgedWith, FailsAfter, NasQuiet, NasUploaded, Uploading, UploadLands,
          UploadDirties, FlightInv
  <1>20. ASSUME NEW a \in inflight, DrainUpload(a) PROVE NasQuiet \/ NasUploaded
    BY <1>20
       DEF DrainUpload, NasQuiet, NasUploaded, Uploading, UploadLands, UploadDirties, FlightInv
  <1>21. ASSUME PostDeleteBatch PROVE NasQuiet
    BY <1>21
       DEF PostDeleteBatch, UploadsSettled, Fails, FailsAfter, historyVars, worldVars, NasQuiet
  <1>22. ASSUME PostDeleteDecide PROVE NasQuiet
    BY <1>22
       DEF PostDeleteDecide, At, KeepDelete, DropCurrent, Looks, worldVars, NasQuiet
  <1>23. ASSUME PostDeleteAbsenceUnknown PROVE NasQuiet
    BY <1>23
       DEF PostDeleteAbsenceUnknown, At, KeepDelete, DropCurrent, historyVars, worldVars, NasQuiet
  <1>24. ASSUME PostDeleteRequest PROVE NasDeleted
    BY <1>24
       DEF PostDeleteRequest, DropCurrent, NasDeleted, LocalBack
  <1>25. ASSUME NEW concernsRun \in BOOLEAN, PostDeleteRefused(concernsRun) PROVE NasQuiet
    BY <1>25
       DEF PostDeleteRefused, KeepDelete, DropCurrent, Fails, FailsAfter, historyVars, worldVars,
          NasQuiet
  <1>26. ASSUME NEW a \in reappeared, ReuploadCheck(a) PROVE NasQuiet
    BY <1>26
       DEF ReuploadCheck, Through, Looks, worldVars, NasQuiet
  <1>27. ASSUME NEW u \in inflight, Reupload(u) PROVE NasQuiet \/ NasUploaded
    BY <1>27
       DEF Reupload, Through, NasQuiet, NasUploaded, Uploading, UploadLands, UploadDirties,
          FlightInv
  <1>28. ASSUME StartRenames PROVE NasQuiet
    BY <1>28
       DEF StartRenames, Through, historyVars, worldVars, NasQuiet
  <1>29. ASSUME Rename PROVE NasRenamed
    BY <1>29
       DEF Rename, At, DropCurrent, NasRenamed
  <1>30. ASSUME RenamePending PROVE NasQuiet
    BY <1>30
       DEF RenamePending, At, DropCurrent, historyVars, worldVars, NasQuiet
  <1>31. ASSUME Complete PROVE NasQuiet
    BY <1>31
       DEF Complete, Through, historyVars, worldVars, NasQuiet
  <1>32. ASSUME FailRun PROVE NasQuiet
    BY <1>32
       DEF FailRun, Fails, FailsAfter, historyVars, worldVars, NasQuiet
  <1>33. ASSUME DeleteAnswerLost PROVE NasDeleted
    BY <1>33
       DEF DeleteAnswerLost, KeepDelete, DropCurrent, Fails, FailsAfter, NasDeleted, LocalBack
  <1>34. ASSUME NEW p \in Paths, NEW e \in ForeignEntries \cup {Absent}, RemoteEdit(p, e) PROVE NasEdited
    BY <1>34, TreeAssumption
       DEF RemoteEdit, NasEdited, Entries
  <1>35. ASSUME NEW p \in Paths, NEW e \in LocalEntries \cup {Absent}, LocalEdit(p, e) PROVE NasQuiet
    BY <1>35
       DEF LocalEdit, NasQuiet
  <1>36. ASSUME Stays PROVE NasQuiet
    BY <1>36
       DEF Stays, vars, historyVars, editVars, worldVars, NasQuiet
  <1> QED
    BY <1>1, <1>2, <1>3, <1>4, <1>5, <1>6, <1>7, <1>8, <1>9, <1>10, <1>11, <1>12, <1>13, <1>14,
       <1>15, <1>16, <1>17, <1>18, <1>19, <1>20, <1>21, <1>22, <1>23, <1>24, <1>25, <1>26, <1>27,
       <1>28, <1>29, <1>30, <1>31, <1>32, <1>33, <1>34, <1>35, <1>36 DEF Next, RunStep, Over, Stays, NasStep

(***************************************************************************)
(* Entries, before and after a step.                                       *)
(***************************************************************************)

(* An entry is nothing, a folder or a file; only a file has a body.        *)
LEMMA EntryIs ==
    ASSUME NEW e \in Entries
    PROVE  /\ e.kind = "file" <=> e \in Files
           /\ e.kind \notin {"file", "dir"} => e = Absent
           /\ e.body # 0 => e.kind = "file"
           /\ e.kind = "file" => e # Absent /\ e.body # 0
           /\ Absent.kind = "absent" /\ Absent \in Entries
  BY DEF Entries, Files, Absent, Dir, Entry

(* Writing one entry adds folders where there was nothing.                 *)
LEMMA WithParentsIs ==
    ASSUME NEW tree \in [Paths -> Entries], NEW p \in Paths, NEW e \in Entries
    PROVE  /\ WithParents(tree, p, e) \in [Paths -> Entries]
           /\ WithParents(tree, p, e)[p] = e
           /\ \A q \in Paths : q # p /\ tree[q] # Absent => WithParents(tree, p, e)[q] = tree[q]
           /\ \A q \in Paths : q # p => WithParents(tree, p, e)[q] \in {tree[q], Dir}
           /\ Dir.kind = "dir" /\ Dir # Absent /\ Dir \in Entries
  BY DEF WithParents, Entries, Dir, Absent, Entry

(* What is being uploaded: a planned write, or a file that is back.        *)
LEMMA UploadingIs ==
    ASSUME TypeOK, FlightInv, NEW a \in Uploading,
           pc \in {"copyUpload", "upload", "drain", "postDelete"}
    PROVE  /\ a.src \in Paths /\ a.dest \in Paths /\ a.local \in Files
           /\ a \in Writes(plan) \/ CarriesBack(a)
           /\ pc \in {"copyUpload", "upload"} => a \in Writes(plan)
           /\ pc = "postDelete" => CarriesBack(a)
  <1>1. CASE pc = "copyUpload"
    BY <1>1, AtHandHolds, PlanHolds DEF Uploading, FlightInv, AtHand, Planned
  <1>2. CASE pc # "copyUpload"
    BY <1>2 DEF Uploading, FlightInv
  <1> QED
    BY <1>1, <1>2

(* What an upload streams is a file.                                       *)
LEMMA StreamIs ==
    ASSUME TypeOK, NEW a, a.src \in Paths, a.local \in Files, UploadStreams(a)
    PROVE  local[a.src] \in Entries /\ local[a.src] \in Files /\ local[a.src] # Absent
  BY EntryIs DEF TypeOK, UploadStreams, MetadataMatches, Files

(* What an upload does: a file replaces a file or nothing.                 *)
LEMMA UploadedIs ==
    ASSUME TypeOK, FlightInv, NasUploaded
    PROVE  \E a \in Uploading, q \in Paths, e \in Entries :
              /\ q = a.dest /\ e \in Files /\ e # Absent
              /\ remote' = WithParents(remote, q, e)
              /\ Destroys(q, a.expected, FALSE)
              /\ remote[q].kind # "dir" /\ touched' = touched /\ skipped' = skipped
              /\ pc \in {"copyUpload", "upload", "drain", "postDelete"}
              /\ a \in Writes(plan) \/ CarriesBack(a)
              /\ pc \in {"copyUpload", "upload"} => a \in Writes(plan)
              /\ pc = "postDelete" => CarriesBack(a)
              /\ pc = "drain" => e.body = a.local.body
  <1>1. PICK a \in Uploading :
           /\ UploadStreams(a) /\ UploadWrites(a)
           /\ touched' = touched /\ skipped' = skipped
           /\ pc \in {"copyUpload", "upload", "drain", "postDelete"}
           /\ pc = "drain" => local[a.src].body = a.local.body
    BY DEF NasUploaded
  <1>2. a.dest \in Paths /\ local[a.src] \in Entries /\ local[a.src] \in Files /\ local[a.src] # Absent
    BY <1>1, UploadingIs, StreamIs
  <1>3. remote' = WithParents(remote, a.dest, local[a.src]) /\ Destroys(a.dest, a.expected, FALSE)
    BY <1>1 DEF UploadWrites
  <1>4. remote[a.dest].kind # "dir"
    BY <1>1 DEF UploadStreams
  <1>5. /\ a \in Writes(plan) \/ CarriesBack(a)
        /\ pc \in {"copyUpload", "upload"} => a \in Writes(plan)
        /\ pc = "postDelete" => CarriesBack(a)
    BY <1>1, UploadingIs
  <1> QED
    BY <1>1, <1>2, <1>3, <1>4, <1>5

(* The actions of the plan that a step may delete or write.                *)
LEMMA RequestedIs ==
    ASSUME TypeOK, pc \in {"preDeleteRequest", "postDeleteRequest"}
    PROVE  Current.path \in Paths /\ Current.localPath \in Paths /\ Current.snap \in Snapshots
  BY AtHandHolds, PlanHolds DEF AtHand, Planned

(* Every step leaves a tree.                                               *)
LEMMA NasTyped ==
    ASSUME TypeOK, FlightInv, NasStep
    PROVE  remote' \in [Paths -> Entries]
  <1> remote \in [Paths -> Entries] /\ Absent \in Entries
    BY DEF TypeOK, Entries
  <1>1. CASE NasQuiet
    BY <1>1 DEF NasQuiet
  <1>2. CASE NasEdited
    BY <1>2 DEF NasEdited
  <1>3. CASE NasDeleted
    BY <1>3 DEF NasDeleted
  <1>4. CASE NasAdded
    BY <1>4, WithParentsIs DEF NasAdded
  <1>5. CASE NasUploaded
    <2>1. PICK q \in Paths, e \in Entries : remote' = WithParents(remote, q, e)
      BY <1>5, UploadedIs
    <2> QED
      BY <2>1, WithParentsIs
  <1>6. CASE NasRenamed
    BY <1>6, AtHandHolds, PlanHolds DEF NasRenamed, Rename, At, AtHand, Planned
  <1> QED
    BY <1>1, <1>2, <1>3, <1>4, <1>5, <1>6 DEF NasStep

(* Unless it is deleted, what is there stays there: no upload, copy or new *)
(* folder leaves nothing.                                                  *)
Requested == IF pc \in {"preDeleteRequest", "postDeleteRequest"} THEN {Current.path} ELSE {}

LEMMA PresentStays ==
    ASSUME TypeOK, FlightInv, NasStep, pc # "rename",
           NEW p \in Paths, p \notin touched', p \notin Requested, remote[p] # Absent
    PROVE  remote'[p] # Absent
  <1> remote \in [Paths -> Entries] /\ Absent \in Entries
    BY DEF TypeOK, Entries
  <1>1. CASE NasQuiet
    BY <1>1 DEF NasQuiet
  <1>2. CASE NasEdited
    BY <1>2 DEF NasEdited
  <1>3. CASE NasDeleted
    BY <1>3 DEF NasDeleted, Requested
  <1>4. CASE NasAdded
    BY <1>4, WithParentsIs DEF NasAdded
  <1>5. CASE NasUploaded
    <2>1. PICK q \in Paths, e \in Entries :
             e # Absent /\ remote' = WithParents(remote, q, e)
      BY <1>5, UploadedIs
    <2> QED
      BY <2>1, WithParentsIs
  <1> QED
    BY <1>1, <1>2, <1>3, <1>4, <1>5 DEF NasStep, NasRenamed

(* A file stays as it is unless it is deleted or uploaded over.            *)
LEMMA FileStays ==
    ASSUME TypeOK, FlightInv, NasStep, pc # "rename",
           NEW p \in Paths, p \notin touched', p \notin Requested, remote[p].kind = "file",
           NasUploaded => \A a \in Uploading : a.dest # p
    PROVE  remote'[p] = remote[p]
  <1> remote \in [Paths -> Entries] /\ Absent \in Entries /\ remote[p] # Absent
    BY EntryIs DEF TypeOK, Entries
  <1>1. CASE NasQuiet
    BY <1>1 DEF NasQuiet
  <1>2. CASE NasEdited
    BY <1>2 DEF NasEdited
  <1>3. CASE NasDeleted
    BY <1>3 DEF NasDeleted, Requested
  <1>4. CASE NasAdded
    <2>1. PICK q \in Paths, e \in Entries \ {Absent} :
             remote[q].kind # "file" /\ remote' = WithParents(remote, q, e)
      BY <1>4 DEF NasAdded
    <2>2. p # q
      BY <2>1
    <2> QED
      BY <2>1, <2>2, WithParentsIs
  <1>5. CASE NasUploaded
    <2>1. PICK a \in Uploading, q \in Paths, e \in Entries :
             q = a.dest /\ remote' = WithParents(remote, q, e)
      BY <1>5, UploadedIs
    <2>2. p # q
      BY <1>5, <2>1
    <2> QED
      BY <2>1, <2>2, WithParentsIs
  <1> QED
    BY <1>1, <1>2, <1>3, <1>4, <1>5 DEF NasStep, NasRenamed

(***************************************************************************)
(* The entries to delete and the ones that replace them.                   *)
(***************************************************************************)

(* The requests that delete: before the writes, entries whose path is not  *)
(* deleted again; after them, entries of postDeletes.                      *)
LEMMA RequestedPath ==
    ASSUME TypeOK, NEW d \in Elements(plan.postDeletes), d.path \in Requested
    PROVE  pc = "postDeleteRequest" /\ Current = d
  <1>1. pc \in {"preDeleteRequest", "postDeleteRequest"} /\ d.path = Current.path
    BY DEF Requested
  <1> QED
    BY <1>1, AtHandHolds, PlanHolds DEF AtHand, Planned

(* A planned write is not deleted after the writes.                        *)
LEMMA WrittenNotRequested ==
    ASSUME TypeOK, NEW a \in Writes(plan), a.dest \in Requested
    PROVE  pc = "preDeleteRequest"
  <1>1. pc \in {"preDeleteRequest", "postDeleteRequest"} /\ a.dest = Current.path
    BY DEF Requested
  <1> QED
    BY <1>1, AtHandHolds, PlanHolds DEF AtHand, Planned

(* A guard is a planned copy, with content.                                *)
LEMMA GuardIs ==
    ASSUME TypeOK, NEW d \in Elements(plan.postDeletes), NEW g \in d.guards
    PROVE  /\ g \in Writes(plan) /\ g \in Elements(plan.copies) /\ g.dest \in Paths
           /\ g.local.body # 0 /\ g.dest # d.path
  BY PlanHolds DEF Planned, Writes, Files

(* What has the content of a guard is a file.                              *)
LEMMA ContentIsFile ==
    ASSUME TypeOK, NEW d \in Elements(plan.postDeletes), NEW g \in d.guards,
           NEW p \in Paths, remote[p].body = g.local.body
    PROVE  remote[p].kind = "file" /\ remote[p] # Absent
  <1>1. remote[p] \in Entries
    BY DEF TypeOK
  <1> QED
    BY <1>1, GuardIs, EntryIs

LEMMA DeletePathIs ==
    ASSUME TypeOK, NEW d \in Elements(plan.postDeletes)
    PROVE  d.path \in Paths /\ d.path \in Spellings(d.path)
  BY PlanHolds DEF Planned, Spellings

LEMMA WritePathIs ==
    ASSUME TypeOK, NEW a \in Writes(plan)
    PROVE  /\ a.dest \in Paths /\ a.dest \in Spellings(a.dest)
           /\ \A d \in Elements(plan.postDeletes) : a.dest # d.path
           /\ \A b \in Writes(plan) : a.dest = b.dest => a = b
  BY PlanHolds DEF Planned, Spellings

(* Until deletions begin, the entries to delete stand: KeptInv is kept.    *)
LEMMA StepKept ==
    ASSUME TypeOK, FlightInv, KeptInv, Onward, Grows, NasStep
    PROVE  KeptInv'
  <1> SUFFICES ASSUME pc' \in Before \cup Writing, NEW d \in Elements(plan.postDeletes),
                      d.path \notin touched'
               PROVE  /\ remote'[d.path] # Absent
                      /\ \A g \in d.guards : remote'[d.path].body = g.local.body
    BY DEF KeptInv, Grows
  <1>1. pc \in Before \cup Writing /\ pc # "rename"
    BY DEF Onward, Before, Writing
  <1>2. d.path \notin touched
    BY DEF Grows
  <1>3. d.path \in Paths /\ d.path \notin Requested
    BY <1>1, RequestedPath, DeletePathIs DEF Before, Writing
  <1>4. remote[d.path] # Absent /\ \A g \in d.guards : remote[d.path].body = g.local.body
    BY <1>1, <1>2 DEF KeptInv
  <1>5. remote'[d.path] # Absent
    BY <1>1, <1>3, <1>4, PresentStays
  <1>6. ASSUME NEW g \in d.guards PROVE remote'[d.path].body = g.local.body
    <2>1. remote[d.path].kind = "file"
      BY <1>3, <1>4, <1>6, ContentIsFile
    <2>2. ASSUME NasUploaded, NEW a \in Uploading PROVE a.dest # d.path
      <3>1. pc \in {"copyUpload", "upload"}
        BY <1>1, <2>2, UploadedIs DEF Before, Writing
      <3> QED
        BY <2>2, <3>1, UploadingIs, WritePathIs
    <2> QED
      BY <1>1, <1>3, <1>4, <2>1, <2>2, FileStays
  <1> QED
    BY <1>5, <1>6

(* As long as nothing is renamed, one of the two paths of a replaced entry *)
(* stands after every step: the new one is done before the old one is      *)
(* deleted, and nothing but the deletion takes what is done.               *)
LEMMA StepPairStands ==
    ASSUME IInv, Onward, Grows, NasStep, pc \notin {"rename", "end"},
           NEW d \in Elements(plan.postDeletes), NEW u \in plan.uploads,
           Fold[u.dest] = Fold[d.path], Spellings(d.path) \cap touched' = {}
    PROVE  remote'[u.dest] # Absent \/ remote'[d.path] # Absent
  <1> TypeOK /\ FlightInv /\ RequestInv /\ WritesInv /\ KeptInv /\ StandsAsPlanned
    BY DEF IInv, SpellingInv
  <1>1. u \in Writes(plan)
    BY DEF Writes
  <1>2. u.dest \in Paths /\ d.path \in Paths /\ u.dest # d.path
    BY <1>1, WritePathIs, DeletePathIs
  <1>3. Untouched(Spellings(d.path)) /\ Spellings(u.dest) = Spellings(d.path)
        /\ u.dest \notin touched' /\ d.path \notin touched'
    BY <1>2 DEF Untouched, Spellings, Grows
  <1>4. remote[u.dest] # Absent \/ remote[d.path] # Absent
    BY <1>3 DEF StandsAsPlanned
  <1>5. CASE d.path \notin Requested /\ u.dest \notin Requested
    BY <1>2, <1>3, <1>4, <1>5, PresentStays
  <1>6. CASE d.path \in Requested
    <2>1. pc = "postDeleteRequest" /\ Current = d
      BY <1>6, RequestedPath
    <2>2. ~SpellingRelated(d.path)
      BY <2>1 DEF RequestInv
    <2>3. ~Covered(u.rel)
      <3>1. u.rel \in Paths /\ Fold[u.rel] = Fold[d.path]
        BY <1>1, PlanHolds DEF Planned
      <3>2. {Fold[b] : b \in Above[u.rel]} = {Fold[b] : b \in Above[d.path]}
        BY <1>2, <3>1, TreeAssumption
      <3> QED
        BY <2>2, <3>1, <3>2 DEF Covered, SpellingRelated
    <2>4. u \in done
      BY <1>1, <2>1, <2>3 DEF WritesInv, Deleting
    <2>5. remote[u.dest] # Absent
      BY <1>3, <2>1, <2>4 DEF WritesInv
    <2>6. u.dest \notin Requested
      BY <1>1, <2>1, WrittenNotRequested
    <2> QED
      BY <1>2, <1>3, <2>1, <2>5, <2>6, PresentStays
  <1>7. CASE d.path \notin Requested /\ u.dest \in Requested
    <2>1. pc = "preDeleteRequest"
      BY <1>1, <1>7, WrittenNotRequested
    <2>2. d.path \notin touched
      BY <1>3 DEF Grows
    <2>3. remote[d.path] # Absent
      BY <2>1, <2>2 DEF KeptInv, Before
    <2> QED
      BY <1>2, <1>3, <1>7, <2>1, <2>3, PresentStays
  <1> QED
    BY <1>5, <1>6, <1>7

(* Likewise the content of a deletion that copies guard: it stands at the  *)
(* path or at the guard, or the local file that is back replaces it.       *)
LEMMA StepContentStands ==
    ASSUME IInv, Onward, Grows, NasStep, pc \notin {"rename", "end"},
           NEW d \in Elements(plan.postDeletes), NEW g \in d.guards,
           (Spellings(d.path) \cup Spellings(g.dest)) \cap touched' = {}
    PROVE  \/ remote'[d.path].body = g.local.body \/ remote'[g.dest].body = g.local.body
           \/ d.path \in skipped' /\ remote'[d.path].kind = "file"
  <1> TypeOK /\ FlightInv /\ RequestInv /\ KeptInv /\ StandsAsPlanned
    BY DEF IInv, SpellingInv
  <1>1. g \in Writes(plan) /\ g.dest \in Paths /\ d.path \in Paths /\ g.dest # d.path
    BY GuardIs, DeletePathIs
  <1>2. d.path \notin touched' /\ g.dest \notin touched' /\ d.path \notin touched /\ g.dest \notin touched
    BY <1>1, WritePathIs, DeletePathIs DEF Grows
  <1>3. \/ remote[d.path].body = g.local.body \/ remote[g.dest].body = g.local.body
        \/ d.path \in skipped /\ remote[d.path].kind = "file"
    BY DEF StandsAsPlanned, Untouched, Grows
  <1>4. \A p \in {d.path, g.dest} : remote[p].body = g.local.body => remote[p].kind = "file"
    BY <1>1, ContentIsFile
  <1>5. pc # "rename" /\ \A p \in {d.path, g.dest} : remote[p].kind = "file" => remote[p] # Absent
    BY <1>1, EntryIs DEF TypeOK
  <1>6. CASE ~NasUploaded
    <2>1. CASE d.path \in Requested
      <3>1. pc = "postDeleteRequest" /\ Current = d
        BY <2>1, RequestedPath
      <3>2. remote[g.dest].body = g.local.body
        BY <1>2, <3>1 DEF RequestInv
      <3>3. g.dest \notin Requested
        BY <1>1, <3>1, WrittenNotRequested
      <3> QED
        BY <1>1, <1>2, <1>4, <1>5, <1>6, <3>2, <3>3, FileStays
    <2>2. CASE g.dest \in Requested
      <3>1. pc = "preDeleteRequest"
        BY <1>1, <2>2, WrittenNotRequested
      <3>2. remote[d.path].body = g.local.body
        BY <1>2, <3>1 DEF KeptInv, Before
      <3>3. d.path \notin Requested
        BY <3>1, RequestedPath
      <3> QED
        BY <1>1, <1>2, <1>4, <1>5, <1>6, <3>2, <3>3, FileStays
    <2>3. CASE {d.path, g.dest} \cap Requested = {}
      <3>1. \A p \in {d.path, g.dest} : remote[p].kind = "file" => remote'[p] = remote[p]
        BY <1>1, <1>2, <1>5, <1>6, <2>3, FileStays
      <3> QED
        BY <1>3, <1>4, <3>1 DEF Grows
    <2> QED
      BY <2>1, <2>2, <2>3
  <1>7. CASE NasUploaded
    <2>1. PICK a \in Uploading, q \in Paths, e \in Entries :
             /\ q = a.dest /\ e \in Files
             /\ remote' = WithParents(remote, q, e) /\ skipped' = skipped
             /\ pc \in {"copyUpload", "upload", "drain", "postDelete"}
             /\ a \in Writes(plan) \/ CarriesBack(a)
             /\ pc \in {"copyUpload", "upload"} => a \in Writes(plan)
             /\ pc = "postDelete" => CarriesBack(a)
             /\ pc = "drain" => e.body = a.local.body
      BY <1>7, UploadedIs
    <2>2. \A p \in {d.path, g.dest} : p # q /\ remote[p].kind = "file" => remote'[p] = remote[p]
      <3>1. remote \in [Paths -> Entries]
        BY DEF TypeOK
      <3>2. ASSUME NEW p \in Paths, p # q, remote[p] # Absent PROVE remote'[p] = remote[p]
        BY <2>1, <3>1, <3>2, WithParentsIs
      <3> QED
        BY <1>1, <1>5, <3>2
    <2>3. remote'[q] = e /\ e.kind = "file"
      <3>1. remote \in [Paths -> Entries]
        BY DEF TypeOK
      <3>2. remote'[q] = e
        BY <2>1, <3>1, WithParentsIs
      <3> QED
        BY <2>1, <3>2 DEF Files
    <2>4. CASE q = d.path
      <3>1. a \notin Writes(plan)
        BY <2>1, <2>4, WritePathIs
      <3> QED
        BY <2>1, <2>3, <2>4, <3>1 DEF CarriesBack
    <2>5. CASE q = g.dest
      <3>1. ~CarriesBack(a)
        BY <1>1, <2>1, <2>5, WritePathIs DEF CarriesBack
      <3>2. a = g
        BY <1>1, <2>1, <2>5, <3>1, WritePathIs
      <3>3. CASE pc = "drain"
        BY <2>1, <2>3, <2>5, <3>2, <3>3
      <3>4. CASE pc \in {"copyUpload", "upload"}
        <4>1. remote[d.path].body = g.local.body
          BY <1>2, <3>4 DEF KeptInv, Writing
        <4> QED
          BY <1>1, <1>4, <2>2, <2>5, <4>1
      <3> QED
        BY <2>1, <3>1, <3>3, <3>4
    <2>6. CASE q \notin {d.path, g.dest}
      BY <1>3, <1>4, <2>1, <2>2, <2>6
    <2> QED
      BY <2>4, <2>5, <2>6
  <1> QED
    BY <1>6, <1>7

(* A case-only rename moves what is there to another spelling of its path. *)
LEMMA RenameMoves ==
    ASSUME TypeOK, NasRenamed, NEW p \in Paths, remote[p] # Absent
    PROVE  \E q \in Spellings(p) : remote'[q] = remote[p]
  <1>1. At("rename") /\ pc = "rename"
    BY DEF NasRenamed, Rename
  <1>2. PICK r \in Elements(plan.renames) : r = Current
    BY <1>1, AtHandHolds DEF AtHand, At
  <1> DEFINE m == r.moves
  <1>3. /\ m \in [DOMAIN m -> Paths \ DOMAIN m] /\ DOMAIN m \subseteq Paths
        /\ \A x \in DOMAIN m : Fold[m[x]] = Fold[x]
        /\ \A x, y \in DOMAIN m : m[x] = m[y] => x = y
    BY <1>2, PlanHolds DEF Planned
  <1>4. /\ \A x \in DOMAIN m : remote[m[x]] = Absent
        /\ remote' = [x \in Paths |->
                       IF x \in DOMAIN m THEN Absent
                       ELSE IF \E y \in DOMAIN m : m[y] = x
                       THEN remote[CHOOSE y \in DOMAIN m : m[y] = x]
                       ELSE remote[x]]
    BY <1>2 DEF NasRenamed, Rename
  <1> HIDE DEF m
  <1>5. CASE p \in DOMAIN m
    <2>1. m[p] \in Paths /\ m[p] \notin DOMAIN m /\ Fold[m[p]] = Fold[p]
      BY <1>3, <1>5
    <2>2. (CHOOSE y \in DOMAIN m : m[y] = m[p]) = p
      BY <1>3, <1>5
    <2>3. remote'[m[p]] = remote[p]
      BY <1>4, <1>5, <2>1, <2>2
    <2> QED
      BY <2>1, <2>3 DEF Spellings
  <1>6. CASE p \notin DOMAIN m
    <2>1. ~\E y \in DOMAIN m : m[y] = p
      BY <1>4
    <2> QED
      BY <1>4, <1>6, <2>1 DEF Spellings
  <1> QED
    BY <1>5, <1>6

(* From the renames on, what another writer leaves alone keeps its entry   *)
(* under some spelling.                                                    *)
LEMMA SpellingKept ==
    ASSUME TypeOK, NasStep, pc \in {"rename", "end"},
           NEW p \in Paths, remote[p] # Absent, Spellings(p) \cap touched' = {}
    PROVE  \E q \in Spellings(p) : remote'[q] = remote[p]
  <1>1. p \in Spellings(p)
    BY DEF Spellings
  <1>2. CASE NasQuiet
    BY <1>1, <1>2 DEF NasQuiet
  <1>3. CASE NasEdited
    <2>1. remote \in [Paths -> Entries]
      BY DEF TypeOK
    <2>2. remote'[p] = remote[p]
      BY <1>1, <1>3, <2>1 DEF NasEdited
    <2> QED
      BY <1>1, <2>2
  <1>4. CASE NasRenamed
    BY <1>4, RenameMoves
  <1> QED
    BY <1>2, <1>3, <1>4 DEF NasStep, NasDeleted, NasAdded, NasUploaded, Writing

(***************************************************************************)
(* The parts of the invariant that speak of entries.                       *)
(***************************************************************************)

LEMMA SpellingsIs ==
    ASSUME NEW p \in Paths, NEW q \in Spellings(p)
    PROVE  q \in Paths /\ Fold[q] = Fold[p] /\ Spellings(q) = Spellings(p)
  BY DEF Spellings

(* SpellingInv is kept: before the renames by the two lemmas on pairs,     *)
(* from then on because whatever stood under one spelling stands under one.*)
LEMMA StepSpelling ==
    ASSUME IInv, Onward, Grows, NasStep
    PROVE  SpellingInv'
  <1> TypeOK /\ SpellingInv
    BY DEF IInv
  <1>1. CASE pc \notin {"rename", "end"}
    <2>1. StandsAsPlanned'
      BY <1>1, StepPairStands, StepContentStands DEF StandsAsPlanned, Untouched, Grows
    <2>2. OneSpellingSurvives'
      <3>1. ASSUME NEW d \in Elements(plan.postDeletes), NEW u \in plan.uploads,
                   Fold[u.dest] = Fold[d.path], Spellings(d.path) \cap touched' = {}
            PROVE  \E p \in Spellings(d.path) : remote'[p] # Absent
        <4>1. u.dest \in Spellings(d.path) /\ d.path \in Spellings(d.path)
          <5>1. u \in Writes(plan)
            BY DEF Writes
          <5> QED
            BY <3>1, <5>1, WritePathIs, DeletePathIs DEF Spellings
        <4>2. remote'[u.dest] # Absent \/ remote'[d.path] # Absent
          BY <1>1, <3>1, StepPairStands
        <4> QED
          BY <4>1, <4>2
      <3>2. ASSUME NEW d \in Elements(plan.postDeletes), NEW g \in d.guards,
                   (Spellings(d.path) \cup Spellings(g.dest)) \cap touched' = {}
            PROVE  ContentStands(d, g)'
        <4>1. d.path \in Spellings(d.path) /\ g.dest \in Spellings(g.dest)
          BY DeletePathIs, GuardIs, WritePathIs
        <4>2. \/ remote'[d.path].body = g.local.body \/ remote'[g.dest].body = g.local.body
              \/ d.path \in skipped' /\ remote'[d.path].kind = "file"
          BY <1>1, <3>2, StepContentStands
        <4> QED
          BY <4>1, <4>2 DEF ContentStands
      <3> QED
        BY <3>1, <3>2 DEF OneSpellingSurvives, Spelled, Grows
    <2> QED
      BY <2>1, <2>2 DEF SpellingInv
  <1>2. CASE pc \in {"rename", "end"}
    <2>1. ASSUME NEW d \in Elements(plan.postDeletes), NEW u \in plan.uploads,
                 Fold[u.dest] = Fold[d.path], Spellings(d.path) \cap touched' = {}
          PROVE  \E p \in Spellings(d.path) : remote'[p] # Absent
      <3>1. Spellings(d.path) \cap touched = {}
        BY <2>1 DEF Grows
      <3>2. PICK p \in Spellings(d.path) : remote[p] # Absent
        BY <2>1, <3>1 DEF SpellingInv, OneSpellingSurvives, Spelled
      <3>3. p \in Paths /\ Spellings(p) = Spellings(d.path)
        BY <3>2, SpellingsIs, DeletePathIs
      <3>4. PICK q \in Spellings(p) : remote'[q] = remote[p]
        BY <1>2, <2>1, <3>2, <3>3, SpellingKept
      <3> QED
        BY <3>2, <3>3, <3>4
    <2>2. ASSUME NEW d \in Elements(plan.postDeletes), NEW g \in d.guards,
                 (Spellings(d.path) \cup Spellings(g.dest)) \cap touched' = {}
          PROVE  ContentStands(d, g)'
      <3>1. ContentStands(d, g)
        BY <2>2 DEF SpellingInv, OneSpellingSurvives, Grows
      <3>2. d.path \in Paths /\ g.dest \in Paths
        BY DeletePathIs, GuardIs
      <3>3. CASE \E p \in Spellings(d.path) \cup Spellings(g.dest) : remote[p].body = g.local.body
        <4>1. PICK p \in Spellings(d.path) \cup Spellings(g.dest) : remote[p].body = g.local.body
          BY <3>3
        <4>2. p \in Paths /\ Spellings(p) \in {Spellings(d.path), Spellings(g.dest)}
          BY <3>2, <4>1, SpellingsIs
        <4>3. remote[p] # Absent
          BY <2>2, <4>1, <4>2, ContentIsFile
        <4>4. PICK q \in Spellings(p) : remote'[q] = remote[p]
          BY <1>2, <2>2, <4>2, <4>3, SpellingKept
        <4> QED
          BY <4>1, <4>2, <4>4 DEF ContentStands
      <3>4. CASE d.path \in skipped /\ \E p \in Spellings(d.path) : remote[p].kind = "file"
        <4>1. PICK p \in Spellings(d.path) : remote[p].kind = "file"
          BY <3>4
        <4>2. p \in Paths /\ Spellings(p) = Spellings(d.path)
          BY <3>2, <4>1, SpellingsIs
        <4>3. remote[p] # Absent
          BY <4>1, <4>2, EntryIs DEF TypeOK
        <4>4. PICK q \in Spellings(p) : remote'[q] = remote[p]
          BY <1>2, <2>2, <4>2, <4>3, SpellingKept
        <4>5. d.path \in skipped'
          BY <3>4 DEF Grows
        <4> QED
          BY <4>1, <4>2, <4>4, <4>5 DEF ContentStands
      <3> QED
        BY <3>1, <3>3, <3>4 DEF ContentStands
    <2>3. OneSpellingSurvives'
      BY <2>1, <2>2 DEF OneSpellingSurvives, Spelled, Grows
    <2>4. pc' \in {"rename", "end"}
      BY <1>2 DEF Onward
    <2> QED
      BY <2>3, <2>4 DEF SpellingInv
  <1> QED
    BY <1>1, <1>2

(* A mutation that is authorised, of a path whose local file is not back,  *)
(* keeps the record of what was destroyed clean.                           *)
LEMMA DestroysCleanly ==
    ASSUME NoSeenWriteLost, ReappearedFileKept, NEW p, NEW snap, NEW back \in BOOLEAN,
           Destroys(p, snap, back), ~back,
           \/ p \in freshRemote \/ remote[p] = Absent
           \/ snap # Absent /\ LiveSnapshot(remote[p], snap) = "ok"
    PROVE  NoSeenWriteLost' /\ ReappearedFileKept'
  <1>1. CASE remote[p] = Absent
    BY <1>1 DEF Destroys, NoSeenWriteLost, ReappearedFileKept
  <1>2. CASE remote[p] # Absent
    <2> DEFINE r == [was |-> remote[p], expected |-> snap,
                     unseen |-> p \in freshRemote, localBack |-> back]
    <2>1. destroyed' = destroyed \cup {r}
      BY <1>2 DEF Destroys
    <2>2. r.was = remote[p] /\ r.expected = snap /\ (r.unseen <=> p \in freshRemote) /\ ~r.localBack
      OBVIOUS
    <2> HIDE DEF r
    <2>3. ASSUME NEW d \in destroyed'
          PROVE  /\ d.unseen \/ (d.expected # Absent /\ LiveSnapshot(d.was, d.expected) = "ok")
                 /\ ~d.localBack
      <3>1. CASE d \in destroyed
        BY <3>1 DEF NoSeenWriteLost, ReappearedFileKept
      <3>2. CASE d = r
        BY <1>2, <2>2, <3>2
      <3> QED
        BY <2>1, <3>1, <3>2
    <2> QED
      BY <2>3 DEF NoSeenWriteLost, ReappearedFileKept
  <1> QED
    BY <1>1, <1>2

(* What is destroyed was authorised by what the run saw, and no local file *)
(* was back.                                                               *)
LEMMA StepLosesNothing ==
    ASSUME IInv, NasStep
    PROVE  NoSeenWriteLost' /\ ReappearedFileKept'
  <1> TypeOK /\ FlightInv /\ RequestInv /\ NoSeenWriteLost /\ ReappearedFileKept
    BY DEF IInv
  <1>1. CASE destroyed' = destroyed
    BY <1>1 DEF NoSeenWriteLost, ReappearedFileKept
  <1>2. CASE NasDeleted
    <2>1. PICK back \in BOOLEAN :
             /\ Destroys(Current.path, Current.snap, back)
             /\ back => pc = "postDeleteRequest" /\ LocalBack(Current)
      BY <1>2 DEF NasDeleted
    <2>2. Authorised(Current.path, Current.snap) /\ Current.snap # Absent
      <3>1. pc \in {"preDeleteRequest", "postDeleteRequest"}
        BY <1>2 DEF NasDeleted
      <3> QED
        BY <3>1, RequestedIs DEF RequestInv, Snapshots, Absent, Entry
    <2>3. ~back
      BY <2>1 DEF RequestInv, LocalBack
    <2> QED
      BY <2>1, <2>2, <2>3, DestroysCleanly DEF Authorised
  <1>3. CASE NasUploaded
    <2>1. PICK a \in Uploading, q \in Paths :
             /\ q = a.dest /\ Destroys(q, a.expected, FALSE)
             /\ remote[q].kind # "dir"
             /\ pc \in {"copyUpload", "upload", "drain", "postDelete"}
      BY <1>3, UploadedIs
    <2>2. remote[q] \in Entries
      BY DEF TypeOK
    <2>3. remote[q].kind # "file" => remote[q] = Absent
      BY <2>1, <2>2, EntryIs
    <2>4. Replaceable(q, a.expected) \/ Replaceable(q, Absent)
      BY <2>1 DEF Uploading, FlightInv, RequestInv
    <2> QED
      BY <2>1, <2>3, <2>4, DestroysCleanly DEF Replaceable
  <1> QED
    BY <1>1, <1>2, <1>3 DEF NasStep, NasQuiet, NasEdited, NasAdded, NasRenamed, Rename

(***************************************************************************)
(* The planned writes.                                                     *)
(***************************************************************************)

(* A write that is still open or in flight stays so until it is done or    *)
(* deferred: no step of the writing phases drops one.                      *)
DropsNone ==
    pc \in Writing =>
        \A a \in open \cup inflight :
            a \in done' \cup open' \cup inflight' \/ Covered(a.rel) \/ a.rel \in deferrals'

(* Every action of the writing phases settles what it takes.               *)
LEMMA StepDropsNone ==
    ASSUME TypeOK, FlightInv, [Next]_vars
    PROVE  DropsNone
  <1>1. ASSUME Preflight PROVE DropsNone
    BY <1>1
       DEF Preflight, Looks, worldVars, DropsNone, Writing
  <1>2. ASSUME PreDeleteBatch PROVE DropsNone
    BY <1>2
       DEF PreDeleteBatch, historyVars, worldVars, DropsNone, Writing
  <1>3. ASSUME PreDeleteCheck PROVE DropsNone
    BY <1>3
       DEF PreDeleteCheck, At, DropCurrent, Looks, Fails, FailsAfter, worldVars, DropsNone,
          Writing
  <1>4. ASSUME PreDeleteRequest PROVE DropsNone
    BY <1>4
       DEF PreDeleteRequest, DropCurrent, Fails, FailsAfter, DropsNone, Writing
  <1>5. ASSUME OpenWrites PROVE DropsNone
    BY <1>5
       DEF OpenWrites, Through, historyVars, worldVars, DropsNone, Writing
  <1>6. ASSUME CreateExcluded PROVE DropsNone
    BY <1>6
       DEF CreateExcluded, At, DropCurrent, Judged, JudgedWith, FailsAfter, historyVars,
          worldVars, DropsNone, Writing
  <1>7. ASSUME CreateFolder PROVE DropsNone
    BY <1>7
       DEF CreateFolder, At, DropCurrent, DropsNone, Writing
  <1>8. ASSUME NEW c \in Classes, CreateRefused(c) PROVE DropsNone
    BY <1>8
       DEF CreateRefused, At, DropCurrent, Judged, JudgedWith, FailsAfter, historyVars, worldVars,
          DropsNone, Writing
  <1>9. ASSUME CopyBatch PROVE DropsNone
    BY <1>9
       DEF CopyBatch, Through, Judged, JudgedWith, FailsAfter, historyVars, worldVars, DropsNone,
          Writing, StillOpen
  <1>10. ASSUME CopyCheck PROVE DropsNone
    BY <1>10
       DEF CopyCheck, At, CopyLeftOut, DropCurrent, Judged, JudgedWith, Fails, FailsAfter, Looks,
          worldVars, DropsNone, Writing
  <1>11. ASSUME CopySucceeds PROVE DropsNone
    BY <1>11
       DEF CopySucceeds, DropCurrent, Fails, FailsAfter, DropsNone, Writing
  <1>12. ASSUME NEW remains \in {Absent} \cup ForeignEntries, CopyFails(remains) PROVE DropsNone
    BY <1>12
       DEF CopyFails, historyVars, DropsNone, Writing
  <1>13. ASSUME CopyFallbackCheck PROVE DropsNone
    BY <1>13
       DEF CopyFallbackCheck, CopyLeftOut, DropCurrent, Judged, JudgedWith, FailsAfter, Looks,
          worldVars, DropsNone, Writing
  <1>14. ASSUME CopyUploadLands PROVE DropsNone
    BY <1>14
       DEF CopyUploadLands, DropCurrent, DropsNone, Writing
  <1>15. ASSUME NEW c \in Classes \cup {NotRefused}, CopyUploadDeferred(c) PROVE DropsNone
    BY <1>15
       DEF CopyUploadDeferred, CopyLeftOut, DropCurrent, Judged, JudgedWith, FailsAfter,
          DropsNone, Writing
  <1>16. ASSUME CopyVerify PROVE DropsNone
    BY <1>16
       DEF CopyVerify, Through, Judged, JudgedWith, Fails, FailsAfter, historyVars, worldVars,
          DropsNone, Writing, StillOpen
  <1>17. ASSUME NEW a \in open, UploadLook(a) PROVE DropsNone
    BY <1>17
       DEF UploadLook, Judged, JudgedWith, FailsAfter, Looks, worldVars, DropsNone
  <1>18. ASSUME NEW a \in inflight, Upload(a) PROVE DropsNone
    BY <1>18
       DEF Upload, DropsNone
  <1>19. ASSUME NEW a \in inflight, NEW c \in Classes \cup {NotRefused}, UploadDeferred(a, c) PROVE DropsNone
    BY <1>19
       DEF UploadDeferred, JudgedWith, FailsAfter, DropsNone
  <1>20. ASSUME NEW a \in inflight, DrainUpload(a) PROVE DropsNone
    BY <1>20
       DEF DrainUpload, DropsNone, Writing
  <1>21. ASSUME PostDeleteBatch PROVE DropsNone
    BY <1>21
       DEF PostDeleteBatch, UploadsSettled, Fails, FailsAfter, historyVars, worldVars, DropsNone,
          Writing
  <1>22. ASSUME PostDeleteDecide PROVE DropsNone
    BY <1>22
       DEF PostDeleteDecide, At, KeepDelete, DropCurrent, Looks, worldVars, DropsNone, Writing
  <1>23. ASSUME PostDeleteAbsenceUnknown PROVE DropsNone
    BY <1>23
       DEF PostDeleteAbsenceUnknown, At, KeepDelete, DropCurrent, historyVars, worldVars,
          DropsNone, Writing
  <1>24. ASSUME PostDeleteRequest PROVE DropsNone
    BY <1>24
       DEF PostDeleteRequest, DropCurrent, DropsNone, Writing
  <1>25. ASSUME NEW concernsRun \in BOOLEAN, PostDeleteRefused(concernsRun) PROVE DropsNone
    BY <1>25
       DEF PostDeleteRefused, KeepDelete, DropCurrent, Fails, FailsAfter, historyVars, worldVars,
          DropsNone, Writing
  <1>26. ASSUME NEW a \in reappeared, ReuploadCheck(a) PROVE DropsNone
    BY <1>26
       DEF ReuploadCheck, Through, Looks, worldVars, DropsNone, Writing
  <1>27. ASSUME NEW u \in inflight, Reupload(u) PROVE DropsNone
    BY <1>27
       DEF Reupload, Through, DropsNone, Writing
  <1>28. ASSUME StartRenames PROVE DropsNone
    BY <1>28
       DEF StartRenames, Through, historyVars, worldVars, DropsNone, Writing
  <1>29. ASSUME Rename PROVE DropsNone
    BY <1>29
       DEF Rename, At, DropCurrent, DropsNone, Writing
  <1>30. ASSUME RenamePending PROVE DropsNone
    BY <1>30
       DEF RenamePending, At, DropCurrent, historyVars, worldVars, DropsNone, Writing
  <1>31. ASSUME Complete PROVE DropsNone
    BY <1>31
       DEF Complete, Through, historyVars, worldVars, DropsNone, Writing
  <1>32. ASSUME FailRun PROVE DropsNone
    BY <1>32
       DEF FailRun, Fails, FailsAfter, historyVars, worldVars, DropsNone, Writing
  <1>33. ASSUME DeleteAnswerLost PROVE DropsNone
    BY <1>33
       DEF DeleteAnswerLost, KeepDelete, DropCurrent, Fails, FailsAfter, DropsNone, Writing
  <1>34. ASSUME NEW p \in Paths, NEW e \in ForeignEntries \cup {Absent}, RemoteEdit(p, e) PROVE DropsNone
    BY <1>34
       DEF RemoteEdit, DropsNone, Writing
  <1>35. ASSUME NEW p \in Paths, NEW e \in LocalEntries \cup {Absent}, LocalEdit(p, e) PROVE DropsNone
    BY <1>35
       DEF LocalEdit, DropsNone, Writing
  <1>36. ASSUME Stays PROVE DropsNone
    BY <1>36
       DEF Stays, vars, historyVars, editVars, worldVars, DropsNone, Writing
  <1> QED
    BY <1>1, <1>2, <1>3, <1>4, <1>5, <1>6, <1>7, <1>8, <1>9, <1>10, <1>11, <1>12, <1>13, <1>14,
       <1>15, <1>16, <1>17, <1>18, <1>19, <1>20, <1>21, <1>22, <1>23, <1>24, <1>25, <1>26, <1>27,
       <1>28, <1>29, <1>30, <1>31, <1>32, <1>33, <1>34, <1>35, <1>36 DEF Next, RunStep, Over, Stays

(* What a step carries out was not to be done before the writes, and an    *)
(* upload it carries out is there.                                         *)
DoesIt ==
    \A a \in done' \ done : a \in plan.uploads => pc \notin Before /\ remote'[a.dest] # Absent

(* An upload that lands leaves what it streamed.                           *)
LEMMA LandsThere ==
    ASSUME TypeOK, NEW a, a.src \in Paths, a.dest \in Paths, a.local \in Files,
           UploadLands(a), UploadWrites(a)
    PROVE  remote'[a.dest] # Absent
  <1>1. PICK e \in Entries, q \in Paths :
           e = local[a.src] /\ q = a.dest /\ e # Absent /\ remote' = WithParents(remote, q, e)
    BY StreamIs DEF UploadLands, UploadWrites
  <1>2. remote \in [Paths -> Entries]
    BY DEF TypeOK
  <1>3. remote'[q] = e
    BY <1>1, <1>2, WithParentsIs
  <1> QED
    BY <1>1, <1>3

(* What AtHand deletes, creates or renames is no upload.                   *)
LEMMA NotAnUpload ==
    ASSUME TypeOK,
           NEW a \in Elements(plan.preDeletes) \cup Elements(plan.postDeletes)
                     \cup Elements(plan.creates) \cup Elements(plan.renames)
    PROVE  a \notin plan.uploads
  BY PlanHolds DEF Planned, Writes

(* A server copy leaves a file.                                            *)
LEMMA CopiedThere ==
    ASSUME TypeOK, CopySucceeds
    PROVE  remote'[Current.dest] # Absent
  <1>1. Current.from \in Paths /\ Current.dest \in Paths
    BY AtHandHolds, PlanHolds DEF CopySucceeds, AtHand, Planned
  <1>2. PICK e \in Entries, q \in Paths :
           /\ e = remote[Current.from] /\ q = Current.dest /\ e.kind = "file"
           /\ remote' = WithParents(remote, q, e)
    BY <1>1 DEF CopySucceeds, TypeOK
  <1>3. remote \in [Paths -> Entries]
    BY DEF TypeOK
  <1>4. remote'[q] = e /\ e # Absent
    BY <1>2, <1>3, WithParentsIs, EntryIs
  <1> QED
    BY <1>2, <1>4

(* Every action that is carried out is.                                    *)
LEMMA StepDoesIt ==
    ASSUME TypeOK, FlightInv, [Next]_vars
    PROVE  DoesIt
  <1>1. ASSUME Preflight PROVE DoesIt
    BY <1>1
       DEF Preflight, Looks, worldVars, DoesIt
  <1>2. ASSUME PreDeleteBatch PROVE DoesIt
    BY <1>2
       DEF PreDeleteBatch, historyVars, worldVars, DoesIt
  <1>3. ASSUME PreDeleteCheck PROVE DoesIt
    BY <1>3
       DEF PreDeleteCheck, At, DropCurrent, Looks, Fails, FailsAfter, worldVars, DoesIt
  <1>4. ASSUME PreDeleteRequest PROVE DoesIt
    BY <1>4, AtHandHolds, NotAnUpload
       DEF PreDeleteRequest, DropCurrent, Fails, FailsAfter, DoesIt, AtHand
  <1>5. ASSUME OpenWrites PROVE DoesIt
    BY <1>5
       DEF OpenWrites, Through, historyVars, worldVars, DoesIt
  <1>6. ASSUME CreateExcluded PROVE DoesIt
    BY <1>6
       DEF CreateExcluded, At, DropCurrent, Judged, JudgedWith, FailsAfter, historyVars,
          worldVars, DoesIt
  <1>7. ASSUME CreateFolder PROVE DoesIt
    BY <1>7, AtHandHolds, NotAnUpload
       DEF CreateFolder, At, DropCurrent, DoesIt, AtHand
  <1>8. ASSUME NEW c \in Classes, CreateRefused(c) PROVE DoesIt
    BY <1>8
       DEF CreateRefused, At, DropCurrent, Judged, JudgedWith, FailsAfter, historyVars, worldVars,
          DoesIt
  <1>9. ASSUME CopyBatch PROVE DoesIt
    BY <1>9
       DEF CopyBatch, Through, Judged, JudgedWith, FailsAfter, historyVars, worldVars, DoesIt
  <1>10. ASSUME CopyCheck PROVE DoesIt
    BY <1>10
       DEF CopyCheck, At, CopyLeftOut, DropCurrent, Judged, JudgedWith, Fails, FailsAfter, Looks,
          worldVars, DoesIt
  <1>11. ASSUME CopySucceeds PROVE DoesIt
    BY <1>11, CopiedThere
       DEF CopySucceeds, DropCurrent, Fails, FailsAfter, DoesIt, Before
  <1>12. ASSUME NEW remains \in {Absent} \cup ForeignEntries, CopyFails(remains) PROVE DoesIt
    BY <1>12
       DEF CopyFails, historyVars, DoesIt
  <1>13. ASSUME CopyFallbackCheck PROVE DoesIt
    BY <1>13
       DEF CopyFallbackCheck, CopyLeftOut, DropCurrent, Judged, JudgedWith, FailsAfter, Looks,
          worldVars, DoesIt
  <1>14. ASSUME CopyUploadLands PROVE DoesIt
    BY <1>14, AtHandHolds, PlanHolds, LandsThere
       DEF CopyUploadLands, DropCurrent, DoesIt, AtHand, Planned, Before
  <1>15. ASSUME NEW c \in Classes \cup {NotRefused}, CopyUploadDeferred(c) PROVE DoesIt
    BY <1>15
       DEF CopyUploadDeferred, CopyLeftOut, DropCurrent, Judged, JudgedWith, FailsAfter, DoesIt
  <1>16. ASSUME CopyVerify PROVE DoesIt
    BY <1>16
       DEF CopyVerify, Through, Judged, JudgedWith, Fails, FailsAfter, historyVars, worldVars,
          DoesIt
  <1>17. ASSUME NEW a \in open, UploadLook(a) PROVE DoesIt
    BY <1>17
       DEF UploadLook, Judged, JudgedWith, FailsAfter, Looks, worldVars, DoesIt
  <1>18. ASSUME NEW a \in inflight, Upload(a) PROVE DoesIt
    BY <1>18, LandsThere
       DEF Upload, DoesIt, FlightInv, Before
  <1>19. ASSUME NEW a \in inflight, NEW c \in Classes \cup {NotRefused}, UploadDeferred(a, c) PROVE DoesIt
    BY <1>19
       DEF UploadDeferred, JudgedWith, FailsAfter, DoesIt
  <1>20. ASSUME NEW a \in inflight, DrainUpload(a) PROVE DoesIt
    BY <1>20, LandsThere
       DEF DrainUpload, DoesIt, FlightInv, Before
  <1>21. ASSUME PostDeleteBatch PROVE DoesIt
    BY <1>21
       DEF PostDeleteBatch, UploadsSettled, Fails, FailsAfter, historyVars, worldVars, DoesIt
  <1>22. ASSUME PostDeleteDecide PROVE DoesIt
    BY <1>22
       DEF PostDeleteDecide, At, KeepDelete, DropCurrent, Looks, worldVars, DoesIt
  <1>23. ASSUME PostDeleteAbsenceUnknown PROVE DoesIt
    BY <1>23
       DEF PostDeleteAbsenceUnknown, At, KeepDelete, DropCurrent, historyVars, worldVars, DoesIt
  <1>24. ASSUME PostDeleteRequest PROVE DoesIt
    BY <1>24, AtHandHolds, NotAnUpload
       DEF PostDeleteRequest, DropCurrent, DoesIt, AtHand
  <1>25. ASSUME NEW concernsRun \in BOOLEAN, PostDeleteRefused(concernsRun) PROVE DoesIt
    BY <1>25
       DEF PostDeleteRefused, KeepDelete, DropCurrent, Fails, FailsAfter, historyVars, worldVars,
          DoesIt
  <1>26. ASSUME NEW a \in reappeared, ReuploadCheck(a) PROVE DoesIt
    BY <1>26
       DEF ReuploadCheck, Through, Looks, worldVars, DoesIt
  <1>27. ASSUME NEW u \in inflight, Reupload(u) PROVE DoesIt
    BY <1>27, LandsThere
       DEF Reupload, Through, DoesIt, FlightInv, Before
  <1>28. ASSUME StartRenames PROVE DoesIt
    BY <1>28
       DEF StartRenames, Through, historyVars, worldVars, DoesIt
  <1>29. ASSUME Rename PROVE DoesIt
    BY <1>29, AtHandHolds, NotAnUpload
       DEF Rename, At, DropCurrent, DoesIt, AtHand
  <1>30. ASSUME RenamePending PROVE DoesIt
    BY <1>30
       DEF RenamePending, At, DropCurrent, historyVars, worldVars, DoesIt
  <1>31. ASSUME Complete PROVE DoesIt
    BY <1>31
       DEF Complete, Through, historyVars, worldVars, DoesIt
  <1>32. ASSUME FailRun PROVE DoesIt
    BY <1>32
       DEF FailRun, Fails, FailsAfter, historyVars, worldVars, DoesIt
  <1>33. ASSUME DeleteAnswerLost PROVE DoesIt
    BY <1>33
       DEF DeleteAnswerLost, KeepDelete, DropCurrent, Fails, FailsAfter, DoesIt
  <1>34. ASSUME NEW p \in Paths, NEW e \in ForeignEntries \cup {Absent}, RemoteEdit(p, e) PROVE DoesIt
    BY <1>34
       DEF RemoteEdit, DoesIt
  <1>35. ASSUME NEW p \in Paths, NEW e \in LocalEntries \cup {Absent}, LocalEdit(p, e) PROVE DoesIt
    BY <1>35
       DEF LocalEdit, DoesIt
  <1>36. ASSUME Stays PROVE DoesIt
    BY <1>36
       DEF Stays, vars, historyVars, editVars, worldVars, DoesIt
  <1> QED
    BY <1>1, <1>2, <1>3, <1>4, <1>5, <1>6, <1>7, <1>8, <1>9, <1>10, <1>11, <1>12, <1>13, <1>14,
       <1>15, <1>16, <1>17, <1>18, <1>19, <1>20, <1>21, <1>22, <1>23, <1>24, <1>25, <1>26, <1>27,
       <1>28, <1>29, <1>30, <1>31, <1>32, <1>33, <1>34, <1>35, <1>36 DEF Next, RunStep, Over, Stays

(* WritesInv is kept.                                                      *)
LEMMA StepWrites ==
    ASSUME TypeOK, FlightInv, WritesInv, Onward, Grows, NasStep, [Next]_vars
    PROVE  WritesInv'
  <1>1. pc' = "preflight" => deferrals' = {}
    BY DEF WritesInv, Onward
  <1>2. pc' \in Before => done' \cap plan.uploads = {}
    BY StepDoesIt DEF DoesIt, WritesInv, Onward
  <1>3. ASSUME pc' \in Writing, NEW a \in Writes(plan)
        PROVE  a \in done' \/ Covered(a.rel)' \/ a \in open' \cup inflight'
    <2>1. CASE pc \in Writing
      <3>1. a \in done \/ Covered(a.rel) \/ a \in open \cup inflight
        BY <2>1 DEF WritesInv
      <3> QED
        BY <2>1, <3>1, StepDropsNone DEF DropsNone, Covered, Grows
    <2>2. CASE open' = {b \in Writes(plan) : ~Covered(b.rel)} /\ deferrals' = deferrals
      BY <2>2 DEF Covered
    <2> QED
      BY <1>3, <2>1, <2>2 DEF Onward
  <1>4. ASSUME pc' \in Deleting, NEW a \in Writes(plan)
        PROVE  a \in done' \/ Covered(a.rel)'
    <2>1. a \in done \/ Covered(a.rel)
      <3>1. CASE pc \in Deleting
        BY <3>1 DEF WritesInv
      <3>2. CASE pc = "upload" /\ open \cup inflight = {}
        BY <3>2 DEF WritesInv, Writing
      <3> QED
        BY <1>4, <3>1, <3>2 DEF Onward
    <2> QED
      BY <2>1 DEF Covered, Grows
  <1>5. ASSUME pc' \notin {"rename", "end"}, NEW u \in done' \cap plan.uploads,
               Untouched(Spellings(u.dest))'
        PROVE  remote'[u.dest] # Absent
    <2>1. CASE u \in done
      <3>1. u \in Writes(plan) /\ pc \notin {"rename", "end"}
        BY <1>5 DEF Writes, Onward
      <3>2. u.dest \in Paths /\ u.dest \notin touched' /\ Untouched(Spellings(u.dest))
        BY <1>5, <3>1, WritePathIs DEF Untouched, Grows
      <3>3. remote[u.dest] # Absent
        BY <1>5, <2>1, <3>1, <3>2 DEF WritesInv
      <3>4. u.dest \notin Requested
        BY <1>5, <2>1, <3>1, WrittenNotRequested DEF WritesInv, Before
      <3> QED
        BY <3>1, <3>2, <3>3, <3>4, PresentStays
    <2>2. CASE u \notin done
      BY <1>5, <2>2, StepDoesIt DEF DoesIt
    <2> QED
      BY <2>1, <2>2
  <1> QED
    BY <1>1, <1>2, <1>3, <1>4, <1>5 DEF WritesInv, Grows

(***************************************************************************)
(* The run's own state.                                                    *)
(***************************************************************************)

Controls ==
    /\ pc' \in Loops => todo' \subseteq Elements(Queue')
    /\ pc' \in {"preDeleteRequest", "copyRequest", "copyFallback", "copyUpload", "postDeleteRequest"} =>
          todo' # {}
    /\ open' \subseteq Writes(plan)
    /\ reappeared' \subseteq Elements(plan.postDeletes)
    /\ \A a \in reappeared' : a.path \in skipped'

(* Each loop runs over its own queue, and each request has its action.     *)
LEMMA StepControls ==
    ASSUME TypeOK, Grows, [Next]_vars
    PROVE  Controls
  <1>1. ASSUME Preflight PROVE Controls
    BY <1>1, QueueHolds
       DEF Preflight, Looks, worldVars, Controls, TypeOK, QueueAt, Loops, Grows
  <1>2. ASSUME PreDeleteBatch PROVE Controls
    BY <1>2, QueueHolds
       DEF PreDeleteBatch, historyVars, worldVars, Controls, TypeOK, QueueAt, Loops, Grows
  <1>3. ASSUME PreDeleteCheck PROVE Controls
    BY <1>3, QueueHolds
       DEF PreDeleteCheck, At, DropCurrent, Looks, Fails, FailsAfter, worldVars, Controls, TypeOK,
          QueueAt, Loops, Grows
  <1>4. ASSUME PreDeleteRequest PROVE Controls
    BY <1>4, QueueHolds
       DEF PreDeleteRequest, DropCurrent, Fails, FailsAfter, Controls, TypeOK, QueueAt, Loops,
          Grows
  <1>5. ASSUME OpenWrites PROVE Controls
    BY <1>5, QueueHolds
       DEF OpenWrites, Through, historyVars, worldVars, Controls, TypeOK, QueueAt, Loops, Grows,
          Writes
  <1>6. ASSUME CreateExcluded PROVE Controls
    BY <1>6, QueueHolds
       DEF CreateExcluded, At, DropCurrent, Judged, JudgedWith, FailsAfter, historyVars,
          worldVars, Controls, TypeOK, QueueAt, Loops, Grows
  <1>7. ASSUME CreateFolder PROVE Controls
    BY <1>7, QueueHolds
       DEF CreateFolder, At, DropCurrent, Controls, TypeOK, QueueAt, Loops, Grows
  <1>8. ASSUME NEW c \in Classes, CreateRefused(c) PROVE Controls
    BY <1>8, QueueHolds
       DEF CreateRefused, At, DropCurrent, Judged, JudgedWith, FailsAfter, historyVars, worldVars,
          Controls, TypeOK, QueueAt, Loops, Grows
  <1>9. ASSUME CopyBatch PROVE Controls
    BY <1>9, QueueHolds
       DEF CopyBatch, Through, Judged, JudgedWith, FailsAfter, historyVars, worldVars, Controls,
          TypeOK, QueueAt, Loops, Grows, StillOpen
  <1>10. ASSUME CopyCheck PROVE Controls
    BY <1>10, QueueHolds
       DEF CopyCheck, At, CopyLeftOut, DropCurrent, Judged, JudgedWith, Fails, FailsAfter, Looks,
          worldVars, Controls, TypeOK, QueueAt, Loops, Grows
  <1>11. ASSUME CopySucceeds PROVE Controls
    BY <1>11, QueueHolds
       DEF CopySucceeds, DropCurrent, Fails, FailsAfter, Controls, TypeOK, QueueAt, Loops, Grows
  <1>12. ASSUME NEW remains \in {Absent} \cup ForeignEntries, CopyFails(remains) PROVE Controls
    BY <1>12, QueueHolds
       DEF CopyFails, historyVars, Controls, TypeOK, QueueAt, Loops, Grows
  <1>13. ASSUME CopyFallbackCheck PROVE Controls
    BY <1>13, QueueHolds
       DEF CopyFallbackCheck, CopyLeftOut, DropCurrent, Judged, JudgedWith, FailsAfter, Looks,
          worldVars, Controls, TypeOK, QueueAt, Loops, Grows
  <1>14. ASSUME CopyUploadLands PROVE Controls
    BY <1>14, QueueHolds
       DEF CopyUploadLands, DropCurrent, Controls, TypeOK, QueueAt, Loops, Grows
  <1>15. ASSUME NEW c \in Classes \cup {NotRefused}, CopyUploadDeferred(c) PROVE Controls
    BY <1>15, QueueHolds
       DEF CopyUploadDeferred, CopyLeftOut, DropCurrent, Judged, JudgedWith, FailsAfter, Controls,
          TypeOK, QueueAt, Loops, Grows
  <1>16. ASSUME CopyVerify PROVE Controls
    BY <1>16, QueueHolds
       DEF CopyVerify, Through, Judged, JudgedWith, Fails, FailsAfter, historyVars, worldVars,
          Controls, TypeOK, QueueAt, Loops, Grows, StillOpen
  <1>17. ASSUME NEW a \in open, UploadLook(a) PROVE Controls
    BY <1>17, QueueHolds
       DEF UploadLook, Judged, JudgedWith, FailsAfter, Looks, worldVars, Controls, TypeOK,
          QueueAt, Loops, Grows
  <1>18. ASSUME NEW a \in inflight, Upload(a) PROVE Controls
    BY <1>18, QueueHolds
       DEF Upload, Controls, TypeOK, QueueAt, Loops, Grows
  <1>19. ASSUME NEW a \in inflight, NEW c \in Classes \cup {NotRefused}, UploadDeferred(a, c) PROVE Controls
    BY <1>19, QueueHolds
       DEF UploadDeferred, JudgedWith, FailsAfter, Controls, TypeOK, QueueAt, Loops, Grows
  <1>20. ASSUME NEW a \in inflight, DrainUpload(a) PROVE Controls
    BY <1>20, QueueHolds
       DEF DrainUpload, Controls, TypeOK, QueueAt, Loops, Grows
  <1>21. ASSUME PostDeleteBatch PROVE Controls
    BY <1>21, QueueHolds
       DEF PostDeleteBatch, UploadsSettled, Fails, FailsAfter, historyVars, worldVars, Controls,
          TypeOK, QueueAt, Loops, Grows
  <1>22. ASSUME PostDeleteDecide PROVE Controls
    BY <1>22, QueueHolds, AtHandHolds
       DEF PostDeleteDecide, At, KeepDelete, DropCurrent, Looks, worldVars, Controls, TypeOK,
          QueueAt, Loops, Grows, AtHand
  <1>23. ASSUME PostDeleteAbsenceUnknown PROVE Controls
    BY <1>23, QueueHolds
       DEF PostDeleteAbsenceUnknown, At, KeepDelete, DropCurrent, historyVars, worldVars,
          Controls, TypeOK, QueueAt, Loops, Grows
  <1>24. ASSUME PostDeleteRequest PROVE Controls
    BY <1>24, QueueHolds
       DEF PostDeleteRequest, DropCurrent, Controls, TypeOK, QueueAt, Loops, Grows
  <1>25. ASSUME NEW concernsRun \in BOOLEAN, PostDeleteRefused(concernsRun) PROVE Controls
    BY <1>25, QueueHolds
       DEF PostDeleteRefused, KeepDelete, DropCurrent, Fails, FailsAfter, historyVars, worldVars,
          Controls, TypeOK, QueueAt, Loops, Grows
  <1>26. ASSUME NEW a \in reappeared, ReuploadCheck(a) PROVE Controls
    BY <1>26, QueueHolds
       DEF ReuploadCheck, Through, Looks, worldVars, Controls, TypeOK, QueueAt, Loops, Grows
  <1>27. ASSUME NEW u \in inflight, Reupload(u) PROVE Controls
    BY <1>27, QueueHolds
       DEF Reupload, Through, Controls, TypeOK, QueueAt, Loops, Grows
  <1>28. ASSUME StartRenames PROVE Controls
    BY <1>28, QueueHolds
       DEF StartRenames, Through, historyVars, worldVars, Controls, TypeOK, QueueAt, Loops, Grows
  <1>29. ASSUME Rename PROVE Controls
    BY <1>29, QueueHolds
       DEF Rename, At, DropCurrent, Controls, TypeOK, QueueAt, Loops, Grows
  <1>30. ASSUME RenamePending PROVE Controls
    BY <1>30, QueueHolds
       DEF RenamePending, At, DropCurrent, historyVars, worldVars, Controls, TypeOK, QueueAt,
          Loops, Grows
  <1>31. ASSUME Complete PROVE Controls
    BY <1>31, QueueHolds
       DEF Complete, Through, historyVars, worldVars, Controls, TypeOK, QueueAt, Loops, Grows
  <1>32. ASSUME FailRun PROVE Controls
    BY <1>32, QueueHolds
       DEF FailRun, Fails, FailsAfter, historyVars, worldVars, Controls, TypeOK, QueueAt, Loops,
          Grows
  <1>33. ASSUME DeleteAnswerLost PROVE Controls
    BY <1>33, QueueHolds
       DEF DeleteAnswerLost, KeepDelete, DropCurrent, Fails, FailsAfter, Controls, TypeOK,
          QueueAt, Loops, Grows
  <1>34. ASSUME NEW p \in Paths, NEW e \in ForeignEntries \cup {Absent}, RemoteEdit(p, e) PROVE Controls
    BY <1>34, QueueHolds
       DEF RemoteEdit, Controls, TypeOK, QueueAt, Loops, Grows
  <1>35. ASSUME NEW p \in Paths, NEW e \in LocalEntries \cup {Absent}, LocalEdit(p, e) PROVE Controls
    BY <1>35, QueueHolds
       DEF LocalEdit, Controls, TypeOK, QueueAt, Loops, Grows
  <1>36. ASSUME Stays PROVE Controls
    BY <1>36, QueueHolds
       DEF Stays, vars, historyVars, editVars, worldVars, Controls, TypeOK, QueueAt, Loops, Grows
  <1> QED
    BY <1>1, <1>2, <1>3, <1>4, <1>5, <1>6, <1>7, <1>8, <1>9, <1>10, <1>11, <1>12, <1>13, <1>14,
       <1>15, <1>16, <1>17, <1>18, <1>19, <1>20, <1>21, <1>22, <1>23, <1>24, <1>25, <1>26, <1>27,
       <1>28, <1>29, <1>30, <1>31, <1>32, <1>33, <1>34, <1>35, <1>36 DEF Next, RunStep, Over, Stays

(* The local tree is a tree after every step, and what another program     *)
(* changes is unseen.                                                      *)
LocalStep ==
    /\ local' \in [Paths -> Entries]
    /\ \A q \in Paths : local'[q] = local[q] \/ (q \in freshLocal' /\ freshLocal \subseteq freshLocal')

(* Only other programs change it.                                          *)
LEMMA StepOnLocal ==
    ASSUME TypeOK, [Next]_vars
    PROVE  LocalStep
  <1>1. ASSUME Preflight PROVE LocalStep
    BY <1>1
       DEF Preflight, Looks, worldVars, LocalStep, TypeOK
  <1>2. ASSUME PreDeleteBatch PROVE LocalStep
    BY <1>2
       DEF PreDeleteBatch, historyVars, worldVars, LocalStep, TypeOK
  <1>3. ASSUME PreDeleteCheck PROVE LocalStep
    BY <1>3
       DEF PreDeleteCheck, At, DropCurrent, Looks, Fails, FailsAfter, worldVars, LocalStep, TypeOK
  <1>4. ASSUME PreDeleteRequest PROVE LocalStep
    BY <1>4
       DEF PreDeleteRequest, DropCurrent, Fails, FailsAfter, LocalStep, TypeOK
  <1>5. ASSUME OpenWrites PROVE LocalStep
    BY <1>5
       DEF OpenWrites, Through, historyVars, worldVars, LocalStep, TypeOK
  <1>6. ASSUME CreateExcluded PROVE LocalStep
    BY <1>6
       DEF CreateExcluded, At, DropCurrent, Judged, JudgedWith, FailsAfter, historyVars,
          worldVars, LocalStep, TypeOK
  <1>7. ASSUME CreateFolder PROVE LocalStep
    BY <1>7
       DEF CreateFolder, At, DropCurrent, LocalStep, TypeOK
  <1>8. ASSUME NEW c \in Classes, CreateRefused(c) PROVE LocalStep
    BY <1>8
       DEF CreateRefused, At, DropCurrent, Judged, JudgedWith, FailsAfter, historyVars, worldVars,
          LocalStep, TypeOK
  <1>9. ASSUME CopyBatch PROVE LocalStep
    BY <1>9
       DEF CopyBatch, Through, Judged, JudgedWith, FailsAfter, historyVars, worldVars, LocalStep,
          TypeOK
  <1>10. ASSUME CopyCheck PROVE LocalStep
    BY <1>10
       DEF CopyCheck, At, CopyLeftOut, DropCurrent, Judged, JudgedWith, Fails, FailsAfter, Looks,
          worldVars, LocalStep, TypeOK
  <1>11. ASSUME CopySucceeds PROVE LocalStep
    BY <1>11
       DEF CopySucceeds, DropCurrent, Fails, FailsAfter, LocalStep, TypeOK
  <1>12. ASSUME NEW remains \in {Absent} \cup ForeignEntries, CopyFails(remains) PROVE LocalStep
    BY <1>12
       DEF CopyFails, historyVars, LocalStep, TypeOK
  <1>13. ASSUME CopyFallbackCheck PROVE LocalStep
    BY <1>13
       DEF CopyFallbackCheck, CopyLeftOut, DropCurrent, Judged, JudgedWith, FailsAfter, Looks,
          worldVars, LocalStep, TypeOK
  <1>14. ASSUME CopyUploadLands PROVE LocalStep
    BY <1>14
       DEF CopyUploadLands, DropCurrent, LocalStep, TypeOK
  <1>15. ASSUME NEW c \in Classes \cup {NotRefused}, CopyUploadDeferred(c) PROVE LocalStep
    BY <1>15
       DEF CopyUploadDeferred, CopyLeftOut, DropCurrent, Judged, JudgedWith, FailsAfter,
          LocalStep, TypeOK
  <1>16. ASSUME CopyVerify PROVE LocalStep
    BY <1>16
       DEF CopyVerify, Through, Judged, JudgedWith, Fails, FailsAfter, historyVars, worldVars,
          LocalStep, TypeOK
  <1>17. ASSUME NEW a \in open, UploadLook(a) PROVE LocalStep
    BY <1>17
       DEF UploadLook, Judged, JudgedWith, FailsAfter, Looks, worldVars, LocalStep, TypeOK
  <1>18. ASSUME NEW a \in inflight, Upload(a) PROVE LocalStep
    BY <1>18
       DEF Upload, LocalStep, TypeOK
  <1>19. ASSUME NEW a \in inflight, NEW c \in Classes \cup {NotRefused}, UploadDeferred(a, c) PROVE LocalStep
    BY <1>19
       DEF UploadDeferred, JudgedWith, FailsAfter, LocalStep, TypeOK
  <1>20. ASSUME NEW a \in inflight, DrainUpload(a) PROVE LocalStep
    BY <1>20
       DEF DrainUpload, LocalStep, TypeOK
  <1>21. ASSUME PostDeleteBatch PROVE LocalStep
    BY <1>21
       DEF PostDeleteBatch, UploadsSettled, Fails, FailsAfter, historyVars, worldVars, LocalStep,
          TypeOK
  <1>22. ASSUME PostDeleteDecide PROVE LocalStep
    BY <1>22
       DEF PostDeleteDecide, At, KeepDelete, DropCurrent, Looks, worldVars, LocalStep, TypeOK
  <1>23. ASSUME PostDeleteAbsenceUnknown PROVE LocalStep
    BY <1>23
       DEF PostDeleteAbsenceUnknown, At, KeepDelete, DropCurrent, historyVars, worldVars,
          LocalStep, TypeOK
  <1>24. ASSUME PostDeleteRequest PROVE LocalStep
    BY <1>24
       DEF PostDeleteRequest, DropCurrent, LocalStep, TypeOK
  <1>25. ASSUME NEW concernsRun \in BOOLEAN, PostDeleteRefused(concernsRun) PROVE LocalStep
    BY <1>25
       DEF PostDeleteRefused, KeepDelete, DropCurrent, Fails, FailsAfter, historyVars, worldVars,
          LocalStep, TypeOK
  <1>26. ASSUME NEW a \in reappeared, ReuploadCheck(a) PROVE LocalStep
    BY <1>26
       DEF ReuploadCheck, Through, Looks, worldVars, LocalStep, TypeOK
  <1>27. ASSUME NEW u \in inflight, Reupload(u) PROVE LocalStep
    BY <1>27
       DEF Reupload, Through, LocalStep, TypeOK
  <1>28. ASSUME StartRenames PROVE LocalStep
    BY <1>28
       DEF StartRenames, Through, historyVars, worldVars, LocalStep, TypeOK
  <1>29. ASSUME Rename PROVE LocalStep
    BY <1>29
       DEF Rename, At, DropCurrent, LocalStep, TypeOK
  <1>30. ASSUME RenamePending PROVE LocalStep
    BY <1>30
       DEF RenamePending, At, DropCurrent, historyVars, worldVars, LocalStep, TypeOK
  <1>31. ASSUME Complete PROVE LocalStep
    BY <1>31
       DEF Complete, Through, historyVars, worldVars, LocalStep, TypeOK
  <1>32. ASSUME FailRun PROVE LocalStep
    BY <1>32
       DEF FailRun, Fails, FailsAfter, historyVars, worldVars, LocalStep, TypeOK
  <1>33. ASSUME DeleteAnswerLost PROVE LocalStep
    BY <1>33
       DEF DeleteAnswerLost, KeepDelete, DropCurrent, Fails, FailsAfter, LocalStep, TypeOK
  <1>34. ASSUME NEW p \in Paths, NEW e \in ForeignEntries \cup {Absent}, RemoteEdit(p, e) PROVE LocalStep
    BY <1>34
       DEF RemoteEdit, LocalStep, TypeOK
  <1>35. ASSUME NEW p \in Paths, NEW e \in LocalEntries \cup {Absent}, LocalEdit(p, e) PROVE LocalStep
    <2>1. local \in [Paths -> Entries] /\ e \in Entries /\ Absent \in Entries
      BY TreeAssumption DEF TypeOK, Entries
    <2>2. local' \in [Paths -> Entries]
      BY <1>35, <2>1, WithParentsIs DEF LocalEdit
    <2> QED
      BY <1>35, <2>2 DEF LocalEdit, LocalStep
  <1>36. ASSUME Stays PROVE LocalStep
    BY <1>36
       DEF Stays, vars, historyVars, editVars, worldVars, LocalStep, TypeOK
  <1> QED
    BY <1>1, <1>2, <1>3, <1>4, <1>5, <1>6, <1>7, <1>8, <1>9, <1>10, <1>11, <1>12, <1>13, <1>14,
       <1>15, <1>16, <1>17, <1>18, <1>19, <1>20, <1>21, <1>22, <1>23, <1>24, <1>25, <1>26, <1>27,
       <1>28, <1>29, <1>30, <1>31, <1>32, <1>33, <1>34, <1>35, <1>36 DEF Next, RunStep, Over, Stays

(* TypeOK is kept.                                                         *)
LEMMA StepTyped ==
    ASSUME TypeOK, FlightInv, Grows, Onward, NasStep, [Next]_vars
    PROVE  TypeOK'
  <1>1. remote' \in [Paths -> Entries]
    BY NasTyped
  <1>2. local' \in [Paths -> Entries]
    BY StepOnLocal DEF LocalStep
  <1>3. Controls
    BY StepControls
  <1> QED
    BY <1>1, <1>2, <1>3 DEF TypeOK, Controls, Grows, Onward

(***************************************************************************)
(* The uploads in flight.                                                  *)
(***************************************************************************)

(* A worker takes an open upload whose precondition holds.                 *)
Taken(a) ==
    /\ pc = "upload" /\ pc' = pc /\ remote' = remote
    /\ a \in open /\ UploadPreconditionHolds(a.dest, a.expected)

(* The end of the deletions takes a file that is back.                     *)
Brought(a) ==
    /\ pc = "postDelete" /\ pc' = pc /\ remote' = remote /\ skipped' = skipped
    /\ inflight = {} /\ inflight' = {a}
    /\ \E d \in reappeared, e \in Entries :
          /\ a = AsUpload(d, e) /\ e # Absent /\ e.kind # "dir"
          /\ UploadPreconditionHolds(d.path, d.snap)

Flies ==
    /\ inflight' # {} => pc' \in {"upload", "drain"} \/ (pc' = "postDelete" /\ todo' = {})
    /\ pc' \in {"upload", "postDelete"} => pc' = pc \/ inflight' = {}
    /\ \A a \in inflight' : a \in inflight \/ Taken(a) \/ Brought(a)
    /\ \A a \in inflight' : a \in open' => a \in inflight /\ a \in open
    /\ \A a \in inflight' \cap inflight : a.dest \in freshRemote => a.dest \in freshRemote'

(* Every action leaves the uploads in flight alone, ends one or adds one.  *)
LEMMA StepFlies ==
    ASSUME TypeOK, FlightInv, [Next]_vars
    PROVE  Flies
  <1>1. ASSUME Preflight PROVE Flies
    BY <1>1
       DEF Preflight, Looks, worldVars, Flies, FlightInv
  <1>2. ASSUME PreDeleteBatch PROVE Flies
    BY <1>2
       DEF PreDeleteBatch, historyVars, worldVars, Flies, FlightInv
  <1>3. ASSUME PreDeleteCheck PROVE Flies
    BY <1>3
       DEF PreDeleteCheck, At, DropCurrent, Looks, Fails, FailsAfter, worldVars, Flies, FlightInv
  <1>4. ASSUME PreDeleteRequest PROVE Flies
    BY <1>4
       DEF PreDeleteRequest, DropCurrent, Fails, FailsAfter, Flies, FlightInv
  <1>5. ASSUME OpenWrites PROVE Flies
    BY <1>5
       DEF OpenWrites, Through, historyVars, worldVars, Flies, FlightInv
  <1>6. ASSUME CreateExcluded PROVE Flies
    BY <1>6
       DEF CreateExcluded, At, DropCurrent, Judged, JudgedWith, FailsAfter, historyVars,
          worldVars, Flies, FlightInv
  <1>7. ASSUME CreateFolder PROVE Flies
    BY <1>7
       DEF CreateFolder, At, DropCurrent, Flies, FlightInv
  <1>8. ASSUME NEW c \in Classes, CreateRefused(c) PROVE Flies
    BY <1>8
       DEF CreateRefused, At, DropCurrent, Judged, JudgedWith, FailsAfter, historyVars, worldVars,
          Flies, FlightInv
  <1>9. ASSUME CopyBatch PROVE Flies
    BY <1>9
       DEF CopyBatch, Through, Judged, JudgedWith, FailsAfter, historyVars, worldVars, Flies,
          FlightInv, StillOpen
  <1>10. ASSUME CopyCheck PROVE Flies
    BY <1>10
       DEF CopyCheck, At, CopyLeftOut, DropCurrent, Judged, JudgedWith, Fails, FailsAfter, Looks,
          worldVars, Flies, FlightInv
  <1>11. ASSUME CopySucceeds PROVE Flies
    BY <1>11
       DEF CopySucceeds, DropCurrent, Fails, FailsAfter, Flies, FlightInv
  <1>12. ASSUME NEW remains \in {Absent} \cup ForeignEntries, CopyFails(remains) PROVE Flies
    BY <1>12
       DEF CopyFails, historyVars, Flies, FlightInv
  <1>13. ASSUME CopyFallbackCheck PROVE Flies
    BY <1>13
       DEF CopyFallbackCheck, CopyLeftOut, DropCurrent, Judged, JudgedWith, FailsAfter, Looks,
          worldVars, Flies, FlightInv
  <1>14. ASSUME CopyUploadLands PROVE Flies
    BY <1>14
       DEF CopyUploadLands, DropCurrent, Flies, FlightInv
  <1>15. ASSUME NEW c \in Classes \cup {NotRefused}, CopyUploadDeferred(c) PROVE Flies
    BY <1>15
       DEF CopyUploadDeferred, CopyLeftOut, DropCurrent, Judged, JudgedWith, FailsAfter, Flies,
          FlightInv
  <1>16. ASSUME CopyVerify PROVE Flies
    BY <1>16
       DEF CopyVerify, Through, Judged, JudgedWith, Fails, FailsAfter, historyVars, worldVars,
          Flies, FlightInv, StillOpen
  <1>17. ASSUME NEW a \in open, UploadLook(a) PROVE Flies
    BY <1>17, WritePathIs
       DEF UploadLook, Judged, JudgedWith, FailsAfter, Looks, worldVars, Flies, FlightInv, Taken,
          TypeOK
  <1>18. ASSUME NEW a \in inflight, Upload(a) PROVE Flies
    BY <1>18
       DEF Upload, Flies, FlightInv
  <1>19. ASSUME NEW a \in inflight, NEW c \in Classes \cup {NotRefused}, UploadDeferred(a, c) PROVE Flies
    BY <1>19
       DEF UploadDeferred, JudgedWith, FailsAfter, Flies, FlightInv
  <1>20. ASSUME NEW a \in inflight, DrainUpload(a) PROVE Flies
    BY <1>20
       DEF DrainUpload, Flies, FlightInv
  <1>21. ASSUME PostDeleteBatch PROVE Flies
    BY <1>21
       DEF PostDeleteBatch, UploadsSettled, Fails, FailsAfter, historyVars, worldVars, Flies,
          FlightInv
  <1>22. ASSUME PostDeleteDecide PROVE Flies
    BY <1>22
       DEF PostDeleteDecide, At, KeepDelete, DropCurrent, Looks, worldVars, Flies, FlightInv
  <1>23. ASSUME PostDeleteAbsenceUnknown PROVE Flies
    BY <1>23
       DEF PostDeleteAbsenceUnknown, At, KeepDelete, DropCurrent, historyVars, worldVars, Flies,
          FlightInv
  <1>24. ASSUME PostDeleteRequest PROVE Flies
    BY <1>24
       DEF PostDeleteRequest, DropCurrent, Flies, FlightInv
  <1>25. ASSUME NEW concernsRun \in BOOLEAN, PostDeleteRefused(concernsRun) PROVE Flies
    BY <1>25
       DEF PostDeleteRefused, KeepDelete, DropCurrent, Fails, FailsAfter, historyVars, worldVars,
          Flies, FlightInv
  <1>26. ASSUME NEW a \in reappeared, ReuploadCheck(a) PROVE Flies
    <2>1. /\ pc = "postDelete" /\ pc' = pc /\ todo = {} /\ todo' = todo /\ inflight = {}
          /\ remote' = remote /\ skipped' = skipped /\ open' = open
      BY <1>26 DEF ReuploadCheck, Through, worldVars
    <2>2. CASE inflight' = {}
      BY <2>1, <2>2 DEF Flies
    <2>3. CASE inflight' # {}
      <3> DEFINE e == local[a.localPath]
      <3>1. inflight' = {AsUpload(a, e)} /\ e # Absent /\ e.kind # "dir"
            /\ UploadPreconditionHolds(a.path, a.snap)
        BY <1>26, <2>1, <2>3 DEF ReuploadCheck
      <3>2. e \in Entries
        BY PlanHolds DEF TypeOK, Planned
      <3>3. Brought(AsUpload(a, e))
        BY <2>1, <3>1, <3>2 DEF Brought
      <3>4. AsUpload(a, e) \notin Writes(plan)
        <4>1. AsUpload(a, e).dest = a.path /\ a \in Elements(plan.postDeletes)
          BY DEF AsUpload, TypeOK
        <4> QED
          BY <4>1, WritePathIs
      <3>5. AsUpload(a, e) \notin open
        BY <3>4 DEF TypeOK
      <3> HIDE DEF e
      <3> QED
        BY <2>1, <3>1, <3>3, <3>5 DEF Flies
    <2> QED
      BY <2>2, <2>3
  <1>27. ASSUME NEW u \in inflight, Reupload(u) PROVE Flies
    BY <1>27
       DEF Reupload, Through, Flies, FlightInv
  <1>28. ASSUME StartRenames PROVE Flies
    BY <1>28
       DEF StartRenames, Through, historyVars, worldVars, Flies, FlightInv
  <1>29. ASSUME Rename PROVE Flies
    BY <1>29
       DEF Rename, At, DropCurrent, Flies, FlightInv
  <1>30. ASSUME RenamePending PROVE Flies
    BY <1>30
       DEF RenamePending, At, DropCurrent, historyVars, worldVars, Flies, FlightInv
  <1>31. ASSUME Complete PROVE Flies
    BY <1>31
       DEF Complete, Through, historyVars, worldVars, Flies, FlightInv
  <1>32. ASSUME FailRun PROVE Flies
    BY <1>32
       DEF FailRun, Fails, FailsAfter, historyVars, worldVars, Flies, FlightInv
  <1>33. ASSUME DeleteAnswerLost PROVE Flies
    BY <1>33
       DEF DeleteAnswerLost, KeepDelete, DropCurrent, Fails, FailsAfter, Flies, FlightInv
  <1>34. ASSUME NEW p \in Paths, NEW e \in ForeignEntries \cup {Absent}, RemoteEdit(p, e) PROVE Flies
    BY <1>34
       DEF RemoteEdit, Flies, FlightInv
  <1>35. ASSUME NEW p \in Paths, NEW e \in LocalEntries \cup {Absent}, LocalEdit(p, e) PROVE Flies
    BY <1>35
       DEF LocalEdit, Flies, FlightInv
  <1>36. ASSUME Stays PROVE Flies
    BY <1>36
       DEF Stays, vars, historyVars, editVars, worldVars, Flies, FlightInv
  <1> QED
    BY <1>1, <1>2, <1>3, <1>4, <1>5, <1>6, <1>7, <1>8, <1>9, <1>10, <1>11, <1>12, <1>13, <1>14,
       <1>15, <1>16, <1>17, <1>18, <1>19, <1>20, <1>21, <1>22, <1>23, <1>24, <1>25, <1>26, <1>27,
       <1>28, <1>29, <1>30, <1>31, <1>32, <1>33, <1>34, <1>35, <1>36 DEF Next, RunStep, Over, Stays

(* A destination that passed the precondition may be replaced.             *)
Permits(e, snap) == e.kind # "file" \/ (snap # Absent /\ LiveSnapshot(e, snap) = "ok")

LEMMA PreconditionSuffices ==
    ASSUME NEW p, NEW snap, UploadPreconditionHolds(p, snap),
           snap = Absent \/ snap.body = Unhashed
    PROVE  Permits(remote[p], snap)
  <1>1. CASE remote[p] = Absent
    BY <1>1 DEF Permits, Absent, Entry
  <1>2. CASE remote[p] # Absent
    BY <1>2 DEF UploadPreconditionHolds, Permits, LiveSnapshot
  <1> QED
    BY <1>1, <1>2

(* AsUpload judges the NAS copy by the metadata of the deletion alone.     *)
LEMMA WithoutContent ==
    ASSUME NEW s \in Snapshots
    PROVE  /\ [s EXCEPT !.body = Unhashed].body = Unhashed
           /\ [s EXCEPT !.body = Unhashed].kind = s.kind
           /\ [s EXCEPT !.body = Unhashed].meta = s.meta
           /\ [s EXCEPT !.body = Unhashed] # Absent /\ s # Absent
  BY DEF Snapshots, Absent, Entry

(* A file that is back is uploaded where it was to be deleted.             *)
LEMMA BroughtIs ==
    ASSUME TypeOK, NEW a, Brought(a)
    PROVE  /\ {a.src, a.dest} \subseteq Paths /\ a.local \in Files
           /\ Permits(remote[a.dest], a.expected) /\ CarriesBack(a)
  <1>1. PICK d \in reappeared, e \in Entries :
           /\ a = AsUpload(d, e) /\ e # Absent /\ e.kind # "dir"
           /\ UploadPreconditionHolds(d.path, d.snap)
    BY DEF Brought
  <1>2. d \in Elements(plan.postDeletes) /\ d.path \in skipped
    BY DEF TypeOK
  <1>3. d.path \in Paths /\ d.localPath \in Paths /\ d.snap \in Snapshots
    BY <1>2, PlanHolds DEF Planned
  <1> DEFINE x == [d.snap EXCEPT !.body = Unhashed]
  <1>4. a.src = d.localPath /\ a.dest = d.path /\ a.local = e /\ a.expected = x
    BY <1>1 DEF AsUpload
  <1>5. e \in Files
    BY <1>1, EntryIs
  <1>6. UploadPreconditionHolds(d.path, x) /\ x.body = Unhashed
    <2>1. x.body = Unhashed /\ x.kind = d.snap.kind /\ x.meta = d.snap.meta /\ x # Absent
      BY <1>3, WithoutContent
    <2> HIDE DEF x
    <2> QED
      BY <1>1, <2>1 DEF UploadPreconditionHolds, MetadataMatches
  <1> HIDE DEF x
  <1>7. Permits(remote[d.path], x)
    BY <1>6, PreconditionSuffices
  <1> QED
    BY <1>2, <1>3, <1>4, <1>5, <1>7 DEF CarriesBack

(* What an upload in flight may replace it still may after a step.         *)
LEMMA StaysReplaceable ==
    ASSUME TypeOK, FlightInv, NasStep, Flies, NEW a \in inflight, a \in inflight'
    PROVE  Replaceable(a.dest, a.expected)'
  <1> a.dest \in Paths /\ Replaceable(a.dest, a.expected) /\ remote \in [Paths -> Entries]
    BY DEF FlightInv, TypeOK
  <1>1. pc \in {"upload", "drain", "postDelete"}
    BY DEF FlightInv
  <1>2. a.dest \in freshRemote => a.dest \in freshRemote'
    BY DEF Flies
  <1>3. CASE remote'[a.dest] = remote[a.dest]
    BY <1>2, <1>3 DEF Replaceable, LiveSnapshot, MetadataMatches
  <1>4. CASE NasEdited
    <2>1. a.dest \in freshRemote' \/ remote'[a.dest] = remote[a.dest]
      BY <1>4 DEF NasEdited
    <2> QED
      BY <1>3, <2>1 DEF Replaceable
  <1>5. CASE NasUploaded
    <2>1. PICK b \in Uploading : UploadStreams(b) /\ UploadWrites(b) /\ b \notin inflight'
      BY <1>5 DEF NasUploaded
    <2>2. b \in inflight /\ b # a /\ b.dest # a.dest
      BY <1>1, <2>1 DEF Uploading, FlightInv
    <2>3. PICK q \in Paths, e \in Entries : q = b.dest /\ e = local[b.src]
      BY <2>2 DEF FlightInv, TypeOK
    <2>4. remote' = WithParents(remote, q, e)
      BY <2>1, <2>3 DEF UploadWrites
    <2>5. remote'[a.dest] \in {remote[a.dest], Dir} /\ Dir.kind = "dir"
      <3>1. PICK p \in Paths : p = a.dest
        OBVIOUS
      <3>2. remote'[p] \in {remote[p], Dir} /\ Dir.kind = "dir"
        BY <2>2, <2>3, <2>4, <3>1, WithParentsIs
      <3> QED
        BY <3>1, <3>2
    <2> QED
      BY <1>3, <2>5 DEF Replaceable
  <1> QED
    BY <1>1, <1>3, <1>4, <1>5 DEF NasStep, NasQuiet, NasDeleted, NasAdded, NasRenamed

(* FlightInv is kept.                                                      *)
LEMMA StepFlight ==
    ASSUME TypeOK, FlightInv, Grows, NasStep, Flies
    PROVE  FlightInv'
  <1>1. ASSUME NEW a \in inflight', a \in inflight
        PROVE  /\ {a.src, a.dest} \subseteq Paths /\ a.local \in Files
               /\ Replaceable(a.dest, a.expected)'
               /\ a \in Writes(plan) \/ CarriesBack(a)'
               /\ pc' = "upload" => a \in Writes(plan)
               /\ pc' = "postDelete" => CarriesBack(a)'
    <2>1. Replaceable(a.dest, a.expected)'
      BY <1>1, StaysReplaceable
    <2>2. CarriesBack(a) => CarriesBack(a)'
      BY DEF CarriesBack, Grows
    <2> QED
      BY <1>1, <2>1, <2>2 DEF FlightInv, Flies
  <1>2. ASSUME NEW a \in inflight', Taken(a)
        PROVE  /\ {a.src, a.dest} \subseteq Paths /\ a.local \in Files
               /\ Replaceable(a.dest, a.expected)'
               /\ a \in Writes(plan) /\ pc' = "upload"
    <2>1. a \in Writes(plan) /\ pc' = "upload" /\ remote' = remote
      BY <1>2 DEF Taken, TypeOK
    <2>2. /\ {a.src, a.dest} \subseteq Paths /\ a.local \in Files
          /\ a.expected = Absent \/ a.expected.body = Unhashed
      BY <2>1, PlanHolds DEF Planned
    <2>3. Permits(remote'[a.dest], a.expected)
      BY <1>2, <2>1, <2>2, PreconditionSuffices DEF Taken
    <2> QED
      BY <2>1, <2>2, <2>3 DEF Permits, Replaceable, LiveSnapshot, MetadataMatches
  <1>3. ASSUME NEW a \in inflight', Brought(a)
        PROVE  /\ {a.src, a.dest} \subseteq Paths /\ a.local \in Files
               /\ Replaceable(a.dest, a.expected)'
               /\ CarriesBack(a)' /\ pc' = "postDelete"
    <2>1. remote' = remote /\ pc' = "postDelete"
      BY <1>3 DEF Brought
    <2>2. Permits(remote'[a.dest], a.expected)
      BY <1>3, <2>1, BroughtIs
    <2>3. {a.src, a.dest} \subseteq Paths /\ a.local \in Files /\ CarriesBack(a)
      BY <1>3, BroughtIs
    <2> QED
      BY <2>1, <2>2, <2>3 DEF Permits, Replaceable, CarriesBack, Grows, LiveSnapshot, MetadataMatches
  <1>4. ASSUME NEW a \in inflight', NEW b \in inflight', a.dest = b.dest
        PROVE  a = b
    <2>1. CASE a \in inflight /\ b \in inflight
      BY <1>4, <2>1 DEF FlightInv
    <2>2. CASE Brought(a) \/ Brought(b)
      BY <2>2 DEF Brought
    <2>3. CASE Taken(a) \/ Taken(b)
      <3>1. pc = "upload" /\ a \in Writes(plan) /\ b \in Writes(plan)
        BY <2>3 DEF Taken, Flies, FlightInv, TypeOK, Brought
      <3> QED
        BY <1>4, <3>1, WritePathIs
    <2> QED
      BY <2>1, <2>2, <2>3 DEF Flies
  <1>5. inflight' \cap open' = {}
    BY DEF Flies, FlightInv
  <1> QED
    BY <1>1, <1>2, <1>3, <1>4, <1>5 DEF FlightInv, Flies, Grows

(***************************************************************************)
(* From a check to the request it authorises.                              *)
(***************************************************************************)

(* While a request is about to be sent only edits happen, and all of them  *)
(* are unseen.                                                             *)
Waits ==
    /\ pc' = pc /\ todo' = todo /\ deferrals' = deferrals /\ kept' = kept
    /\ freshRemote \subseteq freshRemote' /\ touched \subseteq touched'
    /\ \A q \in Paths : remote'[q] = remote[q] \/ q \in freshRemote' \cap touched'
    /\ freshLocal \subseteq freshLocal'

(* The check that comes before each of the requests has passed.            *)
EntersPreDelete ==
    /\ pc = "preDelete" /\ pc' = "preDeleteRequest"
    /\ todo # {} /\ todo' = todo /\ remote' = remote
    /\ LiveSnapshot(remote[Current.path], Current.snap) = "ok"

EntersCopyUpload ==
    /\ pc = "copyFallback" /\ pc' = "copyUpload"
    /\ todo' = todo /\ remote' = remote
    /\ UploadPreconditionHolds(Current.dest, Absent)

EntersPostDelete ==
    /\ pc = "postDelete" /\ pc' = "postDeleteRequest"
    /\ todo # {} /\ todo' = todo /\ remote' = remote /\ local' = local /\ deferrals' = deferrals
    /\ ~KeptDescendant(Current.path) /\ kept' = kept
    /\ ~SpellingRelated(Current.path) /\ ~LocalPresent(Current) /\ ~GuardFails(Current.guards)
    /\ LiveSnapshot(remote[Current.path], Current.snap) = "ok"

Asks ==
    /\ pc' = "preDeleteRequest" => Waits \/ EntersPreDelete
    /\ pc' = "copyUpload" => Waits \/ EntersCopyUpload
    /\ pc' = "postDeleteRequest" => Waits \/ EntersPostDelete

(* Every other action leaves no request to be sent.                        *)
LEMMA StepAsks ==
    ASSUME TypeOK, [Next]_vars
    PROVE  Asks
  <1>1. ASSUME Preflight PROVE Asks
    BY <1>1
       DEF Preflight, Looks, worldVars, Asks
  <1>2. ASSUME PreDeleteBatch PROVE Asks
    BY <1>2
       DEF PreDeleteBatch, historyVars, worldVars, Asks
  <1>3. ASSUME PreDeleteCheck PROVE Asks
    BY <1>3
       DEF PreDeleteCheck, At, DropCurrent, Looks, Fails, FailsAfter, worldVars, Asks,
          EntersPreDelete
  <1>4. ASSUME PreDeleteRequest PROVE Asks
    BY <1>4
       DEF PreDeleteRequest, DropCurrent, Fails, FailsAfter, Asks
  <1>5. ASSUME OpenWrites PROVE Asks
    BY <1>5
       DEF OpenWrites, Through, historyVars, worldVars, Asks
  <1>6. ASSUME CreateExcluded PROVE Asks
    BY <1>6
       DEF CreateExcluded, At, DropCurrent, Judged, JudgedWith, FailsAfter, historyVars,
          worldVars, Asks
  <1>7. ASSUME CreateFolder PROVE Asks
    BY <1>7
       DEF CreateFolder, At, DropCurrent, Asks
  <1>8. ASSUME NEW c \in Classes, CreateRefused(c) PROVE Asks
    BY <1>8
       DEF CreateRefused, At, DropCurrent, Judged, JudgedWith, FailsAfter, historyVars, worldVars,
          Asks
  <1>9. ASSUME CopyBatch PROVE Asks
    BY <1>9
       DEF CopyBatch, Through, Judged, JudgedWith, FailsAfter, historyVars, worldVars, Asks
  <1>10. ASSUME CopyCheck PROVE Asks
    BY <1>10
       DEF CopyCheck, At, CopyLeftOut, DropCurrent, Judged, JudgedWith, Fails, FailsAfter, Looks,
          worldVars, Asks
  <1>11. ASSUME CopySucceeds PROVE Asks
    BY <1>11
       DEF CopySucceeds, DropCurrent, Fails, FailsAfter, Asks
  <1>12. ASSUME NEW remains \in {Absent} \cup ForeignEntries, CopyFails(remains) PROVE Asks
    BY <1>12
       DEF CopyFails, historyVars, Asks
  <1>13. ASSUME CopyFallbackCheck PROVE Asks
    BY <1>13
       DEF CopyFallbackCheck, CopyLeftOut, DropCurrent, Judged, JudgedWith, FailsAfter, Looks,
          worldVars, Asks, EntersCopyUpload
  <1>14. ASSUME CopyUploadLands PROVE Asks
    BY <1>14
       DEF CopyUploadLands, DropCurrent, Asks
  <1>15. ASSUME NEW c \in Classes \cup {NotRefused}, CopyUploadDeferred(c) PROVE Asks
    BY <1>15
       DEF CopyUploadDeferred, CopyLeftOut, DropCurrent, Judged, JudgedWith, FailsAfter, Asks
  <1>16. ASSUME CopyVerify PROVE Asks
    BY <1>16
       DEF CopyVerify, Through, Judged, JudgedWith, Fails, FailsAfter, historyVars, worldVars,
          Asks
  <1>17. ASSUME NEW a \in open, UploadLook(a) PROVE Asks
    BY <1>17
       DEF UploadLook, Judged, JudgedWith, FailsAfter, Looks, worldVars, Asks
  <1>18. ASSUME NEW a \in inflight, Upload(a) PROVE Asks
    BY <1>18
       DEF Upload, Asks
  <1>19. ASSUME NEW a \in inflight, NEW c \in Classes \cup {NotRefused}, UploadDeferred(a, c) PROVE Asks
    BY <1>19
       DEF UploadDeferred, JudgedWith, FailsAfter, Asks
  <1>20. ASSUME NEW a \in inflight, DrainUpload(a) PROVE Asks
    BY <1>20
       DEF DrainUpload, Asks
  <1>21. ASSUME PostDeleteBatch PROVE Asks
    BY <1>21
       DEF PostDeleteBatch, UploadsSettled, Fails, FailsAfter, historyVars, worldVars, Asks
  <1>22. ASSUME PostDeleteDecide PROVE Asks
    BY <1>22
       DEF PostDeleteDecide, At, KeepDelete, DropCurrent, Looks, worldVars, Asks, EntersPostDelete
  <1>23. ASSUME PostDeleteAbsenceUnknown PROVE Asks
    BY <1>23
       DEF PostDeleteAbsenceUnknown, At, KeepDelete, DropCurrent, historyVars, worldVars, Asks
  <1>24. ASSUME PostDeleteRequest PROVE Asks
    BY <1>24
       DEF PostDeleteRequest, DropCurrent, Asks
  <1>25. ASSUME NEW concernsRun \in BOOLEAN, PostDeleteRefused(concernsRun) PROVE Asks
    BY <1>25
       DEF PostDeleteRefused, KeepDelete, DropCurrent, Fails, FailsAfter, historyVars, worldVars,
          Asks
  <1>26. ASSUME NEW a \in reappeared, ReuploadCheck(a) PROVE Asks
    BY <1>26
       DEF ReuploadCheck, Through, Looks, worldVars, Asks
  <1>27. ASSUME NEW u \in inflight, Reupload(u) PROVE Asks
    BY <1>27
       DEF Reupload, Through, Asks
  <1>28. ASSUME StartRenames PROVE Asks
    BY <1>28
       DEF StartRenames, Through, historyVars, worldVars, Asks
  <1>29. ASSUME Rename PROVE Asks
    BY <1>29
       DEF Rename, At, DropCurrent, Asks
  <1>30. ASSUME RenamePending PROVE Asks
    BY <1>30
       DEF RenamePending, At, DropCurrent, historyVars, worldVars, Asks
  <1>31. ASSUME Complete PROVE Asks
    BY <1>31
       DEF Complete, Through, historyVars, worldVars, Asks
  <1>32. ASSUME FailRun PROVE Asks
    BY <1>32
       DEF FailRun, Fails, FailsAfter, historyVars, worldVars, Asks, Waits
  <1>33. ASSUME DeleteAnswerLost PROVE Asks
    BY <1>33
       DEF DeleteAnswerLost, KeepDelete, DropCurrent, Fails, FailsAfter, Asks
  <1>34. ASSUME NEW p \in Paths, NEW e \in ForeignEntries \cup {Absent}, RemoteEdit(p, e) PROVE Asks
    BY <1>34
       DEF RemoteEdit, Asks, Waits, TypeOK
  <1>35. ASSUME NEW p \in Paths, NEW e \in LocalEntries \cup {Absent}, LocalEdit(p, e) PROVE Asks
    BY <1>35
       DEF LocalEdit, Asks, Waits
  <1>36. ASSUME Stays PROVE Asks
    BY <1>36
       DEF Stays, vars, historyVars, editVars, worldVars, Asks, Waits
  <1> QED
    BY <1>1, <1>2, <1>3, <1>4, <1>5, <1>6, <1>7, <1>8, <1>9, <1>10, <1>11, <1>12, <1>13, <1>14,
       <1>15, <1>16, <1>17, <1>18, <1>19, <1>20, <1>21, <1>22, <1>23, <1>24, <1>25, <1>26, <1>27,
       <1>28, <1>29, <1>30, <1>31, <1>32, <1>33, <1>34, <1>35, <1>36 DEF Next, RunStep, Over, Stays

(* The action at hand is the same as long as the loop is and nothing is    *)
(* taken from it.                                                          *)
LEMMA CurrentStays ==
    ASSUME Queue' = Queue, todo' = todo
    PROVE  Current' = Current
  BY DEF Current

(* A request that waits is for the same action.                            *)
LEMMA SameRequest ==
    ASSUME Grows, Waits \/ EntersPreDelete \/ EntersCopyUpload \/ EntersPostDelete,
           pc' \in {"preDeleteRequest", "copyUpload", "postDeleteRequest"}
    PROVE  Current' = Current
  <1>1. Queue' = Queue /\ todo' = todo
    BY QueueHolds DEF QueueAt, Grows, Waits, EntersPreDelete, EntersCopyUpload, EntersPostDelete
  <1> QED
    BY <1>1, CurrentStays

(* RequestInv is kept.                                                     *)
LEMMA StepRequest ==
    ASSUME TypeOK, RequestInv, Grows, Asks, LocalStep
    PROVE  RequestInv'
  <1>1. CASE Waits /\ pc \in {"preDeleteRequest", "copyUpload", "postDeleteRequest"}
    <2>1. Current' = Current
      BY <1>1, SameRequest DEF Waits
    <2>2. ASSUME pc \in {"preDeleteRequest", "postDeleteRequest"}
          PROVE  Authorised(Current.path, Current.snap)'
      <3>1. Current.path \in Paths /\ Authorised(Current.path, Current.snap)
        BY <2>2, RequestedIs DEF RequestInv
      <3>2. remote'[Current.path] = remote[Current.path] \/ Current.path \in freshRemote'
        BY <1>1, <3>1 DEF Waits
      <3> QED
        BY <1>1, <2>1, <3>1, <3>2 DEF Waits, Authorised, LiveSnapshot, MetadataMatches
    <2>3. ASSUME pc = "copyUpload"
          PROVE  Replaceable(Current.dest, Absent)'
      <3>1. Current.dest \in Paths /\ Replaceable(Current.dest, Absent)
        BY <2>3, AtHandHolds, PlanHolds DEF RequestInv, AtHand, Planned
      <3>2. remote'[Current.dest] = remote[Current.dest] \/ Current.dest \in freshRemote'
        BY <1>1, <3>1 DEF Waits
      <3> QED
        BY <1>1, <2>1, <3>1, <3>2 DEF Waits, Replaceable, LiveSnapshot, MetadataMatches
    <2>4. ASSUME pc = "postDeleteRequest"
          PROVE  /\ local'[Current.localPath] = Absent \/ Current.localPath \in freshLocal'
                 /\ ~SpellingRelated(Current.path)'
                 /\ \A g \in Current.guards :
                       g.dest \in touched' \/ remote'[g.dest].body = g.local.body
      <3>1. local'[Current.localPath] = Absent \/ Current.localPath \in freshLocal'
        BY <1>1, <2>4, RequestedIs DEF RequestInv, LocalStep, Waits
      <3>2. ~SpellingRelated(Current.path)'
        BY <1>1, <2>1, <2>4 DEF RequestInv, SpellingRelated, Waits
      <3>3. ASSUME NEW g \in Current.guards
            PROVE  g.dest \in touched' \/ remote'[g.dest].body = g.local.body
        <4>1. g.dest \in Paths
          BY <2>4, AtHandHolds, GuardIs DEF AtHand
        <4> QED
          BY <1>1, <2>4, <4>1 DEF RequestInv, Waits
      <3> QED
        BY <3>1, <3>2, <3>3
    <2> QED
      BY <1>1, <2>1, <2>2, <2>3, <2>4 DEF RequestInv, Waits
  <1>2. CASE EntersPreDelete
    <2>1. Current' = Current
      BY <1>2, SameRequest DEF EntersPreDelete
    <2> QED
      BY <1>2, <2>1 DEF EntersPreDelete, RequestInv, Authorised, LiveSnapshot, MetadataMatches
  <1>3. CASE EntersCopyUpload
    <2>1. Current' = Current
      BY <1>3, SameRequest DEF EntersCopyUpload
    <2>2. Permits(remote[Current.dest], Absent)
      BY <1>3, PreconditionSuffices DEF EntersCopyUpload
    <2> QED
      BY <1>3, <2>1, <2>2 DEF EntersCopyUpload, RequestInv, Replaceable, Permits
  <1>4. CASE EntersPostDelete
    <2>1. Current' = Current
      BY <1>4, SameRequest DEF EntersPostDelete
    <2>2. Authorised(Current.path, Current.snap)'
      BY <1>4, <2>1 DEF EntersPostDelete, Authorised, LiveSnapshot, MetadataMatches
    <2>3. ~SpellingRelated(Current.path)'
      BY <1>4, <2>1 DEF EntersPostDelete, SpellingRelated
    <2>4. \A g \in Current.guards : remote'[g.dest].body = g.local.body
      BY <1>4 DEF EntersPostDelete, GuardFails, DestinationStands
    <2>5. local'[Current.localPath] = Absent
      BY <1>4 DEF EntersPostDelete, LocalPresent
    <2> QED
      BY <1>4, <2>1, <2>2, <2>3, <2>4, <2>5 DEF EntersPostDelete, RequestInv
  <1>5. CASE pc' \notin {"preDeleteRequest", "copyUpload", "postDeleteRequest"}
    BY <1>5 DEF RequestInv
  <1> QED
    BY <1>1, <1>2, <1>3, <1>4, <1>5 DEF Asks, Waits

(***************************************************************************)
(* The results.                                                            *)
(***************************************************************************)

(* A run begins with what the plan was made of.                            *)
LEMMA InitHolds ==
    ASSUME Init
    PROVE  IInv
  <1>1. PICK s \in Scenarios : plan = s.plan /\ local = s.local /\ remote = s.remote
    BY DEF Init
  <1>2. PlannedFor(s)
    BY PlanAssumption
  <1>3. TypeOK
    BY <1>1, <1>2 DEF Init, TypeOK, PlannedFor, Labels, Before, Loops
  <1>4. FlightInv /\ RequestInv /\ WritesInv /\ NoSeenWriteLost /\ ReappearedFileKept
    BY DEF Init, FlightInv, RequestInv, WritesInv, NoSeenWriteLost, ReappearedFileKept,
           Before, Writing, Deleting
  <1>5. KeptInv
    BY <1>1, <1>2 DEF KeptInv, PlannedFor
  <1>6. StandsAsPlanned
    BY <1>1, <1>2 DEF StandsAsPlanned, PlannedFor
  <1>7. OneSpellingSurvives
    <2>1. ASSUME NEW d \in Elements(plan.postDeletes) PROVE Spelled(d)
      BY <1>1, <1>2, <1>3, DeletePathIs DEF Spelled, PlannedFor
    <2>2. ASSUME NEW d \in Elements(plan.postDeletes), NEW g \in d.guards PROVE ContentStands(d, g)
      BY <1>1, <1>2, <1>3, DeletePathIs DEF ContentStands, PlannedFor
    <2> QED
      BY <2>1, <2>2 DEF OneSpellingSurvives
  <1> QED
    BY <1>3, <1>4, <1>5, <1>6, <1>7 DEF IInv, SpellingInv

(* IInv is inductive.                                                      *)
LEMMA StepHolds ==
    ASSUME IInv, [Next]_vars
    PROVE  IInv'
  <1> TypeOK /\ FlightInv /\ RequestInv /\ WritesInv /\ KeptInv
    BY DEF IInv
  <1>1. Grows
    BY StepGrows DEF WritesInv
  <1>2. Onward
    BY StepOnward DEF TypeOK, FlightInv
  <1>3. NasStep
    BY StepOnNas
  <1>4. TypeOK'
    BY <1>1, <1>2, <1>3, StepTyped
  <1>5. FlightInv'
    BY <1>1, <1>3, StepFlies, StepFlight
  <1>6. RequestInv'
    BY <1>1, StepAsks, StepOnLocal, StepRequest
  <1>7. WritesInv'
    BY <1>1, <1>2, <1>3, StepWrites
  <1>8. KeptInv'
    BY <1>1, <1>2, <1>3, StepKept
  <1>9. SpellingInv'
    BY <1>1, <1>2, <1>3, StepSpelling
  <1>10. NoSeenWriteLost' /\ ReappearedFileKept'
    BY <1>3, StepLosesNothing
  <1> QED
    BY <1>4, <1>5, <1>6, <1>7, <1>8, <1>9, <1>10 DEF IInv

(* The inductive invariant of execute_with_observer: what the run has      *)
(* checked, deferred, carried out and still has to do fit together in      *)
(* every phase, whatever others do to the two trees.                       *)
THEOREM ExecutorInvariant == Spec => []IInv
  <1>1. Init => IInv
    BY InitHolds
  <1>2. IInv /\ [Next]_vars => IInv'
    BY StepHolds
  <1> QED
    BY <1>1, <1>2, PTL DEF Spec

(* A run loses nothing: what another writer made and the run has seen is   *)
(* neither overwritten nor deleted, the copy of a local file that is back  *)
(* is not deleted, and a renamed entry stands under one of its spellings   *)
(* with its content (the guards of execute_plan).                          *)
THEOREM ExecutorNothingLost == Spec => []NothingLost
  <1>1. IInv => NothingLost
    BY DEF IInv, SpellingInv, NothingLost
  <1> QED
    BY <1>1, ExecutorInvariant, PTL

(***************************************************************************)
(* What is planned is carried out or named.                                *)
(***************************************************************************)

LEMMA ArrangedHolds ==
    ASSUME TypeOK
    PROVE  Arranged(plan)
  BY PlanAssumption DEF TypeOK, PlannedFor

(* Deletions go from the deepest folder up: none that is still to come     *)
(* lies in, or is, the one at hand.                                        *)
LEMMA DeepestAtHand ==
    ASSUME TypeOK, todo # {},
           pc \in {"preDelete", "preDeleteRequest", "postDelete", "postDeleteRequest"}
    PROVE  \A d \in todo \ {Current} : Current.path \notin Within(d.path)
  <1>1. DeepestFirst(Queue)
    BY ArrangedHolds, QueueHolds DEF Arranged, QueueAt
  <1> QED
    BY <1>1, CurrentFirst DEF DeepestFirst, Loops

(* AccountInv is kept: a loop drops what it carries out, names or counts.  *)
LEMMA StepAccount ==
    ASSUME TypeOK, FlightInv, WritesInv, AccountInv, Grows, [Next]_vars
    PROVE  AccountInv'
  <1>1. ASSUME Preflight PROVE AccountInv'
    BY <1>1
       DEF Preflight, Looks, worldVars, AccountInv, Named, Covered, Grows, Before, Deleting
  <1>2. ASSUME PreDeleteBatch PROVE AccountInv'
    BY <1>2
       DEF PreDeleteBatch, historyVars, worldVars, AccountInv, Named, Covered, Grows, Before,
          Deleting
  <1>3. ASSUME PreDeleteCheck PROVE AccountInv'
    BY <1>3
       DEF PreDeleteCheck, At, DropCurrent, Looks, Fails, FailsAfter, worldVars, AccountInv,
          Named, Covered, Grows, Before, Deleting
  <1>4. ASSUME PreDeleteRequest PROVE AccountInv'
    BY <1>4
       DEF PreDeleteRequest, DropCurrent, Fails, FailsAfter, AccountInv, Named, Covered, Grows,
          Before, Deleting
  <1>5. ASSUME OpenWrites PROVE AccountInv'
    BY <1>5
       DEF OpenWrites, Through, historyVars, worldVars, AccountInv, Named, Covered, Grows, Before,
          Deleting
  <1>6. ASSUME CreateExcluded PROVE AccountInv'
    BY <1>6
       DEF CreateExcluded, At, DropCurrent, Judged, JudgedWith, FailsAfter, historyVars,
          worldVars, AccountInv, Named, Covered, Grows, Before, Deleting
  <1>7. ASSUME CreateFolder PROVE AccountInv'
    BY <1>7
       DEF CreateFolder, At, DropCurrent, AccountInv, Named, Covered, Grows, Before, Deleting
  <1>8. ASSUME NEW c \in Classes, CreateRefused(c) PROVE AccountInv'
    BY <1>8
       DEF CreateRefused, At, DropCurrent, Judged, JudgedWith, FailsAfter, historyVars, worldVars,
          AccountInv, Named, Covered, Grows, Before, Deleting
  <1>9. ASSUME CopyBatch PROVE AccountInv'
    BY <1>9
       DEF CopyBatch, Through, Judged, JudgedWith, FailsAfter, historyVars, worldVars, AccountInv,
          Named, Covered, Grows, Before, Deleting
  <1>10. ASSUME CopyCheck PROVE AccountInv'
    BY <1>10
       DEF CopyCheck, At, CopyLeftOut, DropCurrent, Judged, JudgedWith, Fails, FailsAfter, Looks,
          worldVars, AccountInv, Named, Covered, Grows, Before, Deleting
  <1>11. ASSUME CopySucceeds PROVE AccountInv'
    BY <1>11
       DEF CopySucceeds, DropCurrent, Fails, FailsAfter, AccountInv, Named, Covered, Grows,
          Before, Deleting
  <1>12. ASSUME NEW remains \in {Absent} \cup ForeignEntries, CopyFails(remains) PROVE AccountInv'
    BY <1>12
       DEF CopyFails, historyVars, AccountInv, Named, Covered, Grows, Before, Deleting
  <1>13. ASSUME CopyFallbackCheck PROVE AccountInv'
    BY <1>13
       DEF CopyFallbackCheck, CopyLeftOut, DropCurrent, Judged, JudgedWith, FailsAfter, Looks,
          worldVars, AccountInv, Named, Covered, Grows, Before, Deleting
  <1>14. ASSUME CopyUploadLands PROVE AccountInv'
    BY <1>14
       DEF CopyUploadLands, DropCurrent, AccountInv, Named, Covered, Grows, Before, Deleting
  <1>15. ASSUME NEW c \in Classes \cup {NotRefused}, CopyUploadDeferred(c) PROVE AccountInv'
    BY <1>15
       DEF CopyUploadDeferred, CopyLeftOut, DropCurrent, Judged, JudgedWith, FailsAfter,
          AccountInv, Named, Covered, Grows, Before, Deleting
  <1>16. ASSUME CopyVerify PROVE AccountInv'
    BY <1>16
       DEF CopyVerify, Through, Judged, JudgedWith, Fails, FailsAfter, historyVars, worldVars,
          AccountInv, Named, Covered, Grows, Before, Deleting
  <1>17. ASSUME NEW a \in open, UploadLook(a) PROVE AccountInv'
    BY <1>17
       DEF UploadLook, Judged, JudgedWith, FailsAfter, Looks, worldVars, AccountInv, Named,
          Covered, Grows, Before, Deleting
  <1>18. ASSUME NEW a \in inflight, Upload(a) PROVE AccountInv'
    BY <1>18
       DEF Upload, AccountInv, Named, Covered, Grows, Before, Deleting
  <1>19. ASSUME NEW a \in inflight, NEW c \in Classes \cup {NotRefused}, UploadDeferred(a, c) PROVE AccountInv'
    BY <1>19
       DEF UploadDeferred, JudgedWith, FailsAfter, AccountInv, Named, Covered, Grows, Before,
          Deleting
  <1>20. ASSUME NEW a \in inflight, DrainUpload(a) PROVE AccountInv'
    BY <1>20
       DEF DrainUpload, AccountInv, Named, Covered, Grows, Before, Deleting
  <1>21. ASSUME PostDeleteBatch PROVE AccountInv'
    BY <1>21
       DEF PostDeleteBatch, UploadsSettled, Fails, FailsAfter, historyVars, worldVars, AccountInv,
          Named, Covered, Grows, Before, Deleting
  <1>22. ASSUME PostDeleteDecide PROVE AccountInv'
    BY <1>22
       DEF PostDeleteDecide, At, KeepDelete, DropCurrent, Looks, worldVars, AccountInv, Named,
          Covered, Grows, Before, Deleting
  <1>23. ASSUME PostDeleteAbsenceUnknown PROVE AccountInv'
    BY <1>23
       DEF PostDeleteAbsenceUnknown, At, KeepDelete, DropCurrent, historyVars, worldVars,
          AccountInv, Named, Covered, Grows, Before, Deleting
  <1>24. ASSUME PostDeleteRequest PROVE AccountInv'
    BY <1>24
       DEF PostDeleteRequest, DropCurrent, AccountInv, Named, Covered, Grows, Before, Deleting
  <1>25. ASSUME NEW concernsRun \in BOOLEAN, PostDeleteRefused(concernsRun) PROVE AccountInv'
    BY <1>25
       DEF PostDeleteRefused, KeepDelete, DropCurrent, Fails, FailsAfter, historyVars, worldVars,
          AccountInv, Named, Covered, Grows, Before, Deleting
  <1>26. ASSUME NEW a \in reappeared, ReuploadCheck(a) PROVE AccountInv'
    BY <1>26
       DEF ReuploadCheck, Through, Looks, worldVars, AccountInv, Named, Covered, Grows, Before,
          Deleting
  <1>27. ASSUME NEW u \in inflight, Reupload(u) PROVE AccountInv'
    BY <1>27
       DEF Reupload, Through, AccountInv, Named, Covered, Grows, Before, Deleting
  <1>28. ASSUME StartRenames PROVE AccountInv'
    BY <1>28
       DEF StartRenames, Through, historyVars, worldVars, AccountInv, Named, Covered, Grows,
          Before, Deleting, WritesInv, Writing
  <1>29. ASSUME Rename PROVE AccountInv'
    BY <1>29
       DEF Rename, At, DropCurrent, AccountInv, Named, Covered, Grows, Before, Deleting
  <1>30. ASSUME RenamePending PROVE AccountInv'
    BY <1>30
       DEF RenamePending, At, DropCurrent, historyVars, worldVars, AccountInv, Named, Covered,
          Grows, Before, Deleting
  <1>31. ASSUME Complete PROVE AccountInv'
    BY <1>31
       DEF Complete, Through, historyVars, worldVars, AccountInv, Named, Covered, Grows, Before,
          Deleting
  <1>32. ASSUME FailRun PROVE AccountInv'
    BY <1>32
       DEF FailRun, Fails, FailsAfter, historyVars, worldVars, AccountInv, Named, Covered, Grows,
          Before, Deleting
  <1>33. ASSUME DeleteAnswerLost PROVE AccountInv'
    BY <1>33
       DEF DeleteAnswerLost, KeepDelete, DropCurrent, Fails, FailsAfter, AccountInv, Named,
          Covered, Grows, Before, Deleting
  <1>34. ASSUME NEW p \in Paths, NEW e \in ForeignEntries \cup {Absent}, RemoteEdit(p, e) PROVE AccountInv'
    BY <1>34
       DEF RemoteEdit, AccountInv, Named, Covered, Grows, Before, Deleting
  <1>35. ASSUME NEW p \in Paths, NEW e \in LocalEntries \cup {Absent}, LocalEdit(p, e) PROVE AccountInv'
    BY <1>35
       DEF LocalEdit, AccountInv, Named, Covered, Grows, Before, Deleting
  <1>36. ASSUME Stays PROVE AccountInv'
    BY <1>36
       DEF Stays, vars, historyVars, editVars, worldVars, AccountInv, Named, Covered, Grows,
          Before, Deleting
  <1> QED
    BY <1>1, <1>2, <1>3, <1>4, <1>5, <1>6, <1>7, <1>8, <1>9, <1>10, <1>11, <1>12, <1>13, <1>14,
       <1>15, <1>16, <1>17, <1>18, <1>19, <1>20, <1>21, <1>22, <1>23, <1>24, <1>25, <1>26, <1>27,
       <1>28, <1>29, <1>30, <1>31, <1>32, <1>33, <1>34, <1>35, <1>36 DEF Next, RunStep, Over, Stays

(***************************************************************************)
(* What is deferred is left alone.                                         *)
(***************************************************************************)

(* Whatever may be deferred is a path.                                     *)
Nameable ==
    /\ \A a \in plan.uploads \cup Elements(plan.copies) \cup open \cup inflight : a.rel \in Paths
    /\ \A a \in reappeared : a.path \in Paths
    /\ AtHand
    /\ (pc \in {"preDelete", "postDelete"} /\ todo # {}) \/ pc \in {"preDeleteRequest", "postDeleteRequest"} =>
          Current.path \in Paths
    /\ (pc \in {"create", "copy", "rename"} /\ todo # {})
          \/ pc \in {"copyRequest", "copyFallback", "copyUpload"} => Current.rel \in Paths

LEMMA NameableHolds ==
    ASSUME TypeOK, FlightInv, ClearInv
    PROVE  Nameable
  <1>1. Planned(plan) /\ Arranged(plan) /\ AtHand
    BY PlanHolds, ArrangedHolds, AtHandHolds
  <1>2. \A a \in Writes(plan) \cup Elements(plan.creates) \cup Elements(plan.renames) : a.rel \in Paths
    BY <1>1 DEF Planned, Arranged
  <1>3. \A d \in Elements(plan.preDeletes) \cup Elements(plan.postDeletes) : d.path \in Paths
    BY <1>1 DEF Planned
  <1>4. \A a \in inflight : a.rel \in Paths
    BY <1>2 DEF FlightInv, ClearInv
  <1> QED
    BY <1>1, <1>2, <1>3, <1>4 DEF Nameable, AtHand, TypeOK, Writes

(* The deferrals after a step, and what it leaves of todo.                 *)
Deferring ==
    /\ deferrals' \subseteq Paths /\ remoteEdits' \in Nat
    /\ pc' \in Copying => todo' \subseteq open'
    /\ pc' \notin Deleting \cup {"drain", "end"} => reappeared' = {}

(* A path that is deferred is a path; a copy that is left is still open.   *)
LEMMA StepDeferring ==
    ASSUME TypeOK, ClearInv, Grows, Nameable, [Next]_vars
    PROVE  Deferring
  <1>1. ASSUME Preflight PROVE Deferring
    BY <1>1
       DEF Preflight, Looks, worldVars, editVars, ClearInv, Deferring, Copying, Deleting,
          Nameable, TypeOK
  <1>2. ASSUME \/ PreDeleteBatch \/ PreDeleteCheck \/ PreDeleteRequest \/ OpenWrites
               \/ CreateExcluded \/ CreateFolder
               \/ \E c \in Classes : CreateRefused(c)
               \/ CopyBatch \/ CopyCheck
        PROVE  Deferring
    BY <1>2
       DEF PreDeleteBatch, historyVars, worldVars, PreDeleteCheck, At, DropCurrent, Looks, Fails,
          FailsAfter, PreDeleteRequest, OpenWrites, Through, CreateExcluded, Judged, JudgedWith,
          CreateFolder, CreateRefused, CopyBatch, CopyCheck, CopyLeftOut, editVars, ClearInv,
          Deferring, Copying, Deleting, Nameable
  <1>3. ASSUME \/ CopySucceeds
               \/ \E remains \in {Absent} \cup ForeignEntries : CopyFails(remains)
               \/ CopyFallbackCheck \/ CopyUploadLands
               \/ \E c \in Classes \cup {NotRefused} : CopyUploadDeferred(c)
               \/ CopyVerify
               \/ \E a \in open : UploadLook(a)
               \/ \E a \in inflight : Upload(a)
               \/ \E a \in inflight, c \in Classes \cup {NotRefused} : UploadDeferred(a, c)
        PROVE  Deferring
    BY <1>3
       DEF CopySucceeds, DropCurrent, Fails, FailsAfter, CopyFails, historyVars,
          CopyFallbackCheck, CopyLeftOut, Judged, JudgedWith, Looks, worldVars, CopyUploadLands,
          CopyUploadDeferred, CopyVerify, Through, UploadLook, Upload, UploadDeferred, editVars,
          ClearInv, Deferring, Copying, Deleting, Nameable
  <1>4. ASSUME \/ \E a \in inflight : DrainUpload(a)
               \/ PostDeleteBatch \/ PostDeleteDecide \/ PostDeleteAbsenceUnknown
               \/ PostDeleteRequest
               \/ \E concernsRun \in BOOLEAN : PostDeleteRefused(concernsRun)
               \/ \E a \in reappeared : ReuploadCheck(a)
               \/ \E u \in inflight : Reupload(u)
               \/ StartRenames
        PROVE  Deferring
    BY <1>4
       DEF DrainUpload, PostDeleteBatch, UploadsSettled, Fails, FailsAfter, historyVars,
          worldVars, PostDeleteDecide, At, KeepDelete, DropCurrent, Looks,
          PostDeleteAbsenceUnknown, PostDeleteRequest, PostDeleteRefused, ReuploadCheck, Through,
          Reupload, StartRenames, editVars, ClearInv, Deferring, Copying, Deleting, Nameable
  <1>5. ASSUME \/ Rename \/ RenamePending \/ Complete \/ FailRun \/ DeleteAnswerLost
               \/ \E p \in Paths, e \in ForeignEntries \cup {Absent} : RemoteEdit(p, e)
               \/ \E p \in Paths, e \in LocalEntries \cup {Absent} : LocalEdit(p, e)
               \/ Stays
        PROVE  Deferring
    BY <1>5
       DEF Rename, At, DropCurrent, RenamePending, historyVars, worldVars, Complete, Through,
          FailRun, Fails, FailsAfter, DeleteAnswerLost, KeepDelete, RemoteEdit, LocalEdit, Stays,
          vars, editVars, ClearInv, Deferring, Copying, Deleting, Nameable
  <1> QED
    BY <1>1, <1>2, <1>3, <1>4, <1>5 DEF Next, RunStep, Over, Stays

(* What is still to come is not deferred by the step.                      *)
Spared ==
    /\ pc' \in {"preDelete", "preDeleteRequest"} => \A a \in todo' : ~Covered(a.path)'
    /\ pc' \in Copying \cup {"upload"} => \A a \in open' : ~Covered(a.rel)'
    /\ \A a \in inflight' : ~Covered(a.rel)' /\ (a \in Writes(plan) \/ a.rel = a.dest)

(* The paths of two planned writes, or of the deletion at hand and another *)
(* one that is left, lie apart.                                            *)
Apart ==
    /\ \A a, b \in Writes(plan) : a.rel \in Within(b.rel) => a = b
    /\ todo # {} /\ pc \in {"preDelete", "preDeleteRequest", "postDelete", "postDeleteRequest"} =>
          \A d \in todo \ {Current} : Current.path \notin Within(d.path)

LEMMA ApartHolds ==
    ASSUME TypeOK
    PROVE  Apart
  BY ArrangedHolds, DeepestAtHand DEF Arranged, Apart

(* A step defers what lies apart from all that is still to come.           *)
LEMMA StepSpares ==
    ASSUME TypeOK, FlightInv, ClearInv, Grows, Nameable, Apart, [Next]_vars
    PROVE  Spared
  <1>1. ASSUME Preflight PROVE Spared
    BY <1>1
       DEF Preflight, Looks, worldVars, FlightInv, Spared, Copying
  <1>2. ASSUME PreDeleteBatch PROVE Spared
    BY <1>2
       DEF PreDeleteBatch, historyVars, worldVars, TypeOK, FlightInv, ClearInv, Spared, Copying,
          Deleting, Nameable, AtHand, Apart, Covered, Within
  <1>3. ASSUME PreDeleteCheck PROVE Spared
    BY <1>3
       DEF PreDeleteCheck, At, DropCurrent, Looks, Fails, FailsAfter, worldVars, TypeOK,
          FlightInv, ClearInv, Spared, Copying, Deleting, Nameable, AtHand, Apart, Covered, Within
  <1>4. ASSUME PreDeleteRequest PROVE Spared
    BY <1>4
       DEF PreDeleteRequest, DropCurrent, Fails, FailsAfter, ClearInv, Spared, Copying, Covered,
          FlightInv
  <1>5. ASSUME OpenWrites PROVE Spared
    BY <1>5
       DEF OpenWrites, Through, historyVars, worldVars, FlightInv, Spared, Copying
  <1>6. ASSUME CreateExcluded PROVE Spared
    BY <1>6
       DEF CreateExcluded, At, DropCurrent, Judged, JudgedWith, FailsAfter, historyVars,
          worldVars, TypeOK, FlightInv, ClearInv, Spared, Copying, Deleting, Nameable, AtHand,
          Apart, Covered, Within
  <1>7. ASSUME CreateFolder PROVE Spared
    BY <1>7
       DEF CreateFolder, At, DropCurrent, TypeOK, FlightInv, ClearInv, Spared, Copying, Deleting,
          Nameable, AtHand, Apart, Covered, Within
  <1>8. ASSUME NEW c \in Classes, CreateRefused(c) PROVE Spared
    BY <1>8
       DEF CreateRefused, At, DropCurrent, Judged, JudgedWith, FailsAfter, historyVars, worldVars,
          FlightInv, Spared, Copying
  <1>9. ASSUME CopyBatch PROVE Spared
    BY <1>9
       DEF CopyBatch, Through, Judged, JudgedWith, FailsAfter, historyVars, worldVars, TypeOK,
          FlightInv, ClearInv, Spared, Copying, Deleting, Nameable, AtHand, Apart, Covered,
          Within, StillOpen
  <1>10. ASSUME CopyCheck PROVE Spared
    BY <1>10
       DEF CopyCheck, At, CopyLeftOut, DropCurrent, Judged, JudgedWith, Fails, FailsAfter, Looks,
          worldVars, TypeOK, FlightInv, ClearInv, Spared, Copying, Deleting, Nameable, AtHand,
          Apart, Covered, Within
  <1>11. ASSUME CopySucceeds PROVE Spared
    BY <1>11
       DEF CopySucceeds, DropCurrent, Fails, FailsAfter, TypeOK, FlightInv, ClearInv, Spared,
          Copying, Deleting, Nameable, AtHand, Apart, Covered, Within
  <1>12. ASSUME NEW remains \in {Absent} \cup ForeignEntries, CopyFails(remains) PROVE Spared
    BY <1>12
       DEF CopyFails, historyVars, TypeOK, FlightInv, ClearInv, Spared, Copying, Deleting,
          Nameable, AtHand, Apart, Covered, Within
  <1>13. ASSUME CopyFallbackCheck PROVE Spared
    BY <1>13
       DEF CopyFallbackCheck, CopyLeftOut, DropCurrent, Judged, JudgedWith, FailsAfter, Looks,
          worldVars, TypeOK, FlightInv, ClearInv, Spared, Copying, Deleting, Nameable, AtHand,
          Apart, Covered, Within
  <1>14. ASSUME CopyUploadLands PROVE Spared
    BY <1>14
       DEF CopyUploadLands, DropCurrent, TypeOK, FlightInv, ClearInv, Spared, Copying, Deleting,
          Nameable, AtHand, Apart, Covered, Within
  <1>15. ASSUME NEW c \in Classes \cup {NotRefused}, CopyUploadDeferred(c) PROVE Spared
    BY <1>15
       DEF CopyUploadDeferred, CopyLeftOut, DropCurrent, Judged, JudgedWith, FailsAfter, TypeOK,
          FlightInv, ClearInv, Spared, Copying, Deleting, Nameable, AtHand, Apart, Covered, Within
  <1>16. ASSUME CopyVerify PROVE Spared
    BY <1>16
       DEF CopyVerify, Through, Judged, JudgedWith, Fails, FailsAfter, historyVars, worldVars,
          TypeOK, FlightInv, ClearInv, Spared, Copying, Deleting, Nameable, AtHand, Apart,
          Covered, Within, StillOpen
  <1>17. ASSUME NEW a \in open, UploadLook(a) PROVE Spared
    BY <1>17
       DEF UploadLook, Judged, JudgedWith, FailsAfter, Looks, worldVars, TypeOK, FlightInv,
          ClearInv, Spared, Copying, Deleting, Nameable, AtHand, Apart, Covered, Within
  <1>18. ASSUME NEW a \in inflight, Upload(a) PROVE Spared
    BY <1>18
       DEF Upload, TypeOK, FlightInv, ClearInv, Spared, Copying, Deleting, Nameable, AtHand,
          Apart, Covered, Within
  <1>19. ASSUME NEW a \in inflight, NEW c \in Classes \cup {NotRefused}, UploadDeferred(a, c) PROVE Spared
    BY <1>19
       DEF UploadDeferred, JudgedWith, FailsAfter, TypeOK, FlightInv, ClearInv, Spared, Copying,
          Deleting, Nameable, AtHand, Apart, Covered, Within
  <1>20. ASSUME NEW a \in inflight, DrainUpload(a) PROVE Spared
    BY <1>20
       DEF DrainUpload, TypeOK, FlightInv, ClearInv, Spared, Copying, Deleting, Nameable, AtHand,
          Apart, Covered, Within
  <1>21. ASSUME PostDeleteBatch PROVE Spared
    BY <1>21
       DEF PostDeleteBatch, UploadsSettled, Fails, FailsAfter, historyVars, worldVars, TypeOK,
          FlightInv, ClearInv, Spared, Copying, Deleting, Nameable, AtHand, Apart, Covered, Within
  <1>22. ASSUME PostDeleteDecide PROVE Spared
    BY <1>22
       DEF PostDeleteDecide, At, KeepDelete, DropCurrent, Looks, worldVars, FlightInv, Spared,
          Copying
  <1>23. ASSUME PostDeleteAbsenceUnknown PROVE Spared
    BY <1>23
       DEF PostDeleteAbsenceUnknown, At, KeepDelete, DropCurrent, historyVars, worldVars,
          FlightInv, Spared, Copying
  <1>24. ASSUME PostDeleteRequest PROVE Spared
    BY <1>24
       DEF PostDeleteRequest, DropCurrent, TypeOK, FlightInv, ClearInv, Spared, Copying, Deleting,
          Nameable, AtHand, Apart, Covered, Within
  <1>25. ASSUME NEW concernsRun \in BOOLEAN, PostDeleteRefused(concernsRun) PROVE Spared
    BY <1>25
       DEF PostDeleteRefused, KeepDelete, DropCurrent, Fails, FailsAfter, historyVars, worldVars,
          FlightInv, Spared, Copying
  <1>26. ASSUME NEW a \in reappeared, ReuploadCheck(a) PROVE Spared
    BY <1>26
       DEF ReuploadCheck, Through, Looks, worldVars, TypeOK, FlightInv, ClearInv, Spared, Copying,
          Deleting, Nameable, AtHand, Apart, Covered, Within, AsUpload, Back
  <1>27. ASSUME NEW u \in inflight, Reupload(u) PROVE Spared
    BY <1>27
       DEF Reupload, Through, TypeOK, FlightInv, ClearInv, Spared, Copying, Deleting, Nameable,
          AtHand, Apart, Covered, Within
  <1>28. ASSUME StartRenames PROVE Spared
    BY <1>28
       DEF StartRenames, Through, historyVars, worldVars, TypeOK, FlightInv, ClearInv, Spared,
          Copying, Deleting, Nameable, AtHand, Apart, Covered, Within
  <1>29. ASSUME Rename PROVE Spared
    BY <1>29
       DEF Rename, At, DropCurrent, TypeOK, FlightInv, ClearInv, Spared, Copying, Deleting,
          Nameable, AtHand, Apart, Covered, Within
  <1>30. ASSUME RenamePending PROVE Spared
    BY <1>30
       DEF RenamePending, At, DropCurrent, historyVars, worldVars, FlightInv, Spared, Copying
  <1>31. ASSUME Complete PROVE Spared
    BY <1>31
       DEF Complete, Through, historyVars, worldVars, TypeOK, FlightInv, ClearInv, Spared,
          Copying, Deleting, Nameable, AtHand, Apart, Covered, Within
  <1>32. ASSUME FailRun PROVE Spared
    BY <1>32
       DEF FailRun, Fails, FailsAfter, historyVars, worldVars, TypeOK, FlightInv, ClearInv,
          Spared, Copying, Deleting, Nameable, AtHand, Apart, Covered, Within
  <1>33. ASSUME DeleteAnswerLost PROVE Spared
    BY <1>33
       DEF DeleteAnswerLost, KeepDelete, DropCurrent, Fails, FailsAfter, TypeOK, FlightInv,
          ClearInv, Spared, Copying, Deleting, Nameable, AtHand, Apart, Covered, Within
  <1>34. ASSUME NEW p \in Paths, NEW e \in ForeignEntries \cup {Absent}, RemoteEdit(p, e) PROVE Spared
    BY <1>34
       DEF RemoteEdit, TypeOK, FlightInv, ClearInv, Spared, Copying, Deleting, Nameable, AtHand,
          Apart, Covered, Within
  <1>35. ASSUME NEW p \in Paths, NEW e \in LocalEntries \cup {Absent}, LocalEdit(p, e) PROVE Spared
    BY <1>35
       DEF LocalEdit, TypeOK, FlightInv, ClearInv, Spared, Copying, Deleting, Nameable, AtHand,
          Apart, Covered, Within
  <1>36. ASSUME Stays PROVE Spared
    BY <1>36
       DEF Stays, vars, historyVars, editVars, worldVars, TypeOK, FlightInv, ClearInv, Spared,
          Copying, Deleting, Nameable, AtHand, Apart, Covered, Within
  <1> QED
    BY <1>1, <1>2, <1>3, <1>4, <1>5, <1>6, <1>7, <1>8, <1>9, <1>10, <1>11, <1>12, <1>13, <1>14,
       <1>15, <1>16, <1>17, <1>18, <1>19, <1>20, <1>21, <1>22, <1>23, <1>24, <1>25, <1>26, <1>27,
       <1>28, <1>29, <1>30, <1>31, <1>32, <1>33, <1>34, <1>35, <1>36 DEF Next, RunStep, Over, Stays

(* What is carried back stays kept, uncovered and apart from the rest.     *)
CarriedBack ==
    pc' \in Deleting =>
        /\ \A p \in Back' : p \in kept' /\ ~Covered(p)'
        /\ \A p, q \in Back' : p \notin Above[q]
        /\ \A p \in Back', d \in todo' : p \notin Within(d.path)
        /\ \A a \in reappeared', u \in inflight' : a.path # u.rel

(* A deletion is told from the others by its path.                         *)
LEMMA DeletedOnce ==
    ASSUME TypeOK
    PROVE  \A a, b \in Elements(plan.postDeletes) : a.path = b.path => a = b
  BY PlanHolds DEF Planned

(* A deferral does not reach what is carried back: a folder above it is    *)
(* found to hold something kept, and what lies beneath it went before.     *)
LEMMA StepCarriesBack ==
    ASSUME TypeOK, FlightInv, ClearInv, Grows, Nameable, Apart, [Next]_vars
    PROVE  CarriedBack
  <1>1. ASSUME Preflight PROVE CarriedBack
    BY <1>1
       DEF Preflight, Looks, worldVars, CarriedBack, Deleting
  <1>2. ASSUME PreDeleteBatch PROVE CarriedBack
    BY <1>2
       DEF PreDeleteBatch, historyVars, worldVars, CarriedBack, Deleting
  <1>3. ASSUME PreDeleteCheck PROVE CarriedBack
    BY <1>3
       DEF PreDeleteCheck, At, DropCurrent, Looks, Fails, FailsAfter, worldVars, CarriedBack,
          Deleting
  <1>4. ASSUME PreDeleteRequest PROVE CarriedBack
    BY <1>4
       DEF PreDeleteRequest, DropCurrent, Fails, FailsAfter, CarriedBack, Deleting
  <1>5. ASSUME OpenWrites PROVE CarriedBack
    BY <1>5
       DEF OpenWrites, Through, historyVars, worldVars, CarriedBack, Deleting
  <1>6. ASSUME CreateExcluded PROVE CarriedBack
    BY <1>6
       DEF CreateExcluded, At, DropCurrent, Judged, JudgedWith, FailsAfter, historyVars,
          worldVars, CarriedBack, Deleting
  <1>7. ASSUME CreateFolder PROVE CarriedBack
    BY <1>7
       DEF CreateFolder, At, DropCurrent, CarriedBack, Deleting
  <1>8. ASSUME NEW c \in Classes, CreateRefused(c) PROVE CarriedBack
    BY <1>8
       DEF CreateRefused, At, DropCurrent, Judged, JudgedWith, FailsAfter, historyVars, worldVars,
          CarriedBack, Deleting
  <1>9. ASSUME CopyBatch PROVE CarriedBack
    BY <1>9
       DEF CopyBatch, Through, Judged, JudgedWith, FailsAfter, historyVars, worldVars,
          CarriedBack, Deleting
  <1>10. ASSUME CopyCheck PROVE CarriedBack
    BY <1>10
       DEF CopyCheck, At, CopyLeftOut, DropCurrent, Judged, JudgedWith, Fails, FailsAfter, Looks,
          worldVars, CarriedBack, Deleting
  <1>11. ASSUME CopySucceeds PROVE CarriedBack
    BY <1>11
       DEF CopySucceeds, DropCurrent, Fails, FailsAfter, CarriedBack, Deleting
  <1>12. ASSUME NEW remains \in {Absent} \cup ForeignEntries, CopyFails(remains) PROVE CarriedBack
    BY <1>12
       DEF CopyFails, historyVars, CarriedBack, Deleting
  <1>13. ASSUME CopyFallbackCheck PROVE CarriedBack
    BY <1>13
       DEF CopyFallbackCheck, CopyLeftOut, DropCurrent, Judged, JudgedWith, FailsAfter, Looks,
          worldVars, CarriedBack, Deleting
  <1>14. ASSUME CopyUploadLands PROVE CarriedBack
    BY <1>14
       DEF CopyUploadLands, DropCurrent, CarriedBack, Deleting
  <1>15. ASSUME NEW c \in Classes \cup {NotRefused}, CopyUploadDeferred(c) PROVE CarriedBack
    BY <1>15
       DEF CopyUploadDeferred, CopyLeftOut, DropCurrent, Judged, JudgedWith, FailsAfter,
          CarriedBack, Deleting
  <1>16. ASSUME CopyVerify PROVE CarriedBack
    BY <1>16
       DEF CopyVerify, Through, Judged, JudgedWith, Fails, FailsAfter, historyVars, worldVars,
          CarriedBack, Deleting
  <1>17. ASSUME NEW a \in open, UploadLook(a) PROVE CarriedBack
    BY <1>17
       DEF UploadLook, Judged, JudgedWith, FailsAfter, Looks, worldVars, CarriedBack, Deleting
  <1>18. ASSUME NEW a \in inflight, Upload(a) PROVE CarriedBack
    BY <1>18
       DEF Upload, CarriedBack, Deleting
  <1>19. ASSUME NEW a \in inflight, NEW c \in Classes \cup {NotRefused}, UploadDeferred(a, c) PROVE CarriedBack
    BY <1>19
       DEF UploadDeferred, JudgedWith, FailsAfter, CarriedBack, Deleting
  <1>20. ASSUME NEW a \in inflight, DrainUpload(a) PROVE CarriedBack
    BY <1>20
       DEF DrainUpload, CarriedBack, Deleting
  <1>21. ASSUME PostDeleteBatch PROVE CarriedBack
    BY <1>21
       DEF PostDeleteBatch, UploadsSettled, Fails, FailsAfter, historyVars, worldVars, ClearInv,
          CarriedBack, Deleting, Back, Covered
  <1>22. ASSUME PostDeleteDecide PROVE CarriedBack
    <2> DEFINE c == Current
    <2>1. /\ pc = "postDelete" /\ todo # {} /\ c \in todo /\ inflight = {} /\ inflight' = inflight
          /\ kept \subseteq kept' /\ todo' \subseteq todo
      BY <1>22 DEF PostDeleteDecide, At, KeepDelete, DropCurrent, FlightInv, Nameable, AtHand
    <2>2. CASE /\ reappeared' = reappeared
               /\ deferrals' = deferrals \/ (deferrals' = deferrals \cup {c.path} /\ ~KeptDescendant(c.path))
      BY <2>1, <2>2 DEF ClearInv, CarriedBack, Deleting, Back, Covered, Within, KeptDescendant
    <2>3. CASE /\ reappeared' = reappeared \cup {c} /\ deferrals' = deferrals
               /\ c.path \in kept' /\ todo' = todo \ {c}
               /\ ~KeptDescendant(c.path) /\ ~SpellingRelated(c.path)
      <3>1. c.path \in Paths /\ deferrals \subseteq Paths
        BY <2>1 DEF Nameable, ClearInv
      <3>2. ~Covered(c.path)
        BY <2>3, <3>1 DEF SpellingRelated, Covered
      <3>3. Back' = Back \cup {c.path}
        BY <2>1, <2>3 DEF Back
      <3>4. \A q \in Back : q \in kept /\ c.path \notin Above[q] /\ q \notin Above[c.path]
        BY <2>1, <2>3 DEF ClearInv, Deleting, KeptDescendant, Within
      <3>5. c.path \notin Above[c.path]
        BY <3>1, TreeAssumption
      <3>6. \A d \in todo' : c.path \notin Within(d.path)
        BY <2>1, <2>3 DEF Apart
      <3> QED
        BY <2>1, <2>3, <3>2, <3>3, <3>4, <3>5, <3>6 DEF ClearInv, CarriedBack, Deleting, Covered
    <2>4. /\ KeptDescendant(c.path) \/ ~KeptDescendant(c.path)
          /\ \/ /\ reappeared' = reappeared
                /\ deferrals' = deferrals \/ (deferrals' = deferrals \cup {c.path} /\ ~KeptDescendant(c.path))
             \/ /\ reappeared' = reappeared \cup {c} /\ deferrals' = deferrals
                /\ c.path \in kept' /\ todo' = todo \ {c}
                /\ ~KeptDescendant(c.path) /\ ~SpellingRelated(c.path)
      BY <1>22 DEF PostDeleteDecide, KeepDelete, DropCurrent
    <2> QED
      BY <2>2, <2>3, <2>4
  <1>23. ASSUME PostDeleteAbsenceUnknown PROVE CarriedBack
    <2> DEFINE c == Current
    <2>1. /\ pc = "postDelete" /\ pc' = pc /\ todo # {} /\ c \in todo /\ reappeared' = reappeared
          /\ kept' = kept \cup {c.path} /\ todo' = todo \ {c} /\ inflight' = inflight
          /\ deferrals' = deferrals \cup {c.path} /\ ~KeptDescendant(c.path)
      BY <1>23 DEF PostDeleteAbsenceUnknown, At, KeepDelete, DropCurrent, historyVars, worldVars,
             Nameable, AtHand
    <2> HIDE DEF c
    <2> QED
      BY <2>1 DEF ClearInv, CarriedBack, Deleting, Back, Covered, Within, KeptDescendant
  <1>24. ASSUME PostDeleteRequest PROVE CarriedBack
    BY <1>24
       DEF PostDeleteRequest, DropCurrent, ClearInv, CarriedBack, Deleting, Back, Covered
  <1>25. ASSUME NEW concernsRun \in BOOLEAN, PostDeleteRefused(concernsRun) PROVE CarriedBack
    BY <1>25
       DEF PostDeleteRefused, KeepDelete, DropCurrent, Fails, FailsAfter, historyVars, worldVars,
          ClearInv, CarriedBack, Deleting, Back, Covered, Nameable, AtHand, Within, FlightInv,
          KeptDescendant
  <1>26. ASSUME NEW a \in reappeared, ReuploadCheck(a) PROVE CarriedBack
    <2>1. /\ pc = "postDelete" /\ pc' = pc /\ todo = {} /\ todo' = {} /\ inflight = {}
          /\ kept' = kept /\ reappeared' = reappeared \ {a} /\ a \in reappeared
          /\ inflight' # {} => deferrals' = deferrals /\ \A u \in inflight' : u.rel = a.path
          /\ deferrals' = deferrals \/ deferrals' = deferrals \cup {a.path}
      BY <1>26 DEF ReuploadCheck, Through, AsUpload
    <2>2. \A b \in reappeared' : b.path # a.path
      BY <2>1, DeletedOnce DEF TypeOK
    <2>3. Back' \subseteq Back /\ (inflight' = {} => a.path \notin Back')
      BY <2>1, <2>2 DEF Back
    <2>4. a.path \in Back
      BY <2>1 DEF Back
    <2>5. ASSUME NEW p \in Back' PROVE p \in kept' /\ ~Covered(p)'
      <3>1. p \in kept /\ ~Covered(p) /\ a.path \notin Above[p]
        BY <2>1, <2>3, <2>4, <2>5 DEF ClearInv, Deleting
      <3> QED
        BY <2>1, <2>3, <2>5, <3>1 DEF Covered
    <2>6. \A p, q \in Back' : p \notin Above[q]
      BY <2>1, <2>3 DEF ClearInv, Deleting
    <2> QED
      BY <2>1, <2>2, <2>5, <2>6 DEF CarriedBack
  <1>27. ASSUME NEW u \in inflight, Reupload(u) PROVE CarriedBack
    BY <1>27
       DEF Reupload, Through, ClearInv, CarriedBack, Deleting, Back, Covered, FlightInv, TypeOK,
          Within
  <1>28. ASSUME StartRenames PROVE CarriedBack
    BY <1>28
       DEF StartRenames, Through, historyVars, worldVars, ClearInv, CarriedBack, Deleting, Back,
          Covered
  <1>29. ASSUME Rename PROVE CarriedBack
    BY <1>29
       DEF Rename, At, DropCurrent, CarriedBack, Deleting
  <1>30. ASSUME RenamePending PROVE CarriedBack
    BY <1>30
       DEF RenamePending, At, DropCurrent, historyVars, worldVars, CarriedBack, Deleting
  <1>31. ASSUME Complete PROVE CarriedBack
    BY <1>31
       DEF Complete, Through, historyVars, worldVars, CarriedBack, Deleting
  <1>32. ASSUME FailRun PROVE CarriedBack
    BY <1>32
       DEF FailRun, Fails, FailsAfter, historyVars, worldVars, ClearInv, CarriedBack, Deleting,
          Back, Covered
  <1>33. ASSUME DeleteAnswerLost PROVE CarriedBack
    BY <1>33
       DEF DeleteAnswerLost, KeepDelete, DropCurrent, Fails, FailsAfter, ClearInv, CarriedBack,
          Deleting, Back, Covered
  <1>34. ASSUME NEW p \in Paths, NEW e \in ForeignEntries \cup {Absent}, RemoteEdit(p, e) PROVE CarriedBack
    BY <1>34
       DEF RemoteEdit, ClearInv, CarriedBack, Deleting, Back, Covered
  <1>35. ASSUME NEW p \in Paths, NEW e \in LocalEntries \cup {Absent}, LocalEdit(p, e) PROVE CarriedBack
    BY <1>35
       DEF LocalEdit, ClearInv, CarriedBack, Deleting, Back, Covered
  <1>36. ASSUME Stays PROVE CarriedBack
    BY <1>36
       DEF Stays, vars, historyVars, editVars, worldVars, ClearInv, CarriedBack, Deleting, Back,
          Covered
  <1> QED
    BY <1>1, <1>2, <1>3, <1>4, <1>5, <1>6, <1>7, <1>8, <1>9, <1>10, <1>11, <1>12, <1>13, <1>14,
       <1>15, <1>16, <1>17, <1>18, <1>19, <1>20, <1>21, <1>22, <1>23, <1>24, <1>25, <1>26, <1>27,
       <1>28, <1>29, <1>30, <1>31, <1>32, <1>33, <1>34, <1>35, <1>36 DEF Next, RunStep, Over, Stays

(* ClearInv is kept.                                                       *)
LEMMA StepClear ==
    ASSUME TypeOK, FlightInv, ClearInv, Grows, [Next]_vars
    PROVE  ClearInv'
  <1>1. Nameable /\ Apart
    BY NameableHolds, ApartHolds
  <1>2. Deferring /\ Spared /\ CarriedBack
    BY <1>1, StepDeferring, StepSpares, StepCarriesBack
  <1>3. ASSUME pc' = "postDeleteRequest" PROVE ~KeptDescendant(Current.path)'
    <2>1. (Waits /\ pc = "postDeleteRequest") \/ EntersPostDelete
      BY <1>3, StepAsks DEF Asks, Waits
    <2>2. Current' = Current
      BY <1>3, <2>1, SameRequest
    <2>3. ~KeptDescendant(Current.path) /\ kept' = kept
      BY <2>1 DEF ClearInv, Waits, EntersPostDelete
    <2> QED
      BY <2>2, <2>3 DEF KeptDescendant
  <1> QED
    BY <1>2, <1>3 DEF ClearInv, Deferring, Spared, CarriedBack, Grows

(***************************************************************************)
(* The breaker.                                                            *)
(***************************************************************************)

(* What a planned write does to the breaker when it settles.               *)
SettledBy(b) == {Accepted(b), Excluded(b)} \cup {SettledAs(b, c) : c \in Classes \cup {NotRefused}}

LEMMA SettlesOne ==
    ASSUME NEW b \in Breakers, NEW s \in SettledBy(b)
    PROVE  s \in Breakers /\ (b.pending > 0 => s.pending = b.pending - 1)
  <1>1. /\ Settle(b) \in Breakers
        /\ b.pending > 0 => Settle(b).pending = b.pending - 1
    BY DEF Settle, Breakers
  <1>2. Accepted(b) \in Breakers /\ Accepted(b).pending = Settle(b).pending
    BY <1>1 DEF Accepted, Breakers
  <1>3. ASSUME NEW c \in Classes
        PROVE  SettledAs(b, c) \in Breakers /\ SettledAs(b, c).pending = Settle(b).pending
    <2>1. /\ Settle(b).refused \in [Classes -> Nat]
          /\ [Settle(b).refused EXCEPT ![c] = @ + 1] \in [Classes -> Nat]
      BY <1>1 DEF Breakers
    <2>2. c # NotRefused
      BY ClassesAssumption
    <2>3. SettledAs(b, c) =
            [pending     |-> Settle(b).pending,
             adjudicated |-> Settle(b).adjudicated + 1,
             inSync      |-> Settle(b).inSync,
             refused     |-> [Settle(b).refused EXCEPT ![c] = @ + 1]]
      BY <1>1, <2>2 DEF SettledAs, Breakers
    <2> QED
      BY <1>1, <2>1, <2>3 DEF Breakers
  <1>4. SettledAs(b, NotRefused) = Settle(b) /\ Excluded(b) = Settle(b)
    BY DEF SettledAs, Excluded
  <1> QED
    BY <1>1, <1>2, <1>3, <1>4 DEF SettledBy

(* A write that DSM accepts never trips it.                                *)
LEMMA AcceptedHolds ==
    ASSUME NEW b \in Breakers, ~Trips(b)
    PROVE  ~Trips(Accepted(b))
  <1>1. Accepted(b).refused = b.refused /\ Considered(Accepted(b)) >= Considered(b)
    BY DEF Accepted, Settle, Considered, Breakers
  <1>2. Considered(b) \in Nat /\ Considered(Accepted(b)) \in Nat
    BY DEF Accepted, Settle, Considered, Breakers
  <1>3. ASSUME NEW c \in Classes
        PROVE  b.refused[c] \in Nat
    BY DEF Breakers
  <1> QED
    BY <1>1, <1>2, <1>3 DEF Trips

LEMMA ExcludesSome ==
    ASSUME NEW b \in Breakers, NEW n \in Nat, n <= b.pending
    PROVE  ExcludedTimes(b, n) \in Breakers /\ ExcludedTimes(b, n).pending = b.pending - n
  BY DEF ExcludedTimes, Breakers

LEMMA NewBreakerIs ==
    ASSUME NEW n \in Nat, NEW m \in Nat
    PROVE  NewBreaker(n, m) \in Breakers /\ ~Trips(NewBreaker(n, m)) /\ NewBreaker(n, m).pending = n
  BY DEF NewBreaker, Breakers, Trips

(* A sequence has finitely many elements.                                  *)
LEMMA ElementsFinite ==
    ASSUME NEW s, IsSequence(s)
    PROVE  IsFiniteSet(Elements(s))
  <1>1. DOMAIN s = 1..Len(s) /\ Len(s) \in Nat
    <2> HIDE DEF Elements
    <2> QED
      BY DEF IsSequence
  <1>2. [i \in 1..Len(s) |-> s[i]] \in Surjection(1..Len(s), Elements(s))
    BY <1>1 DEF Surjection, Elements
  <1>3. IsFiniteSet(1..Len(s))
    BY <1>1, FS_Interval
  <1> QED
    BY <1>2, <1>3, FS_Surjection

(* Taking one element of a finite set, or adding one, changes its size by  *)
(* one, and a subset and the rest of the set make it up.                   *)
Countable(S) ==
    /\ Cardinality(S) \in Nat
    /\ \A x \in S : Cardinality(S) > 0 /\ Cardinality(S \ {x}) = Cardinality(S) - 1
    /\ \A x : x \notin S => Cardinality(S \cup {x}) = Cardinality(S) + 1
    /\ \A T \in SUBSET S :
          /\ Cardinality(T) \in Nat /\ Cardinality(S \ T) \in Nat
          /\ Cardinality(T) = Cardinality(S) - Cardinality(S \ T)

LEMMA FiniteCountable ==
    ASSUME NEW S, IsFiniteSet(S)
    PROVE  Countable(S)
  <1>1. Cardinality(S) \in Nat
    BY FS_CardinalityType
  <1>2. ASSUME NEW x \in S PROVE Cardinality(S) > 0 /\ Cardinality(S \ {x}) = Cardinality(S) - 1
    <2>1. Cardinality(S) # 0
      BY FS_EmptySet
    <2> QED
      BY <1>1, <2>1, FS_RemoveElement
  <1>3. ASSUME NEW x, x \notin S PROVE Cardinality(S \cup {x}) = Cardinality(S) + 1
    BY <1>3, FS_AddElement
  <1>4. ASSUME NEW T \in SUBSET S
        PROVE  /\ Cardinality(T) \in Nat /\ Cardinality(S \ T) \in Nat
               /\ Cardinality(T) = Cardinality(S) - Cardinality(S \ T)
    <2>1. IsFiniteSet(T) /\ IsFiniteSet(S \ T)
      BY FS_Subset
    <2>2. Cardinality(T) \in Nat /\ Cardinality(S \ T) \in Nat
      BY <2>1, FS_CardinalityType
    <2>3. Cardinality(S \ T) = Cardinality(S) - Cardinality(T)
      <3>1. S \cap T = T
        OBVIOUS
      <3> QED
        BY <3>1, FS_Difference
    <2> QED
      BY <1>1, <2>2, <2>3
  <1> QED
    BY <1>1, <1>2, <1>3, <1>4 DEF Countable

(* What the breaker counts.                                                *)
Counted ==
    /\ Countable(open)
    /\ pc \in {"create"} => Countable(todo)
    /\ pc \in {"upload"} => Countable(inflight)
    /\ Cardinality({}) = 0
    /\ \A T \in SUBSET Elements(plan.creates), U \in SUBSET Writes(plan) :
          Cardinality(T) \in Nat /\ Cardinality(U) \in Nat
    /\ plan.unchanged \in Nat

LEMMA CountedHolds ==
    ASSUME TypeOK, FlightInv
    PROVE  Counted
  <1>1. IsFiniteSet(Writes(plan)) /\ IsFiniteSet(Elements(plan.creates)) /\ plan.unchanged \in Nat
    BY PlanHolds, ArrangedHolds, ElementsFinite, FS_Union DEF Planned, Arranged, Writes
  <1>2. IsFiniteSet(open)
    BY <1>1, FS_Subset DEF TypeOK
  <1>3. ASSUME pc = "create" PROVE IsFiniteSet(todo)
    BY <1>1, <1>3, QueueHolds, FS_Subset DEF TypeOK, QueueAt, Loops
  <1>4. ASSUME pc = "upload" PROVE IsFiniteSet(inflight)
    <2>1. inflight \subseteq Writes(plan)
      BY <1>4 DEF FlightInv
    <2> QED
      BY <1>1, <2>1, FS_Subset
  <1>5. ASSUME NEW T \in SUBSET Elements(plan.creates), NEW U \in SUBSET Writes(plan)
        PROVE  Cardinality(T) \in Nat /\ Cardinality(U) \in Nat
    BY <1>1, FS_Subset, FS_CardinalityType
  <1> QED
    BY <1>1, <1>2, <1>3, <1>4, <1>5, FiniteCountable, FS_EmptySet DEF Counted

(* What the breaker does in a step: what it is asked about it holds.       *)
Breaks ==
    /\ breaker \in Breakers => \A s \in SettledBy(breaker) :
          s \in Breakers /\ (breaker.pending > 0 => s.pending = breaker.pending - 1)
    /\ breaker \in Breakers /\ ~Trips(breaker) => ~Trips(Accepted(breaker))
    /\ breaker \in Breakers => \A n \in Nat : n <= breaker.pending =>
          ExcludedTimes(breaker, n) \in Breakers /\ ExcludedTimes(breaker, n).pending = breaker.pending - n
    /\ \A n, m \in Nat :
          NewBreaker(n, m) \in Breakers /\ ~Trips(NewBreaker(n, m)) /\ NewBreaker(n, m).pending = n

LEMMA BreaksHolds == Breaks
  BY SettlesOne, AcceptedHolds, ExcludesSome, NewBreakerIs DEF Breaks

(* BreakerInv is kept: every path through the phases settles once.         *)
LEMMA StepBreaker ==
    ASSUME TypeOK, FlightInv, pc # "end" => result = "running", BreakerInv,
           pc \in Copying => todo \subseteq open, Counted, Breaks, AtHand, [Next]_vars
    PROVE  BreakerInv'
  <1>1. ASSUME Preflight PROVE BreakerInv'
    BY <1>1
       DEF Preflight, Looks, worldVars, BreakerInv, Copying, Deleting, TypeOK, FlightInv
  <1>2. ASSUME PreDeleteBatch PROVE BreakerInv'
    BY <1>2
       DEF PreDeleteBatch, historyVars, worldVars, BreakerInv, Copying, Deleting, TypeOK,
          FlightInv
  <1>3. ASSUME PreDeleteCheck PROVE BreakerInv'
    BY <1>3
       DEF PreDeleteCheck, At, DropCurrent, Looks, Fails, FailsAfter, worldVars, BreakerInv,
          Copying, Deleting, TypeOK, FlightInv
  <1>4. ASSUME PreDeleteRequest PROVE BreakerInv'
    BY <1>4
       DEF PreDeleteRequest, DropCurrent, Fails, FailsAfter, BreakerInv, Copying, Deleting,
          TypeOK, FlightInv
  <1>5. ASSUME OpenWrites PROVE BreakerInv'
    <2>1. /\ todo' \in SUBSET Elements(plan.creates) /\ open' \in SUBSET Writes(plan)
          /\ pc' = "create" /\ result' = "running"
          /\ breaker' = NewBreaker(Cardinality(todo') + Cardinality(open'), plan.unchanged)
      BY <1>5 DEF OpenWrites, Through, Writes
    <2>2. Cardinality(todo') + Cardinality(open') \in Nat /\ plan.unchanged \in Nat
      BY <2>1 DEF Counted, Countable, AtHand, FlightInv, TypeOK
    <2> QED
      BY <2>1, <2>2 DEF BreakerInv, Copying, Deleting, Breaks, SettledBy
  <1>6. ASSUME CreateExcluded PROVE BreakerInv'
    BY <1>6
       DEF CreateExcluded, At, DropCurrent, Judged, JudgedWith, FailsAfter, historyVars,
          worldVars, BreakerInv, Copying, Deleting, TypeOK, FlightInv, Counted, Countable, Breaks,
          AtHand, SettledBy
  <1>7. ASSUME CreateFolder PROVE BreakerInv'
    <2>1. /\ pc = "create" /\ pc' = pc /\ result' = "running" /\ open' = open
          /\ Current \in todo /\ todo' = todo \ {Current} /\ breaker' = Accepted(breaker)
      BY <1>7 DEF CreateFolder, At, DropCurrent, AtHand
    <2>2. /\ Cardinality(todo) \in Nat /\ Cardinality(todo) > 0 /\ Cardinality(open) \in Nat
          /\ Cardinality(todo') = Cardinality(todo) - 1
      BY <2>1 DEF Counted, Countable, AtHand, FlightInv, TypeOK
    <2> QED
      BY <2>1, <2>2 DEF BreakerInv, Copying, Deleting, Breaks, SettledBy
  <1>8. ASSUME NEW c \in Classes, CreateRefused(c) PROVE BreakerInv'
    <2>1. /\ pc = "create" /\ open' = open /\ Current \in todo /\ todo' = todo \ {Current}
          /\ breaker' = SettledAs(breaker, c)
          /\ (pc' = "create" /\ result' = "running" /\ ~Trips(breaker')) \/ (pc' \in {"drain", "end"} /\ result' # "ok")
      BY <1>8 DEF CreateRefused, At, DropCurrent, Judged, JudgedWith, FailsAfter, AtHand
    <2>2. /\ Cardinality(todo) \in Nat /\ Cardinality(todo) > 0 /\ Cardinality(open) \in Nat
          /\ Cardinality(todo') = Cardinality(todo) - 1
      BY <2>1 DEF Counted, Countable, AtHand, FlightInv, TypeOK
    <2>3. breaker \in Breakers /\ breaker.pending > 0
      BY <2>1, <2>2 DEF BreakerInv
    <2>4. breaker' \in Breakers /\ breaker'.pending = breaker.pending - 1
      BY <2>1, <2>3 DEF Breaks, SettledBy
    <2> QED
      BY <2>1, <2>2, <2>3, <2>4 DEF BreakerInv, Copying, Deleting
  <1>9. ASSUME CopyBatch PROVE BreakerInv'
    <2> DEFINE n == Cardinality(open \ open')
    <2>1. /\ pc = "create" /\ todo = {} /\ inflight = {} /\ inflight' = {} /\ open' \in SUBSET open
          /\ \/ breaker' = breaker /\ pc' = "end" /\ result' = "failed"
             \/ breaker' = ExcludedTimes(breaker, n) /\ pc' = "copy" /\ result' = "running" /\ ~Trips(breaker')
             \/ breaker' = ExcludedTimes(breaker, n) /\ pc' = "end" /\ result' = "failed"
      BY <1>9 DEF CopyBatch, Through, Judged, JudgedWith, Fails, FailsAfter, StillOpen, FlightInv
    <2>2. /\ n \in Nat /\ Cardinality(open') \in Nat /\ Cardinality({}) = 0
          /\ Cardinality(open') = Cardinality(open) - n
      BY <2>1 DEF Counted, Countable
    <2>3. breaker \in Breakers /\ breaker.pending = Cardinality(open) /\ Cardinality(open) \in Nat
      BY <2>1, <2>2 DEF BreakerInv, Copying, Counted, Countable
    <2> HIDE DEF n
    <2>4. /\ ExcludedTimes(breaker, n) \in Breakers
          /\ ExcludedTimes(breaker, n).pending = Cardinality(open')
      BY <2>2, <2>3 DEF Breaks
    <2>5. CASE breaker' = breaker /\ pc' = "end" /\ result' = "failed"
      BY <2>3, <2>5 DEF BreakerInv, Copying, Deleting
    <2>6. CASE breaker' = ExcludedTimes(breaker, n) /\ pc' = "copy" /\ result' = "running" /\ ~Trips(breaker')
      BY <2>1, <2>2, <2>4, <2>6 DEF BreakerInv, Copying, Deleting
    <2>7. CASE breaker' = ExcludedTimes(breaker, n) /\ pc' = "end" /\ result' = "failed"
      BY <2>4, <2>7 DEF BreakerInv, Copying, Deleting
    <2> QED
      BY <2>1, <2>5, <2>6, <2>7
  <1>10. ASSUME CopyCheck PROVE BreakerInv'
    BY <1>10
       DEF CopyCheck, At, CopyLeftOut, DropCurrent, Judged, JudgedWith, Fails, FailsAfter, Looks,
          worldVars, BreakerInv, Copying, Deleting, TypeOK, FlightInv, Counted, Countable, Breaks,
          AtHand, SettledBy
  <1>11. ASSUME CopySucceeds PROVE BreakerInv'
    BY <1>11
       DEF CopySucceeds, DropCurrent, Fails, FailsAfter, BreakerInv, Copying, Deleting, TypeOK,
          FlightInv, Counted, Countable, Breaks, AtHand, SettledBy
  <1>12. ASSUME NEW remains \in {Absent} \cup ForeignEntries, CopyFails(remains) PROVE BreakerInv'
    BY <1>12
       DEF CopyFails, historyVars, BreakerInv, Copying, Deleting, TypeOK, FlightInv
  <1>13. ASSUME CopyFallbackCheck PROVE BreakerInv'
    BY <1>13
       DEF CopyFallbackCheck, CopyLeftOut, DropCurrent, Judged, JudgedWith, FailsAfter, Looks,
          worldVars, BreakerInv, Copying, Deleting, TypeOK, FlightInv, Counted, Countable, Breaks,
          AtHand, SettledBy
  <1>14. ASSUME CopyUploadLands PROVE BreakerInv'
    BY <1>14
       DEF CopyUploadLands, DropCurrent, BreakerInv, Copying, Deleting, TypeOK, FlightInv,
          Counted, Countable, Breaks, AtHand, SettledBy
  <1>15. ASSUME NEW c \in Classes \cup {NotRefused}, CopyUploadDeferred(c) PROVE BreakerInv'
    BY <1>15
       DEF CopyUploadDeferred, CopyLeftOut, DropCurrent, Judged, JudgedWith, FailsAfter,
          BreakerInv, Copying, Deleting, TypeOK, FlightInv, Counted, Countable, Breaks, AtHand,
          SettledBy
  <1>16. ASSUME CopyVerify PROVE BreakerInv'
    <2> DEFINE n == Cardinality(open \ open')
    <2>1. /\ pc = "copy" /\ todo = {} /\ inflight = {} /\ inflight' = {} /\ open' \in SUBSET open
          /\ \/ breaker' = breaker /\ pc' = "end" /\ result' = "failed"
             \/ breaker' = ExcludedTimes(breaker, n) /\ pc' = "upload" /\ result' = "running" /\ ~Trips(breaker')
             \/ breaker' = ExcludedTimes(breaker, n) /\ pc' = "end" /\ result' = "failed"
      BY <1>16 DEF CopyVerify, Through, Judged, JudgedWith, Fails, FailsAfter, StillOpen, FlightInv
    <2>2. /\ n \in Nat /\ Cardinality(open') \in Nat /\ Cardinality({}) = 0
          /\ Cardinality(open') = Cardinality(open) - n
      BY <2>1 DEF Counted, Countable
    <2>3. breaker \in Breakers /\ breaker.pending = Cardinality(open) /\ Cardinality(open) \in Nat
      BY <2>1, <2>2 DEF BreakerInv, Copying, Counted, Countable
    <2> HIDE DEF n
    <2>4. /\ ExcludedTimes(breaker, n) \in Breakers
          /\ ExcludedTimes(breaker, n).pending = Cardinality(open')
      BY <2>2, <2>3 DEF Breaks
    <2>5. CASE breaker' = breaker /\ pc' = "end" /\ result' = "failed"
      BY <2>3, <2>5 DEF BreakerInv, Copying, Deleting
    <2>6. CASE breaker' = ExcludedTimes(breaker, n) /\ pc' = "upload" /\ result' = "running" /\ ~Trips(breaker')
      BY <2>1, <2>2, <2>4, <2>6 DEF BreakerInv, Copying, Deleting
    <2>7. CASE breaker' = ExcludedTimes(breaker, n) /\ pc' = "end" /\ result' = "failed"
      BY <2>4, <2>7 DEF BreakerInv, Copying, Deleting
    <2> QED
      BY <2>1, <2>5, <2>6, <2>7
  <1>17. ASSUME NEW a \in open, UploadLook(a) PROVE BreakerInv'
    <2>1. /\ pc = "upload" /\ a \notin inflight /\ open' = open \ {a}
          /\ \/ pc' = pc /\ result' = "running" /\ breaker' = breaker /\ inflight' = inflight \cup {a}
             \/ /\ breaker' = Excluded(breaker) /\ inflight' = inflight
                /\ \/ pc' = "upload" /\ result' = "running" /\ ~Trips(breaker')
                   \/ pc' \in {"drain", "end"} /\ result' # "ok"
      BY <1>17 DEF UploadLook, Judged, JudgedWith, FailsAfter, FlightInv
    <2>2. /\ Cardinality(open) \in Nat /\ Cardinality(open) > 0 /\ Cardinality(inflight) \in Nat
          /\ Cardinality(open') = Cardinality(open) - 1
          /\ Cardinality(inflight \cup {a}) = Cardinality(inflight) + 1
      BY <2>1 DEF Counted, Countable
    <2>3. breaker \in Breakers /\ breaker.pending = Cardinality(open) + Cardinality(inflight)
      BY <2>1 DEF BreakerInv
    <2>4. Excluded(breaker) \in Breakers /\ Excluded(breaker).pending = breaker.pending - 1
      BY <2>2, <2>3 DEF Breaks, SettledBy
    <2>5. CASE pc' = pc /\ result' = "running" /\ breaker' = breaker /\ inflight' = inflight \cup {a}
      <3>1. breaker'.pending = Cardinality(open') + Cardinality(inflight')
        BY <2>2, <2>3, <2>5
      <3> QED
        BY <2>1, <2>5, <3>1 DEF BreakerInv, Copying, Deleting
    <2>6. CASE breaker' = Excluded(breaker) /\ inflight' = inflight
      <3>1. breaker' \in Breakers /\ breaker'.pending = Cardinality(open') + Cardinality(inflight')
        BY <2>2, <2>3, <2>4, <2>6
      <3> QED
        BY <2>1, <2>6, <3>1 DEF BreakerInv, Copying, Deleting
    <2> QED
      BY <2>1, <2>5, <2>6
  <1>18. ASSUME NEW a \in inflight, Upload(a) PROVE BreakerInv'
    <2>1. /\ pc = "upload" /\ pc' = pc /\ result' = result /\ result = "running" /\ open' = open
          /\ inflight' = inflight \ {a} /\ a \in inflight /\ todo' = todo /\ breaker' = Accepted(breaker)
      BY <1>18 DEF Upload, BreakerInv, Copying, Deleting
    <2>2. /\ Cardinality(open) \in Nat /\ Cardinality(inflight) \in Nat /\ Cardinality(inflight) > 0
          /\ Cardinality(inflight') = Cardinality(inflight) - 1
      BY <2>1 DEF Counted, Countable
    <2>3. breaker \in Breakers /\ breaker.pending = Cardinality(open) + Cardinality(inflight) /\ ~Trips(breaker)
      BY <2>1 DEF BreakerInv, Copying, Deleting
    <2>4. /\ breaker' \in Breakers /\ ~Trips(breaker') /\ breaker'.pending = breaker.pending - 1
      BY <2>1, <2>2, <2>3 DEF Breaks, SettledBy
    <2>5. breaker'.pending = Cardinality(open') + Cardinality(inflight')
      BY <2>1, <2>2, <2>3, <2>4
    <2> QED
      BY <2>1, <2>4, <2>5 DEF BreakerInv, Copying, Deleting
  <1>19. ASSUME NEW a \in inflight, NEW c \in Classes \cup {NotRefused}, UploadDeferred(a, c) PROVE BreakerInv'
    <2>1. /\ pc = "upload" /\ open' = open /\ inflight' = inflight \ {a} /\ breaker' = SettledAs(breaker, c)
          /\ (pc' = "upload" /\ result' = "running" /\ ~Trips(breaker')) \/ (pc' \in {"drain", "end"} /\ result' # "ok")
      BY <1>19 DEF UploadDeferred, JudgedWith, FailsAfter
    <2>2. /\ Cardinality(inflight) \in Nat /\ Cardinality(inflight) > 0 /\ Cardinality(open) \in Nat
          /\ Cardinality(inflight') = Cardinality(inflight) - 1
      BY <2>1 DEF Counted, Countable, AtHand, FlightInv, TypeOK
    <2>3. breaker \in Breakers /\ breaker.pending > 0
      BY <2>1, <2>2 DEF BreakerInv
    <2>4. breaker' \in Breakers /\ breaker'.pending = breaker.pending - 1
      BY <2>1, <2>3 DEF Breaks, SettledBy
    <2> QED
      BY <2>1, <2>2, <2>3, <2>4 DEF BreakerInv, Copying, Deleting
  <1>20. ASSUME NEW a \in inflight, DrainUpload(a) PROVE BreakerInv'
    BY <1>20
       DEF DrainUpload, BreakerInv, Copying, Deleting, TypeOK, FlightInv
  <1>21. ASSUME PostDeleteBatch PROVE BreakerInv'
    <2>1. /\ pc = "upload" /\ open = {} /\ inflight = {} /\ breaker' = breaker
          /\ (pc' = "postDelete" /\ result' = "running") \/ (pc' \in {"drain", "end"} /\ result' # "ok")
      BY <1>21 DEF PostDeleteBatch, UploadsSettled, Fails, FailsAfter
    <2>2. Cardinality({}) = 0
      BY <2>1 DEF Counted, Countable, AtHand, FlightInv, TypeOK
    <2> QED
      BY <2>1, <2>2 DEF BreakerInv, Copying, Deleting, Breaks, SettledBy
  <1>22. ASSUME PostDeleteDecide PROVE BreakerInv'
    BY <1>22
       DEF PostDeleteDecide, At, KeepDelete, DropCurrent, Looks, worldVars, BreakerInv, Copying,
          Deleting, TypeOK, FlightInv
  <1>23. ASSUME PostDeleteAbsenceUnknown PROVE BreakerInv'
    BY <1>23
       DEF PostDeleteAbsenceUnknown, At, KeepDelete, DropCurrent, historyVars, worldVars,
          BreakerInv, Copying, Deleting, TypeOK, FlightInv
  <1>24. ASSUME PostDeleteRequest PROVE BreakerInv'
    BY <1>24
       DEF PostDeleteRequest, DropCurrent, BreakerInv, Copying, Deleting, TypeOK, FlightInv
  <1>25. ASSUME NEW concernsRun \in BOOLEAN, PostDeleteRefused(concernsRun) PROVE BreakerInv'
    BY <1>25
       DEF PostDeleteRefused, KeepDelete, DropCurrent, Fails, FailsAfter, historyVars, worldVars,
          BreakerInv, Copying, Deleting, TypeOK, FlightInv
  <1>26. ASSUME NEW a \in reappeared, ReuploadCheck(a) PROVE BreakerInv'
    BY <1>26
       DEF ReuploadCheck, Through, Looks, worldVars, BreakerInv, Copying, Deleting, TypeOK,
          FlightInv
  <1>27. ASSUME NEW u \in inflight, Reupload(u) PROVE BreakerInv'
    BY <1>27
       DEF Reupload, Through, BreakerInv, Copying, Deleting, TypeOK, FlightInv
  <1>28. ASSUME StartRenames PROVE BreakerInv'
    BY <1>28
       DEF StartRenames, Through, historyVars, worldVars, BreakerInv, Copying, Deleting, TypeOK,
          FlightInv
  <1>29. ASSUME Rename PROVE BreakerInv'
    BY <1>29
       DEF Rename, At, DropCurrent, BreakerInv, Copying, Deleting, TypeOK, FlightInv
  <1>30. ASSUME RenamePending PROVE BreakerInv'
    BY <1>30
       DEF RenamePending, At, DropCurrent, historyVars, worldVars, BreakerInv, Copying, Deleting,
          TypeOK, FlightInv
  <1>31. ASSUME Complete PROVE BreakerInv'
    BY <1>31
       DEF Complete, Through, historyVars, worldVars, BreakerInv, Copying, Deleting, TypeOK,
          FlightInv
  <1>32. ASSUME FailRun PROVE BreakerInv'
    BY <1>32
       DEF FailRun, Fails, FailsAfter, historyVars, worldVars, BreakerInv, Copying, Deleting,
          TypeOK, FlightInv
  <1>33. ASSUME DeleteAnswerLost PROVE BreakerInv'
    BY <1>33
       DEF DeleteAnswerLost, KeepDelete, DropCurrent, Fails, FailsAfter, BreakerInv, Copying,
          Deleting, TypeOK, FlightInv
  <1>34. ASSUME NEW p \in Paths, NEW e \in ForeignEntries \cup {Absent}, RemoteEdit(p, e) PROVE BreakerInv'
    BY <1>34
       DEF RemoteEdit, BreakerInv, Copying, Deleting, TypeOK, FlightInv
  <1>35. ASSUME NEW p \in Paths, NEW e \in LocalEntries \cup {Absent}, LocalEdit(p, e) PROVE BreakerInv'
    BY <1>35
       DEF LocalEdit, BreakerInv, Copying, Deleting, TypeOK, FlightInv
  <1>36. ASSUME Stays PROVE BreakerInv'
    BY <1>36
       DEF Stays, vars, historyVars, editVars, worldVars, BreakerInv, Copying, Deleting, TypeOK,
          FlightInv
  <1> QED
    BY <1>1, <1>2, <1>3, <1>4, <1>5, <1>6, <1>7, <1>8, <1>9, <1>10, <1>11, <1>12, <1>13, <1>14,
       <1>15, <1>16, <1>17, <1>18, <1>19, <1>20, <1>21, <1>22, <1>23, <1>24, <1>25, <1>26, <1>27,
       <1>28, <1>29, <1>30, <1>31, <1>32, <1>33, <1>34, <1>35, <1>36 DEF Next, RunStep, Over, Stays

(***************************************************************************)
(* The strengthening is inductive, and what follows from it.               *)
(***************************************************************************)

LEMMA InitSettles ==
    ASSUME Init
    PROVE  SInv
  <1>1. AccountInv
    BY DEF Init, AccountInv, Before, Deleting
  <1>2. ClearInv
    BY DEF Init, ClearInv, Copying, Deleting
  <1>3. BreakerInv
    BY NewBreakerIs DEF Init, BreakerInv, Copying, Deleting
  <1> QED
    BY <1>1, <1>2, <1>3 DEF SInv

LEMMA StepSettles ==
    ASSUME IInv, SInv, [Next]_vars
    PROVE  SInv'
  <1> TypeOK /\ FlightInv /\ WritesInv /\ AccountInv /\ ClearInv /\ BreakerInv
    BY DEF IInv, SInv
  <1>1. Grows
    BY StepGrows DEF WritesInv
  <1>2. AccountInv'
    BY <1>1, StepAccount
  <1>3. ClearInv'
    BY <1>1, StepClear
  <1>4. BreakerInv'
    BY CountedHolds, BreaksHolds, AtHandHolds, StepBreaker DEF AccountInv, ClearInv
  <1> QED
    BY <1>2, <1>3, <1>4 DEF SInv

(* Every action of the plan is, in each phase, to come, done or named; the *)
(* breaker knows how many are to come; and what is to come is not          *)
(* deferred.                                                               *)
THEOREM ExecutorSettling == Spec => [](IInv /\ SInv)
  <1>1. Init => IInv /\ SInv
    BY InitHolds, InitSettles
  <1>2. (IInv /\ SInv) /\ [Next]_vars => (IInv /\ SInv)'
    BY StepHolds, StepSettles
  <1> QED
    BY <1>1, <1>2, PTL DEF Spec

LEMMA AccountedForHolds ==
    ASSUME AccountInv
    PROVE  AllAccountedFor
  BY DEF AccountInv, AllAccountedFor, Named, Made, Before

LEMMA WritesSettledHolds ==
    ASSUME BreakerInv
    PROVE  AllWritesSettled
  <1>1. pc \in Copying => Cardinality(open) + 0 = Cardinality(open)
    BY DEF BreakerInv, Breakers
  <1> QED
    BY <1>1 DEF BreakerInv, AllWritesSettled, Copying, Deleting

LEMMA LastHolds ==
    ASSUME WritesInv, ClearInv, BreakerInv
    PROVE  DeletionsLast
  BY DEF WritesInv, ClearInv, BreakerInv, DeletionsLast, Deleting, Writes, KeptDescendant

(***************************************************************************)
(* What is deferred is left alone.                                         *)
(***************************************************************************)

LEMMA TreeHolds ==
    ASSUME NEW p \in Paths
    PROVE  /\ Above[p] \subseteq Paths
           /\ \A a \in Above[p] : Above[a] \subseteq Above[p]
           /\ \A a, b \in Above[p] : a = b \/ a \in Above[b] \/ b \in Above[a]
           /\ \A q \in Paths : Fold[p] = Fold[q] =>
                 \A a \in Above[p] : \E b \in Above[q] : Fold[b] = Fold[a]
  <1>1. ASSUME NEW q \in Paths, Fold[p] = Fold[q], NEW a \in Above[p]
        PROVE  \E b \in Above[q] : Fold[b] = Fold[a]
    <2>1. {Fold[x] : x \in Above[p]} = {Fold[x] : x \in Above[q]}
      BY <1>1, TreeAssumption
    <2>2. Fold[a] \in {Fold[x] : x \in Above[q]}
      BY <2>1
    <2> QED
      BY <2>2
  <1>2. /\ Above[p] \subseteq Paths
        /\ \A a \in Above[p] : Above[a] \subseteq Above[p]
        /\ \A a, b \in Above[p] : a = b \/ a \in Above[b] \/ b \in Above[a]
    BY TreeAssumption
  <1> QED
    BY <1>1, <1>2

(* What holds a path that is not covered is not covered.                   *)
LEMMA CoveredBeneath ==
    ASSUME NEW p \in Paths, NEW q \in Within(p), Covered(q)
    PROVE  Covered(p)
  BY TreeHolds DEF Within, Covered

(* q is another spelling of p, or of a folder above it.                    *)
SpelledIn(q, p) == \E a \in Within(p) : Fold[a] = Fold[q]

LEMMA SpellingRelatedIs ==
    ASSUME NEW p
    PROVE  SpellingRelated(p) <=> \E q \in deferrals : SpelledIn(q, p) \/ SpelledIn(p, q)
  BY DEF SpellingRelated, SpelledIn, Within

(* It is so for every spelling of p, and above q what holds for q holds.   *)
LEMMA SpelledInRespells ==
    ASSUME NEW p \in Paths, NEW q \in Paths, NEW r \in Paths, SpelledIn(q, p), Fold[p] = Fold[r]
    PROVE  SpelledIn(q, r)
  BY TreeHolds DEF SpelledIn, Within

LEMMA SpelledInThrough ==
    ASSUME NEW p \in Paths, NEW q \in Paths, NEW r \in Paths, SpelledIn(r, q), SpelledIn(q, p)
    PROVE  SpelledIn(r, p)
  <1>1. PICK a \in Within(p) : Fold[a] = Fold[q]
    BY DEF SpelledIn
  <1>2. a \in Paths /\ Within(a) \subseteq Within(p)
    BY TreeHolds DEF Within
  <1>3. SpelledIn(r, a)
    BY <1>1, <1>2, SpelledInRespells
  <1> QED
    BY <1>2, <1>3 DEF SpelledIn

(* Of two paths that are spelled in p one is spelled in the other.         *)
LEMMA SpelledInChain ==
    ASSUME NEW p \in Paths, NEW q \in Paths, NEW r \in Paths, SpelledIn(q, p), SpelledIn(r, p)
    PROVE  SpelledIn(q, r) \/ SpelledIn(r, q)
  <1>1. PICK a \in Within(p), b \in Within(p) : Fold[a] = Fold[q] /\ Fold[b] = Fold[r]
    BY DEF SpelledIn
  <1>2. a \in Paths /\ b \in Paths
    BY TreeHolds DEF Within
  <1>3. a \in Within(b) \/ b \in Within(a)
    BY TreeHolds DEF Within
  <1>4. CASE a \in Within(b)
    <2>1. SpelledIn(q, b)
      BY <1>1, <1>4 DEF SpelledIn
    <2> QED
      BY <1>1, <1>2, <2>1, SpelledInRespells
  <1>5. CASE b \in Within(a)
    <2>1. SpelledIn(r, a)
      BY <1>1, <1>5 DEF SpelledIn
    <2> QED
      BY <1>1, <1>2, <2>1, SpelledInRespells
  <1> QED
    BY <1>3, <1>4, <1>5

(* Nothing deferred relates to what lies at or beneath a path that nothing *)
(* deferred relates to, however it is spelled.                             *)
LEMMA UnrelatedBeneath ==
    ASSUME deferrals \subseteq Paths, NEW p \in Paths, NEW r \in Paths,
           ~SpellingRelated(r), SpelledIn(r, p)
    PROVE  ~SpellingRelated(p)
  <1> SUFFICES ASSUME NEW q \in deferrals, SpelledIn(q, p) \/ SpelledIn(p, q)
               PROVE  SpelledIn(q, r) \/ SpelledIn(r, q)
    BY SpellingRelatedIs
  <1>1. CASE SpelledIn(q, p)
    BY <1>1, SpelledInChain
  <1>2. CASE SpelledIn(p, q)
    BY <1>2, SpelledInThrough
  <1> QED
    BY <1>1, <1>2

LEMMA UnrelatedNotCovered ==
    ASSUME deferrals \subseteq Paths, NEW p \in Paths, NEW q \in Paths,
           Fold[q] = Fold[p], ~SpellingRelated(p)
    PROVE  ~Covered(q)
  <1> SUFFICES ASSUME NEW d \in deferrals, d \in Within(q)
               PROVE  FALSE
    BY DEF Covered, Within
  <1>1. SpelledIn(d, q)
    BY DEF SpelledIn
  <1>2. SpelledIn(d, p)
    BY <1>1, SpelledInRespells
  <1> QED
    BY <1>2, SpellingRelatedIs

LEMMA MadeIs ==
    ASSUME TypeOK, NEW a \in Made(plan)
    PROVE  a.rel \in Paths /\ a.dest \in Paths /\ Fold[a.rel] = Fold[a.dest]
  BY PlanHolds DEF Planned, Made

(* Writing at the destination of a changes it and folders above it: what   *)
(* is planned there is not deferred if a is not.                           *)
LEMMA MakingLeavesAlone ==
    ASSUME TypeOK, NEW a \in Made(plan), ~Covered(a.rel),
           NEW p \in Within(a.dest), NEW b \in Made(plan), b.dest = p
    PROVE  ~Covered(b.rel)
  <1>1. b.rel \in Within(a.rel)
    BY ArrangedHolds DEF Arranged
  <1> QED
    BY <1>1, MadeIs, CoveredBeneath

LEMMA ParentsOnly ==
    ASSUME NEW p \in Paths, NEW e, NEW q \in Paths, remote' = WithParents(remote, p, e),
           remote'[q] # remote[q]
    PROVE  q \in Within(p)
  BY DEF WithParents, Within

(* A step of the run leaves alone what was deferred.                       *)
LEMMA StepLeavesAlone ==
    ASSUME IInv, SInv, NasStep
    PROVE  LeavesDeferredAlone
  <1> TypeOK /\ FlightInv /\ RequestInv /\ ClearInv
    BY DEF IInv, SInv
  <1> DEFINE Written(p) == \A a \in Made(plan) : a.dest = p => ~Covered(a.rel)
  <1> SUFFICES ASSUME ByRun, NEW p \in Paths, remote'[p] # remote[p]
               PROVE  /\ pc # "preDeleteRequest" => Written(p)
                      /\ pc \in {"preDeleteRequest", "postDelete"} => ~Covered(p)
                      /\ pc \in {"postDeleteRequest", "rename"} => ~SpellingRelated(p)
    BY DEF LeavesDeferredAlone
  <1>1. deferrals \subseteq Paths /\ remoteEdits \in Nat
    BY DEF ClearInv
  <1>2. CASE NasQuiet
    BY <1>2 DEF NasQuiet
  <1>3. CASE NasEdited
    BY <1>1, <1>3 DEF NasEdited, ByRun
  <1>4. CASE NasDeleted
    <2>1. p = Current.path /\ pc \in {"preDeleteRequest", "postDeleteRequest"}
      BY <1>4 DEF NasDeleted, TypeOK
    <2>2. CASE pc = "preDeleteRequest"
      BY <2>1, <2>2, AtHandHolds DEF AtHand, ClearInv
    <2>3. CASE pc = "postDeleteRequest"
      <3>1. Current \in Elements(plan.postDeletes)
        BY <2>3, AtHandHolds DEF AtHand
      <3>2. ASSUME NEW a \in Made(plan) PROVE a.dest # p
        BY <2>1, <3>1, ArrangedHolds DEF Arranged, Within
      <3>3. ~SpellingRelated(p)
        BY <2>1, <2>3 DEF RequestInv
      <3> QED
        BY <2>3, <3>2, <3>3
    <2> QED
      BY <2>1, <2>2, <2>3
  <1>5. CASE NasAdded
    <2>1. /\ pc \in {"create", "copyRequest"} /\ p \in Within(Current.dest)
          /\ pc = "create" => todo # {} /\ ~Covered(Current.rel)
      <3>1. PICK q \in Paths, e \in Entries \ {Absent} :
              /\ pc \in {"create", "copyRequest"} /\ q = Current.dest
              /\ pc = "create" => todo # {} /\ ~Covered(Current.rel)
              /\ remote' = WithParents(remote, q, e)
        BY <1>5 DEF NasAdded
      <3> QED
        BY <3>1, ParentsOnly
    <2>2. Current \in Made(plan) /\ ~Covered(Current.rel)
      BY <2>1, AtHandHolds DEF AtHand, Made, Writes, ClearInv, Copying
    <2>3. Written(p)
      BY <2>1, <2>2, MakingLeavesAlone
    <2> QED
      BY <2>1, <2>3
  <1>6. CASE NasUploaded
    <2>1. PICK a \in Uploading :
            /\ UploadWrites(a)
            /\ pc \in {"copyUpload", "upload", "drain", "postDelete"}
      BY <1>6 DEF NasUploaded
    <2>2. a.dest \in Paths
      BY <2>1, UploadingIs
    <2>3. p \in Within(a.dest)
      BY <2>1, <2>2, ParentsOnly DEF UploadWrites
    <2>4. CASE a \in Writes(plan)
      <3>1. a \in Made(plan) /\ ~Covered(a.rel)
        BY <2>4, AtHandHolds DEF AtHand, Uploading, Made, ClearInv, Copying
      <3>2. pc # "postDelete"
        BY <2>1, <2>4, PlanHolds DEF Uploading, FlightInv, CarriesBack, Planned
      <3>3. Written(p)
        BY <2>3, <3>1, MakingLeavesAlone
      <3> QED
        BY <2>1, <3>2, <3>3
    <2>5. CASE a \notin Writes(plan)
      <3>1. a \in inflight /\ CarriesBack(a) /\ a.rel = a.dest /\ ~Covered(a.rel)
        BY <2>1, <2>5, AtHandHolds DEF AtHand, Uploading, FlightInv, ClearInv, Writes
      <3>2. ASSUME NEW b \in Made(plan) PROVE b.dest # p
        BY <2>3, <3>1, ArrangedHolds DEF Arranged, CarriesBack
      <3>3. ~Covered(p)
        BY <2>2, <2>3, <3>1, CoveredBeneath
      <3> QED
        BY <2>1, <3>2, <3>3
    <2> QED
      BY <2>4, <2>5
  <1>7. CASE NasRenamed
    <2>1. pc = "rename" /\ Current \in Elements(plan.renames) /\ ~SpellingRelated(Current.rel)
      BY <1>7, AtHandHolds DEF NasRenamed, Rename, At, AtHand
    <2>2. PICK x \in DOMAIN Current.moves : p = x \/ p = Current.moves[x]
      BY <1>7 DEF NasRenamed, Rename
    <2>3. /\ Current.rel \in Paths /\ x \in Paths /\ Fold[p] = Fold[x]
          /\ \E q \in Within(x) : Fold[q] = Fold[Current.rel]
      BY <2>1, <2>2, PlanHolds, ArrangedHolds DEF Planned, Arranged
    <2>4. SpelledIn(Current.rel, p)
      <3>1. SpelledIn(Current.rel, x)
        BY <2>3 DEF SpelledIn
      <3> QED
        BY <2>3, <3>1, SpelledInRespells
    <2>5. ~SpellingRelated(p)
      BY <1>1, <2>1, <2>3, <2>4, UnrelatedBeneath
    <2>6. Written(p)
      BY <1>1, <2>5, MadeIs, UnrelatedNotCovered
    <2> QED
      BY <2>1, <2>5, <2>6
  <1> QED
    BY <1>2, <1>3, <1>4, <1>5, <1>6, <1>7 DEF NasStep

(* A run that succeeds has carried out every planned action or names it;   *)
(* each planned write settles the breaker once, and the deletions wait for *)
(* all of them; and what is deferred is left alone (execute_plan,          *)
(* PathDeferrals).                                                         *)
THEOREM ExecutorEverythingSettled == Spec => EverythingSettled
  <1>1. IInv /\ SInv => AllAccountedFor /\ AllWritesSettled /\ DeletionsLast
    BY AccountedForHolds, WritesSettledHolds, LastHolds DEF IInv, SInv
  <1>2. (IInv /\ SInv) /\ [Next]_vars => [LeavesDeferredAlone]_vars
    BY StepOnNas, StepLeavesAlone DEF IInv
  <1>3. Spec => [](AllAccountedFor /\ AllWritesSettled /\ DeletionsLast)
    BY <1>1, ExecutorSettling, PTL
  <1>4. Spec => DeferredLeftAlone
    BY <1>2, ExecutorSettling, PTL DEF Spec, DeferredLeftAlone
  <1> QED
    BY <1>3, <1>4 DEF EverythingSettled
=============================================================================
