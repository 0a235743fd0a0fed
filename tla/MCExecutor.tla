----------------------------- MODULE MCExecutor -----------------------------
(* Small instances of Executor.  Files of the local tree have metadata and *)
(* body 2, files found on the NAS by the plan have 1; 8 and 9 are edits    *)
(* made during the run, of which one keeps the metadata it found.          *)
EXTENDS Executor

MCPaths == {"f", "F", "d", "d/k", "e", "e/k", "x"}
MCAbove == [p \in MCPaths |-> CASE p = "d/k" -> {"d"} [] p = "e/k" -> {"e"} [] OTHER -> {}]
MCFold == [p \in MCPaths |-> IF p = "F" THEN "f" ELSE p]
MCForeignEntries == {File(9, 9), File(1, 9), Dir}
MCLocalEntries == {File(8, 8), File(2, 8)}

Mine == File(2, 2)
Theirs == File(1, 1)

Tree(present) == [p \in MCPaths |-> IF p \in DOMAIN present THEN present[p] ELSE Absent]
UploadOf(rel, dest, expected) ==
    [rel |-> rel, src |-> rel, dest |-> dest, local |-> Mine, expected |-> expected]
CopyOf(rel, from) ==
    [rel |-> rel, src |-> rel, from |-> from, dest |-> rel, local |-> Theirs,
     source |-> Theirs, expected |-> Absent]
Metadata(e) == [e EXCEPT !.body = Unhashed]
DeleteOf(p, snap, guards) == [path |-> p, localPath |-> p, snap |-> snap, guards |-> guards]
CreateOf(p) == [rel |-> p, dest |-> p]
RenameOf(from, to) == [rel |-> to, from |-> from, moves |-> [p \in {from} |-> to]]

EmptyPlan == [preDeletes |-> << >>, creates |-> << >>, copies |-> << >>, uploads |-> {},
              postDeletes |-> << >>, renames |-> << >>, unchanged |-> 0, jobs |-> 2]

(* A case change without Rename, beside an overwrite.                      *)
CasePair ==
    [local |-> Tree([p \in {"F", "e"} |-> Mine]),
     remote |-> Tree([p \in {"f", "e"} |-> Theirs]),
     plan |-> [EmptyPlan EXCEPT
        !.uploads = {UploadOf("F", "F", Absent), UploadOf("e", "e", Metadata(Theirs))},
        !.postDeletes = << DeleteOf("f", Metadata(Theirs), {}) >>]]

(* A file moved to another folder: a server copy, its guarded source.      *)
MovedFile ==
    [local |-> Tree([p \in {"d", "d/k"} |-> IF p = "d" THEN Dir ELSE Theirs]),
     remote |-> Tree([p \in {"e", "e/k"} |-> IF p = "e" THEN Dir ELSE Theirs]),
     plan |-> [EmptyPlan EXCEPT
        !.creates = << CreateOf("d") >>,
        !.copies = << CopyOf("d/k", "e/k") >>,
        !.postDeletes = << DeleteOf("e/k", Theirs, {CopyOf("d/k", "e/k")}),
                           DeleteOf("e", Metadata(Dir), {}) >>]]

(* A file where the NAS has a folder, and a folder where it has a file.    *)
TypeConflicts ==
    [local |-> Tree([p \in {"d", "e", "e/k"} |-> IF p = "e" THEN Dir ELSE Mine]),
     remote |-> Tree([p \in {"d", "d/k", "e"} |-> IF p = "d" THEN Dir ELSE Theirs]),
     plan |-> [EmptyPlan EXCEPT
        !.preDeletes = << DeleteOf("d/k", Theirs, {}), DeleteOf("d", Metadata(Dir), {}),
                          DeleteOf("e", Metadata(Theirs), {}) >>,
        !.creates = << CreateOf("e") >>,
        !.uploads = {UploadOf("d", "d", Absent), UploadOf("e/k", "e/k", Absent)}]]

(* Remote extras: a file in a folder both sides have, and a whole folder.  *)
Extras ==
    [local |-> Tree([p \in {"d"} |-> Dir]),
     remote |-> Tree([p \in {"d", "d/k", "e", "e/k"} |->
                         IF p \in {"d", "e"} THEN Dir ELSE Theirs]),
     plan |-> [EmptyPlan EXCEPT
        !.postDeletes = << DeleteOf("d/k", Metadata(Theirs), {}),
                           DeleteOf("e/k", Theirs, {}),
                           DeleteOf("e", Metadata(Dir), {}) >>]]

(* A case-only rename carried by File Station, after its content, in a run *)
(* whose jobs option is zero.                                              *)
CaseRename ==
    [local |-> Tree([p \in {"F"} |-> Mine]),
     remote |-> Tree([p \in {"f"} |-> Theirs]),
     plan |-> [EmptyPlan EXCEPT
        !.uploads = {UploadOf("F", "f", Metadata(Theirs))},
        !.renames = << RenameOf("f", "F") >>,
        !.jobs = 0]]

(* New folders, one of them nested, and files: enough refusals for the     *)
(* breaker's verdict, writes beneath a refused folder, and an extra whose  *)
(* deletion comes after them.                                              *)
NewEntries ==
    [local |-> Tree([p \in {"d", "d/k", "e", "e/k", "f"} |->
                        IF p \in {"d", "d/k", "e"} THEN Dir ELSE Mine]),
     remote |-> Tree([p \in {"x"} |-> Theirs]),
     plan |-> [EmptyPlan EXCEPT
        !.creates = << CreateOf("d"), CreateOf("e"), CreateOf("d/k") >>,
        !.uploads = {UploadOf(p, p, Absent) : p \in {"e/k", "f"}},
        !.postDeletes = << DeleteOf("x", Theirs, {}) >>]]

MCScenarios == {CasePair, MovedFile, TypeConflicts, Extras, CaseRename, NewEntries}
=============================================================================
