----------------------------- MODULE MCSyncRun -----------------------------
(* Small worlds for SyncRun, in families: each family is a handful of      *)
(* paths that exercise one kind of difference.                             *)
EXTENDS SyncRun, TLC

MCNames == {"a", "A", "e", "d", "k", "kc", "x"}
MCFold == [n \in MCNames |-> IF n = "A" THEN "a" ELSE IF n = "d" THEN "e" ELSE n]
MCNfc == [n \in MCNames |-> IF n = "d" THEN "e" ELSE n]
MCOrder == [n \in MCNames |-> CASE n = "A" -> 1 [] n = "a" -> 2 [] n = "d" -> 3 [] n = "e" -> 4
                                [] n = "k" -> 5 [] n = "kc" -> 6 [] n = "x" -> 7]
MCComma == [n \in {"kc"} |-> "k"]

\* Versions of a file: the same metadata with another body, another time.
V1 == [size |-> 1, ms |-> 1000, body |-> 1]
V2 == [size |-> 1, ms |-> 1000, body |-> 2]
V3 == [size |-> 1, ms |-> 2500, body |-> 1]
VNew == [size |-> 2, ms |-> 8000, body |-> 3]    \* an edit made during the run

Node(kind, v) == [kind |-> kind, size |-> v.size, ms |-> v.ms, body |-> v.body]
DirNode == Node("dir", [size |-> 0, ms |-> 1000, body |-> 0])
Entry(v) == [kind |-> "file", size |-> v.size, mtime |-> v.ms \div 1000, body |-> v.body, print |-> "none", mount |-> "none"]
Mounted(m) == [RemoteDir EXCEPT !.mount = m]

\* Trees over the given top names with an optional child.
Tops(names, child, file, dir) ==
    LET one(n) == {[p \in {} |-> dir]} \cup {(<<n>> :> f) : f \in file} \cup {(<<n>> :> dir)}
                  \cup {(<<n>> :> dir) @@ (<<n, child>> :> f) : f \in file}
        RECURSIVE all(_)
        all(S) == IF S = {} THEN {[p \in {} |-> dir]}
                  ELSE LET n == CHOOSE m \in S : TRUE
                       IN {f @@ g : f \in one(n), g \in all(S \ {n})}
    IN all(names)

SourceTrees(names, child, vs) == Tops(names, child, {Node("file", v) : v \in vs}, DirNode)
NasTrees(names, child, vs) == Tops(names, child, {Entry(v) : v \in vs}, RemoteDir)

Opts(delete, compare, copy, scope, max) ==
    [delete |-> delete, compare |-> compare, server_copy |-> copy, scope |-> scope, allow_empty_source |-> FALSE,
     max_delete |-> max, root_is_share |-> FALSE]

Job(mode, opts, broken, keeps, cancel) ==
    [mode |-> mode, opts |-> opts, excludes |-> {"x"}, broken |-> broken, tooLong |-> {}, keepsTime |-> keeps,
     mayCancel |-> cancel, changes_exit_code |-> FALSE]

Source(disk) == [root |-> "dir", ignoreFile |-> "none", ignored |-> {}, folds |-> FALSE, disk |-> disk]
Nas(entries) == [root |-> TRUE, entries |-> entries, unfollowed |-> {}, short |-> {}]

Scenario(j, s, n) == [job |-> j, source |-> s, nas |-> n]

\* Two spellings of one name, with deletion on and off.
CaseFamily ==
    {Scenario(Job("sync", Opts(del, "content", FALSE, <<>>, 9), {}, TRUE, FALSE), Source(d), Nas(n)) :
        del \in BOOLEAN, d \in SourceTrees({"a", "A"}, "k", {V1}), n \in NasTrees({"a", "A"}, "k", {V1, V2})}

\* A composed and a decomposed name.
ComposedFamily ==
    {Scenario(Job("sync", Opts(TRUE, "content", FALSE, <<>>, 9), {}, TRUE, FALSE), Source(d), Nas(n)) :
        d \in SourceTrees({"e", "d"}, "x", {V1}), n \in NasTrees({"e", "d"}, "x", {V1, V2})}

\* A file that moved, an excluded entry in the way, a name with a comma.
MoveFamily ==
    {Scenario(Job("sync", Opts(TRUE, "content", TRUE, <<>>, 9), b, TRUE, FALSE), Source(d), Nas(n)) :
        b \in {{}, {<<"a", "k">>}},
        d \in SourceTrees({"a", "e"}, "k", {V1}), n \in NasTrees({"a", "e"}, "k", {V1})}
CommaFamily ==
    {Scenario(Job("sync", Opts(TRUE, "metadata", FALSE, <<>>, 9), {}, keeps, FALSE), Source(d), Nas(n)) :
        keeps \in BOOLEAN,
        d \in SourceTrees({"k", "kc"}, "x", {V1, V3}), n \in NasTrees({"k", "kc"}, "x", {V1})}

\* What the destination will not let go of.
HeldFamily ==
    {Scenario(Job("sync", Opts(TRUE, "content", FALSE, scope, 1), {}, TRUE, TRUE), Source(d),
              [Nas(n @@ (<<"e">> :> Mounted(m))) EXCEPT !.unfollowed = u, !.short = s]) :
        scope \in {<<>>, <<"a">>},
        d \in SourceTrees({"a"}, "k", {V1}) \cup {<<"e">> :> Node("file", V1)}, n \in NasTrees({"a"}, "k", {V2}),
        m \in {"mount", "link"}, u \in {{}, {<<"a", "x">>}}, s \in {{}, {<<>>}}}

\* A resync that is shown, confirmed and carried out.
ResyncFamily ==
    {Scenario(Job("resync-plan", Opts(TRUE, "content", FALSE, <<>>, 9), {}, TRUE, FALSE), Source(d), Nas(n)) :
        d \in SourceTrees({"a"}, "k", {V1}), n \in NasTrees({"a"}, "k", {V1, V2})}

MCScenarios == UNION {CaseFamily, ComposedFamily, MoveFamily, CommaFamily, HeldFamily, ResyncFamily}

EditPaths == {<<"a">>, <<"a", "k">>, <<"e">>}
MCSourceEdits == {[path |-> p, node |-> n] : p \in EditPaths, n \in {{}, {Node("file", VNew)}}}
MCNasEdits == {[path |-> p, node |-> n] : p \in EditPaths, n \in {{}, {Entry(VNew)}}}
=============================================================================
