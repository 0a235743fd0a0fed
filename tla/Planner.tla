------------------------------- MODULE Planner --------------------------------
(***************************************************************************)
(* The scan and the planner: which entries of the source folder a run may  *)
(* work with and which it sets aside, and from two inventories the plan.   *)
(*                                                                         *)
(* A relative path is a sequence of names.  Two constant functions say     *)
(* what the file systems do with names: Nfc composes a name and Fold is    *)
(* the spelling a case-insensitive client sees.  The source folder is a    *)
(* function from paths to nodes; a scan reads it in one piece.             *)
(*                                                                         *)
(* A local inventory is [entries, skipped]; a remote one is                *)
(* [root, entries] where root says whether the destination folder exists.  *)
(* The plan is a record of sets; the order the executor works in is the    *)
(* depth order of sort_plan, which a set leaves to the module that runs    *)
(* it.  An operator that can refuse returns a record with an `error`.      *)
(***************************************************************************)
EXTENDS Integers, Sequences, FiniteSets

CONSTANTS Names,      \* every file name of the instance
          Fold,       \* [Names -> Names], portable_fold of a name
          Nfc,        \* [Names -> Names], the composed spelling
          Managed,    \* names DSM keeps for itself (@eaDir, #recycle, ...)
          BadNames,   \* names a Drive client cannot hold (trailing dot, CON, ...)
          NameOrder   \* [Names -> Nat], the byte order of the names

ASSUME NamesAssumption ==
    /\ Fold \in [Names -> Names] /\ Nfc \in [Names -> Names]
    /\ \A n \in Names : Fold[Fold[n]] = Fold[n] /\ Fold[Nfc[n]] = Fold[n] /\ Nfc[Nfc[n]] = Nfc[n]
    /\ Managed \subseteq Names /\ BadNames \subseteq Names

(***************************************************************************)
(* Paths.                                                                  *)
(***************************************************************************)
Parent(p) == SubSeq(p, 1, Len(p) - 1)
Under(p, q) == Len(p) > Len(q) /\ SubSeq(p, 1, Len(q)) = q          \* p lies beneath q
AtOrUnder(p, q) == p = q \/ Under(p, q)
Ancestors(p) == {SubSeq(p, 1, i) : i \in 1..Len(p) - 1}

portable_fold(p) == [i \in DOMAIN p |-> Fold[p[i]]]
nfc(p) == [i \in DOMAIN p |-> Nfc[p[i]]]
is_dsm_managed(p) == \E i \in DOMAIN p : p[i] \in Managed

\* The order of a BTreeMap of paths, parents before their children.
Before(p, q) ==
    \/ Under(q, p)
    \/ \E i \in DOMAIN p \cap DOMAIN q :
          /\ SubSeq(p, 1, i - 1) = SubSeq(q, 1, i - 1)
          /\ NameOrder[p[i]] < NameOrder[q[i]]

First(S) == CHOOSE p \in S : \A q \in S \ {p} : Before(p, q)

\* Validation of one relative path against what a Drive client can hold:
\* unsafe components, reserved names and lengths are all one set of names.
drive_path_issue(p) == \E i \in DOMAIN p : p[i] \in BadNames

(***************************************************************************)
(* Scope.                                                                  *)
(***************************************************************************)
scope_parse(text) ==
    IF \E i \in DOMAIN text : text[i] \notin Names \/ text[i] \in Managed
    THEN {} ELSE {text}

matches(scope, p) == AtOrUnder(p, scope)
is_ancestor_of_scope(scope, p) == scope # <<>> /\ (p = <<>> \/ Under(scope, p))

(***************************************************************************)
(* Exclusion rules.  A rule names a file or a folder anywhere in the tree. *)
(***************************************************************************)

\* The probe for a case-insensitive source: an entry of the folder looked up
\* under the other case, then the folder's own name, then the platform.
\* Each look-up answers {} when it cannot tell.
case_folding_verdict(inside, beside, platform) ==
    IF inside # {} THEN CHOOSE v \in inside : TRUE
    ELSE IF beside # {} THEN CHOOSE v \in beside : TRUE ELSE platform

names_fold_inside(disk, foldsNames) ==
    LET cased == {p \in DOMAIN disk : Len(p) = 1 /\ \E n \in Names : n # p[1] /\ Fold[n] = Fold[p[1]]}
    IN IF cased = {} THEN {} ELSE {foldsNames}

\* An ignore file that is a link or a folder refuses the run; so does a
\* source that is a link or a whole file system.
build(source, patterns) ==
    IF source.root \in {"link", "fsroot"} \/ source.ignoreFile \in {"link", "dir", "invalid"}
    THEN {}
    ELSE {[patterns |-> patterns \cup source.ignored,
           fold     |-> case_folding_verdict(names_fold_inside(source.disk, source.folds),
                                             {source.folds}, source.folds)]}

composed(rules, n) ==
    \E x \in rules.patterns : Nfc[x] = Nfc[n] \/ (rules.fold /\ Fold[x] = Fold[n])

is_ignored(rules, p) == \E i \in DOMAIN p : composed(rules, p[i])

excludes_for_deletion(rules, p) ==
    is_ignored(rules, p) \/ \E i \in DOMAIN p : p[i] \in rules.patterns

(***************************************************************************)
(* The scan.                                                               *)
(***************************************************************************)
Skip(p, why) == [relative |-> p, reason |-> why]

\* A name that is a link, a cloud placeholder or carries system attributes.
LinkSkips == [link |-> "link-or-reparse-point", placeholder |-> "dehydrated-placeholder",
              attributes |-> "windows-attributes"]

link_skip_reason(node) == LinkSkips[node.kind]

\* A child that the scan passes over in silence: DSM's own, outside the
\* scope, or excluded.
PassedOver(node, rules, scope, p) ==
    \/ is_dsm_managed(p)
    \/ node.kind # "noutf8" /\ ~ matches(scope, p) /\ ~ is_ancestor_of_scope(scope, p)
    \/ is_ignored(rules, p)

\* What one visited child is recorded as: the set of reasons to skip it.
ChildSkip(node, p) ==
    CASE node.kind = "noutf8"               -> {"unsupported-entry"}
      [] node.kind = "untyped"              -> {"source-unreadable"}
      [] drive_path_issue(p)                -> {"unsupported-entry"}
      [] node.kind = "unstatable"           -> {"source-unreadable"}
      [] node.kind \in DOMAIN LinkSkips     -> {link_skip_reason(node)}
      [] node.kind \in {"special", "badtime"} -> {"unsupported-entry"}
      [] node.kind = "unreadable"           -> {"local-permission-denied"}   \* a folder
      [] OTHER                              -> {}

\* The folders the scan descends into, and so the children it visits.
Visited(disk, rules, scope) ==
    {p \in DOMAIN disk :
        /\ ~ PassedOver(disk[p], rules, scope, p)
        /\ disk[p].kind # "vanishing"
        /\ \A q \in Ancestors(p) :
              /\ q \in DOMAIN disk /\ disk[q].kind = "dir"
              /\ ~ PassedOver(disk[q], rules, scope, q) /\ ~ drive_path_issue(q)}

\* A file on the way to the scope is walked past but not recorded.
Recorded(disk, scope, p) == matches(scope, p) \/ disk[p].kind \notin {"file", "badtime"}

\* The first `budget` recorded items in walking order; the walk then stops.
Within(S, budget) == {p \in S : Cardinality({q \in S : Before(q, p)}) < budget}

\* Two spellings a Drive client cannot tell apart are both set aside, with
\* all beneath them, and so is one whose other spelling was skipped.
CollidingWith(kept, skips, p) ==
    LET same(q) == q # p /\ portable_fold(q) = portable_fold(p)
    IN {q \in kept : same(q)} \cup {s.relative : s \in {t \in skips : same(t.relative)}}

skip_portable_case_collisions(kept, skips) ==
    LET hit == {p \in kept : CollidingWith(kept, skips, p) # {}}
        top == {p \in hit : \A q \in hit : ~ Under(portable_fold(p), portable_fold(q))}
    IN [kept  |-> {p \in kept : \A q \in top : ~ AtOrUnder(p, q)},
        skips |-> skips \cup {Skip(p, "local-case-collision") : p \in top}]

LocalEntry(node) ==
    [kind |-> node.kind,
     size |-> IF node.kind = "file" THEN node.size ELSE 0,
     ms   |-> IF node.kind = "file" THEN node.ms ELSE 0,
     body |-> IF node.kind = "file" THEN node.body ELSE 0,
     print |-> "none"]

\* The whole scan.  The answer is a set: empty when the root is refused.
scan_scoped(source, rules, scope, include_excluded, budget) ==
    LET disk    == source.disk
        seen    == {p \in Visited(disk, rules, scope) : Recorded(disk, scope, p)}
        counted == Within(seen, budget)
        bad     == UNION {{Skip(p, why) : why \in ChildSkip(disk[p], p)} : p \in counted}
        good    == {p \in counted : ChildSkip(disk[p], p) = {}}
        apart   == skip_portable_case_collisions(good, bad)
    IN IF source.root # "dir" THEN {}
       ELSE {[entries  |-> [p \in apart.kept |-> LocalEntry(disk[p])],
              skipped  |-> apart.skips,
              excluded |-> IF ~ include_excluded THEN {}
                           ELSE {p \in DOMAIN disk : matches(scope, p)
                                    /\ (is_dsm_managed(p) \/ is_ignored(rules, p))
                                    /\ \A a \in Ancestors(p) : a \in counted /\ disk[a].kind = "dir"
                                    /\ \A c \in seen \ counted : Before(p, c)},
              complete |-> counted = seen]}

\* Set one entry, and all beneath it, aside for this run.
withhold(inv, p, why) ==
    [inv EXCEPT !.entries = [q \in {r \in DOMAIN @ : ~ AtOrUnder(r, p)} |-> @[q]],
                !.skipped = @ \cup {Skip(p, why)}]

\* Look one path up again, as a delete does: {} when nothing is there or a
\* link is, an error when it is neither file nor folder.
entry_at(disk, p) ==
    IF p = <<>> \/ is_dsm_managed(p) \/ p \notin DOMAIN disk THEN [found |-> FALSE, error |-> FALSE]
    ELSE [found |-> disk[p].kind \in {"file", "dir", "unreadable"},
          error |-> disk[p].kind \in {"special", "badtime", "unstatable"} \/ drive_path_issue(p)]

files(inv) == {p \in DOMAIN inv.entries : inv.entries[p].kind = "file"}

(***************************************************************************)
(* Fingerprints of the source.                                             *)
(***************************************************************************)

\* The file on disk is still the one that was scanned.
verify_metadata_snapshot(disk, p, entry) ==
    p \in DOMAIN disk /\ disk[p].kind = "file" /\ disk[p].size = entry.size /\ disk[p].ms = entry.ms

\* Hashing reads between two checks of the metadata; the body it sees is
\* the one on disk then, and a change that keeps both is not seen.
hash_file_with(disk, p, entry, print) ==
    IF verify_metadata_snapshot(disk, p, entry)
    THEN {[entry EXCEPT !.body = disk[p].body, !.print = print]} ELSE {}

\* Every file is hashed, with MD5 only where the remote offers no more to
\* compare with; the ones that cannot be are returned.
populate_content_md5_selective_deferring(disk, inv, comparison) ==
    LET hashed(p) == hash_file_with(disk, p, inv.entries[p], IF p \in comparison THEN "md5" ELSE "full")
        todo   == {p \in files(inv) : inv.entries[p].print = "none"}
        failed == {p \in todo : hashed(p) = {}}
    IN [entries |-> [p \in DOMAIN inv.entries |->
                       IF p \in todo \ failed THEN CHOOSE e \in hashed(p) : TRUE ELSE inv.entries[p]],
        failed  |-> failed]

promote_to_full_fingerprint(disk, p, entry) ==
    IF entry.print = "full" THEN {entry} ELSE hash_file_with(disk, p, entry, "full")

(***************************************************************************)
(* The plan: what two inventories have in common.                          *)
(***************************************************************************)
Keys(inv) == DOMAIN inv.entries
IsFile(e) == e.kind = "file"

(***************************************************************************)
(* Spelling pairs (Correspondence).                                        *)
(***************************************************************************)
Odd(inv) == {p \in Keys(inv) : nfc(p) # p}
OddOf(inv, c) == {p \in Odd(inv) : nfc(p) = c}

\* A pair of paths that are the same name composed differently, when each
\* side holds exactly one of the spellings.
Correspondence(local, remote) ==
    LET candidates(c) == OddOf(remote, c) \cup ({c} \cap Keys(remote))
        first == {pr \in Odd(local) \X Keys(remote) :
                    /\ OddOf(local, nfc(pr[1])) = {pr[1]}
                    /\ pr[1] \notin Keys(remote)
                    /\ candidates(nfc(pr[1])) = {pr[2]}
                    /\ pr[2] \notin Keys(local)}
        second == {pr \in Keys(local) \X Odd(remote) :
                    /\ pr[1] = nfc(pr[2])
                    /\ OddOf(remote, pr[1]) = {pr[2]}
                    /\ pr[2] \notin Keys(local)
                    /\ OddOf(local, pr[1]) = {}
                    /\ pr[1] \notin Keys(remote)}
    IN first \cup second

\* The path itself when it is paired, else the pairing of its nearest
\* paired ancestor with the rest kept.
Translate(p, table) ==
    LET keys == {k \in {t[1] : t \in table} : AtOrUnder(p, k)}
        near == CHOOSE k \in keys : \A j \in keys : Len(j) <= Len(k)
        to   == CHOOSE t \in table : t[1] = near
    IN IF keys = {} THEN p ELSE to[2] \o SubSeq(p, Len(near) + 1, Len(p))

remote_relative(pairs, p) == Translate(p, pairs)
local_relative(pairs, p) == Translate(p, {<<t[2], t[1]>> : t \in pairs})

(***************************************************************************)
(* Protection, the shield and left-over spellings.                         *)
(***************************************************************************)
is_protected_as_spelled(remote, rules, p) ==
    \/ remote.entries[p].mount # "none"
    \/ is_dsm_managed(p)
    \/ excludes_for_deletion(rules, p)

is_protected(remote, rules, pairs, p) ==
    \/ is_protected_as_spelled(remote, rules, p)
    \/ LET l == local_relative(pairs, p)
       IN l # p /\ (is_dsm_managed(l) \/ excludes_for_deletion(rules, l))

is_excluded_from_comparison(remote, rules, pairs, p) ==
    LET l == local_relative(pairs, p)
    IN \/ remote.entries[p].mount # "none" \/ is_dsm_managed(p) \/ is_ignored(rules, p)
       \/ l # p /\ (is_dsm_managed(l) \/ is_ignored(rules, l))

covers(shield, p) == \E f \in shield : AtOrUnder(portable_fold(p), f)
is_leftover(res, p) == \E l \in res.leftovers : AtOrUnder(p, l.old)

names_differ(p, q) == Nfc[p[Len(p)]] # Nfc[q[Len(q)]]

(***************************************************************************)
(* resolve_spellings: one class per folded path, of the spellings each     *)
(* side holds for it or passes through on the way to an entry.             *)
(***************************************************************************)
Prefixes(S) == UNION {Ancestors(p) \cup {p} : p \in S}

Considered(remote, rules) == {p \in Keys(remote) : ~ is_protected_as_spelled(remote, rules, p)}

\* The reports that block a class: spellings that a case-insensitive client
\* could not hold side by side, or a rename that needs deletion.
ReportsOf(ls, rs, l1, r1, l2, r2, delete) ==
    LET kept == IF ls = {} THEN {} ELSE {r \in {r1, r2} : nfc(r) = nfc(l1)}
    IN IF Cardinality(ls) > 1
       THEN IF names_differ(l1, l2)
            THEN {Skip(l1, "local-case-collision"), Skip(l2, "local-case-collision")} ELSE {}
       ELSE IF Cardinality(rs) > 1
       THEN IF names_differ(r1, r2) /\ kept = {}
            THEN {Skip(r, "remote-case-collision") : r \in {r1, r2} \cup ls} ELSE {}
       ELSE IF ls # {} /\ rs # {} /\ nfc(l1) # nfc(r1) /\ names_differ(l1, r1) /\ ~ delete
       THEN {Skip(l1, "case-rename-needs-delete")} ELSE {}

ClassReports(ls, rs, delete) ==
    ReportsOf(ls, rs, First(ls), First(rs), First(ls \ {First(ls)}), First(rs \ {First(rs)}), delete)

LeftoversOf(ls, rs, l1, r1, r2) ==
    LET kept == {r \in {r1, r2} : nfc(r) = nfc(l1)}
    IN IF Cardinality(ls) = 1 /\ Cardinality(rs) > 1 /\ names_differ(r1, r2) /\ kept # {}
       THEN LET k == First(kept) IN {[old |-> CHOOSE r \in {r1, r2} : r # k, kept |-> k]}
       ELSE {}

ClassLeftovers(ls, rs) == LeftoversOf(ls, rs, First(ls), First(rs), First(rs \ {First(rs)}))

\* A rename of the remote entry to the source's case.
ClassRenames(local, remote, ls, rs, delete) ==
    LET l == First(ls) r == First(rs)
        kindIn(inv, p) == IF p \in Keys(inv) THEN inv.entries[p].kind ELSE "none"
    IN IF /\ Cardinality(ls) = 1 /\ Cardinality(rs) = 1 /\ delete
          /\ nfc(l) # nfc(r) /\ names_differ(l, r) /\ kindIn(local, l) = kindIn(remote, r)
       THEN {[relative |-> l, from |-> r]} ELSE {}

SpellingsOf(lp, rp, local, remote, delete, refused) ==
    LET folds == {portable_fold(p) : p \in lp \cup rp}
        L(f) == {p \in lp : portable_fold(p) = f}
        R(f) == {p \in rp : portable_fold(p) = f}
        given == {portable_fold(s.relative) : s \in local.skipped \cup refused}
        loud == {f \in folds : ClassReports(L(f), R(f), delete) # {}}
        first == {f \in loud : ~ \E g \in given \cup (loud \ {f}) : AtOrUnder(f, g)}
        blocked == given \cup first
        free == {f \in folds : ~ \E g \in blocked : AtOrUnder(f, g)}
    IN [shield    |-> blocked,
        skipped   |-> refused \cup UNION {ClassReports(L(f), R(f), delete) : f \in first},
        leftovers |-> UNION {ClassLeftovers(L(f), R(f)) : f \in free},
        renames   |-> UNION {ClassRenames(local, remote, L(f), R(f), delete) : f \in free}]

resolve_spellings(local, remote, rules, delete, refused) ==
    SpellingsOf(Prefixes(Keys(local)), Prefixes(Considered(remote, rules)), local, remote, delete, refused)

\* An entry paired with a remote name that is excluded or DSM's own.
shield_paired_exclusions(local, rules, res) ==
    LET hit == {p \in Keys(local) :
                  /\ ~ covers(res.shield, p)
                  /\ LET r == remote_relative(res.pairs, p)
                     IN r # p /\ (is_dsm_managed(r) \/ is_ignored(rules, r))}
    IN [res EXCEPT !.shield = @ \cup {portable_fold(p) : p \in hit}]

remote_subtree(remote, p) == {q \in Keys(remote) : AtOrUnder(q, p)}

\* An entry whose place is held by a mount, a link or the other kind of
\* entry, which the run cannot replace.
TypeConflict(local, remote, rules, delete, res, p) ==
    LET r == remote_relative(res.pairs, p)
        kept(q) == is_protected(remote, rules, res.pairs, q) \/ covers(res.shield, q)
    IN IF r \notin Keys(remote) THEN {}
       ELSE LET e == remote.entries[r]
            IN CASE e.mount = "link"       -> {"remote-link"}
                 [] e.mount = "unlistable" -> {"remote-unreadable"}
                 [] e.mount = "mount"      -> {"type-conflict"}
                 [] e.mount = "none" /\ e.kind # local.entries[p].kind
                      /\ (~ delete \/ (e.kind = "dir" /\ \E q \in remote_subtree(remote, r) : kept(q)))
                                           -> {"type-conflict"}
                 [] OTHER -> {}

\* Parents are met before their children, so only a topmost conflict is
\* reported.
ShieldTopmost(res, conflict) ==
    LET hit == {p \in DOMAIN conflict : conflict[p] # {}}
        top == {p \in hit : \A q \in hit : ~ Under(portable_fold(p), portable_fold(q))}
    IN [res EXCEPT !.shield = @ \cup {portable_fold(p) : p \in top},
                   !.skipped = @ \cup UNION {{Skip(p, why) : why \in conflict[p]} : p \in top}]

shield_type_conflicts(local, remote, rules, delete, res) ==
    ShieldTopmost(res, [p \in {k \in Keys(local) : ~ covers(res.shield, k)} |->
                            TypeConflict(local, remote, rules, delete, res, p)])

\* Which remote name each entry goes by: the one it is renamed from, or its
\* own under some composition.
Paired(local, remote, spelled) ==
    [shield |-> spelled.shield, skipped |-> spelled.skipped,
     leftovers |-> spelled.leftovers, renames |-> spelled.renames,
     pairs |-> {pr \in Correspondence(local, remote) : \A n \in spelled.renames : n.relative # pr[1]}
               \cup {<<n.relative, n.from>> : n \in spelled.renames}]

resolve(local, remote, rules, delete, refused) ==
    shield_type_conflicts(local, remote, rules, delete,
        shield_paired_exclusions(local, rules,
            Paired(local, remote, resolve_spellings(local, remote, rules, delete, refused))))

(***************************************************************************)
(* Comparing two files.                                                    *)
(***************************************************************************)
local_mtime_seconds(e) == e.ms \div 1000
mtimes_agree(ms, seconds) == seconds \in {ms \div 1000, (ms + 500) \div 1000}

\* Mutant: a content comparison that trusts equal size and time.
compare_files_by_time(l, r, mode) ==
    CASE mode = "force" -> {"forced"}
      [] l.size # r.size -> {"size-differs"}
      [] OTHER -> IF mode = "size" \/ mtimes_agree(l.ms, r.mtime) THEN {} ELSE {"mtime-differs"}

\* {} when the two are taken for equal, else the reason to upload.  Equal
\* MD5 prints are enough; two full prints are compared in full.
compare_files(l, r, mode) ==
    LET late == ~ mtimes_agree(l.ms, r.mtime)
    IN CASE mode = "force"    -> {"forced"}
         [] mode # "force" /\ l.size # r.size -> {"size-differs"}
         [] mode = "size" /\ l.size = r.size  -> {}
         [] mode \in {"metadata", "content"} /\ l.size = r.size
               /\ (mode = "metadata" \/ l.size = 0) -> IF late THEN {"mtime-differs"} ELSE {}
         [] OTHER ->
              IF l.print # "none" /\ r.print # "none"
              THEN IF l.body = r.body THEN {} ELSE {"content-differs"}
              ELSE IF late THEN {"mtime-differs"}
              ELSE IF l.print = "none" THEN {"local-digest-unavailable"} ELSE {"remote-digest-unavailable"}

(***************************************************************************)
(* Which remote files a content run must have fingerprinted.               *)
(***************************************************************************)
LocalOf(local, pairs, p) == {l \in Keys(local) : l = local_relative(pairs, p)}
RemoteOf(remote, pairs, p) == {r \in Keys(remote) : r = remote_relative(pairs, p)}

has_local_file_ancestor(local, p) ==
    \E q \in Ancestors(p) : q \in Keys(local) /\ IsFile(local.entries[q])

\* A folder whose listing came back short keeps its own deletions, those of
\* its entries and those of its ancestors from being believed.
listing_withholds(p, incomplete) ==
    \E d \in incomplete : Parent(p) = d \/ p = d \/ Under(d, p)

\* A remote file with bytes that the run could delete or copy from.
Eligible(remote, rules, res, p) ==
    /\ IsFile(remote.entries[p]) /\ remote.entries[p].size > 0
    /\ ~ is_protected(remote, rules, res.pairs, p)
    /\ ~ covers(res.shield, p) /\ ~ is_leftover(res, p)

deletion_guard_candidates(local, remote, rules, res, incomplete) ==
    {p \in Keys(remote) :
        /\ Eligible(remote, rules, res, p)
        /\ \A l \in LocalOf(local, res.pairs, p) : ~ IsFile(local.entries[l])
        /\ ~ listing_withholds(p, incomplete) \/ has_local_file_ancestor(local, p)}

\* What a short listing keeps from being deleted, by the pairing `res`.
GuardsLost(local, remote, rules, res, incomplete) ==
    deletion_guard_candidates(local, remote, rules, res, {})
    \ deletion_guard_candidates(local, remote, rules, res, incomplete)

deletions_withheld_by_listing(local, remote, rules, incomplete) ==
    IF incomplete = {} THEN {}
    ELSE GuardsLost(local, remote, rules, resolve(local, remote, rules, TRUE, {}), incomplete)

comparison_candidates(local, remote, rules, res) ==
    {r \in Keys(remote) :
        /\ IsFile(remote.entries[r])
        /\ ~ is_excluded_from_comparison(remote, rules, res.pairs, r)
        /\ \E l \in files(local) :
              /\ local.entries[l].size > 0 /\ local.entries[l].size = remote.entries[r].size
              /\ ~ covers(res.shield, l) /\ remote_relative(res.pairs, l) = r}

Name(p) == p[Len(p)]

\* A remote file the source lacks, with the size, name and time of a source
\* file the remote lacks under another parent: a move to copy on the server.
MoveCandidate(local, remote, res, p) ==
    LET e == remote.entries[p]
    IN /\ LocalOf(local, res.pairs, p) = {}
       /\ ~ has_local_file_ancestor(local, p)
       /\ \E l \in files(local) :
             /\ local.entries[l].size = e.size /\ Name(l) = Name(p)
             /\ local_mtime_seconds(local.entries[l]) = e.mtime /\ Parent(l) # Parent(p)
             /\ RemoteOf(remote, res.pairs, l) = {} /\ ~ covers(res.shield, l)

strong_candidates(local, remote, rules, server_copy, delete, incomplete, res) ==
    (IF delete THEN deletion_guard_candidates(local, remote, rules, res, incomplete) ELSE {})
    \cup {p \in Keys(remote) :
            server_copy /\ Eligible(remote, rules, res, p) /\ MoveCandidate(local, remote, res, p)}

DigestsBy(local, remote, rules, server_copy, delete, incomplete, res) ==
    [comparison |-> comparison_candidates(local, remote, rules, res),
     strong     |-> strong_candidates(local, remote, rules, server_copy, delete, incomplete, res)]

select_plan_digests(local, remote, rules, server_copy, delete, incomplete) ==
    DigestsBy(local, remote, rules, server_copy, delete, incomplete, resolve(local, remote, rules, delete, {}))

(***************************************************************************)
(* The plan.                                                               *)
(***************************************************************************)
PlanError(why) == [error |-> why, pre_deletes |-> {}, creates |-> {}, copies |-> {}, uploads |-> {},
                   post_deletes |-> {}, renames |-> {}, skipped |-> {}]

\* What the executor must still find before it deletes: the entry as listed,
\* its time too unless it is a folder with something in it.
deletion_snapshot(remote, p, mode) ==
    LET e == remote.entries[p]
    IN [kind |-> e.kind, size |-> e.size, mtime |-> e.mtime, body |-> e.body,
        require_mtime |-> ~ (e.kind = "dir" /\ \E q \in Keys(remote) : Under(q, p)),
        proven |-> ~ (mode \in {"content", "force"} /\ IsFile(e) /\ e.size > 0) \/ e.print = "full"]

\* A delete of a copy's source waits for the copy: it is guarded by it.
Delete(remote, res, p, mode, conflict, copies) ==
    [relative |-> p, local_relative |-> local_relative(res.pairs, p), conflict |-> conflict,
     guard |-> {c.relative : c \in {d \in copies : d.from = p}},
     snapshot |-> deletion_snapshot(remote, p, mode)]

\* What one source entry calls for at its remote place.
EntryActions(local, remote, res, opts, p) ==
    LET e == local.entries[p]
        r == remote_relative(res.pairs, p)
        upload(why) == [create |-> {}, kill |-> {}, upload |-> {[relative |-> p, to |-> r, reason |-> w,
                          local |-> e, over |-> r \in Keys(remote) /\ IsFile(remote.entries[r])] : w \in why}]
        create(why) == [upload |-> {}, kill |-> {}, create |-> {[relative |-> p, to |-> r, reason |-> why]}]
    IN IF r \notin Keys(remote)
       THEN IF IsFile(e) THEN upload({"missing-remote"}) ELSE create("missing-remote")
       ELSE CASE IsFile(e) /\ IsFile(remote.entries[r]) -> upload(compare_files(e, remote.entries[r], opts.compare))
              [] ~ IsFile(e) /\ ~ IsFile(remote.entries[r]) -> upload({})
              [] ~ IsFile(e) /\ IsFile(remote.entries[r]) -> [create("type-replaced") EXCEPT !.kill = {r}]
              [] IsFile(e) /\ ~ IsFile(remote.entries[r]) ->
                    [upload({"type-replaced"}) EXCEPT !.kill = remote_subtree(remote, r)]

\* One upload and one remote file with the same proven content, time and
\* name, each alone in that, become a copy on the server.
replace_uploads_with_server_copies(local, remote, rules, opts, res, uploads, killed) ==
    LET same(u, r) == /\ u.local.size = remote.entries[r].size /\ u.local.body = remote.entries[r].body
                      /\ local_mtime_seconds(u.local) = remote.entries[r].mtime
        like(u, v) == /\ u.local.size = v.local.size /\ u.local.body = v.local.body
                      /\ local_mtime_seconds(u.local) = local_mtime_seconds(v.local)
        fresh == {u \in uploads : u.local.size > 0 /\ u.to \notin Keys(remote)}
        sources == {r \in Keys(remote) : Eligible(remote, rules, res, r) /\ r \notin killed
                      /\ LocalOf(local, res.pairs, r) = {} /\ remote.entries[r].print = "full"}
    IN IF ~ opts.server_copy THEN {}
       ELSE {[from |-> r, relative |-> u.relative, to |-> u.to, local |-> u.local, reason |-> u.reason] :
              <<u, r>> \in {pr \in fresh \X sources :
                 /\ same(pr[1], pr[2])
                 /\ {v \in fresh : like(v, pr[1])} = {pr[1]}
                 /\ {s \in sources : same(pr[1], s)} = {pr[2]}
                 /\ Parent(pr[1].to) # Parent(pr[2]) /\ Name(pr[1].to) = Name(pr[2])}}

\* A rename whose folder holds something the run does not move is left.
MovableRename(remote, rules, res, n) ==
    \A q \in remote_subtree(remote, n.from) :
        ~ is_protected(remote, rules, res.pairs, q) /\ ~ covers(res.shield, q)

\* Folders that hold a protected or shielded entry and so stay.
ProtectedDirs(remote, rules, res) ==
    UNION {Ancestors(q) : q \in {r \in Keys(remote) :
                is_protected(remote, rules, res.pairs, r) \/ covers(res.shield, r)}}

\* An entry the source does not account for and the rules do not keep.
Unclaimed(local, remote, rules, opts, res, killed, p) ==
    /\ LocalOf(local, res.pairs, p) = {} /\ p \notin killed
    /\ matches(opts.scope, p)
    /\ ~ is_protected(remote, rules, res.pairs, p)
    /\ ~ covers(res.shield, p) /\ ~ is_leftover(res, p)

paths_the_destination_refuses(local, tooLong) ==
    LET bad == {p \in Keys(local) : p \in tooLong}
    IN {Skip(p, "unsupported-entry") : p \in {q \in bad : \A o \in bad : ~ Under(q, o)}}

delete_count(plan) == Cardinality(plan.pre_deletes) + Cardinality(plan.post_deletes)

\* The limits that refuse a whole plan.
DeletionLimit(local, opts, plan) ==
    CASE opts.delete /\ files(local) = {} /\ delete_count(plan) > 0 /\ ~ opts.allow_empty_source -> "empty-source"
      [] delete_count(plan) > opts.max_delete -> "delete-limit"
      [] OTHER -> "none"

Limited(local, opts, plan) ==
    IF DeletionLimit(local, opts, plan) = "none" THEN plan ELSE PlanError(DeletionLimit(local, opts, plan))

\* The plan of what each `active` entry calls for and what nothing accounts
\* for, under the resolved spellings and conflicts `res`.
PlanOf(acts, local, remote, rules, opts, res) ==
    LET active  == DOMAIN acts
        killed  == UNION {acts[p].kill : p \in active}
        wanted  == UNION {acts[p].upload : p \in active}
        copies  == IF opts.compare # "content" THEN {}
                   ELSE replace_uploads_with_server_copies(local, remote, rules, opts, res, wanted, killed)
        inScope == {n \in res.renames : matches(opts.scope, n.relative)}
        renames == {n \in inScope : MovableRename(remote, rules, res, n)}
        loose   == IF ~ opts.delete THEN {}
                   ELSE {p \in Keys(remote) : Unclaimed(local, remote, rules, opts, res, killed, p)}
        post    == {p \in loose : IsFile(remote.entries[p]) \/ p \notin ProtectedDirs(remote, rules, res)}
        kept    == {p \in loose \ post :
                      \E q \in Keys(remote) : Under(q, p) /\ is_protected(remote, rules, res.pairs, q)}
        plan    == [error        |-> "none",
                    pre_deletes  |-> {Delete(remote, res, p, opts.compare, TRUE, {}) : p \in killed},
                    creates      |-> (IF remote.root THEN {}
                                      ELSE {[relative |-> <<>>, to |-> <<>>, reason |-> "missing-remote"]})
                                     \cup UNION {acts[p].create : p \in active},
                    copies       |-> copies,
                    uploads      |-> {u \in wanted : \A c \in copies : c.relative # u.relative},
                    post_deletes |-> {Delete(remote, res, p, opts.compare, FALSE, copies) : p \in post},
                    renames      |-> renames,
                    skipped      |-> res.skipped \cup local.skipped
                                     \cup {Skip(n.relative, "case-rename-pending") : n \in inScope \ renames}
                                     \cup {Skip(l.old, "case-rename-pending") : l \in {x \in res.leftovers : matches(opts.scope, x.old)}}
                                     \cup {Skip(p, "protected-descendant") : p \in {k \in kept : \A j \in kept : ~ Under(k, j)}}]
    IN CASE ~ remote.root /\ opts.root_is_share -> PlanError("share-not-writable")
         [] \E m \in Keys(remote) : remote.entries[m].mount # "none"
               /\ \E p \in active : Under(remote_relative(res.pairs, p), m) -> PlanError("protected-conflict")
         [] \E p \in killed : ~ deletion_snapshot(remote, p, opts.compare).proven -> PlanError("unproven")
         [] \E p \in post : ~ deletion_snapshot(remote, p, opts.compare).proven -> PlanError("unproven")
         [] OTHER -> Limited(local, opts, plan)

PlanBy(local, remote, rules, opts, res) ==
    PlanOf([p \in {q \in Keys(local) : ~ covers(res.shield, q)} |-> EntryActions(local, remote, res, opts, p)],
           local, remote, rules, opts, res)

build_plan(local, remote, rules, opts, tooLong) ==
    PlanBy(local, remote, rules, opts,
           resolve(local, remote, rules, opts.delete, paths_the_destination_refuses(local, tooLong)))

PlanEmpty(plan) ==
    /\ plan.pre_deletes = {} /\ plan.creates = {} /\ plan.copies = {}
    /\ plan.uploads = {} /\ plan.post_deletes = {} /\ plan.renames = {}

(***************************************************************************)
(* What `status` says of two inventories: one row per entry, a page of the *)
(* rows asked for, and totals over all of them.  A query is                *)
(*   [scope, compare, states, names, excluded, limit, cursor, whole]       *)
(* where `names` are the file names the filter matches and `whole` says    *)
(* which of the two walks finished.                                        *)
(***************************************************************************)

SR == INSTANCE SequencesExt

CONSTANT PageMax   \* STATUS_PAGE_SIZE_MAX

ASSUME PageAssumption == PageMax \in Nat \ {0}

Attention == {"type-conflict", "missing-remote", "differs", "remote-only"}

is_beneath_any(p, folders) == \E q \in Ancestors(p) : q \in folders
Mounts(remote) == {p \in Keys(remote) : remote.entries[p].mount # "none"}

\* Mutant: a row's remote side is looked up by its own bytes.
RowRemote_as_spelled(local, remote, pairs, p) == {p} \cap Keys(remote)

\* A local entry is looked up under its remote spelling.
RowRemote(local, remote, pairs, p) ==
    {r \in Keys(remote) : r = IF p \in Keys(local) THEN remote_relative(pairs, p) ELSE p}

ExclusionCause(remote, r) ==
    IF remote.entries[r].mount # "none" THEN "mount-boundary" ELSE IF is_dsm_managed(r) THEN "dsm-managed" ELSE "ignore-rule"

\* Two sides, or one: an entry missing from a walk that stopped early is not
\* called missing.
PairState(local, remote, l, r, q) ==
    CASE l # {} /\ r # {} ->
           LET a == local.entries[CHOOSE x \in l : TRUE] b == remote.entries[CHOOSE x \in r : TRUE] IN
           IF a.kind # b.kind THEN "type-conflict"
           ELSE IF IsFile(a) /\ compare_files(a, b, q.compare) # {} THEN "differs" ELSE "in-sync"
      [] l # {} /\ r = {} -> IF q.whole.remote THEN "missing-remote" ELSE "not-compared"
      [] l = {} /\ r # {} -> IF q.whole.local THEN "remote-only" ELSE "not-compared"
      [] OTHER -> "excluded"

classify(local, remote, rules, pairs, q, p) ==
    LET l == {p} \cap Keys(local)
        r == RowRemote(local, remote, pairs, p)
        barred == {x \in r : is_excluded_from_comparison(remote, rules, pairs, x)}
        kind == IF l # {} THEN local.entries[p].kind ELSE IF r # {} THEN remote.entries[CHOOSE x \in r : TRUE].kind ELSE "dir"
        state == IF is_beneath_any(remote_relative(pairs, p), Mounts(remote)) \/ barred # {} THEN "excluded"
                 ELSE PairState(local, remote, l, r, q)
    IN [relative |-> p, kind |-> kind, state |-> state, size |-> IF l # {} THEN local.entries[p].size ELSE 0,
        cause |-> IF state # "excluded" THEN "none"
                  ELSE IF is_beneath_any(remote_relative(pairs, p), Mounts(remote)) THEN "mount-boundary"
                  ELSE IF barred # {} THEN ExclusionCause(remote, CHOOSE x \in barred : TRUE)
                  ELSE IF is_dsm_managed(p) THEN "dsm-managed" ELSE "ignore-rule"]

\* Every entry of either side once: a pair under its local spelling.
StatusKeys(local, remote, excluded, pairs, q) ==
    {p \in Keys(local) \cup {r \in Keys(remote) : \A t \in pairs : t[2] # r} \cup (IF q.excluded THEN excluded ELSE {}) : matches(q.scope, p)}

StatusRows(local, remote, excluded, rules, q) ==
    LET pairs == Correspondence(local, remote)
    IN {classify(local, remote, rules, pairs, q, p) : p \in StatusKeys(local, remote, excluded, pairs, q)}

SumSizes(rows) == SR!FoldSet(LAMBDA row, n : n + row.size, 0, rows)
StatsOf(rows, q) ==
    LET In(states, kinds) == {row \in rows : row.state \in states /\ row.kind \in kinds}
        Both == {"file", "dir"}
    IN [in_sync |-> Cardinality(In({"in-sync"}, {"file"})), in_sync_bytes |-> SumSizes(In({"in-sync"}, {"file"})),
        differs |-> Cardinality(In({"differs"}, Both)), missing |-> Cardinality(In({"missing-remote"}, {"file"})),
        remote_only |-> Cardinality(In({"remote-only"}, Both)), conflicts |-> Cardinality(In({"type-conflict"}, Both)),
        excluded |-> Cardinality(In({"excluded"}, Both)), not_compared |-> Cardinality(In({"not-compared"}, Both)),
        directories |-> Cardinality({row \in rows : row.kind = "dir" /\ row.state # "excluded"}),
        transfer_bytes |-> SumSizes(In({"differs", "type-conflict"}, Both) \cup In({"missing-remote"}, {"file"})),
        attention |-> Cardinality(In(Attention, Both)), total |-> Cardinality(rows), complete |-> q.whole.local /\ q.whole.remote]

\* The page after the cursor of the rows the query admits; the totals are of
\* every row.
PageOf(rows, q) ==
    LET limit == IF q.limit < 1 THEN 1 ELSE IF q.limit > PageMax THEN PageMax ELSE q.limit
        admitted == {row \in rows : /\ row.state \in q.states
                                    /\ q.names # {} => row.relative[Len(row.relative)] \in q.names
                                    /\ \A c \in q.cursor : Before(c, row.relative)}
        sorted == SR!SetToSortSeq(admitted, LAMBDA a, b : Before(a.relative, b.relative))
        shown == SubSeq(sorted, 1, IF Len(sorted) < limit THEN Len(sorted) ELSE limit)
    IN [entries |-> shown, stats |-> StatsOf(rows, q), truncated |-> Len(sorted) > limit,
        next |-> IF Len(sorted) > limit THEN {shown[limit].relative} ELSE {}]

build_status_page(local, remote, excluded, rules, q) == PageOf(StatusRows(local, remote, excluded, rules, q), q)

(***************************************************************************)
(* What is taken out of a plan before it is carried out, and how the       *)
(* finished run is judged against a second plan.  A deferral is            *)
(* [relative, reason]; a set of them stands for DeferralIndex.             *)
(***************************************************************************)

CONSTANTS Comma    \* [names with a comma -> the part before the first one]

Deferral(p, why) == [relative |-> p, reason |-> why]

\* Deferrals that another run would meet again.
Lasting == {"unrepresentable-name", "unsupported-local-entry", "listing-incomplete", "remote-unreadable",
            "local-permission-denied", "delete-not-permitted", "remote-refused", "remote-skipped",
            "unsupported-entry", "case-rename-pending"}

Transient == {"source-changed", "source-vanished", "source-unreadable", "remote-digest-unavailable",
              "remote-changed", "server-copy-failed", "delete-failed"}

is_lasting(why) == why \in Lasting
IsDeferral(skip) == skip.reason \in Lasting \cup Transient
skip_is_transient_deferral(skip) == skip.reason \in Transient

for_local_error(disk, p) ==
    CASE p \notin DOMAIN disk -> "source-vanished"
      [] p \in DOMAIN disk /\ disk[p].kind = "unreadable" -> "local-permission-denied"
      [] OTHER -> "source-changed"

(***************************************************************************)
(* DeferralIndex.                                                          *)
(***************************************************************************)
covering(defs, p) == \E d \in defs : AtOrUnder(p, d.relative)
has_descendant(defs, p) == \E d \in defs : Under(d.relative, p)
relates_to(defs, p) == covering(defs, p) \/ has_descendant(defs, p)

spelling_related(defs, p) ==
    \E d \in defs : LET f == portable_fold(d.relative) g == portable_fold(p)
                    IN AtOrUnder(g, f) \/ Under(f, g)

(***************************************************************************)
(* Digests.  `nas` is the destination as it is now: a fingerprint reads    *)
(* the file's present body.  `broken` are files whose digest fails.        *)
(***************************************************************************)
WithholdAll(local, S, why) ==
    [local EXCEPT !.entries = [q \in {r \in DOMAIN @ : \A p \in S : ~ AtOrUnder(r, p)} |-> @[q]],
                  !.skipped = @ \cup {Skip(p, why[p]) : p \in S}]

Digested(remote, nas, S, print) ==
    [remote EXCEPT !.entries = [p \in DOMAIN @ |->
        IF p \in S THEN [@[p] EXCEPT !.print = print[p], !.body = nas.entries[p].body] ELSE @[p]]]

Undigestible(nas, broken, S) == {p \in S : p \in broken \/ p \notin DOMAIN nas.entries \/ ~ IsFile(nas.entries[p])}

\* The digests of the files `picked`: local ones for a comparison, remote
\* ones for all.
PickedDigests(disk, nas, local, remote, broken, picked) ==
    LET hashed == populate_content_md5_selective_deferring(disk, local, picked.comparison)
        wanted == (picked.comparison \cup picked.strong) \ hashed.failed
        failed == Undigestible(nas, broken, wanted)
        kept   == WithholdAll([local EXCEPT !.entries = hashed.entries], hashed.failed,
                              [p \in hashed.failed |-> for_local_error(disk, p)])
    IN [local    |-> WithholdAll(kept, failed, [p \in failed |-> "remote-digest-unavailable"]),
        remote   |-> Digested(remote, nas, wanted \ failed,
                              [p \in wanted |-> IF p \in picked.strong THEN "full" ELSE "md5"]),
        deferred |-> {Deferral(p, for_local_error(disk, p)) : p \in hashed.failed}
                     \cup {Deferral(p, "remote-digest-unavailable") : p \in failed}]

ContentDigests(disk, nas, local, remote, rules, opts, incomplete, broken) ==
    PickedDigests(disk, nas, local, remote, broken,
                  select_plan_digests(local, remote, rules, opts.server_copy, opts.delete, incomplete))

\* Forced writes compare nothing: only what may be deleted is digested.
GuardsDigested(nas, local, remote, broken, picked) ==
    LET failed == Undigestible(nas, broken, picked)
    IN [local    |-> WithholdAll(local, failed, [p \in failed |-> "remote-digest-unavailable"]),
        remote   |-> Digested(remote, nas, picked \ failed, [p \in picked |-> "full"]),
        deferred |-> {Deferral(p, "remote-digest-unavailable") : p \in failed}]

GuardDigests(nas, local, remote, rules, incomplete, broken) ==
    GuardsDigested(nas, local, remote, broken,
        deletion_guard_candidates(local, remote, rules, resolve(local, remote, rules, TRUE, {}), incomplete))

\* The digests the comparison calls for, once `short` is withheld.
DigestsWithout(short, disk, nas, local, remote, rules, opts, incomplete, broken) ==
    LET kept == WithholdAll(local, short, [p \in short |-> "listing-incomplete"])
        done == CASE opts.compare = "content" ->
                       ContentDigests(disk, nas, kept, remote, rules, opts, incomplete, broken)
                  [] opts.compare = "force" /\ opts.delete ->
                       GuardDigests(nas, kept, remote, rules, incomplete, broken)
                  [] OTHER -> [local |-> kept, remote |-> remote, deferred |-> {}]
    IN [done EXCEPT !.deferred = @ \cup {Deferral(p, "listing-incomplete") : p \in short}]

populate_plan_digests_with_listings(disk, nas, local, remote, rules, opts, incomplete, broken) ==
    DigestsWithout(IF opts.delete /\ opts.compare \in {"content", "force"}
                   THEN deletions_withheld_by_listing(local, remote, rules, incomplete) ELSE {},
                   disk, nas, local, remote, rules, opts, incomplete, broken)

(***************************************************************************)
(* Withholding.  Each operator answers [plan, deferred].                   *)
(***************************************************************************)
vanished_remote_folder_deferrals(vanished) == {Deferral(p, "remote-changed") : p \in vanished}

\* Deletions planned on the strength of a short listing.
withhold_deletions_in_incomplete_listings(plan, incomplete) ==
    LET hit == {a \in plan.post_deletes : listing_withholds(a.relative, incomplete)}
    IN [plan     |-> [plan EXCEPT !.post_deletes = @ \ hit],
        deferred |-> {Deferral(a.relative, "listing-incomplete") : a \in hit}]

\* A delete held back for a type conflict takes with it all that was to be
\* written in its place.
WithoutReplacements(plan, held) ==
    LET replaced(p) == \E a \in held : AtOrUnder(p, a.relative)
    IN [plan EXCEPT !.uploads = {a \in @ : ~ replaced(a.relative)},
                    !.copies = {a \in @ : ~ replaced(a.relative)},
                    !.creates = {a \in @ : ~ replaced(a.relative)},
                    !.pre_deletes = {a \in @ : ~ replaced(a.relative)}]

\* Entries the listing would not follow keep every folder above them.
protect_skipped_remote_entries(plan, skipped) ==
    LET named(s) == s.unlistable /\ \E k \in plan.skipped : k.relative = s.relative /\ k.reason = "remote-unreadable"
        kept == UNION {Ancestors(s.relative) : s \in skipped}
        hit(S) == {a \in S : a.relative \in kept}
    IN [plan     |-> [WithoutReplacements(plan, hit(plan.pre_deletes)) EXCEPT
                        !.post_deletes = @ \ hit(plan.post_deletes)],
        deferred |-> {Deferral(s.relative, "remote-skipped") : s \in {t \in skipped : ~ t.excluded /\ ~ named(t)}}
                     \cup {Deferral(a.relative, "remote-skipped") : a \in hit(plan.pre_deletes \cup plan.post_deletes)}]

\* DSM may read a comma in a path list as the end of the path.
comma_split_prefix(p) ==
    LET at == {i \in DOMAIN p : p[i] \in DOMAIN Comma}
        i == CHOOSE j \in at : \A k \in at : j <= k
    IN IF at = {} THEN {} ELSE {Append(SubSeq(p, 1, i - 1), Comma[p[i]])}

withhold_comma_ambiguous_mutations(plan, remote, nas) ==
    LET ambiguous(p) == \E q \in comma_split_prefix(p) : q \in Keys(remote) \cup DOMAIN nas.entries
        deletes == plan.pre_deletes \cup plan.post_deletes
        risky == {a \in deletes : ambiguous(a.relative)}
        above == {a \in deletes \ risky : \E b \in risky : Under(b.relative, a.relative)}
        held == risky \cup above
        turned == {c \in plan.copies : ambiguous(c.from)}
        pruned == WithoutReplacements(plan, plan.pre_deletes \cap held)
    IN [plan |-> [pruned EXCEPT
                    !.post_deletes = @ \ held,
                    !.renames = {n \in @ : ~ ambiguous(n.from)},
                    !.copies = @ \ turned,
                    !.uploads = @ \cup {[relative |-> c.relative, to |-> c.to, reason |-> "missing-remote",
                                         local |-> c.local, over |-> FALSE] : c \in pruned.copies \cap turned}],
        deferred |-> {Deferral(a.relative, "remote-skipped") : a \in held}
                     \cup {Deferral(n.relative, "remote-skipped") : n \in {m \in plan.renames : ambiguous(m.from)}}]

deferrals_in_plan_skips(plan, defs) ==
    {Deferral(s.relative, s.reason) : s \in {k \in plan.skipped :
        IsDeferral(k) /\ ~ \E d \in defs : d.relative = k.relative}}

\* Writes beneath a deferral go; deletes of anything spelled like it too.
remove_deferred_from_plan(plan, defs) ==
    LET cause(a) == {d \in defs : spelling_related({d}, a.relative) \/ \E p \in a.guard : covering({d}, p)}
        held == {a \in plan.post_deletes : cause(a) # {}}
    IN [plan     |-> [plan EXCEPT !.uploads = {a \in @ : ~ covering(defs, a.relative)},
                                  !.copies = {a \in @ : ~ covering(defs, a.relative)},
                                  !.pre_deletes = {a \in @ : ~ covering(defs, a.relative)},
                                  !.post_deletes = @ \ held],
        deferred |-> {Deferral(a.relative, (CHOOSE d \in cause(a) : TRUE).reason) : a \in held}]

promote_upload_fingerprints_deferring(disk, plan) ==
    LET full(u) == promote_to_full_fingerprint(disk, u.relative, u.local)
        failed == {u \in plan.uploads : full(u) = {}}
        defs == {Deferral(u.relative, for_local_error(disk, u.relative)) : u \in failed}
        out == remove_deferred_from_plan(
                 [plan EXCEPT !.uploads = {IF u \in failed THEN u
                                           ELSE [u EXCEPT !.local = CHOOSE e \in full(u) : TRUE] : u \in @}], defs)
    IN IF defs = {} THEN [plan |-> out.plan, deferred |-> {}]
       ELSE [out EXCEPT !.deferred = @ \cup defs]

record_deferrals_in_plan(plan, defs) ==
    [plan EXCEPT !.skipped = @ \cup {Skip(d.relative, d.reason) :
                    d \in {e \in defs : ~ \E s \in plan.skipped : s.relative = e.relative}}]

\* A scope that the destination spells in another case is set aside before
\* it is created a second time.
withhold_scope_spelling_conflicts(scope, local, remote, nas, complete) ==
    LET missing == {i \in DOMAIN scope : SubSeq(scope, 1, i) \notin Keys(remote)}
        i == CHOOSE j \in missing : \A k \in missing : j <= k
        p == SubSeq(scope, 1, i)
        others == {q \in DOMAIN nas.entries : Parent(q) = Parent(p) /\ q # p /\ portable_fold(q) = portable_fold(p)}
    IN IF scope = <<>> \/ ~ remote.root \/ missing = {} THEN local
       ELSE IF others # {} THEN withhold(local, p, "remote-case-collision")
       ELSE IF ~ complete THEN withhold(local, p, "listing-incomplete") ELSE local

\* An account refused most folders, or real paths that point elsewhere
\* throughout, is a broken set-up and not a thing to work around.
check_link_boundaries(remote) ==
    LET of(kind, mounts) == {p \in Keys(remote) : remote.entries[p].kind = kind /\ remote.entries[p].mount \in mounts}
        most(part, whole) == Cardinality(part) >= 3 /\ 2 * Cardinality(part) > Cardinality(whole)
        all == {"none", "mount", "link", "unlistable"}
    IN /\ ~ most(of("dir", {"unlistable"}), of("dir", all))
       /\ \A kind \in {"dir", "file"} : ~ most(of(kind, {"link"}), of(kind, all))

(***************************************************************************)
(* Judging the run.                                                        *)
(***************************************************************************)
reconciliation_options(opts, mode) ==
    [opts EXCEPT !.allow_empty_source = TRUE, !.max_delete = 1000, !.compare = mode]

ExecutedWrites(plan) ==
    LET exact == {a.relative : a \in plan.uploads} \cup {a.relative : a \in plan.copies}
        made == exact \cup {a.relative : a \in plan.creates}
    IN [exact       |-> exact,
        at_or_above |-> made \cup UNION {Ancestors(p) : p \in made},
        deleted     |-> {a.relative : a \in plan.pre_deletes \cup plan.post_deletes}]

modified_after(ms, started) == ms > started * 1000

\* What the second plan still wants done, and whether the run may say so is
\* because something changed while it worked: TRUE excuses the action.
UploadExcused(u, written, started, defs) ==
    \/ relates_to(defs, u.relative)
    \/ u.reason = "mtime-differs" /\ u.relative \in written.exact
    \/ modified_after(u.local.ms, started)

DeleteExcused(a, written, started, defs) ==
    \/ relates_to(defs, a.relative)
    \/ /\ a.relative \notin written.deleted
       /\ a.relative \in written.at_or_above \/ a.snapshot.mtime <= started

\* {} when the run is pending, else the number of paths that changed.
ensure_reconciled(disk, executed, rebuilt, started, defs) ==
    LET written == ExecutedWrites(executed)
        free(S) == {a \in S : ~ relates_to(defs, a.relative)}
        fresh(p) == p # <<>> /\ p \in DOMAIN disk /\ disk[p].ms > started * 1000
    IN IF /\ free(rebuilt.renames) = {} /\ free(rebuilt.pre_deletes) = {}
          /\ \A u \in rebuilt.uploads : UploadExcused(u, written, started, defs)
          /\ \A c \in free(rebuilt.copies) : modified_after(c.local.ms, started)
          /\ \A c \in free(rebuilt.creates) : fresh(c.relative)
          /\ \A a \in rebuilt.post_deletes : DeleteExcused(a, written, started, defs)
       THEN {Cardinality({u \in free(rebuilt.uploads) : modified_after(u.local.ms, started)
                             /\ ~ (u.reason = "mtime-differs" /\ u.relative \in written.exact)})
             + Cardinality(free(rebuilt.copies)) + Cardinality(free(rebuilt.creates))
             + Cardinality(free(rebuilt.post_deletes))}
       ELSE {}
=============================================================================
