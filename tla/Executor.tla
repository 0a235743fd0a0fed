------------------------------ MODULE Executor ------------------------------
(***************************************************************************)
(* execute_with_observer and execute_renames of src/src/sync.rs: one run   *)
(* carries a plan out against a NAS that other writers use, from a local   *)
(* tree that other programs edit.  Every request to the NAS is a step of   *)
(* its own, so that an edit may fall between the check that authorises a   *)
(* mutation and the mutation itself.                                       *)
(*                                                                         *)
(* An entry is its kind, its metadata (size and modification time, what a  *)
(* listing shows) and its body (what a digest shows).  Checks of several   *)
(* entries that read disjoint objects are one step: edits of different     *)
(* objects commute.  The workers of the upload pool are the set of uploads *)
(* in flight; UploadPool models the threads.                               *)
(***************************************************************************)
EXTENDS RefusalBreaker, Sequences, FiniteSets, FiniteSetsExt

CONSTANTS
    Paths,          \* root-relative paths, of the local tree and of the NAS
    Above,          \* Above[p]: the folders p lies in
    Fold,           \* Fold[p]: the portable_fold of p, shared by the spellings of one name
    Scenarios,      \* [local, remote, plan]: the trees and the plan made of them
    ForeignEntries, \* what another writer may put on the NAS
    LocalEntries,   \* what another program may leave in the local tree
    MaxRemoteEdits, \* bound on edits by other writers during the run
    MaxLocalEdits   \* bound on edits of the local tree during the run

Entry(kind, meta, body) == [kind |-> kind, meta |-> meta, body |-> body]
Absent == Entry("absent", 0, 0)
Dir == Entry("dir", 0, 0)
File(meta, body) == Entry("file", meta, body)

Unhashed == -1   \* the body of a RemoteSnapshot without content_md5

Files == [kind : {"file"}, meta : Nat, body : Nat \ {0}]
Entries == {Absent, Dir} \cup Files
Snapshots == [kind : {"dir", "file"}, meta : Nat, body : Nat \cup {Unhashed}]

(* A path lies in what its folder lies in, in one folder of each depth.    *)
(* portable_fold works name by name: two spellings lie in folders that are *)
(* spellings of each other.                                                *)
ASSUME TreeAssumption ==
    /\ Above \in [Paths -> SUBSET Paths]
    /\ \A p \in Paths : p \notin Above[p]
    /\ \A p \in Paths : \A a, b \in Above[p] :
          Above[a] \subseteq Above[p] /\ (a = b \/ a \in Above[b] \/ b \in Above[a])
    /\ \A p, q \in Paths :
          Fold[p] = Fold[q] => {Fold[a] : a \in Above[p]} = {Fold[a] : a \in Above[q]}
    /\ ForeignEntries \cup LocalEntries \subseteq Entries

Elements(s) == {s[i] : i \in DOMAIN s}
IsSequence(s) == s \in Seq(Elements(s))

(* What build_plan (plan.rs) makes of two trees: each path is written by   *)
(* one action; what is deleted was listed, is written by none and deleted  *)
(* once; a deletion is guarded by copies of its own content; and a         *)
(* case-only rename moves all entries to other spellings of their paths.   *)
Writes(p) == p.uploads \cup Elements(p.copies)

Planned(p) ==
    /\ IsSequence(p.preDeletes) /\ IsSequence(p.creates) /\ IsSequence(p.copies)
    /\ IsSequence(p.postDeletes) /\ IsSequence(p.renames)
    /\ Writes(p) \cap (Elements(p.preDeletes) \cup Elements(p.postDeletes)
                       \cup Elements(p.creates) \cup Elements(p.renames)) = {}
    /\ \A a \in Writes(p) :
          /\ {a.rel, a.src, a.dest} \subseteq Paths /\ Fold[a.rel] = Fold[a.dest]
          /\ a.local \in Files
          /\ a.expected = Absent \/ (a.expected \in Snapshots /\ a.expected.body = Unhashed)
    /\ \A a \in Elements(p.copies) : a.from \in Paths
    /\ \A a, b \in Writes(p) : a.dest = b.dest => a = b
    /\ \A c \in Elements(p.creates) : {c.rel, c.dest} \subseteq Paths /\ Fold[c.rel] = Fold[c.dest]
    /\ \A d \in Elements(p.preDeletes) \cup Elements(p.postDeletes) :
          {d.path, d.localPath} \subseteq Paths /\ d.snap \in Snapshots
    /\ \A d \in Elements(p.postDeletes) :
          /\ \A a \in Writes(p) : a.dest # d.path
          /\ \A a \in Elements(p.preDeletes) : a.path # d.path
          /\ \A a \in Elements(p.postDeletes) : a.path = d.path => a = d
          /\ d.guards \subseteq Elements(p.copies)
    /\ \A r \in Elements(p.renames) :
          /\ r.moves \in [DOMAIN r.moves -> Paths \ DOMAIN r.moves] /\ DOMAIN r.moves \subseteq Paths
          /\ \A x \in DOMAIN r.moves : Fold[r.moves[x]] = Fold[x]
          /\ \A x, y \in DOMAIN r.moves : r.moves[x] = r.moves[y] => x = y

(* How its paths lie: deletions go from the deepest folder up (sort_plan), *)
(* no file lies in another, a folder and what is written in it are spelled *)
(* alike on each side, a deletion is beneath nothing that is made, and a   *)
(* case-only rename moves what lies at or beneath it.                      *)
Within(p) == {p} \cup Above[p]
Made(p) == Writes(p) \cup Elements(p.creates)

DeepestFirst(s) == \A i, j \in DOMAIN s : i < j => s[i].path \notin Within(s[j].path)

Arranged(p) ==
    /\ IsFiniteSet(p.uploads) /\ p.unchanged \in Nat
    /\ DeepestFirst(p.preDeletes) /\ DeepestFirst(p.postDeletes)
    /\ \A a, b \in Writes(p) : a.rel \in Within(b.rel) => a = b
    /\ \A a, b \in Made(p) : a.dest \in Within(b.dest) => a.rel \in Within(b.rel)
    /\ \A a \in Made(p), d \in Elements(p.postDeletes) : a.dest \notin Within(d.path)
    /\ \A r \in Elements(p.renames) :
          r.rel \in Paths /\ \A x \in DOMAIN r.moves : \E q \in Within(x) : Fold[q] = Fold[r.rel]

PlannedFor(s) ==
    /\ Planned(s.plan) /\ Arranged(s.plan)
    /\ s.local \in [Paths -> Entries] /\ s.remote \in [Paths -> Entries]
    /\ \A d \in Elements(s.plan.postDeletes) :
          /\ s.remote[d.path] # Absent
          /\ \A g \in d.guards : s.remote[d.path].body = g.local.body

ASSUME PlanAssumption == \A s \in Scenarios : PlannedFor(s)

VARIABLES
    plan,        \* the SyncPlan, and the options.jobs it is run with
    local,       \* the local tree
    remote,      \* the destination on the NAS
    pc,          \* the phase, and the request about to be sent in it
    todo,        \* the actions the current loop has left, taken in the plan's order
    changed,     \* the deletes or copies the last batch found changed
    deferrals,   \* the DeferralIndex
    kept,        \* kept_pre_deletes, then kept_relatives
    skipped,     \* deletes_skipped, by path
    reappeared,  \* kept deletions whose local file is back
    open,        \* open_copies and open_uploads, less what the loops have taken
    inflight,    \* uploads whose precondition has passed
    copied,      \* copies made, or uploaded instead
    breaker,
    result,      \* "running", "ok" or "failed"
    remoteEdits, \* edits by other writers so far
    localEdits,  \* edits of the local tree so far
    done,        \* history: the planned actions carried out
    touched,     \* history: the paths another writer has touched
    freshRemote, \* history: those touched since the run last looked at them
    freshLocal,  \* history: local paths edited since the run last looked at them
    destroyed    \* history: what each mutation of the run overwrote or deleted

worldVars == <<local, remote>>
editVars == <<remoteEdits, localEdits>>
historyVars == <<done, touched, freshRemote, freshLocal, destroyed>>
vars == <<plan, worldVars, pc, todo, changed, deferrals, kept, skipped, reappeared,
          open, inflight, copied, breaker, result, editVars, historyVars>>

-----------------------------------------------------------------------------
(* DeferralIndex.covering: p or a folder above it was deferred.            *)
Covered(p) == p \in deferrals \/ Above[p] \cap deferrals # {}

(* DeferralIndex.spelling_related: a deferred path is another spelling of  *)
(* p, of a folder above p, or of something beneath p.                      *)
SpellingRelated(p) ==
    \E q \in deferrals :
        \/ Fold[q] = Fold[p]
        \/ Fold[q] \in {Fold[a] : a \in Above[p]}
        \/ Fold[p] \in {Fold[a] : a \in Above[q]}

KeptDescendant(p) == \E k \in kept : p \in Above[k]

(* verify_remote_metadata_snapshot.  A folder has no time here: the plan   *)
(* asks for it (require_mtime) of an empty folder only, whose new entries  *)
(* DeleteVerdictChanged and Deletable see.                                 *)
MetadataMatches(e, snap) == e.kind = snap.kind /\ e.meta = snap.meta

(* verify_live_snapshot of an entry taken from the remote listing: the     *)
(* metadata, then the content if the plan hashed it.                       *)
LiveSnapshot(e, snap) ==
    IF ~MetadataMatches(e, snap) THEN "changed"
    ELSE IF snap.body # Unhashed /\ e.body # snap.body THEN "contentDiffers"
    ELSE "ok"

(* The batch and live checks of a destination this run wrote: its time is  *)
(* DSM's choice, so the file is judged by its content alone.               *)
DestinationStands(e, l) == e.kind = "file" /\ e.body = l.body

(* snapshot_verdict of such a destination: the listing shows no file, or   *)
(* another size; a time that differs alone is MtimeNotKept.                *)
DestinationVerdictChanged(e, l) == e.kind # "file" \/ (e.meta # l.meta /\ e.body # l.body)

(* snapshot_verdict of a deletion: the entry differs, or a folder holds an *)
(* entry that is not to be deleted with it.                                *)
DeleteVerdictChanged(a, deletes) ==
    \/ ~MetadataMatches(remote[a.path], a.snap)
    \/ a.snap.kind = "dir" /\
       \E p \in Paths \ {d.path : d \in deletes} : a.path \in Above[p] /\ remote[p] # Absent

(* upload_precondition_holds.  It compares the time if DSM tells it: a     *)
(* file of the planned size whose time is not told has, to this check, the *)
(* planned metadata, and is such an entry here.                            *)
UploadPreconditionByKind(dest, expected) ==
    remote[dest] = Absent \/ (remote[dest].kind = "file" /\ expected # Absent)
UploadPreconditionHolds(dest, expected) ==
    \/ remote[dest] = Absent
    \/ remote[dest].kind = "file" /\ expected # Absent /\ MetadataMatches(remote[dest], expected)

(* Writing e at p creates the folders above it (create_parents).           *)
WithParents(tree, p, e) ==
    [q \in Paths |-> IF q = p THEN e
                     ELSE IF q \in Above[p] /\ tree[q] = Absent THEN Dir ELSE tree[q]]

Reachable(tree, p) == \A a \in Above[p] : tree[a].kind # "file"
Childless(tree, p) == \A q \in Paths : p \in Above[q] => tree[q] = Absent

(* What DSM's Delete may remove, non-recursively.                          *)
Deletable(p) == remote[p] # Absent /\ Childless(remote, p)

(* The mutation of p that this step makes destroys what p holds; expected  *)
(* is the snapshot that authorised it, and back says that the local file   *)
(* it is to be deleted for was there when the run looked.                  *)
Destroys(p, expected, back) ==
    destroyed' = IF remote[p] = Absent THEN destroyed
                 ELSE destroyed \cup
                      {[was |-> remote[p], expected |-> expected,
                        unseen |-> p \in freshRemote, localBack |-> back]}

(* The run reads p on the NAS, or locally.                                 *)
Looks(remotes, locals) ==
    /\ freshRemote' = freshRemote \ remotes
    /\ freshLocal' = freshLocal \ locals

-----------------------------------------------------------------------------
Init ==
    /\ \E s \in Scenarios :
          /\ plan = s.plan
          /\ local = s.local
          /\ remote = s.remote
    /\ pc = "preflight"
    /\ todo = {}
    /\ changed = {}
    /\ deferrals = {}
    /\ kept = {}
    /\ skipped = {}
    /\ reappeared = {}
    /\ open = {}
    /\ inflight = {}
    /\ copied = {}
    /\ breaker = NewBreaker(0, 0)
    /\ result = "running"
    /\ remoteEdits = 0
    /\ localEdits = 0
    /\ done = {}
    /\ touched = {}
    /\ freshRemote = {}
    /\ freshLocal = {}
    /\ destroyed = {}

(* The run returns an error; uploads in flight end first.                  *)
FailsAfter(uploads) ==
    IF uploads = {}
    THEN result' = "failed" /\ pc' = "end"
    ELSE result' = result /\ pc' = "drain"
Fails == FailsAfter(inflight)

(* Go on with b as the breaker, or fail the run if b trips.                *)
JudgedWith(b, label, uploads) ==
    /\ breaker' = b
    /\ IF Trips(b) THEN FailsAfter(uploads) ELSE pc' = label /\ UNCHANGED result
Judged(b, label) == JudgedWith(b, label, inflight)

(* The loops of the run, and the action at hand.                           *)
Queue ==
    CASE pc \in {"preDelete", "preDeleteRequest"} -> plan.preDeletes
      [] pc = "create" -> plan.creates
      [] pc \in {"copy", "copyRequest", "copyFallback", "copyUpload"} -> plan.copies
      [] pc \in {"postDelete", "postDeleteRequest"} -> plan.postDeletes
      [] pc = "rename" -> plan.renames
Current == Queue[Min({i \in DOMAIN Queue : Queue[i] \in todo})]

DropCurrent == todo' = todo \ {Current}
At(label) == pc = label /\ todo # {}
Through(label) == pc = label /\ todo = {}

-----------------------------------------------------------------------------
(* Every source is opened before anything on the NAS is removed; one that  *)
(* cannot be read or changed since the scan is deferred.                   *)
Preflight ==
    /\ pc = "preflight"
    /\ LET sources == plan.uploads \cup Elements(plan.copies)
           stale == {a \in sources : ~MetadataMatches(local[a.src], a.local)} IN
       /\ \E unreadable \in SUBSET sources :
             deferrals' = {a.rel : a \in stale \cup unreadable}
       /\ Looks({}, {a.src : a \in sources})
    /\ pc' = "preBatch"
    /\ UNCHANGED <<plan, worldVars, todo, changed, kept, skipped, reappeared, open, inflight,
                   copied, breaker, result, editVars, done, touched, destroyed>>

PreDeleteBatch ==
    /\ pc = "preBatch"
    /\ todo' = {a \in Elements(plan.preDeletes) : ~Covered(a.path)}
    /\ changed' = {a \in todo' : DeleteVerdictChanged(a, todo')}
    /\ pc' = "preDelete"
    /\ UNCHANGED <<plan, worldVars, deferrals, kept, skipped, reappeared, open, inflight,
                   copied, breaker, result, editVars, historyVars>>

(* A type conflict that is no longer what the plan saw is kept, and so is  *)
(* everything planned at or beneath it; content that differs fails.        *)
PreDeleteCheck ==
    /\ At("preDelete")
    /\ LET a == Current
           live == LiveSnapshot(remote[a.path], a.snap) IN
       IF a \in changed \/ KeptDescendant(a.path) \/ live = "changed"
       THEN /\ kept' = kept \cup {a.path}
            /\ deferrals' = deferrals \cup {a.path}
            /\ DropCurrent
            /\ UNCHANGED <<pc, result, freshRemote, freshLocal>>
       ELSE /\ IF live = "ok" THEN pc' = "preDeleteRequest" /\ UNCHANGED result ELSE Fails
            /\ Looks({a.path}, {})
            /\ UNCHANGED <<kept, deferrals, todo>>
    /\ UNCHANGED <<plan, worldVars, changed, skipped, reappeared, open, inflight, copied,
                   breaker, editVars, done, touched, destroyed>>

PreDeleteRequest ==
    /\ pc = "preDeleteRequest"
    /\ LET a == Current IN
       IF Deletable(a.path)
       THEN /\ remote' = [remote EXCEPT ![a.path] = Absent]
            /\ done' = done \cup {a}
            /\ Destroys(a.path, a.snap, FALSE)
            /\ DropCurrent
            /\ pc' = "preDelete"
            /\ UNCHANGED result
       ELSE Fails /\ UNCHANGED <<remote, done, destroyed, todo>>
    /\ UNCHANGED <<plan, local, changed, deferrals, kept, skipped, reappeared, open, inflight,
                   copied, breaker, editVars, touched, freshRemote, freshLocal>>

(* Count the writes no deferral covers; each of them settles once.         *)
OpenWrites ==
    /\ Through("preDelete")
    /\ todo' = {a \in Elements(plan.creates) : ~Covered(a.rel)}
    /\ open' = {a \in plan.uploads \cup Elements(plan.copies) : ~Covered(a.rel)}
    /\ breaker' = NewBreaker(Cardinality(todo') + Cardinality(open'), plan.unchanged)
    /\ kept' = {}
    /\ pc' = "create"
    /\ UNCHANGED <<plan, worldVars, changed, deferrals, skipped, reappeared, inflight,
                   copied, result, editVars, historyVars>>

(* A folder beneath one that was refused a moment ago is left out; one     *)
(* that exists already is as good as created.                              *)
CreateExcluded ==
    /\ At("create")
    /\ Covered(Current.rel)
    /\ DropCurrent
    /\ Judged(Excluded(breaker), "create")
    /\ UNCHANGED <<plan, worldVars, changed, deferrals, kept, skipped, reappeared, open,
                   inflight, copied, editVars, historyVars>>

CreateFolder ==
    /\ At("create")
    /\ LET p == Current.dest IN
       /\ ~Covered(Current.rel)
       /\ Reachable(remote, p) /\ remote[p].kind # "file"
       /\ remote' = WithParents(remote, p, Dir)
    /\ breaker' = Accepted(breaker)
    /\ done' = done \cup {Current}
    /\ DropCurrent
    /\ UNCHANGED <<plan, local, pc, changed, deferrals, kept, skipped, reappeared, open,
                   inflight, copied, result, editVars, touched, freshRemote, freshLocal,
                   destroyed>>

CreateRefused(c) ==
    /\ At("create")
    /\ ~Covered(Current.rel)
    /\ deferrals' = deferrals \cup {Current.rel}
    /\ DropCurrent
    /\ Judged(SettledAs(breaker, c), "create")
    /\ UNCHANGED <<plan, worldVars, changed, kept, skipped, reappeared, open, inflight,
                   copied, editVars, historyVars>>

-----------------------------------------------------------------------------
(* exclude_covered over what is still open.                                *)
StillOpen == {a \in open : ~Covered(a.rel)}

CopyBatch ==
    /\ Through("create")
    /\ open' = StillOpen
    /\ todo' = {a \in Elements(plan.copies) : a \in StillOpen}
    /\ changed' = {a \in todo' : ~MetadataMatches(remote[a.from], a.source)}
    /\ Judged(ExcludedTimes(breaker, Cardinality(open \ StillOpen)), "copy")
    /\ UNCHANGED <<plan, worldVars, deferrals, kept, skipped, reappeared, inflight, copied,
                   editVars, historyVars>>

(* The current copy is left out, and its destination deferred.             *)
CopyLeftOut(settledBreaker) ==
    /\ deferrals' = deferrals \cup {Current.rel}
    /\ open' = open \ {Current}
    /\ DropCurrent
    /\ Judged(settledBreaker, "copy")

CopyCheck ==
    /\ At("copy")
    /\ LET a == Current
           live == LiveSnapshot(remote[a.from], a.source) IN
       IF a \in changed \/ local[a.src] # a.local \/ live = "changed"
       THEN CopyLeftOut(Excluded(breaker))
       ELSE /\ IF live = "ok" THEN pc' = "copyRequest" /\ UNCHANGED result ELSE Fails
            /\ UNCHANGED <<deferrals, open, todo, breaker>>
    /\ Looks({Current.from}, {Current.src})
    /\ UNCHANGED <<plan, worldVars, changed, kept, skipped, reappeared, inflight, copied,
                   editVars, done, touched, destroyed>>

(* CopyMove never overwrites; the copy is read back, and a local edit      *)
(* since then defers the path although the copy stands.                    *)
CopySucceeds ==
    /\ pc = "copyRequest"
    /\ LET a == Current IN
       /\ remote[a.dest] = Absent /\ Reachable(remote, a.dest)
       /\ remote[a.from].kind = "file"
       /\ remote' = WithParents(remote, a.dest, remote[a.from])
       /\ IF remote[a.from].body = a.source.body
          THEN /\ breaker' = Accepted(breaker)
               /\ done' = done \cup {a}
               /\ copied' = copied \cup {a}
               /\ open' = open \ {a}
               /\ deferrals' = IF local[a.src] = a.local THEN deferrals
                               ELSE deferrals \cup {a.rel}
               /\ DropCurrent
               /\ pc' = "copy"
               /\ UNCHANGED result
          ELSE Fails /\ UNCHANGED <<breaker, done, copied, open, deferrals, todo>>
    /\ UNCHANGED <<plan, local, changed, kept, skipped, reappeared, inflight, editVars,
                   touched, freshRemote, freshLocal, destroyed>>

(* ServerCopyNotStarted, or a task DSM says has failed: that one may have  *)
(* left something at the destination.                                      *)
CopyFails(remains) ==
    /\ pc = "copyRequest"
    /\ LET p == Current.dest IN
       /\ remains # Absent => remote[p] = Absent /\ Reachable(remote, p)
       /\ remote' = IF remains = Absent THEN remote ELSE WithParents(remote, p, remains)
    /\ pc' = "copyFallback"
    /\ UNCHANGED <<plan, local, todo, changed, deferrals, kept, skipped, reappeared, open,
                   inflight, copied, breaker, result, editVars, historyVars>>

CopyFallbackCheck ==
    /\ pc = "copyFallback"
    /\ IF UploadPreconditionHolds(Current.dest, Absent)
       THEN pc' = "copyUpload" /\ UNCHANGED <<deferrals, open, todo, breaker, result>>
       ELSE CopyLeftOut(Excluded(breaker))
    /\ Looks({Current.dest}, {})
    /\ UNCHANGED <<plan, worldVars, changed, kept, skipped, reappeared, inflight, copied,
                   editVars, done, touched, destroyed>>

-----------------------------------------------------------------------------
(* What an upload of a does to the NAS (external: File Station Upload with *)
(* overwrite).  It streams what the local file holds, so that an edit that *)
(* keeps the metadata is written too, and only then found out.             *)
UploadStreams(a) == MetadataMatches(local[a.src], a.local) /\ Reachable(remote, a.dest)
                    /\ remote[a.dest].kind # "dir"
UploadWrites(a) ==
    /\ remote' = WithParents(remote, a.dest, local[a.src])
    /\ Destroys(a.dest, a.expected, FALSE)
UploadLands(a) == UploadStreams(a) /\ local[a.src].body = a.local.body
UploadDirties(a) == UploadStreams(a) /\ local[a.src].body # a.local.body

CopyUploadLands ==
    /\ pc = "copyUpload"
    /\ LET a == Current IN
       /\ UploadLands(a)
       /\ UploadWrites(a)
       /\ done' = done \cup {a}
       /\ copied' = copied \cup {a}
       /\ open' = open \ {a}
    /\ breaker' = Accepted(breaker)
    /\ DropCurrent
    /\ pc' = "copy"
    /\ UNCHANGED <<plan, local, changed, deferrals, kept, skipped, reappeared, inflight,
                   result, editVars, touched, freshRemote, freshLocal>>

(* The fallback is deferred: the file cannot be read or changed, before or *)
(* under the transfer, or DSM refused the path with class c.               *)
CopyUploadDeferred(c) ==
    /\ pc = "copyUpload"
    /\ LET a == Current IN
       IF c = NotRefused /\ UploadDirties(a)
       THEN UploadWrites(a)
       ELSE UNCHANGED <<remote, destroyed>>
    /\ CopyLeftOut(SettledAs(breaker, c))
    /\ UNCHANGED <<plan, local, changed, kept, skipped, reappeared, inflight, copied,
                   editVars, done, touched, freshRemote, freshLocal>>

(* Each destination is inventoried again and read back, and the uploads a  *)
(* copy's deferral covers are excluded.                                    *)
CopyVerify ==
    /\ Through("copy")
    /\ IF \E a \in copied : ~DestinationStands(remote[a.dest], a.local)
       THEN Fails /\ UNCHANGED <<open, breaker>>
       ELSE /\ open' = StillOpen
            /\ Judged(ExcludedTimes(breaker, Cardinality(open \ StillOpen)), "upload")
    /\ UNCHANGED <<plan, worldVars, todo, changed, deferrals, kept, skipped, reappeared,
                   inflight, copied, editVars, historyVars>>

-----------------------------------------------------------------------------
(* options.jobs.clamp(1, 16).                                              *)
WorkerCountUnclamped == plan.jobs
WorkerCount == IF plan.jobs < 1 THEN 1 ELSE IF plan.jobs > 16 THEN 16 ELSE plan.jobs

(* A worker takes an upload and looks at its destination.                  *)
UploadLook(a) ==
    /\ pc = "upload"
    /\ a \in open
    /\ Cardinality(inflight) < WorkerCount
    /\ open' = open \ {a}
    /\ Looks({a.dest}, {})
    /\ IF UploadPreconditionHolds(a.dest, a.expected)
       THEN /\ inflight' = inflight \cup {a}
            /\ UNCHANGED <<deferrals, breaker, pc, result>>
       ELSE /\ deferrals' = deferrals \cup {a.rel}
            /\ UNCHANGED inflight
            /\ Judged(Excluded(breaker), "upload")
    /\ UNCHANGED <<plan, worldVars, todo, changed, kept, skipped, reappeared, copied,
                   editVars, done, touched, destroyed>>

Upload(a) ==
    /\ pc = "upload"
    /\ a \in inflight
    /\ UploadLands(a)
    /\ UploadWrites(a)
    /\ inflight' = inflight \ {a}
    /\ done' = done \cup {a}
    /\ breaker' = Accepted(breaker)
    /\ UNCHANGED <<plan, local, pc, todo, changed, deferrals, kept, skipped, reappeared,
                   open, copied, result, editVars, touched, freshRemote, freshLocal>>

UploadDeferred(a, c) ==
    /\ pc = "upload"
    /\ a \in inflight
    /\ inflight' = inflight \ {a}
    /\ deferrals' = deferrals \cup {a.rel}
    /\ JudgedWith(SettledAs(breaker, c), "upload", inflight \ {a})
    /\ IF c = NotRefused /\ UploadDirties(a)
       THEN UploadWrites(a)
       ELSE UNCHANGED <<remote, destroyed>>
    /\ UNCHANGED <<plan, local, todo, changed, kept, skipped, reappeared, open, copied,
                   editVars, done, touched, freshRemote, freshLocal>>

(* The run is failing: an upload in flight lands after all, or is aborted. *)
DrainUpload(a) ==
    /\ pc = "drain"
    /\ a \in inflight
    /\ inflight' = inflight \ {a}
    /\ \/ UploadLands(a) /\ UploadWrites(a) /\ done' = done \cup {a}
       \/ UNCHANGED <<remote, destroyed, done>>
    /\ IF inflight' = {} THEN pc' = "end" /\ result' = "failed" ELSE UNCHANGED <<pc, result>>
    /\ UNCHANGED <<plan, local, todo, changed, deferrals, kept, skipped, reappeared, open,
                   copied, breaker, editVars, touched, freshRemote, freshLocal>>

-----------------------------------------------------------------------------
UploadsSettled == open = {} /\ inflight = {}

(* Mirror deletions come last, and only on a destination that shows every  *)
(* upload landed.                                                          *)
PostDeleteBatch ==
    /\ pc = "upload" /\ UploadsSettled
    /\ LET landed == {a \in plan.uploads : ~Covered(a.rel)} IN
       IF plan.postDeletes # << >> /\
          \E a \in landed : ~DestinationStands(remote[a.dest], a.local)
       THEN Fails /\ UNCHANGED <<todo, changed>>
       ELSE /\ todo' = Elements(plan.postDeletes)
            /\ changed' = {a \in todo' :
                             \/ DeleteVerdictChanged(a, todo')
                             \/ \E g \in a.guards :
                                   DestinationVerdictChanged(remote[g.dest], g.local)}
            /\ pc' = "postDelete"
            /\ UNCHANGED result
    /\ UNCHANGED <<plan, worldVars, deferrals, kept, skipped, reappeared, open, inflight,
                   copied, breaker, editVars, historyVars>>

(* The current deletion is kept and deferred.                              *)
KeepDeleteUnnamed(p) ==
    kept' = kept \cup {p} /\ DropCurrent /\ UNCHANGED deferrals
KeepDelete(p) ==
    /\ kept' = kept \cup {p}
    /\ deferrals' = deferrals \cup {p}
    /\ DropCurrent

(* guards is the destination_guard, if there is one.  The copy that proves *)
(* the deletion's content was deferred, its local file has changed, or it  *)
(* no longer stands on the NAS.                                            *)
GuardFails(guards) ==
    \E g \in guards :
        \/ Covered(g.rel)
        \/ local[g.src] # g.local
        \/ ~DestinationStands(remote[g.dest], g.local)

(* local_presence: the file a deletion was planned without is back.        *)
LocalPresent(a) == local[a.localPath] # Absent

(* In the order of the code: a kept child, a deferred other spelling, a    *)
(* local file that is back, then the checks of the deletion itself.        *)
PostDeleteDecide ==
    /\ At("postDelete")
    /\ LET a == Current IN
       /\ CASE KeptDescendant(a.path) ->
                 /\ kept' = kept \cup {a.path}
                 /\ skipped' = skipped \cup {a.path}
                 /\ DropCurrent
                 /\ UNCHANGED <<deferrals, reappeared, pc>>
            [] ~KeptDescendant(a.path) /\ SpellingRelated(a.path) ->
                 KeepDelete(a.path) /\ UNCHANGED <<skipped, reappeared, pc>>
            [] ~KeptDescendant(a.path) /\ ~SpellingRelated(a.path) /\ LocalPresent(a) ->
                 /\ kept' = kept \cup {a.path}
                 /\ skipped' = skipped \cup {a.path}
                 /\ reappeared' = reappeared \cup {a}
                 /\ DropCurrent
                 /\ UNCHANGED <<deferrals, pc>>
            [] OTHER ->
                 /\ UNCHANGED <<skipped, reappeared>>
                 /\ IF \/ a \in changed
                       \/ GuardFails(a.guards)
                       \/ LiveSnapshot(remote[a.path], a.snap) # "ok"
                    THEN KeepDelete(a.path) /\ UNCHANGED pc
                    ELSE pc' = "postDeleteRequest" /\ UNCHANGED <<kept, deferrals, todo>>
       /\ Looks({a.path}, {a.localPath})
    /\ UNCHANGED <<plan, worldVars, changed, open, inflight, copied, breaker, result,
                   editVars, done, touched, destroyed>>

(* The local tree cannot be read, or spells the name more than one way:    *)
(* absence is not established and the NAS copy stays.                      *)
PostDeleteAbsenceUnknown ==
    /\ At("postDelete")
    /\ LET a == Current IN
       /\ ~KeptDescendant(a.path) /\ ~SpellingRelated(a.path)
       /\ KeepDelete(a.path)
    /\ UNCHANGED <<plan, worldVars, pc, changed, skipped, reappeared, open, inflight, copied,
                   breaker, result, editVars, historyVars>>

LocalBack(a) == local[a.localPath] # Absent /\ a.localPath \notin freshLocal

PostDeleteRequest ==
    /\ pc = "postDeleteRequest"
    /\ LET a == Current IN
       /\ Deletable(a.path)
       /\ remote' = [remote EXCEPT ![a.path] = Absent]
       /\ done' = done \cup {a}
       /\ Destroys(a.path, a.snap, LocalBack(a))
    /\ DropCurrent
    /\ pc' = "postDelete"
    /\ UNCHANGED <<plan, local, changed, deferrals, kept, skipped, reappeared, open, inflight,
                   copied, breaker, result, editVars, touched, freshRemote, freshLocal>>

(* DSM refuses the entry, or the failure concerns the run, which then      *)
(* stops after naming the deletion it stopped on.                          *)
PostDeleteRefused(concernsRun) ==
    /\ pc = "postDeleteRequest"
    /\ KeepDelete(Current.path)
    /\ IF concernsRun THEN Fails ELSE pc' = "postDelete" /\ UNCHANGED result
    /\ UNCHANGED <<plan, worldVars, changed, skipped, reappeared, open, inflight, copied,
                   breaker, editVars, historyVars>>

(* A deletion takes effect on the NAS and its answer is lost: the run      *)
(* fails, and a mirror deletion is named although it happened.             *)
DeleteAnswerLost ==
    /\ pc \in {"preDeleteRequest", "postDeleteRequest"}
    /\ LET a == Current IN
       /\ Deletable(a.path)
       /\ remote' = [remote EXCEPT ![a.path] = Absent]
       /\ Destroys(a.path, a.snap, pc = "postDeleteRequest" /\ LocalBack(a))
       /\ IF pc = "postDeleteRequest"
          THEN KeepDelete(a.path)
          ELSE UNCHANGED <<kept, deferrals, todo>>
    /\ Fails
    /\ UNCHANGED <<plan, local, changed, skipped, reappeared, open, inflight, copied,
                   breaker, editVars, done, touched, freshRemote, freshLocal>>

-----------------------------------------------------------------------------
(* A kept deletion whose local file is back is uploaded over the NAS copy, *)
(* on the metadata of the deletion's snapshot: an upload's precondition    *)
(* reads no content.                                                       *)
AsUpload(a, e) ==
    [rel |-> a.path, src |-> a.localPath, dest |-> a.path, local |-> e,
     expected |-> [a.snap EXCEPT !.body = Unhashed]]

ReuploadCheck(a) ==
    /\ Through("postDelete") /\ inflight = {}
    /\ a \in reappeared
    /\ reappeared' = reappeared \ {a}
    /\ LET e == local[a.localPath] IN
       IF e.kind = "dir" \/ (e # Absent /\ a.snap.kind # "file")
       THEN UNCHANGED <<inflight, deferrals, freshRemote, freshLocal>>
       ELSE /\ Looks({a.path}, {a.localPath})
            /\ IF e # Absent /\ UploadPreconditionHolds(a.path, a.snap)
               THEN inflight' = {AsUpload(a, e)} /\ UNCHANGED deferrals
               ELSE deferrals' = deferrals \cup {a.path} /\ UNCHANGED inflight
    /\ UNCHANGED <<plan, worldVars, pc, todo, changed, kept, skipped, open, copied, breaker,
                   result, editVars, done, touched, destroyed>>

Reupload(u) ==
    /\ Through("postDelete")
    /\ u \in inflight
    /\ inflight' = {}
    /\ \/ /\ UploadLands(u)
          /\ UploadWrites(u)
          /\ done' = done \cup {u}
          /\ UNCHANGED deferrals
       \/ /\ deferrals' = deferrals \cup {u.rel}
          /\ IF UploadDirties(u)
             THEN UploadWrites(u)
             ELSE UNCHANGED <<remote, destroyed>>
          /\ UNCHANGED done
    /\ UNCHANGED <<plan, local, pc, todo, changed, kept, skipped, reappeared, open, copied,
                   breaker, result, editVars, touched, freshRemote, freshLocal>>

StartRenames ==
    /\ Through("postDelete") /\ reappeared = {} /\ inflight = {}
    /\ todo' = Elements(plan.renames)
    /\ pc' = "rename"
    /\ UNCHANGED <<plan, worldVars, changed, deferrals, kept, skipped, reappeared, open,
                   inflight, copied, breaker, result, editVars, historyVars>>

(* A case-only rename, with what lies beneath it.  One that something      *)
(* deferred relates to, that DSM refuses or does not offer waits.          *)
Rename ==
    /\ At("rename")
    /\ LET a == Current IN
       /\ ~SpellingRelated(a.rel)
       /\ remote[a.from] # Absent
       /\ \A p \in DOMAIN a.moves : remote[a.moves[p]] = Absent
       /\ remote' = [p \in Paths |->
                       IF p \in DOMAIN a.moves THEN Absent
                       ELSE IF \E q \in DOMAIN a.moves : a.moves[q] = p
                       THEN remote[CHOOSE q \in DOMAIN a.moves : a.moves[q] = p]
                       ELSE remote[p]]
       /\ done' = done \cup {a}
    /\ DropCurrent
    /\ UNCHANGED <<plan, local, pc, changed, deferrals, kept, skipped, reappeared, open,
                   inflight, copied, breaker, result, editVars, touched, freshRemote,
                   freshLocal, destroyed>>

RenamePending ==
    /\ At("rename")
    /\ deferrals' = deferrals \cup {Current.rel}
    /\ DropCurrent
    /\ UNCHANGED <<plan, worldVars, pc, changed, kept, skipped, reappeared, open, inflight,
                   copied, breaker, result, editVars, historyVars>>

Complete ==
    /\ Through("rename")
    /\ result' = "ok"
    /\ pc' = "end"
    /\ UNCHANGED <<plan, worldVars, todo, changed, deferrals, kept, skipped, reappeared,
                   open, inflight, copied, breaker, editVars, historyVars>>

(* The run is cancelled, or the transport or the session fails, at the     *)
(* next check or request.                                                  *)
FailRun ==
    /\ pc \notin {"end", "drain", "postDeleteRequest"}
    /\ Fails
    /\ UNCHANGED <<plan, worldVars, todo, changed, deferrals, kept, skipped, reappeared,
                   open, inflight, copied, breaker, editVars, historyVars>>

-----------------------------------------------------------------------------
(* Another writer changes one entry of the NAS, keeping it a tree.         *)
RemoteEdit(p, e) ==
    /\ pc # "end"
    /\ remoteEdits < MaxRemoteEdits
    /\ e # remote[p]
    /\ \A a \in Above[p] : remote[a].kind = "dir"
    /\ Childless(remote, p)
    /\ remote' = [remote EXCEPT ![p] = e]
    /\ remoteEdits' = remoteEdits + 1
    /\ touched' = touched \cup {p}
    /\ freshRemote' = freshRemote \cup {p}
    /\ UNCHANGED <<plan, local, pc, todo, changed, deferrals, kept, skipped, reappeared,
                   open, inflight, copied, breaker, result, localEdits, done, freshLocal,
                   destroyed>>

(* Another program writes, recreates (with its folders) or removes one     *)
(* local file.                                                             *)
LocalEdit(p, e) ==
    /\ pc # "end"
    /\ localEdits < MaxLocalEdits
    /\ e # local[p]
    /\ Reachable(local, p) /\ Childless(local, p)
    /\ local' = IF e = Absent THEN [local EXCEPT ![p] = Absent] ELSE WithParents(local, p, e)
    /\ localEdits' = localEdits + 1
    /\ freshLocal' = freshLocal \cup {q \in Paths : local'[q] # local[q]}
    /\ UNCHANGED <<plan, remote, pc, todo, changed, deferrals, kept, skipped, reappeared,
                   open, inflight, copied, breaker, result, remoteEdits, done, touched,
                   freshRemote, destroyed>>

Over == pc = "end" /\ UNCHANGED vars

-----------------------------------------------------------------------------
RunStep ==
    \/ Preflight \/ PreDeleteBatch \/ PreDeleteCheck \/ PreDeleteRequest
    \/ OpenWrites \/ CreateExcluded \/ CreateFolder
    \/ \E c \in Classes : CreateRefused(c)
    \/ CopyBatch \/ CopyCheck \/ CopySucceeds
    \/ \E remains \in {Absent} \cup ForeignEntries : CopyFails(remains)
    \/ CopyFallbackCheck \/ CopyUploadLands
    \/ \E c \in Classes \cup {NotRefused} : CopyUploadDeferred(c)
    \/ CopyVerify
    \/ \E a \in open : UploadLook(a)
    \/ \E a \in inflight : Upload(a)
    \/ \E a \in inflight, c \in Classes \cup {NotRefused} : UploadDeferred(a, c)
    \/ \E a \in inflight : DrainUpload(a)
    \/ PostDeleteBatch \/ PostDeleteDecide \/ PostDeleteAbsenceUnknown \/ PostDeleteRequest
    \/ \E concernsRun \in BOOLEAN : PostDeleteRefused(concernsRun)
    \/ \E a \in reappeared : ReuploadCheck(a)
    \/ \E u \in inflight : Reupload(u)
    \/ StartRenames \/ Rename \/ RenamePending \/ Complete

Next ==
    \/ RunStep
    \/ FailRun
    \/ DeleteAnswerLost
    \/ \E p \in Paths, e \in ForeignEntries \cup {Absent} : RemoteEdit(p, e)
    \/ \E p \in Paths, e \in LocalEntries \cup {Absent} : LocalEdit(p, e)
    \/ Over

(* Requests end (every one has a timeout), so the run always takes its     *)
(* next step.  Nobody is obliged to edit anything.                         *)
Spec == Init /\ [][Next]_vars /\ WF_vars(RunStep)

-----------------------------------------------------------------------------

(* Another writer's entry that the run has looked at since it was written, *)
(* and that the snapshot behind the mutation tells apart from the planned  *)
(* entry (by its size alone where DSM tells no time, sync.rs:621), is      *)
(* neither overwritten nor deleted, in any phase of the run.               *)
NoSeenWriteLost ==
    \A d \in destroyed :
        d.unseen \/ (d.expected # Absent /\ LiveSnapshot(d.was, d.expected) = "ok")

(* A mirror deletion never removes the NAS copy of a file that was back in *)
(* the local tree when the run looked.                                     *)
ReappearedFileKept == \A d \in destroyed : ~d.localBack

(* A rename carried as an upload of the new spelling and a deletion of the *)
(* old one never leaves the NAS with neither, and the source of a server   *)
(* copy is not gone before its content stands at the destination: whatever *)
(* fails, is refused, changes locally or is interrupted in between.  (A    *)
(* kept source may be overwritten by the local file that reappeared, and a *)
(* case-only rename of a folder above changes how both are spelled.)       *)
Spellings(p) == {q \in Paths : Fold[q] = Fold[p]}

Spelled(d) == \E p \in Spellings(d.path) : remote[p] # Absent

ContentStands(d, g) ==
    \/ \E p \in Spellings(d.path) \cup Spellings(g.dest) : remote[p].body = g.local.body
    \/ d.path \in skipped /\ \E p \in Spellings(d.path) : remote[p].kind = "file"

OneSpellingSurvives ==
    \A d \in Elements(plan.postDeletes) :
        /\ \A u \in plan.uploads :
              Fold[u.dest] = Fold[d.path] /\ Spellings(d.path) \cap touched = {} =>
                  Spelled(d)
        /\ \A g \in d.guards :
              (Spellings(d.path) \cup Spellings(g.dest)) \cap touched = {} =>
                  ContentStands(d, g)

(* A run destroys nothing that it was not planned to: not what another     *)
(* writer made and the run has seen, not the copy of a file that is back,  *)
(* not the last spelling of a renamed one (the guards of sync.rs           *)
(* execute_plan).                                                          *)
NothingLost == NoSeenWriteLost /\ ReappearedFileKept /\ OneSpellingSurvives

(* A run that succeeds has carried out every planned action or names it:   *)
(* a deferral covers it, or its deletion was counted as kept.              *)
AllAccountedFor ==
    result = "ok" =>
        /\ \A a \in Made(plan) \cup Elements(plan.renames) : a \in done \/ Covered(a.rel)
        /\ \A a \in Elements(plan.preDeletes) : a \in done \/ Covered(a.path)
        /\ \A a \in Elements(plan.postDeletes) :
              a \in done \/ Covered(a.path) \/ a.path \in skipped

(* Each planned write settles the breaker exactly once on every path       *)
(* through the phases: none is pending when deletions begin.               *)
AllWritesSettled ==
    /\ pc \in {"postDelete", "postDeleteRequest", "rename"} \/ result = "ok" =>
          breaker.pending = 0
    /\ pc \in {"copy", "copyRequest", "copyFallback", "copyUpload", "upload"} =>
          breaker.pending = Cardinality(open) + IF pc = "upload" THEN Cardinality(inflight) ELSE 0

(* A step of the run, not of another writer or program.                    *)
ByRun == remoteEdits' = remoteEdits /\ localEdits' = localEdits

(* A deferred path is left alone: the run writes nothing that is planned   *)
(* at or beneath it, removes no type conflict and carries no file back     *)
(* there, and deletes or renames nothing that is another spelling of it,   *)
(* holds it or lies beneath it.                                            *)
LeavesDeferredAlone ==
    ByRun => \A p \in Paths : remote'[p] # remote[p] =>
        /\ pc # "preDeleteRequest" => \A a \in Made(plan) : a.dest = p => ~Covered(a.rel)
        /\ pc \in {"preDeleteRequest", "postDelete"} => ~Covered(p)
        /\ pc \in {"postDeleteRequest", "rename"} => ~SpellingRelated(p)

DeferredLeftAlone == [][LeavesDeferredAlone]_vars

(* No mirror deletion is requested before every planned upload and copy    *)
(* has landed or been deferred, on a share the breaker has given up, or    *)
(* for a folder above a deletion that was kept.                            *)
DeletionsLast ==
    pc = "postDeleteRequest" =>
        /\ \A a \in plan.uploads \cup Elements(plan.copies) : a \in done \/ Covered(a.rel)
        /\ ~Trips(breaker)
        /\ \A k \in kept : Current.path \notin Above[k]

(* Every planned action is carried out or named, settles the breaker once, *)
(* and the deletions wait for all of them; and what the run deferred it    *)
(* leaves alone to its end (sync.rs execute_plan, PathDeferrals).          *)
EverythingSettled ==
    /\ [](AllAccountedFor /\ AllWritesSettled /\ DeletionsLast)
    /\ DeferredLeftAlone

(* The run ends.                                                           *)
Terminates == <>(result # "running")
-----------------------------------------------------------------------------
(* The inductive invariant behind NothingLost, proved in ExecutorProofs.   *)

Loops == {"preDelete", "preDeleteRequest", "create", "copy", "copyRequest", "copyFallback",
          "copyUpload", "postDelete", "postDeleteRequest", "rename"}
Before == {"preflight", "preBatch", "preDelete", "preDeleteRequest"}
Writing == {"create", "copy", "copyRequest", "copyFallback", "copyUpload", "upload"}
Deleting == {"postDelete", "postDeleteRequest"}
Labels == Before \cup Writing \cup Deleting \cup {"rename", "drain", "end"}

TypeOK ==
    /\ plan \in {s.plan : s \in Scenarios}
    /\ local \in [Paths -> Entries] /\ remote \in [Paths -> Entries]
    /\ pc \in Labels
    /\ pc \in Loops => todo \subseteq Elements(Queue)
    /\ pc \in {"preDeleteRequest", "copyRequest", "copyFallback", "copyUpload", "postDeleteRequest"} =>
          todo # {}
    /\ open \subseteq Writes(plan)
    /\ reappeared \subseteq Elements(plan.postDeletes)
    /\ \A a \in reappeared : a.path \in skipped

(* What authorised the mutation of p still holds, or somebody has written  *)
(* p since.  An upload does not replace a folder.                          *)
Authorised(p, snap) == p \in freshRemote \/ LiveSnapshot(remote[p], snap) = "ok"
Replaceable(p, snap) ==
    p \in freshRemote \/ remote[p].kind # "file" \/ (snap # Absent /\ LiveSnapshot(remote[p], snap) = "ok")

(* An upload in flight is planned, or carries a reappeared file back.      *)
CarriesBack(a) == a.dest \in skipped /\ \E d \in Elements(plan.postDeletes) : d.path = a.dest

FlightInv ==
    /\ inflight # {} => pc \in {"upload", "drain"} \/ (pc = "postDelete" /\ todo = {})
    /\ inflight \cap open = {}
    /\ \A a, b \in inflight : a.dest = b.dest => a = b
    /\ \A a \in inflight :
          /\ {a.src, a.dest} \subseteq Paths /\ a.local \in Files
          /\ Replaceable(a.dest, a.expected)
          /\ a \in Writes(plan) \/ CarriesBack(a)
          /\ pc = "upload" => a \in Writes(plan)
          /\ pc = "postDelete" => CarriesBack(a)

(* Between a check and the request it authorises only edits happen.        *)
RequestInv ==
    /\ pc \in {"preDeleteRequest", "postDeleteRequest"} => Authorised(Current.path, Current.snap)
    /\ pc = "copyUpload" => Replaceable(Current.dest, Absent)
    /\ pc = "postDeleteRequest" =>
          /\ local[Current.localPath] = Absent \/ Current.localPath \in freshLocal
          /\ ~SpellingRelated(Current.path)
          /\ \A g \in Current.guards : g.dest \in touched \/ remote[g.dest].body = g.local.body

(* A planned write is still to come, named, or done and there.             *)
Untouched(ps) == ps \cap touched = {}

WritesInv ==
    /\ pc = "preflight" => deferrals = {}
    /\ pc \in Before => done \cap plan.uploads = {}
    /\ pc \in Writing => \A a \in Writes(plan) : a \in done \/ Covered(a.rel) \/ a \in open \cup inflight
    /\ pc \in Deleting => \A a \in Writes(plan) : a \in done \/ Covered(a.rel)
    /\ pc \notin {"rename", "end"} =>
          \A u \in done \cap plan.uploads : Untouched(Spellings(u.dest)) => remote[u.dest] # Absent

(* Until deletions begin the entries to delete stand as they were planned. *)
KeptInv ==
    pc \in Before \cup Writing => \A d \in Elements(plan.postDeletes) : d.path \notin touched =>
        /\ remote[d.path] # Absent
        /\ \A g \in d.guards : remote[d.path].body = g.local.body

(* OneSpellingSurvives, at the very paths, as long as nothing is renamed.  *)
StandsAsPlanned ==
    \A d \in Elements(plan.postDeletes) :
        /\ \A u \in plan.uploads :
              Fold[u.dest] = Fold[d.path] /\ Untouched(Spellings(d.path)) =>
                  remote[u.dest] # Absent \/ remote[d.path] # Absent
        /\ \A g \in d.guards : Untouched(Spellings(d.path) \cup Spellings(g.dest)) =>
              \/ remote[d.path].body = g.local.body \/ remote[g.dest].body = g.local.body
              \/ d.path \in skipped /\ remote[d.path].kind = "file"

SpellingInv ==
    /\ pc \notin {"rename", "end"} => StandsAsPlanned
    /\ OneSpellingSurvives

IInv ==
    /\ TypeOK /\ FlightInv /\ RequestInv /\ WritesInv /\ KeptInv /\ SpellingInv
    /\ NoSeenWriteLost /\ ReappearedFileKept

(* The strengthening behind EverythingSettled, inductive beside IInv.      *)

Copying == {"copy", "copyRequest", "copyFallback", "copyUpload"}
Named(a, p) == a \in done \/ Covered(p)

(* A planned action is still to come, done or named: phase after phase.    *)
AccountInv ==
    /\ pc # "end" => result = "running"
    /\ pc \in {"preDelete", "preDeleteRequest"} =>
          \A a \in Elements(plan.preDeletes) : a \in todo \/ Named(a, a.path)
    /\ pc \notin Before \cup {"drain", "end"} \/ result = "ok" =>
          \A a \in Elements(plan.preDeletes) : Named(a, a.path)
    /\ pc = "create" => \A a \in Elements(plan.creates) : a \in todo \/ Named(a, a.rel)
    /\ pc \notin Before \cup {"create", "drain", "end"} \/ result = "ok" =>
          \A a \in Elements(plan.creates) : Named(a, a.rel)
    /\ pc = "rename" \/ result = "ok" => \A a \in Writes(plan) : Named(a, a.rel)
    /\ pc \in Deleting =>
          \A a \in Elements(plan.postDeletes) :
              a \in todo \/ Named(a, a.path) \/ a.path \in skipped
    /\ pc = "rename" \/ result = "ok" =>
          \A a \in Elements(plan.postDeletes) : Named(a, a.path) \/ a.path \in skipped
    /\ pc = "rename" => \A a \in Elements(plan.renames) : a \in todo \/ Named(a, a.rel)
    /\ result = "ok" => \A a \in Elements(plan.renames) : Named(a, a.rel)

(* What is still to come is not deferred.  What a run carries back is kept *)
(* and lies neither above nor beneath another such path or a deletion to   *)
(* come, so that no later deferral reaches it.                             *)
Back == {a.path : a \in reappeared} \cup {a.rel : a \in inflight}

ClearInv ==
    /\ deferrals \subseteq Paths /\ remoteEdits \in Nat
    /\ pc \in {"preDelete", "preDeleteRequest"} => \A a \in todo : ~Covered(a.path)
    /\ pc \in Copying => todo \subseteq open
    /\ pc \in Copying \cup {"upload"} => \A a \in open : ~Covered(a.rel)
    /\ \A a \in inflight : ~Covered(a.rel) /\ (a \in Writes(plan) \/ a.rel = a.dest)
    /\ pc \notin Deleting \cup {"drain", "end"} => reappeared = {}
    /\ pc \in Deleting =>
          /\ \A p \in Back : p \in kept /\ ~Covered(p)
          /\ \A p, q \in Back : p \notin Above[q]
          /\ \A p \in Back, d \in todo : p \notin Within(d.path)
          /\ \A a \in reappeared, u \in inflight : a.path # u.rel
    /\ pc = "postDeleteRequest" => ~KeptDescendant(Current.path)

(* The breaker knows how many writes are still to come, and has not given  *)
(* up the share.                                                           *)
BreakerInv ==
    /\ breaker \in Breakers
    /\ pc \notin {"drain", "end"} => ~Trips(breaker)
    /\ pc = "create" => breaker.pending = Cardinality(todo) + Cardinality(open)
    /\ pc \in Copying => breaker.pending = Cardinality(open)
    /\ pc = "upload" => breaker.pending = Cardinality(open) + Cardinality(inflight)
    /\ pc \in Deleting \cup {"rename"} \/ result = "ok" => breaker.pending = 0

SInv == AccountInv /\ ClearInv /\ BreakerInv
=============================================================================
