----------------------------- MODULE StatusCache -----------------------------
(* The status digest cache (src/src/status_cache.rs) and the pass of           *)
(* `sdsync status` that uses it (main.rs run_status): claim the directory,     *)
(* scan, list, serve what stored evidence still proves, hash the rest, audit   *)
(* a sample, merge what is known into a new file and rename it into place.     *)
(*                                                                             *)
(* Passes of several processes run at once over the same files, the two trees  *)
(* change under them, a pass may be killed anywhere and the machine may lose   *)
(* power: nothing is fsynced, so a renamed file can come back torn. A digest   *)
(* is the body it was taken of, and the bodies of a file have one size, so     *)
(* only times and identities tell two bodies apart, and a program that sets a  *)
(* time back may make two bodies look alike. The clock counts seconds.         *)
EXTENDS Naturals, Integers, Sequences, FiniteSets, SequencesExt, FiniteSetsExt

CONSTANTS Procs,
          PathSeq,      \* the files, in path order
          InScope,      \* the ones a scoped pass looks at
          Bodies,
          Scenes,       \* the directory and the file found, and how many passes
                        \* each process makes
          MaxAge,       \* --status-cache-max-age
          CanaryEvery,  \* CANARY_INTERVAL_SECONDS
          Canary,       \* --status-cache-canary
          TempAge,      \* STALE_TEMPORARY_AGE
          EntryLimit, DirLimit,
          Edited,       \* the files other programs change
          RollupAsks,   \* what other profiles left, and which are expected
          MaxNow, MaxEdits, MaxFaults

Files  == Range(PathSeq)
\* How many of the files of S come before f in path order.
Place(f, S) ==
    Cardinality({g \in S : \E i, j \in DOMAIN PathSeq : i < j /\ PathSeq[i] = g /\ PathSeq[j] = f})
Window == 1             \* RACY_WINDOW_SECONDS
None   == "none"

\* The two trees as the first pass finds them, at the second second. History:
\* `reused`, the times and identities a file was given other bytes under; `at`,
\* when it was really last rewritten; `blurred`, see EditRemote.
FirstDisk == [f \in Files |-> [body |-> "a", m |-> IF f \in Edited THEN 2 ELSE 0, id |-> 1, reused |-> {}]]
FirstNas  == [f \in Files |-> [body |-> "a", rm |-> 0, at |-> 0, blurred |-> FALSE]]

AnyBody == Bodies \cup {None}
Record    == [m : Nat, id : Nat, l : AnyBody, rm : Nat, r : AnyBody, t : Nat, h : Nat,
              redated : BOOLEAN]
Forms     == {None, "ok", "cut", "empty", "garbled", "unsafe"}

(* A file found was left by passes over the same trees: its records, but for   *)
(* those too close to their evidence to be believed, are true of them.         *)
LeftByPasses(file) ==
    /\ file = [form |-> file.form, gen |-> file.gen, canary |-> file.canary,
               version |-> file.version, recs |-> file.recs]
    /\ file.form \in Forms /\ {file.gen, file.canary, file.version} \subseteq Nat
    /\ DOMAIN file.recs \subseteq Files /\ file.recs \in [DOMAIN file.recs -> Record]
    /\ \A f \in DOMAIN file.recs : LET rec == file.recs[f] IN
          /\ rec.redated \/ rec.h >= rec.t
          /\ rec.m < rec.t =>
                /\ rec.t <= 2 /\ rec.id <= 1
                /\ rec.id = 1 /\ rec.m = FirstDisk[f].m => rec.l = "a"
          /\ rec.rm = 0 /\ rec.r = "a"

ASSUME ScenesAssumption == \A scene \in Scenes : LeftByPasses(scene.file)
ASSUME ScopeAssumption  == /\ InScope \subseteq Files /\ Edited \subseteq Files
                           /\ "a" \in Bodies /\ MaxAge \in Nat

VARIABLES clock, disk, nas, version,
          cacheDir,     \* the directory: [safe, private, foreign, marker]
          cacheFile, temps, rollupDoc,
          otherFile,    \* another profile's file in the directory
          aggregate,    \* what `status-rollup` answered, once asked
          passes, edits, left, faults

worldVars == <<disk, nas, edits>>
dirVars   == <<cacheFile, temps, rollupDoc, otherFile>>
cacheVars == <<clock, worldVars, version, cacheDir, dirVars, aggregate, passes, left, faults>>

NoFile == [form |-> None, gen |-> 0, canary |-> 0, version |-> 0, recs |-> <<>>]
NoPass == [at |-> "idle", now |-> 0, refresh |-> FALSE, scoped |-> FALSE, version |-> 0,
           cache |-> FALSE, local |-> <<>>, remote |-> <<>>, ld |-> <<>>, rd |-> <<>>,
           served |-> <<>>, probes |-> <<>>, canary |-> 0]

-----------------------------------------------------------------------------
(* Opening the directory.                                                      *)

\* StatusCache::open up to the marker: a safe name, a private directory, and
\* nothing in it that the cache did not write unless it is already marked.
Claimable == cacheDir.safe /\ cacheDir.private /\ (cacheDir.marker # None \/ ~cacheDir.foreign)

\* open_status_cache starts a pass; an unusable directory leaves it uncached.
OpenPass(p, refresh, scoped) ==
    LET pass == [NoPass EXCEPT !.at = "scan", !.now = clock, !.refresh = refresh,
                               !.scoped = scoped, !.version = version]
    IN  /\ passes[p].at = "idle" /\ left[p] > 0 /\ left' = [left EXCEPT ![p] = @ - 1]
        /\ IF ~Claimable
           THEN passes' = [passes EXCEPT ![p] = pass] /\ UNCHANGED cacheDir
           ELSE IF cacheDir.marker = None
           THEN /\ cacheDir' = [cacheDir EXCEPT !.marker = "empty"]
                /\ passes' = [passes EXCEPT ![p] = [pass EXCEPT !.at = "claim"]]
           ELSE /\ passes' = [passes EXCEPT ![p] = [pass EXCEPT !.cache = cacheDir.marker = "ours"]]
                /\ UNCHANGED cacheDir
        /\ UNCHANGED <<clock, worldVars, version, dirVars, aggregate, faults>>

\* claim_directory: the marker made a moment ago is written.
WriteMarker(p) ==
    /\ passes[p].at = "claim"
    /\ cacheDir' = [cacheDir EXCEPT !.marker = "ours"]
    /\ passes' = [passes EXCEPT ![p] = [@ EXCEPT !.at = "scan", !.cache = TRUE]]
    /\ UNCHANGED <<clock, worldVars, version, dirVars, aggregate, left, faults>>

Blank == [f \in Files |-> None]

Step(p, new) ==
    /\ passes' = [passes EXCEPT ![p] = new]
    /\ UNCHANGED <<clock, worldVars, version, cacheDir, aggregate, left, faults>>

Looks(pass) == IF pass.scoped THEN InScope ELSE Files

ScanLocal(p) ==
    LET seen == {f \in Looks(passes[p]) : disk[f].body # None}
    IN  /\ passes[p].at = "scan"
        /\ Step(p, [passes[p] EXCEPT !.at = "list", !.local = [f \in seen |-> disk[f]],
                                     !.ld = Blank, !.rd = Blank])
        /\ UNCHANGED dirVars

\* remote_inventory_scoped.
ListedRemote(pass) == [f \in {g \in Looks(pass) : nas[g].body # None} |-> nas[f]]

\* select_comparison_remote_digests: the files both sides hold.
comparison(pass) == DOMAIN pass.local \cap DOMAIN pass.remote

-----------------------------------------------------------------------------
(* Serving stored evidence.                                                    *)

\* open_validated and read_header: a file that can be read at all.
Readable(file) == file.form \notin {None, "unsafe", "empty"}

header_matches(file, pass) == file.version = pass.version /\ file.gen <= pass.now

Expired(rec, pass) == rec.t > pass.now \/ rec.t < pass.now - MaxAge

\* Mutant: the floor is taken from the file's own time, which a scoped pass renews.
racy_by_file(rec, file) == rec.m >= file.gen - Window

\* A file written within a second of its evidence may have changed since.
racy(rec, file) == rec.m >= Min({rec.t, file.gen}) - Window

\* A record the present metadata of both sides still matches.
Proves(rec, pass, f) ==
    /\ f \in comparison(pass)
    /\ pass.local[f].m = rec.m /\ pass.local[f].id = rec.id
    /\ pass.remote[f].rm = rec.rm

canary_stride(entries) ==
    IF Canary = 0 THEN 0
    ELSE Max({(Max({entries, 1}) + Canary - 1) \div Canary, 1})

AuditDue(file, pass) == pass.now - file.canary >= CanaryEvery

\* read_into: what a whole, well-formed file serves, and which of it is audited.
read_into(file, pass) ==
    LET good   == {f \in DOMAIN file.recs :
                     /\ ~Expired(file.recs[f], pass) /\ ~racy(file.recs[f], file)
                     /\ Proves(file.recs[f], pass, f)}
        stride == IF AuditDue(file, pass) THEN canary_stride(Cardinality(DOMAIN file.recs)) ELSE 0
        picked == {f \in good : stride > 0 /\ Place(f, good) % stride = file.gen % stride}
        probed == {f \in picked : Place(f, picked) < Canary}
        On(S)  == [f \in S |-> file.recs[f]]
    IN  [served |-> On(good \ probed), probes |-> On(probed),
         canary |-> IF AuditDue(file, pass) THEN pass.now ELSE file.canary]

\* The remote listing and StatusCache::serve, which looks at nothing newer: a file that is torn, malformed or out of order serves
\* nothing at all; one written for another build or later than now is retired.
serve(p) ==
    LET pass == [passes[p] EXCEPT !.remote = ListedRemote(passes[p])]
        use  == /\ pass.cache /\ ~pass.refresh /\ comparison(pass) # {}
                /\ cacheFile.form = "ok" /\ header_matches(cacheFile, pass)
        read == IF use THEN read_into(cacheFile, pass)
                ELSE [served |-> <<>>, probes |-> <<>>, canary |-> 0]
    IN  /\ passes[p].at = "list"
        /\ Step(p, [pass EXCEPT !.at = "hash", !.served = read.served, !.probes = read.probes,
                                !.canary = read.canary,
                                !.ld = [f \in Files |-> IF f \in DOMAIN read.served
                                                        THEN read.served[f].l ELSE None],
                                !.rd = [f \in Files |-> IF f \in DOMAIN read.served
                                                        THEN read.served[f].r ELSE None]])
        /\ UNCHANGED dirVars

\* populate_content_md5_selective: each local file without a digest is read,
\* and one whose time or identity changed since the scan fails the pass.
HashLocal(p) ==
    LET pass == passes[p]
        todo == {f \in DOMAIN pass.local : pass.ld[f] = None}
    IN  /\ pass.at = "hash"
        /\ IF \E f \in todo : disk[f].m # pass.local[f].m \/ disk[f].id # pass.local[f].id
           THEN Step(p, NoPass)
           ELSE Step(p, [pass EXCEPT !.at = "md5",
                            !.ld = [f \in Files |-> IF f \in todo THEN disk[f].body ELSE @[f]]])
        /\ UNCHANGED dirVars

\* verify_canary: a probe whose live digest is not the stored one.
verify_canary(pass) == \A f \in DOMAIN pass.probes : /\ pass.ld[f] = pass.probes[f].l
                                                      /\ pass.rd[f] = pass.probes[f].r

\* populate_remote_content_digests: the server digests what it holds by now; then
\* the audit, and on a disagreement discard and a full live pass.
HashRemote(p) ==
    LET todo == {f \in comparison(passes[p]) : passes[p].rd[f] = None}
        pass == [passes[p] EXCEPT !.rd = [f \in Files |-> IF f \in todo THEN nas[f].body ELSE passes[p].rd[f]]]
    IN  /\ passes[p].at = "md5"
        /\ IF \E f \in todo : nas[f].body = None
           THEN Step(p, NoPass) /\ UNCHANGED dirVars
           ELSE IF ~verify_canary(pass)
           THEN /\ cacheFile' = NoFile
                /\ Step(p, [pass EXCEPT !.at = "hash", !.served = <<>>, !.probes = <<>>,
                                        !.ld = Blank, !.rd = Blank])
                /\ UNCHANGED <<temps, rollupDoc, otherFile>>
           ELSE /\ Step(p, IF pass.cache THEN [pass EXCEPT !.at = "write"] ELSE NoPass)
                /\ UNCHANGED dirVars

-----------------------------------------------------------------------------
(* Storing.                                                                    *)

\* observation_stream: files both sides agree on, dated now. `h` and `redated`
\* are history: when the body was last really read, and whether an older reading
\* is given today's date.
observation_stream(pass) ==
    [f \in {g \in comparison(pass) : pass.ld[g] = pass.rd[g]} |->
        [m |-> pass.local[f].m, id |-> pass.local[f].id, l |-> pass.ld[f],
         rm |-> pass.remote[f].rm, r |-> pass.rd[f], t |-> pass.now,
         h |-> IF f \in DOMAIN pass.served THEN pass.served[f].h ELSE pass.now,
         redated |-> f \in DOMAIN pass.served]]

\* CarriedRecords: what of the present file is kept. A torn file keeps the
\* records before the tear, a malformed one is rejected whole.
CarriedRecords(file, pass) ==
    IF ~Readable(file) \/ file.form = "garbled" \/ ~header_matches(file, pass) THEN <<>>
    ELSE [f \in {g \in DOMAIN file.recs :
                    /\ ~Expired(file.recs[g], pass)
                    /\ pass.scoped \/ g \in DOMAIN pass.local} |-> file.recs[f]]

is_same_evidence_as(old, new) ==
    /\ old.m = new.m /\ old.id = new.id /\ old.l = new.l
    /\ old.rm = new.rm /\ old.r = new.r

\* write_merged: in path order, the fresh record wins but keeps the date of the
\* same evidence carried; past ENTRY_LIMIT the rest is left out.
write_merged(file, pass) ==
    LET fresh == observation_stream(pass)
        old   == CarriedRecords(file, pass)
        Rec(f) == IF f \notin DOMAIN fresh THEN old[f]
                  ELSE IF f \in DOMAIN old /\ is_same_evidence_as(old[f], fresh[f])
                  THEN [fresh[f] EXCEPT !.t = old[f].t, !.h = Max({@, old[f].h}),
                                        !.redated = @ /\ old[f].redated]
                  ELSE fresh[f]
        all    == DOMAIN fresh \cup DOMAIN old
        kept   == {f \in all : Place(f, all) < EntryLimit}
    IN  [form |-> "ok", gen |-> pass.now, canary |-> pass.canary, version |-> pass.version,
         recs |-> [f \in kept |-> Rec(f)]]

\* sweep_stale_temporaries: any process's, once old enough.
Swept == [q \in Procs |-> IF temps[q].file # NoFile /\ clock - temps[q].at > TempAge
                          THEN [file |-> NoFile, at |-> 0] ELSE temps[q]]

\* store: the merge is written to this process's temporary (create_private
\* replaces one a process of the same number left behind).
StoreTemp(p) ==
    /\ passes[p].at = "write"
    /\ temps' = [Swept EXCEPT ![p] = [file |-> write_merged(cacheFile, passes[p]), at |-> clock]]
    /\ Step(p, [passes[p] EXCEPT !.at = "rename"])
    /\ UNCHANGED <<cacheFile, rollupDoc, otherFile>>

Size(file) == 1 + Cardinality(DOMAIN file.recs)

\* enforce_directory_limit: the oldest files go first, this profile's never.
Evicted(file) ==
    LET has(x)  == IF x.there THEN x.size ELSE 0
        total   == Size(file) + has(rollupDoc) + has(otherFile)
        oldest  == IF rollupDoc.there /\ (~otherFile.there \/ rollupDoc.at <= otherFile.at)
                   THEN "rollup" ELSE "other"
        first   == IF total <= DirLimit THEN {} ELSE {oldest}
        rest    == total - (IF first = {"rollup"} THEN has(rollupDoc)
                            ELSE IF first = {"other"} THEN has(otherFile) ELSE 0)
    IN  IF rest <= DirLimit THEN first ELSE {"rollup", "other"}

Gone(x) == [x EXCEPT !.there = FALSE]

\* The rename, which fails when the temporary was swept meanwhile.
StoreRename(p) ==
    LET file == temps[p].file
        out  == Evicted(file)
    IN  /\ passes[p].at = "rename"
        /\ IF file = NoFile THEN UNCHANGED <<cacheFile, rollupDoc, otherFile>>
           ELSE /\ cacheFile' = file
                /\ rollupDoc' = IF "rollup" \in out THEN Gone(rollupDoc) ELSE rollupDoc
                /\ otherFile' = IF "other" \in out THEN Gone(otherFile) ELSE otherFile
        /\ temps' = [temps EXCEPT ![p] = [file |-> NoFile, at |-> 0]]
        /\ Step(p, [passes[p] EXCEPT !.at = "rollup"])

\* store_rollup: a scoped pass never overwrites the profile's totals.
store_rollup(p) ==
    LET pass == passes[p]
    IN  /\ pass.at = "rollup"
        /\ rollupDoc' = IF pass.scoped THEN rollupDoc
                        ELSE [there |-> TRUE, size |-> 1, at |-> clock, observed |-> pass.now,
                              version |-> pass.version,
                              reused |-> Cardinality(DOMAIN pass.served),
                              oldest |-> IF pass.served = <<>> THEN pass.now
                                         ELSE Min({pass.served[f].t : f \in DOMAIN pass.served}),
                              in_sync |-> Cardinality({f \in comparison(pass) :
                                                          pass.ld[f] = pass.rd[f]})]
        /\ temps' = Swept
        /\ Step(p, NoPass)
        /\ UNCHANGED <<cacheFile, otherFile>>

-----------------------------------------------------------------------------
(* The world.                                                                  *)

\* Nothing more is of interest once the last pass is over.
Watched == \E p \in Procs : left[p] > 0 \/ passes[p].at # "idle"

Tick ==
    /\ Watched /\ clock < MaxNow /\ clock' = clock + 1
    /\ UNCHANGED <<worldVars, version, cacheDir, dirVars, aggregate, passes, left, faults>>

World(newDisk, newNas) ==
    /\ Watched /\ edits < MaxEdits /\ edits' = edits + 1
    /\ disk' = newDisk /\ nas' = newNas
    /\ UNCHANGED <<clock, version, cacheDir, dirVars, aggregate, passes, left, faults>>

\* A file is written in place; its time is now, or is set back to any other
\* (`cp -p`, `touch -r`, a rollback), the one it had included.
EditLocal(f, b, m) ==
    /\ b # disk[f].body \/ m # disk[f].m
    /\ World([disk EXCEPT ![f] = [body |-> b, m |-> m, id |-> @.id, reused |->
                  IF m = clock THEN @.reused ELSE @.reused \cup {<<m, @.id>>}]], nas)
\* Another file, of its own and older time, takes its place. (One that is given
\* the identity of the file it replaces is as good as written in place.)
ReplaceLocal(f, b) ==
    /\ b # disk[f].body
    /\ World([disk EXCEPT ![f].body = b, ![f].m = 0, ![f].id = @ + 1], nas)
DeleteLocal(f) ==
    disk[f].body # None /\ World([disk EXCEPT ![f].body = None, ![f].m = clock, ![f].id = @ + 1], nas)

\* `blurred`: rewritten within the second its time already shows, or its time
\* set back.
EditRemote(f, b, rm) ==
    /\ b # nas[f].body
    /\ World(disk, [nas EXCEPT ![f] = [body |-> b, rm |-> rm, at |-> clock,
                                       blurred |-> rm # clock \/ @.at = clock]])

Upgrade ==
    /\ version = 1 /\ version' = 2 /\ Watched /\ edits < MaxEdits /\ edits' = edits + 1
    /\ UNCHANGED <<clock, disk, nas, cacheDir, dirVars, aggregate, passes, left, faults>>

\* A pass is killed: what it has on disk stays (elsewhere it has left nothing).
Kill(p) ==
    /\ faults < MaxFaults /\ faults' = faults + 1 /\ passes[p].at \in {"claim", "rename", "rollup"}
    /\ passes' = [passes EXCEPT ![p] = NoPass]
    /\ UNCHANGED <<clock, worldVars, version, cacheDir, dirVars, aggregate, left>>

\* Power is lost: the file, which nothing synced, may be torn, empty or noise.
PowerLoss(form) ==
    /\ faults < MaxFaults /\ faults' = faults + 1 /\ cacheFile.form = "ok" /\ Watched
    /\ passes' = [p \in Procs |-> NoPass]
    /\ cacheFile' = [cacheFile EXCEPT !.form = form,
                        !.recs = IF form = "cut" /\ Len(PathSeq) > 0
                                 THEN [f \in DOMAIN @ \ {PathSeq[Len(PathSeq)]} |-> @[f]] ELSE @]
    /\ temps' = [p \in Procs |-> [file |-> NoFile, at |-> 0]]
    /\ UNCHANGED <<clock, worldVars, version, cacheDir, rollupDoc, otherFile, aggregate, left>>

\* trees_overlap: one path is the other or lies beneath it; an empty one never.
trees_overlap(left_, right_) ==
    /\ left_ # <<>> /\ right_ # <<>>
    /\ IsPrefix(left_, right_) \/ IsPrefix(right_, left_)

\* RollupState::from_stats and RollupState::add, on the counts a pass records.
MyDoc == [profile |-> "mine", schema |-> TRUE, version |-> rollupDoc.version, readable |-> TRUE,
          complete |-> TRUE, observed |-> rollupDoc.observed, in_sync |-> rollupDoc.in_sync,
          source |-> <<"src">>, remote |-> <<"share", "mine">>]

\* compose_rollups: foreign, torn and unreadable documents are named, not counted;
\* overlapping trees have no total; complete needs every expected profile, walked whole.
compose_rollups(docs, expected, now) ==
    LET good  == {d \in docs : d.readable /\ d.schema /\ d.version = version}
        never == {n \in Range(expected) : ~ \E d \in good : d.profile = n}
        clash == \E d, e \in good : d # e /\ (trees_overlap(d.source, e.source)
                                              \/ trees_overlap(d.remote, e.remote))
    IN  [generated |-> now, observed |-> Cardinality(good), never |-> never,
         complete |-> expected # <<>> /\ never = {} /\ \A d \in good : d.complete,
         oldest |-> IF good = {} THEN 0 ELSE Min({d.observed : d \in good}),
         overlapping |-> clash, totalled |-> ~clash /\ good # {},
         total |-> IF clash THEN 0 ELSE FoldSet(LAMBDA d, n : n + d.in_sync, 0, good),
         issues |-> Cardinality(docs \ good)]

run_status_rollup(ask) ==
    /\ ~Watched /\ aggregate = <<>>
    /\ aggregate' = <<compose_rollups(ask.docs \cup (IF rollupDoc.there THEN {MyDoc} ELSE {}),
                                      ask.expected, clock)>>
    /\ UNCHANGED <<clock, worldVars, version, cacheDir, dirVars, passes, left, faults>>

CacheInit ==
    /\ clock = 2 /\ version = 1 /\ edits = 0 /\ faults = 0
    /\ disk = FirstDisk /\ nas = FirstNas
    /\ \E scene \in Scenes : cacheDir = scene.dir /\ cacheFile = scene.file /\ left = scene.passes
    /\ temps = [p \in Procs |-> [file |-> NoFile, at |-> 0]]
    /\ rollupDoc = [there |-> FALSE, size |-> 1, at |-> 0, observed |-> 0, version |-> 0,
                    reused |-> 0, oldest |-> 0, in_sync |-> 0]
    /\ otherFile = [there |-> TRUE, size |-> 1, at |-> 1]
    /\ aggregate = <<>>
    /\ passes = [p \in Procs |-> NoPass]

PassKinds == {k \in [refresh : BOOLEAN, scoped : BOOLEAN] : ~(k.refresh /\ k.scoped)}

PassStep(p) ==
    \/ WriteMarker(p) \/ ScanLocal(p) \/ serve(p) \/ HashLocal(p) \/ HashRemote(p)
    \/ StoreTemp(p) \/ StoreRename(p) \/ store_rollup(p)

CacheNext ==
    \/ \E p \in Procs : \/ PassStep(p) \/ Kill(p)
                        \/ \E k \in PassKinds : OpenPass(p, k.refresh, k.scoped)
    \/ Tick \/ Upgrade
    \/ \E ask \in RollupAsks : run_status_rollup(ask)
    \/ \E f \in Edited : \/ DeleteLocal(f)
                         \/ \E b \in Bodies :
                               \/ ReplaceLocal(f, b)
                               \/ \E m \in 0..clock : EditLocal(f, b, m) \/ EditRemote(f, b, m)
    \/ \E form \in {"cut", "empty", "garbled"} : PowerLoss(form)

-----------------------------------------------------------------------------
\* The bytes changed while size, time and identity did not (status_cache.rs:38).
Disguised(f, sight) == <<sight.m, sight.id>> \in disk[f].reused

(* A digest served from the cache is the digest of the file as this pass       *)
(* scanned and listed it, whatever other passes, edits, kills and torn files   *)
(* came before, with the exceptions the code names: a local file that got      *)
(* other bytes under the time and identity it shows, and a remote one that was *)
(* rewritten within its own second or had its time set back.                   *)
ServedTrue ==
    \A p \in Procs : \A f \in DOMAIN passes[p].served :
        /\ passes[p].served[f].l = passes[p].local[f].body \/ Disguised(f, passes[p].local[f])
        /\ passes[p].served[f].r = passes[p].remote[f].body \/ passes[p].remote[f].blurred

(* Evidence never outlives --status-cache-max-age: a served digest was really  *)
(* read within it, however often the record was carried, merged and rewritten, *)
(* unless a pass that ran along had removed its record, or replaced it by      *)
(* other evidence, by the time it was stored: then it is dated anew.           *)
AgeBounded ==
    \A p \in Procs : \A f \in DOMAIN passes[p].served :
        passes[p].served[f].redated \/ passes[p].now - passes[p].served[f].h <= MaxAge

(* What the cache serves is true, disguised edits apart, and young enough      *)
(* (status_cache.rs:1065).                                                     *)
CacheTrue == ServedTrue /\ AgeBounded
=============================================================================
