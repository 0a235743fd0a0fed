------------------------------ MODULE SyncRun ------------------------------
(***************************************************************************)
(* One run of `sdsync`, from the scan of the source to the exit code: a    *)
(* sync, a plan or a confirmed resync.  Other programs edit the source and *)
(* other clients write to the NAS while it works, and it may be cancelled. *)
(*                                                                         *)
(* The executor's own interleavings are the subject of Executor; here the  *)
(* plan is carried out in one step, phase by phase, with the checks the    *)
(* executor makes before each write.                                       *)
(***************************************************************************)
EXTENDS Planner

SX == INSTANCE SequencesExt

CONSTANTS Scenarios,   \* the runs and worlds to start from
          SourceEdits, \* [path -> node or Gone] one-path edits of the source
          NasEdits,    \* one-path edits of the destination
          Started,     \* the second the run started at
          MaxEdits     \* bound: edits by others during the run

\* An edit leaves at most one node at its path.
ASSUME RunAssumption ==
    /\ Started \in Nat /\ MaxEdits \in Nat
    /\ \A e \in SourceEdits \cup NasEdits : \A x, y \in e.node : x = y

VARIABLES job,      \* the scenario's settings: opts, mode, excludes, faults
          source,   \* the source folder
          nas,      \* the destination as it is
          pc, cancelled, edits,
          local, remote, listing,    \* what the run has seen
          plan, deferred,            \* what it decided
          verdict,                   \* how it ended: record, exit, log
          ticket,                    \* the resync ticket shown last
          made, lost, changed        \* history: what it wrote, what it destroyed

vars == <<job, source, nas, pc, cancelled, edits, local, remote, listing, plan, deferred, verdict, ticket,
          made, lost, changed>>
seenVars == <<local, remote, listing>>
worldVars == <<job, source, nas, edits>>
historyVars == <<made, lost, changed>>

NoPlan == PlanError("none")
NoInventory == [entries |-> [p \in {} |-> 0], skipped |-> {}, excluded |-> {}, complete |-> TRUE]
NoRemote == [root |-> TRUE, entries |-> [p \in {} |-> 0]]
NoListing == [incomplete |-> {}, skipped |-> {}, vanished |-> {}]
Running == [record |-> "none", exit |-> "none", log |-> "none"]

Init ==
    /\ \E s \in Scenarios : scope_parse(s.job.opts.scope) # {} /\ job = s.job /\ source = s.source /\ nas = s.nas
    /\ pc = "scan" /\ cancelled = FALSE /\ edits = 0
    /\ local = NoInventory /\ remote = NoRemote /\ listing = NoListing
    /\ plan = NoPlan /\ deferred = {} /\ verdict = Running /\ ticket = {}
    /\ made = {} /\ lost = {} /\ changed = 0

TheRules == CHOOSE r \in build(source, job.excludes) : TRUE
TheScope == CHOOSE scope \in scope_parse(job.opts.scope) : TRUE

\* A resync forces every upload and never deletes; the run is reconciled
\* with the comparison the settings name, which is never force.
Resync == job.mode \in {"resync-plan", "resync"}
effective_compare_mode == IF Resync THEN "force" ELSE job.opts.compare
reconciliation_compare_mode == job.opts.compare
run_plan_options == [job.opts EXCEPT !.delete = @ /\ ~ Resync, !.compare = effective_compare_mode]

PlanOnly == job.mode \in {"plan", "resync-plan"}

(***************************************************************************)
(* The end of a run: the result record, the last log event, the exit code. *)
(***************************************************************************)
is_partial(defs) == \E d \in defs : ~ is_lasting(d.reason)

run_is_partial(pl, defs, completed) ==
    IF completed THEN is_partial(defs) ELSE \E s \in pl.skipped : skip_is_transient_deferral(s)

changes_completion(pl, stop) ==
    IF stop THEN "cancelled"
    ELSE IF job.changes_exit_code /\ ~ PlanEmpty(pl) THEN "changes" ELSE "ok"

partial_completion(partial, exit) == IF partial /\ exit # "cancelled" THEN "partial" ELSE exit

End(v) == pc' = "done" /\ verdict' = v

\* A run that produced a plan and no failure.
Finished(pl, defs, completed, stop) ==
    LET partial == run_is_partial(pl, defs, completed)
    IN [record |-> IF Resync THEN "none" ELSE IF PlanOnly THEN "planned" ELSE IF completed /\ is_partial(defs) THEN "partial" ELSE "complete",
        log    |-> IF partial THEN "run-partial" ELSE "run-completed",
        exit   |-> partial_completion(partial, IF job.mode \in {"sync", "plan"} THEN changes_completion(pl, stop)
                                               ELSE IF stop THEN "cancelled" ELSE "ok")]

\* The token is looked at once more after everything is written down.
EndFinished(pl, defs, completed) ==
    \E stop \in {FALSE, job.mayCancel} : End(Finished(pl, defs, completed, stop))

Failed(why) == [record |-> IF Resync THEN "none" ELSE "failed", log |-> "run-failed", exit |-> why]

\* A confirmed resync whose plan is no longer the one confirmed: no record
\* is written, the new plan is shown and its ticket offered.
StaleTicket == [record |-> "none", log |-> "run-failed", exit |-> "changes"]

Fail(why) == End(Failed(why)) /\ UNCHANGED <<worldVars, cancelled, seenVars, plan, deferred, ticket, historyVars>>

\* Every step begins with a check of the token.
Live(label) == pc = label /\ ~ cancelled

Stopped ==
    /\ pc \notin {"done"} /\ cancelled
    /\ Fail("cancelled")

(***************************************************************************)
(* Scanning, listing, planning.                                            *)
(***************************************************************************)
ScanLocal ==
    /\ Live("scan")
    /\ IF build(source, job.excludes) = {} THEN Fail("config")
       ELSE LET got == scan_scoped(source, TheRules, TheScope, FALSE, 1000)
            IN IF got = {} THEN Fail("source")
               ELSE /\ local' = CHOOSE inv \in got : TRUE
                    /\ pc' = "list"
                    /\ UNCHANGED <<worldVars, cancelled, remote, listing, plan, deferred, verdict, ticket, historyVars>>

\* The listing names what is there and not what is in it; an entry it will
\* not follow is reported and left out, and a mount is not entered.
Listed(n, scope) ==
    [root    |-> n.root,
     entries |-> [p \in {q \in DOMAIN n.entries : (matches(scope, q) \/ is_ancestor_of_scope(scope, q))
                            /\ q \notin n.unfollowed
                            /\ \A m \in Ancestors(q) : n.entries[m].mount = "none"} |->
                    [n.entries[p] EXCEPT !.print = "none"]]]

ListingOf(n) == [incomplete |-> n.short, vanished |-> {},
                 skipped |-> {[relative |-> p, unlistable |-> FALSE, excluded |-> FALSE] : p \in n.unfollowed}]

require_scope_present(scope, loc, rem) == scope = <<>> \/ scope \in Keys(loc) \cup Keys(rem)

ListRemote ==
    /\ Live("list")
    /\ LET rem == Listed(nas, TheScope)
       IN IF ~ check_link_boundaries(rem) THEN Fail("real-path-unusable")
          ELSE IF ~ require_scope_present(TheScope, local, rem) THEN Fail("scope-missing")
          ELSE /\ remote' = rem
               /\ listing' = ListingOf(nas)
               /\ local' = withhold_scope_spelling_conflicts(TheScope, local, rem, nas, nas.short = {})
               /\ pc' = "compare"
               /\ UNCHANGED <<worldVars, cancelled, plan, deferred, verdict, ticket, historyVars>>

\* `out` is a plan with what it defers so far; `g` goes further with it.
Further(out, g) == [plan |-> g.plan, deferred |-> out.deferred \cup g.deferred]

PastListings(out, lst) == Further(out, withhold_deletions_in_incomplete_listings(out.plan, lst.incomplete))
PastSkipped(out, lst) == Further(out, protect_skipped_remote_entries(out.plan, lst.skipped))
PastCommas(out, rem, n) == Further(out, withhold_comma_ambiguous_mutations(out.plan, rem, n))
PastSkips(out) == [out EXCEPT !.deferred = @ \cup deferrals_in_plan_skips(out.plan, @)]
Promoted(disk, out) == Further(out, promote_upload_fingerprints_deferring(disk, out.plan))
WrittenDown(out) == [out EXCEPT !.plan = record_deferrals_in_plan(@, out.deferred)]

\* The plan for digested inventories and everything withheld from it, in
\* the run's order.
DecideBy(dig, n, lst, o) ==
    LET first == [plan     |-> build_plan(dig.local, dig.remote, TheRules, o, job.tooLong),
                  deferred |-> dig.deferred \cup vanished_remote_folder_deferrals(lst.vanished)]
    IN PastSkips(PastCommas(PastSkipped(PastListings(first, lst), lst), dig.remote, n))

Decide(disk, n, loc, rem, lst, o) ==
    DecideBy(populate_plan_digests_with_listings(disk, n, loc, rem, TheRules, o, lst.incomplete, job.broken),
             n, lst, o)

\* The plan a run shows or carries out: uploads proven in full.
Prepare(disk, n) == WrittenDown(Promoted(disk, Decide(disk, n, local, remote, listing, run_plan_options)))

\* What a confirmation binds: every upload with its size and body.
resync_ticket(pl) == {[relative |-> u.relative, size |-> u.local.size, body |-> u.local.body] : u \in pl.uploads}

Guarded(pl) == job.mode # "resync" \/ ticket = {resync_ticket(pl)}

\* A short listing or a lasting skip makes even an empty run report itself.
Reports(pl, defs) == defs # {} \/ listing.incomplete # {} \/ \E s \in pl.skipped : ~ IsDeferral(s)

BuildPlan ==
    /\ Live("compare")
    /\ \E out \in {Prepare(source.disk, nas)} :
          IF out.plan.error # "none" THEN Fail(out.plan.error)
          ELSE IF ~ Guarded(out.plan)
          THEN /\ End(StaleTicket) /\ ticket' = {resync_ticket(out.plan)}
               /\ UNCHANGED <<worldVars, cancelled, seenVars, plan, deferred, historyVars>>
          ELSE /\ plan' = out.plan /\ deferred' = out.deferred
               /\ ticket' = IF job.mode = "resync-plan" THEN {resync_ticket(out.plan)} ELSE ticket
               /\ IF PlanOnly THEN EndFinished(out.plan, out.deferred, FALSE)
                  ELSE IF PlanEmpty(out.plan)
                  THEN EndFinished(out.plan, out.deferred, Reports(out.plan, out.deferred))
                  ELSE pc' = "execute" /\ UNCHANGED verdict
               /\ UNCHANGED <<worldVars, cancelled, seenVars, historyVars>>

(***************************************************************************)
(* Carrying the plan out.  `w` is the destination and what is known of it  *)
(* so far: [entries, deferred, made, lost].                                *)
(***************************************************************************)
Without(f, S) == [p \in DOMAIN f \ S |-> f[p]]
With(f, p, e) == [q \in DOMAIN f \cup {p} |-> IF q = p THEN e ELSE f[q]]

RemoteDir == [kind |-> "dir", size |-> 0, mtime |-> 0, body |-> 0, print |-> "none", mount |-> "none"]
RemoteFile(l) == [kind |-> "file", size |-> l.size, body |-> l.body, print |-> "none", mount |-> "none",
                  mtime |-> IF job.keepsTime THEN local_mtime_seconds(l) ELSE Started + 2]

\* The entry is still what the plan saw.
snapshot_holds(entries, p, snap) ==
    /\ p \in DOMAIN entries
    /\ LET e == entries[p]
       IN e.kind = snap.kind /\ e.size = snap.size /\ e.body = snap.body /\ (snap.require_mtime => e.mtime = snap.mtime)

\* sort_plan: deletes from the leaves up, everything else from the root down.
LeavesFirst(S) == SX!SetToSortSeq(S, LAMBDA a, b : Len(a.relative) > Len(b.relative)
                                       \/ (Len(a.relative) = Len(b.relative) /\ Before(a.relative, b.relative)))
RootsFirst(S) == SX!SetToSortSeq(S, LAMBDA a, b : Len(a.relative) < Len(b.relative)
                                       \/ (Len(a.relative) = Len(b.relative) /\ Before(a.relative, b.relative)))

Defer(w, p, why) == [w EXCEPT !.deferred = @ \cup {Deferral(p, why)}]

\* Sources that changed since the scan are deferred before anything else.
PreflightSources(w, pl) ==
    LET stale == {a \in pl.uploads : ~ verify_metadata_snapshot(source.disk, a.relative, a.local)}
        gone  == {a \in pl.copies : ~ verify_metadata_snapshot(source.disk, a.relative, a.local)}
    IN [w EXCEPT !.deferred = @ \cup {Deferral(a.relative, for_local_error(source.disk, a.relative)) : a \in stale}
                                \cup {Deferral(a.relative, for_local_error(source.disk, a.relative)) : a \in gone}]

\* One delete, if nothing speaks against it any more.
DeleteOne(w, a) ==
    IF /\ snapshot_holds(w.entries, a.relative, a.snapshot)
       /\ \A q \in DOMAIN w.entries : ~ Under(q, a.relative)
       /\ a.conflict \/ ~ entry_at(source.disk, a.local_relative).found
    THEN [w EXCEPT !.entries = Without(@, {a.relative}),
                   !.lost = @ \cup {[path |-> a.relative, entry |-> w.entries[a.relative]]}]
    ELSE Defer(w, a.relative, IF a.relative \in DOMAIN w.entries THEN "remote-changed" ELSE "delete-failed")

\* Where a write lands: no file stands in its way, and folders are made.
CanLand(w, p) == \A q \in Ancestors(p) : q \notin DOMAIN w.entries \/ ~ IsFile(w.entries[q])
Parents(w, p) == [q \in DOMAIN w.entries \cup Ancestors(p) |-> IF q \in DOMAIN w.entries THEN w.entries[q] ELSE RemoteDir]

CreateOne(w, c) ==
    IF covering(w.deferred, c.relative) THEN w
    ELSE IF CanLand(w, c.to) /\ (c.to \notin DOMAIN w.entries \/ ~ IsFile(w.entries[c.to]))
    THEN [w EXCEPT !.entries = IF c.to = <<>> THEN @ ELSE With(Parents(w, c.to), c.to, RemoteDir),
                   !.made = @ \cup {[path |-> c.to, body |-> 0]}]
    ELSE Defer(w, c.relative, "remote-refused")

\* A file is written over the one the plan saw, or where there was none.
Land(w, p, e) ==
    [w EXCEPT !.entries = With(Parents(w, p), p, e),
              !.made = @ \cup {[path |-> p, body |-> e.body]},
              !.lost = @ \cup (IF p \in DOMAIN w.entries THEN {[path |-> p, entry |-> w.entries[p]]} ELSE {})]

\* Mutant: the destination is taken to be as it was listed.
upload_precondition_trusted(w, u) == u.over \/ u.to \notin DOMAIN w.entries

upload_precondition_holds(w, u) ==
    IF u.over
    THEN /\ u.to \in DOMAIN w.entries /\ u.to \in Keys(remote)
         /\ w.entries[u.to].kind = "file" /\ w.entries[u.to].size = remote.entries[u.to].size
         /\ w.entries[u.to].mtime = remote.entries[u.to].mtime
    ELSE u.to \notin DOMAIN w.entries

UploadOne(w, u) ==
    IF covering(w.deferred, u.relative) THEN w
    ELSE IF ~ upload_precondition_holds(w, u) \/ ~ CanLand(w, u.to) THEN Defer(w, u.relative, "remote-changed")
    ELSE LET sent == source.disk[u.relative].body     \* the body streamed is the one on disk
             landed == Land(w, u.to, RemoteFile([u.local EXCEPT !.body = sent]))
         IN IF sent = u.local.body THEN landed ELSE Defer(landed, u.relative, "source-changed")

CopyOne(w, c) ==
    IF covering(w.deferred, c.relative) THEN w
    ELSE IF c.to \in DOMAIN w.entries \/ ~ CanLand(w, c.to) \/ c.from \notin DOMAIN w.entries
            \/ w.entries[c.from].body # c.local.body \/ w.entries[c.from].kind # "file"
    THEN Defer(w, c.relative, "remote-changed")
    ELSE Land(w, c.to, w.entries[c.from])

\* A delete after the writes also stands back for anything deferred under
\* another spelling, and for the copy that reads from it.
PostDeleteOne(w, a) ==
    IF spelling_related(w.deferred, a.relative) \/ \E p \in a.guard : covering(w.deferred, p)
    THEN Defer(w, a.relative, "remote-changed") ELSE DeleteOne(w, a)

PreDeleteOne(w, a) == IF covering(w.deferred, a.relative) THEN w ELSE DeleteOne(w, a)

\* The remote entry takes the source's spelling, unless that is held.
RenameOne(w, n) ==
    LET to == Append(Parent(n.from), Nfc[Name(n.relative)])
        move(q) == IF AtOrUnder(q, n.from) THEN to \o SubSeq(q, Len(to) + 1, Len(q)) ELSE q
    IN IF \/ n.from \notin DOMAIN w.entries \/ to \in DOMAIN w.entries
          \/ relates_to(w.deferred, n.relative)
       THEN Defer(w, n.relative, "case-rename-pending")
       ELSE [w EXCEPT !.entries = [p \in {move(q) : q \in DOMAIN w.entries} |->
                                     w.entries[CHOOSE q \in DOMAIN w.entries : move(q) = p]],
                      !.made = @ \cup {[path |-> to, body |-> 0]}]

CarryOut(pl) ==
    LET w0 == PreflightSources([entries |-> nas.entries, deferred |-> {}, made |-> {}, lost |-> {}], pl)
        w1 == SX!FoldLeft(PreDeleteOne, w0, LeavesFirst(pl.pre_deletes))
        w2 == SX!FoldLeft(CreateOne, w1, RootsFirst(pl.creates))
        w3 == SX!FoldLeft(CopyOne, w2, RootsFirst(pl.copies))
        w4 == SX!FoldLeft(UploadOne, w3, RootsFirst(pl.uploads))
        w5 == SX!FoldLeft(PostDeleteOne, w4, LeavesFirst(pl.post_deletes))
    IN SX!FoldLeft(RenameOne, w5, LeavesFirst(pl.renames))

add_deferred(defs, extra) == defs \cup {d \in extra : ~ \E e \in defs : e.relative = d.relative}

Execute ==
    /\ Live("execute")
    /\ LET w == CarryOut(plan)
       IN /\ nas' = [nas EXCEPT !.entries = w.entries, !.root = @ \/ plan.creates # {}]
          /\ deferred' = add_deferred(deferred, w.deferred)
          /\ made' = w.made /\ lost' = w.lost
    /\ pc' = "reconcile"
    /\ UNCHANGED <<job, source, edits, cancelled, seenVars, plan, verdict, ticket, changed>>

\* Source and destination are read again and planned for again; what is
\* left to do must be deferred or have changed while the run worked.
Rebuilt ==
    LET scanned == scan_scoped(source, TheRules, TheScope, FALSE, 1000)
        opts == reconciliation_options(run_plan_options, reconciliation_compare_mode)
    IN Decide(source.disk, nas, CHOOSE inv \in scanned : TRUE, Listed(nas, TheScope), ListingOf(nas), opts)

Reconcile ==
    /\ Live("reconcile")
    /\ \E again \in {Rebuilt} :
       LET defs == add_deferred(deferred, again.deferred)
           judged == ensure_reconciled(source.disk, plan, again.plan, Started, defs)
       IN IF again.plan.error # "none" THEN Fail(again.plan.error)
          ELSE IF judged = {} THEN Fail("reconciliation-pending")
          ELSE /\ deferred' = defs
               /\ changed' = CHOOSE n \in judged : TRUE
               /\ EndFinished(plan, defs, TRUE)
               /\ UNCHANGED <<worldVars, cancelled, seenVars, plan, ticket, made, lost>>

\* The user reads the ticket and confirms it: a new run, in a new process.
Confirm ==
    /\ pc = "done" /\ job.mode = "resync-plan" /\ verdict.exit # "cancelled" /\ ticket # {}
    /\ job' = [job EXCEPT !.mode = "resync"]
    /\ pc' = "scan" /\ cancelled' = FALSE
    /\ local' = NoInventory /\ remote' = NoRemote /\ listing' = NoListing
    /\ plan' = NoPlan /\ deferred' = {} /\ verdict' = Running
    /\ made' = {} /\ lost' = {} /\ changed' = 0
    /\ UNCHANGED <<source, nas, edits, ticket>>

(***************************************************************************)
(* Everyone else.                                                          *)
(***************************************************************************)
\* An edit is [path, node]; the set of nodes is empty when the path goes.
Rooted(f, p) == \A q \in Ancestors(p) : q \in DOMAIN f /\ f[q].kind = "dir"
Edited(f, e) == IF e.node = {} THEN Without(f, {q \in DOMAIN f : AtOrUnder(q, e.path)})
                ELSE With(Without(f, {q \in DOMAIN f : Under(q, e.path)}), e.path, CHOOSE x \in e.node : TRUE)

EditSource(e) ==
    /\ pc # "done" /\ pc # "scan" /\ edits < MaxEdits
    /\ Rooted(source.disk, e.path) /\ (e.node = {} => e.path \in DOMAIN source.disk)
    /\ source' = [source EXCEPT !.disk = Edited(@, e)]
    /\ edits' = edits + 1
    /\ UNCHANGED <<job, nas, pc, cancelled, seenVars, plan, deferred, verdict, ticket, historyVars>>

EditNas(e) ==
    /\ pc # "done" /\ pc # "scan" /\ edits < MaxEdits
    /\ Rooted(nas.entries, e.path) /\ (e.node = {} => e.path \in DOMAIN nas.entries)
    /\ nas' = [nas EXCEPT !.entries = Edited(@, e)]
    /\ edits' = edits + 1
    /\ UNCHANGED <<job, source, pc, cancelled, seenVars, plan, deferred, verdict, ticket, historyVars>>

\* A signal.
Cancel ==
    /\ pc # "done" /\ ~ cancelled /\ job.mayCancel
    /\ cancelled' = TRUE
    /\ UNCHANGED <<worldVars, pc, seenVars, plan, deferred, verdict, ticket, historyVars>>

Next ==
    \/ ScanLocal \/ ListRemote \/ BuildPlan \/ Execute \/ Reconcile \/ Stopped \/ Confirm \/ Cancel
    \/ \E e \in SourceEdits : EditSource(e)
    \/ \E e \in NasEdits : EditNas(e)

Spec == Init /\ [][Next]_vars

(***************************************************************************)
(* Properties.                                                             *)
(***************************************************************************)

\* An entry no run may touch: a rule excludes it under any composition of
\* its name, DSM owns it, it is or lies beneath a mount, or the listing
\* would not follow it.
KeptByRule(p) ==
    \/ is_dsm_managed(p) \/ excludes_for_deletion(TheRules, p) \/ p \in nas.unfollowed
    \/ \E q \in Ancestors(p) \cup {p} : q \in DOMAIN nas.entries /\ nas.entries[q].mount # "none"

\* The run said it would leave this path, or something that shares its
\* folded spelling, alone; or the second plan finds a conflict there that
\* arose since.
Excepted(p, again) ==
    spelling_related({Deferral(s.relative, s.reason) : s \in plan.skipped \cup again.skipped} \cup deferred, p)

HoldsIt(p, e, inv) ==
    \E r \in DOMAIN nas.entries :
        /\ nfc(r) = nfc(p) /\ nas.entries[r].kind = e.kind
        /\ IsFile(e) => /\ nas.entries[r].size = e.size
                        /\ job.opts.compare = "content" => nas.entries[r].body = source.disk[p].body

\* A run that ends as complete or partial, without a path that changed
\* under it, leaves a mirror: every source entry it did not except is on
\* the NAS, and with deletion nothing else is but what rules keep
\* (ensure_reconciled and build_plan, under edits by others).
Mirrors(inv, again) ==
    /\ \A p \in Keys(inv) : Excepted(p, again) \/ HoldsIt(p, inv.entries[p], inv)
    /\ run_plan_options.delete =>
          \A r \in DOMAIN nas.entries :
             \/ ~ matches(TheScope, r) \/ Excepted(r, again) \/ \E p \in Keys(inv) : nfc(p) = nfc(r)
             \/ \E q \in DOMAIN nas.entries : AtOrUnder(q, r) /\ (KeptByRule(q) \/ \E k \in Keys(inv) : nfc(k) = nfc(q))

MirrorComplete ==
    (pc = "done" /\ ~ PlanOnly /\ verdict.log \in {"run-completed", "run-partial"} /\ changed = 0
        /\ (edits = 0 \/ ~ PlanEmpty(plan))) =>
    Mirrors(CHOOSE i \in scan_scoped(source, TheRules, TheScope, FALSE, 1000) : TRUE, Rebuilt.plan)

\* What `status` would have said when the plan was made, of the same two
\* inventories: the files it calls different or missing.
StatusQuery == [scope |-> TheScope, compare |-> job.opts.compare, states |-> Attention, names |-> {}, excluded |-> FALSE,
                limit |-> 2, cursor |-> {}, whole |-> [local |-> TRUE, remote |-> TRUE]]
StatusNow(q) ==
    LET dig == populate_plan_digests_with_listings(source.disk, nas, local, remote, TheRules, run_plan_options, listing.incomplete, job.broken)
    IN build_status_page(dig.local, dig.remote, {}, TheRules, q)

\* The files of a page that are not as they should be.
NamedBy(rows) ==
    {row.relative : row \in {r \in {rows[i] : i \in DOMAIN rows} : r.state # "remote-only" /\ r.kind = "file"}}

Foretells(said, again) ==
    LET sent == {u.relative : u \in plan.uploads \cup plan.copies}
        renamed == {p \in said : \E n \in plan.renames : AtOrUnder(p, n.relative)}
    IN sent \subseteq said /\ \A p \in said \ (sent \cup renamed) : Excepted(p, again)

\* Status and plan agree: a file the plan uploads or copies is on no page
\* as being in sync, and one that a page shows as different, missing or of
\* the wrong kind is uploaded, copied, renamed or reported as left alone
\* (plan.rs classify against build_plan: two readings of one comparison).
StatusForetellsPlan ==
    ((pc = "execute" \/ (pc = "done" /\ PlanEmpty(plan) /\ verdict.log # "run-failed")) /\ edits = 0 /\ job.mode = "sync") =>
        Foretells(NamedBy(StatusNow([StatusQuery EXCEPT !.limit = PageMax]).entries), Rebuilt.plan)

\* What a step of the executor leaves of an entry: in its place, or carried
\* along under the same folded path by the rename of a folder above it.
Survives(p) == p \in DOMAIN nas'.entries /\ nas'.entries[p] = nas.entries[p]
CarriedAlong(p) == \E q \in DOMAIN nas'.entries :
                      portable_fold(q) = portable_fold(p) /\ nas'.entries[q] = nas.entries[p]

SeenAsIs(p) == /\ p \in Keys(remote) /\ remote.entries[p].kind = nas.entries[p].kind
               /\ remote.entries[p].size = nas.entries[p].size /\ remote.entries[p].mtime = nas.entries[p].mtime

\* Carrying a plan out never removes, overwrites or moves an entry that the
\* rules keep, and never loses one that another client wrote since it was
\* listed (is_protected, Shield, the guards, and the live checks).
KeptEntriesSurvive ==
    [][(pc = "execute" /\ pc' = "reconcile") =>
         \A p \in DOMAIN nas.entries :
            /\ KeptByRule(p) /\ p \in Keys(remote) => Survives(p)
            /\ ~ SeenAsIs(p) => CarriedAlong(p)]_vars

\* Carrying a plan out never puts two spellings side by side that a
\* case-insensitive client could not hold (resolve_spellings,
\* skip_portable_case_collisions, withhold_scope_spelling_conflicts).  A
\* folder replaced by a file of another case is the one exception the
\* planner makes: the new one is written before the old one is deleted.
NoNewCollision ==
    [][(pc = "execute" /\ pc' = "reconcile") =>
         \A p \in DOMAIN nas'.entries \ (DOMAIN nas.entries \cup Keys(remote)) :
            \A q \in DOMAIN nas'.entries :
               (q # p /\ portable_fold(q) = portable_fold(p) /\ names_differ(p, q)) =>
                  /\ q \in Keys(remote) => remote.entries[q].kind # nas'.entries[p].kind
                  /\ q \notin {x.path : x \in made'}]_vars

\* Carrying out a plan harms nothing the plan was not about: no kept entry,
\* no other client's, and no name another client could not tell apart
\* (plan.rs is_protected and resolve_spellings, sync.rs:2123).
MirrorSafe == KeptEntriesSurvive /\ NoNewCollision

\* A confirmed resync deletes nothing and writes only bytes that the ticket
\* the user confirmed was computed from (run_resync, resync_ticket).
ConfirmedBytesOnly ==
    job.mode = "resync" =>
        /\ \A x \in lost : x.path \in DOMAIN nas.entries \/ edits > 0
        /\ \A m \in made : m.body # 0 =>
              \E t \in UNION ticket : nfc(t.relative) = nfc(m.path) /\ t.body = m.body

\* A run that ends well has done what was asked of it: a mirror, or the
\* resync that was confirmed and nothing else (sync.rs:3394, run_resync).
CompleteMeansMirrored == MirrorComplete /\ ConfirmedBytesOnly

\* The exit code, the result record and the last log event tell one story
\* (run_sync, run_sync_job, partial_completion).
VerdictsAgree ==
    /\ verdict.exit \in {"ok", "changes"} => verdict.record \in {"complete", "planned", "none"}
    /\ verdict.exit = "partial" => verdict.record \in {"partial", "planned", "none"} /\ verdict.log = "run-partial"
    /\ verdict.record = "complete" => verdict.log = "run-completed"
    /\ verdict.record = "partial" => verdict.log = "run-partial"

\* Whatever reports on a run reports the same: its exit code, its record and
\* its log, and the status page computed beside its plan (main.rs run_sync,
\* plan.rs classify).
ReportsTrue == VerdictsAgree /\ StatusForetellsPlan
=============================================================================
