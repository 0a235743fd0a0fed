------------------------------- MODULE Outcomes -------------------------------
(***************************************************************************)
(* How a run's fate reaches the dashboard.  Three processes share files    *)
(* and no memory: the runner (packaging, sdsync-run) takes run.lock,       *)
(* writes run.state and one record per profile, and may be killed between  *)
(* any two of those writes; the controller's reconcile (sdsync-controller) *)
(* rewrites a run.state left at `running` by a runner that is gone; the    *)
(* bridge (dsm_api.rs, snapshot_document and outcomes_value) reads the     *)
(* files one after the other, with no lock, and says what they mean.       *)
(*                                                                         *)
(* A record's epoch is a small number.  runs is a history: what really     *)
(* happened to each run, which no process can read.                        *)
(***************************************************************************)
EXTENDS Integers, Sequences, FiniteSets

CONSTANTS
    Profiles,       \* names of the configured profiles
    Asked,          \* the <<scope, operation>> pairs that are run
    Exits,          \* the exit codes of the sync process
    MaxClock,       \* bound on the wall clock, in seconds
    MaxRuns         \* bound on the number of runs

VARIABLES
    second,         \* the NAS clock
    runLock,        \* run.lock: "absent", "live" or "dead"
    runFile,        \* run.state
    unrecorded,     \* the run.unrecorded marker
    records,        \* state/profiles/<name>.state, per profile
    runner,         \* the runner's own progress
    reconciler,     \* the controller's reconcile
    view,           \* the snapshot being composed, and the last one answered
    runs            \* history: the fate of every run

outcomeVars == <<second, runLock, runFile, unrecorded, records, runner,
                 reconciler, view, runs>>

Covers(scope, p) == scope \in {"all", p}

NoRun == [state |-> "never", started |-> 0, finished |-> 0, exit |-> -1,
          outcome |-> "none", reason |-> "none", scope |-> "none",
          operation |-> "none", aggregate |-> "never"]

NoRecord == [state |-> "none", exit |-> -1, outcome |-> "none",
             reason |-> "none", action |-> "none", finished |-> 0,
             outcome_epoch |-> 0, skipped |-> 0]

\* A sync that went well in an earlier second.
EarlierSuccess == [NoRecord EXCEPT !.state = "succeeded", !.exit = 0,
                     !.outcome = "succeeded", !.action = "sync",
                     !.finished = 1, !.outcome_epoch = 1]

NoMarker == [state |-> "none", outcome |-> "none", started |-> 0,
             scope |-> "none", exit |-> -1, finished |-> 0]

NoRunner == [pc |-> "idle", started |-> 0, scope |-> "none",
         operation |-> "none", exit |-> 0, todo |-> {}]

IdleReconciler == [pc |-> "idle", mode |-> "runner_died", started |-> 0,
                   scope |-> "none", todo |-> {}]

-----------------------------------------------------------------------------
(* What a record means *)

\* completed_outcome: the explicit outcome wins where it agrees with the state
Derived(state, exit) ==
    IF state = "succeeded" THEN "succeeded"
    ELSE CASE exit = 3 -> "partial"
           [] exit = 75 -> "busy"
           [] exit \in {130, 143} -> "cancelled"
           [] OTHER -> "failed"

Agreed ==
    {<<"succeeded", "succeeded">>, <<"succeeded", "partial">>,
     <<"failed", "partial">>, <<"failed", "busy">>, <<"failed", "cancelled">>}

completed_outcome(state, explicit, exit) ==
    CASE explicit \in {"not_run", "unknown"} -> explicit
      [] explicit \notin {"not_run", "unknown"}
            /\ state \notin {"succeeded", "failed"} -> "unknown_state"
      [] <<state, explicit>> \in Agreed -> explicit
      [] OTHER -> Derived(state, exit)

implied_reason(outcome, exit) ==
    CASE outcome = "busy" -> "lock_busy"
      [] outcome = "cancelled" -> "cancelled"
      [] outcome = "failed" /\ exit = 70 -> "supervisor_refused"
      [] OTHER -> "none"

Reason(recorded, outcome, exit) ==
    IF recorded # "none" THEN recorded ELSE implied_reason(outcome, exit)

entry_warnings(outcome, skipped, deferred) ==
    (IF skipped > 0 THEN {"skipped_entries"} ELSE {})
        \cup (IF outcome = "succeeded" /\ deferred > 0
              THEN {"deferred_entries"} ELSE {})

status_cache_trust(outcome) ==
    CASE outcome = "succeeded" -> "trusted"
      [] outcome = "partial" -> "last_run_partial"
      [] outcome = "not_run" -> "no_run_recorded"
      [] OTHER -> "last_run_failed"

\* aggregate_run_value: what the last sync of every profile came to
aggregate_run_value(rec) ==
    CASE rec.aggregate = "never" -> "not_run"
      [] rec.aggregate = "running" -> "running"
      [] OTHER -> completed_outcome(rec.aggregate, "none", -1)

\* The end of run_outcome_value: the first record read, and what the lock said.
run_value(rec, stale) ==
    LET outcome == CASE stale -> "stale"
                     [] rec.state = "never" -> "not_run"
                     [] rec.state = "running" /\ ~stale -> "running"
                     [] OTHER -> completed_outcome(rec.state, rec.outcome,
                                                   rec.exit)
    IN [outcome |-> outcome,
        reason |-> IF stale THEN "runner_died"
                   ELSE Reason(rec.reason, outcome, rec.exit),
        state |-> IF stale THEN "failed" ELSE rec.state,
        started |-> rec.started, finished |-> rec.finished,
        exit |-> rec.exit, scope |-> rec.scope, operation |-> rec.operation,
        aggregate |-> aggregate_run_value(rec)]

\* The rollup row of one profile, judged beside the run that was just told.
predates_dead_run(rec, run) ==
    /\ run.reason = "runner_died"
    /\ (IF rec.outcome_epoch # 0 THEN rec.outcome_epoch ELSE rec.finished)
           < run.started

profile_outcome_value(p, rec, run) ==
    LET outcome == IF rec = NoRecord THEN "not_run"
                   ELSE completed_outcome(rec.state, rec.outcome, rec.exit)
        warnings == entry_warnings(outcome, rec.skipped, 0)
    IN [outcome |-> outcome,
        reason |-> Reason(rec.reason, outcome, rec.exit),
        epoch |-> rec.outcome_epoch,
        warnings |-> warnings,
        status_cache |->
            CASE Covers(run.scope, p)
                    /\ (run.outcome = "stale" \/ predates_dead_run(rec, run))
                    -> "last_run_failed"
              [] ~(Covers(run.scope, p)
                    /\ (run.outcome = "stale" \/ predates_dead_run(rec, run)))
                    /\ rec.action = "plan" -> "no_run_recorded"
              [] OTHER -> IF outcome = "succeeded" /\ warnings # {}
                          THEN "skipped_entries"
                          ELSE status_cache_trust(outcome)]

align_legacy_run_skipped(legacy, run) == legacy

\* align_legacy_run and retire_stale_running: the older `run` block of the
\* document takes the judged values, whatever it had read itself.
align_legacy_run(legacy, run) ==
    IF run.state \in {"never", "running", "succeeded", "failed"}
        /\ run.operation \in {"none", "sync", "plan"}
    THEN [state |-> run.state, started |-> run.started,
          finished |-> run.finished, exit |-> run.exit, scope |-> run.scope]
    ELSE legacy

retire_stale_running(legacy, run) ==
    IF run.outcome = "stale" /\ legacy.state = "running"
    THEN [legacy EXCEPT !.state = "failed"]
    ELSE legacy

-----------------------------------------------------------------------------
(* The runner (sdsync-run) *)

Fate(i, fate) == runs' = [runs EXCEPT ![i].fate = fate]
Current == Len(runs)

\* The run lock is taken from nobody or from a dead owner; an outcome an
\* earlier run could not publish is forgotten.
TakeLock(scope, operation) ==
    /\ runner.pc = "idle" /\ Len(runs) < MaxRuns
    /\ runLock # "live"
    /\ runLock' = "live"
    /\ unrecorded' = NoMarker
    /\ runner' = [NoRunner EXCEPT !.pc = "locked", !.scope = scope,
                              !.operation = operation]
    /\ runs' = Append(runs, [scope |-> scope, operation |-> operation,
                             started |-> 0, fate |-> "live",
                             reported |-> {}])
    /\ UNCHANGED <<second, runFile, records, reconciler, view>>

\* write_run_state: a sync of all profiles is also the aggregate
Written(rec) ==
    [rec EXCEPT !.aggregate = IF rec.scope = "all" /\ rec.operation # "plan"
                              THEN rec.state ELSE runFile.aggregate]

PublishRunning ==
    /\ runner.pc = "locked"
    /\ runner' = [runner EXCEPT !.pc = "running", !.started = second]
    /\ runFile' = Written([NoRun EXCEPT
                     !.state = "running", !.started = second,
                     !.scope = runner.scope, !.operation = runner.operation])
    /\ runs' = [runs EXCEPT ![Current].started = second]
    /\ UNCHANGED <<second, runLock, unrecorded, records, reconciler, view>>

CoreEnds(exit) ==
    /\ runner.pc = "running"
    /\ runner' = [runner EXCEPT !.pc = "ended", !.exit = exit,
                    !.todo = IF runner.operation = "sync"
                             THEN {p \in Profiles : Covers(runner.scope, p)}
                             ELSE {}]
    /\ UNCHANGED <<second, runLock, runFile, unrecorded, records, reconciler,
                   view, runs>>

EndState(exit) == IF exit = 0 THEN "succeeded" ELSE "failed"
EndOutcome(exit) == Derived(EndState(exit), exit)

\* One profile's completion record; a write that fails leaves the old one.
RecordProfile(p, written) ==
    /\ runner.pc = "ended" /\ p \in runner.todo
    /\ runner' = [runner EXCEPT !.todo = @ \ {p}]
    /\ IF written
       THEN /\ records' = [records EXCEPT ![p] =
                   [NoRecord EXCEPT
                      !.state = EndState(runner.exit), !.exit = runner.exit,
                      !.outcome = EndOutcome(runner.exit), !.action = "sync",
                      !.finished = second, !.outcome_epoch = second]]
            /\ runs' = [runs EXCEPT ![Current].reported = @ \cup {p}]
       ELSE UNCHANGED <<records, runs>>
    /\ UNCHANGED <<second, runLock, runFile, unrecorded, reconciler, view>>

\* run.state is written last.  When that fails the runner leaves its outcome
\* in the marker, if it can.
PublishFinal(written, marked) ==
    /\ runner.pc = "ended" /\ runner.todo = {}
    /\ written => ~marked
    /\ runner' = [runner EXCEPT !.pc = "published"]
    /\ runFile' = IF written
                  THEN Written([runFile EXCEPT
                          !.state = EndState(runner.exit),
                          !.started = runner.started, !.finished = second,
                          !.exit = runner.exit,
                          !.outcome = EndOutcome(runner.exit)])
                  ELSE runFile
    /\ unrecorded' = IF marked
                     THEN [state |-> EndState(runner.exit),
                           outcome |-> EndOutcome(runner.exit),
                           started |-> runner.started,
                           scope |-> runner.scope, exit |-> runner.exit,
                           finished |-> second]
                     ELSE unrecorded
    /\ Fate(Current, IF written THEN "ended" ELSE "unpublished")
    /\ UNCHANGED <<second, runLock, records, reconciler, view>>

ReleaseLock ==
    /\ runner.pc = "published"
    /\ runLock' = "absent"
    /\ runner' = NoRunner
    /\ UNCHANGED <<second, runFile, unrecorded, records, reconciler, view,
                   runs>>

\* Killed: nothing more of the runner runs, its trap included.
Killed ==
    /\ runLock' = "dead"
    /\ runner' = NoRunner
    /\ IF runner.pc = "published" THEN UNCHANGED runs ELSE Fate(Current, "died")

Die ==
    /\ runner.pc # "idle"
    /\ Killed
    /\ UNCHANGED <<second, runFile, unrecorded, records, reconciler, view>>

-----------------------------------------------------------------------------
(* The controller's reconcile (reconcile_stale_run_state) *)

\* A package stop kills the runner that outlasts its grace, then reconciles
\* the run as cancelled.
StopKills ==
    /\ runner.pc # "idle" /\ reconciler.pc = "idle"
    /\ Killed
    /\ reconciler' = [IdleReconciler EXCEPT !.pc = "look",
                                            !.mode = "cancelled"]
    /\ UNCHANGED <<second, runFile, unrecorded, records, view>>

Sweep ==
    /\ reconciler.pc = "idle"
    /\ runFile.state = "running" /\ runLock # "live"
    /\ reconciler' = [IdleReconciler EXCEPT !.pc = "look"]
    /\ UNCHANGED <<second, runLock, runFile, unrecorded, records, runner,
                   view, runs>>

TakeOver ==
    /\ reconciler.pc = "look"
    /\ IF runFile.state = "running" /\ runLock # "live"
       THEN /\ runLock' = "live"
            /\ reconciler' = [reconciler EXCEPT !.pc = "held"]
       ELSE /\ reconciler' = IdleReconciler
            /\ UNCHANGED runLock
    /\ UNCHANGED <<second, runFile, unrecorded, records, runner, view, runs>>

MarkerMatches ==
    /\ unrecorded # NoMarker
    /\ unrecorded.started = runFile.started
    /\ unrecorded.scope = runFile.scope

\* What the held record becomes, and the profiles that get the verdict too.
Rewrite(written) ==
    LET marked == MarkerMatches
        cancel == ~marked /\ reconciler.mode = "cancelled"
        verdict == CASE marked -> [runFile EXCEPT
                            !.state = unrecorded.state,
                            !.outcome = unrecorded.outcome,
                            !.exit = unrecorded.exit,
                            !.finished = unrecorded.finished]
                     [] cancel -> [runFile EXCEPT
                            !.state = "failed", !.outcome = "cancelled",
                            !.exit = 137, !.finished = second,
                            !.reason = "cancelled"]
                     [] OTHER -> [runFile EXCEPT
                            !.state = "failed", !.outcome = "failed",
                            !.exit = -1, !.finished = second,
                            !.reason = "runner_died"]
        stamps == written /\ ~marked /\ ~cancel /\ runFile.operation = "sync"
    IN /\ reconciler.pc = "held"
       /\ runFile.state = "running"
       /\ runFile' = IF written THEN Written(verdict) ELSE runFile
       /\ unrecorded' = IF marked /\ written THEN NoMarker ELSE unrecorded
       /\ reconciler' = [reconciler EXCEPT
               !.pc = "stamp", !.started = runFile.started,
               !.scope = IF runFile.scope = "all" THEN "all" ELSE "profile",
               !.todo = IF stamps THEN {p \in Profiles :
                                         Covers(runFile.scope, p)} ELSE {}]
       /\ UNCHANGED <<second, runLock, records, runner, view, runs>>

\* stamp_dead_run_profile
Stamp(p) ==
    LET rec == records[p]
        told == IF rec.outcome_epoch # 0 THEN rec.outcome_epoch
                ELSE rec.finished
    IN /\ reconciler.pc = "stamp" /\ p \in reconciler.todo
       /\ reconciler' = [reconciler EXCEPT !.todo = @ \ {p}]
       /\ records' = IF told < reconciler.started
                     THEN [records EXCEPT ![p] =
                             [NoRecord EXCEPT
                                !.state = "failed", !.outcome = "unknown",
                                !.reason = "runner_died", !.action = "sync",
                                !.finished = second, !.outcome_epoch = second]]
                     ELSE records
       /\ UNCHANGED <<second, runLock, runFile, unrecorded, runner, view,
                      runs>>

LetGo ==
    /\ reconciler.pc = "stamp" /\ reconciler.todo = {}
    /\ runLock' = "absent"
    /\ reconciler' = IdleReconciler
    /\ UNCHANGED <<second, runFile, unrecorded, records, runner, view, runs>>

ControllerDies ==
    /\ reconciler.pc \in {"held", "stamp"}
    /\ runLock' = "dead"
    /\ reconciler' = IdleReconciler
    /\ UNCHANGED <<second, runFile, unrecorded, records, runner, view, runs>>

-----------------------------------------------------------------------------
(* The bridge composes a snapshot *)

NoView == [pc |-> "idle", legacy |-> NoRun, first |-> NoRun, lock |-> "none",
           run |-> run_value(NoRun, FALSE),
           rows |-> [p \in Profiles |-> profile_outcome_value(p, NoRecord,
                                           run_value(NoRun, FALSE))],
           todo |-> {}, dead |-> {}]

Legacy(rec) == [state |-> rec.state, started |-> rec.started,
                finished |-> rec.finished, exit |-> rec.exit,
                scope |-> rec.scope]

\* snapshot_document reads run.state for the older block of the document.
ReadLegacy ==
    /\ view.pc = "idle"
    /\ view' = [NoView EXCEPT !.pc = "legacy", !.legacy = Legacy(runFile),
                  !.dead = {i \in 1..Len(runs) : runs[i].fate = "died"}]
    /\ UNCHANGED <<second, runLock, runFile, unrecorded, records, runner,
                   reconciler, runs>>

\* run_outcome_value reads it again, and asks about the lock only when it
\* says running.
ReadRun ==
    /\ view.pc = "legacy"
    /\ view' = IF runFile.state = "running"
               THEN [view EXCEPT !.pc = "lock", !.first = runFile]
               ELSE [view EXCEPT !.pc = "rows",
                       !.run = run_value(runFile, FALSE),
                       !.todo = Profiles]
    /\ UNCHANGED <<second, runLock, runFile, unrecorded, records, runner,
                   reconciler, runs>>

\* run_lock_liveness: a lock that cannot be read is taken for a live one.
ReadLock(readable) ==
    /\ view.pc = "lock"
    /\ view' = IF readable /\ runLock # "live"
               THEN [view EXCEPT !.pc = "again", !.lock = runLock]
               ELSE [view EXCEPT !.pc = "rows",
                       !.lock = IF readable THEN "live" ELSE "unreadable",
                       !.run = run_value(view.first, FALSE),
                       !.todo = Profiles]
    /\ UNCHANGED <<second, runLock, runFile, unrecorded, records, runner,
                   reconciler, runs>>

\* The record is read once more before the run is called dead.
still_running(again, first) ==
    again.state = "running" /\ again.started = first.started

ReadAgain ==
    /\ view.pc = "again"
    /\ view' = [view EXCEPT !.pc = "rows",
                  !.run = run_value(view.first,
                                    still_running(runFile, view.first)),
                  !.todo = Profiles]
    /\ UNCHANGED <<second, runLock, runFile, unrecorded, records, runner,
                   reconciler, runs>>

ReadRow(p) ==
    /\ view.pc = "rows" /\ p \in view.todo
    /\ view' = [view EXCEPT !.todo = @ \ {p},
                  !.rows[p] = profile_outcome_value(p, records[p], view.run)]
    /\ UNCHANGED <<second, runLock, runFile, unrecorded, records, runner,
                   reconciler, runs>>

Answer ==
    /\ view.pc = "rows" /\ view.todo = {}
    /\ view' = [view EXCEPT !.pc = "answered",
                  !.legacy = retire_stale_running(
                                align_legacy_run(view.legacy, view.run),
                                view.run)]
    /\ UNCHANGED <<second, runLock, runFile, unrecorded, records, runner,
                   reconciler, runs>>

Tick ==
    /\ second < MaxClock
    /\ second' = second + 1
    /\ UNCHANGED <<runLock, runFile, unrecorded, records, runner, reconciler,
                   view, runs>>

OutcomeInit ==
    /\ second = 2 /\ runLock = "absent" /\ runFile = NoRun
    /\ unrecorded = NoMarker
    /\ records \in [Profiles -> {NoRecord, EarlierSuccess}]
    /\ runner = NoRunner /\ reconciler = IdleReconciler
    /\ view = NoView /\ runs = <<>>

RunnerNext ==
    \/ \E ask \in Asked : TakeLock(ask[1], ask[2])
    \/ PublishRunning
    \/ \E exit \in Exits : CoreEnds(exit)
    \/ \E p \in Profiles, written \in BOOLEAN : RecordProfile(p, written)
    \/ \E written, marked \in BOOLEAN : PublishFinal(written, marked)
    \/ ReleaseLock
    \/ Die

ReconcileNext ==
    \/ StopKills
    \/ Sweep
    \/ TakeOver
    \/ \E written \in BOOLEAN : Rewrite(written)
    \/ \E p \in Profiles : Stamp(p)
    \/ LetGo
    \/ ControllerDies

ReaderNext ==
    \/ ReadLegacy
    \/ ReadRun
    \/ \E readable \in BOOLEAN : ReadLock(readable)
    \/ ReadAgain
    \/ \E p \in Profiles : ReadRow(p)
    \/ Answer

\* A snapshot keeps nothing for the next one: each behaviour is followed
\* until one is answered.
OutcomeNext ==
    /\ view.pc # "answered"
    /\ RunnerNext \/ ReconcileNext \/ ReaderNext \/ Tick

OutcomeSpec == OutcomeInit /\ [][OutcomeNext]_outcomeVars

-----------------------------------------------------------------------------
(* Properties *)

SharesSecond(i) ==
    \E j \in 1..Len(runs) : j # i /\ runs[j].started = runs[i].started

\* A snapshot calls a run dead only when it is: its runner was killed, or
\* ended without being able to publish its end.  (Two runs begun in the same
\* second have the same name in run.state, and are not told apart.)
StaleTruthful ==
    view.pc = "answered" /\ view.run.outcome = "stale" =>
        \E i \in 1..Len(runs) :
            /\ runs[i].started = view.run.started
            /\ runs[i].fate \in {"died", "unpublished"} \/ SharesSecond(i)

\* The two accounts of the run in one answer, read at different moments,
\* never contradict each other.
LegacyAgrees ==
    view.pc = "answered" =>
        /\ view.legacy.state = view.run.state
        /\ view.legacy.started = view.run.started
        /\ view.run.outcome = "stale" => view.legacy.state # "running"

\* A sync that died after this profile's last record: what the row says is
\* older than the gap.
Gap(i, p) ==
    /\ runs[i].operation = "sync" /\ Covers(runs[i].scope, p)
    /\ p \notin runs[i].reported
    /\ runs[i].started > view.rows[p].epoch

\* While run.state names a dead run, told by the reader or already rewritten
\* by the controller, no row it left behind reads as trustworthy: before the
\* reconcile, during it, and when the controller died half way through it.
DeadRunDistrusted ==
    view.pc = "answered" /\ view.run.reason = "runner_died" =>
        \A i \in view.dead, p \in Profiles :
            runs[i].started = view.run.started /\ Gap(i, p) =>
                view.rows[p].status_cache # "trusted"

\* Whenever the dashboard looks, what it is told of a run and of the rows the
\* run left behind is so (dsm_api.rs:17249, 17809, 18242).
OutcomesAgree == StaleTruthful /\ LegacyAgrees /\ DeadRunDistrusted
=============================================================================
