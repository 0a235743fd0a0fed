------------------------------ MODULE MCPackage ------------------------------
(* Three machines of the DSM package that share no state: the audit and       *)
(* activity logs, the run's records as runner, controller and bridge see      *)
(* them, and the dashboard document beside the manager's edits. A behaviour   *)
(* is one of theirs; the other two stay where they start.                     *)
EXTENDS DurableLog, Outcomes, SnapshotView

Event(state, profile) ==
    [txn |-> "t1", state |-> state, op |-> "run", profile |-> profile,
     origin |-> "bridge", request |-> TRUE]

MCEvents == {Event("requested", "p1"), Event("failed", "p1"), Event("requested", "p2")}
MCKeep == [l \in {"audit", "activity"} |-> 2]
MCFileLines == [l \in {"audit", "activity"} |-> 1]
MCFileMost == [l \in {"audit", "activity"} |-> IF l = "audit" THEN 2 ELSE 1]
MCAsked == {<<"all", "sync">>, <<"p1", "plan">>}

Ask == [jobs |-> 16, max_delete |-> 100, retries |-> 5, timeout |-> 86400, connect |-> 600,
        verbosity |-> 0, delete |-> FALSE, allow_empty |-> FALSE, exclude |-> "plain",
        remote_log |-> "none", required |-> FALSE]
MCProfileAsks ==
    {Ask, [Ask EXCEPT !.jobs = 17], [Ask EXCEPT !.retries = 6], [Ask EXCEPT !.timeout = 0],
     [Ask EXCEPT !.allow_empty = TRUE], [Ask EXCEPT !.exclude = "quoted"],
     [Ask EXCEPT !.allow_empty = TRUE, !.delete = TRUE, !.max_delete = 2147483647],
     [Ask EXCEPT !.required = TRUE], [Ask EXCEPT !.required = TRUE, !.remote_log = "https"],
     [Ask EXCEPT !.remote_log = "http"]}
Routine == [profile |-> "none", retries |-> 5, backoff |-> 300, max_total |-> 100, mode |-> "interval",
            has |-> {"interval"}, interval |-> 60, debounce |-> 0, poll |-> 0, depends |-> {}]
MCRoutineAsks ==
    {Routine, [Routine EXCEPT !.interval = 59], [Routine EXCEPT !.backoff = 301],
     [Routine EXCEPT !.has = {"interval", "poll"}], [Routine EXCEPT !.depends = {"a"}],
     [Routine EXCEPT !.mode = "realtime", !.has = {"debounce", "poll"}, !.debounce = 1, !.poll = 5],
     [Routine EXCEPT !.mode = "daily", !.has = {"weekdays", "window"}]}
Line(state, marker, cost) == [state |-> state, marker |-> marker, cost |-> cost]
Lines == {Line("ok", "none", 2), Line("ok", "malformed", 5), Line("corrupt", "none", 2)}
MCWindows == [lines : UNION {[1..n -> Lines] : n \in 0..3}, in_flight : BOOLEAN]
Run == [started |-> 1000, finished |-> 0, header |-> 0, heartbeat |-> 1000, source |-> "io"]
Extra == [alerts |-> "ok", threshold |-> 2, reload |-> "absent", stderr |-> "ok", run |-> Run,
          counts |-> "recorded", positive |-> {}, severities |-> {"info"}, offset |-> 3600, now |-> 1000,
          degraded |-> "none", exit |-> -1, reason |-> "ok"]
MCExtras ==
    {Extra, [Extra EXCEPT !.alerts = "unsafe", !.reload = "malformed", !.now = 3000],
     [Extra EXCEPT !.alerts = "absent", !.reload = "unsafe", !.now = 900, !.offset = 90000],
     [Extra EXCEPT !.threshold = 1, !.run.finished = 1000, !.run.header = 1000, !.counts = "unavailable"],
     [Extra EXCEPT !.run.source = "liveness", !.now = 40000, !.severities = {"warning"},
                   !.positive = {"mtime_not_kept"}, !.counts = "none",
                   !.degraded = "run_state", !.exit = 1, !.reason = "source_missing"]}

MCSettings == {[interval |-> 3600, max_total |-> 100, controller |-> "stopped", threshold |-> 1,
                level |-> level] : level \in {"gentle", "turbo"}}
MCHealths == {[state |-> "unknown", exit |-> -1, level |-> "standard"],
              [state |-> "failed", exit |-> 3, level |-> "quick"]}
MCRoutineStates == {[state |-> "never", backend |-> "none"], [state |-> "running", backend |-> "inotify"]}

VARIABLE part

packageVars == <<vars, outcomeVars, snapshotVars, part>>

PackageInit ==
    /\ part \in {"log", "outcomes", "snapshot"}
    /\ Init /\ OutcomeInit /\ SnapshotInit
    /\ part # "outcomes" => records = [p \in Profiles |-> NoRecord]

PackageNext ==
    /\ UNCHANGED part
    /\ \/ part = "log" /\ Next /\ UNCHANGED <<outcomeVars, snapshotVars>>
       \/ part = "outcomes" /\ OutcomeNext /\ UNCHANGED <<vars, snapshotVars>>
       \/ part = "snapshot" /\ SnapshotNext /\ UNCHANGED <<vars, outcomeVars>>

PackageSpec == PackageInit /\ [][PackageNext]_packageVars
=============================================================================
