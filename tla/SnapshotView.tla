----------------------------- MODULE SnapshotView -----------------------------
(***************************************************************************)
(* The dashboard document (dsm_api.rs, snapshot_document): the bridge      *)
(* reads the package's configuration files one by one while the manager    *)
(* adds and removes profiles, and refuses the whole document when one file *)
(* is not what the manager writes.  Three programs must agree on what a    *)
(* profile and a routine may say: the bridge's request parser, the         *)
(* manager that writes the file, and the renderer that reads it back.      *)
(*                                                                         *)
(* The activity feed of the same dashboard is rendered from the tail of a  *)
(* log whose last line may still be being written.                         *)
(***************************************************************************)
EXTENDS Integers, Sequences, FiniteSets, TLC

CONSTANTS
    Names,          \* profile names
    ProfileAsks,    \* configure-profile requests, well-formed or not
    RoutineAsks,    \* routine requests
    PackageSettings, Healths, RoutineStates,   \* what the writers leave
    Windows,        \* tails of the activity log, as sequences of lines
    Extras,         \* what the optional sources of the outcomes hold
    Budget,         \* bytes an activity document may have
    MaxEdits        \* bound on configuration changes

VARIABLES
    fragments,      \* profiles/<name>.toml, or NoFile
    routines,       \* routines/<name>.conf, or NoFile
    removal,        \* the profile whose files are being removed, or "none"
    edits,          \* number of changes begun
    halfRemoved,    \* history: some removal was cut short
    service,        \* the controller's published identity
    snap,           \* the document being composed
    feed            \* the last activity feed rendered

snapshotVars == <<fragments, routines, removal, edits, halfRemoved, service,
                  snap, feed>>

NoFile == [kind |-> "none"]
MaxDeleteBound == 2147483647

-----------------------------------------------------------------------------
(* A profile: what is asked, written and read back *)

\* validate_configure_profile
profile_accepted(r) ==
    /\ r.jobs \in 1..16
    /\ r.max_delete <= MaxDeleteBound
    /\ r.retries <= 5
    /\ r.timeout \in 1..86400 /\ r.connect \in 1..600
    /\ r.verbosity <= 2
    /\ r.allow_empty => r.delete
    /\ r.remote_log \in {"none", "https"}
    /\ r.required => r.remote_log # "none"

\* configure_profile of the manager: its own checks, then the fragment
manager_writes_profile(r) ==
    r.exclude # "quoted"

fragment_of(r) ==
    [kind |-> "profile", jobs |-> r.jobs, max_delete |-> r.max_delete,
     retries |-> r.retries, timeout |-> r.timeout, connect |-> r.connect,
     delete |-> r.delete, allow_empty |-> r.allow_empty,
     exclude |-> r.exclude, remote_log |-> r.remote_log,
     locators |-> {"password", "totp"}
                    \cup (IF r.remote_log = "none" THEN {} ELSE {"token"}),
     no_vault |-> TRUE]

\* render_profile: every value is checked again, and the secrets must be the
\* profile's own files.
render_profile(f) ==
    /\ {"password", "totp"} \subseteq f.locators
    /\ f.no_vault
    /\ f.jobs \in 1..16
    /\ f.max_delete <= MaxDeleteBound
    /\ f.allow_empty => f.delete
    /\ f.retries <= 5
    /\ f.timeout \in 1..86400 /\ f.connect \in 1..600
    /\ f.remote_log # "none" => f.remote_log = "https" /\ "token" \in f.locators
    /\ f.exclude # "quoted"

\* The doctor's last word on the profile, unknown when there is none.
profile_health(h) ==
    /\ h.state \in {"unknown", "succeeded", "failed"}
    /\ h.exit >= -1
    /\ h.level \in {"quick", "standard", "extensive"}

-----------------------------------------------------------------------------
(* A routine *)

ModeFields == [interval |-> {"interval"}, daily |-> {"weekdays", "window"},
               realtime |-> {"debounce", "poll"}]

\* validate_routine
routine_accepted(r) ==
    /\ r.retries <= 5 /\ r.backoff \in 10..300
    /\ r.max_total <= MaxDeleteBound
    /\ r.has = ModeFields[r.mode]
    /\ r.mode = "interval" => r.interval \in 60..2592000
    /\ r.mode = "realtime" => r.debounce \in 1..3600 /\ r.poll \in 5..3600
    /\ r.depends \cap {r.profile} = {}

\* render_routine: a routine of a known profile; only the fields of its mode
\* are looked at, and a longer backoff than the ceiling is shown as the
\* ceiling.
render_routine(name, c, known) ==
    /\ name \in known
    /\ c.retries <= 5 /\ c.backoff >= 10
    /\ c.max_total <= MaxDeleteBound
    /\ c.mode \in {"interval", "daily", "realtime"}
    /\ c.mode = "interval" => c.interval \in 60..2592000
    /\ c.mode = "realtime" => c.debounce \in 1..3600 /\ c.poll \in 5..3600

routine_state(st) ==
    /\ st.state \in {"never", "scheduled", "running", "succeeded", "failed",
                     "deferred"}
    /\ st.backend \in {"none", "interval", "daily", "inotify", "polling"}

\* The package's own settings; an unknown performance level is shown as
\* balanced rather than refused.
settings_sound(c) ==
    /\ c.interval \in 60..2592000 /\ c.max_total <= MaxDeleteBound
    /\ c.controller \in {"running", "stopped"}
    /\ c.threshold >= 0

PerformanceLevel(c) ==
    IF c.level \in {"full", "balanced", "gentle"} THEN c.level ELSE "balanced"

-----------------------------------------------------------------------------
(* The activity feed *)

\* A line is [state, marker, cost]: whether its fields have their shapes,
\* what its request marker is, and how many bytes it costs in the document.
render_activity_event(line) ==
    IF line.state = "corrupt" THEN "refused"
    ELSE IF line.marker = "malformed" THEN "untagged" ELSE "ok"

\* Suffix costs, newest first: the first of the lines from `from` on that
\* still fits the budget with everything after it.
CostFrom(lines, from) ==
    LET cost[i \in from..(Len(lines) + 1)] ==
            IF i > Len(lines) THEN 0
            ELSE lines[i].cost
                 + (IF i < Len(lines) THEN 1 ELSE 0) + cost[i + 1]
    IN cost[from]

SelectedFirst_unbounded(lines, oldest) == oldest

SelectedFirst(lines, oldest) ==
    LET first[i \in (oldest - 1)..(Len(lines) + 1)] ==
            IF i < oldest THEN oldest
            ELSE IF i = Len(lines) + 1 THEN first[i - 1]
            ELSE IF CostFrom(lines, i) <= Budget THEN first[i - 1]
            ELSE i + 1
    IN first[Len(lines) + 1]

EventsOf(window) ==
    IF window.in_flight /\ Len(window.lines) > 0
        /\ render_activity_event(window.lines[Len(window.lines)]) = "refused"
    THEN SubSeq(window.lines, 1, Len(window.lines) - 1)
    ELSE window.lines

\* The last `requested` events that fit; a line in flight is left out, any
\* other malformed line refuses the feed.
render_activity_feed(window, requested) ==
    LET events == EventsOf(window)
        available == IF Len(events) < requested THEN Len(events) ELSE requested
        oldest == Len(events) - available + 1
        first == SelectedFirst(events, oldest)
    IN IF \E i \in 1..Len(events) : render_activity_event(events[i]) = "refused"
       THEN [told |-> "refused", shown |-> <<>>, malformed |-> 0]
       ELSE [told |-> "feed", shown |-> SubSeq(events, first, Len(events)),
             malformed |-> Cardinality({i \in 1..Len(events) :
                             render_activity_event(events[i]) = "untagged"})]

-----------------------------------------------------------------------------
(* The controller's identity *)

\* controller_identity_is_trusted: pid file, readiness file and lock name one
\* live process; the chain is read twice.
controller_identity_is_trusted(s) ==
    /\ s.pid_file # "none"
    /\ s.ready = s.pid_file /\ s.lock = s.pid_file
    /\ s.live = s.pid_file

\* pid_is_live asks about the number only: another program may have it now.
snapshot_service_identity(s) ==
    CASE s.pid_file = "none" -> "stopped"
      [] controller_identity_is_trusted(s) -> "running"
      [] s.pid_file # "none" /\ ~controller_identity_is_trusted(s)
            /\ s.live # "none" -> "untrusted"
      [] OTHER -> "stopped"

-----------------------------------------------------------------------------
(* The optional parts of the outcomes: a source that cannot be read costs its *)
(* own part and one entry of the error list, never the document.             *)

\* alerts_outcome_value
alerts_outcome_value(doc, threshold) ==
    CASE doc = "absent" -> [status |-> "absent", reached |-> "no", error |-> FALSE]
      [] doc \in {"unsafe", "malformed"} ->
             [status |-> "unreadable", reached |-> "unknown", error |-> TRUE]
      [] OTHER -> [status |-> "ok", error |-> FALSE,
                   reached |-> IF threshold > 1 THEN "no" ELSE "yes"]

\* controller_reload_value: a malformed note still says a reload is pending.
controller_reload_value(doc) ==
    [pending |-> CASE doc = "absent" -> "no" [] doc = "unsafe" -> "unknown"
                   [] OTHER -> "yes",
     error |-> doc \in {"unsafe", "malformed"}]

\* run_stderr_pointer: the captured output is pointed to only when its header
\* names the very run that is told.
run_stderr_pointer(doc, run) ==
    IF run.finished = 0 \/ doc \in {"absent", "unsafe", "malformed"}
    THEN "none"
    ELSE IF run.header = run.finished THEN "run-stderr" ELSE "none"

\* result_facts: counts are known, said to be unavailable, or not recorded,
\* and each count above zero is a warning.
result_facts(counts, positive) ==
    [available |-> CASE counts = "recorded" -> "yes"
                     [] counts = "unavailable" -> "no" [] OTHER -> "unknown",
     warnings |-> positive \cap {"incomplete_listings", "mtime_not_kept",
                    "link_guard_unchecked", "reauthentication_failures",
                    "server_tasks_not_stopped", "keepalive_failures"}]

\* An epoch further than the skew ahead of the clock has no age (-1).
RunRecordSkew == 60
past_age(now, epoch) ==
    CASE epoch > now + RunRecordSkew -> -1
      [] epoch <= now + RunRecordSkew /\ epoch > now -> 0
      [] OTHER -> now - epoch

LongRunningSeconds == 6 * 60 * 60
StalledRunSeconds == 30 * 60

\* A run is long by its start and stalled by its heartbeat; a heartbeat that
\* only says the process lives cannot show a stall.
run_clock_warnings(run, now) ==
    IF run.finished # 0 THEN {}
    ELSE (IF past_age(now, run.started) > LongRunningSeconds
          THEN {"long_running"} ELSE {})
         \cup (IF run.source = "liveness" THEN {"stall_unobservable"}
               ELSE IF past_age(now, run.heartbeat) > StalledRunSeconds
                    THEN {"stalled"} ELSE {})

\* degraded_value: a list of sinks, none when nothing is degraded or the
\* list is malformed.
degraded_value(d) ==
    IF d \in {"absent", "none", "malformed"} THEN {} ELSE {d}

\* routine_outcomes_value: an exit of -1 is no exit, a reason of ok no reason.
routine_outcomes_value(exit, reason) ==
    [last_exit |-> IF exit = -1 THEN "none" ELSE "known",
     last_reason |-> IF reason \in {"none", "ok"} THEN "none" ELSE reason]

\* status_cache_health_value
status_cache_health_value(severities) ==
    IF \E s \in severities : s # "info" THEN "degraded" ELSE "ok"

\* nas_clock_value: an offset of more than a day is no offset.
nas_clock_value(offset) ==
    IF offset \in (-86400)..86400 THEN "local" ELSE "timezone_unavailable"

attach_snapshot_outcomes(x) ==
    [alerts |-> alerts_outcome_value(x.alerts, x.threshold),
     reload |-> controller_reload_value(x.reload),
     stderr |-> run_stderr_pointer(x.stderr, x.run),
     facts |-> result_facts(x.counts, x.positive),
     clock |-> run_clock_warnings(x.run, x.now),
     degraded |-> degraded_value(x.degraded),
     routine |-> routine_outcomes_value(x.exit, x.reason),
     cache |-> status_cache_health_value(x.severities),
     zone |-> nas_clock_value(x.offset)]

-----------------------------------------------------------------------------
(* The manager *)

Begin == edits < MaxEdits /\ removal = "none" /\ edits' = edits + 1

Configure(name, r) ==
    /\ Begin
    /\ profile_accepted(r) /\ manager_writes_profile(r)
    /\ fragments' = [fragments EXCEPT ![name] = fragment_of(r)]
    /\ UNCHANGED <<routines, removal, halfRemoved, service, snap, feed>>

SetRoutine(name, r) ==
    /\ Begin
    /\ fragments[name] # NoFile
    /\ routine_accepted([r EXCEPT !.profile = name])
    /\ routines' = [routines EXCEPT ![name] = [kind |-> "routine"] @@ r]
    /\ UNCHANGED <<fragments, removal, halfRemoved, service, snap, feed>>

\* remove-profile removes the fragment first and the routine after it.
RemoveFragment(name) ==
    /\ Begin
    /\ fragments[name] # NoFile
    /\ fragments' = [fragments EXCEPT ![name] = NoFile]
    /\ removal' = name
    /\ UNCHANGED <<routines, halfRemoved, service, snap, feed>>

RemoveRoutine ==
    /\ removal # "none"
    /\ routines' = [routines EXCEPT ![removal] = NoFile]
    /\ removal' = "none"
    /\ UNCHANGED <<fragments, edits, halfRemoved, service, snap, feed>>

ManagerDies ==
    /\ removal # "none"
    /\ removal' = "none"
    /\ halfRemoved' = (halfRemoved \/ routines[removal] # NoFile)
    /\ UNCHANGED <<fragments, routines, edits, service, snap, feed>>

\* The controller publishes its pid, then that it is ready; it may die and
\* its number be taken by another program.
ServiceStep ==
    /\ service' \in
          CASE service.live = "none" ->
                   {[service EXCEPT !.live = "c", !.lock = "c"],
                    [service EXCEPT !.live = "other"]}
            [] service.live = "c" /\ service.ready = "none" ->
                   {[service EXCEPT !.pid_file = "c", !.ready = "c"],
                    [service EXCEPT !.pid_file = "c"],
                    [service EXCEPT !.live = "none"]}
            [] OTHER -> {[service EXCEPT !.live = "none"]}
    /\ UNCHANGED <<fragments, routines, removal, edits, halfRemoved, snap,
                   feed>>

-----------------------------------------------------------------------------
(* The reader *)

NoSnap == [pc |-> "idle", service |-> "none", names |-> {}, confs |-> {},
           todo |-> {}, since |-> 0, told |-> "none",
           level |-> "none", outcomes |-> <<>>]

ReadService ==
    /\ snap.pc = "idle"
    /\ snap' = [NoSnap EXCEPT !.pc = "names", !.since = IF removal = "none" THEN edits ELSE edits - 1,
                  !.service = snapshot_service_identity(service)]
    /\ UNCHANGED <<fragments, routines, removal, edits, halfRemoved, service,
                   feed>>

RefuseDocument == [snap EXCEPT !.pc = "done", !.told = "corrupt"]

ReadNames(c) ==
    /\ snap.pc = "names"
    /\ snap' = IF ~settings_sound(c) THEN RefuseDocument
               ELSE [snap EXCEPT !.pc = "confs", !.level = PerformanceLevel(c),
                       !.names = {n \in Names : fragments[n] # NoFile}]
    /\ UNCHANGED <<fragments, routines, removal, edits, halfRemoved, service,
                   feed>>

ReadConfs ==
    /\ snap.pc = "confs"
    /\ snap' = [snap EXCEPT !.pc = "profiles", !.todo = snap.names,
                  !.confs = {n \in Names : routines[n] # NoFile}]
    /\ UNCHANGED <<fragments, routines, removal, edits, halfRemoved, service,
                   feed>>

RenderProfile(n, h) ==
    /\ snap.pc = "profiles" /\ n \in snap.todo
    /\ snap' = IF fragments[n] = NoFile THEN RefuseDocument
               ELSE IF ~(render_profile(fragments[n]) /\ profile_health(h))
               THEN RefuseDocument
               ELSE [snap EXCEPT !.todo = @ \ {n}]
    /\ UNCHANGED <<fragments, routines, removal, edits, halfRemoved, service,
                   feed>>

ProfilesDone ==
    /\ snap.pc = "profiles" /\ snap.todo = {}
    /\ snap' = [snap EXCEPT !.pc = "routines", !.todo = snap.confs]
    /\ UNCHANGED <<fragments, routines, removal, edits, halfRemoved, service,
                   feed>>

RenderRoutine(n, st) ==
    /\ snap.pc = "routines" /\ n \in snap.todo
    /\ snap' = IF routines[n] = NoFile THEN RefuseDocument
               ELSE IF ~(render_routine(n, routines[n], snap.names)
                          /\ routine_state(st)) THEN RefuseDocument
               ELSE [snap EXCEPT !.todo = @ \ {n}]
    /\ UNCHANGED <<fragments, routines, removal, edits, halfRemoved, service,
                   feed>>

Compose(x) ==
    /\ snap.pc = "routines" /\ snap.todo = {}
    /\ snap' = [snap EXCEPT !.pc = "done", !.told = "document",
                  !.outcomes = attach_snapshot_outcomes(x)]
    /\ UNCHANGED <<fragments, routines, removal, edits, halfRemoved, service,
                   feed>>

NoFeed == [window |-> [lines |-> <<>>, in_flight |-> FALSE], asked |-> 1,
           answer |-> [told |-> "none", shown |-> <<>>, malformed |-> 0]]

ReadFeed(window, requested) ==
    /\ feed = NoFeed
    /\ feed' = [window |-> window, asked |-> requested,
                answer |-> render_activity_feed(window, requested)]
    /\ UNCHANGED <<fragments, routines, removal, edits, halfRemoved, service,
                   snap>>

NoService == [pid_file |-> "none", ready |-> "none", lock |-> "none",
              live |-> "none"]

SnapshotInit ==
    /\ fragments = [n \in Names |-> NoFile]
    /\ routines = [n \in Names |-> NoFile]
    /\ removal = "none" /\ edits = 0 /\ halfRemoved = FALSE
    /\ service = NoService
    /\ snap = NoSnap /\ feed = NoFeed

\* A document and a feed keep nothing for the next one: each behaviour is
\* followed until one of them is answered, and a feed, which depends on
\* nothing but its window, is asked for at once.
SnapshotNext ==
    \/ /\ snap.pc # "done" /\ feed = NoFeed
       /\ \/ \E n \in Names, r \in ProfileAsks : Configure(n, r)
          \/ \E n \in Names, r \in RoutineAsks : SetRoutine(n, r)
          \/ \E n \in Names : RemoveFragment(n)
          \/ RemoveRoutine
          \/ ManagerDies
          \/ ServiceStep
          \/ ReadService \/ ReadConfs
          \/ \E c \in PackageSettings : ReadNames(c)
          \/ \E n \in Names, h \in Healths : RenderProfile(n, h)
          \/ \E n \in Names, st \in RoutineStates : RenderRoutine(n, st)
          \/ ProfilesDone
          \/ \E x \in Extras : Compose(x)
    \/ /\ edits = 0 /\ snap = NoSnap /\ service = NoService
       /\ \E window \in Windows, requested \in 1..2 : ReadFeed(window, requested)

SnapshotSpec == SnapshotInit /\ [][SnapshotNext]_snapshotVars

-----------------------------------------------------------------------------
(* Properties *)

\* Whatever profile or routine the bridge accepted and the manager wrote, the
\* renderer reads back: the whole document is refused as corrupt only when a
\* change overlapped the reading, or a removal was cut short before it.
RefusedOnlyInEdit ==
    snap.told = "corrupt" =>
        edits > snap.since \/ halfRemoved

\* The feed is the longest run of the newest requested events that fits: it
\* skips nothing in between, and only a line still being written is left out.
FeedIsTail ==
    LET window == feed.window
        shown == feed.answer.shown
        whole == [i \in 1..Len(window.lines) |-> window.lines[i].state # "corrupt"]
    IN feed.answer.told = "feed" =>
        LET sound == IF Len(whole) > 0 /\ ~whole[Len(whole)]
                     THEN Len(whole) - 1 ELSE Len(whole)
            wanted == IF sound < feed.asked THEN sound ELSE feed.asked
        IN /\ \A i \in 1..sound : whole[i]
           /\ Len(shown) <= wanted
           /\ shown = SubSeq(window.lines, sound - Len(shown) + 1, sound)
           /\ CostFrom(shown, 1) <= Budget
           /\ Len(shown) < wanted =>
                CostFrom(window.lines, sound - Len(shown))
                    - CostFrom(window.lines, sound + 1) > Budget

\* The dashboard shows what is there: the newest events without a gap, and
\* every setting the bridge let in (dsm_api.rs:16932, 16072).
ViewFaithful == FeedIsTail /\ RefusedOnlyInEdit
=============================================================================
