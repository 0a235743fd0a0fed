------------------------------ MODULE Command ------------------------------
(***************************************************************************)
(* One `sdsync` process from its command line to its exit code: a sync, a  *)
(* plan or a diagnostic, of one profile or of a batch, with its logins,    *)
(* its deletions, its write probe and its logouts.  The network may lose a *)
(* call or deliver it late, other clients write to the destinations, and   *)
(* the user may interrupt, once to stop and twice to be gone.              *)
(*                                                                         *)
(* A job's own planning is the subject of SyncRun; here a destination is   *)
(* how many entries a mirror would delete and how many files are to be     *)
(* uploaded.                                                               *)
(***************************************************************************)
EXTENDS Settings

(***************************************************************************)
(* The sections of a target diagnostic and what each concludes (the doctor *)
(* part of main.rs, with the probes of api.rs it calls).                   *)
(*                                                                         *)
(* A result is [sections, failure, cancelled, authenticated, exists,       *)
(* performed, report, probe_error, probe_cancelled, channels, catalogue].  *)
(* The NAS and the path to it are a temperament `t`: what it would answer  *)
(* to each probe.                                                          *)
(***************************************************************************)
Sections ==
    <<"network_reachability", "routing_tls", "dsm_api_discovery", "capability_enumeration", "intermediary_transport",
      "dsm_session_auth", "session_channel_ablation", "session_concurrency", "session_cookie_ledger",
      "file_station_capabilities", "capability_diagnosis", "destination_path_resolution", "destination_permissions",
      "destination_inventory", "disposable_write_verify_cleanup", "session_logout">>
SectionIds == {Sections[i] : i \in DOMAIN Sections}

NoReport == [verified |-> FALSE, created |-> FALSE, uploaded |-> FALSE, copied |-> FALSE, cleaned |-> TRUE, leftover |-> FALSE]

NewResult ==
    [sections |-> [s \in SectionIds |-> "skip"], failure |-> FALSE, cancelled |-> FALSE, authenticated |-> FALSE,
     exists |-> {}, performed |-> FALSE, report |-> NoReport, probe_error |-> FALSE, probe_cancelled |-> FALSE,
     channels |-> {}, catalogue |-> {}]

set_section(r, id, status) == [r EXCEPT !.sections[id] = status]

\* An error fails its section and the whole; a cancellation is remembered.
fail_section(r, id, error) ==
    [r EXCEPT !.sections[id] = "fail", !.failure = TRUE, !.cancelled = @ \/ error = "cancelled"]

\* A verdict that fails its section fails the whole too.
record_diagnostic_section(r, id, status) ==
    [r EXCEPT !.sections[id] = status, !.failure = @ \/ status = "fail"]

failed(r) == r.failure \/ r.probe_error \/ \E s \in SectionIds : r.sections[s] = "fail"
section_succeeded(r, id) == r.sections[id] \in {"pass", "warn"}
doctor_result_error(r) == r.failure \/ r.probe_error

session_is_unusable(error) == error \in {"cancelled", "session"}
requires_content_fingerprint(level, compare) == level # "quick" /\ (compare = "content" \/ level = "extensive")
requires_delete_capability(level, delete) == level # "quick" /\ (delete \/ level = "extensive")

(***************************************************************************)
(* Discovery and capabilities.                                             *)
(***************************************************************************)
\* The APIs a sync needs, and those it can do without.
Required == {"Auth", "List", "Upload"}
Optional == {"CopyMove"}

\* Discovery that answered wrongly is told apart from a path that does not
\* answer.
record_connection(r, settings, t) ==
    IF t.connect = "ok"
    THEN set_section(set_section(r, "dsm_api_discovery", "pass"), "routing_tls",
                     IF settings.network.insecure \/ settings.url.scheme = "http" THEN "warn" ELSE "pass")
    ELSE IF t.connect = "discovery"
    THEN set_section(fail_section(r, "dsm_api_discovery", "discovery"), "routing_tls",
                     IF settings.network.insecure \/ settings.url.scheme = "http" THEN "warn" ELSE "pass")
    ELSE fail_section(r, "routing_tls", t.connect)

satisfied(api, catalogue) == \E e \in catalogue.apis : e.api = api /\ e.usable
capability_enumeration_verdict(catalogue) ==
    IF \E a \in Required : ~ satisfied(a, catalogue) THEN "fail"
    ELSE IF catalogue.unusable > 0 \/ \E a \in Optional : ~ satisfied(a, catalogue) THEN "warn" ELSE "pass"

record_capability_enumeration(r, t, cancelled) ==
    IF cancelled THEN fail_section(r, "capability_enumeration", "cancelled")
    ELSE IF t.catalogue = {} THEN set_section(r, "capability_enumeration", "warn")
    ELSE LET c == CHOOSE x \in t.catalogue : TRUE
         IN [record_diagnostic_section(r, "capability_enumeration", capability_enumeration_verdict(c))
               EXCEPT !.catalogue = t.catalogue]

\* The APIs this level and these settings need, from discovery alone.
record_file_station_capabilities(r, settings, t) ==
    IF \/ requires_content_fingerprint(settings.level, settings.compare) /\ "Download" \notin t.found
       \/ requires_delete_capability(settings.level, settings.delete) /\ "Delete" \notin t.found
    THEN fail_section(r, "file_station_capabilities", "missing-api")
    ELSE set_section(r, "file_station_capabilities",
                     IF settings.level = "extensive" /\ "CopyMove" \notin t.found THEN "warn" ELSE "pass")

(***************************************************************************)
(* The authenticated session.  `accepted` is the set of channels DSM takes *)
(* the session through; "tokenless" is known only once it was tried.       *)
(***************************************************************************)
ablation_verdict(accepted) ==
    IF {"all", "sid"} \subseteq accepted THEN "pass"
    ELSE IF "sid" \in accepted THEN "fail"
    ELSE IF "all" \in accepted THEN "warn"
    ELSE IF accepted \cap {"cookie", "control"} = {} THEN "fail" ELSE "warn"

record_session_channel_ablation(r, t, error) ==
    IF error # "none" THEN set_section(r, "session_channel_ablation", "skip")
    ELSE [record_diagnostic_section(r, "session_channel_ablation", ablation_verdict(t.accepted \ {"tokenless"}))
            EXCEPT !.channels = {t.accepted \ {"tokenless"}}]

\* After the logout, with a second login: `probe` is what it showed.
record_tokenless_login_variant(r, probe) ==
    IF r.channels = {} \/ probe = "skipped" THEN r
    ELSE LET accepted == (CHOOSE c \in r.channels : TRUE) \cup (IF probe = "accepted" THEN {"tokenless"} ELSE {})
         IN record_diagnostic_section(r, "session_channel_ablation", ablation_verdict(accepted))

\* Four requests at once, then one more.
concurrency_verdict(t) == IF t.parallel_ok = 4 /\ t.follow_up THEN "pass" ELSE "warn"
record_session_concurrency(r, t) == record_diagnostic_section(r, "session_concurrency", concurrency_verdict(t))

classify(code) ==
    CASE code \in {0, 408} -> "works"
      [] code = 102 -> "not-routable"
      [] code \in {103, 104} -> "unsupported"
      [] code \in {105, 407} -> "no-permission"
      [] code \in {106, 107, 119} -> "not-probed"
      [] OTHER -> "failed"

\* List is always probed; the others only where they were advertised.
capability_probe_specs(catalogue) ==
    {"List"} \cup {a \in {"VirtualFolder", "BackgroundTask"} : \E c \in catalogue : satisfied(a, c)}

capability_diagnosis_verdict(r, t) ==
    LET probed == capability_probe_specs(r.catalogue) \cup {"Info"}
        aborted == \E a \in probed : classify(t.probes[a]) = "not-probed"
    IN IF ~ aborted /\ t.hosts[1] # t.hosts[2] THEN "fail"
       ELSE IF aborted THEN "warn"
       ELSE IF classify(t.probes["List"]) # "works" THEN "fail"
       ELSE IF \E a \in probed : classify(t.probes[a]) # "works" THEN "warn" ELSE "pass"

record_capability_diagnosis(r, t) == record_diagnostic_section(r, "capability_diagnosis", capability_diagnosis_verdict(r, t))

(***************************************************************************)
(* The destination.  t.walk says what stands at each component of its      *)
(* path: "dir", "missing", "file", "mount" or an error.                    *)
(***************************************************************************)
Stops(walk) == {i \in DOMAIN walk : walk[i] # "dir"}
FirstStop(walk) == CHOOSE i \in Stops(walk) : \A j \in Stops(walk) : i <= j

\* [error, exists, segments, first_missing]: the first component that is
\* not a folder ends the walk; a missing one is checked at its parent.
verify_destination_writable_with_resolution(t) ==
    IF "CheckPermission" \notin t.found THEN [error |-> "missing-api", exists |-> FALSE, segments |-> 0, missing |-> 0]
    ELSE IF Stops(t.walk) = {} THEN [error |-> t.permission, exists |-> TRUE, segments |-> Len(t.walk), missing |-> 0]
    ELSE LET i == FirstStop(t.walk)
         IN [exists |-> FALSE, segments |-> i, missing |-> IF t.walk[i] = "missing" THEN i ELSE 0,
             error |-> CASE t.walk[i] = "missing" /\ i = 1 -> "share-missing"
                         [] t.walk[i] = "missing" /\ i > 1 -> t.permission
                         [] OTHER -> t.walk[i]]

path_resolution_verdict(check, total) ==
    IF check.segments = 0 THEN "skip"
    ELSE IF check.segments = total /\ check.missing = 0 /\ check.exists THEN "pass"
    ELSE IF check.missing = 1 THEN "fail" ELSE "warn"

record_destination_path_resolution(r, check, total) ==
    record_diagnostic_section(r, "destination_path_resolution", path_resolution_verdict(check, total))

\* The destination is listed only if the session still stands.
record_destination(r0, t, cancelled, inventory_error) ==
    LET check == IF cancelled THEN [error |-> "cancelled", exists |-> FALSE, segments |-> 0, missing |-> 0]
                 ELSE verify_destination_writable_with_resolution(t)
        r1 == IF check.error = "none" THEN set_section(r0, "destination_permissions", "pass")
              ELSE fail_section(r0, "destination_permissions", check.error)
        r2 == record_destination_path_resolution(r1, check, Len(t.walk))
    IN IF session_is_unusable(check.error) THEN r2
       ELSE IF cancelled \/ inventory_error # "none"
       THEN fail_section(r2, "destination_inventory", IF cancelled THEN "cancelled" ELSE inventory_error)
       ELSE [set_section(r2, "destination_inventory", "pass") EXCEPT !.exists = {Stops(t.walk) = {}}]

\* No destination: the shared folders are listed instead.
record_shared_folders(r, inventory_error) ==
    IF inventory_error # "none" THEN fail_section(r, "destination_inventory", inventory_error)
    ELSE set_section(r, "destination_inventory", "pass")

\* A probe writes only where permissions and listing both succeeded and the
\* folder is known to exist.
probe_allowed(r) ==
    /\ section_succeeded(r, "destination_permissions") /\ section_succeeded(r, "destination_inventory")
    /\ r.exists = {TRUE}

refuse_probe(r) == [set_section(r, "disposable_write_verify_cleanup", "fail") EXCEPT !.failure = TRUE]

\* The probe's report enters the result; whatever went wrong fails it.
record_write_probe(r, report, error, cleanup_error) ==
    IF error = "none" /\ ~ cleanup_error
    THEN [set_section(r, "disposable_write_verify_cleanup", "pass") EXCEPT !.report = report]
    ELSE [set_section(r, "disposable_write_verify_cleanup", "fail")
            EXCEPT !.failure = TRUE, !.report = report, !.probe_error = TRUE,
                   !.probe_cancelled = error = "cancelled", !.cancelled = @ \/ error = "cancelled"]

\* A logout or a log that fails after a probe keeps the report.
append_doctor_failure_context(r) == [r EXCEPT !.probe_error = TRUE]

record_doctor_logout(r, error) ==
    IF error = "none" THEN set_section(r, "session_logout", "pass")
    ELSE LET f == fail_section(r, "session_logout", error)
         IN IF r.performed THEN append_doctor_failure_context(f) ELSE f

doctor_result_may_have_mutated(r) ==
    r.performed /\ (r.report.verified \/ r.report.created \/ r.report.uploaded \/ r.report.copied \/ r.report.leftover)

(***************************************************************************)
(* The path, from what was seen along the way.                             *)
(***************************************************************************)
\* The path is sampled, first by connections and then by requests, until the
\* run is cancelled or the probe's own time is up.  `path` says how every
\* sample would go: "ok", "failed", a body that stops "short", a route the
\* host does not serve ("rejected", which costs no sample), or what ends it.
TakenOf(samples) ==
    LET ends == {i \in DOMAIN samples : samples[i] \in {"cancelled", "late"}}
    IN IF ends = {} THEN samples ELSE SubSeq(samples, 1, (CHOOSE i \in ends : \A j \in ends : i <= j) - 1)
EndOf(samples) == IF Len(TakenOf(samples)) = Len(samples) THEN "none" ELSE samples[Len(TakenOf(samples)) + 1]

\* A first failure, with nothing answered before it, is the answer.
UntilRefused(samples) ==
    LET deaf == {i \in DOMAIN samples : samples[i] = "failed" /\ \A j \in 1 .. i - 1 : samples[j] \notin {"ok", "short"}}
    IN IF deaf = {} THEN samples ELSE SubSeq(samples, 1, CHOOSE i \in deaf : \A j \in deaf : i <= j)

measure_reachability(path) ==
    LET tcp == IF path.addresses = 0 THEN <<>> ELSE path.tcp
        http == IF path.addresses = 0 \/ EndOf(tcp) # "none" THEN <<>> ELSE UntilRefused(path.http)
        AnyOf(samples, how) == \E i \in DOMAIN TakenOf(samples) : TakenOf(samples)[i] \in how
    IN [reached |-> AnyOf(tcp, {"ok"}), answered |-> AnyOf(http, {"ok", "short"}), failures |-> AnyOf(http, {"short", "failed"}),
        cancelled |-> "cancelled" \in {EndOf(tcp), EndOf(http)}, exhausted |-> "late" \in {EndOf(tcp), EndOf(http)},
        paths |-> path.addresses > 1 \/ path.spread]

record_reachability_section(r, t) ==
    LET reach == measure_reachability(t.path)
    IN set_section(r, "network_reachability",
        IF reach.cancelled THEN "skip"
        ELSE IF \/ ~ reach.reached \/ (~ reach.answered /\ reach.failures)
                \/ reach.exhausted \/ reach.paths THEN "warn" ELSE "pass")

record_transport_summary_sections(r, t) ==
    set_section(set_section(r, "intermediary_transport",
        IF t.connect \notin {"ok", "discovery"} THEN "skip"
        ELSE IF t.banners > 1 \/ t.relayed \/ t.foreign_cookies \/ t.proxied THEN "warn" ELSE "pass"),
        "session_cookie_ledger", IF t.cookie_rotated THEN "warn" ELSE "pass")

\* A log that cannot be finished is an error of its own, unless a probe
\* wrote: then the report must not be lost.
finish_doctor_logger(r, shutdown_error) ==
    IF ~ shutdown_error THEN [kept |-> TRUE, r |-> r]
    ELSE IF r.performed THEN [kept |-> TRUE, r |-> append_doctor_failure_context(r)]
    ELSE [kept |-> FALSE, r |-> r]

(***************************************************************************)
(* The command.                                                            *)
(***************************************************************************)
CONSTANTS Scenarios,  \* a command line, who runs it, and the NAS it meets
          MaxFaults,  \* bound: calls lost in one process
          MaxEdits    \* bound: entries others add

ASSUME CommandAssumption == MaxFaults \in Nat /\ MaxEdits \in Nat

VARIABLES inv,       \* the command line, the configuration file, who runs it
          world,     \* [destination -> temperament]
          nas,       \* [destination -> [extra, todo, probe]]
          late,      \* requests given up on that DSM will still carry out
          pc, phase, at, jobs,
          login, job,           \* the current job's login and work
          outcomes, reserved, stopped, aborted,   \* the batch's
          cancelled, faults, edits, window,
          sessions,             \* DSM sessions opened and not closed
          exit,
          deleted, wrote, ready, strays, lostLogouts   \* history

vars == <<inv, world, nas, late, pc, phase, at, jobs, login, job, outcomes, reserved, stopped, aborted, cancelled, faults, edits,
          window, sessions, exit, deleted, wrote, ready, strays, lostLogouts>>
fixedVars == <<inv, world, edits, window>>
historyVars == <<deleted, wrote, ready, strays, lostLogouts>>
batchVars == <<phase, at, jobs, outcomes, reserved, stopped, aborted, exit>>

NoJob == [error |-> "none", plan |-> [deletes |-> 0, uploads |-> 0], left |-> [deletes |-> 0, uploads |-> 0],
          authorized |-> FALSE, refused |-> FALSE, deferred |-> FALSE, early |-> FALSE, report |-> NoReport, r |-> NewResult]

Idle == [otp |-> {}, prompted |-> FALSE, generated |-> FALSE, regenerated |-> FALSE, failed |-> FALSE, sent |-> 0, refused |-> {}]

Init ==
    /\ \E s \in Scenarios : inv = s.inv /\ world = s.world
    /\ nas = [d \in DOMAIN world |-> [extra |-> world[d].extra, todo |-> world[d].todo, probe |-> {}]]
    /\ late = {} /\ pc = "dispatch" /\ phase = "none" /\ at = 1 /\ jobs = <<>>
    /\ login = Idle /\ job = NoJob /\ outcomes = <<>> /\ reserved = 0 /\ stopped = FALSE /\ aborted = FALSE
    /\ cancelled = FALSE /\ faults = 0 /\ edits = 0 /\ window \in Windows /\ sessions = {} /\ exit = "none"
    /\ deleted = <<>> /\ wrote = {} /\ ready = {} /\ strays = {} /\ lostLogouts = {}

(***************************************************************************)
(* The command line.                                                       *)
(***************************************************************************)
End(code) == pc' = "done" /\ exit' = code
Stay == UNCHANGED <<inv, world, nas, late, login, job, outcomes, reserved, stopped, aborted, cancelled, faults, edits, window, sessions, historyVars>>

ByName(S) == SetToSortSeq(S, LAMBDA a, b : inv.order[a.name] < inv.order[b.name])
Loaded == load_optional_config(inv.file, inv.explicit, inv.profile)
Chosen == UNION {select_job_profiles(l, inv.profile, inv.batch) : l \in Loaded}
Named(selected, resolve(_, _)) ==
    {[name |-> s.name, values |-> s.values, settings |-> r] : r \in UNION {resolve(s.values, inv.args) : s \in {selected}}, s \in {selected}}

\* Every selected profile resolves, or the command is refused.
AllResolved(selection, resolve(_, _)) ==
    LET made == UNION {Named(s, resolve) : s \in selection}
    IN IF Cardinality(made) = Cardinality(selection) THEN made ELSE {}

BatchAgrees(js) == ~ inv.batch.requested \/ common_batch_output({j.settings.output : j \in js})

SyncJobs(selection) ==
    LET js == AllResolved(selection, resolve_sync)
    IN {js : ok \in {x \in {TRUE} :
          /\ js # {} /\ BatchAgrees(js)
          /\ inv.verb # "resync" \/ (~ Flag(inv.args, "delete") /\ ~ inv.batch.requested)
          /\ validate_batch_pair_overrides(inv.batch, inv.args)
          /\ IF inv.batch.requested THEN validate_sync_batch(js)
             ELSE inv.verb = "resync" \/ \A j \in js, l \in Loaded : refuse_overlapping_profiles(l, j, j.values)}}

DoctorJobs(selection) ==
    LET js == AllResolved(selection, resolve_doctor)
    IN {js : ok \in {x \in {TRUE} : /\ js # {} /\ BatchAgrees(js)
                                    /\ validate_batch_doctor_target_override(inv.batch, inv.args)
                                    /\ inv.batch.requested => validate_doctor_batch(js)}}

SourceJobs(selection) ==
    LET js == AllResolved(selection, resolve_source_doctor)
    IN {js : ok \in {x \in {TRUE} : /\ js # {} /\ BatchAgrees(js)
                                    /\ ~ Flag(inv.args, "routing_only") /\ Opt(inv.args, "level") = {}
                                    /\ validate_batch_source_override(inv.batch, inv.args)}}

JobSets ==
    UNION {CASE inv.verb \in {"sync", "plan", "resync"} -> SyncJobs(c)
             [] inv.verb = "doctor" -> DoctorJobs(c)
             [] OTHER -> SourceJobs(c) : c \in Chosen}

IsDoctor == inv.verb = "doctor"
IsSource == inv.verb = "source"
PlanOnly == inv.verb = "plan" \/ Flag(inv.args, "dry_run") \/ (inv.verb = "resync" /\ inv.confirm = {})
max_total_delete == ValueOr(inv.batch.max_total, DEFAULT_MAX_TOTAL_DELETE)
write_tests(js) == \E i \in DOMAIN js : js[i].settings.write_test

\* The phase a command starts in: a batch that may write looks at every
\* target first.
FirstPhase(js) ==
    IF ~ inv.batch.requested THEN "single"
    ELSE IF IsSource \/ (IsDoctor /\ ~ write_tests(js)) THEN "only" ELSE "preflight"

Dispatch ==
    /\ pc = "dispatch" /\ inv.verb \notin {"config", "credentials"}
    /\ IF JobSets = {} THEN End("config") /\ UNCHANGED <<phase, at, jobs>> /\ Stay
       ELSE LET js == ByName(CHOOSE s \in JobSets : TRUE)
            IN /\ jobs' = js /\ phase' = FirstPhase(js) /\ at' = 1
               /\ pc' = "job" /\ deleted' = [i \in DOMAIN js |-> 0]
               /\ outcomes' = [i \in DOMAIN js |-> [status |-> "none", partial |-> FALSE, leftover |-> FALSE, planned |-> 0, changes |-> FALSE]]
               /\ UNCHANGED <<inv, world, nas, late, login, job, reserved, stopped, aborted, cancelled, faults, edits, window, sessions,
                              exit, wrote, ready, strays, lostLogouts>>

\* `config`: every profile is checked; a starter file never replaces a file
\* that is there unless told to.
run_config_init == inv.file = {} \/ Flag(inv.args, "force")
run_config_valid ==
    \E c \in inv.file : /\ \A n \in DOMAIN c.profiles : validate_profile(c.profiles[n])
                        /\ validate_profile_overlaps(c, inv.profile)
                        /\ \E s \in select_profile(c, inv.profile) : resolve_output(s.values, inv.args) # {}
RunConfig ==
    /\ pc = "dispatch" /\ inv.verb = "config"
    /\ IF Flag(inv.args, "init")
       THEN /\ inv' = IF run_config_init THEN [inv EXCEPT !.file = {[profiles |-> <<>>, default |-> {}]}] ELSE inv
            /\ End(IF run_config_init THEN "ok" ELSE "config")
       ELSE /\ End(IF run_config_valid THEN "ok" ELSE "config") /\ UNCHANGED inv
    /\ UNCHANGED <<phase, at, jobs, world, nas, late, login, job, outcomes, reserved, stopped, aborted, cancelled, faults, edits, window,
                   sessions, historyVars>>

RunCredentials ==
    /\ pc = "dispatch" /\ inv.verb = "credentials"
    /\ LET found == UNION {UNION {resolve_credential_profile(s.values, inv.args) : s \in select_optional_profile(l, inv.profile)} : l \in Loaded}
           done == run_with_vault(inv.action, resolve_authentication(NoProfile, inv.args), inv.who)
       IN IF found = {} THEN End("config") /\ UNCHANGED inv
          ELSE End(done.out) /\ inv' = [inv EXCEPT !.who.vault = done.vault]
    /\ UNCHANGED <<phase, at, jobs, world, nas, late, login, job, outcomes, reserved, stopped, aborted, cancelled, faults, edits, window,
                   sessions, historyVars>>

(***************************************************************************)
(* One job.                                                                *)
(***************************************************************************)
J == jobs[at]
Auth == J.settings.authentication
Dest == CHOOSE d \in DOMAIN world : world[d].name = J.name
T == world[Dest]
Lossy == faults < MaxFaults
Executing == phase \in {"execute", "single", "only"}

\* What the rest of a job's steps leave alone.
JobStep == UNCHANGED <<fixedVars, batchVars, cancelled>>

\* A job is not begun once the run is cancelled.  (A write test is asked
\* for on the command line: all targets of a batch have it or none.)
BeginJob ==
    /\ pc = "job" /\ at <= Len(jobs)
    /\ job' = NoJob /\ login' = Idle
    /\ IF phase # "single" /\ (cancelled \/ stopped)
       THEN outcomes' = [outcomes EXCEPT ![at].status = "not-run", ![at].partial = FALSE] /\ at' = at + 1 /\ UNCHANGED pc
       ELSE pc' = (IF IsSource THEN "diagnose" ELSE "connect") /\ UNCHANGED <<outcomes, at>>
    /\ UNCHANGED <<fixedVars, phase, jobs, reserved, stopped, aborted, exit, nas, late, cancelled, faults, sessions, historyVars>>

Fails(e) == job' = [job EXCEPT !.error = e]

\* A source diagnostic reads the source and nothing else.
DiagnoseSource ==
    /\ pc = "diagnose"
    /\ \E e \in {IF cancelled THEN "cancelled" ELSE "none", "source"} : Fails(e)
    /\ pc' = "finish"
    /\ JobStep /\ UNCHANGED <<nas, late, login, faults, sessions, historyVars>>

\* Discovery.  A diagnostic writes down what it learns and goes on to log
\* in only if it needs to.
ConnectDoctor ==
    /\ pc = "connect" /\ IsDoctor
    /\ LET r0 == IF cancelled THEN fail_section(NewResult, "routing_tls", "cancelled") ELSE record_connection(NewResult, J.settings, T)
           r1 == record_capability_enumeration(r0, T, cancelled)
           r2 == record_file_station_capabilities(r1, J.settings, T)
       IN IF r0.failure THEN job' = [job EXCEPT !.r = r0] /\ pc' = "finish"
          ELSE /\ job' = [job EXCEPT !.r = r2]
               /\ pc' = IF section_succeeded(r2, "file_station_capabilities") /\ J.settings.level # "quick" THEN "password" ELSE "finish"
    /\ JobStep /\ UNCHANGED <<nas, late, login, faults, sessions, historyVars>>

ConnectSync ==
    /\ pc = "connect" /\ ~ IsDoctor
    /\ \/ ~ cancelled /\ pc' = "password" /\ UNCHANGED <<job, faults>>
       \/ cancelled /\ Fails("cancelled") /\ pc' = "finish" /\ UNCHANGED faults
       \/ Lossy /\ ~ cancelled /\ Fails("network") /\ pc' = "finish" /\ faults' = faults + 1
    /\ JobStep /\ UNCHANGED <<nas, late, login, sessions, historyVars>>

\* A job that could not log in ends there, with nothing to log out of.
NoSession(e) ==
    /\ job' = IF IsDoctor THEN [job EXCEPT !.r = fail_section(@, "dsm_session_auth", e)] ELSE [job EXCEPT !.error = e]
    /\ pc' = "finish"

ReadPassword ==
    /\ pc = "password"
    /\ IF cancelled THEN NoSession("cancelled") /\ UNCHANGED login
       ELSE IF read_password_with_file(Auth, inv.who).kind # "value" \/ ~ env_otp_usable(inv.who)
       THEN NoSession("password") /\ UNCHANGED login
       ELSE login' = StartLogin(Auth, inv.who) /\ pc' = "login" /\ UNCHANGED job
    /\ JobStep /\ UNCHANGED <<nas, late, faults, sessions, historyVars>>

MainSession == [at |-> at, phase |-> phase, kind |-> "main"]
SideSession == [at |-> at, phase |-> phase, kind |-> "tokenless"]

\* DSM's answers: the account may want a second factor; a code may be right
\* or wrong.  A session whose opening answer is lost is DSM's to expire.
Answers == IF login.otp = {} THEN (IF T.second_factor THEN {403} ELSE {0}) ELSE {0, 404}

LogIn ==
    /\ pc = "login"
    /\ \/ \E code \in Answers :
            LET next == authenticate_with_otp_interaction(login, code, Auth, inv.who, window)
            IN /\ login' = next.l
               /\ IF next.go = "again" THEN UNCHANGED <<pc, job, sessions>>
                  ELSE IF next.go = "ok" THEN sessions' = sessions \cup {MainSession} /\ pc' = (IF IsDoctor THEN "confirm" ELSE "plan") /\ UNCHANGED job
                  ELSE NoSession(next.go) /\ UNCHANGED sessions
               /\ UNCHANGED faults
       \/ Lossy /\ faults' = faults + 1 /\ NoSession("network") /\ UNCHANGED <<login, sessions>>
    /\ JobStep /\ UNCHANGED <<nas, late, historyVars>>

(***************************************************************************)
(* A sync: plan, guard, carry out.                                         *)
(***************************************************************************)
PlanFor(s) == [deletes |-> IF s.safety.delete /\ inv.verb # "resync" THEN nas[Dest].extra ELSE 0, uploads |-> nas[Dest].todo]
PlanEmpty(p) == p.deletes = 0 /\ p.uploads = 0

\* A batch's fresh plan takes its share of the deletions before anything
\* is written; a re-upload is confirmed with the ticket of the very plan it
\* carries out.  The result is the deletions then reserved.
plan_guard(p) ==
    IF phase = "execute" THEN reserve_batch_deletions(reserved, p.deletes, max_total_delete)
    ELSE Require(inv.verb = "resync" => inv.confirm = {p.uploads}, reserved)

\* A job's own limit is the planner's.
MakePlan ==
    /\ pc = "plan"
    /\ LET p == PlanFor(J.settings)
           mutating == Executing /\ ~ PlanOnly
           room == plan_guard(p)
       IN \/ /\ ~ cancelled /\ p.deletes <= J.settings.safety.max_delete /\ mutating /\ room # {}
             /\ job' = [job EXCEPT !.plan = p, !.left = p, !.authorized = ~ PlanEmpty(p)]
             /\ reserved' = CHOOSE n \in room : TRUE
             /\ pc' = (IF PlanEmpty(p) THEN "logout" ELSE "mutate") /\ UNCHANGED faults
          \/ /\ ~ cancelled /\ p.deletes <= J.settings.safety.max_delete /\ mutating /\ room = {}
             /\ job' = [job EXCEPT !.plan = p, !.error = IF inv.verb = "resync" THEN "stale" ELSE "budget", !.refused = TRUE]
             /\ pc' = "logout" /\ UNCHANGED <<reserved, faults>>
          \/ /\ ~ cancelled /\ p.deletes <= J.settings.safety.max_delete /\ ~ mutating
             /\ job' = [job EXCEPT !.plan = p]
             /\ pc' = "logout" /\ UNCHANGED <<reserved, faults>>
          \/ /\ cancelled \/ p.deletes > J.settings.safety.max_delete
             /\ Fails(IF cancelled THEN "cancelled" ELSE "too-many")
             /\ pc' = "logout" /\ UNCHANGED <<reserved, faults>>
          \/ /\ Lossy /\ Fails("network") /\ faults' = faults + 1
             /\ pc' = "logout" /\ UNCHANGED reserved
    /\ UNCHANGED <<fixedVars, phase, at, jobs, outcomes, stopped, aborted, exit, nas, late, login, cancelled, sessions, historyVars>>

\* One deletion or upload; it may be deferred, or fail with or without
\* having been done.
Mutate ==
    /\ pc = "mutate"
    /\ \/ /\ cancelled /\ Fails("cancelled") /\ pc' = "logout" /\ UNCHANGED <<nas, faults, deleted, wrote>>
       \/ /\ ~ cancelled /\ PlanEmpty(job.left) /\ pc' = "logout" /\ UNCHANGED <<nas, job, faults, deleted, wrote>>
       \/ \E what \in {"deletes", "uploads"} :
            /\ ~ cancelled /\ job.left[what] > 0
            /\ \E done \in BOOLEAN, lost \in {FALSE, Lossy} :
                 /\ done \/ lost \/ T.defers
                 /\ job' = [job EXCEPT !.left[what] = @ - 1, !.deferred = @ \/ (~ done /\ ~ lost),
                                       !.error = IF lost THEN "network" ELSE "none"]
                 /\ faults' = IF lost THEN faults + 1 ELSE faults
                 /\ pc' = IF lost THEN "logout" ELSE "mutate"
                 /\ nas' = IF ~ done THEN nas
                           ELSE IF what = "deletes" THEN [nas EXCEPT ![Dest].extra = @ - 1] ELSE [nas EXCEPT ![Dest].todo = @ - 1]
                 /\ deleted' = IF done /\ what = "deletes" THEN [deleted EXCEPT ![at] = @ + 1] ELSE deleted
                 /\ wrote' = IF done THEN wrote \cup {at} ELSE wrote
    /\ JobStep /\ UNCHANGED <<late, login, sessions, ready, strays, lostLogouts>>

(***************************************************************************)
(* A diagnostic's session.                                                 *)
(***************************************************************************)

\* The result as it stands goes to the logout, past everything else.
LeaveEarly(r) == job' = [job EXCEPT !.r = r, !.early = TRUE] /\ pc' = "logout"

\* One File Station call proves the session before anything relies on it.
confirm_file_station_session ==
    /\ pc = "confirm"
    /\ \/ pc' = "session" /\ job' = [job EXCEPT !.r = [set_section(@, "dsm_session_auth", "pass") EXCEPT !.authenticated = TRUE]]
          /\ UNCHANGED faults
       \/ Lossy /\ faults' = faults + 1 /\ LeaveEarly(fail_section(job.r, "dsm_session_auth", "network"))
    /\ JobStep /\ UNCHANGED <<nas, late, login, sessions, historyVars>>

\* What the session can do.  Without its log nothing more is asked.
DiagnoseSession ==
    /\ pc = "session"
    /\ \/ /\ Lossy /\ faults' = faults + 1
          /\ job' = [job EXCEPT !.r = fail_section(@, "dsm_session_auth", "log")]
          /\ pc' = "logout"
       \/ /\ LET r1 == record_session_channel_ablation(job.r, T, "none")
                 r2 == IF J.settings.level = "extensive" THEN record_session_concurrency(r1, T) ELSE r1
             IN job' = IF cancelled THEN job ELSE [job EXCEPT !.r = record_capability_diagnosis(r2, T)]
          /\ pc' = "destination" /\ UNCHANGED faults
    /\ JobStep /\ UNCHANGED <<nas, late, login, sessions, historyVars>>

\* Permissions, the path, the listing; then, if this pass may write and all
\* of them were well, the probe.
DiagnoseDestination ==
    /\ pc = "destination"
    /\ \E e \in {"none", IF Lossy THEN "network" ELSE "none"} :
         LET r == CASE J.settings.remote = {} -> record_shared_folders(job.r, IF cancelled THEN "cancelled" ELSE e)
                    [] J.settings.remote = {<<>>} -> fail_section(job.r, "destination_permissions", "path")
                    [] OTHER -> record_destination(job.r, T, cancelled, e)
             placed == J.settings.remote \notin {{}, {<<>>}}
         IN /\ faults' = IF e = "network" THEN faults + 1 ELSE faults
            /\ IF placed /\ (cancelled \/ r.cancelled) THEN LeaveEarly(r) /\ UNCHANGED wrote
               ELSE IF placed /\ J.settings.write_test /\ Executing /\ probe_allowed(r)
               THEN job' = [job EXCEPT !.r = [r EXCEPT !.performed = TRUE]] /\ pc' = "probe.create" /\ UNCHANGED wrote
               ELSE /\ job' = [job EXCEPT !.r = IF placed /\ J.settings.write_test /\ (r.exists = {FALSE} \/ Executing)
                                                THEN refuse_probe(r) ELSE r]
                    /\ pc' = "logout" /\ UNCHANGED wrote
    /\ JobStep /\ UNCHANGED <<nas, late, login, sessions, deleted, ready, strays, lostLogouts>>

(***************************************************************************)
(* The write probe: a folder of a name nobody else has, a file in it, and  *)
(* where DSM can, a folder with a copy.                                    *)
(***************************************************************************)
Things == {"dir", "file", "copydir", "copy"}
Probe == nas[Dest].probe

\* What DSM needs to find to carry a request out, and what must be gone
\* before a folder is removed.
Lands(thing, present) ==
    CASE thing = "dir" -> TRUE
      [] thing \in {"file", "copydir"} -> "dir" \in present
      [] OTHER -> {"copydir", "file"} \subseteq present
Inside(thing, present) ==
    CASE thing = "dir" -> present \ {"dir"}
      [] thing = "copydir" -> present \cap {"copy"}
      [] OTHER -> {}

Says(thing) == CASE thing = "dir" -> "created" [] thing = "file" -> "uploaded" [] OTHER -> "copied"

\* A cleanup removes only what the probe may have made; a probe refused
\* before its folder was asked for has made nothing.
ToCleanup(error) == job' = [job EXCEPT !.error = error] /\ pc' = "clean.copy"
ProbeEnds(report, error, cleanup_error) ==
    job' = [job EXCEPT !.error = "none", !.r = record_write_probe(@, report, error, cleanup_error)] /\ pc' = "logout"

\* One request of the probe: carried out and answered; or unanswered, and
\* carried out, not carried out, or carried out later.
ProbeRequest(thing, report, next) ==
    \/ /\ nas' = [nas EXCEPT ![Dest].probe = @ \cup {thing}]
       /\ job' = [job EXCEPT !.report = [report EXCEPT ![Says(thing)] = TRUE]]
       /\ pc' = next /\ wrote' = wrote \cup {at} /\ UNCHANGED <<late, faults>>
    \/ \E fate \in {"never", "done", "late"} :
         /\ Lossy /\ faults' = faults + 1
         /\ nas' = IF fate = "done" THEN [nas EXCEPT ![Dest].probe = @ \cup {thing}] ELSE nas
         /\ wrote' = IF fate = "done" THEN wrote \cup {at} ELSE wrote
         /\ late' = IF fate = "late" THEN late \cup {[dest |-> Dest, at |-> at, thing |-> thing]} ELSE late
         /\ job' = [job EXCEPT !.error = "network", !.report = report] /\ pc' = "clean.copy"

ProbeCreate ==
    /\ pc = "probe.create"
    /\ \/ cancelled /\ ProbeEnds(NoReport, "cancelled", FALSE) /\ UNCHANGED <<nas, late, faults, wrote>>
       \/ ~ cancelled /\ Lossy /\ faults' = faults + 1 /\ ProbeEnds(NoReport, "network", FALSE) /\ UNCHANGED <<nas, late, wrote>>
       \/ ~ cancelled /\ ProbeRequest("dir", [NoReport EXCEPT !.verified = TRUE], "probe.upload")
    /\ JobStep /\ UNCHANGED <<login, sessions, deleted, ready, strays, lostLogouts>>

\* Only a folder that is still empty is written into.
ProbeUpload ==
    /\ pc = "probe.upload"
    /\ IF cancelled \/ Probe # {"dir"}
       THEN ToCleanup(IF cancelled THEN "cancelled" ELSE "not-empty") /\ UNCHANGED <<nas, late, faults, wrote>>
       ELSE ProbeRequest("file", [job.report EXCEPT !.uploaded = TRUE],
                         IF "CopyMove" \in T.found THEN "probe.copydir" ELSE "clean.copy")
    /\ JobStep /\ UNCHANGED <<login, sessions, deleted, ready, strays, lostLogouts>>

ProbeCopyDirectory ==
    /\ pc = "probe.copydir"
    /\ IF cancelled THEN ToCleanup("cancelled") /\ UNCHANGED <<nas, late, faults, wrote>>
       ELSE ProbeRequest("copydir", job.report, "probe.copy")
    /\ JobStep /\ UNCHANGED <<login, sessions, deleted, ready, strays, lostLogouts>>

ProbeCopy ==
    /\ pc = "probe.copy"
    /\ ProbeRequest("copy", [job.report EXCEPT !.copied = TRUE], "clean.copy")
    /\ JobStep /\ UNCHANGED <<login, sessions, deleted, ready, strays, lostLogouts>>

\* Nothing is removed with what is in it.  An interrupt does not stop this.
CleanUpNext == [copy |-> "clean.copydir", copydir |-> "clean.file", file |-> "clean.dir", dir |-> "look"]
CleanUp ==
    \E thing \in Things :
      /\ pc = [copy |-> "clean.copy", copydir |-> "clean.copydir", file |-> "clean.file", dir |-> "clean.dir"][thing]
      /\ pc' = CleanUpNext[thing]
      /\ \/ /\ nas' = IF Inside(thing, Probe) = {} THEN [nas EXCEPT ![Dest].probe = @ \ {thing}] ELSE nas
            /\ UNCHANGED faults
         \/ Lossy /\ faults' = faults + 1 /\ UNCHANGED nas
      /\ JobStep /\ UNCHANGED <<late, login, job, sessions, historyVars>>

\* What is still there, or may be, is named in the report.
CleanUpLook ==
    /\ pc = "look"
    /\ \E seen \in {"dir" \in Probe, TRUE} :
         /\ seen = ("dir" \in Probe) \/ Lossy
         /\ faults' = IF seen # ("dir" \in Probe) THEN faults + 1 ELSE faults
         /\ ProbeEnds([job.report EXCEPT !.cleaned = ~ seen, !.leftover = seen], IF job.error = "none" /\ seen THEN "cleanup" ELSE job.error, seen)
    /\ JobStep /\ UNCHANGED <<nas, late, login, sessions, historyVars>>

(***************************************************************************)
(* The end of a job.                                                       *)
(***************************************************************************)
\* A logout whose answer is lost may or may not have been carried out.
Logout ==
    /\ pc = "logout"
    /\ \E error \in {"none", IF Lossy THEN "network" ELSE "none"}, done \in BOOLEAN :
         /\ error = "none" => done
         /\ faults' = IF error = "none" THEN faults ELSE faults + 1
         /\ sessions' = IF done THEN sessions \ {MainSession} ELSE sessions
         /\ lostLogouts' = IF done THEN lostLogouts ELSE lostLogouts \cup {MainSession}
         /\ job' = IF IsDoctor THEN [job EXCEPT !.r = record_doctor_logout(@, error)] ELSE job
         /\ pc' = IF IsDoctor /\ ~ job.early /\ J.settings.level = "extensive" /\ job.r.channels # {} THEN "tokenless" ELSE "finish"
    /\ JobStep /\ UNCHANGED <<nas, late, login, deleted, wrote, ready, strays>>

\* A second login, without a token, tried once the first is over.  Its own
\* logout is attempted once and its failure passed over.
Tokenless ==
    /\ pc = "tokenless" /\ pc' = "finish"
    /\ \/ (cancelled \/ T.second_factor) /\ UNCHANGED <<job, faults, sessions, lostLogouts>>
       \/ /\ ~ cancelled /\ ~ T.second_factor
          /\ job' = [job EXCEPT !.r = record_tokenless_login_variant(@, IF "tokenless" \in T.accepted THEN "accepted" ELSE "rejected")]
          /\ UNCHANGED <<faults, sessions, lostLogouts>>
       \/ /\ ~ cancelled /\ ~ T.second_factor /\ Lossy /\ faults' = faults + 1
          /\ job' = [job EXCEPT !.r = record_tokenless_login_variant(@, "skipped")]
          /\ sessions' = sessions \cup {SideSession} /\ lostLogouts' = lostLogouts \cup {SideSession}
    /\ JobStep /\ UNCHANGED <<nas, late, login, deleted, wrote, ready, strays>>

\* A target's outcome: what a probe may have written is never plain failure.
DoctorOutcome(kept, r) ==
    [status |-> IF ~ kept THEN "failed"
                ELSE IF ~ doctor_result_error(r) THEN (IF phase = "preflight" THEN "preflighted" ELSE "success")
                ELSE IF phase = "execute" /\ doctor_result_may_have_mutated(r) THEN "partial" ELSE "failed",
     partial |-> FALSE, leftover |-> kept /\ r.report.leftover, planned |-> 0, changes |-> FALSE]

\* A sync's: work that was authorised and then failed is partial.
SyncOutcome(error) ==
    [status |-> IF error = "none" THEN (IF phase = "preflight" THEN "preflighted" ELSE "success")
                ELSE IF job.authorized THEN "partial" ELSE "failed",
     partial |-> error = "none" /\ job.deferred, leftover |-> FALSE,
     planned |-> IF phase = "preflight" THEN job.plan.deletes ELSE outcomes[at].planned,
     changes |-> IF phase = "preflight" THEN ~ PlanEmpty(job.plan) ELSE outcomes[at].changes]

SyncExit(error) ==
    IF error = "stale" THEN "changes"
    ELSE IF error # "none" THEN (IF error = "cancelled" THEN "cancelled" ELSE "error")
    ELSE LET code == batch_changes_completion(~ PlanEmpty(job.plan) /\ PlanOnly, cancelled, Flag(inv.args, "exit_code"))
         IN IF code # "cancelled" /\ job.deferred THEN "partial" ELSE code

DoctorExit(kept, r) ==
    IF ~ kept THEN "error"
    ELSE IF cancelled \/ r.cancelled \/ r.probe_cancelled THEN "cancelled" ELSE IF doctor_result_error(r) THEN "error" ELSE "ok"

\* The log is finished, the outcome written down; a batch goes on.
FinishJob ==
    /\ pc = "finish"
    /\ \E bad \in {FALSE, Lossy} :
         LET error == IF job.error # "none" THEN job.error ELSE IF bad THEN "log" ELSE "none"
             log == finish_doctor_logger(record_transport_summary_sections(record_reachability_section(job.r, T), T), bad)
             o == IF IsDoctor THEN DoctorOutcome(log.kept, log.r) ELSE SyncOutcome(error)
             gave_up == IF IsDoctor THEN log.kept /\ (log.r.cancelled \/ log.r.probe_cancelled) ELSE error = "cancelled"
         IN /\ faults' = IF bad THEN faults + 1 ELSE faults
            /\ outcomes' = [outcomes EXCEPT ![at] = o]
            /\ aborted' = (aborted \/ gave_up)
            /\ stopped' = (stopped \/ (phase = "execute" /\ o.status \in {"failed", "partial"}
                                       /\ (IsDoctor \/ job.refused \/ aborted \/ gave_up)))
            /\ ready' = IF o.status = "preflighted" THEN ready \cup {at} ELSE ready
            /\ IF phase = "single"
               THEN End(IF IsDoctor THEN DoctorExit(log.kept, log.r) ELSE SyncExit(error)) /\ UNCHANGED at
               ELSE pc' = "job" /\ at' = at + 1 /\ UNCHANGED exit
    /\ UNCHANGED <<fixedVars, phase, jobs, reserved, nas, late, login, job, cancelled, sessions, deleted, wrote, strays, lostLogouts>>

PlannedDeletions == [n \in {jobs[i].name : i \in DOMAIN jobs} |-> outcomes[CHOOSE i \in DOMAIN jobs : jobs[i].name = n].planned]
DeletionsFit ==
    preflight_deletions(UNION {SyncJobOf(jobs[i]) : i \in DOMAIN jobs}, PlannedDeletions, max_total_delete) # {}

\* All jobs of a pass are done: the batch stops, or its second pass begins.
EndPass ==
    /\ pc = "job" /\ at > Len(jobs)
    /\ LET over == aborted \/ cancelled
           bad == over \/ Some(outcomes, {"failed"}) \/ (~ IsDoctor /\ ~ DeletionsFit)
       IN IF phase = "preflight" /\ (bad \/ PlanOnly)
          THEN /\ End(IF over THEN "cancelled" ELSE IF bad THEN "error"
                      ELSE batch_changes_completion(\E i \in DOMAIN outcomes : outcomes[i].changes, cancelled, Flag(inv.args, "exit_code")))
               /\ UNCHANGED <<phase, at>>
          ELSE IF phase = "preflight" THEN phase' = "execute" /\ at' = 1 /\ UNCHANGED <<pc, exit>>
          ELSE /\ End(CASE IsSource -> source_batch_completion(outcomes, over)
                        [] IsDoctor -> doctor_batch_completion(outcomes, over)
                        [] OTHER -> sync_batch_completion(outcomes, over))
               /\ UNCHANGED <<phase, at>>
    /\ UNCHANGED <<fixedVars, jobs, outcomes, reserved, stopped, aborted, nas, late, login, job, cancelled, faults, sessions, historyVars>>

(***************************************************************************)
(* The surroundings.                                                       *)
(***************************************************************************)
Elsewhere == UNCHANGED <<inv, world, pc, phase, at, jobs, login, job, outcomes, reserved, stopped, aborted, faults, sessions, exit,
                         deleted, ready, lostLogouts>>

\* A request given up on is carried out after all.  What lands once the
\* cleanup has looked is nobody's to report.
LateLands ==
    \E q \in late :
      /\ late' = late \ {q}
      /\ IF Lands(q.thing, nas[q.dest].probe)
         THEN /\ nas' = [nas EXCEPT ![q.dest].probe = @ \cup {q.thing}]
              /\ wrote' = wrote \cup {q.at}
              /\ strays' = IF q.thing = "dir" /\ ~ (at = q.at /\ pc \in {"clean.copy", "clean.copydir", "clean.file", "clean.dir", "look"})
                           THEN strays \cup {q.dest} ELSE strays
         ELSE UNCHANGED <<nas, wrote, strays>>
      /\ Elsewhere /\ UNCHANGED <<cancelled, edits, window>>

\* Another client, or DSM's indexer, puts something into the probe's folder
\* or into a destination.
OthersWrite ==
    /\ edits < MaxEdits /\ edits' = edits + 1 /\ pc # "done"
    /\ \E d \in DOMAIN nas :
         \/ "dir" \in nas[d].probe /\ nas' = [nas EXCEPT ![d].probe = @ \cup {"foreign"}]
         \/ ~ IsDoctor /\ nas' = [nas EXCEPT ![d].extra = @ + 1]
    /\ Elsewhere /\ UNCHANGED <<late, cancelled, window, wrote, strays>>

\* The first interrupt is seen where the code looks for it, the second is
\* not survived.
Interrupt ==
    /\ pc \notin {"dispatch", "done"} /\ ~ cancelled /\ cancelled' = TRUE
    /\ Elsewhere /\ UNCHANGED <<nas, late, edits, window, wrote, strays>>
InterruptAgain ==
    /\ pc \notin {"dispatch", "done"} /\ cancelled /\ End("killed")
    /\ UNCHANGED <<fixedVars, nas, late, phase, at, jobs, login, job, outcomes, reserved, stopped, aborted, cancelled, faults, sessions, historyVars>>

\* The clock moves into the next 30-second window during a login.
ClockTicks ==
    /\ pc = "login" /\ window + 1 \in Windows /\ window' = window + 1
    /\ Elsewhere /\ UNCHANGED <<nas, late, cancelled, edits, wrote, strays>>

Next ==
    \/ Dispatch \/ RunConfig \/ RunCredentials \/ BeginJob \/ DiagnoseSource \/ ConnectDoctor \/ ConnectSync
    \/ ReadPassword \/ LogIn \/ MakePlan \/ Mutate
    \/ confirm_file_station_session \/ DiagnoseSession \/ DiagnoseDestination
    \/ ProbeCreate \/ ProbeUpload \/ ProbeCopyDirectory \/ ProbeCopy \/ CleanUp \/ CleanUpLook
    \/ Logout \/ Tokenless \/ FinishJob \/ EndPass
    \/ LateLands \/ OthersWrite \/ Interrupt \/ InterruptAgain \/ ClockTicks

Spec == Init /\ [][Next]_vars

(***************************************************************************)
(* Properties.                                                             *)
(***************************************************************************)
Over == pc = "done" /\ exit # "killed"

\* However entries appear between a batch's two passes, its jobs together
\* delete no more than --max-total-delete, each no more than its own limit,
\* and a plan nothing (run_sync_batch, main.rs:786).
BatchBudget ==
    jobs # <<>> /\ ~ IsDoctor /\ ~ IsSource =>
      /\ \A i \in DOMAIN jobs : deleted[i] <= (IF PlanOnly THEN 0 ELSE jobs[i].settings.safety.max_delete)
      /\ inv.batch.requested => FoldSeq(LAMBDA n, total : n + total, 0, deleted) <= max_total_delete

\* What a batch says of its jobs is what they did: nothing is written until
\* every target's preflight succeeded, a job called failed, not run or
\* preflighted wrote nothing, and an exit code of success leaves nothing to
\* upload (the outcome tables of run_sync_batch and run_doctor_batch).
OutcomesTruthful ==
    inv.batch.requested /\ jobs # <<>> =>
      /\ wrote # {} => ready = DOMAIN jobs
      /\ \A i \in wrote : (i < at \/ Over) => outcomes[i].status \notin {"failed", "not-run", "preflighted"}
      /\ Over /\ exit = "ok" /\ phase = "execute" =>
           IF IsDoctor THEN all_doctor_targets_preflighted([i \in DOMAIN jobs |-> [status |-> IF i \in ready THEN "preflighted" ELSE "failed"]], FALSE)
           ELSE sync_batch_status(outcomes, FALSE) = "success" /\ \A d \in DOMAIN nas : nas[d].todo = 0
      /\ Over /\ IsSource => (exit = "ok" => source_batch_status(outcomes) = "success")

\* A probe's folder that is still on the NAS when the command ends is named
\* in its output, and the command does not end well.  The exception is a
\* request that DSM carries out after the cleanup has looked (run_write_probe
\* and finish_doctor_logger).
LeftoverReported ==
    Over => \A d \in DOMAIN nas :
      "dir" \in nas[d].probe /\ d \notin strays =>
         exit # "ok" /\ \E i \in DOMAIN jobs : jobs[i].name = world[d].name /\ outcomes[i].leftover

\* Whatever went wrong, a session that was opened is closed or its logout
\* was sent (finish_authenticated_operation, record_doctor_logout).
SessionsClosed == Over => sessions \subseteq lostLogouts

\* A one-time code DSM has refused is not sent again unless the user typed
\* it, and one login never costs more than four attempts, so that DSM's
\* auto-block is not provoked (authenticate_with_otp_interaction).
LoginBounded ==
    /\ login.sent <= 4
    /\ pc = "login" /\ login.otp # {} /\ login.otp \subseteq login.refused => login.otp = {TypedCode}

\* What a command does is what it was allowed to and what it says: a batch
\* within its deletion budget, its outcomes true, its leftovers named
\* (main.rs:786, api.rs:3163).
ReportedTruthfully == BatchBudget /\ OutcomesTruthful /\ LeftoverReported
=============================================================================
