-------------------------------- MODULE Sdk --------------------------------
(***************************************************************************)
(* The synchronisation engine as another program embeds it: Engine::run of *)
(* the Rust SDK, and the C interface that turns its callbacks, errors and  *)
(* panics into status codes.  The embedding program is told of every step  *)
(* and may cancel at each, may misbehave, and may cancel from another      *)
(* thread at any time.                                                     *)
(*                                                                         *)
(* What is planned and how it is executed is the subject of SyncRun and    *)
(* Executor; here a plan is a set of paths to change, named by the list of *)
(* the plan they are in.                                                   *)
(***************************************************************************)
EXTENDS Integers, Sequences, FiniteSets, SequencesExt

CONSTANT Hosts   \* embedding programs: their request, their callbacks, their NAS

VARIABLES host,     \* the embedding program
          stage,    \* "call", "run", "leave", "returned"
          step,     \* the place in Script
          auth,     \* the login under way
          token,    \* the cancellation token
          session,  \* "none", "open", "closed", "lost"
          shown,    \* {}, or the summary the plan callback was given
          applying, \* what the plan callback decided
          report,   \* execution's report: paths changed, paths deferred
          failure,  \* {}, or the callback failure the C interface recorded
          verdict,  \* what the operation, then the run, comes to
          status,   \* the C interface's status, "none" before it returns
          handles,  \* library-owned handles the host holds
          refusals  \* history: how often the host said no, or nonsense

sdkVars == <<host, stage, step, auth, token, session, shown, applying, report, failure, verdict, status, handles, refusals>>

MAX_JOBS == 16
MAX_RETRIES == 5

(***************************************************************************)
(* The request.                                                            *)
(***************************************************************************)
\* A zero bound is no policy at all.
DeletionPolicyBounded(max) == max > 0

build(r) ==
    /\ r.username /\ r.source /\ r.timeouts > 0
    /\ r.jobs \in 1 .. MAX_JOBS /\ r.retries <= MAX_RETRIES
    /\ r.rate # {0} /\ r.endpoint /\ r.remote

\* The C interface's JSON document: deletion is off and says nothing more,
\* or is on with a bound.
build_request(doc) ==
    /\ doc.schema
    /\ \/ doc.deletion = {}
       \/ \E d \in doc.deletion :
            IF d.enabled THEN \E m \in d.max : DeletionPolicyBounded(m)
            ELSE d.max = {} /\ ~ d.empty
    /\ build(doc)

\* A table of callbacks is read once its size covers this version's.
copy_callbacks(table) == \A t \in table : t.size >= t.layout /\ t.reserved = 0

run_inner_accepts(h) == h.bytes = "json" /\ build_request(h.doc) /\ copy_callbacks(h.table)

(***************************************************************************)
(* Errors.                                                                 *)
(***************************************************************************)
from_core(e) ==
    CASE e \in {"InvalidUrl", "HttpsRequired", "UnsafeRemotePath", "ScopeNotFound", "Configuration"} -> "invalid-request"
      [] e \in {"InvalidSource", "UnsupportedLocalEntry", "FileIo", "SourceChanged"} -> "local-filesystem"
      [] e \in {"Http", "HttpBody", "HttpStatus"} -> "network"
      [] e \in {"TypeConflict", "ProtectedConflict", "EmptySourceDeletion", "DeleteLimit", "ResyncTicketStale",
                "RemoteSnapshotChanged", "RemoteLinkInScope"} -> "safety"
      [] e = "Cancelled" -> "cancelled"
      [] e = "ReconciliationPending" -> "reconciliation"
      [] e = "Message" -> "internal"
      [] OTHER -> "remote"

authentication(e) ==
    CASE e \in {"Http", "HttpBody", "HttpStatus"} -> "network"
      [] e = "Cancelled" -> "cancelled"
      [] OTHER -> "authentication"

NoVerdict == [kind |-> "none", code |-> "none", completed |-> {}]
SdkErr(code) == [kind |-> "error", code |-> code, completed |-> {}]
with_partial_execution(v, summary) == [v EXCEPT !.completed = {summary}]
RunOutcome(was_applied) == [kind |-> "ok", code |-> IF was_applied THEN "applied" ELSE "preview", completed |-> {}]

(***************************************************************************)
(* The order of things.                                                    *)
(***************************************************************************)
Told(edge, phase) == <<"emit", edge, phase>>
Work(w) == <<"work", "do", w>>
Around(phase, w) == <<Told("started", phase)>> \o w \o <<Told("completed", phase)>>

Preparing(h) ==
    <<Work("check")>>
    \o Around("local-scan", <<Work("scan")>>)
    \o Around("api-discovery", <<Work("connect")>>)
    \o Around("authentication", <<Work("authenticate")>>)
    \o <<Work("writable")>>
    \o Around("remote-scan", <<Work("inventory")>>)
    \o (IF h.doc.content THEN Around("content-hashing", <<Work("digests")>>) ELSE <<Work("digests")>>)
    \o Around("planning", <<Work("plan"), Told("ready", "plan")>>)

Applying ==
    <<Work("on_plan"), Told("started", "execution"), Work("write"), Work("prune"), Told("completed", "execution"),
      Told("started", "reconciliation"), Work("reconcile"), Told("completed", "reconciliation"), Work("outcome")>>

Script(h) == Preparing(h) \o Applying

Here == Script(host)[step]
At(w) == stage = "run" /\ Here = Work(w)
Planned == host.plan \* the paths the plan changes

\* What may go wrong in each piece of work.
CoreErrors(w) ==
    CASE w = "scan" -> {"InvalidSource", "FileIo"}
      [] w = "connect" -> {"Http", "InvalidResponse"} \cup IF host.doc.deletion # {} THEN {"MissingApi"} ELSE {}
      [] w = "writable" -> {"ShareNotWritable", "HttpBody"}
      [] w = "inventory" -> {"Http", "RemoteRealPathUnusable"}
      [] w = "digests" -> {"RemoteDigestsFailing"}
      [] w = "plan" -> {"DeleteLimit", "EmptySourceDeletion", "TypeConflict"}
      [] OTHER -> {}

(***************************************************************************)
(* The host's callbacks.                                                   *)
(***************************************************************************)
\* What an event callback may do: a closure of a Rust host may panic, a C
\* function may return a value the interface does not define.
EventAnswers ==
    IF ~ host.event THEN {"continue"}
    ELSE {"continue", "cancel"} \cup (IF host.abi = "c" THEN {"unknown"} ELSE {"panic"})

\* A plan callback that is not there decides nothing.
PlanAnswers ==
    IF ~ host.plans THEN {"preview"}
    ELSE {"preview", "apply"} \cup (IF host.abi = "c" THEN {"cancel", "unknown"} ELSE {"panic"})

\* Two passes ask a secret's length, then its bytes; a callback that says
\* two things is refused.
SecretAnswers ==
    IF ~ host.secret THEN {"unavailable"}
    ELSE {"value", "unavailable", "cancelled"} \cup (IF host.abi = "c" THEN {"changed"} ELSE {"panic"})

\* The interface keeps the first failure of a secret callback, the last of
\* the others, and stops the run.
CallbackStatus(answer) == IF answer = "cancel" THEN "cancelled" ELSE "callback-failed"
invalid_callback == failure' = IF failure = {} THEN {"callback-failed"} ELSE failure

invoke_event(a) ==
    IF a = "unknown" THEN failure' = {CallbackStatus(a)} ELSE UNCHANGED failure

(***************************************************************************)
(* Leaving.  With a session open every way out passes the logout.          *)
(***************************************************************************)
Protected == session = "open"

\* The operation ends; its verdict waits for the logout.
Ends(v) ==
    /\ verdict' = v
    /\ stage' = IF Protected THEN "leave" ELSE "return"

\* The operation's panic is the run's; a logout is tried and not heard.
Unwinds ==
    /\ verdict' = [kind |-> "panic", code |-> "none", completed |-> {}]
    /\ stage' = "return"
    /\ session' \in IF Protected THEN {"closed", "lost"} ELSE {session}

Goes == step' = step + 1 /\ UNCHANGED <<stage, verdict>>
Same == UNCHANGED <<host, status, handles>>

\* emit: the host is told, unless the run is cancelled; it may cancel it.
Emit ==
    /\ stage = "run" /\ Here[1] = "emit"
    /\ IF token THEN Ends(SdkErr("cancelled")) /\ UNCHANGED <<step, token, session, failure, refusals>>
       ELSE \E a \in EventAnswers :
              /\ invoke_event(a)
              /\ CASE a = "continue" -> Goes /\ UNCHANGED <<token, session, refusals>>
                   [] a \in {"cancel", "unknown"} -> Ends(SdkErr("cancelled")) /\ token' = TRUE /\ refusals' = refusals + 1
                                                     /\ UNCHANGED <<step, session>>
                   [] OTHER -> Unwinds /\ UNCHANGED <<step, token, refusals>>
    /\ Same /\ UNCHANGED <<auth, shown, applying, report>>

\* The scans, discovery, the digests and the plan.
DoWork ==
    /\ stage = "run" /\ Here[1] = "work" /\ Here[3] \in {"check", "scan", "connect", "writable", "inventory", "digests", "plan"}
    /\ \/ ~ token /\ Goes
       \/ token /\ Ends(SdkErr("cancelled")) /\ UNCHANGED step
       \/ ~ token /\ \E e \in CoreErrors(Here[3]) : Ends(SdkErr(from_core(e))) /\ UNCHANGED step
    /\ Same /\ UNCHANGED <<auth, token, session, shown, applying, report, failure, refusals>>

(***************************************************************************)
(* authenticate: the password alone, then a code when DSM asks for one,    *)
(* then one more when it refused that.                                     *)
(***************************************************************************)
provider_error(answer) == IF answer = "cancelled" THEN "cancelled" ELSE "credential-unavailable"

\* A secret is asked for: the password, or a code for the challenge.
AskSecret ==
    /\ At("authenticate") /\ auth \in {"password", "otp-required", "otp-rejected"}
    /\ IF token THEN Ends(SdkErr("cancelled")) /\ UNCHANGED <<auth, session, failure, refusals>>
       ELSE \E a \in SecretAnswers, usable \in BOOLEAN :
              /\ IF a = "changed" THEN invalid_callback ELSE UNCHANGED failure
              /\ refusals' = IF a \in {"changed", "cancelled"} THEN refusals + 1 ELSE refusals
              /\ CASE a = "panic" -> Unwinds /\ UNCHANGED auth
                   [] a = "value" /\ usable ->
                        /\ auth' = CASE auth = "password" -> "login" [] auth = "otp-required" -> "login-otp" [] OTHER -> "login-again"
                        /\ UNCHANGED <<stage, verdict, session>>
                   [] a = "unavailable" /\ auth # "password" -> Ends(SdkErr("otp-required")) /\ UNCHANGED <<auth, session>>
                   [] OTHER -> Ends(SdkErr(provider_error(a))) /\ UNCHANGED <<auth, session>>
    /\ Same /\ UNCHANGED <<step, token, shown, applying, report>>

\* DSM's answer.  A login whose answer is lost opened no session the client
\* knows of.
LogInSdk ==
    /\ At("authenticate") /\ auth \in {"login", "login-otp", "login-again"}
    /\ \/ /\ auth = "login" => ~ host.second_factor
          /\ session' = "open" /\ Goes /\ UNCHANGED auth
       \/ /\ auth = "login" /\ host.second_factor
          /\ auth' = "otp-required" /\ UNCHANGED <<stage, verdict, session, step>>
       \/ /\ auth = "login-otp"
          /\ auth' = "otp-rejected" /\ UNCHANGED <<stage, verdict, session, step>>
       \/ \E e \in {"Http", "Api"} : Ends(SdkErr(authentication(e))) /\ UNCHANGED <<auth, session, step>>
    /\ Same /\ UNCHANGED <<token, shown, applying, report, failure, refusals>>

(***************************************************************************)
(* The plan, shown once, and carried out.                                  *)
(***************************************************************************)

summarize_plan(plan) == plan \cap {"pre-delete", "create", "copy", "upload", "post-delete", "rename"}

OnPlan ==
    /\ At("on_plan")
    /\ shown' = {summarize_plan(Planned)}
    /\ \E a \in PlanAnswers :
         /\ failure' = IF a \in {"cancel", "unknown"} THEN {CallbackStatus(a)} ELSE failure
         /\ token' = (token \/ a \in {"cancel", "unknown"})
         /\ refusals' = IF a \in {"cancel", "unknown"} THEN refusals + 1 ELSE refusals
         /\ applying' = (a = "apply")
         /\ CASE a = "panic" -> Unwinds /\ UNCHANGED step
              [] a # "panic" /\ token' -> Ends(SdkErr("cancelled")) /\ UNCHANGED <<step, session>>
              [] a = "apply" /\ ~ token' -> Goes /\ UNCHANGED session
              [] OTHER -> Ends(RunOutcome(FALSE)) /\ UNCHANGED <<step, session>>
    /\ Same /\ UNCHANGED <<auth, report>>

\* execute_observed_reporting_partial, one path at a time: it is changed,
\* deferred, or fails; the host is told of each.
CarryOrder == <<"pre-delete", "create", "copy", "upload", "post-delete", "rename">>
Lists(w) == IF w = "write" THEN {"pre-delete", "create", "copy", "upload"} ELSE {"post-delete", "rename"}
Left == {p \in Planned \cap Lists(Here[3]) : p \notin report.changed /\ p \notin report.deferred}
InExecution == stage = "run" /\ Here[1] = "work" /\ Here[3] \in {"write", "prune"}
NextPath == CarryOrder[CHOOSE i \in 1 .. 6 : CarryOrder[i] \in Left /\ \A j \in 1 .. i - 1 : CarryOrder[j] \notin Left]
from_report(r) == r.changed

ExecutionFails(e, r) == Ends(with_partial_execution(SdkErr(from_core(e)), from_report(r)))

Execute ==
    /\ InExecution /\ Left # {}
    /\ IF token THEN ExecutionFails("Cancelled", report) /\ UNCHANGED <<token, session, report, failure, refusals>>
       ELSE \E how \in {"changed", "deferred", "failed"}, a \in EventAnswers :
              LET r == CASE how = "changed" -> [report EXCEPT !.changed = @ \cup {NextPath}]
                         [] how = "deferred" -> [report EXCEPT !.deferred = @ \cup {NextPath}]
                         [] OTHER -> report
              IN /\ report' = r
                 /\ IF how = "failed"
                    THEN /\ a = "continue"
                         /\ ExecutionFails("Http", r) /\ UNCHANGED <<token, session, failure, refusals>>
                    ELSE /\ invoke_event(a)
                         /\ token' = (a \in {"cancel", "unknown"})
                         /\ refusals' = IF a \in {"cancel", "unknown"} THEN refusals + 1 ELSE refusals
                         /\ IF a = "panic" THEN Unwinds ELSE UNCHANGED <<stage, verdict, session>>
    /\ Same /\ UNCHANGED <<step, auth, shown, applying>>

\* The writes are over, and a cancelled run deletes nothing; then the
\* deletions and renames are.  An empty plan is not executed at all.
Executed ==
    /\ InExecution /\ Left = {}
    /\ IF token /\ Here[3] = "write" /\ Planned # {} THEN ExecutionFails("Cancelled", report) /\ UNCHANGED step ELSE Goes
    /\ Same /\ UNCHANGED <<auth, token, session, shown, applying, report, failure, refusals>>

\* The tree is looked at again, under the command line's rules, unless
\* there was nothing to do.
Reconcile ==
    /\ At("reconcile")
    /\ \/ Planned = {} /\ Goes
       \/ Planned # {} /\ ~ token /\ Goes
       \/ Planned # {} /\ token /\ Ends(SdkErr("cancelled")) /\ UNCHANGED step
       \/ Planned # {} /\ ~ token /\ \E e \in {"Http", "ReconciliationPending", "FileIo"} : Ends(SdkErr(from_core(e))) /\ UNCHANGED step
    /\ Same /\ UNCHANGED <<auth, token, session, shown, applying, report, failure, refusals>>

Outcome ==
    /\ At("outcome") /\ Ends(RunOutcome(TRUE))
    /\ Same /\ UNCHANGED <<step, auth, token, session, shown, applying, report, failure, refusals>>

(***************************************************************************)
(* The logout: the host is told, but neither its answer nor its panic      *)
(* keeps the session open.                                                 *)
(***************************************************************************)

AfterAnnouncement(heard) == IF heard = "panic" THEN "return" ELSE "logout"

\* The verdict of an operation that went well gives way to a cancelled
\* announcement.
Unless(v, e) == IF v.kind = "ok" THEN SdkErr(e) ELSE v

AnnounceLogout ==
    /\ stage = "leave"
    /\ \E a \in IF token THEN {"not-told"} ELSE EventAnswers :
         /\ invoke_event(a)
         /\ token' = (token \/ a \in {"cancel", "unknown"})
         /\ refusals' = IF a \in {"cancel", "unknown"} THEN refusals + 1 ELSE refusals
         /\ stage' = AfterAnnouncement(a)
         /\ IF a = "panic" THEN /\ verdict' = [verdict EXCEPT !.kind = "panic"]
                                /\ session' \in {"closed", "lost"}
            ELSE /\ verdict' = IF a = "continue" THEN verdict ELSE Unless(verdict, "cancelled")
                 /\ UNCHANGED session
    /\ Same /\ UNCHANGED <<step, auth, shown, applying, report>>

LogoutSdk ==
    /\ stage = "logout"
    /\ \/ session' = "closed" /\ UNCHANGED verdict
       \/ session' = "lost" /\ verdict' = Unless(verdict, from_core("Http"))
    /\ stage' = "left"
    /\ Same /\ UNCHANGED <<step, auth, token, shown, applying, report, failure, refusals>>

\* emit_without_cancellation: told whatever the token says.
TellLogout ==
    /\ stage = "left"
    /\ \E a \in EventAnswers :
         /\ invoke_event(a)
         /\ token' = (token \/ a = "unknown")
         /\ refusals' = IF a \in {"cancel", "unknown"} THEN refusals + 1 ELSE refusals
         /\ verdict' = CASE a = "continue" -> verdict
                         [] a = "panic" -> [verdict EXCEPT !.kind = "panic"]
                         [] OTHER -> Unless(verdict, "cancelled")
    /\ stage' = "return"
    /\ Same /\ UNCHANGED <<step, auth, session, shown, applying, report>>

(***************************************************************************)
(* The C interface.                                                        *)
(***************************************************************************)
run_inner_status(v, f) ==
    IF f # {} THEN CHOOSE x \in f : TRUE
    ELSE IF v.kind = "ok" THEN "ok"
    ELSE IF v.code = "cancelled" THEN "cancelled" ELSE "operation-failed"

\* contain_run: no panic crosses the interface.
contain_run(v, f) == IF v.kind = "panic" THEN "panic" ELSE run_inner_status(v, f)

\* sdsync_run_v1, or SyncRequest::build and Engine::run from Rust.
Call ==
    /\ stage = "call"
    /\ LET accepted == IF host.abi = "c" THEN run_inner_accepts(host) ELSE build(host.doc)
       IN IF accepted THEN stage' = "run" /\ UNCHANGED <<verdict, status, handles>>
          ELSE /\ stage' = "returned" /\ verdict' = SdkErr("invalid-request")
               /\ status' = "invalid-argument" /\ handles' = handles \cup {"result"}
    /\ UNCHANGED <<host, step, auth, token, session, shown, applying, report, failure, refusals>>

Return ==
    /\ stage = "return" /\ stage' = "returned"
    /\ status' = contain_run(verdict, failure)
    /\ handles' = handles \cup {"result"}
    /\ UNCHANGED <<host, step, auth, token, session, shown, applying, report, failure, verdict, refusals>>

\* sdsync_cancellation_cancel_v1, from another thread.
CancelFromOutside ==
    /\ ~ token /\ stage \notin {"call", "returned"} /\ "cancellation" \in handles
    /\ token' = TRUE
    /\ UNCHANGED <<host, stage, step, auth, session, shown, applying, report, failure, verdict, status, handles, refusals>>

\* A handle is freed once, after the run it serves.
FreeHandle ==
    /\ stage = "returned"
    /\ \E h \in handles : handles' = handles \ {h}
    /\ UNCHANGED <<host, stage, step, auth, token, session, shown, applying, report, failure, verdict, status, refusals>>

SdkInit ==
    /\ host \in Hosts
    /\ stage = "call" /\ step = 1 /\ auth = "password" /\ token = FALSE /\ session = "none"
    /\ shown = {} /\ applying = FALSE /\ report = [changed |-> {}, deferred |-> {}] /\ failure = {}
    /\ verdict = NoVerdict /\ status = "none" /\ refusals = 0
    /\ handles = IF host.cancels THEN {"cancellation"} ELSE {}

SdkNext ==
    \/ Call \/ Emit \/ DoWork \/ AskSecret \/ LogInSdk \/ OnPlan \/ Execute \/ Executed \/ Reconcile \/ Outcome
    \/ AnnounceLogout \/ LogoutSdk \/ TellLogout \/ Return \/ CancelFromOutside \/ FreeHandle

SdkSpec == SdkInit /\ [][SdkNext]_sdkVars

(***************************************************************************)
(* Properties.                                                             *)
(***************************************************************************)
\* However a run ends (refused by the host at any event, cancelled from
\* another thread, failed, panicked in any callback, even in the
\* announcement of the logout itself), it never returns with its DSM
\* session still open: every way out of Engine::run tried the logout.
HostSessionClosed == stage = "returned" => session # "open"

\* Nothing is changed on the NAS that the host was not shown, and nothing
\* before it said to apply; a preview changed nothing, and a success after
\* the host refused anything (an event, the plan, a secret) is impossible.
AppliedAsShown ==
    /\ report.changed # {} => applying /\ \E s \in shown : report.changed \subseteq s
    /\ status = "ok" => refusals = 0 /\ (verdict.code = "preview" => report.changed = {})
=============================================================================
