---------------------------- MODULE BridgeRequest -----------------------------
(***************************************************************************)
(* What the DSM bridge (src/src/dsm_api.rs) accepts.  The CGI process and  *)
(* the service both validate a request, the service parses the mutation it *)
(* carries, and the consumer parses the job written for it, possibly much  *)
(* later and under another security policy.  Every operator here answers   *)
(* "ok" or the kind of the BridgeError the code returns; where several     *)
(* checks fail the first one in the source decides.                        *)
(*                                                                         *)
(* A request is abstracted to what its checks tell apart:                  *)
(*   method   "GET", "POST" or "other";                                    *)
(*   faults   the environment-level checks it fails;                       *)
(*   ids      the pairs of its cookie whose name is some spelling of "id"; *)
(*   header, query  the two copies of its Synology token;                  *)
(*   action, params, badParams  its read action and query parameters;      *)
(*   length   its declared body length (-1 stands for a malformed one);    *)
(*   doc      the mutation its body holds.                                 *)
(* A mutation document has an operation, a kind (the mode of a routine,    *)
(* the kind of an action, the event or secret kind), the set of optional   *)
(* fields and switches it has, and whether every bounded number and text   *)
(* in it is within its bounds.                                             *)
(***************************************************************************)
EXTENDS Integers, Sequences, FiniteSets, FiniteSetsExt

CONSTANT
    MaxBody            \* MAX_POST_BODY_BYTES, in units of one small body

ASSUME MaxBodyAssumption == MaxBody \in Nat \ {0}

\* The answer of a list of checks <<fault, error>>: the first fault the
\* document has, in source order.
FirstError(checks, faults) ==
    LET failing == {i \in DOMAIN checks : checks[i][1] \in faults}
    IN  IF failing = {} THEN "ok" ELSE checks[Min(failing)][2]

Then(first, second) == IF first = "ok" THEN second ELSE first

Require(condition, error) == IF condition THEN "ok" ELSE error

-----------------------------------------------------------------------------
(* The HTTP request *)

\* Every environment variable read is bounded and free of control bytes;
\* only the method is mandatory.
process_environment(r) ==
    FirstError(<< <<"no_method", "bad_request">>,
                  <<"oversized_variable", "bad_request">>,
                  <<"control_byte", "bad_request">> >>, r.faults)

\* Exactly one cookie pair may be any spelling of "id", spelled exactly so
\* and with a value of cookie octets.
dsm_session_cookie_id(ids) ==
    Require(Len(ids) = 1 /\ ids[1] = "id", "unauthorized")

\* Header and query may both carry the token, then they must be equal.
choose_synology_token(header, query) ==
    LET selected == IF header # "none" THEN header ELSE query
    IN  Then(Require(~(header # "none" /\ query # "none" /\ header # query),
                     "forbidden"),
             Require(selected # "unusable", "forbidden"))

parse_content_length(length) ==
    Then(Require(length > 0, "bad_request"),
         Require(length <= MaxBody, "payload_too_large"))

RequiredParams ==
    [csrf |-> {}, snapshot |-> {}, source_directories |-> {"parent"},
     source_path |-> {"path"}, logs |-> {}, activity |-> {},
     status_rollup |-> {}, result |-> {"job_id"},
     request_status |-> {"request_id"}]

OptionalParams ==
    [RequiredParams EXCEPT !.source_directories = {}, !.source_path = {},
                           !.result = {}, !.request_status = {},
                           !.logs = {"lines", "source"}, !.activity = {"lines"}]

\* A read names a known action with exactly its parameters, each well formed.
parse_read_action(r) ==
    Require(/\ r.action \in DOMAIN RequiredParams
            /\ RequiredParams[r.action] \subseteq r.params
            /\ r.params \subseteq RequiredParams[r.action] \cup OptionalParams[r.action]
            /\ r.badParams = {}, "bad_request")

\* validate_http_request, run by the CGI process and again by the service.
validate_http_request(r) ==
    LET shared == Then(FirstError(<< <<"transfer_encoding", "bad_request">>,
                                     <<"no_marker", "forbidden">> >>, r.faults),
                  Then(dsm_session_cookie_id(r.ids),
                  Then(FirstError(<< <<"query_malformed", "bad_request">> >>, r.faults),
                       choose_synology_token(r.header, r.query))))
        get  == Then(FirstError(<< <<"body_headers", "bad_request">> >>, r.faults),
                     parse_read_action(r))
        post == Then(Require(r.params = {} /\ r.action = "none", "bad_request"),
                Then(parse_content_length(r.length),
                     FirstError(<< <<"not_json", "unsupported_media_type">>,
                                   <<"no_csrf", "forbidden">> >>, r.faults)))
    IN  Then(shared, CASE r.method = "GET"  -> get
                       [] r.method = "POST" -> post
                       [] OTHER             -> "method_not_allowed")

\* read_exact_body: the body has the declared length, no more and no less.
read_exact_body(r, present) ==
    Then(Require(r.length > 0 /\ r.length <= MaxBody, "payload_too_large"),
         Require(present = r.length, "bad_request"))

\* One frame and nothing after it; the error of a short one is the caller's.
read_single_frame(frame, malformed) ==
    FirstError(<< <<"short_header", malformed>>, <<"oversized", "payload_too_large">>,
                  <<"empty", malformed>>, <<"short_payload", malformed>>,
                  <<"trailing", malformed>> >>, frame)

-----------------------------------------------------------------------------
(* Who is asking *)

\* The CGI and the service run only as the package's own user, from a
\* regular executable nobody else may write.
validate_package_identity(identity) ==
    Require(/\ identity.owner # "root"
            /\ identity.real = identity.owner
            /\ identity.effective = identity.owner
            /\ identity.mode = "0755", "unsafe_runtime")

\* The helper is run directly when the caller may execute it, asked for
\* through DSM's loopback service when execution is denied, and unavailable
\* otherwise.
select_authentication_helper(probe, helper) ==
    CASE probe = "executable" ->
            IF helper = "trusted" THEN "direct" ELSE "unsafe_runtime"
      [] probe = "denied" -> "loopback"
      [] OTHER            -> "unavailable"

\* The loopback service: unreachable, malformed or redirected answers make
\* it unavailable, a session it does not know is unauthorized, and one that
\* is not an administrator's is forbidden.
query_dsm_user_service(answer) ==
    CASE answer \in {"no_port", "unreachable", "not_loopback", "bad_length",
                     "not_json"} -> "unavailable"
      [] answer \in {"no_session", "bad_user"} -> "unauthorized"
      [] answer = "not_admin" -> "forbidden"
      [] OTHER -> "ok"

\* Direct helper: nonzero exit or unusable output is unauthorized; one that
\* cannot be captured (timeout, too much output) is unavailable.
authenticated_helper_username(output) ==
    CASE output = "uncaptured" -> "unavailable"
      [] output \in {"failed", "unusable"} -> "unauthorized"
      [] OTHER -> "ok"

\* A user is known to the system, not root, and in the administrators group,
\* as its primary group or as a supplementary one.
authorize_relayed_username(user) ==
    Require(/\ user.known
            /\ user.uid # 0
            /\ user.primary = "administrators" \/ "administrators" \in user.groups,
            "forbidden")

\* authenticate_and_authorize_cgi: helper or loopback service, then the
\* user's group.
authenticate_and_authorize_cgi(login) ==
    LET route == select_authentication_helper(login.probe, login.helper)
    IN  CASE route = "loopback" -> Then(query_dsm_user_service(login.answer),
                                        authorize_relayed_username(login.user))
          [] route = "direct"   -> Then(Require(~login.replaced, "unsafe_runtime"),
                                   Then(authenticated_helper_username(login.answer),
                                        authorize_relayed_username(login.user)))
          [] OTHER -> route

\* A token is accepted while its lifetime is the one the policy now sets, it
\* was not issued in the future (beyond the skew) and has not expired, and it
\* was signed for this session.
verify_csrf_token(token, binding, now, skew, lifetime) ==
    Require(/\ token.expires - token.issued = lifetime
            /\ token.issued <= now + skew
            /\ token.expires > now
            /\ token.binding = binding, "csrf_rejected")

(***************************************************************************)
(* The mutations the DSM bridge queues (src/src/dsm_api.rs): how the       *)
(* service parses a request body, how the consumer parses the job it was   *)
(* turned into, what the security policy lets through, what the manager is *)
(* told to do, and which manager results are stored and read back.         *)
(*                                                                         *)
(* A document is [op, kind, has, bounded]: its operation, its mode or      *)
(* kind, the optional fields and switches it has, and whether every        *)
(* bounded number and text of it is within bounds.  A policy is the set of *)
(* switches that are on.                                                   *)
(***************************************************************************)

Operations ==
    {"configure-profile", "remove-profile", "set-default", "set-secret",
     "test-profile-auth", "browse-remote", "schedule", "routine",
     "remove-routine", "alert-policy", "security-policy", "client-event",
     "action", "sync-status", "resync", "clear-logs"}

ConnectionOperations == {"test-profile-auth", "browse-remote"}

-----------------------------------------------------------------------------
(* The arguments of one operation *)

SecretValues == {"value", "value_unusable", "password_value", "totp_value",
                 "totp_unusable"}

\* What the security policy may forbid, and the operations that have it.
Governed == {"allow_http", "invalid_certs", "delete", "allow_delete", "remote_log_url",
             "remote_log_token", "allow_empty_source", "write_test"}

FieldsOf(op) ==
    CASE op = "configure-profile"   -> {"allow_http", "invalid_certs", "delete",
                                        "remote_log_url", "allow_empty_source"}
      [] op \in ConnectionOperations -> {"allow_http", "invalid_certs", "password_value",
                                        "totp_value", "totp_unusable"}
      [] op = "set-secret"          -> {"value", "value_unusable", "remote_log_token"}
      [] op \in {"schedule", "routine"} -> {"allow_delete"}
      [] op = "action"              -> {"allow_delete", "write_test"}
      [] OTHER                      -> {}

\* deny_unknown_fields: an operation that has a field of another is refused.
FieldsKnown(d) == d.has \cap (Governed \cup SecretValues) \subseteq FieldsOf(d.op)

\* A target is https, or http when the document itself allows it.
UrlAllowed(d) == "http_url" \in d.has => "allow_http" \in d.has

validate_configure_profile(d) ==
    /\ d.bounded
    /\ UrlAllowed(d)
    /\ "allow_empty_source" \in d.has => "delete" \in d.has
    /\ "ca_certificate_relative" \notin d.has
    /\ "remote_log_http" \notin d.has
    /\ "remote_log_required" \in d.has => "remote_log_url" \in d.has

\* A password must come from somewhere, and a stored credential needs the
\* profile it is stored under.
validate_connection_job(d) ==
    /\ d.bounded
    /\ UrlAllowed(d)
    /\ d.has \cap {"password_stored", "password_provided"} # {}
    /\ d.has \cap {"password_stored", "totp_stored"} # {} => "profile" \in d.has
    /\ "ca_certificate_relative" \notin d.has

\* Mutant: the secrets are matched, the arguments are not checked.
parse_connection_secrets_only(d) ==
    /\ ("password_provided" \in d.has) <=> ("password_value" \in d.has)
    /\ ("totp_provided" \in d.has) <=> ("totp_value" \in d.has)

\* A secret value accompanies exactly the credentials said to be provided.
parse_connection_request(d) ==
    /\ ("password_provided" \in d.has) <=> ("password_value" \in d.has)
    /\ ("totp_provided" \in d.has) <=> ("totp_value" \in d.has)
    /\ "totp_unusable" \notin d.has
    /\ validate_connection_job(d)

RoutineFields == {"interval", "weekdays", "window_start", "window_end",
                  "debounce", "poll"}

FieldsOfMode == [interval |-> {"interval"},
                 daily    |-> {"weekdays", "window_start", "window_end"},
                 realtime |-> {"debounce", "poll"}]

\* A routine has the fields of its own mode and none of another's; it may
\* not depend on its own profile, nor twice on another.
validate_routine(d) ==
    /\ d.bounded
    /\ d.has \cap RoutineFields = FieldsOfMode[d.kind]
    /\ d.has \cap {"weekday_twice", "depends_on_itself", "depends_twice"} = {}

\* A doctor takes no deletion bound and writes only at the extensive level; a
\* plan or a run says whether it may delete, and bounds the total exactly
\* when it covers every profile.
validate_operational_action(d) ==
    /\ d.bounded
    /\ IF d.kind = "doctor"
       THEN /\ d.has \cap {"allow_delete", "no_delete", "max_total_delete"} = {}
            /\ ~({"write_test", "light_level"} \subseteq d.has)
       ELSE /\ d.has \cap {"light_level", "extensive_level", "write_test", "no_write_test"} = {}
            /\ d.has \cap {"allow_delete", "no_delete"} # {}
            /\ ("all" \in d.has) <=> ("max_total_delete" \in d.has)

\* The arguments as the job carries them, after any secret was taken out.
ArgumentsValid(d) ==
    CASE d.op = "configure-profile"         -> validate_configure_profile(d)
      [] d.op \in ConnectionOperations      -> validate_connection_job(d)
      [] d.op = "routine"                   -> validate_routine(d)
      [] d.op = "action"                    -> validate_operational_action(d)
      [] d.op \in {"client-event", "clear-logs"} -> TRUE
      [] OTHER                              -> d.bounded

\* A replaced secret has a usable value and a cleared one has none.
SetSecretValid(d) ==
    /\ d.bounded
    /\ d.kind = "replace" => "value" \in d.has /\ "value_unusable" \notin d.has
    /\ d.kind = "clear" => "value" \notin d.has

\* What the browser sent: a known operation with valid arguments.
parse_mutation_request(d) ==
    Require(/\ "malformed" \notin d.has
            /\ d.op \in Operations /\ FieldsKnown(d)
            /\ CASE d.op \in ConnectionOperations -> parse_connection_request(d)
                 [] d.op = "set-secret"           -> SetSecretValid(d)
                 [] OTHER                         -> ArgumentsValid(d), "bad_request")

\* The secret leaves the arguments and travels beside the job: one value, or
\* the envelope of a connection's two.
secret_of(d) == d.has \cap SecretValues

canonical_job_bytes(d) == [d EXCEPT !.has = @ \ SecretValues]

\* What the consumer reads back from the processing directory.
parse_job(j) ==
    Require(j.op \in Operations /\ FieldsKnown(j) /\ ArgumentsValid(j), "bad_request")

\* The two values are written behind their lengths, an absent one with
\* length zero, and read back from the same places.
encode_connection_secret_envelope(secrets) ==
    IF secrets \cap {"password_value", "totp_value"} = {}
    THEN <<>>
    ELSE << "password_value" \in secrets, "totp_value" \in secrets >>

decode_connection_secret_envelope(envelope) ==
    IF envelope = <<>> THEN {}
    ELSE {s \in {"password_value", "totp_value"} :
              \/ s = "password_value" /\ envelope[1]
              \/ s = "totp_value" /\ envelope[2]}

-----------------------------------------------------------------------------
(* The security policy *)

PolicySwitches ==
    {"interface_changes", "profile_changes", "secret_changes",
     "routine_changes", "notification_changes", "operational_actions",
     "http_targets", "invalid_tls", "destructive_sync", "doctor_write_test",
     "remote_logging", "empty_source"}

\* The switch an operation needs, whatever its arguments.
SwitchOf(d) ==
    CASE d.op \in {"configure-profile", "remove-profile", "set-default"} -> "profile_changes"
      [] d.op = "set-secret" -> "secret_changes"
      [] d.op \in {"schedule", "routine", "remove-routine"} -> "routine_changes"
      [] d.op = "alert-policy" -> "notification_changes"
      [] d.op = "client-event" -> IF d.kind = "interface-settings"
                                  THEN "interface_changes" ELSE "notification_changes"
      [] OTHER -> "operational_actions"

\* The switches its arguments need as well.
SwitchesAsked(d) ==
    CASE d.op = "configure-profile" ->
             (IF "allow_http" \in d.has THEN {"http_targets"} ELSE {})
        \cup (IF "invalid_certs" \in d.has THEN {"invalid_tls"} ELSE {})
        \cup (IF "delete" \in d.has THEN {"destructive_sync"} ELSE {})
        \cup (IF "remote_log_url" \in d.has THEN {"remote_logging"} ELSE {})
        \cup (IF "allow_empty_source" \in d.has THEN {"empty_source"} ELSE {})
      [] d.op \in ConnectionOperations ->
             (IF "allow_http" \in d.has THEN {"http_targets"} ELSE {})
        \cup (IF "invalid_certs" \in d.has THEN {"invalid_tls"} ELSE {})
      [] d.op = "set-secret" ->
             IF "remote_log_token" \in d.has /\ d.kind # "clear"
             THEN {"remote_logging"} ELSE {}
      [] d.op \in {"schedule", "routine"} ->
             IF "allow_delete" \in d.has THEN {"destructive_sync"} ELSE {}
      [] d.op = "action" ->
             (IF "write_test" \in d.has THEN {"doctor_write_test"} ELSE {})
        \cup (IF "allow_delete" \in d.has THEN {"destructive_sync"} ELSE {})
      [] OTHER -> {}

\* Changing the policy itself is never refused by the policy.
validate_mutation_against_security_policy(d, policy) ==
    Require(\/ d.op = "security-policy"
            \/ {SwitchOf(d)} \cup SwitchesAsked(d) \subseteq policy, "forbidden")

\* Errors are always shown; below them a category shows what its threshold
\* allows, and nothing when it is off.
Severity == [off |-> 9, trace |-> 0, debug |-> 1, info |-> 2, warn |-> 3, error |-> 4]

level_visible(threshold, level) ==
    \/ level = "error"
    \/ threshold # "off" /\ level # "off" /\ Severity[level] >= Severity[threshold]

-----------------------------------------------------------------------------
(* The manager *)

\* The doctor level a request without one is run at.
DoctorLevel(d) ==
    CASE "light_level" \in d.has -> "light"
      [] "extensive_level" \in d.has \/ "write_test" \in d.has -> "extensive"
      [] OTHER -> "standard"

\* What the manager is asked for: every switch as the document has it, the
\* fields of the routine's own mode, the excludes replaced as a whole.  No
\* secret is an argument, and a connection never reaches the manager.
mutation_manager_arguments(d) ==
    CASE d.op \in ConnectionOperations -> {}
      [] d.op = "routine" -> (FieldsOfMode[d.kind] \cup {"allow_delete", "max_total_delete"}) \cap d.has
      [] d.op = "action" /\ d.kind = "doctor" ->
             {DoctorLevel(d)} \cup ({"write_test"} \cap d.has)
      [] d.op = "action" /\ d.kind # "doctor" -> {"allow_delete", "max_total_delete"} \cap d.has
      [] d.op = "set-secret" /\ d.kind = "clear" -> {}
      [] OTHER -> d.has \ SecretValues

\* What of that is for a switch of the policy to allow.
Exercised(d) ==
    LET SwitchFor == [allow_http |-> "http_targets", invalid_certs |-> "invalid_tls", delete |-> "destructive_sync",
                      allow_delete |-> "destructive_sync", remote_log_url |-> "remote_logging",
                      remote_log_token |-> "remote_logging", allow_empty_source |-> "empty_source",
                      write_test |-> "doctor_write_test"]
    IN {SwitchFor[a] : a \in mutation_manager_arguments(d) \cap DOMAIN SwitchFor}

\* A result is a JSON object of known fields about the operation it answers,
\* without any secret in it; a failure has a known code and a success none,
\* and only a success warns.
parse_manager_result_for_operation(result, op) ==
    Require(/\ result \notin {"empty", "oversized", "not_json", "sensitive",
                              "unknown_field", "unknown_code", "inconsistent"}
            /\ op \notin ConnectionOperations => result # "connection_result"
            /\ op \in ConnectionOperations => result \in {"connection_result", "failed"},
            "unavailable")

\* The response stored for a job states the operation, the completion time
\* and the terminal state its result implies.
canonical_queued_response_bytes(op, issued, completed, result, pending) ==
    IF completed < issued \/ parse_manager_result_for_operation(result, op) # "ok"
    THEN [ok |-> FALSE]
    ELSE [ok |-> TRUE, op |-> op, issued |-> issued, completed |-> completed,
          result |-> result, pending |-> pending,
          terminal |-> IF result = "failed" THEN "failed" ELSE "succeeded"]

\* Read back, all of it is checked again.
parse_queued_response(stored) ==
    Require(/\ stored.completed >= stored.issued
            /\ parse_manager_result_for_operation(stored.result, stored.op) = "ok"
            /\ stored.terminal = (IF stored.result = "failed" THEN "failed" ELSE "succeeded"),
            "unavailable")

\* How a child the bridge runs is captured: the output is drained before
\* anything else is looked at, an exit before the deadline counts only when
\* the input was taken and the pipes closed.
capture_child(child) ==
    CASE child.output = "over"                     -> "unavailable"
      [] child.input = "refused"                   -> "unavailable"
      [] ~child.exits                              -> "unavailable"
      [] child.input = "pending" \/ ~child.closed  -> "unavailable"
      [] OTHER                                     -> "ok"
===============================================================================
