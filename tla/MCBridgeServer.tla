--------------------------- MODULE MCBridgeServer ---------------------------
(* The bridge with two web requests, two workers and a queue of one: each    *)
(* request is a well-formed one of some action, or one with a single fault.  *)
EXTENDS BridgeServer, TLC

Login == [probe |-> "denied", helper |-> "trusted", answer |-> "admin", replaced |-> FALSE,
          user |-> [known |-> TRUE, uid |-> 1, primary |-> "administrators", groups |-> {}]]

Good == [method |-> "GET", faults |-> {}, ids |-> <<"id">>, header |-> "t", query |-> "none",
         action |-> "csrf", params |-> {}, badParams |-> {}, length |-> 1, present |-> 1,
         https |-> TRUE, login |-> Login,
         identity |-> [owner |-> "pkg", real |-> "pkg", effective |-> "pkg", mode |-> "0755"]]

GoodPost == [Good EXCEPT !.method = "POST", !.action = "none"]

Faulty ==
    {[Good EXCEPT !.faults = {f}] : f \in {"no_method", "oversized_variable", "control_byte",
        "transfer_encoding", "no_marker", "query_malformed", "body_headers"}}
    \cup {[GoodPost EXCEPT !.faults = {f}] : f \in {"not_json", "no_csrf"}}
    \cup {[Good EXCEPT !.ids = i] : i \in {<<>>, <<"ID">>, <<"id", "id">>}}
    \cup {[Good EXCEPT !.query = "u"], [Good EXCEPT !.header = "unusable"],
          [Good EXCEPT !.action = "unknown"], [Good EXCEPT !.params = {"job_id"}],
          [Good EXCEPT !.identity.owner = "root"], [Good EXCEPT !.identity.effective = "http"],
          [GoodPost EXCEPT !.length = 0], [GoodPost EXCEPT !.length = 3],
          [GoodPost EXCEPT !.present = 2], [Good EXCEPT !.method = "other"],
          [Good EXCEPT !.login.probe = "missing"], [Good EXCEPT !.login.answer = "not_admin"],
          [Good EXCEPT !.login.probe = "executable", !.login.replaced = TRUE],
          [Good EXCEPT !.login.user.primary = "users"]}

MCRequests ==
    Faulty \cup {Good, GoodPost, [Good EXCEPT !.action = "snapshot"], [Good EXCEPT !.action = "logs"],
                 [Good EXCEPT !.action = "result", !.params = {"job_id"}]}

Doc(op, kind, has, bounded) == [op |-> op, kind |-> kind, has |-> has, bounded |-> bounded]

MCDocuments ==
    {Doc("test-profile-auth", "none", has, TRUE) :
        has \in SUBSET {"password_stored", "password_provided", "password_value", "profile",
                        "totp_stored", "totp_provided", "totp_value"}}
    \cup {Doc("configure-profile", "none", has, TRUE) :
        has \in SUBSET {"http_url", "allow_http", "allow_empty_source", "delete",
                        "remote_log_url", "remote_log_required"}}
    \cup {Doc("routine", kind, has, TRUE) :
        kind \in {"interval", "daily", "realtime"},
        has \in {{"interval"}, {"weekdays", "window_start", "window_end"}, {"debounce", "poll"},
                 {"interval", "poll"}, {"interval", "allow_delete"}, {"interval", "depends_twice"}}}
    \cup {Doc("action", kind, has, TRUE) : kind \in {"doctor", "run"},
        has \in SUBSET {"light_level", "write_test", "allow_delete", "all", "max_total_delete"}}
    \cup {Doc("set-secret", kind, has, TRUE) : kind \in {"replace", "clear"},
        has \in SUBSET {"value", "value_unusable", "remote_log_token"}}
    \cup {Doc("schedule", "none", {}, b) : b \in BOOLEAN}
    \cup {Doc("client-event", "interface-settings", {}, TRUE), Doc("unknown", "none", {}, TRUE),
          Doc("remove-profile", "none", {"allow_http"}, TRUE),
          Doc("security-policy", "none", {}, TRUE), Doc("clear-logs", "none", {"malformed"}, TRUE)}

MCPolicies ==
    {[readable |-> FALSE, https |-> FALSE, lifetime |-> 2, on |-> {}],
     [readable |-> TRUE, https |-> FALSE, lifetime |-> 2, on |-> PolicySwitches],
     [readable |-> TRUE, https |-> TRUE, lifetime |-> 2,
      on |-> {"profile_changes", "secret_changes", "routine_changes", "operational_actions"}]}

MCWorkers == {"w1", "w2"}

\* The web requests differ only in what each asks.
Symmetry == Permutations(Cgis)

=============================================================================
