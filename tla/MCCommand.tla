----------------------------- MODULE MCCommand -----------------------------
(***************************************************************************)
(* The ways the program is entered: command lines, people and NAS          *)
(* temperaments for Command, embedding programs for Sdk, people at the     *)
(* package's UI for ConnectionProof, and the processes the package starts  *)
(* for Supervision.  A behaviour is one of theirs; the other machines stay *)
(* where they start.                                                       *)
(***************************************************************************)
EXTENDS Command, Sdk, ConnectionProof, Supervision

Url(place) == [scheme |-> "https", bare |-> TRUE, at |-> place]
ProfileA == [url |-> {Url("nas")}, username |-> {"u"}, source |-> {"src"}, remote |-> {<<"s", "a">>}, delete |-> {TRUE}, max_delete |-> {2}]
ProfileB == [ProfileA EXCEPT !.remote = {<<"s", "b">>}, !.max_delete = {1}]
ProfileC == [ProfileA EXCEPT !.remote = {<<"s", "a", "c">>}]          \* inside A's
ProfileH == [url |-> {[scheme |-> "http", bare |-> TRUE, at |-> "nas"]}, username |-> {"u"}, source |-> {"src"},
             remote |-> {<<"s", "h">>}, allow_http |-> {TRUE}, log_url |-> {Url("log")}, token_env |-> {"T"},
             verbose |-> {2}, quiet |-> {TRUE}]
File(profiles) == {[profiles |-> profiles, default |-> {}]}
Two == File([A |-> ProfileA, B |-> ProfileB])

One == [requested |-> FALSE, all |-> FALSE, names |-> <<>>, max_total |-> {}]
All(total) == [requested |-> TRUE, all |-> TRUE, names |-> <<>>, max_total |-> total]
Some2 == [requested |-> TRUE, all |-> FALSE, names |-> <<"B", "A">>, max_total |-> {}]

Service == [terminal |-> FALSE, interrupts |-> FALSE, mistypes |-> FALSE, stdin |-> "missing", env_password |-> "line",
            env_otp |-> "none", vault |-> [password |-> FALSE, totp |-> "none", broken |-> FALSE]]
Seeded == [Service EXCEPT !.vault = [password |-> TRUE, totp |-> "seed", broken |-> FALSE], !.env_password = "missing"]
Person == [Seeded EXCEPT !.terminal = TRUE]
Typist == [Person EXCEPT !.vault.totp = "malformed", !.vault.password = FALSE, !.env_otp = "good"]

Order == [A |-> 1, B |-> 2, C |-> 3, H |-> 4] @@ [c \in {"command-line", "default"} |-> 5]
Inv(verb, args, file, profile, batch, who) ==
    [verb |-> verb, args |-> args, file |-> file, explicit |-> FALSE, profile |-> profile, batch |-> batch,
     order |-> Order, who |-> who, confirm |-> {}, action |-> "status"]

Api(a) == [api |-> a, usable |-> TRUE]
Healthy(name) ==
    [name |-> name, extra |-> 1, todo |-> 1, second_factor |-> FALSE, defers |-> FALSE, connect |-> "ok",
     found |-> {"Download", "Delete", "CopyMove", "CheckPermission"},
     catalogue |-> {[apis |-> {Api("Auth"), Api("List"), Api("Upload"), Api("CopyMove")}, unusable |-> 0]},
     accepted |-> {"all", "sid", "tokenless"}, parallel_ok |-> 4, follow_up |-> TRUE,
     probes |-> [a \in {"List", "Info", "VirtualFolder", "BackgroundTask"} |-> 0], hosts |-> <<"n", "n">>,
     walk |-> <<"dir", "dir">>, permission |-> "none",
     path |-> [addresses |-> 1, tcp |-> <<"ok", "ok">>, http |-> <<"rejected", "ok", "ok">>, spread |-> FALSE],
     banners |-> 1, relayed |-> FALSE, foreign_cookies |-> FALSE, proxied |-> FALSE, cookie_rotated |-> FALSE]
Plain(name) == [Healthy(name) EXCEPT !.found = @ \ {"CopyMove"}]

Only(t) == [d \in {1} |-> t]
Both(a, b) == [d \in {1, 2} |-> IF d = 1 THEN a ELSE b]
A1 == Healthy("A")
B1 == Healthy("B")
S(i, w) == [inv |-> i, world |-> w]

\* Batches and single runs that write.
Writing ==
    { S(Inv("sync", <<>>, Two, {}, All({2}), Service), Both(A1, [B1 EXCEPT !.defers = TRUE])),
      S(Inv("sync", <<>>, Two, {}, Some2, Service), Both(A1, [B1 EXCEPT !.extra = 2])),
      S(Inv("sync", <<>>, Two, {"A"}, One, Seeded), Only([A1 EXCEPT !.second_factor = TRUE])),
      S(Inv("sync", <<>>, Two, {"A"}, One, Person), Only([A1 EXCEPT !.second_factor = TRUE, !.extra = 0, !.todo = 0])),
      S(Inv("sync", <<>>, Two, {"A"}, One, Typist), Only([A1 EXCEPT !.second_factor = TRUE, !.extra = 0, !.todo = 0])),
      S(Inv("plan", [exit_code |-> {TRUE}], Two, {}, All({}), Service), Both(A1, B1)),
      S([Inv("resync", <<>>, Two, {"B"}, One, Service) EXCEPT !.confirm = {1}], Only(B1)),
      S([Inv("resync", <<>>, Two, {"B"}, One, Service) EXCEPT !.confirm = {2}], Only(B1)),
      S(Inv("resync", <<>>, Two, {"B"}, One, Service), Only(B1)),
      S(Inv("doctor", [write_test |-> {TRUE}], Two, {"A"}, One, Service), Only(A1)),
      S(Inv("doctor", [write_test |-> {TRUE}], Two, {}, All({}), Service), Both(Plain("A"), Plain("B"))) }

\* Diagnostics of NASes that are unwell, each in its own way.
Unwell ==
    { [A1 EXCEPT !.connect = "tls"], [A1 EXCEPT !.connect = "discovery", !.banners = 2], [A1 EXCEPT !.catalogue = {}],
      [A1 EXCEPT !.catalogue = {[apis |-> {Api("Auth"), Api("List"), Api("VirtualFolder")}, unusable |-> 1]}],
      [A1 EXCEPT !.found = {"CheckPermission"}], [A1 EXCEPT !.found = {"Download", "Delete"}],
      [A1 EXCEPT !.accepted = {"sid"}, !.parallel_ok = 3], [A1 EXCEPT !.accepted = {"all"}, !.hosts = <<"n", "m">>],
      [A1 EXCEPT !.accepted = {"cookie"}, !.probes["List"] = 105], [A1 EXCEPT !.accepted = {}, !.probes["Info"] = 119],
      [A1 EXCEPT !.walk = <<"dir", "missing">>, !.probes["Info"] = 102], [A1 EXCEPT !.walk = <<"missing", "missing">>],
      [A1 EXCEPT !.walk = <<"dir", "file">>, !.probes["Info"] = 103], [A1 EXCEPT !.permission = "denied", !.path.addresses = 2, !.path.tcp = <<"failed", "late">>],
      [A1 EXCEPT !.second_factor = TRUE, !.cookie_rotated = TRUE] }
Looking ==
    {S(Inv("doctor", [write_test |-> {TRUE}], Two, {"A"}, One, Seeded), Only(t)) : t \in Unwell}
    \cup {S(Inv("doctor", a, Two, {"A"}, One, Service), Only(A1)) :
            a \in {[routing_only |-> {TRUE}], [level |-> {"standard"}], [remote |-> {<<>>}], [level |-> {"quick"}, write_test |-> {TRUE}]}}
    \cup { S(Inv("doctor", [level |-> {"extensive"}, url |-> {Url("nas")}, username |-> {"u"}], {}, {}, One, Service), Only(Healthy("command-line"))),
           S(Inv("doctor", <<>>, File([H |-> ProfileH]), {}, All({}), [Service EXCEPT !.env_otp = "bad"]), Only(Healthy("H"))) }

\* Commands that never reach a NAS.
Local ==
    { S(Inv("source", <<>>, Two, {}, All({}), Service), Both(A1, B1)), S(Inv("source", <<>>, Two, {"A"}, One, Service), Only(A1)),
      S(Inv("config", <<>>, Two, {}, One, Service), Only(A1)), S(Inv("config", [init |-> {TRUE}], Two, {}, One, Service), Only(A1)),
      S(Inv("config", [init |-> {TRUE}], {}, {}, One, Service), Only(A1)),
      S(Inv("config", <<>>, File([A |-> ProfileA, C |-> ProfileC]), {}, One, Service), Only(A1)),
      S(Inv("sync", <<>>, File([A |-> ProfileA, C |-> ProfileC]), {"A"}, One, Service), Only(A1)),
      S(Inv("sync", <<>>, File([A |-> ProfileA, C |-> ProfileC]), {}, All({}), Service), Only(A1)),
      S(Inv("sync", [password_stdin |-> {TRUE}], Two, {}, All({}), Service), Only(A1)) }
    \cup {S([Inv("credentials", a, Two, {"A"}, One, w) EXCEPT !.action = act], Only(A1)) :
            act \in {"set-password", "set-totp", "status", "remove-password", "remove-totp", "remove"},
            a \in {<<>>, [totp_file |-> {"uri"}, password_file |-> {"empty"}]},
            w \in {Person, [Service EXCEPT !.vault.broken = TRUE], [Service EXCEPT !.vault.totp = "malformed"]}}

MCScenarios == Writing \cup Looking \cup Local

\* Embedding programs: careful ones, and ones that leave out a callback or
\* get a field of the request or of the callback table wrong.
Doc == [schema |-> TRUE, username |-> TRUE, source |-> TRUE, timeouts |-> 30, jobs |-> 16, retries |-> 5, rate |-> {},
        endpoint |-> TRUE, remote |-> TRUE, content |-> TRUE, deletion |-> {}]
Table == {[size |-> 40, layout |-> 40, reserved |-> 0]}
Host == [abi |-> "c", bytes |-> "json", doc |-> Doc, table |-> Table, plans |-> TRUE, event |-> TRUE, secret |-> TRUE,
         cancels |-> TRUE, second_factor |-> TRUE, plan |-> {"create", "upload", "rename"}]
Mirror == [Host EXCEPT !.doc.deletion = {[enabled |-> TRUE, max |-> {1}, empty |-> FALSE]}, !.second_factor = FALSE,
                       !.doc.content = FALSE, !.plan = {"pre-delete", "copy", "post-delete"}]
BadDocs ==
    {[Doc EXCEPT !.jobs = 17], [Doc EXCEPT !.jobs = 0], [Doc EXCEPT !.retries = 6], [Doc EXCEPT !.rate = {0}],
     [Doc EXCEPT !.deletion = {[enabled |-> TRUE, max |-> {}, empty |-> TRUE]}],
     [Doc EXCEPT !.deletion = {[enabled |-> TRUE, max |-> {0}, empty |-> FALSE]}],
     [Doc EXCEPT !.deletion = {[enabled |-> FALSE, max |-> {1}, empty |-> FALSE]}]}
MCHosts ==
    {Host, Mirror, [Host EXCEPT !.abi = "rust"], [Mirror EXCEPT !.abi = "rust"],
     [Host EXCEPT !.plans = FALSE, !.cancels = FALSE], [Host EXCEPT !.secret = FALSE], [Host EXCEPT !.plan = {}],
     [Host EXCEPT !.event = FALSE], [Host EXCEPT !.bytes = "large"], [Host EXCEPT !.table = {[size |-> 8, layout |-> 40, reserved |-> 0]}]}
    \cup {[Host EXCEPT !.doc = d] : d \in BadDocs} \cup {[Host EXCEPT !.doc = d, !.abi = "rust"] : d \in BadDocs}

MCConnections == {[password |-> "provided", totp |-> "none"], [password |-> "stored", totp |-> "stored"],
                  [password |-> "stored", totp |-> "provided"]}

CoreTail(nice, separator, binary) == [nice |-> nice, separator |-> separator, binary |-> binary]
MCCoreTails == {CoreTail({}, TRUE, "own"), CoreTail({20}, TRUE, "own"), CoreTail({19}, TRUE, "alias"), CoreTail({0}, TRUE, "other"), CoreTail({}, FALSE, "own")}

VARIABLE entry   \* "command", "sdk", "bridge" or "process"

entryVars == <<vars, sdkVars, proofVars, supervisionVars, entry>>
AnyScenario == CHOOSE s \in Local : s.inv.verb = "source"

EntryInit ==
    /\ entry \in {"command", "sdk", "bridge", "process"}
    /\ Init /\ SdkInit /\ ProofInit /\ SupervisionInit
    /\ entry # "command" => inv = AnyScenario.inv /\ world = AnyScenario.world /\ window = 1
    /\ entry # "sdk" => host = Host
    /\ entry # "process" => unfed /\ served.kind = "core" /\ served.tail = CoreTail({}, TRUE, "own")

EntryNext ==
    /\ UNCHANGED entry
    /\ \/ entry = "command" /\ Next /\ UNCHANGED <<sdkVars, proofVars, supervisionVars>>
       \/ entry = "sdk" /\ SdkNext /\ UNCHANGED <<vars, proofVars, supervisionVars>>
       \/ entry = "bridge" /\ ProofNext /\ UNCHANGED <<vars, sdkVars, supervisionVars>>
       \/ entry = "process" /\ SupervisionNext /\ UNCHANGED <<vars, sdkVars, proofVars>>

EntrySpec == EntryInit /\ [][EntryNext]_entryVars

\* Logins are few and sessions end, the command's own and an embedding
\* host's (main.rs finish_authenticated_operation, sdk.rs Engine::run).
SessionsEnd == SessionsClosed /\ HostSessionClosed /\ LoginBounded

\* What is carried out is what was shown or proven before: a host's plan, a
\* tested connection (sdk.rs:1354, dsm_api.rs:19806).
ConfirmedIsDone == AppliedAsShown /\ BrowseProven
=============================================================================
