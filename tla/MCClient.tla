------------------------------ MODULE MCClient ------------------------------
(***************************************************************************)
(* The operations of one connected ApiClient, each as it is called: the    *)
(* inventory of a destination, a digest pass, digests of uploads being     *)
(* verified, a server-side copy, and single lookups; and the calls they    *)
(* are checked on.                                                         *)
(***************************************************************************)
EXTENDS Naturals, FiniteSets, FiniteSetsExt, Tasks, Listing

CONSTANT Calls   \* a sequence of [op, job, view, asks]: one call each

VARIABLES call, looked   \* the lookup made: its question and its answer, once there is one

vars == <<taskVars, listingVars, call, looked>>

Init ==
    \E i \in DOMAIN Calls :
        /\ call = Calls[i] /\ looked = <<>>
        /\ TasksInit(call.job) /\ ListingInit(call.view)

Look ==
    /\ call.op = "lookup" /\ looked = <<>>
    /\ \E i \in DOMAIN call.asks : looked' = << [q |-> call.asks[i], r |-> Lookup(call.asks[i])] >>
    /\ UNCHANGED <<call, taskVars, listingVars>>

Next ==
    \/ call.op = "tasks" /\ TasksNext /\ UNCHANGED <<call, looked, listingVars>>
    \/ call.op = "list" /\ ListingNext /\ UNCHANGED <<call, looked, taskVars>>
    \/ Look

\* Every thread of a digest goes on, and DSM ends what it runs or the call
\* runs out of time.
Fairness ==
    /\ WF_taskVars(call.op = "tasks" /\ PassStep /\ UNCHANGED <<call, looked, listingVars>>)
    /\ \A w \in Workers : WF_taskVars(call.op = "tasks" /\ WorkerStep(w) /\ UNCHANGED <<call, looked, listingVars>>)
    /\ WF_taskVars(call.op = "tasks" /\ (\E t \in running : TaskEnds(t)) /\ UNCHANGED <<call, looked, listingVars>>)

Spec == Init /\ [][Next]_vars /\ Fairness

\* Every page shown to a person says when it is not everything (api.rs
\* browse_directories, diagnostic_inventory_page).
PagesHonest == \A i \in DOMAIN looked : PageHonest(looked[i].q, looked[i].r)

\* The evidence of a probe is about what went wrong.
EvidenceTrue == \A i \in DOMAIN looked : EvidenceExact(looked[i].q, looked[i].r)

\* An inventory is what was there, once, and a page says when it is not all
\* (api.rs list_directory_pass and link_verdict, api.rs:5032).
ListingTrue == SteadyListed /\ RealFolderOnce /\ PagesHonest /\ EvidenceTrue

(***************************************************************************)
(* Digest passes, verifications and copies.                                *)
(***************************************************************************)
GoodFile == [strong |-> FALSE, kind |-> "file", startCode |-> 0, code |-> 0, digest |-> "hex", length |-> "exact"]
BadFile(c) == [GoodFile EXCEPT !.startCode = c]
OddFile == [GoodFile EXCEPT !.digest = "odd"]
Copying == [api |-> "ok", targets |-> TRUE, sameName |-> TRUE, comma |-> FALSE, startCode |-> 0, statusCode |-> 0, errs |-> FALSE,
            source |-> "expected", fullProof |-> TRUE]
NoJob == [op |-> "none", mode |-> "fail-run", files |-> <<>>, sessionGood |-> TRUE, mayCancel |-> FALSE] @@ Copying
Digests(mode, files, cancel) == [NoJob EXCEPT !.op = "digests", !.mode = mode, !.files = files, !.mayCancel = cancel]
Verify(f) == [NoJob EXCEPT !.op = "verify", !.files = <<f>>, !.mayCancel = TRUE]
Copy(c) == [c EXCEPT !.op = "copy", !.mayCancel = TRUE]

Jobs == <<
    Digests("defer-file", <<BadFile(1001), GoodFile, BadFile(1001), BadFile(1001)>>, FALSE),
    Digests("defer-file", <<BadFile(1001), BadFile(599), [GoodFile EXCEPT !.code = 400]>>, FALSE),
    Digests("defer-file", <<BadFile(408), OddFile, BadFile(105), OddFile, OddFile>>, FALSE),
    Digests("defer-file", <<OddFile, OddFile, BadFile(408), [GoodFile EXCEPT !.digest = "none"], [OddFile EXCEPT !.code = 407]>>, FALSE),
    [Digests("defer-file", <<GoodFile, BadFile(105)>>, TRUE) EXCEPT !.sessionGood = FALSE],
    Digests("defer-file", <<GoodFile, GoodFile, OddFile>>, TRUE),
    Digests("fail-run", <<GoodFile, BadFile(408), GoodFile>>, TRUE),
    Digests("fail-run", <<[GoodFile EXCEPT !.strong = TRUE], [GoodFile EXCEPT !.strong = TRUE, !.length = "short"]>>, FALSE),
    Digests("defer-file", <<[GoodFile EXCEPT !.strong = TRUE, !.code = 1002], [GoodFile EXCEPT !.strong = TRUE], GoodFile>>, TRUE),
    Digests("defer-file", <<[BadFile(408) EXCEPT !.strong = TRUE, !.code = 408], [GoodFile EXCEPT !.kind = "dir"]>>, FALSE),
    Digests("fail-run", <<[GoodFile EXCEPT !.strong = TRUE, !.kind = "missing"]>>, FALSE),
    Digests("defer-file", <<[GoodFile EXCEPT !.strong = TRUE, !.kind = "missing"]>>, FALSE),
    Verify(GoodFile), Verify([OddFile EXCEPT !.code = 599]),
    Copy(NoJob), Copy([NoJob EXCEPT !.startCode = 407]), Copy([NoJob EXCEPT !.startCode = 418]), Copy([NoJob EXCEPT !.statusCode = 1002]),
    Copy([NoJob EXCEPT !.statusCode = 599]), Copy([NoJob EXCEPT !.errs = TRUE]), Copy([NoJob EXCEPT !.source = "other"]),
    Copy([NoJob EXCEPT !.comma = TRUE]), Copy([NoJob EXCEPT !.api = "missing-api"]), Copy([NoJob EXCEPT !.targets = FALSE]),
    Copy([NoJob EXCEPT !.sameName = FALSE]) >>

(***************************************************************************)
(* Destinations.                                                           *)
(***************************************************************************)
Share == <<"s">>
Root == <<"s", "d">>
At(name) == Append(Root, name)
In(p, name) == Append(p, name)
FileAt(p) == [kind |-> "file", real |-> {p}, mount |-> FALSE, plain |-> TRUE, meta |-> TRUE, odd |-> FALSE, deny |-> 0, managed |-> FALSE, hidden |-> 0]
DirAt(p) == [FileAt(p) EXCEPT !.kind = "dir", !.meta = FALSE]
Tree(S) == [p \in {x[1] : x \in S} \cup {Share, Root} |-> IF p \in {Share, Root} THEN DirAt(p) ELSE (CHOOSE x \in S : x[1] = p)[2]]
F(p) == <<p, FileAt(p)>>
D(p) == <<p, DirAt(p)>>
Order == [s |-> 0, d |-> 0, a |-> 1, b |-> 2, c |-> 3, e |-> 4, f |-> 5]
View(t, scope, adds, removable) ==
    [root |-> Root, scope |-> scope, budget |-> 9, order |-> Order, sessionGood |-> TRUE, tree |-> t, removable |-> removable,
     adds |-> [p \in adds |-> FileAt(p)]]
NoView == View(Tree({}), <<>>, {}, {})
A == At("a")
B == At("b")
C == At("c")
E == At("e")

\* Three names at the top and a folder with two, in pages of two.
Wide == Tree({F(A), D(B), F(C), F(In(B, "a")), F(In(B, "c")), F(In(B, "e"))})
Changing == View(Wide, Root, {E, At("f"), In(B, "b")}, {A, B, C, In(B, "a")})
Still(t) == View(t, Root, {}, {})
Views == <<
    Changing, View(Wide, B, {In(B, "b")}, {B, In(B, "a"), Root}), View(Wide, A, {}, {A, Share}),
    [Changing EXCEPT !.budget = 3, !.adds = <<>>, !.removable = {}],
    [Changing EXCEPT !.tree[Root].hidden = 1], Still([Wide EXCEPT ![B].hidden = 1]), Still([Wide EXCEPT ![B].deny = 407]), [Still([Wide EXCEPT ![B].deny = 105]) EXCEPT !.sessionGood = FALSE],
    Still([Wide EXCEPT ![B].deny = 105]), Still([Wide EXCEPT ![Root].deny = 407]),
    Still([Wide EXCEPT ![B].mount = TRUE]), Still([Wide EXCEPT ![B].managed = TRUE]), Still([Wide EXCEPT ![Root].mount = TRUE]),
    Still([Wide EXCEPT ![B].real = {Root}]), Still([Wide EXCEPT ![B].real = {<<"x">>}]), Still([Wide EXCEPT ![C].plain = FALSE]),
    Still([Wide EXCEPT ![C].meta = FALSE]), Still([Wide EXCEPT ![C].odd = TRUE]),
    \* no real path told of the root or of anything in it; c is b again
    Still([(C :> [DirAt(C) EXCEPT !.real = {B}]) @@ (In(C, "a") :> FileAt(In(C, "a"))) @@ Wide EXCEPT ![Root].real = {}]),
    View([Wide EXCEPT ![B].real = {<<"x">>}], B, {}, {}), View([Wide EXCEPT ![A].meta = FALSE], A, {}, {}),
    View(Wide, In(A, "b"), {}, {}), View(Tree({}), In(B, "c"), {}, {}) >>

(***************************************************************************)
(* Lookups.                                                                *)
(***************************************************************************)
Https == [parses |-> TRUE, scheme |-> "https", host |-> "nas", credentials |-> FALSE, query |-> FALSE, address |-> {}, labels |-> <<"nas", "lan">>]
Http == [Https EXCEPT !.scheme = "http", !.address = {5}]
Options == [allow_http |-> FALSE, accept_invalid |-> FALSE, ca |-> {}]
NoEnv == [v \in {"REQUEST_METHOD", "HTTP_PROXY", "http_proxy", "HTTPS_PROXY", "https_proxy", "ALL_PROXY", "all_proxy", "NO_PROXY", "no_proxy"} |-> {}]
Proxy(v) == {[blank |-> FALSE, credentials |-> TRUE, host |-> v]}
NoProxyFor(e) == {[blank |-> FALSE, entries |-> e]}
Cgi == [absolute |-> FALSE, marks |-> FALSE, elsewhere |-> FALSE, segments |-> <<"entry.cgi">>]
Cookie(n) == [name |-> n, max_age |-> "none", expires |-> FALSE, empty |-> FALSE]
Headers == [names |-> {"server", "via"}, cookies |-> <<Cookie("id")>>, location |-> {}]
Says(v) == [cgi |-> Cgi, headers |-> Headers] @@ Success(v)
Offers(S) == [a \in S |-> [min |-> 1, max |-> 3, usable |-> TRUE]]
AllApis == Offers({"Auth", "List", "CreateFolder", "Upload", "CheckPermission"})
Silent == [cgi |-> Cgi] @@ Lost
Html == [Says("x") EXCEPT !.form = "html"]
Connect == [ask |-> "connect", url |-> Https, options |-> Options, env |-> NoEnv, entry |-> Says(AllApis), query |-> Silent, browsing |-> FALSE, budget |-> 1]

Item(n) == [name |-> n, inside |-> TRUE, dir |-> TRUE, rights |-> {}, mount |-> FALSE, meta |-> TRUE, code |-> 0, whole |-> TRUE]
Three == <<Item("c"), Item("a"), Item("b")>>
Browse == [ask |-> "browse", maximum |-> 2, items |-> Three, normalized |-> TRUE, shares |-> FALSE, order |-> Order]
Info(i) == Good([i EXCEPT !.name = "d"])
Inventory == [ask |-> "inventory", items |-> Three, total |-> 3, order |-> Order, info |-> Info(Item("d"))]
Facts == [dir |-> FALSE, meta |-> TRUE, size |-> 1, mtime |-> 1, mount |-> FALSE]
Snapshot == [ask |-> "snapshot", cancelled |-> FALSE, info |-> Good(Facts), expected |-> [dir |-> FALSE, size |-> 1, mtime |-> 1], require_mtime |-> TRUE]
Rename == [ask |-> "rename", inside |-> TRUE, slash |-> FALSE, comma |-> FALSE, answer |-> Success("done"), inner |-> {}, sessionGood |-> TRUE, info |-> Good(Facts)]
Sid == [sid_plain |-> TRUE, sid_long |-> FALSE, token |-> {"plain"}]
NoBody == [message |-> "other", field |-> "", at |-> 0, tokens |-> <<>>]
Capability == [ask |-> "capability", api |-> "SYNO.FileStation.List", cgi |-> Cgi, answer |-> [headers |-> Headers, body |-> NoBody] @@ Success("x"),
               deadline |-> {}, session |-> Sid, wrong |-> <<>>]

\* The bodies of an answer, and every place in them where decoding may stop:
\* a value of the wrong type, at its first token, or an object that ends
\* without a member that is needed.
Leaf == [kind |-> "leaf", parts |-> <<>>]
Array(parts) == [kind |-> "array", parts |-> parts]
Object(parts) == [kind |-> "object", parts |-> parts]   \* of <<name, value>>
Part(token, text, faults) == <<[t |-> token, v |-> text, faults |-> faults]>>
RECURSIVE Tokens(_, _)
Tokens(doc, path) ==
    LET n == Len(doc.parts)
        Value(i) == IF doc.kind = "array" THEN Tokens(doc.parts[i], Append(path, i - 1))
                    ELSE Part("text", doc.parts[i][1], {}) \o Part(":", "", {}) \o Tokens(doc.parts[i][2], Append(path, doc.parts[i][1]))
        Values == FlattenSeq([i \in 1..n |-> Value(i) \o (IF i < n THEN Part(",", "", {}) ELSE <<>>)])
        mistyped == {<<"invalid-type", "", path>>}
    IN CASE doc.kind = "leaf"   -> Part("text", "v", mistyped)
         [] doc.kind = "array"  -> Part("[", "", mistyped) \o Values \o Part("close", "", {})
         [] doc.kind = "object" -> Part("{", "", mistyped) \o Values \o Part("close", "", {<<"missing", "m", Append(path, "m")>>})
Bodies == {Object(<< <<"data", Array(<<Leaf, Object(<< <<"a", Leaf>>, <<"b", Array(<<>>)>> >>), Leaf>>)>>, <<"ok", Leaf>> >>)}
Undecodable ==
    LET Spoilt(tokens, i, fault) ==
            [Capability EXCEPT !.answer.form = "garbled", !.wrong = fault[3],
                               !.answer.body = [message |-> fault[1], field |-> fault[2], at |-> i, tokens |-> tokens]]
        From(tokens) == UNION {{Spoilt(tokens, i, fault) : fault \in tokens[i].faults} : i \in DOMAIN tokens}
    IN FoldSet(LAMBDA ask, seq : Append(seq, ask), <<>>, UNION {From(Tokens(doc, <<>>)) : doc \in Bodies})
Channels == [ask |-> "channels", cancelled |-> FALSE, answers |-> [c \in {"all", "cookie", "field"} |-> IF c = "cookie" THEN Refusal(119) ELSE Success("x")]]
FsInfo == [ask |-> "info", answer |-> Success("x"), protocol |-> [kind |-> "list", names |-> {"", "nfs"}], virtual |-> [kind |-> "text", names |-> {"cifs"}]]

Asks == <<
    Connect, [Connect EXCEPT !.url = Http], [Connect EXCEPT !.options.ca = {"missing"}], [Connect EXCEPT !.entry = Html, !.query = Says(AllApis)],
    [Connect EXCEPT !.entry = Silent], [Connect EXCEPT !.entry = Html], [Connect EXCEPT !.entry = Says(Offers({"Auth", "List"}))],
    [Connect EXCEPT !.entry.cgi.segments = <<"..", "x">>], [Connect EXCEPT !.ask = "connect-bounded", !.entry = Says(Offers({"Auth", "List"}))],
    [Connect EXCEPT !.ask = "connect-bounded", !.budget = 0],
    [Connect EXCEPT !.env["HTTPS_PROXY"] = Proxy("p"), !.env["no_proxy"] = NoProxyFor({[kind |-> "domain", labels |-> <<"lan">>]})],
    [Connect EXCEPT !.env["ALL_PROXY"] = Proxy("p")], [Connect EXCEPT !.env["ALL_PROXY"] = Proxy("p"), !.env["REQUEST_METHOD"] = Proxy("p")],
    [Connect EXCEPT !.url = Http, !.options.allow_http = TRUE, !.env["http_proxy"] = Proxy("p"),
                    !.env["NO_PROXY"] = NoProxyFor({[kind |-> "network", at |-> 4, prefix |-> 2], [kind |-> "address", at |-> 7]})],
    [Connect EXCEPT !.ask = "catalogue"], [Connect EXCEPT !.ask = "catalogue", !.entry = Html],
    Browse, [Browse EXCEPT !.maximum = 3], [Browse EXCEPT !.items = <<Item("a"), Item("a"), [Item("b") EXCEPT !.rights = {"no-read"}]>>],
    [Browse EXCEPT !.maximum = 3, !.items[2].code = 407], [Browse EXCEPT !.maximum = 0], [Browse EXCEPT !.items[1].inside = FALSE],
    [Browse EXCEPT !.maximum = 1, !.items = <<[Item("a") EXCEPT !.mount = TRUE], Item("b"), Item("c")>>],
    [Browse EXCEPT !.maximum = 1, !.items = <<Item("a"), [Item("b") EXCEPT !.rights = {"disable-list"}], Item("c")>>], [Browse EXCEPT !.shares = TRUE],
    Inventory, [Inventory EXCEPT !.items = SubSeq(Three, 1, 2), !.total = 2], [Inventory EXCEPT !.items[1].inside = FALSE],
    [Inventory EXCEPT !.items[1].name = "a"], [Inventory EXCEPT !.info = Fail("api", 408)], [Inventory EXCEPT !.info = Fail("http", 0)],
    [Inventory EXCEPT !.info = Info([Item("d") EXCEPT !.code = 408])], [Inventory EXCEPT !.info = Info([Item("d") EXCEPT !.mount = TRUE])],
    [Inventory EXCEPT !.ask = "shares"], [Inventory EXCEPT !.ask = "shares", !.items[2].name = "c"],
    [ask |-> "writable", share |-> "s", items |-> Three], [ask |-> "writable", share |-> "a", items |-> Three],
    Capability, [Capability EXCEPT !.session.token = {"odd"}], [Capability EXCEPT !.session.token = {}, !.answer.form = "html"],
    [Capability EXCEPT !.api = "SYNO.API.Info", !.answer.status = 404], [Capability EXCEPT !.answer.status = 502], [Capability EXCEPT !.answer.status = 404],
    [Capability EXCEPT !.api = "SYNO.API.Info", !.answer.form = "html"], [Capability EXCEPT !.deadline = {0}], [Capability EXCEPT !.answer = Refusal(102) @@ Capability.answer], [Capability EXCEPT !.answer.status = 302],
    Channels, [Channels EXCEPT !.cancelled = TRUE], FsInfo, [FsInfo EXCEPT !.protocol.names = {""}], [FsInfo EXCEPT !.answer.form = "empty"],
    Snapshot, [Snapshot EXCEPT !.info = Fail("api", 408)], [Snapshot EXCEPT !.info.v.mtime = 2], [Snapshot EXCEPT !.info.v.dir = TRUE],
    Rename, [Rename EXCEPT !.info = Fail("api", 408)], [Rename EXCEPT !.answer = Refusal(1100), !.inner = {414}],
    [Rename EXCEPT !.answer = Refusal(105), !.sessionGood = FALSE], [Rename EXCEPT !.comma = TRUE], [Rename EXCEPT !.slash = TRUE],
    [ask |-> "target", prefixes |-> <<Good([Facts EXCEPT !.dir = TRUE]), Fail("api", 408)>>],
    [ask |-> "target", prefixes |-> <<Good([Facts EXCEPT !.dir = TRUE])>>], [ask |-> "target", prefixes |-> <<Good(Facts)>>],
    [ask |-> "local", taken |-> 16, disk |-> "ok"], [ask |-> "local", taken |-> 1, disk |-> "ok"], [ask |-> "local", taken |-> 0, disk |-> "no-time"] >> \o Undecodable

(***************************************************************************)
(* The calls.                                                              *)
(***************************************************************************)
Quiet == [op |-> "lookup", job |-> NoJob, view |-> NoView, asks |-> Asks]
MCCalls ==
    [i \in DOMAIN Jobs |-> [Quiet EXCEPT !.op = "tasks", !.job = Jobs[i], !.asks = <<>>]]
    \o [i \in DOMAIN Views |-> [Quiet EXCEPT !.op = "list", !.view = Views[i], !.asks = <<>>]]
    \o [i \in DOMAIN Asks |-> [Quiet EXCEPT !.asks = <<Asks[i]>>]]
=============================================================================
