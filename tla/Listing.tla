------------------------------- MODULE Listing --------------------------------
(***************************************************************************)
(* How the destination is read, of src/src/api.rs: remote_inventory_scoped *)
(* walks the folders, each read in pages that others may change under it.  *)
(*                                                                         *)
(* A path is the sequence of its names; the tree maps the paths that exist *)
(* to [kind, real, mount, plain, meta, odd, deny, managed, hidden]: where  *)
(* it really is, if DSM says, whether it is a mount, whether its name can be*)
(* represented, whether a file's size and time are told, whether DSM names *)
(* it inconsistently, the code DSM refuses to list it with, whether DSM or *)
(* an ignore rule keeps the walk out, and how many entries of it DSM       *)
(* counts and does not return.                                             *)
(***************************************************************************)
EXTENDS Wire, TLC

CONSTANTS PageSize,   \* LIST_PAGE_SIZE
          MaxTreeEdits   \* bound on what others change during one walk

ASSUME ListingAssumption == PageSize \in Nat \ {0} /\ MaxTreeEdits \in Nat

VARIABLES view,      \* what is asked: [root, scope, budget, order, adds, sessionGood, removable]
          tree,      \* what the NAS holds
          walk,      \* the walk
          treeEdits,
          steady,    \* history: paths nobody touched since the walk began
          grew, shrank   \* history: folders something was added to, removed from

listingVars == <<view, tree, walk, treeEdits, steady, grew, shrank>>

NotReading == [folder |-> <<>>, real |-> {}, second |-> FALSE, offset |-> 0, got |-> <<>>, declared |-> 0, changed |-> FALSE]
NewWalk(v) ==
    [pc |-> "ancestors", k |-> 1, pending |-> << [path |-> v.scope, real |-> {}] >>, read |-> NotReading,
     entries |-> <<>>, skipped |-> {}, incomplete |-> {}, vanished |-> {}, complete |-> TRUE, exists |-> TRUE,
     visited |-> {}, parent |-> {}, unchecked |-> 0, r |-> Good("none")]

ListingInit(v) ==
    /\ view = v /\ tree = v.tree
    /\ walk = IF v.scope = <<>> THEN [NewWalk(v) EXCEPT !.pc = "off"] ELSE NewWalk(v)
    /\ treeEdits = 0 /\ steady = DOMAIN v.tree /\ grew = {} /\ shrank = {}

absolute_prefixes(path) == [i \in 1..Len(path) |-> SubSeq(path, 1, i)]
Under(path, root) == IsStrictPrefix(root, path)
Parent(path) == Front(path)

EndWalk(w, r) == walk' = [w EXCEPT !.pc = "done", !.r = r, !.read = NotReading]

\* A folder whose real path was walked already, or an entry that is really
\* elsewhere than where it is listed, or that alone tells no real path.
linked_entry_cause(parentReal, name, node) ==
    \E p \in parentReal : node.real # {Append(p, name)}
link_verdict(parentReal, name, node, visited) ==
    (node.kind = "dir" /\ node.real \cap visited # {}) \/ linked_entry_cause(parentReal, name, node)

\* A file without a size or a time is no answer; a folder needs neither.
file_metadata(node) == node.kind = "dir" \/ node.meta

(***************************************************************************)
(* The way down to the scope.                                              *)
(***************************************************************************)
Ancestor ==
    /\ walk.pc = "ancestors"
    /\ LET prefixes == absolute_prefixes(view.scope)
           path == prefixes[walk.k]
           last == walk.k = Len(prefixes)
           node == tree[path]
           inside == Under(path, view.root)
           scopeFile == last /\ view.scope # view.root /\ node.kind = "file"
           next == [walk EXCEPT !.k = @ + 1,
                        !.pc = IF last THEN "pop" ELSE @,
                        !.pending = IF scopeFile THEN <<>> ELSE IF last THEN << [path |-> path, real |-> node.real] >> ELSE @,
                        !.entries = IF inside THEN (path :> [kind |-> node.kind, protected |-> FALSE]) @@ @ ELSE @,
                        !.unchecked = IF inside /\ walk.parent = {} THEN @ + 1 ELSE @,
                        !.visited = IF path = view.root \/ inside THEN @ \cup node.real ELSE @,
                        !.parent = IF path = view.root \/ inside THEN node.real ELSE @]
       IN CASE path \notin DOMAIN tree -> EndWalk([walk EXCEPT !.exists = Len(path) > Len(view.root)], Good("inventory"))
            [] path \in DOMAIN tree /\ node.kind = "file" /\ ~ scopeFile -> EndWalk(walk, Fail("message", 0))
            [] path \in DOMAIN tree /\ node.mount -> EndWalk(walk, Fail("mount-root", 0))
            [] path \in DOMAIN tree /\ inside /\ ~ file_metadata(node) -> EndWalk(walk, Fail("invalid", 0))
            [] path \in DOMAIN tree /\ inside /\ link_verdict(walk.parent, Last(path), node, walk.visited) ->
                    EndWalk(walk, Fail("link-in-scope", 0))
            [] OTHER -> walk' = next
    /\ UNCHANGED <<view, tree, treeEdits, steady, grew, shrank>>

(***************************************************************************)
(* The folders, one after another, each in pages by name.                  *)
(***************************************************************************)
NextFolder ==
    /\ walk.pc = "pop"
    /\ IF walk.pending = <<>> THEN EndWalk(walk, Good("inventory"))
       ELSE walk' = [walk EXCEPT !.pc = "page", !.pending = Front(@),
                        !.read = [NotReading EXCEPT !.folder = Last(walk.pending).path, !.real = Last(walk.pending).real]]
    /\ UNCHANGED <<view, tree, treeEdits, steady, grew, shrank>>

Children(folder) ==
    SetToSortSeq({p \in DOMAIN tree : Len(p) = Len(folder) + 1 /\ IsPrefix(folder, p)},
                 LAMBDA p, q : view.order[Last(p)] < view.order[Last(q)])

\* 407, or 105 while the session is good, is about this folder.
refuses_listing_to_this_account(code) == code = 407 \/ (code = 105 /\ view.sessionGood)

\* What remote_inventory_scoped makes of a folder it could not list.
Unlisted(code) ==
    LET folder == walk.read.folder
        onward == [walk EXCEPT !.pc = "pop", !.read = NotReading]
    IN CASE code = 408 /\ folder = view.root -> EndWalk([walk EXCEPT !.exists = FALSE, !.pending = <<>>], Good("inventory"))
         [] code = 408 /\ folder = view.scope /\ folder # view.root -> EndWalk([walk EXCEPT !.pending = <<>>], Good("inventory"))
         [] code = 408 /\ folder # view.scope ->
                walk' = [onward EXCEPT !.entries = [p \in DOMAIN @ \ {folder} |-> walk.entries[p]],
                                       !.incomplete = @ \cup {Parent(folder)}, !.vanished = @ \cup {folder}]
         [] code # 408 /\ folder # view.scope /\ refuses_listing_to_this_account(code) ->
                walk' = [onward EXCEPT !.entries = (folder :> [kind |-> "dir", protected |-> TRUE]) @@ @,
                                       !.skipped = @ \cup {folder}, !.incomplete = @ \cup {folder}]
         [] OTHER -> EndWalk(walk, Fail("api", code))

\* One page of list_directory_pass.
ListPage ==
    /\ walk.pc = "page"
    /\ LET read == walk.read
           all == Children(read.folder)
           code == IF read.folder \notin DOMAIN tree THEN 408 ELSE tree[read.folder].deny
           page == SubSeq(all, read.offset + 1, IF read.offset + PageSize < Len(all) THEN read.offset + PageSize ELSE Len(all))
           items == [i \in DOMAIN page |-> [path |-> page[i], node |-> tree[page[i]]]]
           offset == read.offset + Len(page)
           total == Len(all) + tree[read.folder].hidden
       IN IF code # 0 THEN Unlisted(code)
          ELSE IF read.offset > 0 /\ total # read.declared
          THEN walk' = [walk EXCEPT !.pc = "read", !.read.changed = TRUE]
          ELSE walk' = [walk EXCEPT !.read.declared = IF read.offset = 0 THEN total ELSE @, !.read.got = @ \o items,
                            !.read.offset = offset, !.pc = IF offset >= total \/ page = <<>> THEN "read" ELSE "page"]
    /\ UNCHANGED <<view, tree, treeEdits, steady, grew, shrank>>

is_whole(read) == ~ read.changed /\ Len(read.got) = read.declared

\* A folder that changed while it was read is read once more; what the second
\* reading says goes, and says whether it is whole.
Whole_assumed(read) == read.second \/ is_whole(read)
Whole(read) == is_whole(read)
list_directory ==
    /\ walk.pc = "read"
    /\ IF is_whole(walk.read) \/ walk.read.second THEN walk' = [walk EXCEPT !.pc = "absorb"]
       ELSE walk' = [walk EXCEPT !.pc = "page", !.read = [NotReading EXCEPT !.folder = walk.read.folder, !.real = walk.read.real, !.second = TRUE]]
    /\ UNCHANGED <<view, tree, treeEdits, steady, grew, shrank>>

\* One child of the folder.
AbsorbItem(w, item) ==
    LET node == item.node
        linked == link_verdict(w.read.real, Last(item.path), node, w.visited)
        protected == linked \/ node.mount \/ node.managed
    IN IF w.pc # "absorb" THEN w
       ELSE CASE node.odd -> [w EXCEPT !.pc = "invalid"]
              [] ~ node.odd /\ ~ node.plain -> [w EXCEPT !.skipped = @ \cup {item.path}]
              [] ~ node.odd /\ node.plain /\ ~ file_metadata(node) -> [w EXCEPT !.pc = "invalid"]
              [] ~ node.odd /\ node.plain /\ file_metadata(node) /\ Cardinality(DOMAIN w.entries) >= view.budget ->
                    [w EXCEPT !.pc = "budget", !.complete = FALSE, !.skipped = IF linked THEN @ \cup {item.path} ELSE @]
              [] OTHER ->
                    IF item.path \in DOMAIN w.entries THEN [w EXCEPT !.pc = "invalid"]
                    ELSE [w EXCEPT !.entries = (item.path :> [kind |-> node.kind, protected |-> linked \/ node.mount]) @@ @,
                                   !.skipped = IF linked THEN @ \cup {item.path} ELSE @,
                                   !.visited = IF node.kind = "dir" /\ ~ protected THEN @ \cup node.real ELSE @,
                                   !.pending = IF node.kind = "dir" /\ ~ protected THEN Append(@, [path |-> item.path, real |-> node.real]) ELSE @]
Absorb ==
    /\ walk.pc = "absorb"
    /\ LET folder == walk.read.folder
           begun == [walk EXCEPT !.incomplete = IF Whole(walk.read) THEN @ ELSE @ \cup {folder},
                                 !.unchecked = IF walk.read.real = {} THEN @ + 1 ELSE @]
           w == FoldLeft(AbsorbItem, begun, walk.read.got)
       IN CASE w.pc = "invalid" -> EndWalk(w, Fail("invalid", 0))
            [] w.pc = "budget" -> EndWalk([w EXCEPT !.pending = <<>>], Good("inventory"))
            [] OTHER -> walk' = [w EXCEPT !.pc = "pop", !.read = NotReading]
    /\ UNCHANGED <<view, tree, treeEdits, steady, grew, shrank>>

(***************************************************************************)
(* Other clients of the NAS.                                               *)
(***************************************************************************)
AddEntry(p) ==
    /\ walk.pc \notin {"off", "done"} /\ treeEdits < MaxTreeEdits /\ p \notin DOMAIN tree /\ Parent(p) \in DOMAIN tree
    /\ tree' = (p :> view.adds[p]) @@ tree /\ treeEdits' = treeEdits + 1
    /\ grew' = grew \cup {Parent(p)} /\ steady' = steady \ {p}
    /\ UNCHANGED <<view, walk, shrank>>

RemoveEntry(p) ==
    /\ walk.pc \notin {"off", "done"} /\ treeEdits < MaxTreeEdits /\ p \in DOMAIN tree /\ p \in view.removable
    /\ tree' = [q \in {x \in DOMAIN tree : ~ IsPrefix(p, x)} |-> tree[q]] /\ treeEdits' = treeEdits + 1
    /\ shrank' = shrank \cup {Parent(p)} /\ steady' = {q \in steady : ~ IsPrefix(p, q)}
    /\ UNCHANGED <<view, walk, grew>>

ListingNext ==
    \/ Ancestor \/ NextFolder \/ ListPage \/ list_directory \/ Absorb
    \/ (\E p \in DOMAIN view.adds : AddEntry(p)) \/ (\E p \in view.removable : RemoveEntry(p))

(***************************************************************************)
(* Properties.                                                             *)
(***************************************************************************)
\* The folders the walk stayed out of, and what it says it saw in part.
Closed(p) == \E i \in 1..(Len(p) - 1) :
    LET q == SubSeq(p, 1, i) IN
    q \in DOMAIN view.tree /\ (view.tree[q].mount \/ view.tree[q].managed \/ q \in walk.skipped \/ q \in walk.incomplete)
Gone(p) == \E i \in 1..(Len(p) - 1) : SubSeq(p, 1, i) \notin steady

\* What stood under the destination from the first request to the last is in
\* an inventory that claims to be complete, its folder being neither marked
\* incomplete nor kept out of; the one exception is a folder that both gained
\* and lost an entry between two pages, whose total never changed
\* (api.rs list_directory_pass, is_whole).
SteadyListed ==
    (walk.pc = "done" /\ IsGood(walk.r) /\ walk.complete) =>
        \A p \in steady :
            (Under(p, view.root) /\ IsPrefix(view.scope, p) /\ ~ Closed(p) /\ ~ Gone(p) /\ Parent(p) \notin grew \cap shrank) =>
                p \in DOMAIN walk.entries \/ p \in walk.skipped

\* No real folder is walked twice, whatever links and mounts the NAS shows:
\* the folders whose children the inventory lists are really different
\* (api.rs link_verdict, visited_real_paths).
RealFolderOnce ==
    LET walked == {q \in DOMAIN walk.entries : walk.entries[q].kind = "dir" /\ \E p \in DOMAIN walk.entries : p # q /\ IsPrefix(q, p)}
    IN \A q, r \in walked \cap steady : q # r => view.tree[q].real \cap view.tree[r].real = {}

(***************************************************************************)
(* The requests of src/src/api.rs that look something up once: connecting, *)
(* the pages shown to a person, and the evidence a diagnostic collects.    *)
(* Each is what it makes of DSM's answers.                                 *)
(*                                                                         *)
(* An item of an answer is [name, inside, dir, rights, mount, meta, code]: *)
(* whether its path is its parent's with its name, what the account may do *)
(* with it, and the error DSM gives instead of it, if any.                 *)
(***************************************************************************)

CONSTANTS ChooserLimit,  \* MAXIMUM_CHOOSER_DIRECTORIES
          SampleLimit,   \* DIAGNOSTIC_INVENTORY_SAMPLE_LIMIT
          RequestLimit   \* DIAGNOSTIC_INVENTORY_REQUEST_LIMIT

ASSUME LookupsAssumption == ChooserLimit \in Nat /\ SampleLimit \in Nat /\ RequestLimit \in Nat

Smaller2(a, b) == IF a < b THEN a ELSE b
FirstN(s, n) == SubSeq(s, 1, Smaller2(n, Len(s)))

(***************************************************************************)
(* Connecting: the address, the certificate, and what DSM says it offers.  *)
(***************************************************************************)
validate_api(apis, api, version) ==
    IF api \notin DOMAIN apis THEN Fail("missing-api", 0)
    ELSE IF version < apis[api].min \/ version > apis[api].max THEN Fail("version", 0) ELSE Good(api)

WithData(answer) == LET r == send_attempt(answer, {}) IN IF IsGood(r) /\ answer.form = "empty" THEN Fail("invalid", 0) ELSE r
discover_at(answer) == IF IsGood(endpoint_url(answer.cgi)) THEN WithData(answer) ELSE endpoint_url(answer.cgi)

\* A route that answered anything at all is told apart from one that did not.
discovery_route_returned_response(r) == r.k \in {"api", "status", "invalid", "body"}
discover(entry, query) ==
    LET first == discover_at(entry)
        second == discover_at(query)
    IN IF IsGood(first) THEN first ELSE IF IsGood(second) THEN second
       ELSE IF discovery_route_returned_response(first) \/ discovery_route_returned_response(second)
            THEN Fail("invalid", 0) ELSE Fail("message", 0)

FirstFailure(results) ==
    LET bad == SelectSeq(results, LAMBDA r : ~ IsGood(r)) IN IF bad = <<>> THEN {} ELSE {Head(bad)}

WritingApis == << <<"List", 2>>, <<"CreateFolder", 2>>, <<"Upload", 2>>, <<"CheckPermission", 3>> >>
BrowsingApis == << <<"List", 2>> >>

connect_with_requirements(q) ==
    LET base == normalize_base_url(q.url, q.options.allow_http)
        ca == IF q.options.ca = {} THEN Good("none") ELSE load_ca_certificate(CHOOSE f \in q.options.ca : TRUE)
        apis == discover(q.entry, q.query)
        needed == << <<"Auth", 3>> >> \o (IF q.browsing THEN BrowsingApis ELSE WritingApis)
        checks == FirstFailure([i \in DOMAIN needed |-> validate_api(apis.v, needed[i][1], needed[i][2])])
    IN IF ~ IsGood(base) THEN base
       ELSE IF ~ IsGood(ca) THEN ca
       ELSE IF ~ IsGood(apis) THEN apis
       ELSE IF checks # {} THEN CHOOSE r \in checks : TRUE
       ELSE Good([detail |-> connection_detail(q.url, q.options), proxy |-> forward_proxy_from(q.url, q.env)])

\* A bounded connection needs a deadline that is some time away.
connect_for_browsing_bounded(q) == IF q.budget = 0 THEN Fail("message", 0) ELSE connect_with_requirements([q EXCEPT !.browsing = TRUE])

\* The whole catalogue; an entry that cannot be read is counted.
enumerate_all_apis(q) ==
    LET found == discover(q.entry, q.query) IN
    IF IsGood(found) THEN Good([apis |-> {a \in DOMAIN found.v : found.v[a].usable},
                                unusable |-> Cardinality({a \in DOMAIN found.v : ~ found.v[a].usable})])
    ELSE Fail("message", 0)

(***************************************************************************)
(* Pages shown to a person.                                                *)
(***************************************************************************)
\* An item that carries an error, or lacks its name or kind, fails the page.
into_item(item) == IF item.code # 0 THEN Fail("api", item.code) ELSE IF ~ item.whole THEN Fail("invalid", 0) ELSE Good(item)

permission_disables_listing(item) == item.rights \cap {"disable-list", "no-read", "no-exec"} # {}

Names(items) == {items[i].name : i \in DOMAIN items}
Sorted(items, order) == SortSeq(items, LAMBDA a, b : order[a.name] < order[b.name])
\* Neighbours of one path become one.
Deduped(items) == [i \in DOMAIN SelectSeq([k \in DOMAIN items |-> k], LAMBDA k : k = 1 \/ items[k].name # items[k - 1].name) |->
                     items[SelectSeq([k \in DOMAIN items |-> k], LAMBDA k : k = 1 \/ items[k].name # items[k - 1].name)[i]]]

\* The folders of `parent`, one more asked for than shown.
BrowsePage(items, total, q) ==
    LET shown == SelectSeq(items, LAMBDA i : i.dir /\ ~ permission_disables_listing(i) /\ ~ i.mount)
        sorted == Deduped(Sorted(shown, q.order))
    IN IF \E i \in DOMAIN shown : ~ shown[i].inside THEN Fail("invalid", 0)
       ELSE Good([shown |-> FirstN(sorted, q.maximum), truncated |-> total > q.maximum \/ Len(sorted) > q.maximum])

browse_directories(q) ==
    LET asked == FirstN(q.items, q.maximum + 1)
        bad == FirstFailure([i \in DOMAIN asked |-> into_item(asked[i])])
    IN IF q.maximum = 0 \/ q.maximum > ChooserLimit THEN Fail("message", 0)
       ELSE IF ~ q.normalized THEN Fail("message", 0)
       ELSE IF ~ q.shares /\ bad # {} THEN CHOOSE r \in bad : TRUE
       ELSE BrowsePage(asked, Len(q.items), q)

\* A page of what is directly in the destination, its children checked.
diagnostic_inventory_page(q) ==
    LET asked == FirstN(q.items, RequestLimit)
        bad == FirstFailure([i \in DOMAIN asked |-> into_item(asked[i])])
        sorted == Sorted(asked, q.order)
    IN IF Len(asked) > RequestLimit \/ q.total < Len(asked) THEN Fail("invalid", 0)
       ELSE IF bad # {} THEN CHOOSE r \in bad : TRUE
       ELSE IF \E i \in DOMAIN sorted : ~ sorted[i].inside \/ (~ sorted[i].dir /\ ~ sorted[i].meta) THEN Fail("invalid", 0)
       ELSE IF Cardinality(Names(sorted)) # Len(sorted) THEN Fail("invalid", 0)
       ELSE LET sample == FirstN(sorted, SampleLimit)
            IN Good([shown |-> sample, truncated |-> q.total > Len(sample)])

absent_root == Good([shown |-> <<>>, truncated |-> FALSE])
\* First the destination itself: 408 in either place means it is not there.
diagnostic_remote_inventory(q) ==
    CASE q.info.k = "api" /\ q.info.code = 408 -> absent_root
      [] ~ IsGood(q.info) /\ ~ (q.info.k = "api" /\ q.info.code = 408) -> q.info
      [] OTHER -> LET item == into_item(q.info.v) IN
                  CASE ApiCode(item) = 408 -> absent_root
                    [] ~ IsGood(item) /\ ApiCode(item) # 408 -> item
                    [] IsGood(item) /\ (~ q.info.v.inside \/ ~ q.info.v.dir) -> Fail("invalid", 0)
                    [] IsGood(item) /\ q.info.v.inside /\ q.info.v.dir /\ q.info.v.mount -> Fail("mount-root", 0)
                    [] OTHER -> diagnostic_inventory_page(q)

diagnostic_visible_shared_folders(q) ==
    LET asked == FirstN(q.items, RequestLimit) IN
    IF q.total < Len(asked) THEN Fail("invalid", 0)
    ELSE IF \E i \in DOMAIN asked : ~ asked[i].inside THEN Fail("invalid", 0)
    ELSE IF Cardinality(Names(asked)) # Len(asked) THEN Fail("invalid", 0)
    ELSE LET sample == FirstN(Sorted(asked, q.order), SampleLimit) IN Good([shown |-> sample, truncated |-> q.total > Len(sample)])

verify_share_writable(q) == IF \E i \in DOMAIN q.items : q.items[i].name = q.share THEN Good(q.share) ELSE Fail("share-not-writable", 0)

(***************************************************************************)
(* Evidence.                                                               *)
(***************************************************************************)
\* One request of a capability, its outcome kept whatever it is.
probe_capability(q) ==
    IF ~ IsGood(endpoint_url(q.cgi)) THEN endpoint_url(q.cgi)
    ELSE LET r == send_attempt(q.answer, q.deadline)
         IN IF ~ remaining_control_timeout(q.deadline) THEN r
            ELSE IF ~ IsGood(request_headers(q.session)) THEN request_headers(q.session)
            ELSE Good([outcome |-> classify_outcome(r), code |-> ApiCode(r), record |-> apply_response_facts(q.api, q.answer)])

\* The session sent by the cookie, the field or both, one way at a time; the
\* way without a token needs a login of its own.
AblationOrder == <<"all", "cookie", "field", "tokenless">>
probe_one_session_channel(channel, answers) == [channel |-> channel, outcome |-> classify_outcome(send_attempt(answers[channel], {}))]
probe_session_channels(q) ==
    IF q.cancelled THEN Fail("cancelled", 0)
    ELSE Good([i \in DOMAIN AblationOrder |->
                 IF AblationOrder[i] = "tokenless" THEN [channel |-> "tokenless", outcome |-> "skipped"]
                 ELSE probe_one_session_channel(AblationOrder[i], q.answers)])

\* The virtual file systems, under either name, as text or as a list.
virtual_protocol_text(v) == IF v.kind = "text" THEN v.names ELSE IF v.kind = "list" THEN v.names \ {""} ELSE {}
file_station_info(q) ==
    LET r == WithData(q.answer) IN
    IF ~ IsGood(r) THEN r
    ELSE Good(IF virtual_protocol_text(q.protocol) # {} THEN virtual_protocol_text(q.protocol) ELSE virtual_protocol_text(q.virtual))

\* A file or folder as it is now, against what was planned on.
remote_path_state(q) ==
    IF ApiCode(q.info) = 408 THEN Good("absent") ELSE IF ~ IsGood(q.info) THEN q.info
    ELSE IF q.info.v.dir THEN Good("dir") ELSE IF q.info.v.meta THEN Good("file") ELSE Fail("invalid", 0)
verify_remote_metadata_snapshot(q) ==
    CASE q.cancelled -> Fail("cancelled", 0)
      [] ~ q.cancelled /\ ApiCode(q.info) = 408 -> Fail("changed", 0)
      [] ~ q.cancelled /\ ~ IsGood(q.info) /\ ApiCode(q.info) # 408 -> q.info
      [] OTHER -> IF q.info.v.dir # q.expected.dir THEN Fail("changed", 0)
                  ELSE IF ~ q.info.v.dir /\ ~ q.info.v.meta THEN Fail("invalid", 0)
                  ELSE IF q.info.v.size # q.expected.size \/ (q.require_mtime /\ q.info.v.mtime # q.expected.mtime)
                  THEN Fail("changed", 0) ELSE Good("same")

\* A rename checks both names, then looks for the new one.
rename(q) ==
    CASE ~ q.inside \/ q.slash -> Fail("unsafe", 0)
      [] q.inside /\ ~ q.slash /\ q.comma -> Fail("unsafe", 0)
      [] OTHER -> LET r == send_attempt(q.answer, {}) IN
                  IF ~ IsGood(r) THEN path_refusal(r, q.inner, q.sessionGood)
                  ELSE LET seen == remote_path_state(q) IN
                       IF seen = Good("absent") THEN Fail("content", 0) ELSE IF IsGood(seen) THEN Good("renamed") ELSE seen

\* Every folder down to the target must be there, a folder and no mount.
verify_existing_write_probe_target(q) ==
    LET Look(info) == IF ApiCode(info) = 408 THEN Fail("message", 0) ELSE IF ~ IsGood(info) THEN info
                      ELSE IF ~ info.v.dir THEN Fail("message", 0) ELSE IF info.v.mount THEN Fail("mount-root", 0) ELSE Good("folder")
        bad == FirstFailure([i \in DOMAIN q.prefixes |-> Look(q.prefixes[i])])
    IN IF bad = {} THEN Good("target") ELSE CHOOSE r \in bad : TRUE

\* The probe's own file: a name of its own within sixteen tries, written,
\* flushed and dated, and removed again when any of that fails.
ProbeLocalFile(q) ==
    IF q.taken >= 16 THEN Fail("message", 0)
    ELSE IF q.disk \in {"unwritable", "no-time"} THEN Fail("file", 0) ELSE Good("local")

Lookup(q) ==
    CASE q.ask = "connect" -> connect_with_requirements(q)
      [] q.ask = "connect-bounded" -> connect_for_browsing_bounded(q)
      [] q.ask = "catalogue" -> enumerate_all_apis(q)
      [] q.ask = "browse" -> browse_directories(q)
      [] q.ask = "inventory" -> diagnostic_remote_inventory(q)
      [] q.ask = "shares" -> diagnostic_visible_shared_folders(q)
      [] q.ask = "writable" -> verify_share_writable(q)
      [] q.ask = "capability" -> probe_capability(q)
      [] q.ask = "channels" -> probe_session_channels(q)
      [] q.ask = "info" -> file_station_info(q)
      [] q.ask = "snapshot" -> verify_remote_metadata_snapshot(q)
      [] q.ask = "rename" -> rename(q)
      [] q.ask = "target" -> verify_existing_write_probe_target(q)
      [] OTHER -> ProbeLocalFile(q)

\* A page that does not say it is cut short shows every folder, file or share
\* it should (api.rs browse_directories, diagnostic_inventory_page).
PageHonest(q, r) ==
    (q.ask \in {"browse", "inventory", "shares"} /\ IsGood(r) /\ ~ r.v.truncated /\ (q.ask = "inventory" => r # absent_root)) =>
        \A i \in DOMAIN q.items :
            \/ q.items[i].name \in Names(r.v.shown)
            \/ q.ask = "browse" /\ (~ q.items[i].dir \/ permission_disables_listing(q.items[i]) \/ q.items[i].mount)

\* The evidence kept of an answer that could not be decoded names the member
\* of the body where it went wrong, and no answer of an authenticated API is
\* quoted in it (api.rs decode_fault and decode_response_body).
EvidenceExact(q, r) ==
    (q.ask = "capability" /\ IsGood(r) /\ r.v.record.seen) =>
        /\ "snippet" \in r.v.record.told => q.api = "SYNO.API.Info"
        /\ \A fault \in r.v.record.fault : fault.path = q.wrong
===============================================================================
