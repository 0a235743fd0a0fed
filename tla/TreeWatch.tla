------------------------------ MODULE TreeWatch -------------------------------
(* What sdsync-dsm-api --watch and --watch-probe decide before a directory is *)
(* watched: the inotifywait-like arguments, the profile's excludes, the watch *)
(* budget, and the name and exit code of every refusal (src/src/watch/mod.rs, *)
(* src/src/watch/cli.rs).                                                     *)
(*                                                                            *)
(* An argument list is a sequence of words; an option that takes a value is   *)
(* the pair <<option, value>>, or <<option>> when nothing follows it.         *)
EXTENDS Naturals, Sequences, FiniteSets, SequencesExt, FiniteSetsExt, Integers

EventKinds == {"close_write", "create", "delete", "moved_from", "moved_to", "attrib", "modify"}

\* WatchError::reason and WatchError::exit_code.
ErrorKinds == [usage        |-> [reason |-> "watch_setup_failed", code |-> 64],
               missing      |-> [reason |-> "source_missing",     code |-> 66],
               gone         |-> [reason |-> "source_missing",     code |-> 66],
               unavailable  |-> [reason |-> "watch_unavailable",  code |-> 69],
               setup        |-> [reason |-> "watch_setup_failed", code |-> 71],
               deadline     |-> [reason |-> "watch_setup_failed", code |-> 72],
               limit        |-> [reason |-> "watch_limit",        code |-> 73],
               output       |-> [reason |-> "watch_setup_failed", code |-> 74],
               rules        |-> [reason |-> "watch_setup_failed", code |-> 78]]

\* EventSet::add: "move" stands for both halves of a rename.
EventsNamed(name) ==
    IF name = "move" THEN {"moved_from", "moved_to"}
    ELSE IF name \in EventKinds THEN {name} ELSE {}

ParseBegin == [monitor |-> FALSE, recursive |-> FALSE, events |-> {}, fragment |-> "none",
               sources |-> 0, ended |-> FALSE, refused |-> FALSE]

Takes == {"--format", "-e", "--event", "--profile-fragment", "--setup-deadline", "--seconds"}

\* Whether an option's value is one the parser accepts.
GoodValue(opt, v) ==
    CASE opt = "--format" -> v = "literal"
      [] opt \in {"-e", "--event"} -> \A k \in 1..Len(v) : EventsNamed(v[k]) # {}
      [] opt \in {"--setup-deadline", "--seconds"} -> v \in 1..3600
      [] OTHER -> TRUE

ParseWord(s, a, probe) ==
    LET opt  == a[1]
        bad  == [s EXCEPT !.refused = TRUE]
        flag == ~probe /\ opt \in {"-q", "-qq", "--quiet"}
    IN  IF s.refused THEN s
        ELSE IF opt = "source" \/ (s.ended /\ ~probe)
             THEN [s EXCEPT !.sources = @ + 1, !.refused = s.sources > 0]
        ELSE IF opt \in Takes
             THEN IF Len(a) < 2 \/ (opt = "--seconds" /\ ~probe)
                       \/ (probe /\ opt \in {"--format", "-e", "--event"}) THEN bad
                  ELSE IF ~GoodValue(opt, a[2]) THEN bad
                  ELSE IF opt \in {"-e", "--event"}
                       THEN [s EXCEPT !.events = @ \cup UNION {EventsNamed(a[2][k]) : k \in 1..Len(a[2])}]
                  ELSE IF opt = "--profile-fragment" THEN [s EXCEPT !.fragment = a[2]]
                  ELSE s
        ELSE IF probe THEN bad
        ELSE IF opt = "--" THEN [s EXCEPT !.ended = TRUE]
        ELSE IF opt \in {"-m", "--monitor"} THEN [s EXCEPT !.monitor = TRUE]
        ELSE IF opt \in {"-r", "--recursive"} THEN [s EXCEPT !.recursive = TRUE]
        ELSE IF flag THEN s ELSE bad

Parsed(args, probe) == FoldLeft(LAMBDA s, a : ParseWord(s, a, probe), ParseBegin, args)

\* parse_watch_args: no -e at all asks for every kind.
parse_watch_args(args) ==
    LET p == Parsed(args, FALSE)
    IN  [ok |-> ~p.refused /\ p.monitor /\ p.recursive /\ p.sources = 1, fragment |-> p.fragment,
         events |-> IF p.events = {} THEN EventKinds ELSE p.events]

\* parse_probe_args: the probe listens for everything.
parse_probe_args(args) ==
    LET p == Parsed(args, TRUE)
    IN  [ok |-> ~p.refused /\ p.sources = 1, fragment |-> p.fragment, events |-> EventKinds]

\* profile_section: a fragment is the profile's table, or wraps exactly one.
profile_section(f) == f.profiles \in {"flat", "one table"}

\* profile_excludes: the patterns of a readable, small, well-formed fragment.
profile_excludes(f) ==
    [ok |-> f.readable /\ ~f.large /\ f.toml /\ profile_section(f)
            /\ f.excludes \in {"none", "strings"},
     names |-> IF f.excludes = "strings" THEN f.names ELSE {}]

\* watch_budget: 80 % of the limit, less what this user already holds.
watch_budget(limit, held) ==
    LET share == (limit \div 10) * 8 IN IF share > held THEN share - held ELSE 0

\* read_watch_limit: a count above zero; text that is not a count reads as zero.
read_watch_limit(count) == [ok |-> count > 0, limit |-> count]

\* effective_watch_limit: the namespace's limit counts when it can be read.
effective_watch_limit(sys) ==
    LET user == read_watch_limit(sys.user)
        ns   == read_watch_limit(sys.namespace)
    IN  [ok |-> user.ok,
         limit |-> IF ns.ok /\ user.ok THEN Min({user.limit, ns.limit}) ELSE user.limit]

\* The budget of TreeWatch::arm_with under LimitPolicy::System; an unreadable
\* limit leaves the budget unchecked.
Unchecked == 1000000
ArmBudget(sys) ==
    LET l == effective_watch_limit(sys)
    IN  IF l.ok THEN watch_budget(l.limit, sys.held) ELSE Unchecked

\* cli::arm up to the walk: what refuses it, or what it watches with.
Refuse(kind) == [ok |-> FALSE, why |-> kind, events |-> {}, budget |-> 0, extra |-> {}]
arm(ask) ==
    LET p == IF ask.probe THEN parse_probe_args(ask.args) ELSE parse_watch_args(ask.args)
        x == IF p.fragment = "none" THEN [ok |-> TRUE, names |-> {}]
             ELSE profile_excludes(ask.fragment)
    IN  CASE ~p.ok -> Refuse("usage")
          [] p.ok /\ ~ask.linux -> Refuse("unavailable")
          [] p.ok /\ ask.linux /\ ~x.ok -> Refuse("rules")
          [] p.ok /\ ask.linux /\ x.ok /\ ask.source = "missing" -> Refuse("missing")
          [] p.ok /\ ask.linux /\ x.ok /\ ask.source = "bad rules" -> Refuse("rules")
          [] p.ok /\ ask.linux /\ x.ok /\ ask.source = "there" /\ ~ask.inotify ->
                Refuse(IF ask.instances THEN "unavailable" ELSE "limit")
          [] OTHER -> [ok |-> TRUE, why |-> "none", events |-> p.events,
                       budget |-> ArmBudget(ask.system), extra |-> x.names]

\* EventSet::reports, and the watch mask of the directory events the arena
\* itself needs whatever was asked for.
reports(events, kind) ==
    CASE kind = "from" -> "moved_from" \in events
      [] kind = "to" -> "moved_to" \in events
      [] kind = "new_dir" -> TRUE
      [] OTHER -> kind \in events
watch_mask(events) == {"create", "from", "to", "ignored", "rules"}
                        \cup {k \in {"close_write", "delete", "attrib"} : k \in events}

(* The recursive inotify watcher (src/src/watch/): a kernel that queues       *)
(* events about directories it has a watch on, other programs that change the *)
(* tree at any moment, the arena that maps each watch to a path, the walk     *)
(* that arms a watch on every directory it finds, and the loop that turns     *)
(* changes into coalesced marker lines for the controller.                    *)
(*                                                                            *)
(* A directory is an inode with a place; a path is resolved anew by every     *)
(* system call, as the walk does, so a rename between two of them is seen.    *)

CONSTANTS Inos,        \* the directories, besides the root, that may exist
          Names,       \* directory names
          RuleSets,    \* what the ignore file may say: sets of excluded names
          WatchAsks,   \* how the watcher is started: a sequence of command lines
          QueueMax,    \* the kernel's event queue
          BatchMax,    \* BATCH_EVENTS
          KernelMax,   \* watches before the kernel answers ENOSPC
          MaxOps       \* changes other programs make

Root    == 0
Outside == -1          \* moved out of the source
Absent  == -2          \* not made yet, or removed
NoWd    == 0

VARIABLES place,       \* [Inos -> where the directory is]
          rootThere,
          rules,       \* what the ignore file on disk says
          kw,          \* the kernel's watches: descriptor -> inode
          nextWd, queue,
          ops,
          nodes,       \* the arena: descriptor -> [parent, name, linked]
          filter,      \* the rules the watcher last read
          asked,       \* what arming was asked for (arm) and the probe flag
          rootWd, pc, walk, exit,
          pending, hot,\* Coalescer: the change not yet written, inside the interval
          owed,        \* history: a change was made that no marker has followed
          gap          \* history: the tree was rearranged where the code's event
                       \* handling cannot follow it

treeVars  == <<place, rootThere, rules, ops>>
kernVars  == <<kw, nextWd, queue>>
arenaVars == <<nodes, filter, rootWd, walk, asked>>
markVars  == <<pending, hot>>
watchVars == <<treeVars, kernVars, arenaVars, markVars, pc, exit, owed, gap>>

-----------------------------------------------------------------------------
(* The tree and the kernel.                                                   *)

\* The inode a directory entry names, Absent when there is none.
Entry(i, n) ==
    IF \E j \in Inos : place[j] = [up |-> i, name |-> n]
    THEN CHOOSE j \in Inos : place[j] = [up |-> i, name |-> n]
    ELSE Absent

\* What a system call finds at a path now.
Resolve(path) ==
    FoldLeft(LAMBDA i, n : IF i = Absent THEN Absent ELSE Entry(i, n),
             IF rootThere THEN Root ELSE Absent, path)

RECURSIVE PathOf(_)
PathOf(i) ==
    IF i = Root THEN [in |-> TRUE, path |-> <<>>]
    ELSE IF place[i].up \in {Outside, Absent} THEN [in |-> FALSE, path |-> <<>>]
    ELSE LET p == PathOf(place[i].up)
         IN  [in |-> p.in, path |-> Append(p.path, place[i].name)]

InTree(i)   == rootThere /\ PathOf(i).in
Under(i, j) == \E k \in 1..Len(PathOf(i).path) :
                   Resolve(SubSeq(PathOf(i).path, 1, k)) = j

\* Filter::excludes: a path is left out when any name on it is.
excludes(rs, path) == \E k \in 1..Len(path) : path[k] \in rs

WdOf(i)  == IF \E w \in DOMAIN kw : kw[w] = i
            THEN CHOOSE w \in DOMAIN kw : kw[w] = i ELSE NoWd

Event(w, k, n, c) == [wd |-> w, kind |-> k, name |-> n, cookie |-> c]

\* The kernel drops what its queue cannot hold and says so once.
Push(q, e) ==
    IF Len(q) < QueueMax THEN Append(q, e)
    ELSE IF q[Len(q)].kind = "overflow" THEN q
    ELSE Append(q, Event(NoWd, "overflow", "", 0))

\* The events of one change, those about a directory nobody watches left out.
Queued(evs) ==
    FoldLeft(LAMBDA q, e : IF e.wd = NoWd \/ e.kind \notin watch_mask(asked.events) THEN q
                           ELSE Push(q, e), queue, evs)

\* An entry is replaced under a name whose old directory left while the event
\* that says so is still unread.
ReusedName(p, n) ==
    \E k \in 1..Len(queue) :
        /\ queue[k].kind = "from" /\ queue[k].name = n /\ queue[k].wd = WdOf(p)
        /\ ~ \E m \in 1..Len(queue) :
                /\ queue[m].kind = "to" /\ queue[m].cookie = queue[k].cookie
                /\ queue[m].name \notin filter
Arming   == pc = "walk" /\ walk.whole /\ nodes = <<>>

\* A change of a kind asked for, to an entry the rules include, must be reported.
Owes(kinds, paths) ==
    owed' = (owed \/ /\ ~Arming
                     /\ \E k \in kinds : k = "rules" \/ reports(asked.events, k)
                     /\ \E p \in paths : ~excludes(filter \cup rules, p))
At(p, n) == Append(PathOf(p).path, n)

\* One change another program makes.
Changed(evs) ==
    /\ rootThere /\ pc \in {"idle", "walk"} /\ ops < MaxOps /\ ops' = ops + 1
    /\ queue' = Queued(evs)
    /\ UNCHANGED <<nextWd, arenaVars, markVars, pc, exit>>

MkDir(i, p, n) ==
    /\ place[i] = [up |-> Absent, name |-> ""] /\ InTree(p) /\ Entry(p, n) = Absent
    /\ \A j \in Inos : j < i => place[j] # [up |-> Absent, name |-> ""]
    /\ place' = [place EXCEPT ![i] = [up |-> p, name |-> n]]
    /\ Changed(<<Event(WdOf(p), "create", n, 0)>>)
    /\ gap' = (gap \/ ReusedName(p, n)) /\ Owes({"create"}, {At(p, n)})
    /\ UNCHANGED <<rootThere, rules, kw>>

Rename(i, p, n) ==
    /\ InTree(i) /\ InTree(p) /\ i # p /\ ~Under(p, i) /\ Entry(p, n) = Absent
    /\ place' = [place EXCEPT ![i] = [up |-> p, name |-> n]]
    /\ Changed(<<Event(WdOf(place[i].up), "from", place[i].name, ops + 1),
                 Event(WdOf(p), "to", n, ops + 1)>>)
    /\ gap' = (gap \/ pc = "walk" \/ ReusedName(p, n))
    /\ Owes({"from", "to"}, {PathOf(i).path, At(p, n)})
    /\ UNCHANGED <<rootThere, rules, kw>>

MoveOut(i) ==
    /\ InTree(i)
    /\ place' = [place EXCEPT ![i] = [up |-> Outside, name |-> ""]]
    /\ Changed(<<Event(WdOf(place[i].up), "from", place[i].name, ops + 1)>>)
    /\ gap' = (gap \/ pc = "walk") /\ Owes({"from"}, {PathOf(i).path})
    /\ UNCHANGED <<rootThere, rules, kw>>

MoveIn(i, p, n) ==
    /\ place[i].up = Outside /\ InTree(p) /\ Entry(p, n) = Absent
    /\ place' = [place EXCEPT ![i] = [up |-> p, name |-> n]]
    /\ Changed(<<Event(WdOf(p), "to", n, ops + 1)>>)
    /\ gap' = (gap \/ pc = "walk" \/ ReusedName(p, n)) /\ Owes({"to"}, {At(p, n)})
    /\ UNCHANGED <<rootThere, rules, kw>>

RmDir(i) ==
    /\ InTree(i) /\ \A j \in Inos : place[j].up # i
    /\ place' = [place EXCEPT ![i] = [up |-> Absent, name |-> "gone"]]
    /\ Changed(<<Event(WdOf(i), "ignored", "", 0),
                 Event(WdOf(place[i].up), "delete", place[i].name, 0)>>)
    /\ kw' = [w \in DOMAIN kw \ {WdOf(i)} |-> kw[w]]
    /\ Owes({"delete"}, {PathOf(i).path})
    /\ UNCHANGED <<rootThere, rules, gap>>

\* A file in a directory is written and closed.
Touch(i) ==
    /\ InTree(i)
    /\ Changed(<<Event(WdOf(i), "close_write", "file", 0)>>)
    /\ Owes({"close_write"}, {At(i, "file")})
    /\ UNCHANGED <<place, rootThere, rules, kw, gap>>

EditRules(rs) ==
    /\ rs # rules /\ rules' = rs
    /\ Changed(<<Event(WdOf(Root), "rules", "", 0)>>)
    /\ Owes({"rules"}, {<<>>})
    /\ UNCHANGED <<place, rootThere, kw, gap>>

RemoveRoot ==
    /\ \A j \in Inos : place[j].up # Root
    /\ rootThere' = FALSE
    /\ Changed(<<Event(WdOf(Root), "ignored", "", 0)>>)
    /\ kw' = [w \in DOMAIN kw \ {WdOf(Root)} |-> kw[w]]
    /\ Owes({"rules"}, {<<>>})
    /\ UNCHANGED <<place, rules, gap>>

-----------------------------------------------------------------------------
(* The arena. A node taken off its parent's list of children (detach) keeps   *)
(* its parent, so it still has a path: linked says whether it is on the list. *)

Linked(ns, p) == {w \in DOMAIN ns : ns[w].linked /\ ns[w].parent = p}

\* TreeWatch::child.
child(ns, p, n) ==
    LET c == {w \in Linked(ns, p) : ns[w].name = n}
    IN  IF c = {} THEN NoWd ELSE CHOOSE w \in c : TRUE

RECURSIVE relativeIn(_, _, _)
relativeIn(ns, w, fuel) ==
    IF fuel = 0 \/ w \notin DOMAIN ns THEN [in |-> FALSE, path |-> <<>>]
    ELSE IF ns[w].parent = NoWd THEN [in |-> TRUE, path |-> <<>>]
    ELSE LET p == relativeIn(ns, ns[w].parent, fuel - 1)
         IN  [in |-> p.in, path |-> Append(p.path, ns[w].name)]

\* TreeWatch::relative: the path the arena gives a watch, if it reaches the root.
relative(ns, w) == relativeIn(ns, w, Cardinality(DOMAIN ns) + 1)

detach(ns, w) == IF w \in DOMAIN ns THEN [ns EXCEPT ![w].linked = FALSE] ELSE ns

RECURSIVE Beneath(_, _)
Beneath(ns, S) ==
    LET more == S \cup UNION {Linked(ns, w) : w \in S}
    IN  IF more = S THEN S ELSE Beneath(ns, more)

\* TreeWatch::forget: the arena without a subtree, and the kernel watches dropped.
forget(s, w, self) ==
    IF w \notin DOMAIN s.nodes THEN [s EXCEPT !.rm = @ \cup (IF self THEN {w} ELSE {})]
    ELSE LET gone == Beneath(s.nodes, {w})
         IN  [s EXCEPT !.nodes = [x \in DOMAIN s.nodes \ gone |-> s.nodes[x]],
                       !.rm = @ \cup (IF self THEN gone ELSE gone \ {w})]

\* TreeWatch::attach: put a watch under a parent, moving it if it was elsewhere.
attach(s, w, p, n) ==
    LET stale == IF p = NoWd THEN NoWd ELSE child(s.nodes, p, n)
        freed == IF stale = NoWd THEN s.nodes ELSE detach(s.nodes, stale)
        node  == [parent |-> p, name |-> n, linked |-> TRUE]
    IN  IF p # NoWd /\ p \notin DOMAIN s.nodes THEN forget(s, w, TRUE)
        ELSE IF w \in DOMAIN s.nodes /\ s.nodes[w].parent = p /\ s.nodes[w].name = n THEN s
        ELSE [s EXCEPT !.nodes =
                 [x \in DOMAIN s.nodes \cup {w} |-> IF x = w THEN node ELSE freed[x]]]

Start(path, p, n) == [path |-> path, parent |-> p, name |-> n]

-----------------------------------------------------------------------------
(* One batch of events (TreeWatch::process).                                  *)

\* Mutant: a rename inside the tree leaves the watch under its old name.
DirEvent_not_moved(s, e, path) ==
    LET known == child(s.nodes, e.wd, e.name)
        fresh == [s EXCEPT !.new = Append(@, Start(path, e.wd, e.name))]
        moved == {m \in s.moves : m.cookie = e.cookie}
    IN  CASE e.kind = "create" /\ known = NoWd -> fresh
          [] e.kind = "from" /\ known # NoWd ->
                [s EXCEPT !.moves = @ \cup {[cookie |-> e.cookie, wd |-> known]}]
          [] e.kind = "to" /\ moved # {} ->
                [s EXCEPT !.moves = @ \ {CHOOSE x \in moved : TRUE}]
          [] e.kind = "to" /\ moved = {} /\ known = NoWd -> fresh
          [] OTHER -> s

\* What a directory event does to the arena and to the walks it asks for.
DirEvent(s, e, path) ==
    LET known == child(s.nodes, e.wd, e.name)
        fresh == [s EXCEPT !.new = Append(@, Start(path, e.wd, e.name))]
        moved == {m \in s.moves : m.cookie = e.cookie}
    IN  CASE e.kind = "create" /\ known = NoWd -> fresh
          [] e.kind = "from" /\ known # NoWd ->
                [s EXCEPT !.moves = @ \cup {[cookie |-> e.cookie, wd |-> known]}]
          [] e.kind = "to" /\ moved # {} ->
                LET m == CHOOSE x \in moved : TRUE
                IN  attach([s EXCEPT !.moves = @ \ {m}], m.wd, e.wd, e.name)
          [] e.kind = "to" /\ moved = {} /\ known = NoWd -> fresh
          [] OTHER -> s

\* One event. An entry the rules exclude is not looked at at all.
OneEvent(s, e) ==
    LET dir  == relative(s.nodes, e.wd)
        path == Append(dir.path, e.name)
    IN  CASE s.over = "gone" -> s
          [] e.kind = "overflow" -> [s EXCEPT !.overflow = TRUE]
          [] e.kind = "ignored" /\ e.wd = rootWd -> [s EXCEPT !.over = "gone"]
          [] e.kind = "ignored" /\ e.wd # rootWd -> forget(s, e.wd, FALSE)
          [] e.kind \notin {"overflow", "ignored"} /\ ~dir.in -> s
          [] e.kind = "rules" /\ dir.in -> [s EXCEPT !.rules = TRUE, !.change = TRUE]
          [] e.kind \notin {"overflow", "ignored", "rules"} /\ dir.in
                /\ excludes(filter, path) -> s
          [] OTHER ->
                LET d == IF e.kind \in {"create", "from", "to", "delete"}
                         THEN DirEvent(s, e, path) ELSE s
                IN  [d EXCEPT !.change = @ \/ reports(asked.events, e.kind)]

\* The kernel's side of the watches a step dropped.
Dropped(q, rm) ==
    FoldLeft(LAMBDA acc, w : Push(acc, Event(w, "ignored", "", 0)), q,
             SetToSeq(rm \cap DOMAIN kw))

\* Whether a finished walk has something to report.
Said(w, named) == w.change \/ w.overflow \/ named

noted(overflow) == IF overflow \/ pending = "overflow" THEN "overflow" ELSE "plain"

\* TreeWatch::wait: read a batch, apply it, and start the walk it asks for.
process ==
    LET n     == Min({Len(queue), BatchMax})
        begin == [nodes |-> nodes, rm |-> {}, new |-> <<>>, moves |-> {}, overflow |-> FALSE,
                  rules |-> FALSE, change |-> FALSE, over |-> "no"]
        read  == FoldLeft(OneEvent, begin, SubSeq(queue, 1, n))
        done  == FoldLeft(LAMBDA s, m : forget(s, m.wd, TRUE), read, SetToSeq(read.moves))
        whole == done.overflow \/ done.rules
    IN  /\ pc = "idle" /\ queue # <<>>
        /\ IF read.over = "gone"
           THEN /\ pc' = "ended" /\ exit' = ErrorKinds["gone"].code /\ pending' = "none"
                /\ queue' = SubSeq(queue, n + 1, Len(queue))
                /\ UNCHANGED <<kw, arenaVars, hot>>
           ELSE /\ nodes' = done.nodes
                /\ filter' = IF done.rules THEN rules \cup asked.extra ELSE filter
                /\ queue' = Dropped(SubSeq(queue, n + 1, Len(queue)), done.rm)
                /\ kw' = [w \in DOMAIN kw \ done.rm |-> kw[w]]
                /\ IF whole \/ done.new # <<>>
                   THEN /\ pc' = "walk" /\ UNCHANGED markVars
                        /\ walk' = [stack |-> IF whole THEN <<Start(<<>>, NoWd, "")>> ELSE done.new,
                                    at |-> <<>>, walked |-> <<>>, whole |-> whole,
                                    already |-> IF whole THEN 0 ELSE Cardinality(DOMAIN done.nodes),
                                    change |-> done.change, overflow |-> done.overflow]
                   ELSE /\ pending' = IF done.change THEN noted(FALSE) ELSE pending
                        /\ UNCHANGED <<pc, walk, hot>>
                /\ UNCHANGED <<rootWd, asked, exit>>
        /\ UNCHANGED <<treeVars, nextWd, owed, gap>>

-----------------------------------------------------------------------------
(* The walk, on its own thread while the loop waits for it. Each directory is *)
(* armed and then listed; both calls resolve the path they were given.        *)

Ended(why) ==
    /\ pc' = "ended" /\ exit' = ErrorKinds[why].code /\ pending' = "none"
    /\ UNCHANGED <<arenaVars, hot, owed, gap, treeVars>>

Top     == walk.stack[Len(walk.stack)]
Below   == SubSeq(walk.stack, 1, Len(walk.stack) - 1)
Walking == pc = "walk" /\ walk.at = <<>> /\ walk.stack # <<>>

\* The path is not a directory any more: skipped, unless it is the source itself.
walk_vanished ==
    /\ Walking /\ Resolve(Top.path) = Absent
    /\ IF Top.parent = NoWd THEN Ended("missing")
       ELSE /\ walk' = [walk EXCEPT !.stack = Below]
            /\ UNCHANGED <<treeVars, nodes, filter, rootWd, asked, pc, exit, markVars, owed, gap>>
    /\ UNCHANGED kernVars

\* The watch is refused by the kernel, or is one more than the budget.
walk_refused ==
    LET have == WdOf(Resolve(Top.path)) # NoWd
    IN  /\ Walking /\ Resolve(Top.path) # Absent
        /\ \/ ~have /\ Cardinality(DOMAIN kw) >= KernelMax
           \/ walk.already + Len(walk.walked) + 1 > asked.budget
        /\ Ended("limit")
        /\ UNCHANGED kernVars

\* inotify_add_watch answers with the descriptor the inode already has.
walk_arm ==
    LET i == Resolve(Top.path)
        w == IF WdOf(i) # NoWd THEN WdOf(i) ELSE nextWd
    IN  /\ Walking /\ i # Absent
        /\ WdOf(i) # NoWd \/ Cardinality(DOMAIN kw) < KernelMax
        /\ walk.already + Len(walk.walked) + 1 <= asked.budget
        /\ kw' = [x \in DOMAIN kw \cup {w} |-> IF x = w THEN i ELSE kw[x]]
        /\ nextWd' = IF w = nextWd THEN nextWd + 1 ELSE nextWd
        /\ walk' = [walk EXCEPT !.at = <<[start |-> Top, wd |-> w]>>, !.stack = Below]
        /\ UNCHANGED <<treeVars, nodes, filter, rootWd, asked, pc, exit, markVars, owed, gap, queue>>

Listed(start, w) ==
    LET i    == Resolve(start.path)
        subs == IF i = Absent THEN {}
                ELSE {n \in Names : Entry(i, n) # Absent /\ ~excludes(filter, Append(start.path, n))}
    IN  [k \in 1..Cardinality(subs) |->
            LET n == SetToSeq(subs)[k] IN Start(Append(start.path, n), w, n)]

walk_list ==
    LET a == walk.at[1]
    IN  /\ pc = "walk" /\ walk.at # <<>>
        /\ IF Resolve(a.start.path) = Absent /\ a.start.parent = NoWd THEN Ended("setup")
           ELSE /\ walk' = [walk EXCEPT !.at = <<>>,
                               !.stack = @ \o Listed(a.start, a.wd),
                               !.walked = Append(@, [wd |-> a.wd, parent |-> a.start.parent,
                                                     name |-> a.start.name])]
                /\ UNCHANGED <<treeVars, nodes, filter, rootWd, asked, pc, exit, markVars, owed, gap>>
        /\ UNCHANGED kernVars

\* The walk ends: its directories join the arena (process), or replace it (rewalk).
walk_joined ==
    LET begin == [nodes |-> IF walk.whole THEN <<>> ELSE nodes, rm |-> {}]
        done  == FoldLeft(LAMBDA s, r : attach(s, r.wd, r.parent, r.name), begin, walk.walked)
        stale == IF walk.whole THEN DOMAIN nodes \ DOMAIN done.nodes ELSE {}
        named == ~walk.whole /\ \E k \in 1..Len(walk.walked) :
                                    relative(done.nodes, walk.walked[k].wd).in
    IN  /\ pc = "walk" /\ walk.at = <<>> /\ walk.stack = <<>>
        /\ pc' = "idle" /\ nodes' = done.nodes
        /\ rootWd' = IF walk.whole THEN walk.walked[1].wd ELSE rootWd
        /\ queue' = Dropped(queue, done.rm \cup stale)
        /\ kw' = [w \in DOMAIN kw \ (done.rm \cup stale) |-> kw[w]]
        /\ pending' = IF Said(walk, named) THEN noted(walk.overflow) ELSE pending
        /\ walk' = [walk EXCEPT !.walked = <<>>, !.whole = FALSE, !.change = FALSE, !.overflow = FALSE]
        /\ UNCHANGED <<treeVars, nextWd, filter, asked, exit, hot, owed, gap>>

\* walk_bounded: the walk is given up at its deadline.
walk_deadline == pc = "walk" /\ Ended("deadline") /\ UNCHANGED kernVars

-----------------------------------------------------------------------------
(* The loop of --watch: at most one marker line per interval.                 *)

write_marker ==
    /\ pc = "idle" /\ ~asked.probe /\ pending # "none" /\ ~hot
    /\ pending' = "none" /\ hot' = TRUE
    /\ owed' = FALSE
    /\ UNCHANGED <<treeVars, kernVars, arenaVars, pc, exit, gap>>

write_marker_fails ==
    /\ pc = "idle" /\ ~asked.probe /\ pending # "none" /\ ~hot
    /\ Ended("output") /\ UNCHANGED kernVars

IntervalPasses ==
    /\ hot /\ pc # "ended" /\ hot' = FALSE
    /\ UNCHANGED <<treeVars, kernVars, arenaVars, pending, pc, exit, owed, gap>>

\* --watch-probe: its seconds are over, and the verdict is whether anything came.
probe_verdict ==
    /\ pc = "idle" /\ asked.probe
    /\ pc' = "ended" /\ exit' = IF pending # "none" THEN 0 ELSE 1
    /\ UNCHANGED <<treeVars, kernVars, arenaVars, markVars, owed, gap>>

\* watch_main and probe_main up to the first walk.
watch_main(ask) ==
    LET a == arm(ask)
    IN  /\ pc = "start"
        /\ asked' = [probe |-> ask.probe, events |-> a.events, budget |-> a.budget, extra |-> a.extra]
        /\ filter' = rules \cup a.extra
        /\ IF a.ok THEN pc' = "walk" /\ UNCHANGED exit
           ELSE pc' = "ended" /\ exit' = ErrorKinds[a.why].code
        /\ UNCHANGED <<treeVars, kernVars, nodes, rootWd, walk, markVars, owed, gap>>

WatchInit ==
    /\ place = [i \in Inos |-> [up |-> Absent, name |-> ""]]
    /\ rootThere = TRUE /\ rules = {} /\ ops = 0
    /\ kw = <<>> /\ nextWd = 1 /\ queue = <<>>
    /\ nodes = <<>> /\ filter = {} /\ rootWd = NoWd
    /\ pc = "start" /\ exit = 0
    /\ asked = [probe |-> FALSE, events |-> {}, budget |-> 0, extra |-> {}]
    /\ walk = [stack |-> <<Start(<<>>, NoWd, "")>>, at |-> <<>>, walked |-> <<>>, whole |-> TRUE,
               already |-> 0, change |-> FALSE, overflow |-> FALSE]
    /\ pending = "none" /\ hot = FALSE /\ gap = FALSE
    /\ owed = FALSE

OthersStep ==
    \/ \E i \in Inos, p \in Inos \cup {Root}, n \in Names :
           MkDir(i, p, n) \/ Rename(i, p, n) \/ MoveIn(i, p, n)
    \/ \E i \in Inos : MoveOut(i) \/ RmDir(i)
    \/ \E i \in Inos \cup {Root} : Touch(i)
    \/ \E rs \in RuleSets : EditRules(rs)
    \/ RemoveRoot

WalkStep == walk_vanished \/ walk_arm \/ walk_list \/ walk_joined

WatchNext ==
    \/ \E k \in 1..Len(WatchAsks) : watch_main(WatchAsks[k])
    \/ OthersStep
    \/ process \/ WalkStep \/ walk_refused \/ walk_deadline
    \/ write_marker \/ write_marker_fails \/ IntervalPasses \/ probe_verdict

-----------------------------------------------------------------------------
Included == {i \in Inos \cup {Root} : InTree(i) /\ ~excludes(filter, PathOf(i).path)}
Quiet    == pc = "idle" /\ queue = <<>>

(* What the watcher is for: once every queued event has been read, each        *)
(* directory the rules include has a watch, and the arena gives that watch the *)
(* directory's true path, however the tree was rearranged around the walks,    *)
(* save for the two rearrangements `gap` records.                              *)
TreeCovered ==
    Quiet /\ ~gap =>
        \A i \in Included : /\ WdOf(i) \in DOMAIN nodes
                            /\ relative(nodes, WdOf(i)) = PathOf(i)

(* No watch is leaked: with no event unread, the kernel holds a watch only for *)
(* a node of the arena, and every node's watch is live.                        *)
NoWatchLeaked == Quiet => DOMAIN nodes = DOMAIN kw

(* A marker line follows every change in the included tree: when the events    *)
(* are read, the walks are over and nothing is pending, no change is still     *)
(* unreported, whatever was coalesced, dropped by the kernel or renamed.       *)
ChangesMarked == Quiet /\ ~asked.probe /\ pending = "none" /\ ~gap => ~owed

(* The watcher watches the whole tree, nothing else, and tells of every change *)
(* in it (watch/tree.rs:445).                                                  *)
WatchComplete == TreeCovered /\ NoWatchLeaked /\ ChangesMarked
===============================================================================
