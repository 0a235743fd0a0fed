----------------------------- MODULE MCMonitor -----------------------------
(* Four machines that watch and report and share no state: the file watcher,  *)
(* the status cache, the progress record and the progress tracker. A          *)
(* behaviour is one of theirs, and the other three stay in one of their       *)
(* initial states: the run is their sum, not their product.                   *)
EXTENDS TreeWatch, StatusCache, Progress

MCRuleSets == {{}, {"x"}}
Fine == [probe |-> FALSE, linux |-> TRUE, inotify |-> TRUE, instances |-> TRUE, source |-> "there",
         fragment |-> [readable |-> TRUE, large |-> FALSE, toml |-> TRUE, profiles |-> "one table",
                       excludes |-> "strings", names |-> {}],
         system |-> [user |-> 10, namespace |-> 0, held |-> 4],
         args |-> <<<<"-m">>, <<"-r">>, <<"-q">>, <<"-e", <<"create", "move", "delete", "close_write">>>>,
                    <<"--profile-fragment", "given">>, <<"source">>>>]
Probe == [Fine EXCEPT !.probe = TRUE, !.system.held = 7, !.args = <<<<"--seconds", 60>>, <<"source">>>>]
MCWatchAsks == <<Fine, Probe,
   [Fine EXCEPT !.args = <<<<"-m">>, <<"source">>>>],
   [Fine EXCEPT !.args = <<<<"-m">>, <<"-r">>, <<"--">>, <<"source">>, <<"-q">>>>],
   [Fine EXCEPT !.linux = FALSE],
   [Fine EXCEPT !.fragment.profiles = "many"],
   [Fine EXCEPT !.source = "missing"],
   [Fine EXCEPT !.inotify = FALSE, !.instances = FALSE]>>

MCPathSeq == <<"p", "q">>
Dir(marker) == [safe |-> TRUE, private |-> TRUE, foreign |-> FALSE, marker |-> marker]
Seen(m, t) == [m |-> m, id |-> 1, l |-> "a", rm |-> 0, r |-> "a", t |-> t, h |-> t, redated |-> FALSE]
Earlier == [form |-> "ok", gen |-> 2, canary |-> 2, version |-> 1,
            recs |-> [f \in {"p", "q"} |-> IF f = "p" THEN Seen(0, 2) ELSE Seen(2, 2)]]
MCScenes == {[dir |-> Dir("none"), file |-> NoFile, passes |-> <<1, 1>>],
             [dir |-> Dir("ours"), file |-> Earlier, passes |-> <<2, 0>>],
             [dir |-> [Dir("none") EXCEPT !.foreign = TRUE], file |-> NoFile, passes |-> <<1, 0>>],
             [dir |-> Dir("none"), file |-> Earlier, passes |-> <<1, 0>>]}
OtherDoc == [profile |-> "else", schema |-> TRUE, version |-> 1, readable |-> TRUE, complete |-> TRUE,
             observed |-> 1, in_sync |-> 3, source |-> <<"src", "sub">>, remote |-> <<"share", "else">>]
MCRollupAsks == {[docs |-> {OtherDoc}, expected |-> <<"mine", "else">>],
                 [docs |-> {[OtherDoc EXCEPT !.source = <<"srv">>, !.complete = FALSE]},
                  expected |-> <<"mine", "else">>],
                 [docs |-> {[OtherDoc EXCEPT !.readable = FALSE]}, expected |-> <<>>]}

VARIABLE which

monitorVars == <<watchVars, cacheVars, recordVars, trackerVars, which>>

Init ==
    /\ which \in {"watcher", "cache", "record", "tracker"}
    /\ WatchInit /\ CacheInit /\ RecordInit /\ TrackerInit
    /\ which # "cache" => cacheFile = NoFile /\ cacheDir = Dir("none")
    /\ which # "record" => job.op = "run"
    /\ which # "tracker" => screen = "off"

Next ==
    /\ UNCHANGED which
    /\ \/ /\ which = "watcher" /\ WatchNext
          /\ UNCHANGED <<cacheVars, recordVars, trackerVars>>
       \/ /\ which = "cache" /\ CacheNext
          /\ UNCHANGED <<watchVars, recordVars, trackerVars>>
       \/ /\ which = "record" /\ RecordNext
          /\ UNCHANGED <<watchVars, cacheVars, trackerVars>>
       \/ /\ which = "tracker" /\ TrackerNext
          /\ UNCHANGED <<watchVars, cacheVars, recordVars>>

MonitorSpec == Init /\ [][Next]_monitorVars
=============================================================================
