---------------------------- MODULE Supervision ----------------------------
(***************************************************************************)
(* Processes the DSM package starts and must not lose.                     *)
(*                                                                         *)
(* A queued mutation runs the manager in a process group of its own, with  *)
(* helpers the manager forks; the consumer feeds it, reads it, and may be  *)
(* told to stop.  A service process (the sync core under its runner, the   *)
(* controller and the API server under the lifecycle script) ties itself   *)
(* to its parent before it becomes what it was started for.                *)
(*                                                                         *)
(* The kernel is external: a dead process is a zombie until it is waited   *)
(* for, a zombie's group still exists, the consumer is the subreaper of    *)
(* what the manager leaves, and a parent-death signal reaches the process  *)
(* that asked for it and nobody it forked.                                 *)
(***************************************************************************)
EXTENDS Integers, Sequences, FiniteSets

CONSTANTS CoreTails   \* argument lists a runner may pass for the core

VARIABLES manager,    \* "none", "forked", "grouped", "armed", "running", "zombie", "gone"
          helper,     \* "none", "running", "zombie", "gone"
          holds,      \* processes that hold the write end of the manager's stdout
          unread,     \* output not yet read: "none", "some", "too-much"
          unfed,      \* input not yet written
          ends,       \* stdout's end has been seen
          ends_well,  \* the manager's exit status was success
          stop,       \* termination_requested
          consumer,   \* where capture_queued_mutation_command is
          signalled,  \* history: the group was sent a signal
          captured,   \* the capture's result
          starter,    \* a startup's parent: "live", "dead"
          startup,    \* where the startup's start is
          served,     \* which service it is, and with what arguments
          armed       \* the parent-death signal it has asked for

queuedVars == <<manager, helper, holds, unread, unfed, ends, ends_well, stop, consumer, signalled, captured>>
serviceVars == <<starter, startup, served, armed>>
supervisionVars == <<queuedVars, serviceVars>>

(***************************************************************************)
(* The group, as the kernel answers for it.                                *)
(***************************************************************************)
process_group_exists == manager \in {"grouped", "armed", "running", "zombie"} \/ helper \in {"running", "zombie"}

(***************************************************************************)
(* The manager and its helper.                                             *)
(***************************************************************************)
\* Between fork and exec: a group of its own, tied to the consumer, which
\* must still be the parent then.
PreExec ==
    /\ manager \in {"forked", "grouped", "armed"}
    /\ manager' = CASE manager = "forked" -> "grouped" [] manager = "grouped" -> "armed"
                    [] OTHER -> IF consumer # "killed" THEN "running" ELSE "gone"
    /\ holds' = IF manager' = "running" THEN {"manager"} ELSE {}
    /\ UNCHANGED <<helper, unread, unfed, ends, ends_well, stop, consumer, signalled, captured, serviceVars>>

\* The manager forks, reads, writes, or exits; whoever exits lets go of the
\* pipe, and a helper may let go of it earlier.
ManagerForks ==
    /\ manager = "running" /\ helper = "none"
    /\ helper' = "running" /\ holds' \in {holds, holds \cup {"helper"}}
    /\ UNCHANGED <<manager, unread, unfed, ends, ends_well, stop, consumer, signalled, captured, serviceVars>>

Writes ==
    /\ holds # {} /\ unread' \in {"some", "too-much"} /\ unread # "too-much"
    /\ UNCHANGED <<manager, helper, holds, unfed, ends, ends_well, stop, consumer, signalled, captured, serviceVars>>

ManagerExits ==
    /\ manager = "running"
    /\ manager' = IF consumer = "killed" THEN "gone" ELSE "zombie"
    /\ ends_well' \in IF signalled THEN {FALSE} ELSE BOOLEAN
    /\ holds' = holds \ {"manager"}
    /\ UNCHANGED <<helper, unread, unfed, ends, stop, consumer, signalled, captured, serviceVars>>

HelperExits ==
    /\ helper = "running" /\ helper' = IF consumer = "killed" THEN "gone" ELSE "zombie"
    /\ holds' = holds \ {"helper"}
    /\ UNCHANGED <<manager, unread, unfed, ends, ends_well, stop, consumer, signalled, captured, serviceVars>>

\* A manager waits for the helper it knows of.
ManagerWaits ==
    /\ manager = "running" /\ helper = "zombie" /\ helper' = "gone"
    /\ UNCHANGED <<manager, holds, unread, unfed, ends, ends_well, stop, consumer, signalled, captured, serviceVars>>

(***************************************************************************)
(* capture_queued_mutation_command.                                        *)
(***************************************************************************)
Rest == UNCHANGED <<manager, helper, holds, unread, unfed, ends, ends_well, stop, signalled>>
AskedToStop == ~ stop /\ consumer # "killed" /\ stop' = TRUE
               /\ UNCHANGED <<manager, helper, holds, unread, unfed, ends, ends_well, consumer, signalled, captured, serviceVars>>

Spawn ==
    /\ consumer = "idle"
    /\ IF stop THEN consumer' = "done" /\ captured' = "unavailable" /\ UNCHANGED manager
       ELSE manager' = "forked" /\ consumer' = "read" /\ UNCHANGED captured
    /\ UNCHANGED <<helper, holds, unread, unfed, ends, ends_well, stop, signalled, serviceVars>>

\* One turn: asked to stop?  Then drain, feed, and see whether the manager
\* has exited.
ReadTurn ==
    /\ consumer = "read" /\ manager \in {"running", "zombie"}
    /\ IF stop \/ unread = "too-much"
       THEN consumer' = "fail" /\ UNCHANGED <<manager, unread, unfed, ends>>
       ELSE /\ unread' = "none" /\ ends' = (holds = {})
            /\ unfed' \in IF manager = "running" THEN {unfed, FALSE} ELSE {unfed}
            /\ IF manager = "running" THEN UNCHANGED <<manager, consumer>>
               ELSE /\ manager' = "gone"
                    /\ consumer' = IF unfed THEN "fail" ELSE IF ends' THEN "whole" ELSE "grace"
    /\ UNCHANGED <<helper, holds, ends_well, stop, signalled, captured, serviceVars>>

\* The exit may be seen just before the end of the pipe: one more look.
GraceTurn ==
    /\ consumer = "grace"
    /\ ends' = (holds = {} /\ unread # "too-much")
    /\ unread' = IF unread = "too-much" THEN unread ELSE "none"
    /\ consumer' = IF ends' THEN "whole" ELSE "fail"
    /\ UNCHANGED <<manager, helper, holds, unfed, ends_well, stop, signalled, captured, serviceVars>>

GroupGone == ~ process_group_exists

\* The whole output was read, but something of the group may live on.
WholeRead ==
    /\ consumer = "whole"
    /\ IF GroupGone THEN consumer' = "done" /\ captured' = IF ends_well THEN "ok" ELSE "failed"
       ELSE consumer' = "kill" /\ UNCHANGED captured
    /\ Rest /\ UNCHANGED serviceVars

\* A consumer that was asked to stop asks in turn; otherwise the group is
\* killed.
FailCapture ==
    /\ consumer = "fail" /\ consumer' = IF stop THEN "term" ELSE "kill"
    /\ Rest /\ UNCHANGED <<captured, serviceVars>>

\* terminate_queued_process_group, one turn: wait for the manager, adopt
\* and wait for what it left, and signal again until the group is gone.
TerminateTurn ==
    /\ consumer \in {"term", "kill"}
    /\ manager' = CASE manager = "zombie" -> "gone" [] consumer = "kill" /\ manager = "running" -> "zombie" [] OTHER -> manager
    /\ helper' = CASE helper = "zombie" /\ manager = "gone" -> "gone" [] consumer = "kill" /\ helper = "running" -> "zombie" [] OTHER -> helper
    /\ signalled' = TRUE
    /\ holds' = {p \in holds : (IF p = "manager" THEN manager' ELSE helper') = "running"}
    /\ IF process_group_exists THEN UNCHANGED <<consumer, captured>>
       ELSE consumer' = "done" /\ captured' = "unavailable"
    /\ UNCHANGED <<unread, unfed, ends, ends_well, stop, serviceVars>>

\* The consumer itself is killed: the manager goes with it, once it is
\* armed.
ConsumerKilled ==
    /\ consumer \notin {"killed", "done"} /\ consumer' = "killed"
    /\ manager' = IF manager \in {"armed", "running", "zombie"} THEN "gone" ELSE manager
    /\ holds' = holds \ {"manager"}
    /\ helper' = IF helper = "zombie" THEN "gone" ELSE helper
    /\ UNCHANGED <<unread, unfed, ends, ends_well, stop, signalled, captured, serviceVars>>

QueuedNext ==
    \/ PreExec \/ ManagerForks \/ Writes \/ ManagerExits \/ HelperExits \/ ManagerWaits
    \/ AskedToStop \/ Spawn \/ ReadTurn \/ GraceTurn \/ WholeRead \/ FailCapture \/ TerminateTurn \/ ConsumerKilled

(***************************************************************************)
(* Services.                                                               *)
(***************************************************************************)
MAX_CORE_NICE == 19

\* The runner's path is its statement of intent: the core's own path, or
\* another absolute name of the very same file.
names_package_binary(b) == b = "own" \/ b = "alias"

parse_supervised_core_tail(t) ==
    /\ t.nice # {} => \A n \in t.nice : n \in 0 .. MAX_CORE_NICE
    /\ t.separator /\ names_package_binary(t.binary)

\* Mutant: the signal is asked for last, once all is known to be well.
StartOrder_armed_last == <<"parent", "identity", "exact", "arm", "become">>

\* What a service does before it becomes one.
StartOrder == <<"arm", "parent", "identity", "exact", "become">>

DeathSignal == IF served.kind = "controller" THEN "USR1" ELSE "KILL"
Refuses == startup' = "refused" /\ UNCHANGED <<starter, served, armed>>

StartStep ==
    /\ startup \in {"1", "2", "3", "4", "5"}
    /\ LET i == CASE startup = "1" -> 1 [] startup = "2" -> 2 [] startup = "3" -> 3 [] startup = "4" -> 4 [] OTHER -> 5
           do == StartOrder[i]
           next == IF i = 5 THEN "serving" ELSE <<"2", "3", "4", "5">>[i]
       IN \/ /\ do = "arm" /\ armed' = DeathSignal /\ startup' = next /\ UNCHANGED <<starter, served>>
          \/ /\ do \in {"parent", "exact"} /\ starter = "live" /\ startup' = next /\ UNCHANGED <<starter, served, armed>>
          \/ /\ do \in {"parent", "exact"} /\ starter = "dead" /\ Refuses
          \/ /\ do = "identity" /\ served.identity /\ startup' = next /\ UNCHANGED <<starter, served, armed>>
          \/ /\ do = "identity" /\ ~ served.identity /\ Refuses
          \/ /\ do = "become" /\ startup' = next /\ UNCHANGED <<starter, served, armed>>
    /\ UNCHANGED queuedVars

\* A core's arguments are read before anything else.
StartService ==
    /\ startup = "none"
    /\ IF served.kind = "core" /\ ~ parse_supervised_core_tail(served.tail) THEN startup' = "refused" ELSE startup' = "1"
    /\ UNCHANGED <<starter, served, armed, queuedVars>>

\* The controller ignores the signal just before it says that it is ready,
\* and from then on does not depend on the script that started it.  (What
\* the API server does after its start is BridgeService's.)
SaysReady ==
    /\ startup = "serving" /\ served.kind = "controller"
    /\ armed' = "none" /\ startup' = "ready"
    /\ UNCHANGED <<starter, served, queuedVars>>

ParentDies ==
    /\ starter = "live" /\ starter' = "dead"
    /\ startup' = IF armed # "none" THEN "killed" ELSE startup
    /\ UNCHANGED <<served, armed, queuedVars>>

ServiceNext == StartService \/ StartStep \/ SaysReady \/ ParentDies

SupervisionInit ==
    /\ manager = "none" /\ helper = "none" /\ holds = {} /\ unread = "none" /\ unfed \in BOOLEAN
    /\ ends = FALSE /\ ends_well = FALSE /\ stop = FALSE /\ consumer = "idle" /\ signalled = FALSE /\ captured = "none"
    /\ starter = "live" /\ startup = "none" /\ armed = "none"
    /\ \/ \E t \in CoreTails : served = [kind |-> "core", identity |-> TRUE, tail |-> t]
       \/ \E k \in {"server", "controller"}, i \in BOOLEAN :
            served = [kind |-> k, identity |-> i, tail |-> [nice |-> {}, separator |-> TRUE, binary |-> "own"]]

SupervisionNext == QueuedNext \/ ServiceNext

\* When the consumer is done with a queued mutation, whatever came of it (an
\* answer, an answer too long, a refusal to read its input, a helper that
\* outlived the manager, a request to stop at any moment), no process of the
\* mutation runs any longer; and it is called a success only when the manager
\* exited on its own and its whole output was read.
NoneLeftBehind ==
    /\ consumer = "done" => manager \notin {"forked", "grouped", "armed", "running"} /\ helper # "running"
    /\ captured = "ok" => ends /\ ends_well /\ ~ unfed /\ ~ signalled

\* A service whose parent died does not stay: at whatever step of its start
\* the parent went, the service is killed or finds out, and only a controller
\* that said it was ready outlives the script that started it.
NeverStranded ==
    starter = "dead" => startup \notin {"5", "serving"}

\* No process of the package is left to run unwatched: not one of a finished
\* mutation, not a service whose parent is gone (dsm_api.rs:14086, 6330).
ProcessesAccounted == NoneLeftBehind /\ NeverStranded
=============================================================================
