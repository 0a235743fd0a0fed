--------------------------- MODULE BridgeService ---------------------------
(***************************************************************************)
(* How the DSM bridge service comes up, goes down and is started again     *)
(* (src/src/dsm_api.rs).  A start is made by a lifecycle parent (the       *)
(* package's start script, external): it removes what a dead service left, *)
(* spawns the service, waits for its "bound" marker and commits the start. *)
(* The service publishes its pid, binds its socket without permissions,    *)
(* announces that, waits for the commit, detaches from its parent, looks   *)
(* again, publishes "ready" and only then opens the socket.  Until it is   *)
(* detached it dies with its parent; whoever it is, it may be killed       *)
(* between any two file operations and leaves its files behind.            *)
(***************************************************************************)
EXTENDS Integers

CONSTANT
    MaxStarts          \* bound: how many starts are made

ASSUME MaxStartsAssumption == MaxStarts \in Nat \ {0}

VARIABLES
    phase,       \* phase[i]: where the i-th start and its service are
    parent,      \* parent[i]: the lifecycle parent of the i-th start
    start,       \* the start file: whose it is and whether it is committed
    files,       \* the pid, bound and ready markers: who published each (0: absent)
    sock         \* the socket path: who bound it (0: absent) and whether it is open

service == <<phase, parent, start, files, sock>>

Starts == 1..MaxStarts

Attached == {"spawned", "pid", "bound", "announced"}     \* dies with its parent
Detached == {"cleared", "ready", "open", "exiting", "unwinding"}
Alive(i) == i # 0 /\ phase[i] \in Attached \cup Detached

NoSocket == [by |-> 0, open |-> FALSE]

ServiceInit ==
    /\ phase = [i \in Starts |-> "none"]
    /\ parent = [i \in Starts |-> "none"]
    /\ start = [by |-> 0, committed |-> FALSE]
    /\ files = [pid |-> 0, bound |-> 0, ready |-> 0]
    /\ sock = NoSocket

To(i, p) == phase' = [phase EXCEPT ![i] = p]

-----------------------------------------------------------------------------
(* Stale files *)

\* remove_stale_socket: nothing there, or nobody listens.  An open socket
\* tells by refusing a connection; one without permissions refuses everyone,
\* so it counts as stale only to a caller that saw its owner's pid dead.
StaleSocket(deadPid) ==
    CASE sock.by = 0 -> TRUE
      [] sock.open   -> ~Alive(sock.by)
      [] OTHER       -> deadPid

\* Mutant: the socket alone decides.
MayCleanUpBySocket == StaleSocket(TRUE)

\* cleanup_stale_service_socket refuses while the recorded process lives.
MayCleanUp ==
    /\ ~Alive(files.pid)
    /\ StaleSocket(files.pid # 0)

BeginStart(i) ==
    /\ phase[i] = "none"
    /\ \A j \in Starts : j < i => phase[j] # "none" /\ parent[j] # "live"
    /\ To(i, "cleanup")
    /\ parent' = [parent EXCEPT ![i] = "live"]
    /\ start' = [by |-> i, committed |-> FALSE]
    /\ UNCHANGED <<files, sock>>

\* The parent cleans up and spawns the service, or finds the old one alive.
\* The socket goes first: the pid is what proves an unopened one stale.
CleanUpSocket(i) ==
    /\ phase[i] = "cleanup" /\ MayCleanUp
    /\ To(i, "sweeping")
    /\ sock' = NoSocket
    /\ UNCHANGED <<parent, start, files>>

CleanUpFiles(i) ==
    /\ phase[i] = "sweeping"
    /\ To(i, "spawned")
    /\ files' = [pid |-> 0, bound |-> 0, ready |-> 0]
    /\ UNCHANGED <<parent, start, sock>>

CleanUpRefused(i) ==
    /\ phase[i] = "cleanup" /\ ~MayCleanUp
    /\ To(i, "over")
    /\ parent' = [parent EXCEPT ![i] = "dead"]
    /\ UNCHANGED <<start, files, sock>>

-----------------------------------------------------------------------------
(* The service *)

\* publish_service_identity creates a marker that must not exist yet.
Publish(i, marker, from, to) ==
    /\ phase[i] = from
    /\ IF files[marker] = 0
       THEN files' = [files EXCEPT ![marker] = i] /\ To(i, to)
       ELSE files' = files /\ To(i, "exiting")
    /\ UNCHANGED <<parent, start, sock>>

\* run_supervised_server: the pid is published under a live parent.
PublishPid(i) == parent[i] = "live" /\ Publish(i, "pid", "spawned", "pid")

\* bind_prepared: whatever is stale goes, then the socket is linked into
\* place without any permission.
BindPrepared(i) ==
    /\ phase[i] = "pid"
    /\ IF StaleSocket(FALSE)
       THEN sock' = [by |-> i, open |-> FALSE] /\ To(i, "bound")
       ELSE sock' = sock /\ To(i, "exiting")
    /\ UNCHANGED <<parent, start, files>>

Announce(i) == Publish(i, "bound", "bound", "announced")

Committed(i) == parent[i] = "live" /\ start = [by |-> i, committed |-> TRUE]

\* The parent sees the bound marker of the service it started.
CommitStart(i) ==
    /\ parent[i] = "live" /\ phase[i] = "announced" /\ files.bound = i
    /\ start.by = i /\ ~start.committed
    /\ start' = [start EXCEPT !.committed = TRUE]
    /\ UNCHANGED <<phase, parent, files, sock>>

ClearDeathSignal(i) ==
    /\ phase[i] = "announced" /\ Committed(i)
    /\ To(i, "cleared")
    /\ UNCHANGED <<parent, start, files, sock>>

\* Detached, it looks again: a parent that died in between ends the start.
BecomeReady(i) ==
    /\ phase[i] = "cleared"
    /\ IF Committed(i) /\ files.ready = 0
       THEN files' = [files EXCEPT !.bound = IF @ = i THEN 0 ELSE @, !.ready = i]
            /\ To(i, "ready")
       ELSE files' = files /\ To(i, "exiting")
    /\ UNCHANGED <<parent, start, sock>>

\* activate_prepared: only the very socket that was prepared is opened.  From
\* here on nothing asks for the parent, which has no more to do.
Activate(i) ==
    /\ phase[i] = "ready"
    /\ IF sock = [by |-> i, open |-> FALSE]
       THEN sock' = [sock EXCEPT !.open = TRUE] /\ To(i, "open")
       ELSE sock' = sock /\ To(i, "exiting")
    /\ parent' = [parent EXCEPT ![i] = "dead"]
    /\ UNCHANGED <<start, files>>

\* Leaving with an error unwinds in order: its own socket, then its markers.
RemoveOwnSocket(i) ==
    /\ phase[i] = "exiting"
    /\ sock' = IF sock.by = i THEN NoSocket ELSE sock
    /\ To(i, "unwinding")
    /\ UNCHANGED <<parent, start, files>>

OwnRemoved(i) == [m \in DOMAIN files |-> IF files[m] = i THEN 0 ELSE files[m]]

RemoveOwnFiles(i) ==
    /\ phase[i] = "unwinding"
    /\ files' = OwnRemoved(i)
    /\ To(i, "over")
    /\ UNCHANGED <<parent, start, sock>>

\* Killed, or its accept loop's process gone: nothing is removed.
Kill(i) ==
    /\ Alive(i)
    /\ To(i, "over")
    /\ UNCHANGED <<parent, start, files, sock>>

\* The parent ends, having done its work or not.
ParentEnds(i) ==
    /\ parent[i] = "live"
    /\ parent' = [parent EXCEPT ![i] = "dead"]
    /\ phase' = [phase EXCEPT ![i] =
                    IF @ \in Attached \cup {"cleanup", "sweeping"} THEN "over" ELSE @]
    /\ UNCHANGED <<start, files, sock>>

LifecycleStep(i) ==
    \/ BeginStart(i) \/ CleanUpSocket(i) \/ CleanUpFiles(i) \/ CleanUpRefused(i)
    \/ PublishPid(i) \/ BindPrepared(i) \/ Announce(i) \/ CommitStart(i)
    \/ ClearDeathSignal(i) \/ BecomeReady(i) \/ Activate(i)
    \/ RemoveOwnSocket(i) \/ RemoveOwnFiles(i) \/ ParentEnds(i)

-----------------------------------------------------------------------------
(* Properties *)

\* At most one live process stands behind the socket path, it is the one the
\* path leads to once it serves, and it serves only after a committed start
\* and with its ready marker published (run_server_loop's order).
OneListener ==
    /\ \A i, j \in Starts :
          phase[i] \in {"bound", "announced", "cleared", "ready", "open"}
          /\ phase[j] \in {"bound", "announced", "cleared", "ready", "open"} => i = j
    /\ \A i \in Starts : phase[i] = "open" =>
          sock = [by |-> i, open |-> TRUE] /\ files.ready = i /\ files.pid = i

\* However the services ended, and wherever they were killed, what they left
\* can be cleaned up: the next start is not refused for ever.
AlwaysStartable ==
    (\A i \in Starts : ~Alive(i)) => MayCleanUp

\* Whatever is started twice, killed or left behind, one service listens, and
\* another can always be started (run_server_loop, prepare_socket_path).
ServiceSingle == OneListener /\ AlwaysStartable
=============================================================================
