------------------------------- MODULE MCLogs -------------------------------
(***************************************************************************)
(* The event log's sinks: two threads that share a remote one, in either   *)
(* delivery mode, or a local file that is rotated while the package's UI   *)
(* reads it.  A behaviour is of one of the two.                            *)
(***************************************************************************)
EXTENDS RemoteLog, LocalLog

CONSTANTS c1, c2

TwoCallers == {c1, c2}

Shape(size, level, error, secret, record) == [size |-> size, level |-> level, error |-> error, secret |-> secret, record |-> record]
MCLineShapes ==
    {Shape(1, "info", [kind |-> "none", cause |-> "none"], "none", TRUE),
     Shape(2, "error", [kind |-> "FileIo", cause |-> "none"], "token", TRUE)}

VARIABLE sink   \* "remote" or "local"

logsVars == <<vars, localVars, tailVars, sink>>

LogsInit ==
    /\ sink \in {"remote", "local"}
    /\ Init /\ TailInit
    /\ sink = "local" => required

RemoteCall(c) == sink = "remote" /\ CallStep(c) /\ UNCHANGED <<localVars, tailVars, sink>>

LogsNext ==
    /\ UNCHANGED sink
    /\ \/ sink = "remote" /\ Next /\ UNCHANGED <<localVars, tailVars>>
       \/ sink = "local" /\ TailNext /\ UNCHANGED vars

LogsSpec == LogsInit /\ [][LogsNext]_logsVars /\ \A c \in Callers : WF_logsVars(RemoteCall(c))
=============================================================================
