--------------------------- MODULE AuditContract ---------------------------
(***************************************************************************)
(* What the audit trail of queued jobs promises a reader: every accepted   *)
(* job is announced once, runs at most once, and gets exactly one terminal *)
(* verdict that is never revised.  "succeeded" and "unknown" are only for  *)
(* a job that was really started.  JobQueue implements this through the    *)
(* outbox records, the log and the crashes between them.                   *)
(***************************************************************************)
CONSTANT Jobs

VARIABLE verdict

Init == verdict = [j \in Jobs |-> "absent"]

Announce(j) ==
    /\ verdict[j] = "absent"
    /\ \E v \in {"requested", "failed"} : verdict' = [verdict EXCEPT ![j] = v]

Start(j) ==
    /\ verdict[j] = "requested"
    /\ verdict' = [verdict EXCEPT ![j] = "executing"]

\* A job that was never started can only fail.
Abandon(j) ==
    /\ verdict[j] = "requested"
    /\ verdict' = [verdict EXCEPT ![j] = "failed"]

Finish(j) ==
    /\ verdict[j] = "executing"
    /\ \E v \in {"succeeded", "failed", "unknown"} : verdict' = [verdict EXCEPT ![j] = v]

Next == \E j \in Jobs : Announce(j) \/ Start(j) \/ Abandon(j) \/ Finish(j)

Spec == Init /\ [][Next]_verdict
=============================================================================
