--------------------------- MODULE RefusalBreaker ---------------------------
(***************************************************************************)
(* The breaker of src/src/sync.rs that fails a run when DSM's refusals of  *)
(* single paths are really one refusal of the share.  A breaker value is a *)
(* record; each method of the code is an operator from a breaker to the    *)
(* next one.  The sample of refused paths and the operation:code tallies   *)
(* of RefusalTally only word the error and are left out.                   *)
(***************************************************************************)
EXTENDS Integers

CONSTANT Classes     \* the RefusalClass values DSM's refusals fall into

(* "No class": the refusal_of an error that is not a refusal of a path.    *)
NotRefused == "notRefused"

ASSUME ClassesAssumption == NotRefused \notin Classes

Breakers == [pending : Nat, adjudicated : Nat, inSync : Nat,
             refused : [Classes -> Nat]]

NewBreaker(pending, inSync) ==
    [pending |-> pending, adjudicated |-> 0, inSync |-> inSync,
     refused |-> [c \in Classes |-> 0]]

(* settle: one planned write leaves the pending ones (saturating_sub).     *)
Settle(b) ==
    [b EXCEPT !.pending = IF @ = 0 THEN 0 ELSE @ - 1]

Excluded(b) == Settle(b)

(* exclude_covered: n planned writes are excluded one after the other.     *)
ExcludedTimes(b, n) ==
    [b EXCEPT !.pending = IF @ < n THEN 0 ELSE @ - n]

AcceptedUnsettled(b) == [b EXCEPT !.adjudicated = @ + 1]
Accepted(b) == [Settle(b) EXCEPT !.adjudicated = @ + 1]

(* settled_as: a refusal counts for its class, anything else is excluded.  *)
SettledAs(b, c) ==
    IF c = NotRefused
    THEN Excluded(b)
    ELSE [Settle(b) EXCEPT !.adjudicated = @ + 1, !.refused[c] = @ + 1]

Considered(b) == b.adjudicated + b.pending + b.inSync

(* check() answers an error: one class has at least three refusals and     *)
(* they are more than half of what the run considered.                     *)
Trips(b) ==
    \E c \in Classes : b.refused[c] >= 3 /\ b.refused[c] * 2 > Considered(b)
=============================================================================
