---------------------------- MODULE MCUploadPool ----------------------------
(* A small instance of UploadPool: two workers and three uploads, handed   *)
(* over by creates and copies of which DSM refused one or two, so that two *)
(* more refusals, or one, of the same class are the verdict.               *)
EXTENDS UploadPool

CONSTANTS w1, w2, c1, c2

MCWorkers == {w1, w2}
MCClasses == {c1, c2}
MCN == 3
MCStartBreakers ==
    {[NewBreaker(MCN, 0) EXCEPT !.adjudicated = n, !.refused[c1] = n] : n \in {1, 2}}
=============================================================================
