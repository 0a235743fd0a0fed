---------------------------- MODULE MCTransport -----------------------------
(* The DSM session that the clones of a client share, one upload, and the  *)
(* rate limit of several: a behaviour is of one of the three.  The code's  *)
(* four logins in ten minutes, plus one per fifteen, are scaled down to    *)
(* one in one, plus one per two.                                           *)
EXTENDS Session, UploadTransfer

CONSTANTS t1, t2

TwoThreads == {t1, t2}

VARIABLE subject   \* "session", "upload" or "rate"

transportVars == <<vars, uploadVars, throttleVars, subject>>

TransportInit ==
    /\ subject \in {"session", "upload", "rate"}
    /\ Init /\ UploadInit
    /\ \E r \in {2, 3} : ThrottleInit(r) /\ (subject # "rate" => r = 2)
    /\ subject # "upload" => digest /\ keepsTime /\ inPlace /\ dest = Absent

TransportNext ==
    /\ UNCHANGED subject
    /\ \/ subject = "session" /\ Next /\ UNCHANGED <<uploadVars, throttleVars>>
       \/ subject = "upload" /\ UploadNext /\ UNCHANGED <<vars, throttleVars>>
       \/ subject = "rate" /\ ThrottleNext /\ UNCHANGED <<vars, uploadVars>>

ThreadStep(t) ==
    subject = "session" /\ Step(t) /\ UNCHANGED <<uploadVars, throttleVars, subject>>

TransportSpec ==
    TransportInit /\ [][TransportNext]_transportVars /\ \A t \in Threads : WF_transportVars(ThreadStep(t))
=============================================================================
