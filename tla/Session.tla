------------------------------ MODULE Session -------------------------------
(***************************************************************************)
(* How the clones of one ApiClient share a DSM session, of src/src/api.rs: *)
(* with_session_recovery, recover_session and the ReauthenticationLedger.  *)
(* Every worker, and the thread of keep_session_alive_while, sends its     *)
(* requests through with_session_recovery; DSM may end a session at any    *)
(* time.  A session is the number of the login that made it.               *)
(***************************************************************************)
EXTENDS Integers, Sequences

CONSTANTS
    Threads,     \* the clones of the client that send requests
    PerWindow,   \* REAUTHENTICATIONS_PER_WINDOW
    Window,      \* REAUTHENTICATION_WINDOW
    Period,      \* REAUTHENTICATION_ALLOWANCE_PERIOD
    Retries,     \* transport retries of one attempt
    MaxRequests, \* bound on the requests of one thread
    MaxTime      \* bound on the clock

ASSUME PerWindowAssumption == PerWindow \in Nat \ {0}
ASSUME WindowAssumption == Window \in Nat \ {0}
ASSUME PeriodAssumption == Period \in Nat \ {0}
ASSUME RetriesAssumption == Retries \in Nat

VARIABLES
    now,      \* the clock; the client connected at 0
    alive,    \* the sessions DSM still honours
    issued,   \* the number of logins DSM has accepted
    current,  \* the session slot every clone shares
    holder,   \* the thread that holds the ledger's lock, if any
    recent,   \* ReauthenticationLedger.recent, the oldest first
    total,    \* ReauthenticationLedger.total
    pc,       \* where each thread is
    sent,     \* the session each request began under (the local `sent`)
    used,     \* the session DSM judges its last send by
    code,     \* why DSM refused that send
    tries,    \* transport retries left of this attempt
    resent,   \* the request is the second attempt
    requests, \* requests each thread has begun
    outcome,  \* how its last request ended
    logins,   \* history: when each login was admitted
    replaced, \* history: each replacement of the session, and why
    refused   \* history: the session of the last refusal of the request

NoOne == "noOne"
ASSUME NoOneAssumption == NoOne \notin Threads

dsmVars == <<alive, issued>>
ledgerVars == <<recent, total, logins>>
frameVars == <<sent, used, code, tries, resent, refused>>
vars == <<now, dsmVars, current, holder, ledgerVars, pc, frameVars, requests, outcome,
          replaced>>

Labels == {"idle", "send", "wait", "recover", "probe", "admit", "login"}
Codes == {"none", "session", "forbidden"}
Outcomes == {"none", "ok", "failed", "forbidden", "sessionCode", "capped", "loginFailed"}

Init ==
    /\ now = 0
    /\ alive = {1}
    /\ issued = 1
    /\ current = 1
    /\ holder = NoOne
    /\ recent = << >>
    /\ total = 0
    /\ pc = [t \in Threads |-> "idle"]
    /\ sent = [t \in Threads |-> 0]
    /\ used = [t \in Threads |-> 0]
    /\ code = [t \in Threads |-> "none"]
    /\ tries = [t \in Threads |-> 0]
    /\ resent = [t \in Threads |-> FALSE]
    /\ requests = [t \in Threads |-> 0]
    /\ outcome = [t \in Threads |-> "none"]
    /\ logins = << >>
    /\ replaced = << >>
    /\ refused = [t \in Threads |-> 0]

-----------------------------------------------------------------------------
(* with_session_recovery notes the session before the attempt.             *)
Begin(t) ==
    /\ pc[t] = "idle"
    /\ requests[t] < MaxRequests
    /\ requests' = [requests EXCEPT ![t] = @ + 1]
    /\ sent' = [sent EXCEPT ![t] = current]
    /\ tries' = [tries EXCEPT ![t] = Retries]
    /\ outcome' = [outcome EXCEPT ![t] = "none"]
    /\ pc' = [pc EXCEPT ![t] = "send"]
    /\ UNCHANGED <<now, dsmVars, current, holder, ledgerVars, used, code, resent, refused,
                   replaced>>

(* Each send reads the slot again: an upload for all it carries, a form    *)
(* request for its cookie only, for its retries keep the _sid field of the *)
(* first send.  DSM judges by one of the two.                              *)
Carries(t) == {current} \cup (IF tries[t] < Retries THEN {used[t]} ELSE {})

Send(t) ==
    /\ pc[t] = "send"
    /\ \E s \in Carries(t) : used' = [used EXCEPT ![t] = s]
    /\ pc' = [pc EXCEPT ![t] = "wait"]
    /\ UNCHANGED <<now, dsmVars, current, holder, ledgerVars, sent, code, tries, resent,
                   requests, refused, outcome, replaced>>

(* The request returns, and its locals with it.                            *)
Ends(t, o) ==
    /\ pc' = [pc EXCEPT ![t] = "idle"]
    /\ outcome' = [outcome EXCEPT ![t] = o]
    /\ sent' = [sent EXCEPT ![t] = 0]
    /\ used' = [used EXCEPT ![t] = 0]
    /\ code' = [code EXCEPT ![t] = "none"]
    /\ tries' = [tries EXCEPT ![t] = 0]
    /\ resent' = [resent EXCEPT ![t] = FALSE]
    /\ refused' = [refused EXCEPT ![t] = 0]

(* A retryable transport failure: the same attempt sends again.            *)
RetriesUnlimited(t) == TRUE
RetriesLeft(t) == tries[t] > 0

RetrySend(t) ==
    /\ pc[t] = "wait"
    /\ RetriesLeft(t)
    /\ tries' = [tries EXCEPT ![t] = IF @ = 0 THEN 0 ELSE @ - 1]
    /\ pc' = [pc EXCEPT ![t] = "send"]
    /\ UNCHANGED <<now, dsmVars, current, holder, ledgerVars, sent, used, code, resent,
                   requests, refused, outcome, replaced>>

(* DSM carries the request out, or it fails for a reason of its own.       *)
Answered(t, o) ==
    /\ pc[t] = "wait"
    /\ o = "ok" => used[t] \in alive
    /\ Ends(t, o)
    /\ UNCHANGED <<now, dsmVars, current, holder, ledgerVars, requests, replaced>>

(* DSM refuses the session (106, 107, 119), or answers 105, which it also  *)
(* answers for a path the account may not read.                            *)
Refused(t, c) ==
    /\ pc[t] = "wait"
    /\ c = "session" => used[t] \notin alive
    /\ IF resent[t]
       THEN Ends(t, IF c = "session" THEN "sessionCode" ELSE "forbidden")
       ELSE /\ code' = [code EXCEPT ![t] = c]
            /\ refused' = [refused EXCEPT ![t] = used[t]]
            /\ pc' = [pc EXCEPT ![t] = "recover"]
            /\ UNCHANGED <<sent, used, tries, resent, outcome>>
    /\ UNCHANGED <<now, dsmVars, current, holder, ledgerVars, requests, replaced>>

-----------------------------------------------------------------------------
(* Recovery::Resend.                                                       *)
Resends(t) ==
    /\ resent' = [resent EXCEPT ![t] = TRUE]
    /\ tries' = [tries EXCEPT ![t] = Retries]
    /\ pc' = [pc EXCEPT ![t] = "send"]

(* Under the ledger's lock: a peer has replaced the session, or a 105 is   *)
(* put to the test, or a login is due.                                     *)
LedgerFree == holder = NoOne

ReplacedNever(t) == FALSE
ReplacedByPeer(t) == current # sent[t]

Recover(t) ==
    /\ pc[t] = "recover"
    /\ LedgerFree
    /\ IF ReplacedByPeer(t)
       THEN Resends(t) /\ UNCHANGED holder
       ELSE /\ holder' = t
            /\ pc' = [pc EXCEPT ![t] = IF code[t] = "forbidden" THEN "probe" ELSE "admit"]
            /\ UNCHANGED <<resent, tries>>
    /\ UNCHANGED <<now, dsmVars, current, ledgerVars, sent, used, code, requests, refused,
                   outcome, replaced>>

(* confirm_file_station_session: any failure counts as an expired session, *)
(* a lost answer too.                                                      *)
ProbeConfirms(t) ==
    /\ pc[t] = "probe"
    /\ current \in alive
    /\ holder' = NoOne
    /\ Ends(t, "forbidden")
    /\ UNCHANGED <<now, dsmVars, current, ledgerVars, requests, replaced>>

ProbeFails(t) ==
    /\ pc[t] = "probe"
    /\ pc' = [pc EXCEPT ![t] = "admit"]
    /\ UNCHANGED <<now, dsmVars, current, holder, ledgerVars, frameVars, requests, outcome,
                   replaced>>

(* ReauthenticationLedger.admit.  n entries have left the window.          *)
LeftWindow(n) ==
    /\ \A i \in 1..n : now - recent[i] >= Window
    /\ n < Len(recent) => now - recent[n + 1] < Window

WithinLimits(kept) == Len(kept) < PerWindow /\ total < PerWindow + (now \div Period)

Admit(t) ==
    /\ pc[t] = "admit"
    /\ \E n \in 0..Len(recent) :
          LET kept == SubSeq(recent, n + 1, Len(recent)) IN
          /\ LeftWindow(n)
          /\ IF WithinLimits(kept)
             THEN /\ recent' = Append(kept, now)
                  /\ total' = total + 1
                  /\ logins' = Append(logins, now)
                  /\ pc' = [pc EXCEPT ![t] = "login"]
                  /\ UNCHANGED <<holder, outcome, frameVars>>
             ELSE /\ recent' = kept
                  /\ holder' = NoOne
                  /\ Ends(t, "capped")
                  /\ UNCHANGED <<total, logins>>
    /\ UNCHANGED <<now, dsmVars, current, requests, replaced>>

Replacement(t) == [sid |-> current, dead |-> current \notin alive, code |-> code[t]]

StoreNothing(s) == current' = current
StoreSession(s) == current' = s

Login(t) ==
    /\ pc[t] = "login"
    /\ issued' = issued + 1
    /\ alive' = alive \cup {issued + 1}
    /\ StoreSession(issued + 1)
    /\ replaced' = Append(replaced, Replacement(t))
    /\ holder' = NoOne
    /\ Resends(t)
    /\ UNCHANGED <<now, ledgerVars, sent, used, code, requests, refused, outcome>>

(* A one-time code is required, the password changed, DSM is away.         *)
LoginFails(t) ==
    /\ pc[t] = "login"
    /\ holder' = NoOne
    /\ Ends(t, "loginFailed")
    /\ UNCHANGED <<now, dsmVars, current, ledgerVars, requests, replaced>>

-----------------------------------------------------------------------------
(* DSM's idle timer, a duplicate login or an administrator ends a session. *)
EndSession(s) ==
    /\ s \in alive
    /\ alive' = alive \ {s}
    /\ UNCHANGED <<now, issued, current, holder, ledgerVars, pc, frameVars, requests,
                   outcome, replaced>>

Tick ==
    /\ now < MaxTime
    /\ now' = now + 1
    /\ UNCHANGED <<dsmVars, current, holder, ledgerVars, pc, frameVars, requests, outcome,
                   replaced>>

Over == (\A t \in Threads : pc[t] = "idle" /\ requests[t] = MaxRequests) /\ UNCHANGED vars

Step(t) ==
    \/ Send(t) \/ RetrySend(t)
    \/ \E o \in {"ok", "failed"} : Answered(t, o)
    \/ \E c \in {"session", "forbidden"} : Refused(t, c)
    \/ Recover(t) \/ ProbeConfirms(t) \/ ProbeFails(t)
    \/ Admit(t) \/ Login(t) \/ LoginFails(t)

Next ==
    \/ \E t \in Threads : Begin(t) \/ Step(t)
    \/ \E s \in alive : EndSession(s)
    \/ Tick
    \/ Over

(* Every send has a timeout, so a request goes on; nothing obliges a       *)
(* thread to begin one, DSM to end a session or time to stand still.       *)
Spec == Init /\ [][Next]_vars /\ \A t \in Threads : WF_vars(Step(t))

-----------------------------------------------------------------------------
SharedTypes ==
    /\ now \in Nat /\ issued \in Nat /\ current \in 1..issued
    /\ alive \subseteq 1..issued
    /\ total \in Nat /\ recent \in Seq(Nat) /\ logins \in Seq(Nat)
    /\ replaced \in Seq([sid : Nat, dead : BOOLEAN, code : Codes])
    /\ holder \in Threads \cup {NoOne}

FrameTypes ==
    /\ pc \in [Threads -> Labels]
    /\ sent \in [Threads -> Nat] /\ used \in [Threads -> Nat] /\ refused \in [Threads -> Nat]
    /\ code \in [Threads -> Codes]
    /\ tries \in [Threads -> Nat]
    /\ resent \in [Threads -> BOOLEAN]
    /\ requests \in [Threads -> Nat]
    /\ outcome \in [Threads -> Outcomes]

LockHeld == \A t \in Threads : pc[t] \in {"probe", "admit", "login"} <=> holder = t

(* Every variable keeps its type, and the lock is held by the one thread   *)
(* that is past the comparison.                                            *)
TypeOK == SharedTypes /\ FrameTypes /\ LockHeld

(* No more than PerWindow logins fall into any rolling window: the login   *)
(* PerWindow places after another is at least a window later.              *)
LoginRate ==
    \A i \in 1..Len(logins) :
        i + PerWindow <= Len(logins) => logins[i + PerWindow] - logins[i] >= Window

(* All the logins of a run stay within the allowance its age has earned.   *)
LoginAllowance == Len(logins) <= PerWindow + (now \div Period)

(* A session is replaced at most once, however many threads meet its end   *)
(* together, and only if DSM had ended it: or, for a 105, if the probe of  *)
(* it failed.                                                              *)
OneLoginPerSession ==
    /\ \A i, j \in 1..Len(replaced) : replaced[i].sid = replaced[j].sid => i = j
    /\ \A i \in 1..Len(replaced) : replaced[i].dead \/ replaced[i].code = "forbidden"

(* DSM's session code reaches the caller only of a request whose session   *)
(* was replaced while it ran: one expiry alone never fails a request.      *)
ExpiryIsRecovered ==
    [][\A t \in Threads :
          outcome[t] = "none" /\ outcome'[t] = "sessionCode" => current # sent[t]]_vars

(* However many clones meet the end of a session, at whatever moments: one *)
(* login replaces it, and the logins stay within both limits               *)
(* (recover_session and ReauthenticationLedger, api.rs:1135, 1438).        *)
LoginsHeld == LoginRate /\ LoginAllowance /\ OneLoginPerSession

(* "the rest see that the session they sent with is no longer the current  *)
(* one and simply resend" (recover_session): a request whose session DSM   *)
(* refused is sent again only when the slot holds another session.         *)
ResentUnderAnother ==
    [][\A t \in Threads :
          code[t] = "session" /\ ~resent[t] /\ resent'[t] => current' # refused[t]]_vars

-----------------------------------------------------------------------------
(* The inductive invariant behind LoginRate, LoginAllowance,               *)
(* OneLoginPerSession and ExpiryIsRecovered.  The ledger keeps the last    *)
(* logins; those it has dropped have left the window.                      *)
LedgerInv ==
    /\ total = Len(logins)
    /\ Len(recent) <= PerWindow /\ Len(recent) <= Len(logins)
    /\ \A i \in 1..Len(recent) : recent[i] = logins[Len(logins) - Len(recent) + i]
    /\ \A i \in 1..(Len(logins) - Len(recent)) : now - logins[i] >= Window
    /\ \A i \in 1..Len(logins) : logins[i] <= now

(* A request's sends carry sessions from the one it began under up to the  *)
(* current one, and a thread that is to log in met the current one's end.  *)
Frame(t) ==
    /\ sent[t] <= current
    /\ pc[t] = "idle" => ~resent[t]
    /\ pc[t] = "send" /\ tries[t] < Retries => used[t] \in sent[t]..current
    /\ pc[t] \in {"wait", "recover", "probe", "admit", "login"} => used[t] \in sent[t]..current
    /\ pc[t] \in {"recover", "probe", "admit", "login"} => code[t] # "none"
    /\ pc[t] = "probe" => code[t] = "forbidden"
    /\ pc[t] \in {"recover", "admit", "login"} /\ code[t] = "session" => used[t] \notin alive
    /\ pc[t] \in {"probe", "admit", "login"} => used[t] = current
    /\ resent[t] => sent[t] < current

FrameInv == \A t \in Threads : Frame(t)

SupersededInv == \A i \in 1..Len(replaced) : replaced[i].sid < current

IInv ==
    /\ TypeOK
    /\ LedgerInv
    /\ LoginRate
    /\ LoginAllowance
    /\ FrameInv
    /\ SupersededInv
    /\ OneLoginPerSession

(* Every request ends, although the threads wait for each other's login.   *)
RequestsEnd == \A t \in Threads : pc[t] # "idle" ~> pc[t] = "idle"
=============================================================================
