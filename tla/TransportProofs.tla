-------------------------- MODULE TransportProofs ---------------------------
(***************************************************************************)
(* Proofs about what the clones of one client share: the DSM session, for  *)
(* any number of threads and any ledger limits; an upload, for any number  *)
(* of retries and of edits; and the rate limit, for any number of uploads, *)
(* any rate and any grain of time.                                         *)
(***************************************************************************)
EXTENDS Session, UploadTransfer, SequenceTheorems, TLAPS

(***************************************************************************)
(* The session.  IInv is inductive: one lemma per action shows that a step *)
(* of it keeps the invariant.                                              *)
(***************************************************************************)
(* The initial state satisfies the invariant: no login yet, one session.   *)
LEMMA InitIInv == Init => IInv
<1> SUFFICES ASSUME Init PROVE IInv
  OBVIOUS
<1>1. SharedTypes
  BY DEF Init, SharedTypes
<1>2. FrameTypes
  BY DEF Init, FrameTypes, Labels, Codes, Outcomes
<1>3. LockHeld
  BY NoOneAssumption DEF Init, LockHeld
<1>4. LedgerInv /\ LoginRate
  BY PerWindowAssumption DEF Init, LedgerInv, LoginRate
<1>5. FrameInv
  <2>1. ASSUME NEW t \in Threads
        PROVE  sent[t] <= current /\ pc[t] = "idle" /\ ~resent[t]
    BY DEF Init
  <2>2. ASSUME NEW t \in Threads
        PROVE  pc[t] \notin {"wait", "recover", "probe", "admit", "login"}
    BY <2>1
  <2> QED
    BY <2>1, <2>2, Zenon DEF FrameInv, Frame
<1>6. SupersededInv /\ OneLoginPerSession
  BY DEF Init, SupersededInv, OneLoginPerSession
<1>7. LoginAllowance
  <2>1. 0 \div Period = 0
    BY PeriodAssumption
  <2> QED
    BY <2>1, PerWindowAssumption DEF Init, LoginAllowance
<1> QED
  BY <1>1, <1>2, <1>3, <1>4, <1>5, <1>6, <1>7 DEF IInv, TypeOK

(* A step that leaves the clock and the ledger alone keeps what is said of *)
(* them.                                                                   *)
LEMMA LedgerKept ==
    ASSUME IInv, UNCHANGED <<now, ledgerVars>>
    PROVE  LedgerInv' /\ LoginRate' /\ LoginAllowance'
  BY DEF IInv, LedgerInv, LoginRate, LoginAllowance, ledgerVars

(* A step that replaces no session keeps what is said of replacements.     *)
LEMMA ReplacedKept ==
    ASSUME IInv, UNCHANGED <<current, replaced>>
    PROVE  SupersededInv' /\ OneLoginPerSession'
  BY DEF IInv, SupersededInv, OneLoginPerSession

(* Begin notes the current session.                                        *)
LEMMA BeginStep ==
    ASSUME IInv, NEW t \in Threads, Begin(t)
    PROVE  IInv'
<1>0. SharedTypes /\ FrameTypes /\ LockHeld /\ FrameInv
  BY DEF IInv, TypeOK
<1>1. SharedTypes'
  BY <1>0 DEF SharedTypes, Begin, dsmVars, ledgerVars
<1>2. FrameTypes'
  BY <1>0, RetriesAssumption DEF SharedTypes, FrameTypes, Begin, Labels, Outcomes
<1>3. LockHeld'
  BY <1>0, NoOneAssumption DEF SharedTypes, FrameTypes, LockHeld, Begin
<1>4. FrameInv'
  <2>1. Frame(t)'
    BY <1>0, RetriesAssumption
       DEF SharedTypes, FrameTypes, LockHeld, FrameInv, Frame, Begin, dsmVars
  <2>2. ASSUME NEW u \in Threads, u # t PROVE Frame(u)'
    BY <2>2, <1>0, RetriesAssumption
       DEF SharedTypes, FrameTypes, LockHeld, FrameInv, Frame, Begin, dsmVars
  <2> QED
    BY <2>1, <2>2 DEF FrameInv
<1> QED
  BY <1>1, <1>2, <1>3, <1>4, LedgerKept, ReplacedKept DEF IInv, TypeOK, Begin

(* A send carries the current session, or that of the attempt's first send.*)
LEMMA SendStep ==
    ASSUME IInv, NEW t \in Threads, Send(t)
    PROVE  IInv'
<1>0. SharedTypes /\ FrameTypes /\ LockHeld /\ FrameInv
  BY DEF IInv, TypeOK
<1>1. PICK s \in Carries(t) : used' = [used EXCEPT ![t] = s]
  BY DEF Send
<1>2. s \in Nat /\ s \in sent[t]..current
  <2>1. current \in Nat /\ sent[t] \in Nat /\ used[t] \in Nat /\ sent[t] <= current
    BY <1>0 DEF SharedTypes, FrameTypes, FrameInv, Frame
  <2>2. CASE s = current
    BY <2>1, <2>2
  <2>3. CASE tries[t] < Retries /\ s = used[t]
    BY <1>0, <2>1, <2>3 DEF FrameInv, Frame, Send
  <2> QED
    BY <1>1, <2>2, <2>3 DEF Carries
<1>3. SharedTypes'
  BY <1>0 DEF SharedTypes, Send, dsmVars, ledgerVars
<1>4. FrameTypes'
  BY <1>0, <1>1, <1>2 DEF FrameTypes, Send, Labels
<1>5. LockHeld'
  BY <1>0 DEF FrameTypes, LockHeld, Send
<1>6. FrameInv'
  <2>1. Frame(t)'
    BY <1>0, <1>1, <1>2 DEF FrameTypes, FrameInv, Frame, Send, dsmVars
  <2>2. ASSUME NEW u \in Threads, u # t PROVE Frame(u)'
    BY <2>2, <1>0, <1>1, <1>2 DEF FrameTypes, FrameInv, Frame, Send, dsmVars
  <2> QED
    BY <2>1, <2>2 DEF FrameInv
<1> QED
  BY <1>3, <1>4, <1>5, <1>6, LedgerKept, ReplacedKept DEF IInv, TypeOK, Send

(* A retry goes back to the send.                                          *)
LEMMA RetrySendStep ==
    ASSUME IInv, NEW t \in Threads, RetrySend(t)
    PROVE  IInv'
<1>0. SharedTypes /\ FrameTypes /\ LockHeld /\ FrameInv
  BY DEF IInv, TypeOK
<1>1. SharedTypes'
  BY <1>0 DEF SharedTypes, RetrySend, dsmVars, ledgerVars
<1>2. FrameTypes'
  <2>1. tries' \in [Threads -> Nat]
    BY <1>0 DEF FrameTypes, RetrySend
  <2> QED
    BY <1>0, <2>1 DEF FrameTypes, RetrySend, Labels
<1>3. LockHeld'
  BY <1>0, NoOneAssumption DEF SharedTypes, FrameTypes, LockHeld, RetrySend
<1>4. FrameInv'
  <2>1. Frame(t)'
    BY <1>0 DEF SharedTypes, FrameTypes, LockHeld, FrameInv, Frame, RetrySend, dsmVars
  <2>2. ASSUME NEW u \in Threads, u # t PROVE Frame(u)'
    BY <2>2, <1>0 DEF SharedTypes, FrameTypes, LockHeld, FrameInv, Frame, RetrySend, dsmVars
  <2> QED
    BY <2>1, <2>2 DEF FrameInv
<1> QED
  BY <1>1, <1>2, <1>3, <1>4, LedgerKept, ReplacedKept DEF IInv, TypeOK, RetrySend

(* A request that returns leaves an empty frame.                           *)
LEMMA AnsweredStep ==
    ASSUME IInv, NEW t \in Threads, NEW o \in {"ok", "failed"}, Answered(t, o)
    PROVE  IInv'
<1>0. SharedTypes /\ FrameTypes /\ LockHeld /\ FrameInv
  BY DEF IInv, TypeOK
<1>1. SharedTypes'
  BY <1>0 DEF SharedTypes, Answered, dsmVars, ledgerVars
<1>2. FrameTypes'
  BY <1>0 DEF SharedTypes, FrameTypes, Answered, Ends, Labels, Codes, Outcomes
<1>3. LockHeld'
  BY <1>0, NoOneAssumption DEF SharedTypes, FrameTypes, LockHeld, Answered, Ends
<1>4. FrameInv'
  <2>1. Frame(t)'
    BY <1>0 DEF SharedTypes, FrameTypes, LockHeld, FrameInv, Frame, Answered, Ends, dsmVars
  <2>2. ASSUME NEW u \in Threads, u # t PROVE Frame(u)'
    BY <2>2, <1>0
       DEF SharedTypes, FrameTypes, LockHeld, FrameInv, Frame, Answered, Ends, dsmVars
  <2> QED
    BY <2>1, <2>2 DEF FrameInv
<1> QED
  BY <1>1, <1>2, <1>3, <1>4, LedgerKept, ReplacedKept DEF IInv, TypeOK, Answered

(* A refusal of the session is of one DSM no longer honours.               *)
LEMMA RefusedStep ==
    ASSUME IInv, NEW t \in Threads, NEW c \in {"session", "forbidden"}, Refused(t, c)
    PROVE  IInv'
<1>0. SharedTypes /\ FrameTypes /\ LockHeld /\ FrameInv
  BY DEF IInv, TypeOK
<1>1. SharedTypes'
  BY <1>0 DEF SharedTypes, Refused, dsmVars, ledgerVars
<1>2. FrameTypes' /\ LockHeld' /\ FrameInv'
  <2>1. CASE resent[t]
    <3> DEFINE o == IF c = "session" THEN "sessionCode" ELSE "forbidden"
    <3>1. pc[t] = "wait" /\ Ends(t, o) /\ UNCHANGED <<alive, current, holder, requests>>
      BY <2>1 DEF Refused, dsmVars
    <3>2. o \in Outcomes
      BY DEF Outcomes
    <3> HIDE DEF o
    <3>3. FrameTypes'
      BY <1>0, <3>1, <3>2 DEF FrameTypes, Ends, Labels, Codes
    <3>4. LockHeld'
      BY <1>0, <3>1 DEF FrameTypes, LockHeld, Ends
    <3>5. FrameInv'
      <4>1. Frame(t)'
        BY <1>0, <3>1 DEF SharedTypes, FrameTypes, FrameInv, Frame, Ends
      <4>2. ASSUME NEW u \in Threads, u # t PROVE Frame(u)'
        BY <4>2, <1>0, <3>1 DEF SharedTypes, FrameTypes, FrameInv, Frame, Ends
      <4> QED
        BY <4>1, <4>2 DEF FrameInv
    <3> QED
      BY <3>3, <3>4, <3>5
  <2>2. CASE ~resent[t]
    <3>1. FrameTypes'
      BY <1>0, <2>2 DEF FrameTypes, Refused, Labels, Codes
    <3>2. LockHeld'
      BY <1>0, <2>2 DEF FrameTypes, LockHeld, Refused
    <3>3. FrameInv'
      <4>1. Frame(t)'
        BY <1>0, <2>2 DEF SharedTypes, FrameTypes, FrameInv, Frame, Refused, dsmVars
      <4>2. ASSUME NEW u \in Threads, u # t PROVE Frame(u)'
        BY <4>2, <1>0, <2>2 DEF SharedTypes, FrameTypes, FrameInv, Frame, Refused, dsmVars
      <4> QED
        BY <4>1, <4>2 DEF FrameInv
    <3> QED
      BY <3>1, <3>2, <3>3
  <2> QED
    BY <2>1, <2>2
<1> QED
  BY <1>1, <1>2, LedgerKept, ReplacedKept DEF IInv, TypeOK, Refused

(* Under the lock, a thread that sees no newer session met the end of the  *)
(* current one, for its sends lie between the two.                         *)
LEMMA RecoverStep ==
    ASSUME IInv, NEW t \in Threads, Recover(t)
    PROVE  IInv'
<1>0. SharedTypes /\ FrameTypes /\ LockHeld /\ FrameInv
  BY DEF IInv, TypeOK
<1>1. SharedTypes'
  BY <1>0 DEF SharedTypes, Recover, dsmVars, ledgerVars
<1>2. FrameTypes' /\ LockHeld' /\ FrameInv'
  <2>1. CASE ReplacedByPeer(t)
    <3>1. FrameTypes'
      BY <1>0, <2>1, RetriesAssumption DEF FrameTypes, Recover, Resends, Labels
    <3>2. LockHeld'
      BY <1>0, <2>1 DEF FrameTypes, LockHeld, Recover, Resends
    <3>3. sent[t] < current
      BY <1>0, <2>1 DEF SharedTypes, FrameTypes, FrameInv, Frame, ReplacedByPeer
    <3>4. FrameInv'
      <4>1. Frame(t)'
        BY <1>0, <2>1, <3>3 DEF FrameTypes, FrameInv, Frame, Recover, Resends, dsmVars
      <4>2. ASSUME NEW u \in Threads, u # t PROVE Frame(u)'
        BY <4>2, <1>0, <2>1, <3>3 DEF FrameTypes, FrameInv, Frame, Recover, Resends, dsmVars
      <4> QED
        BY <4>1, <4>2 DEF FrameInv
    <3> QED
      BY <3>1, <3>2, <3>4
  <2>2. CASE ~ReplacedByPeer(t)
    <3>1. FrameTypes'
      BY <1>0, <2>2 DEF FrameTypes, Recover, Labels
    <3>2. LockHeld'
      BY <1>0, <2>2, NoOneAssumption DEF FrameTypes, LockHeld, Recover, LedgerFree
    <3>3. used[t] = current
      BY <1>0, <2>2 DEF SharedTypes, FrameTypes, FrameInv, Frame, Recover, ReplacedByPeer
    <3>4. FrameInv'
      <4>1. Frame(t)'
        BY <1>0, <2>2, <3>3 DEF SharedTypes, FrameTypes, FrameInv, Frame, Recover, dsmVars
      <4>2. ASSUME NEW u \in Threads, u # t PROVE Frame(u)'
        BY <4>2, <1>0, <2>2, <3>3
           DEF SharedTypes, FrameTypes, FrameInv, Frame, Recover, dsmVars
      <4> QED
        BY <4>1, <4>2 DEF FrameInv
    <3> QED
      BY <3>1, <3>2, <3>4
  <2> QED
    BY <2>1, <2>2
<1> QED
  BY <1>1, <1>2, LedgerKept, ReplacedKept DEF IInv, TypeOK, Recover

(* A confirmed session ends the request and frees the lock.                *)
LEMMA ProbeConfirmsStep ==
    ASSUME IInv, NEW t \in Threads, ProbeConfirms(t)
    PROVE  IInv'
<1>0. SharedTypes /\ FrameTypes /\ LockHeld /\ FrameInv
  BY DEF IInv, TypeOK
<1>1. SharedTypes'
  BY <1>0 DEF SharedTypes, ProbeConfirms, dsmVars, ledgerVars
<1>2. FrameTypes'
  BY <1>0 DEF SharedTypes, FrameTypes, ProbeConfirms, Ends, Labels, Codes, Outcomes
<1>3. LockHeld'
  BY <1>0, NoOneAssumption DEF SharedTypes, FrameTypes, LockHeld, ProbeConfirms, Ends
<1>4. FrameInv'
  <2>1. Frame(t)'
    BY <1>0
       DEF SharedTypes, FrameTypes, LockHeld, FrameInv, Frame, ProbeConfirms, Ends, dsmVars
  <2>2. ASSUME NEW u \in Threads, u # t PROVE Frame(u)'
    BY <2>2, <1>0
       DEF SharedTypes, FrameTypes, LockHeld, FrameInv, Frame, ProbeConfirms, Ends, dsmVars
  <2> QED
    BY <2>1, <2>2 DEF FrameInv
<1> QED
  BY <1>1, <1>2, <1>3, <1>4, LedgerKept, ReplacedKept DEF IInv, TypeOK, ProbeConfirms

(* A failed probe keeps the lock.                                          *)
LEMMA ProbeFailsStep ==
    ASSUME IInv, NEW t \in Threads, ProbeFails(t)
    PROVE  IInv'
<1>0. SharedTypes /\ FrameTypes /\ LockHeld /\ FrameInv
  BY DEF IInv, TypeOK
<1>1. SharedTypes'
  BY <1>0 DEF SharedTypes, ProbeFails, dsmVars, ledgerVars
<1>2. FrameTypes'
  BY <1>0 DEF SharedTypes, FrameTypes, ProbeFails, frameVars, Labels
<1>3. LockHeld'
  BY <1>0, NoOneAssumption DEF SharedTypes, FrameTypes, LockHeld, ProbeFails
<1>4. FrameInv'
  <2>1. Frame(t)'
    BY <1>0
       DEF SharedTypes, FrameTypes, LockHeld, FrameInv, Frame, ProbeFails, frameVars, dsmVars
  <2>2. ASSUME NEW u \in Threads, u # t PROVE Frame(u)'
    BY <2>2, <1>0
       DEF SharedTypes, FrameTypes, LockHeld, FrameInv, Frame, ProbeFails, frameVars, dsmVars
  <2> QED
    BY <2>1, <2>2 DEF FrameInv
<1> QED
  BY <1>1, <1>2, <1>3, <1>4, LedgerKept, ReplacedKept DEF IInv, TypeOK, ProbeFails

(* What is left of a sequence when its first n entries are dropped.         *)
LEMMA Suffix ==
    ASSUME NEW r \in Seq(Nat), NEW n \in 0..Len(r), NEW k, k = SubSeq(r, n + 1, Len(r))
    PROVE  /\ k \in Seq(Nat)
           /\ Len(k) = Len(r) - n
           /\ \A i \in 1..(Len(r) - n) : k[i] = r[n + i]
<1>1. Len(r) \in Nat /\ n \in Nat /\ n <= Len(r)
  OBVIOUS
<1>2. \A i \in (n + 1)..Len(r) : r[i] \in Nat
  BY <1>1
<1>3. n + 1 \in Int /\ Len(r) \in Int
  BY <1>1
<1>4. /\ SubSeq(r, n + 1, Len(r)) \in Seq(Nat)
      /\ Len(SubSeq(r, n + 1, Len(r))) = IF n + 1 <= Len(r) THEN Len(r) - (n + 1) + 1 ELSE 0
      /\ \A i \in 1 .. Len(r) - (n + 1) + 1 : SubSeq(r, n + 1, Len(r))[i] = r[(n + 1) + i - 1]
  BY <1>2, <1>3, SubSeqProperties
<1>5. Len(r) - (n + 1) + 1 = Len(r) - n
  BY <1>1
<1>6. \A i \in 1..(Len(r) - n) : (n + 1) + i - 1 = n + i
  BY <1>1
<1>7. (IF n + 1 <= Len(r) THEN Len(r) - (n + 1) + 1 ELSE 0) = Len(r) - n
  BY <1>1
<1> QED
  BY <1>4, <1>5, <1>6, <1>7

(* Positions in the ledger and in the history of logins: r and l are their *)
(* lengths, k what is left of the ledger after n entries are dropped.      *)
LEMMA Positions ==
    ASSUME NEW r \in Nat, NEW l \in Nat, r <= l, NEW n \in 0..r, NEW k, k = r - n
    PROVE  /\ k \in Nat
           /\ \A i \in 1..k : /\ i \in 1..(r - n) /\ n + i \in 1..r
                              /\ l - k + i \in 1..l
                              /\ l - k + i = l - r + (n + i)
                              /\ (l + 1) - (k + 1) + i = l - k + i
           /\ (l + 1) - (k + 1) + (k + 1) = l + 1
           /\ \A i \in 1..(k + 1) : i = k + 1 \/ i \in 1..k
  OBVIOUS

(* The ledger's facts one by one, as the provers use them: its types, ...  *)
LEMMA LedgerTypes ==
    ASSUME IInv
    PROVE  recent \in Seq(Nat) /\ logins \in Seq(Nat) /\ now \in Nat /\ total \in Nat
  BY DEF IInv, TypeOK, SharedTypes

(* ... its sizes, ...                                                       *)
LEMMA LedgerSizes ==
    ASSUME IInv
    PROVE  /\ now \in Nat /\ total \in Nat /\ Len(recent) \in Nat /\ Len(logins) \in Nat
           /\ total = Len(logins) /\ Len(recent) <= PerWindow /\ Len(recent) <= Len(logins)
  BY LedgerTypes DEF IInv, LedgerInv

(* ... that it holds the last logins, ...                                  *)
LEMMA LedgerIsSuffix ==
    ASSUME IInv, NEW i \in 1..Len(recent)
    PROVE  recent[i] = logins[Len(logins) - Len(recent) + i]
  BY DEF IInv, LedgerInv

(* ... that those it dropped have left the window, ...                     *)
LEMMA LedgerDropped ==
    ASSUME IInv, NEW i \in 1..(Len(logins) - Len(recent))
    PROVE  now - logins[i] >= Window
  BY DEF IInv, LedgerInv

(* ... and that no login is in the future.                                 *)
LEMMA LedgerPast ==
    ASSUME IInv, NEW i \in 1..Len(logins)
    PROVE  logins[i] \in Nat /\ logins[i] <= now
<1>1. logins \in Seq(Nat)
  BY LedgerTypes
<1> QED
  BY <1>1 DEF IInv, LedgerInv

(* Pruning drops only logins that have left the window.                    *)
LEMMA DroppedHaveLeft ==
    ASSUME IInv, NEW n \in 0..Len(recent), LeftWindow(n),
           NEW i \in 1..(Len(logins) - (Len(recent) - n))
    PROVE  now - logins[i] >= Window
<1>1. CASE i <= Len(logins) - Len(recent)
  <2>1. i \in 1..(Len(logins) - Len(recent))
    BY <1>1, LedgerSizes
  <2> QED
    BY <2>1, LedgerDropped
<1>2. CASE i > Len(logins) - Len(recent)
  <2> DEFINE k == i - (Len(logins) - Len(recent))
  <2>1. k \in 1..n /\ k \in 1..Len(recent) /\ i = Len(logins) - Len(recent) + k
    BY <1>2, LedgerSizes
  <2> HIDE DEF k
  <2>2. recent[k] = logins[i]
    BY <2>1, LedgerIsSuffix
  <2> QED
    BY <2>1, <2>2 DEF LeftWindow
<1> QED
  BY <1>1, <1>2, LedgerSizes

(* The two outcomes of ReauthenticationLedger.admit, as hypotheses.        *)
Prunes(n) ==
    /\ LeftWindow(n)
    /\ recent' = SubSeq(recent, n + 1, Len(recent))
    /\ UNCHANGED <<now, total, logins>>

Records(n, kept) ==
    /\ LeftWindow(n)
    /\ kept = SubSeq(recent, n + 1, Len(recent))
    /\ WithinLimits(kept)
    /\ recent' = Append(kept, now)
    /\ total' = total + 1
    /\ logins' = Append(logins, now)
    /\ now' = now

(* A refused admission only prunes: what it drops has left the window.     *)
LEMMA PruneLedger ==
    ASSUME IInv, NEW n \in 0..Len(recent), Prunes(n)
    PROVE  recent' \in Seq(Nat) /\ LedgerInv' /\ LoginRate' /\ LoginAllowance'
<1>1. recent' \in Seq(Nat) /\ Len(recent') = Len(recent) - n
      /\ \A i \in 1..(Len(recent) - n) : recent'[i] = recent[n + i]
  BY LedgerTypes, Suffix DEF Prunes
<1>2. LedgerInv'
  <2>1. ASSUME NEW i \in 1..Len(recent')
        PROVE  recent'[i] = logins[Len(logins) - Len(recent') + i]
    <3>1. /\ i \in 1..(Len(recent) - n) /\ n + i \in 1..Len(recent)
          /\ Len(logins) - Len(recent') + i = Len(logins) - Len(recent) + (n + i)
      <4>1. Len(recent') = Len(recent) - n
        BY <1>1
      <4> QED
        BY <4>1, LedgerSizes, Positions
    <3>2. recent'[i] = recent[n + i]
      BY <1>1, <3>1
    <3>3. recent[n + i] = logins[Len(logins) - Len(recent) + (n + i)]
      BY <3>1, LedgerIsSuffix
    <3> QED
      BY <3>1, <3>2, <3>3
  <2>2. ASSUME NEW i \in 1..(Len(logins) - Len(recent'))
        PROVE  now - logins[i] >= Window
    BY <1>1, DroppedHaveLeft DEF Prunes
  <2>3. Len(recent') <= PerWindow /\ Len(recent') <= Len(logins)
    <3>1. Len(recent') = Len(recent) - n
      BY <1>1
    <3> QED
      BY <3>1, LedgerSizes, PerWindowAssumption
  <2> QED
    BY <2>1, <2>2, <2>3, LedgerSizes, LedgerPast DEF LedgerInv, Prunes
<1>3. LoginRate' /\ LoginAllowance'
  BY DEF IInv, LoginRate, LoginAllowance, Prunes
<1> QED
  BY <1>1, <1>2, <1>3

(* An admitted login joins a window with room for it, and stays within the *)
(* allowance.                                                              *)
LEMMA AdmitLedger ==
    ASSUME IInv, NEW n \in 0..Len(recent), NEW kept, Records(n, kept)
    PROVE  /\ recent' \in Seq(Nat) /\ logins' \in Seq(Nat) /\ total' \in Nat
           /\ LedgerInv' /\ LoginRate' /\ LoginAllowance'
<1>1. kept \in Seq(Nat) /\ Len(kept) = Len(recent) - n
      /\ \A i \in 1..(Len(recent) - n) : kept[i] = recent[n + i]
  BY LedgerTypes, Suffix DEF Records
<1>2. recent' \in Seq(Nat) /\ Len(recent') = Len(kept) + 1 /\ recent'[Len(kept) + 1] = now
      /\ \A i \in 1..Len(kept) : recent'[i] = kept[i]
  <2>1. kept \in Seq(Nat) /\ now \in Nat
    BY <1>1, LedgerTypes
  <2>2. recent' = Append(kept, now)
    BY DEF Records
  <2> QED
    BY <2>1, <2>2, AppendProperties
<1>3. logins' \in Seq(Nat) /\ Len(logins') = Len(logins) + 1 /\ logins'[Len(logins) + 1] = now
      /\ \A i \in 1..Len(logins) : logins'[i] = logins[i]
  <2>1. logins' = Append(logins, now) /\ logins \in Seq(Nat) /\ now \in Nat
    BY LedgerTypes DEF Records
  <2> QED
    BY <2>1, AppendProperties
<1>4. Len(kept) < PerWindow /\ total < PerWindow + (now \div Period)
  BY DEF WithinLimits, Records
<1>5. Len(kept) \in Nat /\ Len(kept) = Len(recent) - n
  BY <1>1
<1>6. Len(recent') = Len(kept) + 1 /\ Len(logins') = Len(logins) + 1
  BY <1>2, <1>3
<1>7. LedgerInv'
  <2>1. ASSUME NEW i \in 1..Len(recent')
        PROVE  recent'[i] = logins'[Len(logins') - Len(recent') + i]
    <3> DEFINE l == Len(logins)
               k == Len(kept)
    <3>1. i \in 1..(k + 1) /\ Len(logins') - Len(recent') + i = (l + 1) - (k + 1) + i
      BY <1>6
    <3>2. i = k + 1 \/ i \in 1..k
      BY <1>5, <3>1, LedgerSizes, Positions
    <3>3. CASE i = k + 1
      <4>1. (l + 1) - (k + 1) + i = l + 1
        BY <1>5, <3>3, LedgerSizes, Positions
      <4> QED
        BY <1>2, <1>3, <3>1, <3>3, <4>1
    <3>4. CASE i \in 1..k
      <4>1. /\ i \in 1..(Len(recent) - n) /\ n + i \in 1..Len(recent) /\ l - k + i \in 1..l
            /\ l - k + i = l - Len(recent) + (n + i) /\ (l + 1) - (k + 1) + i = l - k + i
        BY <1>5, <3>4, LedgerSizes, Positions
      <4>2. recent'[i] = recent[n + i]
        BY <1>1, <1>2, <3>4, <4>1
      <4>3. recent[n + i] = logins[l - k + i]
        BY <4>1, LedgerIsSuffix
      <4>4. logins'[l - k + i] = logins[l - k + i]
        BY <1>3, <4>1
      <4> QED
        BY <3>1, <4>1, <4>2, <4>3, <4>4
    <3> QED
      BY <3>2, <3>3, <3>4
  <2>2. ASSUME NEW i \in 1..(Len(logins') - Len(recent'))
        PROVE  now' - logins'[i] >= Window
    <3>1. i \in 1..(Len(logins) - (Len(recent) - n)) /\ i \in 1..Len(logins)
      BY <1>5, <1>6, LedgerSizes
    <3>2. logins'[i] = logins[i]
      BY <1>3, <3>1
    <3> QED
      BY <3>1, <3>2, DroppedHaveLeft DEF Records
  <2>3. ASSUME NEW i \in 1..Len(logins')
        PROVE  logins'[i] <= now'
    <3>1. i \in 1..Len(logins) \/ i = Len(logins) + 1
      BY <1>6, LedgerSizes
    <3> QED
      BY <1>3, <3>1, LedgerPast, LedgerSizes DEF Records
  <2>4. total' = Len(logins') /\ Len(recent') <= PerWindow /\ Len(recent') <= Len(logins')
    BY <1>4, <1>5, <1>6, LedgerSizes, PerWindowAssumption DEF Records
  <2> QED
    BY <2>1, <2>2, <2>3, <2>4 DEF LedgerInv
<1>8. LoginRate'
  <2> SUFFICES ASSUME NEW i \in 1..Len(logins'), i + PerWindow <= Len(logins')
               PROVE  logins'[i + PerWindow] - logins'[i] >= Window
    BY DEF LoginRate
  <2>1. i \in 1..Len(logins)
    BY <1>6, LedgerSizes, PerWindowAssumption
  <2>2. CASE i + PerWindow = Len(logins) + 1
    <3>1. i \in 1..(Len(logins) - (Len(recent) - n))
      BY <1>4, <1>5, <2>1, <2>2, LedgerSizes, PerWindowAssumption
    <3>2. logins'[i] = logins[i] /\ logins'[i + PerWindow] = now
      BY <1>3, <2>1, <2>2
    <3>3. now - logins[i] >= Window
      BY <3>1, DroppedHaveLeft DEF Records
    <3> QED
      BY <3>2, <3>3
  <2>3. CASE i + PerWindow # Len(logins) + 1
    <3>1. i + PerWindow \in 1..Len(logins) /\ i + PerWindow <= Len(logins)
      BY <1>6, <2>1, <2>3, LedgerSizes, PerWindowAssumption
    <3>2. logins[i + PerWindow] - logins[i] >= Window
      BY <2>1, <3>1 DEF IInv, LoginRate
    <3>3. logins'[i] = logins[i] /\ logins'[i + PerWindow] = logins[i + PerWindow]
      BY <1>3, <2>1, <3>1
    <3> QED
      BY <3>2, <3>3
  <2> QED
    BY <2>2, <2>3
<1>9. LoginAllowance'
  <2>1. now \div Period \in Int
    BY LedgerSizes, PeriodAssumption
  <2>2. Len(logins') <= PerWindow + (now \div Period)
    BY <1>4, <1>6, <2>1, LedgerSizes, PerWindowAssumption
  <2> QED
    BY <2>2 DEF LoginAllowance, Records
<1>10. total' \in Nat
  <2>1. total' = total + 1 /\ total \in Nat
    BY LedgerSizes DEF Records
  <2> QED
    BY <2>1
<1> QED
  BY <1>2, <1>3, <1>7, <1>8, <1>9, <1>10

(* The ledger admits or refuses under the lock.                            *)
LEMMA AdmitStep ==
    ASSUME IInv, NEW t \in Threads, Admit(t)
    PROVE  IInv'
<1> DEFINE Kept(n) == SubSeq(recent, n + 1, Len(recent))
<1>0. SharedTypes /\ FrameTypes /\ LockHeld /\ FrameInv
  BY DEF IInv, TypeOK
<1>1. PICK n \in 0..Len(recent) :
         /\ LeftWindow(n)
         /\ IF WithinLimits(Kept(n))
            THEN /\ recent' = Append(Kept(n), now)
                 /\ total' = total + 1
                 /\ logins' = Append(logins, now)
                 /\ pc' = [pc EXCEPT ![t] = "login"]
                 /\ UNCHANGED <<holder, outcome, frameVars>>
            ELSE /\ recent' = Kept(n)
                 /\ holder' = NoOne
                 /\ Ends(t, "capped")
                 /\ UNCHANGED <<total, logins>>
  BY DEF Admit
<1>2. pc[t] = "admit" /\ UNCHANGED <<now, alive, issued, current, requests, replaced>>
  BY DEF Admit, dsmVars
<1>3. CASE WithinLimits(Kept(n))
  <2>1. /\ recent' \in Seq(Nat) /\ logins' \in Seq(Nat) /\ total' \in Nat
        /\ LedgerInv' /\ LoginRate' /\ LoginAllowance'
    BY <1>1, <1>2, <1>3, AdmitLedger DEF Records
  <2>2. pc' = [pc EXCEPT ![t] = "login"] /\ UNCHANGED <<holder, outcome, frameVars>>
    BY <1>1, <1>3
  <2>3. SharedTypes'
    BY <1>0, <1>2, <2>1, <2>2 DEF SharedTypes
  <2>4. FrameTypes'
    BY <1>0, <1>2, <2>2 DEF FrameTypes, frameVars, Labels
  <2>5. LockHeld'
    BY <1>0, <1>2, <2>2 DEF FrameTypes, LockHeld
  <2>6. FrameInv'
    <3>1. Frame(t)'
      BY <1>0, <1>2, <2>2 DEF SharedTypes, FrameTypes, FrameInv, Frame, frameVars
    <3>2. ASSUME NEW u \in Threads, u # t PROVE Frame(u)'
      BY <3>2, <1>0, <1>2, <2>2 DEF SharedTypes, FrameTypes, FrameInv, Frame, frameVars
    <3> QED
      BY <3>1, <3>2 DEF FrameInv
  <2> QED
    BY <1>2, <2>1, <2>3, <2>4, <2>5, <2>6, ReplacedKept DEF IInv, TypeOK
<1>4. CASE ~WithinLimits(Kept(n))
  <2>1. /\ recent' \in Seq(Nat) /\ UNCHANGED <<total, logins>>
        /\ LedgerInv' /\ LoginRate' /\ LoginAllowance'
    BY <1>1, <1>2, <1>4, PruneLedger DEF Prunes
  <2>2. holder' = NoOne /\ Ends(t, "capped")
    BY <1>1, <1>4
  <2>3. SharedTypes'
    BY <1>0, <1>2, <2>1, <2>2 DEF SharedTypes
  <2>4. FrameTypes'
    BY <1>0, <1>2, <2>2 DEF FrameTypes, Ends, Labels, Codes, Outcomes
  <2>5. LockHeld'
    BY <1>0, <1>2, <2>2, NoOneAssumption DEF FrameTypes, LockHeld, Ends
  <2>6. FrameInv'
    <3>1. Frame(t)'
      BY <1>0, <1>2, <2>2 DEF SharedTypes, FrameTypes, FrameInv, Frame, Ends
    <3>2. ASSUME NEW u \in Threads, u # t PROVE Frame(u)'
      BY <3>2, <1>0, <1>2, <2>2 DEF SharedTypes, FrameTypes, FrameInv, Frame, Ends
    <3> QED
      BY <3>1, <3>2 DEF FrameInv
  <2> QED
    BY <1>2, <2>1, <2>3, <2>4, <2>5, <2>6, ReplacedKept DEF IInv, TypeOK
<1> QED
  BY <1>3, <1>4

(* A login replaces the current session, which no earlier login replaced,  *)
(* for the thread that met its end: no other is past the comparison.       *)
LEMMA LoginStep ==
    ASSUME IInv, NEW t \in Threads, Login(t)
    PROVE  IInv'
<1>0. SharedTypes /\ FrameTypes /\ LockHeld /\ FrameInv
  BY DEF IInv, TypeOK
<1>1. /\ pc[t] = "login" /\ holder = t /\ used[t] = current
      /\ code[t] \in {"session", "forbidden"}
      /\ code[t] = "session" => current \notin alive
  BY <1>0 DEF FrameTypes, LockHeld, FrameInv, Frame, Login, Codes
<1>2. /\ replaced' \in Seq([sid : Nat, dead : BOOLEAN, code : Codes])
      /\ Len(replaced') = Len(replaced) + 1
      /\ \A i \in 1..Len(replaced) : replaced'[i] = replaced[i]
      /\ replaced'[Len(replaced) + 1] = Replacement(t)
  <2>1. Replacement(t) \in [sid : Nat, dead : BOOLEAN, code : Codes]
    BY <1>0 DEF SharedTypes, FrameTypes, Replacement
  <2>2. replaced \in Seq([sid : Nat, dead : BOOLEAN, code : Codes])
        /\ replaced' = Append(replaced, Replacement(t))
    BY <1>0 DEF SharedTypes, Login
  <2> QED
    BY <2>1, <2>2, AppendProperties
<1>3. SharedTypes'
  BY <1>0, <1>2 DEF SharedTypes, Login, StoreSession, ledgerVars
<1>4. FrameTypes'
  BY <1>0, RetriesAssumption DEF FrameTypes, Login, Resends, Labels
<1>5. LockHeld'
  BY <1>0, NoOneAssumption DEF FrameTypes, LockHeld, Login, Resends
<1>6. FrameInv'
  <2>1. Frame(t)'
    BY <1>0
       DEF SharedTypes, FrameTypes, LockHeld, FrameInv, Frame, Login, Resends, StoreSession
  <2>2. ASSUME NEW u \in Threads, u # t PROVE Frame(u)'
    BY <2>2, <1>0
       DEF SharedTypes, FrameTypes, LockHeld, FrameInv, Frame, Login, Resends, StoreSession
  <2> QED
    BY <2>1, <2>2 DEF FrameInv
<1>7. Len(replaced) \in Nat /\ \A i \in 1..Len(replaced) : replaced[i].sid < current
  BY <1>0 DEF IInv, SharedTypes, SupersededInv
<1>8. Replacement(t).sid = current /\ (Replacement(t).dead \/ Replacement(t).code = "forbidden")
  <2>1. current \notin alive \/ code[t] = "forbidden"
    BY <1>1, Zenon
  <2> QED
    BY <2>1, Zenon DEF Replacement
<1>9. current \in Nat /\ current < current'
  BY <1>0 DEF SharedTypes, Login, StoreSession
<1>10. SupersededInv'
  <2> SUFFICES ASSUME NEW i \in 1..(Len(replaced) + 1)
               PROVE  replaced'[i].sid < current'
    BY <1>2 DEF SupersededInv
  <2>1. CASE i = Len(replaced) + 1
    BY <1>2, <1>8, <1>9, <2>1
  <2>2. CASE i # Len(replaced) + 1
    <3>1. i \in 1..Len(replaced) /\ replaced'[i] = replaced[i]
      BY <1>2, <1>7, <2>2
    <3>2. replaced[i].sid < current
      BY <1>7, <3>1
    <3>3. replaced[i] \in [sid : Nat, dead : BOOLEAN, code : Codes]
      BY <1>0, <3>1, ElementOfSeq DEF SharedTypes
    <3>4. replaced[i].sid \in Nat
      BY <3>3
    <3>5. current' \in Nat
      BY <1>3 DEF SharedTypes
    <3> QED
      BY <1>9, <3>1, <3>2, <3>4, <3>5
  <2> QED
    BY <2>1, <2>2
<1>11. OneLoginPerSession'
  <2>1. \A i \in 1..Len(replaced') : i \in 1..Len(replaced) \/ i = Len(replaced) + 1
    BY <1>2, <1>7
  <2>2. \A i \in 1..Len(replaced') : replaced'[i].dead \/ replaced'[i].code = "forbidden"
    BY <1>2, <1>8, <2>1 DEF IInv, OneLoginPerSession
  <2>3. \A i, j \in 1..Len(replaced') : replaced'[i].sid = replaced'[j].sid => i = j
    <3> SUFFICES ASSUME NEW i \in 1..Len(replaced'), NEW j \in 1..Len(replaced'),
                        replaced'[i].sid = replaced'[j].sid
                 PROVE  i = j
      OBVIOUS
    <3>1. \A k \in 1..Len(replaced) : replaced'[k].sid = replaced[k].sid
      BY <1>2
    <3>2. \A k \in 1..Len(replaced) : replaced'[k].sid # current
      BY <1>7, <1>9, <3>1
    <3>3. replaced'[Len(replaced) + 1].sid = current
      BY <1>2, <1>8
    <3>4. CASE i \in 1..Len(replaced) /\ j \in 1..Len(replaced)
      BY <3>1, <3>4 DEF IInv, OneLoginPerSession
    <3> QED
      BY <2>1, <3>2, <3>3, <3>4
  <2> QED
    BY <2>2, <2>3 DEF OneLoginPerSession
<1> QED
  BY <1>3, <1>4, <1>5, <1>6, <1>10, <1>11, LedgerKept DEF IInv, TypeOK, Login

(* A failed login ends the request and frees the lock.                     *)
LEMMA LoginFailsStep ==
    ASSUME IInv, NEW t \in Threads, LoginFails(t)
    PROVE  IInv'
<1>0. SharedTypes /\ FrameTypes /\ LockHeld /\ FrameInv
  BY DEF IInv, TypeOK
<1>1. SharedTypes'
  BY <1>0 DEF SharedTypes, LoginFails, dsmVars, ledgerVars
<1>2. FrameTypes'
  BY <1>0 DEF SharedTypes, FrameTypes, LoginFails, Ends, Labels, Codes, Outcomes
<1>3. LockHeld'
  BY <1>0, NoOneAssumption DEF SharedTypes, FrameTypes, LockHeld, LoginFails, Ends
<1>4. FrameInv'
  <2>1. Frame(t)'
    BY <1>0
       DEF SharedTypes, FrameTypes, LockHeld, FrameInv, Frame, LoginFails, Ends, dsmVars
  <2>2. ASSUME NEW u \in Threads, u # t PROVE Frame(u)'
    BY <2>2, <1>0
       DEF SharedTypes, FrameTypes, LockHeld, FrameInv, Frame, LoginFails, Ends, dsmVars
  <2> QED
    BY <2>1, <2>2 DEF FrameInv
<1> QED
  BY <1>1, <1>2, <1>3, <1>4, LedgerKept, ReplacedKept DEF IInv, TypeOK, LoginFails

(* DSM ends a session: those refused already stay refused.                 *)
LEMMA EndSessionStep ==
    ASSUME IInv, NEW s \in alive, EndSession(s)
    PROVE  IInv'
<1>0. SharedTypes /\ FrameTypes /\ LockHeld /\ FrameInv
  BY DEF IInv, TypeOK
<1>1. SharedTypes'
  BY <1>0 DEF SharedTypes, EndSession, ledgerVars
<1>2. FrameTypes'
  BY <1>0 DEF SharedTypes, FrameTypes, EndSession, frameVars
<1>3. LockHeld'
  BY <1>0, NoOneAssumption DEF SharedTypes, FrameTypes, LockHeld, EndSession
<1>4. FrameInv'
  BY <1>0 DEF SharedTypes, FrameTypes, LockHeld, FrameInv, Frame, EndSession, frameVars
<1> QED
  BY <1>1, <1>2, <1>3, <1>4, LedgerKept, ReplacedKept DEF IInv, TypeOK, EndSession

(* The allowance never shrinks.                                            *)
LEMMA AllowanceGrows ==
    ASSUME NEW n \in Nat
    PROVE  n \div Period \in Int /\ (n + 1) \div Period \in Int
           /\ n \div Period <= (n + 1) \div Period
  BY PeriodAssumption

(* Time only moves logins out of the window and adds to the allowance.     *)
LEMMA TickStep ==
    ASSUME IInv, Tick
    PROVE  IInv'
<1>0. SharedTypes /\ FrameTypes /\ LockHeld /\ FrameInv
  BY DEF IInv, TypeOK
<1>1. now \in Nat /\ now' = now + 1 /\ UNCHANGED <<recent, total, logins>>
  BY <1>0 DEF SharedTypes, Tick, ledgerVars
<1>2. SharedTypes'
  BY <1>0, <1>1 DEF SharedTypes, Tick, dsmVars
<1>3. FrameTypes' /\ LockHeld' /\ FrameInv'
  BY <1>0 DEF FrameTypes, LockHeld, FrameInv, Frame, Tick, frameVars, dsmVars
<1>4. LedgerInv'
  BY <1>1, LedgerSizes, LedgerPast, WindowAssumption DEF IInv, LedgerInv
<1>5. LoginRate'
  BY <1>1 DEF IInv, LoginRate
<1>6. LoginAllowance'
  <2>1. Len(logins) \in Nat /\ Len(logins) <= PerWindow + (now \div Period)
    BY LedgerSizes DEF IInv, LoginAllowance
  <2>2. Len(logins) <= PerWindow + ((now + 1) \div Period)
    <3>1. now \div Period \in Int /\ (now + 1) \div Period \in Int
          /\ now \div Period <= (now + 1) \div Period
      BY <1>1, AllowanceGrows
    <3> QED
      BY <2>1, <3>1, PerWindowAssumption
  <2> QED
    BY <1>1, <2>2 DEF LoginAllowance
<1> QED
  BY <1>2, <1>3, <1>4, <1>5, <1>6, ReplacedKept DEF IInv, TypeOK, Tick

(* A step that changes nothing.                                            *)
LEMMA StutterStep ==
    ASSUME IInv, UNCHANGED vars
    PROVE  IInv'
<1>0. SharedTypes /\ FrameTypes /\ LockHeld /\ FrameInv
  BY DEF IInv, TypeOK
<1>1. SharedTypes'
  BY <1>0 DEF SharedTypes, vars, dsmVars, ledgerVars
<1>2. FrameTypes' /\ LockHeld' /\ FrameInv'
  BY <1>0 DEF FrameTypes, LockHeld, FrameInv, Frame, vars, frameVars, dsmVars
<1> QED
  BY <1>1, <1>2, LedgerKept, ReplacedKept DEF IInv, TypeOK, vars

(* Every step keeps the invariant.                                         *)
LEMMA NextIInv == IInv /\ [Next]_vars => IInv'
<1> SUFFICES ASSUME IInv, [Next]_vars PROVE IInv'
  OBVIOUS
<1>1. ASSUME NEW t \in Threads, Begin(t) PROVE IInv'
  BY <1>1, BeginStep
<1>2. ASSUME NEW t \in Threads, Step(t) PROVE IInv'
  BY <1>2, SendStep, RetrySendStep, AnsweredStep, RefusedStep, RecoverStep,
     ProbeConfirmsStep, ProbeFailsStep, AdmitStep, LoginStep, LoginFailsStep DEF Step
<1>3. ASSUME NEW s \in alive, EndSession(s) PROVE IInv'
  BY <1>3, EndSessionStep
<1>4. CASE Tick
  BY <1>4, TickStep
<1>5. CASE Over
  BY <1>5, StutterStep DEF Over
<1>6. CASE UNCHANGED vars
  BY <1>6, StutterStep
<1> QED
  BY <1>1, <1>2, <1>3, <1>4, <1>5, <1>6 DEF Next

(* The invariant holds in every reachable state.                           *)
THEOREM SessionInvariant == Spec => []IInv
<1>1. Init => IInv
  BY InitIInv
<1>2. IInv /\ [Next]_vars => IInv'
  BY NextIInv
<1> QED
  BY <1>1, <1>2, PTL DEF Spec

(* Types and the ledger's lock: only the thread past the comparison of     *)
(* recover_session holds it.                                               *)
THEOREM SessionTypeOK == Spec => []TypeOK
<1>1. IInv => TypeOK
  BY DEF IInv
<1> QED
  BY <1>1, SessionInvariant, PTL

(* The ledger's window limit holds of all the logins of a run, although    *)
(* admit sees only those it has not pruned.                                *)
THEOREM SessionLoginRate == Spec => []LoginRate
<1>1. IInv => LoginRate
  BY DEF IInv
<1> QED
  BY <1>1, SessionInvariant, PTL

(* The ledger's total limit: logins stay within the run's allowance.       *)
THEOREM SessionLoginAllowance == Spec => []LoginAllowance
<1>1. IInv => LoginAllowance
  BY DEF IInv
<1> QED
  BY <1>1, SessionInvariant, PTL

(* However many clones meet the end of one session, recover_session        *)
(* replaces it once, and never a session DSM still honours without a 105   *)
(* and a failed probe.                                                     *)
THEOREM SessionOneLogin == Spec => []OneLoginPerSession
<1>1. IInv => OneLoginPerSession
  BY DEF IInv
<1> QED
  BY <1>1, SessionInvariant, PTL

(* Together: however many clones meet the end of a session, one login      *)
(* replaces it, and the logins stay within both limits of the ledger.      *)
THEOREM SessionLoginsHeld == Spec => []LoginsHeld
<1>1. IInv => LoginsHeld
  BY DEF IInv, LoginsHeld
<1> QED
  BY <1>1, SessionInvariant, PTL

(* A request ends with the session code only after its session was         *)
(* replaced: only a second attempt can, and it follows a replacement.      *)
THEOREM SessionExpiryRecovered == Spec => ExpiryIsRecovered
<1> DEFINE P == \A t \in Threads :
                   outcome[t] = "none" /\ outcome'[t] = "sessionCode" => current # sent[t]
<1>1. IInv /\ [Next]_vars => [P]_vars
  <2> SUFFICES ASSUME IInv, Next, NEW u \in Threads,
                      outcome[u] = "none", outcome'[u] = "sessionCode"
               PROVE  current # sent[u]
    BY DEF ExpiryIsRecovered
  <2>0. FrameTypes /\ FrameInv /\ SharedTypes
    BY DEF IInv, TypeOK
  <2>1. outcome' # outcome
    OBVIOUS
  <2>2. PICK t \in Threads : Begin(t) \/ Step(t)
    BY <2>1 DEF Next, EndSession, Tick, Over, vars
  <2>3. PICK c \in {"session", "forbidden"} : Refused(u, c) /\ resent[u]
    <3>1. CASE Begin(t)
      BY <2>0, <3>1 DEF FrameTypes, Begin
    <3>2. CASE Send(t) \/ RetrySend(t) \/ Recover(t) \/ ProbeFails(t) \/ Login(t)
      BY <2>0, <2>1, <3>2 DEF Send, RetrySend, Recover, ProbeFails, Login
    <3>3. ASSUME NEW o \in {"ok", "failed"}, Answered(t, o) PROVE FALSE
      BY <2>0, <3>3 DEF FrameTypes, Answered, Ends
    <3>4. CASE ProbeConfirms(t) \/ LoginFails(t)
      BY <2>0, <3>4 DEF FrameTypes, ProbeConfirms, LoginFails, Ends
    <3>5. CASE Admit(t)
      <4>1. UNCHANGED outcome \/ Ends(t, "capped")
        BY <3>5 DEF Admit
      <4> QED
        BY <2>0, <2>1, <4>1 DEF FrameTypes, Ends
    <3>6. ASSUME NEW c \in {"session", "forbidden"}, Refused(t, c)
          PROVE  t = u /\ resent[t]
      BY <2>0, <2>1, <3>6 DEF FrameTypes, Refused, Ends
    <3> QED
      BY <2>2, <3>1, <3>2, <3>3, <3>4, <3>5, <3>6 DEF Step
  <2> QED
    BY <2>0, <2>3 DEF FrameTypes, FrameInv, Frame, SharedTypes
<1> QED
  BY <1>1, SessionInvariant, PTL DEF Spec, ExpiryIsRecovered

(***************************************************************************)
(* One upload.                                                             *)
(***************************************************************************)
Stages == {"start", "stream", "answer", "verify", "verifyDigest", "retry",
           "retryDigest", "last", "lastDigest", "end"}
Sent == {"planned", "other"}
Results == {"none", "ok", "failed", "cancelled", "sourceChanged", "unchecked",
            "verificationFailed", "tornNamed"}
Causes == {"none", "sourceChanged", "cancelled", "lost", "ceiling", "refused",
           "session", "success"}

UploadTypeOK ==
    /\ digest \in BOOLEAN /\ keepsTime \in BOOLEAN /\ inPlace \in BOOLEAN
    /\ source \in {"planned", "rewritten", "edited"}
    /\ cancelled \in BOOLEAN
    /\ edits \in Nat
    /\ dest \in Files
    /\ late \subseteq Sent
    /\ stage \in Stages
    /\ body \in {"none"} \cup Sent
    /\ attempt \in Nat /\ last \in Nat /\ sends \in Nat
    /\ tear \in BOOLEAN /\ again \in BOOLEAN /\ noted \in BOOLEAN
    /\ result \in Results
    /\ cause \in Causes

(* What is at a destination has a size to agree or not; a body that was    *)
(* sent whole is whole.                                                    *)
BodiesWhole ==
    /\ dest.size => dest.there
    /\ stage \in {"stream", "answer"} => body \in Sent
    /\ digest /\ stage = "answer" => body = "planned"
    /\ OnlyPlannedBodies

(* Between a look at the destination and the digest that is then asked for *)
(* DSM may finish a late body, which has the planned length as well.       *)
LookHolds ==
    /\ stage \in {"verifyDigest", "retryDigest", "lastDigest"} => digest /\ dest.size
    /\ stage \in {"retryDigest", "lastDigest"} /\ keepsTime => dest.time
    /\ stage \in {"verify", "verifyDigest"} => cause = "success"
    /\ stage = "verifyDigest" /\ keepsTime => dest.time \/ noted

(* The attempts of a session, counted with the sends of the one before;    *)
(* the attempt a tear has earned is the last.                              *)
AttemptsCounted ==
    /\ last = UploadRetries + (IF tear THEN 1 ELSE 0)
    /\ attempt <= last
    /\ tear \/ stage \in {"last", "lastDigest"} => attempt = last
    /\ stage \in {"retry", "retryDigest"} => attempt < last
    /\ sends <= (IF again THEN UploadRetries + 2 ELSE 0) + attempt
                    + (IF stage = "start" THEN 0 ELSE 1)

Ended == result = "none" <=> stage # "end"

UploadInv ==
    /\ UploadTypeOK /\ BodiesWhole /\ LookHolds /\ AttemptsCounted /\ Ended
    /\ OkMeansLanded /\ OkTimeSettled

(* What DSM leaves at a destination is a file.                             *)
LEMMA AbsentIsFile == Absent \in Files
  BY DEF Absent, Files, Contents

(* What DSM commits or cuts short at a destination is a file.              *)
LEMMA CommittedIsFile ==
    ASSUME keepsTime \in BOOLEAN, NEW b \in Contents
    PROVE  Committed(b) \in Files /\ Cut \in Files
  BY DEF Committed, Cut, Files, Contents

(* What an attempt may leave behind is a file.                             *)
LEMMA LeftoversAreFiles ==
    ASSUME UploadTypeOK
    PROVE  Leftovers \subseteq Files
  <1>1. Committed("torn") \in Files /\ Cut \in Files
    BY CommittedIsFile DEF UploadTypeOK, Contents
  <1> QED
    BY <1>1 DEF Leftovers, UploadTypeOK

(* Every step keeps the state of an upload well typed.                     *)
LEMMA UploadTypeStep ==
    ASSUME UploadTypeOK, BodiesWhole, [UploadNext]_uploadVars
    PROVE  UploadTypeOK'
  <1> /\ Leftovers \subseteq Files /\ Cut \in Files
      /\ \A b \in Sent : Committed(b) \in Files
    BY LeftoversAreFiles, CommittedIsFile DEF UploadTypeOK, Sent, Contents
  <1>1. ASSUME TooSlow PROVE UploadTypeOK'
    BY <1>1
    DEF TooSlow, Finishes, attemptVars, worldVars, nasVars, UploadTypeOK, BodiesWhole,
        Stages, Sent, Results, Causes
  <1>2. ASSUME StartAttempt PROVE UploadTypeOK'
    BY <1>2
    DEF StartAttempt, Finishes, Goes, SnapshotHolds, attemptVars, worldVars, nasVars,
        UploadTypeOK, BodiesWhole, Stages, Sent, Results, Causes
  <1>3. ASSUME BodyEnds PROVE UploadTypeOK'
    BY <1>3
    DEF BodyEnds, Goes, SourceIntact, attemptVars, worldVars, nasVars, UploadTypeOK,
        BodiesWhole, Stages, Sent, Results, Causes
  <1>4. ASSUME BodyRefused PROVE UploadTypeOK'
    BY <1>4
    DEF BodyRefused, FailsFor, Finishes, attemptVars, worldVars, nasVars, UploadTypeOK,
        BodiesWhole, Stages, Sent, Results, Causes
  <1>5. ASSUME SendCancelled PROVE UploadTypeOK'
    BY <1>5
    DEF SendCancelled, FailsFor, Finishes, Abandoned, attemptVars, worldVars, nasVars,
        UploadTypeOK, BodiesWhole, Stages, Sent, Results, Causes
  <1>6. ASSUME SendLost PROVE UploadTypeOK'
    <2>1. /\ dest' \in Files /\ late' \subseteq Sent /\ body' = body
          /\ UNCHANGED <<digest, keepsTime, inPlace, source, edits, cancelled>>
      BY <1>6 DEF SendLost, Abandoned, Goes, worldVars, nasVars, attemptVars,
         UploadTypeOK, BodiesWhole, Sent
    <2>2. attempt' \in Nat /\ last' \in Nat /\ sends' \in Nat
      BY <1>6, UploadRetriesAssumption DEF SendLost, Abandoned, Goes, worldVars, nasVars,
         attemptVars, UploadTypeOK
    <2>3. tear' \in BOOLEAN /\ again' \in BOOLEAN
      BY <1>6 DEF SendLost, Abandoned, Goes, worldVars, nasVars, attemptVars, UploadTypeOK
    <2>4. noted' \in BOOLEAN
      BY <1>6 DEF SendLost, Abandoned, Goes, worldVars, nasVars, attemptVars, UploadTypeOK
    <2>5. stage' \in Stages /\ result' \in Results /\ cause' \in Causes
      BY <1>6 DEF SendLost, Abandoned, Goes, worldVars, nasVars, attemptVars,
         UploadTypeOK, Stages, Results, Causes
    <2> QED
      BY <2>1, <2>2, <2>3, <2>4, <2>5 DEF UploadTypeOK
  <1>7. ASSUME NEW c \in {"ceiling", "refused"}, SendFails(c) PROVE UploadTypeOK'
    BY <1>7
    DEF SendFails, FailsFor, Finishes, Abandoned, attemptVars, worldVars, nasVars,
        UploadTypeOK, BodiesWhole, Stages, Sent, Results, Causes
  <1>8. ASSUME SessionRefused PROVE UploadTypeOK'
    <2>1. /\ dest' \in Files /\ late' \subseteq Sent /\ body' = body
          /\ UNCHANGED <<digest, keepsTime, inPlace, source, edits, cancelled>>
      BY <1>8 DEF SessionRefused, FailsFor, Finishes, Goes, RecoversOnce, Restarts, worldVars,
         nasVars, attemptVars, UploadTypeOK, BodiesWhole, Sent
    <2>2. attempt' \in Nat /\ last' \in Nat /\ sends' \in Nat
      BY <1>8, UploadRetriesAssumption DEF SessionRefused, FailsFor, Finishes, Goes,
         RecoversOnce, Restarts, worldVars, nasVars, attemptVars, UploadTypeOK
    <2>3. tear' \in BOOLEAN /\ again' \in BOOLEAN
      BY <1>8 DEF SessionRefused, FailsFor, Finishes, Goes, RecoversOnce, Restarts, worldVars,
         nasVars, attemptVars, UploadTypeOK
    <2>4. noted' \in BOOLEAN
      BY <1>8 DEF SessionRefused, FailsFor, Finishes, Goes, RecoversOnce, Restarts, worldVars,
         nasVars, attemptVars, UploadTypeOK
    <2>5. stage' \in Stages /\ result' \in Results /\ cause' \in Causes
      BY <1>8 DEF SessionRefused, FailsFor, Finishes, Goes, RecoversOnce, Restarts, worldVars,
         nasVars, attemptVars, UploadTypeOK, Stages, Results, Causes
    <2> QED
      BY <2>1, <2>2, <2>3, <2>4, <2>5 DEF UploadTypeOK
  <1>9. ASSUME SendSucceeds PROVE UploadTypeOK'
    BY <1>9
    DEF SendSucceeds, Goes, attemptVars, worldVars, nasVars, UploadTypeOK, BodiesWhole,
        Stages, Sent, Results, Causes
  <1>10. ASSUME Verify PROVE UploadTypeOK'
    <2>1. /\ dest' \in Files /\ late' \subseteq Sent /\ body' = body
          /\ UNCHANGED <<digest, keepsTime, inPlace, source, edits, cancelled>>
      BY <1>10 DEF Verify, Finishes, Goes, SnapshotHolds, BytesSent, NotesTime, worldVars,
         nasVars, attemptVars, UploadTypeOK, BodiesWhole, Sent
    <2>2. attempt' \in Nat /\ last' \in Nat /\ sends' \in Nat
      BY <1>10, UploadRetriesAssumption DEF Verify, Finishes, Goes, SnapshotHolds,
         BytesSent, NotesTime, worldVars, nasVars, attemptVars, UploadTypeOK
    <2>3. tear' \in BOOLEAN /\ again' \in BOOLEAN
      BY <1>10 DEF Verify, Finishes, Goes, SnapshotHolds, BytesSent, NotesTime, worldVars,
         nasVars, attemptVars, UploadTypeOK
    <2>4. noted' \in BOOLEAN
      BY <1>10 DEF Verify, Finishes, Goes, SnapshotHolds, BytesSent, NotesTime, worldVars,
         nasVars, attemptVars, UploadTypeOK
    <2>5. stage' \in Stages /\ result' \in Results /\ cause' \in Causes
      BY <1>10 DEF Verify, Finishes, Goes, SnapshotHolds, BytesSent, NotesTime, worldVars,
         nasVars, attemptVars, UploadTypeOK, Stages, Results, Causes
    <2> QED
      BY <2>1, <2>2, <2>3, <2>4, <2>5 DEF UploadTypeOK
  <1>11. ASSUME VerifyDigest PROVE UploadTypeOK'
    BY <1>11
    DEF VerifyDigest, Finishes, DigestMatches, attemptVars, worldVars, nasVars,
        UploadTypeOK, BodiesWhole, Stages, Sent, Results, Causes
  <1>12. ASSUME RetryProbe PROVE UploadTypeOK'
    BY <1>12
    DEF RetryProbe, Finishes, Goes, SnapshotHolds, SendsAgain, EarlierLooksLanded,
        attemptVars, worldVars, nasVars, UploadTypeOK, BodiesWhole, Stages, Sent, Results,
        Causes
  <1>13. ASSUME RetryDigest PROVE UploadTypeOK'
    <2>1. /\ dest' \in Files /\ late' \subseteq Sent /\ body' = body
          /\ UNCHANGED <<digest, keepsTime, inPlace, source, edits, cancelled>>
      BY <1>13 DEF RetryDigest, Finishes, Goes, SendsAgain, DigestMatches, NotesTime,
         worldVars, nasVars, attemptVars, UploadTypeOK, BodiesWhole, Sent
    <2>2. attempt' \in Nat /\ last' \in Nat /\ sends' \in Nat
      BY <1>13, UploadRetriesAssumption DEF RetryDigest, Finishes, Goes, SendsAgain,
         DigestMatches, NotesTime, worldVars, nasVars, attemptVars, UploadTypeOK
    <2>3. tear' \in BOOLEAN /\ again' \in BOOLEAN
      BY <1>13 DEF RetryDigest, Finishes, Goes, SendsAgain, DigestMatches, NotesTime,
         worldVars, nasVars, attemptVars, UploadTypeOK
    <2>4. noted' \in BOOLEAN
      BY <1>13 DEF RetryDigest, Finishes, Goes, SendsAgain, DigestMatches, NotesTime,
         worldVars, nasVars, attemptVars, UploadTypeOK
    <2>5. stage' \in Stages /\ result' \in Results /\ cause' \in Causes
      BY <1>13 DEF RetryDigest, Finishes, Goes, SendsAgain, DigestMatches, NotesTime,
         worldVars, nasVars, attemptVars, UploadTypeOK, Stages, Results, Causes
    <2> QED
      BY <2>1, <2>2, <2>3, <2>4, <2>5 DEF UploadTypeOK
  <1>14. ASSUME LastProbe PROVE UploadTypeOK'
    BY <1>14
    DEF LastProbe, FailsFor, Finishes, Goes, LooksComplete, attemptVars, worldVars,
        nasVars, UploadTypeOK, BodiesWhole, Stages, Sent, Results, Causes
  <1>15. ASSUME LastDigest PROVE UploadTypeOK'
    <2>1. /\ dest' \in Files /\ late' \subseteq Sent /\ body' = body
          /\ UNCHANGED <<digest, keepsTime, inPlace, source, edits, cancelled>>
      BY <1>15 DEF LastDigest, FailsFor, Finishes, Goes, SendsAgain, DigestMatches,
         NotesTime, OneMore, worldVars, nasVars, attemptVars, UploadTypeOK, BodiesWhole,
         Sent
    <2>2. attempt' \in Nat /\ last' \in Nat /\ sends' \in Nat
      BY <1>15, UploadRetriesAssumption DEF LastDigest, FailsFor, Finishes, Goes,
         SendsAgain, DigestMatches, NotesTime, OneMore, worldVars, nasVars, attemptVars,
         UploadTypeOK
    <2>3. tear' \in BOOLEAN /\ again' \in BOOLEAN
      BY <1>15 DEF LastDigest, FailsFor, Finishes, Goes, SendsAgain, DigestMatches,
         NotesTime, OneMore, worldVars, nasVars, attemptVars, UploadTypeOK
    <2>4. noted' \in BOOLEAN
      BY <1>15 DEF LastDigest, FailsFor, Finishes, Goes, SendsAgain, DigestMatches,
         NotesTime, OneMore, worldVars, nasVars, attemptVars, UploadTypeOK
    <2>5. stage' \in Stages /\ result' \in Results /\ cause' \in Causes
      BY <1>15 DEF LastDigest, FailsFor, Finishes, Goes, SendsAgain, DigestMatches,
         NotesTime, OneMore, worldVars, nasVars, attemptVars, UploadTypeOK, Stages,
         Results, Causes
    <2> QED
      BY <2>1, <2>2, <2>3, <2>4, <2>5 DEF UploadTypeOK
  <1>16. ASSUME NEW s \in {"rewritten", "edited"}, EditSource(s) PROVE UploadTypeOK'
    BY <1>16
    DEF EditSource, attemptVars, worldVars, nasVars, UploadTypeOK, BodiesWhole, Stages,
        Sent, Results, Causes
  <1>17. ASSUME NEW b \in late, LateCommit(b) PROVE UploadTypeOK'
    BY <1>17
    DEF LateCommit, attemptVars, worldVars, nasVars, UploadTypeOK, BodiesWhole, Stages,
        Sent, Results, Causes
  <1>18. ASSUME Cancel PROVE UploadTypeOK'
    BY <1>18
    DEF Cancel, attemptVars, worldVars, nasVars, UploadTypeOK, BodiesWhole, Stages, Sent,
        Results, Causes
  <1>19. ASSUME UNCHANGED uploadVars PROVE UploadTypeOK'
    BY <1>19
    DEF uploadVars, attemptVars, worldVars, nasVars, UploadTypeOK, BodiesWhole, Stages,
        Sent, Results, Causes
  <1>20. ASSUME CheckRefused PROVE UploadTypeOK'
    <2>1. Restarts /\ cause' = "session" /\ UNCHANGED <<worldVars, dest, late, noted>>
      BY <1>20 DEF CheckRefused
    <2>2. UNCHANGED <<body, dest, late, noted, digest, keepsTime, inPlace, source, edits,
                      cancelled>>
      BY <2>1 DEF Restarts, worldVars, nasVars
    <2>3. /\ attempt' \in Nat /\ last' \in Nat /\ sends' \in Nat
          /\ tear' \in BOOLEAN /\ again' \in BOOLEAN
      BY <2>1, UploadRetriesAssumption DEF Restarts, Goes, UploadTypeOK
    <2>4. stage' \in Stages /\ result' \in Results /\ cause' \in Causes
      BY <2>1 DEF Restarts, Goes, UploadTypeOK, Stages, Results, Causes
    <2> QED
      BY <2>2, <2>3, <2>4 DEF UploadTypeOK
  <1> QED
    BY <1>1, <1>2, <1>3, <1>4, <1>5, <1>6, <1>7, <1>8, <1>9, <1>10, <1>11, <1>12, <1>13,
       <1>14, <1>15, <1>16, <1>17, <1>18, <1>19, <1>20
    DEF UploadNext, UploadStep, UploadOver

(* A body whose fingerprint was taken while it was sent is the planned one *)
(* when it was sent whole.                                                 *)
LEMMA BodiesStep ==
    ASSUME UploadTypeOK, BodiesWhole, [UploadNext]_uploadVars
    PROVE  BodiesWhole'
  <1>1. ASSUME TooSlow PROVE BodiesWhole'
    BY <1>1
    DEF TooSlow, Finishes, attemptVars, worldVars, nasVars, UploadTypeOK, BodiesWhole,
        OnlyPlannedBodies, Stages, Sent, Files
  <1>2. ASSUME StartAttempt PROVE BodiesWhole'
    BY <1>2
    DEF StartAttempt, Finishes, Goes, SnapshotHolds, attemptVars, worldVars, nasVars,
        UploadTypeOK, BodiesWhole, OnlyPlannedBodies, Stages, Sent, Files
  <1>3. ASSUME BodyEnds PROVE BodiesWhole'
    BY <1>3
    DEF BodyEnds, Goes, SourceIntact, attemptVars, worldVars, nasVars, UploadTypeOK,
        BodiesWhole, OnlyPlannedBodies, Stages, Sent, Files
  <1>4. ASSUME BodyRefused PROVE BodiesWhole'
    BY <1>4
    DEF BodyRefused, FailsFor, Finishes, Leftovers, Cut, Committed, attemptVars,
        worldVars, nasVars, UploadTypeOK, BodiesWhole, OnlyPlannedBodies, Stages, Sent,
        Files
  <1>5. ASSUME SendCancelled PROVE BodiesWhole'
    BY <1>5
    DEF SendCancelled, FailsFor, Finishes, Abandoned, Leftovers, Cut, Committed,
        attemptVars, worldVars, nasVars, UploadTypeOK, BodiesWhole, OnlyPlannedBodies,
        Stages, Sent, Files
  <1>6. ASSUME SendLost PROVE BodiesWhole'
    BY <1>6
    DEF SendLost, Goes, Abandoned, Leftovers, Cut, Committed, attemptVars, worldVars,
        nasVars, UploadTypeOK, BodiesWhole, OnlyPlannedBodies, Stages, Sent, Files
  <1>7. ASSUME NEW c \in {"ceiling", "refused"}, SendFails(c) PROVE BodiesWhole'
    BY <1>7
    DEF SendFails, FailsFor, Finishes, Abandoned, Leftovers, Cut, Committed, attemptVars,
        worldVars, nasVars, UploadTypeOK, BodiesWhole, OnlyPlannedBodies, Stages, Sent,
        Files
  <1>8. ASSUME SessionRefused PROVE BodiesWhole'
    BY <1>8
    DEF SessionRefused, FailsFor, Finishes, Goes, RecoversOnce, Restarts, attemptVars, worldVars,
        nasVars, UploadTypeOK, BodiesWhole, OnlyPlannedBodies, Stages, Sent, Files
  <1>9. ASSUME SendSucceeds PROVE BodiesWhole'
    BY <1>9
    DEF SendSucceeds, Goes, Leftovers, Cut, Committed, attemptVars, worldVars, nasVars,
        UploadTypeOK, BodiesWhole, OnlyPlannedBodies, Stages, Sent, Files
  <1>10. ASSUME Verify PROVE BodiesWhole'
    BY <1>10
    DEF Verify, Finishes, Goes, SnapshotHolds, BytesSent, NotesTime, attemptVars,
        worldVars, nasVars, UploadTypeOK, BodiesWhole, OnlyPlannedBodies, Stages, Sent,
        Files
  <1>11. ASSUME VerifyDigest PROVE BodiesWhole'
    BY <1>11
    DEF VerifyDigest, Finishes, DigestMatches, attemptVars, worldVars, nasVars,
        UploadTypeOK, BodiesWhole, OnlyPlannedBodies, Stages, Sent, Files
  <1>12. ASSUME RetryProbe PROVE BodiesWhole'
    BY <1>12
    DEF RetryProbe, Finishes, Goes, SnapshotHolds, SendsAgain, EarlierLooksLanded,
        attemptVars, worldVars, nasVars, UploadTypeOK, BodiesWhole, OnlyPlannedBodies,
        Stages, Sent, Files
  <1>13. ASSUME RetryDigest PROVE BodiesWhole'
    BY <1>13
    DEF RetryDigest, Finishes, Goes, SendsAgain, DigestMatches, NotesTime, attemptVars,
        worldVars, nasVars, UploadTypeOK, BodiesWhole, OnlyPlannedBodies, Stages, Sent,
        Files
  <1>14. ASSUME LastProbe PROVE BodiesWhole'
    BY <1>14
    DEF LastProbe, FailsFor, Finishes, Goes, LooksComplete, attemptVars, worldVars,
        nasVars, UploadTypeOK, BodiesWhole, OnlyPlannedBodies, Stages, Sent, Files
  <1>15. ASSUME LastDigest PROVE BodiesWhole'
    BY <1>15
    DEF LastDigest, FailsFor, Finishes, Goes, SendsAgain, DigestMatches, NotesTime,
        OneMore, attemptVars, worldVars, nasVars, UploadTypeOK, BodiesWhole,
        OnlyPlannedBodies, Stages, Sent, Files
  <1>16. ASSUME NEW s \in {"rewritten", "edited"}, EditSource(s) PROVE BodiesWhole'
    BY <1>16
    DEF EditSource, attemptVars, worldVars, nasVars, UploadTypeOK, BodiesWhole,
        OnlyPlannedBodies, Stages, Sent, Files
  <1>17. ASSUME NEW b \in late, LateCommit(b) PROVE BodiesWhole'
    BY <1>17
    DEF LateCommit, Committed, attemptVars, worldVars, nasVars, UploadTypeOK, BodiesWhole,
        OnlyPlannedBodies, Stages, Sent, Files
  <1>18. ASSUME Cancel PROVE BodiesWhole'
    BY <1>18
    DEF Cancel, attemptVars, worldVars, nasVars, UploadTypeOK, BodiesWhole,
        OnlyPlannedBodies, Stages, Sent, Files
  <1>19. ASSUME UNCHANGED uploadVars PROVE BodiesWhole'
    BY <1>19
    DEF uploadVars, attemptVars, worldVars, nasVars, UploadTypeOK, BodiesWhole,
        OnlyPlannedBodies, Stages, Sent, Files
  <1>20. ASSUME CheckRefused PROVE BodiesWhole'
    BY <1>20
    DEF CheckRefused, Restarts, Goes, SnapshotHolds, BytesSent, attemptVars, worldVars, nasVars,
        UploadTypeOK, BodiesWhole, OnlyPlannedBodies, Stages, Sent, Files
  <1> QED
    BY <1>1, <1>2, <1>3, <1>4, <1>5, <1>6, <1>7, <1>8, <1>9, <1>10, <1>11, <1>12, <1>13,
       <1>14, <1>15, <1>16, <1>17, <1>18, <1>19, <1>20
    DEF UploadNext, UploadStep, UploadOver

(* What a look at the destination found still holds when the digest asked  *)
(* for after it comes: nothing but this upload's own late bodies changes   *)
(* it.                                                                     *)
LEMMA LookStep ==
    ASSUME UploadTypeOK, BodiesWhole, LookHolds, [UploadNext]_uploadVars
    PROVE  LookHolds'
  <1>1. ASSUME TooSlow PROVE LookHolds'
    BY <1>1
    DEF TooSlow, Finishes, attemptVars, worldVars, nasVars, UploadTypeOK, LookHolds,
        Stages, Sent, Files
  <1>2. ASSUME StartAttempt PROVE LookHolds'
    BY <1>2
    DEF StartAttempt, Finishes, Goes, SnapshotHolds, attemptVars, worldVars, nasVars,
        UploadTypeOK, LookHolds, Stages, Sent, Files
  <1>3. ASSUME BodyEnds PROVE LookHolds'
    BY <1>3
    DEF BodyEnds, Goes, SourceIntact, attemptVars, worldVars, nasVars, UploadTypeOK,
        LookHolds, Stages, Sent, Files
  <1>4. ASSUME BodyRefused PROVE LookHolds'
    BY <1>4
    DEF BodyRefused, FailsFor, Finishes, Leftovers, Cut, Committed, attemptVars,
        worldVars, nasVars, UploadTypeOK, LookHolds, Stages, Sent, Files
  <1>5. ASSUME SendCancelled PROVE LookHolds'
    BY <1>5
    DEF SendCancelled, FailsFor, Finishes, Abandoned, Leftovers, Cut, Committed,
        attemptVars, worldVars, nasVars, UploadTypeOK, LookHolds, Stages, Sent, Files
  <1>6. ASSUME SendLost PROVE LookHolds'
    BY <1>6
    DEF SendLost, Goes, Abandoned, Leftovers, Cut, Committed, attemptVars, worldVars,
        nasVars, UploadTypeOK, LookHolds, Stages, Sent, Files
  <1>7. ASSUME NEW c \in {"ceiling", "refused"}, SendFails(c) PROVE LookHolds'
    BY <1>7
    DEF SendFails, FailsFor, Finishes, Abandoned, Leftovers, Cut, Committed, attemptVars,
        worldVars, nasVars, UploadTypeOK, LookHolds, Stages, Sent, Files
  <1>8. ASSUME SessionRefused PROVE LookHolds'
    BY <1>8
    DEF SessionRefused, FailsFor, Finishes, Goes, RecoversOnce, Restarts, attemptVars, worldVars,
        nasVars, UploadTypeOK, LookHolds, Stages, Sent, Files
  <1>9. ASSUME SendSucceeds PROVE LookHolds'
    BY <1>9
    DEF SendSucceeds, Goes, Leftovers, Cut, Committed, attemptVars, worldVars, nasVars,
        UploadTypeOK, LookHolds, Stages, Sent, Files
  <1>10. ASSUME Verify PROVE LookHolds'
    BY <1>10
    DEF Verify, Finishes, Goes, SnapshotHolds, BytesSent, NotesTime, attemptVars,
        worldVars, nasVars, UploadTypeOK, LookHolds, Stages, Sent, Files
  <1>11. ASSUME VerifyDigest PROVE LookHolds'
    BY <1>11
    DEF VerifyDigest, Finishes, DigestMatches, attemptVars, worldVars, nasVars,
        UploadTypeOK, LookHolds, Stages, Sent, Files
  <1>12. ASSUME RetryProbe PROVE LookHolds'
    BY <1>12
    DEF RetryProbe, Finishes, Goes, SnapshotHolds, SendsAgain, EarlierLooksLanded,
        attemptVars, worldVars, nasVars, UploadTypeOK, LookHolds, Stages, Sent, Files
  <1>13. ASSUME RetryDigest PROVE LookHolds'
    BY <1>13
    DEF RetryDigest, Finishes, Goes, SendsAgain, DigestMatches, NotesTime, attemptVars,
        worldVars, nasVars, UploadTypeOK, LookHolds, Stages, Sent, Files
  <1>14. ASSUME LastProbe PROVE LookHolds'
    BY <1>14
    DEF LastProbe, FailsFor, Finishes, Goes, LooksComplete, attemptVars, worldVars,
        nasVars, UploadTypeOK, LookHolds, Stages, Sent, Files
  <1>15. ASSUME LastDigest PROVE LookHolds'
    BY <1>15
    DEF LastDigest, FailsFor, Finishes, Goes, SendsAgain, DigestMatches, NotesTime,
        OneMore, attemptVars, worldVars, nasVars, UploadTypeOK, LookHolds, Stages, Sent,
        Files
  <1>16. ASSUME NEW s \in {"rewritten", "edited"}, EditSource(s) PROVE LookHolds'
    BY <1>16
    DEF EditSource, attemptVars, worldVars, nasVars, UploadTypeOK, LookHolds, Stages,
        Sent, Files
  <1>17. ASSUME NEW b \in late, LateCommit(b) PROVE LookHolds'
    BY <1>17
    DEF LateCommit, Committed, attemptVars, worldVars, nasVars, UploadTypeOK, LookHolds,
        Stages, Sent, Files
  <1>18. ASSUME Cancel PROVE LookHolds'
    BY <1>18
    DEF Cancel, attemptVars, worldVars, nasVars, UploadTypeOK, LookHolds, Stages, Sent,
        Files
  <1>19. ASSUME UNCHANGED uploadVars PROVE LookHolds'
    BY <1>19
    DEF uploadVars, attemptVars, worldVars, nasVars, UploadTypeOK, LookHolds, Stages,
        Sent, Files
  <1>20. ASSUME CheckRefused PROVE LookHolds'
    BY <1>20
    DEF CheckRefused, Restarts, Goes, SnapshotHolds, BytesSent, attemptVars, worldVars, nasVars,
        UploadTypeOK, LookHolds, Stages, Sent, Files
  <1> QED
    BY <1>1, <1>2, <1>3, <1>4, <1>5, <1>6, <1>7, <1>8, <1>9, <1>10, <1>11, <1>12, <1>13,
       <1>14, <1>15, <1>16, <1>17, <1>18, <1>19, <1>20
    DEF UploadNext, UploadStep, UploadOver

(* The attempts are counted: each sends once, and a new session has as     *)
(* many as the first.                                                      *)
LEMMA AttemptsStep ==
    ASSUME UploadTypeOK, AttemptsCounted, [UploadNext]_uploadVars
    PROVE  AttemptsCounted'
  <1>1. ASSUME TooSlow PROVE AttemptsCounted'
    BY <1>1, UploadRetriesAssumption
    DEF TooSlow, Finishes, attemptVars, worldVars, nasVars, UploadTypeOK, AttemptsCounted,
        Stages
  <1>2. ASSUME StartAttempt PROVE AttemptsCounted'
    BY <1>2, UploadRetriesAssumption
    DEF StartAttempt, Finishes, Goes, SnapshotHolds, attemptVars, worldVars, nasVars,
        UploadTypeOK, AttemptsCounted, Stages
  <1>3. ASSUME BodyEnds PROVE AttemptsCounted'
    BY <1>3, UploadRetriesAssumption
    DEF BodyEnds, Goes, SourceIntact, attemptVars, worldVars, nasVars, UploadTypeOK,
        AttemptsCounted, Stages
  <1>4. ASSUME BodyRefused PROVE AttemptsCounted'
    BY <1>4, UploadRetriesAssumption
    DEF BodyRefused, FailsFor, Finishes, Leftovers, Cut, Committed, attemptVars,
        worldVars, nasVars, UploadTypeOK, AttemptsCounted, Stages
  <1>5. ASSUME SendCancelled PROVE AttemptsCounted'
    BY <1>5, UploadRetriesAssumption
    DEF SendCancelled, FailsFor, Finishes, Abandoned, Leftovers, Cut, Committed,
        attemptVars, worldVars, nasVars, UploadTypeOK, AttemptsCounted, Stages
  <1>6. ASSUME SendLost PROVE AttemptsCounted'
    BY <1>6, UploadRetriesAssumption
    DEF SendLost, Goes, Abandoned, Leftovers, Cut, Committed, attemptVars, worldVars,
        nasVars, UploadTypeOK, AttemptsCounted, Stages
  <1>7. ASSUME NEW c \in {"ceiling", "refused"}, SendFails(c) PROVE AttemptsCounted'
    BY <1>7, UploadRetriesAssumption
    DEF SendFails, FailsFor, Finishes, Abandoned, Leftovers, Cut, Committed, attemptVars,
        worldVars, nasVars, UploadTypeOK, AttemptsCounted, Stages
  <1>8. ASSUME SessionRefused PROVE AttemptsCounted'
    BY <1>8, UploadRetriesAssumption
    DEF SessionRefused, FailsFor, Finishes, Goes, RecoversOnce, Restarts, attemptVars, worldVars,
        nasVars, UploadTypeOK, AttemptsCounted, Stages
  <1>9. ASSUME SendSucceeds PROVE AttemptsCounted'
    BY <1>9, UploadRetriesAssumption
    DEF SendSucceeds, Goes, Leftovers, Cut, Committed, attemptVars, worldVars, nasVars,
        UploadTypeOK, AttemptsCounted, Stages
  <1>10. ASSUME Verify PROVE AttemptsCounted'
    BY <1>10, UploadRetriesAssumption
    DEF Verify, Finishes, Goes, SnapshotHolds, BytesSent, NotesTime, attemptVars,
        worldVars, nasVars, UploadTypeOK, AttemptsCounted, Stages
  <1>11. ASSUME VerifyDigest PROVE AttemptsCounted'
    BY <1>11, UploadRetriesAssumption
    DEF VerifyDigest, Finishes, DigestMatches, attemptVars, worldVars, nasVars,
        UploadTypeOK, AttemptsCounted, Stages
  <1>12. ASSUME RetryProbe PROVE AttemptsCounted'
    BY <1>12, UploadRetriesAssumption
    DEF RetryProbe, Finishes, Goes, SnapshotHolds, SendsAgain, EarlierLooksLanded,
        attemptVars, worldVars, nasVars, UploadTypeOK, AttemptsCounted, Stages
  <1>13. ASSUME RetryDigest PROVE AttemptsCounted'
    BY <1>13, UploadRetriesAssumption
    DEF RetryDigest, Finishes, Goes, SendsAgain, DigestMatches, NotesTime, attemptVars,
        worldVars, nasVars, UploadTypeOK, AttemptsCounted, Stages
  <1>14. ASSUME LastProbe PROVE AttemptsCounted'
    BY <1>14, UploadRetriesAssumption
    DEF LastProbe, FailsFor, Finishes, Goes, LooksComplete, attemptVars, worldVars,
        nasVars, UploadTypeOK, AttemptsCounted, Stages
  <1>15. ASSUME LastDigest PROVE AttemptsCounted'
    BY <1>15, UploadRetriesAssumption
    DEF LastDigest, FailsFor, Finishes, Goes, SendsAgain, DigestMatches, NotesTime,
        OneMore, attemptVars, worldVars, nasVars, UploadTypeOK, AttemptsCounted, Stages
  <1>16. ASSUME NEW s \in {"rewritten", "edited"}, EditSource(s) PROVE AttemptsCounted'
    BY <1>16, UploadRetriesAssumption
    DEF EditSource, attemptVars, worldVars, nasVars, UploadTypeOK, AttemptsCounted, Stages
  <1>17. ASSUME NEW b \in late, LateCommit(b) PROVE AttemptsCounted'
    BY <1>17, UploadRetriesAssumption
    DEF LateCommit, Committed, attemptVars, worldVars, nasVars, UploadTypeOK,
        AttemptsCounted, Stages
  <1>18. ASSUME Cancel PROVE AttemptsCounted'
    BY <1>18, UploadRetriesAssumption
    DEF Cancel, attemptVars, worldVars, nasVars, UploadTypeOK, AttemptsCounted, Stages
  <1>19. ASSUME UNCHANGED uploadVars PROVE AttemptsCounted'
    BY <1>19, UploadRetriesAssumption
    DEF uploadVars, attemptVars, worldVars, nasVars, UploadTypeOK, AttemptsCounted, Stages
  <1>20. ASSUME CheckRefused PROVE AttemptsCounted'
    BY <1>20, UploadRetriesAssumption
    DEF CheckRefused, Restarts, Goes, SnapshotHolds, BytesSent, attemptVars, worldVars, nasVars,
        UploadTypeOK, AttemptsCounted, Stages
  <1> QED
    BY <1>1, <1>2, <1>3, <1>4, <1>5, <1>6, <1>7, <1>8, <1>9, <1>10, <1>11, <1>12, <1>13,
       <1>14, <1>15, <1>16, <1>17, <1>18, <1>19, <1>20
    DEF UploadNext, UploadStep, UploadOver

(* An upload has a result when it has ended and no sooner.                 *)
LEMMA EndedStep ==
    ASSUME UploadTypeOK, Ended, [UploadNext]_uploadVars
    PROVE  Ended'
  <1>1. ASSUME TooSlow PROVE Ended'
    BY <1>1
    DEF TooSlow, Finishes, attemptVars, worldVars, nasVars, UploadTypeOK, Ended, Stages,
        Results
  <1>2. ASSUME StartAttempt PROVE Ended'
    BY <1>2
    DEF StartAttempt, Finishes, Goes, SnapshotHolds, attemptVars, worldVars, nasVars,
        UploadTypeOK, Ended, Stages, Results
  <1>3. ASSUME BodyEnds PROVE Ended'
    BY <1>3
    DEF BodyEnds, Goes, SourceIntact, attemptVars, worldVars, nasVars, UploadTypeOK,
        Ended, Stages, Results
  <1>4. ASSUME BodyRefused PROVE Ended'
    BY <1>4
    DEF BodyRefused, FailsFor, Finishes, Leftovers, Cut, Committed, attemptVars,
        worldVars, nasVars, UploadTypeOK, Ended, Stages, Results
  <1>5. ASSUME SendCancelled PROVE Ended'
    BY <1>5
    DEF SendCancelled, FailsFor, Finishes, Abandoned, Leftovers, Cut, Committed,
        attemptVars, worldVars, nasVars, UploadTypeOK, Ended, Stages, Results
  <1>6. ASSUME SendLost PROVE Ended'
    BY <1>6
    DEF SendLost, Goes, Abandoned, Leftovers, Cut, Committed, attemptVars, worldVars,
        nasVars, UploadTypeOK, Ended, Stages, Results
  <1>7. ASSUME NEW c \in {"ceiling", "refused"}, SendFails(c) PROVE Ended'
    BY <1>7
    DEF SendFails, FailsFor, Finishes, Abandoned, Leftovers, Cut, Committed, attemptVars,
        worldVars, nasVars, UploadTypeOK, Ended, Stages, Results
  <1>8. ASSUME SessionRefused PROVE Ended'
    BY <1>8
    DEF SessionRefused, FailsFor, Finishes, Goes, RecoversOnce, Restarts, attemptVars, worldVars,
        nasVars, UploadTypeOK, Ended, Stages, Results
  <1>9. ASSUME SendSucceeds PROVE Ended'
    BY <1>9
    DEF SendSucceeds, Goes, Leftovers, Cut, Committed, attemptVars, worldVars, nasVars,
        UploadTypeOK, Ended, Stages, Results
  <1>10. ASSUME Verify PROVE Ended'
    BY <1>10
    DEF Verify, Finishes, Goes, SnapshotHolds, BytesSent, NotesTime, attemptVars,
        worldVars, nasVars, UploadTypeOK, Ended, Stages, Results
  <1>11. ASSUME VerifyDigest PROVE Ended'
    BY <1>11
    DEF VerifyDigest, Finishes, DigestMatches, attemptVars, worldVars, nasVars,
        UploadTypeOK, Ended, Stages, Results
  <1>12. ASSUME RetryProbe PROVE Ended'
    BY <1>12
    DEF RetryProbe, Finishes, Goes, SnapshotHolds, SendsAgain, EarlierLooksLanded,
        attemptVars, worldVars, nasVars, UploadTypeOK, Ended, Stages, Results
  <1>13. ASSUME RetryDigest PROVE Ended'
    BY <1>13
    DEF RetryDigest, Finishes, Goes, SendsAgain, DigestMatches, NotesTime, attemptVars,
        worldVars, nasVars, UploadTypeOK, Ended, Stages, Results
  <1>14. ASSUME LastProbe PROVE Ended'
    BY <1>14
    DEF LastProbe, FailsFor, Finishes, Goes, LooksComplete, attemptVars, worldVars,
        nasVars, UploadTypeOK, Ended, Stages, Results
  <1>15. ASSUME LastDigest PROVE Ended'
    BY <1>15
    DEF LastDigest, FailsFor, Finishes, Goes, SendsAgain, DigestMatches, NotesTime,
        OneMore, attemptVars, worldVars, nasVars, UploadTypeOK, Ended, Stages, Results
  <1>16. ASSUME NEW s \in {"rewritten", "edited"}, EditSource(s) PROVE Ended'
    BY <1>16
    DEF EditSource, attemptVars, worldVars, nasVars, UploadTypeOK, Ended, Stages, Results
  <1>17. ASSUME NEW b \in late, LateCommit(b) PROVE Ended'
    BY <1>17
    DEF LateCommit, Committed, attemptVars, worldVars, nasVars, UploadTypeOK, Ended,
        Stages, Results
  <1>18. ASSUME Cancel PROVE Ended'
    BY <1>18
    DEF Cancel, attemptVars, worldVars, nasVars, UploadTypeOK, Ended, Stages, Results
  <1>19. ASSUME UNCHANGED uploadVars PROVE Ended'
    BY <1>19
    DEF uploadVars, attemptVars, worldVars, nasVars, UploadTypeOK, Ended, Stages, Results
  <1>20. ASSUME CheckRefused PROVE Ended'
    BY <1>20
    DEF CheckRefused, Restarts, Goes, SnapshotHolds, BytesSent, attemptVars, worldVars, nasVars,
        UploadTypeOK, Ended, Stages, Results
  <1> QED
    BY <1>1, <1>2, <1>3, <1>4, <1>5, <1>6, <1>7, <1>8, <1>9, <1>10, <1>11, <1>12, <1>13,
       <1>14, <1>15, <1>16, <1>17, <1>18, <1>19, <1>20
    DEF UploadNext, UploadStep, UploadOver

(* An upload reported done is at its destination with the planned body.    *)
LEMMA LandedStep ==
    ASSUME UploadTypeOK, BodiesWhole, LookHolds, Ended, OkMeansLanded, [UploadNext]_uploadVars
    PROVE  OkMeansLanded'
  <1>1. ASSUME TooSlow PROVE OkMeansLanded'
    BY <1>1
    DEF TooSlow, Finishes, attemptVars, worldVars, nasVars, UploadTypeOK, Ended,
        BodiesWhole, OnlyPlannedBodies, LookHolds, OkMeansLanded, Stages, Sent, Files
  <1>2. ASSUME StartAttempt PROVE OkMeansLanded'
    BY <1>2
    DEF StartAttempt, Finishes, Goes, SnapshotHolds, attemptVars, worldVars, nasVars,
        UploadTypeOK, Ended, BodiesWhole, OnlyPlannedBodies, LookHolds, OkMeansLanded,
        Stages, Sent, Files
  <1>3. ASSUME BodyEnds PROVE OkMeansLanded'
    BY <1>3
    DEF BodyEnds, Goes, SourceIntact, attemptVars, worldVars, nasVars, UploadTypeOK,
        Ended, BodiesWhole, OnlyPlannedBodies, LookHolds, OkMeansLanded, Stages, Sent, Files
  <1>4. ASSUME BodyRefused PROVE OkMeansLanded'
    BY <1>4
    DEF BodyRefused, FailsFor, Finishes, Leftovers, Cut, Committed, attemptVars,
        worldVars, nasVars, UploadTypeOK, Ended, BodiesWhole, OnlyPlannedBodies,
        LookHolds, OkMeansLanded, Stages, Sent, Files
  <1>5. ASSUME SendCancelled PROVE OkMeansLanded'
    BY <1>5
    DEF SendCancelled, FailsFor, Finishes, Abandoned, Leftovers, Cut, Committed,
        attemptVars, worldVars, nasVars, UploadTypeOK, Ended, BodiesWhole,
        OnlyPlannedBodies, LookHolds, OkMeansLanded, Stages, Sent, Files
  <1>6. ASSUME SendLost PROVE OkMeansLanded'
    BY <1>6
    DEF SendLost, Goes, Abandoned, Leftovers, Cut, Committed, attemptVars, worldVars,
        nasVars, UploadTypeOK, Ended, BodiesWhole, OnlyPlannedBodies, LookHolds,
        OkMeansLanded, Stages, Sent, Files
  <1>7. ASSUME NEW c \in {"ceiling", "refused"}, SendFails(c) PROVE OkMeansLanded'
    BY <1>7
    DEF SendFails, FailsFor, Finishes, Abandoned, Leftovers, Cut, Committed, attemptVars,
        worldVars, nasVars, UploadTypeOK, Ended, BodiesWhole, OnlyPlannedBodies,
        LookHolds, OkMeansLanded, Stages, Sent, Files
  <1>8. ASSUME SessionRefused PROVE OkMeansLanded'
    BY <1>8
    DEF SessionRefused, FailsFor, Finishes, Goes, RecoversOnce, Restarts, attemptVars, worldVars,
        nasVars, UploadTypeOK, Ended, BodiesWhole, OnlyPlannedBodies, LookHolds,
        OkMeansLanded, Stages, Sent, Files
  <1>9. ASSUME SendSucceeds PROVE OkMeansLanded'
    BY <1>9
    DEF SendSucceeds, Goes, Leftovers, Cut, Committed, attemptVars, worldVars, nasVars,
        UploadTypeOK, Ended, BodiesWhole, OnlyPlannedBodies, LookHolds, OkMeansLanded,
        Stages, Sent, Files
  <1>10. ASSUME Verify PROVE OkMeansLanded'
    BY <1>10
    DEF Verify, Finishes, Goes, SnapshotHolds, BytesSent, NotesTime, attemptVars,
        worldVars, nasVars, UploadTypeOK, Ended, BodiesWhole, OnlyPlannedBodies,
        LookHolds, OkMeansLanded, Stages, Sent, Files
  <1>11. ASSUME VerifyDigest PROVE OkMeansLanded'
    BY <1>11
    DEF VerifyDigest, Finishes, DigestMatches, attemptVars, worldVars, nasVars,
        UploadTypeOK, Ended, BodiesWhole, OnlyPlannedBodies, LookHolds, OkMeansLanded,
        Stages, Sent, Files
  <1>12. ASSUME RetryProbe PROVE OkMeansLanded'
    BY <1>12
    DEF RetryProbe, Finishes, Goes, SnapshotHolds, SendsAgain, EarlierLooksLanded,
        attemptVars, worldVars, nasVars, UploadTypeOK, Ended, BodiesWhole,
        OnlyPlannedBodies, LookHolds, OkMeansLanded, Stages, Sent, Files
  <1>13. ASSUME RetryDigest PROVE OkMeansLanded'
    BY <1>13
    DEF RetryDigest, Finishes, Goes, SendsAgain, DigestMatches, NotesTime, attemptVars,
        worldVars, nasVars, UploadTypeOK, Ended, BodiesWhole, OnlyPlannedBodies,
        LookHolds, OkMeansLanded, Stages, Sent, Files
  <1>14. ASSUME LastProbe PROVE OkMeansLanded'
    BY <1>14
    DEF LastProbe, FailsFor, Finishes, Goes, LooksComplete, attemptVars, worldVars,
        nasVars, UploadTypeOK, Ended, BodiesWhole, OnlyPlannedBodies, LookHolds,
        OkMeansLanded, Stages, Sent, Files
  <1>15. ASSUME LastDigest PROVE OkMeansLanded'
    BY <1>15
    DEF LastDigest, FailsFor, Finishes, Goes, SendsAgain, DigestMatches, NotesTime,
        OneMore, attemptVars, worldVars, nasVars, UploadTypeOK, Ended, BodiesWhole,
        OnlyPlannedBodies, LookHolds, OkMeansLanded, Stages, Sent, Files
  <1>16. ASSUME NEW s \in {"rewritten", "edited"}, EditSource(s) PROVE OkMeansLanded'
    BY <1>16
    DEF EditSource, attemptVars, worldVars, nasVars, UploadTypeOK, Ended, BodiesWhole,
        OnlyPlannedBodies, LookHolds, OkMeansLanded, Stages, Sent, Files
  <1>17. ASSUME NEW b \in late, LateCommit(b) PROVE OkMeansLanded'
    BY <1>17
    DEF LateCommit, Committed, attemptVars, worldVars, nasVars, UploadTypeOK, Ended,
        BodiesWhole, OnlyPlannedBodies, LookHolds, OkMeansLanded, Stages, Sent, Files
  <1>18. ASSUME Cancel PROVE OkMeansLanded'
    BY <1>18
    DEF Cancel, attemptVars, worldVars, nasVars, UploadTypeOK, Ended, BodiesWhole,
        OnlyPlannedBodies, LookHolds, OkMeansLanded, Stages, Sent, Files
  <1>19. ASSUME UNCHANGED uploadVars PROVE OkMeansLanded'
    BY <1>19
    DEF uploadVars, attemptVars, worldVars, nasVars, UploadTypeOK, Ended, BodiesWhole,
        OnlyPlannedBodies, LookHolds, OkMeansLanded, Stages, Sent, Files
  <1>20. ASSUME CheckRefused PROVE OkMeansLanded'
    BY <1>20
    DEF CheckRefused, Restarts, Goes, SnapshotHolds, BytesSent, attemptVars, worldVars, nasVars,
        UploadTypeOK, Ended, BodiesWhole, OnlyPlannedBodies, LookHolds, OkMeansLanded, Stages, Sent, Files
  <1> QED
    BY <1>1, <1>2, <1>3, <1>4, <1>5, <1>6, <1>7, <1>8, <1>9, <1>10, <1>11, <1>12, <1>13,
       <1>14, <1>15, <1>16, <1>17, <1>18, <1>19, <1>20
    DEF UploadNext, UploadStep, UploadOver

(* An upload reported done has the planned time there, or it is noted that *)
(* it has not.                                                             *)
LEMMA TimeStep ==
    ASSUME UploadTypeOK, LookHolds, Ended, OkTimeSettled, [UploadNext]_uploadVars
    PROVE  OkTimeSettled'
  <1>1. ASSUME TooSlow PROVE OkTimeSettled'
    BY <1>1
    DEF TooSlow, Finishes, attemptVars, worldVars, nasVars, UploadTypeOK, Ended,
        LookHolds, OkTimeSettled, Stages, Sent, Files
  <1>2. ASSUME StartAttempt PROVE OkTimeSettled'
    BY <1>2
    DEF StartAttempt, Finishes, Goes, SnapshotHolds, attemptVars, worldVars, nasVars,
        UploadTypeOK, Ended, LookHolds, OkTimeSettled, Stages, Sent, Files
  <1>3. ASSUME BodyEnds PROVE OkTimeSettled'
    BY <1>3
    DEF BodyEnds, Goes, SourceIntact, attemptVars, worldVars, nasVars, UploadTypeOK,
        Ended, LookHolds, OkTimeSettled, Stages, Sent, Files
  <1>4. ASSUME BodyRefused PROVE OkTimeSettled'
    BY <1>4
    DEF BodyRefused, FailsFor, Finishes, Leftovers, Cut, Committed, attemptVars,
        worldVars, nasVars, UploadTypeOK, Ended, LookHolds, OkTimeSettled, Stages, Sent,
        Files
  <1>5. ASSUME SendCancelled PROVE OkTimeSettled'
    BY <1>5
    DEF SendCancelled, FailsFor, Finishes, Abandoned, Leftovers, Cut, Committed,
        attemptVars, worldVars, nasVars, UploadTypeOK, Ended, LookHolds, OkTimeSettled,
        Stages, Sent, Files
  <1>6. ASSUME SendLost PROVE OkTimeSettled'
    BY <1>6
    DEF SendLost, Goes, Abandoned, Leftovers, Cut, Committed, attemptVars, worldVars,
        nasVars, UploadTypeOK, Ended, LookHolds, OkTimeSettled, Stages, Sent, Files
  <1>7. ASSUME NEW c \in {"ceiling", "refused"}, SendFails(c) PROVE OkTimeSettled'
    BY <1>7
    DEF SendFails, FailsFor, Finishes, Abandoned, Leftovers, Cut, Committed, attemptVars,
        worldVars, nasVars, UploadTypeOK, Ended, LookHolds, OkTimeSettled, Stages, Sent,
        Files
  <1>8. ASSUME SessionRefused PROVE OkTimeSettled'
    BY <1>8
    DEF SessionRefused, FailsFor, Finishes, Goes, RecoversOnce, Restarts, attemptVars, worldVars,
        nasVars, UploadTypeOK, Ended, LookHolds, OkTimeSettled, Stages, Sent, Files
  <1>9. ASSUME SendSucceeds PROVE OkTimeSettled'
    BY <1>9
    DEF SendSucceeds, Goes, Leftovers, Cut, Committed, attemptVars, worldVars, nasVars,
        UploadTypeOK, Ended, LookHolds, OkTimeSettled, Stages, Sent, Files
  <1>10. ASSUME Verify PROVE OkTimeSettled'
    BY <1>10
    DEF Verify, Finishes, Goes, SnapshotHolds, BytesSent, NotesTime, attemptVars,
        worldVars, nasVars, UploadTypeOK, Ended, LookHolds, OkTimeSettled, Stages, Sent,
        Files
  <1>11. ASSUME VerifyDigest PROVE OkTimeSettled'
    BY <1>11
    DEF VerifyDigest, Finishes, DigestMatches, attemptVars, worldVars, nasVars,
        UploadTypeOK, Ended, LookHolds, OkTimeSettled, Stages, Sent, Files
  <1>12. ASSUME RetryProbe PROVE OkTimeSettled'
    BY <1>12
    DEF RetryProbe, Finishes, Goes, SnapshotHolds, SendsAgain, EarlierLooksLanded,
        attemptVars, worldVars, nasVars, UploadTypeOK, Ended, LookHolds, OkTimeSettled,
        Stages, Sent, Files
  <1>13. ASSUME RetryDigest PROVE OkTimeSettled'
    BY <1>13
    DEF RetryDigest, Finishes, Goes, SendsAgain, DigestMatches, NotesTime, attemptVars,
        worldVars, nasVars, UploadTypeOK, Ended, LookHolds, OkTimeSettled, Stages, Sent,
        Files
  <1>14. ASSUME LastProbe PROVE OkTimeSettled'
    BY <1>14
    DEF LastProbe, FailsFor, Finishes, Goes, LooksComplete, attemptVars, worldVars,
        nasVars, UploadTypeOK, Ended, LookHolds, OkTimeSettled, Stages, Sent, Files
  <1>15. ASSUME LastDigest PROVE OkTimeSettled'
    BY <1>15
    DEF LastDigest, FailsFor, Finishes, Goes, SendsAgain, DigestMatches, NotesTime,
        OneMore, attemptVars, worldVars, nasVars, UploadTypeOK, Ended, LookHolds,
        OkTimeSettled, Stages, Sent, Files
  <1>16. ASSUME NEW s \in {"rewritten", "edited"}, EditSource(s) PROVE OkTimeSettled'
    BY <1>16
    DEF EditSource, attemptVars, worldVars, nasVars, UploadTypeOK, Ended, LookHolds,
        OkTimeSettled, Stages, Sent, Files
  <1>17. ASSUME NEW b \in late, LateCommit(b) PROVE OkTimeSettled'
    BY <1>17
    DEF LateCommit, Committed, attemptVars, worldVars, nasVars, UploadTypeOK, Ended,
        LookHolds, OkTimeSettled, Stages, Sent, Files
  <1>18. ASSUME Cancel PROVE OkTimeSettled'
    BY <1>18
    DEF Cancel, attemptVars, worldVars, nasVars, UploadTypeOK, Ended, LookHolds,
        OkTimeSettled, Stages, Sent, Files
  <1>19. ASSUME UNCHANGED uploadVars PROVE OkTimeSettled'
    BY <1>19
    DEF uploadVars, attemptVars, worldVars, nasVars, UploadTypeOK, Ended, LookHolds,
        OkTimeSettled, Stages, Sent, Files
  <1>20. ASSUME CheckRefused PROVE OkTimeSettled'
    BY <1>20
    DEF CheckRefused, Restarts, Goes, SnapshotHolds, BytesSent, attemptVars, worldVars, nasVars,
        UploadTypeOK, Ended, LookHolds, OkTimeSettled, Stages, Sent, Files
  <1> QED
    BY <1>1, <1>2, <1>3, <1>4, <1>5, <1>6, <1>7, <1>8, <1>9, <1>10, <1>11, <1>12, <1>13,
       <1>14, <1>15, <1>16, <1>17, <1>18, <1>19, <1>20
    DEF UploadNext, UploadStep, UploadOver

(* Once DSM answered that a destination was torn, an attempt ends done or  *)
(* names the tear, or its verification starts the upload afresh.           *)
LEMMA TearStep ==
    ASSUME UploadTypeOK, LookHolds, AttemptsCounted, Ended, [UploadNext]_uploadVars PROVE tear => TearKept
  <1>1. ASSUME TooSlow PROVE tear => TearKept
    BY <1>1
    DEF TooSlow, Finishes, attemptVars, worldVars, nasVars, UploadTypeOK, AttemptsCounted, Ended, TearKept, Stages,
        Results
  <1>2. ASSUME StartAttempt PROVE tear => TearKept
    BY <1>2
    DEF StartAttempt, Finishes, Goes, SnapshotHolds, attemptVars, worldVars, nasVars,
        UploadTypeOK, AttemptsCounted, Ended, TearKept, Stages, Results
  <1>3. ASSUME BodyEnds PROVE tear => TearKept
    BY <1>3
    DEF BodyEnds, Goes, SourceIntact, attemptVars, worldVars, nasVars, UploadTypeOK,
        AttemptsCounted, Ended, TearKept, Stages, Results
  <1>4. ASSUME BodyRefused PROVE tear => TearKept
    BY <1>4
    DEF BodyRefused, FailsFor, Finishes, Leftovers, Cut, Committed, attemptVars,
        worldVars, nasVars, UploadTypeOK, AttemptsCounted, Ended, TearKept, Stages, Results
  <1>5. ASSUME SendCancelled PROVE tear => TearKept
    BY <1>5
    DEF SendCancelled, FailsFor, Finishes, Abandoned, Leftovers, Cut, Committed,
        attemptVars, worldVars, nasVars, UploadTypeOK, AttemptsCounted, Ended, TearKept, Stages, Results
  <1>6. ASSUME SendLost PROVE tear => TearKept
    BY <1>6
    DEF SendLost, Goes, Abandoned, Leftovers, Cut, Committed, attemptVars, worldVars,
        nasVars, UploadTypeOK, AttemptsCounted, Ended, TearKept, Stages, Results
  <1>7. ASSUME NEW c \in {"ceiling", "refused"}, SendFails(c) PROVE tear => TearKept
    BY <1>7
    DEF SendFails, FailsFor, Finishes, Abandoned, Leftovers, Cut, Committed, attemptVars,
        worldVars, nasVars, UploadTypeOK, AttemptsCounted, Ended, TearKept, Stages, Results
  <1>8. ASSUME SessionRefused PROVE tear => TearKept
    BY <1>8
    DEF SessionRefused, FailsFor, Finishes, Goes, RecoversOnce, Restarts, attemptVars, worldVars,
        nasVars, UploadTypeOK, AttemptsCounted, Ended, TearKept, Stages, Results
  <1>9. ASSUME SendSucceeds PROVE tear => TearKept
    BY <1>9
    DEF SendSucceeds, Goes, Leftovers, Cut, Committed, attemptVars, worldVars, nasVars,
        UploadTypeOK, AttemptsCounted, Ended, TearKept, Stages, Results
  <1>10. ASSUME Verify PROVE tear => TearKept
    BY <1>10
    DEF Verify, Finishes, Goes, SnapshotHolds, BytesSent, NotesTime, attemptVars,
        worldVars, nasVars, UploadTypeOK, AttemptsCounted, Ended, TearKept, Stages, Results
  <1>11. ASSUME VerifyDigest PROVE tear => TearKept
    BY <1>11
    DEF VerifyDigest, Finishes, DigestMatches, attemptVars, worldVars, nasVars,
        UploadTypeOK, AttemptsCounted, Ended, TearKept, Stages, Results
  <1>12. ASSUME RetryProbe PROVE tear => TearKept
    BY <1>12
    DEF RetryProbe, Finishes, Goes, SnapshotHolds, SendsAgain, EarlierLooksLanded,
        attemptVars, worldVars, nasVars, UploadTypeOK, AttemptsCounted, Ended, TearKept, Stages, Results
  <1>13. ASSUME RetryDigest PROVE tear => TearKept
    BY <1>13
    DEF RetryDigest, Finishes, Goes, SendsAgain, DigestMatches, NotesTime, attemptVars,
        worldVars, nasVars, UploadTypeOK, AttemptsCounted, Ended, TearKept, Stages, Results
  <1>14. ASSUME LastProbe PROVE tear => TearKept
    BY <1>14
    DEF LastProbe, FailsFor, Finishes, Goes, LooksComplete, attemptVars, worldVars,
        nasVars, UploadTypeOK, AttemptsCounted, Ended, TearKept, Stages, Results
  <1>15. ASSUME LastDigest PROVE tear => TearKept
    BY <1>15
    DEF LastDigest, FailsFor, Finishes, Goes, SendsAgain, DigestMatches, NotesTime,
        OneMore, attemptVars, worldVars, nasVars, UploadTypeOK, AttemptsCounted, Ended, TearKept, Stages, Results
  <1>16. ASSUME NEW s \in {"rewritten", "edited"}, EditSource(s) PROVE tear => TearKept
    BY <1>16
    DEF EditSource, attemptVars, worldVars, nasVars, UploadTypeOK, AttemptsCounted, Ended, TearKept, Stages, Results
  <1>17. ASSUME NEW b \in late, LateCommit(b) PROVE tear => TearKept
    BY <1>17
    DEF LateCommit, Committed, attemptVars, worldVars, nasVars, UploadTypeOK, AttemptsCounted, Ended, TearKept,
        Stages, Results
  <1>18. ASSUME Cancel PROVE tear => TearKept
    BY <1>18
    DEF Cancel, attemptVars, worldVars, nasVars, UploadTypeOK, AttemptsCounted, Ended, TearKept, Stages, Results
  <1>19. ASSUME UNCHANGED uploadVars PROVE tear => TearKept
    BY <1>19
    DEF uploadVars, attemptVars, worldVars, nasVars, UploadTypeOK, AttemptsCounted, Ended, TearKept, Stages, Results
  <1>20. ASSUME CheckRefused PROVE tear => TearKept
    BY <1>20
    DEF CheckRefused, Restarts, Goes, SnapshotHolds, BytesSent, attemptVars, worldVars, nasVars,
        UploadTypeOK, AttemptsCounted, Ended, TearKept, Stages, Results, LookHolds
  <1> QED
    BY <1>1, <1>2, <1>3, <1>4, <1>5, <1>6, <1>7, <1>8, <1>9, <1>10, <1>11, <1>12, <1>13,
       <1>14, <1>15, <1>16, <1>17, <1>18, <1>19, <1>20
    DEF UploadNext, UploadStep, UploadOver

(* The invariant of an upload holds in every state, whatever DSM does with *)
(* the bodies it was sent, late ones included.                             *)
THEOREM UploadInvariant == UploadSpec => []UploadInv
  <1>1. UploadInit => UploadInv
    <2> SUFFICES ASSUME UploadInit PROVE UploadInv
      OBVIOUS
    <2>1. dest \in Files /\ (dest.size => dest.there) /\ dest.bytes # "other"
      <3>1. CASE dest = Absent
        BY <3>1, AbsentIsFile DEF Absent
      <3>2. CASE dest \in Files /\ dest.there /\ dest.bytes \in {"old", "planned"}
        BY <3>2
      <3> QED
        BY <3>1, <3>2 DEF UploadInit, Replaceable
    <2>2. UploadTypeOK
      BY <2>1, UploadRetriesAssumption DEF UploadInit, UploadTypeOK, Stages, Sent,
         Results, Causes
    <2>3. BodiesWhole
      BY <2>1 DEF UploadInit, BodiesWhole, OnlyPlannedBodies
    <2>4. AttemptsCounted
      BY UploadRetriesAssumption DEF UploadInit, AttemptsCounted
    <2> QED
      BY <2>2, <2>3, <2>4
      DEF UploadInit, UploadInv, LookHolds, Ended, OkMeansLanded, OkTimeSettled
  <1>2. UploadInv /\ [UploadNext]_uploadVars => UploadInv'
    BY UploadTypeStep, BodiesStep, LookStep, AttemptsStep, EndedStep, LandedStep, TimeStep
    DEF UploadInv
  <1> QED
    BY <1>1, <1>2, PTL DEF UploadSpec

(* An upload that is reported done left the planned bytes and time at its  *)
(* destination, nothing but the planned body is ever committed under a     *)
(* fingerprint, and no more is sent than the retries allow (api.rs, the    *)
(* upload's attempts and its verification).                                *)
THEOREM UploadIsSound == UploadSpec => []UploadSound
  <1>1. UploadInv => UploadSound
    BY UploadRetriesAssumption
    DEF UploadInv, UploadSound, BodiesWhole, UploadTypeOK, AttemptsCounted, SendsBounded
  <1> QED
    BY <1>1, UploadInvariant, PTL

(* A destination that DSM left torn is never followed by a result that     *)
(* does not say so, unless the upload was done after all or starts afresh, *)
(* once, because the session was refused while a success was verified      *)
(* (api.rs, the checks after a failed attempt).                            *)
THEOREM UploadTearNotDropped == UploadSpec => TearNotDropped
  <1>1. UploadInv /\ [UploadNext]_uploadVars => [tear => TearKept]_uploadVars
    BY TearStep DEF UploadInv
  <1> QED
    BY <1>1, UploadInvariant, PTL DEF UploadSpec, TearNotDropped

(***************************************************************************)
(* The rate limit.                                                         *)
(***************************************************************************)
Budget == refill(bucket).available
ClaimStates == [pc : {"idle", "claim", "asleep", "refused"}, wanted : Nat, wait : Int]

RateTypes ==
    /\ rate \in Nat \ {0} /\ ticks \in 0..MaxTicks
    /\ bucket \in [available : Nat, updated : Nat]
    /\ bucket.updated <= ticks
    /\ claims \in [Streams -> ClaimStates]
    /\ granted \in [0..MaxTicks -> Nat]

(* From any time on, what was granted and what is left to grant fit into   *)
(* what was minted since and one second's burst.                           *)
SpentFits ==
    \A t \in 0..ticks :
        (granted[ticks] - GrantedBefore(t)) * TicksPerSecond + Budget
            <= rate * (ticks - t) + CapacityOf(rate)

RateInv == RateTypes /\ SpentFits /\ RateHeld

(* The rounding up of a quotient is no more than a bound on it, and not    *)
(* nothing unless the dividend is.                                         *)
LEMMA CeilBound ==
    ASSUME NEW a \in Nat \ {0}, NEW b \in Nat \ {0}, NEW k \in Nat, a <= k * b
    PROVE  CeilDiv(a, b) \in 1..k
  <1> DEFINE q == (a + b - 1) \div b
  <1>1. q \in Int /\ b * q <= a + b - 1 /\ a + b - 1 < b * q + b
    OBVIOUS
  <1> HIDE DEF q
  <1>2. ASSUME q <= 0 PROVE FALSE
    <2>1. b * q <= 0
      BY <1>1, <1>2
    <2> QED
      BY <1>1, <2>1
  <1>3. ASSUME q >= k + 1 PROVE FALSE
    <2>1. b * q >= b * (k + 1)
      BY <1>1, <1>3
    <2>2. b * (k + 1) = k * b + b
      OBVIOUS
    <2> QED
      BY <1>1, <2>1, <2>2
  <1>4. q \in 1..k
    BY <1>1, <1>2, <1>3
  <1> QED
    BY <1>4 DEF CeilDiv, q

(* The whole bytes in an amount are worth no more than it, and fewer than  *)
(* one are no ticks' worth of a byte.                                      *)
LEMMA WholeBytes ==
    ASSUME NEW m \in Nat
    PROVE  LET n == m \div TicksPerSecond
           IN  n \in Nat /\ n * TicksPerSecond <= m /\ (n = 0 => m < TicksPerSecond)
  BY ThrottleAssumption

(* What there is to grant is never more than a second's worth.             *)
LEMMA BudgetBounds ==
    ASSUME RateTypes
    PROVE  Budget \in Nat /\ Budget <= CapacityOf(rate) /\ CapacityOf(rate) \in Nat
  <1>1. CapacityOf(rate) \in Nat
    BY ThrottleAssumption DEF RateTypes, CapacityOf
  <1>2. bucket.available + (ticks - bucket.updated) * rate \in Nat
    <2>1. ticks - bucket.updated \in Nat /\ rate \in Nat /\ bucket.available \in Nat
      BY ThrottleAssumption DEF RateTypes
    <2> QED
      BY <2>1
  <1> QED
    BY <1>1, <1>2 DEF Budget, refill

(* Time mints no more than the rate, and never more than a second's worth  *)
(* is kept.                                                                *)
LEMMA RateTickStep ==
    ASSUME RateInv, TickAlong
    PROVE  RateInv'
  <1>1. RateTypes'
    BY ThrottleAssumption DEF RateInv, RateTypes, TickAlong
  <1>2. Budget \in Nat /\ Budget <= CapacityOf(rate) /\ CapacityOf(rate) \in Nat
    BY BudgetBounds DEF RateInv
  <1>3. Budget' \in Nat /\ Budget' <= CapacityOf(rate) /\ Budget' <= Budget + rate
    <2> DEFINE minted == bucket.available + (ticks - bucket.updated) * rate
               later == bucket.available + (ticks + 1 - bucket.updated) * rate
    <2>1. ticks - bucket.updated \in Nat /\ rate \in Nat /\ bucket.available \in Nat
          /\ ticks \in Nat /\ bucket.updated \in Nat
      BY ThrottleAssumption DEF RateInv, RateTypes
    <2>2. minted \in Nat /\ later = minted + rate
      <3>1. (ticks - bucket.updated) * rate \in Nat
        BY <2>1
      <3>2. (ticks + 1 - bucket.updated) * rate = (ticks - bucket.updated) * rate + rate
        BY <2>1
      <3> QED
        BY <2>1, <3>1, <3>2
    <2>3. Budget = IF minted > CapacityOf(rate) THEN CapacityOf(rate) ELSE minted
      BY DEF Budget, refill
    <2>4. Budget' = IF later > CapacityOf(rate) THEN CapacityOf(rate) ELSE later
      <3>1. rate' = rate /\ bucket' = bucket /\ ticks' = ticks + 1
        BY DEF TickAlong
      <3> QED
        BY <2>1, <2>2, <3>1, ThrottleAssumption DEF Budget, refill, CapacityOf
    <2> HIDE DEF minted, later
    <2> QED
      BY <1>2, <2>1, <2>2, <2>3, <2>4
  <1>4. /\ ticks' = ticks + 1 /\ ticks \in Nat /\ ticks + 1 \in 0..MaxTicks /\ rate \in Nat
        /\ granted'[ticks + 1] = granted[ticks]
        /\ \A u \in 0..ticks : granted'[u] = granted[u] /\ granted[u] \in Nat
    BY ThrottleAssumption DEF RateInv, RateTypes, TickAlong
  <1>5. \A t \in 0..ticks : GrantedBefore(t)' = GrantedBefore(t) /\ GrantedBefore(t) \in Nat
    BY <1>4 DEF GrantedBefore
  <1>6. \A t : t = ticks + 1 => GrantedBefore(t)' = granted[ticks]
    BY <1>4 DEF GrantedBefore
  <1>7. SpentFits'
    <2> SUFFICES ASSUME NEW t \in 0..(ticks + 1)
                 PROVE  (granted'[ticks + 1] - GrantedBefore(t)') * TicksPerSecond + Budget'
                            <= rate * (ticks + 1 - t) + CapacityOf(rate)
      BY <1>4 DEF SpentFits, TickAlong
    <2>1. CASE t = ticks + 1
      <3>1. granted'[ticks + 1] - GrantedBefore(t)' = 0
        BY <1>4, <1>6, <2>1
      <3> QED
        <4>1. rate * (ticks + 1 - t) = 0 /\ 0 * TicksPerSecond = 0
          BY <1>4, <2>1, ThrottleAssumption
        <4> QED
          BY <1>2, <1>3, <3>1, <4>1
    <2>2. CASE t \in 0..ticks
      <3>1. (granted[ticks] - GrantedBefore(t)) * TicksPerSecond + Budget
               <= rate * (ticks - t) + CapacityOf(rate)
        BY <2>2 DEF RateInv, SpentFits
      <3>2. rate * (ticks + 1 - t) = rate * (ticks - t) + rate /\ rate * (ticks - t) \in Int
        BY <1>4, <2>2
      <3>3. (granted[ticks] - GrantedBefore(t)) * TicksPerSecond \in Int
        BY <1>4, <1>5, <2>2, ThrottleAssumption
      <3> QED
        BY <1>2, <1>3, <1>4, <1>5, <2>2, <3>1, <3>2, <3>3
    <2> QED
      BY <1>4, <2>1, <2>2
  <1>8. RateHeld'
    <2>1. ASSUME NEW u \in 0..(ticks + 1), NEW t \in 0..u
          PROVE  (granted'[u] - GrantedBefore(t)') * TicksPerSecond
                     <= rate * (u - t) + CapacityOf(rate)
      <3>1. CASE u = ticks + 1
        <4>1. (granted'[u] - GrantedBefore(t)') * TicksPerSecond + Budget'
                  <= rate * (u - t) + CapacityOf(rate)
          BY <1>4, <1>7, <3>1 DEF SpentFits, TickAlong
        <4>2. GrantedBefore(t)' \in Nat
          BY <1>4, <1>5, <1>6, <3>1
        <4>3. (granted'[u] - GrantedBefore(t)') * TicksPerSecond \in Int /\ rate * (u - t) \in Int
          BY <1>4, <3>1, <4>2, ThrottleAssumption
        <4> QED
          BY <1>2, <1>3, <4>1, <4>3
      <3>2. CASE u \in 0..ticks
        BY <1>4, <1>5, <3>2 DEF RateInv, RateHeld
      <3> QED
        BY <1>4, <3>1, <3>2
    <2>2. \A s \in Streams : claims'[s].pc = "asleep" => claims'[s].wait \in 1..TicksPerSecond
      BY DEF TickAlong, RateInv, RateHeld
    <2> QED
      BY <1>4, <2>1, <2>2 DEF RateHeld, TickAlong, CapacityOf
  <1> QED
    BY <1>1, <1>7, <1>8 DEF RateInv

(* A claim takes what is there, or is told to wait; what it takes leaves   *)
(* the bucket.                                                             *)
LEMMA ClaimStep ==
    ASSUME RateInv, NEW s \in Streams, Claim(s)
    PROVE  RateInv'
  <1> DEFINE wanted == Smaller(claims[s].wanted, rate)
             available == Budget \div TicksPerSecond
             n == Smaller(available, wanted)
  <1>1. Budget \in Nat /\ Budget <= CapacityOf(rate) /\ CapacityOf(rate) \in Nat
    BY BudgetBounds DEF RateInv
  <1>2. /\ rate \in Nat \ {0} /\ TicksPerSecond \in Nat \ {0} /\ wanted \in Nat /\ wanted <= rate
        /\ ticks \in 0..MaxTicks /\ MaxTicks \in Nat
        /\ refill(bucket) = [available |-> Budget, updated |-> ticks]
    BY ThrottleAssumption DEF RateInv, RateTypes, ClaimStates, Smaller, Budget, refill
  <1>3. /\ available \in Nat /\ available * TicksPerSecond <= Budget
        /\ available = 0 => Budget < TicksPerSecond
    BY <1>1, WholeBytes
  <1>4. n \in Nat /\ n <= available
    BY <1>2, <1>3 DEF Smaller
  <1>5. n * TicksPerSecond \in Nat /\ n * TicksPerSecond <= Budget
    <2>1. n * TicksPerSecond <= available * TicksPerSecond /\ n * TicksPerSecond \in Nat
      BY <1>2, <1>3, <1>4
    <2>2. available * TicksPerSecond \in Nat
      BY <1>2, <1>3
    <2> QED
      BY <1>1, <1>3, <2>1, <2>2
  <1> HIDE DEF available
  <1>6. rate' = rate /\ ticks' = ticks /\ dropped' = dropped
    BY DEF Claim
  <1>7. CASE wanted = 0 \/ available > 0
    <2>1. take(bucket, claims[s].wanted)
            = [ready |-> TRUE, n |-> n,
               b |-> [available |-> Budget - n * TicksPerSecond, updated |-> ticks]]
      <3>1. take(bucket, claims[s].wanted)
              = [ready |-> TRUE, n |-> n,
                 b |-> [refill(bucket) EXCEPT !.available = @ - n * TicksPerSecond]]
        BY <1>7 DEF take, available, Budget
      <3>2. [refill(bucket) EXCEPT !.available = @ - n * TicksPerSecond]
              = [available |-> Budget - n * TicksPerSecond, updated |-> ticks]
        BY <1>2
      <3> QED
        BY <3>1, <3>2
    <2>2. /\ bucket' = [available |-> Budget - n * TicksPerSecond, updated |-> ticks]
          /\ granted' = [granted EXCEPT ![ticks] = @ + n]
          /\ claims' = [claims EXCEPT ![s] = [pc |-> "idle", wanted |-> 0, wait |-> 0]]
      BY <2>1 DEF Claim
    <2>3. Budget - n * TicksPerSecond \in Nat
      BY <1>1, <1>5
    <2>4. RateTypes'
      <3>1. claims' \in [DOMAIN claims -> ClaimStates]
        BY <1>2, <2>2 DEF RateInv, RateTypes, ClaimStates
      <3>2. granted' \in [0..MaxTicks -> Nat]
        BY <1>2, <1>4, <2>2 DEF RateInv, RateTypes
      <3> QED
        BY <1>2, <1>6, <2>2, <2>3, <3>1, <3>2 DEF RateInv, RateTypes
    <2>5. Budget' = Budget - n * TicksPerSecond
      <3>1. Budget - n * TicksPerSecond + (ticks - ticks) * rate = Budget - n * TicksPerSecond
        BY <1>2, <2>3
      <3>2. Budget - n * TicksPerSecond <= CapacityOf(rate)
        BY <1>1, <1>5
      <3> QED
        BY <1>1, <1>2, <1>6, <2>2, <2>3, <3>1, <3>2 DEF Budget, refill, CapacityOf
    <2>6. /\ granted \in [0..MaxTicks -> Nat] /\ granted'[ticks] = granted[ticks] + n
          /\ \A u \in 0..MaxTicks : u # ticks => granted'[u] = granted[u]
      BY <1>2, <2>2 DEF RateInv, RateTypes
    <2>7. \A t \in 0..ticks : GrantedBefore(t)' = GrantedBefore(t) /\ GrantedBefore(t) \in Nat
      BY <1>2, <2>6 DEF GrantedBefore
    <2>8. SpentFits'
      <3> SUFFICES ASSUME NEW t \in 0..ticks
                   PROVE  (granted'[ticks] - GrantedBefore(t)') * TicksPerSecond + Budget'
                              <= rate * (ticks - t) + CapacityOf(rate)
        BY <1>6 DEF SpentFits, CapacityOf
      <3>1. (granted[ticks] - GrantedBefore(t)) * TicksPerSecond + Budget
               <= rate * (ticks - t) + CapacityOf(rate)
        BY DEF RateInv, SpentFits
      <3>2. (granted[ticks] + n - GrantedBefore(t)) * TicksPerSecond
               = (granted[ticks] - GrantedBefore(t)) * TicksPerSecond + n * TicksPerSecond
        BY <1>2, <1>4, <2>6, <2>7
      <3>3. (granted[ticks] - GrantedBefore(t)) * TicksPerSecond \in Int
        BY <1>2, <2>6, <2>7
      <3>4. rate * (ticks - t) \in Int
        BY <1>2
      <3>5. (granted'[ticks] - GrantedBefore(t)') * TicksPerSecond
               = (granted[ticks] - GrantedBefore(t)) * TicksPerSecond + n * TicksPerSecond
        <4>1. granted'[ticks] - GrantedBefore(t)' = granted[ticks] + n - GrantedBefore(t)
          BY <1>2, <1>4, <2>6, <2>7
        <4> QED
          BY <3>2, <4>1
      <3> DEFINE x == (granted[ticks] - GrantedBefore(t)) * TicksPerSecond
                 y == n * TicksPerSecond
                 z == rate * (ticks - t)
      <3>6. x \in Int /\ y \in Int /\ z \in Int /\ x + Budget <= z + CapacityOf(rate)
        BY <1>5, <3>1, <3>3, <3>4
      <3>7. x + y + Budget' <= z + CapacityOf(rate)
        <4> HIDE DEF x, y, z
        <4>1. Budget' = Budget - y
          BY <2>5 DEF y
        <4> QED
          BY <1>1, <3>6, <4>1
      <3> QED
        BY <3>5, <3>7
    <2>9. RateHeld'
      <3>1. ASSUME NEW u \in 0..ticks, NEW t \in 0..u
            PROVE  (granted'[u] - GrantedBefore(t)') * TicksPerSecond
                       <= rate * (u - t) + CapacityOf(rate)
        <4>1. CASE u = ticks
          <5>1. (granted'[u] - GrantedBefore(t)') * TicksPerSecond + Budget'
                    <= rate * (u - t) + CapacityOf(rate)
            BY <1>6, <2>8, <4>1 DEF SpentFits, CapacityOf
          <5>2. (granted'[u] - GrantedBefore(t)') * TicksPerSecond \in Int /\ rate * (u - t) \in Int
            BY <1>2, <1>4, <2>6, <2>7, <4>1
          <5> QED
            BY <1>1, <2>3, <2>5, <5>1, <5>2
        <4>2. CASE u # ticks
          <5>1. (granted[u] - GrantedBefore(t)) * TicksPerSecond <= rate * (u - t) + CapacityOf(rate)
            BY DEF RateInv, RateHeld
          <5>2. granted'[u] = granted[u] /\ GrantedBefore(t)' = GrantedBefore(t)
            BY <1>2, <2>6, <2>7, <4>2
          <5> QED
            BY <5>1, <5>2
        <4> QED
          BY <4>1, <4>2
      <3>2. \A r \in Streams : claims'[r].pc = "asleep" => claims'[r].wait \in 1..TicksPerSecond
        BY <2>2 DEF RateInv, RateTypes, RateHeld
      <3> QED
        BY <1>6, <3>1, <3>2 DEF RateHeld, CapacityOf
    <2> QED
      BY <2>4, <2>8, <2>9 DEF RateInv
  <1>8. CASE ~(wanted = 0 \/ available > 0)
    <2> DEFINE short == wanted * TicksPerSecond - Budget
    <2>1. take(bucket, claims[s].wanted)
            = [ready |-> FALSE, n |-> CeilDiv(short, rate),
               b |-> [available |-> Budget, updated |-> ticks]]
      BY <1>2, <1>8 DEF take, available
    <2>2. CeilDiv(short, rate) \in 1..TicksPerSecond
      <3>1. wanted >= 1 /\ Budget < TicksPerSecond
        BY <1>2, <1>3, <1>8
      <3>2. wanted * TicksPerSecond >= TicksPerSecond /\ wanted * TicksPerSecond \in Nat
        BY <1>2, <3>1
      <3>3. wanted * TicksPerSecond <= TicksPerSecond * rate /\ TicksPerSecond * rate \in Nat
        BY <1>2
      <3>4. short \in Nat \ {0} /\ short <= TicksPerSecond * rate
        BY <1>1, <1>2, <3>1, <3>2, <3>3
      <3> HIDE DEF short
      <3> QED
        BY <1>2, <3>4, CeilBound
    <2> HIDE DEF short
    <2>3. /\ bucket' = [available |-> Budget, updated |-> ticks]
          /\ granted' = granted
          /\ claims' = [claims EXCEPT ![s].pc = "asleep", ![s].wait = CeilDiv(short, rate)]
      BY <2>1 DEF Claim
    <2>4. RateTypes'
      <3>1. CeilDiv(short, rate) \in Int
        BY <1>2, <2>2
      <3>2. claims' \in [Streams -> ClaimStates]
        BY <2>3, <3>1 DEF RateInv, RateTypes, ClaimStates
      <3> QED
        BY <1>1, <1>2, <1>6, <2>3, <3>2 DEF RateInv, RateTypes
    <2>5. Budget' = Budget
      <3>1. Budget + (ticks - ticks) * rate = Budget
        BY <1>1, <1>2
      <3> QED
        BY <1>1, <1>2, <1>6, <2>3, <3>1 DEF Budget, refill, CapacityOf
    <2>6. \A t \in Nat : GrantedBefore(t)' = GrantedBefore(t)
      BY <2>3 DEF GrantedBefore
    <2>7. SpentFits'
      BY <1>2, <1>6, <2>3, <2>5, <2>6 DEF RateInv, SpentFits, CapacityOf
    <2>8. RateHeld'
      <3>1. \A u \in 0..ticks : \A t \in 0..u :
               (granted'[u] - GrantedBefore(t)') * TicksPerSecond
                   <= rate * (u - t) + CapacityOf(rate)
        BY <1>2, <2>3, <2>6 DEF RateInv, RateHeld
      <3>2. \A r \in Streams : claims'[r].pc = "asleep" => claims'[r].wait \in 1..TicksPerSecond
        BY <2>2, <2>3 DEF RateInv, RateTypes, RateHeld
      <3> QED
        BY <1>6, <3>1, <3>2 DEF RateHeld, CapacityOf
    <2> QED
      BY <2>4, <2>7, <2>8 DEF RateInv
  <1> QED
    BY <1>7, <1>8

(* A step that spends no budget and lets no time pass keeps all of it.     *)
LEMMA IdleStep ==
    ASSUME RateInv, UNCHANGED <<rate, bucket, ticks, granted>>,
           claims' \in [Streams -> ClaimStates],
           \A s \in Streams : claims'[s].pc = "asleep" => claims'[s] = claims[s]
    PROVE  RateInv'
  <1>1. RateTypes'
    BY DEF RateInv, RateTypes
  <1>2. Budget' = Budget /\ \A t \in Nat : GrantedBefore(t)' = GrantedBefore(t)
    BY DEF Budget, refill, CapacityOf, GrantedBefore
  <1>3. SpentFits'
    BY <1>2, ThrottleAssumption DEF RateInv, RateTypes, SpentFits, CapacityOf
  <1>4. RateHeld'
    BY <1>2, ThrottleAssumption DEF RateInv, RateTypes, RateHeld, CapacityOf
  <1> QED
    BY <1>1, <1>3, <1>4 DEF RateInv

(* The invariant of the rate limit holds in every state: whatever stretch  *)
(* of time is looked at, what was granted in it and what is left in the    *)
(* bucket fit into what the limit allows for it.                           *)
THEOREM RateInvariant == ThrottleSpec => []RateInv
  <1>1. (\E r \in Nat \ {0} : ThrottleInit(r)) => RateInv
    <2> SUFFICES ASSUME NEW r \in Nat \ {0}, ThrottleInit(r) PROVE RateInv
      OBVIOUS
    <2>1. RateTypes
      <3>1. CapacityOf(r) \in Nat
        BY ThrottleAssumption DEF CapacityOf
      <3> QED
        BY <3>1, ThrottleAssumption DEF ThrottleInit, RateTypes, ClaimStates
    <2>2. Budget <= CapacityOf(rate) /\ Budget \in Nat /\ CapacityOf(rate) \in Nat
      BY <2>1, BudgetBounds
    <2>3. ticks = 0 /\ granted[0] = 0 /\ GrantedBefore(0) = 0
      BY ThrottleAssumption DEF ThrottleInit, GrantedBefore
    <2>4. rate * (0 - 0) = 0 /\ (0 - 0) * TicksPerSecond = 0
      BY <2>1, ThrottleAssumption DEF RateTypes
    <2>5. SpentFits
      BY <2>2, <2>3, <2>4 DEF SpentFits
    <2>6. RateHeld
      BY <2>2, <2>3, <2>4 DEF RateHeld, ThrottleInit
    <2> QED
      BY <2>1, <2>5, <2>6 DEF RateInv
  <1>2. RateInv /\ [ThrottleNext]_throttleVars => RateInv'
    <2> SUFFICES ASSUME RateInv, [ThrottleNext]_throttleVars PROVE RateInv'
      OBVIOUS
    <2>1. ASSUME NEW s \in Streams, NEW n \in ChunkSizes, Ask(s, n) PROVE RateInv'
      BY <2>1, IdleStep, ThrottleAssumption DEF Ask, RateInv, RateTypes, ClaimStates
    <2>2. ASSUME NEW s \in Streams, ClaimRefused(s) PROVE RateInv'
      BY <2>2, IdleStep DEF ClaimRefused, RateInv, RateTypes, ClaimStates
    <2>3. ASSUME NEW s \in Streams, Claim(s) PROVE RateInv'
      BY <2>3, ClaimStep
    <2>4. ASSUME NEW s \in Streams, Wake(s) PROVE RateInv'
      BY <2>4, IdleStep DEF Wake, RateInv, RateTypes, ClaimStates
    <2>5. ASSUME TickAlong PROVE RateInv'
      BY <2>5, RateTickStep
    <2>6. ASSUME Drop PROVE RateInv'
      BY <2>6, IdleStep DEF Drop, RateInv, RateTypes
    <2>7. ASSUME UNCHANGED throttleVars PROVE RateInv'
      BY <2>7, IdleStep DEF throttleVars, RateInv, RateTypes
    <2> QED
      BY <2>1, <2>2, <2>3, <2>4, <2>5, <2>6, <2>7 DEF ThrottleNext, ThrottleOver
  <1> QED
    BY <1>1, <1>2, PTL DEF ThrottleSpec

(* Over any stretch of time all uploads together send no more than the     *)
(* limit allows and one second's burst, and an upload that has to wait is  *)
(* told to wait, for no longer than a second (api.rs TokenBucket and       *)
(* UploadThrottle).                                                        *)
THEOREM UploadRateHeld == ThrottleSpec => []RateHeld
  BY RateInvariant, PTL DEF RateInv
=============================================================================
