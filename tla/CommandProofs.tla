---------------------------- MODULE CommandProofs ----------------------------
(***************************************************************************)
(* Proofs about the ways the program is entered, for any command lines,    *)
(* people, NASes, embedding programs, connections and supervised           *)
(* processes, and any number of faults and edits.                          *)
(***************************************************************************)
EXTENDS MCCommand, SequenceTheorems, TLAPS

(***************************************************************************)
(* A command's sessions and logins.                                        *)
(***************************************************************************)
Logged == {"confirm", "session", "destination", "plan", "mutate", "probe.create", "probe.upload",
           "probe.copydir", "probe.copy",
           "clean.copy", "clean.copydir", "clean.file", "clean.dir", "look", "logout"}
Killed == pc = "done" /\ exit = "killed"

(* A session is that of the job at hand or its logout went unanswered.     *)
LogoutInv == ~Killed => sessions \subseteq lostLogouts \cup (IF pc \in Logged THEN {MainSession} ELSE {})

Login(otp, prompted, generated, regenerated, noted, sent, refused) ==
    [otp |-> otp, prompted |-> prompted, generated |-> generated, regenerated |-> regenerated,
     failed |-> noted, sent |-> sent, refused |-> refused]

LoginShape(l) ==
    /\ l = Login(l.otp, l.prompted, l.generated, l.regenerated, l.failed, l.sent, l.refused)
    /\ l.prompted \in BOOLEAN /\ l.generated \in BOOLEAN /\ l.regenerated \in BOOLEAN /\ l.sent \in Nat

(* How far a login has come bounds what it has sent, and only a code that  *)
(* the user typed may have been refused before.                            *)
InProgress(l) ==
    /\ LoginShape(l)
    /\ l.sent <= (IF l.prompted THEN 3 ELSE IF l.regenerated THEN 2 ELSE IF l.generated THEN 1 ELSE 0)
    /\ l.prompted => l.otp = {TypedCode} /\ ~l.generated
    /\ l.generated => \E c \in l.otp : l.otp = {c}
    /\ ~l.prompted /\ ~l.regenerated => l.refused = {}
    /\ l.otp = {} => l.sent = 0 /\ l.refused = {}
    /\ ~l.prompted => l.otp = {} \/ ~(l.otp \subseteq l.refused)

LoginInv ==
    /\ login.sent \in Nat /\ login.sent <= 4
    /\ pc = "login" => InProgress(login)

(* The negotiation's edits of a login, each field by field.                *)
Counted(l, refused) == [l EXCEPT !.sent = @ + 1, !.refused = refused]
Noted(l, noted) == [l EXCEPT !.failed = noted]
Generated(l, code, yes, no) == [l EXCEPT !.otp = {code}, !.generated = yes, !.regenerated = no]
Regenerated(l, code, yes) == [l EXCEPT !.otp = {code}, !.regenerated = yes]
Typed(l, yes, no) == [l EXCEPT !.otp = {TypedCode}, !.prompted = yes, !.generated = no]

(* One more attempt was sent, and these codes have been refused.           *)
LEMMA CountedIs ==
    ASSUME NEW a, NEW b, NEW c, NEW d, NEW e, NEW f, NEW g, NEW refused, NEW l,
           l = Login(a, b, c, d, e, f, g)
    PROVE  Counted(l, refused) = Login(a, b, c, d, e, f + 1, refused)
  <1>1. l.sent = f
    BY DEF Login
  <1>2. Counted(l, refused) = [[l EXCEPT !.sent = f + 1] EXCEPT !.refused = refused]
    BY <1>1 DEF Counted
  <1>3. [l EXCEPT !.sent = f + 1] = Login(a, b, c, d, e, f + 1, g)
    BY DEF Login
  <1>4. [Login(a, b, c, d, e, f + 1, g) EXCEPT !.refused = refused] = Login(a, b, c, d, e, f + 1,
                                                                            refused)
    BY DEF Login
  <1> QED
    BY <1>2, <1>3, <1>4, Zenon

(* The vault is noted as failed.                                           *)
LEMMA NotedIs ==
    ASSUME NEW a, NEW b, NEW c, NEW d, NEW e, NEW f, NEW g, NEW noted, NEW l,
           l = Login(a, b, c, d, e, f, g)
    PROVE  Noted(l, noted) = Login(a, b, c, d, noted, f, g)
  BY DEF Noted, Login

(* A code was generated.                                                   *)
LEMMA GeneratedIs ==
    ASSUME NEW a, NEW b, NEW c, NEW d, NEW e, NEW f, NEW g, NEW code, NEW yes, NEW no, NEW l,
           l = Login(a, b, c, d, e, f, g)
    PROVE  Generated(l, code, yes, no) = Login({code}, b, yes, no, e, f, g)
  <1>1. Generated(l, code, yes,
                  no) = [[[l EXCEPT !.otp = {code}] EXCEPT !.generated = yes] EXCEPT !.regenerated = no]
    BY DEF Generated
  <1>2. [l EXCEPT !.otp = {code}] = Login({code}, b, c, d, e, f, g)
    BY DEF Login
  <1>3. [Login({code}, b, c, d, e, f, g) EXCEPT !.generated = yes] = Login({code}, b, yes, d, e, f, g)
    BY DEF Login
  <1>4. [Login({code}, b, yes, d, e, f, g) EXCEPT !.regenerated = no] = Login({code}, b, yes, no, e, f,
                                                                              g)
    BY DEF Login
  <1> QED
    BY <1>1, <1>2, <1>3, <1>4, Zenon

(* A code was generated anew.                                              *)
LEMMA RegeneratedIs ==
    ASSUME NEW a, NEW b, NEW c, NEW d, NEW e, NEW f, NEW g, NEW code, NEW yes, NEW l,
           l = Login(a, b, c, d, e, f, g)
    PROVE  Regenerated(l, code, yes) = Login({code}, b, c, yes, e, f, g)
  <1>1. Regenerated(l, code, yes) = [[l EXCEPT !.otp = {code}] EXCEPT !.regenerated = yes]
    BY DEF Regenerated
  <1>2. [l EXCEPT !.otp = {code}] = Login({code}, b, c, d, e, f, g)
    BY DEF Login
  <1>3. [Login({code}, b, c, d, e, f, g) EXCEPT !.regenerated = yes] = Login({code}, b, c, yes, e, f, g)
    BY DEF Login
  <1> QED
    BY <1>1, <1>2, <1>3, Zenon

(* A code was typed.                                                       *)
LEMMA TypedIs ==
    ASSUME NEW a, NEW b, NEW c, NEW d, NEW e, NEW f, NEW g, NEW yes, NEW no, NEW l,
           l = Login(a, b, c, d, e, f, g)
    PROVE  Typed(l, yes, no) = Login({TypedCode}, yes, no, d, e, f, g)
  <1>1. Typed(l, yes,
              no) = [[[l EXCEPT !.otp = {TypedCode}] EXCEPT !.prompted = yes] EXCEPT !.generated = no]
    BY DEF Typed
  <1>2. [l EXCEPT !.otp = {TypedCode}] = Login({TypedCode}, b, c, d, e, f, g)
    BY DEF Login
  <1>3. [Login({TypedCode}, b, c, d, e, f, g) EXCEPT !.prompted = yes] = Login({TypedCode}, yes, c, d,
                                                                               e, f, g)
    BY DEF Login
  <1>4. [Login({TypedCode}, yes, c, d, e, f, g) EXCEPT !.generated = no] = Login({TypedCode}, yes, no,
                                                                                 d, e, f, g)
    BY DEF Login
  <1> QED
    BY <1>1, <1>2, <1>3, <1>4, Zenon

(* The fields of a login.                                                  *)
LEMMA LoginFields ==
    ASSUME NEW a, NEW b, NEW c, NEW d, NEW e, NEW f, NEW g
    PROVE  LET l == Login(a, b, c, d, e, f, g)
           IN l.otp = a /\ l.prompted = b /\ l.generated = c /\ l.regenerated = d /\ l.failed = e /\ l.sent = f /\ l.refused = g
  BY DEF Login

(* The two truth values, as values a record may hold.                      *)
LEMMA YesAndNo == \E yes, no : yes = TRUE /\ no = FALSE
  OBVIOUS

(* A login that has sent nothing is in progress.                           *)
LEMMA LoginBegins ==
    ASSUME NEW sources, NEW who
    PROVE  InProgress(StartLogin(sources, who))
  <1>1. /\ StartLogin(sources, who).otp \in {{}, {EnvCode}} /\ StartLogin(sources, who).prompted = FALSE
        /\ StartLogin(sources, who).generated = FALSE /\ StartLogin(sources, who).regenerated = FALSE
        /\ StartLogin(sources, who).sent = 0 /\ StartLogin(sources, who).refused = {}
    BY DEF StartLogin
  <1>2. LoginShape(StartLogin(sources, who))
    BY DEF StartLogin, LoginShape, Login
  <1> QED
    BY <1>1, <1>2 DEF InProgress

(* After a code was typed a login is in progress, wherever it was.         *)
LEMMA CodeTyped ==
    ASSUME NEW l, NEW who, LoginShape(l), l.sent <= 3
    PROVE  /\ prompt_otp(l, who).go = "again" => InProgress(prompt_otp(l, who).l)
           /\ prompt_otp(l, who).l.sent = l.sent
  <1>1. PICK yes, no : yes = TRUE /\ no = FALSE
    BY YesAndNo, Zenon
  <1> DEFINE t == Typed(l, yes, no)
  <1>2. t = Login({TypedCode}, yes, no, l.regenerated, l.failed, l.sent, l.refused)
    BY TypedIs DEF LoginShape
  <1>3. prompt_otp(l, who) = IF who.interrupts THEN [go |-> "cancelled", l |-> l] ELSE Again(t)
    BY <1>1 DEF prompt_otp, Typed
  <1> HIDE DEF t
  <1>4. /\ t.otp = {TypedCode} /\ t.prompted = yes /\ t.generated = no /\ t.regenerated = l.regenerated
        /\ t.failed = l.failed /\ t.sent = l.sent /\ t.refused = l.refused
    BY <1>2, LoginFields
  <1>5. /\ t.otp = {TypedCode} /\ t.prompted = TRUE /\ t.generated = FALSE
        /\ t.regenerated = l.regenerated
        /\ t.failed = l.failed /\ t.sent = l.sent /\ t.refused = l.refused
    BY <1>1, <1>4
  <1>6. LoginShape(t)
    BY <1>1, <1>2, <1>4 DEF LoginShape
  <1>7. InProgress(t)
    BY <1>5, <1>6 DEF InProgress, LoginShape
  <1>8. CASE who.interrupts
    BY <1>3, <1>8
  <1>9. CASE ~who.interrupts
    BY <1>3, <1>5, <1>7, <1>9 DEF Again
  <1> QED
    BY <1>8, <1>9

(* After any answer of DSM a login that goes on is in progress, and it has *)
(* sent one attempt more (authenticate_with_otp_interaction).              *)
LEMMA LoginAnswered ==
    ASSUME NEW l0, InProgress(l0), NEW code \in (IF l0.otp = {} THEN {0, 403} ELSE {0, 404}),
           NEW sources, NEW who, NEW then
    PROVE  LET next == authenticate_with_otp_interaction(l0, code, sources, who, then)
           IN /\ next.go = "again" => InProgress(next.l)
              /\ next.l.sent = l0.sent + 1
  <1> DEFINE l == Counted(l0, IF code = 404 THEN l0.refused \cup l0.otp ELSE l0.refused)
             next == authenticate_with_otp_interaction(l0, code, sources, who, then)
             got == vault_totp(sources, who, then, l.failed)
  <1>1. PICK yes, no : yes = TRUE /\ no = FALSE
    BY YesAndNo, Zenon
  <1>2. SUFFICES (next.go = "again" => InProgress(next.l)) /\ next.l.sent = l0.sent + 1
    OBVIOUS
  <1>3. l = Login(l0.otp, l0.prompted, l0.generated, l0.regenerated, l0.failed, l0.sent + 1,
                  IF code = 404 THEN l0.refused \cup l0.otp ELSE l0.refused)
    BY CountedIs DEF InProgress, LoginShape
  <1>4. /\ l.otp = l0.otp /\ l.prompted = l0.prompted /\ l.generated = l0.generated
        /\ l.regenerated = l0.regenerated
        /\ l.failed = l0.failed /\ l.sent = l0.sent + 1
        /\ l.refused = IF code = 404 THEN l0.refused \cup l0.otp ELSE l0.refused
    BY <1>3, LoginFields
  <1>5. LoginShape(l)
    BY <1>3, <1>4 DEF InProgress, LoginShape
  <1>6. next = CASE code = 0 -> [go |-> "ok", l |-> l]
                 [] code \in {403, 406} /\ l.otp = {} /\ ~ l.prompted -> code_wanted(l, sources, who,
                                                                                     then)
                 [] code = 404 /\ l.generated /\ ~ l.regenerated -> generated_code_refused(l, sources,
                                                                                           who, then)
                 [] code = 404 /\ ~ (l.generated /\ ~ l.regenerated) /\ ~ l.prompted /\ who.terminal -> prompt_otp(l, who)
                 [] OTHER -> GiveUp(l)
    BY DEF authenticate_with_otp_interaction, Counted
  <1>7. code_wanted(l, sources, who, then) =
          LET tried == Noted(l, l.failed \/ (got.kind = "error" /\ sources.totp_file = {} /\ who.vault.broken))
          IN CASE got.kind = "value" -> Again(Generated(tried, got.v, yes, no))
               [] got.kind # "value" /\ who.terminal -> prompt_otp(tried, who)
               [] OTHER -> GiveUp(tried)
    BY <1>1 DEF code_wanted, Noted, Generated
  <1>8. generated_code_refused(l, sources, who, then) =
          IF got.kind = "value" /\ {got.v} # l.otp
          THEN Again(Regenerated(l, got.v, yes))
          ELSE IF who.terminal THEN prompt_otp(l, who) ELSE GiveUp(l)
    BY <1>1 DEF generated_code_refused, replace_if_changed, Regenerated
  <1> HIDE DEF l, next, got
  <1>9. \A x : GiveUp(x).go = "error" /\ GiveUp(x).l = x /\ Again(x).go = "again" /\ Again(x).l = x
    BY DEF GiveUp, Again
  <1>10. CASE code = 0
    BY <1>4, <1>6, <1>10
  <1>11. CASE code = 403
    <2>1. l.otp = {} /\ code # 404 /\ code # 0
      BY <1>4, <1>11
    <2>2. ~l.prompted /\ ~l.generated
      BY <1>4, <2>1 DEF InProgress
    <2>3. next = code_wanted(l, sources, who, then)
      BY <1>6, <1>11, <2>1, <2>2
    <2> DEFINE noted == l.failed \/ (got.kind = "error" /\ sources.totp_file = {} /\ who.vault.broken)
               tried == Noted(l, noted)
               wanted == Generated(tried, got.v, yes, no)
    <2>4. tried = Login(l.otp, l.prompted, l.generated, l.regenerated, noted, l.sent, l.refused)
      BY <1>5, NotedIs DEF LoginShape
    <2>5. /\ tried.otp = l.otp /\ tried.prompted = l.prompted /\ tried.generated = l.generated
          /\ tried.regenerated = l.regenerated /\ tried.failed = noted /\ tried.sent = l.sent
          /\ tried.refused = l.refused
      BY <2>4, LoginFields
    <2>6. next = CASE got.kind = "value" -> Again(wanted)
                   [] got.kind # "value" /\ who.terminal -> prompt_otp(tried, who)
                   [] OTHER -> GiveUp(tried)
      BY <1>7, <2>3
    <2> HIDE DEF tried, noted
    <2>7. wanted = Login({got.v}, l.prompted, yes, no, noted, l.sent, l.refused)
      BY <2>4, GeneratedIs
    <2>8. /\ wanted.otp = {got.v} /\ wanted.prompted = l.prompted /\ wanted.generated = yes
          /\ wanted.regenerated = no
          /\ wanted.failed = noted /\ wanted.sent = l.sent /\ wanted.refused = l.refused
      BY <2>7, LoginFields
    <2>9. /\ wanted.otp = {got.v} /\ wanted.prompted = l.prompted /\ wanted.generated = TRUE
          /\ wanted.regenerated = FALSE
          /\ wanted.failed = noted /\ wanted.sent = l.sent /\ wanted.refused = l.refused
      BY <1>1, <2>8
    <2> HIDE DEF wanted
    <2>10. LoginShape(tried)
      BY <1>5, <2>4, <2>5 DEF LoginShape
    <2>11. LoginShape(wanted)
      BY <1>5, <1>1, <2>7, <2>8 DEF LoginShape
    <2>12. l.sent = 1 /\ l.refused = {}
      BY <1>4, <2>1 DEF InProgress, LoginShape
    <2>13. CASE got.kind = "value"
      <3>1. next = Again(wanted)
        BY <2>6, <2>13
      <3>2. InProgress(wanted)
        <4>1. ~wanted.prompted
          BY <2>2, <2>9
        <4>2. wanted.generated /\ ~wanted.regenerated /\ wanted.sent = 1
          BY <2>9, <2>12
        <4>3. /\ wanted.otp = {got.v} /\ wanted.refused = {} /\ wanted.otp # {}
              /\ ~(wanted.otp \subseteq wanted.refused)
          BY <2>9, <2>12
        <4> QED
          BY <2>11, <4>1, <4>2, <4>3 DEF InProgress
      <3> QED
        BY <1>4, <1>9, <2>9, <3>1, <3>2
    <2>14. CASE got.kind # "value" /\ who.terminal
      <3>1. next = prompt_otp(tried, who)
        BY <2>6, <2>14
      <3> QED
        BY <1>4, <2>5, <2>10, <2>12, <3>1, CodeTyped
    <2>15. CASE got.kind # "value" /\ ~who.terminal
      <3>1. next = GiveUp(tried)
        BY <2>6, <2>15
      <3> QED
        BY <1>4, <1>9, <2>5, <3>1
    <2> QED
      BY <2>13, <2>14, <2>15
  <1>12. CASE code = 404
    <2>1. l.otp # {} /\ l.refused = l0.refused \cup l0.otp
      BY <1>4, <1>12
    <2>2. CASE l.generated /\ ~l.regenerated
      <3>1. next = generated_code_refused(l, sources, who, then)
        BY <1>6, <1>12, <2>2
      <3>2. ~l.prompted /\ l.sent <= 2 /\ l.refused = l.otp /\ \E c \in l.otp : l.otp = {c}
        <4>1. ~l0.prompted /\ l0.generated /\ ~l0.regenerated
          BY <1>4, <2>2 DEF InProgress
        <4>2. l0.sent <= 1 /\ l0.refused = {} /\ \E c \in l0.otp : l0.otp = {c}
          BY <4>1 DEF InProgress
        <4>3. l0.sent \in Nat
          BY DEF InProgress, LoginShape
        <4>4. l.sent <= 2
          BY <1>4, <4>2, <4>3
        <4>5. l.refused = l.otp
          BY <1>4, <2>1, <4>2
        <4>6. ~l.prompted /\ \E c \in l.otp : l.otp = {c}
          BY <1>4, <4>1, <4>2
        <4> QED
          BY <4>4, <4>5, <4>6
      <3> DEFINE again == Regenerated(l, got.v, yes)
      <3>3. again = Login({got.v}, l.prompted, l.generated, yes, l.failed, l.sent, l.refused)
        BY <1>5, RegeneratedIs DEF LoginShape
      <3>4. /\ again.otp = {got.v} /\ again.prompted = l.prompted /\ again.generated = l.generated
            /\ again.regenerated = yes /\ again.failed = l.failed /\ again.sent = l.sent
            /\ again.refused = l.refused
        BY <3>3, LoginFields
      <3>5. next = IF got.kind = "value" /\ {got.v} # l.otp THEN Again(again)
                   ELSE IF who.terminal THEN prompt_otp(l, who) ELSE GiveUp(l)
        BY <1>8, <3>1
      <3> HIDE DEF again
      <3>6. LoginShape(again)
        BY <1>5, <1>1, <3>3, <3>4 DEF LoginShape
      <3>7. CASE got.kind = "value" /\ {got.v} # l.otp
        <4>1. next = Again(again)
          BY <3>5, <3>7
        <4>2. ~(again.otp \subseteq again.refused)
          BY <3>2, <3>4, <3>7
        <4>3. InProgress(again)
          BY <1>1, <3>2, <3>4, <3>6, <4>2 DEF InProgress
        <4> QED
          BY <1>4, <1>9, <3>4, <4>1, <4>3
      <3>8. CASE ~(got.kind = "value" /\ {got.v} # l.otp) /\ who.terminal
        <4>1. next = prompt_otp(l, who)
          BY <3>5, <3>8
        <4>2. l.sent <= 3
          BY <1>5, <3>2 DEF LoginShape
        <4> QED
          BY <1>4, <1>5, <4>1, <4>2, CodeTyped
      <3>9. CASE ~(got.kind = "value" /\ {got.v} # l.otp) /\ ~who.terminal
        <4>1. next = GiveUp(l)
          BY <3>5, <3>9
        <4> QED
          BY <1>4, <1>9, <4>1
      <3> QED
        BY <3>7, <3>8, <3>9
    <2>3. CASE ~(l.generated /\ ~l.regenerated) /\ ~l.prompted /\ who.terminal
      <3>1. next = prompt_otp(l, who)
        BY <1>6, <1>12, <2>3
      <3>2. l.sent <= 3
        BY <1>4, <2>3 DEF InProgress, LoginShape
      <3> QED
        BY <1>4, <1>5, <3>1, <3>2, CodeTyped
    <2>4. CASE ~(l.generated /\ ~l.regenerated) /\ ~(~l.prompted /\ who.terminal)
      <3>1. next = GiveUp(l)
        BY <1>6, <1>12, <2>4
      <3> QED
        BY <1>4, <1>9, <3>1
    <2> QED
      BY <2>2, <2>3, <2>4
  <1> QED
    BY <1>10, <1>11, <1>12 DEF next

CommandInv == LogoutInv /\ LoginInv

(* A command begins without a session.                                     *)
LEMMA CommandStart == Init => CommandInv
  <1> SUFFICES ASSUME Init PROVE CommandInv
    OBVIOUS
  <1>1. sessions = {} /\ login = Idle /\ pc = "dispatch"
    BY DEF Init
  <1>2. Idle.sent = 0
    BY DEF Idle
  <1> QED
    BY <1>1, <1>2 DEF CommandInv, LogoutInv, LoginInv

(* A step that leaves sessions and login alone, and does not leave a       *)
(* session behind, keeps the invariant.                                    *)
LEMMA Aside ==
    ASSUME CommandInv, UNCHANGED <<login, sessions, lostLogouts, at, phase>>,
           pc' = pc \/ pc' # "login", pc \in Logged => pc' \in Logged, Killed => Killed'
    PROVE  CommandInv'
  <1>1. LogoutInv'
    BY DEF CommandInv, LogoutInv, MainSession
  <1>2. LoginInv'
    <2>1. login' = login
      OBVIOUS
    <2> QED
      BY <2>1 DEF CommandInv, LoginInv
  <1> QED
    BY <1>1, <1>2 DEF CommandInv

(* So does any step of a job that has no session.                          *)
LEMMA LoggedOut ==
    ASSUME CommandInv, UNCHANGED <<login, sessions, lostLogouts>>, pc \notin Logged, ~Killed,
           pc' # "login"
    PROVE  CommandInv'
  <1>1. LogoutInv'
    BY DEF CommandInv, LogoutInv
  <1>2. LoginInv'
    BY DEF CommandInv, LoginInv
  <1> QED
    BY <1>1, <1>2 DEF CommandInv

(* The command line, the passes of a batch, and a job before its login and *)
(* after its end.                                                          *)
LEMMA CommandApartStep ==
    ASSUME CommandInv,
           \/ Dispatch \/ RunConfig \/ RunCredentials \/ BeginJob \/ DiagnoseSource \/ ConnectDoctor \/ ConnectSync
           \/ FinishJob \/ EndPass
    PROVE  CommandInv'
  <1> USE DEF fixedVars, batchVars, historyVars
  <1>1. CASE Dispatch
    <2>1. /\ pc = "dispatch" /\ UNCHANGED <<login, sessions, lostLogouts>> /\ pc' \in {"done", "job"}
      BY <1>1 DEF Dispatch, End, Stay
    <2> QED
      BY <2>1, LoggedOut DEF Logged, Killed
  <1>2. CASE RunConfig
    <2>1. pc = "dispatch" /\ UNCHANGED <<login, sessions, lostLogouts>> /\ pc' = "done"
      BY <1>2 DEF RunConfig, End
    <2> QED
      BY <2>1, LoggedOut DEF Logged, Killed
  <1>3. CASE RunCredentials
    <2>1. pc = "dispatch" /\ UNCHANGED <<login, sessions, lostLogouts>> /\ pc' = "done"
      BY <1>3 DEF RunCredentials, End
    <2> QED
      BY <2>1, LoggedOut DEF Logged, Killed
  <1>4. CASE BeginJob
    <2>1. /\ pc = "job" /\ login' = Idle /\ UNCHANGED <<sessions, lostLogouts>>
          /\ pc' \in {"job", "diagnose", "connect"}
      BY <1>4 DEF BeginJob
    <2>2. Idle.sent = 0
      BY DEF Idle
    <2> QED
      BY <2>1, <2>2 DEF CommandInv, LogoutInv, LoginInv, Logged, Killed
  <1>5. CASE DiagnoseSource
    <2>1. pc = "diagnose" /\ UNCHANGED <<login, sessions, lostLogouts>> /\ pc' = "finish"
      BY <1>5 DEF DiagnoseSource
    <2> QED
      BY <2>1, LoggedOut DEF Logged, Killed
  <1>6. CASE ConnectDoctor
    <2>1. pc = "connect" /\ UNCHANGED <<login, sessions, lostLogouts>> /\ pc' \in {"finish", "password"}
      BY <1>6 DEF ConnectDoctor
    <2> QED
      BY <2>1, LoggedOut DEF Logged, Killed
  <1>7. CASE ConnectSync
    <2>1. pc = "connect" /\ UNCHANGED <<login, sessions, lostLogouts>> /\ pc' \in {"finish", "password"}
      BY <1>7 DEF ConnectSync
    <2> QED
      BY <2>1, LoggedOut DEF Logged, Killed
  <1>8. CASE FinishJob
    <2>1. pc = "finish" /\ UNCHANGED <<login, sessions, lostLogouts>> /\ pc' \in {"done", "job"}
      BY <1>8 DEF FinishJob, End
    <2> QED
      BY <2>1, LoggedOut DEF Logged, Killed
  <1>9. CASE EndPass
    <2>1. pc = "job" /\ UNCHANGED <<login, sessions, lostLogouts>> /\ pc' \in {"done", "job"}
      BY <1>9 DEF EndPass, End
    <2> QED
      BY <2>1, LoggedOut DEF Logged, Killed
  <1> QED
    BY <1>1, <1>2, <1>3, <1>4, <1>5, <1>6, <1>7, <1>8, <1>9

(* The logins and the logouts.                                             *)
LEMMA CommandSessionStep ==
    ASSUME CommandInv, ReadPassword \/ LogIn \/ Logout \/ Tokenless
    PROVE  CommandInv'
  <1> USE DEF fixedVars, batchVars, historyVars
  <1>1. CASE ReadPassword
    <2>1. /\ pc = "password" /\ UNCHANGED <<sessions, lostLogouts>>
          /\ \/ pc' = "finish" /\ login' = login
             \/ pc' = "login" /\ login' = StartLogin(Auth, inv.who)
      BY <1>1 DEF ReadPassword, NoSession
    <2>2. InProgress(StartLogin(Auth, inv.who)) /\ StartLogin(Auth, inv.who).sent = 0
      BY LoginBegins DEF StartLogin
    <2>3. CASE pc' = "finish" /\ login' = login
      BY <2>1, <2>3, LoggedOut DEF Logged, Killed
    <2>4. CASE pc' = "login" /\ login' = StartLogin(Auth, inv.who)
      BY <2>1, <2>2, <2>4 DEF CommandInv, LogoutInv, LoginInv, Logged, Killed
    <2> QED
      BY <2>1, <2>3, <2>4
  <1>2. CASE LogIn
    <2>1. /\ pc = "login" /\ UNCHANGED <<at, phase, lostLogouts>> /\ InProgress(login)
          /\ sessions \subseteq lostLogouts
      BY <1>2 DEF LogIn, JobStep, CommandInv, LoginInv, LogoutInv, Killed, Logged
    <2>2. CASE login' = login /\ sessions' = sessions /\ pc' = "finish"
      BY <2>1, <2>2, LoggedOut DEF Logged, Killed
    <2>3. ASSUME NEW code \in Answers,
                 LET next == authenticate_with_otp_interaction(login, code, Auth, inv.who, window)
                 IN /\ login' = next.l
                    /\ IF next.go = "again" THEN UNCHANGED <<pc, job, sessions>>
                       ELSE IF next.go = "ok"
                       THEN sessions' = sessions \cup {MainSession} /\ pc' = (IF IsDoctor THEN "confirm" ELSE "plan") /\ UNCHANGED job
                       ELSE NoSession(next.go) /\ UNCHANGED sessions
          PROVE  CommandInv'
      <3> DEFINE next == authenticate_with_otp_interaction(login, code, Auth, inv.who, window)
      <3>1. code \in IF login.otp = {} THEN {0, 403} ELSE {0, 404}
        BY <2>3 DEF Answers
      <3>2. (next.go = "again" => InProgress(next.l)) /\ next.l.sent = login.sent + 1
        BY <2>1, <3>1, LoginAnswered
      <3>3. /\ login' = next.l
            /\ next.go = "again" => pc' = "login" /\ sessions' = sessions
            /\ next.go = "ok" => sessions' = sessions \cup {MainSession} /\ pc' \in {"confirm", "plan"}
            /\ next.go \notin {"again", "ok"} => pc' = "finish" /\ sessions' = sessions
        BY <2>1, <2>3 DEF NoSession
      <3>4. login.sent \in Nat /\ login.sent <= 3
        BY <2>1 DEF InProgress, LoginShape
      <3> HIDE DEF next
      <3>5. LoginInv'
        BY <3>2, <3>3, <3>4 DEF LoginInv
      <3>6. LogoutInv'
        BY <2>1, <3>3 DEF LogoutInv, MainSession, Logged
      <3> QED
        BY <3>5, <3>6 DEF CommandInv
    <2> QED
      BY <1>2, <2>2, <2>3 DEF LogIn, NoSession
  <1>3. CASE Logout
    <2>1. /\ pc = "logout" /\ UNCHANGED <<at, phase, login>> /\ pc' \in {"tokenless", "finish"}
          /\ \/ sessions' = sessions \ {MainSession} /\ lostLogouts' = lostLogouts
             \/ sessions' = sessions /\ lostLogouts' = lostLogouts \cup {MainSession}
             \/ sessions' = sessions \ {MainSession} /\ lostLogouts' = lostLogouts \cup {MainSession}
      BY <1>3 DEF Logout, JobStep
    <2>2. LogoutInv'
      BY <2>1 DEF CommandInv, LogoutInv, Logged, Killed
    <2>3. LoginInv'
      BY <2>1 DEF CommandInv, LoginInv
    <2> QED
      BY <2>2, <2>3 DEF CommandInv
  <1>4. CASE Tokenless
    <2>1. /\ pc = "tokenless" /\ UNCHANGED login /\ pc' = "finish"
          /\ \/ sessions' = sessions /\ lostLogouts' = lostLogouts
             \/ sessions' = sessions \cup {SideSession} /\ lostLogouts' = lostLogouts \cup {SideSession}
      BY <1>4 DEF Tokenless
    <2>2. LogoutInv'
      BY <2>1 DEF CommandInv, LogoutInv, Logged, Killed
    <2>3. LoginInv'
      BY <2>1 DEF CommandInv, LoginInv
    <2> QED
      BY <2>2, <2>3 DEF CommandInv
  <1> QED
    BY <1>1, <1>2, <1>3, <1>4

(* What is done in a session keeps it.                                     *)
Unmoved == pc \in Logged /\ pc' \in Logged /\ UNCHANGED <<login, sessions, lostLogouts, at, phase>>

(* What a job does in its session keeps it.                                *)
LEMMA UnmovedStays ==
    ASSUME CommandInv, Unmoved
    PROVE  CommandInv'
  BY Aside DEF Unmoved, Logged, Killed

(* A request of the write probe stays in the session, whatever becomes of  *)
(* it.                                                                     *)
LEMMA ProbeRequestUnmoved ==
    ASSUME NEW thing, NEW said, NEW next, next \in Logged, ProbeRequest(thing, said, next)
    PROVE  pc' \in Logged
  BY DEF ProbeRequest, Logged

(* A job in its session: the plan and its execution, the sections of a     *)
(* diagnostic, the write probe and its cleanup.                            *)
LEMMA CommandLoggedStep ==
    ASSUME CommandInv,
           \/ MakePlan \/ Mutate \/ confirm_file_station_session \/ DiagnoseSession \/ DiagnoseDestination
           \/ ProbeCreate \/ ProbeUpload \/ ProbeCopyDirectory \/ ProbeCopy \/ CleanUp \/ CleanUpLook
    PROVE  CommandInv'
  <1> USE DEF fixedVars, batchVars, historyVars, JobStep
  <1>1. CASE MakePlan
    <2>1. /\ pc = "plan" /\ pc' \in {"logout", "mutate"}
          /\ UNCHANGED <<login, sessions, lostLogouts, at, phase>>
      BY <1>1 DEF MakePlan
    <2> QED
      BY <2>1, UnmovedStays DEF Unmoved, Logged
  <1>2. CASE Mutate
    <2>1. /\ pc = "mutate" /\ pc' \in {"logout", "mutate"}
          /\ UNCHANGED <<login, sessions, lostLogouts, at, phase>>
      BY <1>2 DEF Mutate
    <2> QED
      BY <2>1, UnmovedStays DEF Unmoved, Logged
  <1>3. CASE confirm_file_station_session
    <2>1. /\ pc = "confirm" /\ pc' \in {"session", "logout"}
          /\ UNCHANGED <<login, sessions, lostLogouts, at, phase>>
      BY <1>3 DEF confirm_file_station_session, LeaveEarly
    <2> QED
      BY <2>1, UnmovedStays DEF Unmoved, Logged
  <1>4. CASE DiagnoseSession
    <2>1. /\ pc = "session" /\ pc' \in {"destination", "logout"}
          /\ UNCHANGED <<login, sessions, lostLogouts, at, phase>>
      BY <1>4 DEF DiagnoseSession
    <2> QED
      BY <2>1, UnmovedStays DEF Unmoved, Logged
  <1>5. CASE DiagnoseDestination
    <2>1. /\ pc = "destination" /\ pc' \in {"probe.create", "logout"}
          /\ UNCHANGED <<login, sessions, lostLogouts, at, phase>>
      BY <1>5 DEF DiagnoseDestination, LeaveEarly
    <2> QED
      BY <2>1, UnmovedStays DEF Unmoved, Logged
  <1>6. CASE ProbeCreate
    <2>1. /\ pc = "probe.create" /\ UNCHANGED <<login, sessions, lostLogouts, at, phase>>
          /\ pc' = "logout" \/ \E r : ProbeRequest("dir", r, "probe.upload")
      BY <1>6 DEF ProbeCreate, ProbeEnds
    <2> QED
      BY <2>1, ProbeRequestUnmoved, UnmovedStays DEF Unmoved, Logged
  <1>7. CASE ProbeUpload
    <2>1. /\ pc = "probe.upload" /\ UNCHANGED <<login, sessions, lostLogouts, at, phase>>
          /\ pc' = "clean.copy" \/ \E r : ProbeRequest("file", r, IF "CopyMove" \in T.found THEN "probe.copydir" ELSE "clean.copy")
      BY <1>7 DEF ProbeUpload, ToCleanup
    <2>2. (IF "CopyMove" \in T.found THEN "probe.copydir" ELSE "clean.copy") \in Logged
      BY DEF Logged
    <2> QED
      BY <2>1, <2>2, ProbeRequestUnmoved, UnmovedStays DEF Unmoved, Logged
  <1>8. CASE ProbeCopyDirectory
    <2>1. /\ pc = "probe.copydir" /\ UNCHANGED <<login, sessions, lostLogouts, at, phase>>
          /\ pc' = "clean.copy" \/ \E r : ProbeRequest("copydir", r, "probe.copy")
      BY <1>8 DEF ProbeCopyDirectory, ToCleanup
    <2> QED
      BY <2>1, ProbeRequestUnmoved, UnmovedStays DEF Unmoved, Logged
  <1>9. CASE ProbeCopy
    <2>1. /\ pc = "probe.copy" /\ UNCHANGED <<login, sessions, lostLogouts, at, phase>>
          /\ \E r : ProbeRequest("copy", r, "clean.copy")
      BY <1>9 DEF ProbeCopy
    <2> QED
      BY <2>1, ProbeRequestUnmoved, UnmovedStays DEF Unmoved, Logged
  <1>10. CASE CleanUp
    <2>1. PICK thing \in Things :
            /\ pc = [copy |-> "clean.copy", copydir |-> "clean.copydir", file |-> "clean.file",
                     dir |-> "clean.dir"][thing]
            /\ pc' = CleanUpNext[thing]
            /\ UNCHANGED <<login, sessions, lostLogouts, at, phase>>
      BY <1>10 DEF CleanUp
    <2>2. pc \in Logged /\ pc' \in Logged
      BY <2>1 DEF Things, CleanUpNext, Logged
    <2> QED
      BY <2>1, <2>2, UnmovedStays DEF Unmoved
  <1>11. CASE CleanUpLook
    <2>1. /\ pc = "look" /\ pc' = "logout" /\ UNCHANGED <<login, sessions, lostLogouts, at, phase>>
      BY <1>11 DEF CleanUpLook, ProbeEnds
    <2> QED
      BY <2>1, UnmovedStays DEF Unmoved, Logged
  <1> QED
    BY <1>1, <1>2, <1>3, <1>4, <1>5, <1>6, <1>7, <1>8, <1>9, <1>10, <1>11

(* Every step of a command keeps the invariant.                            *)
LEMMA CommandStep ==
    ASSUME CommandInv, Next
    PROVE  CommandInv'
  <1>1. CASE LateLands \/ OthersWrite \/ Interrupt \/ ClockTicks
    <2>1. UNCHANGED <<pc, login, sessions, lostLogouts, at, phase, exit>>
      BY <1>1 DEF LateLands, OthersWrite, Interrupt, ClockTicks, Elsewhere
    <2> QED
      BY <2>1, Aside DEF Killed
  <1>2. CASE InterruptAgain
    <2>1. pc # "done" /\ pc' = "done" /\ exit' = "killed" /\ UNCHANGED <<login, sessions, lostLogouts>>
      BY <1>2 DEF InterruptAgain, End, historyVars
    <2> QED
      BY <2>1 DEF CommandInv, LogoutInv, LoginInv, Killed
  <1> QED
    BY <1>1, <1>2, CommandApartStep, CommandSessionStep, CommandLoggedStep DEF Next

(* So does a step of somebody else.                                        *)
LEMMA CommandStay ==
    ASSUME CommandInv, UNCHANGED vars
    PROVE  CommandInv'
  <1>1. UNCHANGED <<pc, login, sessions, lostLogouts, at, phase, exit>>
    BY DEF vars
  <1> QED
    BY <1>1, Aside DEF Killed

(***************************************************************************)
(* An embedding host's run.                                                *)
(***************************************************************************)
(* What is done before the plan is shown changes nothing.                  *)
Preparation == {"check", "scan", "connect", "authenticate", "writable", "inventory", "digests", "plan"}
Phases == {"local-scan", "api-discovery", "authentication", "remote-scan", "content-hashing",
           "planning",
           "execution", "reconciliation", "plan"}
Works == Preparation \cup {"on_plan", "write", "prune", "reconcile", "outcome"}
Entries == {"emit", "work"} \X {"started", "completed", "ready", "do"} \X (Phases \cup Works)
Prepares(e) == e[1] = "emit" \/ (e[1] = "work" /\ e[3] \in Preparation)
Prelude(s) == s \in Seq(Entries) /\ \A i \in 1 .. Len(s) : Prepares(s[i])
Shown(h) == Len(Preparing(h)) + 1

(* What the host is told is an entry of the script, and changes nothing.   *)
LEMMA ToldEntry ==
    ASSUME NEW edge \in {"started", "completed", "ready"}, NEW part \in Phases
    PROVE  /\ Told(edge, part) \in Entries /\ Prepares(Told(edge, part))
           /\ Told(edge, part)[1] = "emit"
  BY DEF Told, Entries, Prepares

(* A piece of work is an entry of the script.                              *)
LEMMA WorkEntry ==
    ASSUME NEW w \in Works
    PROVE  /\ Work(w) \in Entries /\ Work(w)[1] = "work" /\ Work(w)[3] = w
           /\ w \in Preparation => Prepares(Work(w))
  BY DEF Work, Entries, Prepares

(* One entry that changes nothing.                                         *)
LEMMA PreludeOne ==
    ASSUME NEW e \in Entries, Prepares(e)
    PROVE  Prelude(<<e>>)
  BY DEF Prelude

(* Two parts that change nothing, one after the other.                     *)
LEMMA PreludeJoined ==
    ASSUME NEW s, NEW t, Prelude(s), Prelude(t)
    PROVE  Prelude(s \o t)
  BY ConcatProperties DEF Prelude

(* A part that changes nothing, with the host told of its start and its    *)
(* end.                                                                    *)
LEMMA PreludeAround ==
    ASSUME NEW part \in Phases, NEW s, Prelude(s)
    PROVE  Prelude(Around(part, s))
  <1>1. Prelude(<<Told("started", part)>>) /\ Prelude(<<Told("completed", part)>>)
    BY PreludeOne, ToldEntry
  <1>2. Prelude(<<Told("started", part)>> \o s)
    BY <1>1, PreludeJoined
  <1> QED
    BY <1>1, <1>2, PreludeJoined DEF Around

(* Nothing Engine::run does before it shows the plan changes anything.     *)
LEMMA PreparingIsPrelude ==
    ASSUME NEW h
    PROVE  Prelude(Preparing(h))
  <1>1. \A w \in Preparation : Prelude(<<Work(w)>>)
    BY PreludeOne, WorkEntry DEF Works
  <1>2. Prelude(<<Work("plan"), Told("ready", "plan")>>)
    <2>1. /\ Work("plan") \in Entries /\ Prepares(Work("plan"))
          /\ Told("ready", "plan") \in Entries /\ Prepares(Told("ready", "plan"))
      BY WorkEntry, ToldEntry DEF Preparation, Works, Phases
    <2> QED
      BY <2>1 DEF Prelude
  <1> DEFINE a == <<Work("check")>>
             b == Around("local-scan", <<Work("scan")>>)
             c == Around("api-discovery", <<Work("connect")>>)
             d == Around("authentication", <<Work("authenticate")>>)
             e == <<Work("writable")>>
             f == Around("remote-scan", <<Work("inventory")>>)
             g == IF h.doc.content THEN Around("content-hashing",
                                               <<Work("digests")>>) ELSE <<Work("digests")>>
             k == Around("planning", <<Work("plan"), Told("ready", "plan")>>)
  <1>3. /\ Prelude(a) /\ Prelude(b) /\ Prelude(c) /\ Prelude(d) /\ Prelude(e) /\ Prelude(f)
        /\ Prelude(g) /\ Prelude(k)
    <2>1. /\ Prelude(<<Work("check")>>) /\ Prelude(<<Work("scan")>>) /\ Prelude(<<Work("connect")>>)
          /\ Prelude(<<Work("authenticate")>>) /\ Prelude(<<Work("writable")>>)
          /\ Prelude(<<Work("inventory")>>)
          /\ Prelude(<<Work("digests")>>)
      BY <1>1 DEF Preparation
    <2>2. Prelude(b) /\ Prelude(c) /\ Prelude(d)
      BY <2>1, PreludeAround DEF Phases
    <2>3. Prelude(f) /\ Prelude(k)
      BY <1>2, <2>1, PreludeAround DEF Phases
    <2>4. Prelude(Around("content-hashing", <<Work("digests")>>))
      BY <2>1, PreludeAround DEF Phases
    <2>5. Prelude(g)
      BY <2>1, <2>4
    <2> QED
      BY <2>1, <2>2, <2>3, <2>5
  <1>4. Preparing(h) = a \o b \o c \o d \o e \o f \o g \o k
    BY DEF Preparing
  <1> HIDE DEF a, b, c, d, e, f, g, k
  <1>5. Prelude(a \o b)
    BY <1>3, PreludeJoined
  <1>6. Prelude(a \o b \o c)
    BY <1>3, <1>5, PreludeJoined
  <1>7. Prelude(a \o b \o c \o d)
    BY <1>3, <1>6, PreludeJoined
  <1>8. Prelude(a \o b \o c \o d \o e)
    BY <1>3, <1>7, PreludeJoined
  <1>9. Prelude(a \o b \o c \o d \o e \o f)
    BY <1>3, <1>8, PreludeJoined
  <1>10. Prelude(a \o b \o c \o d \o e \o f \o g)
    BY <1>3, <1>9, PreludeJoined
  <1> QED
    BY <1>3, <1>4, <1>10, PreludeJoined

(* The script is a part that changes nothing and then the nine entries     *)
(* from the plan callback to the outcome.                                  *)
LEMMA ScriptShape ==
    ASSUME NEW h
    PROVE  /\ Shown(h) \in Nat \ {0}
           /\ \A i \in 1 .. Shown(h) - 1 : Prepares(Script(h)[i])
           /\ \A k \in 0 .. 8 : Script(h)[Shown(h) + k] = Applying[k + 1]
  <1>1. Prelude(Preparing(h)) /\ Applying \in Seq(Entries) /\ Len(Applying) = 9
    <2>1. /\ Work("on_plan") \in Entries /\ Told("started", "execution") \in Entries
          /\ Work("write") \in Entries
          /\ Work("prune") \in Entries /\ Told("completed", "execution") \in Entries
          /\ Told("started", "reconciliation") \in Entries /\ Work("reconcile") \in Entries
          /\ Told("completed", "reconciliation") \in Entries /\ Work("outcome") \in Entries
      BY WorkEntry, ToldEntry DEF Works, Phases
    <2> QED
      BY <2>1, PreparingIsPrelude DEF Applying
  <1>2. /\ Len(Preparing(h)) \in Nat
        /\ \A i \in 1 .. Len(Preparing(h)) : Script(h)[i] = Preparing(h)[i]
        /\ \A i \in Len(Preparing(h)) + 1 .. Len(Preparing(h)) + 9 : Script(h)[i] = Applying[i - Len(Preparing(h))]
    <2> DEFINE p == Preparing(h)
    <2>1. p \in Seq(Entries) /\ Len(p) \in Nat /\ Script(h) = p \o Applying
      BY <1>1 DEF Prelude, Script
    <2> HIDE DEF p
    <2>2. \A i \in 1 .. Len(p) + Len(Applying) : (p \o Applying)[i] = IF i <= Len(p) THEN p[i] ELSE Applying[i - Len(p)]
      BY <1>1, <2>1, ConcatProperties
    <2>3. Len(p) + Len(Applying) = Len(p) + 9
      BY <1>1
    <2>4. \A i \in 1 .. Len(p) : Script(h)[i] = p[i]
      BY <2>1, <2>2, <2>3
    <2>5. \A i \in Len(p) + 1 .. Len(p) + 9 : Script(h)[i] = Applying[i - Len(p)]
      BY <2>1, <2>2, <2>3
    <2> QED
      BY <2>1, <2>4, <2>5 DEF p
  <1> DEFINE n == Len(Preparing(h))
  <1>3. ASSUME NEW k \in 0 .. 8 PROVE Script(h)[n + 1 + k] = Applying[k + 1]
    <2>1. n + 1 + k \in n + 1 .. n + 9 /\ n + 1 + k - n = k + 1
      BY <1>2
    <2> QED
      BY <1>2, <2>1
  <1>4. \A i \in 1 .. n : Prepares(Script(h)[i])
    BY <1>1, <1>2 DEF Prelude
  <1>5. Shown(h) = n + 1 /\ n \in Nat
    BY <1>2 DEF Shown
  <1> HIDE DEF n
  <1> QED
    BY <1>3, <1>4, <1>5

(* Each piece of work has its place.                                       *)
LEMMA Places ==
    ASSUME NEW h, NEW i \in 1 .. Shown(h) + 8
    PROVE  /\ Script(h)[i] = Work("on_plan") => i = Shown(h)
           /\ Script(h)[i][1] = "work" /\ Script(h)[i][3] \in Preparation => i < Shown(h)
           /\ Script(h)[i][1] = "work" /\ Script(h)[i][3] = "write" => i = Shown(h) + 2
           /\ Script(h)[i][1] = "work" /\ Script(h)[i][3] = "prune" => i = Shown(h) + 3
           /\ Script(h)[i] = Work("reconcile") => i = Shown(h) + 6
           /\ Script(h)[i] = Work("outcome") => i = Shown(h) + 8
           /\ Script(h)[i][1] = "emit" => i < Shown(h) \/ i \in {Shown(h) + k : k \in {1, 4, 5, 7}}
  <1>1. Shown(h) \in Nat /\ Shown(h) # 0
    BY ScriptShape
  <1>2. CASE i < Shown(h)
    <2>1. Prepares(Script(h)[i])
      BY <1>1, <1>2, ScriptShape
    <2> QED
      BY <1>1, <1>2, <2>1 DEF Prepares, Preparation, Work
  <1>3. ASSUME NEW k \in 0 .. 8, i = Shown(h) + k PROVE Script(h)[i] = Applying[k + 1]
    BY <1>3, ScriptShape
  <1>4. \/ i < Shown(h) \/ i = Shown(h) + 0 \/ i = Shown(h) + 1 \/ i = Shown(h) + 2 \/ i = Shown(h) + 3
        \/ i = Shown(h) + 4 \/ i = Shown(h) + 5 \/ i = Shown(h) + 6 \/ i = Shown(h) + 7 \/ i = Shown(h) + 8
    BY <1>1
  <1>5. CASE i = Shown(h) + 0
    BY <1>1, <1>5, <1>3 DEF Applying, Work, Told, Preparation
  <1>6. CASE i = Shown(h) + 1
    BY <1>1, <1>6, <1>3 DEF Applying, Work, Told, Preparation
  <1>7. CASE i = Shown(h) + 2
    BY <1>1, <1>7, <1>3 DEF Applying, Work, Told, Preparation
  <1>8. CASE i = Shown(h) + 3
    BY <1>1, <1>8, <1>3 DEF Applying, Work, Told, Preparation
  <1>9. CASE i = Shown(h) + 4
    BY <1>1, <1>9, <1>3 DEF Applying, Work, Told, Preparation
  <1>10. CASE i = Shown(h) + 5
    BY <1>1, <1>10, <1>3 DEF Applying, Work, Told, Preparation
  <1>11. CASE i = Shown(h) + 6
    BY <1>1, <1>11, <1>3 DEF Applying, Work, Told, Preparation
  <1>12. CASE i = Shown(h) + 7
    BY <1>1, <1>12, <1>3 DEF Applying, Work, Told, Preparation
  <1>13. CASE i = Shown(h) + 8
    BY <1>1, <1>13, <1>3 DEF Applying, Work, Told, Preparation
  <1> QED
    BY <1>2, <1>4, <1>5, <1>6, <1>7, <1>8, <1>9, <1>10, <1>11, <1>12, <1>13

Summary == summarize_plan(Planned)
HostStages == {"call", "run", "leave", "logout", "left", "return", "returned"}

HostTypeOK ==
    /\ stage \in HostStages /\ session \in {"none", "open", "closed", "lost"}
    /\ step \in Nat /\ refusals \in Nat /\ token \in BOOLEAN
    /\ report = [changed |-> report.changed, deferred |-> report.deferred]
    /\ verdict = [kind |-> verdict.kind, code |-> verdict.code, completed |-> verdict.completed]
    /\ failure \subseteq {"cancelled", "callback-failed"}

(* Where a run is, its session is what Engine::run has made of it.         *)
SessionInv ==
    /\ stage = "call" => session = "none"
    /\ stage = "run" => session \in {"none", "open"}
    /\ stage \in {"left", "return", "returned"} => session # "open"

(* Nothing has been changed before the plan was shown, and what refused    *)
(* the run ends it before anything is looked at again.                     *)
PlaceInv ==
    /\ stage = "call" => step = 1 /\ report.changed = {} /\ refusals = 0
    /\ stage = "run" =>
         /\ step \in 1 .. Shown(host) + 8
         /\ step <= Shown(host) => report.changed = {}
         /\ step > Shown(host) => applying /\ shown = {Summary}
         /\ refusals > 0 => token /\ step \in Shown(host) + 2 .. Shown(host) + 4
    /\ report.changed # {} => applying /\ shown = {Summary} /\ report.changed \subseteq Summary

(* A verdict that all is well is the verdict of a run that nobody refused. *)
VerdictInv ==
    /\ stage \in {"call", "run"} => verdict.kind = "none"
    /\ verdict.kind = "ok" => refusals = 0 /\ (verdict.code = "preview" => report.changed = {})
    /\ stage # "returned" => status = "none"
    /\ status = "ok" => verdict.kind = "ok"

HostInv == HostTypeOK /\ SessionInv /\ PlaceInv /\ VerdictInv

(* A call begins without a session and with nothing changed.               *)
LEMMA HostStart == SdkInit => HostInv
  <1> SUFFICES ASSUME SdkInit PROVE HostInv
    OBVIOUS
  <1>1. Shown(host) \in Nat \ {0}
    BY ScriptShape
  <1> QED
    BY <1>1 DEF SdkInit, NoVerdict, HostInv, HostTypeOK, SessionInv, PlaceInv, VerdictInv,
       HostStages

(* A verdict is reached: the run leaves, by the logout if it has a         *)
(* session.                                                                *)
LEMMA RunEnds ==
    ASSUME HostInv, stage = "run", NEW v,
           v = [kind |-> v.kind, code |-> v.code, completed |-> v.completed],
           Ends(v), HostTypeOK', UNCHANGED <<host, session, status>>,
           report'.changed # {} => applying' /\ shown' = {Summary} /\ report'.changed \subseteq Summary,
           v.kind = "ok" => refusals' = 0 /\ (v.code = "preview" => report'.changed = {}),
           v.kind # "none"
    PROVE  HostInv'
  <1>1. verdict' = v /\ stage' = (IF session = "open" THEN "leave" ELSE "return")
    BY DEF Ends, Protected
  <1> QED
    BY <1>1 DEF HostInv, SessionInv, PlaceInv, VerdictInv, Summary, Planned

(* A callback unwinds: the logout is tried on the way.                     *)
LEMMA RunUnwinds ==
    ASSUME HostInv, stage = "run", Unwinds, HostTypeOK', UNCHANGED <<host, status>>,
           report'.changed # {} => applying' /\ shown' = {Summary} /\ report'.changed \subseteq Summary
    PROVE  HostInv'
  <1>1. verdict'.kind = "panic" /\ stage' = "return" /\ session' # "open"
    BY DEF Unwinds, Protected, HostInv, SessionInv
  <1> QED
    BY <1>1 DEF HostInv, SessionInv, PlaceInv, VerdictInv, Summary, Planned

(* The run goes on to its next entry.                                      *)
LEMMA RunGoes ==
    ASSUME HostInv, stage = "run", Goes, step # Shown(host), step < Shown(host) + 8, HostTypeOK',
           UNCHANGED <<host, token, shown, applying, report, status, refusals>>,
           session' \in {"none", "open"}, refusals > 0 => step # Shown(host) + 4
    PROVE  HostInv'
  <1>1. Shown(host) \in Nat \ {0}
    BY ScriptShape
  <1>2. step' = step + 1 /\ stage' = "run" /\ verdict' = verdict
    BY DEF Goes
  <1> QED
    BY <1>1, <1>2 DEF HostInv, HostTypeOK, SessionInv, PlaceInv, VerdictInv, Summary, Planned

(* What comes next in a plan is in the plan, and was shown.                *)
LEMMA NextPathPlanned ==
    ASSUME Left # {}
    PROVE  NextPath \in Summary
  <1> DEFINE Six == {"pre-delete", "create", "copy", "upload", "post-delete", "rename"}
             First(i) == CarryOrder[i] \in Left /\ \A j \in 1 .. i - 1 : CarryOrder[j] \notin Left
  <1>1. /\ CarryOrder[1] = "pre-delete" /\ CarryOrder[2] = "create" /\ CarryOrder[3] = "copy"
        /\ CarryOrder[4] = "upload" /\ CarryOrder[5] = "post-delete" /\ CarryOrder[6] = "rename"
    BY DEF CarryOrder
  <1>2. Left \subseteq Planned /\ Left \subseteq Six
    BY DEF Left, Lists
  <1>3. \E i \in 1 .. 6 : First(i)
    <2>1. \/ CarryOrder[1] \in Left \/ CarryOrder[2] \in Left \/ CarryOrder[3] \in Left
          \/ CarryOrder[4] \in Left \/ CarryOrder[5] \in Left \/ CarryOrder[6] \in Left
      BY <1>1, <1>2
    <2>2. CASE CarryOrder[1] \in Left
      <3>1. First(1)
        BY <2>2
      <3> QED
        BY <3>1
    <2>3. CASE CarryOrder[1] \notin Left /\ CarryOrder[2] \in Left
      <3>1. First(2)
        BY <2>3
      <3> QED
        BY <3>1
    <2>4. CASE CarryOrder[1] \notin Left /\ CarryOrder[2] \notin Left /\ CarryOrder[3] \in Left
      <3>1. First(3)
        BY <2>4
      <3> QED
        BY <3>1
    <2>5. CASE /\ CarryOrder[1] \notin Left /\ CarryOrder[2] \notin Left /\ CarryOrder[3] \notin Left
               /\ CarryOrder[4] \in Left
      <3>1. First(4)
        BY <2>5
      <3> QED
        BY <3>1
    <2>6. CASE /\ CarryOrder[1] \notin Left /\ CarryOrder[2] \notin Left /\ CarryOrder[3] \notin Left
               /\ CarryOrder[4] \notin Left /\ CarryOrder[5] \in Left
      <3>1. First(5)
        BY <2>6
      <3> QED
        BY <3>1
    <2>7. CASE /\ CarryOrder[1] \notin Left /\ CarryOrder[2] \notin Left /\ CarryOrder[3] \notin Left
               /\ CarryOrder[4] \notin Left /\ CarryOrder[5] \notin Left /\ CarryOrder[6] \in Left
      <3>1. First(6)
        BY <2>7
      <3> QED
        BY <3>1
    <2> QED
      BY <2>1, <2>2, <2>3, <2>4, <2>5, <2>6, <2>7
  <1>4. CarryOrder[CHOOSE i \in 1 .. 6 : First(i)] \in Left
    BY <1>3
  <1> QED
    BY <1>2, <1>4 DEF NextPath, Summary, summarize_plan

(* Every step of an embedding program's run keeps the invariant.           *)
LEMMA HostStep ==
    ASSUME HostInv, SdkNext
    PROVE  HostInv'
  <1> DEFINE n == Shown(host)
  <1>1. n \in Nat \ {0}
    BY ScriptShape
  <1> HIDE DEF n
  <1>2. \A e : SdkErr(e) = [kind |-> "error", code |-> e, completed |-> {}] /\ SdkErr(e).kind = "error"
               /\ SdkErr(e).code = e /\ SdkErr(e).completed = {}
    BY DEF SdkErr
  <1>3. \A f : invoke_event(f) => failure' = {"callback-failed"} \/ failure' = failure
    BY DEF invoke_event, CallbackStatus
  <1>4. CASE Call
    <2>1. /\ UNCHANGED <<host, step, auth, token, session, shown, applying, report, failure, refusals>>
          /\ stage = "call"
      BY <1>4 DEF Call
    <2>2. \/ stage' = "run" /\ UNCHANGED <<verdict, status, handles>>
          \/ stage' = "returned" /\ verdict' = SdkErr("invalid-request") /\ status' = "invalid-argument"
      BY <1>4 DEF Call
    <2>3. HostTypeOK'
      BY <1>2, <2>1, <2>2 DEF HostInv, HostTypeOK, HostStages
    <2>4. CASE stage' = "run" /\ UNCHANGED <<verdict, status, handles>>
      BY <1>1, <2>1, <2>3, <2>4 DEF n, HostInv, HostTypeOK, SessionInv, PlaceInv, VerdictInv,
         Summary, Planned
    <2>5. CASE stage' = "returned" /\ verdict' = SdkErr("invalid-request") /\ status' = "invalid-argument"
      BY <1>2, <2>1, <2>3, <2>5 DEF HostInv, SessionInv, PlaceInv, VerdictInv, Summary, Planned
    <2> QED
      BY <2>2, <2>4, <2>5
  <1>5. CASE Emit
    <2>1. /\ stage = "run" /\ Script(host)[step][1] = "emit" /\ step \in 1 .. n + 8
          /\ UNCHANGED <<host, status, handles, auth, shown, applying, report>>
      BY <1>5 DEF Emit, Here, Same, n, HostInv, PlaceInv
    <2>2. step < n \/ step \in {n + k : k \in {1, 4, 5, 7}}
      BY <2>1, Places DEF n
    <2>3. CASE token
      <3>1. Ends(SdkErr("cancelled")) /\ UNCHANGED <<step, token, session, failure, refusals>>
        BY <1>5, <2>3 DEF Emit
      <3>2. HostTypeOK'
        BY <1>2, <2>1, <3>1 DEF HostInv, HostTypeOK, HostStages, Ends, Protected
      <3> QED
        BY <1>2, <2>1, <3>1, <3>2, RunEnds DEF HostInv, PlaceInv
    <2>4. ASSUME ~token, NEW a \in EventAnswers, invoke_event(a), a = "continue", Goes,
                 UNCHANGED <<token, session, refusals>>
          PROVE  HostInv'
      <3>1. HostTypeOK'
        BY <1>3, <2>1, <2>4 DEF HostInv, HostTypeOK, HostStages, Goes
      <3>2. refusals = 0 /\ session \in {"none", "open"}
        BY <2>1, <2>4 DEF HostInv, HostTypeOK, PlaceInv, SessionInv
      <3>3. step # n /\ step < n + 8
        BY <1>1, <2>1, <2>2
      <3> QED
        BY <2>1, <2>4, <3>1, <3>2, <3>3, RunGoes DEF n
    <2>5. ASSUME ~token, NEW a \in EventAnswers, invoke_event(a), Ends(SdkErr("cancelled")),
                 token' = TRUE,
                 refusals' = refusals + 1, UNCHANGED <<step, session>>
          PROVE  HostInv'
      <3>1. HostTypeOK'
        BY <1>2, <1>3, <2>1, <2>5 DEF HostInv, HostTypeOK, HostStages, Ends, Protected
      <3> QED
        BY <1>2, <2>1, <2>5, <3>1, RunEnds DEF HostInv, PlaceInv
    <2>6. ASSUME ~token, NEW a \in EventAnswers, invoke_event(a), Unwinds,
                 UNCHANGED <<step, token, refusals>>
          PROVE  HostInv'
      <3>1. HostTypeOK'
        BY <1>3, <2>1, <2>6 DEF HostInv, HostTypeOK, HostStages, Unwinds, Protected
      <3> QED
        BY <2>1, <2>6, <3>1, RunUnwinds DEF HostInv, PlaceInv
    <2>7. ASSUME ~token PROVE HostInv'
      <3>1. PICK a \in EventAnswers :
              /\ invoke_event(a)
              /\ CASE a = "continue" -> Goes /\ UNCHANGED <<token, session, refusals>>
                   [] a \in {"cancel", "unknown"} -> Ends(SdkErr("cancelled")) /\ token' = TRUE /\ refusals' = refusals + 1
                                                     /\ UNCHANGED <<step, session>>
                   [] OTHER -> Unwinds /\ UNCHANGED <<step, token, refusals>>
        BY <1>5, <2>7 DEF Emit
      <3>2. CASE a = "continue"
        BY <2>4, <2>7, <3>1, <3>2
      <3>3. CASE a \in {"cancel", "unknown"}
        BY <2>5, <2>7, <3>1, <3>3
      <3>4. CASE a # "continue" /\ a \notin {"cancel", "unknown"}
        BY <2>6, <2>7, <3>1, <3>4
      <3> QED
        BY <3>2, <3>3, <3>4
    <2> QED
      BY <2>3, <2>7
  <1>6. CASE DoWork
    <2>1. /\ stage = "run" /\ Script(host)[step][1] = "work" /\ Script(host)[step][3] \in Preparation
          /\ step \in 1 .. n + 8
          /\ UNCHANGED <<host, status, handles, auth, token, session, shown, applying, report, failure,
                         refusals>>
      BY <1>6 DEF DoWork, Here, Same, n, HostInv, PlaceInv, Preparation
    <2>2. step < n
      BY <2>1, Places DEF n
    <2>3. refusals = 0 /\ session \in {"none", "open"}
      BY <1>1, <2>1, <2>2 DEF n, HostInv, HostTypeOK, PlaceInv, SessionInv
    <2>4. ASSUME Goes PROVE HostInv'
      <3>1. HostTypeOK'
        BY <2>1, <2>4 DEF HostInv, HostTypeOK, HostStages, Goes
      <3> QED
        BY <1>1, <2>1, <2>2, <2>3, <2>4, <3>1, RunGoes DEF n
    <2>5. ASSUME NEW e, Ends(SdkErr(e)), UNCHANGED step PROVE HostInv'
      <3>1. HostTypeOK'
        BY <1>2, <2>1, <2>5 DEF HostInv, HostTypeOK, HostStages, Ends, Protected
      <3> QED
        BY <1>2, <2>1, <2>5, <3>1, RunEnds DEF HostInv, PlaceInv
    <2> QED
      BY <1>6, <2>4, <2>5 DEF DoWork
  <1>7. CASE AskSecret
    <2>1. /\ stage = "run" /\ Script(host)[step] = Work("authenticate") /\ step \in 1 .. n + 8
          /\ UNCHANGED <<host, status, handles, step, token, shown, applying, report>>
      BY <1>7 DEF AskSecret, At, Here, Same, n, HostInv, PlaceInv
    <2>2. step < n
      <3>1. Work("authenticate")[1] = "work" /\ Work("authenticate")[3] \in Preparation
        BY DEF Work, Preparation
      <3> QED
        BY <2>1, <3>1, Places DEF n
    <2>3. refusals = 0 /\ session \in {"none", "open"}
      BY <1>1, <2>1, <2>2 DEF n, HostInv, HostTypeOK, PlaceInv, SessionInv
    <2>4. ASSUME NEW e, Ends(SdkErr(e)), UNCHANGED session, refusals' \in Nat,
                 failure' \subseteq {"cancelled", "callback-failed"}
          PROVE  HostInv'
      <3>1. HostTypeOK'
        BY <1>2, <2>1, <2>4 DEF HostInv, HostTypeOK, HostStages, Ends, Protected
      <3> QED
        BY <1>2, <2>1, <2>4, <3>1, RunEnds DEF HostInv, PlaceInv
    <2>5. CASE token
      <3>1. Ends(SdkErr("cancelled")) /\ UNCHANGED <<auth, session, failure, refusals>>
        BY <1>7, <2>5 DEF AskSecret
      <3> QED
        BY <2>3, <2>4, <3>1 DEF HostInv, HostTypeOK
    <2>6. CASE ~token
      <3>1. PICK a \in SecretAnswers, usable \in BOOLEAN :
              /\ IF a = "changed" THEN invalid_callback ELSE UNCHANGED failure
              /\ refusals' = IF a \in {"changed", "cancelled"} THEN refusals + 1 ELSE refusals
              /\ CASE a = "panic" -> Unwinds /\ UNCHANGED auth
                   [] a = "value" /\ usable ->
                        /\ auth' = CASE auth = "password" -> "login" [] auth = "otp-required" -> "login-otp" [] OTHER -> "login-again"
                        /\ UNCHANGED <<stage, verdict, session>>
                   [] a = "unavailable" /\ auth # "password" -> Ends(SdkErr("otp-required")) /\ UNCHANGED <<auth, session>>
                   [] OTHER -> Ends(SdkErr(provider_error(a))) /\ UNCHANGED <<auth, session>>
        BY <1>7, <2>6 DEF AskSecret
      <3>2. /\ refusals' \in Nat /\ failure' \subseteq {"cancelled", "callback-failed"}
            /\ a \notin {"changed", "cancelled"} => refusals' = 0
        BY <2>3, <3>1 DEF invalid_callback, HostInv, HostTypeOK
      <3>3. CASE a = "panic"
        <4>1. Unwinds
          BY <3>1, <3>3
        <4>2. HostTypeOK'
          BY <2>1, <3>2, <4>1 DEF HostInv, HostTypeOK, HostStages, Unwinds, Protected
        <4> QED
          BY <2>1, <4>1, <4>2, RunUnwinds DEF HostInv, PlaceInv
      <3>4. CASE a = "value" /\ usable
        <4>1. UNCHANGED <<stage, verdict, session>> /\ refusals' = 0
          BY <3>1, <3>2, <3>4
        <4>2. HostTypeOK'
          BY <2>1, <3>2, <4>1 DEF HostInv, HostTypeOK, HostStages
        <4> QED
          BY <2>1, <2>3, <4>1, <4>2 DEF HostInv, SessionInv, PlaceInv, VerdictInv, Summary, Planned
      <3>5. CASE a = "unavailable" /\ auth # "password"
        BY <2>4, <3>1, <3>2, <3>5
      <3>6. CASE a # "panic" /\ ~(a = "value" /\ usable) /\ ~(a = "unavailable" /\ auth # "password")
        <4>1. Ends(SdkErr(provider_error(a))) /\ UNCHANGED session
          BY <3>1, <3>6
        <4> QED
          BY <2>4, <3>2, <4>1
      <3> QED
        BY <3>3, <3>4, <3>5, <3>6
    <2> QED
      BY <2>5, <2>6
  <1>8. CASE LogInSdk
    <2>1. /\ stage = "run" /\ Script(host)[step] = Work("authenticate") /\ step \in 1 .. n + 8
          /\ UNCHANGED <<host, status, handles, token, shown, applying, report, failure, refusals>>
      BY <1>8 DEF LogInSdk, At, Here, Same, n, HostInv, PlaceInv
    <2>2. step < n
      <3>1. Work("authenticate")[1] = "work" /\ Work("authenticate")[3] \in Preparation
        BY DEF Work, Preparation
      <3> QED
        BY <2>1, <3>1, Places DEF n
    <2>3. refusals = 0 /\ session \in {"none", "open"}
      BY <1>1, <2>1, <2>2 DEF n, HostInv, HostTypeOK, PlaceInv, SessionInv
    <2>4. ASSUME session' = "open", Goes PROVE HostInv'
      <3>1. HostTypeOK'
        BY <2>1, <2>4 DEF HostInv, HostTypeOK, HostStages, Goes
      <3> QED
        BY <1>1, <2>1, <2>2, <2>3, <2>4, <3>1, RunGoes DEF n
    <2>5. ASSUME UNCHANGED <<stage, verdict, session, step>> PROVE HostInv'
      BY <2>1, <2>5 DEF HostInv, HostTypeOK, SessionInv, PlaceInv, VerdictInv, Summary, Planned
    <2>6. ASSUME NEW e, Ends(SdkErr(e)), UNCHANGED <<auth, session, step>> PROVE HostInv'
      <3>1. HostTypeOK'
        BY <1>2, <2>1, <2>6 DEF HostInv, HostTypeOK, HostStages, Ends, Protected
      <3> QED
        BY <1>2, <2>1, <2>6, <3>1, RunEnds DEF HostInv, PlaceInv
    <2> QED
      BY <1>8, <2>4, <2>5, <2>6 DEF LogInSdk
  <1>9. CASE OnPlan
    <2>1. /\ stage = "run" /\ Script(host)[step] = Work("on_plan") /\ step \in 1 .. n + 8
          /\ UNCHANGED <<host, status, handles, auth, report>> /\ shown' = {Summary}
      BY <1>9 DEF OnPlan, At, Here, Same, n, HostInv, PlaceInv, Summary
    <2>2. step = n
      BY <2>1, Places DEF n
    <2>3. refusals = 0 /\ session \in {"none", "open"} /\ report.changed = {}
      BY <1>1, <2>1, <2>2 DEF n, HostInv, HostTypeOK, PlaceInv, SessionInv
    <2>4. PICK a \in PlanAnswers :
         /\ failure' = IF a \in {"cancel", "unknown"} THEN {CallbackStatus(a)} ELSE failure
         /\ token' = (token \/ a \in {"cancel", "unknown"})
         /\ refusals' = IF a \in {"cancel", "unknown"} THEN refusals + 1 ELSE refusals
         /\ applying' = (a = "apply")
         /\ CASE a = "panic" -> Unwinds /\ UNCHANGED step
              [] a # "panic" /\ token' -> Ends(SdkErr("cancelled")) /\ UNCHANGED <<step, session>>
              [] a = "apply" /\ ~ token' -> Goes /\ UNCHANGED session
              [] OTHER -> Ends(RunOutcome(FALSE)) /\ UNCHANGED <<step, session>>
      BY <1>9 DEF OnPlan
    <2>5. /\ token' \in BOOLEAN /\ refusals' \in Nat
          /\ failure' \subseteq {"cancelled", "callback-failed"}
          /\ ~token' => refusals' = 0
      <3>1. CASE a \in {"cancel", "unknown"}
        <4>1. failure' = {CallbackStatus(a)} /\ refusals' = refusals + 1 /\ token' = TRUE
          BY <2>4, <3>1
        <4>2. CallbackStatus(a) \in {"cancelled", "callback-failed"}
          BY DEF CallbackStatus
        <4> QED
          BY <2>3, <4>1, <4>2
      <3>2. CASE a \notin {"cancel", "unknown"}
        <4>1. failure' = failure /\ refusals' = refusals /\ token' = token
          <5>1. failure' = failure /\ refusals' = refusals
            BY <2>4, <3>2
          <5>2. token' = (token \/ a \in {"cancel", "unknown"}) /\ token \in BOOLEAN
            BY <2>4 DEF HostInv, HostTypeOK
          <5> QED
            BY <3>2, <5>1, <5>2
        <4> QED
          BY <2>3, <4>1 DEF HostInv, HostTypeOK
      <3> QED
        BY <3>1, <3>2
    <2>6. CASE a = "panic"
      <3>1. Unwinds /\ UNCHANGED step
        BY <2>4, <2>6
      <3>2. HostTypeOK'
        BY <2>1, <2>5, <3>1 DEF HostInv, HostTypeOK, HostStages, Unwinds, Protected
      <3> QED
        BY <2>1, <2>3, <3>1, <3>2, RunUnwinds
    <2>7. CASE a # "panic" /\ token'
      <3>1. Ends(SdkErr("cancelled")) /\ UNCHANGED <<step, session>>
        BY <2>4, <2>7
      <3>2. HostTypeOK'
        BY <1>2, <2>1, <2>5, <3>1 DEF HostInv, HostTypeOK, HostStages, Ends, Protected
      <3> QED
        BY <1>2, <2>1, <2>3, <3>1, <3>2, RunEnds
    <2>8. CASE a = "apply" /\ ~token'
      <3>1. Goes /\ UNCHANGED session /\ applying' = TRUE
        BY <2>4, <2>8
      <3>2. HostTypeOK'
        BY <2>1, <2>5, <3>1 DEF HostInv, HostTypeOK, HostStages, Goes
      <3>3. step' = n + 1 /\ stage' = "run" /\ verdict' = verdict /\ refusals' = 0
        BY <2>1, <2>2, <2>5, <2>8, <3>1 DEF Goes
      <3> QED
        BY <1>1, <2>1, <2>3, <3>1, <3>2, <3>3 DEF n, HostInv, SessionInv, PlaceInv, VerdictInv,
           Summary, Planned
    <2>9. CASE a # "panic" /\ ~token' /\ a # "apply"
      <3>1. Ends(RunOutcome(FALSE)) /\ UNCHANGED <<step, session>>
        BY <2>4, <2>9
      <3>2. /\ RunOutcome(FALSE) = [kind |-> "ok", code |-> "preview", completed |-> {}]
            /\ RunOutcome(FALSE).kind = "ok"
        BY DEF RunOutcome
      <3>3. HostTypeOK'
        BY <2>1, <2>5, <3>1, <3>2 DEF HostInv, HostTypeOK, HostStages, Ends, Protected
      <3>4. RunOutcome(FALSE) = [kind |-> RunOutcome(FALSE).kind, code |-> RunOutcome(FALSE).code,
                                 completed |-> RunOutcome(FALSE).completed]
        BY <3>2
      <3> QED
        BY <2>1, <2>3, <2>5, <2>9, <3>1, <3>2, <3>3, <3>4, RunEnds
    <2> QED
      BY <2>6, <2>7, <2>8, <2>9
  <1>10. CASE Execute
    <2>1. /\ stage = "run" /\ Script(host)[step][1] = "work"
          /\ Script(host)[step][3] \in {"write", "prune"}
          /\ step \in 1 .. n + 8 /\ Left # {}
          /\ UNCHANGED <<host, status, handles, step, auth, shown, applying>>
      BY <1>10 DEF Execute, InExecution, Here, Same, n, HostInv, PlaceInv
    <2>2. step = n + 2 \/ step = n + 3
      BY <2>1, Places DEF n
    <2>3. /\ applying /\ shown = {Summary} /\ session \in {"none", "open"}
          /\ report.changed \subseteq Summary
      BY <1>1, <2>1, <2>2 DEF n, HostInv, PlaceInv, SessionInv
    <2>4. \A e, r : /\ with_partial_execution(SdkErr(e), r) = [kind |-> "error", code |-> e,
                                                               completed |-> {r}]
                    /\ with_partial_execution(SdkErr(e), r).kind = "error"
                    /\ with_partial_execution(SdkErr(e), r).code = e
                    /\ with_partial_execution(SdkErr(e), r).completed = {r}
      BY DEF with_partial_execution, SdkErr
    <2>5. ASSUME NEW e, NEW r, ExecutionFails(e, r), UNCHANGED <<token, session, failure, refusals>>,
                 report' = r, r = report
          PROVE  HostInv'
      <3> DEFINE v == with_partial_execution(SdkErr(from_core(e)), from_report(r))
      <3>1. /\ Ends(v) /\ v = [kind |-> v.kind, code |-> v.code, completed |-> v.completed]
            /\ v.kind = "error"
        BY <2>4, <2>5 DEF ExecutionFails
      <3> HIDE DEF v
      <3>2. HostTypeOK'
        BY <2>1, <2>5, <3>1 DEF HostInv, HostTypeOK, HostStages, Ends, Protected
      <3> QED
        BY <2>1, <2>3, <2>5, <3>1, <3>2, RunEnds
    <2>6. CASE token
      <3>1. /\ ExecutionFails("Cancelled", report)
            /\ UNCHANGED <<token, session, report, failure, refusals>>
        BY <1>10, <2>6 DEF Execute
      <3> QED
        BY <2>5, <3>1
    <2>7. CASE ~token
      <3>1. PICK how \in {"changed", "deferred", "failed"}, a \in EventAnswers :
              LET r == CASE how = "changed" -> [report EXCEPT !.changed = @ \cup {NextPath}]
                         [] how = "deferred" -> [report EXCEPT !.deferred = @ \cup {NextPath}]
                         [] OTHER -> report
              IN /\ report' = r
                 /\ IF how = "failed"
                    THEN /\ a = "continue"
                         /\ ExecutionFails("Http", r) /\ UNCHANGED <<token, session, failure, refusals>>
                    ELSE /\ invoke_event(a)
                         /\ token' = (a \in {"cancel", "unknown"})
                         /\ refusals' = IF a \in {"cancel", "unknown"} THEN refusals + 1 ELSE refusals
                         /\ IF a = "panic" THEN Unwinds ELSE UNCHANGED <<stage, verdict, session>>
        BY <1>10, <2>7 DEF Execute
      <3>2. CASE how = "failed"
        <4>1. /\ ExecutionFails("Http", report) /\ report' = report
              /\ UNCHANGED <<token, session, failure, refusals>>
          BY <3>1, <3>2
        <4> QED
          BY <2>5, <4>1
      <3>3. CASE how # "failed"
        <4>1. /\ invoke_event(a) /\ token' = (a \in {"cancel", "unknown"})
              /\ refusals' = IF a \in {"cancel", "unknown"} THEN refusals + 1 ELSE refusals
              /\ IF a = "panic" THEN Unwinds ELSE UNCHANGED <<stage, verdict, session>>
              /\ \/ report' = [report EXCEPT !.changed = @ \cup {NextPath}]
                 \/ report' = [report EXCEPT !.deferred = @ \cup {NextPath}]
          BY <3>1, <3>3
        <4>2. NextPath \in Summary
          BY <2>1, NextPathPlanned
        <4>3. /\ report' = [changed |-> report'.changed, deferred |-> report'.deferred]
              /\ report'.changed \subseteq Summary
          BY <2>3, <4>1, <4>2 DEF HostInv, HostTypeOK
        <4>4. /\ refusals' \in Nat /\ token' \in BOOLEAN
              /\ failure' \subseteq {"cancelled", "callback-failed"}
              /\ (refusals' > 0 => token')
          <5>1. /\ refusals \in Nat /\ (refusals > 0 => token)
                /\ failure \subseteq {"cancelled", "callback-failed"}
            BY <2>1 DEF HostInv, HostTypeOK, PlaceInv
          <5>2. refusals = 0
            BY <2>7, <5>1
          <5>3. refusals' \in Nat /\ token' \in BOOLEAN /\ (refusals' > 0 => token')
            <6>1. token' = (a \in {"cancel", "unknown"})
              BY <4>1
            <6>2. refusals' = IF a \in {"cancel", "unknown"} THEN refusals + 1 ELSE refusals
              BY <4>1
            <6>3. refusals' = IF a \in {"cancel", "unknown"} THEN 1 ELSE 0
              BY <5>2, <6>2
            <6>4. token' \in BOOLEAN
              BY <6>1
            <6>5. CASE a \in {"cancel", "unknown"}
              <7>1. refusals' = 1
                BY <6>3, <6>5
              <7>2. token'
                BY <6>1, <6>5
              <7> QED
                BY <6>4, <7>1, <7>2
            <6>6. CASE ~(a \in {"cancel", "unknown"})
              <7>1. refusals' = 0
                BY <6>3, <6>6
              <7> QED
                BY <6>4, <7>1
            <6> QED
              BY <6>5, <6>6
          <5>4. failure' \subseteq {"cancelled", "callback-failed"}
            BY <1>3, <4>1, <5>1
          <5> QED
            BY <5>3, <5>4
        <4>5. CASE a = "panic"
          <5>1. Unwinds
            BY <4>1, <4>5
          <5>2. HostTypeOK'
            BY <2>1, <4>3, <4>4, <5>1 DEF HostInv, HostTypeOK, HostStages, Unwinds, Protected
          <5> QED
            BY <2>1, <2>3, <4>3, <5>1, <5>2, RunUnwinds
        <4>6. CASE a # "panic"
          <5>1. UNCHANGED <<stage, verdict, session>>
            BY <4>1, <4>6
          <5>2. HostTypeOK'
            BY <2>1, <4>3, <4>4, <5>1 DEF HostInv, HostTypeOK, HostStages
          <5> QED
            BY <1>1, <2>1, <2>2, <2>3, <4>3, <4>4, <5>1, <5>2
            DEF n, HostInv, SessionInv, PlaceInv, VerdictInv, Summary, Planned
        <4> QED
          BY <4>5, <4>6
      <3> QED
        BY <3>2, <3>3
    <2> QED
      BY <2>6, <2>7
  <1>11. CASE Executed
    <2>1. /\ stage = "run" /\ Script(host)[step][1] = "work"
          /\ Script(host)[step][3] \in {"write", "prune"}
          /\ step \in 1 .. n + 8
          /\ UNCHANGED <<host, status, handles, auth, token, session, shown, applying, report, failure,
                         refusals>>
      BY <1>11 DEF Executed, InExecution, Here, Same, n, HostInv, PlaceInv
    <2>2. step = n + 2 \/ step = n + 3
      BY <2>1, Places DEF n
    <2>3. CASE Goes
      <3>1. HostTypeOK'
        BY <2>1, <2>3 DEF HostInv, HostTypeOK, HostStages, Goes
      <3> QED
        BY <1>1, <2>1, <2>2, <2>3, <3>1, RunGoes DEF n, HostInv, SessionInv
    <2>4. CASE ExecutionFails("Cancelled", report) /\ UNCHANGED step
      <3> DEFINE v == with_partial_execution(SdkErr(from_core("Cancelled")), from_report(report))
      <3>1. /\ Ends(v) /\ v = [kind |-> v.kind, code |-> v.code, completed |-> v.completed]
            /\ v.kind = "error"
        <4>1. Ends(v)
          BY <2>4 DEF ExecutionFails
        <4>2. \A e, r : /\ with_partial_execution(SdkErr(e), r) = [kind |-> "error", code |-> e,
                                                                   completed |-> {r}]
                        /\ with_partial_execution(SdkErr(e), r).kind = "error"
                        /\ with_partial_execution(SdkErr(e), r).code = e
                        /\ with_partial_execution(SdkErr(e), r).completed = {r}
          BY DEF with_partial_execution, SdkErr
        <4> QED
          BY <4>1, <4>2
      <3> HIDE DEF v
      <3>2. HostTypeOK'
        BY <2>1, <2>4, <3>1 DEF HostInv, HostTypeOK, HostStages, Ends, Protected
      <3> QED
        BY <2>1, <3>1, <3>2, RunEnds DEF HostInv, PlaceInv
    <2> QED
      BY <1>11, <2>3, <2>4 DEF Executed
  <1>12. CASE Reconcile
    <2>1. /\ stage = "run" /\ Script(host)[step] = Work("reconcile") /\ step \in 1 .. n + 8
          /\ UNCHANGED <<host, status, handles, auth, token, session, shown, applying, report, failure,
                         refusals>>
      BY <1>12 DEF Reconcile, At, Here, Same, n, HostInv, PlaceInv
    <2>2. step = n + 6
      BY <2>1, Places DEF n
    <2>3. refusals = 0
      BY <1>1, <2>1, <2>2 DEF n, HostInv, HostTypeOK, PlaceInv
    <2>4. CASE Goes
      <3>1. HostTypeOK'
        BY <2>1, <2>4 DEF HostInv, HostTypeOK, HostStages, Goes
      <3> QED
        BY <1>1, <2>1, <2>2, <2>3, <2>4, <3>1, RunGoes DEF n, HostInv, SessionInv
    <2>5. ASSUME NEW e, Ends(SdkErr(e)), UNCHANGED step PROVE HostInv'
      <3>1. HostTypeOK'
        BY <1>2, <2>1, <2>5 DEF HostInv, HostTypeOK, HostStages, Ends, Protected
      <3> QED
        BY <1>2, <2>1, <2>5, <3>1, RunEnds DEF HostInv, PlaceInv
    <2> QED
      BY <1>12, <2>4, <2>5 DEF Reconcile
  <1>13. CASE Outcome
    <2>1. /\ stage = "run" /\ Script(host)[step] = Work("outcome") /\ step \in 1 .. n + 8
          /\ UNCHANGED <<host, status, handles, step, auth, token, session, shown, applying, report,
                         failure, refusals>>
          /\ Ends(RunOutcome(TRUE))
      BY <1>13 DEF Outcome, At, Here, Same, n, HostInv, PlaceInv
    <2>2. step = n + 8
      BY <2>1, Places DEF n
    <2>3. refusals = 0
      BY <1>1, <2>1, <2>2 DEF n, HostInv, HostTypeOK, PlaceInv
    <2> DEFINE v == RunOutcome(TRUE)
    <2>4. /\ v = [kind |-> v.kind, code |-> v.code, completed |-> v.completed] /\ v.kind = "ok"
          /\ v.code = "applied"
      BY DEF RunOutcome
    <2>5. Ends(v)
      BY <2>1
    <2> HIDE DEF v
    <2>6. HostTypeOK'
      BY <2>1, <2>4, <2>5 DEF HostInv, HostTypeOK, HostStages, Ends, Protected
    <2> QED
      BY <2>1, <2>3, <2>4, <2>5, <2>6, RunEnds DEF HostInv, PlaceInv
  <1>14. \A e : LET v == Unless(verdict, e)
               IN v.kind # "ok" /\ v = [kind |-> v.kind, code |-> v.code, completed |-> v.completed]
    BY <1>2 DEF Unless, HostInv, HostTypeOK
  <1>15. LET v == [verdict EXCEPT !.kind = "panic"]
        IN v.kind # "ok" /\ v = [kind |-> v.kind, code |-> v.code, completed |-> v.completed]
    BY DEF HostInv, HostTypeOK
  <1>16. CASE AnnounceLogout
    <2>1. stage = "leave" /\ UNCHANGED <<host, status, handles, step, auth, shown, applying, report>>
      BY <1>16 DEF AnnounceLogout, Same
    <2>2. PICK a \in (IF token THEN {"not-told"} ELSE EventAnswers) :
         /\ invoke_event(a)
         /\ token' = (token \/ a \in {"cancel", "unknown"})
         /\ refusals' = IF a \in {"cancel", "unknown"} THEN refusals + 1 ELSE refusals
         /\ stage' = AfterAnnouncement(a)
         /\ IF a = "panic" THEN /\ verdict' = [verdict EXCEPT !.kind = "panic"]
                                /\ session' \in {"closed", "lost"}
            ELSE /\ verdict' = IF a = "continue" THEN verdict ELSE Unless(verdict, "cancelled")
                 /\ UNCHANGED session
      BY <1>16 DEF AnnounceLogout
    <2>3. /\ token' \in BOOLEAN /\ refusals' \in Nat
          /\ failure' \subseteq {"cancelled", "callback-failed"}
          /\ a = "continue" => refusals' = refusals
      BY <1>3, <2>2 DEF HostInv, HostTypeOK
    <2>4. /\ verdict' = [kind |-> verdict'.kind, code |-> verdict'.code,
                         completed |-> verdict'.completed]
          /\ verdict'.kind = "ok" => verdict' = verdict /\ a = "continue"
      <3>1. CASE a = "panic"
        <4>1. verdict' = [verdict EXCEPT !.kind = "panic"]
          BY <2>2, <3>1
        <4> QED
          BY <1>15, <3>1, <4>1
      <3>2. CASE a = "continue"
        BY <2>2, <3>2 DEF HostInv, HostTypeOK
      <3>3. CASE a # "panic" /\ a # "continue"
        <4>1. verdict' = Unless(verdict, "cancelled")
          BY <2>2, <3>3
        <4> QED
          BY <1>14, <4>1
      <3> QED
        BY <3>1, <3>2, <3>3
    <2>5. /\ stage' \in {"return", "logout"} /\ session' \in {"none", "open", "closed", "lost"}
          /\ stage' = "return" => session' # "open"
      BY <2>2 DEF AfterAnnouncement, HostInv, HostTypeOK
    <2>6. HostTypeOK'
      BY <2>1, <2>3, <2>4, <2>5 DEF HostInv, HostTypeOK, HostStages
    <2> QED
      BY <2>1, <2>3, <2>4, <2>5, <2>6 DEF HostInv, SessionInv, PlaceInv, VerdictInv, Summary,
         Planned
  <1>17. CASE LogoutSdk
    <2>1. /\ stage = "logout" /\ stage' = "left"
          /\ UNCHANGED <<host, status, handles, step, auth, token, shown, applying, report, failure,
                         refusals>>
      BY <1>17 DEF LogoutSdk, Same
    <2>2. /\ session' \in {"closed", "lost"}
          /\ verdict' = verdict \/ \E e : verdict' = Unless(verdict, e)
      BY <1>17 DEF LogoutSdk
    <2>3. /\ verdict' = [kind |-> verdict'.kind, code |-> verdict'.code,
                         completed |-> verdict'.completed]
          /\ verdict'.kind = "ok" => verdict' = verdict
      BY <1>14, <2>2 DEF HostInv, HostTypeOK
    <2>4. HostTypeOK'
      BY <2>1, <2>2, <2>3 DEF HostInv, HostTypeOK, HostStages
    <2> QED
      BY <2>1, <2>2, <2>3, <2>4 DEF HostInv, SessionInv, PlaceInv, VerdictInv, Summary, Planned
  <1>18. CASE TellLogout
    <2>1. /\ stage = "left" /\ stage' = "return"
          /\ UNCHANGED <<host, status, handles, step, auth, session, shown, applying, report>>
      BY <1>18 DEF TellLogout, Same
    <2>2. PICK a \in EventAnswers :
         /\ invoke_event(a)
         /\ token' = (token \/ a = "unknown")
         /\ refusals' = IF a \in {"cancel", "unknown"} THEN refusals + 1 ELSE refusals
         /\ verdict' = CASE a = "continue" -> verdict
                         [] a = "panic" -> [verdict EXCEPT !.kind = "panic"]
                         [] OTHER -> Unless(verdict, "cancelled")
      BY <1>18 DEF TellLogout
    <2>3. /\ token' \in BOOLEAN /\ refusals' \in Nat
          /\ failure' \subseteq {"cancelled", "callback-failed"}
          /\ a = "continue" => refusals' = refusals
      BY <1>3, <2>2 DEF HostInv, HostTypeOK
    <2>4. /\ verdict' = [kind |-> verdict'.kind, code |-> verdict'.code,
                         completed |-> verdict'.completed]
          /\ verdict'.kind = "ok" => verdict' = verdict /\ a = "continue"
      <3>1. CASE a = "panic"
        <4>1. verdict' = [verdict EXCEPT !.kind = "panic"]
          BY <2>2, <3>1
        <4> QED
          BY <1>15, <3>1, <4>1
      <3>2. CASE a = "continue"
        BY <2>2, <3>2 DEF HostInv, HostTypeOK
      <3>3. CASE a # "panic" /\ a # "continue"
        <4>1. verdict' = Unless(verdict, "cancelled")
          BY <2>2, <3>3
        <4> QED
          BY <1>14, <4>1
      <3> QED
        BY <3>1, <3>2, <3>3
    <2>5. HostTypeOK'
      BY <2>1, <2>3, <2>4 DEF HostInv, HostTypeOK, HostStages
    <2> QED
      BY <2>1, <2>3, <2>4, <2>5 DEF HostInv, SessionInv, PlaceInv, VerdictInv, Summary, Planned
  <1>19. CASE Return
    <2>1. /\ stage = "return" /\ stage' = "returned" /\ status' = contain_run(verdict, failure)
          /\ UNCHANGED <<host, step, auth, token, session, shown, applying, report, failure, verdict,
                         refusals>>
      BY <1>19 DEF Return
    <2>2. status' = "ok" => verdict.kind = "ok"
      <3>1. \A f : f # {} /\ f \subseteq {"cancelled",
                                          "callback-failed"} => (CHOOSE x \in f : TRUE) # "ok"
        <4>1. ASSUME NEW f, f # {}, f \subseteq {"cancelled", "callback-failed"}
              PROVE  (CHOOSE x \in f : TRUE) # "ok"
          <5>1. (CHOOSE x \in f : TRUE) \in f
            BY <4>1
          <5> QED
            BY <4>1, <5>1
        <4> QED
          BY <4>1
      <3> QED
        BY <2>1, <3>1 DEF contain_run, run_inner_status, HostInv, HostTypeOK
    <2>3. HostTypeOK'
      BY <2>1 DEF HostInv, HostTypeOK, HostStages
    <2> QED
      BY <2>1, <2>2, <2>3 DEF HostInv, SessionInv, PlaceInv, VerdictInv, Summary, Planned
  <1>20. CASE CancelFromOutside
    <2>1. /\ token' = TRUE
          /\ UNCHANGED <<host, stage, step, auth, session, shown, applying, report, failure, verdict,
                         status, handles, refusals>>
      BY <1>20 DEF CancelFromOutside
    <2> QED
      BY <2>1 DEF HostInv, HostTypeOK, SessionInv, PlaceInv, VerdictInv, Summary, Planned
  <1>21. CASE FreeHandle
    <2>1. UNCHANGED <<host, stage, step, auth, token, session, shown, applying, report, failure,
                      verdict, status, refusals>>
      BY <1>21 DEF FreeHandle
    <2> QED
      BY <2>1 DEF HostInv, HostTypeOK, SessionInv, PlaceInv, VerdictInv, Summary, Planned
  <1> QED
    BY <1>4, <1>5, <1>6, <1>7, <1>8, <1>9, <1>10, <1>11, <1>12, <1>13, <1>16, <1>17, <1>18, <1>19,
       <1>20, <1>21 DEF SdkNext

(* So does a step of somebody else.                                        *)
LEMMA HostStay ==
    ASSUME HostInv, UNCHANGED sdkVars
    PROVE  HostInv'
  BY DEF HostInv, HostTypeOK, SessionInv, PlaceInv, VerdictInv, Summary, Planned, sdkVars

(***************************************************************************)
(* Connections that were tested.                                           *)
(***************************************************************************)
(* A test and the proof that was signed for it.                            *)
ProofOf(t, key) ==
    [expires |-> t.at + CONNECTION_PROOF_LIFETIME_SECONDS,
     fingerprint |-> connection_fingerprint(key, t.c, t.password, t.totp), by |-> t.by, key |-> key]

ProbeTypeOK ==
    /\ proofClock \in Int
    /\ probe = [op |-> probe.op, at |-> probe.at, c |-> probe.c, by |-> probe.by, typed |-> probe.typed,
                password |-> probe.password, totp |-> probe.totp, key |-> probe.key, nas |-> probe.nas,
                outcome |-> probe.outcome, proof |-> probe.proof, seen |-> probe.seen, result |-> probe.result]
    /\ probe.seen \in Int
    /\ \A t \in tests : t.at \in Int

(* A proof that is held was signed for a test that succeeded, and what a   *)
(* browse shows is held.                                                   *)
HeldInv ==
    /\ \A p \in heldProofs : \E t \in tests : p = ProofOf(t, p.key)
    /\ probe.op = "browse" /\ probe.at # "idle" => probe.proof # {} /\ probe.proof \subseteq heldProofs

TestedInv == ProbeTypeOK /\ HeldInv /\ BrowseProven

(* Nothing is held before anything was tested.                             *)
LEMMA TestedStart == ProofInit => TestedInv
  <1> SUFFICES ASSUME ProofInit PROVE TestedInv
    OBVIOUS
  <1>1. probe.op = "none" /\ probe.at = "idle" /\ probe.seen = 0
    BY DEF ProofInit, NoProbe
  <1>2. ProbeTypeOK
    BY <1>1 DEF ProofInit, NoProbe, ProbeTypeOK
  <1> QED
    BY <1>1, <1>2 DEF ProofInit, TestedInv, HeldInv, BrowseProven

(* A step that only moves the probe along keeps the invariant.             *)
LEMMA ProbeMoves ==
    ASSUME TestedInv, ProbeTypeOK', Quiet, UNCHANGED <<heldProofs, tests>>,
           probe'.op = probe.op, probe'.proof = probe.proof, probe.at # "idle",
           \/ probe'.at \notin {"authenticate", "contact", "logout"}
           \/ /\ probe.at \in {"authenticate", "contact", "logout"}
              /\ probe'.c = probe.c /\ probe'.by = probe.by /\ probe'.password = probe.password
              /\ probe'.totp = probe.totp /\ probe'.seen = probe.seen
    PROVE  TestedInv'
  BY DEF TestedInv, HeldInv, BrowseProven

(* Every step of a test, a save or a browse keeps the invariant.           *)
LEMMA TestedStep ==
    ASSUME TestedInv, ProofNext
    PROVE  TestedInv'
  <1>1. CASE Ask
    <2>1. PICK op \in {"test", "browse"}, c \in Connections, by \in UiSessions,
               typed \in {{}} \cup {{p} : p \in Passwords}, proof \in {{}} \cup {{p} : p \in heldProofs} :
            /\ op = "browse" => proof # {}
            /\ probe' = [NoProbe EXCEPT !.op = op, !.at = "resolve", !.c = c, !.by = by,
                         !.typed = typed, !.proof = proof]
      BY <1>1 DEF Ask
    <2>2. probe'.op = op /\ probe'.at = "resolve" /\ probe'.proof = proof /\ probe'.seen = 0
      BY <2>1 DEF NoProbe
    <2>3. ProbeTypeOK'
      <3>1. probe' = [NoProbe EXCEPT !.op = op, !.at = "resolve", !.c = c, !.by = by, !.typed = typed,
                      !.proof = proof]
        BY <2>1
      <3> QED
        <4>1. probe' = [op |-> probe'.op, at |-> probe'.at, c |-> probe'.c, by |-> probe'.by,
                        typed |-> probe'.typed,
                password |-> probe'.password, totp |-> probe'.totp, key |-> probe'.key, nas |-> probe'.nas,
                outcome |-> probe'.outcome, proof |-> probe'.proof, seen |-> probe'.seen, result |-> probe'.result]
          BY <3>1 DEF NoProbe
        <4>2. proofClock' = proofClock /\ tests' = tests
          BY <1>1 DEF Ask, Quiet
        <4> QED
          BY <2>2, <4>1, <4>2 DEF TestedInv, ProbeTypeOK
    <2> QED
      BY <1>1, <2>1, <2>2, <2>3 DEF TestedInv, HeldInv, BrowseProven, Ask, Quiet
  <1>2. CASE Resolve
    <2> DEFINE found == resolve_connection_secrets(probe.c, probe.typed)
               mark == connection_fingerprint(signKey, probe.c, found.password, found.totp)
    <2>1. probe.at = "resolve" /\ Quiet /\ UNCHANGED <<heldProofs, tests>>
      BY <1>2 DEF Resolve
    <2>2. CASE \E result \in {"bad-request", "forbidden"} :
                 probe' = [probe EXCEPT !.at = "ended", !.result = result, !.typed = {}]
      <3>1. ProbeTypeOK' /\ probe'.at = "ended" /\ probe'.op = probe.op /\ probe'.proof = probe.proof
        BY <2>1, <2>2 DEF TestedInv, ProbeTypeOK, Quiet
      <3> QED
        BY <2>1, <3>1, ProbeMoves
    <2>3. CASE /\ probe.op = "browse" => \A p \in probe.proof : verify_connection_proof(p, signKey, probe.by, mark, proofClock)
               /\ probe' = [probe EXCEPT !.at = "authenticate", !.password = found.password,
                            !.totp = found.totp,
                                         !.key = signKey, !.seen = proofClock]
      <3> HIDE DEF found
      <3>1. /\ ProbeTypeOK' /\ probe'.at = "authenticate" /\ probe'.op = probe.op
            /\ probe'.proof = probe.proof
            /\ probe'.c = probe.c /\ probe'.by = probe.by /\ probe'.password = found.password
            /\ probe'.totp = found.totp /\ probe'.seen = proofClock
        BY <2>1, <2>3 DEF TestedInv, ProbeTypeOK, Quiet
      <3>2. HeldInv'
        BY <2>1, <3>1 DEF TestedInv, HeldInv
      <3>3. ASSUME probe.op = "browse" PROVE BrowseProven'
        <4>1. PICK p \in probe.proof : p \in heldProofs
          BY <2>1, <3>3 DEF TestedInv, HeldInv
        <4>2. PICK t \in tests : p = ProofOf(t, p.key)
          BY <4>1 DEF TestedInv, HeldInv
        <4>3. verify_connection_proof(p, signKey, probe.by, mark, proofClock)
          BY <2>3, <3>3, <4>1
        <4>4. p.expires = t.at + CONNECTION_PROOF_LIFETIME_SECONDS /\ p.by = t.by
              /\ p.fingerprint = connection_fingerprint(p.key, t.c, t.password, t.totp)
          BY <4>2 DEF ProofOf
        <4>5. t.c = probe.c /\ t.password = found.password /\ t.totp = found.totp /\ t.by = probe.by
          BY <4>3, <4>4 DEF verify_connection_proof, connection_fingerprint
        <4>6. t.at \in Int /\ proofClock \in Int
          BY <4>2 DEF TestedInv, ProbeTypeOK
        <4>7. /\ t.at <= proofClock + CLOCK_SKEW_SECONDS
              /\ proofClock < t.at + CONNECTION_PROOF_LIFETIME_SECONDS
          BY <4>3, <4>4, <4>6 DEF verify_connection_proof, CLOCK_SKEW_SECONDS,
             CONNECTION_PROOF_LIFETIME_SECONDS
        <4> QED
          BY <2>1, <3>1, <4>5, <4>7 DEF BrowseProven
      <3> QED
        BY <3>1, <3>2, <3>3 DEF TestedInv, BrowseProven
    <2> HIDE DEF found
    <2>4. \/ probe' = [probe EXCEPT !.at = "ended", !.result = "bad-request", !.typed = {}]
          \/ probe' = [probe EXCEPT !.at = "ended", !.result = "forbidden", !.typed = {}]
          \/ /\ ~(probe.op = "browse" /\ \E p \in probe.proof : ~verify_connection_proof(p, signKey, probe.by, mark, proofClock))
             /\ probe' = [probe EXCEPT !.at = "authenticate", !.password = found.password,
                          !.totp = found.totp,
                                       !.key = signKey, !.seen = proofClock]
      BY <1>2 DEF Resolve, Ended, found
    <2> QED
      BY <2>2, <2>3, <2>4
  <1>3. CASE authenticate_file_station
    <2>1. /\ probe.at = "authenticate" /\ Quiet /\ UNCHANGED <<heldProofs, tests>>
          /\ \/ probe' = [probe EXCEPT !.at = "contact", !.nas = "open"]
             \/ \E outcome : probe' = [probe EXCEPT !.at = "ended", !.result = outcome, !.typed = {}]
      BY <1>3 DEF authenticate_file_station, Ended
    <2>2. /\ ProbeTypeOK' /\ probe'.op = probe.op /\ probe'.proof = probe.proof
          /\ probe'.c = probe.c /\ probe'.by = probe.by /\ probe'.password = probe.password
          /\ probe'.totp = probe.totp /\ probe'.seen = probe.seen
      BY <2>1 DEF TestedInv, ProbeTypeOK, Quiet
    <2> QED
      BY <2>1, <2>2, ProbeMoves
  <1>4. CASE Contact
    <2>1. /\ probe.at = "contact" /\ Quiet /\ UNCHANGED <<heldProofs, tests>>
          /\ \E outcome : probe' = [probe EXCEPT !.at = "logout", !.outcome = outcome]
      BY <1>4 DEF Contact
    <2>2. /\ ProbeTypeOK' /\ probe'.op = probe.op /\ probe'.proof = probe.proof
          /\ probe'.c = probe.c /\ probe'.by = probe.by /\ probe'.password = probe.password
          /\ probe'.totp = probe.totp /\ probe'.seen = probe.seen
      BY <2>1 DEF TestedInv, ProbeTypeOK, Quiet
    <2> QED
      BY <2>1, <2>2, ProbeMoves
  <1>5. CASE LogoutBounded
    <2>1. /\ probe.at = "logout" /\ Quiet /\ UNCHANGED <<heldProofs, tests>>
          /\ \/ \E nasThen : probe' = [probe EXCEPT !.at = "sign", !.nas = nasThen]
             \/ \E result, nasThen : probe' = [probe EXCEPT !.at = "ended", !.result = result,
                                               !.typed = {}, !.nas = nasThen]
      BY <1>5 DEF LogoutBounded
    <2>2. /\ ProbeTypeOK' /\ probe'.op = probe.op /\ probe'.proof = probe.proof
          /\ probe'.at \in {"sign", "ended"}
      BY <2>1 DEF TestedInv, ProbeTypeOK, Quiet
    <2> QED
      BY <2>1, <2>2, ProbeMoves
  <1>6. CASE Sign
    <2> DEFINE mark == connection_fingerprint(probe.key, probe.c, probe.password, probe.totp)
               t == [c |-> probe.c, by |-> probe.by, password |-> probe.password, totp |-> probe.totp,
                     at |-> proofClock]
               p == issue_connection_proof(probe.key, probe.by, mark, proofClock)
    <2>1. /\ heldProofs' = heldProofs \cup {p} /\ tests' = tests \cup {t} /\ Quiet /\ probe.at = "sign"
          /\ probe' = [probe EXCEPT !.at = "ended", !.result = "ok", !.typed = {}]
      BY <1>6 DEF Sign, Ended
    <2>2. p = ProofOf(t, p.key) /\ t.at \in Int
      BY DEF issue_connection_proof, ProofOf, TestedInv, ProbeTypeOK
    <2> HIDE DEF t, p
    <2>3. ProbeTypeOK' /\ probe'.at = "ended" /\ probe'.op = probe.op /\ probe'.proof = probe.proof
      BY <2>1, <2>2 DEF TestedInv, ProbeTypeOK, Quiet
    <2>4. HeldInv'
      BY <2>1, <2>2, <2>3 DEF TestedInv, HeldInv
    <2> QED
      BY <2>3, <2>4 DEF TestedInv, BrowseProven
  <1>7. CASE Answered
    <2>1. probe' = NoProbe /\ Quiet /\ UNCHANGED <<heldProofs, tests>>
      BY <1>7 DEF Answered
    <2>2. probe'.op = "none" /\ probe'.at = "idle" /\ probe'.seen = 0
      BY <2>1 DEF NoProbe
    <2>3. ProbeTypeOK'
      BY <2>1, <2>2 DEF NoProbe, TestedInv, ProbeTypeOK, Quiet
    <2> QED
      BY <2>1, <2>2, <2>3 DEF TestedInv, HeldInv, BrowseProven
  <1>8. CASE Tick
    BY <1>8 DEF Tick, TestedInv, ProbeTypeOK, HeldInv, BrowseProven
  <1>9. CASE SomethingChanges
    BY <1>9 DEF SomethingChanges, TestedInv, ProbeTypeOK, HeldInv, BrowseProven
  <1> QED
    BY <1>1, <1>2, <1>3, <1>4, <1>5, <1>6, <1>7, <1>8, <1>9 DEF ProofNext

(* So does a step of somebody else.                                        *)
LEMMA TestedStay ==
    ASSUME TestedInv, UNCHANGED proofVars
    PROVE  TestedInv'
  BY DEF TestedInv, ProbeTypeOK, HeldInv, BrowseProven, proofVars

(***************************************************************************)
(* Processes.                                                              *)
(***************************************************************************)
Managers == {"none", "forked", "grouped", "armed", "running", "zombie", "gone"}
Helpers == {"none", "running", "zombie", "gone"}
Consumers == {"idle", "read", "grace", "whole", "fail", "term", "kill", "done", "killed"}
Startups == {"none", "1", "2", "3", "4", "5", "serving", "ready", "refused", "killed"}

ProcessTypeOK ==
    /\ manager \in Managers /\ helper \in Helpers /\ consumer \in Consumers
    /\ startup \in Startups
    /\ unfed \in BOOLEAN /\ ends \in BOOLEAN

(* What the consumer has seen end has ended.                               *)
ConsumerInv ==
    /\ manager \in {"none", "forked", "grouped", "armed"} => helper = "none"
    /\ consumer = "idle" => manager = "none"
    /\ consumer \in {"grace", "whole"} => manager = "gone"
    /\ consumer \in {"fail", "term", "kill"} => manager \in {"running", "zombie", "gone"}
    /\ consumer = "done" => manager \in {"none", "gone"} /\ helper \in {"none", "gone"}

(* What is called a success is read to its end first.                      *)
CaptureInv ==
    /\ consumer \in {"idle", "read", "grace", "whole"} => ~signalled
    /\ consumer \in {"grace", "whole"} => ~unfed
    /\ consumer = "whole" => ends
    /\ captured = "ok" => consumer = "done" /\ ends /\ ends_well /\ ~unfed /\ ~signalled

(* A service has asked for the signal before it looks for its parent.      *)
StartInv ==
    /\ startup \in {"2", "3", "4", "5", "serving"} => armed # "none"
    /\ starter = "dead" => startup \notin {"3", "4", "5", "serving"}

ProcessInv == ProcessTypeOK /\ ConsumerInv /\ CaptureInv /\ StartInv

(* No process is there at the start.                                       *)
LEMMA ProcessStart == SupervisionInit => ProcessInv
  BY DEF SupervisionInit, ProcessInv, ProcessTypeOK, ConsumerInv, CaptureInv, StartInv,
     Managers, Helpers, Consumers, Startups

(* Every step of a queued mutation's processes keeps the invariant.        *)
LEMMA QueuedStep ==
    ASSUME ProcessInv, QueuedNext
    PROVE  ProcessInv'
  <1> USE DEF ProcessInv, ProcessTypeOK, ConsumerInv, CaptureInv, StartInv,
         Managers, Helpers, Consumers, Startups, serviceVars
  <1>1. CASE PreExec
    BY <1>1 DEF PreExec
  <1>2. CASE ManagerForks
    BY <1>2 DEF ManagerForks
  <1>3. CASE Writes
    BY <1>3 DEF Writes
  <1>4. CASE ManagerExits
    BY <1>4 DEF ManagerExits
  <1>5. CASE HelperExits
    BY <1>5 DEF HelperExits
  <1>6. CASE ManagerWaits
    BY <1>6 DEF ManagerWaits
  <1>7. CASE AskedToStop
    BY <1>7 DEF AskedToStop
  <1>8. CASE Spawn
    BY <1>8 DEF Spawn
  <1>9. CASE ReadTurn
    <2>1. CASE stop \/ unread = "too-much"
      BY <1>9, <2>1 DEF ReadTurn
    <2>2. CASE ~(stop \/ unread = "too-much") /\ manager = "running"
      BY <1>9, <2>2 DEF ReadTurn
    <2>3. CASE ~(stop \/ unread = "too-much") /\ manager # "running"
      <3>1. manager' = "gone" /\ unfed' = unfed /\ helper' = helper /\ signalled' = signalled
            /\ captured' = captured /\ startup' = startup /\ starter' = starter /\ armed' = armed
            /\ consumer = "read" /\ ends_well' = ends_well
        BY <1>9, <2>3 DEF ReadTurn
      <3>2. consumer' = IF unfed THEN "fail" ELSE IF ends' THEN "whole" ELSE "grace"
        BY <1>9, <2>3 DEF ReadTurn
      <3>3. unfed' \in BOOLEAN /\ ends' \in BOOLEAN
        BY <1>9, <3>1 DEF ReadTurn
      <3>4. CASE unfed
        <4>1. consumer' = "fail"
          BY <3>2, <3>4
        <4> QED
          BY <3>1, <3>3, <4>1
      <3>5. CASE ~unfed /\ ends'
        <4>1. consumer' = "whole"
          BY <3>2, <3>5
        <4> QED
          BY <3>1, <3>3, <3>5, <4>1
      <3>6. CASE ~unfed /\ ~ends'
        <4>1. consumer' = "grace"
          BY <3>2, <3>6
        <4> QED
          BY <3>1, <3>3, <3>6, <4>1
      <3> QED
        BY <3>4, <3>5, <3>6
    <2> QED
      BY <2>1, <2>2, <2>3
  <1>10. CASE GraceTurn
    BY <1>10 DEF GraceTurn
  <1>11. CASE WholeRead
    BY <1>11 DEF WholeRead, Rest, GroupGone, process_group_exists
  <1>12. CASE FailCapture
    BY <1>12 DEF FailCapture, Rest
  <1>13. CASE TerminateTurn
    BY <1>13 DEF TerminateTurn, process_group_exists
  <1>14. CASE ConsumerKilled
    BY <1>14 DEF ConsumerKilled
  <1> QED
    BY <1>1, <1>2, <1>3, <1>4, <1>5, <1>6, <1>7, <1>8, <1>9, <1>10, <1>11, <1>12, <1>13, <1>14
    DEF QueuedNext

(* Every step of a service's start keeps the invariant.                    *)
LEMMA ServiceStep ==
    ASSUME ProcessInv, ServiceNext
    PROVE  ProcessInv'
  <1> USE DEF ProcessInv, ProcessTypeOK, ConsumerInv, CaptureInv, StartInv,
         Managers, Helpers, Consumers, Startups, queuedVars
  <1>1. CASE StartService
    BY <1>1 DEF StartService
  <1>2. CASE StartStep
    <2>1. CASE startup = "1"
      BY <1>2, <2>1 DEF StartStep, StartOrder, Refuses, DeathSignal
    <2>2. CASE startup = "2"
      BY <1>2, <2>2 DEF StartStep, StartOrder, Refuses
    <2>3. CASE startup = "3"
      BY <1>2, <2>3 DEF StartStep, StartOrder, Refuses
    <2>4. CASE startup = "4"
      BY <1>2, <2>4 DEF StartStep, StartOrder, Refuses
    <2>5. CASE startup = "5"
      BY <1>2, <2>5 DEF StartStep, StartOrder, Refuses
    <2> QED
      BY <1>2, <2>1, <2>2, <2>3, <2>4, <2>5 DEF StartStep
  <1>3. CASE SaysReady
    BY <1>3 DEF SaysReady
  <1>4. CASE ParentDies
    BY <1>4 DEF ParentDies
  <1> QED
    BY <1>1, <1>2, <1>3, <1>4 DEF ServiceNext

(* So does a step of somebody else.                                        *)
LEMMA ProcessStay ==
    ASSUME ProcessInv, UNCHANGED supervisionVars
    PROVE  ProcessInv'
  BY DEF ProcessInv, ProcessTypeOK, ConsumerInv, CaptureInv, StartInv, supervisionVars,
     queuedVars, serviceVars

(***************************************************************************)
(* The entries together.                                                   *)
(***************************************************************************)
EntryInv == CommandInv /\ HostInv /\ TestedInv /\ ProcessInv

(* All four machines begin well.                                           *)
LEMMA EntryStart == EntryInit => EntryInv
  BY CommandStart, HostStart, TestedStart, ProcessStart DEF EntryInit, EntryInv

(* A step of one machine keeps its invariant, and the others' stay.        *)
LEMMA EntryStep ==
    ASSUME EntryInv, [EntryNext]_entryVars
    PROVE  EntryInv'
  <1>1. CommandInv'
    <2>1. Next \/ UNCHANGED vars
      BY DEF EntryNext, entryVars
    <2> QED
      BY <2>1, CommandStep, CommandStay DEF EntryInv
  <1>2. HostInv'
    <2>1. SdkNext \/ UNCHANGED sdkVars
      BY DEF EntryNext, entryVars
    <2> QED
      BY <2>1, HostStep, HostStay DEF EntryInv
  <1>3. TestedInv'
    <2>1. ProofNext \/ UNCHANGED proofVars
      BY DEF EntryNext, entryVars
    <2> QED
      BY <2>1, TestedStep, TestedStay DEF EntryInv
  <1>4. ProcessInv'
    <2>1. QueuedNext \/ ServiceNext \/ UNCHANGED supervisionVars
      BY DEF EntryNext, entryVars, SupervisionNext
    <2> QED
      BY <2>1, QueuedStep, ServiceStep, ProcessStay DEF EntryInv
  <1> QED
    BY <1>1, <1>2, <1>3, <1>4 DEF EntryInv

(* The invariants of the four machines hold in every state, whichever way  *)
(* the program is entered.                                                 *)
THEOREM EntryInvariant == EntrySpec => []EntryInv
  BY EntryStart, EntryStep, PTL DEF EntrySpec

(* No process of the package is left unwatched: none of a finished         *)
(* mutation, whatever came of it, and no service whose parent died         *)
(* (capture_child dsm_api.rs:14086, the death signal armed before the      *)
(* parent is looked at, dsm_api.rs:6330).                                  *)
THEOREM CommandProcessesAccounted == EntrySpec => []ProcessesAccounted
  <1>1. EntryInv => ProcessesAccounted
    BY DEF EntryInv, ProcessInv, ProcessTypeOK, ConsumerInv, CaptureInv, StartInv,
       ProcessesAccounted, NoneLeftBehind, NeverStranded
  <1> QED
    BY <1>1, EntryInvariant, PTL

(* What is changed was shown and agreed to first, for every host and every *)
(* plan, and a browse relies only on a test that the same user made with   *)
(* the same secrets and whose proof has not expired (sdk.rs:1354,          *)
(* dsm_api.rs:19806).                                                      *)
THEOREM CommandConfirmedIsDone == EntrySpec => []ConfirmedIsDone
  <1>1. EntryInv => ConfirmedIsDone
    <2> SUFFICES ASSUME EntryInv PROVE AppliedAsShown /\ BrowseProven
      BY DEF ConfirmedIsDone
    <2>1. BrowseProven
      BY DEF EntryInv, TestedInv
    <2>2. report.changed # {} => applying /\ \E s \in shown : report.changed \subseteq s
      BY DEF EntryInv, HostInv, PlaceInv
    <2>3. status = "ok" => refusals = 0 /\ (verdict.code = "preview" => report.changed = {})
      BY DEF EntryInv, HostInv, VerdictInv
    <2> QED
      BY <2>1, <2>2, <2>3 DEF AppliedAsShown
  <1> QED
    BY <1>1, EntryInvariant, PTL

(* However a command or a host's run ends short of a second interrupt,     *)
(* each session it opened was closed or its logout was sent; a refused     *)
(* one-time code is not sent again unless typed, and a login costs at most *)
(* four attempts (finish_authenticated_operation, Engine::run,             *)
(* authenticate_with_otp_interaction).                                     *)
THEOREM CommandSessionsEnd == EntrySpec => []SessionsEnd
  <1>1. EntryInv => SessionsEnd
    <2> SUFFICES ASSUME EntryInv PROVE SessionsClosed /\ HostSessionClosed /\ LoginBounded
      BY DEF SessionsEnd
    <2>1. SessionsClosed
      BY DEF EntryInv, CommandInv, LogoutInv, Killed, Logged, SessionsClosed, Over
    <2>2. HostSessionClosed
      BY DEF EntryInv, HostInv, SessionInv, HostSessionClosed
    <2>3. LoginBounded
      <3>1. login.sent <= 4 /\ (pc = "login" => InProgress(login))
        BY DEF EntryInv, CommandInv, LoginInv
      <3> QED
        BY <3>1 DEF InProgress, LoginBounded
    <2> QED
      BY <2>1, <2>2, <2>3
  <1> QED
    BY <1>1, EntryInvariant, PTL
=============================================================================
