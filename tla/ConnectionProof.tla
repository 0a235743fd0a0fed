-------------------------- MODULE ConnectionProof --------------------------
(***************************************************************************)
(* The package's two interactive File Station jobs.  A connection test     *)
(* logs in, proves the session and logs out again, and then signs a proof  *)
(* that lets the same UI session browse with the very same connection for  *)
(* a while.  Stored secrets, the signing key and the clock may change      *)
(* between the two, and during either.                                     *)
(*                                                                         *)
(* A signature is the record of what was signed: it cannot be made without *)
(* the key.                                                                *)
(***************************************************************************)
EXTENDS Integers, FiniteSets

CONSTANTS Connections,  \* connection arguments: where the secrets come from
          UiSessions,   \* the DSM sessions of the people at the UI
          Passwords,    \* what is stored or typed
          MaxNow,       \* bound: the clock
          MaxAsked,     \* bound: jobs
          MaxChanges    \* bound: secrets and keys replaced, clocks set back

CONNECTION_PROOF_LIFETIME_SECONDS == 3
CLOCK_SKEW_SECONDS == 1

ASSUME ProofAssumption == MaxNow \in Nat /\ MaxAsked \in Nat /\ MaxChanges \in Nat

VARIABLES proofClock,   \* the machine's clock
          signKey,      \* the signing key's generation
          stored,       \* the profile's stored password and TOTP seed, each an option
          heldProofs,   \* proofs the UI holds
          probe,        \* the job under way
          tests,        \* history: tests that succeeded
          asked,        \* jobs asked for
          changes

proofVars == <<proofClock, signKey, stored, heldProofs, probe, tests, asked, changes>>

NoProbe == [op |-> "none", at |-> "idle", c |-> CHOOSE c \in Connections : TRUE, by |-> CHOOSE s \in UiSessions : TRUE,
         typed |-> {}, password |-> {}, totp |-> {}, key |-> 0, nas |-> "none", outcome |-> "none", proof |-> {}, seen |-> 0, result |-> "none"]

(***************************************************************************)
(* Secrets and proofs.                                                     *)
(***************************************************************************)
Absent == [ok |-> FALSE, value |-> {}]
Found(v) == [ok |-> TRUE, value |-> v]

\* A source of a secret, what came with the request and what is stored:
\* a secret must be where its source says, and nowhere else.
FromSource(source, sent, kept, required) ==
    CASE source = "provided" -> IF sent = {} THEN Absent ELSE Found(sent)
      [] source = "stored" -> IF sent # {} \/ (required /\ kept = {}) THEN Absent ELSE Found(kept)
      [] OTHER -> IF required \/ sent # {} THEN Absent ELSE Found({})

connection_secret_required(c) == c.password = "provided" \/ c.totp = "provided"

resolve_connection_secrets(c, typed) ==
    LET sent(source) == IF source = "provided" THEN typed ELSE {}
        p == FromSource(c.password, sent(c.password), stored.password, TRUE)
        t == FromSource(c.totp, sent(c.totp), stored.totp, FALSE)
    IN [ok |-> p.ok /\ t.ok /\ (typed = {} => ~ connection_secret_required(c)), password |-> p.value, totp |-> t.value]

\* Mutant: the fingerprint of the arguments alone.
connection_fingerprint_without_secrets(key, c, password, totp) == [key |-> key, c |-> c, password |-> {}, totp |-> {}]

connection_fingerprint(key, c, password, totp) == [key |-> key, c |-> c, password |-> password, totp |-> totp]

issue_connection_proof(key, by, fingerprint, now) ==
    [expires |-> now + CONNECTION_PROOF_LIFETIME_SECONDS, fingerprint |-> fingerprint, by |-> by, key |-> key]

verify_connection_proof(proof, key, by, fingerprint, now) ==
    /\ proof.expires > now
    /\ proof.expires <= now + CONNECTION_PROOF_LIFETIME_SECONDS + CLOCK_SKEW_SECONDS
    /\ proof.fingerprint = fingerprint /\ proof.by = by /\ proof.key = key

(***************************************************************************)
(* A job.                                                                  *)
(***************************************************************************)
Ended(result) == probe' = [probe EXCEPT !.at = "ended", !.result = result, !.typed = {}]
Quiet == UNCHANGED <<proofClock, signKey, stored, changes>>

\* Asked for at the UI: a test, or a browse with some proof held.
Ask ==
    /\ probe.at = "idle" /\ asked < MaxAsked /\ asked' = asked + 1
    /\ \E op \in {"test", "browse"}, c \in Connections, by \in UiSessions, typed \in {{}} \cup {{p} : p \in Passwords},
          proof \in {{}} \cup {{p} : p \in heldProofs} :
         /\ op = "browse" => proof # {}
         /\ op = "test" => proof = {}
         /\ (typed # {}) = connection_secret_required(c)
         /\ probe' = [NoProbe EXCEPT !.op = op, !.at = "resolve", !.c = c, !.by = by, !.typed = typed, !.proof = proof]
    /\ Quiet /\ UNCHANGED <<heldProofs, tests>>

\* The secrets and the key are read once; a browse shows its proof before
\* anything is sent.
Resolve ==
    /\ probe.at = "resolve"
    /\ LET found == resolve_connection_secrets(probe.c, probe.typed)
           mark == connection_fingerprint(signKey, probe.c, found.password, found.totp)
       IN IF ~ found.ok THEN Ended("bad-request")
          ELSE IF probe.op = "browse" /\ \E p \in probe.proof : ~ verify_connection_proof(p, signKey, probe.by, mark, proofClock)
          THEN Ended("forbidden")
          ELSE probe' = [probe EXCEPT !.at = "authenticate", !.password = found.password, !.totp = found.totp, !.key = signKey, !.seen = proofClock]
    /\ Quiet /\ UNCHANGED <<heldProofs, tests, asked>>

\* Discovery, a login, and one more with a code when DSM asks for one and
\* there is a seed.  No retries: one deadline is shared by all of it.
authenticate_file_station ==
    /\ probe.at = "authenticate"
    /\ \E outcome \in {"ok", "connect", "authentication", "totp-required"} :
         IF outcome = "ok" \/ (outcome = "totp-required" /\ probe.totp # {})
         THEN probe' = [probe EXCEPT !.at = "contact", !.nas = "open"]
         ELSE Ended(outcome)
    /\ Quiet /\ UNCHANGED <<heldProofs, tests, asked>>

\* File Station is asked once: a confirmation or a listing.
classify_authenticated_file_station_failure(code) ==
    CASE code \in {106, 107, 119} -> "authentication" [] code \in {105, 407} -> "permission" [] OTHER -> "listing"

Contact ==
    /\ probe.at = "contact"
    /\ \E outcome \in {"ok"} \cup {classify_authenticated_file_station_failure(c) : c \in {119, 105, 408}} :
         probe' = [probe EXCEPT !.at = "logout", !.outcome = outcome]
    /\ Quiet /\ UNCHANGED <<heldProofs, tests, asked>>

logout_result_with(outcome, logged_out) ==
    IF logged_out THEN outcome
    ELSE CASE outcome = "ok" -> "logout" [] outcome = "permission" -> "permission-and-logout"
           [] outcome = "listing" -> "listing-and-logout" [] OTHER -> "operation-and-logout"

LogoutBounded ==
    /\ probe.at = "logout"
    /\ \E logged_out \in BOOLEAN :
         LET result == logout_result_with(probe.outcome, logged_out)
         IN IF result = "ok" /\ probe.op = "test"
            THEN probe' = [probe EXCEPT !.at = "sign", !.nas = IF logged_out THEN "closed" ELSE "open"]
            ELSE probe' = [probe EXCEPT !.at = "ended", !.result = result, !.typed = {}, !.nas = IF logged_out THEN "closed" ELSE "open"]
    /\ Quiet /\ UNCHANGED <<heldProofs, tests, asked>>

\* The proof's life begins once all of the test is over; it is signed with
\* the key read at its start.
Sign ==
    /\ probe.at = "sign"
    /\ LET mark == connection_fingerprint(probe.key, probe.c, probe.password, probe.totp)
       IN heldProofs' = heldProofs \cup {issue_connection_proof(probe.key, probe.by, mark, proofClock)}
    /\ tests' = tests \cup {[c |-> probe.c, by |-> probe.by, password |-> probe.password, totp |-> probe.totp, at |-> proofClock]}
    /\ Ended("ok")
    /\ Quiet /\ UNCHANGED asked

Answered ==
    /\ probe.at = "ended" /\ probe' = NoProbe
    /\ Quiet /\ UNCHANGED <<heldProofs, tests, asked>>

(***************************************************************************)
(* Meanwhile.                                                              *)
(***************************************************************************)
Tick ==
    /\ proofClock < MaxNow /\ proofClock' = proofClock + 1
    /\ UNCHANGED <<signKey, stored, heldProofs, probe, tests, asked, changes>>

SomethingChanges ==
    /\ changes < MaxChanges /\ changes' = changes + 1
    /\ \/ \E p \in Passwords : stored' = [stored EXCEPT !.password = {p}] /\ UNCHANGED <<proofClock, signKey>>
       \/ stored' = [stored EXCEPT !.totp = IF @ = {} THEN {"seed"} ELSE {}] /\ UNCHANGED <<proofClock, signKey>>
       \/ signKey' = signKey + 1 /\ UNCHANGED <<stored, proofClock>>
       \/ proofClock >= 3 /\ proofClock' = proofClock - 3 /\ UNCHANGED <<stored, signKey>>
    /\ UNCHANGED <<heldProofs, probe, tests, asked>>

ProofInit ==
    /\ proofClock = 0 /\ signKey = 0 /\ stored = [password |-> {CHOOSE p \in Passwords : TRUE}, totp |-> {}]
    /\ heldProofs = {} /\ probe = NoProbe /\ tests = {} /\ asked = 0 /\ changes = 0

ProofNext ==
    \/ Ask \/ Resolve \/ authenticate_file_station \/ Contact \/ LogoutBounded \/ Sign \/ Answered
    \/ Tick \/ SomethingChanges

\* DSM is asked for a listing only with a connection (its arguments and the
\* very secrets it uses) that the same UI session had tested to the end, not
\* longer ago than a proof lives and not in this clock's future beyond the
\* skew: a password changed since, another session's proof, a key replaced,
\* or a clock set back do not get past verify_connection_proof.
BrowseProven ==
    probe.op = "browse" /\ probe.at \in {"authenticate", "contact", "logout"} =>
        \E t \in tests :
            /\ t.c = probe.c /\ t.by = probe.by /\ t.password = probe.password /\ t.totp = probe.totp
            /\ t.at <= probe.seen + CLOCK_SKEW_SECONDS
            /\ probe.seen < t.at + CONNECTION_PROOF_LIFETIME_SECONDS

=============================================================================
