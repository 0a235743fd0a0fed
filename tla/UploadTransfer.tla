--------------------------- MODULE UploadTransfer ---------------------------
(***************************************************************************)
(* One upload, of src/src/api.rs: upload_observed_with_policy and          *)
(* upload_observed_inner, with the reader that guards the source, the      *)
(* probes that ask what a lost attempt left behind, and the one attempt    *)
(* more that repairs a torn overwrite.  While it runs a program may edit   *)
(* the source, the link may fail at any point, a proxy may answer in DSM's *)
(* name, and DSM may finish a body the client has given up.                *)
(*                                                                         *)
(* A file is what the code can tell of it: whether it is there, whether    *)
(* its size agrees with the planned source, whether its time does (or DSM  *)
(* reports none), and its bytes.                                           *)
(*                                                                         *)
(* Below it the rate limit that all uploads share.                         *)
(***************************************************************************)
EXTENDS Integers, FiniteSets

CONSTANTS
    UploadRetries, \* ApiClient.retries
    MaxEdits       \* bound on the edits of the source

ASSUME UploadRetriesAssumption == UploadRetries \in Nat
ASSUME MaxEditsAssumption == MaxEdits \in Nat

VARIABLES
    digest,    \* the entry carries a fingerprint (local.content_md5)
    keepsTime, \* DSM keeps the modification time it is sent
    inPlace,   \* DSM writes an overwrite in place, as it arrives
    source,    \* the local file
    edits,     \* edits of it so far
    dest,      \* the destination
    late,      \* complete bodies DSM holds of attempts the client has given up
    cancelled, \* the cancellation token, or an observer that stops the upload
    stage,     \* where the upload is
    body,      \* the bytes this attempt has read
    attempt,   \* index of the attempt in this session
    last,      \* index of this session's last attempt (last_attempt)
    tear,      \* tear_found
    sends,     \* sends of this upload, over both sessions
    again,     \* the upload runs in its second session
    noted,     \* remote_mtime_unhonoured has been counted
    result,    \* how it ended
    cause      \* history: how the last attempt ended

nasVars == <<digest, keepsTime, inPlace>>
worldVars == <<nasVars, source, edits, cancelled>>
attemptVars == <<body, attempt, last, tear, sends, again, cause>>
uploadVars == <<worldVars, dest, late, stage, attemptVars, noted, result>>

Contents == {"none", "old", "planned", "other", "torn"}
Files == [there : BOOLEAN, size : BOOLEAN, time : BOOLEAN, bytes : Contents]
Absent == [there |-> FALSE, size |-> FALSE, time |-> FALSE, bytes |-> "none"]

(* What the planner uploads over: nothing, a file that differs, a file it  *)
(* could not compare, or in a forced run any file.                         *)
Replaceable ==
    {Absent} \cup
    {f \in Files : /\ f.there
                   /\ f.bytes = "old" \/ (f.bytes = "planned" /\ f.size)}

LooksComplete(f) == f.there /\ f.size /\ f.time

(* What DSM makes of a complete body, of one that is cut short on its way, *)
(* and of one that breaks off.                                             *)
Committed(b) == [there |-> TRUE, size |-> TRUE, time |-> keepsTime, bytes |-> b]
Cut == [there |-> TRUE, size |-> FALSE, time |-> keepsTime, bytes |-> "torn"]
Leftovers == {dest} \cup IF inPlace THEN {Cut, Committed("torn")} ELSE {}

UploadInit ==
    /\ digest \in BOOLEAN /\ keepsTime \in BOOLEAN /\ inPlace \in BOOLEAN
    /\ source = "planned" /\ edits = 0
    /\ dest \in Replaceable
    /\ late = {}
    /\ cancelled = FALSE
    /\ stage = "start" /\ body = "none" /\ attempt = 0 /\ last = UploadRetries
    /\ tear = FALSE /\ sends = 0 /\ again = FALSE /\ noted = FALSE
    /\ result = "none" /\ cause = "none"

-----------------------------------------------------------------------------
Finishes(o) == stage' = "end" /\ result' = o

Goes(label) == stage' = label /\ UNCHANGED result

(* The metadata of the source still is what was planned.                   *)
SnapshotHolds == source # "edited"

(* A file the rate cap could not carry within the ceiling is not sent.     *)
TooSlow ==
    /\ stage = "start" /\ sends = 0
    /\ Finishes("failed")
    /\ UNCHANGED <<worldVars, dest, late, attemptVars, noted>>

(* The top of the loop: the source is checked, opened and sent again.      *)
StartAttempt ==
    /\ stage = "start"
    /\ UNCHANGED <<worldVars, dest, late, attempt, last, tear, again, noted, cause>>
    /\ IF cancelled
       THEN Finishes("cancelled") /\ UNCHANGED <<sends, body>>
       ELSE /\ sends' = sends + 1
            /\ \/ Finishes(IF SnapshotHolds THEN "failed" ELSE "sourceChanged") /\ UNCHANGED body
               \/ /\ SnapshotHolds
                  /\ Goes("stream")
                  /\ body' = IF source = "planned" THEN "planned" ELSE "other"

(* SourceGuard.intact: what the reader checks when the file ends, before   *)
(* the closing boundary of the body is written.                            *)
SourceIntact == (digest => body = "planned") /\ SnapshotHolds

BodyEnds ==
    /\ stage = "stream" /\ SourceIntact
    /\ Goes("answer")
    /\ UNCHANGED <<worldVars, dest, late, attemptVars, noted>>

(* A failure that is not retryable: the tear an extra attempt was spent on *)
(* is named; the rest is the failure's own.                                *)
FailsPlainly(o) == Finishes(o)
FailsFor(o) == Finishes(IF tear THEN "tornNamed" ELSE o)

BodyRefused ==
    /\ stage = "stream" /\ ~SourceIntact
    /\ dest' \in Leftovers
    /\ cause' = "sourceChanged"
    /\ FailsFor("sourceChanged")
    /\ UNCHANGED <<worldVars, late, body, attempt, last, tear, sends, again, noted>>

(* The client gives a send up.  What DSM has of it may be committed now,   *)
(* later or never, and may have been written in place.                     *)
Abandoned ==
    \/ dest' \in Leftovers /\ UNCHANGED late
    \/ stage = "answer" /\ dest' = Committed(body) /\ UNCHANGED late
    \/ stage = "answer" /\ dest' \in Leftovers /\ late' = late \cup {body}

SendCancelled ==
    /\ stage \in {"stream", "answer"} /\ cancelled
    /\ Abandoned
    /\ cause' = "cancelled"
    /\ FailsFor("cancelled")
    /\ UNCHANGED <<worldVars, body, attempt, last, tear, sends, again, noted>>

(* A retryable failure: the link breaks or stalls, the answer is lost or   *)
(* late.                                                                   *)
SendLost ==
    /\ stage \in {"stream", "answer"}
    /\ Abandoned
    /\ cause' = "lost"
    /\ Goes(IF attempt < last THEN "retry" ELSE "last")
    /\ UNCHANGED <<worldVars, body, attempt, last, tear, sends, again, noted>>

(* The ceiling on the body of one attempt, or an answer not worth a second *)
(* send.                                                                   *)
SendFails(c) ==
    /\ stage = "stream" \/ (stage = "answer" /\ c = "refused")
    /\ Abandoned
    /\ cause' = c
    /\ FailsFor("failed")
    /\ UNCHANGED <<worldVars, body, attempt, last, tear, sends, again, noted>>

(* DSM refuses the session and writes nothing.  with_session_recovery runs *)
(* the upload once more, from the start, unless the code is hidden in the  *)
(* error that names a tear.                                                *)
RecoversOnce == ~again /\ ~tear

Restarts ==
    /\ attempt' = 0 /\ last' = UploadRetries /\ tear' = FALSE /\ again' = TRUE
    /\ Goes("start")
    /\ UNCHANGED <<body, sends>>

SessionRefused ==
    /\ stage \in {"stream", "answer"}
    /\ cause' = "session"
    /\ \/ RecoversOnce /\ Restarts
       \/ FailsFor("failed") /\ UNCHANGED <<body, attempt, last, tear, sends, again>>
    /\ UNCHANGED <<worldVars, dest, late, noted>>

(* A success: DSM's, or one made up on the way for a body that was cut     *)
(* short or that the client had not finished.                              *)
SendSucceeds ==
    /\ \/ stage = "answer" /\ dest' = Committed(body) /\ UNCHANGED body
       \/ stage = "answer" /\ dest' \in Leftovers \cup {Cut} /\ UNCHANGED body
       \/ stage = "stream" /\ dest' \in Leftovers \cup {Cut} /\ body' = "other"
    /\ cause' = "success"
    /\ Goes("verify")
    /\ UNCHANGED <<worldVars, late, attempt, last, tear, sends, again, noted>>

-----------------------------------------------------------------------------
(* note_uploaded_mtime.                                                    *)
NotesTime == noted' = (noted \/ ~dest.time)

(* verify_upload_landed: the sent bytes, then the length.                  *)
BytesSent == digest => body = "planned"

Verify ==
    /\ stage = "verify"
    /\ UNCHANGED <<worldVars, dest, late, attemptVars>>
    /\ \/ ~SnapshotHolds /\ Finishes("sourceChanged") /\ UNCHANGED noted
       \/ SnapshotHolds /\ cancelled /\ Finishes("cancelled") /\ UNCHANGED noted
       \/ SnapshotHolds /\ ~cancelled /\ ~BytesSent /\ Finishes("sourceChanged") /\ UNCHANGED noted
       \/ /\ SnapshotHolds /\ ~cancelled /\ BytesSent
          /\ \/ Finishes("failed") /\ UNCHANGED noted
             \/ dest.size /\ NotesTime /\ IF digest THEN Goes("verifyDigest") ELSE Finishes("ok")
             \/ ~dest.size /\ Finishes("verificationFailed") /\ UNCHANGED noted

DigestAssumed == TRUE
DigestMatches == dest.bytes = "planned"

VerifyDigest ==
    /\ stage = "verifyDigest"
    /\ \/ Finishes(IF cancelled THEN "cancelled" ELSE "failed")
       \/ Finishes(IF DigestMatches THEN "ok" ELSE "verificationFailed")
    /\ UNCHANGED <<worldVars, dest, late, attemptVars, noted>>

(* earlier_attempt_landed, before the attempt is sent again.               *)
EarlierLooksLanded == dest.size /\ dest.time

SendsAgain == attempt' = attempt + 1 /\ Goes("start")

RetryProbe ==
    /\ stage = "retry"
    /\ UNCHANGED <<worldVars, dest, late, body, last, tear, sends, again, noted, cause>>
    /\ \/ ~SnapshotHolds /\ Finishes("sourceChanged") /\ UNCHANGED attempt
       \/ SnapshotHolds /\ ~digest /\ SendsAgain
       \/ /\ SnapshotHolds /\ digest
          /\ \/ source # "planned" /\ Finishes("sourceChanged") /\ UNCHANGED attempt
             \/ cancelled /\ Finishes("cancelled") /\ UNCHANGED attempt
             \/ /\ source = "planned" /\ ~cancelled
                /\ \/ SendsAgain
                   \/ Finishes("failed") /\ UNCHANGED attempt
                   \/ EarlierLooksLanded /\ Goes("retryDigest") /\ UNCHANGED attempt

RetryDigest ==
    /\ stage = "retryDigest"
    /\ UNCHANGED <<worldVars, dest, late, body, last, tear, sends, again, cause>>
    /\ \/ ~cancelled /\ SendsAgain /\ UNCHANGED noted
       \/ Finishes(IF cancelled THEN "cancelled" ELSE "failed") /\ UNCHANGED <<attempt, noted>>
       \/ DigestMatches /\ Finishes("ok") /\ NotesTime /\ UNCHANGED attempt

(* A request of the verification or of the probe is refused for its        *)
(* session even after its own recovery.  Its code is not wrapped, so the   *)
(* recovery around the upload takes it for the upload's and runs it once   *)
(* more: whatever DSM answered and whatever tear was found before.         *)
CheckRefused ==
    /\ ~again
    /\ \/ stage = "verify" /\ SnapshotHolds /\ ~cancelled /\ BytesSent
       \/ stage = "retry" /\ digest /\ source = "planned" /\ ~cancelled
       \/ stage \in {"verifyDigest", "retryDigest"}
    /\ cause' = "session"
    /\ Restarts
    /\ UNCHANGED <<worldVars, dest, late, noted>>

(* last_attempt_failed_in_transport, whose own errors carry no code.       *)
LastProbe ==
    /\ stage = "last"
    /\ IF digest /\ ~cancelled /\ LooksComplete(dest)
       THEN FailsFor("failed") \/ Goes("lastDigest")
       ELSE FailsFor("failed")
    /\ UNCHANGED <<worldVars, dest, late, attemptVars, noted>>

OneMore == last' = last + 1 /\ tear' = TRUE

LastDigest ==
    /\ stage = "lastDigest"
    /\ UNCHANGED <<worldVars, dest, late, body, sends, again, cause>>
    /\ \/ DigestMatches /\ Finishes("ok") /\ NotesTime /\ UNCHANGED <<attempt, last, tear>>
       \/ ~DigestMatches /\ ~tear /\ OneMore /\ SendsAgain /\ UNCHANGED noted
       \/ ~DigestMatches /\ tear /\ Finishes("tornNamed") /\ UNCHANGED <<attempt, last, tear, noted>>
       \/ FailsFor("unchecked") /\ UNCHANGED <<attempt, last, tear, noted>>

-----------------------------------------------------------------------------
(* A program edits the source: a rewrite may keep its size and time.  What *)
(* the reader had not read yet is of the new version.                      *)
EditSource(s) ==
    /\ edits < MaxEdits
    /\ edits' = edits + 1
    /\ source' = s
    /\ body' \in {body} \cup (IF stage = "stream" THEN {"other"} ELSE {})
    /\ UNCHANGED <<nasVars, cancelled, dest, late, stage, attempt, last, tear, sends,
                   again, noted, result, cause>>

(* DSM finishes a body the client has given up.                            *)
LateCommit(b) ==
    /\ b \in late
    /\ late' = late \ {b}
    /\ dest' = Committed(b)
    /\ UNCHANGED <<worldVars, stage, attemptVars, noted, result>>

Cancel ==
    /\ ~cancelled
    /\ cancelled' = TRUE
    /\ UNCHANGED <<nasVars, source, edits, dest, late, stage, attemptVars, noted, result>>

UploadOver == stage = "end" /\ late = {} /\ UNCHANGED uploadVars

UploadStep ==
    \/ TooSlow \/ StartAttempt \/ BodyEnds \/ BodyRefused \/ SendCancelled
    \/ SendLost \/ (\E c \in {"ceiling", "refused"} : SendFails(c))
    \/ SessionRefused \/ CheckRefused \/ SendSucceeds
    \/ Verify \/ VerifyDigest \/ RetryProbe \/ RetryDigest \/ LastProbe \/ LastDigest

UploadNext ==
    \/ UploadStep
    \/ \E s \in {"rewritten", "edited"} : EditSource(s)
    \/ \E b \in late : LateCommit(b)
    \/ Cancel
    \/ UploadOver

UploadSpec == UploadInit /\ [][UploadNext]_uploadVars

-----------------------------------------------------------------------------
(* An upload reported done is done: the destination has the planned length *)
(* and, where the entry carries a fingerprint, the planned bytes, whichever*)
(* attempt of it landed and whatever DSM still finishes.                   *)
OkMeansLanded ==
    result = "ok" => dest.there /\ dest.size /\ (digest => dest.bytes = "planned")

(* On a NAS that keeps times an upload reported done left the planned time:*)
(* a lost attempt is never credited to an older copy of the same bytes.    *)
(* Where an answer said it was done and it was not, the time was counted.  *)
OkTimeSettled ==
    result = "ok" /\ keepsTime => dest.time \/ (cause = "success" /\ noted)

(* The bytes of a source that changed while it was read are never all      *)
(* there: no complete body but the planned one reaches DSM.                *)
OnlyPlannedBodies == digest => dest.bytes # "other" /\ "other" \notin late

(* An upload is sent a bounded number of times: in each of its two         *)
(* sessions the attempts, and one more where they left a tear.             *)
SendsBounded == sends <= 2 * (UploadRetries + 2)

(* A tear that was found is never dropped: while the extra attempt is on   *)
(* its way the upload lands or its error names the tear, and the tear is   *)
(* forgotten in one case only: the extra attempt was answered as a success *)
(* and the session refused while that was verified, so that the upload,    *)
(* for the one time, starts afresh.                                        *)
TearKept ==
    \/ tear' /\ (stage \in {"stream", "answer", "last", "lastDigest"}
                  => result' \in {"none", "ok", "tornNamed"})
    \/ /\ stage \in {"verify", "verifyDigest"} /\ cause = "success"
       /\ stage' = "start" /\ ~again /\ again'

TearNotDropped == [][tear => TearKept]_uploadVars

(* What an upload says of itself is so, whatever was lost, torn, edited or *)
(* late on the way (upload_observed_with_policy, api.rs:4581).             *)
UploadSound == OkMeansLanded /\ OkTimeSettled /\ OnlyPlannedBodies /\ SendsBounded

(***************************************************************************)
(* The rate limit: one token bucket that every upload draws on.  Time runs *)
(* in ticks of which there are TicksPerSecond, and what is available is    *)
(* kept in bytes times ticks, as the code keeps it in bytes times          *)
(* nanoseconds.                                                            *)
(***************************************************************************)
CONSTANTS Streams,         \* the uploads that share the bucket
          TicksPerSecond,  \* NANOS_PER_SECOND
          MaxTicks,        \* bound on the clock
          ChunkSizes       \* how much an upload asks for at a time

ASSUME ThrottleAssumption ==
    TicksPerSecond \in Nat \ {0} /\ MaxTicks \in Nat /\ ChunkSizes \subseteq Nat

VARIABLES rate,      \* bytes_per_second
          bucket,    \* [available, updated]
          ticks,
          claims,    \* [stream -> [pc, wanted, wait]]
          granted,   \* history: [time -> bytes granted until then]
          dropped    \* the uploads are cancelled

throttleVars == <<rate, bucket, ticks, claims, granted, dropped>>

CapacityOf(r) == r * TicksPerSecond
ThrottleInit(r) ==
    /\ rate = r
    /\ bucket = [available |-> CapacityOf(r), updated |-> 0]
    /\ ticks = 0 /\ granted = [t \in 0..MaxTicks |-> 0] /\ dropped = FALSE
    /\ claims = [s \in Streams |-> [pc |-> "idle", wanted |-> 0, wait |-> 0]]

refill_unbounded(b) == [available |-> b.available + (ticks - b.updated) * rate, updated |-> ticks]
\* Never more than one second of traffic.
refill(b) ==
    LET minted == b.available + (ticks - b.updated) * rate
    IN [available |-> IF minted > CapacityOf(rate) THEN CapacityOf(rate) ELSE minted,
        updated |-> ticks]

Smaller(a, b) == IF a < b THEN a ELSE b
CeilDiv(a, b) == (a + b - 1) \div b

\* A grant of what is there, or how long to wait for all that is wanted, at
\* most a second's worth.
take(b, requested) ==
    LET full == refill(b)
        wanted == Smaller(requested, rate)
        available == full.available \div TicksPerSecond
        n == Smaller(available, wanted)
    IN IF wanted = 0 \/ available > 0
       THEN [ready |-> TRUE, n |-> n, b |-> [full EXCEPT !.available = @ - n * TicksPerSecond]]
       ELSE [ready |-> FALSE, n |-> CeilDiv(wanted * TicksPerSecond - full.available, rate), b |-> full]

Ask(s, n) ==
    /\ claims[s].pc = "idle"
    /\ claims' = [claims EXCEPT ![s] = [pc |-> "claim", wanted |-> n, wait |-> 0]]
    /\ UNCHANGED <<rate, bucket, ticks, granted, dropped>>

\* claim: cancelled, granted, or asleep until the poll interval or the wait
\* is over.
ClaimRefused(s) ==
    /\ claims[s].pc = "claim" /\ dropped
    /\ claims' = [claims EXCEPT ![s].pc = "refused"]
    /\ UNCHANGED <<rate, bucket, ticks, granted, dropped>>

Claim(s) ==
    /\ claims[s].pc = "claim" /\ ~dropped
    /\ LET got == take(bucket, claims[s].wanted) IN
       /\ bucket' = got.b
       /\ \/ /\ got.ready
             /\ granted' = [granted EXCEPT ![ticks] = @ + got.n]
             /\ claims' = [claims EXCEPT ![s] = [pc |-> "idle", wanted |-> 0, wait |-> 0]]
          \/ /\ ~got.ready
             /\ claims' = [claims EXCEPT ![s].pc = "asleep", ![s].wait = got.n]
             /\ UNCHANGED granted
    /\ UNCHANGED <<rate, ticks, dropped>>

Wake(s) ==
    /\ claims[s].pc = "asleep"
    /\ claims' = [claims EXCEPT ![s].pc = "claim"]
    /\ UNCHANGED <<rate, bucket, ticks, granted, dropped>>

TickAlong ==
    /\ ticks < MaxTicks /\ ticks' = ticks + 1
    /\ granted' = [granted EXCEPT ![ticks + 1] = granted[ticks]]
    /\ UNCHANGED <<rate, bucket, claims, dropped>>

Drop == ~dropped /\ dropped' = TRUE /\ UNCHANGED <<rate, bucket, ticks, claims, granted>>

ThrottleOver == (\A s \in Streams : claims[s].pc = "refused") /\ UNCHANGED throttleVars

ThrottleNext ==
    \/ \E s \in Streams : \/ \E n \in ChunkSizes : Ask(s, n)
                          \/ ClaimRefused(s) \/ Claim(s) \/ Wake(s)
    \/ TickAlong \/ Drop \/ ThrottleOver

ThrottleSpec == (\E r \in Nat \ {0} : ThrottleInit(r)) /\ [][ThrottleNext]_throttleVars

-----------------------------------------------------------------------------
GrantedBefore(t) == IF t = 0 THEN 0 ELSE granted[t - 1]

(* Over any stretch of time the uploads together send no more than the     *)
(* limit allows and one second's burst; whoever has to wait is told to     *)
(* wait, for no longer than a second (TokenBucket, api.rs:8124).           *)
RateHeld ==
    /\ \A u \in 0..ticks : \A t \in 0..u :
            (granted[u] - GrantedBefore(t)) * TicksPerSecond <= rate * (u - t) + CapacityOf(rate)
    /\ \A s \in Streams : claims[s].pc = "asleep" => claims[s].wait \in 1..TicksPerSecond
=============================================================================
