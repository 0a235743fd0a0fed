----------------------------- MODULE DurableLog -----------------------------
(***************************************************************************)
(* The two logs in which an audit event must survive: the audit log and    *)
(* the activity log, each a rotating set of files. The writer is the       *)
(* package's shell (libexec/sdsync-common): holding the event-log lock it  *)
(* has the bridge repair both tails, looks for the event in every file of  *)
(* both sets, appends what is missing, and has the bridge                  *)
(* (src/src/dsm_api.rs) verify and fsync. A full file is rotated one `mv`  *)
(* at a time, and when one is refused the record goes to the active file,  *)
(* past its limit. The writer runs with a deadline, so it may be killed    *)
(* anywhere and the event recorded again; a write may stop short, and a    *)
(* power loss takes whatever was not yet fsynced. Renames are taken to     *)
(* reach the disk in order (a journaling file system).                     *)
(***************************************************************************)
EXTENDS Integers, Sequences, FiniteSets, SequencesExt

CONSTANTS
    Events,        \* the audit events recorded, records of the fields below
    FileLines,     \* FileLines[l]: how many records fill a file (10 MiB, 1 MiB)
    FileMost,      \* FileMost[l]: how many the bridge still reads (11 MiB, 2 MiB)
    Keep,          \* Keep[l]: how many rotated files log l keeps
    MaxAttempts,   \* bound: how often the writer is started
    MaxLosses      \* bound: how many power losses happen

ASSUME KeepAssumption == 
    /\ DOMAIN Keep = {"audit", "activity"}
    /\ \A l \in DOMAIN Keep : FileLines[l] <= FileMost[l]

VARIABLES
    file,       \* file[l][i]: rotation i of log l, if it exists; 0 the active file
    writer,     \* the writer holding the event-log lock, or Idle
    verified,   \* the events the bridge was told are durable
    evicted,    \* evicted[l]: records that left log l with its oldest file
    attempts, losses

vars == <<file, writer, verified, evicted, attempts, losses>>

Logs == {"audit", "activity"}

-----------------------------------------------------------------------------
(* Records *)

ConfigurationOperations == {"configure-profile", "remove-profile", "set-default", "schedule",
    "alert-policy", "performance-policy", "interface-settings"}
SecretOperations == {"set-secret", "set-password", "remove-password", "set-totp", "remove-totp",
    "set-remote-log-token", "remove-remote-log-token"}
RunOperations == {"doctor", "plan", "run", "sync-status", "resync", "clear-logs"}

Category(op) ==
    CASE op \in ConfigurationOperations -> "configuration"
      [] op \in SecretOperations -> "secrets"
      [] op \in RunOperations -> "operations"
      [] op \in {"test-profile-auth", "browse-remote"} -> "authentication"
      [] op \in {"routine", "remove-routine"} -> "routines"
      [] op = "security-policy" -> "security"
      [] op = "session-notifications" -> "notifications"
      [] op = "rejected-post" -> "bridge"
      [] OTHER -> "unsafe"

Level(state) ==
    CASE state \in {"requested", "succeeded"} -> "info"
      [] state = "failed" -> "error"
      [] state = "outcome_unknown" -> "warn"

\* The record of event e in the audit log, as the writer puts it together.
AuditLine(e) ==
    [ev |-> e, category |-> Category(e.op), level |-> Level(e.state), fields |-> "json"]

\* validate_audit_log_line: category and level follow from the event; a
\* request id belongs to what came over the bridge, a refusal has none.
validate_audit_log_line(line) ==
    /\ line.fields = "json"
    /\ line.category = Category(line.ev.op) /\ line.category # "unsafe"
    /\ line.level = Level(line.ev.state)
    /\ IF line.ev.op = "rejected-post"
       THEN line.ev.origin \in {"bridge", "controller"} /\ ~line.ev.request
       ELSE (line.ev.origin = "bridge") <=> line.ev.request

\* Activity records have 9 fields when they carry an audit event, 7 otherwise.
ActivityState(state) == IF state = "outcome_unknown" THEN "unavailable" ELSE state
NoteEvent == [txn |-> "none", state |-> "changed", op |-> "none", profile |-> "none",
              origin |-> "cli", request |-> FALSE]
ActivityLine(e) ==
    [ev |-> e, category |-> "audit", level |-> Level(e.state), fields |-> "9"]
Note == [ev |-> NoteEvent, category |-> "security", level |-> "warn", fields |-> "7"]

validate_activity_log_line(line) ==
    /\ line.fields \in {"7", "9"}
    /\ line.level \in {"trace", "debug", "info", "warn", "error"}
    /\ ActivityState(line.ev.state) \in {"running", "succeeded", "failed", "deferred",
           "scheduled", "changed", "unavailable", "requested", "cancelled"}

ValidLine(l, line) ==
    IF l = "audit" THEN validate_audit_log_line(line) ELSE validate_activity_log_line(line)
LineOf(l, e) == IF l = "audit" THEN AuditLine(e) ELSE ActivityLine(e)

-----------------------------------------------------------------------------
(* Files *)

\* A file is its terminated records, how many of them are on the disk for
\* certain, and what follows the last newline: nothing, a record that lacks
\* only its newline, or part of one.
NoTail == [line |-> Note, cut |-> "none"]
Empty == [lines |-> <<>>, synced |-> 0, tail |-> NoTail]

\* validate_canonical_log_records
Canonical(l, f) ==
    f.tail.cut = "none" /\ \A i \in DOMAIN f.lines : ValidLine(l, f.lines[i])

Rotations(l) == DOMAIN file[l]
Records(l) == UNION {ToSet(file[l][i].lines) : i \in Rotations(l)}
Has(l, e) == LineOf(l, e) \in Records(l)
Active(l) == IF 0 \in Rotations(l) THEN file[l][0] ELSE Empty
Put(l, f) == [i \in Rotations(l) \cup {0} |-> IF i = 0 THEN f ELSE file[l][i]]

\* Same transaction and state, whatever the other fields say.
SameKey(d, e) == d.txn = e.txn /\ d.state = e.state
Clash(l, e) == \E r \in Records(l) : SameKey(r.ev, e) /\ r # LineOf(l, e)

\* repair_durable_log_tail_at on the active file: a tail that is a whole
\* valid record gets its newline, any other is cut off; then fsync.
Repaired(l, f) ==
    CASE f.tail.cut = "none" -> f
      [] f.tail.cut = "newline" /\ ValidLine(l, f.tail.line) ->
           LET all == Append(f.lines, f.tail.line)
           IN [lines |-> all, synced |-> Len(all), tail |-> NoTail]
      [] OTHER -> [f EXCEPT !.synced = Len(f.lines), !.tail = NoTail]

\* Grown past what the bridge opens (only refused rotations let it).
Overgrown(l) == \E i \in Rotations(l) : Len(file[l][i].lines) > FileMost[l]

\* Only the active file may be torn; every other one must be canonical.
RepairUnsafe(l) ==
    \/ Overgrown(l)
    \/ \E i \in Rotations(l) \ {0} : ~Canonical(l, file[l][i])
    \/ ~Canonical(l, Repaired(l, Active(l)))

Fsynced(f) == [f EXCEPT !.synced = Len(f.lines)]

-----------------------------------------------------------------------------
(* The writer *)

\* `todo`: what is left to do; `to`: where rotate_log moves a file next.
Idle == [at |-> "idle", ev |-> NoteEvent, todo |-> <<>>, to |-> 0]
Writing(e) == [Idle EXCEPT !.at = "repair", !.ev = e]

Init ==
    /\ file = [l \in Logs |-> <<>>]
    /\ writer = Idle
    /\ verified = {} /\ evicted = [l \in Logs |-> {}]
    /\ attempts = 0 /\ losses = 0

LeaveOut == UNCHANGED <<verified, attempts, losses>>

\* record_audit_event: the manager is run for the event, first or again.
record_audit_event(e) ==
    /\ writer = Idle /\ attempts < MaxAttempts
    /\ writer' = Writing(e)
    /\ attempts' = attempts + 1
    /\ UNCHANGED <<file, verified, evicted, losses>>

\* Another part of the package appends to the activity log alone.
RecordActivity ==
    /\ writer = Idle /\ attempts < MaxAttempts
    /\ writer' = [Idle EXCEPT !.at = "append", !.todo = <<"note">>]
    /\ attempts' = attempts + 1
    /\ UNCHANGED <<file, verified, evicted, losses>>

Refuse == writer' = Idle /\ UNCHANGED file

\* Both tails are repaired first; a repair is itself noted in the activity log.
RepairTails ==
    /\ writer.at = "repair"
    /\ IF \E l \in Logs : RepairUnsafe(l) THEN Refuse
       ELSE /\ file' = [l \in Logs |-> IF 0 \in Rotations(l) THEN Put(l, Repaired(l, file[l][0]))
                                      ELSE file[l]]
            /\ writer' = [writer EXCEPT !.at = "append", !.todo =
                  IF file' # file THEN <<"recovered", "look">> ELSE <<"look">>]
    /\ UNCHANGED evicted /\ LeaveOut

\* Every rotation of both sets is searched for the event's record.
Found(l, e) == Has(l, e)

\* Mutant: the activity record first.
AppendOrderSwapped(inAudit) == IF inAudit THEN <<"activity">> ELSE <<"activity", "audit">>

\* The audit record first, unless an earlier attempt got that far.
AppendOrder(inAudit) == IF inAudit THEN <<"activity">> ELSE <<"audit", "activity">>

Due(what) == writer.at = "append" /\ writer.todo # <<>> /\ Head(writer.todo) = what

\* What is missing is appended, the audit record before the activity record.
\* A record of the same transaction and state that differs, or an activity
\* record whose audit record is gone, is refused.
LookForRecords ==
    /\ Due("look")
    /\ LET e == writer.ev
           inAudit == Found("audit", e)
           inActivity == Found("activity", e)
       IN writer' =
            IF \/ \E l \in Logs : Clash(l, e)
               \/ inActivity /\ ~inAudit
            THEN Idle
            ELSE [writer EXCEPT !.todo =
                    IF inActivity THEN <<"verify">> ELSE AppendOrder(inAudit) \o <<"note", "verify">>]
    /\ UNCHANGED <<file, evicted>> /\ LeaveOut

\* The log the next record goes to, and its active file: append_activity has
\* its tail repaired once more first.
Target == IF Head(writer.todo) = "audit" THEN "audit" ELSE "activity"
Mended == IF Target = "audit" THEN Active(Target) ELSE Repaired(Target, Active(Target))
Full == Len(Active(Target).lines) >= FileLines[Target]
Appending == writer.todo # <<>> /\ Head(writer.todo) \notin {"look", "verify"}

\* An optional note is not missed; anything else that fails ends the attempt.
AfterFailure ==
    IF Head(writer.todo) = "note" THEN [writer EXCEPT !.at = "append", !.todo = Tail(@)] ELSE Idle

RefuseRecord ==
    /\ writer.at = "append" /\ Appending /\ RepairUnsafe(Target)
    /\ writer' = AfterFailure
    /\ UNCHANGED <<file, evicted>> /\ LeaveOut

\* rotate_log: a full file is rotated before the next append. Rotations move
\* up into the first gap; without one the oldest file is overwritten.
FirstGap(l) ==
    LET gaps == (1..Keep[l]) \ Rotations(l)
    IN IF gaps = {} THEN Keep[l] ELSE CHOOSE i \in gaps : \A j \in gaps : i <= j

RotateLog ==
    /\ writer.at = "append" /\ Appending /\ ~RepairUnsafe(Target) /\ Full
    /\ file' = [file EXCEPT ![Target] = Put(Target, Mended)]
    /\ writer' = [writer EXCEPT !.at = "rotate", !.to = FirstGap(Target)]
    /\ UNCHANGED evicted /\ LeaveOut

\* One `mv -f` of the rotation: the oldest is written over, the active file
\* moves last.
MoveUp ==
    /\ writer.at = "rotate"
    /\ LET l == Target
           i == writer.to
       IN /\ evicted' = [evicted EXCEPT ![l] =
                 @ \cup (IF i \in Rotations(l) THEN ToSet(file[l][i].lines) ELSE {})]
          /\ file' = [file EXCEPT ![l] =
                 [j \in (Rotations(l) \ {i - 1}) \cup {i} |-> IF j = i THEN @[i - 1] ELSE @[j]]]
          /\ writer' = IF i = 1 THEN [writer EXCEPT !.at = "write", !.to = 0]
                       ELSE [writer EXCEPT !.to = i - 1]
    /\ LeaveOut

\* One is refused: the rotation stops there, and the record is appended all
\* the same, past the limit. (The log-rotation.failed marker is left out.)
MoveRefused ==
    /\ writer.at = "rotate"
    /\ writer' = [writer EXCEPT !.at = "write", !.to = 0]
    /\ UNCHANGED <<file, evicted>> /\ LeaveOut

\* One append: the record lands whole, or lacks its newline, or is cut
\* short, or does not land at all.
AppendRecord ==
    /\ Appending
    /\ \/ writer.at = "write"
       \/ writer.at = "append" /\ ~RepairUnsafe(Target) /\ ~Full
    /\ LET what == Head(writer.todo)
           line == IF what \in {"note", "recovered"} THEN Note ELSE LineOf(Target, writer.ev)
       IN \/ /\ file' = [file EXCEPT ![Target] = Put(Target, [Mended EXCEPT !.lines = Append(@, line)])]
             /\ writer' = [writer EXCEPT !.at = "append", !.todo = Tail(@)]
          \/ \E cut \in {"none", "newline", "part"} :
                /\ file' = [file EXCEPT ![Target] = Put(Target, [Mended EXCEPT !.tail =
                       IF cut = "none" THEN NoTail ELSE [line |-> line, cut |-> cut]])]
                /\ writer' = AfterFailure
    /\ UNCHANGED evicted /\ LeaveOut

\* durably_verify_audit_event_at fsyncs every file that holds the record.
VerifySyncs(l, e) == TRUE

\* Every file must be canonical, no record of the same transaction and state
\* may differ, both logs must hold the event, and the files that do are
\* fsynced; then so is the directory.
durably_verify_audit_event_at ==
    /\ Due("verify")
    /\ LET e == writer.ev
           unsafe == \E l \in Logs : Clash(l, e) \/ Overgrown(l)
                         \/ \E i \in Rotations(l) : ~Canonical(l, file[l][i])
       IN IF unsafe \/ \E l \in Logs : ~Has(l, e)
          THEN UNCHANGED <<file, verified>>
          ELSE /\ file' = [l \in Logs |-> [i \in Rotations(l) |->
                     IF LineOf(l, e) \in ToSet(file[l][i].lines) /\ VerifySyncs(l, e)
                     THEN Fsynced(file[l][i]) ELSE file[l][i]]]
               /\ verified' = verified \cup {e}
    /\ writer' = Idle
    /\ UNCHANGED <<evicted, attempts, losses>>

ActivityDone ==
    /\ writer.at = "append" /\ writer.todo = <<>>
    /\ writer' = Idle
    /\ UNCHANGED <<file, evicted>> /\ LeaveOut

-----------------------------------------------------------------------------
(* Faults *)

\* The deadline of record_audit_event passed: the writer is killed where it is.
Kill ==
    /\ writer # Idle
    /\ writer' = Idle
    /\ UNCHANGED <<file, evicted>> /\ LeaveOut

\* A power loss: the writer is gone, and of every file a suffix of what was
\* not fsynced, possibly in the middle of a record.
Survivors(f) ==
    {[lines |-> SubSeq(f.lines, 1, n), synced |-> n, tail |-> t] :
        n \in f.synced..Len(f.lines), t \in {NoTail}}
    \cup {[lines |-> SubSeq(f.lines, 1, n), synced |-> n, tail |-> [line |-> f.lines[n + 1], cut |-> c]] :
        n \in f.synced..(Len(f.lines) - 1), c \in {"newline", "part"}}

\* In each log one file at most is still being written back.
AfterLoss(l) ==
    {file[l]} \cup UNION {{[file[l] EXCEPT ![i] = f] : f \in Survivors(file[l][i])} : i \in Rotations(l)}

PowerLoss ==
    /\ losses < MaxLosses
    /\ \E a \in AfterLoss("audit"), b \in AfterLoss("activity") :
            file' = [file EXCEPT !["audit"] = a, !["activity"] = b]
    /\ losses' = losses + 1
    /\ writer' = Idle
    /\ UNCHANGED <<verified, evicted, attempts>>

Next ==
    \/ \E e \in Events : record_audit_event(e)
    \/ RecordActivity \/ RepairTails \/ LookForRecords
    \/ RotateLog \/ MoveUp \/ MoveRefused \/ RefuseRecord \/ AppendRecord
    \/ durably_verify_audit_event_at \/ ActivityDone
    \/ Kill \/ PowerLoss

Spec == Init /\ [][Next]_vars

-----------------------------------------------------------------------------
(* Properties *)

Copies(l, e) ==
    LET at(i) == {n \in DOMAIN file[l][i].lines : file[l][i].lines[n] = LineOf(l, e)}
    IN Cardinality(UNION {{i} \X at(i) : i \in Rotations(l)})

\* However often an event is recorded again, whatever killed or cut the
\* attempts before, and however far the files rotated meanwhile, each log holds
\* its record at most once (the repair and the search before each append).
EventOnce == \A l \in Logs, e \in Events : Copies(l, e) <= 1

\* What durably_verify_audit_event_at confirmed stays: a power loss and the
\* repair after it never take a confirmed record from either log; only
\* rotation retires one, with its whole file.
VerifiedSurvives ==
    \A e \in verified, l \in Logs : Has(l, e) \/ LineOf(l, e) \in evicted[l]

\* Kills, short writes and rotations stopped half way never bring the logs into
\* a state the repair refuses, in which no mutation could be audited any more: a
\* torn tail is only ever in an active file, and no event is left in the
\* activity log without its audit record. The exception: moves refused until an
\* active file has outgrown what the bridge reads.
KillNeverWedges ==
    losses = 0 =>
        /\ \A l \in Logs : ~RepairUnsafe(l) \/ Overgrown(l)
        /\ \A e \in Events : Has("activity", e) =>
              Has("audit", e) \/ LineOf("audit", e) \in evicted["audit"]

\* The records of the package survive what may happen to them: retries, kills
\* and power losses neither double, lose nor wedge them (dsm_api.rs:9454).
RecordsDurable == EventOnce /\ VerifiedSurvives /\ KillNeverWedges
=============================================================================
