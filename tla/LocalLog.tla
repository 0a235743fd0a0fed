------------------------------- MODULE LocalLog -------------------------------
(***************************************************************************)
(* The local sinks of the event log, of src/src/observability.rs: emit's   *)
(* way through level, profile, stderr and file, and RotatingFile with the  *)
(* files it leaves behind.  In the DSM package the file is sync.log, which *)
(* the bridge reads meanwhile (below).                                     *)
(*                                                                         *)
(* A file is a sequence of cells: a line's number, once for every byte of  *)
(* the line, and 0 for a newline.  A request to the file system may fail   *)
(* between any two steps, a write also half way, and the process may die   *)
(* and a later run open the file again.                                    *)
(***************************************************************************)
EXTENDS Integers, Sequences, FiniteSets

CONSTANTS LineShapes,    \* lines emitted: [size, level, secret, record, error]
          MaxLines,      \* bound on the lines emitted
          MaxLogFaults,  \* bound on failures and deaths
          MaxBytes,      \* FILE_LOG_MAX_BYTES
          Backups        \* FILE_LOG_BACKUPS

ASSUME LocalLogAssumption == MaxBytes \in Nat \ {0} /\ Backups \in Nat

VARIABLES disk,      \* the files: disk[0] is the log, disk[i] its i-th rotation
          handle,    \* RotatingFile.file is open
          length,    \* RotatingFile.length
          emitting,  \* where the emit in hand is
          shift,     \* the index rotate is at
          said,      \* the lines emitted so far, by number
          kept_lines,\* history: numbers of the lines write_line was satisfied with
          log_faults \* failures so far

localVars == <<disk, handle, length, emitting, shift, said, kept_lines, log_faults>>

Missing == <<-1>>   \* no such file
Cells(n, size) == [i \in 1 .. size |-> n]

(***************************************************************************)
(* What a line says.                                                       *)
(***************************************************************************)
Rank == [error |-> 1, warn |-> 2, info |-> 3, debug |-> 4]
permits(level, event) == Rank[event] <= Rank[level]

\* EventReason::of: a failure's class, from a closed vocabulary.  An error is
\* [kind, cause]; a digest pass that gave up is classed by what it met.
EventReason(e) ==
    LET kind == IF e.kind = "RemoteDigestsFailing" THEN e.cause ELSE e.kind
    IN CASE kind \in {"InvalidUrl", "Configuration"} -> "config_invalid"
         [] kind = "HttpsRequired" -> "https_required"
         [] kind \in {"UnsafeRemotePath", "RemoteEscape", "RemoteMountRoot", "RemoteRefused", "RemoteLinkInScope"} -> "remote_path_refused"
         [] kind = "InvalidSource" -> "source_invalid"
         [] kind = "UnsupportedLocalEntry" -> "local_entry_unsupported"
         [] kind = "FileIo" -> "local_io"
         [] kind \in {"Http", "HttpBody"} -> "network"
         [] kind = "HttpStatus" -> "http_status"
         [] kind = "InvalidResponse" -> "remote_response_invalid"
         [] kind = "Api" -> IF e.cause = "SYNO.API.Auth" THEN "authentication" ELSE "dsm_api_error"
         [] kind \in {"UnsupportedApiVersion", "MissingApi"} -> "dsm_api_unsupported"
         [] kind = "ShareNotWritable" -> "share_not_writable"
         [] kind = "TypeConflict" -> "type_conflict"
         [] kind = "ProtectedConflict" -> "protected_conflict"
         [] kind = "EmptySourceDeletion" -> "empty_source_guard"
         [] kind = "DeleteLimit" -> "delete_limit"
         [] kind = "SourceChanged" -> "source_changed"
         [] kind = "ResyncTicketStale" -> "resync_ticket_stale"
         [] kind = "ScopeNotFound" -> "scope_not_found"
         [] kind \in {"InvalidContentHash", "ContentVerificationFailed"} -> "content_verification_failed"
         [] kind = "RemoteSnapshotChanged" -> "remote_changed"
         [] kind = "ServerCopyNotStarted" -> "server_copy_unavailable"
         [] kind = "ServerCopyFailed" -> "server_copy_failed"
         [] kind = "OperationTimedOut" -> "timeout"
         [] kind = "ReconciliationPending" -> "reconciliation_pending"
         [] kind = "Cancelled" -> "cancelled"
         [] kind = "Vault" -> "credential_unavailable"
         [] kind = "RemoteRefusalsShareWide" -> "remote_refused_share_wide"
         [] kind = "RemoteRealPathUnusable" -> "remote_real_path_unusable"
         [] kind = "Message" -> "unclassified"

\* failure_path: the entry a failure is about; a local one relative to the
\* source and only inside it.
failure_path(e, inside) ==
    CASE e.kind \in {"FileIo", "UnsupportedLocalEntry", "SourceChanged"} -> IF inside THEN "relative" ELSE "none"
      [] e.kind \in {"UnsafeRemotePath", "RemoteMountRoot", "RemoteRefused", "RemoteLinkInScope", "TypeConflict", "RemoteEscape",
                     "ProtectedConflict", "ContentVerificationFailed", "RemoteSnapshotChanged", "ServerCopyFailed"} -> "remote"
      [] OTHER -> "none"

\* An event as it is written; of an error only its class and its entry.
Line(shape) == [shape EXCEPT !.error = IF @.kind = "none" THEN <<"none", "none">> ELSE <<EventReason(@), failure_path(@, TRUE)>>]

(***************************************************************************)
(* emit and RotatingFile.                                                  *)
(***************************************************************************)
Level == "info"
Refused == emitting' = "idle"
Lossy(step) == log_faults < MaxLogFaults /\ log_faults' = log_faults + 1 /\ step

\* A run starts: the file is opened to be appended to.
OpenLog ==
    /\ emitting = "closed"
    /\ \/ /\ disk' = [disk EXCEPT ![0] = IF @ = Missing THEN <<>> ELSE @]
          /\ handle' = TRUE /\ length' = Len(disk'[0]) /\ emitting' = "idle" /\ UNCHANGED log_faults
       \/ Lossy(UNCHANGED <<disk, handle, length, emitting>>)
    /\ UNCHANGED <<shift, said, kept_lines>>

Added(n) == said[n].size + 1
Current == Len(said)

\* An event the level permits, and that stderr took, comes to the file.
EmitLine(shape) ==
    /\ emitting = "idle" /\ Current < MaxLines
    /\ said' = Append(said, Line(shape))
    /\ \/ /\ ~ permits(Level, shape.level) /\ UNCHANGED <<emitting, log_faults>>
       \/ /\ permits(Level, shape.level) /\ UNCHANGED log_faults
          /\ emitting' = IF length > 0 /\ length + shape.size + 1 > MaxBytes THEN "rotate" ELSE "write"
       \/ permits(Level, shape.level) /\ Lossy(UNCHANGED emitting)
    /\ UNCHANGED <<disk, handle, length, shift, kept_lines>>

\* The file is closed, and the oldest rotation goes.  With no rotation to
\* keep, the file itself is only cut.
RotateRemove ==
    /\ emitting = "rotate" /\ handle' = FALSE
    /\ \/ /\ disk' = IF Backups = 0 THEN disk ELSE [disk EXCEPT ![Backups] = Missing]
          /\ emitting' = IF Backups = 0 THEN "reopen" ELSE "shift"
          /\ shift' = Backups - 1 /\ UNCHANGED log_faults
       \/ Backups > 0 /\ disk[Backups] # Missing /\ Lossy(Refused) /\ UNCHANGED <<disk, shift>>
    /\ UNCHANGED <<length, said, kept_lines>>

\* The other rotations move up, the oldest first, down to the newest.
FirstShifted == 1

RotateShift ==
    /\ emitting = "shift"
    /\ \/ /\ shift >= FirstShifted
          /\ \/ /\ disk' = IF disk[shift] = Missing THEN disk ELSE [disk EXCEPT ![shift + 1] = disk[shift], ![shift] = Missing]
                /\ shift' = shift - 1 /\ UNCHANGED <<emitting, log_faults>>
             \/ disk[shift] # Missing /\ Lossy(Refused) /\ UNCHANGED <<disk, shift>>
       \/ shift < FirstShifted /\ emitting' = "rename" /\ UNCHANGED <<disk, shift, log_faults>>
    /\ UNCHANGED <<handle, length, said, kept_lines>>

RotateRename ==
    /\ emitting = "rename"
    /\ \/ /\ disk' = IF disk[0] = Missing THEN disk ELSE [disk EXCEPT ![1] = disk[0], ![0] = Missing]
          /\ emitting' = "reopen" /\ UNCHANGED log_faults
       \/ disk[0] # Missing /\ Lossy(Refused) /\ UNCHANGED disk
    /\ UNCHANGED <<handle, length, shift, said, kept_lines>>

RotateOpen ==
    /\ emitting = "reopen"
    /\ \/ /\ disk' = [disk EXCEPT ![0] = <<>>] /\ handle' = TRUE /\ length' = 0 /\ emitting' = "write" /\ UNCHANGED log_faults
       \/ Lossy(Refused) /\ UNCHANGED <<disk, handle, length>>
    /\ UNCHANGED <<shift, said, kept_lines>>

\* A write that fails may leave a piece of the line behind.
WriteLine ==
    /\ emitting = "write" /\ emitting' = "idle"
    /\ \/ ~ handle /\ UNCHANGED <<disk, length, kept_lines, log_faults>>
       \/ /\ handle /\ disk' = [disk EXCEPT ![0] = @ \o Cells(Current, said[Current].size) \o <<0>>]
          /\ length' = length + Added(Current) /\ kept_lines' = Append(kept_lines, Current) /\ UNCHANGED log_faults
       \/ /\ handle /\ \E piece \in 0 .. said[Current].size : disk' = [disk EXCEPT ![0] = @ \o Cells(Current, piece)]
          /\ Lossy(UNCHANGED <<length, kept_lines>>)
    /\ UNCHANGED <<handle, shift, said>>

\* The process ends, or dies in the middle of something.
LogProcessEnds ==
    /\ emitting # "closed" /\ emitting' = "closed" /\ handle' = FALSE
    /\ IF emitting = "idle" THEN UNCHANGED log_faults ELSE Lossy(TRUE)
    /\ UNCHANGED <<disk, length, shift, said, kept_lines>>

LocalInit ==
    /\ disk = [i \in 0 .. Backups |-> Missing] /\ handle = FALSE /\ length = 0 /\ emitting = "closed" /\ shift = 0
    /\ said = <<>> /\ kept_lines = <<>> /\ log_faults = 0

LocalNext ==
    \/ OpenLog \/ (\E s \in LineShapes : EmitLine(s)) \/ RotateRemove \/ RotateShift \/ RotateRename \/ RotateOpen
    \/ WriteLine \/ LogProcessEnds

(***************************************************************************)
(* Properties.                                                             *)
(***************************************************************************)
\* The numbers of the lines in a file that are there to their last byte.
WholeIn(cells) ==
    LET At(i) == cells[i] > 0 /\ (i = 1 \/ cells[i - 1] # cells[i])   \* a line's first byte
        Whole(i) == /\ i + said[cells[i]].size <= Len(cells)
                    /\ \A j \in i .. i + said[cells[i]].size - 1 : cells[j] = cells[i]
                    /\ cells[i + said[cells[i]].size] = 0
        starts == SelectSeq([i \in 1 .. Len(cells) |-> i], LAMBDA i : At(i) /\ Whole(i))
    IN [k \in 1 .. Len(starts) |-> cells[starts[k]]]

File(i) == IF disk[i] = Missing THEN <<>> ELSE WholeIn(disk[i])
AllKept ==
    LET upTo[i \in 0 .. Backups] == IF i = Backups THEN File(i) ELSE upTo[i + 1] \o File(i)
    IN upTo[0]

\* Whichever request of a rotation fails, however often it is tried again,
\* and wherever the process dies, the files read from the oldest rotation to
\* the log itself hold the newest lines that were written, in the order they
\* were, without a gap; and as long as no request failed, none was given up
\* while there was a rotation free (RotatingFile::rotate,
\* observability.rs:2053).
LogIsTail ==
    \E k \in 0 .. Len(kept_lines) :
      /\ AllKept = SubSeq(kept_lines, k + 1, Len(kept_lines))
      /\ k > 0 /\ log_faults = 0 /\ emitting \in {"idle", "closed"} => \A i \in 1 .. Backups : disk[i] # Missing

(***************************************************************************)
(* A read of the log in the package's UI, of src/src/dsm_api.rs: the       *)
(* rotations are opened one after the other, then read backwards in        *)
(* chunks, newest file first, until enough lines are found, the answer or  *)
(* the byte budget is full, or the deadline passes, while the core goes on *)
(* writing and rotating (LocalLog).                                        *)
(***************************************************************************)

CONSTANTS Chunk,        \* CHUNK
          ScanBudget,   \* MAX_LOG_SCAN_BYTES
          Requested,    \* lines asked for
          ByteLimit,    \* size of an answer
          MaxRedact,    \* MAX_REDACT_LINE_BYTES
          Threshold,    \* the policy's level for the source
          MaxReads      \* bound on the reads

VARIABLES reader,      \* where the read is
          opening,     \* the next file to open
          opened,      \* the files opened, oldest first: their bytes so far
          position,    \* bytes of the file in hand not yet read
          budget,      \* scan budget left
          combined,    \* bytes read and not yet cut into lines
          selected,    \* lines chosen, newest first
          spent,       \* what they cost in the answer
          answer,      \* [lines, scan_limited, deadline_reached]
          reads,
          atStart,     \* history: the lines on disk when the read began
          rotated      \* history: a rotation moved a file while they were opened

tailVars == <<reader, opening, opened, position, budget, combined, selected, spent, answer, reads, atStart, rotated>>
NoAnswer == [lines |-> <<>>, scan_limited |-> FALSE, deadline_reached |-> FALSE]
Lesser(a, b) == IF a < b THEN a ELSE b
Backwards(s) == [i \in 1 .. Len(s) |-> s[Len(s) + 1 - i]]

(***************************************************************************)
(* What is shown of a line.                                                *)
(***************************************************************************)
\* Where a line spells a secret: inside a string of a record, anywhere, only
\* once terminal escapes are gone, or also in what replaces it.
any_in(secret) == secret \notin {"none", "split"}   \* NeedleIndex
json_record_shape(line) == line.record
strip_ansi(secret) == IF secret = "split" THEN "bare" ELSE secret
redact_json_string_tokens(secret) == IF secret = "token" THEN "none" ELSE secret
redact_as_text(secret) == IF secret \in {"token", "bare"} THEN "none" ELSE secret

\* The line is redacted whole; what still holds a secret is not shown.
apply(line) ==
    LET plain == strip_ansi(line.secret)
        tokens == IF any_in(plain) /\ json_record_shape(line) THEN redact_json_string_tokens(plain) ELSE plain
        text == IF any_in(tokens) THEN redact_as_text(plain) ELSE tokens
    IN IF any_in(text) THEN "withheld" ELSE IF any_in(plain) THEN "redacted" ELSE "clear"

\* An error is always shown, and a line whose level cannot be read is one.
Number(cells) == IF cells = <<>> THEN 0 ELSE cells[Len(cells)]
LevelOf(cells) ==
    IF cells # <<>> /\ cells = Cells(Number(cells), said[Number(cells)].size) THEN said[Number(cells)].level ELSE "error"
log_line_visible_at_threshold(cells) == Rank[LevelOf(cells)] = 1 \/ Rank[LevelOf(cells)] <= Rank[Threshold]

Shown(cells) ==
    [cells |-> cells,
     text |-> IF Len(cells) > MaxRedact THEN "too-long" ELSE IF cells = <<>> THEN "clear" ELSE apply(said[Number(cells)])]
Cost(cells) == Lesser(Len(cells), MaxRedact) + 1

(***************************************************************************)
(* logs_document and tail_log_source.                                      *)
(***************************************************************************)
GivesAnswer(lines, limited, late) ==
    reader' = "idle" /\ answer' = [lines |-> lines, scan_limited |-> limited \/ late, deadline_reached |-> late]

BeginRead ==
    /\ reader = "idle" /\ reads < MaxReads /\ reads' = reads + 1
    /\ opened' = <<>> /\ selected' = <<>> /\ spent' = 2 /\ budget' = ScanBudget /\ combined' = <<>> /\ position' = 0
    /\ atStart' = AllKept /\ rotated' = FALSE /\ opening' = Backups
    /\ \/ GivesAnswer(<<>>, TRUE, TRUE)
       \/ reader' = "open" /\ answer' = NoAnswer
    /\ UNCHANGED localVars

\* The oldest first; every one is checked before any is read.
OpenNext ==
    /\ reader = "open"
    /\ opened' = IF disk[opening] = Missing THEN opened ELSE Append(opened, disk[opening])
    /\ IF opening = 0 THEN reader' = "file" /\ UNCHANGED opening ELSE opening' = opening - 1 /\ UNCHANGED reader
    /\ UNCHANGED <<position, budget, combined, selected, spent, answer, reads, atStart, rotated, localVars>>

TailDone(limited, late) == GivesAnswer(Backwards(selected), limited, late) /\ UNCHANGED <<opened, position, combined>>

\* A final newline ends the last record; it does not start an empty one.
BeginFile ==
    /\ reader = "file"
    /\ IF opened = <<>> THEN TailDone(FALSE, FALSE)
       ELSE LET bytes == opened[Len(opened)]
            IN /\ position' = IF bytes # <<>> /\ bytes[Len(bytes)] = 0 THEN Len(bytes) - 1 ELSE Len(bytes)
               /\ reader' = "chunk" /\ UNCHANGED <<opened, combined, answer>>
    /\ UNCHANGED <<opening, budget, selected, spent, reads, atStart, rotated, localVars>>

\* Mutant: what was left of the last chunk is forgotten.
WithCarry_forgotten(chunk, carry) == chunk

WithCarry(chunk, carry) == chunk \o carry

NextFile == opened' = SubSeq(opened, 1, Len(opened) - 1) /\ reader' = "file" /\ combined' = <<>>

\* One visit: the line is chosen, passed over, or the last.
Visit(cells, ends, continues) ==
    \/ /\ ends.late /\ TailDone(FALSE, TRUE) /\ UNCHANGED <<selected, spent>>
    \/ /\ ~ log_line_visible_at_threshold(cells) /\ continues /\ UNCHANGED <<selected, spent>>
    \/ /\ log_line_visible_at_threshold(cells) /\ spent + Cost(cells) > ByteLimit
       /\ TailDone(FALSE, FALSE) /\ UNCHANGED <<selected, spent>>
    \/ /\ log_line_visible_at_threshold(cells) /\ spent + Cost(cells) <= ByteLimit
       /\ selected' = Append(selected, Shown(cells)) /\ spent' = spent + Cost(cells)
       /\ IF Len(selected') = Requested
          THEN GivesAnswer(Backwards(selected'), FALSE, FALSE) /\ UNCHANGED <<opened, position, combined>>
          ELSE continues

ReadChunk ==
    /\ reader = "chunk"
    /\ \/ /\ position = 0 /\ opened[Len(opened)] = <<>> /\ NextFile /\ UNCHANGED <<position, budget, selected, spent, answer>>
       \/ /\ position = 0 /\ opened[Len(opened)] # <<>>      \* the file's first line
          /\ \E late \in BOOLEAN : Visit(combined, [late |-> late], NextFile /\ UNCHANGED <<position, answer>>)
          /\ UNCHANGED budget
       \/ /\ position > 0 /\ budget = 0 /\ TailDone(TRUE, FALSE) /\ UNCHANGED <<budget, selected, spent>>
       \/ /\ position > 0 /\ budget > 0
          /\ LET size == Lesser(Chunk, Lesser(position, budget))
             IN /\ position' = position - size /\ budget' = budget - size
                /\ combined' = WithCarry(SubSeq(opened[Len(opened)], position - size + 1, position), combined)
          /\ reader' = "lines" /\ UNCHANGED <<opened, selected, spent, answer>>
    /\ UNCHANGED <<opening, reads, atStart, rotated, localVars>>

VisitLine ==
    /\ reader = "lines"
    /\ LET newlines == {i \in 1 .. Len(combined) : combined[i] = 0}
           last == CHOOSE i \in newlines : \A j \in newlines : j <= i
       IN IF newlines = {} THEN reader' = "chunk" /\ UNCHANGED <<opened, position, combined, selected, spent, answer>>
          ELSE \E late \in BOOLEAN :
                 Visit(SubSeq(combined, last + 1, Len(combined)), [late |-> late],
                       combined' = SubSeq(combined, 1, last - 1) /\ UNCHANGED <<opened, position, reader, answer>>)
    /\ UNCHANGED <<opening, budget, reads, atStart, rotated, localVars>>

\* The core's own steps, beside a read.  Once the files are open a read
\* looks at nothing the core can still change: a file only grows, and no
\* more of it is read than there was.  (After the last read, a bound.)
CoreLogs ==
    /\ reader = "open" \/ (reader = "idle" /\ reads < MaxReads)
    /\ LocalNext
    /\ rotated' = (rotated \/ (reader = "open" /\ \E i \in 1 .. Backups : disk'[i] # disk[i]))
    /\ UNCHANGED <<reader, opening, opened, position, budget, combined, selected, spent, answer, reads, atStart>>

TailInit ==
    /\ LocalInit
    /\ reader = "idle" /\ opening = 0 /\ opened = <<>> /\ position = 0 /\ budget = 0 /\ combined = <<>> /\ selected = <<>>
    /\ spent = 0 /\ answer = NoAnswer /\ reads = 0 /\ atStart = <<>> /\ rotated = FALSE

TailNext == BeginRead \/ OpenNext \/ BeginFile \/ ReadChunk \/ VisitLine \/ CoreLogs

(***************************************************************************)
(* Properties.                                                             *)
(***************************************************************************)
Numbers(lines) == [i \in 1 .. Len(lines) |-> Number(lines[i].cells)]
VisibleAtStart == SelectSeq(atStart, LAMBDA n : permits(Threshold, said[n].level) \/ said[n].level = "error")
Answered == reader = "idle" /\ reads > 0 /\ ~ (answer.deadline_reached /\ answer.lines = <<>>)

\* Wherever the chunks fall and whatever the core does meanwhile, the lines
\* shown are whole lines in the order they were written, none twice; and
\* unless a file was moved while the rotations were
\* being opened, no visible line between them is left out, nor, in an answer
\* that is not said to be cut short, the newest that was there when the read
\* began (visit_lines_newest_first and tail_log_source, dsm_api.rs:18842).
ReadIsTail ==
    Answered /\ log_faults = 0 =>
      LET n == Numbers(answer.lines)
      IN /\ \A i \in DOMAIN n : n[i] # 0 /\ answer.lines[i].cells = Cells(n[i], said[n[i]].size)
         /\ \A i, j \in DOMAIN n : i < j => n[i] < n[j]
         /\ ~ rotated =>
              /\ \A k \in DOMAIN VisibleAtStart : \A i \in DOMAIN n :
                   n[i] < VisibleAtStart[k] => \E j \in DOMAIN n : n[j] = VisibleAtStart[k]
              /\ ~ answer.scan_limited /\ VisibleAtStart # <<>> /\ ByteLimit > MaxRedact + 2 => n # <<>>

\* What is on disk is the tail of what was logged, and what a read shows is
\* the tail of what is on disk (observability.rs:2053, dsm_api.rs:18842).
LogReadable == LogIsTail /\ ReadIsTail
===============================================================================
