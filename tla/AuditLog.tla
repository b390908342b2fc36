------------------------------ MODULE AuditLog ------------------------------
(***************************************************************************)
(* JsonlAuditLog.record of the sidecar (src/ce_mcp/audit.py): append a     *)
(* line, after moving each file to the next number when it would not fit.  *)
(* Every system call may fail, which refuses the record, and the sidecar   *)
(* may die between any two.  The lock of the log serialises its threads;   *)
(* one sidecar writes to a root at a time.                                 *)
(***************************************************************************)
EXTENDS Naturals, FiniteSets

CONSTANTS
  Retained,      \* retained_files
  FileLines,     \* how many lines max_bytes are
  MaxRecords     \* bound: records

ASSUME AuditAssumption ==
  Retained \in Nat \ {0} /\ FileLines \in Nat \ {0} /\ MaxRecords \in Nat

VARIABLES
  logs,       \* the records in audit.jsonl (file 0) and audit.<n>.jsonl
  present,    \* the files that exist
  step,       \* where record is
  file,       \* index of the loop
  written,    \* records that were appended
  broken      \* history: rotations that failed, up to Retained

auditVars == <<logs, present, step, file, written, broken>>

LogFiles == 0 .. Retained - 1
Records == 1 .. MaxRecords
AuditSteps == {"idle", "unlink", "move", "append"}

AuditTypeOK ==
  /\ logs \in [LogFiles -> SUBSET Records]
  /\ present \subseteq LogFiles
  /\ step \in AuditSteps
  /\ file \in LogFiles
  /\ written \in 0 .. MaxRecords
  /\ broken \in 0 .. Retained

AuditInit ==
  /\ logs = [f \in LogFiles |-> {}]
  /\ present = {}
  /\ step = "idle" /\ file = 0
  /\ written = 0 /\ broken = 0

\* record begins, and sees whether the line still fits; nothing comes in between.
CheckSize ==
  /\ step = "idle" /\ written < MaxRecords
  /\ step' = IF 0 \in present /\ Cardinality(logs[0]) >= FileLines THEN "unlink" ELSE "append"
  /\ UNCHANGED <<logs, present, file, written, broken>>

\* The loop is at a file, or over at 0.
LoopAt(f) == file' = f /\ step' = IF f = 0 THEN "append" ELSE "move"

\* The oldest file; with one file to retain, none: audit.0.jsonl is not a file of the log.
UnlinkOldest ==
  /\ step = "unlink"
  /\ LET oldest == Retained - 1
     IN  /\ logs' = [logs EXCEPT ![oldest] = IF oldest = 0 THEN @ ELSE {}]
         /\ present' = present \ ({oldest} \ {0})
         /\ LoopAt(oldest)
  /\ UNCHANGED <<written, broken>>

\* Mutant: the loop begins with the newest file.
MoveUpwards ==
  /\ step = "move"
  /\ LET to == Retained - file
     IN  IF to - 1 \in present
         THEN /\ logs' = [logs EXCEPT ![to] = logs[to - 1], ![to - 1] = {}]
              /\ present' = (present \cup {to}) \ {to - 1}
         ELSE UNCHANGED <<logs, present>>
  /\ LoopAt(file - 1)
  /\ UNCHANGED <<written, broken>>

\* os.replace of file - 1 to file.
Move ==
  /\ step = "move"
  /\ IF file - 1 \in present
     THEN /\ logs' = [logs EXCEPT ![file] = logs[file - 1], ![file - 1] = {}]
          /\ present' = (present \cup {file}) \ {file - 1}
     ELSE UNCHANGED <<logs, present>>
  /\ LoopAt(file - 1)
  /\ UNCHANGED <<written, broken>>

\* The line is in the file; it may be even if the flush then fails or the sidecar dies.
AppendLine ==
  /\ step = "append"
  /\ logs' = [logs EXCEPT ![0] = @ \cup {written + 1}]
  /\ present' = present \cup {0}
  /\ written' = written + 1
  /\ step' = "idle"
  /\ UNCHANGED <<file, broken>>

\* AuditLogError, or the end of the sidecar.
RecordFails ==
  /\ step # "idle"
  /\ step' = "idle" /\ file' = 0
  /\ broken' = IF step \in {"unlink", "move"} /\ broken < Retained THEN broken + 1 ELSE broken
  /\ UNCHANGED <<logs, present, written>>

AuditNext ==
  CheckSize \/ UnlinkOldest \/ Move \/ AppendLine \/ RecordFails

AuditSpec == AuditInit /\ [][AuditNext]_auditVars

-----------------------------------------------------------------------------
\* What a rotation may lose, however often it fails and is begun again at the next
\* record: the oldest records only.  The records that are left are the last ones, those in
\* a file are older than those in every file before it, and all files but the one that a
\* rotation makes room in stay full, less one for each rotation that failed (audit.py 39-50).
LogIsRecentSuffix ==
  /\ \A f \in LogFiles : \A r \in logs[f], later \in Records :
       r < later /\ later <= written => \E g \in LogFiles : g <= f /\ later \in logs[g]
  /\ \A f, g \in LogFiles : \A r \in logs[f], q \in logs[g] : f < g => q < r
  /\ LET kept == FileLines * (Retained - 1 - broken)
     IN  \A r \in 1 .. written : r > written - kept => \E f \in LogFiles : r \in logs[f]
=============================================================================
