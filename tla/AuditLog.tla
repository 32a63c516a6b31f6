------------------------------ MODULE AuditLog -------------------------------
(***************************************************************************)
(* The two log files of one execution (audit.py): <id>.log, one text line  *)
(* per event, and <id>.jsonl, one JSON object per event.  _write_event     *)
(* appends to the first, closes it, then appends to the second.  A line    *)
(* that fits the file buffer is one flush at close: a reader or a crash    *)
(* sees all of it or none, but may well come between the two files.  Lines *)
(* longer than the buffer, which can be torn, are left out.                *)
(*                                                                         *)
(* An event is a record; timestamps, the level, and the execution, runbook *)
(* and target names, equal in every event of a run, are left out.          *)
(***************************************************************************)
EXTENDS Sequences

VARIABLES textLog,    \* events in <id>.log
          jsonlLog    \* events in <id>.jsonl

logVars == <<textLog, jsonlLog>>

LogInit == textLog = <<>> /\ jsonlLog = <<>>

ExecutionStartEvent(dryRun) == [event |-> "execution_start", dryRun |-> dryRun]

StepAttemptEvent(r) ==
  [event |-> "step_attempt", step |-> r.step, attempt |-> r.attempt,
   result |-> IF r.branch = "simulated" THEN "simulated"
              ELSE IF r.success THEN "success" ELSE "failure",
   branch |-> r.branch, exit |-> r.exit, error |-> r.error]

NotificationEvent(n) ==
  [event |-> "notification", step |-> n.step, notifier |-> n.notifier,
   result |-> n.status]

EscalationEvent(s, why) == [event |-> "escalation", step |-> s, reason |-> why]

ExecutionEndEvent(finalStatus) ==
  [event |-> "execution_end", status |-> finalStatus]

(* The two halves of _write_event.                                         *)
AppendText(e)  == textLog' = Append(textLog, e) /\ UNCHANGED jsonlLog
AppendJsonl(e) == jsonlLog' = Append(jsonlLog, e) /\ UNCHANGED textLog
=============================================================================
