----------------------------- MODULE AuditStore ------------------------------
(***************************************************************************)
(* The rows the SQLite store holds of one execution (persistence.py).      *)
(* Each record_* method is one transaction: it commits its single          *)
(* statement, or raises and leaves the tables as they were.  Rows of other *)
(* executions are never touched (every statement is keyed by a fresh       *)
(* execution id) and are left out, as are ids, durations and the command   *)
(* text.                                                                   *)
(***************************************************************************)
EXTENDS Integers, Sequences

VARIABLES execution,      \* the row of table executions
          stepAttempts,   \* rows of table step_attempts, in insertion order
          notifications   \* rows of table notifications, in insertion order

storeVars == <<execution, stepAttempts, notifications>>

NoExecution == [status |-> "absent", dryRun |-> FALSE]

FinalStatus == {"success", "escalated", "dry_run"}

StoreInit == /\ execution = NoExecution
             /\ stepAttempts = <<>>
             /\ notifications = <<>>

RecordExecutionStart(dryRun) ==
  /\ execution' = [status |-> "running", dryRun |-> dryRun]
  /\ UNCHANGED <<stepAttempts, notifications>>

(* UPDATE executions SET status, ended_at WHERE id: the row's earlier      *)
(* status is not a condition of the statement.                             *)
RecordExecutionEnd(finalStatus) ==
  /\ execution' = [execution EXCEPT !.status = finalStatus]
  /\ UNCHANGED <<stepAttempts, notifications>>

(* A slip: one row per step, the next attempt replacing the last.          *)
ReplaceStepAttempt(r) ==
  /\ execution # NoExecution
  /\ stepAttempts' = Append(SelectSeq(stepAttempts, LAMBDA q : q.step # r.step), r)
  /\ UNCHANGED <<execution, notifications>>

(* The foreign key refuses a row without its execution.                    *)
RecordStepAttempt(r) ==
  /\ execution # NoExecution
  /\ stepAttempts' = Append(stepAttempts, r)
  /\ UNCHANGED <<execution, notifications>>

(* sent_at is read from the clock when the row is inserted.                *)
RecordNotification(n, sentAt) ==
  /\ execution # NoExecution
  /\ notifications' = Append(notifications,
       [step |-> n.step, notifier |-> n.notifier, status |-> n.status,
        sentAt |-> sentAt])
  /\ UNCHANGED <<execution, stepAttempts>>
=============================================================================
