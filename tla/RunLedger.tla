------------------------------ MODULE RunLedger ------------------------------
(***************************************************************************)
(* What the audit database promises about one execution, stated over its   *)
(* three tables alone: at every moment the rows are those of a legal walk  *)
(* of the runbook, so that whoever reads them, after a crash too, can tell *)
(* where the run stood.  The row to come is determined by the last one     *)
(* (Position); the execution row is closed once, at a terminal step, with  *)
(* the status of that step, and as "escalated" only when every notifier    *)
(* has its row.  The engine is shown to implement this specification.      *)
(***************************************************************************)
EXTENDS Runbook

CONSTANT Notifiers

VARIABLES rb, dry, execution, stepAttempts, notifications

ledgerVars == <<rb, dry, execution, stepAttempts, notifications>>

(* The step and attempt number the run has come to.                        *)
Position ==
  IF stepAttempts = <<>> THEN [step |-> rb.entry, attempt |-> 1]
  ELSE LET last == stepAttempts[Len(stepAttempts)]
           step == rb.steps[last.step]
       IN IF last.branch = "retry"
            THEN [step |-> last.step, attempt |-> last.attempt + 1]
            ELSE [step |-> IF last.branch = "on_failure" THEN step.onFailure
                                                         ELSE step.onSuccess,
                  attempt |-> 1]

Here == rb.steps[Position.step]

Branches(r) ==
  IF dry THEN {"simulated"}
  ELSE IF r.success THEN {"on_success"}
  ELSE IF r.attempt < TotalAttempts(Here) THEN {"retry"} ELSE {"on_failure"}

AttemptRow ==
  [step: StepIds, attempt: Nat, startedAt: Nat, success: BOOLEAN,
   exit: Codes \union {NoExit}, error: Texts,
   branch: {"simulated", "on_success", "retry", "on_failure"}]

LedgerInit ==
  /\ rb \in Runbooks /\ dry \in BOOLEAN
  /\ execution = [status |-> "absent", dryRun |-> FALSE]
  /\ stepAttempts = <<>> /\ notifications = <<>>

Begin ==
  /\ execution.status = "absent"
  /\ execution' = [status |-> "running", dryRun |-> dry]
  /\ UNCHANGED <<rb, dry, stepAttempts, notifications>>

(* The rows an attempt may get where the run stands.  A success has the    *)
(* expected exit status, unless it is simulated.                           *)
LegalAttempt(r) ==
  /\ r \in AttemptRow
  /\ r.step = Position.step /\ r.attempt = Position.attempt
  /\ r.attempt <= TotalAttempts(Here)
  /\ r.branch \in Branches(r)
  /\ r.success => r.exit = (IF dry THEN NoExit ELSE Here.exitCode)

LegalNote(n) == /\ n.step = Position.step
                /\ n.notifier = Notifiers[Len(notifications) + 1]
                /\ n.status \in {"sent", "failed"}

Latest(s) == s[Len(s)]

RecordAttempt ==
  /\ execution.status = "running"
  /\ Here.type = "ssh"
  /\ Len(stepAttempts') = Len(stepAttempts) + 1
  /\ LegalAttempt(Latest(stepAttempts'))
  /\ stepAttempts' = Append(stepAttempts, Latest(stepAttempts'))
  /\ UNCHANGED <<rb, dry, execution, notifications>>

RecordNotification ==
  /\ execution.status = "running" /\ ~dry
  /\ Here.type = "escalate"
  /\ Len(notifications) < Len(Notifiers)
  /\ Len(notifications') = Len(notifications) + 1
  /\ LegalNote(Latest(notifications'))
  /\ notifications' = Append(notifications, Latest(notifications'))
  /\ UNCHANGED <<rb, dry, execution, stepAttempts>>

Close ==
  /\ execution.status = "running"
  /\ Here.type \in {"escalate", "end"}
  /\ Here.type = "escalate" /\ ~dry => Len(notifications) = Len(Notifiers)
  /\ execution' = [execution EXCEPT !.status =
                     IF dry THEN "dry_run"
                     ELSE IF Here.type = "end" THEN "success" ELSE "escalated"]
  /\ UNCHANGED <<rb, dry, stepAttempts, notifications>>

LedgerNext == Begin \/ RecordAttempt \/ RecordNotification \/ Close

LedgerSpec == LedgerInit /\ [][LedgerNext]_ledgerVars
=============================================================================
