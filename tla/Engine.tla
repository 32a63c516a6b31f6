------------------------------- MODULE Engine --------------------------------
(***************************************************************************)
(* One ExecutionEngine.run (engine.py), as the CLI builds it: with a       *)
(* store, a logger and a list of notifiers.  The action boundaries are the *)
(* calls that leave the process (a transaction, a file append, a command   *)
(* on the target, a notifier), because a crash, an exception or another    *)
(* process can come between any two of them.                               *)
(*                                                                         *)
(* calls and sends are not state of the program: they are what the target  *)
(* and the notification services have seen, for the properties to compare  *)
(* the records with.                                                       *)
(***************************************************************************)
EXTENDS Runbook, AuditStore, AuditLog

CONSTANTS Notifiers,   \* the configured notifiers, in order
          MaxClock     \* bound on the ticks, and on what a clock is set to (TLC only)

NotifierSet == {Notifiers[i] : i \in 1..Len(Notifiers)}

ASSUME NotifiersAssumption == Notifiers \in Seq(NotifierSet) /\ MaxClock \in Nat

VARIABLES
  rb, dry,      \* the arguments of run
  pc,           \* where the run stands
  cur,          \* current_step_id
  path,         \* step_path
  attempts,     \* attempts, the total over all steps
  branchMap,    \* dry_run_branch_map
  attempt,      \* attempt_number of _run_ssh_step
  row,          \* the attempt about to be recorded
  next,         \* index of the next notifier of _run_escalation
  note,         \* the notifier result about to be recorded
  event,        \* the event _write_event is writing
  reason,       \* last_failure_reason
  final,        \* final_status
  now,          \* seconds elapsed, and what the wall clock shows of them
  calls,        \* commands the executor was asked to run, in order
  sends         \* notifications handed to a notifier, in order

inputVars == <<rb, dry>>
stepVars  == <<attempt, row>>
noteVars  == <<next, note>>
walkVars  == <<cur, path, attempts, branchMap, reason, final>>
worldVars == <<calls, sends>>
vars == <<rb, dry, pc, cur, path, attempts, branchMap, attempt, row, next,
          note, event, reason, final, now, calls, sends, execution,
          stepAttempts, notifications, textLog, jsonlLog>>

UnknownFailure      == "unknown_failure"
ExpectationMismatch == "step expectation did not match"

Stopped    == {"returned", "raised", "crashed"}
WritePoint == {"write_text", "write_jsonl"}
StorePoint == {"record_start", "record_attempt", "record_notification",
               "record_end"}

Step == rb.steps[cur]

(* ExecutionResult: what a command printed and returned, or the failure    *)
(* result a transport error is turned into.                                *)
CommandResult    == [exit: Codes, output: Texts, error: Texts]
TransportFailure == [exit: {NoExit}, output: {NoText}, error: Texts]
ExecutionResult  == CommandResult \union TransportFailure

(* What comes of a notifier: delivered, a failure result, or an exception. *)
SendOutcome == {"delivered", "failure", "exception"}

(* Time that has passed, whether or not the wall clock was set meanwhile.  *)
Clock == [elapsed: Nat, wall: Nat]

NoRow   == [step |-> NoText, attempt |-> 0]
NoNote  == [step |-> NoText, status |-> "none"]
NoEvent == [event |-> "none"]

----------------------------------------------------------------------------

Init ==
  /\ rb \in Runbooks /\ dry \in BOOLEAN
  /\ pc = "record_start"
  /\ cur = rb.entry /\ path = <<>> /\ attempts = 0 /\ branchMap = <<>>
  /\ attempt = 0 /\ row = NoRow
  /\ next = 1 /\ note = NoNote
  /\ event = NoEvent
  /\ reason = UnknownFailure /\ final = "failed"
  /\ \E wall \in 0..MaxClock : now = [elapsed |-> 0, wall |-> wall]
  /\ calls = <<>> /\ sends = <<>>
  /\ StoreInit /\ LogInit

(* Append an event to both files; where the run goes on depends on what    *)
(* was logged.                                                             *)
After(e) == [execution_start |-> "dispatch", step_attempt |-> "branch",
             notification |-> "notify", escalation |-> "record_end",
             execution_end |-> "returned"][e.event]

(* A slip: an error of the text log is swallowed.                          *)
WriteTextQuietly ==
  /\ pc = "write_text"
  /\ AppendText(event) \/ UNCHANGED logVars
  /\ pc' = "write_jsonl"
  /\ UNCHANGED <<inputVars, walkVars, stepVars, noteVars, worldVars, storeVars,
                 event, now>>

WriteText ==
  /\ pc = "write_text"
  /\ AppendText(event)
  /\ pc' = "write_jsonl"
  /\ UNCHANGED <<inputVars, walkVars, stepVars, noteVars, worldVars, storeVars,
                 event, now>>

WriteJsonl ==
  /\ pc = "write_jsonl"
  /\ AppendJsonl(event)
  /\ pc' = After(event)
  /\ UNCHANGED <<inputVars, walkVars, stepVars, noteVars, worldVars, storeVars,
                 event, now>>

(* Hand an event to the logger.                                            *)
Log(e) == event' = e /\ pc' = "write_text"

(* A slip: an error of the store is swallowed.                             *)
RecordStartQuietly ==
  /\ pc = "record_start"
  /\ RecordExecutionStart(dry) \/ UNCHANGED storeVars
  /\ Log(ExecutionStartEvent(dry))
  /\ UNCHANGED <<inputVars, walkVars, stepVars, noteVars, worldVars, logVars, now>>

RecordStart ==
  /\ pc = "record_start"
  /\ RecordExecutionStart(dry)
  /\ Log(ExecutionStartEvent(dry))
  /\ UNCHANGED <<inputVars, walkVars, stepVars, noteVars, worldVars, logVars, now>>

----------------------------------------------------------------------------
(* The loop of run: one action per kind of step.  A step of a fourth kind  *)
(* and an attempt loop that falls through (both RuntimeErrors in the code) *)
(* do not occur: the runbook is compiled, and the last attempt branches.   *)

EnterStep == pc = "dispatch" /\ path' = Append(path, cur)

DispatchDryRun ==
  /\ EnterStep /\ dry /\ Step.type = "ssh"
  /\ attempts' = attempts + 1
  /\ branchMap' = [s \in DOMAIN branchMap \union {cur} |->
                     IF s = cur THEN <<Step.onSuccess, Step.onFailure>>
                                ELSE branchMap[s]]
  /\ row' = [step |-> cur, attempt |-> 1, startedAt |-> now.wall, success |-> TRUE,
             exit |-> NoExit, branch |-> "simulated", error |-> NoText]
  /\ pc' = "record_attempt"
  /\ UNCHANGED <<inputVars, noteVars, worldVars, storeVars, logVars, cur, reason,
                 final, attempt, event, now>>

(* A slip: attempts counted from zero.                                     *)
DispatchSSHFromZero ==
  /\ EnterStep /\ ~dry /\ Step.type = "ssh"
  /\ attempt' = 0
  /\ pc' = "execute"
  /\ UNCHANGED <<inputVars, noteVars, worldVars, storeVars, logVars, cur, attempts,
                 branchMap, reason, final, row, event, now>>

DispatchSSH ==
  /\ EnterStep /\ ~dry /\ Step.type = "ssh"
  /\ attempt' = 1
  /\ pc' = "execute"
  /\ UNCHANGED <<inputVars, noteVars, worldVars, storeVars, logVars, cur, attempts,
                 branchMap, reason, final, row, event, now>>

(* Slips: an escalation that takes no notice of dry_run, and one that      *)
(* closes the execution without waiting for its notifiers.                 *)
EscalateDryToo ==
  /\ EnterStep /\ Step.type = "escalate"
  /\ final' = (IF dry THEN "dry_run" ELSE "escalated") /\ pc' = "notify"
  /\ next' = 1
  /\ UNCHANGED <<inputVars, stepVars, worldVars, storeVars, logVars, cur, attempts,
                 branchMap, reason, note, event, now>>

EscalateUnheard ==
  /\ EnterStep /\ Step.type = "escalate"
  /\ final' = (IF dry THEN "dry_run" ELSE "escalated") /\ pc' = "record_end"
  /\ next' = 1
  /\ UNCHANGED <<inputVars, stepVars, worldVars, storeVars, logVars, cur, attempts,
                 branchMap, reason, note, event, now>>

DispatchEscalate ==
  /\ EnterStep /\ Step.type = "escalate"
  /\ IF dry THEN final' = "dry_run" /\ pc' = "record_end"
            ELSE final' = "escalated" /\ pc' = "notify"
  /\ next' = 1
  /\ UNCHANGED <<inputVars, stepVars, worldVars, storeVars, logVars, cur, attempts,
                 branchMap, reason, note, event, now>>

DispatchEnd ==
  /\ EnterStep /\ Step.type = "end"
  /\ final' = IF dry THEN "dry_run" ELSE "success"
  /\ pc' = "record_end"
  /\ UNCHANGED <<inputVars, stepVars, noteVars, worldVars, storeVars, logVars, cur,
                 attempts, branchMap, reason, event, now>>

----------------------------------------------------------------------------
(* _run_ssh_step                                                           *)

(* What the target is asked, and when.                                     *)
Call == [step |-> cur, attempt |-> attempt, at |-> now.elapsed]

(* A slip: one retry too many.                                             *)
BranchOnceMore(matches) == IF matches THEN "on_success"
                           ELSE IF attempt <= TotalAttempts(Step) THEN "retry"
                           ELSE "on_failure"

(* branch_taken                                                            *)
BranchTaken(matches) == IF matches THEN "on_success"
                        ELSE IF attempt < TotalAttempts(Step) THEN "retry"
                        ELSE "on_failure"

Execute(result) ==
  LET matches == MatchesExpectation(Step, result) IN
  /\ pc = "execute"
  /\ calls' = Append(calls, Call)
  /\ row' = [step |-> cur, attempt |-> attempt, startedAt |-> now.wall,
             success |-> matches, exit |-> result.exit,
             branch |-> BranchTaken(matches), error |-> result.error]
  /\ pc' = "record_attempt"
  /\ UNCHANGED <<inputVars, walkVars, noteVars, storeVars, logVars, attempt,
                 event, now, sends>>

(* A slip: only the attempt that decides the branch is recorded.           *)
RecordLastAttempt ==
  /\ pc = "record_attempt"
  /\ IF row.branch = "retry"
       THEN pc' = "branch" /\ UNCHANGED <<storeVars, event>>
       ELSE RecordStepAttempt(row) /\ Log(StepAttemptEvent(row))
  /\ UNCHANGED <<inputVars, walkVars, stepVars, noteVars, worldVars, logVars, now>>

RecordAttempt ==
  /\ pc = "record_attempt"
  /\ RecordStepAttempt(row)
  /\ Log(StepAttemptEvent(row))
  /\ UNCHANGED <<inputVars, walkVars, stepVars, noteVars, worldVars, logVars, now>>

(* A dry run continues with on_success; its attempt is counted already.    *)
FollowSimulated ==
  /\ pc = "branch" /\ row.branch = "simulated"
  /\ cur' = Step.onSuccess
  /\ pc' = "dispatch"
  /\ UNCHANGED <<inputVars, stepVars, noteVars, worldVars, storeVars, logVars,
                 path, attempts, branchMap, reason, final, event, now>>

(* A slip: an ssh step counted as one attempt.                             *)
FollowSuccessCountingSteps ==
  /\ pc = "branch" /\ row.branch = "on_success"
  /\ attempts' = attempts + 1
  /\ cur' = Step.onSuccess
  /\ pc' = "dispatch"
  /\ UNCHANGED <<inputVars, stepVars, noteVars, worldVars, storeVars, logVars,
                 path, branchMap, reason, final, event, now>>

FollowSuccess ==
  /\ pc = "branch" /\ row.branch = "on_success"
  /\ attempts' = attempts + attempt
  /\ cur' = Step.onSuccess
  /\ pc' = "dispatch"
  /\ UNCHANGED <<inputVars, stepVars, noteVars, worldVars, storeVars, logVars,
                 path, branchMap, reason, final, event, now>>

(* A slip: the retry comes at once.                                        *)
RetryAtOnce ==
  /\ pc = "branch" /\ row.branch = "retry"
  /\ attempt' = attempt + 1
  /\ pc' = "execute"
  /\ UNCHANGED <<inputVars, walkVars, noteVars, worldVars, storeVars, logVars,
                 row, event, now>>

(* sleep_fn(retry_delay), then the next attempt                            *)
Retry ==
  /\ pc = "branch" /\ row.branch = "retry"
  /\ now' = [elapsed |-> now.elapsed + Step.retryDelay,
             wall |-> now.wall + Step.retryDelay]
  /\ attempt' = attempt + 1
  /\ pc' = "execute"
  /\ UNCHANGED <<inputVars, walkVars, noteVars, worldVars, storeVars, logVars,
                 row, event>>

(* A slip: a failure without an error text leaves an earlier reason.       *)
FollowFailureKeepingReason ==
  /\ pc = "branch" /\ row.branch = "on_failure"
  /\ attempts' = attempts + attempt
  /\ reason' = IF row.error # NoText THEN row.error ELSE reason
  /\ cur' = Step.onFailure
  /\ pc' = "dispatch"
  /\ UNCHANGED <<inputVars, stepVars, noteVars, worldVars, storeVars, logVars,
                 path, branchMap, final, event, now>>

FollowFailure ==
  /\ pc = "branch" /\ row.branch = "on_failure"
  /\ attempts' = attempts + attempt
  /\ reason' = IF row.error # NoText THEN row.error ELSE ExpectationMismatch
  /\ cur' = Step.onFailure
  /\ pc' = "dispatch"
  /\ UNCHANGED <<inputVars, stepVars, noteVars, worldVars, storeVars, logVars,
                 path, branchMap, final, event, now>>

----------------------------------------------------------------------------
(* _run_escalation, _send_notifier, _record_notification                   *)

(* Slips: the outcome recorded as it is, and whatever is not an exception  *)
(* taken for delivered.                                                    *)
RawStatus(outcome) == outcome
SentUnlessRaised(outcome) == IF outcome = "exception" THEN "failed" ELSE "sent"

NoteStatus(outcome) == IF outcome = "delivered" THEN "sent" ELSE "failed"

SendNotifier(outcome) ==
  /\ pc = "notify" /\ next <= Len(Notifiers)
  /\ sends' = Append(sends, [notifier |-> Notifiers[next], step |-> cur,
                             reason |-> reason, outcome |-> outcome])
  /\ note' = [step |-> cur, notifier |-> Notifiers[next],
              status |-> NoteStatus(outcome)]
  /\ next' = next + 1
  /\ pc' = "record_notification"
  /\ UNCHANGED <<inputVars, walkVars, stepVars, storeVars, logVars, event, now,
                 calls>>

RecordNotificationResult ==
  /\ pc = "record_notification"
  /\ RecordNotification(note, now.wall)
  /\ Log(NotificationEvent(note))
  /\ UNCHANGED <<inputVars, walkVars, stepVars, noteVars, worldVars, logVars, now>>

(* A slip: the first failed notifier ends the fan-out.                     *)
StopAtFirstFailure ==
  /\ pc = "notify" /\ (next > Len(Notifiers) \/ note.status = "failed")
  /\ Log(EscalationEvent(cur, reason))
  /\ UNCHANGED <<inputVars, walkVars, stepVars, noteVars, worldVars, storeVars,
                 logVars, now>>

FinishEscalation ==
  /\ pc = "notify" /\ next > Len(Notifiers)
  /\ Log(EscalationEvent(cur, reason))
  /\ UNCHANGED <<inputVars, walkVars, stepVars, noteVars, worldVars, storeVars,
                 logVars, now>>

RecordEnd ==
  /\ pc = "record_end"
  /\ RecordExecutionEnd(final)
  /\ Log(ExecutionEndEvent(final))
  /\ UNCHANGED <<inputVars, walkVars, stepVars, noteVars, worldVars, logVars, now>>

----------------------------------------------------------------------------
(* What may go wrong around the engine.                                    *)

(* The store or a log file refuses a write; nothing catches the exception. *)
WriteFails ==
  /\ pc \in StorePoint \union WritePoint
  /\ pc' = "raised"
  /\ UNCHANGED <<inputVars, walkVars, stepVars, noteVars, worldVars, storeVars,
                 logVars, event, now>>

(* The executor raises something it does not normalise (SSHExecutor lets   *)
(* EOFError and the like through); the command was already asked for.      *)
ExecutorRaises ==
  /\ pc = "execute"
  /\ calls' = Append(calls, Call)
  /\ pc' = "raised"
  /\ UNCHANGED <<inputVars, walkVars, stepVars, noteVars, storeVars, logVars,
                 event, now, sends>>

(* The process is killed between two steps; its local variables are lost,  *)
(* nothing reads them again.                                               *)
Crash ==
  /\ pc \notin Stopped
  /\ pc' = "crashed"
  /\ UNCHANGED <<inputVars, walkVars, stepVars, noteVars, worldVars, storeVars,
                 logVars, event, now>>

(* The clock is read when an attempt starts (started_at) and when a        *)
(* notification is recorded (sent_at); time that passes elsewhere is not   *)
(* observed.  datetime.now reads the wall clock, which may be set, also    *)
(* back, at any time.  MaxClock bounds the ticks, not the sleeps.          *)
Tick ==
  /\ pc \in {"dispatch", "execute", "record_notification"}
  /\ now.elapsed < MaxClock
  /\ \E wall \in 0..MaxClock :
        now' = [elapsed |-> now.elapsed + 1, wall |-> wall]
  /\ UNCHANGED <<inputVars, walkVars, stepVars, noteVars, worldVars, storeVars,
                 logVars, pc, event>>

Terminated == pc \in Stopped /\ UNCHANGED vars

OwnStep ==
  \/ RecordStart \/ WriteText \/ WriteJsonl
  \/ DispatchDryRun \/ DispatchSSH \/ DispatchEscalate \/ DispatchEnd
  \/ \E result \in ExecutionResult : Execute(result)
  \/ RecordAttempt
  \/ FollowSimulated \/ FollowSuccess \/ Retry \/ FollowFailure
  \/ RecordNotificationResult \/ FinishEscalation \/ RecordEnd

RunStep == OwnStep \/ \E outcome \in SendOutcome : SendNotifier(outcome)

Fault == WriteFails \/ ExecutorRaises \/ Crash

Next == RunStep \/ Fault \/ Tick \/ Terminated

(* No step has to be taken here; what goes on when is said in Cli.         *)
Spec == Init /\ [][Next]_vars
=============================================================================
