---------------------------- MODULE EngineProofs -----------------------------
(***************************************************************************)
(* Proofs about Engine, for every set of compiled runbooks, every list of  *)
(* notifiers and every set of exit statuses and texts: the inductive       *)
(* invariant, the refinement of RunLedger, and, each from a strengthening  *)
(* relative to that invariant, that the path of a run is simple, that at   *)
(* most one command is in doubt, and that no attempt is executed twice.    *)
(***************************************************************************)
EXTENDS EngineProperties, FiniteSetTheorems, TLAPS

----------------------------------------------------------------------------
(* The inductive invariant: what each point of the run knows about the     *)
(* rows written so far.                                                    *)

EventKinds == {"execution_start", "step_attempt", "notification", "escalation",
               "execution_end"}

IsSSH == Step \in SSHStep

At(n) == Ledger!Position.step = cur /\ Ledger!Position.attempt = n

Fresh == /\ execution = NoExecution /\ stepAttempts = <<>> /\ notifications = <<>>
         /\ cur = rb.entry

AtExecute == ~dry /\ IsSSH /\ At(attempt) /\ attempt \in 1..TotalAttempts(Step)

AtRecordAttempt == IsSSH /\ row \in RowSet /\ Ledger!LegalAttempt(row)
                   /\ row.step = cur
                   /\ (~dry => row.attempt = attempt)

AtBranch == /\ IsSSH /\ row \in RowSet
            /\ stepAttempts # <<>> /\ stepAttempts[Len(stepAttempts)] = row
            /\ row.step = cur
            /\ dry <=> row.branch = "simulated"
            /\ ~dry => row.attempt = attempt
            /\ row.attempt <= TotalAttempts(Step)
            /\ row.branch = "retry" => attempt < TotalAttempts(Step)

AtNotify == /\ ~dry /\ Step.type = "escalate" /\ Ledger!Position.step = cur
            /\ final = "escalated"
            /\ Len(notifications) = next - 1

AtRecordNotification == /\ ~dry /\ Step.type = "escalate"
                        /\ Ledger!Position.step = cur
                        /\ final = "escalated"
                        /\ note \in Note /\ Ledger!LegalNote(note)
                        /\ Len(notifications) = next - 2

AtRecordEnd == /\ Ledger!Position.step = cur
               /\ Step.type \in {"escalate", "end"}
               /\ final = IF dry THEN "dry_run"
                          ELSE IF Step.type = "end" THEN "success" ELSE "escalated"
               /\ Step.type = "escalate" /\ ~dry => Len(notifications) = Len(Notifiers)

Control ==
  /\ pc \in WritePoint => event.event \in EventKinds
  /\ Point = "record_start" => Fresh
  /\ Point \in {"dispatch", "execute", "record_attempt", "branch", "notify",
                "record_notification", "record_end"}
       => execution = [status |-> "running", dryRun |-> dry]
  /\ Point = "dispatch" => At(1)
  /\ Point \in {"dispatch", "execute", "record_attempt", "branch"} => notifications = <<>>
  /\ Point = "execute" => AtExecute
  /\ Point = "record_attempt" => AtRecordAttempt
  /\ Point = "branch" => AtBranch
  /\ Point = "notify" => AtNotify
  /\ Point = "record_notification" => AtRecordNotification
  /\ Point = "record_end" => AtRecordEnd

Inv == RunTypeOK /\ Control

----------------------------------------------------------------------------
(* The fields of an ssh step.                                              *)
LEMMA SSHStepFields ==
  ASSUME NEW step \in SSHStep
  PROVE  /\ step.type = "ssh"
         /\ step.retries \in 0..10
         /\ TotalAttempts(step) \in 1..11 /\ step.retryDelay \in Nat
         /\ step.exitCode \in Codes
<1>1. step.type = "ssh" /\ step.retries \in 0..10 /\ step.retryDelay \in 0..MaxRetryDelay
      /\ step.exitCode \in Codes
  BY DEF SSHStep
<1>2. 1 + step.retries \in 1..11
  BY <1>1
<1>3. step.retryDelay \in Nat
  BY <1>1
<1> QED BY <1>1, <1>2, <1>3 DEF TotalAttempts

(* What the compiler guarantees about the steps the engine meets.          *)
LEMMA SSHStepFacts ==
  ASSUME NEW r, Compiled(r), NEW s \in DOMAIN r.steps, r.steps[s].type = "ssh"
  PROVE  /\ r.steps[s] \in SSHStep
         /\ r.steps[s].onSuccess \in DOMAIN r.steps
         /\ r.steps[s].onFailure \in DOMAIN r.steps
         /\ TotalAttempts(r.steps[s]) \in 1..11
         /\ r.steps[s].retryDelay \in Nat
         /\ s \in StepIds
<1>1. r.steps[s] \in SSHStep \union EscalateStep \union EndStep /\ s \in StepIds
  BY DEF Compiled, CompiledRunbook
<1>2. r.steps[s] \in SSHStep
  BY <1>1 DEF EscalateStep, EndStep
<1>3. Successors(r, s) \subseteq DOMAIN r.steps
  BY DEF Compiled, TargetsExist
<1>4. TotalAttempts(r.steps[s]) \in 1..11 /\ r.steps[s].retryDelay \in Nat
  BY <1>2, SSHStepFields
<1> QED BY <1>1, <1>2, <1>3, <1>4 DEF Successors

(* A step of another type is an end or an escalation.                      *)
LEMMA StepTypes ==
  ASSUME NEW r, Compiled(r), NEW s \in DOMAIN r.steps
  PROVE  r.steps[s].type \in {"ssh", "escalate", "end"} /\ s \in StepIds
<1>1. r.steps[s] \in SSHStep \union EscalateStep \union EndStep /\ s \in StepIds
  BY DEF Compiled, CompiledRunbook
<1> QED BY <1>1 DEF SSHStep, EscalateStep, EndStep

(* The run starts in the invariant.                                        *)
LEMMA InitInv == Init => Inv
<1> SUFFICES ASSUME Init PROVE Inv
  OBVIOUS
<1>1. Compiled(rb) /\ rb.entry \in DOMAIN rb.steps
  BY RunbooksAssumption DEF Init, Compiled, TargetsExist
<1>2. RunTypeOK
  BY <1>1, NotifiersAssumption DEF Init, RunTypeOK, Clock, StoreInit, LogInit, NoExecution,
     Stopped, WritePoint, StorePoint, FinalStatus, Reason
<1>3. Control
  BY DEF Init, Control, Point, StoreInit, Fresh, WritePoint
<1> QED BY <1>2, <1>3 DEF Inv

(* Where the run goes on after an event of each kind.                      *)
LEMMA AfterKinds ==
  ASSUME NEW e
  PROVE  /\ e.event = "execution_start" => After(e) = "dispatch"
         /\ e.event = "step_attempt" => After(e) = "branch"
         /\ e.event = "notification" => After(e) = "notify"
         /\ e.event = "escalation" => After(e) = "record_end"
         /\ e.event = "execution_end" => After(e) = "returned"
BY DEF After

(* A step that touches neither the run's place nor its rows keeps what is  *)
(* known at the point it stays at.                                         *)
LEMMA ControlFrame ==
  ASSUME Control, Point' = Point, pc' \in WritePoint => event.event \in EventKinds,
         UNCHANGED <<rb, dry, cur, attempt, row, next, note, event, final,
                     execution, stepAttempts, notifications>>
  PROVE  Control'
<1>1. Ledger!Position' = Ledger!Position /\ Step' = Step
  BY DEF Ledger!Position, Step
<1>2. /\ Fresh' = Fresh /\ AtExecute' = AtExecute /\ AtBranch' = AtBranch
      /\ AtRecordAttempt' = AtRecordAttempt /\ AtNotify' = AtNotify
      /\ AtRecordNotification' = AtRecordNotification
      /\ AtRecordEnd' = AtRecordEnd /\ At(1)' = At(1)
  BY <1>1 DEF Fresh, AtExecute, AtRecordAttempt, AtBranch, AtNotify,
     AtRecordNotification, AtRecordEnd, At, IsSSH, Ledger!LegalAttempt, Ledger!LegalNote, Ledger!Here, Ledger!Branches
<1> QED BY <1>2 DEF Control

LEMMA RecordStartInv == Inv /\ RecordStart => Inv'
<1> SUFFICES ASSUME Inv, RecordStart PROVE Inv'
  OBVIOUS
<1> USE DEF RecordStart, RecordExecutionStart, Log
<1>1. RunTypeOK'
  BY DEF Inv, RunTypeOK, inputVars, walkVars, stepVars, noteVars, worldVars, storeVars, logVars, WritePoint
<1>2. Point = "record_start" /\ Point' = "dispatch" /\ event'.event \in EventKinds
  BY AfterKinds DEF Point, WritePoint, ExecutionStartEvent, EventKinds
<1>3. Fresh
  BY <1>2 DEF Inv, Control
<1>4. At(1)' /\ notifications' = <<>>
  BY <1>3 DEF Fresh, At, Ledger!Position, inputVars, walkVars, stepVars, noteVars, worldVars, storeVars, logVars
<1>5. Control'
  BY <1>2, <1>4 DEF Control, inputVars
<1> QED BY <1>1, <1>5 DEF Inv

LEMMA WriteTextInv == Inv /\ WriteText => Inv'
<1> SUFFICES ASSUME Inv, WriteText PROVE Inv'
  OBVIOUS
<1> USE DEF WriteText
<1>1. RunTypeOK'
  BY DEF Inv, RunTypeOK, inputVars, walkVars, stepVars, noteVars, worldVars, storeVars, logVars, WritePoint
<1>2. Point' = Point /\ event.event \in EventKinds
  BY DEF Inv, Control, Point, WritePoint
<1>3. Control'
  BY <1>2, ControlFrame DEF Inv, inputVars, walkVars, stepVars, noteVars, worldVars, storeVars, logVars
<1> QED BY <1>1, <1>3 DEF Inv

LEMMA WriteJsonlInv == Inv /\ WriteJsonl => Inv'
<1> SUFFICES ASSUME Inv, WriteJsonl PROVE Inv'
  OBVIOUS
<1> USE DEF WriteJsonl
<1>1. event.event \in EventKinds
  BY DEF Inv, Control, WritePoint
<1>2. After(event) \in {"dispatch", "branch", "notify", "record_end", "returned"}
  BY <1>1, AfterKinds DEF EventKinds
<1>3. RunTypeOK'
  BY <1>2 DEF Inv, RunTypeOK, inputVars, walkVars, stepVars, noteVars, worldVars, storeVars, logVars, Stopped, StorePoint
<1>4. Point' = Point /\ pc' \notin WritePoint
  BY <1>2 DEF Point, WritePoint
<1>5. Control'
  BY <1>4, ControlFrame DEF Inv, inputVars, walkVars, stepVars, noteVars, worldVars, storeVars, logVars
<1> QED BY <1>3, <1>5 DEF Inv

(* What is known when a step is entered.                                   *)
LEMMA DispatchFacts ==
  ASSUME Inv, EnterStep
  PROVE  /\ Point = "dispatch" /\ At(1) /\ notifications = <<>>
         /\ execution = [status |-> "running", dryRun |-> dry]
         /\ cur \in DOMAIN rb.steps /\ Compiled(rb) /\ cur \in StepIds
         /\ path' \in Seq(DOMAIN rb.steps)
<1>1. Point = "dispatch" /\ Control /\ RunTypeOK /\ path' = Append(path, cur)
  BY DEF EnterStep, Point, WritePoint, Inv
<1>2. At(1) /\ notifications = <<>> /\ execution = [status |-> "running", dryRun |-> dry]
  BY <1>1 DEF Control
<1>3. cur \in DOMAIN rb.steps /\ Compiled(rb) /\ path \in Seq(DOMAIN rb.steps)
  BY <1>1 DEF RunTypeOK
<1> QED BY <1>1, <1>2, <1>3, StepTypes

LEMMA DispatchDryRunInv == Inv /\ DispatchDryRun => Inv'
<1> SUFFICES ASSUME Inv, DispatchDryRun PROVE Inv'
  OBVIOUS
<1> USE DEF DispatchDryRun
<1>1. /\ At(1) /\ notifications = <<>> /\ cur \in DOMAIN rb.steps /\ Compiled(rb)
      /\ execution = [status |-> "running", dryRun |-> dry] /\ cur \in StepIds
      /\ path' \in Seq(DOMAIN rb.steps)
  BY DispatchFacts
<1>2. Step \in SSHStep /\ TotalAttempts(Step) \in 1..11
  BY <1>1, SSHStepFacts DEF Step
<1>3. row' \in RowSet
  BY <1>1, DataAssumption DEF RowSet, Branch, Inv, RunTypeOK, Clock
<1>n. /\ DOMAIN branchMap' \subseteq DOMAIN rb.steps
      /\ \A s \in DOMAIN branchMap' : branchMap'[s] \in (DOMAIN rb.steps) \X (DOMAIN rb.steps)
  <2>1. Step.onSuccess \in DOMAIN rb.steps /\ Step.onFailure \in DOMAIN rb.steps
    BY <1>1, SSHStepFacts DEF Step
  <2> QED BY <1>1, <2>1 DEF Inv, RunTypeOK
<1>k. rb' = rb
  BY DEF inputVars
<1>m. /\ DOMAIN branchMap' \subseteq DOMAIN rb'.steps
      /\ \A s \in DOMAIN branchMap' : branchMap'[s] \in (DOMAIN rb'.steps) \X (DOMAIN rb'.steps)
  BY <1>n, <1>k, Zenon
<1>4. RunTypeOK'
  <2> HIDE DEF DispatchDryRun
  <2>1. UNCHANGED <<inputVars, noteVars, worldVars, storeVars, logVars, cur, reason,
                    final, attempt, event, now>> /\ pc' = "record_attempt"
        /\ attempts' = attempts + 1
    BY DEF DispatchDryRun
  <2> QED BY <1>1, <1>3, <1>m, <2>1 DEF Inv, RunTypeOK, inputVars, noteVars, worldVars, storeVars, StorePoint
<1>5. Point' = "record_attempt" /\ pc' \notin WritePoint
  BY DEF Point, WritePoint
<1>6. Ledger!Position' = Ledger!Position /\ Step' = Step
  BY DEF Ledger!Position, Step, inputVars, walkVars, stepVars, noteVars, worldVars, storeVars, logVars
<1>7. row' \in Ledger!AttemptRow /\ row'.step = cur /\ row'.attempt = 1
      /\ row'.branch = "simulated" /\ row'.exit = NoExit
  BY <1>3 DEF RowSet, Branch, Ledger!AttemptRow
<1>8. Ledger!Here' = Step /\ Ledger!Position'.step = cur /\ Ledger!Position'.attempt = 1
  BY <1>1, <1>6 DEF Ledger!Here, At, Step, inputVars, walkVars, stepVars, noteVars, worldVars, storeVars, logVars
<1>a. 1 <= TotalAttempts(Step) /\ dry' = dry /\ dry
  BY <1>2 DEF inputVars, walkVars, stepVars, noteVars, worldVars, storeVars, logVars
<1>b. Ledger!LegalAttempt(row)'
  BY <1>7, <1>8, <1>a DEF Ledger!LegalAttempt, Ledger!Branches,
     Ledger!TotalAttempts, TotalAttempts
<1>9. AtRecordAttempt'
  BY <1>2, <1>3, <1>6, <1>7, <1>b DEF AtRecordAttempt, IsSSH, inputVars, walkVars, stepVars, noteVars, worldVars, storeVars, logVars
<1>10. Control'
  BY <1>1, <1>5, <1>9 DEF Control, inputVars, walkVars, stepVars, noteVars, worldVars, storeVars, logVars
<1> QED BY <1>4, <1>10 DEF Inv

LEMMA DispatchSSHInv == Inv /\ DispatchSSH => Inv'
<1> SUFFICES ASSUME Inv, DispatchSSH PROVE Inv'
  OBVIOUS
<1> USE DEF DispatchSSH
<1>1. /\ At(1) /\ notifications = <<>> /\ cur \in DOMAIN rb.steps /\ Compiled(rb)
      /\ execution = [status |-> "running", dryRun |-> dry]
      /\ path' \in Seq(DOMAIN rb.steps)
  BY DispatchFacts
<1>2. Step \in SSHStep /\ TotalAttempts(Step) \in 1..11
  BY <1>1, SSHStepFacts DEF Step
<1>3. RunTypeOK'
  BY <1>1 DEF Inv, RunTypeOK, inputVars, walkVars, stepVars, noteVars, worldVars, storeVars, logVars
<1>4. Point' = "execute" /\ pc' \notin WritePoint
  BY DEF Point, WritePoint
<1>5. AtExecute'
  BY <1>1, <1>2 DEF AtExecute, At, IsSSH, Step, Ledger!Position, inputVars, walkVars, stepVars, noteVars, worldVars, storeVars, logVars
<1>6. Control'
  BY <1>1, <1>4, <1>5 DEF Control, inputVars, walkVars, stepVars, noteVars, worldVars, storeVars, logVars
<1> QED BY <1>3, <1>6 DEF Inv

LEMMA DispatchEscalateInv == Inv /\ DispatchEscalate => Inv'
<1> SUFFICES ASSUME Inv, DispatchEscalate PROVE Inv'
  OBVIOUS
<1> USE DEF DispatchEscalate
<1>1. /\ At(1) /\ notifications = <<>>
      /\ execution = [status |-> "running", dryRun |-> dry]
      /\ path' \in Seq(DOMAIN rb.steps)
  BY DispatchFacts
<1>2. RunTypeOK'
  BY <1>1, NotifiersAssumption DEF Inv, RunTypeOK, inputVars, walkVars, stepVars, noteVars, worldVars, storeVars, logVars, StorePoint
<1>3. pc' \notin WritePoint /\ Point' = IF dry THEN "record_end" ELSE "notify"
  BY DEF Point, WritePoint
<1>4. Ledger!Position' = Ledger!Position /\ Step' = Step
  BY DEF Ledger!Position, Step, inputVars, walkVars, stepVars, noteVars, worldVars, storeVars, logVars
<1>5. dry => AtRecordEnd'
  BY <1>1, <1>4 DEF AtRecordEnd, At, inputVars, walkVars, stepVars, noteVars, worldVars, storeVars, logVars
<1>6. ~dry => AtNotify'
  BY <1>1, <1>4 DEF AtNotify, At, inputVars, walkVars, stepVars, noteVars, worldVars, storeVars, logVars
<1>7. Control'
  BY <1>1, <1>3, <1>5, <1>6 DEF Control, inputVars, walkVars, stepVars, noteVars, worldVars, storeVars, logVars
<1> QED BY <1>2, <1>7 DEF Inv

LEMMA DispatchEndInv == Inv /\ DispatchEnd => Inv'
<1> SUFFICES ASSUME Inv, DispatchEnd PROVE Inv'
  OBVIOUS
<1> USE DEF DispatchEnd
<1>1. /\ At(1) /\ notifications = <<>>
      /\ execution = [status |-> "running", dryRun |-> dry]
      /\ path' \in Seq(DOMAIN rb.steps)
  BY DispatchFacts
<1>2. RunTypeOK'
  BY <1>1 DEF Inv, RunTypeOK, inputVars, walkVars, stepVars, noteVars, worldVars, storeVars, logVars, StorePoint
<1>3. pc' \notin WritePoint /\ Point' = "record_end"
  BY DEF Point, WritePoint
<1>4. Ledger!Position' = Ledger!Position /\ Step' = Step
  BY DEF Ledger!Position, Step, inputVars, walkVars, stepVars, noteVars, worldVars, storeVars, logVars
<1>5. AtRecordEnd'
  BY <1>1, <1>4 DEF AtRecordEnd, At, inputVars, walkVars, stepVars, noteVars, worldVars, storeVars, logVars
<1>6. Control'
  BY <1>1, <1>3, <1>5 DEF Control, inputVars, walkVars, stepVars, noteVars, worldVars, storeVars, logVars
<1> QED BY <1>2, <1>6 DEF Inv

(* What an executor returns, and what is made of it.                       *)
LEMMA ResultFields ==
  ASSUME NEW result \in ExecutionResult
  PROVE  result.exit \in Codes \union {NoExit} /\ result.error \in Texts
<1>1. CASE result \in CommandResult
  BY <1>1 DEF CommandResult
<1>2. CASE result \in TransportFailure
  BY <1>2, DataAssumption DEF TransportFailure
<1> QED BY <1>1, <1>2 DEF ExecutionResult

LEMMA ExecuteInv == Inv /\ (\E result \in ExecutionResult : Execute(result)) => Inv'
<1> SUFFICES ASSUME Inv, NEW result \in ExecutionResult, Execute(result) PROVE Inv'
  OBVIOUS
<1> DEFINE matches == MatchesExpectation(Step, result)
           branch == IF matches THEN "on_success"
                     ELSE IF attempt < TotalAttempts(Step) THEN "retry" ELSE "on_failure"
<1>1. /\ pc = "execute" /\ pc' = "record_attempt"
      /\ row' = [step |-> cur, attempt |-> attempt, startedAt |-> now.wall,
                 success |-> matches, exit |-> result.exit, branch |-> branch,
                 error |-> result.error]
      /\ calls' = Append(calls, Call)
      /\ UNCHANGED <<rb, dry, cur, attempt, execution, notifications, stepAttempts, now>>
  BY DEF Execute, BranchTaken, inputVars, walkVars, stepVars, noteVars, worldVars,
     storeVars, logVars
<1>2. matches \in BOOLEAN /\ (matches => result.exit = Step.exitCode)
  BY DEF MatchesExpectation
<1> HIDE DEF matches
<1>3. Point = "execute" /\ Point' = "record_attempt" /\ pc' \notin WritePoint
  BY <1>1 DEF Point, WritePoint
<1>4. /\ AtExecute /\ notifications = <<>>
      /\ execution = [status |-> "running", dryRun |-> dry]
  BY <1>3 DEF Inv, Control
<1>5. cur \in DOMAIN rb.steps /\ Compiled(rb) /\ now \in Clock /\ calls \in Seq(CallSet)
  BY DEF Inv, RunTypeOK
<1>6. Step \in SSHStep /\ TotalAttempts(Step) \in 1..11 /\ attempt \in 1..TotalAttempts(Step)
      /\ cur \in StepIds /\ ~dry
  BY <1>4, <1>5, SSHStepFields, StepTypes DEF AtExecute, IsSSH
<1>7. attempt \in 1..11 /\ attempt \in Nat
  BY <1>6
<1>8. row' \in RowSet
  BY <1>1, <1>2, <1>5, <1>6, <1>7, ResultFields DEF RowSet, Branch, Clock
<1>9. calls' \in Seq(CallSet)
  <2>1. Call \in CallSet
    BY <1>5, <1>6, <1>7 DEF Call, CallSet, Clock
  <2> QED BY <1>1, <1>5, <2>1
<1>10. RunTypeOK'
  BY <1>1, <1>8, <1>9 DEF Inv, RunTypeOK, Execute, inputVars, walkVars, stepVars, noteVars, worldVars, storeVars, logVars, StorePoint
<1>11. Ledger!Position' = Ledger!Position /\ Step' = Step
  BY <1>1 DEF Ledger!Position, Step
<1>12. row' \in Ledger!AttemptRow
  BY <1>8 DEF RowSet, Branch, Ledger!AttemptRow
<1>13. Ledger!Here' = Step /\ Ledger!Position'.step = cur /\ Ledger!Position'.attempt = attempt
  BY <1>1, <1>4, <1>11 DEF AtExecute, At, Ledger!Here, Step
<1>14. /\ row'.step = cur /\ row'.attempt = attempt /\ row'.success = matches
       /\ row'.exit = result.exit /\ row'.branch = branch
  BY <1>1
<1>15. attempt <= TotalAttempts(Step) /\ ~dry'
  BY <1>1, <1>6
<1>16. Ledger!LegalAttempt(row)'
  BY <1>2, <1>12, <1>13, <1>14, <1>15 DEF Ledger!LegalAttempt, Ledger!Branches,
     Ledger!TotalAttempts, TotalAttempts
<1>17. AtRecordAttempt'
  BY <1>1, <1>6, <1>8, <1>11, <1>14, <1>16 DEF AtRecordAttempt, IsSSH
<1>18. Control'
  BY <1>1, <1>3, <1>4, <1>17 DEF Control
<1> QED BY <1>10, <1>18 DEF Inv

LEMMA RecordAttemptInv == Inv /\ RecordAttempt => Inv'
<1> SUFFICES ASSUME Inv, RecordAttempt PROVE Inv'
  OBVIOUS
<1>1. /\ pc = "record_attempt" /\ pc' = "write_text"
      /\ event' = StepAttemptEvent(row)
      /\ stepAttempts' = Append(stepAttempts, row)
      /\ UNCHANGED <<rb, dry, cur, attempt, row, execution, notifications>>
  BY DEF RecordAttempt, RecordStepAttempt, Log, inputVars, walkVars, stepVars, noteVars, worldVars, storeVars, logVars
<1>2. event'.event = "step_attempt"
  BY <1>1 DEF StepAttemptEvent
<1>3. Point = "record_attempt" /\ Point' = "branch"
  BY <1>1, <1>2, AfterKinds DEF Point, WritePoint
<1>4. /\ AtRecordAttempt /\ notifications = <<>>
      /\ execution = [status |-> "running", dryRun |-> dry]
  BY <1>3 DEF Inv, Control
<1>5. row \in RowSet /\ stepAttempts \in Seq(RowSet)
  BY <1>4 DEF AtRecordAttempt, Inv, RunTypeOK
<1>6. /\ stepAttempts' \in Seq(RowSet) /\ stepAttempts' # <<>>
      /\ stepAttempts'[Len(stepAttempts')] = row
  BY <1>1, <1>5
<1>7. RunTypeOK'
  BY <1>6 DEF Inv, RunTypeOK, RecordAttempt, RecordStepAttempt, Log, inputVars, walkVars, stepVars, noteVars, worldVars, storeVars, logVars, WritePoint
<1>8. Step' = Step
  BY <1>1 DEF Step
<1>9. dry <=> row.branch = "simulated"
  BY <1>4 DEF AtRecordAttempt, Ledger!LegalAttempt, Ledger!Branches, Inv, RunTypeOK
<1>10. row.branch = "retry" => row.attempt < TotalAttempts(Step) /\ ~dry
  BY <1>4 DEF AtRecordAttempt, Ledger!LegalAttempt, Ledger!Branches, Ledger!Here, Step,
     Ledger!TotalAttempts, TotalAttempts
<1>a. row.attempt <= TotalAttempts(Step)
  BY <1>4 DEF AtRecordAttempt, Ledger!LegalAttempt, Ledger!Here, Step,
     Ledger!TotalAttempts, TotalAttempts
<1>11. AtBranch'
  BY <1>1, <1>4, <1>6, <1>8, <1>9, <1>10, <1>a DEF AtBranch, AtRecordAttempt, IsSSH
<1>12. Control'
  BY <1>1, <1>2, <1>3, <1>4, <1>11 DEF Control, EventKinds
<1> QED BY <1>7, <1>12 DEF Inv

(* What is known when a branch is about to be taken.                       *)
LEMMA BranchFacts ==
  ASSUME Inv, pc = "branch"
  PROVE  /\ Point = "branch" /\ AtBranch /\ notifications = <<>>
         /\ execution = [status |-> "running", dryRun |-> dry]
         /\ stepAttempts # <<>> /\ stepAttempts[Len(stepAttempts)] = row
         /\ row.step = cur /\ row \in RowSet /\ row.error \in Texts
         /\ Step.onSuccess \in DOMAIN rb.steps /\ Step.onFailure \in DOMAIN rb.steps
         /\ Step.retryDelay \in Nat /\ TotalAttempts(Step) \in 1..11
<1>1. Point = "branch" /\ Control /\ RunTypeOK
  BY DEF Inv, Point, WritePoint
<1>2. AtBranch /\ notifications = <<>> /\ execution = [status |-> "running", dryRun |-> dry]
  BY <1>1 DEF Control
<1>3. Step.type = "ssh"
  BY <1>2, SSHStepFields DEF AtBranch, IsSSH
<1>4. /\ Step.onSuccess \in DOMAIN rb.steps /\ Step.onFailure \in DOMAIN rb.steps
      /\ Step.retryDelay \in Nat /\ TotalAttempts(Step) \in 1..11
  BY <1>1, <1>3, SSHStepFacts DEF RunTypeOK, Step
<1>5. row.error \in Texts
  BY <1>2 DEF AtBranch, RowSet
<1> QED BY <1>1, <1>2, <1>4, <1>5 DEF AtBranch

(* The next step has been chosen as the ledger says.                       *)
LEMMA FollowInv ==
  ASSUME Inv, pc = "branch", pc' = "dispatch", RunTypeOK',
         row.branch # "retry",
         cur' = IF row.branch = "on_failure" THEN Step.onFailure ELSE Step.onSuccess,
         UNCHANGED <<rb, dry, execution, stepAttempts, notifications>>
  PROVE  Inv'
<1>1. Point' = "dispatch" /\ pc' \notin WritePoint
  BY DEF Point, WritePoint
<1>2. At(1)'
  BY BranchFacts DEF At, Ledger!Position, Step
<1>3. Control'
  BY <1>1, <1>2, BranchFacts DEF Control
<1> QED BY <1>3 DEF Inv

LEMMA FollowSimulatedInv == Inv /\ FollowSimulated => Inv'
<1> SUFFICES ASSUME Inv, FollowSimulated PROVE Inv'
  OBVIOUS
<1>1. RunTypeOK'
  BY BranchFacts DEF Inv, RunTypeOK, FollowSimulated, inputVars, walkVars, stepVars, noteVars, worldVars, storeVars, logVars
<1> QED BY <1>1, FollowInv DEF FollowSimulated, inputVars, walkVars, stepVars, noteVars, worldVars, storeVars, logVars

LEMMA FollowSuccessInv == Inv /\ FollowSuccess => Inv'
<1> SUFFICES ASSUME Inv, FollowSuccess PROVE Inv'
  OBVIOUS
<1>1. attempts' \in Nat
  BY DEF Inv, RunTypeOK, FollowSuccess
<1>2. RunTypeOK'
  BY <1>1, BranchFacts DEF Inv, RunTypeOK, FollowSuccess, inputVars, walkVars, stepVars, noteVars, worldVars, storeVars, logVars
<1> QED BY <1>2, FollowInv DEF FollowSuccess, inputVars, walkVars, stepVars, noteVars, worldVars, storeVars, logVars

LEMMA FollowFailureInv == Inv /\ FollowFailure => Inv'
<1> SUFFICES ASSUME Inv, FollowFailure PROVE Inv'
  OBVIOUS
<1>1. attempts' \in Nat
  BY DEF Inv, RunTypeOK, FollowFailure
<1>2. reason' \in Reason
  BY BranchFacts DEF FollowFailure, Reason
<1>3. RunTypeOK'
  BY <1>1, <1>2, BranchFacts DEF Inv, RunTypeOK, FollowFailure, inputVars, walkVars, stepVars, noteVars, worldVars, storeVars, logVars
<1> QED BY <1>3, FollowInv DEF FollowFailure, inputVars, walkVars, stepVars, noteVars, worldVars, storeVars, logVars

LEMMA RetryInv == Inv /\ Retry => Inv'
<1> SUFFICES ASSUME Inv, Retry PROVE Inv'
  OBVIOUS
<1>1. /\ pc = "branch" /\ pc' = "execute" /\ row.branch = "retry"
      /\ attempt' = attempt + 1
      /\ now' = [elapsed |-> now.elapsed + Step.retryDelay, wall |-> now.wall + Step.retryDelay]
      /\ UNCHANGED <<rb, dry, cur, execution, stepAttempts, notifications>>
  BY DEF Retry, inputVars, walkVars, stepVars, noteVars, worldVars, storeVars, logVars
<1>2. AtBranch /\ TotalAttempts(Step) \in 1..11 /\ attempt \in 0..11 /\ now \in Clock
      /\ Step.retryDelay \in Nat /\ dry \in BOOLEAN
  BY <1>1, BranchFacts DEF Inv, RunTypeOK
<1>3. ~dry /\ attempt < TotalAttempts(Step) /\ row.attempt = attempt
  BY <1>1, <1>2 DEF AtBranch
<1>4. attempt' \in 1..TotalAttempts(Step) /\ attempt' \in 0..11 /\ now' \in Clock
  BY <1>1, <1>2, <1>3 DEF Clock
<1>5. RunTypeOK'
  BY <1>4 DEF Inv, RunTypeOK, Retry, inputVars, walkVars, stepVars, noteVars, worldVars, storeVars, logVars
<1>6. Point' = "execute" /\ pc' \notin WritePoint /\ Step' = Step
  BY <1>1 DEF Point, WritePoint, Step
<1>7. Ledger!Position'.step = cur /\ Ledger!Position'.attempt = attempt'
  BY <1>1, <1>3, BranchFacts DEF Ledger!Position
<1>8. AtExecute'
  BY <1>1, <1>2, <1>3, <1>4, <1>6, <1>7 DEF AtExecute, AtBranch, At, IsSSH
<1>9. Control'
  BY <1>1, <1>6, <1>8, BranchFacts DEF Control
<1> QED BY <1>5, <1>9 DEF Inv

(* What is known when notifiers are called.                                *)
LEMMA NotifyFacts ==
  ASSUME Inv, pc = "notify"
  PROVE  /\ Point = "notify" /\ AtNotify /\ cur \in StepIds
         /\ execution = [status |-> "running", dryRun |-> dry]
         /\ next \in 1..Len(Notifiers) + 1
<1>1. Point = "notify" /\ Control /\ RunTypeOK
  BY DEF Inv, Point, WritePoint
<1>2. AtNotify /\ execution = [status |-> "running", dryRun |-> dry]
  BY <1>1 DEF Control
<1>3. cur \in StepIds
  BY <1>1, StepTypes DEF RunTypeOK
<1> QED BY <1>1, <1>2, <1>3 DEF RunTypeOK

LEMMA SendNotifierInv == Inv /\ (\E outcome \in SendOutcome : SendNotifier(outcome)) => Inv'
<1> SUFFICES ASSUME Inv, NEW outcome \in SendOutcome, SendNotifier(outcome) PROVE Inv'
  OBVIOUS
<1>1. /\ pc = "notify" /\ pc' = "record_notification" /\ next <= Len(Notifiers)
      /\ next' = next + 1
      /\ note' = [step |-> cur, notifier |-> Notifiers[next],
                  status |-> IF outcome = "delivered" THEN "sent" ELSE "failed"]
      /\ UNCHANGED <<rb, dry, cur, final, execution, stepAttempts, notifications>>
  BY DEF SendNotifier, NoteStatus, inputVars, walkVars, stepVars, noteVars, worldVars, storeVars, logVars
<1>2. /\ AtNotify /\ cur \in StepIds /\ next \in 1..Len(Notifiers) + 1
      /\ execution = [status |-> "running", dryRun |-> dry]
  BY <1>1, NotifyFacts
<1>3. Len(Notifiers) \in Nat
  BY NotifiersAssumption
<1>4. next \in 1..Len(Notifiers) /\ next' \in 1..Len(Notifiers) + 1 /\ next' - 2 = next - 1
  BY <1>1, <1>2, <1>3
<1>5. Notifiers[next] \in NotifierSet
  BY <1>4 DEF NotifierSet
<1>6. note' \in Note
  BY <1>1, <1>2, <1>5 DEF Note
<1>7. RunTypeOK'
  BY <1>1, <1>4, <1>6 DEF Inv, RunTypeOK, SendNotifier, inputVars, walkVars, stepVars, noteVars, worldVars, storeVars, logVars, StorePoint
<1>8. Point' = "record_notification" /\ pc' \notin WritePoint
  BY <1>1 DEF Point, WritePoint
<1>9. Ledger!Position' = Ledger!Position /\ Step' = Step
  BY <1>1 DEF Ledger!Position, Step
<1>10. Len(notifications) = next - 1 /\ Len(notifications) + 1 = next
  BY <1>2, <1>4 DEF AtNotify
<1>11. Ledger!LegalNote(note)'
  BY <1>1, <1>2, <1>9, <1>10 DEF Ledger!LegalNote, AtNotify
<1>12. AtRecordNotification'
  BY <1>1, <1>2, <1>4, <1>6, <1>9, <1>10, <1>11 DEF AtRecordNotification, AtNotify
<1>13. Control'
  BY <1>1, <1>2, <1>8, <1>12 DEF Control
<1> QED BY <1>7, <1>13 DEF Inv

LEMMA RecordNotificationInv == Inv /\ RecordNotificationResult => Inv'
<1> SUFFICES ASSUME Inv, RecordNotificationResult PROVE Inv'
  OBVIOUS
<1> DEFINE new == [step |-> note.step, notifier |-> note.notifier,
                   status |-> note.status, sentAt |-> now.wall]
<1>1. /\ pc = "record_notification" /\ pc' = "write_text"
      /\ event' = NotificationEvent(note)
      /\ notifications' = Append(notifications, new)
      /\ UNCHANGED <<rb, dry, cur, next, final, execution, stepAttempts>>
  BY DEF RecordNotificationResult, RecordNotification, Log, inputVars, walkVars, stepVars, noteVars, worldVars, storeVars, logVars
<1>2. event'.event = "notification"
  BY <1>1 DEF NotificationEvent
<1>3. Point = "record_notification" /\ Point' = "notify"
  BY <1>1, <1>2, AfterKinds DEF Point, WritePoint
<1>4. /\ AtRecordNotification /\ execution = [status |-> "running", dryRun |-> dry]
      /\ notifications \in Seq(NoteRow) /\ now \in Clock /\ next \in 1..Len(Notifiers) + 1
  BY <1>3 DEF Inv, Control, RunTypeOK
<1>5. new \in NoteRow
  BY <1>4 DEF AtRecordNotification, Note, NoteRow, Clock
<1>6. Len(notifications) = next - 2
  BY <1>4 DEF AtRecordNotification
<1> HIDE DEF new
<1>7. /\ notifications' \in Seq(NoteRow)
      /\ Len(notifications') = Len(notifications) + 1
  BY <1>1, <1>4, <1>5
<1>8. Len(notifications') = next - 1
  BY <1>4, <1>6, <1>7
<1>9. RunTypeOK'
  BY <1>7 DEF Inv, RunTypeOK, RecordNotificationResult, RecordNotification, Log, inputVars, walkVars, stepVars, noteVars, worldVars, storeVars, logVars,
     WritePoint
<1>10. Ledger!Position' = Ledger!Position /\ Step' = Step
  BY <1>1 DEF Ledger!Position, Step
<1>11. AtNotify'
  BY <1>1, <1>4, <1>8, <1>10 DEF AtNotify, AtRecordNotification
<1>12. Control'
  BY <1>1, <1>2, <1>3, <1>4, <1>11 DEF Control, EventKinds
<1> QED BY <1>9, <1>12 DEF Inv

LEMMA FinishEscalationInv == Inv /\ FinishEscalation => Inv'
<1> SUFFICES ASSUME Inv, FinishEscalation PROVE Inv'
  OBVIOUS
<1>1. /\ pc = "notify" /\ pc' = "write_text" /\ next > Len(Notifiers)
      /\ event' = EscalationEvent(cur, reason)
      /\ UNCHANGED <<rb, dry, cur, next, final, execution, stepAttempts, notifications>>
  BY DEF FinishEscalation, Log, inputVars, walkVars, stepVars, noteVars, worldVars, storeVars, logVars
<1>2. event'.event = "escalation"
  BY <1>1 DEF EscalationEvent
<1>3. Point' = "record_end"
  BY <1>1, <1>2, AfterKinds DEF Point, WritePoint
<1>4. /\ AtNotify /\ next \in 1..Len(Notifiers) + 1
      /\ execution = [status |-> "running", dryRun |-> dry]
  BY <1>1, NotifyFacts
<1>5. RunTypeOK'
  BY DEF Inv, RunTypeOK, FinishEscalation, Log, inputVars, walkVars, stepVars, noteVars, worldVars, storeVars, logVars, WritePoint
<1>6. Ledger!Position' = Ledger!Position /\ Step' = Step
  BY <1>1 DEF Ledger!Position, Step
<1>7. Len(Notifiers) \in Nat
  BY NotifiersAssumption
<1>8. Len(notifications) = Len(Notifiers)
  BY <1>1, <1>4, <1>7 DEF AtNotify
<1>9. AtRecordEnd'
  BY <1>1, <1>4, <1>6, <1>8 DEF AtRecordEnd, AtNotify
<1>10. Control'
  BY <1>1, <1>2, <1>3, <1>4, <1>9 DEF Control, EventKinds
<1> QED BY <1>5, <1>10 DEF Inv

LEMMA RecordEndInv == Inv /\ RecordEnd => Inv'
<1> SUFFICES ASSUME Inv, RecordEnd PROVE Inv'
  OBVIOUS
<1>1. /\ pc = "record_end" /\ pc' = "write_text" /\ event' = ExecutionEndEvent(final)
      /\ execution' = [execution EXCEPT !.status = final]
  BY DEF RecordEnd, RecordExecutionEnd, Log
<1>2. event'.event = "execution_end"
  BY <1>1 DEF ExecutionEndEvent
<1>3. Point = "record_end" /\ Point' = "returned"
  BY <1>1, <1>2, AfterKinds DEF Point, WritePoint
<1>4. AtRecordEnd /\ execution = [status |-> "running", dryRun |-> dry] /\ dry \in BOOLEAN
  BY <1>3 DEF Inv, Control, RunTypeOK
<1>5. execution'.status \in FinalStatus /\ execution'.dryRun \in BOOLEAN
  BY <1>1, <1>4 DEF AtRecordEnd, FinalStatus
<1>6. RunTypeOK'
  BY <1>5 DEF Inv, RunTypeOK, RecordEnd, RecordExecutionEnd, Log, inputVars, walkVars, stepVars, noteVars, worldVars, storeVars, logVars, WritePoint
<1>7. Control'
  BY <1>2, <1>3 DEF Control, EventKinds
<1> QED BY <1>6, <1>7 DEF Inv

(* A run that stopped has no point to know anything at.                    *)
LEMMA FaultInv == Inv /\ Fault => Inv'
<1> SUFFICES ASSUME Inv, Fault PROVE Inv'
  OBVIOUS
<1>1. CASE WriteFails \/ Crash
  <2>1. pc' \in {"raised", "crashed"}
    BY <1>1 DEF WriteFails, Crash
  <2>2. RunTypeOK'
    BY <1>1 DEF Inv, RunTypeOK, WriteFails, Crash, inputVars, walkVars, stepVars, noteVars, worldVars, storeVars, logVars, Stopped
  <2>3. Control'
    BY <2>1 DEF Control, Point, WritePoint
  <2> QED BY <2>2, <2>3 DEF Inv
<1>2. CASE ExecutorRaises
  <2>1. pc' = "raised" /\ Point = "execute"
    BY <1>2 DEF ExecutorRaises, Point, WritePoint
  <2>2. AtExecute /\ Compiled(rb) /\ cur \in DOMAIN rb.steps
    BY <2>1 DEF Inv, Control, RunTypeOK
  <2>3. cur \in StepIds /\ TotalAttempts(Step) \in 1..11 /\ attempt \in 1..TotalAttempts(Step)
    BY <2>2, StepTypes, SSHStepFields DEF AtExecute, IsSSH
  <2>4. Call \in CallSet
    BY <2>3 DEF Call, CallSet, Clock, Inv, RunTypeOK
  <2>5. calls' \in Seq(CallSet)
    BY <1>2, <2>4 DEF Inv, RunTypeOK, ExecutorRaises
  <2>6. RunTypeOK'
    BY <1>2, <2>5 DEF Inv, RunTypeOK, ExecutorRaises, inputVars, walkVars, stepVars, noteVars, worldVars, storeVars, logVars, Stopped
  <2>7. Control'
    BY <2>1 DEF Control, Point, WritePoint
  <2> QED BY <2>6, <2>7 DEF Inv
<1> QED BY <1>1, <1>2 DEF Fault

LEMMA TickInv == Inv /\ Tick => Inv'
<1> SUFFICES ASSUME Inv, Tick PROVE Inv'
  OBVIOUS
<1>1. RunTypeOK'
  BY NotifiersAssumption DEF Inv, RunTypeOK, Clock, Tick, inputVars, walkVars, stepVars, noteVars, worldVars, storeVars, logVars
<1>2. Point' = Point /\ pc' \notin WritePoint
  BY DEF Tick, Point, WritePoint
<1>3. Control'
  BY <1>2, ControlFrame DEF Inv, Tick, inputVars, walkVars, stepVars, noteVars, worldVars, storeVars, logVars
<1> QED BY <1>1, <1>3 DEF Inv

(* The invariant is inductive.                                             *)
LEMMA NextInv == Inv /\ [Next]_vars => Inv'
<1> SUFFICES ASSUME Inv, [Next]_vars PROVE Inv'
  OBVIOUS
<1>1. CASE RunStep
  BY <1>1, RecordStartInv, WriteTextInv, WriteJsonlInv, DispatchDryRunInv,
     DispatchSSHInv, DispatchEscalateInv, DispatchEndInv, ExecuteInv,
     RecordAttemptInv, FollowSimulatedInv, FollowSuccessInv, RetryInv,
     FollowFailureInv, SendNotifierInv, RecordNotificationInv,
     FinishEscalationInv, RecordEndInv DEF RunStep, OwnStep
<1>2. CASE Fault
  BY <1>2, FaultInv
<1>3. CASE Tick
  BY <1>3, TickInv
<1>4. CASE UNCHANGED vars
  <2>1. RunTypeOK'
    BY <1>4 DEF Inv, RunTypeOK, vars
  <2>2. Point' = Point /\ (pc' \in WritePoint => event.event \in EventKinds)
    BY <1>4 DEF Inv, Control, Point, vars
  <2>3. Control'
    BY <1>4, <2>2, ControlFrame DEF Inv, vars
  <2> QED BY <2>1, <2>3 DEF Inv
<1> QED BY <1>1, <1>2, <1>3, <1>4 DEF Next, Terminated

(* At every point of every run the locals, the rows and the event under    *)
(* way are those the point calls for (engine.py:67-205).                   *)
THEOREM PointsAndRecordsAgree == Spec => []Inv
BY InitInv, NextInv, PTL DEF Spec

----------------------------------------------------------------------------
(* Refinement: the rows the engine writes are those the ledger allows.     *)

LEMMA RecordStartLedger == Inv /\ RecordStart => Ledger!Begin
<1> SUFFICES ASSUME Inv, RecordStart PROVE Ledger!Begin
  OBVIOUS
<1>1. Point = "record_start"
  BY DEF RecordStart, Point, WritePoint
<1>2. execution.status = "absent"
  BY <1>1 DEF Inv, Control, Fresh, NoExecution
<1> QED BY <1>2 DEF RecordStart, RecordExecutionStart, Ledger!Begin, inputVars

LEMMA RecordAttemptLedger == Inv /\ RecordAttempt => Ledger!RecordAttempt
<1> SUFFICES ASSUME Inv, RecordAttempt PROVE Ledger!RecordAttempt
  OBVIOUS
<1>1. /\ pc = "record_attempt" /\ stepAttempts' = Append(stepAttempts, row)
      /\ UNCHANGED <<rb, dry, execution, notifications>>
  BY DEF RecordAttempt, RecordStepAttempt, inputVars
<1>2. Point = "record_attempt"
  BY <1>1 DEF Point, WritePoint
<1>3. AtRecordAttempt /\ execution = [status |-> "running", dryRun |-> dry]
  BY <1>2 DEF Inv, Control
<1>4. stepAttempts \in Seq(RowSet)
  BY DEF Inv, RunTypeOK
<1>5. /\ Len(stepAttempts') = Len(stepAttempts) + 1
      /\ stepAttempts'[Len(stepAttempts')] = row
  BY <1>1, <1>3, <1>4 DEF AtRecordAttempt
<1>6. Ledger!Here.type = "ssh"
  BY <1>3, SSHStepFields DEF AtRecordAttempt, IsSSH, Step, Ledger!Here, Ledger!LegalAttempt
<1>7. Ledger!LegalAttempt(stepAttempts'[Len(stepAttempts')])
  BY <1>3, <1>5 DEF AtRecordAttempt
<1> QED BY <1>1, <1>3, <1>5, <1>6, <1>7 DEF Ledger!RecordAttempt, Ledger!Latest

(* The row of a notification is the note that was legal, with its time.    *)
LEMMA RecordNotificationLedger ==
  Inv /\ RecordNotificationResult => Ledger!RecordNotification
<1> SUFFICES ASSUME Inv, RecordNotificationResult PROVE Ledger!RecordNotification
  OBVIOUS
<1> DEFINE new == [step |-> note.step, notifier |-> note.notifier,
                   status |-> note.status, sentAt |-> now.wall]
<1>1. /\ pc = "record_notification" /\ notifications' = Append(notifications, new)
      /\ UNCHANGED <<rb, dry, execution, stepAttempts>>
  BY DEF RecordNotificationResult, RecordNotification, inputVars
<1>2. Point = "record_notification"
  BY <1>1 DEF Point, WritePoint
<1>3. /\ AtRecordNotification /\ execution = [status |-> "running", dryRun |-> dry]
      /\ notifications \in Seq(NoteRow) /\ now \in Clock /\ next \in 1..Len(Notifiers) + 1
  BY <1>2 DEF Inv, Control, RunTypeOK
<1>4. new \in NoteRow
  BY <1>3 DEF AtRecordNotification, Note, NoteRow, Clock
<1>5. Len(notifications) < Len(Notifiers)
  BY <1>3, NotifiersAssumption DEF AtRecordNotification
<1>6. Ledger!Here.type = "escalate"
  BY <1>3 DEF AtRecordNotification, Ledger!Here, Step
<1>7. /\ new.step = note.step /\ new.notifier = note.notifier /\ new.status = note.status
  OBVIOUS
<1>8. Ledger!LegalNote(new)
  BY <1>3, <1>7 DEF AtRecordNotification, Ledger!LegalNote
<1> HIDE DEF new
<1>9. /\ Len(notifications') = Len(notifications) + 1
      /\ notifications'[Len(notifications')] = new
  BY <1>1, <1>3, <1>4
<1> QED BY <1>1, <1>3, <1>5, <1>6, <1>8, <1>9
        DEF Ledger!RecordNotification, Ledger!Latest, AtRecordNotification

LEMMA RecordEndLedger == Inv /\ RecordEnd => Ledger!Close
<1> SUFFICES ASSUME Inv, RecordEnd PROVE Ledger!Close
  OBVIOUS
<1>1. /\ pc = "record_end" /\ execution' = [execution EXCEPT !.status = final]
      /\ UNCHANGED <<rb, dry, stepAttempts, notifications>>
  BY DEF RecordEnd, RecordExecutionEnd, inputVars
<1>2. Point = "record_end"
  BY <1>1 DEF Point, WritePoint
<1>3. AtRecordEnd /\ execution = [status |-> "running", dryRun |-> dry]
  BY <1>2 DEF Inv, Control
<1>4. Ledger!Here = Step
  BY <1>3 DEF AtRecordEnd, Ledger!Here, Step
<1> QED BY <1>1, <1>3, <1>4 DEF AtRecordEnd, Ledger!Close

LEMMA LedgerStep == Inv /\ [Next]_vars => [Ledger!LedgerNext]_Ledger!ledgerVars
<1> SUFFICES ASSUME Inv, [Next]_vars PROVE Ledger!LedgerNext \/ UNCHANGED Ledger!ledgerVars
  OBVIOUS
<1>1. CASE RecordStart \/ RecordAttempt \/ RecordNotificationResult \/ RecordEnd
  BY <1>1, RecordStartLedger, RecordAttemptLedger, RecordNotificationLedger,
     RecordEndLedger DEF Ledger!LedgerNext
<1>2. CASE WriteText \/ WriteJsonl \/ FinishEscalation
  BY <1>2 DEF WriteText, WriteJsonl, FinishEscalation, Ledger!ledgerVars, inputVars, storeVars
<1>3. CASE DispatchDryRun \/ DispatchSSH \/ DispatchEscalate \/ DispatchEnd
  BY <1>3 DEF DispatchDryRun, DispatchSSH, DispatchEscalate, DispatchEnd,
     Ledger!ledgerVars, inputVars, storeVars
<1>4. CASE FollowSimulated \/ FollowSuccess \/ Retry \/ FollowFailure
  BY <1>4 DEF FollowSimulated, FollowSuccess, Retry, FollowFailure,
     Ledger!ledgerVars, inputVars, storeVars
<1>5. CASE \E result \in ExecutionResult : Execute(result)
  BY <1>5 DEF Execute, Ledger!ledgerVars, inputVars, storeVars
<1>6. CASE \E outcome \in SendOutcome : SendNotifier(outcome)
  BY <1>6 DEF SendNotifier, Ledger!ledgerVars, inputVars, storeVars
<1>7. CASE Fault \/ Tick
  BY <1>7 DEF Fault, WriteFails, ExecutorRaises, Crash, Tick,
     Ledger!ledgerVars, inputVars, storeVars
<1>8. CASE UNCHANGED vars
  BY <1>8 DEF vars, Ledger!ledgerVars
<1> QED BY <1>1, <1>2, <1>3, <1>4, <1>5, <1>6, <1>7, <1>8 DEF Next, RunStep, OwnStep, Terminated

(* Whatever crash or error stops a run, the database holds a legal prefix  *)
(* of one: the engine implements the ledger.                               *)
THEOREM EngineImplementsLedger == Spec => LedgerSpec
<1>1. Init => Ledger!LedgerInit
  BY DEF Init, StoreInit, NoExecution, Ledger!LedgerInit
<1> QED BY <1>1, InitInv, NextInv, LedgerStep, PTL DEF Spec, LedgerSpec, Ledger!LedgerSpec

----------------------------------------------------------------------------

(* The points of _run_ssh_step, between entering an ssh step and leaving it.*)
InLoop == {"execute", "record_attempt", "branch"}

----------------------------------------------------------------------------
(* The path.                                                               *)

IsWalk(r, p) == \A i \in 1..Len(p) - 1 : p[i + 1] \in Successors(r, p[i])

IsSimple(p) == \A i, j \in DOMAIN p : p[i] = p[j] => i = j

WalkInv ==
  /\ IsWalk(rb, path)
  /\ Point = "record_start" => path = <<>>
  /\ Point = "dispatch" /\ path # <<>> => cur \in Successors(rb, path[Len(path)])
  /\ Point \in InLoop => path # <<>> /\ path[Len(path)] = cur

(* In an acyclic runbook a walk never meets a step twice: the steps        *)
(* between two meetings would all have a branch back among themselves.     *)
LEMMA WalkIsSimple ==
  ASSUME NEW r, Compiled(r), NEW p \in Seq(DOMAIN r.steps), IsWalk(r, p)
  PROVE  IsSimple(p)
<1>1. ASSUME NEW i \in DOMAIN p, NEW j \in DOMAIN p, i < j, p[i] = p[j]
      PROVE  FALSE
  <2> DEFINE C == {p[k] : k \in i..j - 1}
  <2>1. i \in 1..Len(p) /\ j \in 1..Len(p) /\ Len(p) \in Nat
    OBVIOUS
  <2>2. C \in SUBSET DOMAIN r.steps
    BY <2>1
  <2>3. p[i] \in C
    BY <2>1, <1>1
  <2>4. PICK s \in C : Successors(r, s) \intersect C = {}
    BY <2>2, <2>3 DEF Compiled, Acyclic
  <2>5. PICK k \in i..j - 1 : s = p[k]
    OBVIOUS
  <2>6. p[k + 1] \in Successors(r, s)
    BY <2>1, <2>5 DEF IsWalk
  <2>7. CASE k + 1 <= j - 1
    <3>1. p[k + 1] \in C
      BY <2>1, <2>5, <2>7
    <3> QED BY <2>4, <2>6, <3>1
  <2>8. CASE k + 1 = j
    BY <1>1, <2>3, <2>4, <2>6, <2>8
  <2> QED BY <2>1, <2>5, <2>7, <2>8
<1>2. ASSUME NEW i \in DOMAIN p, NEW j \in DOMAIN p, p[i] = p[j]
      PROVE  i = j
  <2>1. i \in Int /\ j \in Int
    OBVIOUS
  <2> QED BY <1>1, <1>2, <2>1
<1> QED BY <1>2 DEF IsSimple

(* Entering a step that the last one branches to extends the walk.         *)
LEMMA EnterStepWalk ==
  ASSUME Inv, WalkInv, EnterStep, rb' = rb
  PROVE  IsWalk(rb, path)' /\ path' # <<>> /\ path'[Len(path')] = cur
<1>1. path \in Seq(DOMAIN rb.steps) /\ path' = Append(path, cur) /\ Point = "dispatch"
  BY DEF Inv, RunTypeOK, EnterStep, Point, WritePoint
<1>2. Len(path') = Len(path) + 1 /\ path' # <<>> /\ path'[Len(path')] = cur /\ Len(path) \in Nat
  BY <1>1
<1>3. ASSUME NEW i \in 1..Len(path') - 1
      PROVE  path'[i + 1] \in Successors(rb, path'[i])
  <2>1. CASE i = Len(path)
    <3>1. path # <<>> /\ path'[i] = path[Len(path)] /\ path'[i + 1] = cur
      BY <1>1, <1>2, <1>3, <2>1
    <3> QED BY <1>1, <3>1 DEF WalkInv
  <2>2. CASE i # Len(path)
    <3>1. i \in 1..Len(path) - 1 /\ path'[i] = path[i] /\ path'[i + 1] = path[i + 1]
      BY <1>1, <1>2, <1>3, <2>2
    <3> QED BY <3>1 DEF WalkInv, IsWalk
  <2> QED BY <2>1, <2>2
<1> QED BY <1>2, <1>3 DEF IsWalk

(* Where the run goes when it writes an event: nowhere.                    *)
LEMMA WritePoints == Inv /\ (WriteText \/ WriteJsonl) => Point' = Point
<1> SUFFICES ASSUME Inv, WriteText \/ WriteJsonl PROVE Point' = Point
  OBVIOUS
<1>1. event.event \in EventKinds
  BY DEF Inv, Control, WritePoint, WriteText, WriteJsonl
<1>2. After(event) \in {"dispatch", "branch", "notify", "record_end", "returned"}
  BY <1>1, AfterKinds DEF EventKinds
<1> QED BY <1>2 DEF WriteText, WriteJsonl, Point, WritePoint,
        inputVars, walkVars, stepVars, noteVars

(* The points a step leads from and to.                                    *)
LEMMA Points ==
  /\ RecordStart => Point = "record_start" /\ Point' = "dispatch"
  /\ EnterStep => Point = "dispatch"
  /\ DispatchDryRun => Point' = "record_attempt"
  /\ DispatchSSH => Point' = "execute"
  /\ DispatchEscalate \/ DispatchEnd => Point' \in {"notify", "record_end"}
  /\ RecordAttempt => Point = "record_attempt" /\ Point' = "branch"
  /\ FollowSimulated \/ FollowSuccess \/ FollowFailure => Point = "branch" /\ Point' = "dispatch"
  /\ Retry => Point = "branch" /\ Point' = "execute"
  /\ RecordNotificationResult => Point = "record_notification" /\ Point' = "notify"
  /\ FinishEscalation => Point = "notify" /\ Point' = "record_end"
  /\ RecordEnd => Point = "record_end" /\ Point' = "returned"
  /\ Fault => Point' \in {"raised", "crashed"}
  /\ Tick => Point' = Point
<1> USE AfterKinds DEF Point, WritePoint
<1>1. RecordStart => Point = "record_start" /\ Point' = "dispatch"
  BY DEF RecordStart, Log, ExecutionStartEvent
<1>2. /\ EnterStep => Point = "dispatch"
      /\ DispatchDryRun => Point' = "record_attempt"
      /\ DispatchSSH => Point' = "execute"
      /\ DispatchEscalate \/ DispatchEnd => Point' \in {"notify", "record_end"}
  BY DEF EnterStep, DispatchDryRun, DispatchSSH, DispatchEscalate, DispatchEnd
<1>3. RecordAttempt => Point = "record_attempt" /\ Point' = "branch"
  BY DEF RecordAttempt, Log, StepAttemptEvent
<1>4. /\ FollowSimulated \/ FollowSuccess \/ FollowFailure => Point = "branch" /\ Point' = "dispatch"
      /\ Retry => Point = "branch" /\ Point' = "execute"
  BY DEF FollowSimulated, FollowSuccess, FollowFailure, Retry
<1>5. RecordNotificationResult => Point = "record_notification" /\ Point' = "notify"
  BY DEF RecordNotificationResult, Log, NotificationEvent
<1>6. FinishEscalation => Point = "notify" /\ Point' = "record_end"
  BY DEF FinishEscalation, Log, EscalationEvent
<1>7. RecordEnd => Point = "record_end" /\ Point' = "returned"
  BY DEF RecordEnd, Log, ExecutionEndEvent
<1>8. Fault => Point' \in {"raised", "crashed"}
  BY DEF Fault, WriteFails, ExecutorRaises, Crash
<1>9. Tick => Point' = Point
  BY DEF Tick
<1> QED BY <1>1, <1>2, <1>3, <1>4, <1>5, <1>6, <1>7, <1>8, <1>9

LEMMA WalkNext == Inv /\ WalkInv /\ [Next]_vars => WalkInv'
<1> SUFFICES ASSUME Inv, WalkInv, [Next]_vars PROVE WalkInv'
  OBVIOUS
<1> USE DEF inputVars, walkVars, stepVars, noteVars, InLoop
<1>1. CASE WriteText \/ WriteJsonl
  <2>1. Point' = Point /\ UNCHANGED <<rb, cur, path>>
    BY <1>1, WritePoints DEF WriteText, WriteJsonl
  <2> QED BY <2>1 DEF WalkInv, IsWalk
<1>2. CASE RecordStart
  <2>1. Point = "record_start" /\ Point' = "dispatch" /\ UNCHANGED <<rb, cur, path>>
    BY <1>2, Points DEF RecordStart
  <2> QED BY <2>1 DEF WalkInv, IsWalk
<1>3. CASE DispatchDryRun \/ DispatchSSH \/ DispatchEscalate \/ DispatchEnd
  <2>1. EnterStep /\ UNCHANGED <<rb, cur>>
    BY <1>3 DEF DispatchDryRun, DispatchSSH, DispatchEscalate, DispatchEnd
  <2>2. IsWalk(rb, path)' /\ path' # <<>> /\ path'[Len(path')] = cur'
    BY <2>1, EnterStepWalk
  <2>3. Point' \in {"record_attempt", "execute", "notify", "record_end"}
    BY <1>3, Points
  <2> QED BY <2>2, <2>3 DEF WalkInv
<1>4. CASE (\E result \in ExecutionResult : Execute(result)) \/ RecordAttempt \/ Retry
  <2>1. Point \in InLoop /\ Point' \in InLoop /\ UNCHANGED <<rb, cur, path>>
    BY <1>4, Points DEF Execute, RecordAttempt, Retry, Point, WritePoint
  <2> QED BY <2>1 DEF WalkInv, IsWalk
<1>5. CASE FollowSimulated \/ FollowSuccess \/ FollowFailure
  <2>1. /\ pc = "branch" /\ Point = "branch" /\ Point' = "dispatch"
        /\ UNCHANGED <<rb, path>>
        /\ cur' \in {Step.onSuccess, Step.onFailure}
    BY <1>5, Points DEF FollowSimulated, FollowSuccess, FollowFailure
  <2>2. Step.type = "ssh" /\ path # <<>> /\ path[Len(path)] = cur
    BY <2>1, BranchFacts, SSHStepFields DEF AtBranch, IsSSH, WalkInv
  <2>3. cur' \in Successors(rb, path[Len(path)])
    BY <2>1, <2>2 DEF Step, Successors
  <2> QED BY <2>1, <2>3 DEF WalkInv, IsWalk
<1>6. CASE \/ \E outcome \in SendOutcome : SendNotifier(outcome)
           \/ RecordNotificationResult \/ FinishEscalation \/ RecordEnd \/ Fault
  <2>1. Point' \notin {"record_start", "dispatch"} \union InLoop /\ UNCHANGED <<rb, path>>
    BY <1>6, Points DEF SendNotifier, RecordNotificationResult, FinishEscalation,
       RecordEnd, Fault, WriteFails, ExecutorRaises, Crash, Point, WritePoint
  <2> QED BY <2>1 DEF WalkInv, IsWalk
<1>7. CASE Tick \/ UNCHANGED vars
  <2>1. Point' = Point /\ UNCHANGED <<rb, cur, path>>
    BY <1>7, Points DEF Tick, vars, Point
  <2> QED BY <2>1 DEF WalkInv, IsWalk
<1> QED BY <1>1, <1>2, <1>3, <1>4, <1>5, <1>6, <1>7 DEF Next, RunStep, OwnStep, Terminated

LEMMA WalkInit == Init => WalkInv
BY DEF Init, WalkInv, IsWalk, Point, WritePoint, InLoop

(* A run walks along the branches of its runbook and enters no step twice. *)
THEOREM SimplePaths == Spec => []PathIsSimple
<1>1. Inv /\ WalkInv => PathIsSimple
  <2> SUFFICES ASSUME Inv, WalkInv PROVE PathIsSimple
    OBVIOUS
  <2>1. Compiled(rb) /\ path \in Seq(DOMAIN rb.steps) /\ IsWalk(rb, path)
    BY DEF Inv, RunTypeOK, WalkInv
  <2>2. IsSimple(path)
    BY <2>1, WalkIsSimple
  <2> QED BY <2>1, <2>2 DEF PathIsSimple, IsSimple, IsWalk
<1> QED BY <1>1, InitInv, NextInv, WalkInit, WalkNext, PTL DEF Spec

----------------------------------------------------------------------------
(* The calls and the rows.                                                 *)

Matched == /\ Len(stepAttempts) <= Len(calls)
           /\ \A i \in 1..Len(stepAttempts) : Named(calls[i]) = Named(stepAttempts[i])

DoubtInv ==
  /\ dry => calls = <<>>
  /\ ~dry =>
       /\ Matched
       /\ Len(calls) <= Len(stepAttempts) + 1
       /\ Point = "record_attempt" =>
            Len(calls) = Len(stepAttempts) + 1 /\ Named(calls[Len(calls)]) = Named(row)
       /\ Point \notin {"record_attempt", "raised", "crashed"} =>
            Len(calls) = Len(stepAttempts)

LEMMA DoubtInit == Init => DoubtInv
BY DEF Init, DoubtInv, Matched, Point, WritePoint, StoreInit

(* A step that calls nothing and records nothing leaves the doubt as it is.*)
LEMMA DoubtFrame ==
  ASSUME DoubtInv, UNCHANGED <<dry, calls, stepAttempts>>,
         \/ Point' = Point /\ row' = row
         \/ Point' \in {"raised", "crashed"}
         \/ Point \notin {"record_attempt", "raised", "crashed"} /\ Point' # "record_attempt"
         \/ dry
  PROVE  DoubtInv'
BY DEF DoubtInv, Matched, Named

(* A call is made only when nothing is in doubt.                           *)
LEMMA DoubtCall ==
  ASSUME Inv, DoubtInv, Point = "execute", UNCHANGED <<dry, stepAttempts>>,
         calls' = Append(calls, Call),
         \/ Point' = "raised"
         \/ Point' = "record_attempt" /\ row'.step = cur /\ row'.attempt = attempt
  PROVE  DoubtInv'
<1>1. ~dry /\ calls \in Seq(CallSet) /\ stepAttempts \in Seq(RowSet)
  BY DEF Inv, RunTypeOK, Control, AtExecute
<1>2. Len(calls) = Len(stepAttempts) /\ Matched /\ Len(calls) \in Nat
  BY <1>1 DEF DoubtInv
<1>3. /\ Len(calls') = Len(calls) + 1
      /\ \A i \in 1..Len(calls) : calls'[i] = calls[i]
      /\ calls'[Len(calls')] = Call
  BY <1>1
<1>4. Matched'
  BY <1>2, <1>3 DEF Matched
<1>5. Call.step = cur /\ Call.attempt = attempt
  BY DEF Call
<1> QED BY <1>1, <1>2, <1>3, <1>4, <1>5 DEF DoubtInv, Named

LEMMA DoubtRecord == Inv /\ DoubtInv /\ RecordAttempt => DoubtInv'
<1> SUFFICES ASSUME Inv, DoubtInv, RecordAttempt PROVE DoubtInv'
  OBVIOUS
<1>1. /\ stepAttempts' = Append(stepAttempts, row) /\ UNCHANGED <<dry, calls>>
      /\ Point = "record_attempt" /\ Point' = "branch"
  BY Points DEF RecordAttempt, RecordStepAttempt, inputVars, worldVars
<1>2. stepAttempts \in Seq(RowSet) /\ row \in RowSet
  BY <1>1 DEF Inv, RunTypeOK, Control, AtRecordAttempt
<1>3. /\ Len(stepAttempts') = Len(stepAttempts) + 1 /\ Len(stepAttempts) \in Nat
      /\ \A i \in 1..Len(stepAttempts) : stepAttempts'[i] = stepAttempts[i]
      /\ stepAttempts'[Len(stepAttempts')] = row
  BY <1>1, <1>2
<1>4. CASE dry
  BY <1>1, <1>4 DEF DoubtInv
<1>5. CASE ~dry
  <2>1. Matched /\ Len(calls) = Len(stepAttempts) + 1 /\ Named(calls[Len(calls)]) = Named(row)
    BY <1>1, <1>5 DEF DoubtInv
  <2>2. ASSUME NEW i \in 1..Len(stepAttempts')
        PROVE  Named(calls[i]) = Named(stepAttempts'[i])
    <3>1. CASE i = Len(stepAttempts')
      BY <1>3, <2>1, <3>1
    <3>2. CASE i # Len(stepAttempts')
      <4>1. i \in 1..Len(stepAttempts)
        BY <1>3, <3>2
      <4> QED BY <1>3, <2>1, <4>1 DEF Matched
    <3> QED BY <3>1, <3>2
  <2>3. Matched'
    BY <1>1, <1>3, <2>1, <2>2 DEF Matched
  <2> QED BY <1>1, <1>3, <1>5, <2>1, <2>3 DEF DoubtInv
<1> QED BY <1>4, <1>5

LEMMA DoubtNext == Inv /\ DoubtInv /\ [Next]_vars => DoubtInv'
<1> SUFFICES ASSUME Inv, DoubtInv, [Next]_vars PROVE DoubtInv'
  OBVIOUS
<1> USE DEF inputVars, stepVars, worldVars, storeVars
<1>1. CASE WriteText \/ WriteJsonl
  <2>1. Point' = Point /\ UNCHANGED <<dry, calls, stepAttempts, row>>
    BY <1>1, WritePoints DEF WriteText, WriteJsonl
  <2> QED BY <2>1, DoubtFrame
<1>2. CASE \/ RecordStart \/ DispatchSSH \/ DispatchEscalate \/ DispatchEnd
           \/ FollowSimulated \/ FollowSuccess \/ Retry \/ FollowFailure
           \/ RecordNotificationResult \/ FinishEscalation \/ RecordEnd
  <2>1. UNCHANGED <<dry, calls, stepAttempts>>
    BY <1>2 DEF RecordStart, RecordExecutionStart, DispatchSSH, DispatchEscalate,
       DispatchEnd, FollowSimulated, FollowSuccess, Retry, FollowFailure,
       RecordNotificationResult, RecordNotification, FinishEscalation, RecordEnd,
       RecordExecutionEnd
  <2>2. DispatchSSH \/ DispatchEscalate \/ DispatchEnd => EnterStep
    BY DEF DispatchSSH, DispatchEscalate, DispatchEnd
  <2>3. /\ Point \notin {"record_attempt", "raised", "crashed"}
        /\ Point' # "record_attempt"
    BY <1>2, <2>2, Points
  <2> QED BY <2>1, <2>3, DoubtFrame
<1>3. CASE DispatchDryRun
  <2>1. dry /\ UNCHANGED <<dry, calls, stepAttempts>>
    BY <1>3 DEF DispatchDryRun
  <2> QED BY <2>1, DoubtFrame
<1>4. CASE (\E result \in ExecutionResult : Execute(result)) \/ ExecutorRaises
  <2>1. /\ Point = "execute" /\ UNCHANGED <<dry, stepAttempts>>
        /\ calls' = Append(calls, Call)
        /\ \/ Point' = "raised"
           \/ Point' = "record_attempt" /\ row'.step = cur /\ row'.attempt = attempt
    BY <1>4 DEF Execute, ExecutorRaises, Point, WritePoint
  <2> QED BY <2>1, DoubtCall
<1>5. CASE RecordAttempt
  BY <1>5, DoubtRecord
<1>6. CASE \E outcome \in SendOutcome : SendNotifier(outcome)
  <2>1. /\ Point = "notify" /\ Point' = "record_notification"
        /\ UNCHANGED <<dry, calls, stepAttempts>>
    BY <1>6 DEF SendNotifier, Point, WritePoint
  <2> QED BY <2>1, DoubtFrame
<1>7. CASE WriteFails \/ Crash
  <2>1. Point' \in {"raised", "crashed"} /\ UNCHANGED <<dry, calls, stepAttempts>>
    BY <1>7, Points DEF WriteFails, Crash, Fault
  <2> QED BY <2>1, DoubtFrame
<1>8. CASE Tick \/ UNCHANGED vars
  <2>1. Point' = Point /\ UNCHANGED <<dry, calls, stepAttempts, row>>
    BY <1>8, Points DEF Tick, vars, Point
  <2> QED BY <2>1, DoubtFrame
<1> QED BY <1>1, <1>2, <1>3, <1>4, <1>5, <1>6, <1>7, <1>8
        DEF Next, RunStep, OwnStep, Fault, Terminated

(* A run that was cut off leaves at most one command without its row.      *)
THEOREM AtMostOneInDoubt == Spec => []InDoubtAtMostOne
<1>1. Inv /\ DoubtInv => InDoubtAtMostOne
  <2> SUFFICES ASSUME Inv, DoubtInv, ~dry
               PROVE  /\ Len(calls) - Len(stepAttempts) \in 0..1
                      /\ \A i \in DOMAIN stepAttempts : Named(calls[i]) = Named(stepAttempts[i])
    BY DEF InDoubtAtMostOne
  <2>1. calls \in Seq(CallSet) /\ stepAttempts \in Seq(RowSet)
    BY DEF Inv, RunTypeOK
  <2>2. Matched /\ Len(calls) <= Len(stepAttempts) + 1
    BY DEF DoubtInv
  <2> QED BY <2>1, <2>2 DEF Matched
<1> QED BY <1>1, InitInv, NextInv, DoubtInit, DoubtNext, PTL DEF Spec

----------------------------------------------------------------------------
(* The budget of attempts.                                                 *)

Entered == {path[k] : k \in 1..Len(path)}

BudgetInv ==
  /\ \A i, j \in 1..Len(calls) : Named(calls[i]) = Named(calls[j]) => i = j
  /\ \A i \in 1..Len(calls) :
        /\ calls[i].step \in Entered
        /\ calls[i].attempt \in 1..TotalAttempts(rb.steps[calls[i].step])
  /\ Point = "execute" =>
        \A i \in 1..Len(calls) : calls[i].step = cur => calls[i].attempt < attempt
  /\ Point \in {"record_attempt", "branch"} /\ ~dry =>
        \A i \in 1..Len(calls) : calls[i].step = cur => calls[i].attempt <= attempt

LEMMA BudgetInit == Init => BudgetInv
BY DEF Init, BudgetInv, Entered, Point, WritePoint

(* A step that asks nothing of the target keeps the budget, as long as it  *)
(* brings the run to no point that says more of the attempts made.         *)
LEMMA BudgetFrame ==
  ASSUME BudgetInv, UNCHANGED <<rb, dry, calls>>, Entered \subseteq Entered',
         \/ UNCHANGED <<Point, cur, attempt>>
         \/ Point = "record_attempt" /\ Point' = "branch" /\ UNCHANGED <<cur, attempt>>
         \/ Point' \notin InLoop
         \/ dry /\ Point' # "execute"
  PROVE  BudgetInv'
BY DEF BudgetInv, InLoop

(* No command of a step was asked for before the step is entered.          *)
LEMMA EnteredOnce ==
  ASSUME Inv, WalkInv, BudgetInv, EnterStep, rb' = rb
  PROVE  /\ \A i \in 1..Len(calls) : calls[i].step # cur
         /\ Entered \subseteq Entered'
<1>1. path \in Seq(DOMAIN rb.steps) /\ path' = Append(path, cur) /\ Compiled(rb)
      /\ cur \in DOMAIN rb.steps
  BY DEF Inv, RunTypeOK, EnterStep
<1>2. path' \in Seq(DOMAIN rb.steps) /\ Len(path') = Len(path) + 1 /\ Len(path) \in Nat
      /\ path'[Len(path')] = cur /\ \A k \in 1..Len(path) : path'[k] = path[k]
  BY <1>1
<1>3. IsSimple(path')
  <2>1. IsWalk(rb, path')
    BY EnterStepWalk DEF IsWalk
  <2> QED BY <1>1, <1>2, <2>1, WalkIsSimple
<1>4. cur \notin Entered
  <2>1. \A k \in 1..Len(path) : path[k] # cur
    BY <1>2, <1>3 DEF IsSimple
  <2> QED BY <2>1 DEF Entered
<1>5. Entered \subseteq Entered'
  BY <1>2 DEF Entered
<1> QED BY <1>4, <1>5 DEF BudgetInv

(* The call of an attempt is new, and within the budget of its step.       *)
LEMMA BudgetCall ==
  ASSUME Inv, WalkInv, BudgetInv, Point = "execute",
         UNCHANGED <<rb, dry, cur, path, attempt>>,
         calls' = Append(calls, Call),
         Point' # "execute"
  PROVE  BudgetInv'
<1>1. /\ calls \in Seq(CallSet) /\ attempt \in 1..TotalAttempts(Step) /\ IsSSH
      /\ path \in Seq(DOMAIN rb.steps)
  BY DEF Inv, RunTypeOK, Control, AtExecute
<1>2. attempt \in Nat
  BY DEF Inv, RunTypeOK
<1>3. /\ Len(calls') = Len(calls) + 1 /\ Len(calls) \in Nat
      /\ \A i \in 1..Len(calls) : calls'[i] = calls[i] /\ calls[i] \in CallSet
      /\ calls'[Len(calls')] = Call
  BY <1>1
<1>4. \A i \in 1..Len(calls) :
        calls[i].attempt \in Nat /\ (calls[i].step = cur => calls[i].attempt < attempt)
  BY <1>3 DEF BudgetInv, CallSet
<1>a. Call.step = cur /\ Call.attempt = attempt
  BY DEF Call
<1>5. \A i \in 1..Len(calls) : Named(calls[i]) # Named(Call)
  BY <1>2, <1>4, <1>a DEF Named
<1>6. ASSUME NEW i \in 1..Len(calls'), NEW j \in 1..Len(calls'),
             Named(calls'[i]) = Named(calls'[j])
      PROVE  i = j
  <2>1. CASE i = Len(calls')
    <3>1. j \notin 1..Len(calls)
      BY <1>3, <1>5, <1>6, <2>1
    <3> QED BY <1>3, <2>1, <3>1
  <2>2. CASE j = Len(calls')
    <3>1. i \notin 1..Len(calls)
      BY <1>3, <1>5, <1>6, <2>2
    <3> QED BY <1>3, <2>2, <3>1
  <2>3. CASE i # Len(calls') /\ j # Len(calls')
    <3>1. i \in 1..Len(calls) /\ j \in 1..Len(calls)
      BY <1>3, <2>3
    <3>2. Named(calls[i]) = Named(calls[j])
      BY <1>3, <1>6, <3>1
    <3> QED BY <3>1, <3>2 DEF BudgetInv
  <2> QED BY <2>1, <2>2, <2>3
<1>7. cur \in Entered /\ Entered' = Entered
  <2>1. path # <<>> /\ path[Len(path)] = cur
    BY DEF WalkInv, InLoop
  <2> QED BY <1>1, <2>1 DEF Entered
<1>8. ASSUME NEW i \in 1..Len(calls')
      PROVE  /\ calls'[i].step \in Entered'
             /\ calls'[i].attempt \in 1..TotalAttempts(rb.steps[calls'[i].step])
             /\ calls'[i].step = cur => calls'[i].attempt <= attempt
  <2>1. CASE i = Len(calls')
    BY <1>1, <1>2, <1>3, <1>7, <1>a, <2>1 DEF Step
  <2>2. CASE i # Len(calls')
    <3>1. i \in 1..Len(calls)
      BY <1>3, <2>2
    <3> QED BY <1>2, <1>3, <1>4, <1>7, <3>1 DEF BudgetInv
  <2> QED BY <2>1, <2>2
<1>9. \A i, j \in 1..Len(calls') : Named(calls[i])' = Named(calls[j])' => i = j
  BY <1>6 DEF Named
<1> QED BY <1>8, <1>9 DEF BudgetInv

LEMMA BudgetRetry == Inv /\ BudgetInv /\ Retry => BudgetInv'
<1> SUFFICES ASSUME Inv, BudgetInv, Retry PROVE BudgetInv'
  OBVIOUS
<1>1. /\ UNCHANGED <<rb, dry, cur, path, calls>> /\ attempt' = attempt + 1
      /\ Point = "branch" /\ Point' = "execute" /\ row.branch = "retry"
  BY Points DEF Retry, inputVars, walkVars, worldVars
<1>2. ~dry /\ calls \in Seq(CallSet) /\ attempt \in Nat
  BY <1>1 DEF Inv, RunTypeOK, Control, AtBranch
<1>3. \A i \in 1..Len(calls) :
        calls[i].attempt \in Nat /\ (calls[i].step = cur => calls[i].attempt <= attempt)
  BY <1>1, <1>2 DEF BudgetInv, CallSet
<1>4. \A i \in 1..Len(calls) : calls[i].step = cur => calls[i].attempt < attempt'
  BY <1>1, <1>2, <1>3
<1>5. Entered' = Entered
  BY <1>1 DEF Entered
<1> QED BY <1>1, <1>4, <1>5 DEF BudgetInv

LEMMA BudgetNext == Inv /\ WalkInv /\ BudgetInv /\ [Next]_vars => BudgetInv'
<1> SUFFICES ASSUME Inv, WalkInv, BudgetInv, [Next]_vars PROVE BudgetInv'
  OBVIOUS
<1> USE DEF inputVars, walkVars, stepVars, worldVars
<1>1. CASE WriteText \/ WriteJsonl
  <2>1. Point' = Point /\ UNCHANGED <<rb, dry, calls, path, cur, attempt>>
    BY <1>1, WritePoints DEF WriteText, WriteJsonl
  <2> QED BY <2>1, BudgetFrame DEF Entered
<1>2. CASE \/ RecordStart \/ FollowSimulated \/ FollowSuccess \/ FollowFailure
           \/ RecordNotificationResult \/ FinishEscalation \/ RecordEnd
           \/ WriteFails \/ Crash
  <2>1. UNCHANGED <<rb, dry, calls, path>>
    BY <1>2 DEF RecordStart, FollowSimulated, FollowSuccess, FollowFailure,
       RecordNotificationResult, FinishEscalation, RecordEnd, WriteFails, Crash
  <2>2. Point' \notin InLoop
    BY <1>2, Points DEF InLoop, Fault
  <2> QED BY <2>1, <2>2, BudgetFrame DEF Entered
<1>3. CASE DispatchDryRun
  <2>1. EnterStep /\ dry /\ UNCHANGED <<rb, dry, calls>> /\ Point' = "record_attempt"
    BY <1>3, Points DEF DispatchDryRun
  <2> QED BY <2>1, EnteredOnce, BudgetFrame
<1>4. CASE DispatchEscalate \/ DispatchEnd
  <2>1. EnterStep /\ UNCHANGED <<rb, dry, calls>>
    BY <1>4 DEF DispatchEscalate, DispatchEnd
  <2>2. Point' \notin InLoop
    BY <1>4, Points DEF InLoop
  <2> QED BY <2>1, <2>2, EnteredOnce, BudgetFrame
<1>5. CASE DispatchSSH
  <2>1. EnterStep /\ UNCHANGED <<rb, dry, calls, cur>> /\ Point' = "execute"
    BY <1>5, Points DEF DispatchSSH
  <2>2. (\A i \in 1..Len(calls) : calls[i].step # cur) /\ Entered \subseteq Entered'
    BY <2>1, EnteredOnce
  <2> QED BY <2>1, <2>2 DEF BudgetInv
<1>6. CASE (\E result \in ExecutionResult : Execute(result)) \/ ExecutorRaises
  <2>1. /\ Point = "execute" /\ Point' # "execute"
        /\ UNCHANGED <<rb, dry, cur, path, attempt>>
        /\ calls' = Append(calls, Call)
    BY <1>6 DEF Execute, ExecutorRaises, Point, WritePoint
  <2> QED BY <2>1, BudgetCall
<1>7. CASE RecordAttempt
  <2>1. /\ Point = "record_attempt" /\ Point' = "branch"
        /\ UNCHANGED <<rb, dry, calls, path, cur, attempt>>
    BY <1>7, Points DEF RecordAttempt
  <2> QED BY <2>1, BudgetFrame DEF Entered
<1>8. CASE Retry
  BY <1>8, BudgetRetry
<1>9. CASE \E outcome \in SendOutcome : SendNotifier(outcome)
  <2>1. UNCHANGED <<rb, dry, calls, path>> /\ Point' \notin InLoop
    BY <1>9 DEF SendNotifier, Point, WritePoint, InLoop
  <2> QED BY <2>1, BudgetFrame DEF Entered
<1>10. CASE Tick \/ UNCHANGED vars
  <2>1. Point' = Point /\ UNCHANGED <<rb, dry, calls, path, cur, attempt>>
    BY <1>10, Points DEF Tick, vars, Point
  <2> QED BY <2>1, BudgetFrame DEF Entered
<1> QED BY <1>1, <1>2, <1>3, <1>4, <1>5, <1>6, <1>7, <1>8, <1>9, <1>10
        DEF Next, RunStep, OwnStep, Fault, Terminated

(* No attempt is executed twice, and no step more often than its budget of *)
(* 1 + retries, whatever the run meets.                                    *)
THEOREM BudgetKept == Spec => []RetryBudget
<1>1. Inv /\ BudgetInv => RetryBudget
  <2> SUFFICES ASSUME Inv, BudgetInv PROVE RetryBudget
    OBVIOUS
  <2>1. calls \in Seq(CallSet)
    BY DEF Inv, RunTypeOK
  <2> QED BY <2>1 DEF BudgetInv, RetryBudget
<1> QED BY <1>1, InitInv, NextInv, WalkInit, WalkNext,
           BudgetInit, BudgetNext, PTL DEF Spec
----------------------------------------------------------------------------
(* The way to the end.                                                     *)

Unentered == Cardinality(DOMAIN rb.steps \ Range(path))

Place == 3 * Places[Point] + Writing

(* Where a run may stand that has not failed.                              *)
LEMMA PointKinds ==
  ASSUME Inv, pc \notin {"raised", "crashed"}
  PROVE  Point \in DOMAIN Places
<1>1. pc \in WritePoint => event.event \in EventKinds
  BY DEF Inv, Control
<1>2. pc \in WritePoint => Point \in {"dispatch", "branch", "notify", "record_end", "returned"}
  BY <1>1, AfterKinds DEF EventKinds, Point
<1>3. pc \notin WritePoint => Point \in DOMAIN Places
  BY DEF Inv, RunTypeOK, Point, Stopped, StorePoint, Places
<1> QED BY <1>2, <1>3 DEF Places

LEMMA PlaceType ==
  ASSUME Inv, pc \notin {"raised", "crashed"}
  PROVE  Place \in Nat
<1>1. Places[Point] \in 1..9
  BY PointKinds DEF Places
<1>2. Writing \in 0..2
  BY DEF Writing
<1> QED BY <1>1, <1>2 DEF Place

LEMMA UnenteredType ==
  ASSUME Inv
  PROVE  IsFiniteSet(DOMAIN rb.steps \ Range(path)) /\ Unentered \in Nat
<1>1. IsFiniteSet(DOMAIN rb.steps)
  BY DEF Inv, RunTypeOK, Compiled, CompiledRunbook
<1>2. IsFiniteSet(DOMAIN rb.steps \ Range(path))
  BY <1>1, FS_Difference
<1> QED BY <1>2, FS_CardinalityType DEF Unentered

(* The tries left at each point.                                           *)
LEMMA TriesAre ==
  /\ Point = "execute" => TriesLeft = TotalAttempts(Step) - attempt
  /\ Point \in {"record_attempt", "branch"} => TriesLeft = TotalAttempts(Step) - row.attempt
  /\ Point \in {"notify", "record_notification"} => TriesLeft = Len(Notifiers) + 1 - next
  /\ Point \notin {"execute", "record_attempt", "branch", "notify", "record_notification"}
       => TriesLeft = 0
BY DEF TriesLeft

LEMMA TriesType ==
  ASSUME Inv
  PROVE  TriesLeft \in Nat
<1>1. CASE Point = "execute"
  <2>1. attempt \in 1..TotalAttempts(Step) /\ Step \in SSHStep
    BY <1>1 DEF Inv, Control, AtExecute, IsSSH
  <2>2. TotalAttempts(Step) \in 1..11
    BY <2>1, SSHStepFields
  <2> QED BY <1>1, <2>1, <2>2, TriesAre
<1>2. CASE Point = "record_attempt"
  <2>1. Ledger!LegalAttempt(row) /\ Step \in SSHStep /\ row \in RowSet
    BY <1>2 DEF Inv, Control, AtRecordAttempt, IsSSH
  <2>2. TotalAttempts(Step) \in 1..11 /\ row.attempt \in 1..11
    BY <2>1, SSHStepFields DEF RowSet
  <2>3. row.attempt <= TotalAttempts(Step)
    <3>1. Ledger!Here = Step
      BY <1>2, <2>1 DEF Inv, Control, AtRecordAttempt, Ledger!LegalAttempt, Ledger!Here, Step
    <3> QED BY <2>1, <3>1 DEF Ledger!LegalAttempt, Ledger!TotalAttempts, TotalAttempts
  <2> QED BY <1>2, <2>2, <2>3, TriesAre
<1>3. CASE Point = "branch"
  <2>1. row.attempt <= TotalAttempts(Step) /\ Step \in SSHStep /\ row \in RowSet
    BY <1>3 DEF Inv, Control, AtBranch, IsSSH
  <2>2. TotalAttempts(Step) \in 1..11 /\ row.attempt \in 1..11
    BY <2>1, SSHStepFields DEF RowSet
  <2> QED BY <1>3, <2>1, <2>2, TriesAre
<1>4. CASE Point \in {"notify", "record_notification"}
  <2>1. next \in 1..Len(Notifiers) + 1 /\ Len(Notifiers) \in Nat
    BY NotifiersAssumption DEF Inv, RunTypeOK
  <2> QED BY <1>4, <2>1, TriesAre
<1>5. CASE Point \notin {"execute", "record_attempt", "branch", "notify", "record_notification"}
  BY <1>5, TriesAre
<1> QED BY <1>1, <1>2, <1>3, <1>4, <1>5

(* A run that has not failed is at a distance from its end.                *)
Going == pc \notin {"raised", "crashed"}
Measured == Distance \in Nat \X Nat \X Nat

LEMMA DistanceType == Inv /\ Going => Measured
BY PlaceType, UnenteredType, TriesType DEF Distance, Unentered, Place, Going, Measured

LEMMA Nearer ==
  ASSUME Distance' \in Nat \X Nat \X Nat,
         \/ Unentered' < Unentered
         \/ Unentered' = Unentered /\ TriesLeft' < TriesLeft
         \/ Unentered' = Unentered /\ TriesLeft' = TriesLeft /\ Place' < Place
  PROVE  Below(Distance', Distance)
BY DEF Below, Distance, Unentered, Place

(* A step that is entered was not entered before.                          *)
LEMMA EnteringCounts ==
  ASSUME Inv, WalkInv, EnterStep, rb' = rb
  PROVE  Unentered' < Unentered
<1> DEFINE rest == DOMAIN rb.steps \ Range(path)
<1>1. path \in Seq(DOMAIN rb.steps) /\ path' = Append(path, cur) /\ Compiled(rb)
      /\ cur \in DOMAIN rb.steps
  BY DEF Inv, RunTypeOK, EnterStep
<1>2. path' \in Seq(DOMAIN rb.steps) /\ Len(path') = Len(path) + 1 /\ Len(path) \in Nat
      /\ path'[Len(path')] = cur /\ \A k \in 1..Len(path) : path'[k] = path[k]
  BY <1>1
<1>3. IsWalk(rb, path')
  BY EnterStepWalk DEF IsWalk
<1>4. IsSimple(path')
  BY <1>1, <1>2, <1>3, WalkIsSimple
<1>5. cur \in rest
  <2>1. \A k \in 1..Len(path) : path[k] # cur
    BY <1>2, <1>4 DEF IsSimple
  <2> QED BY <1>1, <2>1 DEF Range
<1>6. Range(path') = Range(path) \union {cur}
  BY <1>1, <1>2 DEF Range
<1>7. (DOMAIN rb.steps \ Range(path))' = rest \ {cur}
  <2>1. (DOMAIN rb.steps \ Range(path))' = DOMAIN rb.steps \ Range(path')
    BY DEF Range
  <2> QED BY <1>6, <2>1
<1>8. IsFiniteSet(rest) /\ Cardinality(rest) \in Nat
  BY UnenteredType DEF Unentered
<1>9. Cardinality(rest \ {cur}) = Cardinality(rest) - 1
  BY <1>5, <1>8, FS_RemoveElement
<1>10. Unentered' = Cardinality(rest \ {cur}) /\ Unentered = Cardinality(rest)
  BY <1>7 DEF Unentered
<1> QED BY <1>8, <1>9, <1>10

LEMMA UnenteredStays ==
  ASSUME UNCHANGED <<rb, path>>
  PROVE  Unentered' = Unentered
BY DEF Unentered, Range

(* Writing an event's files brings the run nearer the point after it.      *)
LEMMA WritesAdvance ==
  ASSUME Inv, WriteText \/ WriteJsonl
  PROVE  Unentered' = Unentered /\ TriesLeft' = TriesLeft /\ Place' < Place
<1>1. UNCHANGED <<rb, cur, path, attempt, row, next, event>> /\ Point' = Point
  BY WritePoints DEF WriteText, WriteJsonl, inputVars, walkVars, stepVars, noteVars
<1>2. TriesLeft' = TriesLeft
  BY <1>1 DEF TriesLeft, Step
<1>3. Writing' < Writing /\ Writing \in 0..2 /\ Writing' \in 0..2
  <2>1. CASE WriteText
    BY <2>1 DEF WriteText, Writing
  <2>2. CASE WriteJsonl
    <3>1. event.event \in EventKinds
      BY <2>2 DEF WriteJsonl, Inv, Control, WritePoint
    <3>2. pc' \notin WritePoint
      BY <2>2, <3>1, AfterKinds DEF WriteJsonl, WritePoint, EventKinds
    <3> QED BY <2>2, <3>2 DEF WriteJsonl, Writing, WritePoint
  <2> QED BY <2>1, <2>2
<1>4. Places[Point] \in 1..9
  <2>1. pc \notin {"raised", "crashed"}
    BY DEF WriteText, WriteJsonl
  <2> QED BY <2>1, PointKinds DEF Places
<1>5. Place' < Place
  BY <1>1, <1>3, <1>4 DEF Place
<1> QED BY <1>1, <1>2, <1>5, UnenteredStays

(* The points at which an event may still be written.                      *)
Spots ==
  /\ Point = "dispatch" => Place \in 9..11
  /\ Point = "branch" => Place \in 15..17
  /\ Point = "notify" => Place \in 12..14
  /\ Point = "record_end" => Place \in 6..8
  /\ Point = "returned" => Place \in 3..5

LEMMA SpotsAre == Spots
<1>1. Writing \in 0..2
  BY DEF Writing
<1> QED BY <1>1 DEF Spots, Place, Places

LEMMA StepsAdvance ==
  ASSUME Inv, WalkInv, Next, pc' # pc, pc' \notin {"raised", "crashed"}
  PROVE  Below(Distance', Distance)
<1>1. Inv' /\ Distance' \in Nat \X Nat \X Nat
  <2>1. Inv' /\ Going'
    BY NextInv DEF Going
  <2>2. (Inv /\ Going => Measured)'
    BY DistanceType, PTL
  <2> QED BY <2>1, <2>2 DEF Measured
<1>2. TriesLeft \in Nat /\ TriesLeft' \in Nat
  <2>1. Inv => TriesLeft \in Nat
    BY TriesType
  <2>2. Inv' => TriesLeft' \in Nat
    BY <1>1 DEF Distance
  <2> QED BY <1>1, <2>1, <2>2
<1>a. pc \notin WritePoint => Writing = 0
  BY DEF Writing, WritePoint
<1>b. Spots'
  BY SpotsAre, PTL
<1> USE DEF inputVars, walkVars, stepVars, noteVars
<1>3. CASE WriteText \/ WriteJsonl
  BY <1>1, <1>3, WritesAdvance, Nearer
<1>4. CASE RecordStart
  <2>1. Point = "record_start" /\ Point' = "dispatch" /\ Writing = 0 /\ UNCHANGED <<rb, path>>
    BY <1>4, <1>a, Points DEF RecordStart, WritePoint
  <2>2. TriesLeft = 0 /\ TriesLeft' = 0
    BY <2>1 DEF TriesLeft
  <2>3. Place' < Place
    <3>1. Place = 27
      BY <2>1 DEF Place, Places
    <3> QED BY <2>1, <3>1, <1>b DEF Spots
  <2> QED BY <1>1, <2>1, <2>2, <2>3, UnenteredStays, Nearer
<1>5. CASE DispatchDryRun \/ DispatchSSH \/ DispatchEscalate \/ DispatchEnd
  <2>1. EnterStep /\ rb' = rb
    BY <1>5 DEF DispatchDryRun, DispatchSSH, DispatchEscalate, DispatchEnd
  <2> QED BY <1>1, <2>1, EnteringCounts, Nearer
<1>6. CASE \E result \in ExecutionResult : Execute(result)
  <2>1. /\ pc = "execute" /\ pc' = "record_attempt" /\ UNCHANGED <<rb, path, cur>>
        /\ row'.attempt = attempt
    BY <1>6 DEF Execute
  <2>2. Point = "execute" /\ Point' = "record_attempt" /\ Writing = 0 /\ Writing' = 0
    BY <2>1 DEF Point, WritePoint, Writing
  <2>3. TriesLeft' = TriesLeft
    BY <2>1, <2>2 DEF TriesLeft, Step
  <2>4. Place' < Place
    BY <2>2 DEF Place, Places
  <2> QED BY <1>1, <2>1, <2>3, <2>4, UnenteredStays, Nearer
<1>7. CASE RecordAttempt
  <2>1. /\ Point = "record_attempt" /\ Point' = "branch" /\ Writing = 0
        /\ UNCHANGED <<rb, path, cur, row>>
    BY <1>7, <1>a, Points DEF RecordAttempt, WritePoint
  <2>2. TriesLeft' = TriesLeft
    BY <2>1 DEF TriesLeft, Step
  <2>3. Place' < Place
    <3>1. Place = 21
      BY <2>1 DEF Place, Places
    <3> QED BY <2>1, <3>1, <1>b DEF Spots
  <2> QED BY <1>1, <2>1, <2>2, <2>3, UnenteredStays, Nearer
<1>8. CASE FollowSimulated \/ FollowSuccess \/ FollowFailure
  <2>1. /\ Point = "branch" /\ pc' = "dispatch" /\ Point' = "dispatch" /\ Writing = 0
        /\ UNCHANGED <<rb, path>>
    BY <1>8, <1>a, Points DEF FollowSimulated, FollowSuccess, FollowFailure, WritePoint
  <2>2. TriesLeft' = 0 /\ Writing' = 0
    BY <2>1 DEF TriesLeft, Writing
  <2>3. Place' < Place
    BY <2>1, <2>2 DEF Place, Places
  <2> QED BY <1>1, <1>2, <2>1, <2>2, <2>3, UnenteredStays, Nearer
<1>9. CASE Retry
  <2>1. /\ pc = "branch" /\ Point = "branch" /\ Point' = "execute" /\ row.branch = "retry"
        /\ attempt' = attempt + 1 /\ UNCHANGED <<rb, path, cur>>
    BY <1>9, Points DEF Retry
  <2>2. row.attempt = attempt /\ attempt \in Nat /\ TotalAttempts(Step) \in 1..11
    BY <2>1, BranchFacts DEF AtBranch, Inv, RunTypeOK
  <2>3. TriesLeft = TotalAttempts(Step) - attempt
    BY <2>1, <2>2, TriesAre
  <2>4. TriesLeft' = TotalAttempts(Step) - (attempt + 1)
    BY <2>1 DEF TriesLeft, Step
  <2> QED BY <1>1, <2>1, <2>2, <2>3, <2>4, UnenteredStays, Nearer
<1>10. CASE \E outcome \in SendOutcome : SendNotifier(outcome)
  <2>1. /\ Point = "notify" /\ Point' = "record_notification" /\ next' = next + 1
        /\ UNCHANGED <<rb, path>>
    BY <1>10 DEF SendNotifier, Point, WritePoint
  <2>2. next \in Nat /\ Len(Notifiers) \in Nat
    BY NotifiersAssumption DEF Inv, RunTypeOK
  <2>3. TriesLeft = Len(Notifiers) + 1 - next /\ TriesLeft' = Len(Notifiers) + 1 - (next + 1)
    BY <2>1 DEF TriesLeft
  <2> QED BY <1>1, <2>1, <2>2, <2>3, UnenteredStays, Nearer
<1>11. CASE RecordNotificationResult
  <2>1. /\ Point = "record_notification" /\ Point' = "notify" /\ Writing = 0
        /\ UNCHANGED <<rb, path, next>>
    BY <1>11, <1>a, Points DEF RecordNotificationResult, WritePoint
  <2>2. TriesLeft' = TriesLeft
    BY <2>1 DEF TriesLeft
  <2>3. Place' < Place
    <3>1. Place = 18
      BY <2>1 DEF Place, Places
    <3> QED BY <2>1, <3>1, <1>b DEF Spots
  <2> QED BY <1>1, <2>1, <2>2, <2>3, UnenteredStays, Nearer
<1>12. CASE FinishEscalation
  <2>1. /\ Point = "notify" /\ Point' = "record_end" /\ Writing = 0
        /\ UNCHANGED <<rb, path>>
    BY <1>12, <1>a, Points DEF FinishEscalation, WritePoint
  <2>2. TriesLeft' = 0
    BY <2>1 DEF TriesLeft
  <2>3. Place' < Place
    <3>1. Place = 12
      BY <2>1 DEF Place, Places
    <3> QED BY <2>1, <3>1, <1>b DEF Spots
  <2> QED BY <1>1, <1>2, <2>1, <2>2, <2>3, UnenteredStays, Nearer
<1>13. CASE RecordEnd
  <2>1. /\ Point = "record_end" /\ Point' = "returned" /\ Writing = 0
        /\ UNCHANGED <<rb, path>>
    BY <1>13, <1>a, Points DEF RecordEnd, WritePoint
  <2>2. TriesLeft = 0 /\ TriesLeft' = 0
    BY <2>1 DEF TriesLeft
  <2>3. Place' < Place
    <3>1. Place = 6
      BY <2>1 DEF Place, Places
    <3> QED BY <2>1, <3>1, <1>b DEF Spots
  <2> QED BY <1>1, <2>1, <2>2, <2>3, UnenteredStays, Nearer
<1>14. CASE Fault \/ Tick \/ Terminated
  <2>1. pc' = pc \/ pc' \in {"raised", "crashed"}
    BY <1>14 DEF Fault, WriteFails, ExecutorRaises, Crash, Tick, Terminated, vars
  <2> QED BY <2>1
<1> QED BY <1>3, <1>4, <1>5, <1>6, <1>7, <1>8, <1>9, <1>10, <1>11, <1>12, <1>13, <1>14
        DEF Next, RunStep, OwnStep

(* No run goes on for ever: every step it takes without failing brings it  *)
(* nearer its end in an order that has no infinite descent, whatever the   *)
(* runbook and however many retries and notifiers it has.                  *)
THEOREM RunsAdvance == Spec => RunAdvances
<1>1. Inv /\ WalkInv /\ [Next]_vars =>
        [pc' # pc /\ pc' \notin {"raised", "crashed"} => Below(Distance', Distance)]_vars
  <2> SUFFICES ASSUME Inv, WalkInv, [Next]_vars, pc' # pc, pc' \notin {"raised", "crashed"}
               PROVE  Below(Distance', Distance)
    OBVIOUS
  <2>1. Next
    BY DEF vars
  <2> QED BY <2>1, StepsAdvance
<1> QED BY <1>1, InitInv, NextInv, WalkInit, WalkNext, PTL DEF Spec, RunAdvances
=============================================================================
