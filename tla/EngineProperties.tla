-------------------------- MODULE EngineProperties ---------------------------
(***************************************************************************)
(* What one run of the engine has to keep true, across the process, its    *)
(* database, its two log files and the world outside.                      *)
(***************************************************************************)
EXTENDS Engine, SequencesExt, FiniteSetsExt

Branch  == {"simulated", "on_success", "retry", "on_failure"}
RowSet  == [step: StepIds, attempt: 1..11, startedAt: Nat, success: BOOLEAN,
            exit: Codes \union {NoExit}, error: Texts, branch: Branch]
Note    == [step: StepIds, notifier: NotifierSet, status: {"sent", "failed"}]
NoteRow == [step: StepIds, notifier: NotifierSet, status: {"sent", "failed"},
            sentAt: Nat]
Reason  == Texts \union {UnknownFailure, ExpectationMismatch}

CallSet == [step: StepIds, attempt: 1..11, at: Nat]
Send    == [notifier: NotifierSet, step: StepIds, reason: Reason, outcome: SendOutcome]

Event == [event: {"execution_start"}, dryRun: BOOLEAN]
         \union [event: {"step_attempt"}, step: StepIds, attempt: 1..11,
                 result: {"simulated", "success", "failure"}, branch: Branch,
                 exit: Codes \union {NoExit}, error: Texts]
         \union [event: {"notification"}, step: StepIds, notifier: NotifierSet,
                 result: {"sent", "failed"}]
         \union [event: {"escalation"}, step: StepIds, reason: Reason]
         \union [event: {"execution_end"}, status: FinalStatus]

(* The run's locals (engine.py 67-90), the rows of the store and the calls. *)
RunTypeOK ==
  /\ Compiled(rb) /\ dry \in BOOLEAN
  /\ pc \in Stopped \union WritePoint \union StorePoint
            \union {"dispatch", "execute", "branch", "notify"}
  /\ cur \in DOMAIN rb.steps
  /\ path \in Seq(DOMAIN rb.steps)
  /\ attempts \in Nat
  /\ DOMAIN branchMap \subseteq DOMAIN rb.steps
  /\ \A s \in DOMAIN branchMap : branchMap[s] \in (DOMAIN rb.steps) \X (DOMAIN rb.steps)
  /\ attempt \in 0..11
  /\ row \in RowSet \union {NoRow}
  /\ next \in 1..Len(Notifiers) + 1
  /\ note \in Note \union {NoNote}
  /\ reason \in Reason
  /\ final \in {"failed", "success", "escalated", "dry_run"}
  /\ now \in Clock
  /\ calls \in Seq(CallSet)
  /\ execution.status \in {"absent", "running"} \union FinalStatus
  /\ execution.dryRun \in BOOLEAN
  /\ stepAttempts \in Seq(RowSet)
  /\ notifications \in Seq(NoteRow)

(* The events of the log and what the notifiers were handed.               *)
LogTypeOK ==
  /\ event \in Event \union {NoEvent}
  /\ textLog \in Seq(Event) /\ jsonlLog \in Seq(Event)
  /\ sends \in Seq(Send)

(* Every variable of the run, of the store and of the log has its type, an *)
(* event and a row the fields of its kind (engine.py, persistence.py,      *)
(* audit.py).                                                              *)
TypeOK == RunTypeOK /\ LogTypeOK

----------------------------------------------------------------------------
(* The database is at every moment a legal prefix of a run (RunLedger).    *)
Ledger == INSTANCE RunLedger
LedgerSpec == Ledger!LedgerSpec

----------------------------------------------------------------------------
(* What a call and its row have in common.                                 *)
Named(c) == [step |-> c.step, attempt |-> c.attempt]

(* No attempt is executed twice and no step more often than 1 + retries    *)
(* times, whatever the branches: the attempt loop is bounded               *)
(* (engine.py:209) and no step is entered twice, because the compiler      *)
(* rejects cycles.                                                         *)
RetryBudget ==
  /\ \A i, j \in DOMAIN calls : Named(calls[i]) = Named(calls[j]) => i = j
  /\ \A i \in DOMAIN calls :
        calls[i].attempt \in 1..TotalAttempts(rb.steps[calls[i].step])

(* step_path is a walk along the branches that never meets a step twice,   *)
(* so a run ends after at most as many steps as the runbook has.           *)
PathIsSimple ==
  /\ \A i, j \in DOMAIN path : path[i] = path[j] => i = j
  /\ \A i \in 1..Len(path) - 1 : path[i + 1] \in Successors(rb, path[i])

(* In doubt is at most one command: the rows of a real run name exactly    *)
(* the commands executed, in order, but for the last one, whose row a      *)
(* crash or an error between execute and record (engine.py:213, 228) may   *)
(* have cost.                                                              *)
InDoubtAtMostOne ==
  ~dry =>
    /\ Len(calls) - Len(stepAttempts) \in 0..1
    /\ \A i \in DOMAIN stepAttempts : Named(calls[i]) = Named(stepAttempts[i])

(* The same of notifications: at most one was handed to a notifier and has *)
(* no row, and a row says "sent" exactly of those that were delivered.     *)
NotificationInDoubtAtMostOne ==
  /\ Len(sends) - Len(notifications) \in 0..1
  /\ \A i \in DOMAIN notifications :
        /\ notifications[i].notifier = sends[i].notifier
        /\ notifications[i].status = "sent" <=> sends[i].outcome = "delivered"

(* One failing notifier keeps no other from being tried (engine.py:299-    *)
(* 324): a run recorded as escalated has handed its notification to every  *)
(* notifier exactly once, in order, each for the same step with the same   *)
(* reason.                                                                 *)
EscalationFanOut ==
  execution.status = "escalated" =>
    /\ Len(sends) = Len(Notifiers)
    /\ \A i \in DOMAIN sends :
          /\ sends[i].notifier = Notifiers[i]
          /\ sends[i].step = Last(path)
          /\ sends[i].reason = sends[1].reason

(* Humans are told the error of the latest step that branched on_failure,  *)
(* in the notifications and in the escalation event alike; one that later  *)
(* steps succeeded after stays the reason, and without any failure it is   *)
(* unknown_failure (engine.py:90, 146, 161).                               *)
LatestFailure ==
  LET failed == {i \in DOMAIN stepAttempts : stepAttempts[i].branch = "on_failure"}
  IN IF failed = {} THEN UnknownFailure
     ELSE LET error == stepAttempts[Max(failed)].error
          IN IF error = NoText THEN ExpectationMismatch ELSE error

ReasonIsLatestFailure ==
  /\ \A i \in DOMAIN sends : sends[i].reason = LatestFailure
  /\ \A i \in DOMAIN textLog :
        textLog[i].event = "escalation" => textLog[i].reason = LatestFailure

(* A dry run asks nothing of the target and of the notifiers, its rows are *)
(* one simulated success per step of the on_success path, and its preview  *)
(* shows, for exactly the ssh steps on that path, where each may branch to *)
(* (engine.py:99-127).                                                     *)
DryRunInert ==
  dry =>
    /\ calls = <<>> /\ sends = <<>> /\ notifications = <<>>
    /\ \A i \in 1..Len(path) - 1 : path[i + 1] = rb.steps[path[i]].onSuccess
    /\ \A i \in DOMAIN stepAttempts :
          stepAttempts[i].success /\ stepAttempts[i].branch = "simulated"
    /\ \A s \in DOMAIN branchMap :
          branchMap[s] = <<rb.steps[s].onSuccess, rb.steps[s].onFailure>>
    /\ pc = "returned" =>
         /\ DOMAIN branchMap = {s \in Range(path) : rb.steps[s].type = "ssh"}
         /\ [i \in DOMAIN stepAttempts |-> stepAttempts[i].step] = Front(path)

----------------------------------------------------------------------------
(* The events the database stands for, in the order it was written.        *)
StoreTrail ==
  IF execution = NoExecution THEN <<>>
  ELSE <<ExecutionStartEvent(execution.dryRun)>>
       \o [i \in DOMAIN stepAttempts |-> StepAttemptEvent(stepAttempts[i])]
       \o [i \in DOMAIN notifications |-> NotificationEvent(notifications[i])]
       \o IF execution.status = "running" THEN <<>>
          ELSE <<ExecutionEndEvent(execution.status)>>

(* The event of the text log that no row stands for.                       *)
Escalations == {i \in DOMAIN textLog : textLog[i].event = "escalation"}

(* The three records of a run agree up to the write under way: the text    *)
(* log, but for at most one escalation event, is the database's history,   *)
(* at most one event behind it (the store comes first), and the JSON log   *)
(* is at most one event behind the text log, at whatever point the run was *)
(* stopped (audit.py:165-170).                                             *)
AuditPrefix ==
  /\ \E text \in {textLog} \union {RemoveAt(textLog, i) : i \in Escalations} :
        IsPrefix(text, StoreTrail) /\ Len(StoreTrail) <= Len(text) + 1
  /\ IsPrefix(jsonlLog, textLog) /\ Len(textLog) <= Len(jsonlLog) + 1

(* What run returns is what was recorded: the status, the number of        *)
(* attempts, and a path whose ssh steps are those with rows.               *)
ResultAgreesWithRecords ==
  pc = "returned" =>
    /\ execution.status = final /\ final \in FinalStatus
    /\ attempts = Len(stepAttempts)
    /\ {s \in Range(path) : rb.steps[s].type = "ssh"}
         = {stepAttempts[i].step : i \in DOMAIN stepAttempts}
    /\ rb.steps[Last(path)].type = (IF final = "success" THEN "end"
                                    ELSE IF final = "escalated" THEN "escalate"
                                    ELSE rb.steps[Last(path)].type)
    /\ Len(textLog) = Len(jsonlLog) /\ Last(textLog) = ExecutionEndEvent(final)

(* Two attempts of one step are at least retry_delay apart, so a target    *)
(* that is restarting gets the time the runbook gives it; in real time,    *)
(* whatever the wall clock was set to between them (engine.py:264).        *)
RetrySpacing ==
  \A i \in 1..Len(calls) - 1 :
     calls[i + 1].step = calls[i].step =>
        calls[i + 1].at >= calls[i].at + rb.steps[calls[i].step].retryDelay

----------------------------------------------------------------------------
(* Records are never rewritten: rows and events are only added, and an     *)
(* execution that has a final status keeps it and gets no more rows.       *)
AppendOnly ==
  [][ /\ IsPrefix(stepAttempts, stepAttempts')
      /\ IsPrefix(notifications, notifications')
      /\ IsPrefix(textLog, textLog') /\ IsPrefix(jsonlLog, jsonlLog')
      /\ execution.status \in FinalStatus => UNCHANGED storeVars ]_vars

(* How far a run is from its end: the steps it has not entered, the tries  *)
(* its step or its escalation has left, and the place in the code, writing *)
(* the two files of an event counted in.  While an event is written the    *)
(* run is already at the point that comes after it.                        *)
Point == IF pc \in WritePoint THEN After(event) ELSE pc

Places == [record_start |-> 9, execute |-> 8, record_attempt |-> 7,
           record_notification |-> 6, branch |-> 5, notify |-> 4,
           dispatch |-> 3, record_end |-> 2, returned |-> 1]

TriesLeft ==
  CASE Point = "execute" -> TotalAttempts(Step) - attempt
    [] Point \in {"record_attempt", "branch"} -> TotalAttempts(Step) - row.attempt
    [] Point \in {"notify", "record_notification"} -> Len(Notifiers) + 1 - next
    [] OTHER -> 0

Writing == CASE pc = "write_text" -> 2 [] pc = "write_jsonl" -> 1 [] OTHER -> 0

Distance == <<Cardinality(DOMAIN rb.steps \ Range(path)), TriesLeft,
              3 * Places[Point] + Writing>>

(* Below in the lexicographic order of triples of naturals, which has no   *)
(* infinite descent.                                                       *)
Below(d, e) ==
  /\ d \in Nat \X Nat \X Nat
  /\ \/ d[1] < e[1]
     \/ d[1] = e[1] /\ d[2] < e[2]
     \/ d[1] = e[1] /\ d[2] = e[2] /\ d[3] < e[3]

(* Every step a run takes without failing brings it nearer its end: it     *)
(* cannot go on for ever, round a cycle of the runbook, through retries    *)
(* (engine.py:92, 209) or among its notifiers, and can only wait for an    *)
(* answer.                                                                 *)
RunAdvances ==
  [][pc' # pc /\ pc' \notin {"raised", "crashed"} => Below(Distance', Distance)]_vars

(* ARCHITECTURE.md, Data Flow 7: "Persistence and audit layers capture     *)
(* every attempt and outcome."  A run that ended other than by a crash     *)
(* has a row for every command it asked for.                               *)
EveryAttemptCaptured ==
  pc \in {"returned", "raised"} /\ ~dry => Len(stepAttempts) = Len(calls)
=============================================================================
