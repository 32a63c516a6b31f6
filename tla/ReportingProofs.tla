-------------------------- MODULE ReportingProofs ----------------------------
(***************************************************************************)
(* Proofs about Reporting, for every set of compiled runbooks and every    *)
(* list of notifiers: what a summary read while a run goes on says of it.  *)
(* The order of the rows rests on an invariant of the engine: the attempts *)
(* of a step are written in the order of their numbers, and a step is not  *)
(* met twice.                                                              *)
(***************************************************************************)
EXTENDS Reporting, EngineRecordProofs, FiniteSetTheorems

----------------------------------------------------------------------------
(* The order the attempts are written in.                                  *)

(* Rows of one step are written in the order of their numbers.             *)
Ordered(rows) ==
  \A i, j \in 1..Len(rows) :
     i < j /\ rows[i].step = rows[j].step => rows[i].attempt < rows[j].attempt

(* The attempt with number n of step s comes after all rows.               *)
Follows(s, n) ==
  \A i \in 1..Len(stepAttempts) : stepAttempts[i].step = s => stepAttempts[i].attempt < n

OrderInv ==
  /\ Ordered(stepAttempts)
  /\ Point = "execute" => Follows(cur, attempt)
  /\ Point = "record_attempt" => Follows(cur, row.attempt)

LEMMA OrderInit == Init => OrderInv
BY DEF Init, OrderInv, Ordered, Follows, Point, WritePoint, StoreInit

(* A step that writes no attempt and starts none keeps the order.          *)
LEMMA OrderFrame ==
  ASSUME OrderInv, UNCHANGED stepAttempts,
         \/ UNCHANGED <<Point, cur, attempt, row>>
         \/ Point' \notin {"execute", "record_attempt"}
  PROVE  OrderInv'
BY DEF OrderInv, Ordered, Follows

(* No attempt of a step is written before the step is entered.             *)
LEMMA EnteredFresh ==
  ASSUME Inv, WalkInv, StepsInv, EnterStep, rb' = rb
  PROVE  \A i \in 1..Len(stepAttempts) : stepAttempts[i].step # cur
<1>1. path \in Seq(DOMAIN rb.steps) /\ path' = Append(path, cur) /\ Compiled(rb)
      /\ cur \in DOMAIN rb.steps
  BY DEF Inv, RunTypeOK, EnterStep
<1>2. path' \in Seq(DOMAIN rb.steps) /\ Len(path') = Len(path) + 1 /\ Len(path) \in Nat
      /\ path'[Len(path')] = cur /\ \A k \in 1..Len(path) : path'[k] = path[k]
  BY <1>1
<1>3. IsSimple(path')
  <2>1. IsWalk(rb, path')
    BY EnterStepWalk DEF IsWalk
  <2> QED BY <1>1, <1>2, <2>1, WalkIsSimple
<1>4. cur \notin Range(path)
  <2>1. \A k \in 1..Len(path) : path[k] # cur
    BY <1>2, <1>3 DEF IsSimple
  <2> QED BY <1>1, <2>1 DEF Range
<1> QED BY <1>4 DEF StepsInv, RowSteps, SSHStepsOn

LEMMA OrderEnter ==
  Inv /\ WalkInv /\ StepsInv /\ OrderInv /\ (DispatchDryRun \/ DispatchSSH) => OrderInv'
<1> SUFFICES ASSUME Inv, WalkInv, StepsInv, OrderInv, DispatchDryRun \/ DispatchSSH
             PROVE  OrderInv'
  OBVIOUS
<1>1. EnterStep /\ UNCHANGED <<rb, stepAttempts, cur>>
  BY DEF DispatchDryRun, DispatchSSH, storeVars, inputVars
<1>2. \A i \in 1..Len(stepAttempts) : stepAttempts[i].step # cur
  BY <1>1, EnteredFresh
<1> QED BY <1>1, <1>2 DEF OrderInv, Ordered, Follows

LEMMA OrderExecute ==
  Inv /\ OrderInv /\ (\E result \in ExecutionResult : Execute(result)) => OrderInv'
<1> SUFFICES ASSUME Inv, OrderInv, NEW result \in ExecutionResult, Execute(result)
             PROVE  OrderInv'
  OBVIOUS
<1>1. /\ Point = "execute" /\ Point' = "record_attempt" /\ UNCHANGED <<stepAttempts, cur>>
      /\ row'.attempt = attempt
  BY DEF Execute, Point, WritePoint, storeVars, walkVars
<1> QED BY <1>1 DEF OrderInv, Ordered, Follows

LEMMA OrderRecord == Inv /\ OrderInv /\ RecordAttempt => OrderInv'
<1> SUFFICES ASSUME Inv, OrderInv, RecordAttempt PROVE OrderInv'
  OBVIOUS
<1>1. /\ stepAttempts' = Append(stepAttempts, row)
      /\ Point = "record_attempt" /\ Point' = "branch"
  BY Points DEF RecordAttempt, RecordStepAttempt
<1>2. stepAttempts \in Seq(RowSet) /\ row.step = cur /\ Follows(cur, row.attempt)
  BY <1>1 DEF Inv, RunTypeOK, Control, AtRecordAttempt, OrderInv
<1>3. /\ Len(stepAttempts) \in Nat /\ Len(stepAttempts') = Len(stepAttempts) + 1
      /\ stepAttempts'[Len(stepAttempts) + 1] = row
      /\ \A i \in 1..Len(stepAttempts) : stepAttempts'[i] = stepAttempts[i]
  BY <1>1, <1>2, AppendIs
<1>4. ASSUME NEW i \in 1..Len(stepAttempts'), NEW j \in 1..Len(stepAttempts'), i < j,
             stepAttempts'[i].step = stepAttempts'[j].step
      PROVE  stepAttempts'[i].attempt < stepAttempts'[j].attempt
  <2>1. i \in 1..Len(stepAttempts) /\ stepAttempts'[i] = stepAttempts[i]
    BY <1>3, <1>4
  <2>2. CASE j \in 1..Len(stepAttempts)
    BY <1>3, <1>4, <2>1, <2>2 DEF OrderInv, Ordered
  <2>3. CASE j = Len(stepAttempts) + 1
    BY <1>2, <1>3, <1>4, <2>1, <2>3 DEF Follows
  <2> QED BY <1>3, <2>2, <2>3
<1> QED BY <1>1, <1>4 DEF OrderInv, Ordered

(* The next attempt of a step has the next number.                         *)
LEMMA OrderRetry == Inv /\ OrderInv /\ Retry => OrderInv'
<1> SUFFICES ASSUME Inv, OrderInv, Retry PROVE OrderInv'
  OBVIOUS
<1>1. /\ pc = "branch" /\ Point = "branch" /\ Point' = "execute" /\ row.branch = "retry"
      /\ UNCHANGED <<stepAttempts, cur>> /\ attempt' = attempt + 1
  BY Points DEF Retry, walkVars, storeVars
<1>2. AtBranch /\ stepAttempts[Len(stepAttempts)] = row /\ row.step = cur
  BY <1>1, BranchFacts
<1>3. row.attempt = attempt /\ attempt \in Nat /\ stepAttempts \in Seq(RowSet)
  BY <1>1, <1>2 DEF AtBranch, Inv, RunTypeOK
<1>4. ASSUME NEW i \in 1..Len(stepAttempts), stepAttempts[i].step = cur
      PROVE  stepAttempts[i].attempt < attempt'
  <2>1. stepAttempts[i] \in RowSet
    BY <1>3
  <2>2. stepAttempts[i].attempt \in Nat
    BY <2>1 DEF RowSet
  <2>3. CASE i = Len(stepAttempts)
    BY <1>1, <1>2, <1>3, <2>3
  <2>4. CASE i < Len(stepAttempts)
    <3>1. Len(stepAttempts) \in 1..Len(stepAttempts)
      BY <1>3, <2>4
    <3>2. stepAttempts[i].attempt < row.attempt
      BY <1>2, <1>4, <2>4, <3>1 DEF OrderInv, Ordered
    <3> QED BY <1>1, <1>3, <2>2, <3>2
  <2> QED BY <1>3, <2>3, <2>4
<1> QED BY <1>1, <1>4 DEF OrderInv, Ordered, Follows

LEMMA OrderNext == Inv /\ WalkInv /\ StepsInv /\ OrderInv /\ [Next]_vars => OrderInv'
<1> SUFFICES ASSUME Inv, WalkInv, StepsInv, OrderInv, [Next]_vars PROVE OrderInv'
  OBVIOUS
<1> USE DEF inputVars, stepVars, storeVars, walkVars
<1>1. CASE WriteText \/ WriteJsonl
  <2>1. UNCHANGED <<Point, cur, attempt, row, stepAttempts>>
    BY <1>1, WritePoints DEF WriteText, WriteJsonl
  <2> QED BY <2>1, OrderFrame
<1>2. CASE DispatchDryRun \/ DispatchSSH
  BY <1>2, OrderEnter
<1>3. CASE \E result \in ExecutionResult : Execute(result)
  BY <1>3, OrderExecute
<1>4. CASE RecordAttempt
  BY <1>4, OrderRecord
<1>5. CASE Retry
  BY <1>5, OrderRetry
<1>6. CASE \/ RecordStart \/ DispatchEscalate \/ DispatchEnd \/ RecordNotificationResult
           \/ FollowSimulated \/ FollowSuccess \/ FollowFailure
           \/ FinishEscalation \/ RecordEnd \/ Fault
           \/ \E outcome \in SendOutcome : SendNotifier(outcome)
  <2>1. UNCHANGED stepAttempts
    BY <1>6 DEF RecordStart, RecordExecutionStart, DispatchEscalate, DispatchEnd,
       FollowSimulated, FollowSuccess, FollowFailure, SendNotifier,
       RecordNotificationResult, RecordNotification, FinishEscalation, RecordEnd,
       RecordExecutionEnd, Fault, WriteFails, ExecutorRaises, Crash
  <2>2. (\E outcome \in SendOutcome : SendNotifier(outcome)) => Point' = "record_notification"
    BY DEF SendNotifier, Point, WritePoint
  <2>3. Point' \notin {"execute", "record_attempt"}
    BY <1>6, <2>2, Points
  <2> QED BY <2>1, <2>3, OrderFrame
<1>7. CASE Tick \/ UNCHANGED vars
  <2>1. UNCHANGED <<Point, cur, attempt, row, stepAttempts>>
    BY <1>7, Points DEF Tick, vars, Point
  <2> QED BY <2>1, OrderFrame
<1> QED BY <1>1, <1>2, <1>3, <1>4, <1>5, <1>6, <1>7
        DEF Next, RunStep, OwnStep, Terminated

----------------------------------------------------------------------------
(* The end of the run.                                                     *)

(* A closed execution has all its notifications and a line in either file. *)
CloseInv ==
  /\ Point = "record_end" /\ final # "escalated" => notifications = <<>>
  /\ execution.status \in FinalStatus =>
       /\ Len(notifications) = IF execution.status = "escalated" THEN Len(Notifiers) ELSE 0
       /\ textLog # <<>> /\ jsonlLog # <<>>

LEMMA CloseInit == Init => CloseInv
BY DEF Init, CloseInv, StoreInit, NoExecution, FinalStatus, Point, WritePoint

LEMMA CloseFrame ==
  ASSUME Inv, LogInv, CloseInv, [Next]_vars, UNCHANGED <<execution, notifications>>,
         \/ UNCHANGED <<Point, final>>
         \/ Point' # "record_end"
         \/ Point' = "record_end" /\ (final' = "escalated" \/ notifications = <<>>)
  PROVE  CloseInv'
<1>1. textLog \in Seq(Event) /\ jsonlLog \in Seq(Event)
  BY DEF LogInv
<1>2. ASSUME NEW s \in Seq(Event), NEW t, Grows(s, t), s # <<>> PROVE t # <<>>
  <2>1. ASSUME NEW e, t = Append(s, e) PROVE t # <<>>
    <3>1. Len(t) = Len(s) + 1 /\ Len(s) \in Nat
      BY <2>1, AppendIs
    <3> QED BY <3>1
  <2> QED BY <1>2, <2>1 DEF Grows
<1>3. (textLog # <<>> => textLog' # <<>>) /\ (jsonlLog # <<>> => jsonlLog' # <<>>)
  BY <1>1, <1>2, RecordsGrow
<1> QED BY <1>3 DEF CloseInv

LEMMA CloseEnd == Inv /\ LogInv /\ FilesInv /\ LengthInv /\ CloseInv /\ RecordEnd => CloseInv'
<1> SUFFICES ASSUME Inv, LogInv, FilesInv, LengthInv, CloseInv, RecordEnd PROVE CloseInv'
  OBVIOUS
<1>1. /\ pc = "record_end" /\ Point = "record_end" /\ Point' = "returned"
      /\ execution' = [execution EXCEPT !.status = final] /\ UNCHANGED <<notifications, logVars>>
  BY Points DEF RecordEnd, RecordExecutionEnd
<1>2. /\ execution = [status |-> "running", dryRun |-> dry] /\ AtRecordEnd
      /\ stepAttempts \in Seq(RowSet) /\ notifications \in Seq(NoteRow)
  BY <1>1 DEF Inv, Control, RunTypeOK
<1>3. execution'.status = final
  BY <1>1, <1>2
<1>4. Len(notifications) = IF final = "escalated" THEN Len(Notifiers) ELSE 0
  <2>1. CASE final = "escalated"
    BY <1>2, <2>1 DEF AtRecordEnd
  <2>2. CASE final # "escalated"
    <3>1. notifications = <<>>
      BY <1>1, <2>2 DEF CloseInv
    <3> QED BY <2>2, <3>1
  <2> QED BY <2>1, <2>2
<1>5. Len(textLog) > 0 /\ Len(jsonlLog) > 0
  <2>1. Started = 1 /\ Ended = 0 /\ Escalated \in {0, 1}
    BY <1>2 DEF Started, Ended, Escalated, NoExecution, FinalStatus
  <2>2. Len(stepAttempts) \in Nat /\ Len(notifications) \in Nat
    BY <1>2
  <2>3. Len(textLog) = Started + Len(stepAttempts) + Len(notifications) + Escalated + Ended
    BY <1>1, LogsAtRest DEF WritePoint
  <2>4. Len(jsonlLog) = Len(textLog)
    BY <1>1 DEF FilesInv
  <2> QED BY <2>1, <2>2, <2>3, <2>4
<1>6. textLog' # <<>> /\ jsonlLog' # <<>>
  BY <1>1, <1>5 DEF logVars
<1> QED BY <1>1, <1>3, <1>4, <1>6 DEF CloseInv

LEMMA CloseNext ==
  Inv /\ LogInv /\ FilesInv /\ LengthInv /\ CloseInv /\ [Next]_vars => CloseInv'
<1> SUFFICES ASSUME Inv, LogInv, FilesInv, LengthInv, CloseInv, [Next]_vars PROVE CloseInv'
  OBVIOUS
<1> USE DEF walkVars, storeVars
<1>1. CASE WriteText \/ WriteJsonl
  <2>1. UNCHANGED <<Point, final, execution, notifications>>
    BY <1>1, WritePoints DEF WriteText, WriteJsonl
  <2> QED BY <2>1, CloseFrame
<1>2. CASE RecordStart
  <2>1. execution'.status = "running" /\ Point' = "dispatch"
    BY <1>2, Points DEF RecordStart, RecordExecutionStart
  <2> QED BY <2>1 DEF CloseInv, FinalStatus
<1>3. CASE DispatchEscalate \/ DispatchEnd
  <2>1. EnterStep /\ UNCHANGED <<execution, notifications>>
    BY <1>3 DEF DispatchEscalate, DispatchEnd
  <2>2. notifications = <<>>
    BY <2>1, DispatchFacts
  <2> QED BY <2>1, <2>2, CloseFrame
<1>4. CASE FinishEscalation
  <2>1. UNCHANGED <<execution, notifications, final>> /\ Point = "notify"
    BY <1>4, Points DEF FinishEscalation
  <2>2. final' = "escalated"
    BY <2>1 DEF Inv, Control, AtNotify
  <2> QED BY <2>1, <2>2, CloseFrame
<1>5. CASE RecordNotificationResult
  <2>1. /\ execution' = execution /\ Point = "record_notification" /\ Point' = "notify"
    BY <1>5, Points DEF RecordNotificationResult, RecordNotification
  <2>2. execution' = [status |-> "running", dryRun |-> dry]
    BY <2>1 DEF Inv, Control
  <2> QED BY <2>1, <2>2 DEF CloseInv, FinalStatus
<1>6. CASE RecordEnd
  BY <1>6, CloseEnd
<1>7. CASE \/ DispatchDryRun \/ DispatchSSH \/ RecordAttempt \/ FollowSimulated
           \/ FollowSuccess \/ Retry \/ FollowFailure \/ Fault
           \/ \E result \in ExecutionResult : Execute(result)
           \/ \E outcome \in SendOutcome : SendNotifier(outcome)
  <2>1. UNCHANGED <<execution, notifications>>
    BY <1>7 DEF DispatchDryRun, DispatchSSH, RecordAttempt, RecordStepAttempt,
       FollowSimulated, FollowSuccess, Retry, FollowFailure, Fault, WriteFails,
       ExecutorRaises, Crash, Execute, SendNotifier
  <2>2. /\ (\E outcome \in SendOutcome : SendNotifier(outcome)) => Point' = "record_notification"
        /\ (\E result \in ExecutionResult : Execute(result)) => Point' = "record_attempt"
    BY DEF SendNotifier, Execute, Point, WritePoint
  <2>3. Point' # "record_end"
    BY <1>7, <2>2, Points
  <2> QED BY <2>1, <2>3, CloseFrame
<1>8. CASE Tick \/ UNCHANGED vars
  <2>1. UNCHANGED <<Point, final, execution, notifications>>
    BY <1>8, Points DEF Tick, vars, Point
  <2> QED BY <2>1, CloseFrame
<1> QED BY <1>1, <1>2, <1>3, <1>4, <1>5, <1>6, <1>7, <1>8
        DEF Next, RunStep, OwnStep, Terminated

----------------------------------------------------------------------------
(* What a query returns.                                                   *)

SameRows(s, t) == ToSet(s) = ToSet(t) /\ Len(s) = Len(t)

(* Rows in another order are the same rows: an injection of a finite set   *)
(* into itself leaves none out.                                            *)
LEMMA Permuted ==
  ASSUME NEW S, NEW rows \in Seq(S), NEW p \in [DOMAIN rows -> DOMAIN rows],
         \A i, j \in DOMAIN rows : i # j => p[i] # p[j]
  PROVE  SameRows([i \in DOMAIN rows |-> rows[p[i]]], rows)
<1> DEFINE D == DOMAIN rows
           t == [i \in D |-> rows[p[i]]]
<1>1. D = 1..Len(rows) /\ Len(rows) \in Nat /\ IsFiniteSet(D)
  <2>1. D = 1..Len(rows) /\ Len(rows) \in Nat
    OBVIOUS
  <2> QED BY <2>1, FS_Interval
<1>2. p \in Injection(D, D)
  BY DEF Injection, IsInjective
<1>3. p \in Surjection(D, D)
  BY <1>1, <1>2, FS_Injection
<1>4. \A k \in D : \E i \in D : p[i] = k
  BY <1>3 DEF Surjection
<1>5. t \in Seq(S) /\ DOMAIN t = D /\ Len(t) = Len(rows)
  BY <1>1
<1>6. ToSet(t) = ToSet(rows)
  BY <1>4, <1>5 DEF ToSet
<1> QED BY <1>5, <1>6 DEF SameRows

(* The attempts come in the order of their seconds, those of one step as   *)
(* they were written if the clock was not set back.                        *)
(* Forward, of the first n rows.                                           *)
ForwardTo(s, n) ==
  \A i, j \in 1..n :
     i < j /\ stepAttempts[i].step = s /\ stepAttempts[j].step = s
       => stepAttempts[i].startedAt <= stepAttempts[j].startedAt

InPlace(a, b, n) == IF a.step = b.step THEN ForwardTo(a.step, n) => a.attempt < b.attempt
                                       ELSE a.startedAt <= b.startedAt

Listed(rows) ==
  /\ Len(rows) \in Nat /\ Len(rows) <= Len(stepAttempts)
  /\ \A i, j \in DOMAIN rows : i < j => InPlace(rows[i], rows[j], Len(rows))

(* Rows to come say nothing of those that were read.                       *)
LEMMA ListedGrows ==
  ASSUME NEW rows, Inv, Listed(rows), Grows(stepAttempts, stepAttempts')
  PROVE  Listed(rows)'
<1>1. stepAttempts \in Seq(RowSet)
  BY DEF Inv, RunTypeOK
<1>2. /\ Len(stepAttempts) <= Len(stepAttempts')
      /\ \A i \in 1..Len(stepAttempts) : stepAttempts'[i] = stepAttempts[i]
  <2>1. ASSUME NEW e, stepAttempts' = Append(stepAttempts, e)
        PROVE  /\ Len(stepAttempts) <= Len(stepAttempts')
               /\ \A i \in 1..Len(stepAttempts) : stepAttempts'[i] = stepAttempts[i]
    BY <1>1, <2>1, AppendIs
  <2>2. CASE stepAttempts' = stepAttempts
    BY <1>1, <2>2
  <2> QED BY <2>1, <2>2 DEF Grows
<1>3. Len(rows) \in Nat /\ Len(rows) <= Len(stepAttempts) /\ Len(rows) <= Len(stepAttempts')
  <2>1. Len(stepAttempts) \in Nat /\ Len(stepAttempts') \in Int
    BY <1>1, AppendIs DEF Grows
  <2> QED BY <1>2, <2>1 DEF Listed
<1>4. \A s : ForwardTo(s, Len(rows))' = ForwardTo(s, Len(rows))
  <2>1. \A i \in 1..Len(rows) : stepAttempts'[i] = stepAttempts[i]
    BY <1>1, <1>2, <1>3
  <2> QED BY <2>1 DEF ForwardTo
<1> QED BY <1>3, <1>4 DEF Listed, InPlace

LEMMA AttemptsListed ==
  ASSUME Inv, OrderInv, NEW rows \in Orders(stepAttempts, AttemptBefore)
  PROVE  SameRows(rows, stepAttempts) /\ Listed(rows)
<1> DEFINE D == DOMAIN stepAttempts
<1>1. PICK p \in [D -> D] :
        /\ \A i, j \in D : i # j => p[i] # p[j]
        /\ \A i, j \in D : i < j => ~AttemptBefore(stepAttempts[p[j]], stepAttempts[p[i]])
        /\ rows = [i \in D |-> stepAttempts[p[i]]]
  BY DEF Orders
<1>2. /\ stepAttempts \in Seq(RowSet) /\ D = 1..Len(stepAttempts)
      /\ D \subseteq Nat
  BY DEF Inv, RunTypeOK
<1>3. SameRows(rows, stepAttempts)
  BY <1>1, <1>2, Permuted
<1>4. ASSUME NEW i \in D, NEW j \in D, i < j
      PROVE  InPlace(rows[i], rows[j], Len(rows))
  <2> DEFINE a == stepAttempts[p[i]]
             b == stepAttempts[p[j]]
  <2>1. /\ p[i] \in D /\ p[j] \in D /\ p[i] # p[j] /\ rows[i] = a /\ rows[j] = b
        /\ a \in RowSet /\ b \in RowSet /\ ~AttemptBefore(b, a)
    <3>1. i # j /\ p[i] \in D /\ p[j] \in D
      BY <1>1, <1>2, <1>4
    <3> QED BY <1>1, <1>2, <1>4, <3>1
  <2>2. a.step = b.step => /\ p[i] < p[j] => a.attempt < b.attempt
                           /\ p[j] < p[i] => b.attempt < a.attempt
    BY <1>2, <2>1 DEF OrderInv, Ordered
  <2>3. a.step = b.step /\ ForwardTo(a.step, Len(rows)) /\ p[j] < p[i]
          => b.startedAt <= a.startedAt
    BY <1>2, <1>3, <2>1 DEF ForwardTo, SameRows
  <2>4. p[i] < p[j] \/ p[j] < p[i]
    BY <1>2, <2>1
  <2> HIDE DEF a, b
  <2>5. /\ a.startedAt \in Nat /\ b.startedAt \in Nat /\ a.attempt \in Nat /\ b.attempt \in Nat
    BY <2>1 DEF RowSet
  <2>6. /\ ~(b.startedAt < a.startedAt)
        /\ ~(b.startedAt = a.startedAt /\ b.attempt < a.attempt)
    BY <2>1 DEF AttemptBefore
  <2>7. a.step = b.step /\ ForwardTo(a.step, Len(rows)) => a.attempt < b.attempt
    BY <2>2, <2>3, <2>4, <2>5, <2>6
  <2> QED BY <2>1, <2>5, <2>6, <2>7 DEF InPlace
<1>5. DOMAIN rows = D
  BY <1>1
<1>6. Len(rows) = Len(stepAttempts) /\ Len(stepAttempts) \in Nat
  BY <1>2, <1>3 DEF SameRows
<1> QED BY <1>3, <1>4, <1>5, <1>6 DEF Listed

LEMMA NotesListed ==
  ASSUME Inv, NEW rows \in Orders(notifications, NoteBefore)
  PROVE  SameRows(rows, notifications)
<1> DEFINE D == DOMAIN notifications
<1>1. PICK p \in [D -> D] :
        /\ \A i, j \in D : i # j => p[i] # p[j]
        /\ rows = [i \in D |-> notifications[p[i]]]
  BY DEF Orders
<1> QED BY <1>1, Permuted DEF Inv, RunTypeOK

----------------------------------------------------------------------------
(* The reader.                                                             *)

EngineInv == /\ Inv /\ WalkInv /\ StepsInv /\ OrderInv
             /\ LogInv /\ FilesInv /\ LengthInv /\ CloseInv

LEMMA EngineInit == Init => EngineInv
BY InitInv, WalkInit, StepsInit, OrderInit, LogStart, FilesInit, EmptyInit, CloseInit
   DEF EngineInv

LEMMA EngineNext == EngineInv /\ [Next]_vars => EngineInv'
BY NextInv, WalkNext, StepsNext, OrderNext, LogNext, FilesNext, LengthNext, CloseNext
   DEF EngineInv

(* What the summary holds when the reader stands at rpc.  Once it shows a  *)
(* final status, no row is added any more.                                 *)
AfterAttempts == {"list_notifications", "look_for_log", "look_for_jsonl", "reported"}
AfterNotes    == AfterAttempts \ {"list_notifications"}
AfterLog      == AfterNotes \ {"look_for_log"}

SeenInv ==
  /\ seen = [execution |-> seen.execution, attempts |-> seen.attempts, notes |-> seen.notes,
             log |-> seen.log, jsonl |-> seen.jsonl]
  /\ rpc \in AfterAttempts => Listed(seen.attempts)
  /\ seen.execution.status \in FinalStatus =>
       /\ execution = seen.execution
       /\ rpc \in AfterAttempts => SameRows(seen.attempts, stepAttempts)
       /\ rpc \in AfterNotes => SameRows(seen.notes, notifications)
       /\ rpc \in AfterLog => seen.log
       /\ rpc = "reported" => seen.jsonl

LEMMA SeenInit == ReaderInit => SeenInv
BY DEF ReaderInit, SeenInv, NoExecution, FinalStatus, AfterAttempts, AfterNotes, AfterLog

(* A step of the engine adds nothing to a closed execution.                *)
LEMMA SeenByEngine == EngineInv /\ SeenInv /\ [Next]_vars /\ UNCHANGED readerVars => SeenInv'
<1> SUFFICES ASSUME EngineInv, SeenInv, [Next]_vars, UNCHANGED readerVars PROVE SeenInv'
  OBVIOUS
<1>1. UNCHANGED <<rpc, seen>>
  BY DEF readerVars
<1>2. seen.execution.status \in FinalStatus => UNCHANGED storeVars
  BY ClosedIsOver, RecordsGrow DEF EngineInv, SeenInv
<1>3. rpc \in AfterAttempts => Listed(seen.attempts)'
  <2>1. Grows(stepAttempts, stepAttempts') /\ Inv
    BY RecordsGrow DEF EngineInv
  <2>2. Listed(seen.attempts) => Listed(seen.attempts)'
    <3>1. ASSUME NEW rows, Listed(rows) PROVE Listed(rows)'
      BY <2>1, <3>1, ListedGrows
    <3> QED BY <1>1, <3>1 DEF Listed, InPlace
  <2> QED BY <2>2 DEF SeenInv
<1> QED BY <1>1, <1>2, <1>3 DEF SeenInv, storeVars

LEMMA SeenByReader == EngineInv /\ SeenInv /\ Read => SeenInv'
<1> SUFFICES ASSUME EngineInv, SeenInv, Read PROVE SeenInv'
  OBVIOUS
<1> USE DEF AfterAttempts, AfterNotes, AfterLog
<1>1. UNCHANGED vars
  BY DEF Read, GetExecution, ListStepAttempts, ListNotifications, LookForLog, LookForJsonl
<1>2. UNCHANGED <<execution, stepAttempts, notifications, textLog, jsonlLog>>
  BY <1>1 DEF vars
<1>3. execution.status \in FinalStatus => textLog # <<>> /\ jsonlLog # <<>>
  BY DEF EngineInv, CloseInv
<1>4. CASE GetExecution
  <2>1. CASE execution = NoExecution
    <3>1. UNCHANGED seen /\ rpc' = "not_found"
      BY <1>4, <2>1 DEF GetExecution
    <3> QED BY <1>2, <3>1 DEF SeenInv
  <2>2. CASE execution # NoExecution
    <3>1. seen' = [seen EXCEPT !.execution = execution] /\ rpc' = "list_attempts"
      BY <1>4, <2>2 DEF GetExecution
    <3> QED BY <1>2, <3>1 DEF SeenInv
  <2> QED BY <2>1, <2>2
<1>5. CASE ListStepAttempts
  <2>1. PICK rows \in Orders(stepAttempts, AttemptBefore) :
          seen' = [seen EXCEPT !.attempts = rows]
    BY <1>5 DEF ListStepAttempts
  <2>2. rpc = "list_attempts" /\ rpc' = "list_notifications"
    BY <1>5 DEF ListStepAttempts
  <2>3. SameRows(rows, stepAttempts) /\ Listed(rows)
    BY AttemptsListed DEF EngineInv
  <2>4. seen' = [execution |-> seen.execution, attempts |-> rows, notes |-> seen.notes,
                 log |-> seen.log, jsonl |-> seen.jsonl]
    BY <2>1 DEF SeenInv
  <2>5. (SameRows(seen.attempts, stepAttempts) /\ Listed(seen.attempts))'
    <3>1. seen'.attempts = rows
      BY <2>4
    <3> QED BY <1>2, <2>3, <3>1 DEF SameRows, Listed, InPlace, ForwardTo
  <2> QED BY <1>2, <2>2, <2>4, <2>5 DEF SeenInv
<1>6. CASE ListNotifications
  <2>1. PICK rows \in Orders(notifications, NoteBefore) :
          seen' = [seen EXCEPT !.notes = rows]
    BY <1>6 DEF ListNotifications
  <2>2. rpc = "list_notifications" /\ rpc' = "look_for_log"
    BY <1>6 DEF ListNotifications
  <2>3. SameRows(rows, notifications)
    BY NotesListed DEF EngineInv
  <2>4. seen' = [execution |-> seen.execution, attempts |-> seen.attempts, notes |-> rows,
                 log |-> seen.log, jsonl |-> seen.jsonl]
    BY <2>1 DEF SeenInv
  <2>5. SameRows(seen.notes, notifications)'
    <3>1. seen'.notes = rows
      BY <2>4
    <3> QED BY <1>2, <2>3, <3>1 DEF SameRows
  <2>6. (seen'.attempts = seen.attempts) /\ seen'.execution = seen.execution
    BY <2>4
  <2>7. /\ Listed(seen.attempts)'
        /\ seen'.execution.status \in FinalStatus =>
             execution' = seen'.execution /\ SameRows(seen.attempts, stepAttempts)'
    BY <1>2, <2>2, <2>6 DEF SeenInv, SameRows, Listed, InPlace, ForwardTo
  <2> QED BY <2>2, <2>4, <2>5, <2>7 DEF SeenInv
<1>7. CASE LookForLog
  <2>1. /\ rpc = "look_for_log" /\ rpc' = "look_for_jsonl"
        /\ seen' = [seen EXCEPT !.log = (textLog # <<>>)]
    BY <1>7 DEF LookForLog
  <2>2. seen' = [execution |-> seen.execution, attempts |-> seen.attempts, notes |-> seen.notes,
                 log |-> (textLog # <<>>), jsonl |-> seen.jsonl]
    BY <2>1 DEF SeenInv
  <2> HIDE DEF SeenInv
  <2>3. /\ seen'.attempts = seen.attempts /\ seen'.execution = seen.execution
        /\ seen'.notes = seen.notes /\ seen'.log = (textLog # <<>>)
    BY <2>2
  <2>4. /\ Listed(seen.attempts)'
        /\ seen'.execution.status \in FinalStatus =>
             /\ execution' = seen'.execution /\ SameRows(seen.attempts, stepAttempts)'
             /\ SameRows(seen.notes, notifications)'
    BY <1>2, <2>1, <2>3 DEF SeenInv, SameRows, Listed, InPlace, ForwardTo
  <2>5. seen'.execution.status \in FinalStatus => seen'.log
    BY <1>3, <2>3 DEF SeenInv
  <2> QED BY <2>1, <2>2, <2>4, <2>5 DEF SeenInv
<1>8. CASE LookForJsonl
  <2>1. /\ rpc = "look_for_jsonl" /\ rpc' = "reported"
        /\ seen' = [seen EXCEPT !.jsonl = (jsonlLog # <<>>)]
    BY <1>8 DEF LookForJsonl
  <2>2. seen' = [execution |-> seen.execution, attempts |-> seen.attempts, notes |-> seen.notes,
                 log |-> seen.log, jsonl |-> (jsonlLog # <<>>)]
    BY <2>1 DEF SeenInv
  <2>3. /\ seen'.attempts = seen.attempts /\ seen'.execution = seen.execution
        /\ seen'.notes = seen.notes /\ seen'.log = seen.log
        /\ seen'.jsonl = (jsonlLog # <<>>)
    BY <2>2
  <2>4. /\ Listed(seen.attempts)'
        /\ seen'.execution.status \in FinalStatus =>
             /\ execution' = seen'.execution /\ SameRows(seen.attempts, stepAttempts)'
             /\ SameRows(seen.notes, notifications)' /\ seen'.log
    BY <1>2, <2>1, <2>3 DEF SeenInv, SameRows, Listed, InPlace, ForwardTo
  <2>5. seen'.execution.status \in FinalStatus => seen'.jsonl
    BY <1>3, <2>3 DEF SeenInv
  <2> QED BY <2>1, <2>2, <2>4, <2>5 DEF SeenInv
<1> QED BY <1>4, <1>5, <1>6, <1>7, <1>8 DEF Read

LEMMA ReportNext ==
  EngineInv /\ SeenInv /\ [(Next /\ UNCHANGED readerVars) \/ Read]_reportVars
    => EngineInv' /\ SeenInv'
<1> SUFFICES ASSUME EngineInv, SeenInv, [(Next /\ UNCHANGED readerVars) \/ Read]_reportVars
             PROVE  EngineInv' /\ SeenInv'
  OBVIOUS
<1>1. CASE Read
  <2>1. UNCHANGED vars
    BY <1>1 DEF Read, GetExecution, ListStepAttempts, ListNotifications, LookForLog, LookForJsonl
  <2> QED BY <1>1, <2>1, EngineNext, SeenByReader
<1>2. CASE Next /\ UNCHANGED readerVars
  BY <1>2, EngineNext, SeenByEngine
<1>3. CASE UNCHANGED reportVars
  BY <1>3, EngineNext, SeenByEngine DEF reportVars, readerVars
<1> QED BY <1>1, <1>2, <1>3

(* A summary with a final status is complete, although it is read in five  *)
(* looks while the run may go on: the status is written last and read      *)
(* first (reporting.py:36-53, engine.py:180).                              *)
THEOREM SummaryComplete == Report => []FinalSummaryComplete
<1>1. EngineInv /\ SeenInv => FinalSummaryComplete
  BY DEF EngineInv, CloseInv, SeenInv, SameRows, FinalSummaryComplete, AfterAttempts,
     AfterNotes, AfterLog
<1> QED BY <1>1, EngineInit, SeenInit, ReportNext, PTL DEF Report

(* The attempts of a step are listed in the order they were made, whatever *)
(* the database does with equal seconds (persistence.py:267), unless the   *)
(* clock was set back between them.                                        *)
THEOREM AttemptsInOrder == Report => []ListedInStepOrder
<1>1. SeenInv => ListedInStepOrder
  BY DEF SeenInv, Listed, InPlace, ListedInStepOrder, AfterAttempts, Forward, ForwardTo
<1> QED BY <1>1, EngineInit, SeenInit, ReportNext, PTL DEF Report
=============================================================================
