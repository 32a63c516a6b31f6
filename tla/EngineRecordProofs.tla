------------------------- MODULE EngineRecordProofs --------------------------
(***************************************************************************)
(* Proofs about what a run leaves behind and tells: its notifications are  *)
(* those it sent but for at most one, an escalated run has told every      *)
(* notifier, retries keep their distance, no record is ever rewritten, the *)
(* reason humans are given is that of the latest failure, a dry run only   *)
(* looks, and the result it returns is what the records say.               *)
(***************************************************************************)
EXTENDS EngineProofs

----------------------------------------------------------------------------
(* The notifications.                                                      *)

(* A row, or one about to be written, agrees with what was sent.           *)
SameNote(n, s) == n.notifier = s.notifier /\ (n.status = "sent" <=> s.outcome = "delivered")

Paired == /\ Len(notifications) <= Len(sends)
          /\ \A i \in 1..Len(notifications) : SameNote(notifications[i], sends[i])

InOrder == \A i \in 1..Len(sends) : sends[i].notifier = Notifiers[i]

NoteInv ==
  /\ sends \in Seq(Send)
  /\ Paired /\ Len(sends) <= Len(notifications) + 1
  /\ InOrder
  /\ Point \in {"record_start", "dispatch"} \union InLoop => sends = <<>>
  /\ Point \in {"notify", "record_end"} => Len(sends) = Len(notifications)
  /\ Point = "record_notification" =>
       Len(sends) = Len(notifications) + 1 /\ SameNote(note, sends[Len(sends)])
  /\ execution.status = "escalated" => Len(sends) = Len(Notifiers)

LEMMA NoteInit == Init => NoteInv
BY DEF Init, NoteInv, Paired, InOrder, StoreInit, NoExecution, Point, WritePoint

(* A step that neither sends nor records a notification.                   *)
LEMMA NoteFrame ==
  ASSUME NoteInv, UNCHANGED <<sends, notifications>>,
         execution' = execution \/ execution'.status # "escalated",
         \/ Point' = Point /\ note' = note
         \/ Point' \in {"returned", "raised", "crashed"}
         \/ Point \in {"record_start", "dispatch"} \union InLoop
              /\ Len(notifications) = 0 /\ Point' # "record_notification"
         \/ Point = "notify" /\ Point' = "record_end"
  PROVE  NoteInv'
<1>1. Paired' /\ InOrder'
  BY DEF NoteInv, Paired, InOrder
<1>2. Point \in {"record_start", "dispatch"} \union InLoop => Len(sends) = 0
  BY DEF NoteInv
<1> QED BY <1>1, <1>2 DEF NoteInv, InLoop

LEMMA NoteSent == Inv /\ NoteInv /\ (\E outcome \in SendOutcome : SendNotifier(outcome)) => NoteInv'
<1> SUFFICES ASSUME Inv, NoteInv, NEW outcome \in SendOutcome, SendNotifier(outcome)
             PROVE  NoteInv'
  OBVIOUS
<1> DEFINE send == [notifier |-> Notifiers[next], step |-> cur, reason |-> reason,
                    outcome |-> outcome]
<1>1. /\ pc = "notify" /\ next \in 1..Len(Notifiers) /\ cur \in StepIds /\ reason \in Reason
      /\ Len(notifications) = next - 1 /\ execution.status = "running"
  BY NotifyFacts, NotifiersAssumption DEF SendNotifier, AtNotify, Inv, RunTypeOK
<1>2. Notifiers[next] \in NotifierSet /\ send \in Send
  BY <1>1 DEF NotifierSet, Send
<1>3. /\ Point = "notify" /\ Point' = "record_notification"
      /\ sends' = Append(sends, send) /\ UNCHANGED <<notifications, execution>>
  BY DEF SendNotifier, Point, WritePoint, storeVars
<1>4. SameNote(note', send)
  BY <1>1 DEF SendNotifier, SameNote, NoteStatus
<1>5. /\ sends \in Seq(Send) /\ Len(sends) \in Nat /\ Len(sends) = Len(notifications)
      /\ sends' \in Seq(Send) /\ Len(sends') = Len(sends) + 1
      /\ sends'[Len(sends')] = send /\ \A i \in 1..Len(sends) : sends'[i] = sends[i]
  BY <1>2, <1>3 DEF NoteInv
<1>6. Paired'
  BY <1>3, <1>5 DEF NoteInv, Paired
<1>7. InOrder'
  <2> SUFFICES ASSUME NEW i \in 1..Len(sends') PROVE sends'[i].notifier = Notifiers[i]
    BY DEF InOrder
  <2>1. CASE i = Len(sends')
    BY <1>1, <1>5, <2>1
  <2>2. CASE i # Len(sends')
    BY <1>5, <2>2 DEF NoteInv, InOrder
  <2> QED BY <2>1, <2>2
<1> QED BY <1>1, <1>3, <1>4, <1>5, <1>6, <1>7 DEF NoteInv, InLoop

LEMMA NoteRecorded == Inv /\ NoteInv /\ RecordNotificationResult => NoteInv'
<1> SUFFICES ASSUME Inv, NoteInv, RecordNotificationResult PROVE NoteInv'
  OBVIOUS
<1> DEFINE new == [step |-> note.step, notifier |-> note.notifier,
                   status |-> note.status, sentAt |-> now.wall]
<1>1. /\ Point = "record_notification" /\ Point' = "notify"
      /\ notifications' = Append(notifications, new) /\ UNCHANGED <<sends, execution>>
  BY Points DEF RecordNotificationResult, RecordNotification, worldVars
<1>2. notifications \in Seq(NoteRow) /\ execution.status = "running"
  BY <1>1 DEF Inv, RunTypeOK, Control
<1>3. /\ Len(notifications) \in Nat /\ Len(notifications') = Len(notifications) + 1
      /\ notifications'[Len(notifications')] = new
      /\ \A i \in 1..Len(notifications) : notifications'[i] = notifications[i]
  BY <1>1, <1>2
<1>4. Len(sends) = Len(notifications) + 1 /\ SameNote(new, sends[Len(sends)])
  BY <1>1 DEF NoteInv, SameNote
<1>5. Paired'
  <2> SUFFICES ASSUME NEW i \in 1..Len(notifications')
               PROVE  SameNote(notifications'[i], sends[i])
    BY <1>1, <1>3, <1>4 DEF Paired
  <2>1. CASE i = Len(notifications')
    BY <1>3, <1>4, <2>1
  <2>2. CASE i # Len(notifications')
    BY <1>3, <2>2 DEF NoteInv, Paired
  <2> QED BY <2>1, <2>2
<1> QED BY <1>1, <1>2, <1>3, <1>4, <1>5 DEF NoteInv, InOrder, InLoop

(* The end of an escalation is recorded after its last notification.       *)
LEMMA NoteEnd == Inv /\ NoteInv /\ RecordEnd => NoteInv'
<1> SUFFICES ASSUME Inv, NoteInv, RecordEnd PROVE NoteInv'
  OBVIOUS
<1>1. /\ Point = "record_end" /\ Point' = "returned" /\ UNCHANGED <<sends, notifications>>
      /\ execution' = [execution EXCEPT !.status = final]
  BY Points DEF RecordEnd, RecordExecutionEnd, worldVars
<1>2. execution = [status |-> "running", dryRun |-> dry] /\ AtRecordEnd
  BY <1>1 DEF Inv, Control
<1>3. execution'.status = final /\ Len(sends) = Len(notifications)
  BY <1>1, <1>2 DEF NoteInv
<1>4. final = "escalated" => Len(notifications) = Len(Notifiers)
  BY <1>2 DEF AtRecordEnd
<1> QED BY <1>1, <1>3, <1>4 DEF NoteInv, Paired, InOrder, InLoop

LEMMA NoteNext == Inv /\ NoteInv /\ [Next]_vars => NoteInv'
<1> SUFFICES ASSUME Inv, NoteInv, [Next]_vars PROVE NoteInv'
  OBVIOUS
<1> USE DEF noteVars, worldVars, storeVars
<1>1. CASE WriteText \/ WriteJsonl
  <2>1. Point' = Point /\ UNCHANGED <<note, sends, notifications, execution>>
    BY <1>1, WritePoints DEF WriteText, WriteJsonl
  <2> QED BY <2>1, NoteFrame
<1>2. CASE \/ RecordStart
           \/ DispatchDryRun \/ DispatchSSH \/ DispatchEscalate \/ DispatchEnd
           \/ RecordAttempt \/ FollowSimulated \/ FollowSuccess \/ Retry \/ FollowFailure
           \/ \E result \in ExecutionResult : Execute(result)
  <2>1. UNCHANGED <<sends, notifications>>
        /\ (execution' = execution \/ execution'.status = "running")
    BY <1>2 DEF RecordStart, RecordExecutionStart, DispatchDryRun, DispatchSSH,
       DispatchEscalate, DispatchEnd, RecordAttempt, RecordStepAttempt,
       FollowSimulated, FollowSuccess, Retry, FollowFailure, Execute
  <2>2. DispatchDryRun \/ DispatchSSH \/ DispatchEscalate \/ DispatchEnd => EnterStep
    BY DEF DispatchDryRun, DispatchSSH, DispatchEscalate, DispatchEnd
  <2>3. (\E result \in ExecutionResult : Execute(result)) =>
          Point = "execute" /\ Point' = "record_attempt"
    BY DEF Execute, Point, WritePoint
  <2>4. /\ Point \in {"record_start", "dispatch"} \union InLoop
        /\ Point' # "record_notification"
    BY <1>2, <2>2, <2>3, Points DEF InLoop
  <2>5. Len(notifications) = 0
    BY <2>4 DEF Inv, Control, Fresh, InLoop
  <2> QED BY <2>1, <2>4, <2>5, NoteFrame
<1>3. CASE \E outcome \in SendOutcome : SendNotifier(outcome)
  BY <1>3, NoteSent
<1>4. CASE RecordNotificationResult
  BY <1>4, NoteRecorded
<1>5. CASE FinishEscalation
  <2>1. Point = "notify" /\ Point' = "record_end" /\ UNCHANGED <<sends, notifications, execution>>
    BY <1>5, Points DEF FinishEscalation
  <2> QED BY <2>1, NoteFrame
<1>6. CASE RecordEnd
  BY <1>6, NoteEnd
<1>7. CASE Fault
  <2>1. Point' \in {"raised", "crashed"} /\ UNCHANGED <<sends, notifications, execution>>
    BY <1>7, Points DEF Fault, WriteFails, ExecutorRaises, Crash
  <2> QED BY <2>1, NoteFrame
<1>8. CASE Tick \/ UNCHANGED vars
  <2>1. Point' = Point /\ UNCHANGED <<note, sends, notifications, execution>>
    BY <1>8, Points DEF Tick, vars, Point
  <2> QED BY <2>1, NoteFrame
<1> QED BY <1>1, <1>2, <1>3, <1>4, <1>5, <1>6, <1>7, <1>8 DEF Next, RunStep, OwnStep, Terminated

(* Wherever a run is cut off, its notification rows are those of what it   *)
(* sent but for at most the last, and none calls delivered what was not.   *)
THEOREM NotificationsRecorded == Spec => []NotificationInDoubtAtMostOne
<1>1. Inv /\ NoteInv => NotificationInDoubtAtMostOne
  <2> SUFFICES ASSUME Inv, NoteInv PROVE NotificationInDoubtAtMostOne
    OBVIOUS
  <2>1. sends \in Seq(Send) /\ notifications \in Seq(NoteRow)
    BY DEF Inv, RunTypeOK, NoteInv
  <2> QED BY <2>1 DEF NoteInv, Paired, SameNote, NotificationInDoubtAtMostOne
<1> QED BY <1>1, InitInv, NextInv, NoteInit, NoteNext, PTL DEF Spec

(* Every notifier was handed the step the run stands at, and the reason.   *)
SameStory == \A i \in 1..Len(sends) :
               sends[i].step = path[Len(path)] /\ sends[i].reason = reason

StoryInv ==
  /\ SameStory
  /\ Point \in {"notify", "record_notification"} => path # <<>> /\ path[Len(path)] = cur

LEMMA StoryInit == Init => StoryInv
BY DEF Init, StoryInv, SameStory, Point, WritePoint

LEMMA StorySent ==
  Inv /\ NoteInv /\ StoryInv /\ (\E outcome \in SendOutcome : SendNotifier(outcome)) => StoryInv'
<1> SUFFICES ASSUME Inv, NoteInv, StoryInv, NEW outcome \in SendOutcome, SendNotifier(outcome)
             PROVE  StoryInv'
  OBVIOUS
<1> DEFINE send == [notifier |-> Notifiers[next], step |-> cur, reason |-> reason,
                    outcome |-> outcome]
<1>1. /\ Point = "notify" /\ UNCHANGED <<path, cur, reason>> /\ sends' = Append(sends, send)
  BY DEF SendNotifier, Point, WritePoint, walkVars
<1>2. sends \in Seq(Send)
  BY DEF NoteInv
<1>3. /\ Len(sends) \in Nat /\ Len(sends') = Len(sends) + 1
      /\ sends'[Len(sends')] = send /\ \A i \in 1..Len(sends) : sends'[i] = sends[i]
  BY <1>1, <1>2
<1>4. path # <<>> /\ path[Len(path)] = cur /\ SameStory
  BY <1>1 DEF StoryInv
<1>5. ASSUME NEW i \in 1..Len(sends')
      PROVE  sends'[i].step = path[Len(path)] /\ sends'[i].reason = reason
  <2>1. CASE i = Len(sends')
    BY <1>3, <1>4, <2>1
  <2>2. CASE i # Len(sends')
    <3>1. i \in 1..Len(sends) /\ sends'[i] = sends[i]
      BY <1>3, <2>2
    <3> QED BY <1>4, <3>1 DEF SameStory
  <2> QED BY <2>1, <2>2
<1> QED BY <1>1, <1>4, <1>5 DEF StoryInv, SameStory

LEMMA StoryNext == Inv /\ NoteInv /\ StoryInv /\ [Next]_vars => StoryInv'
<1> SUFFICES ASSUME Inv, NoteInv, StoryInv, [Next]_vars PROVE StoryInv'
  OBVIOUS
<1> USE DEF worldVars, walkVars
<1>1. CASE WriteText \/ WriteJsonl
  <2>1. Point' = Point /\ UNCHANGED <<sends, path, cur, reason>>
    BY <1>1, WritePoints DEF WriteText, WriteJsonl
  <2> QED BY <2>1 DEF StoryInv, SameStory
<1>2. CASE \/ RecordStart \/ RecordAttempt \/ Retry \/ FinishEscalation \/ RecordEnd \/ Fault
           \/ \E result \in ExecutionResult : Execute(result)
  <2>1. UNCHANGED <<sends, path, reason>>
    BY <1>2 DEF RecordStart, RecordAttempt, Retry, FinishEscalation, RecordEnd, Fault,
       WriteFails, ExecutorRaises, Crash, Execute
  <2>2. (\E result \in ExecutionResult : Execute(result)) => Point' = "record_attempt"
    BY DEF Execute, Point, WritePoint
  <2>3. Point' \notin {"notify", "record_notification"}
    BY <1>2, <2>2, Points
  <2> QED BY <2>1, <2>3 DEF StoryInv, SameStory
<1>3. CASE DispatchDryRun \/ DispatchSSH \/ DispatchEscalate \/ DispatchEnd
  <2>1. EnterStep /\ UNCHANGED <<sends, cur>> /\ path \in Seq(DOMAIN rb.steps)
    BY <1>3 DEF DispatchDryRun, DispatchSSH, DispatchEscalate, DispatchEnd, Inv, RunTypeOK
  <2>2. path' # <<>> /\ path'[Len(path')] = cur /\ Point = "dispatch"
    BY <2>1, Points DEF EnterStep
  <2>3. Len(sends') = 0
    BY <2>1, <2>2 DEF NoteInv
  <2> QED BY <2>1, <2>2, <2>3 DEF StoryInv, SameStory
<1>4. CASE FollowSimulated \/ FollowSuccess \/ FollowFailure
  <2>1. Point = "branch" /\ Point' = "dispatch" /\ sends' = sends
    BY <1>4, Points DEF FollowSimulated, FollowSuccess, FollowFailure
  <2>2. Len(sends') = 0
    BY <2>1 DEF NoteInv, InLoop
  <2> QED BY <2>1, <2>2 DEF StoryInv, SameStory
<1>5. CASE \E outcome \in SendOutcome : SendNotifier(outcome)
  BY <1>5, StorySent
<1>6. CASE RecordNotificationResult
  <2>1. Point = "record_notification" /\ UNCHANGED <<sends, path, cur, reason>>
    BY <1>6, Points DEF RecordNotificationResult
  <2> QED BY <2>1 DEF StoryInv, SameStory
<1>7. CASE Tick \/ UNCHANGED vars
  <2>1. Point' = Point /\ UNCHANGED <<sends, path, cur, reason>>
    BY <1>7, Points DEF Tick, vars, Point
  <2> QED BY <2>1 DEF StoryInv, SameStory
<1> QED BY <1>1, <1>2, <1>3, <1>4, <1>5, <1>6, <1>7 DEF Next, RunStep, OwnStep, Terminated

(* A run recorded as escalated has handed its notification to every        *)
(* notifier, once and in order, for the step it ended at and for one and   *)
(* the same reason, whatever became of the ones before.                    *)
THEOREM EveryNotifierTold == Spec => []EscalationFanOut
<1>1. Inv /\ NoteInv /\ StoryInv => EscalationFanOut
  <2> SUFFICES ASSUME Inv, NoteInv, StoryInv, execution.status = "escalated"
               PROVE  /\ Len(sends) = Len(Notifiers)
                      /\ \A i \in DOMAIN sends :
                            /\ sends[i].notifier = Notifiers[i]
                            /\ sends[i].step = Last(path)
                            /\ sends[i].reason = sends[1].reason
    BY DEF EscalationFanOut
  <2>1. sends \in Seq(Send) /\ Len(sends) = Len(Notifiers) /\ InOrder /\ SameStory
    BY DEF NoteInv, StoryInv
  <2>2. DOMAIN sends = 1..Len(sends) /\ Len(sends) \in Nat
    BY <2>1
  <2>3. ASSUME NEW i \in 1..Len(sends)
        PROVE  /\ sends[i].notifier = Notifiers[i] /\ sends[i].step = path[Len(path)]
               /\ sends[i].reason = sends[1].reason
    <3>1. 1 \in 1..Len(sends)
      BY <2>2
    <3> QED BY <2>1, <3>1 DEF InOrder, SameStory
  <2> QED BY <2>1, <2>2, <2>3 DEF Last
<1> QED BY <1>1, InitInv, NextInv, NoteInit, NoteNext, StoryInit, StoryNext, PTL DEF Spec

----------------------------------------------------------------------------
(* The distance between attempts.                                          *)

(* The time before which a step may not be asked for again.                *)
DueAt(c) == c.at + rb.steps[c.step].retryDelay

Spaced == /\ \A i \in 1..Len(calls) :
               DueAt(calls[i]) \in Nat /\ calls[i].at <= now.elapsed
          /\ \A i \in 1..Len(calls) - 1 :
               calls[i + 1].step = calls[i].step => calls[i + 1].at >= DueAt(calls[i])

(* The next call would keep its distance.                                  *)
InTime == calls # <<>> /\ calls[Len(calls)].step = cur
            => now.elapsed >= DueAt(calls[Len(calls)])

SpacingInv == Spaced /\ (Point = "execute" => InTime)

LEMMA SpacingInit == Init => SpacingInv
BY DEF Init, SpacingInv, Spaced, Point, WritePoint

LEMMA SpacingFrame ==
  ASSUME SpacingInv, UNCHANGED <<rb, calls, now>>,
         UNCHANGED <<Point, cur>> \/ Point' # "execute"
  PROVE  SpacingInv'
BY DEF SpacingInv, Spaced, InTime, DueAt

(* A step that is entered was never asked for before.                      *)
LEMMA SpacingEnter ==
  Inv /\ WalkInv /\ BudgetInv /\ SpacingInv /\ DispatchSSH => SpacingInv'
<1> SUFFICES ASSUME Inv, WalkInv, BudgetInv, SpacingInv, DispatchSSH PROVE SpacingInv'
  OBVIOUS
<1>1. EnterStep /\ UNCHANGED <<rb, cur, calls, now>>
  BY DEF DispatchSSH, inputVars, worldVars
<1>2. \A i \in 1..Len(calls) : calls[i].step # cur
  BY <1>1, EnteredOnce
<1>3. calls \in Seq(CallSet)
  BY DEF Inv, RunTypeOK
<1>4. calls # <<>> => calls[Len(calls)].step # cur
  BY <1>2, <1>3
<1> QED BY <1>1, <1>4 DEF SpacingInv, Spaced, InTime, DueAt

LEMMA SpacingCall ==
  ASSUME Inv, SpacingInv, Point = "execute", UNCHANGED <<rb, now>>,
         calls' = Append(calls, Call), Point' # "execute"
  PROVE  SpacingInv'
<1>1. calls \in Seq(CallSet) /\ now.elapsed \in Nat /\ Step \in SSHStep
  BY DEF Inv, RunTypeOK, Clock, Control, AtExecute, IsSSH
<1>2. /\ Len(calls) \in Nat /\ Len(calls') = Len(calls) + 1
      /\ calls'[Len(calls')] = Call
      /\ \A i \in 1..Len(calls) : calls'[i] = calls[i]
  BY <1>1
<1>3. Call.at = now.elapsed /\ Call.step = cur
  BY DEF Call
<1>4. DueAt(Call) \in Nat
  <2>1. Step.retryDelay \in Nat
    BY <1>1, SSHStepFields
  <2> QED BY <1>1, <1>3, <2>1 DEF DueAt, Step
<1>5. ASSUME NEW i \in 1..Len(calls')
      PROVE  DueAt(calls'[i]) \in Nat /\ calls'[i].at <= now.elapsed
  <2>1. CASE i = Len(calls')
    BY <1>1, <1>2, <1>3, <1>4, <2>1
  <2>2. CASE i # Len(calls')
    <3>1. i \in 1..Len(calls) /\ calls'[i] = calls[i]
      BY <1>2, <2>2
    <3> QED BY <3>1 DEF SpacingInv, Spaced
  <2> QED BY <2>1, <2>2
<1>6. ASSUME NEW i \in 1..Len(calls') - 1, calls'[i + 1].step = calls'[i].step
      PROVE  calls'[i + 1].at >= DueAt(calls'[i])
  <2>1. i \in 1..Len(calls) /\ calls'[i] = calls[i]
    BY <1>2
  <2>2. CASE i = Len(calls)
    <3>1. calls[Len(calls)].step = cur /\ calls # <<>> /\ calls'[i + 1] = Call
      BY <1>2, <1>3, <1>6, <2>1, <2>2
    <3>2. now.elapsed >= DueAt(calls[Len(calls)])
      BY <3>1 DEF SpacingInv, InTime
    <3> QED BY <1>3, <2>1, <2>2, <3>1, <3>2
  <2>3. CASE i # Len(calls)
    <3>1. i \in 1..Len(calls) - 1 /\ calls'[i + 1] = calls[i + 1]
      BY <1>2, <2>1, <2>3
    <3> QED BY <1>6, <2>1, <3>1 DEF SpacingInv, Spaced
  <2> QED BY <2>2, <2>3
<1>7. Spaced'
  BY <1>5, <1>6 DEF Spaced, DueAt
<1> QED BY <1>7 DEF SpacingInv

(* sleep_fn comes between an attempt and the one that follows it.          *)
LEMMA SpacingRetry == Inv /\ SpacingInv /\ Retry => SpacingInv'
<1> SUFFICES ASSUME Inv, SpacingInv, Retry PROVE SpacingInv'
  OBVIOUS
<1>1. /\ pc = "branch" /\ UNCHANGED <<rb, cur, calls>>
      /\ now'.elapsed = now.elapsed + Step.retryDelay
  BY DEF Retry, inputVars, walkVars, worldVars
<1>2. Step.retryDelay \in Nat /\ now.elapsed \in Nat /\ calls \in Seq(CallSet)
  BY <1>1, BranchFacts DEF Inv, RunTypeOK, Clock
<1>3. \A i \in 1..Len(calls) : calls[i].at \in Nat
  <2>1. \A i \in 1..Len(calls) : calls[i] \in CallSet
    BY <1>2
  <2> QED BY <2>1 DEF CallSet
<1>4. now'.elapsed \in Nat /\ now'.elapsed >= now.elapsed
  <2>1. now.elapsed + Step.retryDelay \in Nat /\ now.elapsed + Step.retryDelay >= now.elapsed
    BY <1>2
  <2> QED BY <1>1, <2>1, Zenon
<1>a. ASSUME NEW n \in Nat, n <= now.elapsed
      PROVE  n <= now'.elapsed
  <2>1. n <= now.elapsed + Step.retryDelay
    BY <1>2, <1>a
  <2> QED BY <1>1, <2>1, Zenon
<1>5. Spaced'
  BY <1>1, <1>3, <1>a DEF SpacingInv, Spaced, DueAt
<1>6. ASSUME calls # <<>>, calls[Len(calls)].step = cur
      PROVE  now'.elapsed >= DueAt(calls[Len(calls)])
  <2>1. Len(calls) \in 1..Len(calls)
    BY <1>2, <1>6
  <2>2. calls[Len(calls)].at \in Nat /\ calls[Len(calls)].at <= now.elapsed
    BY <1>3, <2>1 DEF SpacingInv, Spaced
  <2>3. now.elapsed + Step.retryDelay >= calls[Len(calls)].at + Step.retryDelay
    BY <1>2, <2>2
  <2>4. now'.elapsed >= calls[Len(calls)].at + Step.retryDelay
    BY <1>1, <2>3, Zenon
  <2> QED BY <1>6, <2>4 DEF DueAt, Step
<1>7. InTime'
  BY <1>1, <1>6 DEF InTime, DueAt
<1> QED BY <1>5, <1>7 DEF SpacingInv

LEMMA SpacingTick == Inv /\ SpacingInv /\ Tick => SpacingInv'
<1> SUFFICES ASSUME Inv, SpacingInv, Tick PROVE SpacingInv'
  OBVIOUS
<1>1. /\ UNCHANGED <<Point, rb, cur, calls>> /\ now.elapsed \in Nat
      /\ now'.elapsed = now.elapsed + 1
  BY Points DEF Tick, inputVars, walkVars, worldVars, Inv, RunTypeOK, Clock
<1>2. calls \in Seq(CallSet)
  BY DEF Inv, RunTypeOK
<1>3. \A i \in 1..Len(calls) : calls[i].at \in Nat
  <2>1. \A i \in 1..Len(calls) : calls[i] \in CallSet
    BY <1>2
  <2> QED BY <2>1 DEF CallSet
<1>4. ASSUME NEW n \in Nat
      PROVE  /\ now.elapsed >= n => now'.elapsed >= n
             /\ n <= now.elapsed => n <= now'.elapsed
  <2>1. /\ now.elapsed >= n => now.elapsed + 1 >= n
        /\ n <= now.elapsed => n <= now.elapsed + 1
    BY <1>1
  <2> QED BY <1>1, <2>1, Zenon
<1>5. Spaced'
  BY <1>1, <1>3, <1>4 DEF SpacingInv, Spaced, DueAt
<1>6. Point = "execute" => InTime'
  <2> SUFFICES ASSUME Point = "execute", calls # <<>>, calls[Len(calls)].step = cur
               PROVE  now'.elapsed >= DueAt(calls[Len(calls)])
    BY <1>1 DEF InTime, DueAt
  <2>1. Len(calls) \in 1..Len(calls)
    BY <1>2
  <2>2. now.elapsed >= DueAt(calls[Len(calls)]) /\ DueAt(calls[Len(calls)]) \in Nat
    BY <2>1 DEF SpacingInv, InTime, Spaced
  <2> QED BY <1>4, <2>2
<1> QED BY <1>1, <1>5, <1>6 DEF SpacingInv

LEMMA SpacingNext == Inv /\ WalkInv /\ BudgetInv /\ SpacingInv /\ [Next]_vars => SpacingInv'
<1> SUFFICES ASSUME Inv, WalkInv, BudgetInv, SpacingInv, [Next]_vars PROVE SpacingInv'
  OBVIOUS
<1> USE DEF inputVars, walkVars, worldVars
<1>1. CASE WriteText \/ WriteJsonl
  <2>1. UNCHANGED <<Point, rb, cur, calls, now>>
    BY <1>1, WritePoints DEF WriteText, WriteJsonl
  <2> QED BY <2>1, SpacingFrame
<1>2. CASE \/ RecordStart \/ DispatchDryRun \/ DispatchEscalate \/ DispatchEnd
           \/ RecordAttempt \/ FollowSimulated \/ FollowSuccess \/ FollowFailure
           \/ RecordNotificationResult \/ FinishEscalation \/ RecordEnd
           \/ WriteFails \/ Crash
  <2>1. UNCHANGED <<rb, calls, now>>
    BY <1>2 DEF RecordStart, DispatchDryRun, DispatchEscalate, DispatchEnd, RecordAttempt,
       FollowSimulated, FollowSuccess, FollowFailure, RecordNotificationResult,
       FinishEscalation, RecordEnd, WriteFails, Crash
  <2>2. Point' # "execute"
    BY <1>2, Points DEF Fault
  <2> QED BY <2>1, <2>2, SpacingFrame
<1>3. CASE DispatchSSH
  BY <1>3, SpacingEnter
<1>4. CASE (\E result \in ExecutionResult : Execute(result)) \/ ExecutorRaises
  <2>1. /\ Point = "execute" /\ Point' # "execute" /\ UNCHANGED <<rb, now>>
        /\ calls' = Append(calls, Call)
    BY <1>4 DEF Execute, ExecutorRaises, Point, WritePoint
  <2> QED BY <2>1, SpacingCall
<1>5. CASE Retry
  BY <1>5, SpacingRetry
<1>6. CASE \E outcome \in SendOutcome : SendNotifier(outcome)
  <2>1. UNCHANGED <<rb, calls, now>> /\ Point' # "execute"
    BY <1>6 DEF SendNotifier, Point, WritePoint
  <2> QED BY <2>1, SpacingFrame
<1>7. CASE Tick
  BY <1>7, SpacingTick
<1>8. CASE UNCHANGED vars
  <2>1. UNCHANGED <<Point, rb, cur, calls, now>>
    BY <1>8 DEF vars, Point
  <2> QED BY <2>1, SpacingFrame
<1> QED BY <1>1, <1>2, <1>3, <1>4, <1>5, <1>6, <1>7, <1>8
        DEF Next, RunStep, OwnStep, Fault, Terminated

(* Two attempts of one step are at least its retry_delay apart, however    *)
(* long the calls between them take and whatever the clock shows.          *)
THEOREM AttemptsSpaced == Spec => []RetrySpacing
<1>1. Inv /\ SpacingInv => RetrySpacing
  BY DEF SpacingInv, Spaced, DueAt, RetrySpacing
<1> QED BY <1>1, InitInv, NextInv, WalkInit, WalkNext, BudgetInit, BudgetNext,
           SpacingInit, SpacingNext, PTL DEF Spec

----------------------------------------------------------------------------
(* The records are only added to.                                          *)

LogInv == /\ textLog \in Seq(Event) /\ jsonlLog \in Seq(Event)
          /\ event \in Event \union {NoEvent}
          /\ pc \in WritePoint => event \in Event

LEMMA LogStart == Init => LogInv
BY DEF Init, LogInit, LogInv, WritePoint

(* What is made of a row, a notification or a status is an event.          *)
LEMMA EventsOfRows ==
  /\ \A d \in BOOLEAN : ExecutionStartEvent(d) \in Event
  /\ \A r \in RowSet : StepAttemptEvent(r) \in Event
  /\ \A n \in Note : NotificationEvent(n) \in Event
  /\ \A f \in FinalStatus : ExecutionEndEvent(f) \in Event
<1>1. \A d \in BOOLEAN : ExecutionStartEvent(d) \in Event
  BY DEF ExecutionStartEvent, Event
<1>2. ASSUME NEW r \in RowSet PROVE StepAttemptEvent(r) \in Event
  <2>1. /\ r.step \in StepIds /\ r.attempt \in 1..11 /\ r.branch \in Branch
        /\ r.exit \in Codes \union {NoExit} /\ r.error \in Texts
    BY <1>2 DEF RowSet
  <2> QED BY <2>1 DEF StepAttemptEvent, Event
<1>3. \A n \in Note : NotificationEvent(n) \in Event
  BY DEF NotificationEvent, Event, Note
<1>4. \A f \in FinalStatus : ExecutionEndEvent(f) \in Event
  BY DEF ExecutionEndEvent, Event
<1> QED BY <1>1, <1>2, <1>3, <1>4

(* What is handed to the logger is an event.                               *)
LEMMA EventsAre ==
  /\ dry \in BOOLEAN => ExecutionStartEvent(dry) \in Event
  /\ row \in RowSet => StepAttemptEvent(row) \in Event
  /\ note \in Note => NotificationEvent(note) \in Event
  /\ cur \in StepIds /\ reason \in Reason => EscalationEvent(cur, reason) \in Event
  /\ final \in FinalStatus => ExecutionEndEvent(final) \in Event
<1>1. cur \in StepIds /\ reason \in Reason => EscalationEvent(cur, reason) \in Event
  BY DEF EscalationEvent, Event
<1> QED BY <1>1, EventsOfRows

LEMMA LogNext == Inv /\ LogInv /\ [Next]_vars => LogInv'
<1> SUFFICES ASSUME Inv, LogInv, [Next]_vars PROVE LogInv'
  OBVIOUS
<1>1. CASE WriteText \/ WriteJsonl
  <2>1. event \in Event /\ event' = event /\ event.event \in EventKinds
    BY <1>1 DEF LogInv, WriteText, WriteJsonl, WritePoint, Inv, Control
  <2>2. textLog' = textLog \/ textLog' = Append(textLog, event)
    BY <1>1 DEF WriteText, WriteJsonl, AppendText, AppendJsonl
  <2>3. jsonlLog' = jsonlLog \/ jsonlLog' = Append(jsonlLog, event)
    BY <1>1 DEF WriteText, WriteJsonl, AppendText, AppendJsonl
  <2>4. \A s \in Seq(Event) : Append(s, event) \in Seq(Event)
    BY <2>1
  <2> QED BY <2>1, <2>2, <2>3, <2>4 DEF LogInv
<1>2. CASE RecordStart
  <2>1. event' = ExecutionStartEvent(dry) /\ dry \in BOOLEAN /\ UNCHANGED logVars
    BY <1>2 DEF RecordStart, Log, Inv, RunTypeOK
  <2> QED BY <2>1, EventsAre DEF LogInv, logVars
<1>3. CASE RecordAttempt
  <2>1. event' = StepAttemptEvent(row) /\ row \in RowSet /\ UNCHANGED logVars
    BY <1>3, Points DEF RecordAttempt, Log, Inv, Control, AtRecordAttempt
  <2> QED BY <2>1, EventsAre DEF LogInv, logVars
<1>4. CASE RecordNotificationResult
  <2>1. event' = NotificationEvent(note) /\ note \in Note /\ UNCHANGED logVars
    BY <1>4, Points DEF RecordNotificationResult, Log, Inv, Control, AtRecordNotification
  <2> QED BY <2>1, EventsAre DEF LogInv, logVars
<1>5. CASE FinishEscalation
  <2>1. pc = "notify" /\ event' = EscalationEvent(cur, reason) /\ UNCHANGED logVars
    BY <1>5 DEF FinishEscalation, Log
  <2>2. cur \in StepIds /\ reason \in Reason
    BY <2>1, NotifyFacts DEF Inv, RunTypeOK
  <2> QED BY <2>1, <2>2, EventsAre DEF LogInv, logVars
<1>6. CASE RecordEnd
  <2>1. event' = ExecutionEndEvent(final) /\ UNCHANGED logVars /\ Point = "record_end"
    BY <1>6, Points DEF RecordEnd, Log
  <2>2. final \in FinalStatus
    BY <2>1 DEF Inv, Control, AtRecordEnd, FinalStatus
  <2> QED BY <2>1, <2>2, EventsAre DEF LogInv, logVars
<1>7. CASE \/ DispatchDryRun \/ DispatchSSH \/ DispatchEscalate \/ DispatchEnd
           \/ FollowSimulated \/ FollowSuccess \/ Retry \/ FollowFailure \/ Fault
           \/ \E result \in ExecutionResult : Execute(result)
           \/ \E outcome \in SendOutcome : SendNotifier(outcome)
  <2>1. UNCHANGED <<textLog, jsonlLog, event>> /\ pc' \notin WritePoint
    BY <1>7 DEF DispatchDryRun, DispatchSSH, DispatchEscalate, DispatchEnd,
       FollowSimulated, FollowSuccess, Retry, FollowFailure, Fault, WriteFails,
       ExecutorRaises, Crash, Execute, SendNotifier, logVars, WritePoint
  <2> QED BY <2>1 DEF LogInv
<1>8. CASE Tick \/ UNCHANGED vars
  BY <1>8 DEF Tick, vars, logVars, LogInv
<1> QED BY <1>1, <1>2, <1>3, <1>4, <1>5, <1>6, <1>7, <1>8 DEF Next, RunStep, OwnStep, Terminated

(* Every variable of the run, the store and the log has its type: what the *)
(* run keeps and the rows by the inductive invariant, the events by what   *)
(* is handed to the logger, the notifications by what is sent.             *)
THEOREM Typing == Spec => []TypeOK
<1>1. Inv /\ LogInv /\ NoteInv => TypeOK
  BY DEF Inv, LogInv, NoteInv, TypeOK, LogTypeOK
<1> QED BY <1>1, InitInv, NextInv, LogStart, LogNext, NoteInit, NoteNext, PTL DEF Spec

(* A record that grows keeps what it had.                                  *)
Grows(s, t) == t = s \/ \E e : t = Append(s, e)

LEMMA GrowsKeeps ==
  ASSUME NEW S, NEW s \in Seq(S), NEW t, Grows(s, t)
  PROVE  IsPrefix(s, t)
<1>1. CASE t = s
  BY <1>1 DEF IsPrefix
<1>2. ASSUME NEW e, t = Append(s, e) PROVE IsPrefix(s, t)
  <2> DEFINE T == S \union {e}
  <2>1. s \in Seq(T) /\ t \in Seq(T) /\ Len(t) = Len(s) + 1 /\ Len(s) \in Nat
    BY <1>2
  <2>2. \A i \in 1..Len(s) : t[i] = s[i]
    BY <1>2, <2>1
  <2>3. SubSeq(t, 1, Len(s)) = SubSeq(s, 1, Len(s))
    BY <2>1, <2>2
  <2> QED BY <2>1, <2>3 DEF IsPrefix
<1> QED BY <1>1, <1>2 DEF Grows

(* An execution with a final status is at the end of its run.              *)
LEMMA ClosedIsOver == Inv /\ execution.status \in FinalStatus => Point \in Stopped
<1> SUFFICES ASSUME Inv, execution.status \in FinalStatus PROVE Point \in Stopped
  OBVIOUS
<1>1. Point \in Stopped \union StorePoint \union {"dispatch", "execute", "branch", "notify"}
  <2>1. CASE pc \in WritePoint
    BY <2>1, AfterKinds DEF Inv, Control, Point, EventKinds, Stopped, StorePoint
  <2>2. CASE pc \notin WritePoint
    BY <2>2 DEF Inv, RunTypeOK, Point
  <2> QED BY <2>1, <2>2
<1>2. Point # "record_start"
  BY DEF Inv, Control, Fresh, NoExecution, FinalStatus
<1>3. Point \notin {"dispatch", "execute", "record_attempt", "branch", "notify",
                    "record_notification", "record_end"}
  BY DEF Inv, Control, FinalStatus
<1> QED BY <1>1, <1>2, <1>3 DEF StorePoint

LEMMA RecordsGrow ==
  ASSUME Inv, [Next]_vars
  PROVE  /\ Grows(stepAttempts, stepAttempts') /\ Grows(notifications, notifications')
         /\ Grows(textLog, textLog') /\ Grows(jsonlLog, jsonlLog')
         /\ Point \in Stopped => UNCHANGED storeVars
<1> USE DEF storeVars, logVars
<1>1. CASE WriteText \/ WriteJsonl
  BY <1>1 DEF WriteText, WriteJsonl, AppendText, AppendJsonl, Grows
<1>2. CASE RecordStart \/ RecordAttempt \/ RecordNotificationResult \/ RecordEnd
  <2>1. Point \in StorePoint
    BY <1>2, Points DEF StorePoint
  <2> QED BY <1>2, <2>1 DEF RecordStart, RecordExecutionStart, RecordAttempt,
         RecordStepAttempt, RecordNotificationResult, RecordNotification, RecordEnd,
         RecordExecutionEnd, Grows, Stopped, StorePoint
<1>3. CASE \/ DispatchDryRun \/ DispatchSSH \/ DispatchEscalate \/ DispatchEnd
           \/ FollowSimulated \/ FollowSuccess \/ Retry \/ FollowFailure
           \/ FinishEscalation \/ Fault \/ Tick \/ UNCHANGED vars
           \/ \E result \in ExecutionResult : Execute(result)
           \/ \E outcome \in SendOutcome : SendNotifier(outcome)
  <2>1. UNCHANGED <<storeVars, logVars>>
    BY <1>3 DEF DispatchDryRun, DispatchSSH, DispatchEscalate, DispatchEnd,
       FollowSimulated, FollowSuccess, Retry, FollowFailure, FinishEscalation, Fault,
       WriteFails, ExecutorRaises, Crash, Tick, vars, Execute, SendNotifier
  <2> QED BY <2>1 DEF Grows
<1> QED BY <1>1, <1>2, <1>3 DEF Next, RunStep, OwnStep, Terminated

(* No row and no event is ever changed or removed, and an execution that   *)
(* has its final status gets nothing more.                                 *)
THEOREM RecordsKept == Spec => AppendOnly
<1> DEFINE Kept == /\ IsPrefix(stepAttempts, stepAttempts')
                   /\ IsPrefix(notifications, notifications')
                   /\ IsPrefix(textLog, textLog') /\ IsPrefix(jsonlLog, jsonlLog')
                   /\ execution.status \in FinalStatus => UNCHANGED storeVars
<1>1. Inv /\ LogInv /\ [Next]_vars => [Kept]_vars
  <2> SUFFICES ASSUME Inv, LogInv, [Next]_vars PROVE Kept
    OBVIOUS
  <2>1. /\ stepAttempts \in Seq(RowSet) /\ notifications \in Seq(NoteRow)
        /\ textLog \in Seq(Event) /\ jsonlLog \in Seq(Event)
    BY DEF Inv, RunTypeOK, LogInv
  <2>2. IsPrefix(stepAttempts, stepAttempts') /\ IsPrefix(notifications, notifications')
    BY <2>1, RecordsGrow, GrowsKeeps
  <2>3. IsPrefix(textLog, textLog') /\ IsPrefix(jsonlLog, jsonlLog')
    BY <2>1, RecordsGrow, GrowsKeeps
  <2> QED BY <2>2, <2>3, RecordsGrow, ClosedIsOver
<1> QED BY <1>1, InitInv, NextInv, LogStart, LogNext, PTL DEF Spec, AppendOnly

----------------------------------------------------------------------------

----------------------------------------------------------------------------
(* The reason.                                                             *)

FailedRows(s) == {i \in DOMAIN s : s[i].branch = "on_failure"}

(* What is told of a row that branched on_failure.                         *)
Told(r) == IF r.error = NoText THEN ExpectationMismatch ELSE r.error

LatestOf(s) == IF FailedRows(s) = {} THEN UnknownFailure ELSE Told(s[Max(FailedRows(s))])

Latest(s, m) == m \in FailedRows(s) /\ \A k \in FailedRows(s) : m >= k

HasLatest(s) == FailedRows(s) = {} \/ \E m \in DOMAIN s : Latest(s, m)

LEMMA LatestIs ==
  ASSUME NEW s \in Seq(RowSet), NEW m, Latest(s, m)
  PROVE  LatestOf(s) = Told(s[m])
<1>1. FailedRows(s) \subseteq Int /\ m \in FailedRows(s) /\ \A k \in FailedRows(s) : m >= k
  BY DEF FailedRows, Latest
<1>2. Max(FailedRows(s)) \in FailedRows(s)
      /\ \A k \in FailedRows(s) : Max(FailedRows(s)) >= k
  BY <1>1 DEF Max
<1>3. Max(FailedRows(s)) = m
  BY <1>1, <1>2
<1> QED BY <1>1, <1>3 DEF LatestOf

LEMMA LatestAppend ==
  ASSUME NEW s \in Seq(RowSet), NEW r \in RowSet, HasLatest(s)
  PROVE  /\ HasLatest(Append(s, r))
         /\ LatestOf(Append(s, r)) = IF r.branch = "on_failure" THEN Told(r) ELSE LatestOf(s)
<1> DEFINE t == Append(s, r)
<1>1. /\ t \in Seq(RowSet) /\ Len(t) = Len(s) + 1 /\ Len(s) \in Nat /\ t[Len(t)] = r
      /\ DOMAIN s = 1..Len(s) /\ DOMAIN t = 1..Len(t)
      /\ \A i \in 1..Len(s) : t[i] = s[i]
  OBVIOUS
<1> HIDE DEF t
<1>2. CASE r.branch = "on_failure"
  <2>1. Latest(t, Len(t))
    BY <1>1, <1>2 DEF Latest, FailedRows
  <2>2. HasLatest(t) /\ LatestOf(t) = Told(r)
    BY <1>1, <2>1, LatestIs DEF HasLatest
  <2> QED BY <1>2, <2>2 DEF t
<1>3. CASE r.branch # "on_failure"
  <2>1. FailedRows(t) = FailedRows(s)
    BY <1>1, <1>3 DEF FailedRows
  <2>2. CASE FailedRows(s) = {}
    BY <1>3, <2>1, <2>2 DEF HasLatest, LatestOf, t
  <2>3. ASSUME NEW m \in DOMAIN s, Latest(s, m)
        PROVE  HasLatest(t) /\ LatestOf(t) = LatestOf(s)
    <3>1. Latest(t, m) /\ t[m] = s[m] /\ m \in DOMAIN t
      BY <1>1, <2>1, <2>3 DEF Latest
    <3> QED BY <1>1, <2>3, <3>1, LatestIs DEF HasLatest
  <2> QED BY <1>3, <2>2, <2>3 DEF HasLatest, t
<1> QED BY <1>2, <1>3

(* No escalation is in the text log, or about to be.                       *)
NotTold == \A i \in 1..Len(textLog) : textLog[i].event # "escalation"

Early == {"record_start", "dispatch"} \union InLoop

ReasonInv ==
  /\ HasLatest(stepAttempts)
  /\ Point \notin {"branch"} \union Stopped => reason = LatestOf(stepAttempts)
  /\ Point = "branch" =>
       LatestOf(stepAttempts) = IF row.branch = "on_failure" THEN Told(row) ELSE reason
  /\ \A i \in 1..Len(sends) : sends[i].reason = LatestOf(stepAttempts)
  /\ \A i \in 1..Len(textLog) :
       textLog[i].event = "escalation" => textLog[i].reason = LatestOf(stepAttempts)
  /\ Point \in Early => NotTold
  /\ pc = "write_text" /\ event.event = "escalation" => event.reason = LatestOf(stepAttempts)

LEMMA ReasonInit == Init => ReasonInv
BY DEF Init, ReasonInv, HasLatest, LatestOf, FailedRows, NotTold, StoreInit, LogInit,
   Point, WritePoint

(* A step on which neither the reason nor what was told of it depends.     *)
LEMMA ReasonFrame ==
  ASSUME ReasonInv, UNCHANGED <<stepAttempts, reason, sends, textLog>>,
         pc' = "write_text" => event'.event # "escalation" \/ UNCHANGED <<pc, event>>,
         \/ Point' = Point /\ row' = row
         \/ Point' \in Stopped
         \/ /\ Point \notin {"branch"} \union Stopped /\ Point' # "branch"
            /\ Point' \in Early => Point \in Early
  PROVE  ReasonInv'
<1>1. pc' = "write_text" /\ event'.event = "escalation" => event'.reason = LatestOf(stepAttempts)
  BY DEF ReasonInv
<1>2. Point' \in Early => NotTold'
  BY DEF ReasonInv, NotTold, Early, InLoop, Stopped
<1>3. Point' \notin {"branch"} \union Stopped => reason = LatestOf(stepAttempts)
  BY DEF ReasonInv
<1>4. Point' = "branch" =>
        LatestOf(stepAttempts) = IF row'.branch = "on_failure" THEN Told(row') ELSE reason
  BY DEF ReasonInv, Stopped
<1> QED BY <1>1, <1>2, <1>3, <1>4 DEF ReasonInv

LEMMA ReasonWrite == Inv /\ LogInv /\ ReasonInv /\ WriteText => ReasonInv'
<1> SUFFICES ASSUME Inv, LogInv, ReasonInv, WriteText PROVE ReasonInv'
  OBVIOUS
<1>1. /\ Point' = Point /\ UNCHANGED <<stepAttempts, reason, sends, row, event>>
      /\ textLog' = Append(textLog, event) /\ textLog \in Seq(Event) /\ event \in Event
      /\ pc = "write_text" /\ pc' = "write_jsonl" /\ Point = After(event)
  BY WritePoints DEF WriteText, AppendText, LogInv, WritePoint, Point, stepVars,
     walkVars, worldVars, storeVars
<1>2. /\ Len(textLog') = Len(textLog) + 1 /\ Len(textLog) \in Nat
      /\ textLog'[Len(textLog')] = event /\ \A i \in 1..Len(textLog) : textLog'[i] = textLog[i]
  BY <1>1
<1>3. event.event = "escalation" => Point = "record_end"
  BY <1>1, AfterKinds
<1>4. Point \in Early => NotTold'
  <2> SUFFICES ASSUME Point \in Early, NEW i \in 1..Len(textLog')
               PROVE  textLog'[i].event # "escalation"
    BY DEF NotTold
  <2>1. CASE i = Len(textLog')
    BY <1>2, <1>3, <2>1 DEF Early, InLoop
  <2>2. CASE i # Len(textLog')
    BY <1>2, <2>2 DEF ReasonInv, NotTold
  <2> QED BY <2>1, <2>2
<1>5. ASSUME NEW i \in 1..Len(textLog'), textLog'[i].event = "escalation"
      PROVE  textLog'[i].reason = LatestOf(stepAttempts)
  <2>1. CASE i = Len(textLog')
    BY <1>1, <1>2, <1>5, <2>1 DEF ReasonInv
  <2>2. CASE i # Len(textLog')
    BY <1>2, <1>5, <2>2 DEF ReasonInv
  <2> QED BY <2>1, <2>2
<1> QED BY <1>1, <1>4, <1>5 DEF ReasonInv

LEMMA ReasonRecord == Inv /\ NoteInv /\ ReasonInv /\ RecordAttempt => ReasonInv'
<1> SUFFICES ASSUME Inv, NoteInv, ReasonInv, RecordAttempt PROVE ReasonInv'
  OBVIOUS
<1>1. /\ stepAttempts' = Append(stepAttempts, row) /\ UNCHANGED <<row, reason, sends, textLog>>
      /\ Point = "record_attempt" /\ Point' = "branch" /\ event'.event = "step_attempt"
  BY Points DEF RecordAttempt, RecordStepAttempt, stepVars, walkVars, worldVars, logVars,
     Log, StepAttemptEvent
<1>2. stepAttempts \in Seq(RowSet) /\ row \in RowSet /\ sends = <<>> /\ NotTold
  BY <1>1 DEF Inv, RunTypeOK, Control, AtRecordAttempt, NoteInv, ReasonInv, InLoop, Early
<1>3. /\ HasLatest(stepAttempts')
      /\ LatestOf(stepAttempts') = IF row.branch = "on_failure" THEN Told(row)
                                   ELSE LatestOf(stepAttempts)
  BY <1>1, <1>2, LatestAppend DEF ReasonInv
<1>4. reason = LatestOf(stepAttempts)
  BY <1>1 DEF ReasonInv, Stopped
<1> QED BY <1>1, <1>2, <1>3, <1>4 DEF ReasonInv, NotTold, Stopped

LEMMA ReasonFollow ==
  Inv /\ ReasonInv /\ (FollowSimulated \/ FollowSuccess \/ Retry \/ FollowFailure) => ReasonInv'
<1> SUFFICES ASSUME Inv, ReasonInv, FollowSimulated \/ FollowSuccess \/ Retry \/ FollowFailure
             PROVE  ReasonInv'
  OBVIOUS
<1>1. /\ Point = "branch" /\ Point' \in {"dispatch", "execute"} /\ pc' # "write_text"
      /\ UNCHANGED <<stepAttempts, sends, textLog>>
  BY Points DEF FollowSimulated, FollowSuccess, Retry, FollowFailure, storeVars,
     worldVars, logVars
<1>2. reason' = IF row.branch = "on_failure" THEN Told(row) ELSE reason
  BY DEF FollowSimulated, FollowSuccess, Retry, FollowFailure, Told, walkVars
<1>3. reason' = LatestOf(stepAttempts) /\ NotTold
  BY <1>1, <1>2 DEF ReasonInv, Early, InLoop
<1> QED BY <1>1, <1>3 DEF ReasonInv, NotTold

LEMMA ReasonSent ==
  Inv /\ NoteInv /\ ReasonInv /\ (\E outcome \in SendOutcome : SendNotifier(outcome)) => ReasonInv'
<1> SUFFICES ASSUME Inv, NoteInv, ReasonInv, NEW outcome \in SendOutcome, SendNotifier(outcome)
             PROVE  ReasonInv'
  OBVIOUS
<1> DEFINE send == [notifier |-> Notifiers[next], step |-> cur, reason |-> reason,
                    outcome |-> outcome]
<1>1. /\ Point = "notify" /\ Point' = "record_notification" /\ pc' # "write_text"
      /\ sends' = Append(sends, send) /\ sends \in Seq(Send)
      /\ UNCHANGED <<stepAttempts, reason, textLog>>
  BY DEF SendNotifier, Point, WritePoint, NoteInv, storeVars, walkVars, logVars
<1>2. reason = LatestOf(stepAttempts)
  BY <1>1 DEF ReasonInv, Stopped
<1>3. ASSUME NEW i \in 1..Len(sends') PROVE sends'[i].reason = LatestOf(stepAttempts)
  <2>1. Len(sends') = Len(sends) + 1 /\ Len(sends) \in Nat /\ sends'[Len(sends')] = send
        /\ \A k \in 1..Len(sends) : sends'[k] = sends[k]
    BY <1>1
  <2>2. CASE i = Len(sends')
    BY <1>2, <2>1, <2>2
  <2>3. CASE i # Len(sends')
    BY <2>1, <2>3 DEF ReasonInv
  <2> QED BY <2>2, <2>3
<1> QED BY <1>1, <1>2, <1>3 DEF ReasonInv, Early, InLoop

LEMMA ReasonNext == Inv /\ NoteInv /\ LogInv /\ ReasonInv /\ [Next]_vars => ReasonInv'
<1> SUFFICES ASSUME Inv, NoteInv, LogInv, ReasonInv, [Next]_vars PROVE ReasonInv'
  OBVIOUS
<1> USE DEF stepVars, walkVars, worldVars, storeVars, logVars
<1>1. CASE WriteText
  BY <1>1, ReasonWrite
<1>2. CASE WriteJsonl
  <2>1. Point' = Point /\ UNCHANGED <<stepAttempts, reason, sends, textLog, row, event>>
    BY <1>2, WritePoints DEF WriteJsonl, AppendJsonl
  <2>2. pc' # "write_text"
    BY <1>2, AfterKinds DEF WriteJsonl, Inv, Control, WritePoint, EventKinds
  <2> QED BY <2>1, <2>2, ReasonFrame
<1>3. CASE RecordStart \/ RecordNotificationResult \/ RecordEnd
  <2>1. UNCHANGED <<stepAttempts, reason, sends, textLog>> /\ event'.event # "escalation"
    BY <1>3 DEF RecordStart, RecordExecutionStart, RecordNotificationResult,
       RecordNotification, RecordEnd, RecordExecutionEnd, Log, ExecutionStartEvent,
       NotificationEvent, ExecutionEndEvent
  <2>2. \/ Point = "record_start" /\ Point' = "dispatch"
        \/ Point = "record_notification" /\ Point' = "notify"
        \/ Point' = "returned"
    BY <1>3, Points
  <2> QED BY <2>1, <2>2, ReasonFrame DEF Early, InLoop, Stopped
<1>4. CASE DispatchDryRun \/ DispatchSSH \/ DispatchEscalate \/ DispatchEnd
  <2>1. UNCHANGED <<stepAttempts, reason, sends, textLog>> /\ pc' # "write_text" /\ EnterStep
    BY <1>4 DEF DispatchDryRun, DispatchSSH, DispatchEscalate, DispatchEnd
  <2>2. Point = "dispatch" /\ Point' # "branch"
    BY <1>4, <2>1, Points
  <2> QED BY <2>1, <2>2, ReasonFrame DEF Early, Stopped
<1>5. CASE \E result \in ExecutionResult : Execute(result)
  <2>1. /\ UNCHANGED <<stepAttempts, reason, sends, textLog>> /\ pc' # "write_text"
        /\ Point = "execute" /\ Point' = "record_attempt"
    BY <1>5 DEF Execute, Point, WritePoint
  <2> QED BY <2>1, ReasonFrame DEF Early, InLoop, Stopped
<1>6. CASE RecordAttempt
  BY <1>6, ReasonRecord
<1>7. CASE FollowSimulated \/ FollowSuccess \/ Retry \/ FollowFailure
  BY <1>7, ReasonFollow
<1>8. CASE \E outcome \in SendOutcome : SendNotifier(outcome)
  BY <1>8, ReasonSent
<1>9. CASE FinishEscalation
  <2>1. /\ UNCHANGED <<stepAttempts, reason, sends, textLog>> /\ event'.reason = reason
        /\ Point = "notify" /\ Point' = "record_end"
    BY <1>9, Points DEF FinishEscalation, Log, EscalationEvent
  <2> QED BY <2>1 DEF ReasonInv, Early, InLoop, Stopped
<1>10. CASE Fault
  <2>1. /\ UNCHANGED <<stepAttempts, reason, sends, textLog>> /\ pc' # "write_text"
        /\ Point' \in Stopped
    BY <1>10, Points DEF Fault, WriteFails, ExecutorRaises, Crash, Stopped
  <2> QED BY <2>1, ReasonFrame
<1>11. CASE Tick \/ UNCHANGED vars
  <2>1. Point' = Point /\ UNCHANGED <<stepAttempts, reason, sends, textLog, row, pc, event>>
    BY <1>11, Points DEF Tick, vars, Point
  <2> QED BY <2>1, ReasonFrame
<1> QED BY <1>1, <1>2, <1>3, <1>4, <1>5, <1>6, <1>7, <1>8, <1>9, <1>10, <1>11
        DEF Next, RunStep, OwnStep, Terminated

(* Humans are told the error of the latest step that failed for good, in   *)
(* every notification and in the log.                                      *)
THEOREM LatestFailureTold == Spec => []ReasonIsLatestFailure
<1>1. Inv /\ NoteInv /\ LogInv /\ ReasonInv => ReasonIsLatestFailure
  <2> SUFFICES ASSUME NoteInv, LogInv, ReasonInv PROVE ReasonIsLatestFailure
    OBVIOUS
  <2>1. LatestFailure = LatestOf(stepAttempts)
    BY DEF LatestFailure, LatestOf, FailedRows, Told
  <2>2. sends \in Seq(Send) /\ textLog \in Seq(Event)
    BY DEF NoteInv, LogInv
  <2> QED BY <2>1, <2>2 DEF ReasonInv, ReasonIsLatestFailure
<1> QED BY <1>1, InitInv, NextInv, NoteInit, NoteNext, LogStart, LogNext,
           ReasonInit, ReasonNext, PTL DEF Spec

----------------------------------------------------------------------------
(* Dry runs.                                                               *)

SSHStepsOn(p) == {s \in Range(p) : rb.steps[s].type = "ssh"}

Followed(p) == \A i \in 1..Len(p) - 1 : p[i + 1] = rb.steps[p[i]].onSuccess

(* There is a row for the first steps of the path, one each.               *)
RowsOnPath == /\ Len(stepAttempts) <= Len(path)
              /\ \A i \in 1..Len(stepAttempts) : stepAttempts[i].step = path[i]

DryInv == dry =>
  /\ sends = <<>> /\ notifications = <<>>
  /\ Followed(path) /\ RowsOnPath
  /\ DOMAIN branchMap = SSHStepsOn(path)
  /\ Point \in {"record_start", "dispatch", "branch"} => Len(path) = Len(stepAttempts)
  /\ Point \in {"record_attempt", "record_end", "returned"} => Len(path) = Len(stepAttempts) + 1
  /\ Point = "dispatch" /\ path # <<>> => cur = rb.steps[path[Len(path)]].onSuccess

LEMMA DryInit == Init => DryInv
BY DEF Init, DryInv, Followed, RowsOnPath, SSHStepsOn, Range, StoreInit, Point, WritePoint

LEMMA DryFrame ==
  ASSUME DryInv,
         dry' = dry,
         dry => /\ UNCHANGED <<rb, path, cur, branchMap, sends, notifications, stepAttempts>>
                /\ \/ Point' = Point \/ Point' \in {"raised", "crashed"}
                   \/ Point = "record_start" /\ Point' = "dispatch" /\ path = <<>>
                   \/ Point = "record_end" /\ Point' = "returned"
  PROVE  DryInv'
BY DEF DryInv, Followed, RowsOnPath, SSHStepsOn, Range

(* Where a dry run never is.                                               *)
LEMMA DryNever ==
  ASSUME Inv, dry
  PROVE  /\ Point \notin {"execute", "notify", "record_notification"}
         /\ Point = "branch" => row.branch = "simulated"
BY DEF Inv, Control, AtExecute, AtBranch, AtNotify, AtRecordNotification

LEMMA DryEnter ==
  ASSUME Inv, WalkInv, DryInv, dry, EnterStep,
         UNCHANGED <<rb, dry, cur, sends, notifications, stepAttempts>>,
         DOMAIN branchMap' = DOMAIN branchMap
            \union (IF Step.type = "ssh" THEN {cur} ELSE {}),
         Point' \in {"record_attempt", "record_end"}
  PROVE  DryInv'
<1>1. /\ path \in Seq(DOMAIN rb.steps) /\ path' = Append(path, cur) /\ Point = "dispatch"
      /\ cur \in DOMAIN rb.steps
  BY DEF Inv, RunTypeOK, EnterStep, Point, WritePoint
<1>2. /\ Len(path') = Len(path) + 1 /\ Len(path) \in Nat /\ path'[Len(path')] = cur
      /\ path' \in Seq(DOMAIN rb.steps) /\ \A k \in 1..Len(path) : path'[k] = path[k]
  BY <1>1
<1>3. Followed(path')
  <2> SUFFICES ASSUME NEW i \in 1..Len(path') - 1
               PROVE  path'[i + 1] = rb.steps[path'[i]].onSuccess
    BY DEF Followed
  <2>1. CASE i = Len(path)
    <3>1. path # <<>> /\ path'[i] = path[Len(path)] /\ path'[i + 1] = cur
      BY <1>1, <1>2, <2>1
    <3> QED BY <1>1, <3>1 DEF DryInv
  <2>2. CASE i # Len(path)
    <3>1. i \in 1..Len(path) - 1 /\ path'[i] = path[i] /\ path'[i + 1] = path[i + 1]
      BY <1>2, <2>2
    <3> QED BY <3>1 DEF DryInv, Followed
  <2> QED BY <2>1, <2>2
<1>4. Range(path') = Range(path) \union {cur}
  BY <1>1, <1>2 DEF Range
<1>5. DOMAIN branchMap' = SSHStepsOn(path')
  BY <1>4 DEF DryInv, SSHStepsOn, Step
<1>6. Len(stepAttempts) = Len(path) /\ RowsOnPath'
  BY <1>1, <1>2 DEF DryInv, RowsOnPath
<1> QED BY <1>1, <1>2, <1>3, <1>5, <1>6 DEF DryInv, Followed, SSHStepsOn

LEMMA DryRecord == Inv /\ WalkInv /\ DryInv /\ dry /\ RecordAttempt => DryInv'
<1> SUFFICES ASSUME Inv, WalkInv, DryInv, dry, RecordAttempt PROVE DryInv'
  OBVIOUS
<1>1. /\ stepAttempts' = Append(stepAttempts, row)
      /\ UNCHANGED <<rb, dry, path, branchMap, sends, notifications>>
      /\ Point = "record_attempt" /\ Point' = "branch"
  BY Points DEF RecordAttempt, RecordStepAttempt, inputVars, walkVars, worldVars
<1>2. /\ stepAttempts \in Seq(RowSet) /\ row \in RowSet /\ row.step = cur
      /\ path[Len(path)] = cur
  BY <1>1 DEF Inv, RunTypeOK, Control, AtRecordAttempt, WalkInv, InLoop
<1>3. /\ Len(stepAttempts) \in Nat /\ Len(stepAttempts') = Len(stepAttempts) + 1
      /\ stepAttempts'[Len(stepAttempts')] = row
      /\ \A i \in 1..Len(stepAttempts) : stepAttempts'[i] = stepAttempts[i]
  BY <1>1, <1>2
<1>4. Len(path) = Len(stepAttempts')
  BY <1>1, <1>3 DEF DryInv
<1>5. RowsOnPath'
  <2> SUFFICES ASSUME NEW i \in 1..Len(stepAttempts') PROVE stepAttempts'[i].step = path[i]
    BY <1>1, <1>3, <1>4 DEF RowsOnPath
  <2>1. CASE i = Len(stepAttempts')
    BY <1>2, <1>3, <1>4, <2>1
  <2>2. CASE i # Len(stepAttempts')
    BY <1>3, <2>2 DEF DryInv, RowsOnPath
  <2> QED BY <2>1, <2>2
<1> QED BY <1>1, <1>4, <1>5 DEF DryInv, Followed, SSHStepsOn

LEMMA DryFollow == Inv /\ WalkInv /\ DryInv /\ dry /\ FollowSimulated => DryInv'
<1> SUFFICES ASSUME Inv, WalkInv, DryInv, dry, FollowSimulated PROVE DryInv'
  OBVIOUS
<1>1. /\ UNCHANGED <<rb, dry, path, branchMap, sends, notifications, stepAttempts>>
      /\ Point = "branch" /\ Point' = "dispatch" /\ cur' = Step.onSuccess
  BY Points DEF FollowSimulated, inputVars, worldVars, storeVars
<1>2. path[Len(path)] = cur
  BY <1>1 DEF WalkInv, InLoop
<1> QED BY <1>1, <1>2 DEF DryInv, Followed, RowsOnPath, SSHStepsOn, Step

LEMMA DryNext == Inv /\ WalkInv /\ DryInv /\ [Next]_vars => DryInv'
<1> SUFFICES ASSUME Inv, WalkInv, DryInv, [Next]_vars PROVE DryInv'
  OBVIOUS
<1> USE DEF inputVars, walkVars, worldVars, storeVars
<1>1. CASE WriteText \/ WriteJsonl
  <2>1. /\ Point' = Point /\ dry' = dry
        /\ UNCHANGED <<rb, path, cur, branchMap, sends, notifications, stepAttempts>>
    BY <1>1, WritePoints DEF WriteText, WriteJsonl
  <2> QED BY <2>1, DryFrame
<1>2. CASE RecordStart
  <2>1. /\ Point = "record_start" /\ Point' = "dispatch" /\ dry' = dry
        /\ UNCHANGED <<rb, path, cur, branchMap, sends, notifications, stepAttempts>>
    BY <1>2, Points DEF RecordStart, RecordExecutionStart
  <2>2. path = <<>>
    BY <2>1 DEF WalkInv
  <2> QED BY <2>1, <2>2, DryFrame
<1>3. CASE DispatchDryRun
  <2>1. /\ dry /\ EnterStep /\ Point' = "record_attempt" /\ Step.type = "ssh"
        /\ UNCHANGED <<rb, dry, cur, sends, notifications, stepAttempts>>
        /\ DOMAIN branchMap' = DOMAIN branchMap \union {cur}
    BY <1>3, Points DEF DispatchDryRun
  <2> QED BY <2>1, DryEnter
<1>4. CASE DispatchEscalate \/ DispatchEnd
  <2>1. /\ EnterStep /\ Step.type \in {"escalate", "end"} /\ branchMap' = branchMap
        /\ UNCHANGED <<rb, dry, cur, sends, notifications, stepAttempts>>
    BY <1>4 DEF DispatchEscalate, DispatchEnd
  <2>2. dry => Point' = "record_end"
    BY <1>4 DEF DispatchEscalate, DispatchEnd, Point, WritePoint
  <2>3. CASE dry
    BY <2>1, <2>2, <2>3, DryEnter
  <2> QED BY <2>1, <2>3 DEF DryInv
<1>5. CASE RecordAttempt
  <2>1. dry' = dry
    BY <1>5 DEF RecordAttempt
  <2> QED BY <1>5, <2>1, DryRecord DEF DryInv
<1>6. CASE FollowSimulated
  <2>1. dry' = dry
    BY <1>6 DEF FollowSimulated
  <2> QED BY <1>6, <2>1, DryFollow DEF DryInv
<1>7. CASE \/ DispatchSSH \/ FollowSuccess \/ Retry \/ FollowFailure
           \/ RecordNotificationResult \/ FinishEscalation
           \/ \E result \in ExecutionResult : Execute(result)
           \/ \E outcome \in SendOutcome : SendNotifier(outcome)
  <2>1. dry' = dry
    BY <1>7 DEF DispatchSSH, FollowSuccess, Retry, FollowFailure,
       RecordNotificationResult, FinishEscalation, Execute, SendNotifier
  <2>2. (\E result \in ExecutionResult : Execute(result)) => Point = "execute"
    BY DEF Execute, Point, WritePoint
  <2>3. (\E outcome \in SendOutcome : SendNotifier(outcome)) => Point = "notify"
    BY DEF SendNotifier, Point, WritePoint
  <2>4. FollowSuccess \/ Retry \/ FollowFailure => Point = "branch" /\ row.branch # "simulated"
    BY Points DEF FollowSuccess, Retry, FollowFailure
  <2>5. ~dry
    BY <1>7, <2>2, <2>3, <2>4, Points, DryNever DEF DispatchSSH
  <2> QED BY <2>1, <2>5 DEF DryInv
<1>8. CASE RecordEnd
  <2>1. /\ Point = "record_end" /\ Point' = "returned" /\ dry' = dry
        /\ UNCHANGED <<rb, path, cur, branchMap, sends, notifications, stepAttempts>>
    BY <1>8, Points DEF RecordEnd, RecordExecutionEnd
  <2> QED BY <2>1, DryFrame
<1>9. CASE Fault
  <2>1. /\ Point' \in {"raised", "crashed"} /\ dry' = dry
        /\ UNCHANGED <<rb, path, cur, branchMap, sends, notifications, stepAttempts>>
    BY <1>9, Points DEF Fault, WriteFails, ExecutorRaises, Crash
  <2> QED BY <2>1, DryFrame
<1>10. CASE Tick \/ UNCHANGED vars
  <2>1. /\ Point' = Point /\ dry' = dry
        /\ UNCHANGED <<rb, path, cur, branchMap, sends, notifications, stepAttempts>>
    BY <1>10, Points DEF Tick, vars, Point
  <2> QED BY <2>1, DryFrame
<1> QED BY <1>1, <1>2, <1>3, <1>4, <1>5, <1>6, <1>7, <1>8, <1>9, <1>10
        DEF Next, RunStep, OwnStep, Terminated

(* What a dry run writes down: successes it did not try for, and where     *)
(* each step may branch to.                                                *)
Simulated(r) == r.success /\ r.branch = "simulated"

PreviewInv == dry =>
  /\ \A i \in 1..Len(stepAttempts) : Simulated(stepAttempts[i])
  /\ Point = "record_attempt" => Simulated(row)
  /\ \A s \in DOMAIN branchMap :
        branchMap[s] = <<rb.steps[s].onSuccess, rb.steps[s].onFailure>>

LEMMA PreviewInit == Init => PreviewInv
BY DEF Init, PreviewInv, StoreInit, Point, WritePoint

LEMMA PreviewFrame ==
  ASSUME PreviewInv, UNCHANGED <<rb, dry, branchMap, stepAttempts>>,
         UNCHANGED <<Point, row>> \/ Point' # "record_attempt"
  PROVE  PreviewInv'
BY DEF PreviewInv, Simulated

LEMMA PreviewNext == Inv /\ PreviewInv /\ [Next]_vars => PreviewInv'
<1> SUFFICES ASSUME Inv, PreviewInv, [Next]_vars PROVE PreviewInv'
  OBVIOUS
<1> USE DEF inputVars, walkVars, stepVars, storeVars
<1>1. CASE WriteText \/ WriteJsonl
  <2>1. UNCHANGED <<Point, row, rb, dry, branchMap, stepAttempts>>
    BY <1>1, WritePoints DEF WriteText, WriteJsonl
  <2> QED BY <2>1, PreviewFrame
<1>2. CASE \/ RecordStart \/ DispatchSSH \/ DispatchEscalate \/ DispatchEnd
           \/ FollowSimulated \/ FollowSuccess \/ Retry \/ FollowFailure
           \/ RecordNotificationResult \/ FinishEscalation \/ RecordEnd \/ Fault
  <2>1. UNCHANGED <<rb, dry, branchMap, stepAttempts>>
    BY <1>2 DEF RecordStart, RecordExecutionStart, DispatchSSH, DispatchEscalate,
       DispatchEnd, FollowSimulated, FollowSuccess, Retry, FollowFailure,
       RecordNotificationResult, RecordNotification, FinishEscalation, RecordEnd,
       RecordExecutionEnd, Fault, WriteFails, ExecutorRaises, Crash
  <2>2. Point' # "record_attempt"
    BY <1>2, Points
  <2> QED BY <2>1, <2>2, PreviewFrame
<1>3. CASE DispatchDryRun
  <2>1. /\ UNCHANGED <<rb, dry, stepAttempts>> /\ Simulated(row')
        /\ branchMap' = [s \in DOMAIN branchMap \union {cur} |->
                           IF s = cur THEN <<Step.onSuccess, Step.onFailure>>
                                      ELSE branchMap[s]]
    BY <1>3 DEF DispatchDryRun, Simulated
  <2>2. ASSUME dry, NEW s \in DOMAIN branchMap'
        PROVE  branchMap'[s] = <<rb.steps[s].onSuccess, rb.steps[s].onFailure>>
    <3>1. CASE s = cur
      BY <2>1, <3>1 DEF Step
    <3>2. CASE s # cur
      <4>1. s \in DOMAIN branchMap /\ branchMap'[s] = branchMap[s]
        BY <2>1, <2>2, <3>2
      <4> QED BY <2>2, <4>1 DEF PreviewInv
    <3> QED BY <3>1, <3>2
  <2> QED BY <2>1, <2>2 DEF PreviewInv, Simulated
<1>4. CASE RecordAttempt
  <2>1. /\ stepAttempts' = Append(stepAttempts, row) /\ UNCHANGED <<rb, dry, branchMap>>
        /\ Point = "record_attempt" /\ Point' = "branch"
    BY <1>4, Points DEF RecordAttempt, RecordStepAttempt
  <2>2. stepAttempts \in Seq(RowSet) /\ row \in RowSet
    BY <2>1 DEF Inv, RunTypeOK, Control, AtRecordAttempt
  <2>3. /\ Len(stepAttempts) \in Nat /\ Len(stepAttempts') = Len(stepAttempts) + 1
        /\ stepAttempts'[Len(stepAttempts')] = row
        /\ \A i \in 1..Len(stepAttempts) : stepAttempts'[i] = stepAttempts[i]
    BY <2>1, <2>2
  <2>4. ASSUME dry, NEW i \in 1..Len(stepAttempts') PROVE Simulated(stepAttempts'[i])
    <3>1. CASE i = Len(stepAttempts')
      BY <2>1, <2>3, <2>4, <3>1 DEF PreviewInv
    <3>2. CASE i # Len(stepAttempts')
      <4>1. i \in 1..Len(stepAttempts) /\ stepAttempts'[i] = stepAttempts[i]
        BY <2>3, <3>2
      <4> QED BY <2>4, <4>1 DEF PreviewInv
    <3> QED BY <3>1, <3>2
  <2> QED BY <2>1, <2>4 DEF PreviewInv, Simulated
<1>5. CASE \E result \in ExecutionResult : Execute(result)
  <2>1. Point = "execute" /\ dry' = dry
    BY <1>5 DEF Execute, Point, WritePoint
  <2> QED BY <2>1, DryNever DEF PreviewInv
<1>6. CASE \E outcome \in SendOutcome : SendNotifier(outcome)
  <2>1. UNCHANGED <<rb, dry, branchMap, stepAttempts>> /\ Point' # "record_attempt"
    BY <1>6 DEF SendNotifier, Point, WritePoint
  <2> QED BY <2>1, PreviewFrame
<1>7. CASE Tick \/ UNCHANGED vars
  <2>1. UNCHANGED <<Point, row, rb, dry, branchMap, stepAttempts>>
    BY <1>7, Points DEF Tick, vars, Point
  <2> QED BY <2>1, PreviewFrame
<1> QED BY <1>1, <1>2, <1>3, <1>4, <1>5, <1>6, <1>7 DEF Next, RunStep, OwnStep, Terminated

(* A dry run touches nothing outside the store and the log, walks the      *)
(* on_success path, and writes down a simulated success for each step it   *)
(* walked and a preview of exactly their branches.                         *)
THEOREM DryRunsOnlyLook == Spec => []DryRunInert
<1>1. Inv /\ DoubtInv /\ DryInv /\ PreviewInv => DryRunInert
  <2> SUFFICES ASSUME Inv, DoubtInv, DryInv, PreviewInv, dry PROVE DryRunInert
    BY DEF DryRunInert
  <2>1. calls = <<>> /\ sends = <<>> /\ notifications = <<>> /\ Followed(path)
    BY DEF DoubtInv, DryInv
  <2>2. ASSUME pc = "returned"
        PROVE  [i \in DOMAIN stepAttempts |-> stepAttempts[i].step] = Front(path)
    <3>1. path \in Seq(DOMAIN rb.steps) /\ stepAttempts \in Seq(RowSet)
      BY DEF Inv, RunTypeOK
    <3>2. Len(path) = Len(stepAttempts) + 1 /\ RowsOnPath
      BY <2>2 DEF DryInv, Point, WritePoint
    <3>3. Len(path) \in Nat /\ Len(stepAttempts) \in Nat /\ Len(path) - 1 = Len(stepAttempts)
      BY <3>1, <3>2
    <3>4. Front(path) = SubSeq(path, 1, Len(stepAttempts))
      BY <3>3 DEF Front
    <3>5. SubSeq(path, 1, Len(stepAttempts)) = [i \in 1..Len(stepAttempts) |-> path[i]]
      BY <3>1, <3>2, <3>3
    <3>6. DOMAIN stepAttempts = 1..Len(stepAttempts)
      BY <3>1
    <3> QED BY <3>2, <3>4, <3>5, <3>6 DEF RowsOnPath
  <2>3. /\ \A i \in DOMAIN stepAttempts :
              stepAttempts[i].success /\ stepAttempts[i].branch = "simulated"
        /\ \A s \in DOMAIN branchMap :
              branchMap[s] = <<rb.steps[s].onSuccess, rb.steps[s].onFailure>>
    <3>1. DOMAIN stepAttempts = 1..Len(stepAttempts)
      BY DEF Inv, RunTypeOK
    <3> QED BY <3>1 DEF PreviewInv, Simulated
  <2>4. DOMAIN branchMap = {s \in Range(path) : rb.steps[s].type = "ssh"}
    BY DEF DryInv, SSHStepsOn
  <2>5. \A i \in 1..Len(path) - 1 : path[i + 1] = rb.steps[path[i]].onSuccess
    BY <2>1 DEF Followed
  <2> QED BY <2>1, <2>2, <2>3, <2>4, <2>5 DEF DryRunInert
<1> QED BY <1>1, InitInv, NextInv, WalkInit, WalkNext, DoubtInit, DoubtNext,
           DryInit, DryNext, PreviewInit, PreviewNext, PTL DEF Spec

----------------------------------------------------------------------------
(* The result: the count of attempts.                                      *)

(* Attempts made by the step under way that are not yet in attempts; a dry *)
(* run counts its one attempt at once.                                     *)
Uncounted == IF dry THEN 0 ELSE attempt

CountInv ==
  /\ Point \notin InLoop \union {"raised", "crashed"} => attempts = Len(stepAttempts)
  /\ Point \in {"execute", "record_attempt"} => attempts + Uncounted = Len(stepAttempts) + 1
  /\ Point = "branch" => attempts + Uncounted = Len(stepAttempts)

LEMMA CountInit == Init => CountInv
BY DEF Init, CountInv, StoreInit, Point, WritePoint, InLoop

LEMMA CountFrame ==
  ASSUME CountInv, UNCHANGED <<dry, attempts, stepAttempts>>,
         \/ Point' = Point /\ attempt' = attempt
         \/ Point' \in {"raised", "crashed"}
         \/ {Point, Point'} \intersect (InLoop \union {"raised", "crashed"}) = {}
         \/ Point = "execute" /\ Point' = "record_attempt" /\ attempt' = attempt
  PROVE  CountInv'
BY DEF CountInv, Uncounted, InLoop

LEMMA CountNext == Inv /\ CountInv /\ [Next]_vars => CountInv'
<1> SUFFICES ASSUME Inv, CountInv, [Next]_vars PROVE CountInv'
  OBVIOUS
<1> USE DEF inputVars, walkVars, stepVars, storeVars
<1>0. attempts \in Nat /\ attempt \in Nat /\ Len(stepAttempts) \in Nat
  BY DEF Inv, RunTypeOK
<1>1. CASE WriteText \/ WriteJsonl
  <2>1. Point' = Point /\ UNCHANGED <<dry, attempts, stepAttempts, attempt>>
    BY <1>1, WritePoints DEF WriteText, WriteJsonl
  <2> QED BY <2>1, CountFrame
<1>2. CASE \/ RecordStart \/ DispatchEscalate \/ DispatchEnd
           \/ RecordNotificationResult \/ FinishEscalation \/ RecordEnd
           \/ \E outcome \in SendOutcome : SendNotifier(outcome)
  <2>1. UNCHANGED <<dry, attempts, stepAttempts>>
    BY <1>2 DEF RecordStart, RecordExecutionStart, DispatchEscalate, DispatchEnd,
       RecordNotificationResult, RecordNotification, FinishEscalation, RecordEnd,
       RecordExecutionEnd, SendNotifier
  <2>2. DispatchEscalate \/ DispatchEnd => EnterStep
    BY DEF DispatchEscalate, DispatchEnd
  <2>3. (\E outcome \in SendOutcome : SendNotifier(outcome)) =>
           Point = "notify" /\ Point' = "record_notification"
    BY DEF SendNotifier, Point, WritePoint
  <2>4. {Point, Point'} \intersect (InLoop \union {"raised", "crashed"}) = {}
    BY <1>2, <2>2, <2>3, Points DEF InLoop
  <2> QED BY <2>1, <2>4, CountFrame
<1>3. CASE DispatchDryRun
  <2>1. /\ dry /\ dry' = dry /\ attempts' = attempts + 1 /\ stepAttempts' = stepAttempts
        /\ Point = "dispatch" /\ Point' = "record_attempt"
    BY <1>3, Points DEF DispatchDryRun, EnterStep, Point, WritePoint
  <2> QED BY <1>0, <2>1 DEF CountInv, Uncounted, InLoop
<1>4. CASE DispatchSSH
  <2>1. /\ ~dry /\ dry' = dry /\ attempt' = 1 /\ UNCHANGED <<attempts, stepAttempts>>
        /\ Point = "dispatch" /\ Point' = "execute"
    BY <1>4, Points DEF DispatchSSH, EnterStep, Point, WritePoint
  <2> QED BY <1>0, <2>1 DEF CountInv, Uncounted, InLoop
<1>5. CASE \E result \in ExecutionResult : Execute(result)
  <2>1. /\ Point = "execute" /\ Point' = "record_attempt"
        /\ UNCHANGED <<dry, attempts, stepAttempts, attempt>>
    BY <1>5 DEF Execute, Point, WritePoint
  <2> QED BY <2>1, CountFrame
<1>6. CASE RecordAttempt
  <2>1. /\ Point = "record_attempt" /\ Point' = "branch" /\ UNCHANGED <<dry, attempts, attempt>>
        /\ stepAttempts' = Append(stepAttempts, row)
    BY <1>6, Points DEF RecordAttempt, RecordStepAttempt
  <2>2. Len(stepAttempts') = Len(stepAttempts) + 1
    BY <2>1 DEF Inv, RunTypeOK, Control, AtRecordAttempt
  <2> QED BY <1>0, <2>1, <2>2 DEF CountInv, Uncounted, InLoop
<1>7. CASE FollowSimulated \/ FollowSuccess \/ FollowFailure
  <2>1. /\ pc = "branch" /\ Point = "branch" /\ Point' = "dispatch"
        /\ UNCHANGED <<dry, stepAttempts>>
        /\ attempts' = IF row.branch = "simulated" THEN attempts ELSE attempts + attempt
    BY <1>7, Points DEF FollowSimulated, FollowSuccess, FollowFailure
  <2>2. dry <=> row.branch = "simulated"
    BY <2>1, BranchFacts DEF AtBranch
  <2>3. attempts' = Len(stepAttempts)
    BY <1>0, <2>1, <2>2 DEF CountInv, Uncounted
  <2> QED BY <2>1, <2>3 DEF CountInv, InLoop
<1>8. CASE Retry
  <2>1. /\ pc = "branch" /\ Point = "branch" /\ Point' = "execute" /\ row.branch = "retry"
        /\ UNCHANGED <<dry, attempts, stepAttempts>> /\ attempt' = attempt + 1
    BY <1>8, Points DEF Retry
  <2>2. ~dry
    BY <2>1, BranchFacts DEF AtBranch
  <2> QED BY <1>0, <2>1, <2>2 DEF CountInv, Uncounted, InLoop
<1>9. CASE Fault
  <2>1. Point' \in {"raised", "crashed"} /\ UNCHANGED <<dry, attempts, stepAttempts>>
    BY <1>9, Points DEF Fault, WriteFails, ExecutorRaises, Crash
  <2> QED BY <2>1, CountFrame
<1>10. CASE Tick \/ UNCHANGED vars
  <2>1. Point' = Point /\ UNCHANGED <<dry, attempts, stepAttempts, attempt>>
    BY <1>10, Points DEF Tick, vars, Point
  <2> QED BY <2>1, CountFrame
<1> QED BY <1>1, <1>2, <1>3, <1>4, <1>5, <1>6, <1>7, <1>8, <1>9, <1>10
        DEF Next, RunStep, OwnStep, Terminated

----------------------------------------------------------------------------
(* The result: the steps.                                                  *)

RowSteps == {stepAttempts[i].step : i \in 1..Len(stepAttempts)}
Unrecorded == IF Point \in {"execute", "record_attempt"} THEN {cur} ELSE {}

StepsInv ==
  /\ Point \notin {"raised", "crashed"} =>
       SSHStepsOn(path) \subseteq RowSteps \union Unrecorded
  /\ RowSteps \subseteq SSHStepsOn(path)
  /\ Point \in {"notify", "record_notification", "record_end", "returned"} =>
       path # <<>> /\ path[Len(path)] = cur
  /\ Point = "returned" =>
       /\ execution.status = final /\ final \in FinalStatus
       /\ final \in {"success", "escalated"} =>
            Step.type = IF final = "success" THEN "end" ELSE "escalate"

LEMMA StepsInit == Init => StepsInv
BY DEF Init, StepsInv, RowSteps, SSHStepsOn, Range, StoreInit, Point, WritePoint

LEMMA StepsFrame ==
  ASSUME StepsInv, UNCHANGED <<rb, path, stepAttempts>>,
         \/ UNCHANGED <<Point, cur, execution, final>>
         \/ Point' \in {"raised", "crashed"}
         \/ /\ Point \notin InLoop \union {"raised", "crashed"}
            /\ Point' = "dispatch"
         \/ Point = "branch" /\ Point' \in {"dispatch", "execute"}
         \/ Point = "execute" /\ Point' = "record_attempt" /\ cur' = cur
         \/ /\ Point \in {"notify", "record_notification"} /\ cur' = cur
            /\ Point' \in {"notify", "record_notification", "record_end"}
  PROVE  StepsInv'
<1>1. RowSteps' = RowSteps /\ SSHStepsOn(path)' = SSHStepsOn(path)
  BY DEF RowSteps, SSHStepsOn, Range
<1>2. Unrecorded' = Unrecorded \/ Point' \in {"raised", "crashed"} \/ Unrecorded = {}
  BY DEF Unrecorded, InLoop
<1> QED BY <1>1, <1>2 DEF StepsInv, InLoop, Step

LEMMA StepsEnter ==
  ASSUME Inv, StepsInv, EnterStep, UNCHANGED <<rb, cur, stepAttempts>>,
         \/ Point' \in {"execute", "record_attempt"} /\ Step.type = "ssh"
         \/ Point' \in {"notify", "record_end"} /\ Step.type # "ssh"
  PROVE  StepsInv'
<1>1. /\ path \in Seq(DOMAIN rb.steps) /\ path' = Append(path, cur) /\ Point = "dispatch"
      /\ cur \in DOMAIN rb.steps
  BY DEF Inv, RunTypeOK, EnterStep, Point, WritePoint
<1>2. /\ Len(path') = Len(path) + 1 /\ Len(path) \in Nat /\ path'[Len(path')] = cur
      /\ path' \in Seq(DOMAIN rb.steps) /\ \A k \in 1..Len(path) : path'[k] = path[k]
      /\ path' # <<>>
  BY <1>1
<1>3. Range(path') = Range(path) \union {cur}
  BY <1>1, <1>2 DEF Range
<1>4. SSHStepsOn(path)' = SSHStepsOn(path) \union (IF Step.type = "ssh" THEN {cur} ELSE {})
  BY <1>3 DEF SSHStepsOn, Step
<1>5. RowSteps' = RowSteps /\ Unrecorded = {}
      /\ Unrecorded' = IF Step.type = "ssh" THEN {cur} ELSE {}
  BY <1>1 DEF RowSteps, Unrecorded
<1> QED BY <1>1, <1>2, <1>4, <1>5 DEF StepsInv

LEMMA StepsRecord == Inv /\ WalkInv /\ StepsInv /\ RecordAttempt => StepsInv'
<1> SUFFICES ASSUME Inv, WalkInv, StepsInv, RecordAttempt PROVE StepsInv'
  OBVIOUS
<1>1. /\ stepAttempts' = Append(stepAttempts, row) /\ UNCHANGED <<rb, path, cur>>
      /\ Point = "record_attempt" /\ Point' = "branch"
  BY Points DEF RecordAttempt, RecordStepAttempt, inputVars, walkVars
<1>2. /\ stepAttempts \in Seq(RowSet) /\ row \in RowSet /\ row.step = cur /\ Step \in SSHStep
      /\ path # <<>> /\ path[Len(path)] = cur /\ path \in Seq(DOMAIN rb.steps)
  BY <1>1 DEF Inv, RunTypeOK, Control, AtRecordAttempt, IsSSH, WalkInv, InLoop
<1>3. RowSteps' = RowSteps \union {cur}
  <2>1. /\ Len(stepAttempts) \in Nat /\ Len(stepAttempts') = Len(stepAttempts) + 1
        /\ stepAttempts'[Len(stepAttempts')] = row
        /\ \A i \in 1..Len(stepAttempts) : stepAttempts'[i] = stepAttempts[i]
    BY <1>1, <1>2
  <2> QED BY <1>2, <2>1 DEF RowSteps
<1>4. cur \in SSHStepsOn(path) /\ SSHStepsOn(path)' = SSHStepsOn(path)
  <2>1. Step.type = "ssh"
    BY <1>2, SSHStepFields
  <2>2. Len(path) \in DOMAIN path
    BY <1>2
  <2> QED BY <1>1, <1>2, <2>1, <2>2 DEF SSHStepsOn, Range, Step
<1> QED BY <1>1, <1>3, <1>4 DEF StepsInv, Unrecorded

LEMMA StepsEnd == Inv /\ StepsInv /\ RecordEnd => StepsInv'
<1> SUFFICES ASSUME Inv, StepsInv, RecordEnd PROVE StepsInv'
  OBVIOUS
<1>1. /\ Point = "record_end" /\ Point' = "returned"
      /\ UNCHANGED <<rb, path, cur, final, stepAttempts>>
      /\ execution' = [execution EXCEPT !.status = final]
  BY Points DEF RecordEnd, RecordExecutionEnd, inputVars, walkVars
<1>2. execution = [status |-> "running", dryRun |-> dry] /\ AtRecordEnd
  BY <1>1 DEF Inv, Control
<1>3. execution'.status = final
  BY <1>1, <1>2
<1>4. /\ final \in FinalStatus
      /\ final \in {"success", "escalated"} =>
           Step.type = IF final = "success" THEN "end" ELSE "escalate"
  BY <1>2 DEF AtRecordEnd, FinalStatus
<1>5. RowSteps' = RowSteps /\ SSHStepsOn(path)' = SSHStepsOn(path) /\ Step' = Step
      /\ Unrecorded = {}
  BY <1>1 DEF RowSteps, SSHStepsOn, Range, Step, Unrecorded
<1> QED BY <1>1, <1>3, <1>4, <1>5 DEF StepsInv

LEMMA StepsNext == Inv /\ WalkInv /\ StepsInv /\ [Next]_vars => StepsInv'
<1> SUFFICES ASSUME Inv, WalkInv, StepsInv, [Next]_vars PROVE StepsInv'
  OBVIOUS
<1> USE DEF inputVars, walkVars, storeVars
<1>1. CASE WriteText \/ WriteJsonl
  <2>1. Point' = Point /\ UNCHANGED <<rb, path, stepAttempts, cur, execution, final>>
    BY <1>1, WritePoints DEF WriteText, WriteJsonl
  <2> QED BY <2>1, StepsFrame
<1>2. CASE RecordStart
  <2>1. Point = "record_start" /\ Point' = "dispatch" /\ UNCHANGED <<rb, path, stepAttempts>>
    BY <1>2, Points DEF RecordStart, RecordExecutionStart
  <2> QED BY <2>1, StepsFrame DEF InLoop
<1>3. CASE DispatchDryRun \/ DispatchSSH
  <2>1. /\ EnterStep /\ Step.type = "ssh" /\ UNCHANGED <<rb, cur, stepAttempts>>
        /\ Point' \in {"execute", "record_attempt"}
    BY <1>3, Points DEF DispatchDryRun, DispatchSSH
  <2> QED BY <2>1, StepsEnter
<1>4. CASE DispatchEscalate \/ DispatchEnd
  <2>1. /\ EnterStep /\ Step.type # "ssh" /\ UNCHANGED <<rb, cur, stepAttempts>>
        /\ Point' \in {"notify", "record_end"}
    BY <1>4, Points DEF DispatchEscalate, DispatchEnd
  <2> QED BY <2>1, StepsEnter
<1>5. CASE \E result \in ExecutionResult : Execute(result)
  <2>1. /\ Point = "execute" /\ Point' = "record_attempt"
        /\ UNCHANGED <<rb, path, stepAttempts, cur>>
    BY <1>5 DEF Execute, Point, WritePoint
  <2> QED BY <2>1, StepsFrame
<1>6. CASE RecordAttempt
  BY <1>6, StepsRecord
<1>7. CASE FollowSimulated \/ FollowSuccess \/ Retry \/ FollowFailure
  <2>1. /\ Point = "branch" /\ Point' \in {"dispatch", "execute"}
        /\ UNCHANGED <<rb, path, stepAttempts>>
    BY <1>7, Points DEF FollowSimulated, FollowSuccess, Retry, FollowFailure
  <2> QED BY <2>1, StepsFrame
<1>8. CASE \/ RecordNotificationResult \/ FinishEscalation
           \/ \E outcome \in SendOutcome : SendNotifier(outcome)
  <2>1. UNCHANGED <<rb, path, stepAttempts, cur>>
    BY <1>8 DEF RecordNotificationResult, RecordNotification, FinishEscalation, SendNotifier
  <2>2. (\E outcome \in SendOutcome : SendNotifier(outcome)) =>
           Point = "notify" /\ Point' = "record_notification"
    BY DEF SendNotifier, Point, WritePoint
  <2>3. /\ Point \in {"notify", "record_notification"}
        /\ Point' \in {"notify", "record_notification", "record_end"}
    BY <1>8, <2>2, Points
  <2> QED BY <2>1, <2>3, StepsFrame
<1>9. CASE RecordEnd
  BY <1>9, StepsEnd
<1>10. CASE Fault
  <2>1. Point' \in {"raised", "crashed"} /\ UNCHANGED <<rb, path, stepAttempts>>
    BY <1>10, Points DEF Fault, WriteFails, ExecutorRaises, Crash
  <2> QED BY <2>1, StepsFrame
<1>11. CASE Tick \/ UNCHANGED vars
  <2>1. Point' = Point /\ UNCHANGED <<rb, path, stepAttempts, cur, execution, final>>
    BY <1>11, Points DEF Tick, vars, Point
  <2> QED BY <2>1, StepsFrame
<1> QED BY <1>1, <1>2, <1>3, <1>4, <1>5, <1>6, <1>7, <1>8, <1>9, <1>10, <1>11
        DEF Next, RunStep, OwnStep, Terminated

----------------------------------------------------------------------------
(* The result: the log files.                                              *)

FilesInv ==
  /\ pc \notin {"write_jsonl", "raised", "crashed"} => Len(textLog) = Len(jsonlLog)
  /\ pc = "write_jsonl" =>
       Len(textLog) = Len(jsonlLog) + 1 /\ textLog[Len(textLog)] = event
  /\ pc \in WritePoint /\ Point = "returned" => event = ExecutionEndEvent(final)
  /\ pc = "returned" => textLog[Len(textLog)] = ExecutionEndEvent(final)

LEMMA FilesInit == Init => FilesInv
BY DEF Init, FilesInv, LogInit, WritePoint

LEMMA FilesNext == Inv /\ LogInv /\ FilesInv /\ [Next]_vars => FilesInv'
<1> SUFFICES ASSUME Inv, LogInv, FilesInv, [Next]_vars PROVE FilesInv'
  OBVIOUS
<1> USE DEF logVars, walkVars, WritePoint
<1>1. CASE WriteText
  <2>1. /\ pc = "write_text" /\ pc' = "write_jsonl" /\ textLog' = Append(textLog, event)
        /\ UNCHANGED <<jsonlLog, event, final>> /\ Point' = Point
    BY <1>1, WritePoints DEF WriteText, AppendText
  <2>2. Len(textLog') = Len(textLog) + 1 /\ textLog'[Len(textLog')] = event
    BY <2>1 DEF LogInv
  <2> QED BY <2>1, <2>2 DEF FilesInv
<1>2. CASE WriteJsonl
  <2>1. /\ pc = "write_jsonl" /\ pc' = After(event) /\ jsonlLog' = Append(jsonlLog, event)
        /\ UNCHANGED <<textLog, event, final>> /\ Point = After(event)
    BY <1>2 DEF WriteJsonl, AppendJsonl, Point
  <2>2. After(event) \in {"dispatch", "branch", "notify", "record_end", "returned"}
    BY <2>1, AfterKinds DEF Inv, Control, EventKinds
  <2>3. Len(jsonlLog') = Len(jsonlLog) + 1
    BY <2>1 DEF LogInv
  <2> QED BY <2>1, <2>2, <2>3 DEF FilesInv
<1>3. CASE RecordStart \/ RecordAttempt \/ RecordNotificationResult \/ FinishEscalation
  <2>1. /\ pc \notin {"write_text", "write_jsonl", "raised", "crashed"}
        /\ pc' = "write_text" /\ UNCHANGED <<textLog, jsonlLog>>
    BY <1>3 DEF RecordStart, RecordAttempt, RecordNotificationResult, FinishEscalation, Log
  <2>2. Point' # "returned"
    BY <1>3, Points
  <2> QED BY <2>1, <2>2 DEF FilesInv
<1>4. CASE RecordEnd
  <2>1. /\ pc = "record_end" /\ pc' = "write_text" /\ UNCHANGED <<textLog, jsonlLog, final>>
        /\ event' = ExecutionEndEvent(final)
    BY <1>4 DEF RecordEnd, Log
  <2> QED BY <2>1 DEF FilesInv
<1>5. CASE \/ DispatchDryRun \/ DispatchSSH \/ DispatchEscalate \/ DispatchEnd
           \/ FollowSimulated \/ FollowSuccess \/ Retry \/ FollowFailure \/ Fault
           \/ \E result \in ExecutionResult : Execute(result)
           \/ \E outcome \in SendOutcome : SendNotifier(outcome)
  <2>1. /\ UNCHANGED <<textLog, jsonlLog>>
        /\ pc' \notin {"write_text", "write_jsonl", "returned"}
        /\ pc \in {"write_jsonl", "raised", "crashed"} => pc' \in {"raised", "crashed"}
    BY <1>5 DEF DispatchDryRun, DispatchSSH, DispatchEscalate, DispatchEnd, EnterStep,
       FollowSimulated, FollowSuccess, Retry, FollowFailure, Fault, WriteFails,
       ExecutorRaises, Crash, Stopped, Execute, SendNotifier
  <2> QED BY <2>1 DEF FilesInv
<1>6. CASE Tick \/ UNCHANGED vars
  <2>1. UNCHANGED <<pc, event, final, textLog, jsonlLog>>
    BY <1>6 DEF Tick, vars
  <2> QED BY <2>1 DEF FilesInv, Point
<1> QED BY <1>1, <1>2, <1>3, <1>4, <1>5, <1>6 DEF Next, RunStep, OwnStep, Terminated

(* What run returns is what was recorded, in the database and in the logs. *)
THEOREM ResultRecorded == Spec => []ResultAgreesWithRecords
<1>1. Inv /\ CountInv /\ StepsInv /\ FilesInv => ResultAgreesWithRecords
  <2> SUFFICES ASSUME Inv, CountInv, StepsInv, FilesInv, pc = "returned"
               PROVE  ResultAgreesWithRecords
    BY DEF ResultAgreesWithRecords
  <2>1. Point = "returned" /\ Unrecorded = {}
    BY DEF Point, WritePoint, Unrecorded
  <2>2. execution.status = final /\ final \in FinalStatus /\ attempts = Len(stepAttempts)
    BY <2>1 DEF StepsInv, CountInv, InLoop
  <2>3. {s \in Range(path) : rb.steps[s].type = "ssh"}
          = {stepAttempts[i].step : i \in DOMAIN stepAttempts}
    <3>1. DOMAIN stepAttempts = 1..Len(stepAttempts)
      BY DEF Inv, RunTypeOK
    <3> QED BY <2>1, <3>1 DEF StepsInv, SSHStepsOn, RowSteps
  <2>4. Last(path) = cur
    BY <2>1 DEF StepsInv, Last
  <2>5. rb.steps[Last(path)].type = (IF final = "success" THEN "end"
                                     ELSE IF final = "escalated" THEN "escalate"
                                     ELSE rb.steps[Last(path)].type)
    BY <2>1, <2>4 DEF StepsInv, Step
  <2>6. Len(textLog) = Len(jsonlLog) /\ Last(textLog) = ExecutionEndEvent(final)
    BY DEF FilesInv, Last
  <2> QED BY <2>2, <2>3, <2>5, <2>6 DEF ResultAgreesWithRecords
<1> QED BY <1>1, InitInv, NextInv, WalkInit, WalkNext, LogStart, LogNext, CountInit, CountNext,
           StepsInit, StepsNext, FilesInit, FilesNext, PTL DEF Spec

----------------------------------------------------------------------------
(* What the engine has written when it stops.                              *)

Started   == IF execution = NoExecution THEN 0 ELSE 1
Escalated == IF Point \in {"record_end", "returned"} /\ final = "escalated" THEN 1 ELSE 0
Ended     == IF execution.status \in FinalStatus THEN 1 ELSE 0
Pending   == IF pc \in WritePoint THEN 1 ELSE 0

(* The events that belong to what the run has reached.                     *)
Trail == Started + Len(stepAttempts) + Len(notifications) + Escalated + Ended

LengthInv ==
  /\ Len(jsonlLog) <= Len(textLog)
  /\ Point \notin {"raised", "crashed"} => Len(jsonlLog) + Pending = Trail

(* Nothing is done before the row of the execution is there.               *)
EmptyInv ==
  execution = NoExecution =>
    /\ Point \in {"record_start", "raised", "crashed"} /\ calls = <<>>
    /\ textLog = <<>> /\ jsonlLog = <<>>

LEMMA EmptyInit == Init => EmptyInv /\ LengthInv
BY DEF Init, EmptyInv, LengthInv, Trail, Started, Escalated, Ended, Pending, StoreInit,
   LogInit, NoExecution, FinalStatus, Point, WritePoint

LEMMA EmptyNext == Inv /\ EmptyInv /\ [Next]_vars => EmptyInv'
<1> SUFFICES ASSUME Inv, EmptyInv, [Next]_vars PROVE EmptyInv'
  OBVIOUS
<1> USE DEF storeVars, worldVars, logVars
<1>1. CASE RecordStart
  BY <1>1 DEF RecordStart, RecordExecutionStart, EmptyInv, NoExecution
<1>2. CASE RecordEnd
  <2>1. Point = "record_end" /\ execution' = [execution EXCEPT !.status = final]
    BY <1>2, Points DEF RecordEnd, RecordExecutionEnd
  <2>2. /\ execution = [status |-> "running", dryRun |-> dry] /\ final \in FinalStatus
    BY <2>1 DEF Inv, Control, AtRecordEnd, FinalStatus
  <2> QED BY <2>1, <2>2 DEF EmptyInv, NoExecution, FinalStatus
<1>3. CASE \/ WriteText \/ WriteJsonl
           \/ DispatchDryRun \/ DispatchSSH \/ DispatchEscalate \/ DispatchEnd
           \/ RecordAttempt \/ FollowSimulated \/ FollowSuccess \/ Retry \/ FollowFailure
           \/ RecordNotificationResult \/ FinishEscalation
           \/ \E result \in ExecutionResult : Execute(result)
           \/ \E outcome \in SendOutcome : SendNotifier(outcome)
  <2>1. execution' = execution
    BY <1>3 DEF WriteText, WriteJsonl, DispatchDryRun, DispatchSSH, DispatchEscalate,
       DispatchEnd, RecordAttempt, RecordStepAttempt, FollowSimulated, FollowSuccess,
       Retry, FollowFailure, RecordNotificationResult, RecordNotification,
       FinishEscalation, Execute, SendNotifier
  <2>2. pc \notin {"record_start", "raised", "crashed"}
    BY <1>3 DEF WriteText, WriteJsonl, DispatchDryRun, DispatchSSH, DispatchEscalate,
       DispatchEnd, EnterStep, RecordAttempt, FollowSimulated, FollowSuccess,
       Retry, FollowFailure, RecordNotificationResult, FinishEscalation, Execute, SendNotifier
  <2>3. pc \in WritePoint => After(event) \in {"dispatch", "branch", "notify", "record_end", "returned"}
    BY AfterKinds DEF Inv, Control, EventKinds
  <2>4. Point \notin {"record_start", "raised", "crashed"}
    BY <2>2, <2>3 DEF Point
  <2> QED BY <2>1, <2>4 DEF EmptyInv
<1>4. CASE Fault
  <2>1. /\ UNCHANGED <<execution, textLog, jsonlLog>> /\ Point' \in {"raised", "crashed"}
        /\ \/ calls' = calls
           \/ Point = "execute"
    BY <1>4, Points DEF Fault, WriteFails, ExecutorRaises, Crash, Point, WritePoint
  <2> QED BY <2>1 DEF EmptyInv
<1>5. CASE Tick \/ UNCHANGED vars
  <2>1. Point' = Point /\ UNCHANGED <<execution, textLog, jsonlLog, calls>>
    BY <1>5, Points DEF Tick, vars, Point
  <2> QED BY <2>1 DEF EmptyInv
<1> QED BY <1>1, <1>2, <1>3, <1>4, <1>5 DEF Next, RunStep, OwnStep, Terminated

(* A step that writes nothing.                                             *)
LEMMA LengthFrame ==
  ASSUME LengthInv, UNCHANGED <<storeVars, logVars>>, pc \notin WritePoint, pc' \notin WritePoint,
         \/ Point' \in {"raised", "crashed"}
         \/ /\ Point \notin {"raised", "crashed"}
            /\ \/ {Point, Point'} \intersect {"record_end", "returned"} = {}
               \/ UNCHANGED <<Point, final>>
               \/ /\ Point \notin {"record_end", "returned"} /\ Point' # "returned"
                  /\ final' # "escalated"
  PROVE  LengthInv'
BY DEF LengthInv, Trail, Started, Escalated, Ended, Pending, storeVars, logVars

LEMMA LengthRecord ==
  ASSUME Inv, LogInv, LengthInv, UNCHANGED logVars, pc \notin WritePoint, pc' = "write_text",
         Point \notin {"raised", "crashed"}, Trail' = Trail + 1
  PROVE  LengthInv'
<1>1. Len(jsonlLog) \in Nat /\ Len(textLog) \in Nat
  BY DEF LogInv
<1> QED BY <1>1 DEF LengthInv, Pending, WritePoint, logVars

LEMMA LengthNext == Inv /\ LogInv /\ FilesInv /\ LengthInv /\ [Next]_vars => LengthInv'
<1> SUFFICES ASSUME Inv, LogInv, FilesInv, LengthInv, [Next]_vars PROVE LengthInv'
  OBVIOUS
<1>0. /\ Len(jsonlLog) \in Nat /\ Len(textLog) \in Nat
      /\ Len(stepAttempts) \in Nat /\ Len(notifications) \in Nat
  BY DEF Inv, RunTypeOK, LogInv
<1>1. CASE WriteText
  <2>1. /\ Point' = Point /\ pc \in WritePoint /\ pc' \in WritePoint
        /\ UNCHANGED <<storeVars, final, jsonlLog>> /\ textLog' = Append(textLog, event)
    BY <1>1, WritePoints DEF WriteText, AppendText, WritePoint, walkVars
  <2>2. Len(textLog') = Len(textLog) + 1
    BY <2>1 DEF LogInv
  <2>3. Trail' = Trail
    BY <2>1 DEF Trail, Started, Escalated, Ended, storeVars
  <2> QED BY <1>0, <2>1, <2>2, <2>3 DEF LengthInv, Pending
<1>2. CASE WriteJsonl
  <2>1. /\ Point' = Point /\ pc = "write_jsonl" /\ pc' = After(event)
        /\ UNCHANGED <<storeVars, final, textLog>> /\ jsonlLog' = Append(jsonlLog, event)
    BY <1>2, WritePoints DEF WriteJsonl, AppendJsonl, walkVars
  <2>2. Len(jsonlLog') = Len(jsonlLog) + 1 /\ Len(textLog) = Len(jsonlLog) + 1
    BY <2>1 DEF LogInv, FilesInv
  <2>3. pc' \notin WritePoint
    BY <2>1, AfterKinds DEF Inv, Control, EventKinds, WritePoint
  <2>4. Trail' = Trail
    BY <2>1 DEF Trail, Started, Escalated, Ended, storeVars
  <2> QED BY <1>0, <2>1, <2>2, <2>3, <2>4 DEF LengthInv, Pending, WritePoint
<1>3. CASE RecordStart
  <2>1. /\ Point = "record_start" /\ Point' = "dispatch" /\ pc \notin WritePoint
        /\ pc' = "write_text" /\ UNCHANGED <<stepAttempts, notifications, logVars>>
        /\ execution' = [status |-> "running", dryRun |-> dry]
    BY <1>3, Points DEF RecordStart, RecordExecutionStart, Log, WritePoint
  <2>2. execution = NoExecution
    BY <2>1 DEF Inv, Control, Fresh
  <2>3. Started = 0 /\ Started' = 1 /\ Ended = 0 /\ Ended' = 0 /\ Escalated = 0 /\ Escalated' = 0
    BY <2>1, <2>2 DEF Started, Escalated, Ended, NoExecution, FinalStatus
  <2>4. Trail' = Trail + 1
    BY <1>0, <2>1, <2>3 DEF Trail
  <2> QED BY <2>1, <2>4, LengthRecord
<1>4. CASE RecordAttempt
  <2>1. /\ Point = "record_attempt" /\ Point' = "branch" /\ pc \notin WritePoint
        /\ pc' = "write_text" /\ UNCHANGED <<execution, notifications, logVars>>
        /\ stepAttempts' = Append(stepAttempts, row)
    BY <1>4, Points DEF RecordAttempt, RecordStepAttempt, Log, WritePoint
  <2>2. Len(stepAttempts') = Len(stepAttempts) + 1
    BY <2>1 DEF Inv, RunTypeOK, Control, AtRecordAttempt
  <2>3. Started \in {0, 1} /\ Ended \in {0, 1} /\ Escalated = 0 /\ UNCHANGED <<Started, Ended, Escalated>>
    BY <2>1 DEF Started, Escalated, Ended
  <2>4. Trail' = Trail + 1
    BY <1>0, <2>1, <2>2, <2>3 DEF Trail
  <2> QED BY <2>1, <2>4, LengthRecord
<1>5. CASE RecordNotificationResult
  <2> DEFINE new == [step |-> note.step, notifier |-> note.notifier,
                     status |-> note.status, sentAt |-> now.wall]
  <2>1. /\ Point = "record_notification" /\ Point' = "notify" /\ pc \notin WritePoint
        /\ pc' = "write_text" /\ UNCHANGED <<execution, stepAttempts, logVars>>
        /\ notifications' = Append(notifications, new)
    BY <1>5, Points DEF RecordNotificationResult, RecordNotification, Log, WritePoint
  <2>2. Len(notifications') = Len(notifications) + 1
    <3> HIDE DEF new
    <3> QED BY <2>1 DEF Inv, RunTypeOK
  <2>3. Started \in {0, 1} /\ Ended \in {0, 1} /\ Escalated = 0 /\ UNCHANGED <<Started, Ended, Escalated>>
    BY <2>1 DEF Started, Escalated, Ended
  <2>4. Trail' = Trail + 1
    BY <1>0, <2>1, <2>2, <2>3 DEF Trail
  <2> QED BY <2>1, <2>4, LengthRecord
<1>6. CASE FinishEscalation
  <2>1. /\ Point = "notify" /\ Point' = "record_end" /\ pc \notin WritePoint
        /\ pc' = "write_text" /\ UNCHANGED <<storeVars, logVars, final>>
    BY <1>6, Points DEF FinishEscalation, Log, WritePoint, walkVars
  <2>2. final = "escalated"
    BY <2>1 DEF Inv, Control, AtNotify
  <2>3. Started \in {0, 1} /\ Ended \in {0, 1} /\ UNCHANGED <<Started, Ended>> /\ Escalated = 0 /\ Escalated' = 1
    BY <2>1, <2>2 DEF Started, Escalated, Ended, storeVars
  <2>4. Trail' = Trail + 1
    BY <1>0, <2>1, <2>3 DEF Trail, storeVars
  <2> QED BY <2>1, <2>4, LengthRecord
<1>7. CASE RecordEnd
  <2>1. /\ Point = "record_end" /\ Point' = "returned" /\ pc \notin WritePoint
        /\ pc' = "write_text" /\ UNCHANGED <<stepAttempts, notifications, logVars, final>>
        /\ execution' = [execution EXCEPT !.status = final]
    BY <1>7, Points DEF RecordEnd, RecordExecutionEnd, Log, WritePoint, walkVars
  <2>2. execution = [status |-> "running", dryRun |-> dry] /\ final \in FinalStatus
    BY <2>1 DEF Inv, Control, AtRecordEnd, FinalStatus
  <2>3. Started = 1 /\ Started' = 1 /\ Ended = 0 /\ Ended' = 1 /\ Escalated \in {0, 1} /\ Escalated' = Escalated
    BY <2>1, <2>2 DEF Started, Escalated, Ended, NoExecution, FinalStatus
  <2>4. Trail' = Trail + 1
    BY <1>0, <2>1, <2>3 DEF Trail
  <2> QED BY <2>1, <2>4, LengthRecord
<1>8. CASE \/ DispatchDryRun \/ DispatchSSH \/ DispatchEscalate \/ DispatchEnd
           \/ FollowSimulated \/ FollowSuccess \/ Retry \/ FollowFailure
           \/ \E result \in ExecutionResult : Execute(result)
           \/ \E outcome \in SendOutcome : SendNotifier(outcome)
  <2>1. UNCHANGED <<storeVars, logVars>> /\ pc \notin WritePoint /\ pc' \notin WritePoint
    BY <1>8 DEF DispatchDryRun, DispatchSSH, DispatchEscalate, DispatchEnd, EnterStep,
       FollowSimulated, FollowSuccess, Retry, FollowFailure, Execute, SendNotifier, WritePoint
  <2>2. pc \in {"dispatch", "branch", "execute", "notify"}
    BY <1>8 DEF DispatchDryRun, DispatchSSH, DispatchEscalate, DispatchEnd, EnterStep,
       FollowSimulated, FollowSuccess, Retry, FollowFailure, Execute, SendNotifier
  <2>3. \/ pc' \in {"record_attempt", "execute", "dispatch", "notify", "record_notification"}
        \/ pc' = "record_end" /\ final' # "escalated"
    BY <1>8 DEF DispatchDryRun, DispatchSSH, DispatchEscalate, DispatchEnd, EnterStep,
       FollowSimulated, FollowSuccess, Retry, FollowFailure, Execute, SendNotifier
  <2>4. Point = pc /\ Point' = pc'
    BY <2>1 DEF Point
  <2> QED BY <2>1, <2>2, <2>3, <2>4, LengthFrame
<1>9. CASE Fault
  <2>1. /\ Point' \in {"raised", "crashed"} /\ UNCHANGED logVars
    BY <1>9, Points DEF Fault, WriteFails, ExecutorRaises, Crash
  <2> QED BY <2>1 DEF LengthInv, logVars
<1>10. CASE Tick \/ UNCHANGED vars
  <2>1. Point' = Point /\ UNCHANGED <<pc, storeVars, logVars, final>>
    BY <1>10, Points DEF Tick, vars, Point, walkVars, storeVars, logVars
  <2> QED BY <2>1 DEF LengthInv, Trail, Started, Escalated, Ended, Pending, storeVars, logVars
<1> QED BY <1>1, <1>2, <1>3, <1>4, <1>5, <1>6, <1>7, <1>8, <1>9, <1>10
        DEF Next, RunStep, OwnStep, Terminated

----------------------------------------------------------------------------
(* The logs and the rows.  An event's place in the text log is that of its *)
(* row; an escalation event stands between the rows and the end.           *)

Rows == 1 + Len(stepAttempts) + Len(notifications)

Placed(i, e) ==
  /\ i = 1 => e = ExecutionStartEvent(execution.dryRun)
  /\ i \in 2..1 + Len(stepAttempts) => e = StepAttemptEvent(stepAttempts[i - 1])
  /\ i \in 2 + Len(stepAttempts)..Rows =>
       e = NotificationEvent(notifications[i - 1 - Len(stepAttempts)])
  /\ i > Rows => \/ e.event = "escalation"
                 \/ execution.status \in FinalStatus /\ e = ExecutionEndEvent(execution.status)

Right(log) ==
  /\ \A i \in 1..Len(log) : Placed(i, log[i])
  /\ Len(log) <= Rows + 2
  /\ Len(log) = Rows + 2 =>
       log[Rows + 1].event = "escalation" /\ log[Rows + 2].event # "escalation"

Escalating == IF Len(textLog) > Rows /\ textLog[Rows + 1].event = "escalation" THEN 1 ELSE 0

TrailInv ==
  /\ execution.status = "absent" => execution = NoExecution
  /\ execution # NoExecution => Right(textLog) /\ Rows + Ended + Escalating <= Len(textLog) + 1
  /\ pc = "write_text" => execution # NoExecution /\ Right(Append(textLog, event))

PrefixInv ==
  /\ \A i \in 1..Len(jsonlLog) : jsonlLog[i] = textLog[i]
  /\ Len(jsonlLog) <= Len(textLog) /\ Len(textLog) <= Len(jsonlLog) + 1

LEMMA TrailInit == Init => TrailInv /\ PrefixInv
BY DEF Init, StoreInit, LogInit, TrailInv, PrefixInv, NoExecution

LEMMA AppendIs ==
  ASSUME NEW S, NEW s \in Seq(S), NEW e
  PROVE  /\ Len(s) \in Nat /\ Len(Append(s, e)) = Len(s) + 1
         /\ \A i \in 1..Len(s) : Append(s, e)[i] = s[i]
         /\ Append(s, e)[Len(s) + 1] = e
<1> DEFINE T == S \union {e}
<1>1. s \in Seq(T) /\ e \in T
  OBVIOUS
<1> HIDE DEF T
<1> QED BY <1>1

(* What is left alone stays right.                                         *)
LEMMA TrailFrame ==
  ASSUME TrailInv, UNCHANGED <<storeVars, textLog>>,
         pc' # "write_text" \/ UNCHANGED <<pc, event>>
  PROVE  TrailInv'
BY DEF TrailInv, Right, Placed, Rows, Ended, Escalating, storeVars

(* Where the text log stands when a row is written.                        *)
LEMMA LogsAtRest ==
  ASSUME Inv, LogInv, FilesInv, LengthInv, pc \notin WritePoint \union {"raised", "crashed"}
  PROVE  Len(textLog) = Started + Len(stepAttempts) + Len(notifications) + Escalated + Ended
BY DEF FilesInv, LengthInv, Trail, Pending, WritePoint, Point

(* An event is handed to the logger with the row it tells of, if any.      *)
LEMMA TrailRecord ==
  ASSUME execution' # NoExecution, execution'.status # "absent", UNCHANGED textLog,
         Right(textLog)', Right(Append(textLog, event))',
         Rows' + Ended' + Escalating' <= Len(textLog) + 1
  PROVE  TrailInv'
BY DEF TrailInv

LEMMA TrailNext ==
  Inv /\ LogInv /\ FilesInv /\ LengthInv /\ TrailInv /\ [Next]_vars => TrailInv'
<1> SUFFICES ASSUME Inv, LogInv, FilesInv, LengthInv, TrailInv, [Next]_vars PROVE TrailInv'
  OBVIOUS
<1> DEFINE n == Len(stepAttempts)
           m == Len(notifications)
           L == Len(textLog)
<1>0. /\ n \in Nat /\ m \in Nat /\ L \in Nat /\ textLog \in Seq(Event)
      /\ stepAttempts \in Seq(RowSet) /\ notifications \in Seq(NoteRow)
      /\ textLog' \in Seq(Event) /\ Rows \in Nat /\ Ended \in {0, 1}
  BY LogNext DEF Inv, RunTypeOK, LogInv, Rows, Ended
<1>1. CASE WriteText
  <2>1. /\ pc = "write_text" /\ pc' = "write_jsonl" /\ UNCHANGED storeVars
        /\ textLog' = Append(textLog, event)
    BY <1>1 DEF WriteText, AppendText
  <2>2. /\ UNCHANGED <<Rows, Ended, execution>> /\ Right(textLog)'
        /\ Rows + Ended + Escalating <= L + 1 /\ Len(textLog') = L + 1
    <3>1. \A log : Right(log)' <=> Right(log)
      BY <2>1 DEF Right, Placed, Rows, storeVars
    <3> QED BY <1>0, <2>1, <3>1, AppendIs DEF TrailInv, Rows, Ended, storeVars
  <2>3. Escalating \in {0, 1} /\ Escalating' \in {0, 1}
    BY DEF Escalating
  <2> QED BY <1>0, <2>1, <2>2, <2>3 DEF TrailInv
<1>2. CASE WriteJsonl
  <2>1. UNCHANGED <<storeVars, textLog>> /\ pc' # "write_text"
    BY <1>2, AfterKinds DEF WriteJsonl, AppendJsonl, Inv, Control, WritePoint, EventKinds
  <2> QED BY <2>1, TrailFrame
<1>3. CASE RecordStart
  <2>1. /\ Point = "record_start" /\ UNCHANGED <<stepAttempts, notifications, textLog>>
        /\ execution' = [status |-> "running", dryRun |-> dry]
        /\ event' = ExecutionStartEvent(dry) /\ pc = "record_start"
    BY <1>3, Points DEF RecordStart, RecordExecutionStart, Log, logVars
  <2>2. execution = NoExecution /\ stepAttempts = <<>> /\ notifications = <<>>
    BY <2>1 DEF Inv, Control, Fresh
  <2>3. textLog = <<>>
    <3>1. Started = 0 /\ Ended = 0 /\ Escalated = 0
      BY <2>1, <2>2 DEF Started, Ended, Escalated, NoExecution, FinalStatus
    <3>2. L = 0
      BY <1>0, <2>1, <2>2, <3>1, LogsAtRest DEF WritePoint
    <3> QED BY <1>0, <3>2
  <2>4. /\ Rows' = 1 /\ Ended' = 0 /\ Escalating' = 0
        /\ execution' # NoExecution /\ execution'.status # "absent"
    BY <2>1, <2>2, <2>3 DEF Rows, Ended, Escalating, NoExecution, FinalStatus
  <2>5. Right(textLog)'
    BY <2>1, <2>3, <2>4 DEF Right
  <2>6. Right(Append(textLog, event))'
    <3>1. /\ Len(Append(textLog', event')) = 1
          /\ Append(textLog', event')[1] = ExecutionStartEvent(dry)
      BY <2>1, <2>3
    <3> QED BY <2>1, <2>2, <2>4, <3>1 DEF Right, Placed
  <2> QED BY <2>1, <2>3, <2>4, <2>5, <2>6, TrailRecord
<1>4. CASE RecordAttempt
  <2>1. /\ pc = "record_attempt" /\ Point = "record_attempt"
        /\ UNCHANGED <<execution, notifications, textLog>>
        /\ stepAttempts' = Append(stepAttempts, row) /\ event' = StepAttemptEvent(row)
    BY <1>4, Points DEF RecordAttempt, RecordStepAttempt, Log, logVars
  <2>2. /\ execution = [status |-> "running", dryRun |-> dry] /\ notifications = <<>>
    BY <2>1 DEF Inv, Control
  <2>3. /\ Len(stepAttempts') = n + 1 /\ stepAttempts'[n + 1] = row
        /\ \A i \in 1..n : stepAttempts'[i] = stepAttempts[i]
    BY <1>0, <2>1, AppendIs
  <2>4. L = n + 1 /\ m = 0 /\ Rows = n + 1 /\ Rows' = n + 2 /\ Ended' = 0
        /\ execution' # NoExecution /\ execution # NoExecution /\ execution'.status # "absent"
    <3>1. Started = 1 /\ Ended = 0 /\ Escalated = 0
      BY <2>1, <2>2 DEF Started, Ended, Escalated, NoExecution, FinalStatus
    <3>2. Ended' = 0
      BY <2>1, <3>1 DEF Ended
    <3> QED BY <1>0, <2>1, <2>2, <2>3, <3>1, <3>2, LogsAtRest
            DEF WritePoint, Rows, Started
  <2>5. Escalating' = 0
    BY <1>0, <2>1, <2>4 DEF Escalating
  <2>6. \A i \in 1..L : Placed(i, textLog[i])'
    <3>1. \A i \in 1..L : Placed(i, textLog[i])
      BY <2>4 DEF TrailInv, Right
    <3> QED BY <1>0, <2>1, <2>3, <2>4, <3>1 DEF Placed
  <2>7. Right(textLog)'
    BY <1>0, <2>1, <2>4, <2>6 DEF Right
  <2>8. Right(Append(textLog, event))'
    <3>1. PICK more : more = Append(textLog', event')
      OBVIOUS
    <3>2. /\ Len(more) = L + 1 /\ more[L + 1] = StepAttemptEvent(row)
          /\ \A i \in 1..L : more[i] = textLog[i]
      BY <1>0, <2>1, <3>1, AppendIs
    <3>3. \A i \in {L + 1} : Placed(i, more[i])'
      BY <1>0, <2>1, <2>3, <2>4, <3>2 DEF Placed
    <3>4. \A i \in 1..L : Placed(i, more[i])'
      BY <1>0, <2>1, <2>6, <3>2
    <3>5. Right(more)'
      BY <1>0, <2>4, <3>2, <3>3, <3>4 DEF Right
    <3> QED BY <3>1, <3>5
  <2> QED BY <1>0, <2>1, <2>4, <2>5, <2>7, <2>8, TrailRecord
<1>5. CASE RecordNotificationResult
  <2> DEFINE new == [step |-> note.step, notifier |-> note.notifier,
                     status |-> note.status, sentAt |-> now.wall]
  <2>1. /\ pc = "record_notification" /\ Point = "record_notification"
        /\ UNCHANGED <<execution, stepAttempts, textLog>>
        /\ notifications' = Append(notifications, new) /\ event' = NotificationEvent(note)
    BY <1>5, Points DEF RecordNotificationResult, RecordNotification, Log, logVars
  <2>2. execution = [status |-> "running", dryRun |-> dry] /\ NotificationEvent(new) = event'
    BY <2>1 DEF Inv, Control, NotificationEvent
  <2> HIDE DEF new
  <2>3. /\ Len(notifications') = m + 1 /\ notifications'[m + 1] = new
        /\ \A i \in 1..m : notifications'[i] = notifications[i]
    BY <1>0, <2>1, AppendIs
  <2>4. L = n + m + 1 /\ Rows = n + m + 1 /\ Rows' = n + m + 2 /\ Ended' = 0
        /\ execution' # NoExecution /\ execution # NoExecution /\ execution'.status # "absent"
    <3>1. Started = 1 /\ Ended = 0 /\ Escalated = 0
      BY <2>1, <2>2 DEF Started, Ended, Escalated, NoExecution, FinalStatus
    <3>2. Ended' = 0
      BY <2>1, <3>1 DEF Ended
    <3> QED BY <1>0, <2>1, <2>2, <2>3, <3>1, <3>2, LogsAtRest
            DEF WritePoint, Rows, Started
  <2>5. Escalating' = 0
    BY <1>0, <2>1, <2>4 DEF Escalating
  <2>6. \A i \in 1..L : Placed(i, textLog[i])'
    <3>1. \A i \in 1..L : Placed(i, textLog[i])
      BY <2>4 DEF TrailInv, Right
    <3> QED BY <1>0, <2>1, <2>3, <2>4, <3>1 DEF Placed
  <2>7. Right(textLog)'
    BY <1>0, <2>1, <2>4, <2>6 DEF Right
  <2>8. Right(Append(textLog, event))'
    <3>1. PICK more : more = Append(textLog', event')
      OBVIOUS
    <3>2. /\ Len(more) = L + 1 /\ more[L + 1] = NotificationEvent(new)
          /\ \A i \in 1..L : more[i] = textLog[i]
      BY <1>0, <2>1, <2>2, <3>1, AppendIs
    <3>3. \A i \in {L + 1} : Placed(i, more[i])'
      BY <1>0, <2>1, <2>3, <2>4, <3>2 DEF Placed
    <3>4. \A i \in 1..L : Placed(i, more[i])'
      BY <1>0, <2>1, <2>6, <3>2
    <3>5. \A i \in 1..Len(more) : i \in 1..L \/ i \in {L + 1}
      BY <1>0, <3>2
    <3>6. Len(more) <= Rows' + 2 /\ Len(more) # Rows' + 2
      BY <1>0, <2>4, <3>2
    <3>7. Right(more)'
      BY <3>3, <3>4, <3>5, <3>6 DEF Right
    <3> QED BY <3>1, <3>7
  <2> QED BY <1>0, <2>1, <2>4, <2>5, <2>7, <2>8, TrailRecord
<1>6. CASE FinishEscalation
  <2>1. /\ pc = "notify" /\ Point = "notify"
        /\ UNCHANGED <<storeVars, textLog>> /\ event' = EscalationEvent(cur, reason)
    BY <1>6, Points DEF FinishEscalation, Log, logVars
  <2>2. execution = [status |-> "running", dryRun |-> dry]
    BY <2>1 DEF Inv, Control
  <2>3. L = Rows /\ execution # NoExecution /\ execution.status # "absent"
    <3>1. Started = 1 /\ Ended = 0 /\ Escalated = 0
      BY <2>1, <2>2 DEF Started, Ended, Escalated, NoExecution, FinalStatus
    <3> QED BY <1>0, <2>1, <2>2, <3>1, LogsAtRest DEF WritePoint, Rows, Started
  <2>4. /\ Right(textLog) /\ Rows + Ended + Escalating <= Len(textLog) + 1
        /\ \A log : Right(log)' <=> Right(log)
        /\ UNCHANGED <<Rows, Ended, Escalating, execution>>
    BY <2>1, <2>3 DEF TrailInv, Right, Placed, Rows, Ended, Escalating, storeVars
  <2>5. Right(Append(textLog, event'))
    <3> DEFINE more == Append(textLog, event')
    <3>1. /\ Len(more) = L + 1 /\ more[L + 1] = event'
          /\ \A i \in 1..L : more[i] = textLog[i]
      BY <1>0, AppendIs
    <3> HIDE DEF more
    <3>2. event'.event = "escalation"
      BY <2>1 DEF EscalationEvent
    <3>3. Placed(L + 1, more[L + 1])
      BY <1>0, <2>3, <3>1, <3>2 DEF Placed, Rows
    <3>4. \A i \in 1..L : Placed(i, textLog[i])
      BY <2>4 DEF Right
    <3>5. \A i \in 1..L : Placed(i, more[i])
      BY <3>1, <3>4
    <3>6. \A i \in 1..Len(more) : i \in 1..L \/ i = L + 1
      BY <1>0, <3>1
    <3>7. \A i \in 1..Len(more) : Placed(i, more[i])
      BY <3>3, <3>5, <3>6
    <3> QED BY <1>0, <2>3, <3>1, <3>7 DEF Right, more
  <2>6. Right(textLog)' /\ Right(Append(textLog, event))'
    BY <2>1, <2>4, <2>5
  <2> QED BY <2>1, <2>3, <2>4, <2>6, TrailRecord
<1>7. CASE RecordEnd
  <2>1. /\ pc = "record_end" /\ Point = "record_end" /\ UNCHANGED final
        /\ UNCHANGED <<stepAttempts, notifications, textLog>>
        /\ execution' = [execution EXCEPT !.status = final]
        /\ event' = ExecutionEndEvent(final)
    BY <1>7, Points DEF RecordEnd, RecordExecutionEnd, Log, logVars, walkVars
  <2>2. execution = [status |-> "running", dryRun |-> dry] /\ final \in FinalStatus
    BY <2>1 DEF Inv, Control, AtRecordEnd, FinalStatus
  <2>3. /\ L = Rows + Escalated /\ Escalated \in {0, 1} /\ execution # NoExecution
        /\ execution' # NoExecution /\ execution'.status # "absent"
        /\ Rows' = Rows /\ Ended' = 1
        /\ execution'.status = final /\ execution'.dryRun = execution.dryRun
    <3>1. Started = 1 /\ Ended = 0 /\ Escalated \in {0, 1}
      BY <2>1, <2>2 DEF Started, Ended, Escalated, NoExecution, FinalStatus
    <3> QED BY <1>0, <2>1, <2>2, <3>1, LogsAtRest
            DEF WritePoint, Rows, Started, Ended, NoExecution, FinalStatus
  <2>4. \A i \in 1..L : Placed(i, textLog[i]) /\ Placed(i, textLog[i])'
    <3>1. \A i \in 1..L : Placed(i, textLog[i])
      BY <2>3 DEF TrailInv, Right
    <3>2. execution.status \notin FinalStatus
      BY <2>2 DEF FinalStatus
    <3> QED BY <1>0, <2>1, <2>3, <3>1, <3>2 DEF Placed
  <2>5. L = Rows + 1 => textLog[Rows + 1].event = "escalation"
    BY <1>0, <2>2, <2>4 DEF Placed, FinalStatus
  <2>6. Right(textLog)'
    BY <1>0, <2>1, <2>3, <2>4 DEF Right
  <2>7. Right(Append(textLog, event))'
    <3>1. PICK more : more = Append(textLog', event')
      OBVIOUS
    <3>2. /\ Len(more) = L + 1 /\ more[L + 1] = ExecutionEndEvent(final)
          /\ \A i \in 1..L : more[i] = textLog[i]
      BY <1>0, <2>1, <3>1, AppendIs
    <3>3. \A i \in {L + 1} : Placed(i, more[i])'
      BY <1>0, <2>1, <2>2, <2>3, <3>2 DEF Placed, Rows
    <3>4. \A i \in 1..L : Placed(i, more[i])'
      BY <1>0, <2>1, <2>4, <3>2
    <3>5. more[L + 1].event # "escalation"
      BY <3>2 DEF ExecutionEndEvent
    <3>6. \A i \in 1..Len(more) : i \in 1..L \/ i \in {L + 1}
      BY <1>0, <3>2
    <3>7. /\ Len(more) <= Rows' + 2
          /\ Len(more) = Rows' + 2 => L = Rows + 1 /\ Rows' + 1 = L /\ Rows' + 2 = L + 1
      BY <1>0, <2>3, <3>2
    <3>8. Len(more) = Rows' + 2 => more[L].event = "escalation"
      <4>1. L = Rows + 1 => L \in 1..L
        BY <1>0
      <4> QED BY <2>5, <3>2, <3>7, <4>1
    <3>9. Right(more)'
      BY <3>3, <3>4, <3>5, <3>6, <3>7, <3>8 DEF Right
    <3> QED BY <3>1, <3>9
  <2>8. Escalating' <= Escalated /\ Escalating' \in {0, 1}
    BY <1>0, <2>1, <2>3 DEF Escalating
  <2> QED BY <1>0, <2>1, <2>3, <2>6, <2>7, <2>8, TrailRecord
<1>8. CASE \/ DispatchDryRun \/ DispatchSSH \/ DispatchEscalate \/ DispatchEnd
           \/ FollowSimulated \/ FollowSuccess \/ Retry \/ FollowFailure
           \/ \E result \in ExecutionResult : Execute(result)
           \/ \E outcome \in SendOutcome : SendNotifier(outcome)
  <2>1. UNCHANGED <<storeVars, textLog>> /\ pc' # "write_text"
    BY <1>8 DEF DispatchDryRun, DispatchSSH, DispatchEscalate, DispatchEnd, EnterStep,
       FollowSimulated, FollowSuccess, Retry, FollowFailure, Execute, SendNotifier, logVars
  <2> QED BY <2>1, TrailFrame
<1>9. CASE Fault
  <2>1. UNCHANGED <<storeVars, textLog>> /\ pc' # "write_text"
    BY <1>9 DEF Fault, WriteFails, ExecutorRaises, Crash, logVars
  <2> QED BY <2>1, TrailFrame
<1>10. CASE Tick \/ UNCHANGED vars
  <2>1. UNCHANGED <<storeVars, textLog, pc, event>>
    BY <1>10 DEF Tick, vars, storeVars, logVars
  <2> QED BY <2>1, TrailFrame
<1> QED BY <1>1, <1>2, <1>3, <1>4, <1>5, <1>6, <1>7, <1>8, <1>9, <1>10
        DEF Next, RunStep, OwnStep, Terminated

LEMMA PrefixNext == Inv /\ LogInv /\ FilesInv /\ PrefixInv /\ [Next]_vars => PrefixInv'
<1> SUFFICES ASSUME Inv, LogInv, FilesInv, PrefixInv, [Next]_vars PROVE PrefixInv'
  OBVIOUS
<1>1. CASE WriteText
  <2>1. /\ pc = "write_text" /\ textLog' = Append(textLog, event) /\ jsonlLog' = jsonlLog
    BY <1>1 DEF WriteText, AppendText
  <2>2. /\ Len(textLog) = Len(jsonlLog) /\ Len(textLog) \in Nat
        /\ Len(textLog') = Len(textLog) + 1
        /\ \A i \in 1..Len(textLog) : textLog'[i] = textLog[i]
    BY <2>1, AppendIs DEF FilesInv, LogInv
  <2> QED BY <2>1, <2>2 DEF PrefixInv
<1>2. CASE WriteJsonl
  <2>1. /\ pc = "write_jsonl" /\ jsonlLog' = Append(jsonlLog, event) /\ textLog' = textLog
    BY <1>2 DEF WriteJsonl, AppendJsonl
  <2>2. /\ Len(textLog) = Len(jsonlLog) + 1 /\ textLog[Len(textLog)] = event
        /\ Len(jsonlLog) \in Nat /\ Len(jsonlLog') = Len(jsonlLog) + 1
        /\ \A i \in 1..Len(jsonlLog) : jsonlLog'[i] = jsonlLog[i]
        /\ jsonlLog'[Len(jsonlLog) + 1] = event
    BY <2>1, AppendIs DEF FilesInv, LogInv
  <2> QED BY <2>1, <2>2 DEF PrefixInv
<1>3. ASSUME ~WriteText, ~WriteJsonl PROVE PrefixInv'
  <2>1. UNCHANGED <<textLog, jsonlLog>>
    BY <1>3 DEF Next, RunStep, OwnStep, Fault, Terminated, Tick, vars, RecordStart,
       DispatchDryRun, DispatchSSH, DispatchEscalate, DispatchEnd, RecordAttempt,
       FollowSimulated, FollowSuccess, Retry, FollowFailure, RecordNotificationResult,
       FinishEscalation, RecordEnd, Execute, SendNotifier, WriteFails, ExecutorRaises,
       Crash, logVars
  <2> QED BY <2>1 DEF PrefixInv
<1> QED BY <1>1, <1>2, <1>3

LEMMA IsPrefixOf ==
  ASSUME NEW S, NEW s \in Seq(S), NEW t \in Seq(S), Len(s) <= Len(t),
         \A i \in 1..Len(s) : s[i] = t[i]
  PROVE  IsPrefix(s, t)
<1>1. SubSeq(s, 1, Len(s)) = SubSeq(t, 1, Len(s))
  OBVIOUS
<1> QED BY <1>1 DEF IsPrefix

LEMMA RemoveAtIs ==
  ASSUME NEW S, NEW s \in Seq(S), NEW k \in 1..Len(s)
  PROVE  /\ RemoveAt(s, k) \in Seq(S) /\ Len(RemoveAt(s, k)) = Len(s) - 1
         /\ \A i \in 1..Len(s) - 1 : RemoveAt(s, k)[i] = IF i < k THEN s[i] ELSE s[i + 1]
<1> DEFINE a == SubSeq(s, 1, k - 1)
           b == SubSeq(s, k + 1, Len(s))
<1>1. /\ a \in Seq(S) /\ Len(a) = k - 1 /\ \A i \in 1..k - 1 : a[i] = s[i]
      /\ b \in Seq(S) /\ Len(b) = Len(s) - k /\ \A i \in 1..Len(s) - k : b[i] = s[k + i]
      /\ k \in Nat /\ Len(s) \in Nat /\ k >= 1 /\ k <= Len(s)
  OBVIOUS
<1>2. RemoveAt(s, k) = a \o b
  BY DEF RemoveAt
<1> HIDE DEF a, b
<1>3. /\ a \o b \in Seq(S) /\ Len(a \o b) = Len(s) - 1
      /\ \A i \in 1..Len(s) - 1 : (a \o b)[i] = IF i < k THEN a[i] ELSE b[i - (k - 1)]
  BY <1>1
<1>4. ASSUME NEW i \in 1..Len(s) - 1 PROVE (a \o b)[i] = IF i < k THEN s[i] ELSE s[i + 1]
  <2>1. CASE i < k
    BY <1>1, <1>3, <2>1
  <2>2. CASE ~(i < k)
    <3>1. i - (k - 1) \in 1..Len(s) - k /\ k + (i - (k - 1)) = i + 1
      BY <1>1, <2>2
    <3> QED BY <1>1, <1>3, <2>2, <3>1
  <2> QED BY <2>1, <2>2
<1> QED BY <1>2, <1>3, <1>4

LEMMA Joined ==
  ASSUME NEW S, NEW s \in Seq(S), NEW t \in Seq(S)
  PROVE  /\ s \o t \in Seq(S) /\ Len(s \o t) = Len(s) + Len(t)
         /\ \A i \in 1..Len(s) : (s \o t)[i] = s[i]
         /\ \A i \in 1..Len(t) : (s \o t)[Len(s) + i] = t[i]
OBVIOUS

(* The history the database tells, event by event.                         *)
LEMMA StoreTrailIs ==
  ASSUME Inv, TrailInv, execution # NoExecution
  PROVE  /\ StoreTrail \in Seq(Event) /\ Len(StoreTrail) = Rows + Ended
         /\ \A i \in 1..Rows + Ended : \A e :
               Placed(i, e) /\ (i > Rows => e.event # "escalation") => StoreTrail[i] = e
<1> DEFINE n == Len(stepAttempts)
           m == Len(notifications)
           a == <<ExecutionStartEvent(execution.dryRun)>>
           b == [i \in DOMAIN stepAttempts |-> StepAttemptEvent(stepAttempts[i])]
           c == [i \in DOMAIN notifications |-> NotificationEvent(notifications[i])]
           d == IF execution.status = "running" THEN <<>>
                ELSE <<ExecutionEndEvent(execution.status)>>
<1>1. /\ n \in Nat /\ m \in Nat /\ DOMAIN stepAttempts = 1..n /\ DOMAIN notifications = 1..m
      /\ \A i \in 1..n : stepAttempts[i] \in RowSet
      /\ \A i \in 1..m : notifications[i] \in NoteRow
      /\ execution.status \in {"running"} \union FinalStatus /\ execution.dryRun \in BOOLEAN
  BY DEF Inv, RunTypeOK, TrailInv
<1>2. a \in Seq(Event) /\ Len(a) = 1 /\ a[1] = ExecutionStartEvent(execution.dryRun)
  <2>1. ExecutionStartEvent(execution.dryRun) \in Event
    BY <1>1, EventsOfRows
  <2> QED BY <2>1
<1>3. b \in Seq(Event) /\ Len(b) = n /\ \A i \in 1..n : b[i] = StepAttemptEvent(stepAttempts[i])
  <2>1. \A i \in 1..n : StepAttemptEvent(stepAttempts[i]) \in Event
    BY <1>1, EventsOfRows
  <2> QED BY <1>1, <2>1
<1>4. c \in Seq(Event) /\ Len(c) = m /\ \A i \in 1..m : c[i] = NotificationEvent(notifications[i])
  <2>1. ASSUME NEW i \in 1..m PROVE NotificationEvent(notifications[i]) \in Event
    <3> DEFINE plain == [step |-> notifications[i].step, notifier |-> notifications[i].notifier,
                         status |-> notifications[i].status]
    <3>1. plain \in Note /\ NotificationEvent(plain) = NotificationEvent(notifications[i])
      BY <1>1 DEF Note, NoteRow, NotificationEvent
    <3> HIDE DEF plain
    <3> QED BY <3>1, EventsOfRows
  <2> QED BY <1>1, <2>1
<1>5. /\ d \in Seq(Event) /\ Len(d) = Ended /\ Ended \in {0, 1}
      /\ Ended = 1 => d[1] = ExecutionEndEvent(execution.status)
  <2>1. CASE execution.status = "running"
    BY <2>1 DEF Ended, FinalStatus
  <2>2. CASE execution.status \in FinalStatus
    <3>1. d = <<ExecutionEndEvent(execution.status)>> /\ Ended = 1
      BY <2>2 DEF Ended, FinalStatus
    <3>2. ExecutionEndEvent(execution.status) \in Event
      BY <2>2, EventsOfRows
    <3> QED BY <3>1, <3>2
  <2> QED BY <1>1, <2>1, <2>2
<1>6. StoreTrail = a \o b \o c \o d
  BY DEF StoreTrail
<1> HIDE DEF a, b, c, d
<1> DEFINE ab == a \o b
           abc == ab \o c
           abcd == abc \o d
<1>7. /\ ab \in Seq(Event) /\ Len(ab) = 1 + n /\ ab[1] = a[1]
      /\ \A i \in 1..n : ab[1 + i] = b[i]
  BY <1>1, <1>2, <1>3, Joined
<1> HIDE DEF ab
<1>8. /\ abc \in Seq(Event) /\ Len(abc) = 1 + n + m
      /\ \A i \in 1..1 + n : abc[i] = ab[i]
      /\ \A i \in 1..m : abc[1 + n + i] = c[i]
  <2>1. /\ abc \in Seq(Event) /\ Len(abc) = Len(ab) + Len(c)
        /\ \A i \in 1..Len(ab) : abc[i] = ab[i]
        /\ \A i \in 1..Len(c) : abc[Len(ab) + i] = c[i]
    <3>1. ab \in Seq(Event) /\ c \in Seq(Event)
      BY <1>4, <1>7
    <3> QED BY <3>1, Joined
  <2> HIDE DEF abc, n, m
  <2> QED BY <1>4, <1>7, <2>1
<1> HIDE DEF abc
<1>9. /\ abcd \in Seq(Event) /\ Len(abcd) = 1 + n + m + Ended
      /\ \A i \in 1..1 + n + m : abcd[i] = abc[i]
      /\ \A i \in 1..Ended : abcd[1 + n + m + i] = d[i]
  <2>1. /\ abcd \in Seq(Event) /\ Len(abcd) = Len(abc) + Len(d)
        /\ \A i \in 1..Len(abc) : abcd[i] = abc[i]
        /\ \A i \in 1..Len(d) : abcd[Len(abc) + i] = d[i]
    BY <1>5, <1>8, Joined
  <2> HIDE DEF abcd, n, m
  <2> QED BY <1>5, <1>8, <2>1
<1> HIDE DEF abcd
<1>10. StoreTrail = abcd /\ Rows = 1 + n + m
  BY <1>6 DEF abcd, abc, ab, Rows
<1>11. ASSUME NEW i \in 1..Rows + Ended, NEW e, Placed(i, e), i > Rows => e.event # "escalation"
       PROVE  StoreTrail[i] = e
  <2>0. i \in Nat
    BY <1>1, <1>5, <1>10
  <2>1. CASE i = 1
    <3>1. 1 \in 1..1 + n /\ 1 \in 1..1 + n + m
      BY <1>1
    <3>2. StoreTrail[1] = a[1]
      BY <1>7, <1>8, <1>9, <1>10, <3>1
    <3> QED BY <1>2, <1>11, <2>1, <3>2 DEF Placed
  <2>2. CASE i \in 2..1 + n
    <3>1. i - 1 \in 1..n /\ i \in 1..1 + n /\ i \in 1..1 + n + m /\ 1 + (i - 1) = i
      BY <1>1, <2>2
    <3>2. ab[i] = b[i - 1]
      BY <1>7, <3>1
    <3>3. StoreTrail[i] = b[i - 1]
      BY <1>8, <1>9, <1>10, <3>1, <3>2
    <3> QED BY <1>3, <1>11, <2>2, <3>1, <3>3 DEF Placed
  <2>3. CASE i \in 2 + n..Rows
    <3>1. i - 1 - n \in 1..m /\ i \in 1..1 + n + m /\ 1 + n + (i - 1 - n) = i
      BY <1>1, <1>10, <2>3
    <3>2. abc[i] = c[i - 1 - n]
      BY <1>8, <3>1
    <3>3. StoreTrail[i] = c[i - 1 - n]
      BY <1>9, <1>10, <3>1, <3>2
    <3> QED BY <1>4, <1>11, <2>3, <3>1, <3>3 DEF Placed
  <2>4. CASE i > Rows
    <3>1. Ended = 1 /\ 1 \in 1..Ended /\ i = 1 + n + m + 1
      BY <1>1, <1>5, <1>10, <2>4
    <3>2. StoreTrail[i] = d[1]
      BY <1>9, <1>10, <3>1
    <3> QED BY <1>5, <1>11, <2>4, <3>1, <3>2 DEF Placed
  <2>5. i = 1 \/ i \in 2..1 + n \/ i \in 2 + n..Rows \/ i > Rows
    BY <1>1, <1>10, <1>11, <2>0
  <2> QED BY <2>1, <2>2, <2>3, <2>4, <2>5
<1>12. StoreTrail \in Seq(Event) /\ Len(StoreTrail) = Rows + Ended
  BY <1>9, <1>10
<1> QED BY <1>11, <1>12

(* Whenever the run is stopped, its three records agree up to the write    *)
(* under way (audit.py:165-170).                                           *)
THEOREM RecordsAgree == Spec => []AuditPrefix
<1>1. Inv /\ LogInv /\ EmptyInv /\ TrailInv /\ PrefixInv => AuditPrefix
  <2> SUFFICES ASSUME Inv, LogInv, EmptyInv, TrailInv, PrefixInv PROVE AuditPrefix
    OBVIOUS
  <2> DEFINE L == Len(textLog)
             Agrees(text) == IsPrefix(text, StoreTrail) /\ Len(StoreTrail) <= Len(text) + 1
  <2>0. /\ textLog \in Seq(Event) /\ jsonlLog \in Seq(Event) /\ L \in Nat
        /\ Rows \in Nat /\ Ended \in {0, 1} /\ DOMAIN textLog = 1..L
    BY DEF Inv, RunTypeOK, LogInv, Rows, Ended
  <2>1. IsPrefix(jsonlLog, textLog) /\ Len(textLog) <= Len(jsonlLog) + 1
    BY <2>0, IsPrefixOf DEF PrefixInv
  <2>2. CASE execution = NoExecution
    <3>1. textLog = <<>> /\ StoreTrail = <<>>
      BY <2>2 DEF EmptyInv, StoreTrail
    <3>2. L <= L /\ \A i \in 1..L : textLog[i] = textLog[i]
      BY <2>0
    <3>3. IsPrefix(textLog, textLog)
      BY <2>0, <3>2, IsPrefixOf
    <3>4. Agrees(textLog)
      BY <2>0, <3>1, <3>3
    <3> QED BY <2>1, <3>4 DEF AuditPrefix
  <2>3. CASE execution # NoExecution
    <3>1. /\ StoreTrail \in Seq(Event) /\ Len(StoreTrail) = Rows + Ended
          /\ \A i \in 1..Rows + Ended : \A e :
                Placed(i, e) /\ (i > Rows => e.event # "escalation") => StoreTrail[i] = e
      BY <2>3, StoreTrailIs
    <3>2. Right(textLog) /\ Rows + Ended + Escalating <= L + 1
      BY <2>3 DEF TrailInv
    <3>3. CASE Escalating = 0
      <4>1. L > Rows => textLog[Rows + 1].event # "escalation"
        BY <3>3 DEF Escalating
      <4>2. L <= Rows + 1
        <5>1. L <= Rows + 2 /\ (L = Rows + 2 => textLog[Rows + 1].event = "escalation")
          BY <3>2 DEF Right
        <5> HIDE DEF L
        <5> QED BY <2>0, <4>1, <5>1
      <4>3. L > Rows => Ended = 1
        <5>1. \A i \in 1..Len(textLog) : Placed(i, textLog[i])
          BY <3>2 DEF Right
        <5> SUFFICES ASSUME L > Rows PROVE Ended = 1
          OBVIOUS
        <5> DEFINE k == Rows + 1
        <5>2. k \in 1..Len(textLog) /\ k > Rows /\ ~(k \in 2..Rows) /\ k # 0
          BY <2>0
        <5>3. Placed(k, textLog[k]) /\ textLog[k].event # "escalation"
          BY <4>1, <5>1, <5>2
        <5> HIDE DEF k, L
        <5> QED BY <2>0, <5>2, <5>3 DEF Placed, Ended
      <4>4. L <= Rows + Ended
        BY <2>0, <4>2, <4>3
      <4>5. ASSUME NEW i \in 1..L PROVE textLog[i] = StoreTrail[i]
        <5>1. i \in 1..Rows + Ended /\ (i > Rows => i = Rows + 1 /\ L > Rows)
          BY <2>0, <4>2, <4>4
        <5>2. Placed(i, textLog[i])
          BY <3>2 DEF Right
        <5>3. i > Rows => textLog[i].event # "escalation"
          BY <4>1, <5>1
        <5> QED BY <3>1, <5>1, <5>2, <5>3
      <4>6. Agrees(textLog)
        BY <2>0, <3>1, <3>2, <3>3, <4>4, <4>5, IsPrefixOf
      <4> QED BY <2>1, <4>6 DEF AuditPrefix
    <3>4. CASE Escalating = 1
      <4> DEFINE k == Rows + 1
                 text == RemoveAt(textLog, k)
      <4>1. L >= k /\ textLog[k].event = "escalation" /\ k \in 1..L
        BY <2>0, <3>4 DEF Escalating
      <4>2. /\ text \in Seq(Event) /\ Len(text) = L - 1
            /\ \A i \in 1..L - 1 : text[i] = IF i < k THEN textLog[i] ELSE textLog[i + 1]
        BY <2>0, <4>1, RemoveAtIs
      <4>3. k \in Escalations
        BY <2>0, <4>1 DEF Escalations
      <4>4. L <= Rows + 2 /\ (L = Rows + 2 => textLog[Rows + 2].event # "escalation")
        BY <3>2 DEF Right
      <4>5. L = Rows + 2 => /\ Ended = 1
                            /\ textLog[Rows + 2] = ExecutionEndEvent(execution.status)
        <5>1. L = Rows + 2 => Placed(Rows + 2, textLog[Rows + 2])
          BY <2>0, <3>2 DEF Right
        <5>2. Rows + 2 > Rows
          BY <2>0
        <5> QED BY <4>4, <5>1, <5>2 DEF Placed, Ended
      <4> HIDE DEF text
      <4>6. ASSUME NEW i \in 1..L - 1 PROVE text[i] = StoreTrail[i] /\ i \in 1..Rows + Ended
        <5>1. CASE i < k
          <6>1. i \in 1..L /\ i \in 1..Rows + Ended /\ ~(i > Rows)
            BY <2>0, <4>1, <5>1
          <6>2. Placed(i, textLog[i])
            BY <3>2, <6>1 DEF Right
          <6> QED BY <3>1, <4>2, <5>1, <6>1, <6>2
        <5>2. CASE ~(i < k)
          <6>1. i = Rows + 1 /\ L = Rows + 2 /\ i + 1 = Rows + 2
            <7> HIDE DEF L
            <7> QED BY <2>0, <4>1, <4>4, <5>2
          <6>2. text[i] = ExecutionEndEvent(execution.status) /\ Ended = 1
            BY <4>2, <4>5, <5>2, <6>1
          <6>3. i \in 1..Rows + Ended /\ i > Rows
            BY <2>0, <6>1, <6>2
          <6>4. Placed(i, text[i])
            <7>1. ~(i = 1) /\ i \notin 2..1 + Len(stepAttempts)
                  /\ i \notin 2 + Len(stepAttempts)..Rows
              BY <2>0, <6>1 DEF Rows, Inv, RunTypeOK
            <7>2. execution.status \in FinalStatus
              BY <6>2 DEF Ended
            <7> QED BY <6>2, <7>1, <7>2 DEF Placed
          <6>5. text[i].event # "escalation"
            BY <6>2 DEF ExecutionEndEvent
          <6> QED BY <3>1, <6>3, <6>4, <6>5
        <5> QED BY <5>1, <5>2
      <4>7. L - 1 <= Rows + Ended
        <5> HIDE DEF L
        <5> QED BY <2>0, <4>4, <4>5
      <4>8. Len(text) <= Len(StoreTrail) /\ Len(StoreTrail) <= Len(text) + 1
        <5> HIDE DEF L
        <5> QED BY <2>0, <3>1, <3>2, <3>4, <4>2, <4>7
      <4>9. \A i \in 1..Len(text) : text[i] = StoreTrail[i]
        BY <4>2, <4>6
      <4>10. Agrees(text)
        BY <3>1, <4>2, <4>8, <4>9, IsPrefixOf
      <4> QED BY <2>1, <4>3, <4>10 DEF AuditPrefix, text
    <3> QED BY <3>3, <3>4 DEF Escalating
  <2> QED BY <2>2, <2>3
<1>2. Init => Inv /\ LogInv /\ FilesInv /\ EmptyInv /\ LengthInv /\ TrailInv /\ PrefixInv
  BY InitInv, LogStart, FilesInit, EmptyInit, TrailInit
<1>3. /\ Inv /\ LogInv /\ FilesInv /\ EmptyInv /\ LengthInv /\ TrailInv /\ PrefixInv
      /\ [Next]_vars
      => (Inv /\ LogInv /\ FilesInv /\ EmptyInv /\ LengthInv /\ TrailInv /\ PrefixInv)'
  BY NextInv, LogNext, FilesNext, EmptyNext, LengthNext, TrailNext, PrefixNext
<1> QED BY <1>1, <1>2, <1>3, PTL DEF Spec

=============================================================================
