---------------------------- MODULE CommandProofs ----------------------------
(***************************************************************************)
(* Proofs about a whole fwo process: it runs the engine that the proofs    *)
(* about Engine are about, so all of them hold of it, and its exit status  *)
(* says of the records what Cli claims; and about the notifiers inside it: *)
(* what the rows, and the status "escalated", say of the people who were   *)
(* told, for every setting, every set of recipients and every behaviour of *)
(* the services; and about the lines of the text log, which can be read    *)
(* back whatever the commands printed.                                     *)
(***************************************************************************)
EXTENDS Cli, LogLine, EngineRecordProofs, SequenceLemmas

EngineInv == /\ Inv /\ WalkInv /\ DoubtInv /\ NoteInv /\ LogInv
             /\ CountInv /\ StepsInv /\ FilesInv

----------------------------------------------------------------------------
(* The conversations with the services are steps of the engine.            *)

LEMMA SendStepIs ==
  ASSUME SendStep
  PROVE  /\ pc = "notify" /\ (UNCHANGED vars \/ \E outcome \in SendOutcome : SendNotifier(outcome))
<1>1. SendStep => pc = "notify"
  BY DEF SendStep, SlackDeclines, SlackPosts, SlackUnreachable, SlackOk, SlackErrorStatus,
     SlackNoAnswer, MailDeclines, MailUnwritable, MailConnects, MailRecipients, MailData,
     MailAnswer, MailQuits, MailBreaks, SendingAt, Sending
<1>2. \/ UNCHANGED vars
      \/ SendNotifier("delivered") \/ SendNotifier("failure") \/ SendNotifier("exception")
  <2> USE DEF Finish, Proceed
  <2>1. CASE SlackDeclines \/ SlackPosts \/ SlackUnreachable \/ SlackOk \/ SlackErrorStatus
             \/ SlackNoAnswer
    BY <2>1 DEF SlackDeclines, SlackPosts, SlackUnreachable, SlackOk, SlackErrorStatus,
       SlackNoAnswer
  <2>2. CASE MailDeclines \/ MailUnwritable \/ MailConnects \/ MailRecipients \/ MailData
             \/ MailAnswer \/ MailQuits \/ MailBreaks
    BY <2>2 DEF MailDeclines, MailUnwritable, MailConnects, MailRecipients, MailData,
       MailAnswer, MailQuits, MailBreaks
  <2> QED BY <2>1, <2>2 DEF SendStep
<1> QED BY <1>1, <1>2 DEF SendOutcome

(* What the command does around the engine leaves it alone.                *)
LEMMA AroundTheEngine ==
  ASSUME CommandStep \/ FailEngine \/ Kill \/ (cpc = "exited" /\ UNCHANGED commandVars),
         ~(RunEngine \/ FailEngine)
  PROVE  UNCHANGED notifyVars
BY DEF CommandStep, ParseVars, CompileOnly, Compile, OpenStore, OpenLog, BuildExecutor,
   BuildNotifiers, EngineReturns, EngineRaises, EngineDies, BuildSummary, OpenArtifact,
   FillArtifact, PrintResult, Kill, Prepare, Go, Exit, commandVars

LEMMA EngineOfCommand == [CommandNext]_commandVars => [Next]_vars
<1>1. ASSUME RunEngine PROVE [Next]_vars
  BY <1>1, SendStepIs DEF RunEngine, EngineStep, Next, RunStep
<1>2. ASSUME FailEngine PROVE [Next]_vars
  BY <1>2 DEF FailEngine, EngineFault, Next
<1>3. ASSUME CommandNext, ~(RunEngine \/ FailEngine) PROVE [Next]_vars
  BY <1>3, AroundTheEngine DEF CommandNext, notifyVars
<1>4. ASSUME UNCHANGED commandVars PROVE [Next]_vars
  BY <1>4 DEF commandVars, notifyVars
<1> QED BY <1>1, <1>2, <1>3, <1>4

(* The engine inside the command, faults and services included, is the     *)
(* engine of module Engine but for the time it is given.                   *)
THEOREM CommandRunsEngine == CommandSpec => Init /\ [][Next]_vars
<1>1. CommandInit => Init
  BY DEF CommandInit
<1> QED BY <1>1, EngineOfCommand, PTL DEF CommandSpec

LEMMA EngineInvInit == CommandInit => EngineInv
BY InitInv, WalkInit, DoubtInit, NoteInit, LogStart, CountInit, StepsInit, FilesInit
   DEF CommandInit, EngineInv

LEMMA EngineInvNext == EngineInv /\ [CommandNext]_commandVars => EngineInv'
BY EngineOfCommand, NextInv, WalkNext, DoubtNext, NoteNext, LogNext, CountNext,
   StepsNext, FilesNext DEF EngineInv

----------------------------------------------------------------------------
(* Once the row is closed, only its last event is still to be written.     *)

(* Everything but the last event is there once the row is closed.          *)
ClosedInv == Closed => RecordsComplete /\ LogsComplete(1)

LEMMA ClosedInit == Init => ClosedInv
BY DEF Init, ClosedInv, Closed, StoreInit, NoExecution, FinalStatus

LEMMA AfterClosing ==
  Inv /\ Closed /\ [Next]_vars =>
    /\ UNCHANGED <<dry, execution, stepAttempts, notifications, calls, sends>>
    /\ WriteText \/ WriteJsonl \/ UNCHANGED logVars
<1> SUFFICES ASSUME Inv, Closed, [Next]_vars
             PROVE  /\ UNCHANGED <<dry, execution, stepAttempts, notifications, calls, sends>>
                    /\ WriteText \/ WriteJsonl \/ UNCHANGED logVars
  OBVIOUS
<1>1. Point \in Stopped
  BY ClosedIsOver DEF Closed
<1>2. pc \in WritePoint \union Stopped
  BY <1>1 DEF Point
<1>3. ~OwnStep \/ WriteText \/ WriteJsonl
  BY <1>2 DEF OwnStep, RecordStart, DispatchDryRun, DispatchSSH, DispatchEscalate,
     DispatchEnd, EnterStep, RecordAttempt, FollowSimulated, FollowSuccess, Retry,
     FollowFailure, RecordNotificationResult, FinishEscalation, RecordEnd, Execute,
     WritePoint, Stopped
<1>4. \A outcome \in SendOutcome : ~SendNotifier(outcome)
  BY <1>2 DEF SendNotifier, WritePoint, Stopped
<1>5. CASE WriteText \/ WriteJsonl
  BY <1>5 DEF WriteText, WriteJsonl, inputVars, worldVars, storeVars
<1>6. CASE WriteFails \/ Crash
  BY <1>6 DEF WriteFails, Crash, inputVars, worldVars, storeVars
<1>7. CASE Tick \/ UNCHANGED vars
  BY <1>7 DEF Tick, vars, inputVars, worldVars, storeVars, logVars
<1>8. ~ExecutorRaises
  BY <1>2 DEF ExecutorRaises, WritePoint, Stopped
<1> QED BY <1>3, <1>4, <1>5, <1>6, <1>7, <1>8 DEF Next, RunStep, Fault, Terminated

LEMMA ClosedNext ==
  Inv /\ DoubtInv /\ NoteInv /\ LogInv /\ FilesInv /\ LengthInv /\ ClosedInv /\ [Next]_vars
    => ClosedInv'
<1> SUFFICES ASSUME Inv, DoubtInv, NoteInv, LogInv, FilesInv, LengthInv, ClosedInv,
                    [Next]_vars, Closed'
             PROVE  RecordsComplete' /\ LogsComplete(1)'
  BY DEF ClosedInv
<1>1. LengthInv' /\ LogInv' /\ Inv'
  BY LengthNext, LogNext, NextInv
<1>2. /\ Len(jsonlLog) \in Nat /\ Len(textLog) \in Nat
      /\ Len(jsonlLog') \in Nat /\ Len(textLog') \in Nat
      /\ Len(stepAttempts) \in Nat /\ Len(notifications) \in Nat
  BY <1>1 DEF Inv, RunTypeOK, LogInv
<1>3. CASE Closed
  <2>1. UNCHANGED <<dry, execution, stepAttempts, notifications, calls, sends>>
    BY <1>3, AfterClosing
  <2>2. Len(jsonlLog) <= Len(jsonlLog')
    <3>1. CASE WriteText
      BY <1>2, <3>1 DEF WriteText, AppendText
    <3>2. CASE WriteJsonl
      <4>1. jsonlLog' = Append(jsonlLog, event)
        BY <3>2 DEF WriteJsonl, AppendJsonl
      <4>2. Len(jsonlLog') = Len(jsonlLog) + 1
        BY <4>1 DEF LogInv
      <4> QED BY <1>2, <4>2
    <3>3. CASE UNCHANGED logVars
      BY <1>2, <3>3 DEF logVars
    <3> QED BY <1>3, <3>1, <3>2, <3>3, AfterClosing
  <2>3. RecordsComplete /\ LogsComplete(1)
    BY <1>3 DEF ClosedInv
  <2>4. RecordsComplete'
    BY <2>1, <2>3 DEF RecordsComplete, Closed
  <2>5. Len(jsonlLog') <= Len(textLog')
    BY <1>1 DEF LengthInv
  <2> DEFINE events == 2 + Len(stepAttempts) + Len(notifications)
                         + (IF execution.status = "escalated" THEN 1 ELSE 0)
  <2>6. events - 1 <= Len(jsonlLog) /\ events \in Nat /\ events' = events
    BY <1>2, <2>1, <2>3 DEF LogsComplete
  <2>7. events' - 1 <= Len(jsonlLog')
    <3> HIDE DEF events
    <3> QED BY <1>2, <2>2, <2>6
  <2> QED BY <2>4, <2>5, <2>7 DEF LogsComplete
<1>4. CASE ~Closed
  <2>1. RecordEnd
    <3>1. CASE RecordStart
      BY <1>4, <3>1 DEF RecordStart, RecordExecutionStart, Closed, FinalStatus
    <3>2. ASSUME ~RecordStart, ~RecordEnd PROVE execution' = execution
      BY <3>2 DEF Next, RunStep, OwnStep, Fault, Terminated, Tick, vars,
         WriteText, WriteJsonl, DispatchDryRun, DispatchSSH, DispatchEscalate,
         DispatchEnd, RecordAttempt, RecordStepAttempt, FollowSimulated, FollowSuccess,
         Retry, FollowFailure, RecordNotificationResult, RecordNotification,
         FinishEscalation, Execute, SendNotifier, WriteFails, ExecutorRaises, Crash,
         storeVars
    <3> QED BY <1>4, <3>1, <3>2 DEF Closed
  <2>2. /\ Point = "record_end" /\ pc = "record_end"
        /\ UNCHANGED <<dry, stepAttempts, notifications, logVars, calls, sends, final>>
        /\ execution' = [execution EXCEPT !.status = final]
    BY <2>1, Points DEF RecordEnd, RecordExecutionEnd, Log, inputVars, walkVars, worldVars
  <2>3. /\ execution = [status |-> "running", dryRun |-> dry] /\ AtRecordEnd
        /\ final \in FinalStatus
    BY <2>2 DEF Inv, Control, AtRecordEnd, FinalStatus
  <2>4. execution'.status = final
    BY <2>2, <2>3
  <2>5. Len(sends) = Len(notifications) /\ (dry \/ Len(calls) = Len(stepAttempts))
    BY <2>2 DEF NoteInv, DoubtInv
  <2>6. final = "escalated" => Len(notifications) = Len(Notifiers)
    BY <2>3 DEF AtRecordEnd
  <2>7. RecordsComplete'
    BY <2>2, <2>4, <2>5, <2>6 DEF RecordsComplete
  <2>8. Len(jsonlLog) = 1 + Len(stepAttempts) + Len(notifications)
                          + (IF final = "escalated" THEN 1 ELSE 0)
    <3>1. Started = 1 /\ Ended = 0 /\ Pending = 0
      BY <2>2, <2>3 DEF Started, Ended, Pending, NoExecution, FinalStatus, WritePoint
    <3>2. Escalated = IF final = "escalated" THEN 1 ELSE 0
      BY <2>2 DEF Escalated
    <3>3. Len(jsonlLog) + Pending = Trail
      BY <2>2 DEF LengthInv
    <3> QED BY <1>2, <3>1, <3>2, <3>3 DEF Trail
  <2> QED BY <1>2, <2>2, <2>4, <2>7, <2>8 DEF LogsComplete, LengthInv, logVars
<1> QED BY <1>3, <1>4

(* What holds of the engine and of the records, inside the command.        *)
RecordInv == EngineInv /\ EmptyInv /\ LengthInv /\ ClosedInv

LEMMA RecordInvInit == CommandInit => RecordInv
BY EngineInvInit, EmptyInit, ClosedInit DEF RecordInv, CommandInit

LEMMA RecordInvNext == RecordInv /\ [CommandNext]_commandVars => RecordInv'
BY EngineInvNext, EngineOfCommand, EmptyNext, LengthNext, ClosedNext DEF RecordInv, EngineInv

----------------------------------------------------------------------------
(* Where the command stands, and where that puts the engine.               *)

Before == {"parse_vars", "compile", "open_store", "open_log", "build_executor",
           "build_notifiers"}

Summed == args.summary => artifact = "complete"

PlaceInv ==
  /\ args \in Args
  /\ cpc \in Before => pc = "record_start"
  /\ cpc \in {"build_summary", "open_artifact", "fill_artifact"} => pc = "returned"
  /\ cpc = "print" /\ args.command = "run" => pc = "returned" /\ Summed
  /\ args.command = "compile" =>
       pc = "record_start" /\ cpc \in {"parse_vars", "compile", "print", "exited"}
  /\ artifact # "none" => pc = "returned"
  /\ exitCode = 0 => cpc = "exited" /\ (args.command = "run" => pc = "returned" /\ Summed)

LEMMA PlaceInit == CommandInit => PlaceInv
BY DEF CommandInit, Init, PlaceInv, Running, Before

(* A run that is over stays where it is.                                   *)
LEMMA ReturnedStays == pc = "returned" /\ [CommandNext]_commandVars => pc' = pc
<1> SUFFICES ASSUME pc = "returned", [Next]_vars PROVE pc' = pc
  BY EngineOfCommand
<1>1. ~OwnStep /\ ~Fault /\ \A outcome \in SendOutcome : ~SendNotifier(outcome)
  BY DEF OwnStep, RecordStart, WriteText, WriteJsonl, DispatchDryRun, DispatchSSH,
     DispatchEscalate, DispatchEnd, EnterStep, RecordAttempt, FollowSimulated,
     FollowSuccess, Retry, FollowFailure, RecordNotificationResult, FinishEscalation,
     RecordEnd, Execute, SendNotifier, Fault, WriteFails, ExecutorRaises, Crash,
     StorePoint, WritePoint, Stopped
<1> QED BY <1>1 DEF Next, RunStep, Tick, Terminated, vars

(* A preparation that is done, or ends the command.                        *)
LEMMA PreparePlace ==
  ASSUME PlaceInv, NEW place, NEW following, NEW statuses, 0 \notin statuses,
         Prepare(place, following, statuses), place # "exited",
         \/ {place, following} \subseteq Before /\ args.command = "run"
         \/ place = "parse_vars" /\ following = "compile"
         \/ place = "compile" /\ following = "print" /\ args.command = "compile"
         \/ place = "build_notifiers" /\ following = "engine" /\ args.command = "run"
         \/ place = "build_summary" /\ following = "open_artifact"
  PROVE  PlaceInv'
<1>1. /\ cpc = place /\ UNCHANGED <<notifyVars, args, artifact>>
      /\ \/ cpc' = following /\ exitCode' = exitCode
         \/ cpc' = "exited" /\ exitCode' # 0
  BY DEF Prepare, Go, Exit
<1>2. UNCHANGED <<pc, args, artifact>>
  BY <1>1 DEF notifyVars, vars
<1> QED BY <1>1, <1>2 DEF PlaceInv, Summed, Before

LEMMA PlaceNext == PlaceInv /\ [CommandNext]_commandVars => PlaceInv'
<1> SUFFICES ASSUME PlaceInv, [CommandNext]_commandVars PROVE PlaceInv'
  OBVIOUS
<1>1. CASE ParseVars
  BY <1>1, PreparePlace DEF ParseVars
<1>2. CASE CompileOnly
  BY <1>2, PreparePlace DEF CompileOnly, CompileFails
<1>3. ASSUME Compile \/ OpenStore \/ OpenLog \/ BuildExecutor \/ BuildNotifiers
      PROVE  PlaceInv'
  <2>1. args.command = "run"
    BY <1>3 DEF PlaceInv, Args, Compile, OpenStore, OpenLog, BuildExecutor, BuildNotifiers,
       Prepare
  <2> QED BY <1>3, <2>1, PreparePlace DEF Compile, OpenStore, OpenLog, BuildExecutor,
         BuildNotifiers, CompileFails, Before
<1>4. CASE BuildSummary
  BY <1>4, PreparePlace DEF BuildSummary
<1>5. CASE RunEngine \/ FailEngine
  <2>1. cpc = "engine" /\ UNCHANGED <<args, cpc, exitCode, artifact>>
    BY <1>5 DEF RunEngine, FailEngine, cliVars
  <2>2. pc = "returned" => pc' = "returned"
    BY ReturnedStays
  <2> QED BY <2>1, <2>2 DEF PlaceInv, Summed, Before
<1>6. ASSUME UNCHANGED notifyVars,
             EngineReturns \/ EngineRaises \/ EngineDies \/ OpenArtifact \/ FillArtifact
      PROVE  PlaceInv'
  <2>1. pc' = pc
    BY <1>6 DEF notifyVars, vars
  <2>2. CASE EngineReturns
    <3>1. args.command = "run"
      BY <2>2 DEF EngineReturns, PlaceInv, Args
    <3> QED BY <2>1, <2>2, <3>1 DEF PlaceInv, Summed, Before, EngineReturns, Go
  <2>3. CASE EngineRaises \/ EngineDies
    BY <2>1, <2>3 DEF PlaceInv, Summed, Before, EngineRaises, EngineDies, Exit, Killed
  <2>4. CASE OpenArtifact
    BY <2>1, <2>4 DEF PlaceInv, Summed, Before, OpenArtifact, Go, Exit
  <2>5. CASE FillArtifact
    BY <2>1, <2>5 DEF PlaceInv, Summed, Before, FillArtifact, Go, Exit
  <2> QED BY <1>6, <2>2, <2>3, <2>4, <2>5
<1>7. ASSUME PrintResult \/ Kill PROVE PlaceInv'
  <2>1. UNCHANGED <<pc, args, artifact>> /\ cpc' = "exited"
    BY <1>7 DEF PrintResult, Kill, Exit, notifyVars, vars
  <2>2. exitCode' = 0 => cpc = "print"
    BY <1>7 DEF PrintResult, Kill, Exit, Killed
  <2> QED BY <2>1, <2>2 DEF PlaceInv, Summed, Before
<1>8. CASE UNCHANGED commandVars
  BY <1>8 DEF commandVars, notifyVars, vars, cliVars, PlaceInv, Summed
<1>9. EngineReturns \/ EngineRaises \/ EngineDies \/ OpenArtifact \/ FillArtifact
        => UNCHANGED notifyVars
  BY DEF EngineReturns, EngineRaises, EngineDies, OpenArtifact, FillArtifact, Go, Exit
<1> QED BY <1>1, <1>2, <1>3, <1>4, <1>5, <1>6, <1>7, <1>8, <1>9 DEF CommandNext, CommandStep

----------------------------------------------------------------------------
(* Nobody is told before there is a row.                                   *)
SilentInv == execution = NoExecution => \A r \in Receivers : inbox[r] = 0

LEMMA SilentInit == CommandInit => SilentInv
BY DEF CommandInit, NotifiersInit, SilentInv

(* The row of the execution stays.                                         *)
LEMMA RowStays == Inv /\ [Next]_vars /\ execution' = NoExecution => execution = NoExecution
<1> SUFFICES ASSUME Inv, [Next]_vars, execution' = NoExecution PROVE execution = NoExecution
  OBVIOUS
<1>1. ~RecordStart
  BY DEF RecordStart, RecordExecutionStart, NoExecution
<1>2. ASSUME RecordEnd PROVE FALSE
  <2>1. Point = "record_end" /\ execution' = [execution EXCEPT !.status = final]
    BY <1>2, Points DEF RecordEnd, RecordExecutionEnd
  <2>2. /\ execution = [status |-> "running", dryRun |-> dry] /\ final \in FinalStatus
    BY <2>1 DEF Inv, Control, AtRecordEnd, FinalStatus
  <2> QED BY <2>1, <2>2 DEF NoExecution, FinalStatus
<1>3. ASSUME ~RecordStart, ~RecordEnd PROVE execution' = execution
  BY <1>3 DEF Next, RunStep, OwnStep, Fault, Terminated, Tick, vars,
     WriteText, WriteJsonl, DispatchDryRun, DispatchSSH, DispatchEscalate,
     DispatchEnd, RecordAttempt, RecordStepAttempt, FollowSimulated, FollowSuccess,
     Retry, FollowFailure, RecordNotificationResult, RecordNotification,
     FinishEscalation, Execute, SendNotifier, WriteFails, ExecutorRaises, Crash,
     storeVars
<1> QED BY <1>1, <1>2, <1>3

LEMMA SilentNext == Inv /\ SilentInv /\ [CommandNext]_commandVars => SilentInv'
<1> SUFFICES ASSUME Inv, SilentInv, [CommandNext]_commandVars, execution' = NoExecution
             PROVE  \A r \in Receivers : inbox'[r] = 0
  BY DEF SilentInv, Receivers
<1>1. execution = NoExecution
  BY RowStays, EngineOfCommand
<1>2. ~SendStep
  <2>1. pc = "notify" => execution.status = "running"
    BY DEF Inv, Control, Point, WritePoint
  <2> QED BY <1>1, <2>1, SendStepIs DEF NoExecution
<1>3. inbox' = inbox
  BY <1>2, AroundTheEngine DEF CommandNext, RunEngine, FailEngine, EngineStep, EngineFault,
     sendVars, notifyVars, commandVars
<1> QED BY <1>1, <1>3 DEF SilentInv

----------------------------------------------------------------------------
CommandInv == RecordInv /\ PlaceInv /\ SilentInv

LEMMA CommandInvInit == CommandInit => CommandInv
BY RecordInvInit, PlaceInit, SilentInit DEF CommandInv

LEMMA CommandInvNext == CommandInv /\ [CommandNext]_commandVars => CommandInv'
BY RecordInvNext, PlaceNext, SilentNext DEF CommandInv, RecordInv, EngineInv

(* A command that ended without a row in the store did nothing elsewhere,  *)
(* and "fwo compile" writes none (engine.py:72).                           *)
THEOREM NothingWithoutARow == CommandSpec => []NoRecordNoEffect
<1>1. CommandInv => NoRecordNoEffect
  <2> SUFFICES ASSUME CommandInv PROVE NoRecordNoEffect
    OBVIOUS
  <2>1. pc = "record_start" => execution = NoExecution
    BY DEF CommandInv, RecordInv, EngineInv, Inv, Control, Point, WritePoint, Fresh
  <2>2. execution = NoExecution => pc # "returned"
    BY DEF CommandInv, RecordInv, EmptyInv, Point, WritePoint
  <2> QED BY <2>1, <2>2 DEF CommandInv, RecordInv, EmptyInv, PlaceInv, SilentInv, NoRecordNoEffect
<1> QED BY <1>1, CommandInvInit, CommandInvNext, PTL DEF CommandSpec

(* Once run has returned, nothing of it is still to be written.            *)
LEMMA ReturnedIsDone == CommandInv /\ pc = "returned" => RecordsComplete /\ LogsComplete(0)
<1> SUFFICES ASSUME CommandInv, pc = "returned" PROVE RecordsComplete /\ LogsComplete(0)
  OBVIOUS
<1>1. Point = "returned" /\ Pending = 0
  BY DEF Point, Pending, WritePoint
<1>2. execution.status = final /\ final \in FinalStatus
  BY <1>1 DEF CommandInv, RecordInv, EngineInv, StepsInv
<1>3. RecordsComplete
  BY <1>2 DEF CommandInv, RecordInv, ClosedInv, Closed
<1>4. /\ Len(jsonlLog) \in Nat /\ Len(stepAttempts) \in Nat /\ Len(notifications) \in Nat
  BY DEF CommandInv, RecordInv, EngineInv, Inv, RunTypeOK, LogInv
<1>5. /\ Started = 1 /\ Ended = 1
      /\ Escalated = IF execution.status = "escalated" THEN 1 ELSE 0
  BY <1>1, <1>2 DEF Started, Ended, Escalated, NoExecution, FinalStatus
<1>6. Len(jsonlLog) + Pending = Trail /\ Len(jsonlLog) <= Len(textLog)
  BY <1>1 DEF CommandInv, RecordInv, LengthInv
<1>7. LogsComplete(0)
  BY <1>1, <1>4, <1>5, <1>6 DEF Trail, LogsComplete
<1> QED BY <1>3, <1>7

(* A run that exits with 0 has done and recorded all of it, in the store,  *)
(* in both logs and in the summary that was asked for (cli.py:352, 365).   *)
THEOREM SuccessIsComplete == CommandSpec => []ExitZeroMeansDone
<1>1. CommandInv => ExitZeroMeansDone
  <2>1. CommandInv /\ exitCode = 0 /\ args.command = "run" => pc = "returned" /\ Summed
    BY DEF CommandInv, PlaceInv
  <2> QED BY <2>1, ReturnedIsDone DEF ExitZeroMeansDone, Summed
<1> QED BY <1>1, CommandInvInit, CommandInvNext, PTL DEF CommandSpec

(* A failing exit is no sign that the work is undone: if the row says that *)
(* the run is over, everything was done and recorded but, at most, the     *)
(* last event of the logs, and with a summary, whole or torn, that event   *)
(* too (cli.py:331, engine.py:180-191).                                    *)
THEOREM FailedExitHidesNothing == CommandSpec => []FailedAfterTheEnd
<1>1. CommandInv => FailedAfterTheEnd
  <2>1. CommandInv /\ artifact # "none" => RecordsComplete /\ LogsComplete(0)
    BY ReturnedIsDone DEF CommandInv, PlaceInv
  <2>2. CommandInv /\ Closed => RecordsComplete /\ LogsComplete(1)
    BY DEF CommandInv, RecordInv, ClosedInv
  <2> QED BY <2>1, <2>2 DEF FailedAfterTheEnd
<1> QED BY <1>1, CommandInvInit, CommandInvNext, PTL DEF CommandSpec

----------------------------------------------------------------------------
(* The notifiers.                                                         *)

SlackLinks == {"slack_taken", "slack_refused"}
MailLinks  == {"mail_open", "mail_data", "mail_taken", "mail_quit"}

HasSent(n) == \E i \in 1..Len(sends) : sends[i].notifier = n

(* A conversation is under way, or was when the process was killed.        *)
Midway(n) == /\ pc \in {"notify", "crashed"}
             /\ Len(sends) = Len(notifications)
             /\ Len(sends) < Len(Notifiers) /\ Notifiers[Len(sends) + 1] = n

SlackTold == inbox[Channel] = 1
MailTold  == \A r \in setup.to : inbox[r] = 1

MailSendable == MailWanted /\ setup.oneLine

SlackTruth ==
  \A i \in 1..Len(sends) : sends[i].notifier = "slack" =>
    /\ sends[i].outcome = "delivered" => SlackTold
    /\ sends[i].outcome # "delivered" /\ "slack" \notin trouble => ~SlackWanted

MailTruth ==
  \A i \in 1..Len(sends) : sends[i].notifier = "email" =>
    /\ sends[i].outcome = "delivered" =>
         /\ \E r \in setup.to : inbox[r] = 1
         /\ "email" \notin trouble => MailTold
    /\ sends[i].outcome # "delivered" /\ "email" \notin trouble => ~MailSendable

SlackInv ==
  /\ inbox[Channel] \in {0, 1}
  /\ SlackTold => SlackWanted /\ (HasSent("slack") \/ link = "slack_taken")
  /\ link \in SlackLinks => SlackWanted /\ Midway("slack")
  /\ link = "slack_taken" => SlackTold
  /\ link = "slack_refused" => "slack" \in trouble
  /\ SlackTruth

MailInv ==
  /\ \A r \in Recipients : inbox[r] \in {0, 1}
  /\ \A r \in Recipients : inbox[r] = 1 =>
       /\ r \in setup.to /\ MailSendable
       /\ HasSent("email") \/ link \in {"mail_taken", "mail_quit"}
  /\ link \in MailLinks => MailSendable /\ Midway("email")
  /\ link \in MailLinks \ {"mail_open"} =>
       /\ accepted # {} /\ accepted \subseteq setup.to
       /\ accepted = setup.to \/ "email" \in trouble
  /\ link \in {"mail_taken", "mail_quit"} => \A r \in accepted : inbox[r] = 1
  /\ MailTruth

Settled == setup \in Setup /\ inbox \in [Receivers -> Nat]

TellInv == Settled /\ SlackInv /\ MailInv

----------------------------------------------------------------------------
LEMMA TellInit == CommandInit => TellInv
<1> SUFFICES ASSUME CommandInit PROVE TellInv
  OBVIOUS
<1>1. setup \in Setup /\ link = "idle" /\ inbox = [r \in Receivers |-> 0] /\ sends = <<>>
  BY SetupsAssumption DEF CommandInit, NotifiersInit, Init
<1>2. Channel \in Receivers /\ Recipients \subseteq Receivers
  BY DEF Receivers
<1> QED BY <1>1, <1>2 DEF TellInv, Settled, SlackInv, MailInv, SlackTold, SlackTruth, MailTruth,
       SlackLinks, MailLinks

(* Whoever is being sent to has not been sent to before.                   *)
LEMMA SendingFacts ==
  ASSUME Inv, NoteInv, NEW n, Sending(n)
  PROVE  Midway(n) /\ ~HasSent(n) /\ n \in {"slack", "email"}
<1>1. /\ pc = "notify" /\ next <= Len(Notifiers) /\ Notifiers[next] = n
      /\ Len(notifications) = next - 1 /\ next \in 1..Len(Notifiers) + 1
  BY NotifyFacts DEF Sending, AtNotify
<1>2. Len(sends) = Len(notifications) /\ Len(sends) \in Nat
  <2>1. Point = "notify"
    BY <1>1 DEF Point, WritePoint
  <2> QED BY <2>1 DEF NoteInv
<1>3. next = Len(sends) + 1 /\ next \in 1..Len(Notifiers)
  BY <1>1, <1>2, BuiltAssumption
<1>4. \A i, j \in 1..Len(Notifiers) : Notifiers[i] = Notifiers[j] => i = j
  BY BuiltAssumption
<1>5. n \in {"slack", "email"}
  BY <1>1, <1>3, BuiltAssumption
<1>6. ~HasSent(n)
  <2> SUFFICES ASSUME NEW i \in 1..Len(sends), sends[i].notifier = n PROVE FALSE
    BY DEF HasSent
  <2>1. Notifiers[i] = n /\ i \in 1..Len(Notifiers) /\ i # next
    BY <1>2, <1>3, BuiltAssumption DEF NoteInv, InOrder
  <2> QED BY <1>1, <1>3, <1>4, <2>1
<1> QED BY <1>1, <1>2, <1>3, <1>5, <1>6 DEF Midway

(* The send that ends is the last one.                                     *)
LEMMA Finishing ==
  ASSUME Inv, NoteInv, NEW n, Sending(n), NEW outcome \in SendOutcome, Finish(outcome)
  PROVE  /\ Len(sends) \in Nat /\ Len(sends') = Len(sends) + 1
         /\ \A i \in 1..Len(sends) : sends'[i] = sends[i]
         /\ sends'[Len(sends')].notifier = n /\ sends'[Len(sends')].outcome = outcome
         /\ link' = "idle" /\ setup' = setup
<1> DEFINE send == [notifier |-> Notifiers[next], step |-> cur, reason |-> reason,
                    outcome |-> outcome]
<1>1. sends' = Append(sends, send) /\ send.notifier = n /\ send.outcome = outcome
  BY DEF Finish, SendNotifier, Sending
<1>2. sends \in Seq(Send)
  BY DEF NoteInv
<1> HIDE DEF send
<1>3. /\ Len(sends) \in Nat /\ Len(sends') = Len(sends) + 1
      /\ \A i \in 1..Len(sends) : sends'[i] = sends[i]
      /\ sends'[Len(sends')] = send
  BY <1>1, <1>2
<1> QED BY <1>1, <1>3 DEF Finish

LEMMA FinishedSend ==
  ASSUME Inv, NoteInv, NEW n, Sending(n), NEW outcome \in SendOutcome, Finish(outcome), NEW m
  PROVE  HasSent(m)' <=> HasSent(m) \/ m = n
<1>1. HasSent(m) => HasSent(m)'
  BY Finishing DEF HasSent
<1>2. m = n => HasSent(m)'
  BY Finishing DEF HasSent
<1>3. ASSUME HasSent(m)', m # n PROVE HasSent(m)
  <2>1. PICK i \in 1..Len(sends') : sends'[i].notifier = m
    BY <1>3 DEF HasSent
  <2>2. i \in 1..Len(sends)
    BY <1>3, <2>1, Finishing
  <2> QED BY <2>1, <2>2, Finishing DEF HasSent
<1> QED BY <1>1, <1>2, <1>3

----------------------------------------------------------------------------
(* What does not concern a channel leaves what is known of it.             *)

(* A step after which the same sends are over, or one more of n.           *)
OtherSends(n) ==
  \/ sends' = sends
  \/ /\ Len(sends) \in Nat /\ Len(sends') = Len(sends) + 1
     /\ \A i \in 1..Len(sends) : sends'[i] = sends[i]
     /\ sends'[Len(sends')].notifier # n

LEMMA SlackFrame ==
  ASSUME SlackInv, OtherSends("slack"), setup' = setup, inbox'[Channel] = inbox[Channel],
         "slack" \in trouble' <=> "slack" \in trouble,
         \/ link \notin SlackLinks /\ link' \notin SlackLinks
         \/ link' = link /\ (Midway("slack") => Midway("slack")')
  PROVE  SlackInv'
<1>1. HasSent("slack") => HasSent("slack")'
  BY DEF OtherSends, HasSent
<1>2. SlackTruth'
  <2> SUFFICES ASSUME NEW i \in 1..Len(sends'), sends'[i].notifier = "slack"
               PROVE  i \in 1..Len(sends) /\ sends'[i] = sends[i]
    BY DEF SlackInv, SlackTruth, SlackTold, SlackWanted
  <2> QED BY DEF OtherSends
<1> QED BY <1>1, <1>2 DEF SlackInv, SlackTold, SlackWanted, SlackLinks

LEMMA MailFrame ==
  ASSUME MailInv, OtherSends("email"), UNCHANGED <<setup, accepted>>,
         \A r \in Recipients : inbox'[r] = inbox[r], setup.to \subseteq Recipients,
         "email" \in trouble' <=> "email" \in trouble,
         \/ link \notin MailLinks /\ link' \notin MailLinks
         \/ link' = link /\ (Midway("email") => Midway("email")')
  PROVE  MailInv'
<1>1. HasSent("email") => HasSent("email")'
  BY DEF OtherSends, HasSent
<1>2. MailTruth'
  <2> SUFFICES ASSUME NEW i \in 1..Len(sends'), sends'[i].notifier = "email"
               PROVE  i \in 1..Len(sends) /\ sends'[i] = sends[i]
    BY DEF MailInv, MailTruth, MailTold, MailSendable, MailWanted
  <2> QED BY DEF OtherSends
<1> QED BY <1>1, <1>2 DEF MailInv, MailSendable, MailWanted, MailLinks

----------------------------------------------------------------------------
(* Slack.                                                                  *)

(* send is done, and its outcome is the truth about the channel.           *)
LEMMA SlackFinish ==
  ASSUME Inv, NoteInv, SlackInv, Sending("slack"), NEW outcome \in SendOutcome,
         Finish(outcome), inbox'[Channel] = inbox[Channel],
         outcome = "delivered" => SlackTold,
         outcome # "delivered" /\ "slack" \notin trouble' => ~SlackWanted
  PROVE  SlackInv'
<1>1. link' = "idle" /\ setup' = setup /\ HasSent("slack")'
  BY Finishing, FinishedSend
<1>2. SlackTruth'
  <2> SUFFICES ASSUME NEW i \in 1..Len(sends'), sends'[i].notifier = "slack"
               PROVE  i = Len(sends')
    BY <1>1, Finishing DEF SlackTruth, SlackTold, SlackWanted
  <2>1. i \in 1..Len(sends) => sends[i].notifier # "slack"
    BY SendingFacts DEF HasSent
  <2> QED BY <2>1, Finishing
<1> QED BY <1>1, <1>2 DEF SlackInv, SlackTold, SlackWanted, SlackLinks

SlackStep == \/ SlackDeclines \/ SlackPosts \/ SlackUnreachable
             \/ SlackOk \/ SlackErrorStatus \/ SlackNoAnswer

LEMMA SlackStepSlack ==
  ASSUME Inv, NoteInv, TellInv, SlackStep
  PROVE  SlackInv'
<1> USE DEF TellInv, SendOutcome
<1>1. CASE SlackDeclines
  BY <1>1, SlackFinish DEF SlackDeclines, SendingAt
<1>2. CASE SlackPosts
  <2>1. Sending("slack") /\ link = "idle" /\ SlackWanted /\ UNCHANGED <<vars, setup>>
    BY <1>2 DEF SlackPosts, SendingAt, Proceed
  <2>2. Midway("slack")' /\ UNCHANGED <<sends, setup>>
    BY <2>1, SendingFacts DEF Midway, vars, storeVars, worldVars
  <2>3. ASSUME Tell({Channel}), link' = "slack_taken", trouble' = trouble PROVE SlackInv'
    <3>1. inbox[Channel] = 0
      BY <2>1, SendingFacts DEF SlackInv, SlackTold
    <3>2. inbox'[Channel] = 1
      BY <2>3, <3>1 DEF Tell, Receivers
    <3> QED BY <2>1, <2>2, <2>3, <3>2 DEF SlackInv, SlackTold, SlackTruth, SlackWanted, SlackLinks
  <2>4. ASSUME link' = "slack_refused", InTrouble("slack"), inbox' = inbox PROVE SlackInv'
    BY <2>1, <2>2, <2>4 DEF SlackInv, SlackTold, SlackTruth, SlackWanted, SlackLinks,
       InTrouble, HasSent
  <2> QED BY <1>2, <2>3, <2>4 DEF SlackPosts, Proceed
<1>3. CASE SlackUnreachable
  BY <1>3, SlackFinish DEF SlackUnreachable, SendingAt, InTrouble
<1>4. CASE SlackOk
  BY <1>4, SlackFinish DEF SlackOk, SendingAt, SlackInv
<1>5. CASE SlackErrorStatus \/ SlackNoAnswer
  BY <1>5, SlackFinish DEF SlackErrorStatus, SlackNoAnswer, InTrouble
<1> QED BY <1>1, <1>2, <1>3, <1>4, <1>5 DEF SlackStep

LEMMA SlackStepMail ==
  ASSUME Inv, NoteInv, TellInv, SlackStep
  PROVE  MailInv' /\ Settled'
<1>1. Sending("slack") /\ link \notin MailLinks
  BY DEF SlackStep, SlackDeclines, SlackPosts, SlackUnreachable, SlackOk, SlackErrorStatus,
     SlackNoAnswer, SendingAt, MailLinks
<1>2. /\ link' \notin MailLinks /\ UNCHANGED <<setup, accepted>>
      /\ inbox' = inbox \/ Tell({Channel})
      /\ trouble' \in {trouble, trouble \union {"slack"}}
      /\ \/ UNCHANGED vars
         \/ Finish("failure") \/ Finish("delivered") \/ Finish("exception")
  BY DEF SlackStep, SlackDeclines, SlackPosts, SlackUnreachable, SlackOk, SlackErrorStatus,
     SlackNoAnswer, Proceed, Finish, InTrouble, MailLinks
<1>3. OtherSends("email")
  <2>1. CASE UNCHANGED vars
    BY <2>1 DEF vars, worldVars, OtherSends
  <2>2. ASSUME NEW outcome \in SendOutcome, Finish(outcome) PROVE OtherSends("email")
    BY <1>1, <2>2, Finishing DEF OtherSends
  <2> QED BY <1>2, <2>1, <2>2 DEF SendOutcome
<1>4. /\ setup.to \subseteq Recipients /\ Channel \notin Recipients
      /\ Recipients \subseteq Receivers
  BY SetupsAssumption DEF TellInv, Settled, Setup, Receivers
<1>5. inbox' \in [Receivers -> Nat] /\ \A r \in Recipients : inbox'[r] = inbox[r]
  BY <1>2, <1>4 DEF TellInv, Settled, Tell
<1>6. MailInv'
  BY <1>1, <1>2, <1>3, <1>4, <1>5, MailFrame DEF TellInv
<1> QED BY <1>2, <1>5, <1>6 DEF TellInv, Settled

----------------------------------------------------------------------------
(* Mail.                                                                   *)

LEMMA MailFinish ==
  ASSUME Inv, NoteInv, MailInv, Sending("email"), NEW outcome \in SendOutcome,
         Finish(outcome), UNCHANGED inbox,
         outcome = "delivered" =>
           /\ \E r \in setup.to : inbox[r] = 1
           /\ "email" \notin trouble' => MailTold,
         outcome # "delivered" /\ "email" \notin trouble' => ~MailSendable
  PROVE  MailInv'
<1>1. link' = "idle" /\ setup' = setup /\ HasSent("email")'
  BY Finishing, FinishedSend
<1>2. MailTruth'
  <2> SUFFICES ASSUME NEW i \in 1..Len(sends'), sends'[i].notifier = "email"
               PROVE  i = Len(sends')
    BY <1>1, Finishing DEF MailTruth, MailTold, MailSendable, MailWanted
  <2>1. i \in 1..Len(sends) => sends[i].notifier # "email"
    BY SendingFacts DEF HasSent
  <2> QED BY <2>1, Finishing
<1> QED BY <1>1, <1>2 DEF MailInv, MailSendable, MailWanted, MailLinks

(* The conversation goes on; nothing is over yet.                          *)
LEMMA MailProceeds ==
  ASSUME Inv, NoteInv, MailInv, Sending("email"), NEW place \in MailLinks, Proceed(place),
         MailSendable,
         place # "mail_open" =>
           /\ accepted' # {} /\ accepted' \subseteq setup.to
           /\ accepted' = setup.to \/ "email" \in trouble',
         trouble \subseteq trouble',
         \A r \in Recipients : inbox'[r] \in {0, 1} /\ (inbox[r] = 1 => inbox'[r] = 1),
         \A r \in Recipients : inbox'[r] = 1 =>
           r \in setup.to /\ place \in {"mail_taken", "mail_quit"},
         place \in {"mail_taken", "mail_quit"} => \A r \in accepted' : inbox'[r] = 1
  PROVE  MailInv'
<1>1. Midway("email")' /\ UNCHANGED <<sends, setup>> /\ link' = place
  BY SendingFacts DEF Proceed, Midway, vars, storeVars, worldVars
<1>2. MailTruth'
  BY <1>1, SendingFacts DEF MailTruth, HasSent
<1> QED BY <1>1, <1>2 DEF MailInv, MailSendable, MailWanted, MailLinks

MailStep == \/ MailDeclines \/ MailUnwritable \/ MailConnects \/ MailRecipients \/ MailData
            \/ MailAnswer \/ MailQuits \/ MailBreaks

LEMMA MailStepMail ==
  ASSUME Inv, NoteInv, TellInv, MailStep
  PROVE  MailInv'
<1> USE DEF TellInv, SendOutcome
<1>1. /\ setup.to \subseteq Recipients /\ Recipients \subseteq Receivers
      /\ inbox \in [Receivers -> Nat]
  BY DEF Settled, Setup, Receivers
<1>2. Sending("email")
  BY DEF MailStep, MailDeclines, MailUnwritable, MailConnects, MailRecipients, MailData,
     MailAnswer, MailQuits, MailBreaks, SendingAt
<1>3. ~HasSent("email")
  BY <1>2, SendingFacts
<1>4. link \notin {"mail_taken", "mail_quit"} => \A r \in Recipients : inbox[r] = 0
  BY <1>3 DEF MailInv
<1>5. CASE MailDeclines \/ MailUnwritable
  BY <1>2, <1>5, MailFinish DEF MailDeclines, MailUnwritable, MailSendable
<1>6. CASE MailConnects
  BY <1>2, <1>4, <1>6, MailProceeds DEF MailConnects, SendingAt, MailSendable, MailLinks
<1>7. CASE MailRecipients
  <2>1. PICK A \in SUBSET setup.to :
          /\ accepted' = A
          /\ IF A = setup.to THEN UNCHANGED trouble ELSE InTrouble("email")
          /\ IF A = {} THEN Finish("failure") ELSE Proceed("mail_data")
    BY <1>7 DEF MailRecipients
  <2>2. link = "mail_open" /\ MailSendable /\ inbox' = inbox /\ setup.to # {}
    BY <1>7 DEF MailRecipients, SendingAt, MailInv, MailLinks, MailSendable, MailWanted
  <2>3. CASE A = {}
    BY <1>2, <2>1, <2>2, <2>3, MailFinish DEF InTrouble
  <2>4. CASE A # {}
    BY <1>1, <1>2, <1>4, <2>1, <2>2, <2>4, MailProceeds DEF InTrouble, MailLinks
  <2> QED BY <2>3, <2>4
<1>8. CASE MailData
  <2>1. /\ link = "mail_data" /\ MailSendable /\ Proceed("mail_taken") /\ Tell(accepted)
        /\ UNCHANGED <<accepted, trouble>> /\ accepted \subseteq Recipients
        /\ accepted # {} /\ accepted \subseteq setup.to
        /\ accepted = setup.to \/ "email" \in trouble
    BY <1>1, <1>8 DEF MailData, SendingAt, MailInv, MailLinks
  <2>2. \A r \in Recipients : inbox'[r] = IF r \in accepted THEN 1 ELSE 0
    BY <1>1, <1>4, <2>1 DEF Tell
  <2>3. \A r \in accepted : inbox'[r] = 1
    BY <2>1, <2>2
  <2> QED BY <1>2, <1>4, <2>1, <2>2, <2>3, MailProceeds DEF MailLinks
<1>9. CASE MailAnswer
  <2>1. /\ link = "mail_taken" /\ MailSendable /\ Proceed("mail_quit")
        /\ UNCHANGED <<accepted, inbox, trouble>>
        /\ accepted # {} /\ accepted \subseteq setup.to
        /\ accepted = setup.to \/ "email" \in trouble
        /\ \A r \in accepted : inbox[r] = 1
    BY <1>9 DEF MailAnswer, SendingAt, MailInv, MailLinks
  <2> QED BY <1>2, <2>1, MailProceeds DEF MailLinks, MailInv
<1>10. CASE MailQuits
  <2>1. /\ link = "mail_quit" /\ MailSendable /\ Finish("delivered")
        /\ UNCHANGED <<accepted, inbox, trouble>>
        /\ accepted # {} /\ accepted \subseteq setup.to
        /\ accepted = setup.to \/ "email" \in trouble
        /\ \A r \in accepted : inbox[r] = 1
    BY <1>10 DEF MailQuits, SendingAt, MailInv, MailLinks
  <2> QED BY <1>2, <2>1, MailFinish DEF MailTold
<1>11. CASE MailBreaks
  BY <1>2, <1>11, MailFinish DEF MailBreaks, InTrouble
<1> QED BY <1>5, <1>6, <1>7, <1>8, <1>9, <1>10, <1>11 DEF MailStep

LEMMA MailStepSlack ==
  ASSUME Inv, NoteInv, TellInv, MailStep
  PROVE  SlackInv' /\ Settled'
<1>1. Sending("email") /\ link \notin SlackLinks
  BY DEF MailStep, MailDeclines, MailUnwritable, MailConnects, MailRecipients, MailData,
     MailAnswer, MailQuits, MailBreaks, SendingAt, SlackLinks
<1>2. /\ link' \notin SlackLinks /\ setup' = setup
      /\ inbox' = inbox \/ (link = "mail_data" /\ Tell(accepted))
      /\ trouble' \in {trouble, trouble \union {"email"}}
      /\ \/ UNCHANGED vars
         \/ Finish("failure") \/ Finish("delivered") \/ Finish("exception")
  <2>1. CASE MailRecipients
    BY <2>1 DEF MailRecipients, Proceed, Finish, InTrouble, SlackLinks
  <2>2. CASE ~MailRecipients
    BY <2>2 DEF MailStep, MailDeclines, MailUnwritable, MailConnects, MailData,
       MailAnswer, MailQuits, MailBreaks, SendingAt, Proceed, Finish, InTrouble, SlackLinks
  <2> QED BY <2>1, <2>2
<1>3. OtherSends("slack")
  <2>1. CASE UNCHANGED vars
    BY <2>1 DEF vars, worldVars, OtherSends
  <2>2. ASSUME NEW outcome \in SendOutcome, Finish(outcome) PROVE OtherSends("slack")
    BY <1>1, <2>2, Finishing DEF OtherSends
  <2> QED BY <1>2, <2>1, <2>2 DEF SendOutcome
<1>4. link = "mail_data" => Channel \notin accepted
  BY SetupsAssumption DEF TellInv, Settled, Setup, MailInv, MailLinks
<1>5. inbox' \in [Receivers -> Nat] /\ inbox'[Channel] = inbox[Channel]
  BY <1>2, <1>4 DEF TellInv, Settled, Tell, Receivers
<1>6. SlackInv'
  BY <1>1, <1>2, <1>3, <1>5, SlackFrame DEF TellInv
<1> QED BY <1>2, <1>5, <1>6 DEF TellInv, Settled

----------------------------------------------------------------------------
(* The engine and the command, while nothing is said to a service.         *)

LEMMA SendsStay ==
  ASSUME OwnStep \/ Fault \/ UNCHANGED vars
  PROVE  sends' = sends
BY DEF OwnStep, RecordStart, WriteText, WriteJsonl, DispatchDryRun, DispatchSSH,
   DispatchEscalate, DispatchEnd, RecordAttempt, FollowSimulated, FollowSuccess, Retry,
   FollowFailure, RecordNotificationResult, FinishEscalation, RecordEnd, Execute, Fault,
   WriteFails, ExecutorRaises, Crash, vars, worldVars

(* Only a kill comes between the engine and a notifier at work.            *)
LEMMA MidwayStays ==
  ASSUME Inv, OwnStep \/ Fault \/ UNCHANGED vars, NEW n, Midway(n)
  PROVE  Midway(n)'
<1>1. ASSUME pc = "notify" PROVE ~FinishEscalation
  <2>1. Len(notifications) = next - 1 /\ next \in 1..Len(Notifiers) + 1
    BY <1>1, NotifyFacts DEF AtNotify
  <2> QED BY <2>1, BuiltAssumption DEF Midway, FinishEscalation
<1>2. ~OwnStep
  BY <1>1 DEF Midway, OwnStep, RecordStart, WriteText, WriteJsonl, DispatchDryRun,
     DispatchSSH, DispatchEscalate, DispatchEnd, EnterStep, RecordAttempt, FollowSimulated,
     FollowSuccess, Retry, FollowFailure, RecordNotificationResult, FinishEscalation,
     RecordEnd, Execute
<1>3. ~WriteFails /\ ~ExecutorRaises
  BY DEF Midway, WriteFails, ExecutorRaises, StorePoint, WritePoint
<1>4. CASE Crash
  BY <1>4 DEF Crash, Midway, storeVars, worldVars
<1>5. CASE UNCHANGED vars
  BY <1>5 DEF vars, Midway, storeVars, worldVars
<1> QED BY <1>2, <1>3, <1>4, <1>5 DEF Fault

LEMMA EngineTells ==
  ASSUME Inv, TellInv, OwnStep \/ Fault \/ UNCHANGED vars, UNCHANGED sendVars
  PROVE  TellInv'
<1>1. sends' = sends /\ UNCHANGED <<setup, link, accepted, inbox, trouble>>
  BY SendsStay DEF sendVars
<1>2. setup.to \subseteq Recipients
  BY DEF TellInv, Settled, Setup
<1>3. SlackInv'
  BY <1>1, SlackFrame, MidwayStays DEF TellInv, OtherSends
<1>4. MailInv'
  BY <1>1, <1>2, MailFrame, MidwayStays DEF TellInv, OtherSends
<1> QED BY <1>1, <1>3, <1>4 DEF TellInv, Settled

LEMMA TellNext == Inv /\ NoteInv /\ TellInv /\ [CommandNext]_commandVars => TellInv'
<1> SUFFICES ASSUME Inv, NoteInv, TellInv, [CommandNext]_commandVars PROVE TellInv'
  OBVIOUS
<1>1. CASE SendStep
  <2>1. SlackStep \/ MailStep
    BY <1>1 DEF SendStep, SlackStep, MailStep
  <2> QED BY <2>1, SlackStepSlack, SlackStepMail, MailStepMail, MailStepSlack DEF TellInv
<1>2. CASE ~SendStep
  <2>1. (OwnStep \/ Fault \/ UNCHANGED vars) /\ UNCHANGED sendVars
    BY <1>2, AroundTheEngine DEF CommandNext, RunEngine, FailEngine, EngineStep, EngineFault,
       notifyVars, commandVars
  <2> QED BY <2>1, EngineTells
<1> QED BY <1>1, <1>2

----------------------------------------------------------------------------
NotifiersInv == EngineInv /\ TellInv

LEMMA NotifiersInvInit == CommandInit => NotifiersInv
BY EngineInvInit, TellInit DEF NotifiersInv

LEMMA NotifiersInvNext == NotifiersInv /\ [CommandNext]_commandVars => NotifiersInv'
BY EngineInvNext, TellNext DEF NotifiersInv, EngineInv

(* A row and the send it is about.                                         *)
LEMMA RowsAndSends ==
  ASSUME NotifiersInv, NEW i \in DOMAIN notifications
  PROVE  /\ i \in 1..Len(sends) /\ sends[i].notifier = notifications[i].notifier
         /\ notifications[i].notifier \in {"slack", "email"}
         /\ notifications[i].status \in {"sent", "failed"}
         /\ notifications[i].status = "sent" <=> sends[i].outcome = "delivered"
<1>1. notifications \in Seq(NoteRow) /\ sends \in Seq(Send)
  BY DEF NotifiersInv, EngineInv, Inv, RunTypeOK, NoteInv
<1>2. i \in 1..Len(notifications) /\ i \in 1..Len(sends)
  BY <1>1 DEF NotifiersInv, EngineInv, NoteInv, Paired
<1>3. SameNote(notifications[i], sends[i])
  BY <1>2 DEF NotifiersInv, EngineInv, NoteInv, Paired
<1>4. notifications[i] \in NoteRow
  BY <1>1, <1>2
<1>5. NotifierSet \subseteq {"slack", "email"}
  BY BuiltAssumption DEF NotifierSet
<1> QED BY <1>2, <1>3, <1>4, <1>5 DEF SameNote, NoteRow

(* What a row says of a notifier is what its receivers saw, unless the     *)
(* service failed it (slack.py:63, email.py:50-73).                        *)
THEOREM RowsAreTrue == CommandSpec => []RowsTellTheTruth
<1>1. NotifiersInv => RowsTellTheTruth
  <2> SUFFICES ASSUME NotifiersInv, NEW i \in DOMAIN notifications
               PROVE  LET n == notifications[i].notifier
                          told == {r \in Served(n) : inbox[r] > 0}
                      IN /\ notifications[i].status = "sent" =>
                               told # {} /\ (n \notin trouble => told = Served(n))
                         /\ notifications[i].status = "failed" /\ n \notin trouble =>
                               told = {}
    BY DEF RowsTellTheTruth
  <2>1. /\ i \in 1..Len(sends) /\ sends[i].notifier = notifications[i].notifier
        /\ notifications[i].status = "sent" <=> sends[i].outcome = "delivered"
        /\ notifications[i].status \in {"sent", "failed"}
    BY RowsAndSends
  <2>2. setup.to \subseteq Recipients
    BY DEF NotifiersInv, TellInv, Settled, Setup
  <2>3. CASE notifications[i].notifier = "slack"
    <3>1. /\ sends[i].outcome = "delivered" => SlackTold
          /\ sends[i].outcome # "delivered" /\ "slack" \notin trouble => ~SlackTold
      BY <2>1, <2>3 DEF NotifiersInv, TellInv, SlackInv, SlackTruth
    <3>2. inbox[Channel] \in {0, 1}
      BY DEF NotifiersInv, TellInv, SlackInv
    <3> QED BY <2>1, <2>3, <3>1, <3>2 DEF Served, SlackTold
  <2>4. CASE notifications[i].notifier = "email"
    <3>1. \A r \in setup.to : inbox[r] \in {0, 1} /\ (inbox[r] = 1 => MailSendable)
      BY <2>2 DEF NotifiersInv, TellInv, MailInv
    <3>2. /\ sends[i].outcome = "delivered" =>
               /\ \E r \in setup.to : inbox[r] = 1
               /\ "email" \notin trouble => MailTold
          /\ sends[i].outcome # "delivered" /\ "email" \notin trouble => ~MailSendable
      BY <2>1, <2>4 DEF NotifiersInv, TellInv, MailInv, MailTruth
    <3>3. \A r \in setup.to : inbox[r] > 0 <=> inbox[r] = 1
      BY <3>1
    <3> QED BY <2>1, <2>4, <3>1, <3>2, <3>3 DEF Served, MailTold
  <2> QED BY <2>3, <2>4, RowsAndSends
<1> QED BY <1>1, NotifiersInvInit, NotifiersInvNext, PTL DEF CommandSpec

(* Nobody is told twice or over a channel that is not wanted, and only the *)
(* notifier under way when the run was cut off can have told without a row.*)
THEOREM OnceAtMost == CommandSpec => []ToldAtMostOnce
<1>1. NotifiersInv => ToldAtMostOnce
  <2> DEFINE recorded == {notifications[i].notifier : i \in DOMAIN notifications}
             told(n) == \E r \in Served(n) : inbox[r] > 0
  <2> SUFFICES ASSUME NotifiersInv
               PROVE  /\ \A r \in Receivers : inbox[r] <= 1
                      /\ \A n \in NotifierSet : told(n) => Wanted(n)
                      /\ \A n, m \in NotifierSet \ recorded : told(n) /\ told(m) => n = m
    BY DEF ToldAtMostOnce
  <2>1. \A r \in Receivers : inbox[r] \in {0, 1}
    BY DEF NotifiersInv, TellInv, SlackInv, MailInv, Receivers
  <2>2. NotifierSet \subseteq {"slack", "email"} /\ setup.to \subseteq Recipients
    BY BuiltAssumption DEF NotifierSet, NotifiersInv, TellInv, Settled, Setup
  <2>3. told("slack") => SlackTold
    BY <2>1 DEF Served, Receivers, SlackTold
  <2>4. told("email") => \E r \in Recipients : inbox[r] = 1
    BY <2>1, <2>2 DEF Served, Receivers
  <2>5. \A n \in NotifierSet : told(n) => Wanted(n)
    BY <2>2, <2>3, <2>4 DEF Wanted, NotifiersInv, TellInv, SlackInv, MailInv, SlackWanted,
       MailSendable, MailWanted
  <2>6. \A n \in NotifierSet \ recorded : told(n) =>
          \/ HasSent(n)
          \/ Len(sends) = Len(notifications) /\ Notifiers[Len(sends) + 1] = n
    BY <2>2, <2>3, <2>4 DEF NotifiersInv, TellInv, SlackInv, MailInv, Midway, SlackLinks, MailLinks
  <2>7. \A n \in NotifierSet \ recorded : HasSent(n) =>
          Len(sends) = Len(notifications) + 1 /\ sends[Len(sends)].notifier = n
    <3> SUFFICES ASSUME NEW n \in NotifierSet \ recorded, NEW i \in 1..Len(sends),
                        sends[i].notifier = n
                 PROVE  Len(sends) = Len(notifications) + 1 /\ i = Len(sends)
      BY DEF HasSent
    <3>1. i \notin DOMAIN notifications
      BY RowsAndSends
    <3>2. /\ notifications \in Seq(NoteRow) /\ Len(sends) \in Nat
          /\ Len(sends) <= Len(notifications) + 1
      BY DEF NotifiersInv, EngineInv, NoteInv, Inv, RunTypeOK
    <3> QED BY <3>1, <3>2
  <2> HIDE DEF told, recorded
  <2>8. \A n, m \in NotifierSet \ recorded : told(n) /\ told(m) => n = m
    <3>1. Len(sends) \in Nat /\ Len(notifications) \in Nat
      BY DEF NotifiersInv, EngineInv, NoteInv, Inv, RunTypeOK
    <3> QED BY <2>6, <2>7, <3>1
  <2>9. \A r \in Receivers : inbox[r] <= 1
    BY <2>1
  <2> QED BY <2>5, <2>8, <2>9
<1> QED BY <1>1, NotifiersInvInit, NotifiersInvNext, PTL DEF CommandSpec

(* An escalated run told every receiver of every wanted notifier whose     *)
(* service works, whatever became of the other notifier (engine.py:299).   *)
THEOREM HealthyAreTold == CommandSpec => []HealthyChannelsAreTold
<1>1. NotifiersInv => HealthyChannelsAreTold
  <2> SUFFICES ASSUME NotifiersInv, execution.status = "escalated",
                      NEW n \in NotifierSet, n \notin trouble, Wanted(n)
               PROVE  \A r \in Served(n) : inbox[r] = 1
    BY DEF HealthyChannelsAreTold
  <2>1. PICK i \in 1..Len(Notifiers) : Notifiers[i] = n
    BY DEF NotifierSet
  <2>2. i \in 1..Len(sends) /\ sends[i].notifier = n
    BY <2>1 DEF NotifiersInv, EngineInv, NoteInv, InOrder
  <2>3. n \in {"slack", "email"}
    BY BuiltAssumption DEF NotifierSet
  <2>4. CASE n = "slack"
    BY <2>2, <2>4 DEF Wanted, Served, NotifiersInv, TellInv, SlackInv, SlackTruth, SlackTold,
       SlackWanted
  <2>5. CASE n = "email"
    BY <2>2, <2>5 DEF Wanted, Served, NotifiersInv, TellInv, MailInv, MailTruth, MailTold,
       MailSendable, MailWanted
  <2> QED BY <2>3, <2>4, <2>5
<1> QED BY <1>1, NotifiersInvInit, NotifiersInvNext, PTL DEF CommandSpec

----------------------------------------------------------------------------
(* The lines of the text log.                                              *)

(* What a character is printed as, and the characters of a value.          *)
Piece(x) == IF x \in {Backslash, Quotation} THEN <<Backslash, x>> ELSE <<x>>
Pieces(text) == [i \in DOMAIN text |-> Piece(text[i])]
Spelling(value) == IF value = NoText THEN <<"null">> ELSE Characters[value]

InTexts   == UNION {ToSet(Characters[t]) : t \in DOMAIN Characters}
Character == InTexts \union {"null", " ", Backslash, Quotation}

Starts(s, t) == Len(s) <= Len(t) /\ \A i \in 1..Len(s) : s[i] = t[i]

LEMMA PieceFacts ==
  ASSUME NEW x \in Character
  PROVE  /\ Piece(x) \in Seq(Character) /\ Len(Piece(x)) \in {1, 2} /\ Piece(x)[1] # Quotation
         /\ Len(Piece(x)) = 2 => Piece(x)[1] = Backslash /\ Piece(x)[2] = x
         /\ Len(Piece(x)) = 1 => Piece(x)[1] = x /\ x # Backslash
<1>1. Backslash \in Character /\ Backslash # Quotation
  <2>1. Backslash # Quotation
    BY DEF Backslash, Quotation
  <2>2. Backslash \in Character
    BY DEF Character
  <2> QED BY <2>1, <2>2
<1>2. CASE x \in {Backslash, Quotation}
  BY <1>1, <1>2 DEF Piece
<1>3. CASE x \notin {Backslash, Quotation}
  BY <1>3 DEF Piece
<1> QED BY <1>2, <1>3

LEMMA PiecesType ==
  ASSUME NEW c \in Seq(Character)
  PROVE  /\ Pieces(c) \in Seq(Seq(Character)) /\ Len(Pieces(c)) = Len(c)
         /\ \A i \in 1..Len(c) : Pieces(c)[i] = Piece(c[i])
<1>1. DOMAIN c = 1..Len(c) /\ Len(c) \in Nat /\ \A i \in 1..Len(c) : c[i] \in Character
  OBVIOUS
<1>2. \A i \in 1..Len(c) : Piece(c[i]) \in Seq(Character)
  BY <1>1, PieceFacts
<1> HIDE DEF Pieces
<1>3. Pieces(c) = [i \in 1..Len(c) |-> Piece(c[i])]
  BY <1>1 DEF Pieces
<1> QED BY <1>1, <1>2, <1>3

LEMMA EscapedIs ==
  ASSUME NEW c \in Seq(Character)
  PROVE  Escaped(c) = FlattenSeq(Pieces(c)) /\ Escaped(c) \in Seq(Character)
<1>1. Escaped(c) = FlattenSeq(Pieces(c))
  BY Zenon DEF Escaped, Pieces, Piece
<1>2. FlattenSeq(Pieces(c)) \in Seq(Character)
  BY PiecesType, FlattenSeqPieces
<1> QED BY <1>1, <1>2

LEMMA HeadFirst ==
  ASSUME NEW S, NEW c \in Seq(S), c # <<>>
  PROVE  \E x \in S, rest \in Seq(S) : c = <<x>> \o rest /\ Len(c) = Len(rest) + 1
<1> DEFINE x == c[1]
           rest == Tail(c)
           more == <<x>> \o rest
<1>1. x \in S /\ rest \in Seq(S) /\ Len(c) = Len(rest) + 1 /\ Len(rest) \in Nat
  OBVIOUS
<1>2. \A i \in 1..Len(rest) : rest[i] = c[i + 1]
  OBVIOUS
<1>3. <<x>> \in Seq(S) /\ Len(<<x>>) = 1 /\ <<x>>[1] = x
  BY <1>1
<1> DEFINE one == <<x>>
<1> HIDE DEF one, rest
<1>4. /\ one \o rest \in Seq(S) /\ Len(one \o rest) = 1 + Len(rest)
      /\ (one \o rest)[1] = c[1]
      /\ \A i \in 1..Len(rest) : (one \o rest)[1 + i] = rest[i]
  <2>1. one \in Seq(S) /\ Len(one) = 1 /\ one[1] = c[1]
    BY <1>3 DEF one
  <2>2. /\ one \o rest \in Seq(S) /\ Len(one \o rest) = Len(one) + Len(rest)
        /\ \A i \in 1..Len(one) : (one \o rest)[i] = one[i]
        /\ \A i \in 1..Len(rest) : (one \o rest)[Len(one) + i] = rest[i]
    <3>1. one \in Seq(S) /\ rest \in Seq(S)
      BY <1>1, <2>1
    <3> QED BY <3>1, Concatenated
  <2> QED BY <2>1, <2>2
<1>5. ASSUME NEW i \in 1..Len(c) PROVE (one \o rest)[i] = c[i]
  <2>1. CASE i = 1
    BY <1>4, <2>1
  <2>2. CASE i # 1
    <3> DEFINE j == i - 1
    <3>1. j \in 1..Len(rest) /\ 1 + j = i /\ j + 1 = i
      BY <1>1, <2>2
    <3> HIDE DEF j
    <3> QED BY <1>2, <1>4, <3>1
  <2> QED BY <2>1, <2>2
<1>6. one \o rest = c
  BY <1>1, <1>4, <1>5, SameSequence
<1> QED BY <1>1, <1>6 DEF one

LEMMA EscapedHead ==
  ASSUME NEW x \in Character, NEW c \in Seq(Character)
  PROVE  Escaped(<<x>> \o c) = Piece(x) \o Escaped(c)
<1> DEFINE one == <<x>>
           more == one \o c
           lead == <<Piece(x)>>
           l == Pieces(more)
           r == lead \o Pieces(c)
<1>1. one \in Seq(Character) /\ Len(one) = 1 /\ one[1] = x
  OBVIOUS
<1>2. Piece(x) \in Seq(Character)
  BY PieceFacts
<1>3. lead \in Seq(Seq(Character)) /\ Len(lead) = 1 /\ lead[1] = Piece(x)
  BY <1>2
<1> HIDE DEF one, lead
<1>4. /\ more \in Seq(Character) /\ Len(more) = 1 + Len(c) /\ Len(c) \in Nat
      /\ more[1] = x
      /\ \A i \in 1..Len(c) : more[1 + i] = c[i]
  <2>1. /\ one \o c \in Seq(Character) /\ Len(one \o c) = Len(one) + Len(c) /\ Len(c) \in Nat
        /\ \A i \in 1..Len(one) : (one \o c)[i] = one[i]
        /\ \A i \in 1..Len(c) : (one \o c)[Len(one) + i] = c[i]
    <3>1. one \in Seq(Character)
      BY <1>1
    <3> QED BY <3>1, Concatenated
  <2> QED BY <1>1, <2>1
<1> HIDE DEF more
<1>5. /\ l \in Seq(Seq(Character)) /\ Len(l) = 1 + Len(c)
      /\ \A i \in 1..Len(l) : l[i] = Piece(more[i])
  BY <1>4, PiecesType
<1>6. /\ Pieces(c) \in Seq(Seq(Character)) /\ Len(Pieces(c)) = Len(c)
      /\ \A i \in 1..Len(c) : Pieces(c)[i] = Piece(c[i])
  BY PiecesType
<1>7. /\ r \in Seq(Seq(Character)) /\ Len(r) = 1 + Len(c) /\ r[1] = Piece(x)
      /\ \A i \in 1..Len(c) : r[1 + i] = Piece(c[i])
  <2> DEFINE pieces == Pieces(c)
  <2>1. pieces \in Seq(Seq(Character))
    BY <1>6
  <2> HIDE DEF pieces
  <2>2. /\ lead \o pieces \in Seq(Seq(Character)) /\ Len(lead \o pieces) = Len(lead) + Len(pieces)
        /\ \A i \in 1..Len(lead) : (lead \o pieces)[i] = lead[i]
        /\ \A i \in 1..Len(pieces) : (lead \o pieces)[Len(lead) + i] = pieces[i]
    <3>1. lead \in Seq(Seq(Character))
      BY <1>3
    <3> QED BY <2>1, <3>1, Concatenated
  <2> QED BY <1>3, <1>6, <2>2 DEF pieces
<1> HIDE DEF l, r
<1>8. ASSUME NEW i \in 1..Len(l) PROVE l[i] = r[i]
  <2>1. CASE i = 1
    BY <1>4, <1>5, <1>7, <2>1
  <2>2. CASE i # 1
    <3> DEFINE j == i - 1
    <3>1. j \in 1..Len(c) /\ 1 + j = i
      BY <1>4, <1>5, <2>2
    <3> HIDE DEF j
    <3> QED BY <1>4, <1>5, <1>7, <3>1
  <2> QED BY <2>1, <2>2
<1>9. l = r
  BY <1>5, <1>7, <1>8, SameSequence
<1>10. FlattenSeq(r) = Piece(x) \o FlattenSeq(Pieces(c))
  BY <1>2, <1>6, FlattenSeqPrepend DEF r, lead
<1>11. Escaped(more) = FlattenSeq(l) /\ Escaped(c) = FlattenSeq(Pieces(c))
  BY <1>4, EscapedIs DEF l
<1> QED BY <1>9, <1>10, <1>11 DEF more, one

LEMMA EscapedEmpty == Escaped(<<>>) = <<>>
<1>1. Pieces(<<>>) = <<>>
  BY DEF Pieces
<1>2. <<>> \in Seq(Character)
  OBVIOUS
<1> QED BY <1>1, <1>2, EscapedIs, FlattenSeqEmpty

(* What begins like a concatenation goes on like the rest of it.           *)
LEMMA SameStart ==
  ASSUME NEW S, NEW p \in Seq(S), NEW s \in Seq(S), NEW t \in Seq(S),
         Starts(p \o s, p \o t)
  PROVE  Starts(s, t)
<1> DEFINE ps == p \o s
           pt == p \o t
<1>1. /\ ps \in Seq(S) /\ Len(ps) = Len(p) + Len(s) /\ Len(p) \in Nat /\ Len(s) \in Nat
      /\ \A i \in 1..Len(s) : ps[Len(p) + i] = s[i]
  BY Concatenated
<1>2. /\ Len(pt) = Len(p) + Len(t) /\ Len(t) \in Nat
      /\ \A i \in 1..Len(t) : pt[Len(p) + i] = t[i]
  BY Concatenated
<1>3. Len(ps) <= Len(pt) /\ \A i \in 1..Len(ps) : ps[i] = pt[i]
  BY DEF Starts
<1> HIDE DEF ps, pt
<1>4. Len(s) <= Len(t)
  BY <1>1, <1>2, <1>3
<1>5. ASSUME NEW i \in 1..Len(s) PROVE s[i] = t[i]
  <2> DEFINE j == Len(p) + i
  <2>1. j \in 1..Len(ps) /\ i \in 1..Len(t)
    BY <1>1, <1>4, <1>2
  <2>2. ps[j] = s[i] /\ pt[j] = t[i]
    BY <1>1, <1>2, <2>1
  <2> HIDE DEF j
  <2> QED BY <1>3, <2>1, <2>2
<1> QED BY <1>4, <1>5 DEF Starts

(* The printed pieces of two characters differ where they are compared.    *)
LEMMA PieceCode ==
  ASSUME NEW x \in Character, NEW y \in Character, NEW a \in Seq(Character),
         NEW b \in Seq(Character), a # <<>>, Starts(Piece(x) \o a, Piece(y) \o b)
  PROVE  x = y
<1> DEFINE p == Piece(x)
           q == Piece(y)
           pa == p \o a
           qb == q \o b
<1>1. p \in Seq(Character) /\ q \in Seq(Character) /\ Len(p) \in {1, 2} /\ Len(q) \in {1, 2}
  BY PieceFacts
<1>2. /\ Len(p) = 2 => p[1] = Backslash /\ p[2] = x
      /\ Len(p) = 1 => p[1] = x /\ x # Backslash
      /\ Len(q) = 2 => q[1] = Backslash /\ q[2] = y
      /\ Len(q) = 1 => q[1] = y /\ y # Backslash
  BY PieceFacts
<1> HIDE DEF p, q
<1>3. /\ pa \in Seq(Character) /\ Len(pa) = Len(p) + Len(a)
      /\ \A i \in 1..Len(p) : pa[i] = p[i]
  <2>1. p \in Seq(Character)
    BY <1>1
  <2> QED BY <2>1, Concatenated
<1>4. /\ qb \in Seq(Character) /\ Len(qb) = Len(q) + Len(b)
      /\ \A i \in 1..Len(q) : qb[i] = q[i]
  <2>1. q \in Seq(Character)
    BY <1>1
  <2> QED BY <2>1, Concatenated
<1>5. Len(a) \in Nat /\ Len(a) >= 1 /\ Len(b) \in Nat
  OBVIOUS
<1>6. Len(pa) <= Len(qb) /\ \A i \in 1..Len(pa) : pa[i] = qb[i]
  BY DEF Starts, p, q
<1> HIDE DEF pa, qb
<1>7. pa[1] = qb[1] /\ pa[2] = qb[2]
  BY <1>1, <1>3, <1>5, <1>6
<1>8. pa[1] = p[1] /\ qb[1] = q[1]
  BY <1>1, <1>3, <1>4
<1>9. CASE Len(p) = 1
  BY <1>1, <1>2, <1>7, <1>8, <1>9
<1>10. CASE Len(p) = 2
  <2>1. Len(q) = 2
    BY <1>1, <1>2, <1>7, <1>8, <1>10
  <2>2. pa[2] = p[2] /\ qb[2] = q[2]
    BY <1>3, <1>4, <1>10, <2>1
  <2> QED BY <1>2, <1>7, <1>10, <2>1, <2>2
<1> QED BY <1>1, <1>9, <1>10

(* The first character of a printed text is no quotation mark.             *)
LEMMA NoQuoteFirst ==
  ASSUME NEW c \in Seq(Character), c # <<>>
  PROVE  Len(Escaped(c)) >= 1 /\ Escaped(c)[1] # Quotation
<1>1. PICK x \in Character, rest \in Seq(Character) : c = <<x>> \o rest
  BY HeadFirst
<1>2. Escaped(c) = Piece(x) \o Escaped(rest)
  BY <1>1, EscapedHead
<1> DEFINE p == Piece(x)
           e == Escaped(rest)
<1>3. p \in Seq(Character) /\ e \in Seq(Character)
  BY PieceFacts, EscapedIs
<1>4. Len(p) \in {1, 2} /\ p[1] # Quotation
  BY PieceFacts
<1> HIDE DEF p, e
<1>5. Len(p \o e) = Len(p) + Len(e) /\ Len(e) \in Nat /\ \A i \in 1..Len(p) : (p \o e)[i] = p[i]
  BY <1>3, Concatenated
<1>6. Len(p \o e) >= 1 /\ (p \o e)[1] = p[1]
  BY <1>4, <1>5
<1> QED BY <1>2, <1>4, <1>6 DEF p, e

(* The characters of a text, up to the quotation mark that ends it, are    *)
(* the beginning of no other text's.                                       *)
LEMMA QuotedTextEnds ==
  ASSUME NEW c \in Seq(Character), NEW d \in Seq(Character),
         Starts(Escaped(c) \o <<Quotation>>, Escaped(d) \o <<Quotation>>)
  PROVE  c = d
<1> DEFINE End(t) == Escaped(t) \o <<Quotation>>
           T == {n \in Nat : \A s, t \in Seq(Character) :
                               Len(s) = n /\ Starts(End(s), End(t)) => s = t}
<1>1. \A t \in Seq(Character) : End(t) \in Seq(Character) /\ Len(End(t)) = Len(Escaped(t)) + 1
                                /\ Len(Escaped(t)) \in Nat
                                /\ \A i \in 1..Len(Escaped(t)) : End(t)[i] = Escaped(t)[i]
  <2> SUFFICES ASSUME NEW t \in Seq(Character)
               PROVE  /\ End(t) \in Seq(Character) /\ Len(End(t)) = Len(Escaped(t)) + 1
                      /\ Len(Escaped(t)) \in Nat
                      /\ \A i \in 1..Len(Escaped(t)) : End(t)[i] = Escaped(t)[i]
    OBVIOUS
  <2> DEFINE e == Escaped(t)
             q == <<Quotation>>
  <2>1. Quotation \in Character
    BY DEF Character
  <2>2. e \in Seq(Character) /\ q \in Seq(Character)
    BY <2>1, EscapedIs
  <2>3. Len(q) = 1
    OBVIOUS
  <2> HIDE DEF e, q
  <2>4. /\ e \o q \in Seq(Character) /\ Len(e \o q) = Len(e) + Len(q) /\ Len(e) \in Nat
        /\ \A i \in 1..Len(e) : (e \o q)[i] = e[i]
    BY <2>2, Concatenated
  <2> QED BY <2>3, <2>4 DEF e, q
<1>2. End(<<>>) = <<Quotation>>
  <2>1. <<>> \o <<Quotation>> = <<Quotation>>
    OBVIOUS
  <2> QED BY <2>1, EscapedEmpty
<1>3. \A x \in Character, t \in Seq(Character) : End(<<x>> \o t) = Piece(x) \o End(t)
  <2> SUFFICES ASSUME NEW x \in Character, NEW t \in Seq(Character)
               PROVE  End(<<x>> \o t) = Piece(x) \o End(t)
    OBVIOUS
  <2> DEFINE p == Piece(x)
             e == Escaped(t)
             q == <<Quotation>>
  <2>1. Quotation \in Character
    BY DEF Character
  <2>2. p \in Seq(Character) /\ e \in Seq(Character) /\ q \in Seq(Character)
    BY <2>1, EscapedIs, PieceFacts
  <2>3. Escaped(<<x>> \o t) = p \o e
    BY EscapedHead
  <2> HIDE DEF p, e, q
  <2>4. (p \o e) \o q = p \o (e \o q)
    <3>1. \A f \in Seq(Character), g \in Seq(Character), h \in Seq(Character) :
             (f \o g) \o h = f \o (g \o h)
      BY Associative
    <3>2. p \in Seq(Character)
      BY <2>2
    <3>3. e \in Seq(Character)
      BY <2>2
    <3>4. q \in Seq(Character)
      BY <2>2
    <3> QED BY <3>1, <3>2, <3>3, <3>4, Zenon
  <2> QED BY <2>3, <2>4 DEF p, e, q
<1>4. \A t \in Seq(Character) : t # <<>> => End(t)[1] # Quotation /\ Len(End(t)) >= 2
  BY <1>1, NoQuoteFirst
<1> HIDE DEF End
<1>5. 0 \in T
  <2> SUFFICES ASSUME NEW s \in Seq(Character), NEW t \in Seq(Character), Len(s) = 0,
                      Starts(End(s), End(t))
               PROVE  s = t
    OBVIOUS
  <2>1. s = <<>> /\ End(s) = <<Quotation>>
    BY <1>2
  <2>2. End(t)[1] = Quotation
    BY <2>1 DEF Starts
  <2> QED BY <1>4, <2>1, <2>2
<1>6. ASSUME NEW n \in T PROVE n + 1 \in T
  <2> SUFFICES ASSUME NEW s \in Seq(Character), NEW t \in Seq(Character), Len(s) = n + 1,
                      Starts(End(s), End(t))
               PROVE  s = t
    <3>1. n + 1 \in Nat
      OBVIOUS
    <3> QED BY <3>1
  <2>1. s # <<>> /\ Len(End(s)) >= 2
    <3>1. n \in Nat
      OBVIOUS
    <3> HIDE DEF T
    <3>2. s # <<>>
      BY <3>1
    <3> QED BY <1>4, <3>2
  <2>2. t # <<>>
    <3>1. Len(End(s)) <= Len(End(t)) /\ Len(End(s)) \in Nat /\ Len(End(t)) \in Nat
      <4>1. Len(End(s)) <= Len(End(t))
        BY Zenon DEF Starts
      <4>2. End(s) \in Seq(Character) /\ End(t) \in Seq(Character)
        BY <1>1
      <4> HIDE DEF T
      <4> QED BY <4>1, <4>2
    <3>2. Len(End(<<>>)) = 1
      BY <1>2
    <3>3. Len(End(t)) # 1
      <4> DEFINE k == Len(End(s))
                 m == Len(End(t))
      <4>1. k >= 2 /\ k <= m /\ k \in Nat /\ m \in Nat
        BY <2>1, <3>1
      <4> HIDE DEF k, m, T
      <4>2. m # 1
        BY <4>1
      <4> QED BY <4>2 DEF m
    <3> QED BY <3>2, <3>3
  <2>3. PICK x \in Character, u \in Seq(Character) : s = <<x>> \o u /\ Len(s) = Len(u) + 1
    BY <2>1, HeadFirst
  <2>4. PICK y \in Character, v \in Seq(Character) : t = <<y>> \o v /\ Len(t) = Len(v) + 1
    BY <2>2, HeadFirst
  <2>5. End(s) = Piece(x) \o End(u) /\ End(t) = Piece(y) \o End(v)
    BY <1>3, <2>3, <2>4
  <2>6. End(u) \in Seq(Character) /\ End(v) \in Seq(Character) /\ End(u) # <<>>
    <3>1. /\ End(u) \in Seq(Character) /\ End(v) \in Seq(Character)
          /\ Len(End(u)) = Len(Escaped(u)) + 1 /\ Len(Escaped(u)) \in Nat
      BY <1>1
    <3> QED BY <3>1
  <2>7. x = y
    BY <2>5, <2>6, PieceCode
  <2>8. Starts(End(u), End(v))
    <3>1. Piece(x) \in Seq(Character)
      BY PieceFacts
    <3> QED BY <2>5, <2>6, <2>7, <3>1, SameStart
  <2>9. Len(u) = n
    <3>1. n \in Nat /\ Len(u) \in Nat
      OBVIOUS
    <3> QED BY <2>3, <3>1
  <2>10. u = v
    BY <2>8, <2>9
  <2> QED BY <2>3, <2>4, <2>7, <2>10
<1>7. T = Nat
  <2>1. T \subseteq Nat
    OBVIOUS
  <2> HIDE DEF T
  <2> QED BY <1>5, <1>6, <2>1, NatSetInduction
<1>8. Len(c) \in T
  <2>1. Len(c) \in Nat
    OBVIOUS
  <2> HIDE DEF T
  <2> QED BY <1>7, <2>1
<1>9. Starts(End(c), End(d))
  BY DEF End
<1> QED BY <1>8, <1>9

Marks == WhiteSpace \union {"="}

LEMMA SpellingFacts ==
  /\ \A u \in Texts \union Reason : Spelling(u) \in Seq(Character)
  /\ \A u, v \in Texts \union Reason : Spelling(u) = Spelling(v) => u = v
<1>1. "null" \in Character
  BY DEF Character
<1>2. <<"null">> \in Seq(Character)
  BY <1>1
<1>3. \A u \in Texts \union Reason : u = NoText \/ u \in DOMAIN Characters
  BY CharactersAssumption DEF Reason
<1>4. ASSUME NEW u \in DOMAIN Characters
      PROVE  Characters[u] \in Seq(Character) /\ Characters[u] # <<"null">>
  <2>1. ToSet(Characters[u]) \subseteq Character
    BY DEF Character, InTexts
  <2>2. Characters[u] \in Seq(ToSet(Characters[u])) /\ Characters[u] # <<"null">>
    BY CharactersAssumption
  <2> QED BY <2>1, <2>2
<1>5. \A u, v \in DOMAIN Characters : Characters[u] = Characters[v] => u = v
  BY CharactersAssumption
<1>6. \A u \in Texts \union Reason : Spelling(u) \in Seq(Character)
  BY <1>2, <1>3, <1>4, Zenon DEF Spelling
<1>7. \A u, v \in Texts \union Reason : Spelling(u) = Spelling(v) => u = v
  BY <1>3, <1>4, <1>5, Zenon DEF Spelling
<1> QED BY <1>6, <1>7

(* None is printed as the text null would be.                              *)
LEMMA QuotedIs ==
  ASSUME NEW u \in Texts \union Reason
  PROVE  LET e == Escaped(Spelling(u)) IN
         Quoted(u) = IF Holds(e, Marks) THEN <<Quotation>> \o e \o <<Quotation>> ELSE e
<1>1. CASE u # NoText
  BY <1>1 DEF Quoted, Spelling, Marks
<1>2. CASE u = NoText
  <2> DEFINE n == <<"null">>
  <2>1. "null" \in Character /\ "null" \notin {Backslash, Quotation}
    BY DEF Character, Backslash, Quotation
  <2>2. n \in Seq(Character) /\ <<>> \in Seq(Character) /\ n \o <<>> = n
    BY <2>1
  <2>3. Escaped(n \o <<>>) = Piece("null") \o Escaped(<<>>)
    BY <2>1, <2>2, EscapedHead
  <2>4. Piece("null") = n
    BY <2>1 DEF Piece
  <2>5. Escaped(n) = n
    BY <2>2, <2>3, <2>4, EscapedEmpty
  <2>6. ~Holds(n, Marks)
    <3>1. ToSet(n) = {"null"}
      BY DEF ToSet
    <3>2. "null" \notin Marks
      BY DEF Marks, WhiteSpace, LineBreak
    <3> QED BY <3>1, <3>2 DEF Holds
  <2>7. Spelling(u) = n /\ Quoted(u) = n
    BY <1>2 DEF Spelling, Quoted
  <2> QED BY <2>5, <2>6, <2>7
<1> QED BY <1>1, <1>2

(* A printed value and the space that ends it, in quotation marks and not. *)
Space == " "
Plain(e) == e \o <<Space>>
UpToMark(e) == e \o <<Quotation>>
Marked(e) == (<<Quotation>> \o e \o <<Quotation>>) \o <<Space>>

LEMMA CharacterTexts ==
  /\ <<Space>> \in Seq(Character) /\ <<Quotation>> \in Seq(Character)
  /\ Len(<<Space>>) = 1 /\ <<Space>>[1] = Space
  /\ Len(<<Quotation>>) = 1 /\ <<Quotation>>[1] = Quotation
<1>1. Space \in Character /\ Quotation \in Character
  BY DEF Character, Space
<1>2. \A x \in Character : <<x>> \in Seq(Character) /\ Len(<<x>>) = 1 /\ <<x>>[1] = x
  OBVIOUS
<1> QED BY <1>1, <1>2, Zenon

LEMMA Unquoted ==
  ASSUME NEW e \in Seq(Character)
  PROVE  /\ Plain(e) \in Seq(Character) /\ Len(Plain(e)) = Len(e) + 1 /\ Len(e) \in Nat
         /\ \A i \in 1..Len(e) : Plain(e)[i] = e[i]
         /\ Plain(e)[Len(e) + 1] = Space
<1> DEFINE space == <<Space>>
<1>1. space \in Seq(Character)
  BY CharacterTexts
<1>2. Len(space) = 1 /\ space[1] = Space
  BY CharacterTexts
<1> HIDE DEF space
<1> DEFINE p == e \o space
<1>3. /\ p \in Seq(Character) /\ Len(p) = Len(e) + Len(space) /\ Len(e) \in Nat
      /\ \A i \in 1..Len(e) : p[i] = e[i]
      /\ \A i \in 1..Len(space) : p[Len(e) + i] = space[i]
  BY <1>1, Concatenated
<1> DEFINE k == Len(e)
           m == Len(space)
<1>4. m = 1 /\ Len(p) = k + m /\ k \in Nat /\ \A i \in 1..m : p[k + i] = space[i]
  BY <1>2, <1>3
<1> HIDE DEF p, k, m
<1>5. Len(p) = k + 1 /\ p[k + 1] = Space
  BY <1>2, <1>4
<1>6. Plain(e) = p
  BY DEF Plain, p, space
<1> QED BY <1>3, <1>5, <1>6 DEF k

LEMMA InQuotes ==
  ASSUME NEW e \in Seq(Character)
  PROVE  /\ UpToMark(e) \in Seq(Character) /\ Len(UpToMark(e)) \in Nat
         /\ Marked(e) \in Seq(Character) /\ Len(Marked(e)) = Len(UpToMark(e)) + 2
         /\ Marked(e)[1] = Quotation
         /\ \A i \in 1..Len(UpToMark(e)) : Marked(e)[1 + i] = UpToMark(e)[i]
<1> DEFINE q == UpToMark(e)
           mark == <<Quotation>>
           r == mark \o q
           p == Plain(r)
<1>1. mark \in Seq(Character)
  BY CharacterTexts
<1>2. Len(mark) = 1 /\ mark[1] = Quotation
  BY CharacterTexts
<1>3. q = e \o mark
  BY DEF UpToMark
<1> HIDE DEF mark, q
<1>4. (mark \o e) \o mark = mark \o (e \o mark)
  BY <1>1, Associative
<1>5. q \in Seq(Character)
  <2>1. e \o mark \in Seq(Character)
    BY <1>1, Concatenated
  <2> QED BY <1>3, <2>1
<1>6. /\ r \in Seq(Character) /\ Len(r) = Len(mark) + Len(q) /\ Len(q) \in Nat
      /\ \A i \in 1..Len(mark) : r[i] = mark[i]
      /\ \A i \in 1..Len(q) : r[Len(mark) + i] = q[i]
  BY <1>1, <1>5, Concatenated
<1>7. Marked(e) = p
  BY <1>3, <1>4, Zenon DEF Marked, Plain, mark
<1> HIDE DEF r
<1>8. r \in Seq(Character)
  BY <1>6
<1>9. /\ p \in Seq(Character) /\ Len(p) = Len(r) + 1
      /\ \A i \in 1..Len(r) : p[i] = r[i]
  BY <1>8, Unquoted
<1> HIDE DEF p
<1> DEFINE k == Len(q)
           l == Len(mark)
           m == Len(r)
           n == Len(p)
<1>10. /\ k \in Nat /\ l = 1 /\ m = l + k /\ n = m + 1
       /\ \A i \in 1..l : r[i] = mark[i]
       /\ \A i \in 1..k : r[l + i] = q[i]
       /\ \A i \in 1..m : p[i] = r[i]
  BY <1>2, <1>6, <1>9
<1> HIDE DEF k, l, m, n
<1>11. m = 1 + k /\ n = k + 2 /\ \A i \in 1..k : r[1 + i] = q[i]
  BY <1>10
<1>12. p[1] = Quotation
  <2>1. 1 \in 1..l /\ 1 \in 1..m
    BY <1>10, <1>11
  <2> QED BY <1>2, <1>10, <2>1
<1>13. ASSUME NEW i \in 1..k PROVE p[1 + i] = q[i]
  <2>1. 1 + i \in 1..m
    BY <1>10, <1>11
  <2> QED BY <1>10, <1>11, <2>1
<1> QED BY <1>5, <1>6, <1>7, <1>9, <1>11, <1>12, <1>13 DEF k, n, q

LEMMA PrefixStarts ==
  ASSUME NEW S, NEW a \in Seq(S), NEW b \in Seq(S), IsPrefix(a, b)
  PROVE  Starts(a, b)
<1> DEFINE k == Len(a)
<1>1. k \in Nat /\ Len(b) \in Nat /\ k <= Len(b) /\ SubSeq(a, 1, k) = SubSeq(b, 1, k)
  BY DEF IsPrefix
<1>2. \A i \in 1..k : SubSeq(a, 1, k)[i] = a[i] /\ SubSeq(b, 1, k)[i] = b[i]
  BY <1>1
<1> HIDE DEF k
<1>3. \A i \in 1..k : a[i] = b[i]
  BY <1>1, <1>2
<1> QED BY <1>1, <1>3 DEF Starts, k

LEMMA SameStarts ==
  ASSUME NEW c \in Seq(Character) PROVE Starts(c, c)
<1>1. Len(c) \in Nat
  OBVIOUS
<1> QED BY <1>1 DEF Starts

LEMMA NoMark ==
  ASSUME NEW e \in Seq(Character), ~Holds(e, Marks), NEW i \in 1..Len(e)
  PROVE  e[i] # Space
<1>1. i \in DOMAIN e
  OBVIOUS
<1> QED BY <1>1 DEF Holds, ToSet, Marks, WhiteSpace, Space

(* What is printed first tells whether a text is in quotation marks.       *)
LEMMA PlainFirst ==
  ASSUME NEW c \in Seq(Character)
  PROVE  Plain(Escaped(c))[1] # Quotation /\ Len(Plain(Escaped(c))) >= 1
<1> DEFINE e == Escaped(c)
           p == Plain(e)
<1>1. e \in Seq(Character)
  BY EscapedIs
<1>2. (c # <<>> => Len(e) >= 1 /\ e[1] # Quotation) /\ (c = <<>> => e = <<>>)
  BY NoQuoteFirst, EscapedEmpty
<1> HIDE DEF e
<1>3. /\ Len(p) = Len(e) + 1 /\ Len(e) \in Nat
      /\ \A i \in 1..Len(e) : p[i] = e[i]
      /\ p[Len(e) + 1] = Space
  BY <1>1, Unquoted
<1> DEFINE k == Len(e)
           n == Len(p)
<1>4. /\ n = k + 1 /\ k \in Nat /\ p[k + 1] = Space
      /\ \A i \in 1..k : p[i] = e[i]
      /\ (c # <<>> => k >= 1 /\ e[1] # Quotation) /\ (c = <<>> => k = 0)
  BY <1>2, <1>3
<1> HIDE DEF p, k, n
<1>5. Space # Quotation
  BY DEF Quotation, Space
<1>6. p[1] # Quotation /\ n >= 1
  <2>1. CASE c = <<>>
    BY <1>4, <1>5, <2>1
  <2>2. CASE c # <<>>
    BY <1>4, <2>2
  <2> QED BY <2>1, <2>2
<1> QED BY <1>6 DEF p, n, e

LEMMA BothMarked ==
  ASSUME NEW c \in Seq(Character), NEW d \in Seq(Character),
         Starts(Marked(Escaped(c)), Marked(Escaped(d)))
  PROVE  c = d
<1> DEFINE q == UpToMark(Escaped(c))
           r == UpToMark(Escaped(d))
           a == Marked(Escaped(c))
           b == Marked(Escaped(d))
           k == Len(q)
           m == Len(r)
           la == Len(a)
           lb == Len(b)
<1>1. Escaped(c) \in Seq(Character) /\ Escaped(d) \in Seq(Character)
  BY EscapedIs
<1>2. k \in Nat /\ la = k + 2 /\ \A i \in 1..k : a[1 + i] = q[i]
  <2> DEFINE e == Escaped(c)
  <2>1. e \in Seq(Character)
    BY <1>1
  <2> HIDE DEF e
  <2> QED BY <2>1, InQuotes DEF e
<1>3. m \in Nat /\ lb = m + 2 /\ \A i \in 1..m : b[1 + i] = r[i]
  <2> DEFINE e == Escaped(d)
  <2>1. e \in Seq(Character)
    BY <1>1
  <2> HIDE DEF e
  <2> QED BY <2>1, InQuotes DEF e
<1>4. la <= lb /\ \A i \in 1..la : a[i] = b[i]
  BY DEF Starts
<1> HIDE DEF q, r, a, b, k, m, la, lb
<1>5. k <= m
  BY <1>2, <1>3, <1>4
<1>6. ASSUME NEW i \in 1..k PROVE q[i] = r[i]
  <2>1. 1 + i \in 1..k + 2 /\ i \in 1..m
    BY <1>2, <1>3, <1>5
  <2>2. a[1 + i] = b[1 + i]
    BY <1>2, <1>4, <2>1
  <2> QED BY <1>2, <1>3, <2>1, <2>2
<1>7. Starts(q, r)
  BY <1>5, <1>6 DEF Starts, k, m
<1> QED BY <1>7, QuotedTextEnds DEF q, r, UpToMark

LEMMA NeitherMarked ==
  ASSUME NEW e \in Seq(Character), NEW f \in Seq(Character),
         ~Holds(e, Marks), ~Holds(f, Marks), Starts(Plain(e), Plain(f))
  PROVE  e = f
<1> DEFINE a == Plain(e)
           b == Plain(f)
           k == Len(e)
           m == Len(f)
           la == Len(a)
           lb == Len(b)
<1>1. k \in Nat /\ la = k + 1 /\ (\A i \in 1..k : a[i] = e[i]) /\ a[k + 1] = Space
  BY Unquoted
<1>2. m \in Nat /\ lb = m + 1 /\ \A i \in 1..m : b[i] = f[i]
  BY Unquoted
<1>3. la <= lb /\ \A i \in 1..la : a[i] = b[i]
  BY DEF Starts
<1>4. \A i \in 1..m : f[i] # Space
  BY NoMark
<1> HIDE DEF a, b, k, m, la, lb
<1>5. k = m
  <2> SUFFICES ASSUME k # m PROVE FALSE
    OBVIOUS
  <2>1. k + 1 \in 1..m /\ k + 1 \in 1..k + 1
    BY <1>1, <1>2, <1>3
  <2> QED BY <1>1, <1>2, <1>3, <1>4, <2>1
<1>6. ASSUME NEW i \in 1..k PROVE e[i] = f[i]
  <2>1. i \in 1..k + 1 /\ i \in 1..m
    BY <1>1, <1>5
  <2> QED BY <1>1, <1>2, <1>3, <2>1
<1> QED BY <1>5, <1>6, SameSequence DEF k, m

LEMMA OneMarked ==
  ASSUME NEW c \in Seq(Character), NEW d \in Seq(Character)
  PROVE  /\ ~Starts(Marked(Escaped(c)), Plain(Escaped(d)))
         /\ ~Starts(Plain(Escaped(d)), Marked(Escaped(c)))
<1> DEFINE a == Marked(Escaped(c))
           b == Plain(Escaped(d))
           q == UpToMark(Escaped(c))
<1>1. Escaped(c) \in Seq(Character) /\ Escaped(d) \in Seq(Character)
  BY EscapedIs
<1>2. Len(q) \in Nat /\ Len(a) = Len(q) + 2 /\ a[1] = Quotation
  BY <1>1, InQuotes
<1>3. b[1] # Quotation /\ Len(b) >= 1
  BY PlainFirst
<1>4. b \in Seq(Character)
  BY <1>1, Unquoted
<1> HIDE DEF a, b, q
<1>5. 1 \in 1..Len(a) /\ 1 \in 1..Len(b)
  BY <1>2, <1>3, <1>4
<1>6. ~Starts(a, b) /\ ~Starts(b, a)
  BY <1>2, <1>3, <1>5 DEF Starts
<1> QED BY <1>6 DEF a, b

(* Two printed values, each with the space that ends it: where one is the  *)
(* beginning of the other, the texts are the same.                         *)
LEMMA PrintedApart ==
  ASSUME NEW u \in Texts \union Reason, NEW v \in Texts \union Reason,
         IsPrefix(Quoted(u) \o <<" ">>, Quoted(v) \o <<" ">>)
  PROVE  u = v
<1> DEFINE c == Spelling(u)
           d == Spelling(v)
           e == Escaped(c)
           f == Escaped(d)
           a == IF Holds(e, Marks) THEN Marked(e) ELSE Plain(e)
           b == IF Holds(f, Marks) THEN Marked(f) ELSE Plain(f)
<1>1. c \in Seq(Character) /\ d \in Seq(Character)
  BY SpellingFacts
<1>2. e \in Seq(Character) /\ f \in Seq(Character)
  BY <1>1, EscapedIs
<1>3. IsPrefix(a, b)
  <2>1. /\ Quoted(u) = IF Holds(e, Marks) THEN <<Quotation>> \o e \o <<Quotation>> ELSE e
        /\ Quoted(v) = IF Holds(f, Marks) THEN <<Quotation>> \o f \o <<Quotation>> ELSE f
    BY QuotedIs
  <2> HIDE DEF e, f
  <2>2. Quoted(u) \o <<" ">> = a
    BY <2>1, Zenon DEF Marked, Plain, Space
  <2>3. Quoted(v) \o <<" ">> = b
    BY <2>1, Zenon DEF Marked, Plain, Space
  <2> QED BY <2>2, <2>3, Zenon
<1>4. Starts(a, b)
  <2>1. a \in Seq(Character)
    <3> HIDE DEF e
    <3> QED BY <1>2, InQuotes, Unquoted
  <2>2. b \in Seq(Character)
    <3> HIDE DEF f
    <3> QED BY <1>2, InQuotes, Unquoted
  <2> HIDE DEF a, b
  <2> QED BY <1>3, <2>1, <2>2, PrefixStarts
<1>5. c = d
  <2>1. CASE Holds(e, Marks) /\ Holds(f, Marks)
    BY <1>1, <1>4, <2>1, BothMarked
  <2>2. CASE ~Holds(e, Marks) /\ ~Holds(f, Marks)
    <3>1. e = f
      <4> HIDE DEF e, f
      <4> QED BY <1>2, <1>4, <2>2, NeitherMarked
    <3> DEFINE q == UpToMark(e)
    <3>2. q \in Seq(Character)
      <4> HIDE DEF e
      <4> QED BY <1>2, InQuotes
    <3>3. Starts(q, q)
      <4> HIDE DEF q
      <4> QED BY <3>2, SameStarts
    <3>4. Starts(e \o <<Quotation>>, f \o <<Quotation>>)
      <4> HIDE DEF e, f
      <4> QED BY <3>1, <3>3, Zenon DEF UpToMark
    <3> HIDE DEF c, d
    <3> QED BY <1>1, <3>4, QuotedTextEnds
  <2>3. CASE ~(Holds(e, Marks) <=> Holds(f, Marks))
    <3> HIDE DEF c, d
    <3> QED BY <1>1, <1>4, <2>3, OneMarked
  <2> QED BY <2>1, <2>2, <2>3
<1> QED BY <1>5, SpellingFacts

LEMMA LoggedTextsKnown == LogInv => LoggedTexts \subseteq Texts \union Reason
<1> SUFFICES ASSUME LogInv, NEW i \in DOMAIN textLog, NEW t \in FreeTexts(textLog[i])
             PROVE  t \in Texts \union Reason
  BY DEF LoggedTexts
<1> DEFINE e == textLog[i]
<1>1. e \in Event
  BY DEF LogInv
<1> HIDE DEF e
<1>2. t \in FreeTexts(e)
  BY DEF e
<1>3. CASE e.event = "step_attempt"
  <2>1. t = e.error
    BY <1>2, <1>3 DEF FreeTexts
  <2>2. e.error \in Texts
    BY <1>1, <1>3 DEF Event
  <2> QED BY <2>1, <2>2
<1>4. CASE e.event = "escalation"
  <2>1. t = e.reason
    BY <1>2, <1>4 DEF FreeTexts
  <2>2. e.reason \in Reason
    BY <1>1, <1>4 DEF Event
  <2> QED BY <2>1, <2>2
<1>5. CASE e.event \notin {"step_attempt", "escalation"}
  BY <1>2, <1>5 DEF FreeTexts
<1> QED BY <1>3, <1>4, <1>5

(* Where a value ends and what it was can be read off the text log,        *)
(* whatever the commands printed: no printed value, with the space that    *)
(* ends it, is the beginning of another one's.                             *)
THEOREM LogReadsBack == CommandSpec => []FieldsReadBack
<1>1. EngineInv => FieldsReadBack
  <2>1. EngineInv => PrintedTexts \subseteq Texts \union Reason
    BY LoggedTextsKnown DEF EngineInv, PrintedTexts
  <2> QED BY <2>1, PrintedApart DEF FieldsReadBack
<1> QED BY <1>1, EngineInvInit, EngineInvNext, PTL DEF CommandSpec
=============================================================================
