-------------------------------- MODULE Cli ----------------------------------
(***************************************************************************)
(* One fwo process (cli.py): what cmd_compile and cmd_run do in order, and *)
(* the status the process exits with.  main turns the exceptions it knows  *)
(* into 2; any other one ends the interpreter with 1, and output that      *)
(* cannot be flushed at its end with 120.                                  *)
(***************************************************************************)
EXTENDS Notifiers

VARIABLES
  args,       \* [command, summary]: the arguments that decide the way
  cpc,        \* where the command stands
  exitCode,   \* the exit status
  artifact    \* the file of --summary-json

cliVars     == <<args, cpc, exitCode, artifact>>
commandVars == <<notifyVars, cliVars>>

Running == 256   \* no exit status yet
Killed  == 137   \* what a shell makes of the signal

Args == [command: {"run"}, summary: BOOLEAN]
          \union [command: {"compile"}, summary: {FALSE}]

CommandInit ==
  /\ Init /\ NotifiersInit
  /\ args \in Args
  /\ cpc = "parse_vars" /\ exitCode = Running /\ artifact = "none"

(* Steps of the command alone.                                             *)
Go(place) == cpc' = place /\ UNCHANGED <<notifyVars, args, exitCode>>

Exit(status) == cpc' = "exited" /\ exitCode' = status /\ UNCHANGED <<notifyVars, args>>

----------------------------------------------------------------------------
(* The sequence of preparations: each is done, or raises what main turns   *)
(* into one of the statuses given.                                         *)

Prepare(place, following, statuses) ==
  /\ cpc = place
  /\ Go(following) \/ \E status \in statuses : Exit(status)
  /\ UNCHANGED artifact

(* An argument without "=" or without a key: ValueError.                   *)
ParseVars == Prepare("parse_vars", "compile", {2})

(* Issues of the runbook, a file that is missing or no YAML: 2; a file     *)
(* that cannot be read, RecursionError and errors of jinja: 1.             *)
CompileFails == {1, 2}

CompileOnly == args.command = "compile" /\ Prepare("compile", "print", CompileFails)

Compile == args.command = "run" /\ Prepare("compile", "open_store", CompileFails)

(* The directory, then initialize: sqlite3.Error, RuntimeError for another *)
(* release, OSError.                                                       *)
OpenStore == Prepare("open_store", "open_log", {1})

OpenLog == Prepare("open_log", "build_executor", {1})

(* ValueError: no password in the environment, a port that is no number.   *)
(* A dry run has an executor that does nothing.                            *)
BuildExecutor == Prepare("build_executor", "build_notifiers", IF dry THEN {} ELSE {2})

BuildNotifiers == Prepare("build_notifiers", "engine", {2})

----------------------------------------------------------------------------
(* engine.run                                                              *)

RunEngine == /\ cpc = "engine"
             /\ EngineStep \/ SendStep
             /\ UNCHANGED cliVars

FailEngine == /\ cpc = "engine"
              /\ EngineFault
              /\ UNCHANGED cliVars

EngineReturns ==
  /\ cpc = "engine" /\ pc = "returned"
  /\ Go(IF args.summary THEN "build_summary" ELSE "print")
  /\ UNCHANGED artifact

(* What run raises leaves cmd_run; a ValueError or a missing directory is  *)
(* 2, anything else 1.                                                     *)
EngineRaises ==
  /\ cpc = "engine" /\ pc = "raised"
  /\ Exit(1) \/ Exit(2)
  /\ UNCHANGED artifact

EngineDies ==
  /\ cpc = "engine" /\ pc = "crashed"
  /\ Exit(Killed)
  /\ UNCHANGED artifact

----------------------------------------------------------------------------
(* build_run_summary and write_run_summary_json: the file is truncated as  *)
(* it is opened, and whole when it is closed.                              *)

(* ValueError if the row is gone; errors of the database.                  *)
BuildSummary == Prepare("build_summary", "open_artifact", {1, 2})

(* FileNotFoundError: the directory went away again.                       *)
OpenArtifact ==
  /\ cpc = "open_artifact"
  /\ \/ Go("fill_artifact") /\ artifact' = "partial"
     \/ (Exit(1) \/ Exit(2)) /\ UNCHANGED artifact

(* A slip: an error of the file is reported and not raised.                *)
FillArtifactQuietly ==
  /\ cpc = "fill_artifact" /\ Go("print")
  /\ artifact' = "complete" \/ UNCHANGED artifact

FillArtifact ==
  /\ cpc = "fill_artifact"
  /\ \/ Go("print") /\ artifact' = "complete"
     \/ Exit(1) /\ UNCHANGED artifact

(* The command is done and returns 0, whatever the final status; only      *)
(* stdout may still fail it, as an OSError, as a character it cannot       *)
(* encode, or at the end of the interpreter.                               *)
PrintResult ==
  /\ cpc = "print"
  /\ \E status \in {0, 1, 2, 120} : Exit(status)
  /\ UNCHANGED artifact

Kill ==
  /\ cpc \notin {"engine", "exited"}
  /\ Exit(Killed)
  /\ UNCHANGED artifact

CommandStep ==
  \/ ParseVars \/ CompileOnly \/ Compile \/ OpenStore \/ OpenLog \/ BuildExecutor \/ BuildNotifiers
  \/ RunEngine \/ EngineReturns \/ EngineRaises \/ EngineDies
  \/ BuildSummary \/ OpenArtifact \/ FillArtifact \/ PrintResult

CommandNext ==
  \/ CommandStep \/ FailEngine \/ Kill
  \/ cpc = "exited" /\ UNCHANGED commandVars

(* The process goes on as long as it is not killed, and every service and  *)
(* every write answers or fails; but a command on the target need not end  *)
(* (SSHExecutor).                                                          *)
CommandSpec ==
  CommandInit /\ [][CommandNext]_commandVars
  /\ WF_commandVars(CommandStep /\ ~(cpc = "engine" /\ pc = "execute"))

----------------------------------------------------------------------------
(* Everything a run has to leave behind.                                   *)
Closed == execution.status \in FinalStatus

RecordsComplete ==
  /\ Closed
  /\ Len(sends) = Len(notifications)
  /\ dry \/ Len(calls) = Len(stepAttempts)
  /\ execution.status = "escalated" => Len(notifications) = Len(Notifiers)

LogsComplete(missing) ==
  LET events == 2 + Len(stepAttempts) + Len(notifications)
                  + (IF execution.status = "escalated" THEN 1 ELSE 0)
  IN events - missing <= Len(jsonlLog) /\ Len(jsonlLog) <= Len(textLog)

(* A run that exits with 0 has done and recorded all of it, in the store,  *)
(* in both logs and in the summary that was asked for; the status is 0 for *)
(* an escalation as for a success (cli.py:352, 365).                       *)
ExitZeroMeansDone ==
  exitCode = 0 /\ args.command = "run" =>
    /\ RecordsComplete /\ LogsComplete(0)
    /\ args.summary => artifact = "complete"

(* A command that ended without a row in the store did nothing elsewhere:  *)
(* no command on the target, no notification, no line of a log, and no     *)
(* summary; "fwo compile" always ends so.  A row is there before anything  *)
(* happens (engine.py:72), and a row of a command that exited with 2       *)
(* before its first event is the only sign of it.                          *)
NoRecordNoEffect ==
  /\ execution = NoExecution =>
       /\ calls = <<>> /\ textLog = <<>> /\ jsonlLog = <<>> /\ artifact = "none"
       /\ \A r \in Receivers : inbox[r] = 0
  /\ args.command = "compile" => execution = NoExecution

(* A failing exit is no sign that the work is undone: if the row says that *)
(* the run is over, everything was done and recorded but, at most, the     *)
(* last event of the logs, the summary and the output; whoever runs it     *)
(* again repeats all of it (cli.py:331, engine.py:180-191).  Nor is a torn *)
(* summary a sign that something is missing elsewhere: not even the last   *)
(* event is (reporting.py:69).                                             *)
FailedAfterTheEnd ==
  Closed \/ artifact # "none" =>
    RecordsComplete /\ LogsComplete(IF artifact = "none" THEN 1 ELSE 0)

(* Every command whose attempts come to an end ends too.                   *)
CommandEnds == (pc = "execute" ~> pc # "execute") => <>(cpc = "exited")
=============================================================================
