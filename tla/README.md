# FailWarden Orchestrator: TLA+ specifications and proofs

`fwo run` takes a YAML runbook, compiles it into an immutable graph of steps and
walks that graph against one host over SSH: each ssh step is tried `1 + retries`
times, then branches to its `on_success` or `on_failure` step, until an `end` or an
`escalate` step. On the way it writes every attempt to a SQLite store and to two log
files, and an escalation notifies humans by Slack and mail. What makes this hard is
not the walk but that its effects go to five places (the target, the store, two
files, the notification services) which nothing updates together, while the process
may die, an executor or a notifier may fail or raise, and other processes read and
initialise the same database.

Paths below are relative to `src/failwarden_orchestrator/` unless they name `docs/`
or a file of the repository's root.

## Inventory

| Component | Source | State | Operations | Interacts by |
|---|---|---|---|---|
| Compiler | `compiler.py`, `validation.py`, `schema/` | none kept | load YAML, schema issues, semantic issues, render templates, build model | returns a `CompiledRunbook` or raises `RunbookValidationError` |
| Runbook model | `models.py` | immutable graph of steps | none | input of the engine |
| Engine | `engine.py` | `step_path`, `attempts`, `dry_run_branch_map`, `current_step_id`, `last_failure_reason`, `final_status`, attempt number | `run`, `_run_ssh_step`, `_run_escalation`, `_send_notifier`, `_record_notification`, `_matches_expectation` | calls executor, store, logger, notifiers, in one thread |
| SSH executor | `executors/` | one connection per attempt | `execute` | paramiko's channel, the remote command |
| Audit store | `persistence.py` | tables `schema_version`, `executions`, `step_attempts`, `notifications` | `initialize`, four `record_*`, `get_execution`, two `list_*` | one SQLite file, shared by all processes |
| Audit log | `audit.py` | `<id>.log`, `<id>.jsonl` | five `log_*`, all through `_write_event` | two files per execution |
| Run summary | `reporting.py` | none kept | `build_run_summary`, `write_run_summary_json` | three queries and two file lookups, from any process |
| Notifiers | `notifiers/` | none kept | `send` of Slack and of mail | HTTP webhook, SMTP; called by the engine, one after the other |
| Command line | `cli.py` | exit status | `compile`, `run`, `show-run` | builds all of the above, runs them in one process, turns exceptions into a status |

What makes each correct, and where it is hard:

* **Engine.** No attempt twice, none beyond the budget, retries spaced, a reason that
  is that of the latest failure, a dry run that touches nothing. Hard: the loop has no
  bound of its own, its termination rests on the compiler; a cut-off between an
  effect and its record; faults in the middle of a fan-out.
* **Store and logs.** At any moment a legal prefix of a run, the three records one
  event apart at most, nothing rewritten. Hard: crashes between writes that belong
  together.
* **Run summary.** Complete whenever it shows a final status; attempts in order. Hard:
  not one transaction, runs beside the engine, timestamps have seconds and come from a
  clock that may be set back.
* **Schema creation.** Whoever gets through can write; processes of one release leave a
  foreign database alone. Hard: statements commit one by one, several processes at once,
  of different releases perhaps, crashes.
* **SSH executor.** A status comes with all the output; a retry does not overlap its
  predecessor; an attempt returns. Hard: the order of exit status, output and close
  is the remote side's, the channel's window couples output and termination.
* **Semantic validation.** Accepts exactly the acyclic, closed, connected graphs. Hard:
  two hand-written graph searches over sets, whose order of iteration is arbitrary, one of
  them recursive.
* **Template rendering.** A compiled field says what its variables mean, whatever the
  order they are written in; one compilation names every faulty text. Hard: three
  sources of a name shadow one another, and the variables are rendered while they are
  used.
* **Notifiers.** What a row says of a notifier is what its receivers saw; nobody is told
  twice. Hard: the answer of a service may be late or lost, or cover some recipients.
* **Log lines.** A line can be read back although remote output is part of it. Hard:
  escapes, quotation marks and line breaks in that output.
* **Command line.** The exit status agrees with the records. Hard: six preparations and
  three kinds of output may fail around a run whose effects cannot be undone.

The full list of hazards, with the line where each bites and the properties that
cover it, is under `hazards` in `PROJECT.json`.

## Modules

| Module | What it holds |
|---|---|
| `Runbook` | Compiled runbooks and the rules the compiler enforces, as operators on a graph (`TargetsExist`, `Acyclic`, `AllReachable`) |
| `AuditStore` | The rows of one execution and the four `record_*` transactions |
| `AuditLog` | The events and the two appends of `_write_event` |
| `Engine` | One `run`: every step of the loop, retries, escalation, and the faults around it. Extends the three above and shares their variables |
| `RunLedger` | Abstract specification of the audit database: its three tables alone, no program counter |
| `EngineProperties` | The invariants and action properties of the engine, and the instance of `RunLedger` it implements |
| `Reporting` | The engine composed with a reader in a process of its own |
| `StoreSetup` | `initialize` by several processes on one file |
| `SSHExecutor` | One `execute` and the remote side it meets |
| `SemanticCheck` | `_semantic_issues`: duplicates, targets, depth-first search, worklist |
| `Templates` | The two passes of `_render_templates`: variables, then fields, and their issues |
| `Compiler` | `compile_file`: loading, the three collections of issues, rendering, the result. Extends the two above |
| `Notifiers` | The two `send` methods as conversations with their services. Extends `Engine` |
| `Cli` | One `fwo compile` or `fwo run` from its arguments to its exit status. Extends `Notifiers` |
| `LogLine` | How `audit.py` prints the fields of `<id>.log` that hold any text |
| `EngineProofs` | The inductive invariant of the engine; refinement, path, budget, attempts in doubt, the way to the end |
| `EngineRecordProofs` | Typing of every variable, notifications, spacing of retries, nothing rewritten, the reason told, dry runs, the result returned, the agreement of the three records |
| `ReportingProofs` | What a summary read beside a run says of it |
| `CompilerProofs` | The graph searches, the rendering, what is accepted |
| `CommandProofs` | The command runs the engine; exit status, rows and receivers agree; log lines can be read back |
| `SSHExecutorProofs`, `StoreSetupProofs` | Theorems about those two |
| `SequenceLemmas` | Induction over the naturals, and what flattening a sequence of sequences returns |
| `MC*` | Values of the constants for TLC |

How they compose: `Compiler` runs `SemanticCheck` and `Templates` one after the other,
as `compile_dict` does, and shows that a document is accepted exactly when it is
sound; `Engine` takes `CompiledRunbook`s that satisfy `Compiled`, which is the graph
part of that (`SemanticCheck` instantiates `Runbook` for its reference). `Engine` takes
any result of an executor and any exception; `SSHExecutor` says which of them one
execute produces and when. `Reporting` adds a reader to `Engine` without changing it.
`Notifiers` replaces the one step `SendNotifier` by a conversation, which ends in
that step with one of its three outcomes: the engine's steps are therefore `OwnStep`
or `SendNotifier`, and `Notifiers` takes `OwnStep` as it is. `Cli` puts that engine
between the preparations of a command and its output; `CommandRunsEngine` is the
theorem that it is still the engine.

### Engine and the code

An action ends where the process calls out: a transaction, a file append, a command,
a notifier. Those are the points at which another process, a crash or an exception
can be seen; what the code computes between two of them is part of one action. `pc`
names the call that comes next:

| `pc` | Actions | Code |
|---|---|---|
| `record_start`, `record_end` | `RecordStart`, `RecordEnd` | `engine.py` 72-86, 180-191 |
| `dispatch` | `DispatchDryRun`, `DispatchSSH`, `DispatchEscalate`, `DispatchEnd` | 92-103, 138-144, 151-162, 173-175 |
| `execute` | `Execute`, `ExecutorRaises` | 211-226 |
| `record_attempt` | `RecordAttempt` | 228-259 |
| `branch` | `FollowSimulated`, `FollowSuccess`, `Retry`, `FollowFailure` | 135, 261-269 |
| `notify`, `record_notification` | `SendNotifier`, `RecordNotificationResult`, `FinishEscalation` | 299-358, 163-171 |
| `write_text`, `write_jsonl` | `WriteText`, `WriteJsonl` | `audit.py` 146-171 |

Variables carry the names of the code's locals, or say in their declaration which
local they are. `calls` and `sends` are not state of the program: they are what the
target and the notification services saw, kept so that the records can be compared
with them. Texts are abstract: an expectation is the set of texts that meet it, and
`NoText` is both `None` and the empty string, which the engine treats alike. `now` has
two parts: the time that passes, which sleeping adds to, and what the wall clock shows
of it, which `Tick` may set to anything, as `datetime.now` may; the timestamps in rows are
of the second, the spacing of retries is measured by the first. The two `RuntimeError`s
of `engine.py` (177, 272) have no action, because no compiled runbook leads to them. Some
definitions are preceded by one whose comment begins "A slip": the same code with a
plausible mistake in it. No specification uses them. They record, for every
property, a mistake it catches (`mutants` in `PROJECT.json`).

### The notifiers, the command and the code

A `send` is cut where the client waits for the service: after the request, after the
recipients, after the data, after the goodbye. `link` says where it stands, `inbox`
and `trouble` are not state of the program: what the receivers saw, and which notifier
was failed by its service or network. `Cli` has one action for each thing the command
does, in its order; `cpc` names the one that comes next:

| `cpc` | Actions | Code |
|---|---|---|
| `parse_vars`, `compile` | `ParseVars`, `Compile`, `CompileOnly` | `cli.py` `parse_vars`, `cmd_compile`, the head of `cmd_run` |
| `open_store`, `open_log`, `build_executor`, `build_notifiers` | those of that name | `cmd_run`, `build_notifiers_from_env` |
| `engine` | `RunEngine`, `FailEngine`, `EngineReturns`, `EngineRaises`, `EngineDies` | `engine.run` and what `main` makes of its exceptions |
| `build_summary`, `open_artifact`, `fill_artifact` | those of that name | `reporting.py`, `cmd_run` |
| `print` | `PrintResult` | the output of both commands, flushed at the end |

The errors and destinations a notifier returns, and the names of the runbook and the
target, are in no variable: where `LogLine` asks what is printed, they are any text.

### The executor and the code

`at` names the call of `execute` that comes next. The command is a number of chunks it
writes to either stream, an exit status, or -1 if a signal kills it, and whether it
ends at all. `link` is `up`, `lost`, which the client notices, or `silent`, where nothing
comes through and the client notices nothing; `ConnectionLost` may end a silence, and
nothing requires it. The exit status and the end of the streams arrive separately
(`ReportExit`, `CloseStreams`), and what has not arrived when the connection is lost never
does: `recv_exit_status` then gives -1 also of a command that ended well.

### The setup and the code

Each process has a `release`, its `SCHEMA_VERSION`; another release is taken to run the
same statements. Two releases on one new file do mix versions, since the version is
looked for and inserted by two statements; `OneVersionOnly` is about processes of one
release, `ReadyMeansUsable` about any mix of them.

### The compiler and the code

A text is a sequence of pieces: a reference to a variable, markup jinja cannot parse, or
anything else. `Templates` renders one text per step, in the code's order and with the
code's precedence (`VariableContext` for variables, `renderedVars` before `runtime` for fields). `SemanticCheck` leaves the order in
which sets are iterated open, and counts the calls of the recursive search up to
`MaxDepth`, where Python raises.

## Runs

| Run | Question | Bounds |
|---|---|---|
| `engine_graphs` | Are the records right on every small graph, whatever happens; does every step lead towards the end; are retries spaced; does the inductive invariant hold? | Every accepted branching of two ssh steps, or of one with up to 2 attempts, over an end and an escalation, and the shape of the shipped runbooks (restart, verify, escalate) with 1 to 3 attempts and delays of 1 and 2; one tick beside the sleeps, which sets the wall clock to 0 or 1; two exit statuses, two texts; two notifiers; real and dry; crash and fault at every point |
| `engine_captured` | Is every attempt captured (ARCHITECTURE.md)? **No.** | The shipped shape of the above, one notifier |
| `reporting` | Is a summary read beside a run right? | Two ssh steps, with two attempts each at once or up to three of the first a second apart, one tick beside the sleeps, which sets the wall clock to 0 or 1, two notifiers, a reader that starts at any moment |
| `setup` | Does concurrent, interrupted initialisation leave a usable store? | Three processes, each of one of two releases, every file an earlier attempt may have left, the databases of both |
| `setup_rows` | Is `schema_version` single-row (docs/audit-model.md)? **No.** | The same |
| `ssh_execute` | Is the status and output of an attempt whole, does a retry overlap? | Up to two chunks per stream, a window of two, a pipe of one; the command may end, be killed, hang or leave a child; the connection may break or fall silent at any moment |
| `ssh_timeout` | Does an attempt have a timeout (ssh.py:50)? **No.** | The same |
| `compile` | Does a compilation accept exactly the sound documents, render what is meant, name every fault, and end? | All graphs of three steps, those of two with repeated ids and missing targets or entries, chains and cycles around a recursion limit of four calls, two variables in both orders with six values each, three sets of `--var`, every key with forbidden markup, and the channel of an escalation; every order of iteration |
| `compile_rendered` | Is a compiled runbook fully rendered (models.py:73)? **No.** | The documents with templates of the above |
| `compile_allowlist` | Is there markup in the template-capable fields only (docs/schema.md:105)? **No.** | Those with two steps, and those with markup elsewhere |
| `command` | Do exit status, rows, logs and receivers agree for a whole process; can a line be read back; does it end if its attempts do? | One ssh step tried twice, or an escalation at once; both notifiers, six settings, two recipients; every refusal, late answer and partial acceptance; a kill, a fault and an exception at every point |
| `log_lines` | Is there one event per line (docs/audit-model.md:60)? **No.** | The same with an error of two lines |

Why these bounds are enough to be interesting: two ssh steps are the least for a reason to
become stale, a failure to be followed by a success, and a branch to skip a step; two
notifiers are the least for one to fail beside another; three attempts are the least
for a retry that is neither the first nor the last. Two chunks with a window of two let
a command fill the window with both streams; a graph of three steps has diamonds,
cycles of every length up to three and unreachable parts. Three initialising processes have
one that finds the tables of another made by a third. Two variables are the least for one
to be used before it is rendered, two recipients the least for a mail to reach some.
In `command` both notifiers are configured: without one, the command behaves as with a
setting that declines, and the theorems hold of every list `build_notifiers_from_env`
may build. The theorems below remove the bounds for the properties that matter most.

`MaxClock` bounds the ticks and what the wall clock is set to, `MaxChunks` what a command writes,
`MaxDepth` stands for Python's recursion limit, `MaxRetryDelay` is the schema's.
Deadlock is checked everywhere but in the ssh runs, where a command that hangs
really stops everything; finished states have an explicit stuttering action.

### What the failing runs show

* `engine_captured`. The row of an attempt is written after the command has returned, and
  nothing catches an exception in between; an `EOFError` from paramiko or a store that
  refuses the row ends the run with an attempt nobody recorded. `InDoubtAtMostOne` says
  how much can be missing: one attempt.
* `setup_rows`. Two processes that initialise a new database together write two version
  rows. It does no harm as long as both are of one release, whose version both rows
  then have (`OneVersionOnly`).
* `ssh_timeout`. The timeout handed to `exec_command` is that of the channel's reads,
  and the code waits for the exit status before it reads. A command that hangs or fills
  the window, or a connection that falls silent, stops the run for good;
  `SmallCommandReturns` says what does return.
* `compile_rendered`. Variables are rendered with the raw values of the others, so one that
  names a variable which itself holds a reference, or that names itself, brings template
  text into a field of the compiled runbook, to be run as a command.
  `PlainVariablesRenderFully` says when none is left, `FieldsSayWhatTheyMean` that what comes
  out does at least not depend on the order of the file.
* `compile_allowlist`. The documents list the fields that may hold templates, and say that
  a template in any other is refused; the code looks at eight keys of a step. Markup in the
  channel of an escalation, or in an address, is compiled as it stands. `AcceptedExactly` is
  about what the code does look at.
* `log_lines`. `_quote` puts quotation marks around a text with a line break and keeps the
  break, so an event with the error output of a command takes as many lines as that has.
  `FieldsReadBack` says what the quoting does achieve.

## Fairness

* `Engine`: none. Whether a run goes on is not its own affair: `execute` need not return
  (`ssh_timeout`). What the engine does contribute to its end is stated without fairness:
  `RunAdvances` has every step that does not fail lower a triple of naturals, so a run can
  wait for an answer and cannot go on for ever.
* `SSHExecutor`: weak fairness of the client's own steps and of the remote command, which
  writes and ends as far as the window lets it. Not of `CloseStreams` (a child may keep
  the streams for ever), of `Partition` or of `ConnectionLost`; `SmallCommandReturns` is
  about connections that do not stay silent.
* `Compiler`: `WF_compileVars(CompileStep)`, the compilation being one sequential function;
  so `CompileEnds` rests on the searches, not on the scheduler.
* `Cli`: weak fairness of `CommandStep` except where it is the answer of `execute`. The
  process goes on while it is not killed, and every service and every write answers or
  fails; the notifiers do have timeouts (slack.py:63, email.py:53), the executor has none.
  `CommandEnds` is therefore about commands whose attempts end, however they end.
* `StoreSetup`, `Reporting`: none; their properties are safety properties.

## Proofs

All theorems are about every value of the constants: any set of runbooks that satisfy
`Compiled` (any number of steps), any notifiers, exit statuses, texts and, in
`StoreSetup`, any number of processes, in `Reporting` any interleaving of the reader, and in
`Compiler` documents of any size. The assumptions are those of the modules:
`DataAssumption` (None is no exit status), `RunbooksAssumption` (the engine is given
compiled runbooks; `compile` is the check of it), `NotifiersAssumption` (the
notifiers are a finite list, as a runbook is a finite set of steps), `StepsAssumption` and `TextsAssumption` (the steps, variables
and texts of a document are lists, and no two of its variables share a name),
`PieceAssumption` (names of variables are not markup), `DepthAssumption` (the recursion
limit is a positive number), `CharactersAssumption`
(two texts differ in their characters, and the text `null`, which is printed as None is, is
not among them), `SetupAssumption` (the foreign version is not ours),
`ChannelAssumption` (the sizes of window, pipe and output), `SetupsAssumption` (mail goes
to recipients, which the Slack channel is not) and `BuiltAssumption` (the command builds
at most one notifier of each kind, Slack first).

| Theorem | States |
|---|---|
| `PointsAndRecordsAgree` | `Inv`, the inductive invariant |
| `Typing` | `TypeOK` |
| `RunsAdvance` | `RunAdvances` |
| `EngineImplementsLedger` | The engine implements `RunLedger` |
| `SimplePaths` | `PathIsSimple` |
| `AtMostOneInDoubt` | `InDoubtAtMostOne` |
| `BudgetKept` | `RetryBudget` |
| `NotificationsRecorded`, `EveryNotifierTold` | `NotificationInDoubtAtMostOne`, `EscalationFanOut` |
| `AttemptsSpaced` | `RetrySpacing` |
| `RecordsKept` | `AppendOnly` |
| `RecordsAgree` | `AuditPrefix` |
| `LatestFailureTold` | `ReasonIsLatestFailure` |
| `DryRunsOnlyLook` | `DryRunInert` |
| `ResultRecorded` | `ResultAgreesWithRecords` |
| `CommandRunsEngine` | A whole command runs `Engine` |
| `SuccessIsComplete`, `FailedExitHidesNothing` | `ExitZeroMeansDone`, `FailedAfterTheEnd` |
| `NothingWithoutARow` | `NoRecordNoEffect` |
| `RowsAreTrue`, `OnceAtMost`, `HealthyAreTold` | `RowsTellTheTruth`, `ToldAtMostOnce`, `HealthyChannelsAreTold` |
| `LogReadsBack` | `FieldsReadBack` |
| `SummaryComplete`, `AttemptsInOrder` | `FinalSummaryComplete`, `ListedInStepOrder` |
| `CheckTyping`, `VerdictOfTheRules`, `DeepRunbooksOnly` | `CheckTypeOK`, `VerdictIsExact`, `OnlyDeepRunbooksRaise` |
| `RenderingIsMeaning`, `PlainVariables` | `FieldsSayWhatTheyMean`, `PlainVariablesRenderFully` |
| `OneReportIsEnough`, `Acceptance` | `FaultyPlacesReported`, `AcceptedExactly` |
| `SetupKept`, `ReadyStore`, `OneReleaseOneVersion` | `SetupInv`, `ReadyMeansUsable`, `OneVersionOnly` |
| `SSHTyping`, `WholeOutput`, `NoOverlap` | `SSHTypeOK`, `ExitStatusMeansComplete`, `RetryDoesNotOverlap` |

**The invariant of the engine** (`Inv` in `EngineProofs`). `RunTypeOK` is not inductive: that
`cur` stays a step of the runbook after a branch needs that the step is an ssh step, that a
retry stays within eleven attempts needs the branch of the row just written. `Control`
says, for each point of the run, what it knows of the rows: at `execute` the database's
own `Position` is the current step and attempt, at `branch` the row just made is the last
one, at `record_end` the status to come is that of the terminal step. `Point` is `pc`, or,
while an event is on its way to the two files, the point that comes after it; that makes
the file appends stutters of everything else. One lemma per action shows that `Inv` is kept
(`NextInv`). The types of the events and of the sends, the rest of `TypeOK`, follow with
`LogInv` and `StoryInv` in `EngineRecordProofs`: an event is made of the row it tells of.

**The refinement.** `RunLedger` computes where a run stands from the last row alone.
With `Inv` every action that writes a row is the ledger's action of that name, and every
other one a stutter (`LedgerStep`). The ledger's `Position` depends on nothing the process
keeps in memory: this is what lets a reader tell, after a crash, where a run was.

**Simple paths.** `Acyclic` says that no nonempty set of steps has a branch back into the set
from each member. `WalkInv` makes the path a walk; were a step met twice, the steps between
the two meetings would be such a set (`WalkIsSimple`). No induction over the path is needed.

**The budget.** `BudgetInv` relates each call to the attempt under way; that a step's calls
are all of one visit rests on `WalkIsSimple`: no call was made for a step before it is
entered (`EnteredOnce`).

**The way to the end.** `RunAdvances` compares triples lexicographically: steps not yet
entered, tries the step or the escalation has left, place in the code. One lemma per
action says which part it lowers. Entering a step lowers the first because the path is
simple and a runbook finite, a retry the second because the row just written says that one
is left (`Control`), everything else the third.

**Records.** `NoteInv` pairs notifications with sends as `DoubtInv` pairs attempts with
calls. `SpacingInv` carries the earliest moment of the next attempt from the call that is
retried through the sleep to the call that follows. `StoryInv` says which step and reason
the sends of an escalation have. `LogInv` and `Grows` make
every step an extension of all four records; `ClosedIsOver` says that a final status is only
found at the end of a run, after which nothing is written to the store.

**The three records.** `TrailInv` says that the text log, without its escalation event, is the
history the rows tell, event by event, and lacks at most the last of it; while an event is on
its way to the file it says so of the log with that event at its end. `PrefixInv` puts the
JSON log at most one event behind. The rows come in four groups and the log in one sequence,
so the proof is about positions: `Right` gives for each position of the log the row it stands
for (`StoreTrailIs`), and an escalation event is the only one that has none.

**Outcomes.** `ReasonInv` says at each point what `reason` is: that of the last row that
branched `on_failure`. It is stated over the rows, so a success or a retry in between
cannot disturb it. `DryInv` keeps a dry run's path on the `on_success` branches and its
rows beside it. `CountInv`, `StepsInv` and `FilesInv` relate the counter, the path and the
last event, one pending item at a time, to the rows.

**The command.** `EngineOfCommand` maps each step of `Cli` to a step of `Engine` or to a
stutter, so every invariant above holds inside a command too (`EngineInv`). `LengthInv`
counts: the events written and those on their way are those of the rows, one for the start,
one for an escalation, one for the end. `ClosedInv` follows when the row is closed and is
kept because only the last event can still be written. `PlaceInv` says where the command
stands relative to the engine, and `SilentInv` that nobody is told before there is a row.

**The notifiers.** `TellInv` has one part per channel (`SlackInv`, `MailInv`): what the receivers
saw, in terms of the sends that are over and of where the conversation under way stands.
A step of one channel leaves the other's part alone (`SlackFrame`, `MailFrame`). That a
conversation is the first with its channel is `SendingFacts`, from the order of `sends` and
`BuiltAssumption`; that only a kill can come between is `MidwayStays`.

**The log lines.** `_quote` is a code in which no printed text, with the quotation mark that
ends it, is the beginning of another (`QuotedTextEnds`, by induction on the text): a character
is printed as one piece or as two, the first of two is a backslash, and a backslash never
stands alone (`PieceCode`). A printed text never begins with a quotation mark of its own, so
what stands in quotation marks and what does not are told apart by their first character
(`OneMarked`); outside of them no space is printed, so the next space ends the text
(`NeitherMarked`). The texts that reach the log are those of `Texts` and the engine's two
reasons, by `LogInv`.

**The reader.** `CloseInv` says that an execution whose row is closed has all its notifications, one
of each notifier if it was escalated and none otherwise, and a line in either log. The engine
adds no row after that, so whatever the reader looks up after it saw a final status is
complete: `SeenInv` carries each look to the end of the summary. The
order of the list rests on `OrderInv`, an invariant of the engine: rows of one step are
written in the order of their numbers, since no step is entered twice (`EnteredFresh`). A
sort by second and number can therefore not turn two attempts of a step around, unless the
seconds went back between them, which `Forward` excludes.

**The searches.** `SearchInv` is the argument for a recursive depth-first search, said of its
stack: the calls under way are a path without repetition (`CallsFollowBranches`), so there
are no more of them than steps; what a call need not try any more is visited or is the call
above it; and what is visited is closed under branches and free of cycles (`VisitedIsSound`).
Leaving a node keeps that, because a set of steps with a branch back from each member would
have to hold a visited one. A branch to a node that is being visited closes a cycle of the
stack. `WorklistInv` says that what the worklist has met is in every closed set that holds the
entry, and misses no branch of what it has seen; when it is empty, what was seen is the
least such set. `CheckInv` ties both to the phases of the validation.

**The rendering.** `RenderInv` says after each text what the variables, fields and issues so far
are, in terms of the document alone: a variable's value is its `Meaning`, a field is what it
was, with each name replaced by what is used for it, and the issues are those of the faulty
texts. That the pieces of a rendered text are the pieces of what it names is
`FlattenSeqPieces`. `StageInv` says what each outcome means.

**Induction.** The library's induction theorems take a predicate as an operator, which the
provers cannot instantiate. `NatSetInduction` takes the set of numbers the predicate holds of,
and is proved from the fact that inclusion is well founded on finite sets. `FlattenSeq`, which
is a recursive function, has its equations from it (`FlattenSeqEmpty`, `FlattenSeqAppend`,
`FlattenSeqPrepend`).

**The executor.** `SSHInv` adds to the types that chunks are conserved (`left`, `buffer` and
`got` add up to what the command writes), that streams close after all was sent, and what
the client knows at each of its places.

**Setup.** `SetupInv` says which tables a process must have created or seen where it
stands, that a version row means all tables, because it is written last, and that the
versions are those of processes (`Expected`), or one of a release none of them is of,
which lets none of them past `select_version` (`Foreign`).

Only model-checked: liveness (`CommandEnds`, `CompileEnds`, `SmallCommandReturns`),
which is outside what the proof system does with fairness. Every invariant and every action
property that a passing run checks is also a theorem. The inductive invariants were checked
with TLC on the instances of the runs before they were proved.

## Not modelled

* What the JSON schema checks, and the text of issues: the check is one call of a library.
  `Compiler` takes any set of its codes, so the way issues are collected is modelled and
  the issues are not. Peculiarities of YAML likewise.
* jinja beyond the substitution of references and the two errors the compiler names:
  filters, expressions and control structures. The allowlist's markup is a set of keys.
* Building the model classes, beyond what `Compiled` says of the result.
* The wording of notifications and their encodings; redirects. A 2xx answer is
  taken to mean that the webhook has the message. An address listed twice in `email_to`.
* Argument parsing and the layout of printed output; `show-run` is the reader of
  `Reporting`. None and the text `null` are printed alike in a log line, which
  `FieldsReadBack` passes over.
* Ids, durations, and timestamps except where they order rows or space retries; lines
  longer than the file buffer, which a crash can tear.
* Engines without a store or a logger, which only tests build; `KeyboardInterrupt` is a
  crash as far as the records are concerned.
* Several commands beside each other on one target. Their records have different ids and
  share only the schema (`StoreSetup`) and the readers (`Reporting`).

## Plan

Order of the work, most important behaviour first.

1. Done: `Runbook`, `AuditStore`, `AuditLog`, `Engine`, `EngineProperties`, `RunLedger`,
   and the proofs of typing, refinement, simple paths, doubt and budget.
2. Done: `Reporting`, `StoreSetup` with its proofs, `SSHExecutor`, `SemanticCheck`.
3. Done: `Templates` and `Compiler`, `Notifiers`, `Cli`, `LogLine`.
4. Done: the proofs of every invariant and action property, of the engine and its records, the
   command, the notifiers, the log lines, the executor, the reader, the setup and the compiler.
5. Next: `Engine` over `SSHExecutor`: an abstract executor that `SSHExecutor` implements and
   `Engine` uses, to state overlap and hanging for a whole run.
6. Next: measures like that of `RunAdvances` for a command and a compilation, so that what
   is left of their liveness is fairness alone.

## Running

    tlc -workers 2 -config MCEngine_graphs.cfg MCEngine
    tlapm EngineProofs.tla
