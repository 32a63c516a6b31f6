----------------------------- MODULE SSHExecutor -----------------------------
(***************************************************************************)
(* One SSHExecutor.execute (executors/ssh.py) and the remote command it    *)
(* runs.  The client waits for the exit status first and reads stdout and  *)
(* stderr after it; until it reads, the channel takes no more than its     *)
(* window.  The timeout is one of the channel's reads: nothing bounds the  *)
(* wait for the exit status.                                               *)
(*                                                                         *)
(* The remote command and the channel are not code of the repository: they *)
(* are what execute relies on.  Output is counted in chunks.               *)
(***************************************************************************)
EXTENDS Integers

CONSTANTS Window,     \* chunks a channel takes before the client reads any
          Pipe,       \* chunks per stream the server holds for an ended command
          MaxChunks,  \* bound on what a command writes to one stream
          Codes,      \* exit statuses of commands
          NoExit      \* None

ASSUME ChannelAssumption ==
  /\ Window \in Nat \ {0} /\ Pipe \in Nat /\ MaxChunks \in Nat
  /\ Codes \subseteq Nat /\ NoExit \notin Codes \union {-1}

VARIABLES
  command,     \* what the remote command does; fixed
  remote,      \* "idle", "running" or "exited"
  link,        \* "up", "silent" (nothing comes through any more, and the
               \* client has not noticed) or "lost"
  left,        \* left[s]: chunks of s that have not been sent yet
  buffer,      \* buffer[s]: chunks received and not yet read
  eof,         \* the end of the streams has arrived at the client
  arrived,     \* and so has the end of the command
  at,          \* where execute stands
  got,         \* got[s]: chunks read from s
  exitStatus,  \* local variable exit_status
  result       \* the ExecutionResult's exit_status, and where it came from

remoteVars == <<remote, link, left, eof, arrived>>
clientVars == <<at, got, exitStatus, result>>
sshVars == <<command, remoteVars, buffer, clientVars>>

Streams == {"stdout", "stderr"}
Nothing == [s \in Streams |-> 0]

(* code is -1 of a command that a signal kills: no status is sent of it.   *)
Commands == [writes: [Streams -> 0..MaxChunks], code: Codes \union {-1},
             ends: BOOLEAN]

SSHInit ==
  /\ command \in Commands
  /\ remote = "idle" /\ link = "up" /\ eof = FALSE /\ arrived = FALSE
  /\ left = command.writes /\ buffer = Nothing
  /\ at = "connect" /\ got = Nothing /\ exitStatus = NoExit
  /\ result = [exit |-> NoExit, from |-> "none"]

----------------------------------------------------------------------------
(* The remote side (external).                                             *)

Send(s) ==
  /\ remote # "idle" /\ link = "up" /\ left[s] > 0
  /\ buffer["stdout"] + buffer["stderr"] < Window
  /\ left' = [left EXCEPT ![s] = @ - 1]
  /\ buffer' = [buffer EXCEPT ![s] = @ + 1]
  /\ UNCHANGED <<command, remote, link, eof, arrived, clientVars>>

(* A command can end once what it wrote last fits the server's pipes,      *)
(* whatever became of the connection.                                      *)
Exit ==
  /\ remote = "running" /\ command.ends
  /\ \A s \in Streams : left[s] <= Pipe
  /\ remote' = "exited"
  /\ UNCHANGED <<command, link, left, eof, arrived, buffer, clientVars>>

(* A child the command leaves behind may keep the streams open for ever.   *)
CloseStreams ==
  /\ remote = "exited" /\ link = "up" /\ left = Nothing /\ ~eof
  /\ eof' = TRUE
  /\ UNCHANGED <<command, remote, link, left, arrived, buffer, clientVars>>

(* The status, or without one the close of the channel, which comes last.  *)
ReportExit ==
  /\ remote = "exited" /\ link = "up" /\ ~arrived
  /\ command.code = -1 => eof
  /\ arrived' = TRUE
  /\ UNCHANGED <<command, remote, link, left, eof, buffer, clientVars>>

Partition ==
  /\ at # "connect" /\ link = "up"
  /\ link' = "silent"
  /\ UNCHANGED <<command, remote, left, eof, arrived, buffer, clientVars>>

ConnectionLost ==
  /\ at # "connect" /\ link # "lost"
  /\ link' = "lost"
  /\ UNCHANGED <<command, remote, left, eof, arrived, buffer, clientVars>>

----------------------------------------------------------------------------
(* execute                                                                 *)

Return(exit, from) == result' = [exit |-> exit, from |-> from] /\ at' = "returned"

(* SSHException, TimeoutError and OSError become a failure result.  Any    *)
(* other exception, such as the EOFError of a transport that died, is left *)
(* to the caller.                                                          *)
TransportFailure(from) == Return(NoExit, from)

Connect ==
  /\ at = "connect"
  /\ \/ at' = "exec" /\ UNCHANGED result
     \/ TransportFailure("connect")
     \/ at' = "raised" /\ UNCHANGED result
  /\ UNCHANGED <<command, remoteVars, buffer, got, exitStatus>>

(* A request to execute that is refused starts nothing, and the client     *)
(* closes the connection; one whose connection breaks may have started the *)
(* command all the same.  No answer comes through a silent link.           *)
ExecCommand ==
  /\ at = "exec" /\ link # "silent"
  /\ \/ /\ at' = "recv_exit_status" /\ link = "up"
        /\ remote' = "running" /\ UNCHANGED <<result, link>>
     \/ /\ TransportFailure("exec") \/ (at' = "raised" /\ UNCHANGED result)
        /\ remote' \in {"idle", "running"} /\ link' = "lost"
  /\ UNCHANGED <<command, left, eof, arrived, buffer, got, exitStatus>>

(* A slip: the wait for the exit status is given up after a time.          *)
RecvExitStatusOrGiveUp ==
  /\ at = "recv_exit_status"
  /\ \/ /\ arrived /\ exitStatus' = command.code
        /\ at' = "stdout" /\ UNCHANGED result
     \/ TransportFailure("timeout") /\ UNCHANGED exitStatus
  /\ UNCHANGED <<command, remoteVars, buffer, got>>

(* -1 when the channel closed without an exit status                       *)
RecvExitStatus ==
  /\ at = "recv_exit_status" /\ (arrived \/ link = "lost")
  /\ exitStatus' = IF arrived THEN command.code ELSE -1
  /\ at' = "stdout"
  /\ UNCHANGED <<command, remoteVars, buffer, got, result>>

(* A slip: a chunk is read again.                                          *)
Reread(s) ==
  /\ at = s /\ buffer[s] > 0
  /\ got' = [got EXCEPT ![s] = @ + 1]
  /\ UNCHANGED <<command, remoteVars, buffer, at, exitStatus, result>>

Read(s) ==
  /\ at = s /\ buffer[s] > 0
  /\ buffer' = [buffer EXCEPT ![s] = @ - 1]
  /\ got' = [got EXCEPT ![s] = @ + 1]
  /\ UNCHANGED <<command, remoteVars, at, exitStatus, result>>

(* A slip: what has arrived is taken for all there is.                     *)
ReadWhatIsThere(s) ==
  /\ at = s /\ buffer[s] = 0
  /\ IF s = "stdout" THEN at' = "stderr" /\ UNCHANGED result
                     ELSE Return(exitStatus, "command")
  /\ UNCHANGED <<command, remoteVars, buffer, got, exitStatus>>

ReadToEnd(s) ==
  /\ at = s /\ buffer[s] = 0 /\ (eof \/ link = "lost")
  /\ IF s = "stdout" THEN at' = "stderr" /\ UNCHANGED result
                     ELSE Return(exitStatus, "command")
  /\ UNCHANGED <<command, remoteVars, buffer, got, exitStatus>>

(* A slip: the timeout is set on the reads of stderr alone.                *)
StderrTimeout(s) ==
  /\ at = s /\ s = "stderr" /\ buffer[s] = 0 /\ ~(eof \/ link = "lost")
  /\ TransportFailure("timeout")
  /\ UNCHANGED <<command, remoteVars, buffer, got, exitStatus>>

(* Nothing came for "timeout" seconds.                                     *)
ReadTimeout(s) ==
  /\ at = s /\ buffer[s] = 0 /\ ~(eof \/ link = "lost")
  /\ TransportFailure("timeout")
  /\ UNCHANGED <<command, remoteVars, buffer, got, exitStatus>>

Remote == (\E s \in Streams : Send(s)) \/ Exit \/ ReportExit

Client == \/ Connect \/ ExecCommand \/ RecvExitStatus
          \/ \E s \in Streams : Read(s) \/ ReadToEnd(s) \/ ReadTimeout(s)

SSHNext == Client \/ Remote \/ CloseStreams \/ Partition \/ ConnectionLost

(* The client's threads run, and the command makes what progress the       *)
(* window allows.  A child need never close, a connection need not break.  *)
SSHSpec == SSHInit /\ [][SSHNext]_sshVars
           /\ WF_sshVars(Client) /\ WF_sshVars(Remote)

----------------------------------------------------------------------------
Returned == at \in {"returned", "raised"}

(* Types of the executor's state; the channel never holds more than its    *)
(* window.                                                                 *)
SSHTypeOK ==
  /\ command \in Commands
  /\ remote \in {"idle", "running", "exited"} /\ link \in {"up", "silent", "lost"}
  /\ eof \in BOOLEAN /\ arrived \in BOOLEAN
  /\ left \in [Streams -> 0..MaxChunks] /\ got \in [Streams -> 0..MaxChunks]
  /\ buffer \in [Streams -> 0..Window]
  /\ buffer["stdout"] + buffer["stderr"] <= Window
  /\ at \in Streams \union {"connect", "exec", "recv_exit_status", "returned", "raised"}
  /\ exitStatus \in Codes \union {-1, NoExit}
  /\ result.exit \in Codes \union {-1, NoExit}

(* An exit status other than -1 is that of a command that ran to its end,  *)
(* and unless the connection broke it comes with all the command wrote:    *)
(* expectations are not matched against a part of the output, although the *)
(* status is received before the output is (ssh.py:75-77).                 *)
ExitStatusMeansComplete ==
  at = "returned" /\ result.exit \in Codes =>
    /\ remote = "exited" /\ result.exit = command.code
    /\ got = command.writes \/ link = "lost"

(* When execute gives up, the command is no longer running, unless the     *)
(* connection broke: the timeout only ever fires after the exit status     *)
(* arrived, so that a retry does not run beside its predecessor            *)
(* (ssh.py:75, engine.py:213).                                             *)
RetryDoesNotOverlap == Returned /\ remote = "running" => link = "lost"

(* A command that exits with a status and writes no more than the window   *)
(* returns, also one that leaves a child behind: there the read timeout    *)
(* helps.  A break of the connection must be noticed at some time: a link  *)
(* that stays silent is waited on for ever (ssh.py:75).                    *)
SmallCommandReturns ==
  (/\ command.ends /\ command.code # -1
   /\ command.writes["stdout"] + command.writes["stderr"] <= Window
   /\ []<>(link # "silent"))
  => <>Returned

(* ssh.py:50: "Run one command over SSH with per-attempt timeout."         *)
AttemptReturns == <>Returned
=============================================================================
