-------------------------- MODULE SSHExecutorProofs --------------------------
(***************************************************************************)
(* Proofs about SSHExecutor, for every window, pipe, set of exit statuses  *)
(* and bound on the output.                                                *)
(***************************************************************************)
EXTENDS SSHExecutor, TLAPS

(* No chunk is lost on the way or read twice.                              *)
Conserved == \A s \in Streams : left[s] + buffer[s] + got[s] = command.writes[s]

(* The streams are closed when all of them was sent, after the command's   *)
(* end.                                                                    *)
EofMeansSent == eof => remote = "exited" /\ \A s \in Streams : left[s] = 0

(* Nothing more will be read from s.                                       *)
Drained(s) == link = "lost" \/ (eof /\ buffer[s] = 0)

(* Where execute stands and what it knows there of the remote side.        *)
ClientKnows ==
  /\ at \in {"connect", "exec"} => remote = "idle"
  /\ arrived => remote = "exited"
  /\ exitStatus \in Codes => remote = "exited" /\ exitStatus = command.code
  /\ at \in Streams => remote = "exited" \/ link = "lost"
  /\ at = "stderr" => Drained("stdout")
  /\ result.exit \in Codes =>
       at = "returned" /\ result.exit = exitStatus /\ \A s \in Streams : Drained(s)
  /\ Returned => remote # "running" \/ link = "lost"

SSHInv == SSHTypeOK /\ Conserved /\ EofMeansSent /\ ClientKnows

----------------------------------------------------------------------------
LEMMA StreamsAre == "stdout" \in Streams /\ "stderr" \in Streams
                    /\ \A s \in Streams : s = "stdout" \/ s = "stderr"
BY DEF Streams

(* What a result says.                                                     *)
LEMMA Returns == \A exit, from : Return(exit, from) => at' = "returned" /\ result'.exit = exit
BY DEF Return

LEMMA SSHInitInv == SSHInit => SSHInv
<1> SUFFICES ASSUME SSHInit PROVE SSHInv
  OBVIOUS
<1> USE ChannelAssumption DEF SSHInit, Nothing
<1>1. command.writes \in [Streams -> 0..MaxChunks] /\ command.code \in Codes \union {-1}
  BY DEF Commands
<1>2. SSHTypeOK
  <2>1. got \in [Streams -> 0..MaxChunks] /\ buffer \in [Streams -> 0..Window]
    OBVIOUS
  <2>2. buffer["stdout"] + buffer["stderr"] <= Window
    BY StreamsAre
  <2>3. result.exit = NoExit /\ left \in [Streams -> 0..MaxChunks]
    BY <1>1
  <2>4. command \in Commands /\ at = "connect" /\ remote = "idle" /\ link = "up" /\ ~eof
        /\ ~arrived /\ exitStatus = NoExit /\ arrived \in BOOLEAN /\ eof \in BOOLEAN
    OBVIOUS
  <2> HIDE DEF SSHInit, Nothing
  <2> QED BY <2>1, <2>2, <2>3, <2>4 DEF SSHTypeOK
<1>3. Conserved
  BY <1>1, StreamsAre DEF Conserved
<1> QED BY <1>2, <1>3 DEF SSHInv, EofMeansSent, ClientKnows, Streams, Returned

(* The remote side only moves chunks from left to buffer, ends or breaks.  *)
LEMMA RemoteInv == SSHInv /\ (Remote \/ CloseStreams \/ Partition \/ ConnectionLost) => SSHInv'
<1> SUFFICES ASSUME SSHInv, Remote \/ CloseStreams \/ Partition \/ ConnectionLost PROVE SSHInv'
  OBVIOUS
<1> USE ChannelAssumption DEF SSHInv, clientVars, Nothing
<1>1. ASSUME NEW s \in Streams, Send(s) PROVE SSHInv'
  <2>1. left[s] \in 1..MaxChunks /\ buffer[s] \in 0..Window - 1
    BY <1>1, StreamsAre DEF Send, SSHTypeOK
  <2>2. SSHTypeOK'
    BY <1>1, <2>1, StreamsAre DEF Send, SSHTypeOK
  <2>3. Conserved'
    BY <1>1, <2>1, StreamsAre DEF Send, Conserved, SSHTypeOK
  <2>4. ~eof
    BY <1>1, <2>1 DEF EofMeansSent
  <2> QED BY <1>1, <2>2, <2>3, <2>4 DEF Send, EofMeansSent, ClientKnows, Drained, Returned
<1>2. CASE Exit
  BY <1>2 DEF Exit, SSHTypeOK, Conserved, EofMeansSent, ClientKnows, Drained, Returned
<1>3. CASE CloseStreams
  BY <1>3 DEF CloseStreams, SSHTypeOK, Conserved, EofMeansSent, ClientKnows, Drained, Returned
<1>4. CASE ConnectionLost
  BY <1>4 DEF ConnectionLost, SSHTypeOK, Conserved, EofMeansSent, ClientKnows, Drained, Returned
<1>5. CASE Partition
  BY <1>5 DEF Partition, SSHTypeOK, Conserved, EofMeansSent, ClientKnows, Drained, Returned
<1>6. CASE ReportExit
  BY <1>6 DEF ReportExit, SSHTypeOK, Conserved, EofMeansSent, ClientKnows, Drained, Returned
<1> QED BY <1>1, <1>2, <1>3, <1>4, <1>5, <1>6 DEF Remote

(* One case for each call of execute.                                      *)
LEMMA ClientInv == SSHInv /\ Client => SSHInv'
<1> SUFFICES ASSUME SSHInv, Client PROVE SSHInv'
  OBVIOUS
<1> USE ChannelAssumption, StreamsAre DEF SSHInv, remoteVars, TransportFailure
<1>0. command.code \in Codes \union {-1}
  BY DEF SSHTypeOK, Commands
<1>1. CASE Connect
  <2>1. result' = result \/ result'.exit = NoExit
    BY <1>1, Returns DEF Connect
  <2>2. at' \in {"exec", "returned", "raised"} /\ remote = "idle"
    BY <1>1, Returns DEF Connect, ClientKnows
  <2> QED BY <1>1, <2>1, <2>2 DEF Connect, SSHTypeOK, Conserved, EofMeansSent, ClientKnows, Drained, Returned, Streams
<1>2. CASE ExecCommand
  <2>1. result' = result \/ result'.exit = NoExit
    BY <1>2, Returns DEF ExecCommand
  <2>2. \/ at' = "recv_exit_status" /\ remote' = "running" /\ link' = link
        \/ at' \in {"returned", "raised"} /\ remote' \in {"idle", "running"} /\ link' = "lost"
    BY <1>2, Returns DEF ExecCommand
  <2>3. remote = "idle" /\ ~eof /\ ~arrived /\ exitStatus \notin Codes /\ result.exit \notin Codes
    BY <1>2 DEF ExecCommand, ClientKnows, EofMeansSent
  <2>4. UNCHANGED <<command, left, eof, arrived, buffer, got, exitStatus>>
    BY <1>2 DEF ExecCommand
  <2>5. SSHTypeOK' /\ Conserved' /\ EofMeansSent'
    BY <2>1, <2>2, <2>3, <2>4 DEF SSHTypeOK, Conserved, EofMeansSent
  <2>6. ClientKnows'
    BY <2>1, <2>2, <2>3, <2>4 DEF ClientKnows, Drained, Returned, Streams
  <2> QED BY <2>5, <2>6
<1>3. CASE RecvExitStatus
  BY <1>0, <1>3 DEF RecvExitStatus, SSHTypeOK, Conserved, EofMeansSent, ClientKnows, Drained, Returned, Streams
<1>4. ASSUME NEW s \in Streams, Read(s) PROVE SSHInv'
  <2>1. buffer[s] \in 1..Window /\ left[s] \in 0..MaxChunks /\ got[s] \in 0..MaxChunks
        /\ command.writes[s] \in 0..MaxChunks
    BY <1>4 DEF Read, SSHTypeOK, Commands
  <2>2. got[s] + 1 \in 0..MaxChunks
    BY <2>1 DEF Conserved
  <2>3. SSHTypeOK'
    BY <1>4, <2>1, <2>2 DEF Read, SSHTypeOK
  <2>4. Conserved'
    BY <1>4, <2>1 DEF Read, SSHTypeOK, Conserved
  <2> QED BY <1>4, <2>1, <2>3, <2>4 DEF Read, EofMeansSent, ClientKnows, Drained, Returned, SSHTypeOK
<1>5. ASSUME NEW s \in Streams, ReadToEnd(s) PROVE SSHInv'
  <2>0. /\ UNCHANGED <<command, remoteVars, buffer, got, exitStatus>> /\ Drained(s)
        /\ \/ s = "stdout" /\ at' = "stderr" /\ result' = result
           \/ s = "stderr" /\ at' = "returned" /\ result'.exit = exitStatus
    BY <1>5, Returns DEF ReadToEnd, Drained
  <2>1. SSHTypeOK' /\ Conserved' /\ EofMeansSent'
    BY <2>0 DEF SSHTypeOK, Conserved, EofMeansSent
  <2>2. ClientKnows'
    BY <1>5, <2>0 DEF ReadToEnd, ClientKnows, Drained, Returned, SSHTypeOK
  <2> QED BY <2>1, <2>2
<1>6. ASSUME NEW s \in Streams, ReadTimeout(s) PROVE SSHInv'
  <2>0. at' = "returned" /\ result'.exit = NoExit
    BY <1>6, Returns DEF ReadTimeout
  <2>1. SSHTypeOK' /\ Conserved' /\ EofMeansSent'
    BY <1>6, <2>0 DEF ReadTimeout, SSHTypeOK, Conserved, EofMeansSent
  <2>2. ClientKnows'
    BY <1>6, <2>0 DEF ReadTimeout, ClientKnows, Drained, Returned, SSHTypeOK
  <2> QED BY <2>1, <2>2
<1> QED BY <1>1, <1>2, <1>3, <1>4, <1>5, <1>6 DEF Client

LEMMA SSHNextInv == SSHInv /\ [SSHNext]_sshVars => SSHInv'
<1>1. SSHInv /\ UNCHANGED sshVars => SSHInv'
  BY DEF SSHInv, sshVars, remoteVars, clientVars, SSHTypeOK, Conserved, EofMeansSent,
     ClientKnows, Drained, Returned
<1> QED BY <1>1, RemoteInv, ClientInv DEF SSHNext

LEMMA SSHAlways == SSHSpec => []SSHInv
<1> QED BY SSHInitInv, SSHNextInv, PTL DEF SSHSpec

----------------------------------------------------------------------------
(* The executor's state keeps its types, and the channel its window.       *)
THEOREM SSHTyping == SSHSpec => []SSHTypeOK
<1>1. SSHInv => SSHTypeOK
  BY DEF SSHInv
<1> QED BY <1>1, SSHAlways, PTL

(* An exit status comes with the whole output of a command that ended,     *)
(* unless the connection broke (ssh.py:75-77).                             *)
THEOREM WholeOutput == SSHSpec => []ExitStatusMeansComplete
<1>1. SSHInv => ExitStatusMeansComplete
  <2> SUFFICES ASSUME SSHInv, at = "returned", result.exit \in Codes
               PROVE  /\ remote = "exited" /\ result.exit = command.code
                      /\ got = command.writes \/ link = "lost"
    BY DEF ExitStatusMeansComplete
  <2>1. /\ remote = "exited" /\ result.exit = command.code
        /\ \A s \in Streams : Drained(s)
    BY DEF SSHInv, ClientKnows
  <2>2. ASSUME link # "lost" PROVE got = command.writes
    <3>1. \A s \in Streams : left[s] = 0 /\ buffer[s] = 0
      BY <2>1, <2>2, StreamsAre DEF Drained, SSHInv, EofMeansSent
    <3>2. \A s \in Streams : got[s] = command.writes[s]
      BY <3>1 DEF SSHInv, Conserved, SSHTypeOK, Commands
    <3>3. got \in [Streams -> 0..MaxChunks] /\ command.writes \in [Streams -> 0..MaxChunks]
      BY DEF SSHInv, SSHTypeOK, Commands
    <3> QED BY <3>2, <3>3
  <2> QED BY <2>1, <2>2
<1> QED BY <1>1, SSHAlways, PTL

(* Whatever makes execute give up, the command does not run on beside a    *)
(* retry unless the connection broke (ssh.py:75, engine.py:213).           *)
THEOREM NoOverlap == SSHSpec => []RetryDoesNotOverlap
<1>1. SSHInv => RetryDoesNotOverlap
  BY DEF SSHInv, ClientKnows, RetryDoesNotOverlap
<1> QED BY <1>1, SSHAlways, PTL
=============================================================================
