---------------------------- MODULE MCSSHExecutor ----------------------------
(***************************************************************************)
(* Instance of SSHExecutor for TLC.                                        *)
(***************************************************************************)
EXTENDS SSHExecutorProofs

MCCodes == {0, 1}
=============================================================================
