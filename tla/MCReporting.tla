---------------------------- MODULE MCReporting ------------------------------
(***************************************************************************)
(* Instance of Reporting for TLC: two ssh steps, either both tried up to   *)
(* twice at once, or the first up to three times a second apart, then a    *)
(* success or an escalation: several attempts share a second, several not. *)
(***************************************************************************)
EXTENDS Reporting

MCCodes == {0}
MCNotifiers == <<"slack", "email">>

Ssh(ok, fail, n, delay) ==
  [type |-> "ssh", exitCode |-> 0, stdout |-> Texts, stderr |-> Texts,
   retries |-> n, retryDelay |-> delay, onSuccess |-> ok, onFailure |-> fail]

MCRunbooks ==
  { [entry |-> "a",
     steps |-> [s \in StepIds |->
                  CASE s = "a" -> Ssh("b", "b", 1 + delay, delay)
                    [] s = "b" -> Ssh("done", "page", 1 - delay, 0)
                    [] s = "done" -> [type |-> "end"]
                    [] s = "page" -> [type |-> "escalate"]]] : delay \in {0, 1} }
=============================================================================
