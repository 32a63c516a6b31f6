------------------------------ MODULE MCEngine -------------------------------
(***************************************************************************)
(* Instances of Engine for TLC.                                            *)
(***************************************************************************)
EXTENDS EngineProofs

MCCodes == {0, 1}
MCNotifiers == <<"slack", "email">>
OneNotifier == <<"slack">>

Ssh(ok, fail, out, n, delay) ==
  [type |-> "ssh", exitCode |-> 0, stdout |-> out, stderr |-> Texts,
   retries |-> n, retryDelay |-> delay, onSuccess |-> ok, onFailure |-> fail]

Page == [type |-> "escalate"]
Done == [type |-> "end"]

(* Every branching of two ssh steps, or of one tried once or twice, over   *)
(* an end and an escalation that the compiler accepts.  The step entered   *)
(* first is called a; what it is called makes no difference.               *)
AllTargets == {"a", "b", "done", "page"}
TwoSteps ==
  { [entry |-> "a",
     steps |-> [s \in AllTargets |->
                  CASE s = "a" -> Ssh(t[1], t[2], Texts, 0, 0)
                    [] s = "b" -> Ssh(t[3], t[4], Texts \ {NoText}, 0, 0)
                    [] s = "done" -> Done
                    [] s = "page" -> Page]] :
    t \in [1..4 -> AllTargets] }
OneStep ==
  { [entry |-> "a", steps |-> [s \in {"a", "done", "page"} |->
        CASE s = "a" -> Ssh(ok, fail, Texts, n, 0)
          [] s = "done" -> Done [] s = "page" -> Page]] :
    ok \in {"a", "done", "page"}, fail \in {"a", "done", "page"}, n \in {0, 1} }
NoStep == { [entry |-> s, steps |-> [x \in {s} |-> f]] :
            s \in {"done", "page"}, f \in {Done, Page} }

GraphRunbooks == {r \in TwoSteps \union OneStep \union NoStep : Compiled(r)}

(* A restart that is verified, retried with a delay and then escalated:    *)
(* the shape of the runbooks shipped with the program.                     *)
RetryRunbooks ==
  { [entry |-> "a",
     steps |-> [s \in AllTargets |->
                  CASE s = "a" -> Ssh("b", "page", Texts, 2 - n, 1)
                    [] s = "b" -> Ssh("done", "page", Texts, n, 2)
                    [] s = "done" -> Done
                    [] s = "page" -> Page]] : n \in {0, 1} }

AllRunbooks == GraphRunbooks \union RetryRunbooks
=============================================================================
