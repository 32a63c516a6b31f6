-------------------------------- MODULE MCCli --------------------------------
(***************************************************************************)
(* Instances of Cli for TLC: one ssh step, tried once or twice, that ends   *)
(* well or pages, and an escalation at once.                               *)
(***************************************************************************)
EXTENDS Cli, LogLine

MCCodes == {0}
MCNotifiers == <<"slack", "email">>

MCRunbooks ==
  {[entry |-> "page", steps |-> [s \in {"page"} |-> [type |-> "escalate"]]]}
    \union
  {[entry |-> "a",
    steps |-> [s \in StepIds |->
       CASE s = "a" -> [type |-> "ssh", exitCode |-> 0, stdout |-> Texts,
                        stderr |-> Texts, retries |-> 1, retryDelay |-> 0,
                        onSuccess |-> "done", onFailure |-> "page"]
         [] s = "done" -> [type |-> "end"]
         [] s = "page" -> [type |-> "escalate"]]]}

(* Everything set up; one thing missing at a time; nothing wanted.         *)
All == [slack |-> TRUE, email |-> TRUE, url |-> TRUE, to |-> Recipients, oneLine |-> TRUE]
MCSetups == {All, [All EXCEPT !.slack = FALSE], [All EXCEPT !.email = FALSE],
             [All EXCEPT !.url = FALSE], [All EXCEPT !.to = {}],
             [All EXCEPT !.oneLine = FALSE]}

(* An error that ends in a backslash, one that goes on after a quotation   *)
(* mark where the first ends, and one of two lines.                        *)
MCCharacters ==
  [t \in (Texts \ {NoText}) \union {UnknownFailure, ExpectationMismatch} |->
     CASE t = "path" -> <<"C", " ", Backslash>>
       [] t = "quote" -> <<"C", " ", Quotation, " ", "x">>
       [] t = "lines" -> <<"C", LineBreak, "x">>
       [] OTHER -> <<t>>]
=============================================================================
