------------------------------- MODULE Runbook -------------------------------
(***************************************************************************)
(* Compiled runbooks: the input of the execution engine (models.py) and    *)
(* what the compiler guarantees about every one of them (compiler.py,      *)
(* _semantic_issues).                                                      *)
(*                                                                         *)
(* A step is a record whose "type" is one of the three of models.py.  Text *)
(* that a command prints is a member of the set Texts; NoText stands for   *)
(* both None and the empty string, which the engine never tells apart.     *)
(* stdout_contains and stderr_contains are modelled by the set of the      *)
(* texts that contain the expected substring (Texts itself when the key is *)
(* absent).  Names, commands, timeouts and notification texts are left     *)
(* out: no branch of the engine reads them.                                *)
(***************************************************************************)
EXTENDS Integers, Sequences, FiniteSets

CONSTANTS StepIds,   \* identifiers a runbook may give to its steps
          Codes,     \* exit statuses a remote command may return
          NoExit,    \* exit_status None: the transport failed, or a dry run
          Texts,     \* what a command may print, what an error may say
          NoText,    \* None or the empty string
          Runbooks   \* the compiled runbooks the engine may be given

ASSUME DataAssumption == NoExit \notin Codes /\ NoText \in Texts

----------------------------------------------------------------------------
(* The steps of models.py. The bounds on retries and retry_delay are those *)
(* of the JSON schema the compiler validates against.                      *)

MaxRetryDelay == 3600

SSHStep == [type: {"ssh"}, exitCode: Codes,
            stdout: SUBSET Texts, stderr: SUBSET Texts,
            retries: 0..10, retryDelay: 0..MaxRetryDelay,
            onSuccess: StepIds, onFailure: StepIds]

EscalateStep == [type: {"escalate"}]
EndStep      == [type: {"end"}]

CompiledRunbook(r) ==
  /\ DOMAIN r.steps \subseteq StepIds /\ IsFiniteSet(DOMAIN r.steps)
  /\ \A s \in DOMAIN r.steps :
        r.steps[s] \in SSHStep \union EscalateStep \union EndStep

(* exit status, stdout and stderr must all be as expected                  *)
MatchesExpectation(step, result) ==
  /\ result.exit = step.exitCode
  /\ result.output \in step.stdout
  /\ result.error \in step.stderr

TotalAttempts(step) == 1 + step.retries

----------------------------------------------------------------------------
(* What the semantic validation accepts.                                   *)

Successors(r, s) ==
  IF r.steps[s].type = "ssh" THEN {r.steps[s].onSuccess, r.steps[s].onFailure}
                             ELSE {}

TargetsExist(r) ==
  /\ r.entry \in DOMAIN r.steps
  /\ \A s \in DOMAIN r.steps : Successors(r, s) \subseteq DOMAIN r.steps

(* A slip: only a step that branches to itself is refused.                 *)
NoSelfLoop(r) == \A s \in DOMAIN r.steps : s \notin Successors(r, s)

(* No set of steps in which every member has a branch back into the set:   *)
(* on a finite graph, no cycle.                                            *)
Acyclic(r) ==
  \A C \in SUBSET DOMAIN r.steps :
     C # {} => \E s \in C : Successors(r, s) \intersect C = {}

(* The only set that holds the entry and is closed under branches is the   *)
(* whole runbook: every step is reachable from the entry.                  *)
AllReachable(r) ==
  \A R \in SUBSET DOMAIN r.steps :
     (r.entry \in R /\ \A s \in R : Successors(r, s) \subseteq R)
        => R = DOMAIN r.steps

Compiled(r) ==
  /\ CompiledRunbook(r)
  /\ TargetsExist(r)
  /\ Acyclic(r)
  /\ AllReachable(r)

ASSUME RunbooksAssumption == \A r \in Runbooks : Compiled(r)
=============================================================================
