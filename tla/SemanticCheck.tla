---------------------------- MODULE SemanticCheck ----------------------------
(***************************************************************************)
(* The semantic validation of the compiler (compiler.py, _semantic_issues, *)
(* _build_graph, _has_cycle, _reachable_steps) on one parsed runbook: a    *)
(* sequence of steps and an entry.  Neighbours come out of a set, so their *)
(* order is any order; so is that of the depth-first search's roots.       *)
(*                                                                         *)
(* dfs is recursive: frames is its call stack.  A call deeper than         *)
(* MaxDepth raises RecursionError, which nothing catches.                  *)
(***************************************************************************)
EXTENDS Integers, Sequences, FiniteSets

CONSTANTS Documents,   \* the parsed runbooks: [entry, steps]
          MaxDepth     \* calls of dfs the interpreter's recursion limit allows

IsSequence(s) == s \in Seq({s[i] : i \in DOMAIN s})

ASSUME DepthAssumption == MaxDepth \in Nat \ {0}

ASSUME StepsAssumption == \A d \in Documents : IsSequence(d.steps)

VARIABLES doc,        \* the runbook being validated
          phase,      \* the part of _semantic_issues under way
          issues,     \* the codes of the issues found
          roots,      \* nodes "any(dfs(node) for node in graph)" has yet to try
          frames,     \* the calls of dfs: a node and the neighbours it has left
          visiting,   \* of _has_cycle
          visited,    \* of _has_cycle
          seen,       \* of _reachable_steps
          stack       \* of _reachable_steps

dfsVars   == <<roots, frames, visiting, visited>>
reachVars == <<seen, stack>>
checkVars == <<doc, phase, issues, dfsVars, reachVars>>

Ids == {doc.steps[i].id : i \in DOMAIN doc.steps}

(* A slip: only the on_success branches.                                   *)
successGraph == [s \in Ids |->
                   {doc.steps[i].onSuccess :
                      i \in {j \in DOMAIN doc.steps :
                               doc.steps[j].id = s /\ doc.steps[j].type = "ssh"}}]

(* The branches of the step with identifier s; terminal steps have none.   *)
graph == [s \in Ids |->
            UNION {{doc.steps[i].onSuccess, doc.steps[i].onFailure} :
                     i \in {j \in DOMAIN doc.steps :
                              doc.steps[j].id = s /\ doc.steps[j].type = "ssh"}}]

CheckInit ==
  /\ doc \in Documents
  /\ phase = "duplicates" /\ issues = {}
  /\ roots = {} /\ frames = <<>> /\ visiting = {} /\ visited = {}
  /\ seen = {} /\ stack = <<>>

----------------------------------------------------------------------------
(* Any issue of one part keeps the later parts from running.               *)

CheckDuplicates ==
  /\ phase = "duplicates"
  /\ LET repeated == \E i, j \in DOMAIN doc.steps :
                        i < j /\ doc.steps[i].id = doc.steps[j].id
     IN /\ issues' = IF repeated THEN {"RBK104"} ELSE {}
        /\ phase' = IF repeated THEN "done" ELSE "targets"
  /\ UNCHANGED <<doc, dfsVars, reachVars>>

CheckTargets ==
  /\ phase = "targets"
  /\ issues' = {c \in {"RBK201", "RBK202"} :
                  IF c = "RBK201" THEN doc.entry \notin Ids
                                  ELSE \E s \in Ids : ~(graph[s] \subseteq Ids)}
  /\ phase' = IF issues' # {} THEN "done" ELSE "cycle"
  /\ roots' = Ids
  /\ UNCHANGED <<doc, frames, visiting, visited, reachVars>>

----------------------------------------------------------------------------
(* _has_cycle                                                              *)

(* A slip: dfs does not look at the nodes being visited.                   *)
NotVisited(node) == node \notin visited

(* dfs goes on to the neighbours of a node it has not met.                 *)
Unknown(node) == node \notin visiting /\ node \notin visited

(* A call of dfs: what it does before its loop, or its early return.       *)
Call(node) ==
  IF Len(frames) >= MaxDepth
    THEN /\ phase' = "RecursionError"
         /\ UNCHANGED <<issues, visiting>>
  ELSE IF Unknown(node)
    THEN /\ visiting' = visiting \union {node}
         /\ UNCHANGED <<issues, phase>>
  ELSE IF node \in visiting
    THEN /\ issues' = {"RBK204"} /\ phase' = "done"
         /\ UNCHANGED visiting
  ELSE UNCHANGED <<issues, phase, visiting>>

Entered(node) == Unknown(node) /\ Len(frames) < MaxDepth

Top == frames[Len(frames)]

TryRoot(node) ==
  /\ phase = "cycle" /\ frames = <<>>
  /\ node \in roots
  /\ roots' = roots \ {node}
  /\ Call(node)
  /\ frames' = IF Entered(node) THEN <<[node |-> node, todo |-> graph[node]]>>
                                ELSE frames
  /\ UNCHANGED <<doc, visited, reachVars>>

TryNeighbor(node) ==
  /\ phase = "cycle" /\ frames # <<>>
  /\ node \in Top.todo
  /\ Call(node)
  /\ LET rest == [frames EXCEPT ![Len(frames)].todo = @ \ {node}]
     IN frames' = IF Entered(node)
                    THEN Append(rest, [node |-> node, todo |-> graph[node]])
                  ELSE IF node \in visited THEN rest ELSE frames
  /\ UNCHANGED <<doc, roots, visited, reachVars>>

(* A slip: a node that is left stays among those being visited.            *)
LeaveNodeVisiting ==
  /\ phase = "cycle" /\ frames # <<>> /\ Top.todo = {}
  /\ visited' = visited \union {Top.node}
  /\ frames' = SubSeq(frames, 1, Len(frames) - 1)
  /\ UNCHANGED <<doc, phase, issues, roots, visiting, reachVars>>

LeaveNode ==
  /\ phase = "cycle" /\ frames # <<>> /\ Top.todo = {}
  /\ visiting' = visiting \ {Top.node}
  /\ visited' = visited \union {Top.node}
  /\ frames' = SubSeq(frames, 1, Len(frames) - 1)
  /\ UNCHANGED <<doc, phase, issues, roots, reachVars>>

NoCycle ==
  /\ phase = "cycle" /\ frames = <<>> /\ roots = {}
  /\ phase' = "reachable"
  /\ stack' = <<doc.entry>>
  /\ UNCHANGED <<doc, issues, dfsVars, seen>>

----------------------------------------------------------------------------
(* _reachable_steps                                                        *)

(* The orders in which a set of neighbours may be pushed.                  *)
Pushes(S) == {p \in [1..Cardinality(S) -> S] : \A x \in S : \E i \in DOMAIN p : p[i] = x}

(* A slip: the top of the stack is looked at and not popped.               *)
PeekStep ==
  /\ phase = "reachable" /\ stack # <<>>
  /\ LET current == stack[Len(stack)]
         marked == seen \union {current}
     IN IF current \in seen
          THEN UNCHANGED reachVars
          ELSE /\ seen' = marked
               /\ \E p \in Pushes(graph[current] \ marked) : stack' = stack \o p
  /\ UNCHANGED <<doc, phase, issues, dfsVars>>

PopStep ==
  /\ phase = "reachable" /\ stack # <<>>
  /\ LET current == stack[Len(stack)]
         rest == SubSeq(stack, 1, Len(stack) - 1)
         marked == seen \union {current}
     IN IF current \in seen
          THEN stack' = rest /\ UNCHANGED seen
          ELSE /\ seen' = marked
               /\ \E p \in Pushes(graph[current] \ marked) : stack' = rest \o p
  /\ UNCHANGED <<doc, phase, issues, dfsVars>>

CheckReachable ==
  /\ phase = "reachable" /\ stack = <<>>
  /\ issues' = IF Ids \subseteq seen THEN {} ELSE {"RBK203"}
  /\ phase' = "done"
  /\ UNCHANGED <<doc, dfsVars, reachVars>>

CheckStep ==
  \/ CheckDuplicates \/ CheckTargets
  \/ \E node \in Ids : TryRoot(node) \/ TryNeighbor(node)
  \/ LeaveNode \/ NoCycle \/ PopStep \/ CheckReachable

----------------------------------------------------------------------------
(* Types of the validation's state; the nodes being visited are those of   *)
(* the call stack, and a node being visited is not yet visited.            *)
CheckTypeOK ==
  /\ phase \in {"duplicates", "targets", "cycle", "reachable", "done", "RecursionError"}
  /\ issues \subseteq {"RBK104", "RBK201", "RBK202", "RBK203", "RBK204"}
  /\ visiting = {frames[i].node : i \in DOMAIN frames}
  /\ visited \subseteq Ids \ visiting
  /\ roots \subseteq Ids /\ seen \subseteq Ids
  /\ Len(frames) <= MaxDepth

(* The runbook the compiler would build of an accepted document.           *)
Built == [entry |-> doc.entry,
          steps |-> [s \in Ids |-> doc.steps[CHOOSE i \in DOMAIN doc.steps :
                                               doc.steps[i].id = s]]]

Rules == INSTANCE Runbook
           WITH StepIds <- {}, Codes <- {}, NoExit <- 0, Texts <- {0}, NoText <- 0,
                Runbooks <- {}

Expected ==
  IF Cardinality(Ids) < Len(doc.steps) THEN {"RBK104"}
  ELSE IF ~Rules!TargetsExist(Built)
    THEN {c \in {"RBK201", "RBK202"} :
            IF c = "RBK201" THEN Built.entry \notin Ids
            ELSE \E s \in Ids : ~(Rules!Successors(Built, s) \subseteq Ids)}
  ELSE IF ~Rules!Acyclic(Built) THEN {"RBK204"}
  ELSE IF ~Rules!AllReachable(Built) THEN {"RBK203"} ELSE {}

(* Whatever order the sets are iterated in, the validation finds exactly   *)
(* the issues the rules of docs/schema.md define, and accepts exactly the  *)
(* runbooks the engine may rely on (Compiled in module Runbook): the two   *)
(* searches compute acyclicity and reachability (compiler.py:250-282).     *)
VerdictIsExact == phase = "done" => issues = Expected

(* Only a runbook with as many steps as the recursion limit allows calls   *)
(* can be refused by an exception instead of a verdict: the search goes no *)
(* deeper than there are steps, also on a cyclic graph (compiler.py:255).  *)
OnlyDeepRunbooksRaise ==
  phase = "RecursionError" => Cardinality(Ids) >= MaxDepth
=============================================================================
