--------------------------- MODULE CompilerProofs ----------------------------
(***************************************************************************)
(* Proofs about Compiler and the semantic validation it runs, for every    *)
(* set of documents, every recursion limit and every set of variables.     *)
(***************************************************************************)
EXTENDS Compiler, SequenceLemmas

----------------------------------------------------------------------------
(* The semantic validation.  The depth-first search keeps its calls on a   *)
(* path of the graph, and what it has left is closed under branches and    *)
(* free of cycles.                                                         *)

Frame == [node : Ids, todo : SUBSET Ids]

NoRepeat == \A i, j \in DOMAIN doc.steps : doc.steps[i].id = doc.steps[j].id => i = j

BranchesExist == doc.entry \in Ids /\ \A s \in Ids : graph[s] \subseteq Ids

(* Every call of dfs was made for a branch of the call below it, and the   *)
(* branches a call no longer has to try are visited, or are being visited  *)
(* by the call above it.                                                   *)
CallsFollowBranches ==
  /\ \A i, j \in DOMAIN frames : frames[i].node = frames[j].node => i = j
  /\ \A i \in DOMAIN frames : frames[i].todo \subseteq graph[frames[i].node]
  /\ \A i \in DOMAIN frames : i < Len(frames) =>
        frames[i + 1].node \in graph[frames[i].node]
  /\ \A i \in DOMAIN frames : \A m \in graph[frames[i].node] \ frames[i].todo :
        m \in visited \/ (i < Len(frames) /\ m = frames[i + 1].node)

VisitedIsSound ==
  /\ \A s \in visited : graph[s] \subseteq visited
  /\ \A C \in SUBSET visited : C # {} => \E s \in C : graph[s] \intersect C = {}

SearchInv ==
  /\ CallsFollowBranches
  /\ VisitedIsSound
  /\ Ids \subseteq roots \union visited \union visiting

(* What the worklist has seen or still holds is reachable, and it misses   *)
(* no branch of what it has seen.                                          *)
Met == seen \union ToSet(stack)

WorklistInv ==
  /\ stack \in Seq(Ids)
  /\ doc.entry \in Met
  /\ \A s \in seen : graph[s] \subseteq Met
  /\ \A R \in SUBSET Ids :
        (doc.entry \in R /\ \A s \in R : graph[s] \subseteq R) => Met \subseteq R

SearchUntouched == /\ roots = {} /\ frames = <<>> /\ visiting = {} /\ visited = {}

CheckInv ==
  /\ doc \in Documents
  /\ CheckTypeOK
  /\ frames \in Seq(Frame)
  /\ phase \in {"duplicates", "targets"} => SearchUntouched
  /\ phase \in {"duplicates", "targets", "cycle"} => seen = {} /\ stack = <<>>
  /\ phase \in {"targets", "cycle", "reachable"} => NoRepeat
  /\ phase \in {"cycle", "reachable"} => BranchesExist
  /\ phase # "done" => issues = {}
  /\ phase = "cycle" => SearchInv
  /\ phase = "reachable" => Rules!Acyclic(Built) /\ WorklistInv
  /\ VerdictIsExact
  /\ OnlyDeepRunbooksRaise

----------------------------------------------------------------------------
LEMMA StepsAreASequence ==
  ASSUME doc \in Documents
  PROVE  /\ DOMAIN doc.steps = 1..Len(doc.steps) /\ Len(doc.steps) \in Nat
         /\ IsFiniteSet(Ids) /\ Cardinality(Ids) \in Nat
         /\ Cardinality(Ids) < Len(doc.steps) <=> ~NoRepeat
<1> DEFINE n == Len(doc.steps)
           f == [i \in 1..n |-> doc.steps[i].id]
<1>1. DOMAIN doc.steps = 1..n /\ n \in Nat
  BY StepsAssumption DEF IsSequence
<1>2. f \in Surjection(1..n, Ids)
  BY <1>1 DEF Surjection, Ids
<1>3. IsFiniteSet(1..n) /\ Cardinality(1..n) = n
  BY <1>1, FS_Interval
<1>4. /\ IsFiniteSet(Ids) /\ Cardinality(Ids) <= n
      /\ Cardinality(Ids) = n <=> f \in Injection(1..n, Ids)
  <2> HIDE DEF f, n
  <2> QED BY <1>2, <1>3, FS_Surjection
<1>5. Cardinality(Ids) \in Nat
  BY <1>4, FS_CardinalityType
<1>6. f \in Injection(1..n, Ids) <=> NoRepeat
  <2>1. f \in [1..n -> Ids] /\ \A i \in 1..n : f[i] = doc.steps[i].id
    BY <1>2 DEF Surjection
  <2>2. f \in Injection(1..n, Ids)
          <=> \A i, j \in 1..n : f[i] = f[j] => i = j
    <3> HIDE DEF f, n
    <3> QED BY <2>1, Zenon DEF Injection, IsInjective
  <2> QED BY <1>1, <2>1, <2>2 DEF NoRepeat
<1> QED BY <1>1, <1>4, <1>5, <1>6

(* The graph of the validation is that of the runbook it would build.      *)
LEMMA GraphIsSuccessors ==
  ASSUME doc \in Documents, NoRepeat
  PROVE  /\ DOMAIN Built.steps = Ids /\ Built.entry = doc.entry
         /\ \A s \in Ids : graph[s] = Rules!Successors(Built, s)
<1>1. DOMAIN Built.steps = Ids /\ Built.entry = doc.entry
  BY DEF Built
<1>2. ASSUME NEW s \in Ids
      PROVE  graph[s] = Rules!Successors(Built, s)
  <2>1. PICK i \in DOMAIN doc.steps : doc.steps[i].id = s
    BY DEF Ids
  <2>2. \A j \in DOMAIN doc.steps : doc.steps[j].id = s <=> j = i
    BY <2>1 DEF NoRepeat
  <2>3. Built.steps[s] = doc.steps[i]
    <3>1. (CHOOSE j \in DOMAIN doc.steps : doc.steps[j].id = s) = i
      BY <2>2
    <3> QED BY <3>1 DEF Built
  <2>4. graph[s] = IF doc.steps[i].type = "ssh"
                     THEN {doc.steps[i].onSuccess, doc.steps[i].onFailure} ELSE {}
    <3>1. {j \in DOMAIN doc.steps : doc.steps[j].id = s /\ doc.steps[j].type = "ssh"}
            = IF doc.steps[i].type = "ssh" THEN {i} ELSE {}
      BY <2>2
    <3> QED BY <3>1 DEF graph
  <2> QED BY <2>3, <2>4 DEF Rules!Successors
<1> QED BY <1>1, <1>2

LEMMA SameDocument ==
  ASSUME doc' = doc
  PROVE  /\ Ids' = Ids /\ graph' = graph /\ Built' = Built /\ Expected' = Expected
         /\ NoRepeat' = NoRepeat /\ BranchesExist' = BranchesExist /\ Frame' = Frame
         /\ Rules!Acyclic(Built)' = Rules!Acyclic(Built)
<1>1. Ids' = Ids
  BY DEF Ids
<1>2. graph' = graph
  BY <1>1 DEF graph
<1>3. Built' = Built
  BY <1>1 DEF Built
<1>4. Expected' = Expected
  BY <1>1, <1>3 DEF Expected, Rules!TargetsExist, Rules!Successors, Rules!Acyclic,
                    Rules!AllReachable
<1> QED BY <1>1, <1>2, <1>3, <1>4 DEF NoRepeat, BranchesExist, Frame, Rules!Acyclic,
                                     Rules!Successors

LEMMA TargetsExistIsBranchesExist ==
  ASSUME doc \in Documents, NoRepeat
  PROVE  Rules!TargetsExist(Built) <=> BranchesExist
BY GraphIsSuccessors DEF Rules!TargetsExist, BranchesExist

----------------------------------------------------------------------------
LEMMA CheckInitInv == CheckInit => CheckInv
<1> SUFFICES ASSUME CheckInit PROVE CheckInv
  OBVIOUS
<1>1. CheckTypeOK
  BY DepthAssumption DEF CheckInit, CheckTypeOK
<1> QED BY <1>1 DEF CheckInit, CheckInv, SearchUntouched, VerdictIsExact,
                   OnlyDeepRunbooksRaise

LEMMA DuplicatesPreserves ==
  ASSUME CheckInv, CheckDuplicates PROVE CheckInv'
<1> USE SameDocument
<1>1. /\ phase = "duplicates" /\ doc \in Documents /\ SearchUntouched
      /\ seen = {} /\ stack = <<>> /\ CheckTypeOK
  BY DEF CheckInv, CheckDuplicates
<1>2. /\ doc' = doc /\ roots' = roots /\ frames' = frames /\ visiting' = visiting
      /\ visited' = visited /\ seen' = seen /\ stack' = stack
  BY DEF CheckDuplicates, dfsVars, reachVars
<1>3. (\E i, j \in DOMAIN doc.steps : i < j /\ doc.steps[i].id = doc.steps[j].id)
        <=> ~NoRepeat
  <2>1. \A i, j \in DOMAIN doc.steps : i = j \/ i < j \/ j < i
    BY <1>1, StepsAreASequence
  <2>2. \A i, j \in DOMAIN doc.steps : i < j => i # j
    BY <1>1, StepsAreASequence
  <2> QED BY <2>1, <2>2 DEF NoRepeat
<1>4. \/ NoRepeat /\ issues' = {} /\ phase' = "targets"
      \/ ~NoRepeat /\ issues' = {"RBK104"} /\ phase' = "done"
  BY <1>3 DEF CheckDuplicates
<1>5. SearchUntouched'
  BY <1>1, <1>2 DEF SearchUntouched
<1>6. CheckTypeOK'
  BY <1>1, <1>2, <1>4, DepthAssumption DEF CheckTypeOK, SearchUntouched
<1>7. ~NoRepeat => Expected = {"RBK104"}
  BY <1>1, StepsAreASequence DEF Expected
<1>8. VerdictIsExact' /\ OnlyDeepRunbooksRaise'
  BY <1>2, <1>4, <1>7 DEF VerdictIsExact, OnlyDeepRunbooksRaise
<1> QED BY <1>1, <1>2, <1>4, <1>5, <1>6, <1>8 DEF CheckInv, SearchUntouched

LEMMA TargetsPreserves ==
  ASSUME CheckInv, CheckTargets PROVE CheckInv'
<1> USE SameDocument
<1>1. /\ phase = "targets" /\ doc \in Documents /\ SearchUntouched /\ NoRepeat
      /\ seen = {} /\ stack = <<>> /\ CheckTypeOK
  BY DEF CheckInv, CheckTargets
<1>2. /\ doc' = doc /\ roots' = Ids /\ frames' = <<>> /\ visiting' = {}
      /\ visited' = {} /\ seen' = {} /\ stack' = <<>>
  BY <1>1 DEF CheckTargets, reachVars, SearchUntouched
<1>3. issues' = {c \in {"RBK201", "RBK202"} :
                   IF c = "RBK201" THEN doc.entry \notin Ids
                                   ELSE \E s \in Ids : ~(graph[s] \subseteq Ids)}
  BY DEF CheckTargets
<1>4. \/ issues' = {} /\ BranchesExist /\ phase' = "cycle"
      \/ issues' # {} /\ ~BranchesExist /\ phase' = "done"
  BY <1>3 DEF CheckTargets, BranchesExist
<1>5. CheckTypeOK'
  BY <1>2, <1>3, <1>4, DepthAssumption, SameDocument DEF CheckTypeOK
<1>6. ~BranchesExist => Expected = issues'
  <2>1. Cardinality(Ids) < Len(doc.steps) <=> FALSE
    BY <1>1, StepsAreASequence
  <2>2. /\ Built.entry = doc.entry
        /\ \A s \in Ids : graph[s] = Rules!Successors(Built, s)
    BY <1>1, GraphIsSuccessors
  <2> QED BY <1>1, <1>3, <2>1, <2>2, TargetsExistIsBranchesExist DEF Expected
<1>7. VerdictIsExact' /\ OnlyDeepRunbooksRaise'
  BY <1>2, <1>4, <1>6 DEF VerdictIsExact, OnlyDeepRunbooksRaise
<1>8. phase' = "cycle" => SearchInv'
  <2>1. Ids' \subseteq (roots \union visited \union visiting)'
    BY <1>2
  <2> QED BY <1>2, <2>1 DEF SearchInv, CallsFollowBranches, VisitedIsSound
<1> QED BY <1>1, <1>2, <1>4, <1>5, <1>7, <1>8 DEF CheckInv

LEMMA CallsAreASequence ==
  ASSUME frames \in Seq(Frame)
  PROVE  /\ Len(frames) \in Nat /\ DOMAIN frames = 1..Len(frames)
         /\ frames # <<>> => Len(frames) > 0
         /\ \A i \in 1..Len(frames) : frames[i].node \in Ids /\ frames[i].todo \subseteq Ids
<1>1. Len(frames) \in Nat /\ DOMAIN frames = 1..Len(frames)
  OBVIOUS
<1>2. frames # <<>> => Len(frames) > 0
  OBVIOUS
<1>3. \A i \in 1..Len(frames) : frames[i] \in Frame
  OBVIOUS
<1> QED BY <1>1, <1>2, <1>3 DEF Frame

(* What the search may rely on at every step.                              *)
Searching ==
  /\ phase = "cycle" /\ issues = {} /\ doc \in Documents /\ NoRepeat /\ BranchesExist
  /\ CheckTypeOK /\ frames \in Seq(Frame) /\ SearchInv
  /\ seen = {} /\ stack = <<>>

LEMMA SearchGoesOn ==
  ASSUME Searching'
  PROVE  CheckInv'
BY DEF Searching, CheckInv, VerdictIsExact, OnlyDeepRunbooksRaise

LEMMA RootPreserves ==
  ASSUME CheckInv, NEW node \in Ids, TryRoot(node) PROVE CheckInv'
<1> USE SameDocument
<1>1. Searching /\ frames = <<>> /\ visiting = {} /\ node \in roots
  BY DEF CheckInv, TryRoot, Searching, CheckTypeOK
<1>2. /\ doc' = doc /\ visited' = visited /\ seen' = {} /\ stack' = <<>>
      /\ roots' = roots \ {node}
  BY <1>1 DEF TryRoot, reachVars, Searching
<1>3. Len(frames) = 0 /\ ~(Len(frames) >= MaxDepth)
  BY <1>1, DepthAssumption
<1>4. CASE node \in visited
  <2>1. phase' = phase /\ issues' = issues /\ visiting' = visiting /\ frames' = frames
    BY <1>1, <1>3, <1>4 DEF TryRoot, Call, Entered, Unknown
  <2>2. SearchInv'
    BY <1>1, <1>2, <1>4, <2>1 DEF Searching, SearchInv, CallsFollowBranches, VisitedIsSound
  <2>3. Searching'
    BY <1>1, <1>2, <2>1, <2>2 DEF Searching, CheckTypeOK
  <2> QED BY <2>3, SearchGoesOn
<1>5. CASE node \notin visited
  <2> DEFINE call == [node |-> node, todo |-> graph[node]]
  <2>1. /\ phase' = phase /\ issues' = issues /\ visiting' = {node}
        /\ frames' = <<call>>
    <3>1. Unknown(node) /\ Entered(node)
      BY <1>1, <1>3, <1>5, DepthAssumption DEF Entered, Unknown
    <3> QED BY <1>1, <1>3, <3>1 DEF TryRoot, Call
  <2>2. call \in Frame /\ call.node = node /\ call.todo = graph[node]
    BY <1>1 DEF Frame, Searching, BranchesExist
  <2>3. /\ frames' \in Seq(Frame) /\ DOMAIN frames' = {1} /\ Len(frames') = 1
        /\ frames'[1] = call
    BY <2>1, <2>2
  <2> HIDE DEF call
  <2>4. CallsFollowBranches'
    BY <1>2, <2>2, <2>3 DEF CallsFollowBranches
  <2>5. VisitedIsSound'
    BY <1>1, <1>2 DEF Searching, SearchInv, VisitedIsSound
  <2>6. SearchInv'
    BY <1>1, <1>2, <2>1, <2>4, <2>5 DEF Searching, SearchInv
  <2>7. CheckTypeOK'
    BY <1>1, <1>2, <1>5, <2>1, <2>2, <2>3, DepthAssumption DEF Searching, CheckTypeOK
  <2>8. Searching'
    BY <1>1, <1>2, <2>1, <2>3, <2>6, <2>7 DEF Searching
  <2> QED BY <2>8, SearchGoesOn
<1> QED BY <1>4, <1>5

(* The nodes of the calls are distinct steps.                              *)
LEMMA NoDeeperThanSteps ==
  ASSUME Searching
  PROVE  Len(frames) <= Cardinality(Ids)
<1> DEFINE n == Len(frames)
           f == [i \in 1..n |-> frames[i].node]
<1>1. n \in Nat /\ DOMAIN frames = 1..n /\ \A i \in 1..n : frames[i].node \in Ids
  BY CallsAreASequence DEF Searching
<1>2. f \in [1..n -> Ids] /\ \A i \in 1..n : f[i] = frames[i].node
  BY <1>1
<1>3. \A i, j \in 1..n : f[i] = f[j] => i = j
  BY <1>1, <1>2 DEF Searching, SearchInv, CallsFollowBranches
<1>4. f \in Injection(1..n, Ids)
  <2> HIDE DEF f, n
  <2> QED BY <1>2, <1>3, Zenon DEF Injection, IsInjective
<1>5. IsFiniteSet(1..n) /\ Cardinality(1..n) = n
  BY <1>1, FS_Interval
<1>6. IsFiniteSet(Ids)
  BY StepsAreASequence DEF Searching
<1> HIDE DEF f, n
<1>7. Cardinality(1..n) <= Cardinality(Ids)
  BY <1>4, <1>6, FS_Injection
<1> QED BY <1>5, <1>7 DEF n

(* A branch back to a step being visited closes a cycle: the steps of the  *)
(* calls from there to the top.                                            *)
LEMMA BranchBackIsACycle ==
  ASSUME Searching, frames # <<>>, NEW node \in Top.todo, node \in visiting
  PROVE  ~Rules!Acyclic(Built)
<1> DEFINE n == Len(frames)
<1>1. n \in Nat /\ n > 0 /\ DOMAIN frames = 1..n /\ \A i \in 1..n : frames[i].node \in Ids
  BY CallsAreASequence DEF Searching
<1>2. PICK k \in 1..n : frames[k].node = node
  BY <1>1 DEF Searching, CheckTypeOK
<1> DEFINE C == {frames[i].node : i \in k..n}
<1>3. C \in SUBSET Ids /\ node \in C /\ C # {}
  BY <1>1, <1>2
<1>4. ASSUME NEW s \in C PROVE graph[s] \intersect C # {}
  <2>1. PICK i \in k..n : s = frames[i].node
    OBVIOUS
  <2>2. CASE i = n
    <3>1. node \in graph[frames[n].node]
      BY <1>1 DEF Searching, SearchInv, CallsFollowBranches, Top
    <3> QED BY <1>3, <2>1, <2>2, <3>1
  <2>3. CASE i # n
    <3>1. i \in 1..n /\ i < n /\ i + 1 \in k..n
      <4> HIDE DEF n
      <4> QED BY <1>1, <1>2, <2>3
    <3>2. frames[i + 1].node \in graph[frames[i].node]
      BY <1>1, <3>1 DEF Searching, SearchInv, CallsFollowBranches
    <3> QED BY <2>1, <3>1, <3>2
  <2> QED BY <2>2, <2>3
<1>5. /\ DOMAIN Built.steps = Ids
      /\ \A s \in Ids : graph[s] = Rules!Successors(Built, s)
  BY GraphIsSuccessors DEF Searching
<1> HIDE DEF C
<1> QED BY <1>3, <1>4, <1>5 DEF Rules!Acyclic

LEMMA NeighborPreserves ==
  ASSUME CheckInv, NEW node \in Ids, TryNeighbor(node) PROVE CheckInv'
<1> USE SameDocument
<1> DEFINE n == Len(frames)
           rest == [frames EXCEPT ![n].todo = @ \ {node}]
<1>1. Searching /\ frames # <<>> /\ node \in Top.todo
  BY DEF CheckInv, TryNeighbor, Searching
<1>2. /\ doc' = doc /\ roots' = roots /\ visited' = visited /\ seen' = {} /\ stack' = <<>>
  BY <1>1 DEF TryNeighbor, reachVars, Searching
<1>3. /\ n \in Nat /\ n > 0 /\ n \in 1..n /\ DOMAIN frames = 1..n
      /\ \A i \in 1..n : frames[i] \in Frame /\ frames[i].node \in Ids
  <2>1. \A i \in 1..n : frames[i] \in Frame
    BY <1>1 DEF Searching
  <2> QED BY <1>1, <2>1, CallsAreASequence DEF Searching
<1>4. /\ rest \in Seq(Frame) /\ Len(rest) = n /\ DOMAIN rest = 1..n
      /\ \A i \in 1..n : rest[i].node = frames[i].node
      /\ \A i \in 1..n : rest[i].todo = IF i = n THEN frames[i].todo \ {node}
                                                  ELSE frames[i].todo
  <2> DEFINE top == [frames[n] EXCEPT !.todo = @ \ {node}]
  <2>1. top \in Frame /\ top.node = frames[n].node /\ top.todo = frames[n].todo \ {node}
    BY <1>3 DEF Frame
  <2>2. rest = [frames EXCEPT ![n] = top]
    OBVIOUS
  <2> HIDE DEF top, n, rest
  <2>3. /\ rest \in Seq(Frame) /\ Len(rest) = n /\ DOMAIN rest = 1..n
        /\ \A i \in 1..n : rest[i] = IF i = n THEN top ELSE frames[i]
    BY <1>1, <1>3, <2>1, <2>2 DEF Searching, n
  <2> QED BY <2>1, <2>3
<1>10. {rest[i].node : i \in DOMAIN rest} = visiting
  <2>1. visiting = {frames[i].node : i \in 1..n}
    BY <1>1, <1>3 DEF Searching, CheckTypeOK
  <2> HIDE DEF rest, n
  <2> QED BY <1>4, <2>1
<1>5. Len(frames) >= MaxDepth \/ Len(frames) < MaxDepth
  BY <1>3, DepthAssumption
<1>6. CASE Len(frames) >= MaxDepth
  <2>1. phase' = "RecursionError" /\ issues' = {} /\ visiting' = visiting
    BY <1>1, <1>6 DEF TryNeighbor, Call, Searching
  <2>2. frames' = rest \/ frames' = frames
    <3>1. ~Entered(node)
      BY <1>3, <1>6, DepthAssumption DEF Entered
    <3> QED BY <3>1 DEF TryNeighbor
  <2>3. frames' \in Seq(Frame) /\ Len(frames') = n /\ visiting = {frames'[i].node : i \in DOMAIN frames'}
    <3>1. visiting = {frames[i].node : i \in DOMAIN frames} /\ frames \in Seq(Frame)
      BY <1>1 DEF Searching, CheckTypeOK
    <3> HIDE DEF rest, n
    <3>2. CASE frames' = rest
      BY <1>4, <1>10, <3>2
    <3>3. CASE frames' = frames
      BY <3>1, <3>3 DEF n
    <3> QED BY <2>2, <3>2, <3>3
  <2>4. CheckTypeOK'
    BY <1>1, <1>2, <2>1, <2>3 DEF Searching, CheckTypeOK
  <2>5. Cardinality(Ids) >= MaxDepth
    <3>1. n <= Cardinality(Ids) /\ Cardinality(Ids) \in Nat
      BY <1>1, NoDeeperThanSteps, StepsAreASequence DEF Searching
    <3> QED BY <1>3, <1>6, <3>1, DepthAssumption
  <2> QED BY <1>1, <1>2, <2>1, <2>3, <2>4, <2>5
          DEF Searching, CheckInv, VerdictIsExact, OnlyDeepRunbooksRaise
<1>7. CASE Len(frames) < MaxDepth /\ node \in visiting
  <2>1. /\ issues' = {"RBK204"} /\ phase' = "done" /\ visiting' = visiting
        /\ frames' = frames
    <3>1. node \notin visited
      BY <1>1, <1>7 DEF Searching, CheckTypeOK
    <3>2. ~Unknown(node) /\ ~Entered(node) /\ ~(Len(frames) >= MaxDepth)
      BY <1>3, <1>7, DepthAssumption DEF Entered, Unknown
    <3> QED BY <1>7, <3>1, <3>2 DEF TryNeighbor, Call
  <2>2. Expected = {"RBK204"}
    <3>1. ~Rules!Acyclic(Built)
      BY <1>1, <1>7, BranchBackIsACycle
    <3>2. ~(Cardinality(Ids) < Len(doc.steps)) /\ Rules!TargetsExist(Built)
      BY <1>1, StepsAreASequence, TargetsExistIsBranchesExist DEF Searching
    <3> QED BY <3>1, <3>2 DEF Expected
  <2>3. CheckTypeOK'
    BY <1>1, <1>2, <2>1 DEF Searching, CheckTypeOK
  <2> QED BY <1>1, <1>2, <2>1, <2>2, <2>3
          DEF Searching, CheckInv, VerdictIsExact, OnlyDeepRunbooksRaise
<1>8. CASE Len(frames) < MaxDepth /\ node \in visited
  <2>1. /\ issues' = issues /\ phase' = phase /\ visiting' = visiting /\ frames' = rest
    <3>1. node \notin visiting
      BY <1>1, <1>8 DEF Searching, CheckTypeOK
    <3>2. ~Unknown(node) /\ ~Entered(node) /\ ~(Len(frames) >= MaxDepth)
      BY <1>3, <1>8, DepthAssumption DEF Entered, Unknown
    <3> QED BY <1>8, <3>1, <3>2 DEF TryNeighbor, Call
  <2> HIDE DEF rest, n
  <2>2. CallsFollowBranches'
    <3>1. \A i, j \in 1..n : rest[i].node = rest[j].node => i = j
      BY <1>1, <1>3, <1>4 DEF Searching, SearchInv, CallsFollowBranches
    <3>2. \A i \in 1..n : rest[i].todo \subseteq graph[rest[i].node]
      <4>1. \A i \in 1..n : frames[i].todo \subseteq graph[frames[i].node]
        BY <1>1, <1>3 DEF Searching, SearchInv, CallsFollowBranches
      <4> QED BY <1>4, <4>1
    <3>3. \A i \in 1..n : i < n => i + 1 \in 1..n
      BY <1>3
    <3>4. \A i \in 1..n : i < n => rest[i + 1].node \in graph[rest[i].node]
      BY <1>1, <1>3, <1>4, <3>3 DEF Searching, SearchInv, CallsFollowBranches, n
    <3>5. ASSUME NEW i \in 1..n, NEW m \in graph[rest[i].node] \ rest[i].todo
          PROVE  m \in visited \/ (i < n /\ m = rest[i + 1].node)
      <4>1. m = node \/ m \in graph[frames[i].node] \ frames[i].todo
        BY <1>4
      <4>2. \/ m = node \/ m \in visited
            \/ i < n /\ m = frames[i + 1].node
        BY <1>1, <1>3, <4>1 DEF Searching, SearchInv, CallsFollowBranches, n
      <4> QED BY <1>4, <1>8, <3>3, <4>2
    <3> QED BY <1>2, <1>4, <2>1, <3>1, <3>2, <3>4, <3>5 DEF CallsFollowBranches
  <2>3. SearchInv'
    BY <1>1, <1>2, <2>1, <2>2 DEF Searching, SearchInv, VisitedIsSound
  <2>4. CheckTypeOK'
    <3>1. /\ visiting' = {frames'[i].node : i \in DOMAIN frames'} /\ Len(frames') = Len(frames)
      BY <1>4, <1>10, <2>1 DEF n
    <3> QED BY <1>1, <1>2, <2>1, <3>1 DEF Searching, CheckTypeOK
  <2>5. Searching'
    BY <1>1, <1>2, <1>4, <2>1, <2>3, <2>4 DEF Searching
  <2> QED BY <2>5, SearchGoesOn
<1>9. CASE Len(frames) < MaxDepth /\ Unknown(node)
  <2> DEFINE call == [node |-> node, todo |-> graph[node]]
  <2>1. /\ issues' = issues /\ phase' = phase /\ visiting' = visiting \union {node}
        /\ frames' = Append(rest, call)
    <3>1. Entered(node) /\ ~(Len(frames) >= MaxDepth)
      BY <1>3, <1>9, DepthAssumption DEF Entered
    <3> QED BY <1>9, <3>1 DEF TryNeighbor, Call
  <2>2. call \in Frame /\ call.node = node /\ call.todo = graph[node]
    BY <1>1 DEF Frame, Searching, BranchesExist
  <2> HIDE DEF rest, call, n
  <2>3. /\ frames' \in Seq(Frame) /\ Len(frames') = n + 1 /\ DOMAIN frames' = 1..n + 1
        /\ \A i \in 1..n : frames'[i] = rest[i]
        /\ frames'[n + 1] = call
    BY <1>3, <1>4, <2>1, <2>2
  <2>4. \A i \in 1..n + 1 : i \in 1..n \/ i = n + 1
    BY <1>3
  <2>5. node \in graph[frames[n].node]
    BY <1>1, <1>3 DEF Searching, SearchInv, CallsFollowBranches, Top, n
  <2>6. CallsFollowBranches'
    <3>1. \A i, j \in 1..n + 1 : frames'[i].node = frames'[j].node => i = j
      <4>1. \A i \in 1..n : frames[i].node # node
        BY <1>1, <1>3, <1>9 DEF Searching, CheckTypeOK, Unknown
      <4>2. \A i, j \in 1..n : frames[i].node = frames[j].node => i = j
        BY <1>1, <1>3 DEF Searching, SearchInv, CallsFollowBranches
      <4> QED BY <1>4, <2>2, <2>3, <2>4, <4>1, <4>2
    <3>2. \A i \in 1..n + 1 : frames'[i].todo \subseteq graph[frames'[i].node]
      <4>1. \A i \in 1..n : frames[i].todo \subseteq graph[frames[i].node]
        BY <1>1, <1>3 DEF Searching, SearchInv, CallsFollowBranches
      <4>2. \A i \in 1..n : rest[i].todo \subseteq graph[rest[i].node]
        BY <1>4, <4>1
      <4> QED BY <2>2, <2>3, <2>4, <4>2
    <3>3. \A i \in 1..n + 1 : i < n + 1 => frames'[i + 1].node \in graph[frames'[i].node]
      <4>1. \A i \in 1..n : i = n \/ (i < n /\ i + 1 \in 1..n)
        BY <1>3
      <4>2. \A i \in 1..n : i < n => frames[i + 1].node \in graph[frames[i].node]
        BY <1>1, <1>3 DEF Searching, SearchInv, CallsFollowBranches, n
      <4> QED BY <1>3, <1>4, <2>2, <2>3, <2>4, <2>5, <4>1, <4>2
    <3>4. ASSUME NEW i \in 1..n + 1, NEW m \in graph[frames'[i].node] \ frames'[i].todo
          PROVE  m \in visited \/ (i < n + 1 /\ m = frames'[i + 1].node)
      <4>1. CASE i = n + 1
        BY <2>2, <2>3, <4>1
      <4>2. CASE i = n
        <5>1. /\ frames'[i].node = frames[n].node
              /\ frames'[i].todo = frames[n].todo \ {node}
          BY <1>3, <1>4, <2>3, <4>2
        <5>2. m = node \/ m \in graph[frames[n].node] \ frames[n].todo
          BY <5>1
        <5>3. \A k \in graph[frames[n].node] \ frames[n].todo : k \in visited
          BY <1>1, <1>3 DEF Searching, SearchInv, CallsFollowBranches, n
        <5> QED BY <1>3, <2>2, <2>3, <4>2, <5>2, <5>3
      <4>3. CASE i \in 1..n /\ i < n
        <5>1. frames'[i].node = frames[i].node /\ frames'[i].todo = frames[i].todo
          <6>1. i # n
            BY <1>3, <4>3
          <6> QED BY <1>4, <2>3, <4>3, <6>1
        <5>2. m \in visited \/ m = frames[i + 1].node
          BY <1>1, <1>3, <4>3, <5>1 DEF Searching, SearchInv, CallsFollowBranches, n
        <5>3. i + 1 \in 1..n /\ i < n + 1
          BY <1>3, <4>3
        <5> QED BY <1>4, <2>3, <5>2, <5>3
      <4> QED BY <1>3, <2>4, <4>1, <4>2, <4>3
    <3> QED BY <1>2, <2>3, <3>1, <3>2, <3>3, <3>4 DEF CallsFollowBranches
  <2>7. SearchInv'
    BY <1>1, <1>2, <2>1, <2>6 DEF Searching, SearchInv, VisitedIsSound
  <2>8. CheckTypeOK'
    <3>1. visiting' = {frames'[i].node : i \in DOMAIN frames'}
      <4>1. visiting = {frames[i].node : i \in 1..n}
        BY <1>1, <1>3 DEF Searching, CheckTypeOK
      <4>2. n + 1 \in 1..n + 1 /\ \A i \in 1..n : i \in 1..n + 1
        BY <1>3
      <4> QED BY <1>4, <2>1, <2>2, <2>3, <2>4, <4>1, <4>2
    <3>2. visited' \subseteq Ids' \ visiting'
      BY <1>1, <1>2, <1>9, <2>1 DEF Searching, CheckTypeOK, Unknown
    <3>3. Len(frames') <= MaxDepth
      BY <1>3, <1>9, <2>3, DepthAssumption DEF n
    <3> QED BY <1>1, <1>2, <2>1, <3>1, <3>2, <3>3 DEF Searching, CheckTypeOK
  <2>9. Searching'
    BY <1>1, <1>2, <2>1, <2>3, <2>7, <2>8 DEF Searching
  <2> QED BY <2>9, SearchGoesOn
<1> QED BY <1>5, <1>6, <1>7, <1>8, <1>9 DEF Unknown

LEMMA LeavePreserves ==
  ASSUME CheckInv, LeaveNode PROVE CheckInv'
<1> USE SameDocument
<1> DEFINE n == Len(frames)
           top == frames[n].node
           below == SubSeq(frames, 1, n - 1)
<1>1. Searching /\ frames # <<>> /\ Top.todo = {}
  BY DEF CheckInv, LeaveNode, Searching
<1>2. /\ doc' = doc /\ roots' = roots /\ phase' = phase /\ issues' = issues
      /\ seen' = {} /\ stack' = <<>>
      /\ visiting' = visiting \ {top} /\ visited' = visited \union {top}
      /\ frames' = below
  BY <1>1 DEF LeaveNode, reachVars, Searching, Top
<1>3. /\ n \in Nat /\ n > 0 /\ n \in 1..n /\ DOMAIN frames = 1..n
      /\ \A i \in 1..n : frames[i] \in Frame /\ frames[i].node \in Ids
  <2>1. \A i \in 1..n : frames[i] \in Frame
    BY <1>1 DEF Searching
  <2> QED BY <1>1, <2>1, CallsAreASequence DEF Searching
<1>4. frames[n].todo = {} /\ top \in Ids
  BY <1>1, <1>3 DEF Top
<1>5. /\ frames' \in Seq(Frame) /\ Len(frames') = n - 1 /\ DOMAIN frames' = 1..n - 1
      /\ \A i \in 1..n - 1 : frames'[i] = frames[i] /\ i \in 1..n
  BY <1>1, <1>2, <1>3 DEF Searching
<1>6. /\ \A i, j \in 1..n : frames[i].node = frames[j].node => i = j
      /\ \A i \in 1..n : frames[i].todo \subseteq graph[frames[i].node]
      /\ \A i \in 1..n : i < n => frames[i + 1].node \in graph[frames[i].node]
      /\ \A i \in 1..n : \A m \in graph[frames[i].node] \ frames[i].todo :
            m \in visited \/ (i < n /\ m = frames[i + 1].node)
  BY <1>1, <1>3 DEF Searching, SearchInv, CallsFollowBranches
<1>7. visiting = {frames[i].node : i \in 1..n}
  BY <1>1, <1>3 DEF Searching, CheckTypeOK
<1>8. top \in visiting /\ top \notin visited
  BY <1>1, <1>3, <1>7 DEF Searching, CheckTypeOK
<1>9. graph[top] \subseteq visited
  BY <1>3, <1>4, <1>6
<1> HIDE DEF n, top, below
<1>10. visiting' = {frames'[i].node : i \in DOMAIN frames'}
  <2>1. \A i \in 1..n : i = n \/ i \in 1..n - 1
    BY <1>3
  <2>2. \A i \in 1..n - 1 : i # n
    BY <1>3
  <2>3. top = frames[n].node
    BY DEF top
  <2>4. ASSUME NEW m \in visiting, m # top
        PROVE  \E i \in 1..n - 1 : m = frames'[i].node
    BY <1>5, <1>7, <2>1, <2>3, <2>4
  <2>5. ASSUME NEW i \in 1..n - 1
        PROVE  frames'[i].node \in visiting /\ frames'[i].node # top
    BY <1>3, <1>5, <1>6, <1>7, <2>2, <2>3
  <2> QED BY <1>2, <1>5, <2>4, <2>5
<1>11. CallsFollowBranches'
  <2>1. \A i \in 1..n - 1 : i < n - 1 => i < n /\ i + 1 \in 1..n - 1
    BY <1>3
  <2>2. \A i \in 1..n - 1 : i < n /\ (i < n - 1 \/ i + 1 = n)
    BY <1>3
  <2>3. ASSUME NEW i \in 1..n - 1, NEW m \in graph[frames'[i].node] \ frames'[i].todo
        PROVE  m \in visited' \/ (i < n - 1 /\ m = frames'[i + 1].node)
    <3>1. m \in visited \/ m = frames[i + 1].node
      BY <1>5, <1>6
    <3>2. CASE i + 1 = n
      BY <1>2, <3>1, <3>2 DEF top
    <3>3. CASE i < n - 1
      BY <1>2, <1>5, <2>1, <3>1, <3>3
    <3> QED BY <2>2, <3>2, <3>3
  <2>4. \A i, j \in 1..n - 1 : frames'[i].node = frames'[j].node => i = j
    BY <1>5, <1>6
  <2>5. \A i \in 1..n - 1 : frames'[i].todo \subseteq graph[frames'[i].node]
    BY <1>5, <1>6
  <2>6. \A i \in 1..n - 1 : i < n - 1 => frames'[i + 1].node \in graph[frames'[i].node]
    BY <1>5, <1>6, <2>1
  <2> QED BY <1>2, <1>5, <2>3, <2>4, <2>5, <2>6 DEF CallsFollowBranches
<1>12. VisitedIsSound'
  <2>1. \A s \in visited' : graph[s] \subseteq visited'
    BY <1>1, <1>2, <1>9 DEF Searching, SearchInv, VisitedIsSound
  <2>2. ASSUME NEW C \in SUBSET visited', C # {}
        PROVE  \E s \in C : graph[s] \intersect C = {}
    <3>1. CASE C \ {top} = {}
      BY <1>8, <1>9, <2>2, <3>1
    <3>2. CASE C \ {top} # {}
      <4>1. C \ {top} \in SUBSET visited
        BY <1>2
      <4>2. PICK s \in C \ {top} : graph[s] \intersect (C \ {top}) = {}
        BY <1>1, <3>2, <4>1 DEF Searching, SearchInv, VisitedIsSound
      <4>3. graph[s] \subseteq visited
        BY <1>1, <4>1 DEF Searching, SearchInv, VisitedIsSound
      <4> QED BY <1>8, <4>2, <4>3
    <3> QED BY <3>1, <3>2
  <2> QED BY <1>2, <2>1, <2>2 DEF VisitedIsSound
<1>13. SearchInv'
  BY <1>1, <1>2, <1>11, <1>12 DEF Searching, SearchInv
<1>14. CheckTypeOK'
  <2>1. visited' \subseteq Ids \ visiting'
    BY <1>1, <1>2, <1>4 DEF Searching, CheckTypeOK
  <2>2. Len(frames') <= MaxDepth
    BY <1>1, <1>3, <1>5, DepthAssumption DEF Searching, CheckTypeOK, n
  <2> QED BY <1>1, <1>2, <1>10, <2>1, <2>2 DEF Searching, CheckTypeOK
<1>15. Searching'
  BY <1>1, <1>2, <1>5, <1>13, <1>14 DEF Searching
<1> QED BY <1>15, SearchGoesOn

LEMMA NoCyclePreserves ==
  ASSUME CheckInv, NoCycle PROVE CheckInv'
<1> USE SameDocument
<1>1. Searching /\ frames = <<>> /\ roots = {} /\ visiting = {}
  BY DEF CheckInv, NoCycle, Searching, CheckTypeOK
<1>2. /\ doc' = doc /\ issues' = issues /\ roots' = roots /\ frames' = frames
      /\ visiting' = visiting /\ visited' = visited /\ seen' = {}
      /\ stack' = <<doc.entry>> /\ phase' = "reachable"
  BY <1>1 DEF NoCycle, dfsVars, Searching
<1>3. visited = Ids
  BY <1>1 DEF Searching, SearchInv, CheckTypeOK
<1>4. Rules!Acyclic(Built)
  BY <1>1, <1>3, GraphIsSuccessors
     DEF Searching, SearchInv, VisitedIsSound, Rules!Acyclic
<1>5. WorklistInv'
  <2>1. doc.entry \in Ids
    BY <1>1 DEF Searching, BranchesExist
  <2>2. stack' \in Seq(Ids) /\ ToSet(stack') = {doc.entry}
    BY <1>2, <2>1 DEF ToSet
  <2>3. Met' = {doc.entry}
    BY <1>2, <2>2 DEF Met
  <2> QED BY <1>2, <2>2, <2>3 DEF WorklistInv
<1>6. CheckTypeOK'
  BY <1>1, <1>2 DEF Searching, CheckTypeOK
<1> QED BY <1>1, <1>2, <1>4, <1>5, <1>6
        DEF Searching, CheckInv, VerdictIsExact, OnlyDeepRunbooksRaise

LEMMA PushesAll ==
  ASSUME NEW S, IsFiniteSet(S), NEW p \in Pushes(S)
  PROVE  p \in Seq(S) /\ ToSet(p) = S
<1>1. Cardinality(S) \in Nat
  BY FS_CardinalityType
<1>2. p \in [1..Cardinality(S) -> S] /\ \A x \in S : \E i \in DOMAIN p : p[i] = x
  BY DEF Pushes
<1> QED BY <1>1, <1>2 DEF ToSet

LEMMA PopPreserves ==
  ASSUME CheckInv, PopStep PROVE CheckInv'
<1> USE SameDocument
<1> DEFINE current == stack[Len(stack)]
           rest == SubSeq(stack, 1, Len(stack) - 1)
           marked == seen \union {current}
<1>1. /\ phase = "reachable" /\ stack # <<>> /\ doc \in Documents /\ issues = {}
      /\ NoRepeat /\ BranchesExist /\ WorklistInv /\ CheckTypeOK
      /\ stack \in Seq(Ids) /\ Rules!Acyclic(Built) /\ frames \in Seq(Frame)
  BY DEF CheckInv, PopStep, WorklistInv
<1>2. /\ doc' = doc /\ phase' = phase /\ issues' = issues /\ roots' = roots
      /\ frames' = frames /\ visiting' = visiting /\ visited' = visited
  BY DEF PopStep, dfsVars
<1>3. /\ current \in Ids /\ rest \in Seq(Ids)
      /\ ToSet(stack) = ToSet(rest) \union {current}
  BY <1>1, ToSetOfTheRest
<1>4. \/ current \in seen /\ stack' = rest /\ seen' = seen
      \/ /\ current \notin seen /\ seen' = marked
         /\ \E p \in Pushes(graph[current] \ marked) : stack' = rest \o p
  BY <1>1 DEF PopStep
<1> HIDE DEF current, rest
<1>5. graph[current] \subseteq Ids
  BY <1>1, <1>3 DEF BranchesExist
<1>6. /\ stack' \in Seq(Ids) /\ seen' \subseteq Ids
      /\ \/ seen' = seen /\ Met' = Met
         \/ seen' = marked /\ Met' = Met \union graph[current]
  <2>1. CASE current \in seen /\ stack' = rest /\ seen' = seen
    BY <1>1, <1>3, <2>1 DEF Met, CheckTypeOK
  <2>2. CASE /\ current \notin seen /\ seen' = marked
             /\ \E p \in Pushes(graph[current] \ marked) : stack' = rest \o p
    <3> DEFINE new == graph[current] \ marked
    <3>1. PICK p \in Pushes(new) : stack' = rest \o p
      BY <2>2
    <3>2. IsFiniteSet(Ids)
      BY <1>1, StepsAreASequence
    <3>3. new \in SUBSET Ids
      BY <1>5
    <3>4. IsFiniteSet(new)
      BY <3>2, <3>3, FS_Subset
    <3>5. p \in Seq(new) /\ ToSet(p) = new
      BY <3>4, PushesAll
    <3>6. p \in Seq(Ids)
      BY <3>3, <3>5
    <3>7. stack' \in Seq(Ids) /\ ToSet(stack') = ToSet(rest) \union new
      BY <1>3, <3>1, <3>5, <3>6, ToSetOfConcatenation
    <3>8. Met' = Met \union graph[current]
      BY <1>3, <2>2, <3>7 DEF Met
    <3> QED BY <1>1, <1>3, <2>2, <3>7, <3>8 DEF CheckTypeOK
  <2> QED BY <1>4, <2>1, <2>2
<1>7. current \in Met
  BY <1>3 DEF Met
<1>8. WorklistInv'
  <2>1. doc'.entry \in Met'
    BY <1>1, <1>2, <1>6 DEF WorklistInv
  <2>2. \A s \in seen' : graph'[s] \subseteq Met'
    BY <1>1, <1>2, <1>6 DEF WorklistInv
  <2>3. ASSUME NEW R \in SUBSET Ids, doc.entry \in R, \A s \in R : graph[s] \subseteq R
        PROVE  Met' \subseteq R
    BY <1>1, <1>6, <1>7, <2>3 DEF WorklistInv
  <2> QED BY <1>2, <1>6, <2>1, <2>2, <2>3 DEF WorklistInv
<1>9. CheckTypeOK'
  BY <1>1, <1>2, <1>6 DEF CheckTypeOK
<1> QED BY <1>1, <1>2, <1>8, <1>9 DEF CheckInv, VerdictIsExact, OnlyDeepRunbooksRaise

LEMMA ReachablePreserves ==
  ASSUME CheckInv, CheckReachable PROVE CheckInv'
<1> USE SameDocument
<1>1. /\ phase = "reachable" /\ stack = <<>> /\ doc \in Documents
      /\ NoRepeat /\ BranchesExist /\ WorklistInv /\ CheckTypeOK
      /\ Rules!Acyclic(Built) /\ frames \in Seq(Frame)
  BY DEF CheckInv, CheckReachable
<1>2. /\ doc' = doc /\ phase' = "done" /\ roots' = roots /\ seen' = seen
      /\ frames' = frames /\ visiting' = visiting /\ visited' = visited
      /\ issues' = IF Ids \subseteq seen THEN {} ELSE {"RBK203"}
  BY DEF CheckReachable, dfsVars, reachVars
<1>3. Met = seen
  BY <1>1 DEF Met, ToSet
<1>4. /\ DOMAIN Built.steps = Ids /\ Built.entry = doc.entry
      /\ \A s \in Ids : graph[s] = Rules!Successors(Built, s)
  BY <1>1, GraphIsSuccessors
<1>5. Ids \subseteq seen <=> Rules!AllReachable(Built)
  <2>1. seen \in SUBSET Ids /\ doc.entry \in seen /\ \A s \in seen : graph[s] \subseteq seen
    BY <1>1, <1>3 DEF WorklistInv, CheckTypeOK
  <2>2. \A R \in SUBSET Ids :
           (doc.entry \in R /\ \A s \in R : graph[s] \subseteq R) => seen \subseteq R
    BY <1>1, <1>3 DEF WorklistInv
  <2>3. Rules!AllReachable(Built)
          <=> \A R \in SUBSET Ids :
                 (doc.entry \in R /\ \A s \in R : graph[s] \subseteq R) => R = Ids
    BY <1>4 DEF Rules!AllReachable
  <2> QED BY <2>1, <2>2, <2>3
<1>6. issues' = Expected
  <2>1. ~(Cardinality(Ids) < Len(doc.steps)) /\ Rules!TargetsExist(Built)
    BY <1>1, StepsAreASequence, TargetsExistIsBranchesExist
  <2> QED BY <1>1, <1>2, <1>5, <2>1 DEF Expected
<1>7. CheckTypeOK'
  BY <1>1, <1>2 DEF CheckTypeOK
<1> QED BY <1>1, <1>2, <1>6, <1>7 DEF CheckInv, VerdictIsExact, OnlyDeepRunbooksRaise

LEMMA CheckUnchangedInv ==
  ASSUME CheckInv, UNCHANGED checkVars PROVE CheckInv'
<1>1. /\ doc' = doc /\ phase' = phase /\ issues' = issues /\ roots' = roots
      /\ frames' = frames /\ visiting' = visiting /\ visited' = visited
      /\ seen' = seen /\ stack' = stack
  BY DEF checkVars, dfsVars, reachVars
<1>2. CheckTypeOK' /\ SearchInv' = SearchInv /\ WorklistInv' = WorklistInv
  BY <1>1, SameDocument DEF CheckInv, CheckTypeOK, SearchInv, CallsFollowBranches,
     VisitedIsSound, WorklistInv, Met
<1> QED BY <1>1, <1>2, SameDocument
        DEF CheckInv, SearchUntouched, VerdictIsExact, OnlyDeepRunbooksRaise

LEMMA CheckNextInv == CheckInv /\ [CheckStep]_checkVars => CheckInv'
BY DuplicatesPreserves, TargetsPreserves, RootPreserves, NeighborPreserves,
   LeavePreserves, NoCyclePreserves, PopPreserves, ReachablePreserves, CheckUnchangedInv
   DEF CheckStep

(* Whatever else the compiler does, it leaves the validation alone, or     *)
(* makes one of its steps.                                                 *)
THEOREM SemanticValidation == CompileSpec => []CheckInv
<1>1. CompileInit => CheckInv
  BY CheckInitInv DEF CompileInit
<1>2. CheckInv /\ [CompileNext]_compileVars => CheckInv'
  <2>1. [CompileNext]_compileVars => [CheckStep]_checkVars
    BY DEF CompileNext, CompileStep, Load, NotARunbook, Check, CollectIssues,
           RenderStep, Build, compileVars
  <2> QED BY <2>1, CheckNextInv
<1> QED BY <1>1, <1>2, PTL DEF CompileSpec

----------------------------------------------------------------------------
(* The stages of the compiler and its rendering.  A field fails if it is   *)
(* malformed or names a variable that is not given and has no sound text   *)
(* of its own; in any other it is replaced by what is used for it.         *)

Collected == doc.schema \union issues \union AllowlistIssues

Sound == DOMAIN doc.vars \ FaultyVariables

SoundNames == {doc.vars[i].name : i \in Sound}

Usable == SoundNames \union DOMAIN runtime

Used(n) == IF n \in SoundNames THEN Meaning(n) ELSE runtime[n]

Fails(text) == Malformed \in ToSet(text) \/ ~(References(text) \subseteq Usable)

Said(text) ==
  FlattenSeq([j \in DOMAIN text |->
                IF text[j] \in Names THEN Used(text[j]) ELSE <<text[j]>>])

Shown(text) == IF Fails(text) THEN text ELSE Said(text)

Reported == {issue.at : issue \in templateIssues}

StageInv ==
  /\ stage \in {"loading", "checking", "rendering", "unreadable", "refused",
                "unrendered", "compiled"}
  /\ stage \in {"loading", "unreadable"} => phase = "duplicates"
  /\ stage = "refused" => phase = "duplicates" \/ (phase = "done" /\ Collected # {})
  /\ stage \in {"rendering", "unrendered", "compiled"} => phase = "done" /\ Collected = {}
  /\ stage \in {"unrendered", "compiled"} =>
        pos > Places /\ (stage = "compiled" <=> templateIssues = {})

RenderInv ==
  /\ runtime \in RuntimeValues /\ pos \in 1..Places + 1
  /\ DOMAIN renderedVars = {doc.vars[i].name : i \in {k \in Sound : k < pos}}
  /\ \A i \in Sound : i < pos => renderedVars[doc.vars[i].name] = Meaning(doc.vars[i].name)
  /\ rendered = [i \in {k \in DOMAIN Fields : Len(doc.vars) + k < pos} |-> Shown(Fields[i])]
  /\ Reported = {k \in FaultyVariables : k < pos}
                  \union {Len(doc.vars) + i :
                            i \in {k \in DOMAIN Fields : /\ Len(doc.vars) + k < pos
                                                        /\ Fails(Fields[k])}}

CompileInv == CheckInv /\ StageInv /\ RenderInv

LEMMA SequenceTyped ==
  ASSUME NEW s, IsSequence(s)
  PROVE  /\ Len(s) \in Nat /\ DOMAIN s = 1..Len(s) /\ s \in Seq(ToSet(s))
         /\ \A P : ToSet(s) \subseteq P => s \in Seq(P)
BY DEF IsSequence, ToSet

LEMMA VariablesTyped ==
  ASSUME doc \in Documents, runtime \in RuntimeValues
  PROVE  /\ Len(doc.vars) \in Nat /\ DOMAIN doc.vars = 1..Len(doc.vars)
         /\ \A i, j \in DOMAIN doc.vars : doc.vars[i].name = doc.vars[j].name => i = j
         /\ \A i \in DOMAIN doc.vars :
               /\ doc.vars[i].name \in Names /\ doc.vars[i].isText \in BOOLEAN
               /\ IsSequence(doc.vars[i].value)
               /\ RawValues[doc.vars[i].name] = doc.vars[i].value
         /\ DOMAIN RawValues = {doc.vars[i].name : i \in DOMAIN doc.vars}
         /\ Known \subseteq Names /\ \A n \in DOMAIN runtime : IsSequence(runtime[n])
<1>1. /\ IsSequence(doc.vars)
      /\ \A i \in DOMAIN doc.vars :
            /\ doc.vars[i].name \in Names
            /\ doc.vars[i].isText \in BOOLEAN /\ IsSequence(doc.vars[i].value)
            /\ \A j \in DOMAIN doc.vars : doc.vars[i].name = doc.vars[j].name => i = j
      /\ DOMAIN runtime \subseteq Names /\ \A n \in DOMAIN runtime : IsSequence(runtime[n])
  BY TextsAssumption
<1>2. DOMAIN RawValues = {doc.vars[i].name : i \in DOMAIN doc.vars}
  BY DEF RawValues, RawVars
<1>3. ASSUME NEW i \in DOMAIN doc.vars
      PROVE  RawValues[doc.vars[i].name] = doc.vars[i].value
  <2>1. (CHOOSE j \in DOMAIN doc.vars : doc.vars[j].name = doc.vars[i].name) = i
    BY <1>1
  <2> QED BY <2>1 DEF RawValues, RawVars
<1>4. Known \subseteq Names
  BY <1>1, <1>2 DEF Known
<1> QED BY <1>1, <1>2, <1>3, <1>4, SequenceTyped

LEMMA FieldsTyped ==
  ASSUME doc \in Documents
  PROVE  /\ Len(Fields) \in Nat /\ DOMAIN Fields = 1..Len(Fields)
         /\ \A i \in DOMAIN Fields : IsSequence(Fields[i])
<1> DEFINE lists == [i \in DOMAIN doc.steps |-> doc.steps[i].texts]
           P == UNION {ToSet(doc.steps[i].texts) : i \in DOMAIN doc.steps}
<1>1. /\ DOMAIN doc.steps = 1..Len(doc.steps) /\ Len(doc.steps) \in Nat
      /\ \A i \in DOMAIN doc.steps :
            /\ IsSequence(doc.steps[i].texts)
            /\ \A j \in DOMAIN doc.steps[i].texts : IsSequence(doc.steps[i].texts[j])
  BY StepsAreASequence, TextsAssumption
<1>2. ASSUME NEW i \in DOMAIN doc.steps PROVE doc.steps[i].texts \in Seq(P)
  <2>1. ToSet(doc.steps[i].texts) \subseteq P
    OBVIOUS
  <2> QED BY <1>1, <2>1, SequenceTyped
<1>3. lists \in Seq(Seq(P)) /\ DOMAIN lists = 1..Len(doc.steps)
  BY <1>1, <1>2
<1>4. \A t \in P : IsSequence(t)
  BY <1>1 DEF ToSet
<1> HIDE DEF P
<1>5. Fields \in Seq(P)
  BY <1>3, FlattenSeqPieces DEF Fields
<1> QED BY <1>4, <1>5

LEMMA TextIssueIff ==
  ASSUME NEW text, NEW context
  PROVE  TextIssue(text, context) # {}
           <=> Malformed \in ToSet(text) \/ ~(References(text) \subseteq DOMAIN context)
BY DEF TextIssue, ToSet

LEMMA FaultyIff ==
  ASSUME doc \in Documents, runtime \in RuntimeValues, NEW text
  PROVE  Faulty(text) <=> Malformed \in ToSet(text) \/ ~(References(text) \subseteq Known)
<1>1. Malformed \notin Known
  BY VariablesTyped, PieceAssumption
<1>2. Markup(text) = (ToSet(text) \intersect {Malformed}) \union References(text)
  BY DEF Markup, References, ToSet
<1> QED BY <1>1, <1>2 DEF Faulty

LEMMA OverIs ==
  ASSUME NEW f, NEW g
  PROVE  /\ DOMAIN Over(f, g) = DOMAIN f \union DOMAIN g
         /\ \A n \in DOMAIN f : Over(f, g)[n] = f[n]
         /\ \A n \in DOMAIN g : n \notin DOMAIN f => Over(f, g)[n] = g[n]
BY DEF Over

(* What a variable is rendered with, whatever was rendered before it.      *)
LEMMA VariableContextIs ==
  ASSUME CheckInv, RenderInv
  PROVE  /\ DOMAIN VariableContext(doc.vars) = Known
         /\ \A n \in Known : VariableContext(doc.vars)[n] = Given(n)
<1>1. doc \in Documents /\ runtime \in RuntimeValues
  BY DEF CheckInv, RenderInv
<1>2. DOMAIN renderedVars \subseteq DOMAIN RawValues
  BY <1>1, VariablesTyped DEF RenderInv, Sound
<1> DEFINE low == Over(renderedVars, runtime)
<1>3. DOMAIN VariableContext(doc.vars) = DOMAIN RawValues \union DOMAIN low
  BY OverIs DEF VariableContext, RawValues
<1>4. DOMAIN low = DOMAIN renderedVars \union DOMAIN runtime
  BY OverIs
<1>5. \A n \in DOMAIN RawValues : VariableContext(doc.vars)[n] = RawValues[n]
  BY OverIs DEF VariableContext, RawValues
<1>6. \A n \in DOMAIN low : n \notin DOMAIN RawValues => VariableContext(doc.vars)[n] = low[n]
  BY OverIs DEF VariableContext, RawValues
<1>7. \A n \in DOMAIN runtime : n \notin DOMAIN renderedVars => low[n] = runtime[n]
  BY OverIs
<1> HIDE DEF low
<1> QED BY <1>2, <1>3, <1>4, <1>5, <1>6, <1>7 DEF Known, Given

LEMMA VariableMeans ==
  ASSUME CheckInv, RenderInv, NEW i \in DOMAIN doc.vars
  PROVE  LET v == doc.vars[i]
             context == VariableContext(doc.vars)
         IN /\ (IF v.isText THEN TextIssue(v.value, context) ELSE {}) # {}
                  <=> i \in FaultyVariables
            /\ i \in Sound => VariableValue(v, context) = Meaning(v.name)
<1> DEFINE v == doc.vars[i]
           context == VariableContext(doc.vars)
<1>1. doc \in Documents /\ runtime \in RuntimeValues
  BY DEF CheckInv, RenderInv
<1>2. /\ v.isText \in BOOLEAN /\ RawValues[v.name] = v.value
      /\ \A j \in DOMAIN doc.vars : doc.vars[j].name = v.name <=> j = i
      /\ v.name \in DOMAIN RawValues
  BY <1>1, VariablesTyped
<1>3. DOMAIN context = Known /\ \A n \in Known : context[n] = Given(n)
  BY VariableContextIs
<1>4. (\E j \in Texts : doc.vars[j].name = v.name) <=> v.isText
  BY <1>2 DEF Texts
<1>5. (IF v.isText THEN TextIssue(v.value, context) ELSE {}) # {} <=> i \in FaultyVariables
  <2>1. Faulty(v.value) <=> TextIssue(v.value, context) # {}
    BY <1>1, <1>3, FaultyIff, TextIssueIff
  <2>2. i \in FaultyVariables <=> v.isText /\ Faulty(v.value)
    BY DEF FaultyVariables, Texts
  <2> QED BY <1>2, <2>1, <2>2
<1>6. ASSUME i \in Sound PROVE VariableValue(v, context) = Meaning(v.name)
  <2>1. CASE ~v.isText
    BY <1>2, <1>4, <2>1 DEF VariableValue, Meaning, Given
  <2>2. CASE v.isText
    <3>1. References(v.value) \subseteq Known
      <4>1. ~Faulty(v.value)
        BY <1>6, <2>2 DEF Sound, FaultyVariables, Texts
      <4> QED BY <1>1, <4>1, FaultyIff
    <3>2. ASSUME NEW k \in DOMAIN v.value, v.value[k] \in Names
          PROVE  context[v.value[k]] = Given(v.value[k])
      BY <1>3, <3>1, <3>2 DEF References
    <3>3. [k \in DOMAIN v.value |-> IF v.value[k] \in Names THEN context[v.value[k]]
                                                          ELSE <<v.value[k]>>]
            = [k \in DOMAIN v.value |-> IF v.value[k] \in Names THEN Given(v.value[k])
                                                            ELSE <<v.value[k]>>]
      BY <3>2
    <3>4. VariableValue(v, context) = Substitute(v.value, context)
      BY <2>2 DEF VariableValue
    <3>5. Meaning(v.name) =
             FlattenSeq([k \in DOMAIN v.value |-> IF v.value[k] \in Names
                                                    THEN Given(v.value[k])
                                                    ELSE <<v.value[k]>>])
      BY <1>2, <1>4, <2>2 DEF Meaning
    <3> QED BY <3>3, <3>4, <3>5 DEF Substitute
  <2> QED BY <1>2, <2>1, <2>2
<1> QED BY <1>5, <1>6

(* What the fields are rendered with, once every variable has been.        *)
LEMMA FieldMeans ==
  ASSUME CheckInv, RenderInv, pos > Len(doc.vars), NEW i \in DOMAIN Fields
  PROVE  /\ TextIssue(Fields[i], FieldContext) # {} <=> Fails(Fields[i])
         /\ ~Fails(Fields[i]) => Substitute(Fields[i], FieldContext) = Said(Fields[i])
<1>1. doc \in Documents /\ runtime \in RuntimeValues
  BY DEF CheckInv, RenderInv
<1>2. /\ Len(doc.vars) \in Nat /\ DOMAIN doc.vars = 1..Len(doc.vars)
      /\ pos \in Int
  BY <1>1, VariablesTyped DEF RenderInv
<1>3. \A k \in Sound : k < pos
  BY <1>2 DEF Sound
<1>4. DOMAIN renderedVars = SoundNames
  <2>1. {k \in Sound : k < pos} = Sound
    BY <1>3
  <2> QED BY <2>1 DEF RenderInv, SoundNames
<1>5. \A n \in SoundNames : renderedVars[n] = Meaning(n)
  BY <1>3 DEF RenderInv, SoundNames
<1>6. DOMAIN FieldContext = Usable /\ \A n \in Usable : FieldContext[n] = Used(n)
  <2>1. DOMAIN FieldContext = DOMAIN renderedVars \union DOMAIN runtime
    BY OverIs DEF FieldContext
  <2>2. \A n \in DOMAIN renderedVars : FieldContext[n] = renderedVars[n]
    BY OverIs DEF FieldContext
  <2>3. \A n \in DOMAIN runtime : n \notin DOMAIN renderedVars => FieldContext[n] = runtime[n]
    BY OverIs DEF FieldContext
  <2> QED BY <1>4, <1>5, <2>1, <2>2, <2>3 DEF Usable, Used
<1>7. TextIssue(Fields[i], FieldContext) # {} <=> Fails(Fields[i])
  BY <1>6, TextIssueIff DEF Fails
<1>8. ASSUME ~Fails(Fields[i])
      PROVE  Substitute(Fields[i], FieldContext) = Said(Fields[i])
  <2> DEFINE text == Fields[i]
  <2>1. References(text) \subseteq Usable
    BY <1>8 DEF Fails
  <2>2. \A k \in DOMAIN text : text[k] \in Names => FieldContext[text[k]] = Used(text[k])
    BY <1>6, <2>1 DEF References
  <2>3. [k \in DOMAIN text |-> IF text[k] \in Names THEN FieldContext[text[k]] ELSE <<text[k]>>]
          = [k \in DOMAIN text |-> IF text[k] \in Names THEN Used(text[k]) ELSE <<text[k]>>]
    BY <2>2
  <2> HIDE DEF text
  <2>4. Substitute(text, FieldContext) = Said(text)
    BY <2>3 DEF Substitute, Said
  <2> QED BY <2>4 DEF text
<1> QED BY <1>7, <1>8

LEMMA SameTexts ==
  ASSUME doc' = doc, runtime' = runtime
  PROVE  /\ Fields' = Fields /\ Places' = Places /\ FaultyVariables' = FaultyVariables
         /\ Sound' = Sound /\ SoundNames' = SoundNames
         /\ AllowlistIssues' = AllowlistIssues
         /\ \A n : Meaning(n)' = Meaning(n)
         /\ \A i \in DOMAIN Fields : Shown(Fields[i])' = Shown(Fields[i])
         /\ \A i \in DOMAIN Fields : Fails(Fields[i])' = Fails(Fields[i])
<1>1. Fields' = Fields /\ Places' = Places
  BY DEF Fields, Places
<1>2. RawValues' = RawValues /\ Texts' = Texts /\ Known' = Known
  BY DEF RawValues, RawVars, Texts, Known
<1>3. FaultyVariables' = FaultyVariables
  BY <1>2 DEF FaultyVariables, Faulty
<1>4. Sound' = Sound /\ SoundNames' = SoundNames /\ Usable' = Usable
  BY <1>3 DEF Sound, SoundNames, Usable
<1>5. \A n : Meaning(n)' = Meaning(n)
  BY <1>2 DEF Meaning, Given
<1>6. \A n : Used(n)' = Used(n)
  BY <1>4, <1>5 DEF Used
<1>7. \A i \in DOMAIN Fields : Fails(Fields[i])' = Fails(Fields[i])
  BY <1>1, <1>4 DEF Fails
<1>8. \A i \in DOMAIN Fields : Said(Fields[i])' = Said(Fields[i])
  BY <1>1, <1>6 DEF Said
<1>9. \A i \in DOMAIN Fields : Shown(Fields[i])' = Shown(Fields[i])
  BY <1>1, <1>7, <1>8 DEF Shown
<1> QED BY <1>1, <1>3, <1>4, <1>5, <1>7, <1>9 DEF AllowlistIssues

(* A position gets its issues when it is rendered, and only then.          *)
LEMMA ReportedMore ==
  ASSUME NEW codes, Report(codes)
  PROVE  Reported' = IF codes = {} THEN Reported ELSE Reported \union {pos}
<1> DEFINE new == {[at |-> pos, code |-> c] : c \in codes}
<1>1. \A issue \in new : issue.at = pos
  OBVIOUS
<1>2. new = {} <=> codes = {}
  OBVIOUS
<1>3. templateIssues' = templateIssues \union new
  BY DEF Report
<1> HIDE DEF new
<1> QED BY <1>1, <1>2, <1>3 DEF Reported

LEMMA RenderVariablePreserves ==
  ASSUME CheckInv, RenderInv, doc' = doc, RenderVariable(doc.vars)
  PROVE  RenderInv'
<1> DEFINE v == doc.vars[pos]
           context == VariableContext(doc.vars)
           codes == IF v.isText THEN TextIssue(v.value, context) ELSE {}
<1>1. doc \in Documents /\ runtime \in RuntimeValues
  BY DEF CheckInv, RenderInv
<1>2. /\ Len(doc.vars) \in Nat /\ DOMAIN doc.vars = 1..Len(doc.vars)
      /\ Len(Fields) \in Nat /\ DOMAIN Fields = 1..Len(Fields) /\ Places \in Nat
      /\ Places = Len(doc.vars) + Len(Fields)
  BY <1>1, VariablesTyped, FieldsTyped DEF Places
<1>3. /\ pos <= Len(doc.vars) /\ Report(codes) /\ pos' = pos + 1
      /\ renderedVars' = IF codes # {} THEN renderedVars
                         ELSE Over([n \in {v.name} |-> VariableValue(v, context)], renderedVars)
      /\ runtime' = runtime /\ rendered' = rendered
  BY DEF RenderVariable
<1>4. pos \in Nat /\ pos \in DOMAIN doc.vars /\ pos' \in 1..Places + 1 /\ pos \in 1..Places
  <2>1. pos \in 1..Places + 1
    BY DEF RenderInv
  <2> QED BY <1>2, <1>3, <2>1
<1>5. /\ codes # {} <=> pos \in FaultyVariables
      /\ pos \in Sound => VariableValue(v, context) = Meaning(v.name)
  BY <1>4, VariableMeans
<1>6. pos \in Sound <=> pos \notin FaultyVariables
  BY <1>4 DEF Sound
<1> HIDE DEF codes, context
<1>7. \A k \in DOMAIN doc.vars : k < pos' <=> k < pos \/ k = pos
  BY <1>2, <1>3, <1>4
<1>8. Sound \subseteq DOMAIN doc.vars /\ FaultyVariables \subseteq DOMAIN doc.vars
  BY DEF Sound, FaultyVariables, Texts
<1>9. \A k \in DOMAIN Fields : ~(Len(doc.vars) + k < pos) /\ ~(Len(doc.vars) + k < pos')
  BY <1>2, <1>3, <1>4
<1>10. /\ DOMAIN renderedVars' = {doc.vars[i].name : i \in {k \in Sound : k < pos'}}
       /\ \A i \in Sound : i < pos' => renderedVars'[doc.vars[i].name] = Meaning(doc.vars[i].name)
  <2>1. /\ DOMAIN renderedVars = {doc.vars[i].name : i \in {k \in Sound : k < pos}}
        /\ \A i \in Sound : i < pos => renderedVars[doc.vars[i].name] = Meaning(doc.vars[i].name)
    BY DEF RenderInv
  <2>2. CASE codes # {}
    <3>1. {k \in Sound : k < pos'} = {k \in Sound : k < pos}
      BY <1>5, <1>6, <1>7, <1>8, <2>2
    <3>2. \A i \in Sound : i < pos' => i < pos
      BY <1>5, <1>6, <1>7, <1>8, <2>2
    <3> QED BY <1>3, <2>1, <2>2, <3>1, <3>2
  <2>3. CASE codes = {}
    <3> DEFINE one == [n \in {v.name} |-> VariableValue(v, context)]
    <3>1. DOMAIN one = {v.name} /\ one[v.name] = Meaning(v.name)
      BY <1>5, <1>6, <2>3
    <3> HIDE DEF one
    <3>2. renderedVars' = Over(one, renderedVars)
      BY <1>3, <2>3 DEF one
    <3>3. {k \in Sound : k < pos'} = {k \in Sound : k < pos} \union {pos}
      BY <1>5, <1>6, <1>7, <1>8, <2>3
    <3>4. DOMAIN renderedVars' = {v.name} \union DOMAIN renderedVars
      BY <3>1, <3>2, OverIs
    <3>5. /\ renderedVars'[v.name] = Meaning(v.name)
          /\ \A n \in DOMAIN renderedVars : n # v.name => renderedVars'[n] = renderedVars[n]
      <4> DEFINE both == Over(one, renderedVars)
      <4>1. /\ \A n \in DOMAIN one : both[n] = one[n]
            /\ \A n \in DOMAIN renderedVars : n \notin DOMAIN one => both[n] = renderedVars[n]
        BY OverIs
      <4>2. renderedVars' = both
        BY <3>2
      <4> HIDE DEF both
      <4> QED BY <3>1, <4>1, <4>2
    <3> QED BY <1>7, <1>8, <2>1, <3>3, <3>4, <3>5
  <2> QED BY <2>2, <2>3
<1>11. rendered' = [i \in {k \in DOMAIN Fields : Len(doc.vars) + k < pos'} |-> Shown(Fields[i])]
  <2>1. {k \in DOMAIN Fields : Len(doc.vars) + k < pos'}
           = {k \in DOMAIN Fields : Len(doc.vars) + k < pos}
    BY <1>9
  <2> QED BY <1>3, <2>1 DEF RenderInv
<1>12. Reported' = {k \in FaultyVariables : k < pos'}
                   \union {Len(doc.vars) + i :
                             i \in {k \in DOMAIN Fields : /\ Len(doc.vars) + k < pos'
                                                         /\ Fails(Fields[k])}}
  <2>1. Reported' = IF codes = {} THEN Reported ELSE Reported \union {pos}
    BY <1>3, ReportedMore
  <2>2. {k \in DOMAIN Fields : Len(doc.vars) + k < pos /\ Fails(Fields[k])} = {}
    BY <1>9
  <2>3. {k \in DOMAIN Fields : Len(doc.vars) + k < pos' /\ Fails(Fields[k])} = {}
    BY <1>9
  <2>4. Reported = {k \in FaultyVariables : k < pos}
    BY <2>2 DEF RenderInv
  <2>5. {k \in FaultyVariables : k < pos'}
          = IF codes = {} THEN {k \in FaultyVariables : k < pos}
                          ELSE {k \in FaultyVariables : k < pos} \union {pos}
    BY <1>5, <1>6, <1>7, <1>8
  <2> QED BY <2>1, <2>3, <2>4, <2>5
<1>13. runtime' \in RuntimeValues
  BY <1>1, <1>3
<1> QED BY <1>3, <1>4, <1>10, <1>11, <1>12, <1>13, SameTexts DEF RenderInv

LEMMA RenderFieldPreserves ==
  ASSUME CheckInv, RenderInv, doc' = doc, RenderField(doc.vars, Fields)
  PROVE  RenderInv'
<1> DEFINE last == pos - Len(doc.vars)
           text == Fields[last]
           codes == FieldIssue(text)
<1>1. doc \in Documents /\ runtime \in RuntimeValues
  BY DEF CheckInv, RenderInv
<1>2. /\ Len(doc.vars) \in Nat /\ DOMAIN doc.vars = 1..Len(doc.vars)
      /\ Len(Fields) \in Nat /\ DOMAIN Fields = 1..Len(Fields) /\ Places \in Nat
      /\ Places = Len(doc.vars) + Len(Fields)
  BY <1>1, VariablesTyped, FieldsTyped DEF Places
<1>3. /\ pos \in Len(doc.vars) + 1..Len(doc.vars) + Len(Fields)
      /\ Report(codes) /\ pos' = pos + 1
      /\ rendered' = Append(rendered, IF TextIssue(text, FieldContext) # {} THEN text
                                      ELSE Substitute(text, FieldContext))
      /\ runtime' = runtime /\ renderedVars' = renderedVars
  BY DEF RenderField
<1>4. /\ last \in DOMAIN Fields /\ last \in Nat /\ pos > Len(doc.vars)
      /\ pos \in Nat /\ pos' \in 1..Places + 1 /\ pos = Len(doc.vars) + last
  BY <1>2, <1>3
<1>5. /\ codes # {} <=> Fails(text)
      /\ rendered' = Append(rendered, Shown(text))
  BY <1>3, <1>4, FieldMeans DEF FieldIssue, Shown
<1> HIDE DEF codes, last
<1>6. /\ \A k \in DOMAIN Fields : Len(doc.vars) + k < pos <=> k \in 1..last - 1
      /\ \A k \in DOMAIN Fields : Len(doc.vars) + k < pos' <=> k \in 1..last
      /\ 1..last \subseteq DOMAIN Fields /\ 1..last - 1 \subseteq DOMAIN Fields
      /\ last \in 1..last /\ \A k \in 1..last : k = last \/ k \in 1..last - 1
      /\ 1..last - 1 \subseteq 1..last
  <2> DEFINE V == Len(doc.vars)
             F == Len(Fields)
  <2>1. V \in Nat /\ F \in Nat /\ DOMAIN Fields = 1..F /\ last \in 1..F
        /\ pos = V + last /\ pos' = V + last + 1
    BY <1>2, <1>3, <1>4
  <2> HIDE DEF V, F
  <2>2. /\ \A k \in 1..F : V + k < V + last <=> k \in 1..last - 1
        /\ \A k \in 1..F : V + k < V + last + 1 <=> k \in 1..last
    BY <2>1
  <2>3. 1..last \subseteq 1..F /\ 1..last - 1 \subseteq 1..F
    BY <2>1
  <2>4. /\ last \in 1..last /\ \A k \in 1..last : k = last \/ k \in 1..last - 1
        /\ 1..last - 1 \subseteq 1..last
    BY <2>1
  <2> QED BY <2>1, <2>2, <2>3, <2>4 DEF V
<1>7. \A k \in DOMAIN doc.vars : k < pos /\ k < pos'
  <2> DEFINE V == Len(doc.vars)
  <2>1. V \in Nat /\ DOMAIN doc.vars = 1..V /\ last \in Nat /\ last >= 1
        /\ pos = V + last /\ pos' = V + last + 1
    BY <1>2, <1>3, <1>4
  <2> HIDE DEF V
  <2> QED BY <2>1
<1>8. Sound \subseteq DOMAIN doc.vars /\ FaultyVariables \subseteq DOMAIN doc.vars
  BY DEF Sound, FaultyVariables, Texts
<1>9. /\ {k \in DOMAIN Fields : Len(doc.vars) + k < pos} = 1..last - 1
      /\ {k \in DOMAIN Fields : Len(doc.vars) + k < pos'} = 1..last
  BY <1>6
<1>10. /\ DOMAIN renderedVars' = {doc.vars[i].name : i \in {k \in Sound : k < pos'}}
       /\ \A i \in Sound : i < pos' => renderedVars'[doc.vars[i].name] = Meaning(doc.vars[i].name)
  <2>1. {k \in Sound : k < pos'} = {k \in Sound : k < pos}
    BY <1>7, <1>8
  <2> QED BY <1>3, <1>7, <1>8, <2>1 DEF RenderInv
<1>11. rendered' = [i \in {k \in DOMAIN Fields : Len(doc.vars) + k < pos'} |-> Shown(Fields[i])]
  <2> DEFINE all == [i \in 1..last |-> Shown(Fields[i])]
             S == {all[i] : i \in 1..last}
             before == [i \in 1..last - 1 |-> Shown(Fields[i])]
  <2>1. rendered = before
    BY <1>9 DEF RenderInv
  <2>2. /\ before \in Seq(S) /\ Len(before) = last - 1
        /\ \A i \in 1..last - 1 : before[i] = all[i]
    <3>1. \A i \in 1..last - 1 : before[i] = all[i] /\ before[i] \in S
      BY <1>6
    <3>2. last - 1 \in Nat
      BY <1>4, <1>6
    <3> HIDE DEF S, all
    <3> QED BY <3>1, <3>2
  <2>3. all \in Seq(S) /\ Len(all) = last /\ all[last] \in S /\ all[last] = Shown(text)
    <3>1. \A i \in 1..last : all[i] \in S
      OBVIOUS
    <3>2. last \in Nat /\ last \in 1..last
      BY <1>4, <1>6
    <3>3. all[last] = Shown(text)
      BY <3>2
    <3> HIDE DEF S
    <3>4. all \in Seq(S) /\ Len(all) = last
      BY <3>1, <3>2
    <3> QED BY <3>1, <3>2, <3>3, <3>4
  <2> HIDE DEF all, S, before
  <2> DEFINE more == Append(before, all[last])
  <2>4. /\ more \in Seq(S) /\ Len(more) = last /\ more[last] = all[last]
        /\ \A i \in 1..last - 1 : more[i] = before[i]
    BY <1>4, <1>6, <2>2, <2>3
  <2> HIDE DEF more
  <2>5. \A i \in 1..last : more[i] = all[i]
    BY <1>6, <2>2, <2>4
  <2>6. more = all
    BY <2>3, <2>4, <2>5, SameSequence
  <2> QED BY <1>5, <1>9, <2>1, <2>3, <2>6 DEF more, all
<1>12. Reported' = {k \in FaultyVariables : k < pos'}
                   \union {Len(doc.vars) + i :
                             i \in {k \in DOMAIN Fields : /\ Len(doc.vars) + k < pos'
                                                         /\ Fails(Fields[k])}}
  <2>1. Reported' = IF codes = {} THEN Reported ELSE Reported \union {pos}
    BY <1>3, ReportedMore
  <2>2. {k \in FaultyVariables : k < pos'} = {k \in FaultyVariables : k < pos}
    BY <1>7, <1>8
  <2>3. {k \in DOMAIN Fields : Len(doc.vars) + k < pos' /\ Fails(Fields[k])}
          = {k \in DOMAIN Fields : Len(doc.vars) + k < pos /\ Fails(Fields[k])}
              \union (IF codes = {} THEN {} ELSE {last})
    <3>1. \A k \in DOMAIN Fields : Len(doc.vars) + k < pos' <=> Len(doc.vars) + k < pos \/ k = last
      BY <1>6
    <3> QED BY <1>4, <1>5, <3>1
  <2> QED BY <1>4, <2>1, <2>2, <2>3 DEF RenderInv
<1>13. runtime' \in RuntimeValues
  BY <1>1, <1>3
<1> QED BY <1>3, <1>4, <1>10, <1>11, <1>12, <1>13, SameTexts DEF RenderInv

LEMMA CompileInitInv == CompileInit => CompileInv
<1> SUFFICES ASSUME CompileInit PROVE CompileInv
  OBVIOUS
<1>1. /\ CheckInv /\ runtime \in RuntimeValues /\ doc \in Documents /\ stage = "loading"
      /\ phase = "duplicates" /\ pos = 1 /\ renderedVars = <<>> /\ rendered = <<>>
      /\ templateIssues = {}
  BY CheckInitInv DEF CompileInit, TemplatesInit, CheckInit
<1>2. /\ Len(doc.vars) \in Nat /\ DOMAIN doc.vars = 1..Len(doc.vars)
      /\ Len(Fields) \in Nat /\ DOMAIN Fields = 1..Len(Fields)
  BY <1>1, VariablesTyped, FieldsTyped
<1>3. pos \in 1..Places + 1
  BY <1>1, <1>2 DEF Places
<1>4. \A k \in DOMAIN doc.vars : ~(k < pos)
  BY <1>1, <1>2
<1>5. \A k \in DOMAIN Fields : ~(Len(doc.vars) + k < pos)
  BY <1>1, <1>2
<1>6. /\ {k \in Sound : k < pos} = {} /\ {k \in FaultyVariables : k < pos} = {}
      /\ \A k \in Sound : ~(k < pos)
  BY <1>4 DEF Sound, FaultyVariables, Texts
<1>7. /\ {k \in DOMAIN Fields : Len(doc.vars) + k < pos} = {}
      /\ {k \in DOMAIN Fields : Len(doc.vars) + k < pos /\ Fails(Fields[k])} = {}
  BY <1>5
<1>8. rendered = [i \in {k \in DOMAIN Fields : Len(doc.vars) + k < pos} |-> Shown(Fields[i])]
  <2>1. DOMAIN <<>> = {}
    OBVIOUS
  <2>2. [i \in {} |-> Shown(Fields[i])] = <<>>
    OBVIOUS
  <2> QED BY <1>1, <1>7, <2>2
<1>9. DOMAIN renderedVars = {}
  BY <1>1
<1>10. Reported = {}
  BY <1>1 DEF Reported
<1>11. RenderInv
  BY <1>1, <1>3, <1>6, <1>7, <1>8, <1>9, <1>10 DEF RenderInv
<1>12. StageInv
  BY <1>1 DEF StageInv
<1> QED BY <1>1, <1>11, <1>12 DEF CompileInv

LEMMA RenderUnchangedInv ==
  ASSUME RenderInv, doc' = doc, UNCHANGED <<runtime, renderVars>>
  PROVE  RenderInv'
<1>1. /\ runtime' = runtime /\ pos' = pos /\ renderedVars' = renderedVars
      /\ rendered' = rendered /\ templateIssues' = templateIssues
  BY DEF renderVars
<1>2. Reported' = Reported
  BY <1>1 DEF Reported
<1>3. rendered' = [i \in {k \in DOMAIN Fields : Len(doc.vars) + k < pos'} |-> Shown(Fields[i])]
  BY <1>1 DEF RenderInv
<1> QED BY <1>1, <1>2, <1>3, SameTexts DEF RenderInv

LEMMA CompileNextInv == CompileInv /\ [CompileNext]_compileVars => CompileInv'
<1> SUFFICES ASSUME CompileInv, [CompileNext]_compileVars PROVE CompileInv'
  OBVIOUS
<1>1. CheckInv /\ StageInv /\ RenderInv
  BY DEF CompileInv
<1>2. [CheckStep]_checkVars
  BY DEF CompileNext, CompileStep, Load, NotARunbook, Check, CollectIssues,
         RenderStep, Build, compileVars
<1>3. CheckInv'
  BY <1>1, <1>2, CheckNextInv
<1>4. doc' = doc
  BY <1>2 DEF CheckStep, CheckDuplicates, CheckTargets, TryRoot, TryNeighbor, LeaveNode,
              NoCycle, PopStep, CheckReachable, checkVars
<1>5. AllowlistIssues' = AllowlistIssues /\ Places' = Places
  BY <1>4 DEF AllowlistIssues, Places, Fields
<1>6. CASE Load
  <2>1. UNCHANGED <<runtime, renderVars>> /\ stage' = "checking"
    BY <1>6 DEF Load
  <2>2. StageInv'
    BY <2>1 DEF StageInv
  <2> QED BY <1>1, <1>3, <1>4, <2>1, <2>2, RenderUnchangedInv DEF CompileInv
<1>7. CASE NotARunbook
  <2>1. /\ UNCHANGED <<runtime, renderVars>> /\ stage = "loading" /\ phase' = phase
        /\ stage' \in {"unreadable", "refused"}
    BY <1>7 DEF NotARunbook, checkVars
  <2>2. StageInv'
    BY <1>1, <2>1 DEF StageInv
  <2> QED BY <1>1, <1>3, <1>4, <2>1, <2>2, RenderUnchangedInv DEF CompileInv
<1>8. CASE Check
  <2>1. UNCHANGED <<runtime, renderVars>> /\ stage' = "checking"
    BY <1>8 DEF Check
  <2>2. StageInv'
    BY <2>1 DEF StageInv
  <2> QED BY <1>1, <1>3, <1>4, <2>1, <2>2, RenderUnchangedInv DEF CompileInv
<1>9. CASE CollectIssues
  <2>1. /\ UNCHANGED <<runtime, renderVars>> /\ phase = "done" /\ phase' = phase
        /\ issues' = issues /\ found' = Collected
        /\ stage' = IF found' = {} THEN "rendering" ELSE "refused"
    BY <1>9 DEF CollectIssues, checkVars, Collected
  <2>2. Collected' = Collected
    BY <1>4, <1>5, <2>1 DEF Collected
  <2>3. StageInv'
    BY <2>1, <2>2 DEF StageInv
  <2> QED BY <1>1, <1>3, <1>4, <2>1, <2>3, RenderUnchangedInv DEF CompileInv
<1>10. CASE RenderStep
  <2>1. /\ stage = "rendering" /\ stage' = stage /\ phase' = phase /\ issues' = issues
        /\ RenderVariable(doc.vars) \/ RenderField(doc.vars, Fields)
    BY <1>10 DEF RenderStep, checkVars
  <2>2. Collected' = Collected
    BY <1>4, <1>5, <2>1 DEF Collected
  <2>3. StageInv'
    BY <1>1, <2>1, <2>2 DEF StageInv
  <2>4. RenderInv'
    BY <1>1, <1>4, <2>1, RenderVariablePreserves, RenderFieldPreserves
  <2> QED BY <1>3, <2>3, <2>4 DEF CompileInv
<1>11. CASE Build
  <2>1. /\ UNCHANGED <<runtime, renderVars>> /\ stage = "rendering" /\ phase' = phase
        /\ issues' = issues /\ pos > Places /\ pos' = pos
        /\ templateIssues' = templateIssues
        /\ stage' = IF templateIssues = {} THEN "compiled" ELSE "unrendered"
    BY <1>11 DEF Build, checkVars, renderVars
  <2>2. Collected' = Collected
    BY <1>4, <1>5, <2>1 DEF Collected
  <2>3. StageInv'
    BY <1>1, <1>5, <2>1, <2>2 DEF StageInv
  <2> QED BY <1>1, <1>3, <1>4, <2>1, <2>3, RenderUnchangedInv DEF CompileInv
<1>12. CASE UNCHANGED compileVars
  <2>1. /\ UNCHANGED <<runtime, renderVars>> /\ stage' = stage /\ phase' = phase
        /\ issues' = issues /\ pos' = pos /\ templateIssues' = templateIssues
    BY <1>12 DEF compileVars, checkVars, renderVars
  <2>2. Collected' = Collected
    BY <1>4, <1>5, <2>1 DEF Collected
  <2>3. StageInv'
    BY <1>1, <1>5, <2>1, <2>2 DEF StageInv
  <2> QED BY <1>1, <1>3, <1>4, <2>1, <2>3, RenderUnchangedInv DEF CompileInv
<1> QED BY <1>6, <1>7, <1>8, <1>9, <1>10, <1>11, <1>12 DEF CompileNext, CompileStep

(* A compilation renders each variable and each field once, with the       *)
(* meaning of the variables it names, whatever was rendered before it.     *)
THEOREM Compilation == CompileSpec => []CompileInv
BY CompileInitInv, CompileNextInv, PTL DEF CompileSpec

----------------------------------------------------------------------------
(* What the verdict of the validation is, from SemanticValidation.         *)

(* The two searches of the validation find exactly what the rules say,     *)
(* whatever the order the neighbours are taken in (compiler.py:250-282).   *)
THEOREM VerdictOfTheRules == CompileSpec => []VerdictIsExact
<1>1. CheckInv => VerdictIsExact
  BY DEF CheckInv
<1> QED BY <1>1, SemanticValidation, PTL

(* The recursion of dfs goes no deeper than there are steps.               *)
THEOREM DeepRunbooksOnly == CompileSpec => []OnlyDeepRunbooksRaise
<1>1. CheckInv => OnlyDeepRunbooksRaise
  BY DEF CheckInv
<1> QED BY <1>1, SemanticValidation, PTL

(* The validation's state has its types, and the nodes being visited are   *)
(* those of the call stack.                                                *)
THEOREM CheckTyping == CompileSpec => []CheckTypeOK
<1>1. CheckInv => CheckTypeOK
  BY DEF CheckInv
<1> QED BY <1>1, SemanticValidation, PTL

----------------------------------------------------------------------------
(* What a finished compilation says, from Compilation.                     *)

LEMMA AllRendered ==
  ASSUME CompileInv, stage \in {"unrendered", "compiled"}
  PROVE  /\ doc \in Documents /\ runtime \in RuntimeValues /\ phase = "done"
         /\ rendered = [i \in DOMAIN Fields |-> Shown(Fields[i])]
         /\ Reported = FaultyVariables
                         \union {Len(doc.vars) + i :
                                   i \in {k \in DOMAIN Fields : Fails(Fields[k])}}
         /\ stage = "compiled" <=> Reported = {}
<1>1. /\ doc \in Documents /\ runtime \in RuntimeValues /\ phase = "done"
      /\ pos \in 1..Places + 1 /\ pos > Places /\ StageInv /\ RenderInv
  BY DEF CompileInv, CheckInv, StageInv, RenderInv
<1>2. /\ Len(doc.vars) \in Nat /\ DOMAIN doc.vars = 1..Len(doc.vars)
      /\ Len(Fields) \in Nat /\ DOMAIN Fields = 1..Len(Fields)
      /\ Places = Len(doc.vars) + Len(Fields)
  BY <1>1, VariablesTyped, FieldsTyped DEF Places
<1>3. /\ \A k \in DOMAIN doc.vars : k < pos
      /\ \A k \in DOMAIN Fields : Len(doc.vars) + k < pos
  BY <1>1, <1>2
<1>4. /\ {k \in FaultyVariables : k < pos} = FaultyVariables
      /\ {k \in DOMAIN Fields : Len(doc.vars) + k < pos} = DOMAIN Fields
      /\ {k \in DOMAIN Fields : Len(doc.vars) + k < pos /\ Fails(Fields[k])}
            = {k \in DOMAIN Fields : Fails(Fields[k])}
  BY <1>3 DEF FaultyVariables, Texts
<1>5. /\ rendered = [i \in DOMAIN Fields |-> Shown(Fields[i])]
      /\ Reported = FaultyVariables
                      \union {Len(doc.vars) + i :
                                i \in {k \in DOMAIN Fields : Fails(Fields[k])}}
  BY <1>1, <1>4 DEF RenderInv
<1>6. stage = "compiled" <=> Reported = {}
  <2>1. Reported = {} <=> templateIssues = {}
    BY DEF Reported
  <2> QED BY <1>1, <2>1 DEF StageInv
<1> QED BY <1>1, <1>5, <1>6

LEMMA UsableIsKnown ==
  ASSUME doc \in Documents, runtime \in RuntimeValues
  PROVE  /\ Usable \subseteq Known
         /\ \A n \in Known \ Usable : \E i \in FaultyVariables : doc.vars[i].name = n
         /\ FaultyVariables = {} =>
               Usable = Known /\ \A n \in Usable : Used(n) = Meaning(n)
<1>1. DOMAIN RawValues = {doc.vars[i].name : i \in DOMAIN doc.vars}
  BY VariablesTyped
<1>2. /\ Usable \subseteq Known
      /\ \A n \in Known \ Usable : \E i \in FaultyVariables : doc.vars[i].name = n
  BY <1>1 DEF Usable, Known, SoundNames, Sound
<1>3. ASSUME FaultyVariables = {}, NEW n \in Usable PROVE Used(n) = Meaning(n)
  <2>1. SoundNames = DOMAIN RawValues
    BY <1>1, <1>3 DEF SoundNames, Sound
  <2>2. n \notin DOMAIN RawValues => Meaning(n) = Given(n)
    BY <1>1 DEF Meaning, Texts
  <2> QED BY <2>1, <2>2 DEF Used, Given
<1> QED BY <1>2, <1>3

LEMMA NoFaultNoFailure ==
  ASSUME doc \in Documents, runtime \in RuntimeValues, NEW text
  PROVE  /\ Faulty(text) => Fails(text)
         /\ Fails(text) /\ ~Faulty(text) =>
               \E i \in FaultyVariables : doc.vars[i].name \in References(text)
BY FaultyIff, UsableIsKnown DEF Fails

(* The fields of a compiled runbook have the meanings of the variables     *)
(* they name, whatever the order of the file (compiler.py:331, 344).       *)
THEOREM RenderingIsMeaning == CompileSpec => []FieldsSayWhatTheyMean
<1>1. CompileInv => FieldsSayWhatTheyMean
  <2> SUFFICES ASSUME CompileInv, stage = "compiled"
               PROVE  rendered = [i \in DOMAIN Fields |->
                         FlattenSeq([j \in DOMAIN Fields[i] |->
                                       IF Fields[i][j] \in Names THEN Meaning(Fields[i][j])
                                                                 ELSE <<Fields[i][j]>>])]
    BY DEF FieldsSayWhatTheyMean
  <2>1. /\ doc \in Documents /\ runtime \in RuntimeValues /\ Reported = {}
        /\ rendered = [i \in DOMAIN Fields |-> Shown(Fields[i])]
        /\ FaultyVariables = {} /\ \A i \in DOMAIN Fields : ~Fails(Fields[i])
    BY AllRendered
  <2>2. ASSUME NEW i \in DOMAIN Fields
        PROVE  Shown(Fields[i]) =
                  FlattenSeq([j \in DOMAIN Fields[i] |->
                                IF Fields[i][j] \in Names THEN Meaning(Fields[i][j])
                                                          ELSE <<Fields[i][j]>>])
    <3> DEFINE text == Fields[i]
    <3>1. References(text) \subseteq Usable /\ Shown(text) = Said(text)
      BY <2>1 DEF Fails, Shown
    <3>2. \A j \in DOMAIN text : text[j] \in Names => Used(text[j]) = Meaning(text[j])
      BY <2>1, <3>1, UsableIsKnown DEF References
    <3> HIDE DEF text
    <3>3. [j \in DOMAIN text |-> IF text[j] \in Names THEN Used(text[j]) ELSE <<text[j]>>]
            = [j \in DOMAIN text |-> IF text[j] \in Names THEN Meaning(text[j])
                                                          ELSE <<text[j]>>]
      BY <3>2
    <3>4. Said(text) = FlattenSeq([j \in DOMAIN text |->
                                     IF text[j] \in Names THEN Meaning(text[j])
                                                          ELSE <<text[j]>>])
      BY <3>3 DEF Said
    <3> QED BY <3>1, <3>4 DEF text
  <2> QED BY <2>1, <2>2
<1> QED BY <1>1, Compilation, PTL

(* One compilation names every faulty text and nothing else but fields     *)
(* that use a faulty variable (compiler.py:337, 363-392).                  *)
THEOREM OneReportIsEnough == CompileSpec => []FaultyPlacesReported
<1>1. CompileInv => FaultyPlacesReported
  <2> SUFFICES ASSUME CompileInv, stage \in {"unrendered", "compiled"}
               PROVE  LET faulty == FaultyVariables
                                      \union {Len(doc.vars) + i : i \in FaultyFields}
                      IN /\ faulty \subseteq Reported
                         /\ \A at \in Reported \ faulty :
                               /\ at > Len(doc.vars)
                               /\ \E i \in FaultyVariables :
                                     doc.vars[i].name \in References(Fields[at - Len(doc.vars)])
    BY DEF FaultyPlacesReported, Reported
  <2>1. /\ doc \in Documents /\ runtime \in RuntimeValues
        /\ Reported = FaultyVariables
                        \union {Len(doc.vars) + i :
                                  i \in {k \in DOMAIN Fields : Fails(Fields[k])}}
    BY AllRendered
  <2>2. FaultyFields \subseteq {k \in DOMAIN Fields : Fails(Fields[k])}
    BY <2>1, NoFaultNoFailure DEF FaultyFields
  <2>3. ASSUME NEW k \in DOMAIN Fields, Fails(Fields[k]), k \notin FaultyFields
        PROVE  /\ Len(doc.vars) + k > Len(doc.vars)
               /\ \E i \in FaultyVariables :
                     doc.vars[i].name \in References(Fields[Len(doc.vars) + k - Len(doc.vars)])
    <3>1. Len(doc.vars) \in Nat /\ k \in Nat /\ k >= 1
      BY <2>1, VariablesTyped, FieldsTyped
    <3>2. Len(doc.vars) + k - Len(doc.vars) = k /\ Len(doc.vars) + k > Len(doc.vars)
      BY <3>1
    <3>3. ~Faulty(Fields[k])
      BY <2>3 DEF FaultyFields
    <3> QED BY <2>1, <2>3, <3>2, <3>3, NoFaultNoFailure
  <2> DEFINE failing == {k \in DOMAIN Fields : Fails(Fields[k])}
             faulty == FaultyVariables \union {Len(doc.vars) + i : i \in FaultyFields}
  <2>4. faulty \subseteq Reported
    BY <2>1, <2>2
  <2> DEFINE Explained(at) ==
               /\ at > Len(doc.vars)
               /\ \E i \in FaultyVariables :
                     doc.vars[i].name \in References(Fields[at - Len(doc.vars)])
  <2>5. ASSUME NEW at \in Reported \ faulty PROVE Explained(at)
    <3>1. PICK k \in failing : at = Len(doc.vars) + k
      BY <2>1, <2>5
    <3>2. k \notin FaultyFields
      BY <2>5, <3>1
    <3>3. k \in DOMAIN Fields /\ Fails(Fields[k])
      OBVIOUS
    <3>4. Explained(Len(doc.vars) + k)
      BY <2>3, <3>2, <3>3
    <3> HIDE DEF Explained
    <3> QED BY <3>1, <3>4
  <2> QED BY <2>4, <2>5
<1> QED BY <1>1, Compilation, PTL

(* What is compiled is exactly what has a clean schema, a sound graph, no  *)
(* markup under the eight keys the code looks at and no faulty text        *)
(* (compiler.py:79-91).                                                    *)
THEOREM Acceptance == CompileSpec => []AcceptedExactly
<1>1. CompileInv => AcceptedExactly
  <2> DEFINE Clean == \A i \in DOMAIN doc.steps :
                         doc.steps[i].marked \intersect
                           {"id", "type", "name", "on_success", "on_failure", "timeout",
                            "retries", "retry_delay"} = {}
  <2> SUFFICES ASSUME CompileInv, stage \in {"refused", "unrendered", "compiled"},
                      phase = "done"
               PROVE  stage = "compiled" <=>
                        /\ doc.schema = {} /\ Expected = {} /\ Clean
                        /\ FaultyVariables = {} /\ FaultyFields = {}
    BY DEF AcceptedExactly
  <2>1. issues = Expected
    BY DEF CompileInv, CheckInv, VerdictIsExact
  <2>2. AllowlistIssues = {} <=> Clean
    BY DEF AllowlistIssues, Prohibited
  <2> HIDE DEF Clean
  <2>3. Collected = {} <=> doc.schema = {} /\ Expected = {} /\ Clean
    BY <2>1, <2>2 DEF Collected
  <2>4. CASE stage = "refused"
    BY <2>3, <2>4 DEF CompileInv, StageInv
  <2>5. CASE stage \in {"unrendered", "compiled"}
    <3>1. /\ doc \in Documents /\ runtime \in RuntimeValues
          /\ stage = "compiled" <=> Reported = {}
          /\ Reported = FaultyVariables
                          \union {Len(doc.vars) + i :
                                    i \in {k \in DOMAIN Fields : Fails(Fields[k])}}
      BY <2>5, AllRendered
    <3>2. FaultyVariables = {} =>
            FaultyFields = {k \in DOMAIN Fields : Fails(Fields[k])}
      BY <3>1, NoFaultNoFailure DEF FaultyFields
    <3>3. Collected = {}
      BY <2>5 DEF CompileInv, StageInv
    <3> QED BY <2>3, <3>1, <3>2, <3>3
  <2> QED BY <2>4, <2>5
<1> QED BY <1>1, Compilation, PTL

LEMMA FlattenWithoutMarkup ==
  ASSUME NEW n \in Nat, NEW seqs, DOMAIN seqs = 1..n, seqs = [i \in 1..n |-> seqs[i]],
         \A i \in 1..n : IsSequence(seqs[i]) /\ Markup(seqs[i]) = {}
  PROVE  IsSequence(FlattenSeq(seqs)) /\ Markup(FlattenSeq(seqs)) = {}
<1> DEFINE P == UNION {ToSet(seqs[i]) : i \in 1..n}
           flat == FlattenSeq(seqs)
<1>1. ASSUME NEW i \in 1..n PROVE seqs[i] \in Seq(P)
  <2>1. ToSet(seqs[i]) \subseteq P
    OBVIOUS
  <2> QED BY <2>1, SequenceTyped
<1>2. P \intersect (Names \union {Malformed}) = {}
  BY DEF Markup, ToSet
<1> HIDE DEF P
<1>3. seqs \in Seq(Seq(P))
  BY <1>1
<1>4. flat \in Seq(P)
  BY <1>3, FlattenSeqPieces
<1> HIDE DEF flat
<1>5. Markup(flat) = {}
  BY <1>2, <1>4 DEF Markup
<1>6. IsSequence(flat)
  BY <1>4 DEF IsSequence
<1> QED BY <1>5, <1>6 DEF flat

(* A text of a variable or of a field, with what stands for its names.     *)
LEMMA PutInWithoutMarkup ==
  ASSUME NEW text, IsSequence(text), Malformed \notin ToSet(text), NEW context,
         \A n \in References(text) : IsSequence(context[n]) /\ Markup(context[n]) = {}
  PROVE  LET said == FlattenSeq([j \in DOMAIN text |->
                                   IF text[j] \in Names THEN context[text[j]]
                                                        ELSE <<text[j]>>])
         IN IsSequence(said) /\ Markup(said) = {}
<1> DEFINE seqs == [j \in DOMAIN text |-> IF text[j] \in Names THEN context[text[j]]
                                                            ELSE <<text[j]>>]
<1>1. Len(text) \in Nat /\ DOMAIN text = 1..Len(text)
  BY SequenceTyped
<1>2. ASSUME NEW j \in DOMAIN text PROVE IsSequence(seqs[j]) /\ Markup(seqs[j]) = {}
  <2>1. CASE text[j] \in Names
    BY <2>1 DEF References
  <2>2. CASE text[j] \notin Names
    <3>1. seqs[j] = <<text[j]>> /\ text[j] # Malformed
      BY <2>2 DEF ToSet
    <3>2. IsSequence(<<text[j]>>) /\ Markup(<<text[j]>>) = {}
      BY <2>2, <3>1 DEF IsSequence, Markup
    <3> QED BY <3>1, <3>2
  <2> QED BY <2>1, <2>2
<1>3. DOMAIN seqs = 1..Len(text) /\ seqs = [i \in 1..Len(text) |-> seqs[i]]
  BY <1>1
<1> HIDE DEF seqs
<1>4. IsSequence(FlattenSeq(seqs)) /\ Markup(FlattenSeq(seqs)) = {}
  BY <1>1, <1>2, <1>3, FlattenWithoutMarkup
<1> QED BY <1>4 DEF seqs

LEMMA MeaningWithoutMarkup ==
  ASSUME doc \in Documents, runtime \in RuntimeValues, NotNested, FaultyVariables = {},
         NEW n \in Known
  PROVE  IsSequence(Meaning(n)) /\ Markup(Meaning(n)) = {}
<1>1. /\ DOMAIN RawValues = {doc.vars[i].name : i \in DOMAIN doc.vars}
      /\ \A i \in DOMAIN doc.vars : /\ RawValues[doc.vars[i].name] = doc.vars[i].value
                                    /\ IsSequence(doc.vars[i].value)
      /\ \A i, j \in DOMAIN doc.vars : doc.vars[i].name = doc.vars[j].name => i = j
      /\ \A m \in DOMAIN runtime : IsSequence(runtime[m])
  BY VariablesTyped
<1>2. \A m \in Known : IsSequence(Given(m))
  BY <1>1 DEF Known, Given
<1>3. CASE \E i \in Texts : doc.vars[i].name = n
  <2>1. PICK i \in Texts : doc.vars[i].name = n
    BY <1>3
  <2> DEFINE text == doc.vars[i].value
             context == [m \in Known |-> Given(m)]
  <2>2. /\ i \in DOMAIN doc.vars /\ RawValues[n] = text /\ IsSequence(text)
        /\ ~Faulty(text)
    BY <1>1, <2>1 DEF Texts, FaultyVariables
  <2>3. Malformed \notin ToSet(text) /\ References(text) \subseteq Known
    BY <2>2, FaultyIff
  <2>4. \A m \in References(text) : Markup(Given(m)) = {}
    BY <2>1, <2>2 DEF NotNested
  <2>5. \A m \in References(text) : IsSequence(context[m]) /\ Markup(context[m]) = {}
    BY <1>2, <2>3, <2>4
  <2>6. [j \in DOMAIN text |-> IF text[j] \in Names THEN context[text[j]] ELSE <<text[j]>>]
          = [j \in DOMAIN text |-> IF text[j] \in Names THEN Given(text[j]) ELSE <<text[j]>>]
    BY <2>3 DEF References
  <2>7. Meaning(n) = FlattenSeq([j \in DOMAIN text |-> IF text[j] \in Names
                                                         THEN Given(text[j])
                                                         ELSE <<text[j]>>])
    BY <1>3, <2>2 DEF Meaning
  <2> DEFINE said == FlattenSeq([j \in DOMAIN text |-> IF text[j] \in Names THEN context[text[j]]
                                                                        ELSE <<text[j]>>])
  <2> HIDE DEF text, context
  <2>8. IsSequence(said) /\ Markup(said) = {}
    BY <2>2, <2>3, <2>5, PutInWithoutMarkup
  <2> QED BY <2>6, <2>7, <2>8
<1>4. CASE ~\E i \in Texts : doc.vars[i].name = n
  <2>1. Meaning(n) = Given(n)
    BY <1>4 DEF Meaning
  <2>2. Markup(Given(n)) = {}
    <3>1. CASE n \in DOMAIN RawValues
      <4>1. PICK i \in DOMAIN doc.vars : doc.vars[i].name = n
        BY <1>1, <3>1
      <4> QED BY <1>1, <1>4, <3>1, <4>1 DEF Given, NotNested
    <3>2. CASE n \notin DOMAIN RawValues
      BY <3>2 DEF Known, Given, NotNested
    <3> QED BY <3>1, <3>2
  <2> QED BY <1>2, <2>1, <2>2
<1> QED BY <1>3, <1>4

(* No template text is left in a compiled runbook without nested variables *)
(* (compiler.py:344-360).                                                  *)
THEOREM PlainVariables == CompileSpec => []PlainVariablesRenderFully
<1>1. CompileInv => PlainVariablesRenderFully
  <2> SUFFICES ASSUME CompileInv, stage = "compiled", NotNested,
                      NEW i \in DOMAIN rendered
               PROVE  Markup(rendered[i]) = {}
    BY DEF PlainVariablesRenderFully, NoMarkupLeft
  <2> DEFINE text == Fields[i]
             context == [n \in Known |-> Meaning(n)]
  <2>1. /\ doc \in Documents /\ runtime \in RuntimeValues
        /\ rendered = [k \in DOMAIN Fields |-> Shown(Fields[k])]
        /\ FaultyVariables = {} /\ \A k \in DOMAIN Fields : ~Fails(Fields[k])
    BY AllRendered
  <2>2. i \in DOMAIN Fields /\ rendered[i] = Said(text)
    BY <2>1 DEF Shown
  <2>3. /\ IsSequence(text) /\ Malformed \notin ToSet(text)
        /\ References(text) \subseteq Known
    BY <2>1, <2>2, FieldsTyped, UsableIsKnown DEF Fails
  <2>4. \A n \in References(text) : Used(n) = context[n]
    BY <2>1, <2>3, UsableIsKnown
  <2>5. \A n \in References(text) : IsSequence(context[n]) /\ Markup(context[n]) = {}
    BY <2>1, <2>3, MeaningWithoutMarkup
  <2> HIDE DEF text, context
  <2>6. [j \in DOMAIN text |-> IF text[j] \in Names THEN Used(text[j]) ELSE <<text[j]>>]
          = [j \in DOMAIN text |-> IF text[j] \in Names THEN context[text[j]]
                                                        ELSE <<text[j]>>]
    BY <2>4 DEF References
  <2> QED BY <2>2, <2>3, <2>5, <2>6, PutInWithoutMarkup DEF Said
<1> QED BY <1>1, Compilation, PTL

=============================================================================
