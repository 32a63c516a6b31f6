--------------------------- MODULE SequenceLemmas ----------------------------
(***************************************************************************)
(* What the proofs need to know of sequences and the provers do not:       *)
(* FlattenSeq is a recursive function, and what it returns is proved by    *)
(* induction on the number of sequences it flattens.  The induction        *)
(* principle is stated with a set in the place of a predicate.             *)
(***************************************************************************)
EXTENDS SequencesExt, FiniteSetTheorems, TLAPS

LEMMA NatLeast ==
  ASSUME NEW T, T \subseteq Nat, T # {}
  PROVE  \E x \in T : \A y \in T : x <= y
<1> DEFINE U == {1..x : x \in T}
<1>1. \A x \in Nat : IsFiniteSet(1..x)
  BY FS_Interval
<1>2. U \subseteq FiniteSubsetsOf(Nat) /\ U # {}
  <2>1. ASSUME NEW x \in T PROVE 1..x \in FiniteSubsetsOf(Nat)
    <3>1. 1..x \subseteq Nat /\ IsFiniteSet(1..x)
      BY <1>1
    <3> QED BY <3>1, Zenon DEF FiniteSubsetsOf
  <2>2. U # {}
    OBVIOUS
  <2> QED BY <2>1, <2>2
<1>3. PICK X \in U : \A Y \in U : ~ (<<Y, X>> \in StrictSubsetOrdering(Nat))
  <2> HIDE DEF U
  <2> QED BY <1>2, FS_StrictSubsetOrderingWellFounded, WFMin
<1>4. PICK x \in T : X = 1..x
  OBVIOUS
<1>5. ASSUME NEW y \in T, y < x PROVE FALSE
  <2>1. 1..y \in U /\ 1..y \subseteq 1..x /\ x \in 1..x /\ x \notin 1..y
    BY <1>5
  <2>2. 1..y \subseteq Nat /\ 1..x \subseteq Nat
    OBVIOUS
  <2>3. <<1..y, 1..x>> \in StrictSubsetOrdering(Nat)
    BY <2>1, <2>2, Zenon DEF StrictSubsetOrdering
  <2> QED BY <2>1, <2>3, <1>3, <1>4
<1> QED BY <1>5

LEMMA NatSetInduction ==
  ASSUME NEW T, T \subseteq Nat, 0 \in T, \A n \in T : n + 1 \in T
  PROVE  T = Nat
<1> SUFFICES ASSUME Nat \ T # {} PROVE FALSE
  OBVIOUS
<1>1. PICK x \in Nat \ T : \A y \in Nat \ T : x <= y
  BY NatLeast
<1>2. x # 0 /\ x - 1 \in Nat /\ x - 1 \in T
  BY <1>1
<1>3. x - 1 + 1 = x
  OBVIOUS
<1> QED BY <1>1, <1>2, <1>3

----------------------------------------------------------------------------
(* f is the function that FlattenSeq defines by recursion on 1..n.         *)
Flattens(f, seqs, n) ==
  f = [i \in 1..n |-> IF i = 1 THEN seqs[i] ELSE f[i - 1] \o seqs[i]]

LEMMA FlattenExists ==
  ASSUME NEW seqs, NEW n \in Nat
  PROVE  \E f : Flattens(f, seqs, n)
<1> DEFINE T == {k \in Nat : \E f : Flattens(f, seqs, k)}
<1>1. 0 \in T
  <2>1. Flattens(<<>>, seqs, 0)
    BY DEF Flattens
  <2> QED BY <2>1
<1>2. ASSUME NEW k \in T PROVE k + 1 \in T
  <2>1. PICK f : Flattens(f, seqs, k)
    OBVIOUS
  <2> DEFINE g == [i \in 1..k + 1 |-> IF i = 1 THEN seqs[i] ELSE f[i - 1] \o seqs[i]]
  <2>2. \A i \in 1..k : f[i] = IF i = 1 THEN seqs[i] ELSE f[i - 1] \o seqs[i]
    BY <2>1 DEF Flattens
  <2>3. \A i \in 1..k + 1 : i # 1 => i - 1 \in 1..k /\ i - 1 \in 1..k + 1
    OBVIOUS
  <2>4. \A i \in 1..k : i \in 1..k + 1 /\ g[i] = f[i]
    BY <2>2
  <2>5. \A i \in 1..k + 1 : g[i] = IF i = 1 THEN seqs[i] ELSE g[i - 1] \o seqs[i]
    BY <2>3, <2>4
  <2>6. Flattens(g, seqs, k + 1)
    <3>1. g = [i \in 1..k + 1 |-> IF i = 1 THEN seqs[i] ELSE g[i - 1] \o seqs[i]]
      BY <2>5
    <3> HIDE DEF g
    <3> QED BY <3>1, Zenon DEF Flattens
  <2> QED BY <2>6
<1> HIDE DEF T
<1>3. T = Nat
  <2>1. T \subseteq Nat
    BY DEF T
  <2> QED BY <1>1, <1>2, <2>1, NatSetInduction
<1> QED BY <1>3 DEF T

LEMMA FlattenEquation ==
  ASSUME NEW seqs, Len(seqs) \in Nat, Len(seqs) # 0
  PROVE  \E f : Flattens(f, seqs, Len(seqs)) /\ FlattenSeq(seqs) = f[Len(seqs)]
<1> DEFINE n == Len(seqs)
           f == CHOOSE g : Flattens(g, seqs, n)
<1>1. Flattens(f, seqs, n)
  BY FlattenExists
<1>2. FlattenSeq(seqs) = f[n]
  BY DEF FlattenSeq, Flattens
<1> QED BY <1>1, <1>2

LEMMA FlattensAgree ==
  ASSUME NEW f, NEW g, NEW s, NEW t, NEW m \in Nat, NEW n \in Nat,
         Flattens(f, s, m), Flattens(g, t, n), m <= n, \A i \in 1..m : s[i] = t[i]
  PROVE  \A i \in 1..m : f[i] = g[i]
<1> DEFINE T == {k \in Nat : k \in 1..m => f[k] = g[k]}
<1>1. /\ \A i \in 1..m : f[i] = IF i = 1 THEN s[i] ELSE f[i - 1] \o s[i]
      /\ \A i \in 1..n : g[i] = IF i = 1 THEN t[i] ELSE g[i - 1] \o t[i]
  BY DEF Flattens
<1>2. 0 \in T
  OBVIOUS
<1>3. ASSUME NEW k \in T PROVE k + 1 \in T
  <2> SUFFICES ASSUME k + 1 \in 1..m PROVE f[k + 1] = g[k + 1]
    OBVIOUS
  <2>1. k + 1 \in 1..n /\ k + 1 - 1 = k
    OBVIOUS
  <2>2. CASE k = 0
    BY <1>1, <2>1, <2>2
  <2>3. CASE k # 0
    <3>1. k \in 1..m /\ k + 1 # 1
      BY <2>3
    <3>2. f[k] = g[k]
      BY <3>1
    <3>3. f[k + 1] = f[k] \o s[k + 1] /\ g[k + 1] = g[k] \o t[k + 1]
      <4> DEFINE j == k + 1
      <4>1. j \in 1..m /\ j \in 1..n /\ j # 1 /\ j - 1 = k
        BY <2>1, <3>1
      <4> HIDE DEF j
      <4>2. f[j] = f[k] \o s[j] /\ g[j] = g[k] \o t[j]
        BY <1>1, <4>1
      <4> QED BY <4>2 DEF j
    <3> QED BY <3>2, <3>3
  <2> QED BY <2>2, <2>3
<1>4. T = Nat
  <2>1. T \subseteq Nat
    OBVIOUS
  <2> HIDE DEF T
  <2> QED BY <1>2, <1>3, <2>1, NatSetInduction
<1> QED BY <1>4

(* Nothing to flatten gives nothing.                                       *)
THEOREM FlattenSeqEmpty == FlattenSeq(<<>>) = <<>>
BY DEF FlattenSeq

(* A sequence at the end comes last.                                       *)
THEOREM FlattenSeqAppend ==
  ASSUME NEW S, NEW seqs \in Seq(Seq(S)), NEW x \in Seq(S)
  PROVE  FlattenSeq(Append(seqs, x)) = FlattenSeq(seqs) \o x
<1> DEFINE n == Len(seqs)
           more == Append(seqs, x)
<1>1. /\ n \in Nat /\ Len(more) = n + 1 /\ n + 1 \in Nat /\ n + 1 # 0
      /\ \A i \in 1..n : more[i] = seqs[i]
      /\ more[n + 1] = x
  OBVIOUS
<1>2. PICK f : Flattens(f, more, n + 1) /\ FlattenSeq(more) = f[n + 1]
  <2> HIDE DEF more, n
  <2> QED BY <1>1, FlattenEquation
<1>3. f[n + 1] = IF n + 1 = 1 THEN x ELSE f[n + 1 - 1] \o x
  <2> HIDE DEF more, n
  <2>1. n + 1 \in 1..n + 1
    BY <1>1
  <2>2. \A i \in 1..n + 1 : f[i] = IF i = 1 THEN more[i] ELSE f[i - 1] \o more[i]
    BY <1>2 DEF Flattens
  <2> QED BY <1>1, <2>1, <2>2
<1>4. CASE n = 0
  <2>1. seqs = <<>> /\ FlattenSeq(more) = x
    BY <1>2, <1>3, <1>4
  <2>2. <<>> \o x = x
    OBVIOUS
  <2> QED BY <2>1, <2>2, FlattenSeqEmpty
<1>5. CASE n # 0
  <2> HIDE DEF more, n
  <2>1. PICK g : Flattens(g, seqs, n) /\ FlattenSeq(seqs) = g[n]
    BY <1>1, <1>5, FlattenEquation DEF n
  <2>2. n <= n + 1 /\ n \in 1..n /\ n + 1 # 1 /\ n + 1 - 1 = n
    BY <1>1, <1>5
  <2>3. g[n] = f[n]
    <3>1. \A i \in 1..n : seqs[i] = more[i]
      BY <1>1
    <3>2. n \in Nat /\ n + 1 \in Nat /\ Flattens(g, seqs, n) /\ Flattens(f, more, n + 1)
      BY <1>1, <1>2, <2>1
    <3>3. \A i \in 1..n : g[i] = f[i]
      BY <2>2, <3>1, <3>2, FlattensAgree
    <3> QED BY <2>2, <3>3
  <2> QED BY <1>2, <1>3, <2>1, <2>2, <2>3 DEF more
<1> QED BY <1>4, <1>5

----------------------------------------------------------------------------
LEMMA ToSetOfTheRest ==
  ASSUME NEW S, NEW s \in Seq(S), s # <<>>
  PROVE  /\ s[Len(s)] \in S /\ SubSeq(s, 1, Len(s) - 1) \in Seq(S)
         /\ ToSet(s) = ToSet(SubSeq(s, 1, Len(s) - 1)) \union {s[Len(s)]}
<1> DEFINE n == Len(s)
           t == SubSeq(s, 1, n - 1)
<1>1. n \in Nat /\ n \in 1..n /\ DOMAIN s = 1..n /\ s[n] \in S
  OBVIOUS
<1>2. /\ t \in Seq(S) /\ DOMAIN t = 1..n - 1
      /\ \A i \in 1..n - 1 : t[i] = s[i]
  BY <1>1
<1> HIDE DEF n, t
<1>3. \A i \in 1..n : i = n \/ i \in 1..n - 1
  BY <1>1
<1>4. \A i \in 1..n - 1 : i \in 1..n
  BY <1>1
<1>5. ToSet(s) = ToSet(t) \union {s[n]}
  BY <1>1, <1>2, <1>3, <1>4 DEF ToSet
<1> QED BY <1>1, <1>2, <1>5 DEF n, t

LEMMA ToSetOfConcatenation ==
  ASSUME NEW S, NEW s \in Seq(S), NEW t \in Seq(S)
  PROVE  s \o t \in Seq(S) /\ ToSet(s \o t) = ToSet(s) \union ToSet(t)
<1> DEFINE m == Len(s)
           n == Len(t)
<1>1. m \in Nat /\ n \in Nat /\ DOMAIN s = 1..m /\ DOMAIN t = 1..n
  OBVIOUS
<1>2. /\ s \o t \in Seq(S) /\ DOMAIN (s \o t) = 1..m + n
      /\ \A i \in 1..m + n : (s \o t)[i] = IF i <= m THEN s[i] ELSE t[i - m]
  OBVIOUS
<1> HIDE DEF m, n
<1>3. ASSUME NEW i \in 1..m PROVE s[i] \in ToSet(s \o t)
  <2>1. i \in 1..m + n /\ i <= m
    BY <1>1
  <2> QED BY <1>2, <2>1 DEF ToSet
<1>4. ASSUME NEW i \in 1..n PROVE t[i] \in ToSet(s \o t)
  <2> DEFINE k == i + m
  <2>1. k \in 1..m + n /\ ~(k <= m) /\ k - m = i
    BY <1>1
  <2> HIDE DEF k
  <2>2. (s \o t)[k] = t[i]
    BY <1>2, <2>1
  <2> QED BY <1>2, <2>1, <2>2 DEF ToSet
<1>5. ASSUME NEW i \in 1..m + n PROVE (s \o t)[i] \in ToSet(s) \union ToSet(t)
  <2>1. CASE i <= m
    <3>1. i \in 1..m
      BY <1>1, <2>1
    <3> QED BY <1>1, <1>2, <2>1, <3>1 DEF ToSet
  <2>2. CASE ~(i <= m)
    <3>1. i - m \in 1..n
      BY <1>1, <2>2
    <3> QED BY <1>1, <1>2, <2>2, <3>1 DEF ToSet
  <2> QED BY <2>1, <2>2
<1>6. ToSet(s \o t) = ToSet(s) \union ToSet(t)
  BY <1>1, <1>2, <1>3, <1>4, <1>5 DEF ToSet
<1> QED BY <1>2, <1>6

LEMMA SameSequence ==
  ASSUME NEW S, NEW s \in Seq(S), NEW t \in Seq(S), Len(s) = Len(t),
         \A i \in 1..Len(s) : s[i] = t[i]
  PROVE  s = t
OBVIOUS

LEMMA AppendedPiece ==
  ASSUME NEW S, NEW s \in Seq(S), NEW x \in S
  PROVE  Append(s, x) = s \o <<x>>
<1> DEFINE a == Append(s, x)
           c == s \o <<x>>
<1>1. a \in Seq(S) /\ c \in Seq(S) /\ Len(a) = Len(c) /\ \A i \in 1..Len(a) : a[i] = c[i]
  OBVIOUS
<1> HIDE DEF a, c
<1>2. a = c
  BY <1>1, SameSequence
<1> QED BY <1>2 DEF a, c

LEMMA LastAppended ==
  ASSUME NEW S, NEW s \in Seq(S), NEW n \in Nat, Len(s) = n + 1
  PROVE  /\ SubSeq(s, 1, n) \in Seq(S) /\ Len(SubSeq(s, 1, n)) = n /\ s[n + 1] \in S
         /\ s = Append(SubSeq(s, 1, n), s[n + 1])
<1> DEFINE t == SubSeq(s, 1, n)
           x == s[n + 1]
<1>1. t \in Seq(S) /\ x \in S /\ Len(t) = n /\ \A i \in 1..n : t[i] = s[i]
  OBVIOUS
<1> HIDE DEF t
<1>2. Append(t, x) \in Seq(S) /\ Len(Append(t, x)) = n + 1
  BY <1>1
<1>3. \A i \in 1..n + 1 : Append(t, x)[i] = s[i]
  BY <1>1
<1>4. s = Append(t, x)
  <2> DEFINE u == Append(t, x)
  <2>1. u \in Seq(S) /\ Len(u) = Len(s) /\ \A i \in 1..Len(s) : u[i] = s[i]
    BY <1>2, <1>3
  <2> HIDE DEF u
  <2>2. u = s
    BY <2>1
  <2> QED BY <2>2 DEF u
<1> QED BY <1>1, <1>4 DEF t

LEMMA ToSetAppended ==
  ASSUME NEW S, NEW s \in Seq(S), NEW x \in S
  PROVE  ToSet(Append(s, x)) = ToSet(s) \union {x}
<1> DEFINE n == Len(s)
           more == Append(s, x)
<1>1. /\ n \in Nat /\ DOMAIN s = 1..n /\ DOMAIN more = 1..n + 1
      /\ \A i \in 1..n : more[i] = s[i]
      /\ more[n + 1] = x
  OBVIOUS
<1> HIDE DEF n, more
<1>2. \A i : i \in 1..n + 1 <=> i \in 1..n \/ i = n + 1
  BY <1>1
<1>3. ToSet(more) = ToSet(s) \union {x}
  BY <1>1, <1>2 DEF ToSet
<1> QED BY <1>3 DEF more

(* The pieces of a flattened sequence are those of the sequences in it.    *)
THEOREM FlattenSeqPieces ==
  ASSUME NEW S, NEW seqs \in Seq(Seq(S))
  PROVE  /\ FlattenSeq(seqs) \in Seq(S)
         /\ ToSet(FlattenSeq(seqs)) = UNION {ToSet(t) : t \in ToSet(seqs)}
<1> DEFINE Ok(s) == /\ FlattenSeq(s) \in Seq(S)
                    /\ ToSet(FlattenSeq(s)) = UNION {ToSet(t) : t \in ToSet(s)}
           T == {n \in Nat : \A s \in Seq(Seq(S)) : Len(s) = n => Ok(s)}
<1>1. 0 \in T
  <2>1. \A s \in Seq(Seq(S)) : Len(s) = 0 => s = <<>>
    OBVIOUS
  <2>2. Ok(<<>>)
    <3>1. ToSet(<<>>) = {} /\ <<>> \in Seq(S)
      BY DEF ToSet
    <3>2. UNION {ToSet(t) : t \in {}} = {}
      OBVIOUS
    <3> QED BY <3>1, <3>2, FlattenSeqEmpty
  <2> QED BY <2>1, <2>2
<1>2. ASSUME NEW n \in T PROVE n + 1 \in T
  <2> SUFFICES ASSUME NEW s \in Seq(Seq(S)), Len(s) = n + 1 PROVE Ok(s)
    OBVIOUS
  <2> DEFINE t == SubSeq(s, 1, n)
             x == s[n + 1]
  <2>1. t \in Seq(Seq(S)) /\ x \in Seq(S) /\ Len(t) = n /\ s = Append(t, x)
    <3>1. n \in Nat
      OBVIOUS
    <3> HIDE DEF T, Ok
    <3> QED BY <3>1, LastAppended
  <2> HIDE DEF t, x
  <2>2. Ok(t)
    BY <2>1
  <2>3. FlattenSeq(s) = FlattenSeq(t) \o x
    BY <2>1, FlattenSeqAppend
  <2>4. FlattenSeq(s) \in Seq(S) /\ ToSet(FlattenSeq(s)) = ToSet(FlattenSeq(t)) \union ToSet(x)
    BY <2>1, <2>2, <2>3, ToSetOfConcatenation
  <2>5. ToSet(s) = ToSet(t) \union {x}
    BY <2>1, ToSetAppended
  <2> QED BY <2>2, <2>4, <2>5
<1>3. T = Nat
  <2>1. T \subseteq Nat
    OBVIOUS
  <2> HIDE DEF T
  <2> QED BY <1>1, <1>2, <2>1, NatSetInduction
<1>4. Len(seqs) \in Nat
  OBVIOUS
<1>5. Ok(seqs)
  <2> HIDE DEF Ok
  <2> QED BY <1>3, <1>4
<1> QED BY <1>5

(* Flattening a sequence cut into its single pieces gives it back.         *)
THEOREM FlattenSeqSingletons ==
  ASSUME NEW S, NEW s \in Seq(S)
  PROVE  FlattenSeq([i \in DOMAIN s |-> <<s[i]>>]) = s
<1> DEFINE Cut(t) == [i \in 1..Len(t) |-> <<t[i]>>]
           T == {n \in Nat : \A t \in Seq(S) : Len(t) = n => FlattenSeq(Cut(t)) = t}
<1>1. 0 \in T
  <2>1. \A t \in Seq(S) : Len(t) = 0 => t = <<>> /\ Cut(t) = <<>>
    OBVIOUS
  <2> QED BY <2>1, FlattenSeqEmpty
<1>2. ASSUME NEW n \in T PROVE n + 1 \in T
  <2> SUFFICES ASSUME NEW u \in Seq(S), Len(u) = n + 1 PROVE FlattenSeq(Cut(u)) = u
    OBVIOUS
  <2> DEFINE t == SubSeq(u, 1, n)
             x == u[n + 1]
  <2>1. t \in Seq(S) /\ x \in S /\ Len(t) = n /\ u = Append(t, x)
    <3>1. n \in Nat
      OBVIOUS
    <3> HIDE DEF T
    <3> QED BY <3>1, LastAppended
  <2> HIDE DEF t, x
  <2>2. Cut(t) \in Seq(Seq(S)) /\ Cut(u) = Append(Cut(t), <<x>>)
    <3>1. n \in Nat /\ \A i \in 1..n : t[i] \in S /\ u[i] = t[i]
      BY <2>1
    <3>2. Cut(t) \in Seq(Seq(S)) /\ Len(Cut(t)) = n
      BY <2>1, <3>1
    <3>3. u[n + 1] = x
      BY <2>1
    <3>4. /\ Append(Cut(t), <<x>>) \in Seq(Seq(S)) /\ Len(Append(Cut(t), <<x>>)) = n + 1
          /\ \A i \in 1..n : Append(Cut(t), <<x>>)[i] = <<t[i]>>
          /\ Append(Cut(t), <<x>>)[n + 1] = <<x>>
      BY <2>1, <3>1, <3>2
    <3>5. \A i \in 1..n + 1 : i \in 1..n \/ i = n + 1
      BY <3>1
    <3>6. /\ Cut(u) \in Seq(Seq(S)) /\ Len(Cut(u)) = n + 1
          /\ \A i \in 1..n + 1 : Cut(u)[i] = <<u[i]>>
      OBVIOUS
    <3>7. \A i \in 1..n + 1 : Cut(u)[i] = Append(Cut(t), <<x>>)[i]
      BY <3>1, <3>3, <3>4, <3>5, <3>6
    <3> DEFINE p == Cut(u)
               q == Append(Cut(t), <<x>>)
    <3>8. /\ p \in Seq(Seq(S)) /\ q \in Seq(Seq(S)) /\ Len(p) = Len(q)
          /\ \A i \in 1..Len(p) : p[i] = q[i]
      BY <3>4, <3>6, <3>7
    <3> HIDE DEF p, q
    <3>9. p = q
      BY <3>8, SameSequence
    <3> QED BY <3>2, <3>9 DEF p, q
  <2>3. FlattenSeq(Cut(t)) = t
    BY <2>1
  <2>4. <<x>> \in Seq(S)
    BY <2>1
  <2>5. FlattenSeq(Cut(u)) = t \o <<x>>
    <3> HIDE DEF Cut, T
    <3> QED BY <2>2, <2>3, <2>4, FlattenSeqAppend
  <2> QED BY <2>1, <2>5, AppendedPiece
<1>3. T = Nat
  <2>1. T \subseteq Nat
    OBVIOUS
  <2> HIDE DEF T
  <2> QED BY <1>1, <1>2, <2>1, NatSetInduction
<1>4. Len(s) \in Nat /\ DOMAIN s = 1..Len(s)
  OBVIOUS
<1>5. FlattenSeq(Cut(s)) = s
  <2> HIDE DEF Cut
  <2> QED BY <1>3, <1>4
<1> QED BY <1>4, <1>5

(* What a concatenation is, piece by piece.                                *)
LEMMA Concatenated ==
  ASSUME NEW S, NEW a \in Seq(S), NEW b \in Seq(S)
  PROVE  /\ a \o b \in Seq(S) /\ Len(a \o b) = Len(a) + Len(b)
         /\ Len(a) \in Nat /\ Len(b) \in Nat
         /\ \A i \in 1..Len(a) : (a \o b)[i] = a[i]
         /\ \A i \in 1..Len(b) : (a \o b)[Len(a) + i] = b[i]
<1> DEFINE m == Len(a)
           n == Len(b)
           ab == a \o b
<1>1. /\ ab \in Seq(S) /\ Len(ab) = m + n /\ m \in Nat /\ n \in Nat
      /\ \A i \in 1..m + n : ab[i] = IF i <= m THEN a[i] ELSE b[i - m]
  OBVIOUS
<1> HIDE DEF m, n, ab
<1>2. ASSUME NEW i \in 1..m PROVE ab[i] = a[i]
  BY <1>1
<1>3. ASSUME NEW i \in 1..n PROVE ab[m + i] = b[i]
  <2> DEFINE j == m + i
  <2>1. j \in 1..m + n /\ ~(j <= m) /\ j - m = i
    BY <1>1
  <2> HIDE DEF j
  <2>2. ab[j] = b[i]
    BY <1>1, <2>1
  <2> QED BY <2>2 DEF j
<1> QED BY <1>1, <1>2, <1>3 DEF m, n, ab

LEMMA Associative ==
  ASSUME NEW S, NEW a \in Seq(S), NEW b \in Seq(S), NEW c \in Seq(S)
  PROVE  (a \o b) \o c = a \o (b \o c)
<1> DEFINE ab == a \o b
           bc == b \o c
           l == ab \o c
           r == a \o bc
<1>1. /\ ab \in Seq(S) /\ Len(ab) = Len(a) + Len(b)
      /\ \A i \in 1..Len(a) : ab[i] = a[i]
      /\ \A i \in 1..Len(b) : ab[Len(a) + i] = b[i]
  BY Concatenated
<1>2. /\ bc \in Seq(S) /\ Len(bc) = Len(b) + Len(c)
      /\ \A i \in 1..Len(b) : bc[i] = b[i]
      /\ \A i \in 1..Len(c) : bc[Len(b) + i] = c[i]
  BY Concatenated
<1> HIDE DEF ab, bc
<1>3. /\ l \in Seq(S) /\ Len(l) = Len(ab) + Len(c)
      /\ \A i \in 1..Len(ab) : l[i] = ab[i]
      /\ \A i \in 1..Len(c) : l[Len(ab) + i] = c[i]
  <2>1. ab \in Seq(S)
    BY <1>1
  <2> QED BY <2>1, Concatenated
<1>4. /\ r \in Seq(S) /\ Len(r) = Len(a) + Len(bc)
      /\ \A i \in 1..Len(a) : r[i] = a[i]
      /\ \A i \in 1..Len(bc) : r[Len(a) + i] = bc[i]
  <2>1. bc \in Seq(S)
    BY <1>2
  <2> QED BY <2>1, Concatenated
<1>5. Len(a) \in Nat /\ Len(b) \in Nat /\ Len(c) \in Nat
  OBVIOUS
<1> DEFINE k == Len(a)
           m == Len(b)
           n == Len(c)
<1> HIDE DEF l, r, k, m, n
<1>6. ASSUME NEW i \in 1..k PROVE l[i] = r[i]
  <2>1. i \in 1..k + m
    BY <1>5 DEF k, m, n
  <2> QED BY <1>1, <1>3, <1>4, <2>1 DEF k, m, n
<1>7. ASSUME NEW i \in 1..m PROVE l[k + i] = r[k + i]
  <2>1. k + i \in 1..k + m /\ i \in 1..m + n
    BY <1>5 DEF k, m, n
  <2>2. l[k + i] = b[i]
    BY <1>1, <1>3, <2>1 DEF k, m
  <2>3. r[k + i] = b[i]
    BY <1>2, <1>4, <2>1 DEF k, m, n
  <2> QED BY <2>2, <2>3
<1>8. ASSUME NEW i \in 1..n PROVE l[k + (m + i)] = r[k + (m + i)]
  <2>1. m + i \in 1..m + n /\ (k + m) + i = k + (m + i)
    BY <1>5 DEF k, m, n
  <2>2. l[(k + m) + i] = c[i]
    BY <1>1, <1>3 DEF k, m, n
  <2>3. r[k + (m + i)] = c[i]
    BY <1>2, <1>4, <2>1 DEF k, m, n
  <2> QED BY <2>1, <2>2, <2>3
<1>9. ASSUME NEW i \in 1..(k + m) + n PROVE l[i] = r[i]
  <2>1. CASE i <= k
    BY <1>5, <1>6, <2>1 DEF k, m, n
  <2>2. CASE ~(i <= k) /\ i <= k + m
    <3> DEFINE j == i - k
    <3>1. j \in 1..m /\ k + j = i
      BY <1>5, <2>2 DEF k, m, n
    <3> HIDE DEF j
    <3> QED BY <1>7, <3>1
  <2>3. CASE ~(i <= k + m)
    <3> DEFINE j == i - k - m
    <3>1. j \in 1..n /\ k + (m + j) = i
      BY <1>5, <2>3 DEF k, m, n
    <3> HIDE DEF j
    <3> QED BY <1>8, <3>1
  <2> QED BY <2>1, <2>2, <2>3
<1>10. Len(l) = (k + m) + n /\ Len(r) = Len(l)
  BY <1>1, <1>2, <1>3, <1>4, <1>5 DEF k, m, n
<1>11. l = r
  BY <1>3, <1>4, <1>9, <1>10, SameSequence
<1> QED BY <1>11 DEF ab, bc, l, r

(* A sequence in front comes first.                                        *)
THEOREM FlattenSeqPrepend ==
  ASSUME NEW S, NEW seqs \in Seq(Seq(S)), NEW x \in Seq(S)
  PROVE  FlattenSeq(<<x>> \o seqs) = x \o FlattenSeq(seqs)
<1> DEFINE T == {n \in Nat : \A s \in Seq(Seq(S)) :
                  Len(s) = n => FlattenSeq(<<x>> \o s) = x \o FlattenSeq(s)}
<1>1. 0 \in T
  <2>1. \A s \in Seq(Seq(S)) : Len(s) = 0 => s = <<>>
    OBVIOUS
  <2>2. <<>> \in Seq(Seq(S)) /\ <<>> \in Seq(S) /\ <<x>> \o <<>> = Append(<<>>, x)
    OBVIOUS
  <2>3. FlattenSeq(<<x>> \o <<>>) = <<>> \o x
    BY <2>2, FlattenSeqEmpty, FlattenSeqAppend
  <2>4. <<>> \o x = x /\ x \o <<>> = x
    OBVIOUS
  <2> QED BY <2>1, <2>3, <2>4, FlattenSeqEmpty
<1>2. ASSUME NEW n \in T PROVE n + 1 \in T
  <2> SUFFICES ASSUME NEW s \in Seq(Seq(S)), Len(s) = n + 1
               PROVE  FlattenSeq(<<x>> \o s) = x \o FlattenSeq(s)
    <3>1. n \in Nat /\ n + 1 \in Nat
      OBVIOUS
    <3> QED BY <3>1, Zenon
  <2> DEFINE t == SubSeq(s, 1, n)
             y == s[n + 1]
  <2>1. t \in Seq(Seq(S)) /\ y \in Seq(S) /\ Len(t) = n /\ s = Append(t, y)
    <3>1. n \in Nat
      OBVIOUS
    <3> HIDE DEF T
    <3> QED BY <3>1, LastAppended
  <2> HIDE DEF t, y
  <2>2. FlattenSeq(<<x>> \o t) = x \o FlattenSeq(t)
    BY <2>1
  <2> HIDE DEF T
  <2>3. <<x>> \in Seq(Seq(S)) /\ <<y>> \in Seq(Seq(S)) /\ <<x>> \o t \in Seq(Seq(S))
    BY <2>1
  <2>4. <<x>> \o s = Append(<<x>> \o t, y)
    <3>1. s = t \o <<y>>
      BY <2>1, AppendedPiece
    <3>2. (<<x>> \o t) \o <<y>> = <<x>> \o (t \o <<y>>)
      BY <2>1, <2>3, Associative
    <3>3. Append(<<x>> \o t, y) = (<<x>> \o t) \o <<y>>
      BY <2>1, <2>3, AppendedPiece
    <3> QED BY <3>1, <3>2, <3>3
  <2>5. FlattenSeq(<<x>> \o s) = (x \o FlattenSeq(t)) \o y
    BY <2>1, <2>2, <2>3, <2>4, FlattenSeqAppend
  <2>6. FlattenSeq(s) = FlattenSeq(t) \o y /\ FlattenSeq(t) \in Seq(S)
    BY <2>1, FlattenSeqAppend, FlattenSeqPieces
  <2>7. (x \o FlattenSeq(t)) \o y = x \o (FlattenSeq(t) \o y)
    <3>1. y \in Seq(S) /\ FlattenSeq(t) \in Seq(S)
      BY <2>1, <2>6
    <3> QED BY <3>1, Associative
  <2> QED BY <2>5, <2>6, <2>7, Zenon
<1>3. T = Nat
  <2>1. T \subseteq Nat
    OBVIOUS
  <2> HIDE DEF T
  <2> QED BY <1>1, <1>2, <2>1, NatSetInduction
<1>4. Len(seqs) \in Nat /\ Len(seqs) \in T
  <2>1. Len(seqs) \in Nat
    OBVIOUS
  <2> HIDE DEF T
  <2> QED BY <1>3, <2>1
<1> QED BY <1>4, Zenon
=============================================================================
