------------------------------ MODULE DataLemmas -------------------------------
(***************************************************************************)
(* Induction, and recursion, over the natural numbers, for the proofs about *)
(* the functions that the modules define by recursion over a sequence.     *)
(***************************************************************************)
EXTENDS Integers, Sequences, SequenceTheorems, WellFoundedInduction, TLAPS

\* A set of numbers that is not empty has a least one.
LEMMA Least ==
    ASSUME NEW T \in SUBSET Nat, T # {}
    PROVE  \E n \in T : \A m \in T : n <= m
<1> DEFINE Less == {pair \in Nat \X Nat : pair[1] < pair[2]}
<1>1. IsWellFoundedOn(Less, Nat)
  BY NatLessThanWellFounded DEF OpToRel
<1>2. PICK x \in T : \A y \in T : <<y, x>> \notin Less
  <2> HIDE DEF Less
  <2> QED BY <1>1, WFMin
<1>3. ASSUME NEW m \in T PROVE x <= m
  <2>1. ~(m < x)
    BY <1>2
  <2> QED BY <2>1
<1> QED BY <1>3

\* Induction up to N: a set that has 0, and with a number the next, has them all.
LEMMA UpTo ==
    ASSUME NEW N \in Nat, NEW T, 0 \in T, \A n \in 0 .. N - 1 : n \in T => n + 1 \in T
    PROVE  0 .. N \subseteq T
<1> SUFFICES ASSUME (0 .. N) \ T # {} PROVE FALSE
  OBVIOUS
<1>1. PICK n \in (0 .. N) \ T : \A m \in (0 .. N) \ T : n <= m
  <2>1. (0 .. N) \ T \in SUBSET Nat
    OBVIOUS
  <2> QED BY <2>1, Least
<1>2. n # 0 /\ n - 1 \in 0 .. N - 1
  OBVIOUS
<1>3. n - 1 \in T
  <2>1. n - 1 \in 0 .. N /\ ~(n <= n - 1)
    BY <1>2
  <2> QED BY <1>1, <2>1
<1> QED BY <1>2, <1>3

\* There is a function that begins with c and goes on by steps.
LEMMA Recursive ==
    ASSUME NEW V, NEW c \in V, NEW N \in Nat, NEW step \in [1 .. N -> [V -> V]]
    PROVE  \E f \in [0 .. N -> V] :
              f[0] = c /\ \A n \in 1 .. N : f[n] = step[n][f[n - 1]]
<1> DEFINE Goes(f, m) == /\ f \in [0 .. m -> V]
                         /\ f[0] = c
                         /\ \A n \in 1 .. m : f[n] = step[n][f[n - 1]]
           T == {m \in 0 .. N : \E f : Goes(f, m)}
<1>1. 0 \in T
  <2>1. Goes([i \in 0 .. 0 |-> c], 0)
    OBVIOUS
  <2>2. 0 \in 0 .. N
    OBVIOUS
  <2> HIDE DEF Goes
  <2> QED BY <2>1, <2>2
<1>2. ASSUME NEW m \in 0 .. N - 1, m \in T PROVE m + 1 \in T
  <2>1. PICK f : Goes(f, m)
    BY <1>2
  <2> DEFINE g == [i \in 0 .. m + 1 |-> IF i <= m THEN f[i] ELSE step[m + 1][f[m]]]
  <2>2. f[m] \in V /\ m + 1 \in 1 .. N
    BY <2>1
  <2>3. step[m + 1][f[m]] \in V
    BY <2>2
  <2>4. g \in [0 .. m + 1 -> V]
    BY <2>1, <2>3
  <2>5. g[0] = c
    BY <2>1
  <2>6. \A n \in 1 .. m + 1 : g[n] = step[n][g[n - 1]]
    <3> SUFFICES ASSUME NEW n \in 1 .. m + 1 PROVE g[n] = step[n][g[n - 1]]
      OBVIOUS
    <3>1. g[n - 1] = f[n - 1]
      OBVIOUS
    <3>2. CASE n <= m
      BY <2>1, <3>1, <3>2
    <3>3. CASE n = m + 1
      <4>1. g[m + 1] = step[m + 1][f[m]] /\ n - 1 = m
        BY <3>3
      <4> HIDE DEF g
      <4> QED BY <3>1, <3>3, <4>1
    <3> QED BY <3>2, <3>3
  <2>7. Goes(g, m + 1)
    BY <2>4, <2>5, <2>6
  <2>8. m + 1 \in 0 .. N
    OBVIOUS
  <2> HIDE DEF g, Goes
  <2> QED BY <2>7, <2>8
<1>3. 0 .. N \subseteq T
  <2> HIDE DEF T
  <2> QED BY <1>1, <1>2, UpTo
<1>4. \E f : Goes(f, N)
  BY <1>3
<1> QED BY <1>4
\* The same, to cite.
Turns(step, V, N) == step \in [1 .. N -> [V -> V]]

LEMMA Recursion ==
    ASSUME NEW V, NEW c \in V, NEW N \in Nat, NEW step, Turns(step, V, N)
    PROVE  \E f \in [0 .. N -> V] : f[0] = c /\ \A n \in 1 .. N : f[n] = step[n][f[n - 1]]
  BY Recursive DEF Turns

-----------------------------------------------------------------------------
(* Sequences: induction over their length, and folds from left to right.   *)

\* A set that has the empty sequence, and with a sequence every longer by one element.
LEMMA SeqInduction ==
    ASSUME NEW S, NEW T, <<>> \in T, \A s \in Seq(S), e \in S : s \in T => Append(s, e) \in T
    PROVE  Seq(S) \subseteq T
<1> SUFFICES ASSUME NEW s \in Seq(S) PROVE s \in T
  OBVIOUS
<1> DEFINE N == Len(s)
           I == {n \in 0 .. N : SubSeq(s, 1, n) \in T}
<1>1. N \in Nat /\ SubSeq(s, 1, N) = s
  BY LenProperties, SubSeqFull
<1>2. 0 \in I
  <2> DEFINE none == SubSeq(s, 1, 0)
  <2>1. none = <<>>
    BY SubSeqEmpty
  <2>2. none \in T /\ 0 \in 0 .. N
    <3> HIDE DEF none
    <3> QED BY <1>1, <2>1
  <2> QED BY <2>2
<1>3. ASSUME NEW n \in 0 .. N - 1, n \in I PROVE n + 1 \in I
  <2>1. n + 1 \in 1 .. N /\ n + 1 \in 0 .. N /\ 1 \in 1 .. N /\ n \in Nat /\ n + 1 - 1 = n
    BY <1>1
  <2>2. SubSeq(s, 1, n) \in Seq(S) /\ s[n + 1] \in S
    <3>1. \A i \in 1 .. n : s[i] \in S
      BY <2>1, ElementOfSeq
    <3>2. 1 \in Int /\ n \in Int
      BY <2>1
    <3> QED BY <2>1, <3>1, <3>2, SubSeqProperties, ElementOfSeq
  <2>3. SubSeq(s, 1, n + 1) = Append(SubSeq(s, 1, n), s[n + 1])
    <3> DEFINE a == SubSeq(s, 1, n + 1)
               b == Append(SubSeq(s, 1, n), s[n + 1])
    <3>1. Len(a) = n + 1 /\ Len(b) = n + 1
      BY <1>1, <2>1, <2>2
    <3>2. \A i \in 1 .. n + 1 : a[i] = b[i]
      BY <1>1, <2>1, <2>2
    <3>3. a \in Seq(S) /\ b \in Seq(S)
      BY <1>1, <2>1, <2>2
    <3> HIDE DEF a, b
    <3> QED BY <3>1, <3>2, <3>3, SeqEqual
  <2> QED BY <1>3, <2>1, <2>2, <2>3
<1>4. 0 .. N \subseteq I
  <2> HIDE DEF I
  <2> QED BY <1>1, <1>2, <1>3, UpTo
<1>5. N \in I
  <2> HIDE DEF N, I
  <2> QED BY <1>1, <1>4
<1> QED BY <1>1, <1>5

\* The value that is had from c by op with the elements of s one after the other.
Folded(op, c, s) ==
    LET upTo[n \in 0 .. Len(s)] == IF n = 0 THEN c ELSE op[upTo[n - 1]][s[n]] IN upTo[Len(s)]

Operation(op, V, S) == op \in [V -> [S -> V]]

\* The values on the way.
Folds(f, op, c, s, V) ==
    /\ f \in [0 .. Len(s) -> V]
    /\ f[0] = c
    /\ \A n \in 1 .. Len(s) : f[n] = op[f[n - 1]][s[n]]

LEMMA FoldExists ==
    ASSUME NEW V, NEW S, NEW op, Operation(op, V, S), NEW c \in V, NEW s \in Seq(S)
    PROVE  \E f : Folds(f, op, c, s, V)
<1> DEFINE N == Len(s)
           step == [n \in 1 .. N |-> [x \in V |-> op[x][s[n]]]]
<1>1. N \in Nat /\ \A n \in 1 .. N : s[n] \in S
  BY LenProperties, ElementOfSeq
<1> HIDE DEF N
<1>2. step \in [1 .. N -> [V -> V]]
  BY <1>1 DEF Operation
<1>3. PICK f \in [0 .. N -> V] : f[0] = c /\ \A n \in 1 .. N : f[n] = step[n][f[n - 1]]
  <2>0. c \in V /\ N \in Nat /\ Turns(step, V, N)
    BY <1>1, <1>2 DEF Turns
  <2> HIDE DEF step
  <2>1. \E f \in [0 .. N -> V] : f[0] = c /\ \A n \in 1 .. N : f[n] = step[n][f[n - 1]]
    BY <2>0, Recursion
  <2> QED BY <2>1
<1>4. \A n \in 1 .. N : f[n] = op[f[n - 1]][s[n]]
  <2> SUFFICES ASSUME NEW n \in 1 .. N PROVE f[n] = op[f[n - 1]][s[n]]
    OBVIOUS
  <2>1. f[n - 1] \in V
    BY <1>1
  <2>2. step[n][f[n - 1]] = op[f[n - 1]][s[n]]
    BY <2>1
  <2> HIDE DEF step
  <2> QED BY <1>3, <2>2
<1> QED BY <1>3, <1>4 DEF Folds, N

\* Two recursions that agree at the start and step by step.
GoAlike(f, g, N) == f[0] = g[0] /\ \A n \in 1 .. N : f[n - 1] = g[n - 1] => f[n] = g[n]

LEMMA SameRecursion ==
    ASSUME NEW N \in Nat, NEW f, NEW g, GoAlike(f, g, N)
    PROVE  \A n \in 0 .. N : f[n] = g[n]
<1> DEFINE T == {n \in 0 .. N : f[n] = g[n]}
<1>1. 0 \in T
  BY DEF GoAlike
<1>2. ASSUME NEW n \in 0 .. N - 1, n \in T PROVE n + 1 \in T
  <2>1. n + 1 \in 1 .. N /\ n + 1 - 1 = n /\ f[n] = g[n]
    BY <1>2
  <2>2. f[n + 1] = g[n + 1]
    BY <2>1 DEF GoAlike
  <2> QED BY <2>1, <2>2
<1>3. 0 .. N \subseteq T
  <2> HIDE DEF T
  <2> QED BY <1>1, <1>2, UpTo
<1> QED BY <1>3

LEMMA FoldedIs ==
    ASSUME NEW V, NEW S, NEW op, Operation(op, V, S), NEW c \in V, NEW s \in Seq(S),
           NEW f, Folds(f, op, c, s, V)
    PROVE  Folded(op, c, s) = f[Len(s)]
<1> DEFINE N == Len(s)
           Goes(g) == [n \in 0 .. N |-> IF n = 0 THEN c ELSE op[g[n - 1]][s[n]]]
           upTo == CHOOSE g : g = Goes(g)
<1>1. N \in Nat /\ Folded(op, c, s) = upTo[N]
  BY LenProperties DEF Folded
<1>2. f \in [0 .. N -> V] /\ f[0] = c /\ \A n \in 1 .. N : f[n] = op[f[n - 1]][s[n]]
  BY DEF Folds
<1> HIDE DEF N, upTo
<1>3. f = Goes(f)
  <2>1. \A n \in 0 .. N : n = 0 \/ n \in 1 .. N
    BY <1>1
  <2>2. \A n \in 0 .. N : f[n] = Goes(f)[n]
    BY <1>2, <2>1
  <2>3. f = [n \in 0 .. N |-> f[n]] /\ Goes(f) = [n \in 0 .. N |-> Goes(f)[n]]
    BY <1>2
  <2> HIDE DEF Goes
  <2> QED BY <2>2, <2>3
<1>4. upTo = Goes(upTo)
  <2> HIDE DEF Goes
  <2> QED BY <1>3 DEF upTo
<1>5. upTo[0] = c /\ \A n \in 1 .. N : upTo[n] = op[upTo[n - 1]][s[n]]
  <2>1. Goes(upTo)[0] = c /\ \A n \in 1 .. N : Goes(upTo)[n] = op[upTo[n - 1]][s[n]]
    BY <1>1
  <2> HIDE DEF Goes
  <2> QED BY <1>4, <2>1
<1>7. GoAlike(upTo, f, N)
  BY <1>2, <1>5 DEF GoAlike
<1>8. \A n \in 0 .. N : upTo[n] = f[n]
  BY <1>1, <1>7, SameRecursion
<1> QED BY <1>1, <1>8 DEF N

LEMMA FoldedNone ==
    ASSUME NEW V, NEW S, NEW op, Operation(op, V, S), NEW c \in V
    PROVE  Folded(op, c, <<>>) = c
<1> DEFINE none == <<>>
<1>1. none \in Seq(S) /\ Len(none) = 0
  BY EmptySeq
<1> HIDE DEF none
<1>2. PICK f : Folds(f, op, c, none, V)
  BY <1>1, FoldExists
<1>3. Folded(op, c, none) = f[0]
  <2>0. none \in Seq(S)
    BY <1>1
  <2>1. Folded(op, c, none) = f[Len(none)]
    BY <1>2, <2>0, FoldedIs
  <2> QED BY <1>1, <2>1
<1>4. f[0] = c
  BY <1>2 DEF Folds
<1>5. Folded(op, c, none) = c
  BY <1>3, <1>4
<1> QED BY <1>5 DEF none

LEMMA FoldedType ==
    ASSUME NEW V, NEW S, NEW op, Operation(op, V, S), NEW c \in V, NEW s \in Seq(S)
    PROVE  Folded(op, c, s) \in V
<1>1. PICK f : Folds(f, op, c, s, V)
  BY FoldExists
<1>2. Len(s) \in 0 .. Len(s)
  BY LenProperties
<1>3. f[Len(s)] \in V
  BY <1>1, <1>2 DEF Folds
<1>4. Folded(op, c, s) = f[Len(s)]
  BY <1>1, FoldedIs
<1> QED BY <1>3, <1>4

LEMMA FoldedAppend ==
    ASSUME NEW V, NEW S, NEW op, Operation(op, V, S), NEW c \in V, NEW s \in Seq(S), NEW e \in S
    PROVE  Folded(op, c, Append(s, e)) = op[Folded(op, c, s)][e]
<1> DEFINE t == Append(s, e)
           N == Len(s)
<1>1. /\ N \in Nat /\ t \in Seq(S) /\ Len(t) = N + 1 /\ t[N + 1] = e
      /\ \A n \in 1 .. N : t[n] = s[n]
  BY LenProperties, AppendProperties
<1> HIDE DEF t
<1>2. PICK f : Folds(f, op, c, s, V)
  BY FoldExists
<1>3. PICK g : Folds(g, op, c, t, V)
  BY <1>1, FoldExists
<1>4. GoAlike(f, g, N)
  <2>1. \A n \in 1 .. N : n \in 1 .. Len(t)
    BY <1>1
  <2> QED BY <1>1, <1>2, <1>3, <2>1 DEF Folds, GoAlike
<1>5. f[N] = g[N]
  <2>1. \A n \in 0 .. N : f[n] = g[n]
    <3> HIDE DEF N
    <3> QED BY <1>1, <1>4, SameRecursion
  <2>2. N \in 0 .. N
    BY <1>1
  <2> QED BY <2>1, <2>2
<1>6. g[N + 1] = op[g[N]][e]
  <2>1. N + 1 \in 1 .. Len(t) /\ N + 1 - 1 = N
    BY <1>1
  <2>2. g[N + 1] = op[g[N + 1 - 1]][t[N + 1]]
    BY <1>3, <2>1 DEF Folds
  <2> QED BY <1>1, <2>1, <2>2
<1>7. Folded(op, c, s) = f[N] /\ Folded(op, c, t) = g[N + 1]
  BY <1>1, <1>2, <1>3, FoldedIs
<1> QED BY <1>5, <1>6, <1>7 DEF t
=============================================================================
