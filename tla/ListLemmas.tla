----------------------------- MODULE ListLemmas -----------------------------
(***************************************************************************)
(* Facts about sequences, numbers and recursive definitions that the       *)
(* proofs of several modules use.                                          *)
(***************************************************************************)
EXTENDS Integers, Sequences, SequencesExt, SequenceTheorems, WellFoundedInduction, TLAPS

\* A list search that stops at the first hit stops somewhere.
LEMMA FirstExists ==
    ASSUME NEW S \in SUBSET Nat, S # {}
    PROVE  \E i \in S : \A k \in S : i <= k
<1>1. PICK i \in S : \A k \in S : ~(<<k, i>> \in OpToRel(<, Nat))
  BY NatLessThanWellFounded, WFMin
<1>2. \A k \in S : ~(k < i)
  BY <1>1, Zenon DEF OpToRel
<1> QED BY <1>2

\* Taking element i out of a list moves the later ones one position forward.
LEMMA RemoveAtProperties ==
    ASSUME NEW A, NEW s \in Seq(A), NEW i \in 1 .. Len(s)
    PROVE  /\ RemoveAt(s, i) \in Seq(A)
           /\ Len(RemoveAt(s, i)) = Len(s) - 1
           /\ \A k \in 1 .. Len(s) - 1 :
                 RemoveAt(s, i)[k] = IF k < i THEN s[k] ELSE s[k + 1]
<1> DEFINE u == SubSeq(s, 1, i - 1)
           v == SubSeq(s, i + 1, Len(s))
<1>1. u \in Seq(A) /\ Len(u) = i - 1 /\ \A k \in 1 .. i - 1 : u[k] = s[k]
  OBVIOUS
<1>2. v \in Seq(A) /\ Len(v) = Len(s) - i /\ \A k \in 1 .. Len(s) - i : v[k] = s[k + i]
  OBVIOUS
<1>3. RemoveAt(s, i) = u \o v
  BY DEF RemoveAt
<1> HIDE DEF u, v
<1>4. /\ u \o v \in Seq(A)
      /\ Len(u \o v) = Len(u) + Len(v)
      /\ \A k \in 1 .. Len(u) + Len(v) :
            (u \o v)[k] = IF k <= Len(u) THEN u[k] ELSE v[k - Len(u)]
  BY <1>1, <1>2, ConcatProperties
<1> QED BY <1>1, <1>2, <1>3, <1>4

-----------------------------------------------------------------------------
(* Numbers. *)

\* The least and the greatest element of a bounded set of integers, which the
\* definitions of Min and Max choose.
LEMMA MinIsLeast ==
    ASSUME NEW S \in SUBSET Int, S # {}, NEW b \in Int, \A x \in S : b <= x
    PROVE  Min(S) \in S /\ \A x \in S : Min(S) <= x
<1> DEFINE T == {x - b : x \in S}
<1>1. T \in SUBSET Nat /\ T # {}
  <2>1. \A x \in S : x - b \in Nat
    OBVIOUS
  <2>2. PICK x \in S : TRUE
    OBVIOUS
  <2>3. x - b \in T
    OBVIOUS
  <2> QED BY <2>1, <2>3
<1>2. PICK d \in T : \A e \in T : d <= e
  BY <1>1, FirstExists
<1>3. PICK x \in S : d = x - b
  BY <1>2
<1>4. \A y \in S : x <= y
  <2>1. ASSUME NEW y \in S PROVE x <= y
    <3>1. y - b \in T
      OBVIOUS
    <3>2. d <= y - b
      BY <1>2, <3>1
    <3> QED BY <1>3, <3>2
  <2> QED BY <2>1
<1> QED BY <1>4 DEF Min

LEMMA MaxIsGreatest ==
    ASSUME NEW S \in SUBSET Int, S # {}, NEW b \in Int, \A x \in S : x <= b
    PROVE  Max(S) \in S /\ \A x \in S : x <= Max(S)
<1> DEFINE T == {b - x : x \in S}
<1>1. T \in SUBSET Nat /\ T # {}
  <2>1. \A x \in S : b - x \in Nat
    OBVIOUS
  <2>2. PICK x \in S : TRUE
    OBVIOUS
  <2>3. b - x \in T
    OBVIOUS
  <2> QED BY <2>1, <2>3
<1>2. PICK d \in T : \A e \in T : d <= e
  BY <1>1, FirstExists
<1>3. PICK x \in S : d = b - x
  BY <1>2
<1>4. \A y \in S : y <= x
  <2>1. ASSUME NEW y \in S PROVE y <= x
    <3>1. b - y \in T
      OBVIOUS
    <3>2. d <= b - y
      BY <1>2, <3>1
    <3> QED BY <1>3, <3>2
  <2> QED BY <2>1
<1>5. \A y \in S : x >= y
  BY <1>4
<1> QED BY <1>5 DEF Max

\* What holds of a number whenever it holds of all later ones, up to n, holds of
\* every number up to n: the set T is what it holds of.
LEMMA BackwardInduction ==
    ASSUME NEW n \in Nat, NEW T,
           \A i \in 1 .. n : (\A j \in i + 1 .. n : j \in T) => i \in T
    PROVE  \A i \in 1 .. n : i \in T
<1> DEFINE S == {i \in 1 .. n : i \notin T}
<1> SUFFICES ASSUME S # {} PROVE FALSE
  OBVIOUS
<1>1. S \in SUBSET Int /\ n \in Int /\ \A x \in S : x <= n
  OBVIOUS
<1> HIDE DEF S
<1>2. Max(S) \in S /\ \A x \in S : x <= Max(S)
  BY <1>1, MaxIsGreatest
<1> USE DEF S
<1>3. Max(S) \in 1 .. n /\ \A j \in Max(S) + 1 .. n : j \in T
  <2>1. ASSUME NEW j \in Max(S) + 1 .. n, j \notin T PROVE FALSE
    <3>1. j \in S
      BY <1>2
    <3> QED BY <1>2, <3>1
  <2> QED BY <1>2, <2>1
<1> QED BY <1>2, <1>3

\* H[i][f] is the right-hand side of a recursive definition of f, at index i of
\* I: it uses only the values of f at indices of a lower rank.
Recursive(I, V, rank, H) ==
    /\ V # {}
    /\ rank \in [I -> Nat]
    /\ \E n \in Nat : \A i \in I : rank[i] < n
    /\ H \in [I -> [[I -> V] -> V]]
    /\ \A i \in I : \A f, g \in [I -> V] :
          (\A j \in I : rank[j] < rank[i] => f[j] = g[j]) => H[i][f] = H[i][g]

Solvable(I, V, H) == \E f \in [I -> V] : \A i \in I : f[i] = H[i][f]

\* A recursive definition has a solution.
LEMMA Recursion ==
    ASSUME NEW I, NEW V, NEW rank, NEW H, Recursive(I, V, rank, H)
    PROVE  Solvable(I, V, H)
<1> USE DEF Recursive
<1> DEFINE Upto(m) == \E f \in [I -> V] : \A i \in I : rank[i] < m => f[i] = H[i][f]
<1>1. Upto(0)
  <2>1. PICK v \in V : TRUE
    OBVIOUS
  <2>2. [i \in I |-> v] \in [I -> V]
    OBVIOUS
  <2>3. \A i \in I : ~(rank[i] < 0)
    OBVIOUS
  <2> QED BY <2>2, <2>3
<1>2. ASSUME NEW m \in Nat, Upto(m) PROVE Upto(m + 1)
  <2>1. PICK f \in [I -> V] : \A i \in I : rank[i] < m => f[i] = H[i][f]
    BY <1>2
  <2> DEFINE g == [i \in I |-> IF rank[i] = m THEN H[i][f] ELSE f[i]]
  <2>2. g \in [I -> V]
    OBVIOUS
  <2>3. \A i \in I : g[i] = IF rank[i] = m THEN H[i][f] ELSE f[i]
    OBVIOUS
  <2> HIDE DEF g
  <2>4. ASSUME NEW i \in I, rank[i] < m + 1 PROVE g[i] = H[i][g]
    <3>1. \A j \in I : rank[j] < rank[i] => f[j] = g[j]
      BY <2>3, <2>4
    <3>2. H[i][f] = H[i][g]
      BY <2>2, <3>1
    <3>3. rank[i] = m \/ rank[i] < m
      <4>1. \A k \in Nat : k < m + 1 => k = m \/ k < m
        OBVIOUS
      <4>2. rank[i] \in Nat
        OBVIOUS
      <4> QED BY <2>4, <4>1, <4>2, Zenon
    <3> QED BY <2>1, <2>3, <3>2, <3>3
  <2> QED BY <2>2, <2>4
<1> DEFINE S == {m \in Nat : ~Upto(m)}
<1>3. \A m \in Nat : Upto(m)
  <2> SUFFICES ASSUME S # {} PROVE FALSE
    OBVIOUS
  <2> HIDE DEF Upto
  <2>1. PICK m \in S : \A k \in S : m <= k
    BY FirstExists
  <2>2. m # 0 /\ m - 1 \in Nat
    BY <1>1, <2>1
  <2>3. Upto(m - 1)
    BY <2>1, <2>2
  <2>4. Upto(m - 1 + 1)
    BY <1>2, <2>2, <2>3
  <2> QED BY <2>1, <2>4
<1>4. PICK n \in Nat : \A i \in I : rank[i] < n
  OBVIOUS
<1> HIDE DEF Recursive
<1>5. Upto(n)
  BY <1>3
<1> QED BY <1>4, <1>5 DEF Solvable

\* f and g agree at an index whenever they agree at all indices of a lower rank.
Agreeing(I, rank, f, g) ==
    /\ rank \in [I -> Nat]
    /\ \A i \in I : (\A j \in I : rank[j] < rank[i] => f[j] = g[j]) => f[i] = g[i]

\* Then they agree: a recursive definition has one solution.
LEMMA Agreement ==
    ASSUME NEW I, NEW rank, NEW f, NEW g, Agreeing(I, rank, f, g)
    PROVE  \A i \in I : f[i] = g[i]
<1> USE DEF Agreeing
<1> DEFINE S == {rank[i] : i \in {j \in I : f[j] # g[j]}}
<1> SUFFICES ASSUME NEW i \in I, f[i] # g[i] PROVE FALSE
  OBVIOUS
<1>1. S \in SUBSET Nat /\ S # {}
  OBVIOUS
<1>2. PICK m \in S : \A k \in S : m <= k
  BY <1>1, FirstExists
<1>3. PICK j \in I : f[j] # g[j] /\ m = rank[j]
  BY <1>2
<1>4. ASSUME NEW k \in I, rank[k] < rank[j] PROVE f[k] = g[k]
  <2>1. SUFFICES ASSUME f[k] # g[k] PROVE FALSE
    OBVIOUS
  <2>2. rank[k] \in S
    BY <2>1
  <2>3. m <= rank[k] /\ rank[k] \in Nat /\ rank[j] \in Nat
    BY <1>2, <2>2
  <2> QED BY <1>3, <1>4, <2>3
<1> QED BY <1>3, <1>4

\* The same for a definition that goes back from n: the value at i uses only
\* values at later indices.
RecursiveBack(n, V, H) ==
    /\ V # {} /\ n \in Nat
    /\ H \in [1 .. n -> [[1 .. n -> V] -> V]]
    /\ \A i \in 1 .. n : \A f, g \in [1 .. n -> V] :
          (\A j \in i + 1 .. n : f[j] = g[j]) => H[i][f] = H[i][g]

LEMMA RecursionBack ==
    ASSUME NEW n, NEW V, NEW H, RecursiveBack(n, V, H)
    PROVE  Solvable(1 .. n, V, H)
<1> DEFINE I == 1 .. n
           rank == [i \in I |-> n - i]
<1>1. V # {} /\ n \in Nat /\ H \in [I -> [[I -> V] -> V]]
  BY DEF RecursiveBack
<1>2. rank \in [I -> Nat] /\ \A i \in I : rank[i] = n - i /\ rank[i] < n
  BY <1>1
<1>3. \A i \in I : \A f, g \in [I -> V] :
          (\A j \in i + 1 .. n : f[j] = g[j]) => H[i][f] = H[i][g]
  BY DEF RecursiveBack
<1>4. \A i \in I : \A j \in i + 1 .. n : j \in I /\ rank[j] < rank[i]
  BY <1>1
<1> HIDE DEF I, rank
<1>5. Recursive(I, V, rank, H)
  <2>1. ASSUME NEW i \in I, NEW f \in [I -> V], NEW g \in [I -> V],
               \A j \in I : rank[j] < rank[i] => f[j] = g[j]
        PROVE  H[i][f] = H[i][g]
    BY <1>3, <1>4, <2>1
  <2> QED BY <1>1, <1>2, <2>1 DEF Recursive
<1>6. Solvable(I, V, H)
  BY <1>5, Recursion
<1> QED BY <1>6 DEF I

AgreeingBack(n, f, g) ==
    /\ n \in Nat
    /\ \A i \in 1 .. n : (\A j \in i + 1 .. n : f[j] = g[j]) => f[i] = g[i]

LEMMA AgreementBack ==
    ASSUME NEW n, NEW f, NEW g, AgreeingBack(n, f, g)
    PROVE  \A i \in 1 .. n : f[i] = g[i]
<1> DEFINE T == {i \in 1 .. n : f[i] = g[i]}
<1>1. n \in Nat
  BY DEF AgreeingBack
<1>2. ASSUME NEW i \in 1 .. n, \A j \in i + 1 .. n : j \in T PROVE i \in T
  BY <1>2 DEF AgreeingBack
<1> HIDE DEF T
<1>3. \A i \in 1 .. n : i \in T
  BY <1>1, <1>2, BackwardInduction
<1> QED BY <1>3 DEF T
=============================================================================
