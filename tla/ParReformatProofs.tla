------------------------- MODULE ParReformatProofs -------------------------
(***************************************************************************)
(* Proofs about ParReformat: the invariants its run checks hold for every  *)
(* width, prefix, suffix and hang and for every input.  First, whatever    *)
(* the words, the lines that choosebreaks leaves in them are one of the    *)
(* best ways to break them.                                                *)
(*                                                                         *)
(* Then about the buffer into which reformat puts its lines, for any items,*)
(* any capacity of the first block and any bound on the chain: the shape   *)
(* of the chain, and that with it the buffer is the sequence its header    *)
(* promises.                                                               *)
(***************************************************************************)
EXTENDS ParReformat, ParBufferContract, ListLemmas

-----------------------------------------------------------------------------
(* The table of lengths. *)

\* A longer line is a line of more characters, and none is empty.
IsTable(len) ==
    /\ len \in Seq(UNION {[S -> Nat \ {0}] : S \in SUBSET Nat})
    /\ \A i \in 1 .. Len(len) : len[i] \in [i .. Len(len) -> Nat \ {0}]
    /\ \A i \in 1 .. Len(len) : \A j, k \in i .. Len(len) : j < k => len[i][j] < len[i][k]

\* The row of the table that belongs to word i.
RowFrom(lengths, i) ==
    LET len[j \in i .. Len(lengths)] ==
          IF j = i THEN lengths[i] ELSE len[j - 1] + 1 + lengths[j]
    IN  len

LEMMA RowUnfolds ==
    ASSUME NEW lengths \in Seq(Nat \ {0}), NEW i \in 1 .. Len(lengths)
    PROVE  LET row == RowFrom(lengths, i)
           IN  /\ row \in [i .. Len(lengths) -> Nat]
               /\ \A j \in i .. Len(lengths) :
                     row[j] = IF j = i THEN lengths[i] ELSE row[j - 1] + 1 + lengths[j]
<1> DEFINE n == Len(lengths)
           I == i .. n
           rank == [j \in I |-> j - i]
           E(g, j) == IF j = i THEN lengths[i] ELSE g[j - 1] + 1 + lengths[j]
           H == [j \in I |-> [g \in [I -> Nat] |-> E(g, j)]]
<1>1. n \in Nat /\ \A j \in I : lengths[j] \in Nat /\ j - i \in Nat /\ j - i < n
  OBVIOUS
<1>2. rank \in [I -> Nat] /\ \A j \in I : rank[j] = j - i
  BY <1>1
<1>3. \A g \in [I -> Nat] : \A j \in I : E(g, j) \in Nat
  <2> SUFFICES ASSUME NEW g \in [I -> Nat], NEW j \in I, j # i PROVE E(g, j) \in Nat
    <3> SUFFICES ASSUME NEW g \in [I -> Nat], NEW j \in I PROVE E(g, j) \in Nat
      OBVIOUS
    <3>1. lengths[i] \in Nat
      OBVIOUS
    <3>2. CASE j = i
      BY <3>1, <3>2
    <3> QED BY <3>2
  <2>1. j - 1 \in I
    OBVIOUS
  <2>2. g[j - 1] \in Nat
    BY <2>1
  <2> DEFINE x == g[j - 1]
             y == lengths[j]
  <2>3. x + 1 + y \in Nat
    <3>1. x \in Nat /\ y \in Nat
      BY <1>1, <2>2
    <3> HIDE DEF x, y
    <3> QED BY <3>1
  <2>4. E(g, j) = x + 1 + y
    OBVIOUS
  <2> HIDE DEF E, x, y
  <2> QED BY <2>3, <2>4
<1>4. ASSUME NEW j \in I, NEW f, NEW g,
             \A k \in I : rank[k] < rank[j] => f[k] = g[k]
      PROVE  E(f, j) = E(g, j)
  <2> SUFFICES ASSUME j # i PROVE f[j - 1] = g[j - 1]
    OBVIOUS
  <2>1. j - 1 \in I /\ rank[j - 1] < rank[j]
    BY <1>2
  <2> QED BY <1>4, <2>1
<1> HIDE DEF E, rank
<1>5. H \in [I -> [[I -> Nat] -> Nat]]
  BY <1>3
<1>6. \A j \in I : \A g \in [I -> Nat] : H[j][g] = E(g, j)
  OBVIOUS
<1> HIDE DEF H, I
<1>7. PICK f \in [I -> Nat] : \A j \in I : f[j] = H[j][f]
  <2>1. \A j \in I : rank[j] < n
    BY <1>1, <1>2
  <2>2. \A j \in I : \A f, g \in [I -> Nat] :
          (\A k \in I : rank[k] < rank[j] => f[k] = g[k]) => H[j][f] = H[j][g]
    BY <1>4, <1>6
  <2>3. Nat # {}
    OBVIOUS
  <2>4. Recursive(I, Nat, rank, H)
    BY <1>1, <1>2, <1>5, <2>1, <2>2, <2>3 DEF Recursive
  <2> QED BY <2>4, Recursion DEF Solvable
<1>8. \A j \in I : f[j] = E(f, j)
  BY <1>6, <1>7
<1>9. f = [j \in I |-> E(f, j)]
  BY <1>7, <1>8
<1>10. RowFrom(lengths, i) = CHOOSE g : g = [j \in I |-> E(g, j)]
  BY DEF RowFrom, E, I
<1> DEFINE row == RowFrom(lengths, i)
<1>11. row = [j \in I |-> E(row, j)]
  <2> DEFINE F(g) == [j \in I |-> E(g, j)]
  <2>1. f = F(f) /\ row = CHOOSE g : g = F(g)
    BY <1>9, <1>10
  <2> HIDE DEF F, row
  <2>2. row = F(row)
    BY <2>1, Zenon
  <2> QED BY <2>2 DEF F
<1>12. row \in [I -> Nat] /\ \A j \in I : row[j] = E(row, j)
  <2> HIDE DEF row
  <2>1. DOMAIN row = I /\ \A j \in I : row[j] = E(row, j)
    BY <1>11
  <2>2. \A j \in I : (\A k \in I : rank[k] < rank[j] => f[k] = row[k]) => f[j] = row[j]
    BY <1>4, <1>8, <2>1
  <2>3. Agreeing(I, rank, f, row)
    BY <1>2, <2>2 DEF Agreeing
  <2>4. \A j \in I : f[j] = row[j]
    BY <2>3, Agreement
  <2> QED BY <1>11, <2>1, <2>4
<1> QED BY <1>12 DEF E, I

LEMMA LineLensIsTable ==
    ASSUME NEW lengths \in Seq(Nat \ {0})
    PROVE  LET len == LineLens(lengths)
           IN  /\ IsTable(len)
               /\ Len(len) = Len(lengths)
               /\ \A i \in 1 .. Len(lengths) : len[i][i] = lengths[i]
<1> DEFINE len == LineLens(lengths)
           n == Len(lengths)
           Rows == UNION {[S -> Nat \ {0}] : S \in SUBSET Nat}
<1>1. n \in Nat /\ DOMAIN lengths = 1 .. n /\ \A i \in 1 .. n : lengths[i] \in Nat \ {0}
  OBVIOUS
<1>2. DOMAIN len = 1 .. n /\ \A i \in 1 .. n : len[i] = RowFrom(lengths, i)
  BY <1>1 DEF LineLens, RowFrom
<1>3. len = [i \in 1 .. n |-> len[i]]
  BY <1>1 DEF LineLens
<1> HIDE DEF len
<1>4. ASSUME NEW i \in 1 .. n
      PROVE  /\ len[i] \in [i .. n -> Nat \ {0}]
             /\ len[i][i] = lengths[i]
             /\ \A j, k \in i .. n : j < k => len[i][j] < len[i][k]
  <2> DEFINE row == len[i]
  <2>1. /\ row \in [i .. n -> Nat]
        /\ \A j \in i .. n : row[j] = IF j = i THEN lengths[i] ELSE row[j - 1] + 1 + lengths[j]
    BY <1>2, RowUnfolds
  <2>2. \A j \in i .. n : row[j] \in Nat
    BY <2>1
  <2>3. i \in i .. n /\ row[i] = lengths[i]
    BY <2>1
  <2>4. ASSUME NEW j \in i .. n, j # i PROVE row[j - 1] \in Nat /\ row[j - 1] < row[j]
    <3>1. j - 1 \in i .. n /\ j \in 1 .. n
      BY <2>4
    <3>2. row[j] = row[j - 1] + 1 + lengths[j] /\ row[j - 1] \in Nat
      BY <2>1, <2>2, <2>4, <3>1
    <3> QED BY <1>1, <3>1, <3>2
  <2>5. \A j \in i .. n : row[j] # 0
    <3> SUFFICES ASSUME NEW j \in i .. n PROVE row[j] # 0
      OBVIOUS
    <3> HIDE DEF row
    <3>1. CASE j = i
      BY <1>1, <2>3, <3>1
    <3>2. CASE j # i
      <4>1. row[j - 1] \in Nat /\ row[j - 1] < row[j] /\ row[j] \in Nat
        BY <2>2, <2>4, <3>2
      <4> QED BY <4>1
    <3> QED BY <3>1, <3>2
  <2>6. ASSUME NEW k \in i .. n, NEW j \in i .. n, j < k PROVE row[j] < row[k]
    <3> DEFINE S == {d \in Nat : d \in i .. n /\ j < d /\ ~(row[j] < row[d])}
    <3> SUFFICES ASSUME S # {} PROVE FALSE
      BY <2>6
    <3> HIDE DEF row
    <3>1. PICK d \in S : \A e \in S : d <= e
      BY FirstExists
    <3>2. d \in Nat /\ d \in i .. n /\ j < d /\ ~(row[j] < row[d])
      OBVIOUS
    <3>3. d - 1 \in Nat /\ d - 1 \in i .. n /\ row[d - 1] < row[d]
      BY <2>4, <3>2
    <3>4. row[d - 1] \in Nat /\ row[d] \in Nat /\ row[j] \in Nat
      <4>1. d - 1 \in i .. n
        BY <3>3
      <4> QED BY <2>2, <3>2, <4>1
    <3>5. d - 1 # j
      BY <3>2, <3>3
    <3>6. j < d - 1
      BY <3>2, <3>5
    <3>7. row[j] < row[d - 1]
      <4>1. d - 1 \notin S
        BY <3>1, <3>2
      <4> QED BY <3>3, <3>6, <4>1
    <3> DEFINE x == row[j]
               y == row[d - 1]
               z == row[d]
    <3>8. x \in Nat /\ y \in Nat /\ z \in Nat /\ x < y /\ y < z /\ ~(x < z)
      BY <3>2, <3>3, <3>4, <3>7
    <3> HIDE DEF x, y, z
    <3> QED BY <3>8
  <2>7. row \in [i .. n -> Nat \ {0}]
    <3> HIDE DEF row
    <3> QED BY <2>1, <2>5
  <2> QED BY <2>3, <2>6, <2>7
<1>5. len \in Seq(Rows) /\ Len(len) = n
  <2>1. \A i \in 1 .. n : len[i] \in Rows
    <3> SUFFICES ASSUME NEW i \in 1 .. n PROVE len[i] \in Rows
      OBVIOUS
    <3>1. i .. n \in SUBSET Nat
      BY <1>1
    <3> QED BY <1>4, <3>1
  <2> HIDE DEF Rows
  <2>2. len \in [1 .. n -> Rows]
    BY <1>3, <2>1
  <2>3. len \in Seq(Rows)
    BY <1>1, <2>2, SeqDef
  <2>4. Len(len) \in Nat /\ 1 .. Len(len) = 1 .. n
    BY <1>2, <2>3, LenProperties
  <2> QED BY <1>1, <2>3, <2>4
<1> QED BY <1>4, <1>5 DEF IsTable, len

LEMMA TableFacts ==
    ASSUME NEW len, IsTable(len)
    PROVE  /\ Len(len) \in Nat /\ DOMAIN len = 1 .. Len(len)
           /\ \A i \in 1 .. Len(len) : \A j \in i .. Len(len) : len[i][j] \in Nat
           /\ \A i \in 1 .. Len(len) : \A j, k \in i .. Len(len) :
                  j < k => len[i][j] < len[i][k]
<1>1. Len(len) \in Nat /\ DOMAIN len = 1 .. Len(len)
  <2>1. len \in Seq(UNION {[S -> Nat \ {0}] : S \in SUBSET Nat})
    BY DEF IsTable
  <2> QED BY <2>1, LenProperties
<1>2. ASSUME NEW i \in 1 .. Len(len), NEW j \in i .. Len(len) PROVE len[i][j] \in Nat
  <2>1. len[i] \in [i .. Len(len) -> Nat \ {0}]
    BY DEF IsTable
  <2> QED BY <2>1
<1>3. \A i \in 1 .. Len(len) : \A j, k \in i .. Len(len) : j < k => len[i][j] < len[i][k]
  BY DEF IsTable
<1> QED BY <1>1, <1>2, <1>3

-----------------------------------------------------------------------------
(* Ways to break the words from some word on. *)

\* The ways to break the words i to n.
WaysFrom(n, i) == {way \in SUBSET (i .. n) : i \in way}

\* The word after the line that begins with word i.
After(n, way, i) == Min({j \in way : j > i} \cup {n + 1})

\* Every line has at most `most` characters, and every line that counts at
\* least `least`.
Fits(len, way, last, least, most) ==
    \A i \in way : After(Len(len), way, i) - 1 \in Candidates(len, i, most, last, least)

\* The words from i on can be broken into such lines.
Able(len, i, last, least, most) ==
    \E way \in WaysFrom(Len(len), i) : Fits(len, way, last, least, most)

LEMMA AfterIsNext ==
    ASSUME NEW n \in Nat, NEW way \in SUBSET (1 .. n), NEW i \in 1 .. n
    PROVE  /\ After(n, way, i) \in i + 1 .. n + 1
           /\ After(n, way, i) \in way \/ After(n, way, i) = n + 1
           /\ \A k \in way : k > i => After(n, way, i) <= k
<1> DEFINE S == {j \in way : j > i} \cup {n + 1}
<1>1. S \in SUBSET Int /\ i \in Int /\ \A x \in S : i <= x
  <2>1. \A x \in S : x \in Int /\ i <= x
    OBVIOUS
  <2>2. i \in Int
    OBVIOUS
  <2> HIDE DEF S
  <2> QED BY <2>1, <2>2
<1>2. S # {} /\ After(n, way, i) = Min(S)
  BY DEF After
<1> HIDE DEF S
<1>3. Min(S) \in S /\ \A x \in S : Min(S) <= x
  BY <1>1, <1>2, MinIsLeast
<1> USE DEF S
<1>4. \A x \in S : x \in i + 1 .. n + 1 /\ (x \in way \/ x = n + 1)
  OBVIOUS
<1>5. \A k \in way : k > i => k \in S
  OBVIOUS
<1> HIDE DEF S
<1> QED BY <1>2, <1>3, <1>4, <1>5

\* There is only one such word.
LEMMA AfterIsUnique ==
    ASSUME NEW n \in Nat, NEW way \in SUBSET (1 .. n), NEW i \in 1 .. n,
           NEW a \in i + 1 .. n + 1, a \in way \/ a = n + 1,
           \A k \in way : k > i => a <= k
    PROVE  After(n, way, i) = a
<1>1. /\ After(n, way, i) \in i + 1 .. n + 1
      /\ After(n, way, i) \in way \/ After(n, way, i) = n + 1
      /\ \A k \in way : k > i => After(n, way, i) <= k
  BY AfterIsNext
<1>2. After(n, way, i) <= a
  BY <1>1
<1>3. a <= After(n, way, i)
  BY <1>1
<1> QED BY <1>1, <1>2, <1>3

\* A line put in front of a way to break the rest makes a longer way.
LEMMA LineInFront ==
    ASSUME NEW n \in Nat, NEW i \in 1 .. n, NEW j \in i .. n - 1,
           NEW others \in WaysFrom(n, j + 1)
    PROVE  /\ {i} \cup others \in WaysFrom(n, i)
           /\ After(n, {i} \cup others, i) = j + 1
           /\ \A k \in others : After(n, {i} \cup others, k) = After(n, others, k)
<1> DEFINE way == {i} \cup others
<1>1. others \in SUBSET (j + 1 .. n) /\ j + 1 \in others
  BY DEF WaysFrom
<1>2. way \in SUBSET (i .. n) /\ i \in way /\ way \in SUBSET (1 .. n) /\ others \in SUBSET (1 .. n)
  BY <1>1
<1>3. After(n, way, i) = j + 1
  <2>1. \A k \in way : k > i => j + 1 <= k
    BY <1>1
  <2>2. j + 1 \in i + 1 .. n + 1 /\ j + 1 \in way
    BY <1>1
  <2> HIDE DEF way
  <2> QED BY <1>2, <2>1, <2>2, AfterIsUnique
<1>4. ASSUME NEW k \in others PROVE After(n, way, k) = After(n, others, k)
  <2>1. k \in 1 .. n /\ k > i
    BY <1>1
  <2>2. /\ After(n, others, k) \in k + 1 .. n + 1
        /\ After(n, others, k) \in others \/ After(n, others, k) = n + 1
        /\ \A l \in others : l > k => After(n, others, k) <= l
    BY <1>2, <2>1, AfterIsNext
  <2>3. \A l \in way : l > k => After(n, others, k) <= l
    BY <1>2, <2>1, <2>2
  <2> QED BY <1>2, <2>1, <2>2, <2>3, AfterIsUnique
<1> QED BY <1>2, <1>3, <1>4 DEF WaysFrom

\* The lines after the first make a shorter way.
LEMMA LinesBehind ==
    ASSUME NEW n \in Nat, NEW i \in 1 .. n, NEW way \in WaysFrom(n, i),
           After(n, way, i) # n + 1
    PROVE  /\ way \ {i} \in WaysFrom(n, After(n, way, i))
           /\ \A k \in way \ {i} : After(n, way \ {i}, k) = After(n, way, k)
<1> DEFINE others == way \ {i}
           a == After(n, way, i)
<1>1. way \in SUBSET (i .. n) /\ i \in way /\ way \in SUBSET (1 .. n) /\ others \in SUBSET (1 .. n)
  BY DEF WaysFrom
<1>2. a \in i + 1 .. n /\ a \in way /\ \A k \in way : k > i => a <= k
  BY <1>1, AfterIsNext
<1>3. others \in SUBSET (a .. n) /\ a \in others
  BY <1>1, <1>2
<1>4. ASSUME NEW k \in others PROVE After(n, others, k) = After(n, way, k)
  <2>1. k \in 1 .. n /\ k > i
    BY <1>1
  <2>2. /\ After(n, way, k) \in k + 1 .. n + 1
        /\ After(n, way, k) \in way \/ After(n, way, k) = n + 1
        /\ \A l \in way : l > k => After(n, way, k) <= l
    BY <1>1, <2>1, AfterIsNext
  <2>3. After(n, way, k) \in others \/ After(n, way, k) = n + 1
    BY <2>1, <2>2
  <2>4. \A l \in others : l > k => After(n, way, k) <= l
    BY <2>2
  <2> QED BY <1>1, <2>1, <2>2, <2>3, <2>4, AfterIsUnique
<1> QED BY <1>3, <1>4 DEF WaysFrom

\* The words from i on can be broken if they have a first line to begin with
\* and the words after it can be broken.
LEMMA AbleStep ==
    ASSUME NEW len, IsTable(len), NEW i \in 1 .. Len(len),
           NEW last \in BOOLEAN, NEW least \in Nat, NEW most \in Nat
    PROVE  Able(len, i, last, least, most) <=>
               \E j \in Candidates(len, i, most, last, least) :
                   j = Len(len) \/ Able(len, j + 1, last, least, most)
<1> DEFINE n == Len(len)
<1>1. n \in Nat
  BY TableFacts
<1>2. \A k \in 1 .. n : Candidates(len, k, most, last, least) \subseteq k .. n
  BY DEF Candidates, LineEnds
<1>3. ASSUME NEW way \in WaysFrom(n, i), Fits(len, way, last, least, most)
      PROVE  \E j \in Candidates(len, i, most, last, least) :
                 j = n \/ Able(len, j + 1, last, least, most)
  <2> DEFINE j == After(n, way, i) - 1
  <2>1. way \in SUBSET (1 .. n) /\ i \in way
    BY <1>1 DEF WaysFrom
  <2>2. j \in Candidates(len, i, most, last, least)
    BY <1>3, <2>1 DEF Fits
  <2>3. After(n, way, i) \in Int
    BY <1>1, <2>1, AfterIsNext
  <2>4. CASE After(n, way, i) = n + 1
    BY <1>1, <2>2, <2>4
  <2>5. CASE After(n, way, i) # n + 1
    <3>1. /\ way \ {i} \in WaysFrom(n, After(n, way, i))
          /\ \A k \in way \ {i} : After(n, way \ {i}, k) = After(n, way, k)
      BY <1>1, <2>5, LinesBehind
    <3>2. Fits(len, way \ {i}, last, least, most)
      BY <1>3, <3>1 DEF Fits
    <3>3. j + 1 = After(n, way, i)
      BY <2>3
    <3>4. Able(len, j + 1, last, least, most)
      BY <3>1, <3>2, <3>3 DEF Able
    <3> QED BY <2>2, <3>4
  <2> QED BY <2>4, <2>5
<1>4. ASSUME NEW j \in Candidates(len, i, most, last, least), j = n
      PROVE  Able(len, i, last, least, most)
  <2>1. {i} \in WaysFrom(n, i)
    BY <1>1 DEF WaysFrom
  <2>2. After(n, {i}, i) = n + 1
    <3> DEFINE way == {i}
    <3>1. way \in SUBSET (1 .. n) /\ n + 1 \in i + 1 .. n + 1
      BY <1>1
    <3>2. \A k \in way : k > i => n + 1 <= k
      OBVIOUS
    <3> HIDE DEF way, n
    <3>3. After(n, way, i) = n + 1
      BY <1>1, <3>1, <3>2, AfterIsUnique
    <3> QED BY <3>3 DEF way
  <2>3. After(n, {i}, i) - 1 = j
    BY <1>1, <1>4, <2>2
  <2>4. Fits(len, {i}, last, least, most)
    BY <2>3 DEF Fits
  <2> QED BY <2>1, <2>4 DEF Able
<1>5. ASSUME NEW j \in Candidates(len, i, most, last, least), j # n,
             Able(len, j + 1, last, least, most)
      PROVE  Able(len, i, last, least, most)
  <2>1. PICK others \in WaysFrom(n, j + 1) : Fits(len, others, last, least, most)
    BY <1>5 DEF Able
  <2>2. j \in i .. n - 1
    BY <1>1, <1>2, <1>5
  <2> DEFINE way == {i} \cup others
  <2>3. /\ way \in WaysFrom(n, i)
        /\ After(n, way, i) = j + 1
        /\ \A k \in others : After(n, way, k) = After(n, others, k)
    BY <1>1, <2>2, LineInFront
  <2>4. After(n, way, i) - 1 = j
    BY <2>2, <2>3
  <2>5. Fits(len, way, last, least, most)
    <3> SUFFICES ASSUME NEW k \in way
                 PROVE  After(n, way, k) - 1 \in Candidates(len, k, most, last, least)
      BY DEF Fits
    <3>1. CASE k = i
      BY <1>5, <2>4, <3>1
    <3>2. CASE k \in others
      BY <2>1, <2>3, <3>2 DEF Fits
    <3> QED BY <3>1, <3>2
  <2> QED BY <2>3, <2>5 DEF Able
<1> QED BY <1>3, <1>4, <1>5 DEF Able

-----------------------------------------------------------------------------
(* The first pass. *)

\* What the first pass computes for word i, given its scores of later words.
FirstPass(len, width, last, score, i) ==
    IF len[i][Len(len)] <= width THEN IF last THEN len[i][Len(len)] ELSE width
    ELSE Max({-1} \cup {Lesser(len[i][j], score[j + 1]) : j \in LineEnds(len, i, width)})

LEMMA LongestShortestUnfolds ==
    ASSUME NEW len, IsTable(len), NEW width \in Nat, NEW last \in BOOLEAN
    PROVE  LET score == LongestShortest(len, width, last)
               n == Len(len)
           IN  /\ score \in [1 .. n -> Int]
               /\ \A i \in 1 .. n : score[i] =
                     FirstPass(len, width, last, score, i)
<1> DEFINE n == Len(len)
           Short(g, i) == {Lesser(len[i][j], g[j + 1]) : j \in LineEnds(len, i, width)}
           E(g, i) == FirstPass(len, width, last, g, i)
           H == [i \in 1 .. n |-> [g \in [1 .. n -> Int] |-> E(g, i)]]
           score == LongestShortest(len, width, last)
<1>1. /\ n \in Nat /\ DOMAIN len = 1 .. n
      /\ \A i \in 1 .. n : \A j \in i .. n : len[i][j] \in Nat
  BY TableFacts
<1> USE DEF FirstPass
<1>2. ASSUME NEW i \in 1 .. n, ~(len[i][n] <= width)
      PROVE  \A j \in LineEnds(len, i, width) : j \in i .. n - 1 /\ len[i][j] \in Nat /\ len[i][j] <= width
  BY <1>1, <1>2 DEF LineEnds
<1>3. ASSUME NEW g \in [1 .. n -> Int], NEW i \in 1 .. n PROVE E(g, i) \in Int
  <2>1. CASE len[i][n] <= width
    BY <1>1, <2>1
  <2>2. CASE ~(len[i][n] <= width)
    <3> DEFINE S == {-1} \cup Short(g, i)
    <3>1. \A j \in LineEnds(len, i, width) : Lesser(len[i][j], g[j + 1]) \in Int /\ Lesser(len[i][j], g[j + 1]) <= width
      <4> SUFFICES ASSUME NEW j \in LineEnds(len, i, width)
                   PROVE  Lesser(len[i][j], g[j + 1]) \in Int /\ Lesser(len[i][j], g[j + 1]) <= width
        OBVIOUS
      <4>1. j + 1 \in 1 .. n /\ len[i][j] \in Nat /\ len[i][j] <= width
        BY <1>1, <1>2, <2>2
      <4>2. g[j + 1] \in Int
        BY <4>1
      <4> QED BY <4>1, <4>2 DEF Lesser
    <3>2. \A x \in S : x \in Int /\ x <= width
      BY <3>1
    <3>3. S # {} /\ width \in Int
      OBVIOUS
    <3> HIDE DEF S
    <3>4. Max(S) \in Int
      <4>1. S \in SUBSET Int
        BY <3>2
      <4> QED BY <3>2, <3>3, <4>1, MaxIsGreatest
    <3> QED BY <2>2, <3>4 DEF S
  <2> QED BY <2>1, <2>2
<1>4. ASSUME NEW i \in 1 .. n, NEW f, NEW g, \A j \in i + 1 .. n : f[j] = g[j]
      PROVE  E(f, i) = E(g, i)
  <2> SUFFICES ASSUME ~(len[i][n] <= width) PROVE Short(f, i) = Short(g, i)
    OBVIOUS
  <2>1. \A j \in LineEnds(len, i, width) : f[j + 1] = g[j + 1]
    BY <1>1, <1>2, <1>4
  <2> QED BY <2>1
<1> HIDE DEF E, FirstPass
<1>5. \A i \in 1 .. n : \A g \in [1 .. n -> Int] : H[i][g] = E(g, i)
  OBVIOUS
<1>6. H \in [1 .. n -> [[1 .. n -> Int] -> Int]]
  BY <1>3
<1> HIDE DEF H
<1>7. RecursiveBack(n, Int, H)
  <2>1. \A i \in 1 .. n : \A f, g \in [1 .. n -> Int] :
            (\A j \in i + 1 .. n : f[j] = g[j]) => H[i][f] = H[i][g]
    BY <1>4, <1>5
  <2>2. Int # {}
    OBVIOUS
  <2> QED BY <1>1, <1>6, <2>1, <2>2 DEF RecursiveBack
<1>8. PICK f \in [1 .. n -> Int] : \A i \in 1 .. n : f[i] = H[i][f]
  BY <1>7, RecursionBack DEF Solvable
<1>9. f = [i \in 1 .. n |-> E(f, i)]
  BY <1>5, <1>8
<1>10. score = [i \in 1 .. n |-> E(score, i)]
  <2> DEFINE F(g) == [i \in 1 .. n |-> E(g, i)]
  <2>1. f = F(f) /\ score = CHOOSE g : g = F(g)
    BY <1>1, <1>9 DEF LongestShortest, E, FirstPass
  <2> HIDE DEF F, score
  <2>2. score = F(score)
    BY <2>1, Zenon
  <2> QED BY <2>2 DEF F
<1>11. \A i \in 1 .. n : score[i] = E(score, i)
  <2> HIDE DEF score
  <2> QED BY <1>10
<1>12. AgreeingBack(n, f, score)
  <2> HIDE DEF score
  <2>1. \A i \in 1 .. n : (\A j \in i + 1 .. n : f[j] = score[j]) => E(f, i) = E(score, i)
    BY <1>4
  <2>2. \A i \in 1 .. n : f[i] = E(f, i)
    BY <1>5, <1>8
  <2> QED BY <1>1, <1>11, <2>1, <2>2 DEF AgreeingBack
<1>13. score \in [1 .. n -> Int]
  BY <1>8, <1>10, <1>12, AgreementBack
<1> QED BY <1>11, <1>13 DEF E

\* The score of a word is the greatest length to which the shortest line from
\* it on can be brought.
LEMMA LongestShortestIsGreatest ==
    ASSUME NEW len, IsTable(len), NEW width \in Nat, NEW last \in BOOLEAN
    PROVE  \A i \in 1 .. Len(len) :
              /\ LongestShortest(len, width, last)[i] \in -1 .. width
              /\ \A m \in 0 .. width : m <= LongestShortest(len, width, last)[i] <=> Able(len, i, last, m, width)
<1> DEFINE n == Len(len)
           score == LongestShortest(len, width, last)
           Right(i) == /\ score[i] \in -1 .. width
                       /\ \A m \in 0 .. width : m <= score[i] <=> Able(len, i, last, m, width)
           T == {i \in 1 .. n : Right(i)}
<1>1. /\ n \in Nat
      /\ \A i \in 1 .. n : \A j \in i .. n : len[i][j] \in Nat
      /\ \A i \in 1 .. n : \A j, k \in i .. n : j < k => len[i][j] < len[i][k]
  BY TableFacts
<1>2. /\ score \in [1 .. n -> Int]
      /\ \A i \in 1 .. n : score[i] = FirstPass(len, width, last, score, i)
  BY LongestShortestUnfolds
<1> HIDE DEF score
<1>3. ASSUME NEW i \in 1 .. n, \A j \in i + 1 .. n : Right(j) PROVE Right(i)
  <2>1. ASSUME NEW m \in 0 .. width
        PROVE  Able(len, i, last, m, width) <=> \E j \in Candidates(len, i, width, last, m) :
                                                j = n \/ Able(len, j + 1, last, m, width)
    <3>1. m \in Nat
      OBVIOUS
    <3> QED BY <3>1, AbleStep
  <2>2. n \in i .. n /\ len[i][n] \in Nat
    BY <1>1
  <2>3. CASE len[i][n] <= width
    <3>1. score[i] = IF last THEN len[i][n] ELSE width
      BY <1>2, <2>3 DEF FirstPass
    <3>2. ASSUME NEW m \in 0 .. width, m <= score[i] PROVE n \in Candidates(len, i, width, last, m)
      BY <2>2, <2>3, <3>1, <3>2 DEF Candidates, LineEnds, LeastLen
    <3>3. ASSUME NEW m \in 0 .. width, NEW j \in Candidates(len, i, width, last, m) PROVE m <= score[i]
      <4>1. CASE ~last
        BY <3>1, <4>1
      <4>2. CASE last
        <5>1. j \in i .. n /\ len[i][j] >= m
          BY <4>2 DEF Candidates, LineEnds, LeastLen
        <5>2. len[i][j] \in Nat /\ len[i][j] <= len[i][n]
          BY <1>1, <2>2, <5>1
        <5> QED BY <2>2, <3>1, <4>2, <5>1, <5>2
      <4> QED BY <4>1, <4>2
    <3>4. score[i] \in -1 .. width
      BY <2>2, <2>3, <3>1
    <3> QED BY <2>1, <3>2, <3>3, <3>4
  <2>4. CASE ~(len[i][n] <= width)
    <3> DEFINE Short == {Lesser(len[i][j], score[j + 1]) : j \in LineEnds(len, i, width)}
               S == {-1} \cup Short
    <3>1. score[i] = Max(S)
      BY <1>2, <2>4 DEF FirstPass
    <3>2. \A j \in LineEnds(len, i, width) : /\ j \in i .. n - 1 /\ j + 1 \in i + 1 .. n
                                         /\ len[i][j] \in Nat /\ len[i][j] <= width
                                         /\ score[j + 1] \in -1 .. width
      BY <1>1, <1>3, <2>4 DEF LineEnds
    <3>3. \A x \in S : x \in Int /\ -1 <= x /\ x <= width
      BY <3>2 DEF Lesser
    <3>4. Max(S) \in S /\ \A x \in S : x <= Max(S)
      <4>1. -1 \in S
        OBVIOUS
      <4> HIDE DEF S
      <4>2. S \in SUBSET Int /\ S # {} /\ width \in Int
        BY <3>3, <4>1
      <4> QED BY <3>3, <4>2, MaxIsGreatest
    <3>5. score[i] \in -1 .. width
      <4> HIDE DEF S
      <4> QED BY <3>1, <3>3, <3>4
    <3>6. \A j : \A m \in 0 .. width :
              j \in Candidates(len, i, width, last, m) <=> j \in LineEnds(len, i, width) /\ m <= len[i][j]
      BY <3>2 DEF Candidates, LeastLen
    <3>7. ASSUME NEW m \in 0 .. width, m <= score[i] PROVE Able(len, i, last, m, width)
      <4>1. score[i] # -1
        BY <3>7
      <4>2. PICK j \in LineEnds(len, i, width) : score[i] = Lesser(len[i][j], score[j + 1])
        BY <3>1, <3>4, <4>1
      <4>3. m <= len[i][j] /\ m <= score[j + 1]
        BY <3>2, <3>7, <4>2 DEF Lesser
      <4>4. Able(len, j + 1, last, m, width)
        BY <1>3, <3>2, <4>3
      <4> QED BY <2>1, <3>6, <4>3, <4>4
    <3>8. ASSUME NEW m \in 0 .. width, Able(len, i, last, m, width) PROVE m <= score[i]
      <4>1. PICK j \in Candidates(len, i, width, last, m) : j = n \/ Able(len, j + 1, last, m, width)
        BY <2>1, <3>8
      <4>2. j \in LineEnds(len, i, width) /\ m <= len[i][j]
        BY <3>6
      <4>3. Able(len, j + 1, last, m, width)
        BY <3>2, <4>1, <4>2
      <4>4. m <= score[j + 1]
        BY <1>3, <3>2, <4>2, <4>3
      <4>5. m <= Lesser(len[i][j], score[j + 1])
        BY <4>2, <4>4 DEF Lesser
      <4>6. Lesser(len[i][j], score[j + 1]) \in S
        BY <4>2
      <4> HIDE DEF S
      <4>7. Lesser(len[i][j], score[j + 1]) <= Max(S)
        BY <3>4, <4>6
      <4>8. Lesser(len[i][j], score[j + 1]) \in Int /\ Max(S) \in Int
        BY <3>3, <3>4, <4>6
      <4> QED BY <3>1, <4>5, <4>7, <4>8
    <3> QED BY <3>5, <3>7, <3>8
  <2> QED BY <2>3, <2>4
<1> HIDE DEF Right
<1>4. ASSUME NEW i \in 1 .. n, \A j \in i + 1 .. n : j \in T PROVE i \in T
  <2>1. Right(i)
    BY <1>3, <1>4
  <2> QED BY <2>1
<1>5. \A i \in 1 .. n : i \in T
  <2> HIDE DEF T
  <2> QED BY <1>1, <1>4, BackwardInduction
<1>6. \A i \in 1 .. n : Right(i)
  BY <1>5
<1> QED BY <1>6 DEF Right, score

-----------------------------------------------------------------------------
(* The second pass. *)

\* What the second pass computes for word i, given its scores of later words.
SecondPass(len, width, last, shortest, score, i) ==
    Min({width + 1} \cup {Greater(len[i][j], IF j = Len(len) THEN 0 ELSE score[j + 1]) :
                          j \in Candidates(len, i, width, last, shortest)})

LEMMA ShortestLongestUnfolds ==
    ASSUME NEW len, IsTable(len), NEW width \in Nat, NEW last \in BOOLEAN, NEW shortest \in Nat
    PROVE  LET score == ShortestLongest(len, width, last, shortest)
               n == Len(len)
           IN  /\ score \in [1 .. n -> Int]
               /\ \A i \in 1 .. n : score[i] = SecondPass(len, width, last, shortest, score, i)
<1> DEFINE n == Len(len)
           Long(g, i) == {Greater(len[i][j], IF j = n THEN 0 ELSE g[j + 1]) :
                              j \in Candidates(len, i, width, last, shortest)}
           E(g, i) == SecondPass(len, width, last, shortest, g, i)
           H == [i \in 1 .. n |-> [g \in [1 .. n -> Int] |-> E(g, i)]]
           score == ShortestLongest(len, width, last, shortest)
<1>1. /\ n \in Nat /\ DOMAIN len = 1 .. n
      /\ \A i \in 1 .. n : \A j \in i .. n : len[i][j] \in Nat
  BY TableFacts
<1>2. \A i \in 1 .. n : \A j \in Candidates(len, i, width, last, shortest) :
          j \in i .. n /\ len[i][j] \in Nat /\ (j # n => j + 1 \in i + 1 .. n)
  <2>1. \A i \in 1 .. n : \A j \in Candidates(len, i, width, last, shortest) : j \in i .. n
    BY DEF Candidates, LineEnds
  <2> HIDE DEF n
  <2>2. \A i \in 1 .. n : \A j \in i .. n : j # n => j + 1 \in i + 1 .. n
    BY <1>1
  <2> QED BY <1>1, <2>1, <2>2
<1> USE DEF SecondPass
<1>3. ASSUME NEW g \in [1 .. n -> Int], NEW i \in 1 .. n PROVE E(g, i) \in Int
  <2> DEFINE Rest(j) == IF j = n THEN 0 ELSE g[j + 1]
             S == {width + 1} \cup Long(g, i)
  <2>1. \A j \in Candidates(len, i, width, last, shortest) :
            Greater(len[i][j], Rest(j)) \in Int /\ 0 <= Greater(len[i][j], Rest(j))
    <3> SUFFICES ASSUME NEW j \in Candidates(len, i, width, last, shortest)
                 PROVE  Greater(len[i][j], Rest(j)) \in Int /\ 0 <= Greater(len[i][j], Rest(j))
      OBVIOUS
    <3>1. Rest(j) \in Int
      BY <1>1, <1>2
    <3> QED BY <1>2, <3>1 DEF Greater
  <2>2. \A x \in S : x \in Int /\ 0 <= x
    BY <2>1
  <2>3. S # {} /\ 0 \in Int
    OBVIOUS
  <2>4. E(g, i) = Min(S)
    OBVIOUS
  <2> HIDE DEF S, E
  <2>5. Min(S) \in Int
    <3>1. S \in SUBSET Int
      BY <2>2
    <3> QED BY <2>2, <2>3, <3>1, MinIsLeast
  <2> QED BY <2>4, <2>5
<1>4. ASSUME NEW i \in 1 .. n, NEW f, NEW g, \A j \in i + 1 .. n : f[j] = g[j]
      PROVE  E(f, i) = E(g, i)
  <2> SUFFICES Long(f, i) = Long(g, i)
    OBVIOUS
  <2>1. \A j \in Candidates(len, i, width, last, shortest) : j # n => f[j + 1] = g[j + 1]
    BY <1>2, <1>4
  <2> QED BY <2>1
<1> HIDE DEF E, SecondPass
<1>5. \A i \in 1 .. n : \A g \in [1 .. n -> Int] : H[i][g] = E(g, i)
  OBVIOUS
<1>6. H \in [1 .. n -> [[1 .. n -> Int] -> Int]]
  BY <1>3
<1> HIDE DEF H
<1>7. RecursiveBack(n, Int, H)
  <2>1. \A i \in 1 .. n : \A f, g \in [1 .. n -> Int] :
            (\A j \in i + 1 .. n : f[j] = g[j]) => H[i][f] = H[i][g]
    BY <1>4, <1>5
  <2>2. Int # {}
    OBVIOUS
  <2> QED BY <1>1, <1>6, <2>1, <2>2 DEF RecursiveBack
<1>8. PICK f \in [1 .. n -> Int] : \A i \in 1 .. n : f[i] = H[i][f]
  BY <1>7, RecursionBack DEF Solvable
<1>9. f = [i \in 1 .. n |-> E(f, i)]
  BY <1>5, <1>8
<1>10. score = [i \in 1 .. n |-> E(score, i)]
  <2> DEFINE F(g) == [i \in 1 .. n |-> E(g, i)]
  <2>1. f = F(f) /\ score = CHOOSE g : g = F(g)
    BY <1>1, <1>9 DEF ShortestLongest, E, SecondPass
  <2> HIDE DEF F, score
  <2>2. score = F(score)
    BY <2>1, Zenon
  <2> QED BY <2>2 DEF F
<1>11. \A i \in 1 .. n : score[i] = E(score, i)
  <2> HIDE DEF score
  <2> QED BY <1>10
<1>12. AgreeingBack(n, f, score)
  <2> HIDE DEF score
  <2>1. \A i \in 1 .. n : (\A j \in i + 1 .. n : f[j] = score[j]) => E(f, i) = E(score, i)
    BY <1>4
  <2>2. \A i \in 1 .. n : f[i] = E(f, i)
    BY <1>5, <1>8
  <2> QED BY <1>1, <1>11, <2>1, <2>2 DEF AgreeingBack
<1>13. score \in [1 .. n -> Int]
  BY <1>8, <1>10, <1>12, AgreementBack
<1> QED BY <1>11, <1>13 DEF E

\* The score of a word is the smallest length to which the longest line from it
\* on can be brought, when none is shorter than shortest.
LEMMA ShortestLongestIsLeast ==
    ASSUME NEW len, IsTable(len), NEW width \in Nat, NEW last \in BOOLEAN, NEW shortest \in Nat
    PROVE  \A i \in 1 .. Len(len) :
              /\ ShortestLongest(len, width, last, shortest)[i] \in 0 .. width + 1
              /\ \A M \in 0 .. width : ShortestLongest(len, width, last, shortest)[i] <= M
                                       <=> Able(len, i, last, shortest, M)
<1> DEFINE n == Len(len)
           score == ShortestLongest(len, width, last, shortest)
           Right(i) == /\ score[i] \in 0 .. width + 1
                       /\ \A M \in 0 .. width : score[i] <= M <=> Able(len, i, last, shortest, M)
           T == {i \in 1 .. n : Right(i)}
<1>1. n \in Nat /\ \A i \in 1 .. n : \A j \in i .. n : len[i][j] \in Nat
  BY TableFacts
<1>2. /\ score \in [1 .. n -> Int]
      /\ \A i \in 1 .. n : score[i] = SecondPass(len, width, last, shortest, score, i)
  BY ShortestLongestUnfolds
<1> HIDE DEF score
<1>3. ASSUME NEW i \in 1 .. n, \A j \in i + 1 .. n : Right(j) PROVE Right(i)
  <2> DEFINE Rest(j) == IF j = n THEN 0 ELSE score[j + 1]
             C == Candidates(len, i, width, last, shortest)
             S == {width + 1} \cup {Greater(len[i][j], Rest(j)) : j \in C}
  <2>1. score[i] = Min(S)
    BY <1>2 DEF SecondPass
  <2>2. \A j \in C : /\ len[i][j] \in Nat /\ Rest(j) \in 0 .. width + 1 /\ len[i][j] <= width
                     /\ j # n => j + 1 \in i + 1 .. n
    BY <1>1, <1>3 DEF Candidates, LineEnds
  <2> HIDE DEF C
  <2>3. \A x \in S : x \in 0 .. width + 1
    BY <2>2 DEF Greater
  <2>4. Min(S) \in S /\ \A x \in S : Min(S) <= x
    <3>1. width + 1 \in S
      OBVIOUS
    <3> HIDE DEF S
    <3>2. S \in SUBSET Int /\ S # {} /\ 0 \in Int /\ \A x \in S : 0 <= x
      BY <2>3, <3>1
    <3> QED BY <3>2, MinIsLeast
  <2>5. score[i] \in 0 .. width + 1
    <3> HIDE DEF S
    <3> QED BY <2>1, <2>3, <2>4
  <2>6. ASSUME NEW M \in 0 .. width
        PROVE  Able(len, i, last, shortest, M) <=>
                   \E j \in C : len[i][j] <= M /\ (j = n \/ Able(len, j + 1, last, shortest, M))
    <3>1. M \in Nat
      OBVIOUS
    <3>2. \A j : j \in Candidates(len, i, M, last, shortest) <=> j \in C /\ len[i][j] <= M
      BY <1>1, <3>1 DEF C, Candidates, LineEnds
    <3> QED BY <3>1, <3>2, AbleStep
  <2>7. ASSUME NEW M \in 0 .. width, NEW j \in C
        PROVE  Greater(len[i][j], Rest(j)) <= M <=>
                   len[i][j] <= M /\ (j = n \/ Able(len, j + 1, last, shortest, M))
    <3>1. Rest(j) <= M <=> j = n \/ Able(len, j + 1, last, shortest, M)
      BY <1>3, <2>2
    <3>2. Greater(len[i][j], Rest(j)) <= M <=> len[i][j] <= M /\ Rest(j) <= M
      BY <2>2 DEF Greater
    <3> QED BY <3>1, <3>2
  <2>8. ASSUME NEW M \in 0 .. width
        PROVE  score[i] <= M <=> \E j \in C : Greater(len[i][j], Rest(j)) <= M
    <3>1. ASSUME score[i] <= M PROVE \E j \in C : Greater(len[i][j], Rest(j)) <= M
      <4>1. Min(S) # width + 1
        BY <2>1, <3>1
      <4> QED BY <2>1, <2>4, <3>1, <4>1
    <3>2. ASSUME NEW j \in C, Greater(len[i][j], Rest(j)) <= M PROVE score[i] <= M
      <4>1. Greater(len[i][j], Rest(j)) \in S
        OBVIOUS
      <4> DEFINE x == Greater(len[i][j], Rest(j))
      <4>2. x \in S /\ x <= M
        BY <3>2, <4>1
      <4> HIDE DEF x, S
      <4>3. x \in Int /\ Min(S) <= x
        BY <2>3, <2>4, <4>2
      <4> QED BY <2>1, <2>5, <4>2, <4>3
    <3> QED BY <3>1, <3>2
  <2> QED BY <2>5, <2>6, <2>7, <2>8
<1> HIDE DEF Right
<1>4. ASSUME NEW i \in 1 .. n, \A j \in i + 1 .. n : j \in T PROVE i \in T
  <2>1. Right(i)
    BY <1>3, <1>4
  <2> QED BY <2>1
<1>5. \A i \in 1 .. n : i \in T
  <2> HIDE DEF T
  <2> QED BY <1>1, <1>4, BackwardInduction
<1>6. \A i \in 1 .. n : Right(i)
  BY <1>5
<1> QED BY <1>6 DEF Right, score

-----------------------------------------------------------------------------
(* The third pass. *)

LineRecords == [score : Int, nextline : Int, linelen : Int]

LEMMA SquareIsNatural == \A x \in Int : Square(x) \in Nat
<1> SUFFICES ASSUME NEW x \in Int PROVE Square(x) \in Nat
  OBVIOUS
<1>1. CASE x >= 0
  BY <1>1 DEF Square
<1>2. CASE x < 0
  BY <1>2 DEF Square
<1> QED BY <1>1, <1>2

\* Of lines whose ends are bounded one is the best.
LEMMA BestExists ==
    ASSUME NEW R \in SUBSET LineRecords, R # {}, NEW c \in Int,
           \A a \in R : 0 <= a.score /\ a.nextline <= c
    PROVE  \E a \in R : \A b \in R : Better(a, b)
<1>1. \A a \in R : a.score \in Nat /\ a.nextline \in Int
  BY DEF LineRecords
<1> DEFINE Scores == {a.score : a \in R}
<1>2. PICK m \in Scores : \A k \in Scores : m <= k
  <2>1. Scores \in SUBSET Nat /\ Scores # {}
    BY <1>1
  <2> QED BY <2>1, FirstExists
<1> DEFINE Ends == {a.nextline : a \in {b \in R : b.score = m}}
<1>3. Max(Ends) \in Ends /\ \A x \in Ends : x <= Max(Ends)
  <2>1. Ends # {}
    BY <1>2
  <2>2. \A x \in Ends : x \in Int /\ x <= c
    BY <1>1
  <2> HIDE DEF Ends
  <2>3. Ends \in SUBSET Int
    BY <2>2
  <2> QED BY <2>1, <2>2, <2>3, MaxIsGreatest
<1>4. PICK a \in R : a.score = m /\ a.nextline = Max(Ends)
  BY <1>3
<1>5. ASSUME NEW b \in R PROVE Better(a, b)
  <2>1. b.score \in Scores /\ m <= b.score
    BY <1>2
  <2>2. CASE b.score = m
    <3>1. b.nextline \in Ends
      BY <2>2
    <3>2. b.nextline <= Max(Ends) /\ b.nextline \in Int
      BY <1>1, <1>3, <3>1
    <3> HIDE DEF Ends
    <3>3. a.nextline >= b.nextline
      BY <1>1, <1>4, <3>2
    <3> QED BY <1>4, <2>2, <3>3 DEF Better
  <2>3. CASE b.score # m
    <3> HIDE DEF Ends
    <3>1. m < b.score
      BY <1>1, <1>4, <2>1, <2>3
    <3> QED BY <1>4, <3>1 DEF Better
  <2> QED BY <2>2, <2>3
<1> QED BY <1>5

\* What the third pass computes for word i, given its lines of later words.
RestScore(len, line, j) == IF j = Len(len) THEN 0 ELSE line[j + 1].score

LinesFrom(len, last, shortest, newL, line, i) ==
    {[score |-> RestScore(len, line, j) + Square(Gap(len, i, j, last, newL)),
      nextline |-> j + 1,
      linelen |-> len[i][j]] :
         j \in {k \in Candidates(len, i, newL, last, shortest) : RestScore(len, line, k) >= 0}}

ThirdPass(len, last, shortest, newL, line, i) ==
    IF LinesFrom(len, last, shortest, newL, line, i) = {} THEN NoLine
    ELSE CHOOSE a \in LinesFrom(len, last, shortest, newL, line, i) :
             \A b \in LinesFrom(len, last, shortest, newL, line, i) : Better(a, b)

\* The lines the third pass chooses from: each has a score, and the best is there.
LEMMA LinesAreScored ==
    ASSUME NEW len, IsTable(len), NEW last \in BOOLEAN, NEW shortest \in Nat,
           NEW newL \in Nat, NEW line \in [1 .. Len(len) -> LineRecords],
           NEW i \in 1 .. Len(len)
    PROVE  LET lines == LinesFrom(len, last, shortest, newL, line, i)
           IN  /\ lines \in SUBSET LineRecords
               /\ \A a \in lines : 0 <= a.score
               /\ lines # {} => \E a \in lines : \A b \in lines : Better(a, b)
<1> DEFINE n == Len(len)
           C == {k \in Candidates(len, i, newL, last, shortest) : RestScore(len, line, k) >= 0}
           lines == LinesFrom(len, last, shortest, newL, line, i)
<1>1. n \in Nat /\ \A j \in i .. n : len[i][j] \in Nat
  BY TableFacts
<1>2. ASSUME NEW j \in C
      PROVE  /\ j \in i .. n /\ len[i][j] \in Nat
             /\ RestScore(len, line, j) \in Nat
             /\ Square(Gap(len, i, j, last, newL)) \in Nat
  <2>1. j \in i .. n /\ RestScore(len, line, j) >= 0
    BY DEF Candidates, LineEnds
  <2>2. len[i][j] \in Nat
    BY <1>1, <2>1
  <2>3. RestScore(len, line, j) \in Int
    <3>1. CASE j = n
      BY <3>1 DEF RestScore
    <3>2. CASE j # n
      <4>1. j + 1 \in 1 .. n
        BY <1>1, <2>1, <3>2
      <4>2. line[j + 1].score \in Int
        BY <4>1 DEF LineRecords
      <4> QED BY <3>2, <4>2 DEF RestScore
    <3> QED BY <3>1, <3>2
  <2>4. Gap(len, i, j, last, newL) \in Int
    BY <2>2 DEF Gap
  <2>5. Square(Gap(len, i, j, last, newL)) \in Nat
    BY <2>4, SquareIsNatural
  <2>6. RestScore(len, line, j) \in Nat
    BY <2>1, <2>3
  <2> QED BY <2>1, <2>2, <2>5, <2>6
<1>3. lines = {[score |-> RestScore(len, line, j) + Square(Gap(len, i, j, last, newL)),
                nextline |-> j + 1, linelen |-> len[i][j]] : j \in C}
  BY DEF LinesFrom
<1> HIDE DEF C, lines
<1>4. ASSUME NEW a \in lines PROVE a \in LineRecords /\ 0 <= a.score /\ a.nextline <= n + 1
  <2>1. PICK j \in C :
            a = [score |-> RestScore(len, line, j) + Square(Gap(len, i, j, last, newL)),
                 nextline |-> j + 1, linelen |-> len[i][j]]
    BY <1>3
  <2> DEFINE s == RestScore(len, line, j) + Square(Gap(len, i, j, last, newL))
  <2>2. s \in Int /\ 0 <= s /\ j + 1 \in Int /\ j + 1 <= n + 1 /\ len[i][j] \in Int
    BY <1>1, <1>2
  <2> HIDE DEF s
  <2> QED BY <2>1, <2>2 DEF LineRecords, s
<1>5. lines \in SUBSET LineRecords
  BY <1>4
<1>6. ASSUME lines # {} PROVE \E a \in lines : \A b \in lines : Better(a, b)
  <2>1. n + 1 \in Int
    BY <1>1
  <2> QED BY <1>4, <1>5, <1>6, <2>1, BestExists
<1> QED BY <1>4, <1>5, <1>6 DEF lines

LEMMA LeastSquaresUnfolds ==
    ASSUME NEW len, IsTable(len), NEW last \in BOOLEAN, NEW shortest \in Nat, NEW newL \in Nat
    PROVE  LET line == LeastSquares(len, last, shortest, newL)
               n == Len(len)
           IN  /\ line \in [1 .. n -> LineRecords]
               /\ \A i \in 1 .. n : line[i] = ThirdPass(len, last, shortest, newL, line, i)
<1> DEFINE n == Len(len)
           E(g, i) == ThirdPass(len, last, shortest, newL, g, i)
           H == [i \in 1 .. n |-> [g \in [1 .. n -> LineRecords] |-> E(g, i)]]
           line == LeastSquares(len, last, shortest, newL)
<1>1. n \in Nat /\ DOMAIN len = 1 .. n
  BY TableFacts
<1>2. \A i \in 1 .. n : \A j \in Candidates(len, i, newL, last, shortest) :
          j # n => j + 1 \in i + 1 .. n
  <2>1. \A i \in 1 .. n : \A j \in Candidates(len, i, newL, last, shortest) : j \in i .. n
    BY DEF Candidates, LineEnds
  <2> HIDE DEF n
  <2>2. \A i \in 1 .. n : \A j \in i .. n : j # n => j + 1 \in i + 1 .. n
    BY <1>1
  <2> QED BY <2>1, <2>2
<1>3. ASSUME NEW g \in [1 .. n -> LineRecords], NEW i \in 1 .. n PROVE E(g, i) \in LineRecords
  <2> DEFINE lines == LinesFrom(len, last, shortest, newL, g, i)
  <2>1. lines \in SUBSET LineRecords /\ (lines # {} => \E a \in lines : \A b \in lines : Better(a, b))
    BY LinesAreScored
  <2>2. CASE lines = {}
    BY <2>2 DEF ThirdPass, NoLine, LineRecords
  <2>3. CASE lines # {}
    <3>1. E(g, i) = CHOOSE a \in lines : \A b \in lines : Better(a, b)
      BY <2>3 DEF ThirdPass
    <3> HIDE DEF E, lines
    <3>2. E(g, i) \in lines
      BY <2>1, <2>3, <3>1
    <3> QED BY <2>1, <3>2
  <2> QED BY <2>2, <2>3
<1>4. ASSUME NEW i \in 1 .. n, NEW f, NEW g, \A j \in i + 1 .. n : f[j] = g[j]
      PROVE  E(f, i) = E(g, i)
  <2>1. \A j \in Candidates(len, i, newL, last, shortest) : RestScore(len, f, j) = RestScore(len, g, j)
    BY <1>2, <1>4 DEF RestScore
  <2>2. LinesFrom(len, last, shortest, newL, f, i) = LinesFrom(len, last, shortest, newL, g, i)
    <3> DEFINE C(h) == {k \in Candidates(len, i, newL, last, shortest) : RestScore(len, h, k) >= 0}
    <3>1. C(f) = C(g)
      BY <2>1
    <3>2. \A j \in C(f) : RestScore(len, f, j) = RestScore(len, g, j)
      BY <2>1
    <3> QED BY <3>1, <3>2 DEF LinesFrom
  <2> QED BY <2>2 DEF ThirdPass
<1> HIDE DEF E
<1>5. \A i \in 1 .. n : \A g \in [1 .. n -> LineRecords] : H[i][g] = E(g, i)
  OBVIOUS
<1>6. H \in [1 .. n -> [[1 .. n -> LineRecords] -> LineRecords]]
  BY <1>3
<1> HIDE DEF H
<1>7. RecursiveBack(n, LineRecords, H)
  <2>1. \A i \in 1 .. n : \A f, g \in [1 .. n -> LineRecords] :
            (\A j \in i + 1 .. n : f[j] = g[j]) => H[i][f] = H[i][g]
    BY <1>4, <1>5
  <2>2. LineRecords # {}
    <3>1. NoLine \in LineRecords
      BY DEF NoLine, LineRecords
    <3> QED BY <3>1
  <2> QED BY <1>1, <1>6, <2>1, <2>2 DEF RecursiveBack
<1>8. PICK f \in [1 .. n -> LineRecords] : \A i \in 1 .. n : f[i] = H[i][f]
  BY <1>7, RecursionBack DEF Solvable
<1>9. f = [i \in 1 .. n |-> E(f, i)]
  BY <1>5, <1>8
<1>10. line = [i \in 1 .. n |-> E(line, i)]
  <2> DEFINE F(g) == [i \in 1 .. n |-> E(g, i)]
  <2>1. f = F(f) /\ line = CHOOSE g : g = F(g)
    <3>1. f = F(f)
      BY <1>9
    <3>2. line = CHOOSE g : g = F(g)
      BY <1>1 DEF LeastSquares, E, ThirdPass, LinesFrom, RestScore
    <3> QED BY <3>1, <3>2
  <2> HIDE DEF F, line
  <2>2. line = F(line)
    BY <2>1, Zenon
  <2> QED BY <2>2 DEF F
<1>11. \A i \in 1 .. n : line[i] = E(line, i)
  <2> HIDE DEF line
  <2> QED BY <1>10
<1>12. AgreeingBack(n, f, line)
  <2> HIDE DEF line
  <2>1. \A i \in 1 .. n : (\A j \in i + 1 .. n : f[j] = line[j]) => E(f, i) = E(line, i)
    BY <1>4
  <2>2. \A i \in 1 .. n : f[i] = E(f, i)
    BY <1>5, <1>8
  <2> QED BY <1>1, <1>11, <2>1, <2>2 DEF AgreeingBack
<1>13. line \in [1 .. n -> LineRecords]
  BY <1>8, <1>10, <1>12, AgreementBack
<1> QED BY <1>11, <1>13 DEF E

\* The line kept for a word is the best of those that begin with it; it is kept
\* when there is one.
LEMMA LineIsBest ==
    ASSUME NEW len, IsTable(len), NEW last \in BOOLEAN, NEW shortest \in Nat, NEW newL \in Nat,
           NEW i \in 1 .. Len(len)
    PROVE  LET line == LeastSquares(len, last, shortest, newL)
               j == line[i].nextline - 1
           IN  /\ line[i].score >= 0 =>
                     /\ line[i].nextline \in i + 1 .. Len(len) + 1
                     /\ j \in Candidates(len, i, newL, last, shortest)
                     /\ RestScore(len, line, j) >= 0
                     /\ line[i].score = RestScore(len, line, j) + Square(Gap(len, i, j, last, newL))
                     /\ line[i].linelen = len[i][j]
               /\ \A k \in Candidates(len, i, newL, last, shortest) : RestScore(len, line, k) >= 0 =>
                     /\ line[i].score >= 0
                     /\ line[i].score <= RestScore(len, line, k) + Square(Gap(len, i, k, last, newL))
<1> DEFINE n == Len(len)
           line == LeastSquares(len, last, shortest, newL)
           lines == LinesFrom(len, last, shortest, newL, line, i)
           j == line[i].nextline - 1
<1>1. line \in [1 .. n -> LineRecords] /\ line[i] = ThirdPass(len, last, shortest, newL, line, i)
  BY LeastSquaresUnfolds
<1> HIDE DEF line
<1>2. /\ lines \in SUBSET LineRecords
      /\ \A a \in lines : 0 <= a.score
      /\ lines # {} => \E a \in lines : \A b \in lines : Better(a, b)
  BY <1>1, LinesAreScored
<1>3. CASE lines = {}
  <2>1. line[i].score = -1
    BY <1>1, <1>3 DEF ThirdPass, NoLine
  <2>2. ~\E k \in Candidates(len, i, newL, last, shortest) : RestScore(len, line, k) >= 0
    BY <1>3 DEF LinesFrom
  <2> QED BY <2>1, <2>2 DEF line
<1>4. CASE lines # {}
  <2>1. line[i] = CHOOSE a \in lines : \A b \in lines : Better(a, b)
    BY <1>1, <1>4 DEF ThirdPass
  <2>2. line[i] \in lines /\ \A b \in lines : Better(line[i], b)
    <3> HIDE DEF lines
    <3> QED BY <1>2, <1>4, <2>1
  <2>3. PICK k \in {l \in Candidates(len, i, newL, last, shortest) : RestScore(len, line, l) >= 0} :
            line[i] = [score |-> RestScore(len, line, k) + Square(Gap(len, i, k, last, newL)),
                       nextline |-> k + 1, linelen |-> len[i][k]]
    <3>1. line[i] \in LinesFrom(len, last, shortest, newL, line, i)
      BY <2>2
    <3> QED BY <3>1 DEF LinesFrom
  <2>4. k \in i .. n /\ n \in Nat
    BY TableFacts DEF Candidates, LineEnds
  <2>5. j = k /\ line[i].nextline \in i + 1 .. n + 1
    BY <2>3, <2>4
  <2>6. ASSUME NEW l \in Candidates(len, i, newL, last, shortest), RestScore(len, line, l) >= 0
        PROVE  line[i].score <= RestScore(len, line, l) + Square(Gap(len, i, l, last, newL))
    <3> DEFINE b == [score |-> RestScore(len, line, l) + Square(Gap(len, i, l, last, newL)),
                     nextline |-> l + 1, linelen |-> len[i][l]]
    <3>1. b \in lines
      BY <2>6 DEF LinesFrom
    <3> HIDE DEF lines
    <3>2. Better(line[i], b) /\ b.score \in Int /\ line[i].score \in Int
      BY <1>2, <2>2, <3>1 DEF LineRecords
    <3> HIDE DEF b
    <3>3. line[i].score <= b.score
      BY <3>2 DEF Better
    <3> QED BY <3>3 DEF b
  <2>7. line[i].score >= 0
    <3> HIDE DEF lines
    <3>1. 0 <= line[i].score /\ line[i].score \in Int
      BY <1>2, <2>2 DEF LineRecords
    <3> QED BY <3>1
  <2>8. /\ k \in Candidates(len, i, newL, last, shortest)
        /\ RestScore(len, line, k) >= 0
        /\ line[i].score = RestScore(len, line, k) + Square(Gap(len, i, k, last, newL))
        /\ line[i].linelen = len[i][k]
    BY <2>3
  <2> QED BY <2>5, <2>6, <2>7, <2>8 DEF line
<1> QED BY <1>3, <1>4

-----------------------------------------------------------------------------
(* The sum of squares of a way. *)

\* The sums of squares of the lines from each word on.
SquaresFrom(len, way, last, newL) ==
    LET sum[i \in 1 .. Len(len) + 1] ==
          IF i > Len(len) THEN 0
          ELSE sum[i + 1]
                 + IF i \in Counted(way, last) THEN Square(newL - LenIn(len, way, i)) ELSE 0
    IN  sum

SquaresStep(len, way, last, newL, sum, i) ==
    IF i > Len(len) THEN 0
    ELSE sum[i + 1] + IF i \in Counted(way, last) THEN Square(newL - LenIn(len, way, i)) ELSE 0

LEMMA LineOfWay ==
    ASSUME NEW len, IsTable(len), NEW way \in WaysFrom(Len(len), 1), NEW i \in way
    PROVE  /\ i \in 1 .. Len(len)
           /\ After(Len(len), way, i) \in i + 1 .. Len(len) + 1
           /\ LenIn(len, way, i) = len[i][After(Len(len), way, i) - 1]
           /\ LenIn(len, way, i) \in Nat
<1> DEFINE n == Len(len)
<1>1. n \in Nat /\ \A j \in 1 .. n : \A k \in j .. n : len[j][k] \in Nat
  BY TableFacts
<1>2. way \in SUBSET (1 .. n) /\ i \in 1 .. n
  BY DEF WaysFrom
<1>3. After(n, way, i) \in i + 1 .. n + 1
  BY <1>1, <1>2, AfterIsNext
<1>4. LenIn(len, way, i) = len[i][After(n, way, i) - 1]
  BY DEF LenIn, After
<1>5. After(n, way, i) - 1 \in i .. n
  BY <1>1, <1>2, <1>3
<1> QED BY <1>1, <1>2, <1>3, <1>4, <1>5

LEMMA SquaresUnfold ==
    ASSUME NEW len, IsTable(len), NEW way \in WaysFrom(Len(len), 1),
           NEW last \in BOOLEAN, NEW newL \in Nat
    PROVE  LET sum == SquaresFrom(len, way, last, newL)
           IN  /\ sum \in [1 .. Len(len) + 1 -> Int]
               /\ \A i \in 1 .. Len(len) + 1 : sum[i] = SquaresStep(len, way, last, newL, sum, i)
<1> DEFINE n == Len(len)
           E(g, i) == SquaresStep(len, way, last, newL, g, i)
           H == [i \in 1 .. n + 1 |-> [g \in [1 .. n + 1 -> Int] |-> E(g, i)]]
           sum == SquaresFrom(len, way, last, newL)
<1>1. n \in Nat /\ n + 1 \in Nat
  BY TableFacts
<1>2. \A i \in way : Square(newL - LenIn(len, way, i)) \in Int
  <2> SUFFICES ASSUME NEW i \in way PROVE Square(newL - LenIn(len, way, i)) \in Int
    OBVIOUS
  <2>1. newL - LenIn(len, way, i) \in Int
    BY LineOfWay
  <2> QED BY <2>1, SquareIsNatural
<1>3. ASSUME NEW g \in [1 .. n + 1 -> Int], NEW i \in 1 .. n + 1 PROVE E(g, i) \in Int
  <2>1. CASE i > n
    BY <2>1 DEF SquaresStep
  <2>2. CASE ~(i > n)
    <3>1. i + 1 \in 1 .. n + 1
      BY <1>1, <2>2
    <3>2. g[i + 1] \in Int
      BY <3>1
    <3>3. i \in Counted(way, last) => i \in way
      BY DEF Counted
    <3> DEFINE x == IF i \in Counted(way, last) THEN Square(newL - LenIn(len, way, i)) ELSE 0
    <3>4. x \in Int
      BY <1>2, <3>3
    <3>5. E(g, i) = g[i + 1] + x
      BY <2>2 DEF SquaresStep
    <3> HIDE DEF x, E
    <3> QED BY <3>2, <3>4, <3>5
  <2> QED BY <2>1, <2>2
<1>4. ASSUME NEW i \in 1 .. n + 1, NEW f, NEW g, \A j \in i + 1 .. n + 1 : f[j] = g[j]
      PROVE  E(f, i) = E(g, i)
  <2>1. i > n \/ i + 1 \in i + 1 .. n + 1
    BY <1>1
  <2>2. i > n \/ f[i + 1] = g[i + 1]
    BY <1>4, <2>1
  <2> QED BY <2>2 DEF SquaresStep
<1> HIDE DEF E
<1>5. \A i \in 1 .. n + 1 : \A g \in [1 .. n + 1 -> Int] : H[i][g] = E(g, i)
  OBVIOUS
<1>6. H \in [1 .. n + 1 -> [[1 .. n + 1 -> Int] -> Int]]
  BY <1>3
<1> HIDE DEF H
<1>7. RecursiveBack(n + 1, Int, H)
  <2>1. \A i \in 1 .. n + 1 : \A f, g \in [1 .. n + 1 -> Int] :
            (\A j \in i + 1 .. n + 1 : f[j] = g[j]) => H[i][f] = H[i][g]
    BY <1>4, <1>5
  <2>2. Int # {}
    OBVIOUS
  <2> QED BY <1>1, <1>6, <2>1, <2>2 DEF RecursiveBack
<1>8. PICK f \in [1 .. n + 1 -> Int] : \A i \in 1 .. n + 1 : f[i] = H[i][f]
  BY <1>7, RecursionBack DEF Solvable
<1>9. f = [i \in 1 .. n + 1 |-> E(f, i)]
  BY <1>5, <1>8
<1>10. sum = [i \in 1 .. n + 1 |-> E(sum, i)]
  <2> DEFINE F(g) == [i \in 1 .. n + 1 |-> E(g, i)]
  <2>1. f = F(f) /\ sum = CHOOSE g : g = F(g)
    BY <1>9 DEF SquaresFrom, E, SquaresStep
  <2> HIDE DEF F, sum
  <2>2. sum = F(sum)
    BY <2>1, Zenon
  <2> QED BY <2>2 DEF F
<1>11. \A i \in 1 .. n + 1 : sum[i] = E(sum, i)
  <2> HIDE DEF sum
  <2> QED BY <1>10
<1>12. AgreeingBack(n + 1, f, sum)
  <2> HIDE DEF sum
  <2>1. \A i \in 1 .. n + 1 : (\A j \in i + 1 .. n + 1 : f[j] = sum[j]) => E(f, i) = E(sum, i)
    BY <1>4
  <2>2. \A i \in 1 .. n + 1 : f[i] = E(f, i)
    BY <1>5, <1>8
  <2> QED BY <1>1, <1>11, <2>1, <2>2 DEF AgreeingBack
<1>13. sum \in [1 .. n + 1 -> Int]
  BY <1>8, <1>10, <1>12, AgreementBack
<1> QED BY <1>11, <1>13 DEF E

\* The last line is the one that does not count, unless it must.
LEMMA CountedLines ==
    ASSUME NEW n \in Nat, NEW way \in WaysFrom(n, 1), NEW i \in way, NEW last \in BOOLEAN
    PROVE  i \in Counted(way, last) <=> last \/ After(n, way, i) # n + 1
<1>1. way \in SUBSET (1 .. n) /\ way # {} /\ i \in 1 .. n
  BY DEF WaysFrom
<1>2. Max(way) \in way /\ \A x \in way : x <= Max(way)
  <2>1. way \in SUBSET Int /\ n \in Int /\ \A x \in way : x <= n
    BY <1>1
  <2> QED BY <1>1, <2>1, MaxIsGreatest
<1>3. /\ After(n, way, i) \in i + 1 .. n + 1
      /\ After(n, way, i) \in way \/ After(n, way, i) = n + 1
      /\ \A k \in way : k > i => After(n, way, i) <= k
  BY <1>1, AfterIsNext
<1>4. ASSUME After(n, way, i) = n + 1 PROVE i = Max(way)
  <2>1. Max(way) \in 1 .. n /\ i <= Max(way)
    BY <1>1, <1>2
  <2>2. ~(Max(way) > i)
    BY <1>2, <1>3, <1>4, <2>1
  <2> QED BY <1>1, <2>1, <2>2
<1>5. ASSUME After(n, way, i) # n + 1 PROVE i # Max(way)
  <2>1. After(n, way, i) \in way /\ After(n, way, i) > i
    BY <1>1, <1>3, <1>5
  <2>2. After(n, way, i) <= Max(way)
    BY <1>2, <2>1
  <2>3. After(n, way, i) \in Int
    BY <1>3
  <2>4. Max(way) \in Int
    <3>1. \A x \in way : x \in Int
      BY <1>1
    <3> QED BY <1>2, <3>1
  <2>5. i \in Int
    BY <1>1
  <2> QED BY <2>1, <2>2, <2>3, <2>4, <2>5
<1>6. i \in Counted(way, last) <=> last \/ i # Max(way)
  BY DEF Counted
<1> QED BY <1>4, <1>5, <1>6

\* A line adds the square of its gap to the sum of the lines after it.
LEMMA SumOfLine ==
    ASSUME NEW len, IsTable(len), NEW way \in WaysFrom(Len(len), 1), NEW i \in way,
           NEW last \in BOOLEAN, NEW newL \in Nat
    PROVE  LET n == Len(len)
               sum == SquaresFrom(len, way, last, newL)
               next == After(n, way, i)
           IN  sum[i] = (IF next - 1 = n THEN 0 ELSE sum[next])
                           + Square(Gap(len, i, next - 1, last, newL))
<1> DEFINE n == Len(len)
           sum == SquaresFrom(len, way, last, newL)
           next == After(n, way, i)
<1>1. /\ sum \in [1 .. n + 1 -> Int]
      /\ \A k \in 1 .. n + 1 : sum[k] = SquaresStep(len, way, last, newL, sum, k)
  BY SquaresUnfold
<1>2. n \in Nat /\ way \in SUBSET (1 .. n) /\ i \in 1 .. n
  BY TableFacts DEF WaysFrom
<1>3. next \in i + 1 .. n + 1 /\ \A k \in way : k > i => next <= k
  BY <1>2, AfterIsNext
<1>4. LenIn(len, way, i) = len[i][next - 1] /\ LenIn(len, way, i) \in Nat
  BY LineOfWay
<1> HIDE DEF n, sum, next
<1>5. ASSUME NEW k \in i + 1 .. next PROVE sum[k] = sum[next]
  <2> DEFINE S == {l \in i + 1 .. next : sum[l] # sum[next]}
  <2> SUFFICES ASSUME S # {} PROVE FALSE
    BY <1>5
  <2>1. Max(S) \in S /\ \A x \in S : x <= Max(S)
    <3>1. S \in SUBSET Int /\ next \in Int /\ \A x \in S : x <= next
      BY <1>2, <1>3
    <3> HIDE DEF S
    <3> QED BY <3>1, MaxIsGreatest
  <2> DEFINE m == Max(S)
  <2>2. m \in i + 1 .. next /\ m # next /\ sum[m] # sum[next] /\ \A x \in S : x <= m
    BY <2>1
  <2> HIDE DEF m
  <2>3. m + 1 \in i + 1 .. next /\ m \in 1 .. n + 1 /\ m + 1 \in 1 .. n + 1 /\ m > i /\ ~(next <= m) /\ ~(m > n)
    BY <1>2, <1>3, <2>2
  <2>4. m \notin Counted(way, last)
    BY <1>3, <2>3 DEF Counted
  <2>5. sum[m] = sum[m + 1] + 0
    BY <1>1, <2>3, <2>4 DEF SquaresStep, n
  <2>6. sum[m + 1] \in Int
    BY <1>1, <2>3
  <2>7. sum[m + 1] # sum[next]
    BY <2>2, <2>5, <2>6
  <2>8. m + 1 \in S
    BY <2>3, <2>7
  <2>9. m + 1 <= m
    BY <2>2, <2>8
  <2> QED BY <2>3, <2>9
<1>6. next = n + 1 => sum[next] = 0
  <2> SUFFICES ASSUME next = n + 1 PROVE sum[n + 1] = 0
    OBVIOUS
  <2>1. n + 1 \in 1 .. n + 1 /\ n + 1 > n
    BY <1>2
  <2> QED BY <1>1, <2>1 DEF SquaresStep, n
<1>7. sum[i] = sum[i + 1] + IF i \in Counted(way, last) THEN Square(newL - LenIn(len, way, i)) ELSE 0
  <2>1. i \in 1 .. n + 1 /\ ~(i > n)
    BY <1>2
  <2> QED BY <1>1, <2>1 DEF SquaresStep, n
<1>8. sum[i + 1] = sum[next]
  <2>1. i + 1 \in i + 1 .. next
    BY <1>2, <1>3
  <2> QED BY <1>5, <2>1
<1>9. (IF i \in Counted(way, last) THEN Square(newL - LenIn(len, way, i)) ELSE 0)
          = Square(Gap(len, i, next - 1, last, newL))
  <2>1. i \in Counted(way, last) <=> last \/ next # n + 1
    BY <1>2, CountedLines DEF next, n
  <2>2. next # n + 1 <=> next - 1 # n
    BY <1>2, <1>3
  <2>3. CASE last \/ next - 1 # n
    <3>1. Gap(len, i, next - 1, last, newL) = newL - LenIn(len, way, i)
      BY <1>4, <2>3 DEF Gap, n
    <3> QED BY <2>1, <2>2, <2>3, <3>1
  <2>4. CASE ~last /\ next - 1 = n
    <3>1. Gap(len, i, next - 1, last, newL) = 0
      BY <2>4 DEF Gap, n
    <3>2. Square(0) = 0
      BY DEF Square
    <3> QED BY <2>1, <2>2, <2>4, <3>1, <3>2
  <2> QED BY <2>3, <2>4
<1>10. sum[next] = IF next - 1 = n THEN 0 ELSE sum[next]
  BY <1>2, <1>3, <1>6
<1>11. sum[i] = (IF next - 1 = n THEN 0 ELSE sum[next]) + Square(Gap(len, i, next - 1, last, newL))
  BY <1>7, <1>8, <1>9, <1>10
<1> QED BY <1>11 DEF n, sum, next

\* No way of lines that fit has a smaller sum, from any of its lines on, than
\* the score kept for that line.
LEMMA ScoreIsBound ==
    ASSUME NEW len, IsTable(len), NEW last \in BOOLEAN, NEW shortest \in Nat, NEW newL \in Nat,
           NEW way \in WaysFrom(Len(len), 1), Fits(len, way, last, shortest, newL)
    PROVE  \A i \in way :
              /\ LeastSquares(len, last, shortest, newL)[i].score >= 0
              /\ LeastSquares(len, last, shortest, newL)[i].score
                    <= SquaresFrom(len, way, last, newL)[i]
<1> DEFINE n == Len(len)
           line == LeastSquares(len, last, shortest, newL)
           sum == SquaresFrom(len, way, last, newL)
           Right(i) == i \in way => line[i].score >= 0 /\ line[i].score <= sum[i]
           T == {i \in 1 .. n : Right(i)}
<1>1. n \in Nat /\ way \in SUBSET (1 .. n)
  BY TableFacts DEF WaysFrom
<1>2. line \in [1 .. n -> LineRecords] /\ sum \in [1 .. n + 1 -> Int]
  BY LeastSquaresUnfolds, SquaresUnfold
<1>3. ASSUME NEW i \in 1 .. n, \A j \in i + 1 .. n : Right(j), i \in way
      PROVE  line[i].score >= 0 /\ line[i].score <= sum[i]
  <2> DEFINE next == After(n, way, i)
  <2>1. next \in i + 1 .. n + 1 /\ (next \in way \/ next = n + 1)
    BY <1>1, AfterIsNext
  <2>2. next - 1 \in Candidates(len, i, newL, last, shortest)
    BY <1>3 DEF Fits
  <2>3. sum[i] = (IF next - 1 = n THEN 0 ELSE sum[next]) + Square(Gap(len, i, next - 1, last, newL))
    BY <1>3, SumOfLine
  <2>4. \A k \in Candidates(len, i, newL, last, shortest) : RestScore(len, line, k) >= 0 =>
            /\ line[i].score >= 0
            /\ line[i].score <= RestScore(len, line, k) + Square(Gap(len, i, k, last, newL))
    BY LineIsBest
  <2>5. Square(Gap(len, i, next - 1, last, newL)) \in Nat
    <3>1. len[i][next - 1] \in Nat
      <4>1. LenIn(len, way, i) = len[i][next - 1] /\ LenIn(len, way, i) \in Nat
        BY <1>3, LineOfWay
      <4> QED BY <4>1
    <3> HIDE DEF next
    <3>2. Gap(len, i, next - 1, last, newL) \in Int
      BY <3>1 DEF Gap
    <3> QED BY <3>2, SquareIsNatural
  <2> HIDE DEF next, line, sum
  <2>6. CASE next - 1 = n
    <3>1. RestScore(len, line, next - 1) = 0
      BY <2>6 DEF RestScore
    <3> QED BY <2>2, <2>3, <2>4, <2>5, <2>6, <3>1
  <2>7. CASE next - 1 # n
    <3>1. next \in i + 1 .. n /\ next \in way /\ next - 1 + 1 = next
      BY <1>1, <2>1, <2>7
    <3>2. line[next].score >= 0 /\ line[next].score <= sum[next]
      BY <1>3, <3>1
    <3>3. RestScore(len, line, next - 1) = line[next].score
      BY <2>7, <3>1 DEF RestScore
    <3>4. /\ line[i].score >= 0
          /\ line[i].score <= line[next].score + Square(Gap(len, i, next - 1, last, newL))
      BY <2>2, <2>4, <3>2, <3>3
    <3>5. line[i].score \in Int /\ line[next].score \in Int /\ sum[next] \in Int
      <4>1. next \in 1 .. n /\ next \in 1 .. n + 1
        BY <1>1, <3>1
      <4>2. line[i] \in LineRecords /\ line[next] \in LineRecords /\ sum[next] \in Int
        BY <1>2, <4>1
      <4> QED BY <4>2 DEF LineRecords
    <3>6. sum[i] = sum[next] + Square(Gap(len, i, next - 1, last, newL))
      BY <2>3, <2>7
    <3> QED BY <2>5, <3>2, <3>4, <3>5, <3>6
  <2> QED BY <2>6, <2>7
<1> HIDE DEF line, sum
<1>4. ASSUME NEW i \in 1 .. n, \A j \in i + 1 .. n : j \in T PROVE i \in T
  <2>1. \A j \in i + 1 .. n : Right(j)
    BY <1>4
  <2>2. Right(i)
    BY <1>3, <2>1
  <2> HIDE DEF Right
  <2> QED BY <2>2
<1>5. \A i \in 1 .. n : i \in T
  <2> HIDE DEF T
  <2> QED BY <1>1, <1>4, BackwardInduction
<1> QED BY <1>1, <1>5 DEF line, sum

-----------------------------------------------------------------------------
(* The way of breaking that the lines describe. *)

Reached(lines) ==
    LET reached[i \in DOMAIN lines] ==
          i = 1 \/ \E j \in 1 .. i - 1 : lines[j].nextline = i /\ reached[j]
    IN  reached

LEMMA ReachedUnfolds ==
    ASSUME NEW n \in Nat, NEW lines, DOMAIN lines = 1 .. n
    PROVE  LET reached == Reached(lines)
           IN  \A i \in 1 .. n : reached[i] =
                   (i = 1 \/ \E j \in 1 .. i - 1 : lines[j].nextline = i /\ reached[j])
<1> DEFINE E(g, i) == i = 1 \/ \E j \in 1 .. i - 1 : lines[j].nextline = i /\ g[j]
           H == [i \in 1 .. n |-> [g \in [1 .. n -> BOOLEAN] |-> E(g, i)]]
           rank == [i \in 1 .. n |-> i]
           reached == Reached(lines)
<1>1. ASSUME NEW i \in 1 .. n, NEW f, NEW g, \A j \in 1 .. n : j < i => f[j] = g[j]
      PROVE  E(f, i) = E(g, i)
  <2>1. \A j \in 1 .. i - 1 : f[j] = g[j]
    BY <1>1
  <2> QED BY <2>1
<1>2. \A g : \A i \in 1 .. n : E(g, i) \in BOOLEAN
  OBVIOUS
<1> HIDE DEF E
<1>3. \A i \in 1 .. n : \A g \in [1 .. n -> BOOLEAN] : H[i][g] = E(g, i)
  OBVIOUS
<1>4. H \in [1 .. n -> [[1 .. n -> BOOLEAN] -> BOOLEAN]]
  BY <1>2
<1>5. rank \in [1 .. n -> Nat] /\ \A i \in 1 .. n : rank[i] = i
  OBVIOUS
<1> HIDE DEF H, rank
<1>6. Recursive(1 .. n, BOOLEAN, rank, H)
  <2>1. \A i \in 1 .. n : \A f, g \in [1 .. n -> BOOLEAN] :
            (\A j \in 1 .. n : rank[j] < rank[i] => f[j] = g[j]) => H[i][f] = H[i][g]
    BY <1>1, <1>3, <1>5
  <2>2. n + 1 \in Nat /\ \A i \in 1 .. n : rank[i] < n + 1
    BY <1>5
  <2>3. BOOLEAN # {}
    OBVIOUS
  <2> QED BY <1>4, <1>5, <2>1, <2>2, <2>3 DEF Recursive
<1>7. PICK f \in [1 .. n -> BOOLEAN] : \A i \in 1 .. n : f[i] = H[i][f]
  <2>1. Solvable(1 .. n, BOOLEAN, H)
    BY <1>6, Recursion
  <2> QED BY <2>1 DEF Solvable
<1>8. f = [i \in 1 .. n |-> E(f, i)]
  BY <1>3, <1>7
<1>9. reached = [i \in 1 .. n |-> E(reached, i)]
  <2> DEFINE F(g) == [i \in 1 .. n |-> E(g, i)]
  <2>1. f = F(f)
    BY <1>8
  <2>2. reached = CHOOSE g : g = F(g)
    BY DEF Reached, E
  <2> HIDE DEF F, reached
  <2>3. reached = F(reached)
    BY <2>1, <2>2, Zenon
  <2> QED BY <2>3 DEF F
<1>10. \A i \in 1 .. n : reached[i] = E(reached, i)
  <2> HIDE DEF reached
  <2> QED BY <1>9
<1> QED BY <1>10 DEF E

\* The first word begins a line, and so does a word that a line leads to.
LEMMA BegunWords ==
    ASSUME NEW n \in Nat \ {0}, NEW lines, DOMAIN lines = 1 .. n
    PROVE  /\ Begun(lines) \in SUBSET (1 .. n)
           /\ 1 \in Begun(lines)
           /\ \A i \in Begun(lines) :
                 i = 1 \/ \E j \in Begun(lines) : j < i /\ lines[j].nextline = i
           /\ \A j \in Begun(lines) :
                 lines[j].nextline \in j + 1 .. n => lines[j].nextline \in Begun(lines)
<1> DEFINE reached == Reached(lines)
<1>1. Begun(lines) = {i \in 1 .. n : reached[i]}
  BY DEF Begun, Reached
<1>2. \A i \in 1 .. n : reached[i] =
          (i = 1 \/ \E j \in 1 .. i - 1 : lines[j].nextline = i /\ reached[j])
  BY ReachedUnfolds
<1> HIDE DEF reached
<1>3. 1 \in Begun(lines)
  <2>1. 1 \in 1 .. n
    OBVIOUS
  <2> QED BY <1>1, <1>2, <2>1
<1>4. ASSUME NEW i \in Begun(lines), i # 1
      PROVE  \E j \in Begun(lines) : j < i /\ lines[j].nextline = i
  <2>1. i \in 1 .. n /\ reached[i]
    BY <1>1
  <2>2. PICK j \in 1 .. i - 1 : lines[j].nextline = i /\ reached[j]
    BY <1>2, <1>4, <2>1
  <2>3. j \in 1 .. n /\ j < i
    BY <2>1
  <2> QED BY <1>1, <2>2, <2>3
<1>5. ASSUME NEW j \in Begun(lines), lines[j].nextline \in j + 1 .. n
      PROVE  lines[j].nextline \in Begun(lines)
  <2>1. j \in 1 .. n /\ reached[j]
    BY <1>1
  <2>2. lines[j].nextline \in 1 .. n /\ j \in 1 .. lines[j].nextline - 1
    BY <1>5, <2>1
  <2>3. reached[lines[j].nextline]
    BY <1>2, <2>1, <2>2
  <2> QED BY <1>1, <2>2, <2>3
<1> QED BY <1>1, <1>3, <1>4, <1>5

\* The lines that are followed do not overlap: the word after each of them is
\* the next one that begins a line.
LEMMA FollowedLines ==
    ASSUME NEW len, IsTable(len), Len(len) # 0, NEW last \in BOOLEAN, NEW shortest \in Nat,
           NEW newL \in Nat, LeastSquares(len, last, shortest, newL)[1].score >= 0
    PROVE  LET line == LeastSquares(len, last, shortest, newL)
               way == Begun(line)
           IN  /\ way \in WaysFrom(Len(len), 1)
               /\ \A i \in way : line[i].score >= 0 /\ After(Len(len), way, i) = line[i].nextline
<1> DEFINE n == Len(len)
           line == LeastSquares(len, last, shortest, newL)
           way == Begun(line)
<1>1. n \in Nat \ {0}
  BY TableFacts
<1>2. line \in [1 .. n -> LineRecords]
  BY LeastSquaresUnfolds
<1>3. /\ way \in SUBSET (1 .. n) /\ 1 \in way
      /\ \A i \in way : i = 1 \/ \E j \in way : j < i /\ line[j].nextline = i
      /\ \A j \in way : line[j].nextline \in j + 1 .. n => line[j].nextline \in way
  <2>1. DOMAIN line = 1 .. n
    BY <1>2
  <2> HIDE DEF line, n
  <2> QED BY <1>1, <2>1, BegunWords
<1>4. \A i \in 1 .. n : line[i].score >= 0 =>
          /\ line[i].nextline \in i + 1 .. n + 1
          /\ RestScore(len, line, line[i].nextline - 1) >= 0
  BY LineIsBest
<1>5. line[1].score >= 0
  OBVIOUS
<1> HIDE DEF line, way
<1>6. ASSUME NEW i \in way PROVE line[i].score >= 0
  <2> DEFINE S == {k \in Nat : k \in way /\ ~(line[k].score >= 0)}
  <2> SUFFICES ASSUME S # {} PROVE FALSE
    BY <1>3, <1>6
  <2>1. PICK k \in S : \A l \in S : k <= l
    BY FirstExists
  <2>2. k \in way /\ k \in 1 .. n /\ ~(line[k].score >= 0) /\ k # 1
    BY <1>3, <1>5, <2>1
  <2>3. PICK j \in way : j < k /\ line[j].nextline = k
    BY <1>3, <2>2
  <2>4. j \in 1 .. n /\ line[j].score >= 0
    BY <1>3, <2>1, <2>2, <2>3
  <2>5. RestScore(len, line, k - 1) >= 0
    BY <1>4, <2>3, <2>4
  <2>6. k - 1 # Len(len) /\ k - 1 + 1 = k
    BY <2>2
  <2> QED BY <2>2, <2>5, <2>6 DEF RestScore
<1>7. \A i \in way : i \in 1 .. n /\ line[i].nextline \in i + 1 .. n + 1
  BY <1>3, <1>4, <1>6
<1>8. \A i, k \in way : k > i => line[i].nextline <= k
  <2> DEFINE S == {k \in Nat : k \in way /\ \E i \in way : k > i /\ ~(line[i].nextline <= k)}
  <2> SUFFICES ASSUME S # {} PROVE FALSE
    BY <1>3
  <2>1. PICK k \in S : \A l \in S : k <= l
    BY FirstExists
  <2>2. PICK i \in way : k > i /\ ~(line[i].nextline <= k)
    BY <2>1
  <2>3. k \in way /\ k \in 1 .. n /\ i \in 1 .. n /\ k # 1
    BY <1>3, <2>1, <2>2
  <2>4. PICK p \in way : p < k /\ line[p].nextline = k
    BY <1>3, <2>3
  <2>5. p \in 1 .. n
    BY <1>3
  <2>6. CASE p > i
    <3>1. line[i].nextline \in Int
      BY <1>7
    <3>2. ~(line[i].nextline <= p)
      BY <2>2, <2>3, <2>4, <2>5, <3>1
    <3>3. p \in S
      BY <2>2, <2>5, <2>6, <3>2
    <3> QED BY <2>1, <2>3, <2>4, <2>5, <3>3
  <2>7. CASE p = i
    BY <2>2, <2>3, <2>4, <2>7
  <2>8. CASE p < i
    <3>1. ~(line[p].nextline <= i)
      BY <2>2, <2>3, <2>4
    <3>2. i \in S
      BY <2>3, <2>8, <3>1
    <3> QED BY <2>1, <2>2, <2>3, <3>2
  <2> QED BY <2>3, <2>5, <2>6, <2>7, <2>8
<1>9. ASSUME NEW i \in way PROVE After(n, way, i) = line[i].nextline
  <2> DEFINE a == line[i].nextline
  <2>1. i \in 1 .. n /\ a \in i + 1 .. n + 1 /\ \A k \in way : k > i => a <= k
    BY <1>7, <1>8
  <2>2. a \in way \/ a = n + 1
    BY <1>1, <1>3, <2>1
  <2> HIDE DEF a
  <2>3. After(n, way, i) = a
    BY <1>1, <1>3, <2>1, <2>2, AfterIsUnique
  <2> QED BY <2>3 DEF a
<1>10. way \in WaysFrom(n, 1)
  BY <1>3 DEF WaysFrom
<1> QED BY <1>6, <1>9, <1>10 DEF line, way

\* The lines that are followed fit, and their sum of squares is the score.
LEMMA FollowedLinesFit ==
    ASSUME NEW len, IsTable(len), Len(len) # 0, NEW last \in BOOLEAN, NEW shortest \in Nat,
           NEW newL \in Nat, LeastSquares(len, last, shortest, newL)[1].score >= 0
    PROVE  LET line == LeastSquares(len, last, shortest, newL)
               way == Begun(line)
           IN  /\ Fits(len, way, last, shortest, newL)
               /\ SquaresFrom(len, way, last, newL)[1] = line[1].score
<1> DEFINE n == Len(len)
           line == LeastSquares(len, last, shortest, newL)
           way == Begun(line)
           sum == SquaresFrom(len, way, last, newL)
           Right(i) == i \in way => sum[i] = line[i].score
           T == {i \in 1 .. n : Right(i)}
<1>1. n \in Nat \ {0}
  BY TableFacts
<1>2. /\ way \in WaysFrom(n, 1)
      /\ \A i \in way : line[i].score >= 0 /\ After(n, way, i) = line[i].nextline
  BY FollowedLines
<1>3. way \in SUBSET (1 .. n) /\ 1 \in way
  BY <1>2 DEF WaysFrom
<1>4. \A i \in 1 .. n : line[i].score >= 0 =>
          LET j == line[i].nextline - 1
          IN  /\ line[i].nextline \in i + 1 .. n + 1
              /\ j \in Candidates(len, i, newL, last, shortest)
              /\ line[i].score = RestScore(len, line, j) + Square(Gap(len, i, j, last, newL))
  BY LineIsBest
<1>5. \A i \in way : sum[i] = (IF After(n, way, i) - 1 = n THEN 0 ELSE sum[After(n, way, i)])
                                 + Square(Gap(len, i, After(n, way, i) - 1, last, newL))
  BY <1>2, SumOfLine
<1> HIDE DEF line, way, sum
<1>6. Fits(len, way, last, shortest, newL)
  BY <1>2, <1>3, <1>4 DEF Fits
<1>7. ASSUME NEW i \in 1 .. n, \A j \in i + 1 .. n : Right(j), i \in way
      PROVE  sum[i] = line[i].score
  <2> DEFINE next == line[i].nextline
  <2>1. /\ next \in i + 1 .. n + 1
        /\ line[i].score = RestScore(len, line, next - 1) + Square(Gap(len, i, next - 1, last, newL))
        /\ sum[i] = (IF next - 1 = n THEN 0 ELSE sum[next]) + Square(Gap(len, i, next - 1, last, newL))
    BY <1>2, <1>4, <1>5, <1>7
  <2>2. next = n + 1 \/ next \in way
    <3>1. After(n, way, i) \in way \/ After(n, way, i) = n + 1
      BY <1>1, <1>3, AfterIsNext
    <3> QED BY <1>2, <1>7, <3>1
  <2> HIDE DEF next
  <2>3. CASE next = n + 1
    <3>1. next - 1 = n
      BY <1>1, <2>3
    <3> QED BY <2>1, <3>1 DEF RestScore
  <2>4. CASE next # n + 1
    <3>1. next - 1 # n /\ next - 1 + 1 = next /\ next \in i + 1 .. n /\ next \in way
      <4>1. next \in way
        BY <2>2, <2>4
      <4>2. next \in i + 1 .. n + 1
        BY <2>1
      <4> HIDE DEF n
      <4> QED BY <1>1, <2>4, <4>1, <4>2
    <3>2. sum[next] = line[next].score
      BY <1>7, <3>1
    <3>3. RestScore(len, line, next - 1) = line[next].score
      BY <3>1 DEF RestScore
    <3> QED BY <2>1, <3>1, <3>2, <3>3
  <2> QED BY <2>3, <2>4
<1>8. ASSUME NEW i \in 1 .. n, \A j \in i + 1 .. n : j \in T PROVE i \in T
  <2>1. \A j \in i + 1 .. n : Right(j)
    BY <1>8
  <2>2. Right(i)
    BY <1>7, <2>1
  <2> HIDE DEF Right
  <2> QED BY <2>2
<1>9. \A i \in 1 .. n : i \in T
  <2> HIDE DEF T
  <2>1. n \in Nat
    BY <1>1
  <2> QED BY <1>8, <2>1, BackwardInduction
<1>10. sum[1] = line[1].score
  BY <1>3, <1>9
<1> QED BY <1>6, <1>10 DEF line, way, sum

-----------------------------------------------------------------------------
(* The policy. *)

LEMMA WaysAreFromFirst ==
    ASSUME NEW len, Len(len) \in Nat \ {0}
    PROVE  Ways(len) = WaysFrom(Len(len), 1)
<1> DEFINE n == Len(len)
<1>1. ASSUME NEW way \in WaysFrom(n, 1) PROVE way \in Ways(len)
  <2> DEFINE S == way \ {1}
  <2>1. S \in SUBSET (2 .. n) /\ way = {1} \cup S
    BY DEF WaysFrom
  <2> HIDE DEF S
  <2> QED BY <2>1 DEF Ways
<1>2. ASSUME NEW way \in Ways(len) PROVE way \in WaysFrom(n, 1)
  <2>1. PICK S \in SUBSET (2 .. n) : way = {1} \cup S
    BY DEF Ways
  <2>2. way \in SUBSET (1 .. n) /\ 1 \in way
    BY <2>1
  <2> QED BY <2>2 DEF WaysFrom
<1> QED BY <1>1, <1>2

\* The longest line of a way.
LEMMA LongestLine ==
    ASSUME NEW len, IsTable(len), NEW way \in WaysFrom(Len(len), 1)
    PROVE  /\ LongestIn(len, way) \in Nat
           /\ \A M \in Nat : LongestIn(len, way) <= M <=> \A i \in way : LenIn(len, way, i) <= M
<1> DEFINE n == Len(len)
           S == {LenIn(len, way, i) : i \in way}
<1>1. n \in Nat /\ \A j \in 1 .. n : \A k \in j .. n : len[j][k] \in Nat /\ len[j][k] <= len[j][n]
  <2>1. /\ n \in Nat
        /\ \A j \in 1 .. n : \A k \in j .. n : len[j][k] \in Nat
        /\ \A j \in 1 .. n : \A k, l \in j .. n : k < l => len[j][k] < len[j][l]
    BY TableFacts
  <2>2. ASSUME NEW j \in 1 .. n, NEW k \in j .. n PROVE len[j][k] <= len[j][n]
    <3>1. n \in j .. n /\ (k = n \/ k < n)
      BY <2>1
    <3> HIDE DEF n
    <3>2. len[j][k] \in Nat /\ len[j][n] \in Nat
      BY <2>1, <3>1
    <3> QED BY <2>1, <3>1, <3>2
  <2> QED BY <2>1, <2>2
<1>2. \A i \in way : LenIn(len, way, i) \in Nat
  BY LineOfWay
<1>3. way # {} /\ 1 \in way
  BY DEF WaysFrom
<1>4. PICK b \in Nat : \A i \in way : LenIn(len, way, i) <= b
  <2> DEFINE Rows == {len[j][n] : j \in 1 .. n}
             P(k) == \E b \in Nat : \A j \in 1 .. n : j >= k => len[j][n] <= b
             T == {k \in 1 .. n : P(k)}
  <2>1. ASSUME NEW k \in 1 .. n, \A j \in k + 1 .. n : j \in T PROVE k \in T
    <3>1. len[k][n] \in Nat
      BY <1>1
    <3>2. CASE k = n
      BY <3>1, <3>2
    <3>3. CASE k # n
      <4>1. k + 1 \in k + 1 .. n
        BY <1>1, <3>3
      <4>2. PICK b \in Nat : \A j \in 1 .. n : j >= k + 1 => len[j][n] <= b
        BY <2>1, <4>1
      <4> DEFINE c == b + len[k][n]
      <4>3. ASSUME NEW j \in 1 .. n, j >= k PROVE len[j][n] <= c
        <5>1. CASE j = k
          BY <3>1, <5>1
        <5>2. CASE j # k
          <6>1. j >= k + 1 /\ n \in j .. n
            BY <1>1, <4>3, <5>2
          <6>2. len[j][n] <= b /\ len[j][n] \in Nat
            BY <1>1, <4>2, <6>1
          <6> HIDE DEF n
          <6> QED BY <3>1, <6>2
        <5> QED BY <5>1, <5>2
      <4>4. c \in Nat
        BY <3>1
      <4> HIDE DEF c
      <4> QED BY <4>3, <4>4
    <3> QED BY <3>2, <3>3
  <2>2. \A k \in 1 .. n : k \in T
    <3> HIDE DEF T
    <3> QED BY <1>1, <2>1, BackwardInduction
  <2>3. way \in SUBSET (1 .. n) /\ 1 \in 1 .. n
    BY <1>3 DEF WaysFrom
  <2>4. PICK b \in Nat : \A j \in 1 .. n : j >= 1 => len[j][n] <= b
    BY <2>2, <2>3
  <2>5. ASSUME NEW i \in way PROVE LenIn(len, way, i) <= b
    <3>1. /\ i \in 1 .. n /\ After(n, way, i) \in i + 1 .. n + 1
          /\ LenIn(len, way, i) = len[i][After(n, way, i) - 1]
      BY LineOfWay
    <3>2. After(n, way, i) - 1 \in i .. n /\ n \in i .. n
      BY <1>1, <3>1
    <3>3. LenIn(len, way, i) <= len[i][n] /\ len[i][n] \in Nat /\ LenIn(len, way, i) \in Nat
      BY <1>1, <3>1, <3>2
    <3>4. len[i][n] <= b
      BY <2>4, <3>1
    <3> HIDE DEF n
    <3> QED BY <3>3, <3>4
  <2> QED BY <2>5
<1>5. Max(S) \in S /\ \A x \in S : x <= Max(S)
  <2>1. S # {} /\ b \in Int /\ \A x \in S : x \in Int /\ x <= b
    BY <1>2, <1>3, <1>4
  <2> HIDE DEF S
  <2>2. S \in SUBSET Int
    BY <2>1
  <2> QED BY <2>1, <2>2, MaxIsGreatest
<1>6. LongestIn(len, way) = Max(S)
  BY DEF LongestIn
<1>7. Max(S) \in Nat
  <2>1. \A x \in S : x \in Nat
    BY <1>2
  <2> HIDE DEF S
  <2> QED BY <1>5, <2>1
<1>8. ASSUME NEW M \in Nat
      PROVE  Max(S) <= M <=> \A i \in way : LenIn(len, way, i) <= M
  <2> DEFINE m == Max(S)
  <2>1. m \in Nat /\ \A i \in way : LenIn(len, way, i) \in Nat /\ LenIn(len, way, i) <= m
    BY <1>2, <1>5, <1>7
  <2>2. \E i \in way : m = LenIn(len, way, i)
    BY <1>5
  <2> HIDE DEF m
  <2>3. m <= M <=> \A i \in way : LenIn(len, way, i) <= M
    BY <2>1, <2>2
  <2> QED BY <2>3 DEF m
<1> QED BY <1>6, <1>7, <1>8

\* The shortest line of a way, of those that count.
LEMMA ShortestLine ==
    ASSUME NEW len, IsTable(len), NEW way \in WaysFrom(Len(len), 1),
           NEW width \in Nat, NEW last \in BOOLEAN
    PROVE  /\ ShortestIn(len, way, width, last) \in 0 .. width
           /\ \A m \in 0 .. width : m <= ShortestIn(len, way, width, last) <=>
                  \A i \in Counted(way, last) : m <= LenIn(len, way, i)
<1> DEFINE C == Counted(way, last)
           S == {width} \cup {LenIn(len, way, i) : i \in C}
           least == Min(S)
<1>1. \A i \in C : LenIn(len, way, i) \in Nat
  <2>1. C \subseteq way
    BY DEF Counted
  <2> QED BY <2>1, LineOfWay
<1> HIDE DEF C
<1>2. \A x \in S : x \in Nat
  BY <1>1
<1>3. least \in S /\ \A x \in S : least <= x
  <2>1. width \in S
    OBVIOUS
  <2> HIDE DEF S
  <2>2. S \in SUBSET Int /\ S # {} /\ 0 \in Int /\ \A x \in S : 0 <= x
    BY <1>2, <2>1
  <2> QED BY <2>2, MinIsLeast
<1>4. ShortestIn(len, way, width, last) = least
  BY DEF ShortestIn, C
<1>5. least \in 0 .. width
  <2>1. width \in S
    OBVIOUS
  <2> HIDE DEF S
  <2>2. least \in Nat /\ least <= width
    BY <1>2, <1>3, <2>1
  <2> HIDE DEF least
  <2> QED BY <2>2
<1>6. \A i \in C : least <= LenIn(len, way, i)
  BY <1>3
<1>7. least = width \/ \E i \in C : least = LenIn(len, way, i)
  BY <1>3
<1> HIDE DEF least
<1>8. \A m \in 0 .. width : m <= least <=> \A i \in C : m <= LenIn(len, way, i)
  BY <1>1, <1>5, <1>6, <1>7
<1> QED BY <1>4, <1>5, <1>8 DEF C

\* What it is for a way to fit, in the words of the policy.
LEMMA FitsInMeasures ==
    ASSUME NEW len, IsTable(len), NEW way \in WaysFrom(Len(len), 1),
           NEW width \in Nat, NEW last \in BOOLEAN, NEW m \in 0 .. width, NEW M \in Nat
    PROVE  Fits(len, way, last, m, M) <=>
               LongestIn(len, way) <= M /\ m <= ShortestIn(len, way, width, last)
<1> DEFINE n == Len(len)
<1>1. n \in Nat /\ way \in SUBSET (1 .. n)
  BY TableFacts DEF WaysFrom
<1>2. LongestIn(len, way) <= M <=> \A i \in way : LenIn(len, way, i) <= M
  BY LongestLine
<1>3. m <= ShortestIn(len, way, width, last) <=>
          \A i \in Counted(way, last) : m <= LenIn(len, way, i)
  BY ShortestLine
<1>4. Counted(way, last) \subseteq way
  BY DEF Counted
<1>5. ASSUME NEW i \in way
      PROVE  After(n, way, i) - 1 \in Candidates(len, i, M, last, m) <=>
                 LenIn(len, way, i) <= M /\ (i \in Counted(way, last) => m <= LenIn(len, way, i))
  <2> DEFINE j == After(n, way, i) - 1
  <2>1. i \in 1 .. n /\ After(n, way, i) \in i + 1 .. n + 1
    BY LineOfWay
  <2>2. LenIn(len, way, i) = len[i][j] /\ len[i][j] \in Nat
    <3>1. LenIn(len, way, i) = len[i][j] /\ LenIn(len, way, i) \in Nat
      BY LineOfWay
    <3> QED BY <3>1
  <2>3. j \in i .. n /\ (j = n <=> After(n, way, i) = n + 1)
    <3> HIDE DEF n
    <3> QED BY <1>1, <2>1
  <2>4. i \in Counted(way, last) <=> last \/ j # n
    BY <1>1, <2>3, CountedLines
  <2> HIDE DEF j
  <2>5. j \in Candidates(len, i, M, last, m) <=> len[i][j] <= M /\ len[i][j] >= LeastLen(len, j, last, m)
    BY <2>3 DEF Candidates, LineEnds
  <2>6. len[i][j] >= LeastLen(len, j, last, m) <=> (i \in Counted(way, last) => m <= len[i][j])
    BY <2>2, <2>4 DEF LeastLen
  <2>7. j \in Candidates(len, i, M, last, m) <=>
            LenIn(len, way, i) <= M /\ (i \in Counted(way, last) => m <= LenIn(len, way, i))
    BY <2>2, <2>5, <2>6
  <2> QED BY <2>7 DEF j
<1> QED BY <1>2, <1>3, <1>4, <1>5 DEF Fits

\* The even ways are those the score of the first word speaks of.
LEMMA EvenWays ==
    ASSUME NEW len, IsTable(len), Len(len) # 0, NEW width \in Nat, NEW last \in BOOLEAN,
           LongestShortest(len, width, last)[1] >= 0
    PROVE  LET s == LongestShortest(len, width, last)[1]
           IN  /\ s \in 0 .. width
               /\ Able(len, 1, last, s, width)
               /\ Even(len, width, last) = {way \in WaysFrom(Len(len), 1) : Fits(len, way, last, s, width)}
<1> DEFINE n == Len(len)
           s == LongestShortest(len, width, last)[1]
           fit == {way \in Ways(len) : LongestIn(len, way) <= width}
           Shorts == {ShortestIn(len, way, width, last) : way \in fit}
<1>1. n \in Nat \ {0} /\ 1 \in 1 .. n
  BY TableFacts
<1>2. s \in -1 .. width /\ \A m \in 0 .. width : m <= s <=> Able(len, 1, last, m, width)
  BY <1>1, LongestShortestIsGreatest
<1>3. s \in 0 .. width /\ s >= 0
  BY <1>2
<1> HIDE DEF s
<1>4. Able(len, 1, last, s, width)
  BY <1>2, <1>3
<1>5. Ways(len) = WaysFrom(n, 1)
  BY <1>1, WaysAreFromFirst
<1>6. \A way \in WaysFrom(n, 1) : ShortestIn(len, way, width, last) \in 0 .. width
  BY ShortestLine
<1>7. \A way \in WaysFrom(n, 1) : \A m \in 0 .. width :
          Fits(len, way, last, m, width) <=> LongestIn(len, way) <= width /\ m <= ShortestIn(len, way, width, last)
  BY FitsInMeasures
<1>8. \A way \in fit : ShortestIn(len, way, width, last) <= s
  <2> SUFFICES ASSUME NEW way \in fit PROVE ShortestIn(len, way, width, last) <= s
    OBVIOUS
  <2> DEFINE m == ShortestIn(len, way, width, last)
  <2>1. way \in WaysFrom(n, 1) /\ LongestIn(len, way) <= width
    BY <1>5
  <2>2. m \in 0 .. width
    BY <1>6, <2>1
  <2>3. Fits(len, way, last, m, width)
    BY <1>7, <2>1, <2>2
  <2>4. Able(len, 1, last, m, width)
    BY <2>1, <2>3 DEF Able
  <2> HIDE DEF m
  <2>5. m <= s
    BY <1>2, <2>2, <2>4
  <2> QED BY <2>5 DEF m
<1>9. PICK even \in fit : ShortestIn(len, even, width, last) = s
  <2>1. PICK way \in WaysFrom(n, 1) : Fits(len, way, last, s, width)
    BY <1>4 DEF Able
  <2>2. LongestIn(len, way) <= width /\ s <= ShortestIn(len, way, width, last)
    BY <1>3, <1>7, <2>1
  <2>3. way \in fit
    BY <1>5, <2>2
  <2>4. ShortestIn(len, way, width, last) <= s /\ ShortestIn(len, way, width, last) \in 0 .. width
    BY <1>6, <1>8, <2>3
  <2>5. ShortestIn(len, way, width, last) = s
    BY <1>3, <2>2, <2>4
  <2> QED BY <2>3, <2>5
<1>10. Max(Shorts) = s
  <2>1. \A x \in Shorts : x \in Int /\ x <= s
    BY <1>5, <1>6, <1>8
  <2>2. s \in Shorts
    BY <1>9
  <2> HIDE DEF Shorts
  <2>3. Max(Shorts) \in Shorts /\ \A x \in Shorts : x <= Max(Shorts)
    <3>1. Shorts \in SUBSET Int /\ Shorts # {} /\ s \in Int
      BY <2>1, <2>2
    <3> QED BY <2>1, <3>1, MaxIsGreatest
  <2>4. Max(Shorts) <= s /\ s <= Max(Shorts) /\ Max(Shorts) \in Int
    BY <2>1, <2>2, <2>3
  <2> QED BY <1>3, <2>4
<1>11. Even(len, width, last) = {way \in fit : ShortestIn(len, way, width, last) = s}
  BY <1>10 DEF Even
<1>12. \A way \in WaysFrom(n, 1) : way \in Even(len, width, last) <=> Fits(len, way, last, s, width)
  <2> SUFFICES ASSUME NEW way \in WaysFrom(n, 1)
               PROVE  way \in Even(len, width, last) <=> Fits(len, way, last, s, width)
    OBVIOUS
  <2>1. Fits(len, way, last, s, width) <=> LongestIn(len, way) <= width /\ s <= ShortestIn(len, way, width, last)
    BY <1>3, <1>7
  <2>2. way \in Even(len, width, last) <=> way \in fit /\ ShortestIn(len, way, width, last) = s
    BY <1>11
  <2>3. way \in fit <=> LongestIn(len, way) <= width
    BY <1>5
  <2>4. ShortestIn(len, way, width, last) \in 0 .. width /\ (way \in fit => ShortestIn(len, way, width, last) <= s)
    BY <1>6, <1>8
  <2> HIDE DEF fit
  <2>5. way \in fit => (s <= ShortestIn(len, way, width, last) <=> ShortestIn(len, way, width, last) = s)
    BY <1>3, <2>4
  <2> QED BY <2>1, <2>2, <2>3, <2>5
<1>13. Even(len, width, last) \subseteq WaysFrom(n, 1)
  BY <1>5, <1>11
<1>14. Even(len, width, last) = {way \in WaysFrom(n, 1) : Fits(len, way, last, s, width)}
  BY <1>12, <1>13
<1> QED BY <1>3, <1>4, <1>14 DEF s

\* Of the even ways, how narrow the text can be.
LEMMA NarrowWays ==
    ASSUME NEW len, IsTable(len), Len(len) # 0, NEW width \in Nat, NEW last \in BOOLEAN,
           LongestShortest(len, width, last)[1] >= 0, NEW newL \in 0 .. width
    PROVE  LET s == LongestShortest(len, width, last)[1]
           IN  \A way : way \in Even(len, width, last) /\ LongestIn(len, way) <= newL
                            <=> way \in WaysFrom(Len(len), 1) /\ Fits(len, way, last, s, newL)
<1> DEFINE n == Len(len)
           s == LongestShortest(len, width, last)[1]
<1>1. s \in 0 .. width /\ Even(len, width, last) = {way \in WaysFrom(n, 1) : Fits(len, way, last, s, width)}
  BY EvenWays
<1> HIDE DEF s
<1>2. ASSUME NEW way \in WaysFrom(n, 1)
      PROVE  Fits(len, way, last, s, width) /\ LongestIn(len, way) <= newL
                 <=> Fits(len, way, last, s, newL)
  <2>1. newL \in Nat
    OBVIOUS
  <2>2. Fits(len, way, last, s, width) <=> LongestIn(len, way) <= width /\ s <= ShortestIn(len, way, width, last)
    BY <1>1, FitsInMeasures
  <2>3. Fits(len, way, last, s, newL) <=> LongestIn(len, way) <= newL /\ s <= ShortestIn(len, way, width, last)
    BY <1>1, <2>1, FitsInMeasures
  <2>4. LongestIn(len, way) \in Nat
    BY LongestLine
  <2>5. LongestIn(len, way) <= newL => LongestIn(len, way) <= width
    BY <2>4
  <2> QED BY <2>2, <2>3, <2>5
<1> QED BY <1>1, <1>2 DEF s

LEMMA NarrowestWidth ==
    ASSUME NEW len, IsTable(len), Len(len) # 0, NEW width \in Nat, NEW last \in BOOLEAN,
           LongestShortest(len, width, last)[1] >= 0
    PROVE  LET s == LongestShortest(len, width, last)[1]
               narrowest == ShortestLongest(len, width, last, s)[1]
           IN  /\ narrowest \in 0 .. width
               /\ narrowest = PolicyL(len, width, last, TRUE)
<1> DEFINE n == Len(len)
           s == LongestShortest(len, width, last)[1]
           w == ShortestLongest(len, width, last, s)[1]
           Longs == {LongestIn(len, way) : way \in Even(len, width, last)}
<1>1. n \in Nat \ {0} /\ 1 \in 1 .. n
  BY TableFacts
<1>2. /\ s \in 0 .. width
      /\ Able(len, 1, last, s, width)
      /\ Even(len, width, last) = {way \in WaysFrom(n, 1) : Fits(len, way, last, s, width)}
  BY EvenWays
<1>3. s \in Nat
  BY <1>2
<1>4. w \in 0 .. width + 1 /\ \A M \in 0 .. width : w <= M <=> Able(len, 1, last, s, M)
  BY <1>1, <1>3, ShortestLongestIsLeast
<1> HIDE DEF s, w
<1>5. w \in 0 .. width
  <2>1. w <= width
    BY <1>2, <1>4
  <2> QED BY <1>4, <2>1
<1>6. Able(len, 1, last, s, w)
  BY <1>4, <1>5
<1>7. ASSUME NEW M \in 0 .. width
      PROVE  Able(len, 1, last, s, M) <=> \E way \in Even(len, width, last) : LongestIn(len, way) <= M
  <2>1. \A way : way \in Even(len, width, last) /\ LongestIn(len, way) <= M
                     <=> way \in WaysFrom(n, 1) /\ Fits(len, way, last, s, M)
    BY NarrowWays DEF s
  <2> QED BY <2>1 DEF Able
<1>8. \A way \in Even(len, width, last) : LongestIn(len, way) \in 0 .. width
  <2> SUFFICES ASSUME NEW way \in Even(len, width, last) PROVE LongestIn(len, way) \in 0 .. width
    OBVIOUS
  <2>1. way \in WaysFrom(n, 1) /\ LongestIn(len, way) \in Nat
    BY <1>2, LongestLine
  <2>2. LongestIn(len, way) <= width
    BY <1>2, <2>1, FitsInMeasures
  <2> QED BY <2>1, <2>2
<1>9. \A way \in Even(len, width, last) : w <= LongestIn(len, way)
  <2> SUFFICES ASSUME NEW way \in Even(len, width, last) PROVE w <= LongestIn(len, way)
    OBVIOUS
  <2> DEFINE M == LongestIn(len, way)
  <2>1. M \in 0 .. width /\ M <= M
    BY <1>8
  <2> HIDE DEF M
  <2>2. Able(len, 1, last, s, M)
    BY <1>7, <2>1 DEF M
  <2>3. w <= M
    BY <1>4, <2>1, <2>2
  <2> QED BY <2>3 DEF M
<1>10. PICK narrow \in Even(len, width, last) : LongestIn(len, narrow) <= w
  BY <1>5, <1>6, <1>7
<1>11. LongestIn(len, narrow) = w
  BY <1>5, <1>8, <1>9, <1>10
<1>12. Min(Longs) = w
  <2>1. w \in Longs
    BY <1>11
  <2>2. \A x \in Longs : x \in Int /\ 0 <= x /\ w <= x
    BY <1>8, <1>9
  <2> HIDE DEF Longs
  <2>3. Min(Longs) \in Longs /\ \A x \in Longs : Min(Longs) <= x
    <3>1. Longs \in SUBSET Int /\ Longs # {} /\ 0 \in Int
      BY <2>1, <2>2
    <3> QED BY <2>2, <3>1, MinIsLeast
  <2>4. Min(Longs) <= w /\ w <= Min(Longs) /\ Min(Longs) \in Int
    BY <2>1, <2>2, <2>3
  <2> QED BY <1>5, <2>4
<1>13. w = PolicyL(len, width, last, TRUE)
  BY <1>12 DEF PolicyL
<1> QED BY <1>5, <1>13 DEF w, s

-----------------------------------------------------------------------------
(* choosebreaks. *)

\* What choosebreaks leaves when it does not give up.
LEMMA ChosenBreaks ==
    ASSUME NEW len, IsTable(len), Len(len) # 0, NEW width \in Nat, NEW last \in BOOLEAN,
           NEW min \in BOOLEAN, ~choosebreaks(len, width, last, min).impossible
    PROVE  LET b == choosebreaks(len, width, last, min)
               s == LongestShortest(len, width, last)[1]
           IN  /\ s \in 0 .. width
               /\ b.newL \in 0 .. width
               /\ b.newL = PolicyL(len, width, last, min)
               /\ b.lines = LeastSquares(len, last, s, b.newL)
               /\ b.lines[1].score >= 0
<1> DEFINE n == Len(len)
           b == choosebreaks(len, width, last, min)
           scores == LongestShortest(len, width, last)
           s == scores[1]
           w == ShortestLongest(len, width, last, s)[1]
           newL == IF ~min THEN width ELSE w
           lines == LeastSquares(len, last, s, newL)
           bad == \/ \E i \in DOMAIN len : scores[i] < 0
                  \/ newL > width
                  \/ len # <<>> /\ lines[1].score < 0
<1>1. n \in Nat \ {0} /\ DOMAIN len = 1 .. n /\ 1 \in DOMAIN len /\ len # <<>>
  <2>1. n \in Nat \ {0} /\ DOMAIN len = 1 .. n
    BY TableFacts
  <2> QED BY <2>1
<1>2. b = IF bad THEN [NoBreaks EXCEPT !.impossible = TRUE]
          ELSE [newL |-> newL, lines |-> lines, impossible |-> FALSE]
  BY <1>1 DEF choosebreaks
<1>3. ~b.impossible
  OBVIOUS
<1>4. scores \in [1 .. n -> Int]
  BY LongestShortestUnfolds
<1> HIDE DEF b, scores, lines, newL
<1>5. ~bad /\ b.newL = newL /\ b.lines = lines
  BY <1>2, <1>3 DEF NoBreaks
<1>6. s >= 0
  BY <1>1, <1>4, <1>5
<1>7. s \in 0 .. width
  BY <1>6, EvenWays DEF scores
<1>8. w \in 0 .. width /\ w = PolicyL(len, width, last, TRUE)
  BY <1>6, NarrowestWidth DEF scores
<1>9. newL \in 0 .. width /\ newL = PolicyL(len, width, last, min)
  BY <1>8 DEF newL, PolicyL
<1>10. lines[1].score >= 0
  <2>1. s \in Nat /\ newL \in Nat
    BY <1>7, <1>9
  <2>2. lines \in [1 .. n -> LineRecords]
    BY <2>1, LeastSquaresUnfolds DEF lines
  <2>3. lines[1].score \in Int
    BY <1>1, <2>2 DEF LineRecords
  <2> QED BY <1>1, <1>5, <2>3
<1>11. b.newL = newL /\ b.lines = LeastSquares(len, last, s, b.newL)
  BY <1>5 DEF lines
<1> QED BY <1>5, <1>7, <1>9, <1>10, <1>11 DEF b, scores

\* For every table of word lengths, every width and every option: unless it
\* gives up, choosebreaks leaves the width and one of the best ways to break
\* the words that par.doc promises.
THEOREM ChooseBreaksIsBest ==
    ASSUME NEW len, IsTable(len), Len(len) # 0, NEW width \in Nat, NEW last \in BOOLEAN,
           NEW min \in BOOLEAN, ~choosebreaks(len, width, last, min).impossible
    PROVE  LET b == choosebreaks(len, width, last, min)
           IN  /\ b.newL = PolicyL(len, width, last, min)
               /\ Begun(b.lines) \in Best(len, width, last, b.newL)
<1> DEFINE n == Len(len)
           b == choosebreaks(len, width, last, min)
           s == LongestShortest(len, width, last)[1]
           way == Begun(b.lines)
           newL == b.newL
<1>1. n \in Nat \ {0} /\ 1 \in 1 .. n
  BY TableFacts
<1>2. /\ s \in 0 .. width
      /\ newL \in 0 .. width
      /\ newL = PolicyL(len, width, last, min)
      /\ b.lines = LeastSquares(len, last, s, newL)
      /\ b.lines[1].score >= 0
  BY ChosenBreaks
<1> HIDE DEF b, newL
<1>3. s \in Nat /\ newL \in Nat /\ s >= 0
  BY <1>2
<1>4. LeastSquares(len, last, s, newL)[1].score >= 0
  BY <1>2
<1>5. /\ way \in WaysFrom(n, 1)
      /\ \A i \in way : After(n, way, i) = b.lines[i].nextline
      /\ Fits(len, way, last, s, newL)
      /\ SquaresFrom(len, way, last, newL)[1] = b.lines[1].score
  BY <1>2, <1>3, <1>4, FollowedLines, FollowedLinesFit
<1>6. \A v : v \in Even(len, width, last) /\ LongestIn(len, v) <= newL
                 <=> v \in WaysFrom(n, 1) /\ Fits(len, v, last, s, newL)
  BY <1>2, <1>3, NarrowWays
<1> HIDE DEF way
<1>7. CASE len[1][n] <= width
  <2>1. /\ LongestShortest(len, width, last) \in [1 .. n -> Int]
        /\ s = FirstPass(len, width, last, LongestShortest(len, width, last), 1)
    BY <1>1, LongestShortestUnfolds
  <2>2. s = IF last THEN len[1][n] ELSE width
    BY <1>7, <2>1 DEF FirstPass
  <2>3. 1 \in way /\ way \in SUBSET (1 .. n)
    BY <1>5 DEF WaysFrom
  <2> DEFINE next == After(n, way, 1)
  <2>4. next \in 2 .. n + 1 /\ \A k \in way : k > 1 => next <= k
    <3>1. n \in Nat
      BY <1>1
    <3> QED BY <1>1, <2>3, <3>1, AfterIsNext
  <2>5. next - 1 \in Candidates(len, 1, newL, last, s)
    BY <1>5, <2>3 DEF Fits
  <2> HIDE DEF next
  <2>6. next = n + 1
    <3> SUFFICES ASSUME next # n + 1 PROVE FALSE
      OBVIOUS
    <3>1. next - 1 \in 1 .. n /\ n \in 1 .. n /\ next - 1 < n
      BY <1>1, <2>4
    <3>2. len[1][next - 1] < len[1][n] /\ len[1][next - 1] \in Nat /\ len[1][n] \in Nat
      BY <1>1, <3>1, TableFacts
    <3>3. len[1][next - 1] >= s
      BY <2>5, <3>1 DEF Candidates, LeastLen
    <3> HIDE DEF s
    <3> QED BY <1>2, <1>7, <2>2, <3>2, <3>3
  <2>7. way = {1}
    <3>1. ASSUME NEW k \in way, k # 1 PROVE FALSE
      <4>1. k \in 1 .. n /\ k > 1
        BY <1>1, <2>3, <3>1
      <4>2. n + 1 <= k
        BY <2>4, <2>6, <4>1
      <4> HIDE DEF n
      <4> QED BY <1>1, <4>1, <4>2
    <3> QED BY <2>3, <3>1
  <2> QED BY <1>2, <1>7, <2>7 DEF Best, b, newL, way
<1>8. CASE ~(len[1][n] <= width)
  <2> DEFINE narrow == {v \in Even(len, width, last) : LongestIn(len, v) <= newL}
             Sums == {SquaresIn(len, v, last, newL) : v \in narrow}
  <2>1. \A v : SquaresIn(len, v, last, newL) = SquaresFrom(len, v, last, newL)[1]
    BY DEF SquaresIn, SquaresFrom
  <2>2. \A v : v \in narrow <=> v \in WaysFrom(n, 1) /\ Fits(len, v, last, s, newL)
    BY <1>6
  <2> HIDE DEF narrow
  <2>3. ASSUME NEW v \in narrow
        PROVE  SquaresIn(len, v, last, newL) \in Int
               /\ b.lines[1].score <= SquaresIn(len, v, last, newL)
    <3>1. v \in WaysFrom(n, 1) /\ Fits(len, v, last, s, newL) /\ 1 \in v
      BY <2>2 DEF WaysFrom
    <3>2. SquaresFrom(len, v, last, newL) \in [1 .. n + 1 -> Int]
      BY <1>3, <3>1, SquaresUnfold
    <3>3. 1 \in 1 .. n + 1
      BY <1>1
    <3>4. LeastSquares(len, last, s, newL)[1].score <= SquaresFrom(len, v, last, newL)[1]
      BY <1>3, <3>1, ScoreIsBound
    <3> QED BY <1>2, <2>1, <3>2, <3>3, <3>4
  <2>4. way \in narrow /\ SquaresIn(len, way, last, newL) = b.lines[1].score
    BY <1>5, <2>1, <2>2
  <2>5. Min(Sums) = b.lines[1].score
    <3> DEFINE m == b.lines[1].score
    <3>1. m \in Sums /\ \A x \in Sums : x \in Int /\ m <= x
      BY <2>3, <2>4
    <3> HIDE DEF Sums, m
    <3>2. Min(Sums) \in Sums /\ \A x \in Sums : Min(Sums) <= x
      <4>1. Sums \in SUBSET Int /\ Sums # {} /\ m \in Int
        BY <3>1
      <4> QED BY <3>1, <4>1, MinIsLeast
    <3>3. Min(Sums) <= m /\ m <= Min(Sums) /\ Min(Sums) \in Int /\ m \in Int
      BY <3>1, <3>2
    <3>4. Min(Sums) = m
      BY <3>3
    <3> QED BY <3>4 DEF m
  <2>6. way \in {v \in narrow : SquaresIn(len, v, last, newL) = Min(Sums)}
    BY <2>4, <2>5
  <2>7. Best(len, width, last, newL) = {v \in narrow : SquaresIn(len, v, last, newL) = Min(Sums)}
    BY <1>8 DEF Best, narrow
  <2> QED BY <1>2, <2>6, <2>7 DEF b, newL, way
<1> QED BY <1>7, <1>8

\* When no word is longer than a line, choosebreaks does not give up: the
\* conditions it takes for impossible do not arise.
THEOREM ShortWordsBreak ==
    ASSUME NEW len, IsTable(len), NEW width \in Nat, NEW last \in BOOLEAN, NEW min \in BOOLEAN,
           \A i \in 1 .. Len(len) : len[i][i] <= width
    PROVE  ~choosebreaks(len, width, last, min).impossible
<1> DEFINE n == Len(len)
           b == choosebreaks(len, width, last, min)
           scores == LongestShortest(len, width, last)
           s == scores[1]
           shortest == IF len = <<>> THEN width ELSE s
           newL == IF ~min THEN width
                   ELSE IF len = <<>> THEN 0 ELSE ShortestLongest(len, width, last, shortest)[1]
           lines == LeastSquares(len, last, shortest, newL)
           bad == \/ \E i \in DOMAIN len : scores[i] < 0
                  \/ newL > width
                  \/ len # <<>> /\ lines[1].score < 0
<1>1. n \in Nat /\ DOMAIN len = 1 .. n /\ (len = <<>> <=> n = 0)
  <2>1. n \in Nat /\ DOMAIN len = 1 .. n /\ len \in Seq(UNION {[S -> Nat \ {0}] : S \in SUBSET Nat})
    BY DEF IsTable
  <2>2. n = 0 => len = <<>>
    BY <2>1, EmptySeq
  <2> QED BY <2>1, <2>2
<1>2. b = IF bad THEN [NoBreaks EXCEPT !.impossible = TRUE]
          ELSE [newL |-> newL, lines |-> lines, impossible |-> FALSE]
  BY DEF choosebreaks
<1> HIDE DEF b
<1>3. SUFFICES ~bad
  BY <1>2 DEF b
<1>4. \A i \in 1 .. n : Able(len, i, last, 0, width)
  <2> DEFINE T == {i \in 1 .. n : Able(len, i, last, 0, width)}
  <2>1. ASSUME NEW i \in 1 .. n, \A j \in i + 1 .. n : j \in T PROVE i \in T
    <3>1. i \in i .. n /\ len[i][i] \in Nat /\ len[i][i] <= width
      BY TableFacts
    <3>2. i \in Candidates(len, i, width, last, 0)
      BY <3>1 DEF Candidates, LineEnds, LeastLen
    <3>3. i = n \/ i + 1 \in i + 1 .. n
      BY <1>1
    <3>4. i = n \/ Able(len, i + 1, last, 0, width)
      BY <2>1, <3>3
    <3>5. Able(len, i, last, 0, width)
      BY <3>2, <3>4, AbleStep
    <3> QED BY <3>5
  <2>2. \A i \in 1 .. n : i \in T
    <3> HIDE DEF T
    <3> QED BY <1>1, <2>1, BackwardInduction
  <2> QED BY <2>2
<1>5. \A i \in 1 .. n : scores[i] \in -1 .. width /\ 0 <= scores[i]
  <2>1. 0 \in 0 .. width
    OBVIOUS
  <2> QED BY <1>4, <2>1, LongestShortestIsGreatest
<1>6. ~\E i \in DOMAIN len : scores[i] < 0
  <2> HIDE DEF scores
  <2> QED BY <1>1, <1>5
<1>7. CASE n = 0
  BY <1>1, <1>6, <1>7
<1>8. CASE n # 0
  <2>1. len # <<>> /\ 1 \in 1 .. n /\ shortest = s
    BY <1>1, <1>8
  <2>2. s \in 0 .. width /\ s >= 0 /\ s \in Nat
    <3> HIDE DEF scores
    <3> QED BY <1>5, <2>1
  <2>3. Able(len, 1, last, s, width)
    BY <1>8, <2>2, EvenWays
  <2>4. \A M \in 0 .. width : ShortestLongest(len, width, last, s)[1] <= M <=> Able(len, 1, last, s, M)
    BY <2>1, <2>2, ShortestLongestIsLeast
  <2>5. newL \in 0 .. width /\ Able(len, 1, last, s, newL)
    <3>1. CASE min
      <4>1. ShortestLongest(len, width, last, s)[1] \in 0 .. width
        BY <1>8, <2>2, NarrowestWidth
      <4>2. newL = ShortestLongest(len, width, last, s)[1]
        BY <2>1, <3>1
      <4> HIDE DEF s, newL
      <4> QED BY <2>4, <4>1, <4>2
    <3>2. CASE ~min
      BY <2>3, <3>2
    <3> QED BY <3>1, <3>2
  <2>6. lines = LeastSquares(len, last, s, newL)
    BY <2>1
  <2> HIDE DEF newL, s, lines, shortest
  <2>7. PICK way \in WaysFrom(n, 1) : Fits(len, way, last, s, newL)
    BY <2>5 DEF Able
  <2>8. 1 \in way /\ newL \in Nat
    BY <2>5 DEF WaysFrom
  <2>9. lines[1].score >= 0
    BY <2>2, <2>6, <2>7, <2>8, ScoreIsBound
  <2>10. lines[1].score \in Int
    <3>1. lines \in [1 .. n -> LineRecords]
      BY <2>2, <2>6, <2>8, LeastSquaresUnfolds
    <3> QED BY <2>1, <3>1 DEF LineRecords
  <2> QED BY <1>6, <2>5, <2>9, <2>10
<1> QED BY <1>1, <1>7, <1>8

\* The line kept for a word that begins one: it ends before a word that begins
\* the next one, or with the last word, and is no longer than newL.
LEMMA ChosenLine ==
    ASSUME NEW len, IsTable(len), Len(len) # 0, NEW width \in Nat, NEW last \in BOOLEAN,
           NEW min \in BOOLEAN, ~choosebreaks(len, width, last, min).impossible,
           NEW i \in Begun(choosebreaks(len, width, last, min).lines)
    PROVE  LET b == choosebreaks(len, width, last, min)
               next == b.lines[i].nextline
           IN  /\ i \in 1 .. Len(len)
               /\ next \in i + 1 .. Len(len) + 1
               /\ next \in Begun(b.lines) \/ next = Len(len) + 1
               /\ b.lines[i].linelen = len[i][next - 1]
               /\ b.lines[i].linelen \in 0 .. b.newL
<1> DEFINE n == Len(len)
           b == choosebreaks(len, width, last, min)
           s == LongestShortest(len, width, last)[1]
           newL == b.newL
           line == LeastSquares(len, last, s, newL)
           way == Begun(line)
           next == line[i].nextline
<1>1. /\ s \in 0 .. width
      /\ newL \in 0 .. width
      /\ b.lines = line
      /\ b.lines[1].score >= 0
  BY ChosenBreaks
<1>2. s \in Nat /\ newL \in Nat /\ line[1].score >= 0 /\ i \in way
  BY <1>1
<1> HIDE DEF b, s, newL
<1>3. way \in WaysFrom(n, 1) /\ line[i].score >= 0 /\ After(n, way, i) = next
  BY <1>2, FollowedLines
<1>4. way \in SUBSET (1 .. n) /\ n \in Nat
  BY <1>3, TableFacts DEF WaysFrom
<1> HIDE DEF way
<1>5. /\ next \in i + 1 .. n + 1
      /\ next - 1 \in Candidates(len, i, newL, last, s)
      /\ line[i].linelen = len[i][next - 1]
  <2>1. i \in 1 .. n
    BY <1>2, <1>4
  <2> QED BY <1>2, <1>3, <2>1, LineIsBest
<1>6. next \in way \/ next = n + 1
  BY <1>2, <1>3, <1>4, AfterIsNext
<1> HIDE DEF line
<1>7. len[i][next - 1] \in 0 .. newL
  <2>1. next - 1 \in i .. n /\ len[i][next - 1] <= newL
    BY <1>5 DEF Candidates, LineEnds
  <2>2. len[i][next - 1] \in Nat
    BY <1>2, <1>4, <2>1, TableFacts
  <2> QED BY <1>2, <2>1, <2>2
<1> QED BY <1>1, <1>2, <1>4, <1>5, <1>6, <1>7 DEF b, newL, way

-----------------------------------------------------------------------------
(* The paragraph as a whole. *)

Lines == [first : Nat, next : Nat, room : Int, text : Int]

TypeOK ==
    /\ opt \in Options
    /\ pc \in {"read", "break", "build", "printed", "cleanup", "reported", "crashed"}
    /\ error \in {"none", "short", "impossible", "memory"}
    /\ numin \in Nat /\ rest \in Nat /\ indent \in Nat
    /\ words \in Seq(Nat \ {0})
    /\ w1 \in Nat
    /\ out \in Seq(Lines)

\* No word is longer than a line, except the first one when it has grown by the
\* spaces before it.
WordsCut ==
    /\ \A i \in 2 .. Len(words) : words[i] <= L
    /\ words # <<>> => words[1] - indent <= L
    /\ pc = "read" /\ words # <<>> => words[1] <= L

\* No error has been met while the paragraph is being worked on, and no line
\* built before breaks are chosen.
Fresh ==
    /\ pc \in {"read", "break", "build", "printed"} => error = "none"
    /\ pc \in {"read", "break"} => out = <<>> /\ w1 = 1

\* While lines are built, the breaks are those of the words, and w1 is a word
\* that begins a line or follows the last.
BreaksKept ==
    pc = "build" =>
        /\ breaks = choosebreaks(LineLens(words), L, opt.last, opt.min)
        /\ ~breaks.impossible
        /\ w1 = Len(words) + 1 \/ (words # <<>> /\ w1 \in Begun(breaks.lines))

\* Each line begins where the one before it ended, the next one will do so too,
\* and only lines that <hang> asks for have no words.
LinesLinked ==
    pc \in {"build", "printed"} =>
        /\ \A k \in 1 .. Len(out) :
              /\ out[k].first = IF k = 1 THEN 1 ELSE out[k - 1].next
              /\ out[k].first = out[k].next => k <= opt.hang /\ out[k].first > Len(words)
        /\ w1 = IF out = <<>> THEN 1 ELSE out[Len(out)].next
        /\ w1 \in 1 .. Len(words) + 1
        /\ pc = "printed" => w1 = Len(words) + 1

Inv ==
    TypeOK /\ WordsCut /\ Fresh /\ BreaksKept /\ LinesLinked /\ OnlyGrownWordFails /\ TextFitsRoom

-----------------------------------------------------------------------------
\* The options leave room for text on a line.
LEMMA WidthOfText ==
    opt \in Options => L \in Nat \ {0} /\ opt.hang \in Nat /\ opt.suffix \in Nat
                       /\ opt.last \in BOOLEAN /\ opt.min \in BOOLEAN
<1> SUFFICES ASSUME opt \in Options
             PROVE  L \in Nat \ {0} /\ opt.hang \in Nat /\ opt.suffix \in Nat
                    /\ opt.last \in BOOLEAN /\ opt.min \in BOOLEAN
  OBVIOUS
<1>1. /\ opt.width \in Widths /\ opt.prefix \in PrefixLens /\ opt.suffix \in SuffixLens
      /\ opt.hang \in Hangs /\ opt.last \in BOOLEAN /\ opt.min \in BOOLEAN
  BY DEF Options
<1>2. opt.width \in Nat /\ opt.prefix \in Nat /\ opt.suffix \in Nat /\ opt.hang \in Nat
  BY <1>1, OptionAssumption
<1>3. opt.width > opt.prefix + opt.suffix
  BY <1>1, WidthAssumption
<1> QED BY <1>1, <1>2, <1>3 DEF L

\* The table of the words while breaks are chosen and lines built.
LEMMA TableOfWords ==
    ASSUME TypeOK
    PROVE  /\ IsTable(LineLens(words))
           /\ Len(LineLens(words)) = Len(words)
           /\ \A i \in 1 .. Len(words) : LineLens(words)[i][i] = words[i]
           /\ words = <<>> <=> Len(words) = 0
<1>1. words \in Seq(Nat \ {0})
  BY DEF TypeOK
<1> QED BY <1>1, LineLensIsTable, EmptySeq

LEMMA InitInv == Init => Inv
<1> SUFFICES ASSUME Init PROVE Inv
  OBVIOUS
<1>1. TypeOK
  <2>1. <<>> \in Seq(Nat \ {0}) /\ <<>> \in Seq(Lines)
    OBVIOUS
  <2> QED BY <2>1 DEF Init, TypeOK
<1>2. WordsCut /\ Fresh /\ BreaksKept /\ LinesLinked /\ OnlyGrownWordFails /\ TextFitsRoom
  BY DEF Init, WordsCut, Fresh, BreaksKept, LinesLinked, OnlyGrownWordFails, TextFitsRoom
<1> QED BY <1>1, <1>2 DEF Inv

\* A line that is built: where it ends and whether its text fits it.
LEMMA LineBuilt ==
    ASSUME TypeOK, BreaksKept, pc = "build"
    PROVE  /\ HasWord => /\ NextLine \in w1 + 1 .. Len(words) + 1
                         /\ NextLine = Len(words) + 1 \/ NextLine \in Begun(breaks.lines)
           /\ ~HasWord => NextLine = w1
           /\ Line \in Lines /\ Line.first = w1 /\ Line.next = NextLine
           /\ Line.text <= Line.room /\ Line.room <= L
           /\ opt.suffix = 0 => Line.text = Line.room
<1> DEFINE len == LineLens(words)
           n == Len(words)
<1>1. /\ L \in Nat \ {0} /\ opt.suffix \in Nat /\ opt.last \in BOOLEAN /\ opt.min \in BOOLEAN
      /\ words \in Seq(Nat \ {0}) /\ w1 \in Nat
  BY WidthOfText DEF TypeOK
<1>2. n \in Nat /\ DOMAIN words = 1 .. n
  BY <1>1
<1>3. IsTable(len) /\ Len(len) = n /\ (words = <<>> <=> n = 0)
  BY TableOfWords
<1>4. /\ breaks = choosebreaks(len, L, opt.last, opt.min)
      /\ ~breaks.impossible
      /\ w1 = n + 1 \/ (words # <<>> /\ w1 \in Begun(breaks.lines))
  BY DEF BreaksKept
<1>5. Line.first = w1 /\ Line.next = NextLine /\ Line.room = Room
      /\ Line.text = IF HasWord THEN len[w1][NextLine - 1] ELSE 0
  BY DEF Line
<1>6. Line = [first |-> w1, next |-> NextLine, room |-> Room, text |-> Line.text]
  BY DEF Line
<1>7. CASE HasWord
  <2>1. w1 \in 1 .. n
    BY <1>2, <1>7 DEF HasWord
  <2>2. n # 0 /\ w1 \in Begun(breaks.lines)
    BY <1>2, <1>4, <2>1
  <2> DEFINE next == breaks.lines[w1].nextline
             linelen == breaks.lines[w1].linelen
  <2> HIDE DEF len
  <2>3. /\ next \in w1 + 1 .. n + 1
        /\ next \in Begun(breaks.lines) \/ next = n + 1
        /\ linelen = len[w1][next - 1]
        /\ linelen \in 0 .. breaks.newL
    BY <1>1, <1>3, <1>4, <2>2, ChosenLine
  <2>4. breaks.newL \in 0 .. L
    BY <1>1, <1>3, <1>4, <2>2, ChosenBreaks
  <2>5. NextLine = next /\ Room = IF opt.suffix > 0 THEN breaks.newL ELSE linelen
    BY <1>7 DEF NextLine, Room
  <2> HIDE DEF next, linelen
  <2>6. Line.text = linelen
    BY <1>5, <1>7, <2>3, <2>5
  <2>7. Room \in 0 .. L /\ linelen \in 0 .. L /\ linelen <= Room
    BY <1>1, <2>3, <2>4, <2>5
  <2>8. opt.suffix = 0 => Room = linelen
    BY <2>5
  <2>9. Line \in Lines
    <3>1. NextLine \in Nat
      BY <1>1, <1>2, <2>3, <2>5
    <3> QED BY <1>1, <1>6, <2>6, <2>7, <3>1 DEF Lines
  <2> QED BY <1>1, <1>5, <1>7, <2>3, <2>5, <2>6, <2>7, <2>8, <2>9
<1>8. CASE ~HasWord
  <2>1. NextLine = w1 /\ Room = (IF opt.suffix > 0 THEN breaks.newL ELSE 0) /\ Line.text = 0
    BY <1>5, <1>8 DEF NextLine, Room
  <2>2. breaks.newL \in 0 .. L
    <3>1. CASE n # 0
      <4> HIDE DEF len
      <4> QED BY <1>1, <1>3, <1>4, <3>1, ChosenBreaks
    <3>2. CASE n = 0
      <4>1. len = <<>>
        BY <1>3, <3>2, EmptySeq DEF IsTable
      <4> HIDE DEF len
      <4>2. breaks.newL = (IF ~opt.min THEN L ELSE 0) \/ breaks = [NoBreaks EXCEPT !.impossible = TRUE]
        BY <1>4, <4>1 DEF choosebreaks
      <4>3. breaks # [NoBreaks EXCEPT !.impossible = TRUE]
        BY <1>4, Zenon DEF NoBreaks
      <4> QED BY <1>1, <4>2, <4>3
    <3> QED BY <3>1, <3>2
  <2>3. Room \in 0 .. L /\ (opt.suffix = 0 => Room = 0)
    BY <1>1, <2>1, <2>2
  <2>4. Line \in Lines
    BY <1>1, <1>6, <2>1, <2>3 DEF Lines
  <2> QED BY <1>1, <1>5, <1>8, <2>1, <2>3, <2>4
<1> QED BY <1>7, <1>8

-----------------------------------------------------------------------------
(* Every step keeps the invariant. *)

\* Reading moves neither the breaks nor the lines.
LEMMA ReadKeepsRest ==
    ASSUME Inv, UNCHANGED <<opt, breaks, w1, out>>, pc = "read", pc' \in {"read", "break"},
           error' = error
    PROVE  Fresh' /\ BreaksKept' /\ LinesLinked' /\ OnlyGrownWordFails' /\ TextFitsRoom'
<1>1. error = "none" /\ out = <<>> /\ w1 = 1
  BY DEF Inv, Fresh
<1>2. Fresh' /\ BreaksKept' /\ LinesLinked' /\ OnlyGrownWordFails'
  BY <1>1 DEF Fresh, BreaksKept, LinesLinked, OnlyGrownWordFails
<1>3. TextFitsRoom'
  <2>1. L' = L /\ opt' = opt /\ out' = out
    BY DEF L
  <2> QED BY <2>1 DEF Inv, TextFitsRoom
<1> QED BY <1>2, <1>3

\* Neither does giving up.
LEMMA FailKeepsRest ==
    ASSUME Inv, UNCHANGED <<input, w1, out>>, pc' \in {"cleanup", "reported", "crashed"},
           error' = "impossible" => error = "impossible"
    PROVE  WordsCut' /\ Fresh' /\ BreaksKept' /\ LinesLinked' /\ OnlyGrownWordFails' /\ TextFitsRoom'
<1>1. opt' = opt /\ words' = words /\ indent' = indent /\ out' = out /\ L' = L
  BY DEF input, L
<1>2. WordsCut' /\ Fresh' /\ BreaksKept' /\ LinesLinked'
  BY <1>1 DEF Inv, WordsCut, Fresh, BreaksKept, LinesLinked
<1>3. OnlyGrownWordFails' /\ TextFitsRoom'
  BY <1>1 DEF Inv, OnlyGrownWordFails, TextFitsRoom
<1> QED BY <1>2, <1>3

LEMMA InvStep == Inv /\ [Next]_vars => Inv'
<1> SUFFICES ASSUME Inv, [Next]_vars PROVE Inv'
  OBVIOUS
<1> USE DEF Inv
<1>1. /\ L \in Nat \ {0} /\ opt.hang \in Nat /\ opt.suffix \in Nat
      /\ opt.last \in BOOLEAN /\ opt.min \in BOOLEAN
      /\ words \in Seq(Nat \ {0}) /\ Len(words) \in Nat /\ DOMAIN words = 1 .. Len(words)
  BY WidthOfText DEF TypeOK
<1>2. CASE UNCHANGED vars
  <2>1. L' = L /\ affix' = affix
    BY <1>2 DEF vars, L, affix
  <2> QED BY <1>2, <2>1 DEF vars, TypeOK, WordsCut, Fresh, BreaksKept, LinesLinked,
                            OnlyGrownWordFails, TextFitsRoom
<1>3. CASE InputLine
  <2>1. /\ pc = "read" /\ numin' = numin + 1
        /\ UNCHANGED <<opt, pc, error, rest, indent, words, breaks, w1, out>> /\ L' = L
    BY <1>3 DEF InputLine, L
  <2>2. TypeOK'
    BY <2>1 DEF TypeOK
  <2>3. WordsCut'
    BY <2>1 DEF WordsCut
  <2> QED BY <2>1, <2>2, <2>3, ReadKeepsRest
<1>4. CASE ShortLine
  <2>1. pc' = "cleanup" /\ error' = "short" /\ UNCHANGED <<input, breaks, w1, out>>
    BY <1>4 DEF ShortLine, Fail
  <2>2. TypeOK'
    BY <2>1 DEF TypeOK, input
  <2> QED BY <2>1, <2>2, FailKeepsRest
<1>5. CASE CutWord
  <2>1. /\ pc = "read" /\ rest > 0
        /\ words' = Append(words, Lesser(rest, L)) /\ rest' = rest - Lesser(rest, L)
        /\ UNCHANGED <<opt, pc, error, numin, indent, breaks, w1, out>> /\ L' = L
    BY <1>5 DEF CutWord, L
  <2> DEFINE piece == Lesser(rest, L)
  <2>2. piece \in 1 .. L /\ rest - piece \in Nat /\ indent \in Nat
    BY <1>1, <2>1 DEF Lesser, TypeOK
  <2> HIDE DEF piece
  <2>3. /\ words' \in Seq(Nat \ {0}) /\ Len(words') = Len(words) + 1
        /\ \A i \in 1 .. Len(words) : words'[i] = words[i]
        /\ words'[Len(words) + 1] = piece
    BY <1>1, <2>1, <2>2 DEF piece
  <2>4. TypeOK'
    BY <2>1, <2>2, <2>3 DEF TypeOK, piece
  <2>5. WordsCut'
    <3>1. \A i \in 1 .. Len(words) : words[i] <= L
      <4>1. words # <<>> => words[1] <= L
        BY <2>1 DEF WordsCut
      <4>2. Len(words) # 0 => words # <<>>
        BY <1>1
      <4> QED BY <1>1, <4>1, <4>2 DEF WordsCut
    <3>2. ASSUME NEW i \in 1 .. Len(words') PROVE words'[i] <= L /\ words'[i] \in Nat
      <4>1. CASE i \in 1 .. Len(words)
        <5>1. words'[i] = words[i] /\ words[i] <= L /\ words[i] \in Nat
          BY <1>1, <2>3, <3>1, <4>1
        <5> QED BY <5>1
      <4>2. CASE i \notin 1 .. Len(words)
        <5>1. i = Len(words) + 1
          BY <1>1, <2>3, <4>2
        <5>2. words'[i] = piece
          BY <2>3, <5>1
        <5> QED BY <1>1, <2>2, <5>2
      <4> QED BY <4>1, <4>2
    <3>3. 1 \in 1 .. Len(words')
      BY <1>1, <2>3
    <3>4. words'[1] <= L /\ words'[1] - indent <= L
      BY <1>1, <2>2, <3>2, <3>3
    <3> QED BY <2>1, <3>2, <3>4 DEF WordsCut
  <2> QED BY <2>1, <2>4, <2>5, ReadKeepsRest
<1>6. CASE Expand
  <2>1. /\ pc = "read" /\ pc' = "break"
        /\ words' = IF words = <<>> THEN words ELSE [words EXCEPT ![1] = @ + indent]
        /\ UNCHANGED <<opt, error, numin, rest, indent, breaks, w1, out>> /\ L' = L
    BY <1>6 DEF Expand, Goto, L
  <2>2. indent \in Nat /\ (words # <<>> => 1 \in 1 .. Len(words))
    BY <1>1 DEF TypeOK
  <2>3. words # <<>> => /\ words' \in Seq(Nat \ {0}) /\ Len(words') = Len(words)
                        /\ words'[1] = words[1] + indent
                        /\ \A i \in 2 .. Len(words) : words'[i] = words[i]
    BY <1>1, <2>1, <2>2
  <2>4. TypeOK'
    BY <2>1, <2>3 DEF TypeOK
  <2>5. WordsCut'
    <3>1. CASE words = <<>>
      BY <1>1, <2>1, <3>1 DEF WordsCut
    <3>2. CASE words # <<>>
      <4>1. words[1] \in Nat /\ words[1] <= L
        BY <1>1, <2>1, <2>2, <3>2 DEF WordsCut
      <4>2. words'[1] - indent <= L
        BY <1>1, <2>2, <2>3, <3>2, <4>1
      <4> QED BY <2>1, <2>3, <3>2, <4>2 DEF WordsCut
    <3> QED BY <3>1, <3>2
  <2> QED BY <2>1, <2>4, <2>5, ReadKeepsRest
<1>7. ASSUME NEW length \in WordLengths, NEW spaces \in Indents, InputWord(length, spaces)
      PROVE  Inv'
  <2>1. /\ pc = "read" /\ rest' = length
        /\ indent' = IF numin = 1 /\ words = <<>> THEN spaces ELSE indent
        /\ UNCHANGED <<opt, pc, error, numin, words, breaks, w1, out>> /\ L' = L
    BY <1>7 DEF InputWord, L
  <2>2. length \in Nat /\ spaces \in Nat
    BY OptionAssumption
  <2>3. TypeOK'
    BY <2>1, <2>2 DEF TypeOK
  <2>4. WordsCut'
    BY <2>1 DEF WordsCut
  <2> QED BY <2>1, <2>3, <2>4, ReadKeepsRest
<1>8. CASE ChooseBreaks
  <2> DEFINE len == LineLens(words)
             b == choosebreaks(len, L, opt.last, opt.min)
  <2>1. /\ pc = "break" /\ breaks' = b
        /\ IF b.impossible THEN pc' = "cleanup" /\ error' = "impossible"
                           ELSE pc' = "build" /\ error' = error
        /\ UNCHANGED <<input, w1, out>>
    BY <1>8 DEF ChooseBreaks, Fail, Goto
  <2>2. opt' = opt /\ words' = words /\ indent' = indent /\ out' = out /\ w1' = w1 /\ L' = L
        /\ numin' = numin /\ rest' = rest
    BY <2>1 DEF input, L
  <2>3. out = <<>> /\ w1 = 1 /\ error = "none"
    BY <2>1 DEF Fresh
  <2>4. IsTable(len) /\ Len(len) = Len(words) /\ (words = <<>> <=> Len(words) = 0)
        /\ \A i \in 1 .. Len(words) : len[i][i] = words[i]
    BY TableOfWords
  <2> HIDE DEF b, len
  <2>5. TypeOK'
    BY <2>1, <2>2 DEF TypeOK
  <2>6. WordsCut' /\ TextFitsRoom'
    BY <2>1, <2>2 DEF WordsCut, TextFitsRoom
  <2>7. CASE b.impossible
    <3>1. pc' = "cleanup" /\ error' = "impossible"
      BY <2>1, <2>7
    <3>2. \E i \in 1 .. Len(words) : ~(words[i] <= L)
      <4>1. ~\A i \in 1 .. Len(len) : len[i][i] <= L
        BY <1>1, <2>4, <2>7, ShortWordsBreak DEF b
      <4> QED BY <2>4, <4>1
    <3>3. words # <<>> /\ ~(words[1] <= L) /\ words[1] \in Nat
      <4>1. PICK i \in 1 .. Len(words) : ~(words[i] <= L)
        BY <3>2
      <4>2. i = 1
        BY <1>1, <4>1 DEF WordsCut
      <4> QED BY <1>1, <2>4, <4>1, <4>2
    <3>4. words[1] > L /\ words[1] - indent <= L
      BY <1>1, <3>3 DEF WordsCut
    <3> QED BY <2>2, <2>5, <2>6, <3>1, <3>4 DEF Fresh, BreaksKept, LinesLinked, OnlyGrownWordFails
  <2>8. CASE ~b.impossible
    <3>1. pc' = "build" /\ error' = "none"
      BY <2>1, <2>3, <2>8
    <3>2. w1' = Len(words) + 1 \/ (words # <<>> /\ w1' \in Begun(b.lines))
      <4>1. CASE words = <<>>
        BY <2>2, <2>3, <2>4, <4>1
      <4>2. CASE words # <<>>
        <5> DEFINE s == LongestShortest(len, L, opt.last)[1]
        <5>1. Len(len) # 0
          BY <2>4, <4>2
        <5>2. /\ s \in 0 .. L /\ b.newL \in 0 .. L
              /\ b.lines = LeastSquares(len, opt.last, s, b.newL)
              /\ b.lines[1].score >= 0
          <6> DEFINE last == opt.last
                     min == opt.min
                     c == choosebreaks(len, L, last, min)
          <6>1. last \in BOOLEAN /\ min \in BOOLEAN /\ L \in Nat /\ IsTable(len) /\ ~c.impossible
            BY <1>1, <2>4, <2>8 DEF b
          <6> HIDE DEF last, min, b, len
          <6>2. LET q == LongestShortest(len, L, last)[1]
                IN  /\ q \in 0 .. L /\ c.newL \in 0 .. L
                    /\ c.lines = LeastSquares(len, last, q, c.newL)
                    /\ c.lines[1].score >= 0
            BY <5>1, <6>1, ChosenBreaks
          <6>3. b = c
            BY DEF b, last, min
          <6> HIDE DEF c
          <6> QED BY <6>2, <6>3 DEF last
        <5> HIDE DEF s
        <5>3. s \in Nat /\ b.newL \in Nat
          BY <1>1, <5>2
        <5>4. Begun(b.lines) \in WaysFrom(Len(len), 1)
          BY <1>1, <2>4, <5>1, <5>2, <5>3, FollowedLines
        <5> QED BY <2>2, <2>3, <4>2, <5>4 DEF WaysFrom
      <4> QED BY <4>1, <4>2
    <3>3. BreaksKept'
      BY <2>1, <2>2, <2>8, <3>2 DEF BreaksKept, b, len
    <3>4. LinesLinked'
      BY <1>1, <2>2, <2>3, <3>1 DEF LinesLinked
    <3> QED BY <2>5, <2>6, <3>1, <3>3, <3>4 DEF Fresh, OnlyGrownWordFails
  <2> QED BY <2>7, <2>8
<1>9. CASE MakeLine
  <2>1. /\ pc = "build" /\ (Len(out) < opt.hang \/ HasWord)
        /\ out' = Append(out, Line) /\ w1' = NextLine
        /\ UNCHANGED <<input, pc, error, breaks>>
    BY <1>9 DEF MakeLine
  <2>2. opt' = opt /\ words' = words /\ indent' = indent /\ L' = L /\ numin' = numin /\ rest' = rest
    BY <2>1 DEF input, L
  <2>3. /\ HasWord => /\ NextLine \in w1 + 1 .. Len(words) + 1
                      /\ NextLine = Len(words) + 1 \/ NextLine \in Begun(breaks.lines)
        /\ ~HasWord => NextLine = w1
        /\ Line \in Lines /\ Line.first = w1 /\ Line.next = NextLine
        /\ Line.text <= Line.room /\ Line.room <= L
        /\ opt.suffix = 0 => Line.text = Line.room
    BY <2>1, LineBuilt
  <2>4. out \in Seq(Lines) /\ Len(out) \in Nat /\ w1 \in 1 .. Len(words) + 1
    BY <2>1 DEF TypeOK, LinesLinked
  <2> DEFINE line == Line
  <2> HIDE DEF line
  <2>5. /\ out' \in Seq(Lines) /\ Len(out') = Len(out) + 1 /\ DOMAIN out' = 1 .. Len(out) + 1
        /\ \A k \in 1 .. Len(out) : out'[k] = out[k]
        /\ out'[Len(out) + 1] = line
        /\ out' # <<>>
    BY <2>1, <2>3, <2>4 DEF line
  <2>6. HasWord <=> w1 \in 1 .. Len(words)
    BY <1>1 DEF HasWord
  <2>7. NextLine \in 1 .. Len(words) + 1
    BY <1>1, <2>3, <2>4, <2>6
  <2>8. TypeOK'
    BY <1>1, <2>1, <2>2, <2>5, <2>7 DEF TypeOK
  <2>9. WordsCut' /\ Fresh' /\ OnlyGrownWordFails'
    BY <2>1, <2>2 DEF WordsCut, Fresh, OnlyGrownWordFails
  <2>10. BreaksKept'
    <3>1. NextLine = Len(words) + 1 \/ (words # <<>> /\ NextLine \in Begun(breaks.lines))
      BY <2>1, <2>3 DEF BreaksKept, HasWord
    <3> QED BY <2>1, <2>2, <3>1 DEF BreaksKept
  <2>11. LinesLinked'
    <3>1. ASSUME NEW k \in 1 .. Len(out')
          PROVE  /\ out'[k].first = IF k = 1 THEN 1 ELSE out'[k - 1].next
                 /\ out'[k].first = out'[k].next => k <= opt.hang /\ out'[k].first > Len(words)
      <4>1. CASE k \in 1 .. Len(out)
        <5>1. out'[k] = out[k] /\ (k # 1 => out'[k - 1] = out[k - 1])
          BY <2>4, <2>5, <4>1
        <5> QED BY <2>1, <4>1, <5>1 DEF LinesLinked
      <4>2. CASE k = Len(out) + 1
        <5>1. out'[k] = line /\ line.first = w1 /\ line.next = NextLine
          BY <2>3, <2>5, <4>2 DEF line
        <5>2. w1 = IF k = 1 THEN 1 ELSE out'[k - 1].next
          <6>1. w1 = IF out = <<>> THEN 1 ELSE out[Len(out)].next
            BY <2>1 DEF LinesLinked
          <6>2. out = <<>> <=> k = 1
            BY <2>4, <4>2
          <6>3. k # 1 => k - 1 = Len(out) /\ out'[k - 1] = out[Len(out)]
            BY <2>4, <2>5, <4>2
          <6> QED BY <6>1, <6>2, <6>3
        <5>3. w1 = NextLine => k <= opt.hang /\ w1 > Len(words)
          <6> SUFFICES ASSUME w1 = NextLine PROVE k <= opt.hang /\ w1 > Len(words)
            OBVIOUS
          <6>1. ~HasWord
            BY <1>1, <2>3, <2>4
          <6> QED BY <1>1, <2>1, <2>4, <2>6, <4>2, <6>1
        <5> QED BY <5>1, <5>2, <5>3
      <4> QED BY <2>4, <2>5, <4>1, <4>2
    <3>2. w1' = out'[Len(out')].next
      BY <2>1, <2>3, <2>5 DEF line
    <3> QED BY <2>1, <2>2, <2>5, <2>7, <3>1, <3>2 DEF LinesLinked
  <2>12. TextFitsRoom'
    <3> SUFFICES ASSUME NEW k \in DOMAIN out'
                 PROVE  /\ out'[k].text <= out'[k].room
                        /\ out'[k].room <= L
                        /\ opt.suffix = 0 => out'[k].text = out'[k].room
      BY <2>2 DEF TextFitsRoom
    <3>1. CASE k \in 1 .. Len(out)
      BY <2>4, <2>5, <3>1 DEF TextFitsRoom
    <3>2. CASE k = Len(out) + 1
      BY <2>3, <2>5, <3>2 DEF line
    <3> QED BY <2>4, <2>5, <3>1, <3>2
  <2> QED BY <2>8, <2>9, <2>10, <2>11, <2>12
<1>10. CASE PutLines
  <2>1. /\ pc = "build" /\ ~HasWord /\ pc' = "printed" /\ error' = error
        /\ UNCHANGED <<input, breaks, w1, out>>
    BY <1>10 DEF PutLines, Goto
  <2>2. opt' = opt /\ words' = words /\ indent' = indent /\ L' = L /\ numin' = numin /\ rest' = rest
    BY <2>1 DEF input, L
  <2>3. w1 = Len(words) + 1
    BY <1>1, <2>1 DEF LinesLinked, HasWord
  <2>4. TypeOK' /\ WordsCut' /\ Fresh' /\ BreaksKept'
    BY <2>1, <2>2 DEF TypeOK, WordsCut, Fresh, BreaksKept
  <2>5. LinesLinked'
    BY <2>1, <2>2, <2>3 DEF LinesLinked
  <2>6. OnlyGrownWordFails' /\ TextFitsRoom'
    BY <2>1, <2>2 DEF OnlyGrownWordFails, TextFitsRoom
  <2> QED BY <2>4, <2>5, <2>6
<1>11. CASE NextParagraph
  <2>1. /\ pc = "printed" /\ pc' = "read" /\ error' = error
        /\ numin' = 0 /\ indent' = 0 /\ words' = <<>>
        /\ breaks' = NoBreaks /\ w1' = 1 /\ out' = <<>>
        /\ UNCHANGED <<opt, rest>>
    BY <1>11 DEF NextParagraph, Goto
  <2>2. error = "none"
    BY <2>1 DEF Fresh
  <2>3. <<>> \in Seq(Nat \ {0}) /\ <<>> \in Seq(Lines)
    OBVIOUS
  <2>4. TypeOK'
    BY <2>1, <2>3 DEF TypeOK
  <2> QED BY <2>1, <2>2, <2>4 DEF WordsCut, Fresh, BreaksKept, LinesLinked, OnlyGrownWordFails, TextFitsRoom
<1>12. CASE NoMemory
  <2>1. pc' = "cleanup" /\ error' = "memory" /\ UNCHANGED <<input, breaks, w1, out>>
    BY <1>12 DEF NoMemory, Fail
  <2>2. TypeOK'
    BY <2>1 DEF TypeOK, input
  <2> QED BY <2>1, <2>2, FailKeepsRest
<1>13. CASE Report
  <2>1. pc' \in {"reported", "crashed"} /\ error' = error /\ UNCHANGED <<input, breaks, w1, out>>
    BY <1>13 DEF Report, Goto
  <2>2. TypeOK'
    BY <2>1 DEF TypeOK, input
  <2> QED BY <2>1, <2>2, FailKeepsRest
<1> QED BY <1>2, <1>3, <1>4, <1>5, <1>6, <1>7, <1>8, <1>9, <1>10, <1>11, <1>12, <1>13 DEF Next

\* The invariant that the theorems below rest on: reformat() keeps the words of a
\* paragraph, their breaks and its lines together as Inv says.
THEOREM Invariance == Spec => []Inv
<1> QED BY InitInv, InvStep, PTL DEF Spec

-----------------------------------------------------------------------------
(* What it shows. *)

\* reformat.c:37-40, par.doc:245-265: whatever the paragraph and the options,
\* what choosebreaks leaves in the words is one of the best ways to break them,
\* with the newL that belongs to it.
THEOREM BreaksAlwaysBest == Spec => []BreaksAreBest
<1>1. Inv => BreaksAreBest
  <2> SUFFICES ASSUME Inv, pc = "build", words # <<>>
               PROVE  LET len == LineLens(words)
                      IN  /\ breaks.newL = PolicyL(len, L, opt.last, opt.min)
                          /\ Begun(breaks.lines) \in Best(len, L, opt.last, breaks.newL)
    BY DEF BreaksAreBest
  <2> DEFINE len == LineLens(words)
  <2>1. L \in Nat /\ opt.last \in BOOLEAN /\ opt.min \in BOOLEAN
    BY WidthOfText DEF Inv, TypeOK
  <2>2. IsTable(len) /\ Len(len) # 0
    BY TableOfWords DEF Inv
  <2>3. breaks = choosebreaks(len, L, opt.last, opt.min) /\ ~breaks.impossible
    BY DEF Inv, BreaksKept
  <2> HIDE DEF len
  <2> QED BY <2>1, <2>2, <2>3, ChooseBreaksIsBest DEF len
<1> QED BY <1>1, Invariance, PTL

\* The "impossibilities" of choosebreaks, for every width and every word, happen
\* only when the first word grew beyond a line.
THEOREM OnlyGrownWordEverFails == Spec => []OnlyGrownWordFails
<1>1. Inv => OnlyGrownWordFails
  BY DEF Inv
<1> QED BY <1>1, Invariance, PTL

\* reformat.c:254-280: the text never overruns what was allocated for its line.
THEOREM TextAlwaysFits == Spec => []TextFitsRoom
<1>1. Inv => TextFitsRoom
  BY DEF Inv
<1> QED BY <1>1, Invariance, PTL

\* The printed lines hold every word once and in order, however many words and
\* lines there are.
THEOREM EveryWordIsPrinted == Spec => []EveryWordPrinted
<1>1. Inv => EveryWordPrinted
  <2> SUFFICES ASSUME Inv, pc = "printed" PROVE EveryWordPrinted
    BY DEF EveryWordPrinted
  <2>1. words \in Seq(Nat \ {0}) /\ out \in Seq(Lines)
    BY DEF Inv, TypeOK
  <2>2. DOMAIN out = 1 .. Len(out)
    BY <2>1
  <2>3. /\ \A k \in 1 .. Len(out) :
              /\ out[k].first = IF k = 1 THEN 1 ELSE out[k - 1].next
              /\ out[k].first = out[k].next => k <= opt.hang /\ out[k].first > Len(words)
        /\ w1 = IF out = <<>> THEN 1 ELSE out[Len(out)].next
        /\ w1 = Len(words) + 1
    BY DEF Inv, LinesLinked
  <2>4. out = <<>> => words = <<>>
    BY <2>1, <2>3
  <2> QED BY <2>2, <2>3, <2>4 DEF EveryWordPrinted
<1> QED BY <1>1, Invariance, PTL

-----------------------------------------------------------------------------
(* The buffer. *)

\* The properties of a chain and a position in it, apart from the variables.
TypedChain(chain) ==
    /\ chain \in Seq(Block)
    /\ \A b \in DOMAIN chain :
          Len(chain[b].items) = chain[b].maxhere /\ chain[b].numhere <= chain[b].maxhere

FilledChain(chain, at) ==
    /\ \A b \in 1 .. at - 1 : chain[b].numhere = chain[b].maxhere
    /\ \A b \in at + 1 .. Len(chain) : chain[b].numhere = 0
    /\ chain[1].numprevious = 0
    /\ \A b \in 1 .. Len(chain) - 1 :
          chain[b + 1].numprevious = chain[b].numprevious + chain[b].maxhere

\* Of any two blocks the later one starts after the earlier one ends.
Apart(chain) ==
    \A b, c \in DOMAIN chain :
        b < c => chain[b].numprevious + chain[b].maxhere <= chain[c].numprevious

\* numitems, Place and copyitems of ParBuffer for any chain, filled up to at.
Total(chain, at) == chain[at].numprevious + chain[at].numhere
PlaceIn(chain, b) ==
    chain[b].numprevious + 1 .. chain[b].numprevious + chain[b].numhere
CopyOf(chain, at) ==
    [k \in 1 .. Total(chain, at) |->
        IF \E b \in 1 .. at : k \in PlaceIn(chain, b)
        THEN LET b == CHOOSE b \in 1 .. at : k \in PlaceIn(chain, b)
             IN  chain[b].items[k - chain[b].numprevious]
        ELSE Unwritten]

\* Every item of the buffer is in some block.  Together with Apart: in one.
Covered(chain, at) ==
    \A k \in 1 .. Total(chain, at) : \E b \in 1 .. at : k \in PlaceIn(chain, b)

Sound(chain, at) ==
    /\ TypedChain(chain) /\ FilledChain(chain, at) /\ Apart(chain)
    /\ at \in DOMAIN chain
    /\ Covered(chain, at)

Pointer ==
    /\ nextblk \in DOMAIN blocks \cup {NULL}
    /\ nextindex \in Nat
    /\ nextblk # NULL => nextindex < blocks[nextblk].maxhere

BufInv == Sound(blocks, current) /\ Pointer

-----------------------------------------------------------------------------
(* Chains. *)

\* Storing an item changes one block, in one slot and its count.
LEMMA PutBlock ==
    ASSUME NEW chain, TypedChain(chain), NEW b \in DOMAIN chain, NEW item \in Items,
           chain[b].numhere < chain[b].maxhere
    PROVE  LET new == Put(chain, b, item)
           IN  /\ TypedChain(new) /\ Len(new) = Len(chain) /\ DOMAIN new = DOMAIN chain
               /\ \A c \in DOMAIN chain : c # b => new[c] = chain[c]
               /\ new[b].maxhere = chain[b].maxhere
               /\ new[b].numprevious = chain[b].numprevious
               /\ new[b].numhere = chain[b].numhere + 1
               /\ \A i \in 1 .. chain[b].numhere : new[b].items[i] = chain[b].items[i]
               /\ new[b].items[chain[b].numhere + 1] = item
<1> DEFINE old == chain[b]
           n == old.numhere
           mem == [old.items EXCEPT ![n + 1] = item]
           blk == Stored(old, item)
           new == Put(chain, b, item)
<1>1. old \in Block /\ Len(old.items) = old.maxhere
  BY DEF TypedChain
<1>2. mem \in Seq(Items \cup {Unwritten}) /\ Len(mem) = Len(old.items)
  <2>1. n + 1 \in 1 .. Len(old.items)
    BY <1>1 DEF Block
  <2> QED BY <1>1, <2>1 DEF Block
<1>3. /\ mem[n + 1] = item
      /\ \A i \in 1 .. n : mem[i] = old.items[i]
  BY <1>1 DEF Block
<1>4. /\ blk \in Block /\ blk.items = mem /\ blk.numhere = n + 1
      /\ blk.maxhere = old.maxhere /\ blk.numprevious = old.numprevious
  BY <1>1, <1>2 DEF Block, Stored
<1>5. new = [chain EXCEPT ![b] = blk]
  BY DEF Put
<1>6. new \in Seq(Block) /\ Len(new) = Len(chain) /\ DOMAIN new = DOMAIN chain
  BY <1>4, <1>5 DEF TypedChain
<1>7. new[b] = blk /\ \A c \in DOMAIN chain : c # b => new[c] = chain[c]
  BY <1>5
<1>8. TypedChain(new)
  <2>1. Len(new[b].items) = new[b].maxhere /\ new[b].numhere <= new[b].maxhere
    BY <1>1, <1>2, <1>4, <1>7 DEF Block
  <2> QED BY <1>6, <1>7, <2>1 DEF TypedChain
<1> HIDE DEF new, blk, mem
<1> QED BY <1>3, <1>4, <1>6, <1>7, <1>8 DEF new, n, old

\* The block that is added when the last one is full.
Longer(new, chain, m, p) ==
    /\ TypedChain(new) /\ Len(new) = Len(chain) + 1
    /\ \A c \in DOMAIN chain : new[c] = chain[c]
    /\ new[Len(chain) + 1].maxhere = m
    /\ new[Len(chain) + 1].numprevious = p
    /\ new[Len(chain) + 1].numhere = 0

LEMMA GrownChain ==
    ASSUME NEW chain, NEW m \in Nat, m # 0, NEW p \in Nat, TypedChain(chain)
    PROVE  Longer(Append(chain, NewBlock(m, p)), chain, m, p)
<1> DEFINE blk == NewBlock(m, p)
<1>1. /\ blk \in Block /\ Len(blk.items) = m
      /\ blk.maxhere = m /\ blk.numprevious = p /\ blk.numhere = 0
  <2>1. [i \in 1 .. m |-> Unwritten] \in Seq(Items \cup {Unwritten})
    OBVIOUS
  <2> QED BY <2>1 DEF NewBlock, Block
<1> HIDE DEF blk
<1> DEFINE new == Append(chain, blk)
<1>2. /\ new \in Seq(Block) /\ Len(new) = Len(chain) + 1
      /\ \A c \in DOMAIN chain : new[c] = chain[c]
      /\ new[Len(chain) + 1] = blk
  BY <1>1 DEF TypedChain
<1>3. TypedChain(new)
  <2>1. ASSUME NEW c \in DOMAIN new
        PROVE  Len(new[c].items) = new[c].maxhere /\ new[c].numhere <= new[c].maxhere
    <3>1. CASE c \in DOMAIN chain
      BY <1>2, <3>1 DEF TypedChain
    <3>2. CASE c = Len(chain) + 1
      BY <1>1, <1>2, <3>2
    <3> QED BY <1>2, <2>1, <3>1, <3>2 DEF TypedChain
  <2> QED BY <1>2, <2>1 DEF TypedChain
<1> HIDE DEF new
<1>4. Longer(new, chain, m, p)
  BY <1>1, <1>2, <1>3 DEF Longer
<1> QED BY <1>4 DEF new, blk

\* An item is read from the only block that has its place.
LEMMA CopyAt ==
    ASSUME NEW chain, NEW at, Sound(chain, at),
           NEW b \in 1 .. at, NEW k \in PlaceIn(chain, b)
    PROVE  /\ k \in 1 .. Total(chain, at)
           /\ CopyOf(chain, at)[k] = chain[b].items[k - chain[b].numprevious]
<1>1. at \in Nat /\ \A c \in 1 .. at : c \in DOMAIN chain
  BY DEF Sound, TypedChain
<1>2. ASSUME NEW c \in 1 .. at
      PROVE  /\ chain[c].numprevious \in Nat /\ chain[c].maxhere \in Nat
             /\ chain[c].numhere \in Nat /\ chain[c].numhere <= chain[c].maxhere
  <2>1. chain[c] \in Block
    BY <1>1, <1>2 DEF Sound, TypedChain
  <2> QED BY <1>1, <1>2, <2>1 DEF Sound, TypedChain, Block
<1>3. k \in Nat /\ k > chain[b].numprevious /\ k <= chain[b].numprevious + chain[b].numhere
  BY <1>2 DEF PlaceIn
<1>4. k \in 1 .. Total(chain, at)
  <2>1. CASE b = at
    BY <1>2, <1>3, <2>1 DEF Total
  <2>2. CASE b # at
    <3>1. chain[b].numprevious + chain[b].maxhere <= chain[at].numprevious
      BY <1>1, <2>2 DEF Sound, Apart
    <3>2. at \in 1 .. at
      BY <1>1
    <3> QED BY <1>2, <1>3, <3>1, <3>2 DEF Total
  <2> QED BY <2>1, <2>2
<1>5. ASSUME NEW c \in 1 .. at, k \in PlaceIn(chain, c)
      PROVE  c = b
  <2>1. k > chain[c].numprevious /\ k <= chain[c].numprevious + chain[c].numhere
    BY <1>2, <1>5 DEF PlaceIn
  <2>2. CASE c < b
    <3>1. chain[c].numprevious + chain[c].maxhere <= chain[b].numprevious
      BY <1>1, <1>5, <2>2 DEF Sound, Apart
    <3> QED BY <1>2, <1>3, <1>5, <2>1, <3>1
  <2>3. CASE b < c
    <3>1. chain[b].numprevious + chain[b].maxhere <= chain[c].numprevious
      BY <1>1, <1>5, <2>3 DEF Sound, Apart
    <3> QED BY <1>2, <1>3, <1>5, <2>1, <3>1
  <2> QED BY <1>1, <1>5, <2>2, <2>3
<1>6. (CHOOSE c \in 1 .. at : k \in PlaceIn(chain, c)) = b
  BY <1>5
<1> QED BY <1>4, <1>6 DEF CopyOf

\* It is a sequence of items, as long as numitems says.
LEMMA CopyType ==
    ASSUME NEW chain, NEW at, Sound(chain, at)
    PROVE  /\ Total(chain, at) \in Nat
           /\ CopyOf(chain, at) \in Seq(Items \cup {Unwritten})
           /\ Len(CopyOf(chain, at)) = Total(chain, at)
<1>1. Total(chain, at) \in Nat
  <2>1. chain[at] \in Block
    BY DEF Sound, TypedChain
  <2> QED BY <2>1 DEF Total, Block
<1>2. ASSUME NEW k \in 1 .. Total(chain, at)
      PROVE  CopyOf(chain, at)[k] \in Items \cup {Unwritten}
  <2>1. PICK b \in 1 .. at : k \in PlaceIn(chain, b)
    BY <1>2 DEF Sound, Covered
  <2>2. /\ chain[b] \in Block /\ Len(chain[b].items) = chain[b].maxhere
        /\ chain[b].numhere <= chain[b].maxhere
    BY DEF Sound, TypedChain
  <2>3. k - chain[b].numprevious \in 1 .. Len(chain[b].items)
    BY <2>1, <2>2 DEF PlaceIn, Block
  <2>4. chain[b].items[k - chain[b].numprevious] \in Items \cup {Unwritten}
    BY <2>2, <2>3 DEF Block
  <2> QED BY <2>1, <2>4, CopyAt
<1>3. CopyOf(chain, at) = [k \in 1 .. Total(chain, at) |-> CopyOf(chain, at)[k]]
  BY DEF CopyOf
<1> HIDE DEF CopyOf
<1> QED BY <1>1, <1>2, <1>3

\* So what is read is what the blocks hold, item by item.
Holds(chain, at, seq) ==
    \A b \in 1 .. at : \A k \in PlaceIn(chain, b) :
        seq[k] = chain[b].items[k - chain[b].numprevious]

LEMMA CopyIs ==
    ASSUME NEW chain, NEW at, Sound(chain, at),
           NEW seq \in Seq(Items \cup {Unwritten}), Len(seq) = Total(chain, at),
           Holds(chain, at, seq)
    PROVE  CopyOf(chain, at) = seq
<1>1. ASSUME NEW k \in 1 .. Total(chain, at)
      PROVE  CopyOf(chain, at)[k] = seq[k]
  <2>1. PICK b \in 1 .. at : k \in PlaceIn(chain, b)
    BY <1>1 DEF Sound, Covered
  <2> QED BY <2>1, CopyAt DEF Holds
<1>2. /\ CopyOf(chain, at) \in Seq(Items \cup {Unwritten})
      /\ Len(CopyOf(chain, at)) = Total(chain, at)
  BY CopyType
<1> HIDE DEF CopyOf
<1> QED BY <1>1, <1>2, SeqEqual

\* Storing an item in a chain that has room for it appends it to what is read.
LEMMA StoreSound ==
    ASSUME NEW chain, NEW at, Sound(chain, at), NEW item \in Items,
           chain[at].numhere < chain[at].maxhere,
           NEW new, new = Put(chain, at, item)
    PROVE  /\ Sound(new, at) /\ Len(new) = Len(chain)
           /\ \A b \in DOMAIN chain : /\ new[b].numprevious = chain[b].numprevious
                                     /\ new[b].maxhere = chain[b].maxhere
           /\ CopyOf(new, at) = Append(CopyOf(chain, at), item)
<1>1. /\ TypedChain(new) /\ Len(new) = Len(chain) /\ DOMAIN new = DOMAIN chain
      /\ \A c \in DOMAIN chain : c # at => new[c] = chain[c]
      /\ new[at].maxhere = chain[at].maxhere
      /\ new[at].numprevious = chain[at].numprevious
      /\ new[at].numhere = chain[at].numhere + 1
      /\ \A i \in 1 .. chain[at].numhere : new[at].items[i] = chain[at].items[i]
      /\ new[at].items[chain[at].numhere + 1] = item
  BY PutBlock DEF Sound
<1>2. /\ at \in Nat \ {0} /\ Len(chain) \in Nat /\ DOMAIN chain = 1 .. Len(chain)
      /\ at <= Len(chain) /\ chain[at] \in Block
  BY DEF Sound, TypedChain
<1>3. /\ chain[at].numprevious \in Nat /\ chain[at].numhere \in Nat
      /\ chain[at].maxhere \in Nat
  BY <1>2 DEF Block
<1>4. \A b \in DOMAIN chain : /\ new[b].numprevious = chain[b].numprevious
                             /\ new[b].maxhere = chain[b].maxhere
  BY <1>1
<1>5. /\ new[at].numprevious = chain[at].numprevious
       /\ new[at].numhere = chain[at].numhere + 1
  BY <1>1
<1>6. FilledChain(new, at)
  <2>1. \A b \in 1 .. at - 1 : b \in DOMAIN chain /\ b # at
    BY <1>2
  <2>2. \A b \in at + 1 .. Len(chain) : b \in DOMAIN chain /\ b # at
    BY <1>2
  <2>3. 1 \in DOMAIN chain
    BY <1>2
  <2>4. \A b \in 1 .. Len(chain) - 1 : b \in DOMAIN chain /\ b + 1 \in DOMAIN chain
    BY <1>2
  <2>5. FilledChain(chain, at) /\ Len(new) = Len(chain)
    BY <1>1 DEF Sound
  <2>6. \A b \in 1 .. at - 1 : new[b].numhere = new[b].maxhere
    BY <1>1, <2>1, <2>5 DEF FilledChain
  <2>7. \A b \in at + 1 .. Len(new) : new[b].numhere = 0
    BY <1>1, <2>2, <2>5 DEF FilledChain
  <2>8. new[1].numprevious = 0
    BY <1>4, <2>3, <2>5 DEF FilledChain
  <2>9. \A b \in 1 .. Len(new) - 1 :
            new[b + 1].numprevious = new[b].numprevious + new[b].maxhere
    BY <1>4, <2>4, <2>5 DEF FilledChain
  <2> QED BY <2>6, <2>7, <2>8, <2>9 DEF FilledChain
<1>7. Apart(new)
  BY <1>1, <1>4 DEF Apart, Sound
<1>8. Total(new, at) = Total(chain, at) + 1 /\ Total(chain, at) \in Nat
  BY <1>3, <1>5 DEF Total
<1>9. ASSUME NEW b \in 1 .. at, b # at
      PROVE  b \in DOMAIN chain /\ PlaceIn(new, b) = PlaceIn(chain, b) /\ new[b] = chain[b]
  BY <1>1, <1>2, <1>9 DEF PlaceIn
<1>10. PlaceIn(new, at) = PlaceIn(chain, at) \cup {Total(chain, at) + 1}
  <2>1. \A p, h \in Nat : p + 1 .. p + (h + 1) = (p + 1 .. p + h) \cup {p + h + 1}
    OBVIOUS
  <2> QED BY <1>3, <1>5, <2>1 DEF PlaceIn, Total
<1>11. at \in 1 .. at
  BY <1>2
<1>12. Covered(new, at)
  <2>1. ASSUME NEW k \in 1 .. Total(new, at)
        PROVE  \E b \in 1 .. at : k \in PlaceIn(new, b)
    <3>1. CASE k = Total(chain, at) + 1
      BY <1>10, <1>11, <3>1
    <3>2. CASE k # Total(chain, at) + 1
      <4>1. k \in 1 .. Total(chain, at)
        BY <1>8, <2>1, <3>2
      <4>2. PICK b \in 1 .. at : k \in PlaceIn(chain, b)
        BY <4>1 DEF Sound, Covered
      <4> QED BY <1>9, <1>10, <4>2
    <3> QED BY <3>1, <3>2
  <2> QED BY <2>1 DEF Covered
<1>13. Sound(new, at)
  BY <1>1, <1>6, <1>7, <1>12 DEF Sound
<1>14. CopyOf(new, at) = Append(CopyOf(chain, at), item)
  <2> DEFINE old == CopyOf(chain, at)
             seq == Append(old, item)
  <2>1. /\ old \in Seq(Items \cup {Unwritten}) /\ Len(old) = Total(chain, at)
        /\ item \in Items \cup {Unwritten}
    BY CopyType
  <2> HIDE DEF old
  <2>2. /\ seq \in Seq(Items \cup {Unwritten})
        /\ Len(seq) = Len(old) + 1
        /\ \A k \in 1 .. Len(old) : seq[k] = old[k]
        /\ seq[Len(old) + 1] = item
    BY <2>1, AppendProperties
  <2> HIDE DEF seq
  <2>3. ASSUME NEW b \in 1 .. at, NEW k \in PlaceIn(chain, b)
        PROVE  seq[k] = new[b].items[k - new[b].numprevious]
    <3>1. /\ k \in 1 .. Total(chain, at)
          /\ old[k] = chain[b].items[k - chain[b].numprevious]
      BY CopyAt DEF old
    <3>2. CASE b # at
      BY <1>9, <2>1, <2>2, <3>1, <3>2
    <3>3. CASE b = at
      <4>1. k - chain[at].numprevious \in 1 .. chain[at].numhere
        BY <1>3, <2>3, <3>3 DEF PlaceIn
      <4> QED BY <1>1, <2>1, <2>2, <3>1, <3>3, <4>1
    <3> QED BY <3>2, <3>3
  <2>4. ASSUME NEW k, k = Total(chain, at) + 1
        PROVE  seq[k] = new[at].items[k - new[at].numprevious]
    <3>1. k - new[at].numprevious = chain[at].numhere + 1
      BY <1>1, <1>3, <2>4 DEF Total
    <3>2. new[at].items[k - new[at].numprevious] = item
      BY <1>1, <3>1
    <3>3. seq[k] = item
      BY <2>1, <2>2, <2>4
    <3> QED BY <3>2, <3>3
  <2>5. Holds(new, at, seq)
    <3>1. ASSUME NEW b \in 1 .. at, NEW k \in PlaceIn(new, b)
          PROVE  seq[k] = new[b].items[k - new[b].numprevious]
      <4>1. CASE k \in PlaceIn(chain, b)
        BY <2>3, <3>1, <4>1
      <4>2. CASE k \notin PlaceIn(chain, b)
        <5>1. b = at /\ k = Total(chain, at) + 1
          BY <1>9, <1>10, <3>1, <4>2
        <5> QED BY <2>4, <5>1
      <4> QED BY <4>1, <4>2
    <3> QED BY <3>1 DEF Holds
  <2>6. Len(seq) = Total(new, at)
    BY <1>8, <2>1, <2>2
  <2> QED BY <1>13, <2>2, <2>5, <2>6, CopyIs DEF seq, old
<1> QED BY <1>1, <1>4, <1>13, <1>14

\* Going on to the next block, which is empty, changes nothing that is read.
LEMMA NextBlockSound ==
    ASSUME NEW chain, NEW at, Sound(chain, at), chain[at].numhere = chain[at].maxhere,
           NEW new, TypedChain(new), Apart(new), FilledChain(new, at + 1),
           at + 1 \in DOMAIN new,
           \A b \in 1 .. at : new[b] = chain[b],
           new[at + 1].numhere = 0,
           new[at + 1].numprevious = chain[at].numprevious + chain[at].maxhere
    PROVE  Sound(new, at + 1) /\ CopyOf(new, at + 1) = CopyOf(chain, at)
<1>1. /\ at \in Nat \ {0} /\ chain[at] \in Block
      /\ 1 .. at + 1 = 1 .. at \cup {at + 1}
  BY DEF Sound, TypedChain
<1>2. /\ Total(new, at + 1) = Total(chain, at) /\ Total(chain, at) \in Nat
      /\ PlaceIn(new, at + 1) = {}
      /\ \A b \in 1 .. at : PlaceIn(new, b) = PlaceIn(chain, b)
  BY <1>1 DEF Total, PlaceIn, Block
<1>3. Sound(new, at + 1)
  BY <1>1, <1>2 DEF Sound, Covered
<1>4. ASSUME NEW b \in 1 .. at + 1, NEW k \in PlaceIn(new, b)
      PROVE  CopyOf(chain, at)[k] = new[b].items[k - new[b].numprevious]
  <2>1. b \in 1 .. at /\ k \in PlaceIn(chain, b) /\ new[b] = chain[b]
    BY <1>1, <1>2, <1>4
  <2> QED BY <2>1, CopyAt
<1>5. Holds(new, at + 1, CopyOf(chain, at))
  BY <1>4 DEF Holds
<1>6. /\ CopyOf(chain, at) \in Seq(Items \cup {Unwritten})
      /\ Len(CopyOf(chain, at)) = Total(new, at + 1)
  BY <1>2, CopyType
<1> HIDE DEF CopyOf
<1> QED BY <1>3, <1>5, <1>6, CopyIs

LEMMA ReusedSound ==
    ASSUME NEW chain, NEW at, Sound(chain, at), chain[at].numhere = chain[at].maxhere,
           at < Len(chain)
    PROVE  /\ Sound(chain, at + 1) /\ CopyOf(chain, at + 1) = CopyOf(chain, at)
           /\ chain[at + 1].numhere < chain[at + 1].maxhere
<1>1. /\ at \in Nat \ {0} /\ Len(chain) \in Nat /\ DOMAIN chain = 1 .. Len(chain)
      /\ TypedChain(chain) /\ Apart(chain) /\ FilledChain(chain, at)
  BY DEF Sound, TypedChain
<1>2. at + 1 \in 1 .. Len(chain) /\ at \in 1 .. Len(chain) - 1 /\ at + 1 \in at + 1 .. Len(chain)
  BY <1>1
<1>3. /\ chain[at + 1].numhere = 0
      /\ chain[at + 1].numprevious = chain[at].numprevious + chain[at].maxhere
  BY <1>1, <1>2 DEF FilledChain
<1>4. chain[at + 1].maxhere \in Nat \ {0}
  <2>1. chain[at + 1] \in Block
    BY <1>1, <1>2 DEF TypedChain
  <2> QED BY <2>1 DEF Block
<1>5. FilledChain(chain, at + 1)
  <2>1. ASSUME NEW b \in 1 .. at + 1 - 1
        PROVE  chain[b].numhere = chain[b].maxhere
    <3>1. b = at \/ b \in 1 .. at - 1
      BY <1>1, <2>1
    <3> QED BY <1>1, <3>1 DEF FilledChain
  <2>2. ASSUME NEW b \in at + 1 + 1 .. Len(chain)
        PROVE  chain[b].numhere = 0
    <3>1. b \in at + 1 .. Len(chain)
      BY <1>1, <2>2
    <3> QED BY <1>1, <3>1 DEF FilledChain
  <2> QED BY <1>1, <2>1, <2>2 DEF FilledChain
<1> QED BY <1>1, <1>2, <1>3, <1>4, <1>5, NextBlockSound

\* The block added when the n-th is full and the last.
GrownBy(new, chain, n, m, p) ==
    /\ n = Len(chain) /\ chain[n].numhere = chain[n].maxhere
    /\ m = 2 * chain[n].maxhere /\ p = chain[n].numprevious + chain[n].numhere
    /\ new = Append(chain, NewBlock(m, p))

LEMMA GrownSound ==
    ASSUME NEW chain, NEW n, Sound(chain, n), NEW m, NEW p, NEW new,
           GrownBy(new, chain, n, m, p)
    PROVE  /\ Sound(new, n + 1) /\ CopyOf(new, n + 1) = CopyOf(chain, n)
           /\ new[n + 1].numhere < new[n + 1].maxhere
           /\ Len(new) = n + 1
           /\ \A b \in DOMAIN chain : new[b] = chain[b]
<1>1. /\ n \in Nat \ {0} /\ DOMAIN chain = 1 .. n /\ chain[n] \in Block
      /\ TypedChain(chain) /\ Apart(chain) /\ FilledChain(chain, n)
      /\ chain[n].numhere = chain[n].maxhere
  BY DEF Sound, TypedChain, GrownBy
<1>2. /\ m \in Nat \ {0} /\ p \in Nat
      /\ p = chain[n].numprevious + chain[n].maxhere
      /\ chain[n].numprevious \in Nat /\ chain[n].numprevious <= p
  BY <1>1 DEF Block, GrownBy
<1>3. /\ TypedChain(new) /\ Len(new) = n + 1
      /\ \A c \in DOMAIN chain : new[c] = chain[c]
      /\ new[n + 1].maxhere = m
      /\ new[n + 1].numprevious = p
      /\ new[n + 1].numhere = 0
  <2>1. m \in Nat /\ m # 0 /\ p \in Nat
    BY <1>2
  <2>2. Longer(new, chain, m, p)
    BY <1>1, <2>1, GrownChain DEF GrownBy
  <2> QED BY <2>2 DEF Longer, GrownBy
<1>4. DOMAIN new = 1 .. n + 1
  BY <1>3 DEF TypedChain
<1>5. FilledChain(new, n + 1)
  <2>1. \A b \in 1 .. n : new[b] = chain[b] /\ chain[b].numhere = chain[b].maxhere
    <3>1. \A b \in 1 .. n : b = n \/ b \in 1 .. n - 1
      BY <1>1
    <3> QED BY <1>1, <1>3, <3>1 DEF FilledChain
  <2>2. new[1].numprevious = 0
    BY <1>1, <2>1 DEF FilledChain
  <2>3. ASSUME NEW b \in 1 .. n
        PROVE  new[b + 1].numprevious = new[b].numprevious + new[b].maxhere
    <3>1. CASE b = n
      BY <1>2, <1>3, <2>1, <2>3, <3>1
    <3>2. CASE b # n
      <4>1. b \in 1 .. n - 1 /\ b + 1 \in 1 .. n
        BY <1>1, <2>3, <3>2
      <4> QED BY <1>1, <2>1, <4>1 DEF FilledChain
    <3> QED BY <3>1, <3>2
  <2> QED BY <1>1, <1>3, <2>1, <2>2, <2>3 DEF FilledChain
<1>6. ASSUME NEW b \in 1 .. n
      PROVE  chain[b].numprevious + chain[b].maxhere <= p
  <2>1. chain[b].numprevious + chain[b].maxhere \in Nat
    <3>1. chain[b] \in Block
      BY <1>1, <1>6 DEF TypedChain
    <3> QED BY <3>1 DEF Block
  <2>2. CASE b = n
    BY <1>2, <2>1, <2>2
  <2>3. CASE b < n
    <3>1. chain[b].numprevious + chain[b].maxhere <= chain[n].numprevious
      BY <1>1, <1>6, <2>3 DEF Apart
    <3> QED BY <1>2, <2>1, <3>1
  <2> QED BY <1>1, <1>6, <2>2, <2>3
<1>7. Apart(new)
  <2>1. ASSUME NEW b \in DOMAIN new, NEW c \in DOMAIN new, b < c
        PROVE  new[b].numprevious + new[b].maxhere <= new[c].numprevious
    <3>1. b \in 1 .. n
      BY <1>1, <1>4, <2>1
    <3>2. CASE c = n + 1
      BY <1>1, <1>3, <1>6, <3>1, <3>2
    <3>3. CASE c \in 1 .. n
      BY <1>1, <1>3, <2>1, <3>1, <3>3 DEF Apart
    <3> QED BY <1>1, <1>4, <2>1, <3>2, <3>3
  <2> QED BY <2>1 DEF Apart
<1>8. n + 1 \in DOMAIN new /\ \A b \in 1 .. n : new[b] = chain[b]
  BY <1>1, <1>3, <1>4
<1>9. Sound(new, n + 1) /\ CopyOf(new, n + 1) = CopyOf(chain, n)
  <2>1. /\ TypedChain(new) /\ new[n + 1].numhere = 0
        /\ new[n + 1].numprevious = chain[n].numprevious + chain[n].maxhere
    BY <1>2, <1>3
  <2> QED BY <1>1, <1>5, <1>7, <1>8, <2>1, NextBlockSound
<1> QED BY <1>2, <1>3, <1>9

\* An emptied chain.
Emptied(chain, new) == new = [b \in DOMAIN chain |-> [chain[b] EXCEPT !.numhere = 0]]

LEMMA ClearedSound ==
    ASSUME NEW chain, NEW at, Sound(chain, at), NEW new, Emptied(chain, new)
    PROVE  /\ Sound(new, 1) /\ CopyOf(new, 1) = <<>>
           /\ Len(new) = Len(chain)
           /\ \A b \in DOMAIN chain : /\ new[b].numprevious = chain[b].numprevious
                                     /\ new[b].maxhere = chain[b].maxhere
<1>1. /\ Len(chain) \in Nat /\ DOMAIN chain = 1 .. Len(chain) /\ 1 \in DOMAIN chain
      /\ TypedChain(chain) /\ Apart(chain) /\ FilledChain(chain, at)
  BY DEF Sound, TypedChain
<1>2. ASSUME NEW b \in DOMAIN chain
      PROVE  /\ new[b] \in Block /\ new[b].numhere = 0
             /\ new[b].numprevious = chain[b].numprevious
             /\ new[b].maxhere = chain[b].maxhere
             /\ new[b].items = chain[b].items
  <2>1. chain[b] \in Block /\ new[b] = [chain[b] EXCEPT !.numhere = 0]
    BY <1>1, <1>2 DEF TypedChain, Emptied
  <2> QED BY <2>1 DEF Block
<1>3. new \in Seq(Block) /\ Len(new) = Len(chain) /\ DOMAIN new = DOMAIN chain
  BY <1>1, <1>2 DEF Emptied
<1>4. TypedChain(new)
  <2>1. ASSUME NEW b \in DOMAIN chain
        PROVE  Len(new[b].items) = new[b].maxhere /\ new[b].numhere <= new[b].maxhere
    <3>1. new[b].maxhere \in Nat
      BY <1>2, <2>1 DEF Block
    <3> QED BY <1>1, <1>2, <2>1, <3>1 DEF TypedChain
  <2> QED BY <1>3, <2>1 DEF TypedChain
<1>5. Apart(new)
  BY <1>1, <1>2, <1>3 DEF Apart
<1>6. FilledChain(new, 1)
  <2>1. \A b \in 1 .. Len(chain) - 1 : b \in DOMAIN chain /\ b + 1 \in DOMAIN chain
    BY <1>1
  <2>2. \A b \in 1 .. Len(chain) - 1 :
            new[b + 1].numprevious = new[b].numprevious + new[b].maxhere
    BY <1>1, <1>2, <2>1 DEF FilledChain
  <2>3. new[1].numprevious = 0
    BY <1>1, <1>2 DEF FilledChain
  <2>4. \A b \in 2 .. Len(chain) : new[b].numhere = 0
    BY <1>1, <1>2
  <2>5. 1 .. 1 - 1 = {} /\ 1 + 1 = 2
    OBVIOUS
  <2> QED BY <1>3, <2>2, <2>3, <2>4, <2>5 DEF FilledChain
<1>7. Total(new, 1) = 0
  BY <1>1, <1>2, <1>6 DEF Total, FilledChain
<1>8. Sound(new, 1)
  <2>1. Covered(new, 1)
    BY <1>7 DEF Covered
  <2> QED BY <1>1, <1>3, <1>4, <1>5, <1>6, <2>1 DEF Sound
<1>9. CopyOf(new, 1) = <<>>
  BY <1>7, <1>8, CopyType
<1> QED BY <1>2, <1>3, <1>8, <1>9

\* Blocks stay where they are and as large as they are.
Kept(chain, new) ==
    /\ Len(chain) <= Len(new) /\ DOMAIN chain \subseteq DOMAIN new
    /\ \A b \in DOMAIN chain : /\ new[b].numprevious = chain[b].numprevious
                              /\ new[b].maxhere = chain[b].maxhere

\* The three ways of additem, apart from the variables.
Here(chain, at, item, new, at2) ==
    chain[at].numhere # chain[at].maxhere /\ new = Put(chain, at, item) /\ at2 = at
Reused(chain, at, item, new, at2) ==
    /\ chain[at].numhere = chain[at].maxhere /\ at < Len(chain)
    /\ new = Put(chain, at + 1, item) /\ at2 = at + 1
Grown(chain, at, item, new, at2) ==
    /\ chain[at].numhere = chain[at].maxhere /\ at = Len(chain)
    /\ new = Put(Append(chain, NewBlock(2 * chain[at].maxhere,
                                        chain[at].numprevious + chain[at].numhere)),
                 at + 1, item)
    /\ at2 = at + 1

\* Each appends the item to what is read.
LEMMA AddSound ==
    ASSUME NEW chain, NEW at, Sound(chain, at), NEW item \in Items, NEW new, NEW at2,
           \/ Here(chain, at, item, new, at2)
           \/ Reused(chain, at, item, new, at2)
           \/ Grown(chain, at, item, new, at2)
    PROVE  /\ Sound(new, at2) /\ Kept(chain, new)
           /\ CopyOf(new, at2) = Append(CopyOf(chain, at), item)
<1>1. /\ Len(chain) \in Nat /\ DOMAIN chain = 1 .. Len(chain) /\ at \in 1 .. Len(chain)
      /\ chain[at] \in Block /\ chain[at].numhere <= chain[at].maxhere
  BY DEF Sound, TypedChain
<1>2. \A c, i : Sound(c, i) => DOMAIN c = 1 .. Len(c) /\ Len(c) \in Nat
  BY DEF Sound, TypedChain
<1>3. CASE Here(chain, at, item, new, at2)
  <2>1. chain[at].numhere < chain[at].maxhere /\ new = Put(chain, at, item) /\ at2 = at
    BY <1>1, <1>3 DEF Here, Block
  <2>2. /\ Sound(new, at) /\ Len(new) = Len(chain)
        /\ \A b \in DOMAIN chain : /\ new[b].numprevious = chain[b].numprevious
                                  /\ new[b].maxhere = chain[b].maxhere
        /\ CopyOf(new, at) = Append(CopyOf(chain, at), item)
    BY <2>1, StoreSound
  <2>3. Kept(chain, new)
    BY <1>1, <1>2, <2>2 DEF Kept
  <2> QED BY <2>1, <2>2, <2>3
<1>4. CASE Reused(chain, at, item, new, at2)
  <2>1. /\ chain[at].numhere = chain[at].maxhere /\ at < Len(chain)
        /\ new = Put(chain, at + 1, item) /\ at2 = at + 1
    BY <1>4 DEF Reused
  <2>2. /\ Sound(chain, at + 1) /\ CopyOf(chain, at + 1) = CopyOf(chain, at)
        /\ chain[at + 1].numhere < chain[at + 1].maxhere
    BY <2>1, ReusedSound
  <2>3. /\ Sound(new, at + 1) /\ Len(new) = Len(chain)
        /\ \A b \in DOMAIN chain : /\ new[b].numprevious = chain[b].numprevious
                                  /\ new[b].maxhere = chain[b].maxhere
        /\ CopyOf(new, at + 1) = Append(CopyOf(chain, at + 1), item)
    BY <2>1, <2>2, StoreSound
  <2>4. Kept(chain, new)
    BY <1>1, <1>2, <2>3 DEF Kept
  <2> QED BY <2>1, <2>2, <2>3, <2>4
<1>5. CASE Grown(chain, at, item, new, at2)
  <2>1. PICK m, p, mid : /\ m = 2 * chain[at].maxhere
                         /\ p = chain[at].numprevious + chain[at].numhere
                         /\ mid = Append(chain, NewBlock(m, p))
    OBVIOUS
  <2>2. /\ chain[at].numhere = chain[at].maxhere /\ at = Len(chain)
        /\ new = Put(mid, at + 1, item) /\ at2 = at + 1 /\ GrownBy(mid, chain, at, m, p)
    BY <1>5, <2>1 DEF Grown, GrownBy
  <2>3. /\ Sound(mid, at + 1) /\ CopyOf(mid, at + 1) = CopyOf(chain, at)
        /\ mid[at + 1].numhere < mid[at + 1].maxhere
        /\ Len(mid) = at + 1
        /\ \A b \in DOMAIN chain : mid[b] = chain[b]
    BY <2>2, GrownSound
  <2>4. /\ Sound(new, at + 1) /\ Len(new) = Len(mid)
        /\ \A b \in DOMAIN mid : /\ new[b].numprevious = mid[b].numprevious
                                /\ new[b].maxhere = mid[b].maxhere
        /\ CopyOf(new, at + 1) = Append(CopyOf(mid, at + 1), item)
    BY <2>2, <2>3, StoreSound
  <2>5. DOMAIN mid = 1 .. at + 1 /\ DOMAIN new = 1 .. at + 1 /\ DOMAIN chain \subseteq 1 .. at + 1
    BY <1>1, <1>2, <2>2, <2>3, <2>4
  <2>6. Kept(chain, new)
    BY <1>1, <2>2, <2>3, <2>4, <2>5 DEF Kept
  <2> QED BY <2>2, <2>3, <2>4, <2>6
<1> QED BY <1>3, <1>4, <1>5

-----------------------------------------------------------------------------
(* The invariant. *)

LEMMA InitSound == BufInit => BufInv /\ CopyOf(blocks, current) = <<>>
<1> SUFFICES ASSUME BufInit PROVE BufInv /\ CopyOf(blocks, current) = <<>>
  OBVIOUS
<1>1. PICK chain : chain = blocks
  OBVIOUS
<1>2. chain = <<NewBlock(First, 0)>> /\ current = 1 /\ nextblk = 1 /\ nextindex = 0
  BY <1>1 DEF BufInit
<1>3. First \in Nat /\ First # 0
  BY FirstAssumption
<1>4. /\ chain[1].maxhere = First /\ chain[1].numprevious = 0 /\ chain[1].numhere = 0
      /\ Len(chain) = 1 /\ DOMAIN chain = {1} /\ TypedChain(chain)
  <2>1. TypedChain(<<>>)
    BY DEF TypedChain
  <2>2. Longer(Append(<<>>, NewBlock(First, 0)), <<>>, First, 0)
    BY <1>3, <2>1, GrownChain
  <2>3. chain = Append(<<>>, NewBlock(First, 0))
    BY <1>2
  <2> QED BY <2>2, <2>3 DEF Longer, TypedChain
<1>5. Total(chain, 1) = 0
  BY <1>4 DEF Total
<1>6. Sound(chain, 1)
  <2>1. FilledChain(chain, 1) /\ Apart(chain) /\ Covered(chain, 1)
    BY <1>4, <1>5 DEF FilledChain, Apart, Covered
  <2> QED BY <1>4, <2>1 DEF Sound
<1>7. CopyOf(chain, 1) = <<>>
  BY <1>5, <1>6, CopyType
<1>8. Pointer
  BY <1>1, <1>2, <1>3, <1>4 DEF Pointer, NULL
<1> QED BY <1>1, <1>2, <1>6, <1>7, <1>8 DEF BufInv

LEMMA AddStep ==
    ASSUME BufInv, NEW item \in Items, additem(item)
    PROVE  /\ Sound(blocks', current') /\ Kept(blocks, blocks')
           /\ CopyOf(blocks', current') = Append(CopyOf(blocks, current), item)
<1>1. PICK chain, at, new, at2 :
          chain = blocks /\ at = current /\ new = blocks' /\ at2 = current'
  OBVIOUS
<1>2. Sound(chain, at)
  BY <1>1 DEF BufInv
<1>3. \/ Here(chain, at, item, new, at2)
      \/ Reused(chain, at, item, new, at2)
      \/ Grown(chain, at, item, new, at2)
  BY <1>1 DEF additem, AddHere, AddReused, AddGrown, Full, Here, Reused, Grown
<1>4. /\ Sound(new, at2) /\ Kept(chain, new)
      /\ CopyOf(new, at2) = Append(CopyOf(chain, at), item)
  BY <1>2, <1>3, AddSound
<1> QED BY <1>1, <1>4

LEMMA ClearStep ==
    ASSUME BufInv, clearbuffer
    PROVE  /\ Sound(blocks', current') /\ Kept(blocks, blocks')
           /\ Len(blocks') = Len(blocks)
           /\ CopyOf(blocks', current') = <<>>
<1>1. PICK chain, at, new, at2 :
          chain = blocks /\ at = current /\ new = blocks' /\ at2 = current'
  OBVIOUS
<1>2. Sound(chain, at) /\ at2 = 1 /\ Emptied(chain, new)
  BY <1>1 DEF BufInv, clearbuffer, Emptied
<1>3. /\ Sound(new, 1) /\ CopyOf(new, 1) = <<>> /\ Len(new) = Len(chain)
      /\ \A b \in DOMAIN chain : /\ new[b].numprevious = chain[b].numprevious
                                /\ new[b].maxhere = chain[b].maxhere
  BY <1>2, ClearedSound
<1>4. DOMAIN new = DOMAIN chain /\ Len(chain) \in Nat
  BY <1>2, <1>3 DEF Sound, TypedChain
<1>5. Kept(chain, new)
  BY <1>3, <1>4 DEF Kept
<1> QED BY <1>1, <1>2, <1>3, <1>5

\* Writing moves no block, so that the pointer of nextitem stays within one.
LEMMA PointerKept ==
    ASSUME Pointer, Kept(blocks, blocks'), UNCHANGED <<nextblk, nextindex>>
    PROVE  Pointer'
BY DEF Pointer, Kept

LEMMA NextPointer ==
    ASSUME BufInv, nextitem
    PROVE  Pointer'
<1>1. /\ Len(blocks) \in Nat /\ DOMAIN blocks = 1 .. Len(blocks)
      /\ \A b \in DOMAIN blocks : blocks[b].maxhere \in Nat \ {0}
  <2>1. \A b \in DOMAIN blocks : blocks[b] \in Block
    BY DEF BufInv, Sound, TypedChain
  <2>2. Len(blocks) \in Nat /\ DOMAIN blocks = 1 .. Len(blocks)
    BY DEF BufInv, Sound, TypedChain
  <2> QED BY <2>1, <2>2 DEF Block
<1>2. blocks' = blocks
  BY DEF nextitem
<1>3. CASE HasItem
  <2>1. nextblk \in 1 .. Len(blocks) /\ nextindex \in Nat
    BY <1>1, <1>3 DEF BufInv, Pointer, HasItem, NULL
  <2>2. CASE nextindex + 1 >= blocks[nextblk].maxhere
    <3>1. nextblk' = Following(nextblk) /\ nextindex' = 0
      BY <1>3, <2>2 DEF nextitem, Advance
    <3>2. Following(nextblk) = NULL \/ Following(nextblk) \in 1 .. Len(blocks)
      BY <1>1, <2>1 DEF Following, NULL
    <3> QED BY <1>1, <1>2, <3>1, <3>2 DEF Pointer, NULL
  <2>3. CASE ~(nextindex + 1 >= blocks[nextblk].maxhere)
    <3>1. nextblk' = nextblk /\ nextindex' = nextindex + 1
      BY <1>3, <2>3 DEF nextitem, Advance
    <3> QED BY <1>1, <1>2, <2>1, <2>3, <3>1 DEF Pointer, NULL
  <2> QED BY <2>2, <2>3
<1>4. CASE ~HasItem
  BY <1>2, <1>4 DEF nextitem, BufInv, Pointer
<1> QED BY <1>3, <1>4

LEMMA BufInvInductive == BufInv /\ [BufNext]_buffer => BufInv'
<1> SUFFICES ASSUME BufInv, [BufNext]_buffer
             PROVE  BufInv'
  OBVIOUS
<1>1. ASSUME NEW item \in Items, additem(item)
      PROVE  BufInv'
  <2>1. Sound(blocks', current') /\ Kept(blocks, blocks')
    BY <1>1, AddStep
  <2>2. Pointer'
    BY <1>1, <2>1, PointerKept DEF additem, BufInv
  <2> QED BY <2>1, <2>2 DEF BufInv
<1>2. CASE clearbuffer
  <2>1. Sound(blocks', current') /\ Kept(blocks, blocks')
    BY <1>2, ClearStep
  <2>2. Pointer'
    BY <1>2, <2>1, PointerKept DEF clearbuffer, BufInv
  <2> QED BY <2>1, <2>2 DEF BufInv
<1>3. CASE rewindbuffer
  <2>1. blocks' = blocks /\ current' = current /\ nextblk' = 1 /\ nextindex' = 0
    BY <1>3 DEF rewindbuffer
  <2>2. 1 \in DOMAIN blocks /\ blocks[1] \in Block
    BY DEF BufInv, Sound, TypedChain
  <2>3. Pointer'
    BY <2>1, <2>2 DEF Pointer, Block
  <2> QED BY <2>1, <2>3 DEF BufInv
<1>4. CASE nextitem
  BY <1>4, NextPointer DEF nextitem, BufInv
<1>5. CASE AddFails \/ CopyItems \/ UNCHANGED buffer
  <2>1. UNCHANGED <<blocks, current, nextblk, nextindex>>
    BY <1>5 DEF AddFails, CopyItems, buffer
  <2> QED BY <2>1 DEF BufInv, Pointer
<1> QED BY <1>1, <1>2, <1>3, <1>4, <1>5 DEF BufNext

\* However buffer.c is used, its fields keep their types: the two pointers
\* point to blocks of the chain and no block holds more than it has room for.
THEOREM BufTypeCorrect == BufSpec => []BufTypeOK
<1>1. BufInit => BufInv
  BY InitSound
<1>2. BufInv => BufTypeOK
  BY DEF BufInv, Sound, TypedChain, Pointer, BufTypeOK
<1> QED BY <1>1, <1>2, BufInvInductive, PTL DEF BufSpec

\* buffer.c:33-45: the chain is filled from the front, and the blocks start
\* where those before them end, whatever was cleared and used again.
THEOREM FilledInOrderAlways == BufSpec => []FilledInOrder
<1>1. BufInit => BufInv
  BY InitSound
<1>2. BufInv => FilledInOrder
  BY DEF BufInv, Sound, FilledChain, FilledInOrder
<1> QED BY <1>1, <1>2, BufInvInductive, PTL DEF BufSpec

-----------------------------------------------------------------------------
(* The contract. *)

\* What the pointer of nextitem says of the slot it is at.
Capacity(chain) == chain[Len(chain)].numprevious + chain[Len(chain)].maxhere
SlotAgrees ==
    slot = IF nextblk = NULL THEN Capacity(blocks)
           ELSE blocks[nextblk].numprevious + nextindex

SlotInv == BufInv /\ SlotAgrees

\* A slot of a block holds an item just if the buffer reaches as far as it.
LEMMA SlotOfItem ==
    ASSUME NEW chain, NEW at, Sound(chain, at),
           NEW b \in DOMAIN chain, NEW i \in Nat, i < chain[b].maxhere
    PROVE  /\ i < chain[b].numhere <=> chain[b].numprevious + i < Total(chain, at)
           /\ i < chain[b].numhere =>
                 CopyOf(chain, at)[chain[b].numprevious + i + 1] = chain[b].items[i + 1]
<1>1. /\ Len(chain) \in Nat /\ DOMAIN chain = 1 .. Len(chain) /\ at \in 1 .. Len(chain)
      /\ FilledChain(chain, at) /\ Apart(chain)
      /\ \A c \in DOMAIN chain : chain[c] \in Block /\ chain[c].numhere <= chain[c].maxhere
  BY DEF Sound, TypedChain
<1>2. \A c \in DOMAIN chain :
          /\ chain[c].numprevious \in Nat /\ chain[c].numhere \in Nat
          /\ chain[c].maxhere \in Nat
  BY <1>1 DEF Block
<1> DEFINE k == chain[b].numprevious + i + 1
<1>3. ASSUME i < chain[b].numhere
      PROVE  /\ chain[b].numprevious + i < Total(chain, at)
             /\ CopyOf(chain, at)[k] = chain[b].items[i + 1]
  <2>1. b \in 1 .. at
    <3>1. b \notin at + 1 .. Len(chain)
      BY <1>1, <1>2, <1>3 DEF FilledChain
    <3> QED BY <1>1, <3>1
  <2>2. k \in PlaceIn(chain, b) /\ k - chain[b].numprevious = i + 1
    BY <1>2, <1>3 DEF PlaceIn
  <2>3. k \in 1 .. Total(chain, at) /\ CopyOf(chain, at)[k] = chain[b].items[i + 1]
    BY <2>1, <2>2, CopyAt
  <2>4. Total(chain, at) \in Nat
    BY CopyType
  <2> QED BY <1>2, <2>3, <2>4
<1>4. ASSUME chain[b].numprevious + i < Total(chain, at)
      PROVE  i < chain[b].numhere
  <2>1. k \in 1 .. Total(chain, at)
    BY <1>2, <1>4, CopyType
  <2>2. PICK c \in 1 .. at : k \in PlaceIn(chain, c)
    BY <2>1 DEF Sound, Covered
  <2>3. c \in DOMAIN chain
    BY <1>1
  <2>4. /\ chain[c].numprevious <= chain[b].numprevious + i
        /\ chain[b].numprevious + i < chain[c].numprevious + chain[c].numhere
    BY <1>2, <2>2, <2>3 DEF PlaceIn
  <2>5. ~(b < c)
    <3>1. b < c => chain[b].numprevious + chain[b].maxhere <= chain[c].numprevious
      BY <1>1, <2>3 DEF Apart
    <3> QED BY <1>2, <2>3, <2>4, <3>1
  <2>6. ~(c < b)
    <3>1. c < b => chain[c].numprevious + chain[c].maxhere <= chain[b].numprevious
      BY <1>1, <2>3 DEF Apart
    <3>2. chain[c].numhere <= chain[c].maxhere
      BY <1>1, <2>3
    <3>3. /\ chain[c].numprevious \in Nat /\ chain[c].numhere \in Nat /\ chain[c].maxhere \in Nat
          /\ chain[b].numprevious \in Nat
      BY <1>2, <2>3
    <3> QED BY <2>4, <3>1, <3>2, <3>3
  <2>7. c = b
    BY <1>1, <2>3, <2>5, <2>6
  <2> QED BY <1>2, <2>4, <2>7
<1> QED BY <1>3, <1>4

\* Beyond the last block there is none.
LEMMA NoSlotAtEnd ==
    ASSUME NEW chain, NEW at, Sound(chain, at)
    PROVE  Total(chain, at) <= Capacity(chain) /\ Capacity(chain) \in Nat
<1>1. /\ Len(chain) \in Nat /\ DOMAIN chain = 1 .. Len(chain) /\ at \in 1 .. Len(chain)
      /\ Len(chain) \in DOMAIN chain /\ Apart(chain)
      /\ \A c \in DOMAIN chain : chain[c] \in Block /\ chain[c].numhere <= chain[c].maxhere
  BY DEF Sound, TypedChain
<1>2. \A c \in DOMAIN chain :
          /\ chain[c].numprevious \in Nat /\ chain[c].numhere \in Nat
          /\ chain[c].maxhere \in Nat
  BY <1>1 DEF Block
<1>3. CASE at = Len(chain)
  <2>1. Capacity(chain) = chain[at].numprevious + chain[at].maxhere
    BY <1>3 DEF Capacity
  <2>2. /\ chain[at].numprevious \in Nat /\ chain[at].maxhere \in Nat
        /\ chain[at].numhere \in Nat /\ chain[at].numhere <= chain[at].maxhere
    BY <1>1, <1>2
  <2> QED BY <2>1, <2>2 DEF Total
<1>4. CASE at < Len(chain)
  <2>1. PICK n \in DOMAIN chain : n = Len(chain)
    BY <1>1
  <2>2. chain[at].numprevious + chain[at].maxhere <= chain[n].numprevious
    BY <1>1, <1>4, <2>1 DEF Apart
  <2>3. Capacity(chain) = chain[n].numprevious + chain[n].maxhere
    BY <2>1 DEF Capacity
  <2>4. chain[at].numhere <= chain[at].maxhere /\ at \in DOMAIN chain
    BY <1>1
  <2> HIDE <2>1
  <2> QED BY <1>2, <2>2, <2>3, <2>4 DEF Total
<1>5. at = Len(chain) \/ at < Len(chain)
  <2>1. Len(chain) \in Nat /\ at \in 1 .. Len(chain)
    BY <1>1
  <2> QED BY <2>1
<1> QED BY <1>3, <1>4, <1>5

\* copyitems returns what the lemmas call CopyOf, before a step and after it.
LEMMA CopyNow == copyitems = CopyOf(blocks, current)
BY DEF copyitems, CopyOf, numitems, Total, Copied, Place, PlaceIn

LEMMA CopyThen == copyitems' = CopyOf(blocks', current')
BY DEF copyitems, CopyOf, numitems, Total, Copied, Place, PlaceIn

\* nextitem finds an item just if there is one in the slot, and it is that one.
LEMMA ItemInSlot ==
    ASSUME SlotInv
    PROVE  /\ HasItem <=> slot < Len(copyitems)
           /\ HasItem => copyitems[slot + 1] = blocks[nextblk].items[nextindex + 1]
<1>1. PICK chain, at, b, i :
          chain = blocks /\ at = current /\ b = nextblk /\ i = nextindex
  OBVIOUS
<1>2. Sound(chain, at)
  BY <1>1 DEF SlotInv, BufInv
<1>3. copyitems = CopyOf(chain, at) /\ Len(copyitems) = Total(chain, at)
  BY <1>1, <1>2, CopyNow, CopyType
<1>4. CASE nextblk = NULL
  <2>1. slot = Capacity(chain)
    BY <1>1, <1>4 DEF SlotInv, SlotAgrees
  <2>2. Total(chain, at) <= Capacity(chain) /\ Capacity(chain) \in Nat /\ Total(chain, at) \in Nat
    BY <1>2, NoSlotAtEnd, CopyType
  <2> QED BY <1>3, <1>4, <2>1, <2>2 DEF HasItem
<1>5. CASE nextblk # NULL
  <2>1. b \in DOMAIN chain /\ i \in Nat /\ i < chain[b].maxhere
    BY <1>1, <1>5 DEF SlotInv, BufInv, Pointer
  <2>2. slot = chain[b].numprevious + i
    BY <1>1, <1>5 DEF SlotInv, SlotAgrees
  <2>3. HasItem <=> i < chain[b].numhere
    BY <1>1, <1>5 DEF HasItem
  <2>4. /\ i < chain[b].numhere <=> chain[b].numprevious + i < Total(chain, at)
        /\ i < chain[b].numhere =>
              CopyOf(chain, at)[chain[b].numprevious + i + 1] = chain[b].items[i + 1]
    BY <1>2, <2>1, SlotOfItem
  <2> QED BY <1>1, <1>3, <2>2, <2>3, <2>4
<1> QED BY <1>4, <1>5

\* Writing leaves the pointer at the slot it was at, unless it adds a block
\* behind a pointer that has reached the end.
LEMMA WritingKeepsSlot ==
    ASSUME SlotInv, Sound(blocks', current'), Kept(blocks, blocks'), NoBlockAddedAtEnd,
           UNCHANGED <<nextblk, nextindex, slot>>
    PROVE  SlotInv'
<1>1. Pointer'
  BY PointerKept DEF SlotInv, BufInv
<1>2. CASE nextblk = NULL
  <2>1. PICK chain, new : chain = blocks /\ new = blocks'
    OBVIOUS
  <2>2. Len(new) = Len(chain) /\ Kept(chain, new) /\ Len(chain) \in DOMAIN chain
    BY <1>2, <2>1 DEF NoBlockAddedAtEnd, SlotInv, BufInv, Sound, TypedChain
  <2>3. Capacity(new) = Capacity(chain)
    BY <2>2 DEF Kept, Capacity
  <2> QED BY <1>1, <1>2, <2>1, <2>3 DEF SlotInv, BufInv, SlotAgrees
<1>3. CASE nextblk # NULL
  <2>1. blocks'[nextblk].numprevious = blocks[nextblk].numprevious
    BY <1>3 DEF SlotInv, BufInv, Pointer, Kept
  <2> QED BY <1>1, <1>3, <2>1 DEF SlotInv, BufInv, SlotAgrees
<1> QED BY <1>2, <1>3

\* nextitem moves the pointer by one slot, also from one block to the next.
LEMMA NextSlot ==
    ASSUME SlotInv, nextitem, slot' = IF HasItem THEN slot + 1 ELSE slot
    PROVE  SlotInv'
<1>1. BufInv'
  BY NextPointer DEF SlotInv, BufInv, nextitem
<1>2. CASE HasItem
  <2>1. PICK chain, b, i, s : chain = blocks /\ b = nextblk /\ i = nextindex /\ s = slot
    OBVIOUS
  <2>2. /\ Len(chain) \in Nat /\ DOMAIN chain = 1 .. Len(chain) /\ b \in 1 .. Len(chain)
        /\ i \in Nat /\ i < chain[b].maxhere /\ chain[b] \in Block
        /\ s = chain[b].numprevious + i
    BY <1>2, <2>1 DEF SlotInv, BufInv, SlotAgrees, Pointer, HasItem, Sound, TypedChain
  <2>3. blocks' = chain /\ slot' = s + 1
    BY <1>2, <2>1 DEF nextitem
  <2>4. CASE i + 1 >= chain[b].maxhere
    <3>1. nextblk' = Following(b) /\ nextindex' = 0
      BY <1>2, <2>1, <2>4 DEF nextitem, Advance
    <3>2. s + 1 = chain[b].numprevious + chain[b].maxhere
      BY <2>2, <2>4 DEF Block
    <3>3. CASE b = Len(chain)
      <4>1. Following(b) = NULL
        BY <2>1, <3>3 DEF Following
      <4>2. Capacity(chain) = chain[b].numprevious + chain[b].maxhere
        BY <3>3 DEF Capacity
      <4> QED BY <1>1, <2>3, <3>1, <3>2, <4>1, <4>2 DEF SlotInv, SlotAgrees
    <3>4. CASE b # Len(chain)
      <4>1. Following(b) = b + 1 /\ b + 1 # NULL
        <5>1. Following(b) = b + 1
          BY <2>1, <3>4 DEF Following
        <5> QED BY <2>2, <5>1 DEF NULL
      <4>2. b \in 1 .. Len(chain) - 1
        <5>1. Len(chain) \in Nat /\ b \in 1 .. Len(chain)
          BY <2>2
        <5> QED BY <3>4, <5>1
      <4>3. chain[b + 1].numprevious = chain[b].numprevious + chain[b].maxhere
        BY <2>1, <4>2 DEF SlotInv, BufInv, Sound, FilledChain
      <4>4. b + 1 \in DOMAIN chain /\ chain[b + 1].numprevious \in Nat
        <5>1. b + 1 \in DOMAIN chain
          BY <2>2, <4>2
        <5>2. chain[b + 1] \in Block
          BY <2>1, <5>1 DEF SlotInv, BufInv, Sound, TypedChain
        <5> QED BY <5>1, <5>2 DEF Block
      <4> QED BY <1>1, <2>3, <3>1, <3>2, <4>1, <4>3, <4>4 DEF SlotInv, SlotAgrees
    <3> QED BY <3>3, <3>4
  <2>5. CASE ~(i + 1 >= chain[b].maxhere)
    <3>1. nextblk' = b /\ nextindex' = i + 1 /\ b # NULL
      BY <1>2, <2>1, <2>5 DEF nextitem, Advance, HasItem
    <3>2. s + 1 = chain[b].numprevious + (i + 1)
      BY <2>2 DEF Block
    <3> QED BY <1>1, <2>3, <3>1, <3>2 DEF SlotInv, SlotAgrees
  <2> QED BY <2>4, <2>5
<1>3. CASE ~HasItem
  <2>1. UNCHANGED <<blocks, nextblk, nextindex, slot>>
    BY <1>3 DEF nextitem
  <2> QED BY <1>1, <2>1 DEF SlotInv, SlotAgrees
<1> QED BY <1>2, <1>3

LEMMA RewindSlot ==
    ASSUME SlotInv, rewindbuffer, slot' = 0
    PROVE  SlotInv'
<1>1. BufInv'
  BY BufInvInductive DEF SlotInv, BufNext
<1>2. blocks' = blocks /\ nextblk' = 1 /\ nextindex' = 0 /\ blocks[1].numprevious = 0
  BY DEF rewindbuffer, SlotInv, BufInv, Sound, FilledChain
<1> QED BY <1>1, <1>2 DEF SlotInv, SlotAgrees, NULL

\* Every step of the buffer is one of the contract, and keeps the invariant.
LEMMA ContractStep ==
    ASSUME SlotInv, [ReadLastNext]_<<buffer, slot>>
    PROVE  SlotInv' /\ [Contract!Next]_<<copyitems, slot, lastcall>>
<1>1. ASSUME NEW item \in Items, additem(item), NoBlockAddedAtEnd, UNCHANGED slot
      PROVE  SlotInv' /\ Contract!Add(item)
  <2>1. /\ Sound(blocks', current') /\ Kept(blocks, blocks')
        /\ CopyOf(blocks', current') = Append(CopyOf(blocks, current), item)
    BY <1>1, AddStep DEF SlotInv
  <2>2. SlotInv'
    BY <1>1, <2>1, WritingKeepsSlot DEF additem
  <2>3. copyitems' = Append(copyitems, item)
    BY <2>1, CopyNow, CopyThen
  <2> QED BY <1>1, <2>2, <2>3 DEF additem, Returns, Contract!Add, Contract!Returns
<1>2. ASSUME clearbuffer, NoBlockAddedAtEnd, UNCHANGED slot
      PROVE  SlotInv' /\ Contract!Clear
  <2>1. /\ Sound(blocks', current') /\ Kept(blocks, blocks')
        /\ CopyOf(blocks', current') = <<>>
    BY <1>2, ClearStep DEF SlotInv
  <2>2. SlotInv'
    BY <1>2, <2>1, WritingKeepsSlot DEF clearbuffer
  <2>3. copyitems' = <<>>
    BY <2>1, CopyThen
  <2> QED BY <1>2, <2>2, <2>3 DEF clearbuffer, Returns, Contract!Clear, Contract!Returns
<1>3. ASSUME AddFails, UNCHANGED slot
      PROVE  SlotInv' /\ Contract!FailToAdd
  <2>1. UNCHANGED <<blocks, current, nextblk, nextindex>>
    BY <1>3 DEF AddFails
  <2>2. copyitems' = copyitems
    BY <2>1, CopyNow, CopyThen
  <2> QED BY <1>3, <2>1, <2>2
          DEF AddFails, Returns, Contract!FailToAdd, Contract!Returns,
              SlotInv, SlotAgrees, BufInv, Pointer
<1>4. ASSUME rewindbuffer, slot' = 0
      PROVE  SlotInv' /\ Contract!Rewind
  <2>1. copyitems' = copyitems
    BY <1>4, CopyNow, CopyThen DEF rewindbuffer
  <2> QED BY <1>4, <2>1, RewindSlot
          DEF rewindbuffer, Returns, Contract!Rewind, Contract!Returns
<1>5. ASSUME nextitem, slot' = IF HasItem THEN slot + 1 ELSE slot
      PROVE  SlotInv' /\ Contract!NextItem
  <2>1. copyitems' = copyitems
    BY <1>5, CopyNow, CopyThen DEF nextitem
  <2>2. SlotInv'
    BY <1>5, NextSlot
  <2>3. ASSUME HasItem PROVE Contract!NextItem
    BY <1>5, <2>1, <2>3, ItemInSlot
       DEF nextitem, Returns, Contract!NextItem, Contract!Returns
  <2>4. ASSUME ~HasItem PROVE Contract!NextItem
    BY <1>5, <2>1, <2>4, ItemInSlot
       DEF nextitem, Returns, Contract!NextItem, Contract!Returns
  <2> QED BY <2>2, <2>3, <2>4
<1>6. ASSUME CopyItems, UNCHANGED slot
      PROVE  SlotInv' /\ Contract!Copy
  <2>1. UNCHANGED <<blocks, current, nextblk, nextindex>>
    BY <1>6 DEF CopyItems
  <2>2. copyitems' = copyitems
    BY <2>1, CopyNow, CopyThen
  <2> QED BY <1>6, <2>1, <2>2
          DEF CopyItems, Returns, Contract!Copy, Contract!Returns,
              SlotInv, SlotAgrees, BufInv, Pointer
<1>7. ASSUME UNCHANGED <<buffer, slot>>
      PROVE  SlotInv' /\ UNCHANGED <<copyitems, slot, lastcall>>
  <2>1. UNCHANGED <<blocks, current, nextblk, nextindex, lastcall, slot>>
    BY <1>7 DEF buffer
  <2>2. copyitems' = copyitems
    BY <2>1, CopyNow, CopyThen
  <2> QED BY <2>1, <2>2 DEF SlotInv, SlotAgrees, BufInv, Pointer
<1> QED BY <1>1, <1>2, <1>3, <1>4, <1>5, <1>6, <1>7
        DEF ReadLastNext, Reading, Writing, Contract!Next

LEMMA ContractInit == SlotInit => SlotInv /\ Contract!Init
<1> SUFFICES ASSUME SlotInit PROVE SlotInv /\ Contract!Init
  OBVIOUS
<1>1. BufInv /\ copyitems = <<>>
  BY InitSound, CopyNow DEF SlotInit
<1>2. blocks[1].numprevious = 0 /\ nextblk = 1 /\ nextindex = 0 /\ slot = 0
  BY <1>1 DEF SlotInit, BufInit, BufInv, Sound, FilledChain
<1> QED BY <1>1, <1>2
        DEF SlotInit, BufInit, SlotInv, SlotAgrees, NULL, Contract!Init

\* buffer.c keeps the promise of buffer.h, for any items, any capacity and any
\* number of blocks, provided that no block is added while the pointer of nextitem
\* is past the end of the last one.
THEOREM BufferKeepsContract == ReadLastSpec => KeepsContract
BY ContractInit, ContractStep, PTL DEF ReadLastSpec, KeepsContract, Contract!Spec
=============================================================================
