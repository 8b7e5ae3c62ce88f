-------------------------- MODULE MushShellProofs --------------------------
(***************************************************************************)
(* Proofs about the program store (MushProgram, MushProgramContract), the  *)
(* job table (MushJobs) and the execution engine that drives both          *)
(* (MushShell).  The store: for any line numbers and bodies its list and   *)
(* its counters stay consistent, editing keeps a counter that is past the  *)
(* end there, and in orderly use the lines are in order.  The table: for   *)
(* any number of children and jobs and with failing forks, what the global *)
(* ID counts, how far down the table an ID can be found, which entries are *)
(* completed and which children are named.  The engine: whatever is typed, *)
(* runs, ends or is sent at any moment, it uses the program store and the  *)
(* job table as they allow, a quit does not outlive the run it was sent    *)
(* to, and the counter of a running program stays within it.               *)
(***************************************************************************)
EXTENDS MushShell, MushProgramContract, ListLemmas, FiniteSetTheorems

-----------------------------------------------------------------------------
(* The invariant of the program store that the proofs about it and about its   *)
(* users rest on: a list of statements, no line twice, of the length the code  *)
(* keeps.                                                                      *)

ProgInv == ProgTypeOK /\ LinesUnique /\ LengthAgrees

\* A deletion keeps the other statements, each once, in their order.
LEMMA KeptStatements ==
    ASSUME prog \in Seq(Stmts), NEW keep \in SUBSET DOMAIN prog, Subsequence(keep)
    PROVE  /\ Len(prog') = Cardinality(keep) /\ prog' \in Seq(Stmts)
           /\ \E f \in [1 .. Len(prog') -> keep] :
                 /\ \A j, k \in 1 .. Len(prog') : j < k => f[j] < f[k]
                 /\ \A k \in 1 .. Len(prog') : prog'[k] = prog[f[k]]
                 /\ \A i \in keep : \E k \in 1 .. Len(prog') : f[k] = i
<1> DEFINE n == Cardinality(keep)
<1>1. PICK f \in [1 .. n -> keep] :
          /\ \A j, k \in DOMAIN f : j < k => f[j] < f[k]
          /\ prog' = [k \in DOMAIN f |-> prog[f[k]]]
    BY DEF Subsequence
<1>2. Len(prog) \in Nat /\ DOMAIN prog = 1 .. Len(prog) /\ IsFiniteSet(1 .. Len(prog))
      /\ Cardinality(1 .. Len(prog)) = Len(prog)
    BY FS_Interval
<1>3. IsFiniteSet(keep) BY <1>2, FS_Subset
<1>4. n \in Nat BY <1>3, FS_CardinalityType
<1> HIDE DEF n
<1>5. \A k \in 1 .. n : f[k] \in 1 .. Len(prog) /\ prog[f[k]] \in Stmts
    BY <1>1, <1>2
<1>6. prog' = [k \in 1 .. n |-> prog[f[k]]] BY <1>1
<1>7. prog' \in Seq(Stmts) /\ Len(prog') = n BY <1>4, <1>5, <1>6
<1>8. \A k \in 1 .. n : prog'[k] = prog[f[k]] BY <1>6
<1>9. f \in Injection(1 .. n, keep)
  <2>1. \A j, k \in 1 .. n : f[j] = f[k] => j = k
    <3> SUFFICES ASSUME NEW j \in 1 .. n, NEW k \in 1 .. n, j # k PROVE f[j] # f[k] OBVIOUS
    <3>1. j \in Int /\ k \in Int BY <1>4
    <3>2. f[j] \in Int /\ f[k] \in Int BY <1>2, <1>5
    <3>3. CASE j < k BY <3>3, <3>2, <1>1
    <3>4. CASE k < j BY <3>4, <3>2, <1>1
    <3> QED BY <3>1, <3>3, <3>4
  <2> QED BY <2>1, Zenon DEF Injection, IsInjective
<1>10. \A i \in keep : \E k \in 1 .. n : f[k] = i
  <2>1. IsFiniteSet(1 .. n) /\ Cardinality(1 .. n) = n BY <1>4, FS_Interval
  <2>2. f \in Surjection(1 .. n, keep) BY <1>3, <1>9, <2>1, FS_Injection DEF n
  <2> QED BY <2>2, Zenon DEF Surjection
<1>11. /\ f \in [1 .. n -> keep]
       /\ \A j, k \in 1 .. n : j < k => f[j] < f[k]
    BY <1>1
<1> QED BY <1>7, <1>8, <1>10, <1>11 DEF n

LEMMA DoomedCounted ==
    ASSUME prog \in Seq(Stmts), NEW min, NEW max
    PROVE  /\ Doomed(min, max) \subseteq DOMAIN prog
           /\ Cardinality(Doomed(min, max)) \in Nat
           /\ Cardinality(DOMAIN prog \ Doomed(min, max)) = Len(prog) - Cardinality(Doomed(min, max))
<1> DEFINE D == Doomed(min, max)
<1>1. D \subseteq DOMAIN prog BY DEF Doomed
<1>2. DOMAIN prog = 1 .. Len(prog) /\ Len(prog) \in Nat OBVIOUS
<1>3. IsFiniteSet(DOMAIN prog) /\ Cardinality(DOMAIN prog) = Len(prog) BY <1>2, FS_Interval
<1>4. IsFiniteSet(D) /\ Cardinality(D) \in Nat BY <1>1, <1>3, FS_Subset, FS_CardinalityType
<1> HIDE DEF D
<1>5. DOMAIN prog \cap D = D BY <1>1
<1>6. Cardinality(DOMAIN prog \ D) = Cardinality(DOMAIN prog) - Cardinality(DOMAIN prog \cap D)
    BY <1>3, FS_Difference
<1> QED BY <1>1, <1>3, <1>4, <1>5, <1>6 DEF D

-----------------------------------------------------------------------------
(* Each operation keeps ProgInv.                                               *)

LEMMA InvReplace == ASSUME ProgInv, NEW stmt \in Stmts, Replace(stmt) PROVE ProgInv'
<1>1. PICK i \in At(stmt.lineno) : prog' = [prog EXCEPT ![i] = stmt]
    BY DEF Replace
<1>2. i \in DOMAIN prog /\ prog[i].lineno = stmt.lineno BY DEF At
<1>3. prog \in Seq(Stmts) BY DEF ProgInv, ProgTypeOK
<1>4. prog' \in Seq(Stmts) /\ Len(prog') = Len(prog) /\ DOMAIN prog' = DOMAIN prog
    BY <1>1, <1>2, <1>3
<1>5. \A j \in DOMAIN prog : prog'[j].lineno = prog[j].lineno
    BY <1>1, <1>2, <1>3
<1>6. counter' = counter /\ length' = length BY DEF Replace
<1>7. ProgTypeOK' BY <1>4, <1>6 DEF ProgInv, ProgTypeOK
<1>8. LinesUnique' BY <1>4, <1>5 DEF ProgInv, LinesUnique
<1>9. LengthAgrees' BY <1>4, <1>6 DEF ProgInv, LengthAgrees
<1> QED BY <1>7, <1>8, <1>9 DEF ProgInv

LEMMA InvAppend == ASSUME ProgInv, NEW stmt \in Stmts, AppendStmt(stmt) PROVE ProgInv'
<1>1. prog \in Seq(Stmts) BY DEF ProgInv, ProgTypeOK
<1>2. prog' = Append(prog, stmt) /\ length' = length + 1 /\ counter' = counter + 1
    BY DEF AppendStmt
<1>3. /\ prog' \in Seq(Stmts) /\ Len(prog') = Len(prog) + 1
      /\ prog'[Len(prog) + 1] = stmt /\ \A j \in 1 .. Len(prog) : prog'[j] = prog[j]
    BY <1>1, <1>2
<1>4. ProgTypeOK' BY <1>2, <1>3 DEF ProgInv, ProgTypeOK
<1>5. LinesUnique'
  <2>1. \A j \in 1 .. Len(prog) : prog[j].lineno # stmt.lineno
      BY <1>1 DEF AppendStmt, At
  <2> SUFFICES ASSUME NEW i \in 1 .. Len(prog) + 1, NEW j \in 1 .. Len(prog) + 1,
                      prog'[i].lineno = prog'[j].lineno
               PROVE i = j
      BY <1>3 DEF LinesUnique
  <2>2. CASE i \in 1 .. Len(prog) /\ j \in 1 .. Len(prog)
      BY <1>1, <1>3, <2>2 DEF ProgInv, LinesUnique
  <2>3. CASE i = Len(prog) + 1 /\ j \in 1 .. Len(prog) BY <1>3, <2>1, <2>3
  <2>4. CASE j = Len(prog) + 1 /\ i \in 1 .. Len(prog) BY <1>3, <2>1, <2>4
  <2> QED BY <1>1, <2>2, <2>3, <2>4
<1>6. LengthAgrees' BY <1>2, <1>3 DEF ProgInv, LengthAgrees
<1> QED BY <1>4, <1>5, <1>6 DEF ProgInv

LEMMA InvDelete == ASSUME ProgInv, NEW min, NEW max, prog_delete(min, max) PROVE ProgInv'
<1> DEFINE keep == DOMAIN prog \ Doomed(min, max)
<1>1. prog \in Seq(Stmts) BY DEF ProgInv, ProgTypeOK
<1>2. keep \in SUBSET DOMAIN prog /\ Subsequence(keep) BY DEF prog_delete
<1> HIDE DEF keep
<1>3. /\ Len(prog') = Cardinality(keep) /\ prog' \in Seq(Stmts)
      /\ \E f \in [1 .. Len(prog') -> keep] :
            /\ \A j, k \in 1 .. Len(prog') : j < k => f[j] < f[k]
            /\ \A k \in 1 .. Len(prog') : prog'[k] = prog[f[k]]
            /\ \A i \in keep : \E k \in 1 .. Len(prog') : f[k] = i
    BY <1>1, <1>2, KeptStatements
<1>4. Cardinality(keep) = Len(prog) - Cardinality(Doomed(min, max))
    BY <1>1, DoomedCounted DEF keep
<1>5. length' = length - Cardinality(Doomed(min, max)) /\ counter' = counter BY DEF prog_delete
<1>6. LengthAgrees' BY <1>3, <1>4, <1>5 DEF ProgInv, LengthAgrees
<1>7. ProgTypeOK' BY <1>3, <1>5, <1>6 DEF ProgInv, ProgTypeOK, LengthAgrees
<1>8. LinesUnique'
  <2>1. PICK f \in [1 .. Len(prog') -> keep] :
            /\ \A j, k \in 1 .. Len(prog') : j < k => f[j] < f[k]
            /\ \A k \in 1 .. Len(prog') : prog'[k] = prog[f[k]]
      BY <1>3
  <2> SUFFICES ASSUME NEW i \in 1 .. Len(prog'), NEW j \in 1 .. Len(prog'),
                      prog'[i].lineno = prog'[j].lineno
               PROVE i = j
      BY <1>3 DEF LinesUnique
  <2>2. f[i] \in DOMAIN prog /\ f[j] \in DOMAIN prog BY DEF keep
  <2>3. f[i] = f[j] BY <2>1, <2>2 DEF ProgInv, LinesUnique
  <2>4. i \in Int /\ j \in Int /\ f[i] \in Int /\ f[j] \in Int BY <1>1, <2>2
  <2> QED BY <2>1, <2>3, <2>4
<1> QED BY <1>6, <1>7, <1>8 DEF ProgInv

LEMMA InvCounter == ASSUME ProgInv, UNCHANGED <<prog, length>>, counter' \in Nat PROVE ProgInv'
BY DEF ProgInv, ProgTypeOK, LinesUnique, LengthAgrees

LEMMA InvNext == ProgInv /\ [ProgNext]_pvars => ProgInv'
<1> SUFFICES ASSUME ProgInv, [ProgNext]_pvars PROVE ProgInv' OBVIOUS
<1>1. prog \in Seq(Stmts) /\ counter \in Nat BY DEF ProgInv, ProgTypeOK
<1>2. ASSUME NEW stmt \in Stmts, prog_insert(stmt) PROVE ProgInv'
    BY <1>2, InvReplace, InvAppend DEF prog_insert
<1>3. ASSUME NEW min \in Lines, NEW max \in Lines, prog_delete(min, max) PROVE ProgInv'
    BY <1>3, InvDelete
<1>4. CASE prog_reset BY <1>4, InvCounter DEF prog_reset
<1>5. CASE prog_next BY <1>1, <1>5, InvCounter DEF prog_next
<1>6. ASSUME NEW lineno \in Lines, prog_goto(lineno) PROVE ProgInv'
  <2>1. PICK i \in At(lineno) : counter' = i - 1 BY <1>6 DEF prog_goto
  <2>2. i \in 1 .. Len(prog) BY <1>1 DEF At
  <2> QED BY <1>6, <2>1, <2>2, InvCounter DEF prog_goto
<1>7. CASE UNCHANGED pvars BY <1>1, <1>7, InvCounter DEF pvars
<1> QED BY <1>2, <1>3, <1>4, <1>5, <1>6, <1>7 DEF ProgNext

LEMMA InvInit == ProgInit => ProgInv
BY DEF ProgInit, ProgInv, ProgTypeOK, LinesUnique, LengthAgrees

LEMMA InvAlways == ProgSpec => []ProgInv
BY InvInit, InvNext, PTL DEF ProgSpec

-----------------------------------------------------------------------------

\* What is remembered of the calls restricts none of them.
LEMMA ContractIsProgram == ContractSpec => ProgSpec
<1>1. [ContractNext]_cvars => [ProgNext]_pvars BY DEF ContractNext, cvars
<1> QED BY <1>1, PTL DEF ContractSpec, ContractInit, ProgSpec

-----------------------------------------------------------------------------
\* The list holds numbered statements and the counters are numbers, for any lines
\* and bodies (program.c).
THEOREM ProgTypeCorrect == ContractSpec => []ProgTypeOK
<1>1. ProgInv => ProgTypeOK BY DEF ProgInv
<1> QED BY <1>1, InvAlways, ContractIsProgram, PTL

\* prog_insert finds the statement with a number, if there is one, so no number is
\* ever stored twice.
THEOREM LinesAreUnique == ContractSpec => []LinesUnique
<1>1. ProgInv => LinesUnique BY DEF ProgInv
<1> QED BY <1>1, InvAlways, ContractIsProgram, PTL

\* The count that prog_insert and prog_delete keep is that of the statements.
THEOREM LengthIsCounted == ContractSpec => []LengthAgrees
<1>1. ProgInv => LengthAgrees BY DEF ProgInv
<1> QED BY <1>1, InvAlways, ContractIsProgram, PTL

-----------------------------------------------------------------------------
(* Editing.                                                                    *)

LEMMA DeletionShortens ==
    ASSUME ProgInv, NEW min, NEW max, prog_delete(min, max)
    PROVE  Len(prog') \in Nat /\ Len(prog') <= Len(prog)
<1>1. prog \in Seq(Stmts) BY DEF ProgInv, ProgTypeOK
<1> DEFINE keep == DOMAIN prog \ Doomed(min, max)
<1>2. keep \in SUBSET DOMAIN prog /\ Subsequence(keep) BY DEF prog_delete
<1>3. /\ Cardinality(Doomed(min, max)) \in Nat
      /\ Cardinality(keep) = Len(prog) - Cardinality(Doomed(min, max))
    BY <1>1, DoomedCounted
<1> HIDE DEF keep
<1>4. Len(prog') = Cardinality(keep) /\ prog' \in Seq(Stmts)
    BY <1>1, <1>2, KeptStatements
<1> QED BY <1>1, <1>4, <1>3

LEMMA EditKeepsEnd ==
    ASSUME ProgInv, [ProgNext]_pvars, AtEnd, prog' # prog PROVE AtEnd'
<1>1. prog \in Seq(Stmts) /\ counter \in Nat /\ Len(prog) \in Nat /\ counter >= Len(prog)
    BY DEF ProgInv, ProgTypeOK, AtEnd, HasNext
<1> SUFFICES counter' >= Len(prog') /\ counter' \in Nat /\ Len(prog') \in Nat
    BY DEF AtEnd, HasNext
<1>2. ASSUME NEW stmt \in Stmts, Replace(stmt)
      PROVE counter' >= Len(prog') /\ counter' \in Nat /\ Len(prog') \in Nat
    BY <1>1, <1>2 DEF Replace
<1>3. ASSUME NEW stmt \in Stmts, AppendStmt(stmt)
      PROVE counter' >= Len(prog') /\ counter' \in Nat /\ Len(prog') \in Nat
    BY <1>1, <1>3 DEF AppendStmt
<1>4. ASSUME NEW min \in Lines, NEW max \in Lines, prog_delete(min, max)
      PROVE counter' >= Len(prog') /\ counter' \in Nat /\ Len(prog') \in Nat
  <2>1. counter' = counter BY <1>4 DEF prog_delete
  <2> QED BY <1>1, <1>4, <2>1, DeletionShortens
<1> QED BY <1>2, <1>3, <1>4 DEF ProgNext, pvars, prog_insert, prog_reset, prog_next, prog_goto

\* A counter that is past all statements stays there, whatever is typed or deleted
\* (program.c:86, :136).
THEOREM EditingStaysAtEnd == ContractSpec => EditingKeepsEnd
<1>1. ProgInv /\ [ProgNext]_pvars => [AtEnd /\ prog' # prog => AtEnd']_pvars BY EditKeepsEnd
<1> QED BY <1>1, InvAlways, ContractIsProgram, PTL DEF EditingKeepsEnd, ProgSpec

-----------------------------------------------------------------------------
(* Orderly use.                                                                *)

Increasing(s) == \A i, j \in DOMAIN s : i < j => s[i].lineno < s[j].lineno

ContractInv == ProgInv /\ (orderly => Increasing(prog))

\* The statements after a deletion, and where they were before it.
Survivors(f, keep) ==
    /\ f \in [1 .. Len(prog') -> keep]
    /\ \A j, k \in 1 .. Len(prog') : j < k => f[j] < f[k]
    /\ \A k \in 1 .. Len(prog') : prog'[k] = prog[f[k]]
    /\ \A i \in keep : \E k \in 1 .. Len(prog') : f[k] = i

LEMMA DeletionKeeps ==
    ASSUME ProgInv, NEW min, NEW max, prog_delete(min, max)
    PROVE  /\ Len(prog') \in Nat /\ prog' \in Seq(Stmts)
           /\ \E f : Survivors(f, DOMAIN prog \ Doomed(min, max))
<1>1. prog \in Seq(Stmts) BY DEF ProgInv, ProgTypeOK
<1> DEFINE keep == DOMAIN prog \ Doomed(min, max)
<1>2. keep \in SUBSET DOMAIN prog /\ Subsequence(keep) BY DEF prog_delete
<1> HIDE DEF keep
<1>3. /\ Len(prog') = Cardinality(keep) /\ prog' \in Seq(Stmts)
      /\ \E f \in [1 .. Len(prog') -> keep] :
            /\ \A j, k \in 1 .. Len(prog') : j < k => f[j] < f[k]
            /\ \A k \in 1 .. Len(prog') : prog'[k] = prog[f[k]]
            /\ \A i \in keep : \E k \in 1 .. Len(prog') : f[k] = i
    BY <1>1, <1>2, KeptStatements
<1>4. Len(prog') \in Nat BY <1>3
<1>5. \E f : Survivors(f, keep) BY <1>3, Zenon DEF Survivors
<1> QED BY <1>3, <1>4, <1>5 DEF keep

LEMMA StaysIncreasing == ContractInv /\ [ContractNext]_cvars => (orderly' => Increasing(prog'))
<1> SUFFICES ASSUME ContractInv, [ContractNext]_cvars, orderly' PROVE Increasing(prog')
    OBVIOUS
<1>1. orderly /\ Increasing(prog) BY DEF ContractInv, ContractNext, cvars
<1>2. ProgInv /\ prog \in Seq(Stmts) /\ LinesAssumption BY LinesAssumption DEF ContractInv, ProgInv, ProgTypeOK
<1>3. CASE UNCHANGED prog BY <1>1, <1>3 DEF Increasing
<1>4. ASSUME NEW stmt \in Stmts, Replace(stmt) PROVE Increasing(prog')
  <2>1. PICK i \in At(stmt.lineno) : prog' = [prog EXCEPT ![i] = stmt] BY <1>4 DEF Replace
  <2>2. i \in DOMAIN prog /\ prog[i].lineno = stmt.lineno BY DEF At
  <2>3. DOMAIN prog' = DOMAIN prog /\ \A j \in DOMAIN prog : prog'[j].lineno = prog[j].lineno
      BY <1>2, <2>1, <2>2
  <2> QED BY <1>1, <2>3 DEF Increasing
<1>5. ASSUME NEW stmt \in Stmts, AppendStmt(stmt), TypedInOrder PROVE Increasing(prog')
  <2>1. /\ Len(prog') = Len(prog) + 1 /\ Len(prog) \in Nat /\ DOMAIN prog = 1 .. Len(prog)
        /\ DOMAIN prog' = 1 .. Len(prog) + 1
        /\ \A j \in 1 .. Len(prog) : prog'[j] = prog[j]
      BY <1>2, <1>5 DEF AppendStmt
  <2>2. \A i \in 1 .. Len(prog) : prog[i].lineno < prog'[Len(prog) + 1].lineno
      BY <1>5, <2>1 DEF TypedInOrder
  <2> SUFFICES ASSUME NEW i \in 1 .. Len(prog) + 1, NEW j \in 1 .. Len(prog) + 1, i < j
               PROVE prog'[i].lineno < prog'[j].lineno
      BY <2>1 DEF Increasing
  <2>3. i \in 1 .. Len(prog) BY <2>1
  <2>4. CASE j = Len(prog) + 1 BY <2>1, <2>2, <2>3, <2>4
  <2>5. CASE j \in 1 .. Len(prog) BY <1>1, <2>1, <2>3, <2>5 DEF Increasing
  <2> QED BY <2>1, <2>4, <2>5
<1>6. ASSUME NEW min \in Lines, NEW max \in Lines, prog_delete(min, max) PROVE Increasing(prog')
  <2> DEFINE keep == DOMAIN prog \ Doomed(min, max)
  <2>1. PICK f : Survivors(f, keep) BY <1>2, <1>6, DeletionKeeps
  <2>2. Len(prog') \in Nat /\ prog' \in Seq(Stmts) BY <1>2, <1>6, DeletionKeeps
  <2> SUFFICES ASSUME NEW j \in 1 .. Len(prog'), NEW k \in 1 .. Len(prog'), j < k
               PROVE prog'[j].lineno < prog'[k].lineno
      BY <2>2 DEF Increasing
  <2>3. f[j] < f[k] /\ f[j] \in DOMAIN prog /\ f[k] \in DOMAIN prog BY <2>1 DEF Survivors
  <2> QED BY <1>1, <2>1, <2>3 DEF Survivors, Increasing
<1> QED BY <1>3, <1>4, <1>5, <1>6
        DEF ContractNext, cvars, pvars, ProgNext, prog_insert, prog_reset, prog_next, prog_goto

LEMMA ContractInvAlways == ContractSpec => []ContractInv
<1>1. ProgInit /\ orderly = TRUE => ContractInv
    BY InvInit DEF ContractInv, ProgInit, Increasing
<1>2. ContractInv /\ [ContractNext]_cvars => ContractInv'
  <2>1. [ContractNext]_cvars => [ProgNext]_pvars BY DEF ContractNext, cvars
  <2> QED BY <2>1, InvNext, StaysIncreasing DEF ContractInv
<1> QED BY <1>1, <1>2, PTL DEF ContractSpec, ContractInit

\* A list with an element put at position i.
LEMMA InsertAtProperties ==
    ASSUME NEW A, NEW s \in Seq(A), NEW i \in 1 .. Len(s) + 1, NEW e \in A
    PROVE  /\ Len(InsertAt(s, i, e)) = Len(s) + 1
           /\ DOMAIN InsertAt(s, i, e) = 1 .. Len(s) + 1
           /\ \A k \in 1 .. Len(s) + 1 :
                 InsertAt(s, i, e)[k] = IF k < i THEN s[k] ELSE IF k = i THEN e ELSE s[k - 1]
<1> DEFINE u == SubSeq(s, 1, i - 1)
           v == SubSeq(s, i, Len(s))
           w == u \o <<e>>
<1>1. u \in Seq(A) /\ Len(u) = i - 1 /\ \A k \in 1 .. i - 1 : u[k] = s[k] OBVIOUS
<1>2. v \in Seq(A) /\ Len(v) = Len(s) - i + 1 /\ \A k \in 1 .. Len(s) - i + 1 : v[k] = s[k + i - 1]
    OBVIOUS
<1>3. InsertAt(s, i, e) = w \o v BY DEF InsertAt
<1> HIDE DEF u, v
<1>4. <<e>> \in Seq(A) /\ Len(<<e>>) = 1 /\ <<e>>[1] = e OBVIOUS
<1>5. /\ w \in Seq(A) /\ Len(w) = i
      /\ \A k \in 1 .. i : w[k] = IF k <= i - 1 THEN u[k] ELSE <<e>>[k - (i - 1)]
    BY <1>1, <1>4, ConcatProperties
<1> HIDE DEF w
<1>6. /\ w \o v \in Seq(A) /\ Len(w \o v) = Len(w) + Len(v)
      /\ \A k \in 1 .. Len(w) + Len(v) : (w \o v)[k] = IF k <= Len(w) THEN w[k] ELSE v[k - Len(w)]
    BY <1>2, <1>5, ConcatProperties
<1>7. Len(w) = i /\ Len(w) + Len(v) = Len(s) + 1 /\ Len(s) \in Nat /\ i \in 1 .. Len(s) + 1
    BY <1>2, <1>5
<1>8. DOMAIN (w \o v) = 1 .. Len(s) + 1 BY <1>6, <1>7
<1>9. ASSUME NEW k \in 1 .. Len(s) + 1
      PROVE (w \o v)[k] = IF k < i THEN s[k] ELSE IF k = i THEN e ELSE s[k - 1]
  <2>1. (w \o v)[k] = IF k <= i THEN w[k] ELSE v[k - i] BY <1>6, <1>7
  <2> DEFINE x == w \o v
  <2> HIDE DEF x
  <2>2. CASE k < i
    <3>1. k \in 1 .. i - 1 /\ k \in 1 .. i /\ k <= i /\ k <= i - 1 BY <1>7, <2>2
    <3>2. x[k] = w[k] BY <2>1, <3>1 DEF x
    <3>3. w[k] = u[k] BY <1>5, <3>1
    <3>4. u[k] = s[k] BY <1>1, <3>1
    <3>5. x[k] = s[k] BY <3>2, <3>3, <3>4
    <3> QED BY <2>2, <3>5 DEF x
  <2>3. CASE k = i
    <3>1. k \in 1 .. i /\ k <= i /\ ~(k <= i - 1) /\ k - (i - 1) = 1 BY <1>7, <2>3
    <3>2. x[k] = w[k] BY <2>1, <3>1 DEF x
    <3>3. w[k] = e BY <1>4, <1>5, <3>1
    <3> QED BY <2>3, <3>2, <3>3 DEF x
  <2>4. CASE k > i
    <3>1. ~(k <= i) /\ k - i \in 1 .. Len(s) - i + 1 /\ (k - i) + i - 1 = k - 1 BY <1>7, <2>4
    <3>2. x[k] = v[k - i] BY <2>1, <3>1 DEF x
    <3>3. v[k - i] = s[k - 1] BY <1>2, <3>1
    <3>4. x[k] = s[k - 1] BY <3>2, <3>3
    <3> QED BY <1>7, <2>4, <3>4 DEF x
  <2> QED BY <1>7, <2>2, <2>3, <2>4
<1> QED BY <1>3, <1>6, <1>7, <1>8, <1>9

\* A listing shows the number of every statement.
LEMMA ShownLines ==
    ASSUME prog \in Seq(Stmts)
    PROVE  LET shown == [i \in DOMAIN prog |-> prog[i].lineno]
           IN  /\ shown \in Seq(Nat) /\ Len(shown) = Len(prog) /\ DOMAIN shown = 1 .. Len(prog)
               /\ \A i \in 1 .. Len(prog) : shown[i] = prog[i].lineno
<1> DEFINE shown == [i \in DOMAIN prog |-> prog[i].lineno]
           n == Len(prog)
<1>1. n \in Nat /\ DOMAIN prog = 1 .. n OBVIOUS
<1>2. \A i \in 1 .. n : prog[i] \in Stmts BY <1>1
<1>3. \A i \in 1 .. n : prog[i].lineno \in Nat BY <1>2, LinesAssumption DEF Stmts
<1>4. shown = [i \in 1 .. n |-> prog[i].lineno] BY <1>1
<1> HIDE DEF n
<1>5. shown \in [1 .. n -> Nat] BY <1>3, <1>4
<1>6. shown \in Seq(Nat) /\ Len(shown) = n /\ DOMAIN shown = 1 .. n BY <1>1, <1>4, <1>5
<1>7. \A i \in 1 .. n : shown[i] = prog[i].lineno BY <1>4
<1> QED BY <1>3, <1>6, <1>7 DEF n

\* The arrow aside, a listing of increasing lines is increasing.
LEMMA IncreasingIsListed == ASSUME ProgInv, Increasing(prog) PROVE ListedInOrder
<1> DEFINE shown == [i \in DOMAIN prog |-> prog[i].lineno]
           n == Len(prog)
<1>1. /\ prog \in Seq(Stmts) /\ counter \in Nat /\ n \in Nat /\ DOMAIN prog = 1 .. n
    BY DEF ProgInv, ProgTypeOK
<1>2. /\ shown \in Seq(Nat) /\ Len(shown) = n /\ DOMAIN shown = 1 .. n
      /\ \A i \in 1 .. n : shown[i] = prog[i].lineno
    BY <1>1, ShownLines
<1>3. \A i, j \in 1 .. n : i < j => shown[i] < shown[j] BY <1>1, <1>2 DEF Increasing
<1> HIDE DEF shown
<1>4. CASE prog_list = Append(shown, Arrow)
  <2>1. /\ DOMAIN prog_list = 1 .. n + 1 /\ prog_list[n + 1] = Arrow
        /\ \A i \in 1 .. n : prog_list[i] = shown[i]
      BY <1>1, <1>2, <1>4 DEF Arrow
  <2> SUFFICES ASSUME NEW i \in 1 .. n + 1, NEW j \in 1 .. n + 1, i < j,
                      prog_list[i] # Arrow, prog_list[j] # Arrow
               PROVE  prog_list[i] < prog_list[j]
      BY <2>1 DEF ListedInOrder
  <2>2. i \in 1 .. n /\ j \in 1 .. n BY <1>1, <2>1
  <2> QED BY <1>3, <2>1, <2>2
<1>5. CASE prog_list = InsertAt(shown, counter + 1, Arrow) /\ counter \in DOMAIN prog
  <2>1. counter + 1 \in 1 .. Len(shown) + 1 /\ Arrow \in Nat BY <1>1, <1>2, <1>5 DEF Arrow
  <2>2. /\ DOMAIN prog_list = 1 .. n + 1
        /\ \A k \in 1 .. n + 1 :
              prog_list[k] = IF k < counter + 1 THEN shown[k]
                             ELSE IF k = counter + 1 THEN Arrow ELSE shown[k - 1]
      BY <1>2, <1>5, <2>1, InsertAtProperties, SMTT(20)
  <2> SUFFICES ASSUME NEW i \in 1 .. n + 1, NEW j \in 1 .. n + 1, i < j,
                      prog_list[i] # Arrow, prog_list[j] # Arrow
               PROVE  prog_list[i] < prog_list[j]
      BY <2>2 DEF ListedInOrder
  <2>3. i # counter + 1 /\ j # counter + 1 BY <2>2
  <2>4. CASE j < counter + 1
    <3>1. prog_list[i] = shown[i] /\ prog_list[j] = shown[j] BY <1>1, <2>2, <2>4
    <3>2. i \in 1 .. n /\ j \in 1 .. n BY <1>1, <1>5, <2>4
    <3> QED BY <1>3, <3>1, <3>2
  <2>5. CASE i < counter + 1 /\ j > counter + 1
    <3>1. prog_list[i] = shown[i] /\ prog_list[j] = shown[j - 1] BY <1>1, <2>2, <2>5
    <3>2. i \in 1 .. n /\ j - 1 \in 1 .. n /\ i < j - 1 BY <1>1, <1>5, <2>5
    <3> QED BY <1>3, <3>1, <3>2
  <2>6. CASE i > counter + 1
    <3>1. prog_list[i] = shown[i - 1] /\ prog_list[j] = shown[j - 1] BY <1>1, <2>2, <2>6
    <3>2. i - 1 \in 1 .. n /\ j - 1 \in 1 .. n /\ i - 1 < j - 1 BY <1>1, <1>5, <2>6
    <3> QED BY <1>3, <3>1, <3>2
  <2> QED BY <1>1, <2>3, <2>4, <2>5, <2>6
<1>6. CASE prog_list = shown BY <1>2, <1>3, <1>6 DEF ListedInOrder
<1> QED BY <1>4, <1>5, <1>6 DEF prog_list, shown

\* In orderly use a listing is in increasing order of the line numbers, whatever
\* lines there are (program.c:37).
THEOREM OrderlyIsListed == ContractSpec => []ListedWhenOrderly
<1>1. ContractInv => ListedWhenOrderly
    BY IncreasingIsListed DEF ContractInv, ListedWhenOrderly
<1> QED BY <1>1, ContractInvAlways, PTL

LEMMA ArrowIsListed == ASSUME ProgInv PROVE ListingShowsCounter
<1> DEFINE shown == [i \in DOMAIN prog |-> prog[i].lineno]
           n == Len(prog)
<1>1. /\ prog \in Seq(Stmts) /\ counter \in Nat /\ n \in Nat /\ DOMAIN prog = 1 .. n
      /\ length = n
    BY DEF ProgInv, ProgTypeOK, LengthAgrees
<1>2. /\ shown \in Seq(Nat) /\ Len(shown) = n
      /\ \A i \in 1 .. n : shown[i] = prog[i].lineno
    BY <1>1, ShownLines
<1>3. prog_list = IF counter >= n THEN Append(shown, Arrow)
                  ELSE IF counter \in DOMAIN prog THEN InsertAt(shown, counter + 1, Arrow)
                  ELSE shown
    BY <1>1 DEF prog_list
<1> HIDE DEF shown
<1>4. CASE counter >= n
  <2>1. prog_list = Append(shown, Arrow) BY <1>3, <1>4
  <2>2. DOMAIN prog_list = 1 .. n + 1 /\ prog_list[n + 1] = Arrow /\ Len(prog_list) = n + 1
      BY <1>1, <1>2, <2>1 DEF Arrow
  <2>3. ~HasNext BY <1>1, <1>4 DEF HasNext
  <2> QED BY <1>1, <2>2, <2>3 DEF ListingShowsCounter
<1>5. CASE counter \in 1 .. n - 1
  <2>1. prog_list = InsertAt(shown, counter + 1, Arrow) BY <1>1, <1>3, <1>5
  <2>2. counter + 1 \in 1 .. Len(shown) + 1 /\ Arrow \in Nat BY <1>1, <1>2, <1>5 DEF Arrow
  <2>3. /\ Len(prog_list) = n + 1 /\ DOMAIN prog_list = 1 .. n + 1
        /\ prog_list[counter + 1] = Arrow /\ prog_list[counter + 2] = shown[counter + 1]
    <3>1. /\ Len(prog_list) = n + 1 /\ DOMAIN prog_list = 1 .. n + 1
          /\ \A k \in 1 .. n + 1 :
                prog_list[k] = IF k < counter + 1 THEN shown[k]
                               ELSE IF k = counter + 1 THEN Arrow ELSE shown[k - 1]
        BY <1>2, <2>1, <2>2, InsertAtProperties
    <3>2. counter + 1 \in 1 .. n + 1 /\ counter + 2 \in 1 .. n + 1 BY <1>1, <1>5
    <3>3. prog_list[counter + 1] = Arrow BY <1>1, <3>1, <3>2
    <3>4. prog_list[counter + 2] = shown[(counter + 2) - 1] BY <1>1, <3>1, <3>2
    <3> QED BY <1>1, <3>1, <3>3, <3>4
  <2>4. shown[counter + 1] = prog_fetch.lineno BY <1>1, <1>2, <1>5 DEF prog_fetch
  <2>5. counter + 1 \in DOMAIN prog_list /\ counter + 1 < Len(prog_list)
        /\ prog_list[(counter + 1) + 1] = prog_fetch.lineno
      BY <1>1, <1>5, <2>3, <2>4
  <2>6. HasNext BY <1>1, <1>5 DEF HasNext
  <2> QED BY <2>3, <2>5, <2>6 DEF ListingShowsCounter
<1> QED BY <1>1, <1>4, <1>5 DEF ListingShowsCounter

\* The arrow of a listing is in front of the statement to be executed next, or last
\* when there is none, unless the counter is 0 (program.c:38).
THEOREM ArrowShowsCounter == ContractSpec => []ListingShowsCounter
BY ArrowIsListed, InvAlways, ContractIsProgram, PTL

-----------------------------------------------------------------------------
(* The promise of ProgramStore.                                                *)

\* What the refinement mapping makes of a list without double lines.
Maps ==
    /\ StoredStmts = [n \in StoredLines |-> StoredStmts[n]]
    /\ \A i \in DOMAIN prog : StoredStmts[prog[i].lineno] = prog[i].body

LEMMA MapsNow == ProgInv => Maps
<1> SUFFICES ASSUME ProgInv PROVE Maps OBVIOUS
<1>1. StoredStmts = [n \in StoredLines |-> StoredStmts[n]] BY DEF StoredStmts
<1>2. ASSUME NEW i \in DOMAIN prog PROVE StoredStmts[prog[i].lineno] = prog[i].body
  <2> DEFINE n == prog[i].lineno
             j == CHOOSE k \in At(n) : TRUE
  <2>1. n \in StoredLines BY DEF StoredLines
  <2>2. StoredStmts[n] = prog[j].body BY <2>1 DEF StoredStmts
  <2>3. i \in At(n) BY DEF At
  <2>4. j \in At(n) BY <2>3
  <2>5. j = i BY <2>4 DEF At, ProgInv, LinesUnique
  <2> QED BY <2>2, <2>5
<1> QED BY <1>1, <1>2 DEF Maps

LEMMA MapsThen == ProgInv' => Maps'
BY MapsNow, PTL

LEMMA FirstIs ==
    ASSUME NEW S \in SUBSET Int, NEW n \in S, \A m \in S : n <= m
    PROVE  Store!First(S) = n
<1>1. ASSUME NEW k \in S, \A m \in S : k <= m PROVE k = n BY <1>1
<1> QED BY <1>1 DEF Store!First

LEMMA FirstOfNone == Store!First({}) = End
BY DEF Store!First

LEMMA LinesAreNumbers ==
    ASSUME prog \in Seq(Stmts)
    PROVE  /\ StoredLines \subseteq Nat /\ \A m \in StoredLines : m \in Lines /\ m < End
           /\ \A i \in DOMAIN prog : prog[i].lineno \in Nat /\ prog[i].lineno \in StoredLines
<1>1. \A i \in DOMAIN prog : prog[i] \in Stmts OBVIOUS
<1>2. \A i \in DOMAIN prog : prog[i].lineno \in Lines BY <1>1 DEF Stmts
<1> QED BY <1>2, LinesAssumption, AboveAssumption DEF StoredLines

LEMMA ReplaceInserts ==
    ASSUME ProgInv, ProgInv', NEW stmt \in Stmts, Replace(stmt)
    PROVE  Store!Insert(stmt.lineno, stmt.body)
<1>1. PICK i \in At(stmt.lineno) : prog' = [prog EXCEPT ![i] = stmt] BY DEF Replace
<1>2. /\ prog \in Seq(Stmts) /\ i \in DOMAIN prog /\ prog[i].lineno = stmt.lineno
      /\ counter \in Nat /\ counter' = counter
    BY DEF At, ProgInv, ProgTypeOK, Replace
<1>3. /\ DOMAIN prog' = DOMAIN prog /\ Len(prog') = Len(prog) /\ prog'[i] = stmt
      /\ \A j \in DOMAIN prog : j # i => prog'[j] = prog[j]
      /\ \A j \in DOMAIN prog : prog'[j].lineno = prog[j].lineno
    BY <1>1, <1>2
<1>4. Maps /\ Maps' BY MapsNow, MapsThen
<1>5. StoredLines' = StoredLines /\ stmt.lineno \in StoredLines
    BY <1>2, <1>3 DEF StoredLines
<1>6. ASSUME NEW m \in StoredLines'
      PROVE StoredStmts'[m] = IF m = stmt.lineno THEN stmt.body ELSE StoredStmts[m]
  <2>1. PICK j \in DOMAIN prog' : m = prog'[j].lineno BY <1>6 DEF StoredLines
  <2>2. StoredStmts'[m] = prog'[j].body BY <1>4, <2>1 DEF Maps
  <2>3. CASE j = i BY <1>2, <1>3, <2>1, <2>2, <2>3
  <2>4. CASE j # i
    <3>1. StoredStmts[m] = prog[j].body BY <1>3, <1>4, <2>1 DEF Maps
    <3>2. m # stmt.lineno BY <1>2, <1>3, <2>1, <2>4 DEF ProgInv, LinesUnique
    <3> QED BY <1>3, <2>1, <2>2, <2>4, <3>1, <3>2
  <2> QED BY <2>3, <2>4
<1>7. StoredStmts' = [m \in StoredLines \cup {stmt.lineno} |->
                        IF m = stmt.lineno THEN stmt.body ELSE StoredStmts[m]]
  <2>1. StoredLines' = StoredLines \cup {stmt.lineno} BY <1>5
  <2> QED BY <1>4, <1>6, <2>1 DEF Maps
<1>8. Position' = Position
  <2>1. HasNext' = HasNext BY <1>2, <1>3 DEF HasNext
  <2>2. HasNext => counter + 1 \in DOMAIN prog BY <1>2 DEF HasNext
  <2>3. HasNext => prog_fetch'.lineno = prog_fetch.lineno BY <1>2, <1>3, <2>2 DEF prog_fetch
  <2> QED BY <2>1, <2>3 DEF Position
<1>9. Store!Stored = StoredLines BY <1>4 DEF Store!Stored, Maps
<1> QED BY <1>7, <1>8, <1>9 DEF Store!Insert

LEMMA AppendInserts ==
    ASSUME ProgInv, ProgInv', NEW stmt \in Stmts, AppendStmt(stmt), TypedInOrder
    PROVE  Store!Insert(stmt.lineno, stmt.body)
<1>1. /\ prog \in Seq(Stmts) /\ counter \in Nat /\ Len(prog) \in Nat
      /\ prog' = Append(prog, stmt) /\ counter' = counter + 1 /\ At(stmt.lineno) = {}
    BY DEF ProgInv, ProgTypeOK, AppendStmt
<1>2. /\ Len(prog') = Len(prog) + 1 /\ DOMAIN prog = 1 .. Len(prog)
      /\ DOMAIN prog' = 1 .. Len(prog) + 1 /\ prog'[Len(prog) + 1] = stmt
      /\ \A j \in 1 .. Len(prog) : prog'[j] = prog[j]
    BY <1>1
<1>3. Maps /\ Maps' BY MapsNow, MapsThen
<1>4. stmt.lineno \notin StoredLines BY <1>1 DEF At, StoredLines
<1>5. StoredLines' = StoredLines \cup {stmt.lineno}
  <2>1. \A j \in DOMAIN prog' : prog'[j].lineno \in StoredLines \cup {stmt.lineno}
      BY <1>2 DEF StoredLines
  <2>2. stmt.lineno \in StoredLines' /\ \A j \in DOMAIN prog : prog[j].lineno \in StoredLines'
      BY <1>1, <1>2 DEF StoredLines
  <2> QED BY <2>1, <2>2 DEF StoredLines
<1>6. ASSUME NEW m \in StoredLines'
      PROVE StoredStmts'[m] = IF m = stmt.lineno THEN stmt.body ELSE StoredStmts[m]
  <2>1. PICK j \in DOMAIN prog' : m = prog'[j].lineno BY <1>6 DEF StoredLines
  <2>2. StoredStmts'[m] = prog'[j].body BY <1>3, <2>1 DEF Maps
  <2>3. CASE j = Len(prog) + 1 BY <1>2, <2>1, <2>2, <2>3
  <2>4. CASE j \in 1 .. Len(prog)
    <3>1. StoredStmts[m] = prog[j].body BY <1>2, <1>3, <2>1, <2>4 DEF Maps
    <3>2. m \in StoredLines BY <1>2, <2>1, <2>4 DEF StoredLines
    <3> QED BY <1>2, <1>4, <2>2, <2>4, <3>1, <3>2
  <2> QED BY <1>2, <2>1, <2>3, <2>4
<1>7. StoredStmts' = [m \in StoredLines \cup {stmt.lineno} |->
                        IF m = stmt.lineno THEN stmt.body ELSE StoredStmts[m]]
    BY <1>3, <1>5, <1>6 DEF Maps
<1>8. Position' = Position
  <2>1. ~HasNext BY <1>1, <1>2 DEF TypedInOrder, AtEnd
  <2>2. ~HasNext' BY <1>1, <1>2, <2>1 DEF HasNext
  <2> QED BY <2>1, <2>2 DEF Position
<1>9. Store!Stored = StoredLines BY <1>3 DEF Store!Stored, Maps
<1> QED BY <1>7, <1>8, <1>9 DEF Store!Insert

\* A deletion that spares what the counter has passed does not move it.
LEMMA PassedStay ==
    ASSUME ProgInv, ProgInv', NEW min, NEW max, prog_delete(min, max), SparesPassed, HasNext,
           NEW f, Survivors(f, DOMAIN prog \ Doomed(min, max))
    PROVE  counter <= Len(prog') /\ \A k \in 1 .. counter : f[k] = k
<1> DEFINE keep == DOMAIN prog \ Doomed(min, max)
<1>1. /\ prog \in Seq(Stmts) /\ counter \in Nat /\ Len(prog) \in Nat /\ DOMAIN prog = 1 .. Len(prog)
      /\ prog' \in Seq(Stmts) /\ Len(prog') \in Nat /\ DOMAIN prog' = 1 .. Len(prog')
      /\ counter < Len(prog)
    BY DEF ProgInv, ProgTypeOK, HasNext
<1>2. /\ f \in [1 .. Len(prog') -> keep]
      /\ \A j, k \in 1 .. Len(prog') : j < k => f[j] < f[k]
      /\ \A k \in 1 .. Len(prog') : prog'[k] = prog[f[k]]
      /\ \A i \in keep : \E k \in 1 .. Len(prog') : f[k] = i
    BY DEF Survivors
<1>3. \A k \in 1 .. Len(prog') : f[k] \in 1 .. Len(prog) BY <1>1, <1>2
<1>4. CASE Len(prog') < Len(prog)
  <2> DEFINE passed == SubSeq(prog, 1, counter)
  <2>1. IsPrefix(passed, prog') BY <1>4 DEF SparesPassed, AtEnd
  <2>2. Len(passed) = counter /\ \A k \in 1 .. counter : passed[k] = prog[k] BY <1>1
  <2> HIDE DEF passed
  <2>3. Len(passed) <= Len(prog') /\ SubSeq(passed, 1, Len(passed)) = SubSeq(prog', 1, Len(passed))
      BY <2>1 DEF IsPrefix
  <2>4. \A k \in 1 .. counter : SubSeq(passed, 1, counter)[k] = SubSeq(prog', 1, counter)[k]
      BY <2>2, <2>3
  <2>5. \A k \in 1 .. counter : prog'[k] = prog[k]
    <3>1. passed \in Seq(Stmts) /\ counter <= Len(prog') BY <1>1, <2>2, <2>3 DEF passed
    <3>2. \A k \in 1 .. counter : SubSeq(prog', 1, counter)[k] = prog'[k] BY <1>1, <3>1
    <3>3. \A k \in 1 .. counter : SubSeq(passed, 1, counter)[k] = passed[k]
        BY <1>1, <2>2, <3>1
    <3> QED BY <2>2, <2>4, <3>2, <3>3
  <2>6. ASSUME NEW k \in 1 .. counter PROVE f[k] = k
    <3>1. k \in 1 .. Len(prog') BY <1>1, <2>2, <2>3
    <3>2. k \in DOMAIN prog /\ f[k] \in DOMAIN prog BY <1>1, <1>3, <3>1
    <3>3. prog[f[k]] = prog[k] BY <1>2, <2>5, <3>1
    <3> QED BY <3>2, <3>3 DEF ProgInv, LinesUnique
  <2> QED BY <2>2, <2>3, <2>6
<1>5. CASE ~(Len(prog') < Len(prog))
  <2>1. keep = DOMAIN prog
    <3>1. Subsequence(keep) BY DEF prog_delete
    <3>2. Len(prog') = Cardinality(keep) BY <1>1, <3>1, KeptStatements
    <3>3. /\ Cardinality(keep) = Len(prog) - Cardinality(Doomed(min, max))
          /\ Cardinality(Doomed(min, max)) \in Nat /\ Doomed(min, max) \subseteq DOMAIN prog
        BY <1>1, DoomedCounted
    <3>4. IsFiniteSet(Doomed(min, max))
      <4>1. IsFiniteSet(DOMAIN prog) BY <1>1, FS_Interval
      <4> QED BY <3>3, <4>1, FS_Subset
    <3>5. Cardinality(Doomed(min, max)) = 0 BY <1>1, <1>5, <3>2, <3>3
    <3>6. Doomed(min, max) = {} BY <3>4, <3>5, FS_EmptySet
    <3> QED BY <3>6
  <2> HIDE DEF keep
  <2>2. Len(prog) <= Len(prog') BY <1>1, <1>5
  <2>3. \A k \in 1 .. Len(prog') : f[k] = k
    <3> DEFINE moved == {k \in 1 .. Len(prog') : f[k] # k}
    <3> SUFFICES ASSUME moved # {} PROVE FALSE OBVIOUS
    <3>1. PICK k \in moved : \A j \in moved : k <= j
      <4>1. moved \in SUBSET Nat BY <1>1
      <4> HIDE DEF moved
      <4> QED BY <4>1, FirstExists
    <3>2. k \in 1 .. Len(prog') /\ f[k] # k /\ f[k] \in 1 .. Len(prog) BY <1>3
    <3>3. \A j \in 1 .. Len(prog') : j < k => f[j] = j BY <1>1, <3>1
    <3>4. f[k] > k
      <4>1. CASE f[k] < k
        <5>1. f[k] \in 1 .. Len(prog') BY <1>1, <3>2, <4>1
        <5>2. f[f[k]] = f[k] BY <3>3, <4>1, <5>1
        <5>3. f[f[k]] < f[k] BY <1>2, <3>2, <4>1, <5>1
        <5>4. f[k] \in Int BY <3>2
        <5> QED BY <5>2, <5>3, <5>4
      <4> QED BY <3>2, <4>1
    <3>5. k \in DOMAIN prog BY <1>1, <3>2, <3>4
    <3>6. PICK j \in 1 .. Len(prog') : f[j] = k BY <1>2, <2>1, <3>5
    <3>7. CASE j < k BY <3>3, <3>6, <3>7
    <3>8. CASE j > k
      <4>1. f[k] < f[j] BY <1>2, <3>2, <3>6, <3>8
      <4> QED BY <1>1, <3>2, <3>4, <3>6, <4>1
    <3> QED BY <1>1, <3>2, <3>6, <3>7, <3>8
  <2> QED BY <1>1, <2>2, <2>3
<1> QED BY <1>4, <1>5

LEMMA DeletionDeletes ==
    ASSUME ProgInv, ProgInv', Increasing(prog), Increasing(prog'),
           NEW min \in Lines, NEW max \in Lines, prog_delete(min, max), SparesPassed
    PROVE  Store!Delete(min, max)
<1> DEFINE keep == DOMAIN prog \ Doomed(min, max)
           left == StoredLines \ (min .. max)
<1>1. /\ prog \in Seq(Stmts) /\ counter \in Nat /\ counter' = counter
      /\ Len(prog) \in Nat /\ DOMAIN prog = 1 .. Len(prog)
      /\ prog' \in Seq(Stmts) /\ Len(prog') \in Nat /\ DOMAIN prog' = 1 .. Len(prog')
    BY DEF ProgInv, ProgTypeOK, prog_delete
<1>2. PICK f : Survivors(f, keep) BY DeletionKeeps
<1>3. /\ f \in [1 .. Len(prog') -> keep]
      /\ \A j, k \in 1 .. Len(prog') : j < k => f[j] < f[k]
      /\ \A k \in 1 .. Len(prog') : prog'[k] = prog[f[k]]
      /\ \A i \in keep : \E k \in 1 .. Len(prog') : f[k] = i
    BY <1>2 DEF Survivors
<1>4. Maps /\ Maps' BY MapsNow, MapsThen
<1>5. /\ StoredLines \subseteq Nat /\ \A m \in StoredLines : m < End
      /\ \A i \in 1 .. Len(prog) : prog[i].lineno \in Nat /\ prog[i].lineno \in StoredLines
      /\ End \in Nat
    BY <1>1, LinesAreNumbers, AboveAssumption
<1>6. \A i \in DOMAIN prog : i \in keep <=> prog[i].lineno \in left
    BY <1>1, <1>5 DEF Doomed
<1>7. \A k \in 1 .. Len(prog') : f[k] \in keep /\ f[k] \in 1 .. Len(prog) BY <1>1, <1>3
<1> HIDE DEF keep
<1>8. StoredLines' = left
  <2>1. \A k \in 1 .. Len(prog') : prog'[k].lineno \in left BY <1>1, <1>3, <1>6, <1>7
  <2>2. ASSUME NEW m \in left PROVE m \in StoredLines'
    <3>1. PICK i \in DOMAIN prog : m = prog[i].lineno BY DEF StoredLines
    <3>2. PICK k \in 1 .. Len(prog') : f[k] = i BY <1>3, <1>6, <3>1
    <3> QED BY <1>1, <1>3, <3>1, <3>2 DEF StoredLines
  <2> QED BY <1>1, <2>1, <2>2 DEF StoredLines
<1>9. \A m \in left : \E k \in 1 .. Len(prog') : m = prog'[k].lineno
    BY <1>1, <1>8 DEF StoredLines
<1>10. \A k \in 1 .. Len(prog') : prog'[k].lineno \in left
    BY <1>1, <1>8 DEF StoredLines
<1>11. left \subseteq StoredLines OBVIOUS
<1> HIDE DEF left
<1>12. StoredStmts' = [m \in left |-> StoredStmts[m]]
  <2>1. ASSUME NEW m \in left PROVE StoredStmts'[m] = StoredStmts[m]
    <3>1. PICK k \in 1 .. Len(prog') : m = prog'[k].lineno BY <1>9
    <3>2. StoredStmts'[m] = prog'[k].body BY <1>1, <1>4, <3>1 DEF Maps
    <3>3. prog'[k] = prog[f[k]] /\ f[k] \in DOMAIN prog BY <1>1, <1>3, <1>7
    <3>4. StoredStmts[m] = prog[f[k]].body BY <1>4, <3>1, <3>3 DEF Maps
    <3> QED BY <3>2, <3>3, <3>4
  <2> QED BY <1>4, <1>8, <2>1 DEF Maps
<1>13. Position' = Store!First({m \in left : Position <= m})
  <2>1. CASE ~HasNext
    <3>1. Position = End BY <2>1 DEF Position
    <3>2. {m \in left : Position <= m} = {}
      <4>1. \A m \in left : m \in Nat /\ m < End BY <1>5, <1>11
      <4>2. \A m \in left : ~(End <= m) BY <1>5, <4>1
      <4> QED BY <3>1, <4>2
    <3>3. Len(prog') \in Nat /\ Len(prog') <= Len(prog) BY DeletionShortens
    <3>4. ~HasNext' BY <1>1, <2>1, <3>3 DEF HasNext
    <3>5. Position' = End BY <3>4 DEF Position
    <3> QED BY <3>2, <3>5, FirstOfNone
  <2>2. CASE HasNext
    <3> DEFINE here == prog[counter + 1].lineno
    <3>1. /\ Position = here /\ counter + 1 \in 1 .. Len(prog) /\ here \in Nat
        BY <1>1, <1>5, <2>2 DEF Position, prog_fetch, HasNext
    <3>2. counter <= Len(prog') /\ \A k \in 1 .. counter : f[k] = k
      <4>1. Survivors(f, DOMAIN prog \ Doomed(min, max)) BY <1>2 DEF keep
      <4> QED BY <2>2, <4>1, PassedStay, ZenonT(30)
    <3>3. ASSUME NEW k \in 1 .. Len(prog') PROVE k <= counter <=> prog'[k].lineno < here
      <4>1. k \in Nat /\ f[k] \in 1 .. Len(prog) /\ prog'[k].lineno = prog[f[k]].lineno
          BY <1>1, <1>3, <1>7
      <4>2. CASE k <= counter
        <5>1. f[k] = k BY <1>1, <3>2, <4>1, <4>2
        <5>2. k < counter + 1 /\ k \in DOMAIN prog BY <1>1, <3>1, <4>1, <4>2
        <5> QED BY <1>1, <3>1, <4>1, <4>2, <5>1, <5>2 DEF Increasing
      <4>3. CASE k > counter
        <5>1. f[k] >= counter + 1
          <6>1. CASE counter = 0 BY <4>1, <6>1
          <6>2. CASE counter > 0
            <7>1. counter \in 1 .. Len(prog') /\ f[counter] = counter BY <1>1, <3>2, <6>2
            <7>2. f[counter] < f[k] BY <1>3, <4>3, <7>1
            <7> QED BY <1>1, <4>1, <7>1, <7>2
          <6> QED BY <1>1, <6>1, <6>2
        <5>2. CASE f[k] = counter + 1 BY <3>1, <4>1, <4>3, <1>1, <5>2
        <5>3. CASE f[k] > counter + 1
          <6>1. here < prog[f[k]].lineno BY <1>1, <3>1, <4>1, <5>3 DEF Increasing
          <6> QED BY <1>1, <1>5, <3>1, <4>1, <4>3, <6>1
        <5> QED BY <1>1, <4>1, <5>1, <5>2, <5>3
      <4> QED BY <1>1, <4>1, <4>2, <4>3
    <3> HIDE DEF here
    <3>4. \A m \in left : m \in Nat BY <1>5, <1>11
    <3>5. CASE counter < Len(prog')
      <4> DEFINE next == prog'[counter + 1].lineno
      <4>1. counter + 1 \in 1 .. Len(prog') BY <1>1, <3>5
      <4>2. next \in left /\ next \in Nat /\ here <= next
        <5>1. next \in left /\ next \in Nat BY <1>10, <3>4, <4>1
        <5>2. ~(next < here) BY <1>1, <3>3, <4>1
        <5> QED BY <3>1, <5>1, <5>2
      <4>3. ASSUME NEW m \in left, here <= m PROVE next <= m
        <5>1. PICK k \in 1 .. Len(prog') : m = prog'[k].lineno BY <1>9
        <5>2. ~(m < here) BY <3>1, <3>4, <4>3
        <5>3. k > counter BY <1>1, <3>3, <5>1, <5>2
        <5>4. CASE k = counter + 1 BY <3>4, <5>1, <5>4
        <5>5. CASE k > counter + 1
          <6>1. next < m BY <1>1, <4>1, <5>1, <5>5 DEF Increasing
          <6> QED BY <3>4, <4>2, <6>1
        <5> QED BY <1>1, <5>3, <5>4, <5>5
      <4>4. Position' = next
        <5>1. HasNext' BY <1>1, <3>5 DEF HasNext
        <5> QED BY <1>1, <5>1 DEF Position, prog_fetch
      <4> DEFINE beyond == {m \in left : here <= m}
      <4>5. beyond \in SUBSET Int /\ next \in beyond /\ \A m \in beyond : next <= m
          BY <3>4, <4>2, <4>3
      <4> HIDE DEF next, beyond
      <4>6. Store!First(beyond) = next BY <4>5, FirstIs
      <4> QED BY <3>1, <4>4, <4>6 DEF beyond
    <3>6. CASE ~(counter < Len(prog'))
      <4>1. Position' = End BY <1>1, <3>6 DEF Position, HasNext
      <4>2. ASSUME NEW m \in left PROVE ~(here <= m)
        <5>1. PICK k \in 1 .. Len(prog') : m = prog'[k].lineno BY <1>9
        <5>2. m < here BY <1>1, <3>3, <3>6, <5>1
        <5> QED BY <3>1, <3>4, <5>2
      <4>3. {m \in left : Position <= m} = {} BY <3>1, <4>2
      <4> QED BY <4>1, <4>3, FirstOfNone
    <3> QED BY <3>5, <3>6
  <2> QED BY <2>1, <2>2
<1>14. Store!Stored = StoredLines BY <1>4 DEF Store!Stored, Maps
<1> QED BY <1>12, <1>13, <1>14 DEF Store!Delete, left

LEMMA ResetResets == ASSUME ProgInv, ProgInv', Increasing(prog), prog_reset PROVE Store!Reset
<1>1. /\ prog \in Seq(Stmts) /\ Len(prog) \in Nat /\ DOMAIN prog = 1 .. Len(prog)
      /\ prog' = prog /\ counter' = 0
    BY DEF ProgInv, ProgTypeOK, prog_reset
<1>2. StoredStmts' = StoredStmts BY <1>1 DEF StoredStmts, StoredLines, At
<1>3. Store!Stored = StoredLines BY MapsNow DEF Store!Stored, Maps
<1>4. CASE Len(prog) = 0
  <2>1. StoredLines = {} BY <1>1, <1>4 DEF StoredLines
  <2>2. Position' = End BY <1>1, <1>4 DEF Position, HasNext
  <2> QED BY <1>2, <1>3, <2>1, <2>2, FirstOfNone DEF Store!Reset
<1>5. CASE Len(prog) > 0
  <2> DEFINE first == prog[1].lineno
  <2>1. Position' = first BY <1>1, <1>5 DEF Position, HasNext, prog_fetch
  <2>2. StoredLines \subseteq Nat /\ first \in StoredLines /\ first \in Nat
      BY <1>1, <1>5, LinesAreNumbers
  <2>3. ASSUME NEW m \in StoredLines PROVE first <= m
    <3>1. PICK k \in 1 .. Len(prog) : m = prog[k].lineno BY <1>1 DEF StoredLines
    <3>2. CASE k = 1 BY <2>2, <3>1, <3>2
    <3>3. CASE k > 1
      <4>1. first < m BY <1>1, <1>5, <3>1, <3>3 DEF Increasing
      <4> QED BY <2>2, <4>1
    <3> QED BY <1>1, <3>2, <3>3
  <2> HIDE DEF first
  <2>4. StoredLines \in SUBSET Int BY <2>2
  <2>5. Store!First(StoredLines) = first BY <2>2, <2>3, <2>4, FirstIs
  <2> QED BY <1>2, <1>3, <2>1, <2>5 DEF Store!Reset
<1> QED BY <1>1, <1>4, <1>5

LEMMA NextAdvances == ASSUME ProgInv, ProgInv', Increasing(prog), prog_next PROVE Store!Advance
<1> DEFINE here == prog[counter + 1].lineno
           beyond == {m \in StoredLines : here < m}
<1>1. /\ prog \in Seq(Stmts) /\ Len(prog) \in Nat /\ DOMAIN prog = 1 .. Len(prog)
      /\ counter \in Nat /\ counter < Len(prog)
      /\ prog' = prog /\ counter' = counter + 1
    BY DEF ProgInv, ProgTypeOK, prog_next, HasNext
<1>2. StoredStmts' = StoredStmts BY <1>1 DEF StoredStmts, StoredLines, At
<1>3. Store!Stored = StoredLines BY MapsNow DEF Store!Stored, Maps
<1>4. /\ StoredLines \subseteq Nat /\ \A m \in StoredLines : m < End
      /\ \A i \in 1 .. Len(prog) : prog[i].lineno \in Nat /\ prog[i].lineno \in StoredLines
    BY <1>1, LinesAreNumbers
<1>5. counter + 1 \in 1 .. Len(prog) BY <1>1
<1>6. Position = here BY <1>1 DEF Position, HasNext, prog_fetch
<1>7. here \in Nat /\ here < End /\ here # End
  <2>1. here \in Nat /\ here < End BY <1>4, <1>5
  <2> QED BY <2>1, AboveAssumption
<1>8. Position' = Store!First(beyond)
  <2>1. CASE counter + 1 < Len(prog)
    <3> DEFINE next == prog[counter + 1 + 1].lineno
    <3>1. Position' = next BY <1>1, <2>1 DEF Position, HasNext, prog_fetch
    <3>2. counter + 1 + 1 \in 1 .. Len(prog) BY <1>1, <2>1
    <3>3. next \in StoredLines /\ next \in Nat BY <1>4, <3>2
    <3>4. here < next BY <1>1, <1>5, <3>2 DEF Increasing
    <3>5. ASSUME NEW m \in StoredLines, here < m PROVE next <= m
      <4>1. PICK k \in 1 .. Len(prog) : m = prog[k].lineno BY <1>1 DEF StoredLines
      <4>2. CASE k < counter + 1
        <5>1. m < here BY <1>1, <1>5, <4>1, <4>2 DEF Increasing
        <5> QED BY <1>4, <1>7, <3>5, <5>1
      <4>3. CASE k = counter + 1 BY <1>7, <3>5, <4>1, <4>3
      <4>4. CASE k = counter + 1 + 1 BY <3>3, <4>1, <4>4
      <4>5. CASE k > counter + 1 + 1
        <5>1. next < m BY <1>1, <3>2, <4>1, <4>5 DEF Increasing
        <5> QED BY <1>4, <3>3, <5>1
      <4> QED BY <1>1, <4>2, <4>3, <4>4, <4>5
    <3> HIDE DEF next, here
    <3>6. beyond \in SUBSET Int
      <4>1. \A m \in StoredLines : m \in Int BY <1>4
      <4>2. \A m \in beyond : m \in StoredLines OBVIOUS
      <4> HIDE DEF beyond
      <4> QED BY <4>1, <4>2
    <3>7. next \in beyond BY <3>3, <3>4
    <3>8. \A m \in beyond : next <= m BY <3>5
    <3> HIDE DEF beyond
    <3> QED BY <3>1, <3>6, <3>7, <3>8, FirstIs
  <2>2. CASE ~(counter + 1 < Len(prog))
    <3>1. Position' = End BY <1>1, <2>2 DEF Position, HasNext
    <3>2. ASSUME NEW m \in StoredLines PROVE ~(here < m)
      <4>1. PICK k \in 1 .. Len(prog) : m = prog[k].lineno BY <1>1 DEF StoredLines
      <4>2. CASE k < counter + 1
        <5>1. m < here BY <1>1, <1>5, <4>1, <4>2 DEF Increasing
        <5> QED BY <1>4, <1>7, <5>1
      <4>3. CASE k = counter + 1 BY <1>7, <4>1, <4>3
      <4> QED BY <1>1, <2>2, <4>2, <4>3
    <3>3. beyond = {} BY <3>2
    <3> QED BY <3>1, <3>3, FirstOfNone
  <2> QED BY <2>1, <2>2
<1> HIDE DEF here
<1> QED BY <1>2, <1>3, <1>6, <1>7, <1>8 DEF Store!Advance

LEMMA GoToGoes ==
    ASSUME ProgInv, ProgInv', NEW n \in Lines, prog_goto(n) PROVE Store!GoTo(n)
<1>1. prog \in Seq(Stmts) /\ prog' = prog BY DEF ProgInv, ProgTypeOK, prog_goto
<1>2. PICK i \in At(n) : counter' = i - 1 BY DEF prog_goto
<1>3. i \in 1 .. Len(prog) /\ prog[i].lineno = n /\ Len(prog) \in Nat BY <1>1, <1>2 DEF At
<1>4. StoredStmts' = StoredStmts BY <1>1 DEF StoredStmts, StoredLines, At
<1>5. n \in Store!Stored
  <2>1. n \in StoredLines BY <1>1, <1>3 DEF StoredLines
  <2> QED BY <2>1, MapsNow DEF Store!Stored, Maps
<1>6. Position' = n
  <2>1. HasNext' /\ counter' + 1 = i BY <1>1, <1>2, <1>3 DEF HasNext
  <2> QED BY <1>1, <1>3, <2>1 DEF Position, prog_fetch
<1> QED BY <1>4, <1>5, <1>6 DEF Store!GoTo

LEMMA StepKeepsPromise ==
    ContractInv /\ ContractInv' /\ [ContractNext]_cvars
        => [orderly' => [Store!Next]_(Store!vars)]_cvars
<1> SUFFICES ASSUME ContractInv, ContractInv', ContractNext, orderly'
             PROVE  [Store!Next]_(Store!vars)
    BY DEF cvars
<1>1. /\ ProgInv /\ ProgInv' /\ Increasing(prog) /\ Increasing(prog')
      /\ ProgNext /\ TypedInOrder /\ SparesPassed
    BY DEF ContractInv, ContractNext
<1>2. ASSUME NEW stmt \in Stmts, prog_insert(stmt) PROVE Store!Next
  <2>1. stmt.lineno \in Lines /\ stmt.body \in Bodies BY DEF Stmts
  <2>2. Store!Insert(stmt.lineno, stmt.body)
      BY <1>1, <1>2, ReplaceInserts, AppendInserts DEF prog_insert
  <2> QED BY <2>1, <2>2 DEF Store!Next
<1>3. ASSUME NEW min \in Lines, NEW max \in Lines, prog_delete(min, max) PROVE Store!Next
  <2>1. Store!Delete(min, max) BY <1>1, <1>3, DeletionDeletes
  <2> QED BY <2>1 DEF Store!Next
<1>4. CASE prog_reset BY <1>1, <1>4, ResetResets DEF Store!Next
<1>5. CASE prog_next BY <1>1, <1>5, NextAdvances DEF Store!Next
<1>6. ASSUME NEW lineno \in Lines, prog_goto(lineno) PROVE Store!Next
  <2>1. Store!GoTo(lineno) BY <1>1, <1>6, GoToGoes
  <2> QED BY <2>1 DEF Store!Next
<1> QED BY <1>1, <1>2, <1>3, <1>4, <1>5, <1>6 DEF ProgNext

\* As long as it is used in the way of the scripts, program.c implements what its
\* comments promise, for any line numbers: every call does to the numbered
\* statements and to the position what ProgramStore says.
THEOREM PromiseIsKept == ContractSpec => KeepsPromise
<1>1. ProgInit => Store!Init
  <2> SUFFICES ASSUME ProgInit PROVE Store!Init OBVIOUS
  <2>1. prog = <<>> /\ counter = 0 BY DEF ProgInit
  <2>2. StoredLines = {} BY <2>1 DEF StoredLines
  <2>3. StoredStmts = [n \in {} |-> n] BY <2>2 DEF StoredStmts
  <2>4. Position = End BY <2>1 DEF Position, HasNext
  <2> QED BY <2>3, <2>4 DEF Store!Init
<1> QED BY <1>1, ContractInvAlways, StepKeepsPromise, PTL DEF ContractSpec, ContractInit, KeepsPromise

-----------------------------------------------------------------------------
(* Deletion ahead of the counter.                                              *)

LEMMA NextStays ==
    ASSUME ProgInv, ProgInv', NEW min, NEW max, prog_delete(min, max), HasNext,
           IsPrefix(SubSeq(prog, 1, counter), prog'), prog_fetch \in Range(prog')
    PROVE  HasNext' /\ prog_fetch' = prog_fetch
<1> DEFINE keep == DOMAIN prog \ Doomed(min, max)
<1>1. /\ prog \in Seq(Stmts) /\ counter \in Nat /\ counter' = counter
      /\ Len(prog) \in Nat /\ DOMAIN prog = 1 .. Len(prog) /\ counter < Len(prog)
      /\ prog' \in Seq(Stmts) /\ Len(prog') \in Nat /\ DOMAIN prog' = 1 .. Len(prog')
    BY DEF ProgInv, ProgTypeOK, prog_delete, HasNext
<1>2. PICK f : Survivors(f, keep) BY DeletionKeeps
<1>3. counter <= Len(prog') /\ \A k \in 1 .. counter : f[k] = k
  <2>1. SparesPassed BY DEF SparesPassed
  <2>2. Survivors(f, DOMAIN prog \ Doomed(min, max)) BY <1>2
  <2> QED BY <2>1, <2>2, PassedStay, ZenonT(30)
<1>4. /\ \A j, k \in 1 .. Len(prog') : j < k => f[j] < f[k]
      /\ \A k \in 1 .. Len(prog') : prog'[k] = prog[f[k]] /\ f[k] \in 1 .. Len(prog)
    BY <1>1, <1>2 DEF Survivors
<1>5. PICK j \in 1 .. Len(prog') : prog'[j] = prog[counter + 1]
    BY <1>1 DEF Range, prog_fetch
<1>6. f[j] = counter + 1
  <2>1. f[j] \in DOMAIN prog /\ counter + 1 \in DOMAIN prog BY <1>1, <1>4
  <2>2. prog[f[j]] = prog[counter + 1] BY <1>4, <1>5
  <2> QED BY <2>1, <2>2 DEF ProgInv, LinesUnique
<1>7. j > counter
  <2> SUFFICES ASSUME j <= counter PROVE FALSE BY <1>1
  <2>1. f[j] = j BY <1>1, <1>3
  <2> QED BY <1>1, <1>6, <2>1
<1>8. CASE j > counter + 1
  <2>1. counter + 1 \in 1 .. Len(prog') BY <1>1, <1>8
  <2>2. f[counter + 1] < counter + 1 /\ f[counter + 1] \in 1 .. Len(prog)
      BY <1>4, <1>6, <1>8, <2>1
  <2>3. f[counter + 1] \in 1 .. counter BY <1>1, <2>2
  <2>4. f[f[counter + 1]] = f[counter + 1] BY <1>3, <2>3
  <2>5. f[counter + 1] \in 1 .. Len(prog') /\ f[counter + 1] < counter + 1 BY <1>1, <1>3, <2>3
  <2>6. f[f[counter + 1]] < f[counter + 1] BY <1>4, <2>1, <2>5
  <2> QED BY <2>2, <2>4, <2>6
<1>9. CASE j = counter + 1
  <2>1. HasNext' BY <1>1, <1>9 DEF HasNext
  <2> QED BY <1>1, <1>5, <1>9, <2>1 DEF prog_fetch
<1> QED BY <1>1, <1>7, <1>8, <1>9

\* What is deleted ahead of the counter does not change the statement that comes
\* next, if that is not itself deleted (program.c:129).
THEOREM DeletionAheadIsSafe == ContractSpec => DeletionAheadKeepsNext
<1> DEFINE Ahead == HasNext /\ Len(prog') < Len(prog)
                      /\ IsPrefix(SubSeq(prog, 1, counter), prog')
                      /\ prog_fetch \in Range(prog')
<1>1. ProgInv /\ ProgInv' /\ [ProgNext]_pvars
          => [Ahead => HasNext' /\ prog_fetch' = prog_fetch]_pvars
  <2> SUFFICES ASSUME ProgInv, ProgInv', ProgNext, Ahead
               PROVE  HasNext' /\ prog_fetch' = prog_fetch
      BY DEF pvars
  <2>1. prog \in Seq(Stmts) /\ Len(prog) \in Nat BY DEF ProgInv, ProgTypeOK
  <2>2. ASSUME NEW stmt \in Stmts, prog_insert(stmt) PROVE Len(prog') >= Len(prog)
      BY <2>1, <2>2 DEF prog_insert, Replace, AppendStmt
  <2>3. PICK min \in Lines, max \in Lines : prog_delete(min, max)
      BY <2>1, <2>2 DEF ProgNext, prog_reset, prog_next, prog_goto
  <2> QED BY <2>3, NextStays
<1> QED BY <1>1, InvAlways, ContractIsProgram, PTL DEF DeletionAheadKeepsNext, ProgSpec

-----------------------------------------------------------------------------
(* The invariant of the job table.                                             *)

\* The part of the invariant that the table and ID alone decide.
TableInv(js, n) ==
    /\ js \in Seq(Job)
    /\ n = Len(js)
    /\ \A i \in DOMAIN js : i <= js[i].id + 1

CallInv ==
    /\ call.op \in {"none", "fgets", "wait", "pause", "show", "exited"}
    /\ call.at \in 0 .. Len(jobs)
    /\ call.pid \in Pids \cup {AnyPid, NoPid}
    /\ call.op = "fgets" => call.pid # NoPid

ProcInv == procs \in [Pids -> ProcStates]

JobsInv == TableInv(jobs, ID) /\ ProcInv /\ CallInv

-----------------------------------------------------------------------------
(* The operators on the table. *)

LEMMA FindInRange ==
    ASSUME NEW js \in Seq(Job), NEW id
    PROVE  /\ Find(js, id) \in 0 .. Len(js)
           /\ Find(js, id) # 0 => Find(js, id) \in Hits(js, id)
<1>1. CASE Hits(js, id) = {}
  BY <1>1 DEF Find
<1>2. CASE Hits(js, id) # {}
  <2>1. Hits(js, id) \in SUBSET Nat
    BY DEF Hits
  <2>2. \E i \in Hits(js, id) : \A k \in Hits(js, id) : i <= k
    BY <1>2, <2>1, FirstExists
  <2>3. Find(js, id) \in Hits(js, id)
    BY <1>2, <2>2, Zenon DEF Find
  <2> QED BY <2>3 DEF Hits
<1> QED BY <1>1, <1>2

\* Marking an entry changes neither the length of the table nor an ID.
LEMMA SetStatusKeepsTable ==
    ASSUME NEW at \in 0 .. Len(jobs), NEW s \in Status, TableInv(jobs, ID)
    PROVE  /\ TableInv(SetStatus(at, s), ID)
           /\ Len(SetStatus(at, s)) = Len(jobs)
<1>1. CASE at = 0
  BY <1>1 DEF SetStatus, TableInv
<1>2. CASE at # 0
  <2> DEFINE js == [jobs EXCEPT ![at].status = s]
  <2>1. SetStatus(at, s) = js
    BY <1>2 DEF SetStatus
  <2>2. jobs[at] \in Job
    BY <1>2 DEF TableInv
  <2>3. [jobs[at] EXCEPT !.status = s] \in Job
    BY <2>2 DEF Job
  <2>4. js = [jobs EXCEPT ![at] = [jobs[at] EXCEPT !.status = s]]
    BY DEF TableInv
  <2>5. js \in Seq(Job) /\ Len(js) = Len(jobs)
    BY <1>2, <2>3, <2>4, ExceptSeq DEF TableInv
  <2>6. \A i \in 1 .. Len(jobs) : js[i].id = jobs[i].id
    BY <1>2, <2>2 DEF TableInv, Job
  <2> QED BY <2>1, <2>5, <2>6 DEF TableInv
<1> QED BY <1>1, <1>2

LEMMA JudgedKeepsTable ==
    ASSUME NEW at \in 0 .. Len(jobs), NEW w, TableInv(jobs, ID)
    PROVE  TableInv(Judged(at, w), ID) /\ Len(Judged(at, w)) = Len(jobs)
<1>1. "completed" \in Status
  BY DEF Status
<1> QED BY <1>1, SetStatusKeepsTable DEF Judged

\* Expunging an entry moves those behind it forward, gives its ID back, and so
\* keeps both facts.
LEMMA ExpungeKeepsTable ==
    ASSUME NEW js, NEW id, TableInv(js, ID), jobs_expunge(js, id)
    PROVE  TableInv(jobs', ID')
<1> DEFINE at == Find(js, id)
<1>1. js \in Seq(Job) /\ ID = Len(js)
  BY DEF TableInv
<1>2. at \in 0 .. Len(js)
  BY <1>1, FindInRange
<1>3. CASE at # 0 /\ js[at].status = "completed"
  <2>1. jobs' = RemoveAt(js, at) /\ ID' = ID - 1
    BY <1>3 DEF jobs_expunge
  <2>2. at \in 1 .. Len(js)
    BY <1>2, <1>3
  <2> HIDE DEF at
  <2>3. /\ jobs' \in Seq(Job)
        /\ Len(jobs') = Len(js) - 1
        /\ \A k \in 1 .. Len(js) - 1 : jobs'[k] = IF k < at THEN js[k] ELSE js[k + 1]
    BY <1>1, <2>1, <2>2, RemoveAtProperties
  <2>4. \A k \in 1 .. Len(js) : js[k].id \in Nat /\ k <= js[k].id + 1
    <3>1. \A k \in 1 .. Len(js) : js[k] \in Job
      BY <1>1
    <3>2. \A k \in 1 .. Len(js) : js[k].id \in Nat
      BY <3>1 DEF Job
    <3> QED BY <1>1, <3>2 DEF TableInv
  <2>5. \A k \in 1 .. Len(js) - 1 : k <= jobs'[k].id + 1
    <3> SUFFICES ASSUME NEW k \in 1 .. Len(js) - 1
                 PROVE  k <= jobs'[k].id + 1
      OBVIOUS
    <3>1. CASE k < at
      BY <2>3, <2>4, <3>1
    <3>2. CASE ~(k < at)
      <4>1. jobs'[k] = js[k + 1] /\ k + 1 \in 1 .. Len(js)
        BY <1>1, <2>3, <3>2
      <4> QED BY <2>4, <4>1
    <3> QED BY <3>1, <3>2
  <2> QED BY <1>1, <2>1, <2>3, <2>5 DEF TableInv
<1>4. CASE ~(at # 0 /\ js[at].status = "completed")
  BY <1>4 DEF jobs_expunge
<1> QED BY <1>3, <1>4

\* A new entry has the table size as its ID and goes to the end.
LEMMA NewJobKeepsInv ==
    ASSUME TableInv(jobs, ID), NEW p \in Pids \cup {AnyPid}, NEW captures \in BOOLEAN,
           NEW msg \in Msg, NEW stmt, NewJob(p, captures, msg, stmt)
    PROVE  TableInv(jobs', ID') /\ CallInv'
<1> DEFINE job == [id |-> ID, pid |-> p, status |-> "running",
                   captures |-> captures, msg |-> msg]
<1>1. jobs' = Append(jobs, job) /\ ID' = ID + 1
  BY DEF NewJob
<1>2. job \in Job
  BY DEF TableInv, Job, Status
<1> HIDE DEF job
<1>3. /\ jobs' \in Seq(Job)
      /\ Len(jobs') = Len(jobs) + 1
      /\ \A i \in 1 .. Len(jobs) : jobs'[i] = jobs[i]
      /\ jobs'[Len(jobs) + 1] = job
  BY <1>1, <1>2, AppendProperties DEF TableInv
<1>4. TableInv(jobs', ID')
  BY <1>1, <1>3 DEF TableInv, job
<1>5. CallInv'
  <2>1. CASE stmt = "fg"
    <3> DEFINE at == Find(jobs', ID)
    <3>1. at \in 0 .. Len(jobs') /\ (at # 0 => at \in Hits(jobs', ID))
      BY <1>3, FindInRange
    <3>2. Len(jobs) + 1 \in Hits(jobs', ID)
      BY <1>3 DEF Hits, job, TableInv
    <3>3. at # 0
      <4>1. Hits(jobs', ID) # {} /\ Hits(jobs', ID) \in SUBSET (Nat \ {0})
        BY <1>3, <3>2 DEF Hits
      <4>2. \E i \in Hits(jobs', ID) : \A k \in Hits(jobs', ID) : i <= k
        BY <4>1, FirstExists
      <4>3. at \in Hits(jobs', ID)
        BY <4>1, <4>2, Zenon DEF Find
      <4> QED BY <4>1, <4>3
    <3>4. jobs'[at].pid \in Pids \cup {AnyPid}
      <4>1. jobs'[at] \in Job
        BY <1>3, <3>1, <3>3
      <4> QED BY <4>1 DEF Job
    <3>5. call' = [op |-> "wait", arg |-> "fg", id |-> ID, at |-> at, pid |-> jobs'[at].pid]
      BY <2>1, Zenon DEF NewJob, Calls
    <3> HIDE DEF at
    <3> QED BY <3>1, <3>4, <3>5 DEF CallInv
  <2>2. CASE stmt # "fg"
    BY <2>2, <1>3 DEF NewJob, CallInv, NoCall
  <2> QED BY <2>1, <2>2
<1> QED BY <1>4, <1>5

-----------------------------------------------------------------------------
(* The steps. *)

LEMMA ReapsKeepsProcs ==
    ASSUME ProcInv, NEW pid, NEW w, Reaps(pid, w) \/ NotWritten(w)
    PROVE  ProcInv'
  BY DEF ProcInv, Reaps, NotWritten, ProcStates

LEMMA KillKeepsProcs ==
    ASSUME ProcInv, NEW pids, Kill(pids)
    PROVE  ProcInv'
  BY DEF ProcInv, Kill, ProcStates, Alive

LEMMA ForkKeepsProcs ==
    ASSUME ProcInv, NEW p, Fork(p)
    PROVE  ProcInv'
  BY DEF ProcInv, Fork, ProcStates, Alive

\* A walk over the table blocks on entries only.
LEMMA NextEntryKeepsCall ==
    ASSUME TableInv(jobs, ID), CallInv, Len(jobs') = Len(jobs),
           NEW op \in {"pause", "show"}, NEW arg, NextEntry(op, arg)
    PROVE  CallInv'
<1>1. CASE call.at = Len(jobs)
  BY <1>1 DEF NextEntry, CallInv, NoCall, TableInv
<1>2. CASE call.at # Len(jobs)
  <2>1. call.at + 1 \in 1 .. Len(jobs)
    BY <1>2 DEF CallInv, TableInv
  <2>2. jobs[call.at + 1] \in Job
    BY <2>1 DEF TableInv
  <2>3. jobs[call.at + 1].pid \in Pids \cup {AnyPid}
    BY <2>2 DEF Job
  <2>4. call' = [op |-> op, arg |-> arg, id |-> 0, at |-> call.at + 1,
                 pid |-> jobs[call.at + 1].pid]
    BY <1>2 DEF NextEntry, Calls
  <2> QED BY <2>1, <2>3, <2>4 DEF CallInv
<1> QED BY <1>1, <1>2

LEMMA ChildStep ==
    ASSUME JobsInv, NEW p \in Pids, Exit(p) \/ Fill(p)
    PROVE  JobsInv'
<1>1. jobs' = jobs /\ ID' = ID /\ call' = call
  BY DEF Exit, Fill
<1>2. ProcInv'
  BY DEF JobsInv, ProcInv, Exit, Fill, ProcStates, Alive, Zombie, Exited
<1> QED BY <1>1, <1>2 DEF JobsInv, TableInv, CallInv

LEMMA RunStep ==
    ASSUME JobsInv, NEW stmt, Run(stmt) \/ RunCapture(stmt)
    PROVE  JobsInv'
<1>1. CASE Run(stmt)
  <2>1. PICK p \in Pids \cup {AnyPid} : Fork(p) /\ NewJob(p, FALSE, "junk", stmt)
    BY <1>1 DEF Run
  <2>2. ProcInv'
    BY <2>1, ForkKeepsProcs DEF JobsInv
  <2>3. TableInv(jobs', ID') /\ CallInv'
    BY <2>1, NewJobKeepsInv DEF JobsInv, Msg
  <2> QED BY <2>2, <2>3 DEF JobsInv
<1>2. CASE RunCapture(stmt)
  <2>1. PICK p \in Pids \cup {AnyPid} : Fork(p) /\ Calls("fgets", stmt, ID, 0, p)
    BY <1>2 DEF RunCapture
  <2>2. ProcInv'
    BY <2>1, ForkKeepsProcs DEF JobsInv
  <2>3. CallInv' /\ UNCHANGED <<jobs, ID>>
    BY <1>2, <2>1, PidAssumption DEF RunCapture, Calls, CallInv, JobsInv, TableInv
  <2> QED BY <2>2, <2>3 DEF JobsInv, TableInv
<1> QED BY <1>1, <1>2

LEMMA FgetsStep ==
    ASSUME JobsInv, FgetsReturns
    PROVE  JobsInv'
<1>1. call.pid \in Pids \cup {AnyPid}
  BY DEF JobsInv, CallInv, FgetsReturns
<1>2. PICK msg \in Msg : NewJob(call.pid, TRUE, msg, call.arg)
  BY DEF FgetsReturns, Msg
<1>3. TableInv(jobs', ID') /\ CallInv'
  BY <1>1, <1>2, NewJobKeepsInv DEF JobsInv
<1>4. ProcInv'
  BY DEF FgetsReturns, JobsInv, ProcInv
<1> QED BY <1>3, <1>4 DEF JobsInv

LEMMA WaitForStep ==
    ASSUME JobsInv, NEW id, WaitFor(id)
    PROVE  JobsInv'
<1>1. UNCHANGED <<jobs, ID, procs>>
  BY DEF WaitFor
<1>2. CallInv'
  <2>1. CASE jobs = <<>>
    BY <1>1, <2>1 DEF WaitFor, JobsInv, CallInv
  <2>2. CASE jobs # <<>>
    <3> DEFINE at == Find(jobs, id)
    <3>1. PICK pid \in Pids \cup {AnyPid, NoPid} : Calls("wait", "wait", id, at, pid)
      BY <2>2 DEF WaitFor
    <3>2. at \in 0 .. Len(jobs)
      BY FindInRange DEF JobsInv, TableInv
    <3> HIDE DEF at
    <3> QED BY <1>1, <3>1, <3>2 DEF Calls, CallInv
  <2> QED BY <2>1, <2>2
<1> QED BY <1>1, <1>2 DEF JobsInv, TableInv, ProcInv

LEMMA WaitReturnsStep ==
    ASSUME JobsInv, WaitReturns
    PROVE  JobsInv'
<1>1. PICK w \in Zombie : /\ waitpid(call.pid, w)
                          /\ jobs_expunge(Judged(call.at, w), call.id)
  BY DEF WaitReturns
<1>2. ProcInv'
  BY <1>1, ReapsKeepsProcs DEF waitpid, JobsInv
<1>3. TableInv(Judged(call.at, w), ID)
  BY JudgedKeepsTable DEF JobsInv, CallInv
<1>4. TableInv(jobs', ID')
  BY <1>1, <1>3, ExpungeKeepsTable
<1>5. CallInv'
  BY <1>4 DEF WaitReturns, CallInv, NoCall, TableInv
<1> QED BY <1>2, <1>4, <1>5 DEF JobsInv

LEMMA PollStep ==
    ASSUME JobsInv, NEW id, Poll(id)
    PROVE  JobsInv'
<1> DEFINE at == Find(jobs, id)
<1>1. CASE UNCHANGED <<jobs, ID, procs>>
  BY <1>1 DEF Poll, JobsInv, TableInv, CallInv, ProcInv
<1>2. CASE ~UNCHANGED <<jobs, ID, procs>>
  <2>1. PICK pid, w : /\ waitpid_nohang(pid, w)
                      /\ \/ jobs_expunge(Judged(at, w), id)
                         \/ UNCHANGED <<jobs, ID>>
    BY <1>2, Zenon DEF Poll
  <2>2. ProcInv'
    BY <2>1, ReapsKeepsProcs DEF waitpid_nohang, JobsInv
  <2>3. at \in 0 .. Len(jobs)
    BY FindInRange DEF JobsInv, TableInv
  <2>4. TableInv(Judged(at, w), ID)
    BY <2>3, JudgedKeepsTable DEF JobsInv
  <2>5. TableInv(jobs', ID')
    <3>1. CASE jobs_expunge(Judged(at, w), id)
      BY <2>4, <3>1, ExpungeKeepsTable
    <3>2. CASE UNCHANGED <<jobs, ID>>
      BY <3>2 DEF JobsInv, TableInv
    <3> QED BY <2>1, <3>1, <3>2
  <2>6. call' = call /\ call = NoCall
    BY DEF Poll, Ready, Idle
  <2>7. CallInv'
    BY <2>5, <2>6 DEF CallInv, NoCall, TableInv
  <2> QED BY <2>2, <2>5, <2>7 DEF JobsInv
<1> QED BY <1>1, <1>2

LEMMA CancelStep ==
    ASSUME JobsInv, NEW id, Cancel(id)
    PROVE  JobsInv'
<1> DEFINE at == Find(jobs, id)
<1>1. ID' = ID /\ call' = call
  BY DEF Cancel
<1>2. CASE UNCHANGED <<jobs, procs>>
  BY <1>1, <1>2 DEF JobsInv, TableInv, CallInv, ProcInv
<1>3. CASE ~UNCHANGED <<jobs, procs>>
  <2>1. PICK pid : Kill(Meant(pid)) /\ jobs' = SetStatus(at, "canceled")
    BY <1>3, Zenon DEF Cancel
  <2>2. ProcInv'
    BY <2>1, KillKeepsProcs DEF JobsInv
  <2>3. at \in 0 .. Len(jobs) /\ "canceled" \in Status
    BY FindInRange DEF JobsInv, TableInv, Status
  <2> HIDE DEF at
  <2>4. TableInv(jobs', ID) /\ Len(jobs') = Len(jobs)
    BY <2>1, <2>3, SetStatusKeepsTable DEF JobsInv
  <2> QED BY <1>1, <2>2, <2>4 DEF JobsInv, CallInv
<1> QED BY <1>2, <1>3

LEMMA WalkStep ==
    ASSUME JobsInv, Pause \/ PauseStep \/ Show \/ ShowStep
    PROVE  JobsInv'
<1>1. CASE Pause \/ Show
  <2>1. UNCHANGED <<jobs, ID, procs>>
    BY <1>1 DEF Pause, Show
  <2>2. CallInv'
    <3>1. CASE jobs = <<>>
      BY <1>1, <2>1, <3>1 DEF Pause, Show, JobsInv, CallInv
    <3>2. CASE jobs # <<>>
      <4>1. PICK op \in {"pause", "show"}, arg \in {"none"} \cup Zombie : Calls(op, arg, 0, 1, jobs[1].pid)
        BY <1>1, <3>2 DEF Pause, Show
      <4>2. 1 \in 1 .. Len(jobs)
        BY <3>2 DEF JobsInv, TableInv
      <4>3. jobs[1] \in Job
        BY <4>2 DEF JobsInv, TableInv
      <4>4. jobs[1].pid \in Pids \cup {AnyPid}
        BY <4>3 DEF Job
      <4> QED BY <2>1, <4>1, <4>2, <4>4 DEF Calls, CallInv
    <3> QED BY <3>1, <3>2
  <2> QED BY <2>1, <2>2 DEF JobsInv, TableInv, ProcInv
<1>2. CASE PauseStep
  <2>1. ProcInv'
    BY <1>2, ReapsKeepsProcs DEF PauseStep, waitpid, JobsInv
  <2>2. TableInv(jobs', ID') /\ Len(jobs') = Len(jobs)
    BY <1>2, SetStatusKeepsTable DEF PauseStep, JobsInv, CallInv, Status
  <2>3. CallInv'
    BY <1>2, <2>2, NextEntryKeepsCall DEF PauseStep, JobsInv
  <2> QED BY <2>1, <2>2, <2>3 DEF JobsInv
<1>3. CASE ShowStep
  <2>1. PICK w : /\ Reaps(call.pid, w) \/ UNCHANGED procs
                 /\ jobs' = Judged(call.at, w)
                 /\ NextEntry("show", w)
    BY <1>3, Zenon DEF ShowStep
  <2>2. ProcInv'
    BY <2>1, ReapsKeepsProcs DEF JobsInv, ProcInv
  <2>3. TableInv(jobs', ID') /\ Len(jobs') = Len(jobs)
    BY <1>3, <2>1, JudgedKeepsTable DEF ShowStep, JobsInv, CallInv
  <2>4. CallInv'
    BY <2>1, <2>3, NextEntryKeepsCall DEF JobsInv
  <2> QED BY <2>2, <2>3, <2>4 DEF JobsInv
<1> QED BY <1>1, <1>2, <1>3

LEMMA FiniStep ==
    ASSUME JobsInv, jobs_fini
    PROVE  JobsInv'
<1>1. ProcInv'
  BY KillKeepsProcs DEF jobs_fini, JobsInv
<1>2. jobs' = <<>> /\ ID' = 0
  BY DEF jobs_fini, JobsInv, TableInv
<1>3. TableInv(jobs', ID')
  BY <1>2 DEF TableInv
<1>4. CallInv'
  BY <1>2 DEF jobs_fini, Calls, CallInv
<1> QED BY <1>1, <1>3, <1>4 DEF JobsInv

-----------------------------------------------------------------------------
(* The theorems. *)

\* A step of the table when any number may be named as a job ID (JobIds bounds those of
\* JobsNext), and a step of its user that leaves it alone.
TableNext(n) ==
    \/ JobsNext
    \/ WaitFor(n) \/ Poll(n) \/ Cancel(n)
    \/ UNCHANGED <<jobs, ID, procs, call>>

LEMMA TableStepKeepsInv == ASSUME NEW n PROVE JobsInv /\ [TableNext(n)]_jvars => JobsInv'
<1> SUFFICES ASSUME JobsInv, [TableNext(n)]_jvars
             PROVE  JobsInv'
  OBVIOUS
<1>1. CASE Shell
  <2>1. ASSUME NEW stmt \in {"fg", "bg"}, Run(stmt) \/ RunCapture(stmt)
        PROVE  JobsInv'
    BY <2>1, RunStep
  <2>2. ASSUME NEW id \in JobIds, WaitFor(id) \/ Poll(id) \/ Cancel(id)
        PROVE  JobsInv'
    BY <2>2, WaitForStep, PollStep, CancelStep
  <2>3. CASE Pause \/ Show \/ jobs_fini
    BY <2>3, WalkStep, FiniStep
  <2>4. CASE ShellBlocked
    BY <2>4, FgetsStep, WaitReturnsStep, WalkStep DEF ShellBlocked
  <2> QED BY <1>1, <2>1, <2>2, <2>3, <2>4 DEF Shell
<1>2. CASE \E p \in Pids : Exit(p) \/ Fill(p)
  BY <1>2, ChildStep
<1>3. CASE UNCHANGED <<jobs, ID, procs, call>>
  BY <1>3 DEF JobsInv, TableInv, CallInv, ProcInv
<1>4. CASE WaitFor(n) \/ Poll(n) \/ Cancel(n)
  BY <1>4, WaitForStep, PollStep, CancelStep
<1>5. UNCHANGED jvars => UNCHANGED <<jobs, ID, procs, call>>
  BY DEF jvars
<1> QED BY <1>1, <1>2, <1>3, <1>4, <1>5 DEF JobsNext, TableNext

LEMMA TableNextIsGeneral == [JobsNext]_jvars => [TableNext(0)]_jvars
BY DEF TableNext

LEMMA JobsInvInductive == JobsInv /\ [JobsNext]_jvars => JobsInv'
BY TableNextIsGeneral, TableStepKeepsInv

LEMMA JobsInvInitial == JobsInit => JobsInv
<1> SUFFICES ASSUME JobsInit
             PROVE  JobsInv
  OBVIOUS
<1>1. TableInv(jobs, ID)
  BY DEF JobsInit, TableInv
<1>2. ProcInv
  BY DEF JobsInit, ProcInv, ProcStates
<1>3. CallInv
  BY DEF JobsInit, CallInv, NoCall
<1> QED BY <1>1, <1>2, <1>3 DEF JobsInv

\* The type invariant of the job table, whatever the children do.
THEOREM JobsTypeCorrect == JobsSpec => []JobsTypeOK
<1>1. JobsInv => JobsTypeOK
  BY DEF JobsInv, TableInv, ProcInv, CallInv, JobsTypeOK
<1> QED BY <1>1, JobsInvInitial, JobsInvInductive, PTL DEF JobsSpec

\* jobs.c:61, 268 and 371: the global ID, incremented by jobs_run and
\* decremented by jobs_expunge, counts the entries; it is no serial number.
THEOREM IdCountsEntries == JobsSpec => []NextIdIsTableSize
<1>1. JobsInv => NextIdIsTableSize
  BY DEF JobsInv, TableInv, NextIdIsTableSize
<1> QED BY <1>1, JobsInvInitial, JobsInvInductive, PTL DEF JobsSpec

\* jobs.c:257, 362 and 390: an entry with ID n is among the first n + 1 of the
\* table; entries only move forward while their ID stays.
THEOREM IdBoundsPositionAlways == JobsSpec => []IdBoundsPosition
<1>1. JobsInv => IdBoundsPosition
  BY DEF JobsInv, TableInv, IdBoundsPosition
<1> QED BY <1>1, JobsInvInitial, JobsInvInductive, PTL DEF JobsSpec

-----------------------------------------------------------------------------
(* Without WAIT and POLL.                                                      *)

\* Only the last entry is ever expunged, so the IDs are the positions.
Orderly == Ops \cap {"wait", "poll"} = {}

Numbered(js) == \A i \in DOMAIN js : js[i].id = i - 1

OwnInv ==
    /\ Numbered(jobs)
    /\ call.op = "wait" => call.at = Len(jobs) /\ call.at # 0 /\ call.id = Len(jobs) - 1

LEMMA FindNumbered ==
    ASSUME NEW js \in Seq(Job), Numbered(js), NEW k \in 1 .. Len(js)
    PROVE  Find(js, k - 1) = k
<1>1. Hits(js, k - 1) = {k} BY DEF Hits, Numbered
<1> QED BY <1>1 DEF Find

LEMMA SetStatusKeepsIds ==
    ASSUME TableInv(jobs, ID), Numbered(jobs), NEW at \in 0 .. Len(jobs), NEW s \in Status
    PROVE  Numbered(SetStatus(at, s)) /\ Len(SetStatus(at, s)) = Len(jobs)
<1>1. CASE at = 0 BY <1>1 DEF SetStatus
<1>2. CASE at # 0
  <2> DEFINE js == [jobs EXCEPT ![at].status = s]
  <2>1. jobs \in Seq(Job) /\ at \in DOMAIN jobs BY <1>2 DEF TableInv
  <2>2. jobs[at] \in Job BY <2>1
  <2>3. \A i \in 1 .. Len(jobs) : js[i].id = jobs[i].id BY <2>1, <2>2 DEF Job
  <2>4. DOMAIN js = DOMAIN jobs BY <2>1
  <2>5. Len(SetStatus(at, s)) = Len(jobs) BY SetStatusKeepsTable
  <2>6. SetStatus(at, s) = js BY <1>2 DEF SetStatus
  <2>7. DOMAIN jobs = 1 .. Len(jobs) BY <2>1
  <2> QED BY <2>3, <2>4, <2>5, <2>6, <2>7 DEF Numbered
<1> QED BY <1>1, <1>2

LEMMA JudgedKeepsIds ==
    ASSUME TableInv(jobs, ID), Numbered(jobs), NEW at \in 0 .. Len(jobs), NEW w
    PROVE  Numbered(Judged(at, w)) /\ Len(Judged(at, w)) = Len(jobs)
<1>1. "completed" \in Status BY DEF Status
<1> QED BY <1>1, SetStatusKeepsIds DEF Judged

LEMMA NewJobIsNumbered ==
    ASSUME JobsInv, OwnInv, NEW p \in Pids \cup {AnyPid}, NEW captures \in BOOLEAN,
           NEW msg \in Msg, NEW stmt, NewJob(p, captures, msg, stmt)
    PROVE  OwnInv'
<1> DEFINE job == [id |-> ID, pid |-> p, status |-> "running",
                   captures |-> captures, msg |-> msg]
<1>1. jobs \in Seq(Job) /\ Len(jobs) \in Nat /\ ID = Len(jobs) BY DEF JobsInv, TableInv
<1>2. jobs' = Append(jobs, job) BY DEF NewJob
<1>3. jobs' \in Seq(Job) BY NewJobKeepsInv DEF JobsInv, TableInv
<1>4. job.id = ID OBVIOUS
<1> HIDE DEF job
<1>5. /\ Len(jobs') = Len(jobs) + 1 /\ DOMAIN jobs' = 1 .. Len(jobs) + 1
      /\ \A i \in 1 .. Len(jobs) : jobs'[i] = jobs[i]
      /\ jobs'[Len(jobs) + 1] = job
    BY <1>1, <1>2
<1>6. Numbered(jobs')
  <2> SUFFICES ASSUME NEW i \in 1 .. Len(jobs) + 1 PROVE jobs'[i].id = i - 1
      BY <1>5 DEF Numbered
  <2>1. CASE i = Len(jobs) + 1 BY <1>1, <1>4, <1>5, <2>1
  <2>2. CASE i \in 1 .. Len(jobs) BY <1>1, <1>5, <2>2 DEF OwnInv, Numbered
  <2> QED BY <1>1, <2>1, <2>2
<1>7. Find(jobs', ID) = Len(jobs')
  <2>1. Len(jobs') \in 1 .. Len(jobs') /\ ID = Len(jobs') - 1 BY <1>1, <1>5
  <2> QED BY <1>3, <1>6, <2>1, FindNumbered
<1>8. CASE stmt = "fg"
  <2>1. call' = [op |-> "wait", arg |-> "fg", id |-> ID, at |-> Find(jobs', ID),
                 pid |-> jobs'[Find(jobs', ID)].pid]
      BY <1>8, Zenon DEF NewJob, Calls
  <2>2. call'.at = Len(jobs') /\ call'.id = ID BY <1>7, <2>1
  <2> QED BY <1>1, <1>5, <1>6, <2>2 DEF OwnInv
<1>9. CASE stmt # "fg"
  <2>1. call' = NoCall BY <1>9, Zenon DEF NewJob
  <2> QED BY <1>6, <2>1 DEF OwnInv, NoCall
<1> QED BY <1>8, <1>9

LEMMA LastIsExpunged == ASSUME JobsInv, OwnInv, WaitReturns PROVE OwnInv'
<1>1. PICK w \in Zombie : jobs_expunge(Judged(call.at, w), call.id) BY DEF WaitReturns
<1> DEFINE js == Judged(call.at, w)
<1>2. call.op = "wait" /\ call' = NoCall BY DEF WaitReturns
<1>3. /\ jobs \in Seq(Job) /\ Len(jobs) \in Nat /\ TableInv(jobs, ID) /\ Numbered(jobs)
      /\ call.at \in 0 .. Len(jobs)
    BY DEF JobsInv, TableInv, OwnInv, CallInv
<1>4. call.at = Len(jobs) /\ Len(jobs) # 0 /\ call.id = Len(jobs) - 1 BY <1>2 DEF OwnInv
<1>5. Numbered(js) /\ Len(js) = Len(jobs) BY <1>3, JudgedKeepsIds
<1>6. js \in Seq(Job) BY <1>3, JudgedKeepsTable DEF TableInv
<1> HIDE DEF js
<1>7. Len(jobs) \in 1 .. Len(js) BY <1>3, <1>4, <1>5
<1>8. Find(js, call.id) = Len(jobs) BY <1>4, <1>5, <1>6, <1>7, FindNumbered
<1>9. jobs' = js \/ jobs' = RemoveAt(js, Len(jobs)) BY <1>1, <1>8 DEF jobs_expunge, js
<1>10. ASSUME jobs' = RemoveAt(js, Len(jobs)) PROVE Numbered(jobs')
  <2>1. /\ jobs' \in Seq(Job) /\ Len(jobs') = Len(js) - 1
        /\ \A k \in 1 .. Len(js) - 1 : jobs'[k] = IF k < Len(jobs) THEN js[k] ELSE js[k + 1]
      BY <1>6, <1>7, <1>10, RemoveAtProperties
  <2>2. DOMAIN jobs' = 1 .. Len(js) - 1 BY <2>1
  <2>3. \A k \in 1 .. Len(js) - 1 : jobs'[k] = js[k] /\ k \in DOMAIN js
      BY <1>3, <1>5, <1>6, <2>1
  <2> QED BY <1>5, <2>2, <2>3 DEF Numbered
<1> QED BY <1>2, <1>5, <1>9, <1>10 DEF OwnInv, NoCall

LEMMA OwnStep ==
    ASSUME Orderly, NEW n PROVE JobsInv /\ OwnInv /\ [TableNext(n)]_jvars => OwnInv'
<1> SUFFICES ASSUME JobsInv, OwnInv, [TableNext(n)]_jvars PROVE OwnInv' OBVIOUS
<1>1. /\ TableInv(jobs, ID) /\ jobs \in Seq(Job) /\ Len(jobs) \in Nat /\ Numbered(jobs)
      /\ call.at \in 0 .. Len(jobs)
    BY DEF JobsInv, TableInv, OwnInv, CallInv
<1>2. ASSUME NEW stmt, Run(stmt) PROVE OwnInv'
  <2>1. PICK p \in Pids \cup {AnyPid} : NewJob(p, FALSE, "junk", stmt) BY <1>2 DEF Run
  <2> QED BY <2>1, NewJobIsNumbered DEF Msg
<1>3. ASSUME NEW stmt, RunCapture(stmt) PROVE OwnInv'
  <2>1. UNCHANGED jobs /\ call'.op = "fgets" BY <1>3 DEF RunCapture, Calls
  <2> QED BY <2>1 DEF OwnInv
<1>4. ASSUME NEW id, WaitFor(id) \/ Poll(id) PROVE OwnInv'
  <2>1. "wait" \in Ops \/ "poll" \in Ops BY <1>4 DEF WaitFor, Poll, Ready
  <2> QED BY <2>1 DEF Orderly
<1>5. ASSUME NEW id, Cancel(id) PROVE OwnInv'
  <2>1. UNCHANGED call /\ call = NoCall BY <1>5 DEF Cancel, Ready, Idle
  <2>2. jobs' = jobs \/ jobs' = SetStatus(Find(jobs, id), "canceled") BY <1>5 DEF Cancel
  <2>3. Find(jobs, id) \in 0 .. Len(jobs) /\ "canceled" \in Status
      BY <1>1, FindInRange DEF Status
  <2>4. Numbered(jobs') BY <1>1, <2>2, <2>3, SetStatusKeepsIds
  <2> QED BY <2>1, <2>4 DEF OwnInv, NoCall
<1>6. CASE Pause \/ Show
  <2>1. UNCHANGED jobs BY <1>6 DEF Pause, Show
  <2>2. UNCHANGED call \/ call'.op \in {"pause", "show"} BY <1>6 DEF Pause, Show, Calls
  <2> QED BY <2>1, <2>2 DEF OwnInv
<1>7. CASE PauseStep
  <2>1. jobs' = SetStatus(call.at, "completed") /\ NextEntry("pause", "none")
      BY <1>7 DEF PauseStep
  <2>2. Numbered(jobs') BY <1>1, <2>1, SetStatusKeepsIds DEF Status
  <2>3. call'.op # "wait" BY <2>1 DEF NextEntry, Calls, NoCall
  <2> QED BY <2>2, <2>3 DEF OwnInv
<1>8. CASE ShowStep
  <2>1. PICK w \in Zombie : jobs' = Judged(call.at, w) /\ NextEntry("show", w)
      BY <1>8 DEF ShowStep
  <2>2. Numbered(jobs') BY <1>1, <2>1, JudgedKeepsIds
  <2>3. call'.op # "wait" BY <2>1 DEF NextEntry, Calls, NoCall
  <2> QED BY <2>2, <2>3 DEF OwnInv
<1>9. CASE jobs_fini
  <2>1. jobs' = <<>> /\ call'.op = "exited" BY <1>9 DEF jobs_fini, Calls
  <2> QED BY <2>1 DEF OwnInv, Numbered
<1>10. CASE FgetsReturns
  <2>1. call.pid \in Pids \cup {AnyPid} BY <1>10 DEF JobsInv, CallInv, FgetsReturns
  <2>2. PICK msg \in Msg : NewJob(call.pid, TRUE, msg, call.arg) BY <1>10 DEF FgetsReturns, Msg
  <2> QED BY <2>1, <2>2, NewJobIsNumbered
<1>11. CASE WaitReturns BY <1>11, LastIsExpunged
<1>12. ASSUME NEW p \in Pids, Exit(p) \/ Fill(p) PROVE OwnInv'
    BY <1>12 DEF Exit, Fill, OwnInv
<1>13. CASE UNCHANGED <<jobs, ID, procs, call>> BY <1>13 DEF OwnInv
<1>14. UNCHANGED jvars => UNCHANGED <<jobs, ID, procs, call>> BY DEF jvars
<1> QED BY <1>2, <1>3, <1>4, <1>5, <1>6, <1>7, <1>8, <1>9, <1>10, <1>11, <1>12, <1>13, <1>14
        DEF TableNext, JobsNext, Shell, ShellBlocked

LEMMA OwnInitially == JobsInit => OwnInv
BY DEF JobsInit, OwnInv, Numbered, NoCall

LEMMA OwnIsEnough == OwnInv => ForegroundWaitsForOwn
BY DEF OwnInv, ForegroundWaitsForOwn

\* execution.c:204, jobs.c:274: where no statement waits for or polls a job by its
\* ID, FG waits for the child it started, for any children and any table.
THEOREM ForegroundIsOwn == ASSUME Orderly PROVE JobsSpec => []ForegroundWaitsForOwn
<1>1. JobsInv /\ OwnInv /\ [JobsNext]_jvars => OwnInv' BY TableNextIsGeneral, OwnStep
<1> QED BY <1>1, OwnInitially, OwnIsEnough, JobsInvInitial, JobsInvInductive, PTL DEF JobsSpec

-----------------------------------------------------------------------------
(* Without WAIT, POLL and jobs_show either: entries and children.              *)

\* jobs_show, like poll, may judge an entry by a status that was never written.
Watched == Orderly /\ "show" \notin Ops

\* A step that waits for the entry at the end or in a walk waits for the child the
\* entry names, so that what is marked completed has been reaped.
GoneInv ==
    /\ call.op # "show"
    /\ call.op \in {"wait", "pause"} => call.at \in DOMAIN jobs /\ call.pid = jobs[call.at].pid
    /\ \A i \in DOMAIN jobs :
           jobs[i].status = "completed" /\ jobs[i].pid \in Pids => procs[jobs[i].pid] = "none"

NamedInv == GoneInv /\ ChildrenAreNamed

\* The entries keep their children whatever is marked.
LEMMA SetStatusIs ==
    ASSUME TableInv(jobs, ID), NEW at \in 0 .. Len(jobs), NEW s \in Status
    PROVE  /\ DOMAIN SetStatus(at, s) = DOMAIN jobs
           /\ \A i \in DOMAIN jobs :
                  /\ SetStatus(at, s)[i].pid = jobs[i].pid
                  /\ SetStatus(at, s)[i].status = IF i = at THEN s ELSE jobs[i].status
<1>1. CASE at = 0
  <2>1. SetStatus(at, s) = jobs /\ at \notin DOMAIN jobs
    BY <1>1 DEF SetStatus, TableInv
  <2> QED BY <2>1
<1>2. CASE at # 0
  <2> DEFINE js == [jobs EXCEPT ![at].status = s]
  <2>1. jobs \in Seq(Job) /\ at \in DOMAIN jobs
    BY <1>2 DEF TableInv
  <2>2. \A i \in DOMAIN jobs : jobs[i] \in Job
    BY <2>1
  <2>3. \A i \in DOMAIN jobs :
            js[i].pid = jobs[i].pid /\ js[i].status = IF i = at THEN s ELSE jobs[i].status
    BY <2>1, <2>2 DEF Job
  <2>4. DOMAIN js = DOMAIN jobs
    BY <2>1
  <2>5. SetStatus(at, s) = js
    BY <1>2 DEF SetStatus
  <2> QED BY <2>3, <2>4, <2>5
<1> QED BY <1>1, <1>2

\* waitpid for a child leaves none of it, and takes no other child than it was asked for
\* out of the kernel's hands.
LEMMA WaitpidReaps ==
    ASSUME ProcInv, NEW pid \in Pids \cup {AnyPid, NoPid}, NEW w \in Zombie, waitpid(pid, w)
    PROVE  /\ pid \in Pids => procs'[pid] = "none"
           /\ \A p \in Pids : procs'[p] = procs[p] \/ procs'[p] = "none"
<1>1. CASE Reaps(pid, w)
  <2>1. PICK p \in Reapable(pid) : procs' = [procs EXCEPT ![p] = "none"]
    BY <1>1 DEF Reaps
  <2>2. p \in Meant(pid) /\ p \in Pids
    BY <2>1 DEF Reapable, Meant
  <2>3. pid \in Pids => p = pid
    BY <2>2, PidAssumption DEF Meant
  <2> QED BY <2>1, <2>2, <2>3 DEF ProcInv
<1>2. CASE Children(pid) = {} /\ UNCHANGED procs
  <2>1. pid \in Pids => pid \in Meant(pid)
    BY PidAssumption DEF Meant
  <2>2. pid \in Pids => procs[pid] = "none"
    BY <1>2, <2>1 DEF Children
  <2> QED BY <1>2, <2>2
<1> QED BY <1>1, <1>2 DEF waitpid, NotWritten

\* What keeps the children of the table, and takes no child back, keeps the invariant.
LEMMA SameChildren ==
    ASSUME JobsInv, NamedInv,
           DOMAIN jobs' = DOMAIN jobs,
           \A i \in DOMAIN jobs : jobs'[i].pid = jobs[i].pid,
           \A p \in Pids : procs[p] = "none" => procs'[p] = "none",
           \A i \in DOMAIN jobs : jobs'[i].status = "completed" /\ jobs[i].status # "completed" /\ jobs[i].pid \in Pids
                                    => procs'[jobs[i].pid] = "none",
           call.op # "exited",
           call.op = "fgets" => UNCHANGED call,
           call'.op # "show",
           call'.op \in {"wait", "pause"} => call'.at \in DOMAIN jobs /\ call'.pid = jobs[call'.at].pid
    PROVE  NamedInv'
<1>1. GoneInv'
  BY DEF NamedInv, GoneInv
<1>2. ChildrenAreNamed'
  <2> SUFFICES ASSUME NEW p \in Pids, procs'[p] # "none"
               PROVE  (\E i \in DOMAIN jobs : jobs[i].pid = p) \/ (call'.op = "fgets" /\ call'.pid = p)
    BY DEF ChildrenAreNamed
  <2>1. procs[p] # "none"
    OBVIOUS
  <2> QED BY <2>1 DEF NamedInv, ChildrenAreNamed
<1> QED BY <1>1, <1>2 DEF NamedInv

LEMMA NewJobIsNamed ==
    ASSUME JobsInv, NamedInv, OwnInv', NEW p \in Pids \cup {AnyPid}, NEW captures \in BOOLEAN,
           NEW msg \in Msg, NEW stmt, NewJob(p, captures, msg, stmt),
           \A q \in Pids : procs'[q] = procs[q] \/ q = p,
           p \in Pids => \/ \A i \in DOMAIN jobs : jobs[i].pid # p
                         \/ UNCHANGED procs,
           call.op = "fgets" => call.pid = p,
           call.op # "exited"
    PROVE  NamedInv'
<1> DEFINE job == [id |-> ID, pid |-> p, status |-> "running",
                   captures |-> captures, msg |-> msg]
<1>1. jobs \in Seq(Job) /\ Len(jobs) \in Nat /\ ID = Len(jobs)
  BY DEF JobsInv, TableInv
<1>2. jobs' = Append(jobs, job)
  BY DEF NewJob
<1>3. job.pid = p /\ job.status = "running"
  OBVIOUS
<1> HIDE DEF job
<1>4. /\ Len(jobs') = Len(jobs) + 1 /\ DOMAIN jobs' = 1 .. Len(jobs) + 1 /\ DOMAIN jobs = 1 .. Len(jobs)
      /\ \A i \in 1 .. Len(jobs) : jobs'[i] = jobs[i]
      /\ jobs'[Len(jobs) + 1] = job
  BY <1>1, <1>2
<1>5. call' = NoCall \/ (call'.op = "wait" /\ call'.pid = jobs'[call'.at].pid)
  <2>1. CASE stmt = "fg"
    <3>1. call' = [op |-> "wait", arg |-> "fg", id |-> ID, at |-> Find(jobs', ID),
                   pid |-> jobs'[Find(jobs', ID)].pid]
      BY <2>1, Zenon DEF NewJob, Calls
    <3> QED BY <3>1
  <2>2. CASE stmt # "fg"
    BY <2>2, Zenon DEF NewJob
  <2> QED BY <2>1, <2>2
<1>6. call'.op = "wait" => call'.at \in DOMAIN jobs'
  <2> SUFFICES ASSUME call'.op = "wait" PROVE call'.at \in DOMAIN jobs'
    OBVIOUS
  <2>1. call'.at = Len(jobs') /\ call'.at # 0
    BY DEF OwnInv
  <2> QED BY <1>1, <1>4, <2>1
<1>7. \A i \in DOMAIN jobs' :
          jobs'[i].status = "completed" /\ jobs'[i].pid \in Pids => procs'[jobs'[i].pid] = "none"
  <2> SUFFICES ASSUME NEW i \in 1 .. Len(jobs) + 1, jobs'[i].status = "completed", jobs'[i].pid \in Pids
               PROVE  procs'[jobs'[i].pid] = "none"
    BY <1>4
  <2>1. i \in DOMAIN jobs /\ jobs'[i] = jobs[i]
    BY <1>1, <1>3, <1>4
  <2>2. procs[jobs[i].pid] = "none"
    BY <2>1 DEF NamedInv, GoneInv
  <2> QED BY <2>1, <2>2
<1>8. ChildrenAreNamed'
  <2> SUFFICES ASSUME NEW q \in Pids, procs'[q] # "none" PROVE \E i \in DOMAIN jobs' : jobs'[i].pid = q
    BY DEF ChildrenAreNamed
  <2>1. CASE q = p
    <3>1. Len(jobs) + 1 \in DOMAIN jobs' /\ jobs'[Len(jobs) + 1].pid = q
      BY <1>1, <1>3, <1>4, <2>1
    <3> QED BY <3>1
  <2>2. CASE q # p
    <3>1. procs[q] # "none"
      BY <2>2
    <3>2. PICK i \in DOMAIN jobs : jobs[i].pid = q
      BY <2>2, <3>1 DEF NamedInv, ChildrenAreNamed
    <3>3. i \in DOMAIN jobs' /\ jobs'[i].pid = q
      BY <3>2, <1>1, <1>4
    <3> QED BY <3>3
  <2> QED BY <2>1, <2>2
<1> QED BY <1>5, <1>6, <1>7, <1>8 DEF NamedInv, GoneInv, NoCall

\* Expunged is only an entry that was marked completed, and its child is gone.
LEMMA ExpungedIsGone ==
    ASSUME JobsInv, OwnInv, NamedInv, WaitReturns
    PROVE  NamedInv'
<1>1. PICK w \in Zombie : waitpid(call.pid, w) /\ jobs_expunge(Judged(call.at, w), call.id)
  BY DEF WaitReturns
<1> DEFINE js == Judged(call.at, w)
           at == call.at
<1>2. call.op = "wait" /\ call' = NoCall
  BY DEF WaitReturns
<1>3. /\ jobs \in Seq(Job) /\ Len(jobs) \in Nat /\ TableInv(jobs, ID) /\ Numbered(jobs) /\ ProcInv
      /\ at \in 0 .. Len(jobs) /\ call.pid \in Pids \cup {AnyPid, NoPid}
  BY DEF JobsInv, TableInv, OwnInv, CallInv
<1>4. at = Len(jobs) /\ Len(jobs) # 0 /\ call.id = Len(jobs) - 1 /\ call.pid = jobs[at].pid
  BY <1>2 DEF OwnInv, NamedInv, GoneInv
<1>5. Numbered(js) /\ Len(js) = Len(jobs) /\ js \in Seq(Job)
  BY <1>3, JudgedKeepsIds, JudgedKeepsTable DEF TableInv
<1>6. /\ DOMAIN js = DOMAIN jobs
      /\ \A i \in DOMAIN jobs : js[i].pid = jobs[i].pid /\ (i # at => js[i].status = jobs[i].status)
  <2>1. CASE js = jobs
    BY <2>1
  <2>2. CASE js = SetStatus(at, "completed")
    <3>1. "completed" \in Status
      BY DEF Status
    <3> QED BY <1>3, <2>2, <3>1, SetStatusIs
  <2> QED BY <2>1, <2>2 DEF Judged
<1>7. /\ call.pid \in Pids => procs'[call.pid] = "none"
      /\ \A p \in Pids : procs'[p] = procs[p] \/ procs'[p] = "none"
  BY <1>1, <1>3, WaitpidReaps
<1> HIDE DEF js
<1>8. \A i \in DOMAIN js :
          js[i].status = "completed" /\ js[i].pid \in Pids => procs'[js[i].pid] = "none"
  <2> SUFFICES ASSUME NEW i \in DOMAIN jobs, js[i].status = "completed", js[i].pid \in Pids
               PROVE  procs'[js[i].pid] = "none"
    BY <1>6
  <2>1. CASE i = at
    BY <2>1, <1>4, <1>6, <1>7
  <2>2. CASE i # at
    <3>1. procs[jobs[i].pid] = "none" /\ js[i].pid = jobs[i].pid
      BY <2>2, <1>6 DEF NamedInv, GoneInv
    <3> QED BY <3>1, <1>7
  <2> QED BY <2>1, <2>2
<1>9. \A p \in Pids : procs'[p] # "none" => \E i \in DOMAIN js : i # at /\ js[i].pid = p
  <2> SUFFICES ASSUME NEW p \in Pids, procs'[p] # "none"
               PROVE  \E i \in DOMAIN js : i # at /\ js[i].pid = p
    OBVIOUS
  <2>1. procs[p] # "none" /\ p # call.pid
    BY <1>7
  <2>2. PICK i \in DOMAIN jobs : jobs[i].pid = p
    BY <1>2, <2>1 DEF NamedInv, ChildrenAreNamed
  <2> QED BY <1>4, <1>6, <2>1, <2>2
<1>10. Len(jobs) \in 1 .. Len(js)
  BY <1>3, <1>4, <1>5
<1>11. Find(js, call.id) = Len(jobs)
  BY <1>4, <1>5, <1>10, FindNumbered
<1>12. jobs' = js \/ jobs' = RemoveAt(js, Len(jobs))
  BY <1>1, <1>11 DEF jobs_expunge, js
<1>13. CASE jobs' = js
  BY <1>2, <1>8, <1>9, <1>13 DEF NamedInv, GoneInv, ChildrenAreNamed, NoCall
<1>14. CASE jobs' = RemoveAt(js, Len(jobs))
  <2>1. /\ jobs' \in Seq(Job) /\ Len(jobs') = Len(js) - 1
        /\ \A k \in 1 .. Len(js) - 1 : jobs'[k] = IF k < Len(jobs) THEN js[k] ELSE js[k + 1]
    BY <1>5, <1>10, <1>14, RemoveAtProperties
  <2>2. DOMAIN jobs' = 1 .. Len(js) - 1
    BY <2>1
  <2>3. \A k \in 1 .. Len(js) - 1 : jobs'[k] = js[k] /\ k \in DOMAIN js
    BY <1>3, <1>5, <2>1
  <2>4. \A i \in DOMAIN js : i # at => i \in DOMAIN jobs'
    BY <1>3, <1>4, <1>5, <2>2
  <2>5. GoneInv'
    BY <1>2, <1>8, <2>2, <2>3 DEF GoneInv, NoCall
  <2>6. ChildrenAreNamed'
    <3> SUFFICES ASSUME NEW p \in Pids, procs'[p] # "none" PROVE \E i \in DOMAIN jobs' : jobs'[i].pid = p
      BY DEF ChildrenAreNamed
    <3>1. PICK i \in DOMAIN js : i # at /\ js[i].pid = p
      BY <1>9
    <3>2. i \in DOMAIN jobs' /\ jobs'[i].pid = p
      BY <2>2, <2>3, <2>4, <3>1
    <3> QED BY <3>2
  <2> QED BY <2>5, <2>6 DEF NamedInv
<1> QED BY <1>12, <1>13, <1>14

LEMMA NamedStep ==
    ASSUME Watched, NEW n
    PROVE  JobsInv /\ OwnInv /\ NamedInv /\ [TableNext(n)]_jvars => OwnInv' /\ NamedInv'
<1> SUFFICES ASSUME JobsInv, OwnInv, NamedInv, [TableNext(n)]_jvars PROVE OwnInv' /\ NamedInv'
  OBVIOUS
<1>1. /\ TableInv(jobs, ID) /\ jobs \in Seq(Job) /\ Len(jobs) \in Nat /\ ProcInv
      /\ DOMAIN jobs = 1 .. Len(jobs)
      /\ call.at \in 0 .. Len(jobs) /\ call.pid \in Pids \cup {AnyPid, NoPid}
  BY DEF JobsInv, TableInv, CallInv
<1>2. OwnInv'
  BY OwnStep DEF Watched
<1>3. SUFFICES NamedInv'
  BY <1>2
<1>4. "completed" \in Status /\ "canceled" \in Status
  BY DEF Status
<1>5. ASSUME NEW stmt, Run(stmt) PROVE NamedInv'
  <2>1. PICK p \in Pids \cup {AnyPid} : Fork(p) /\ NewJob(p, FALSE, "junk", stmt)
    BY <1>5 DEF Run
  <2>2. call = NoCall
    BY <1>5 DEF Run, Ready, Idle
  <2>3. /\ \A q \in Pids : procs'[q] = procs[q] \/ q = p
        /\ p \in Pids => \/ \A i \in DOMAIN jobs : jobs[i].pid # p
                         \/ UNCHANGED procs
    BY <2>1, <1>1, PidAssumption DEF Fork, FreshPids, ProcInv
  <2> QED BY <1>2, <2>1, <2>2, <2>3, NewJobIsNamed DEF Msg, NoCall
<1>6. ASSUME NEW stmt, RunCapture(stmt) PROVE NamedInv'
  <2>1. PICK p \in Pids \cup {AnyPid} : Fork(p) /\ Calls("fgets", stmt, ID, 0, p) /\ UNCHANGED jobs
    BY <1>6 DEF RunCapture
  <2>2. call = NoCall /\ call'.op = "fgets" /\ call'.pid = p
    BY <1>6, <2>1 DEF RunCapture, Ready, Idle, Calls
  <2>3. \A q \in Pids : procs'[q] = procs[q] \/ (q = p /\ \A i \in DOMAIN jobs : jobs[i].pid # p)
    BY <2>1, <1>1, PidAssumption DEF Fork, FreshPids, ProcInv
  <2>4. GoneInv'
    BY <2>1, <2>2, <2>3 DEF NamedInv, GoneInv
  <2>5. ChildrenAreNamed'
    BY <2>1, <2>2, <2>3 DEF NamedInv, ChildrenAreNamed, NoCall
  <2> QED BY <2>4, <2>5 DEF NamedInv
<1>7. CASE FgetsReturns
  <2>1. call.op = "fgets" /\ call.pid \in Pids \cup {AnyPid} /\ UNCHANGED procs
    BY <1>7 DEF JobsInv, CallInv, FgetsReturns
  <2>2. PICK msg \in Msg : NewJob(call.pid, TRUE, msg, call.arg)
    BY <1>7 DEF FgetsReturns, Msg
  <2> QED BY <1>2, <2>1, <2>2, NewJobIsNamed
<1>8. ASSUME NEW id, WaitFor(id) \/ Poll(id) PROVE NamedInv'
  <2>1. "wait" \in Ops \/ "poll" \in Ops
    BY <1>8 DEF WaitFor, Poll, Ready
  <2> QED BY <2>1 DEF Watched, Orderly
<1>9. ASSUME NEW id, Cancel(id) PROVE NamedInv'
  <2>1. UNCHANGED call /\ call = NoCall
    BY <1>9 DEF Cancel, Ready, Idle
  <2>2. \/ UNCHANGED <<jobs, procs>>
        \/ jobs' = SetStatus(Find(jobs, id), "canceled") /\ \E pids : Kill(pids)
    BY <1>9 DEF Cancel
  <2>3. Find(jobs, id) \in 0 .. Len(jobs)
    BY <1>1, FindInRange
  <2>4. /\ DOMAIN jobs' = DOMAIN jobs
        /\ \A i \in DOMAIN jobs :
               jobs'[i].pid = jobs[i].pid /\ (jobs'[i].status = "completed" => jobs[i].status = "completed")
    <3>1. CASE UNCHANGED jobs
      BY <3>1
    <3>2. CASE jobs' = SetStatus(Find(jobs, id), "canceled")
      BY <3>2, <2>3, <1>1, <1>4, SetStatusIs
    <3> QED BY <2>2, <3>1, <3>2
  <2>5. \A p \in Pids : procs[p] = "none" => procs'[p] = "none"
    BY <2>2 DEF Kill, Alive
  <2> QED BY <2>1, <2>4, <2>5, SameChildren DEF NoCall
<1>10. CASE Pause
  <2>1. UNCHANGED <<jobs, procs>> /\ call = NoCall
    BY <1>10 DEF Pause, Ready, Idle
  <2>2. call' = call \/ (jobs # <<>> /\ call'.op = "pause" /\ call'.at = 1 /\ call'.pid = jobs[1].pid)
    BY <1>10 DEF Pause, Calls
  <2>3. jobs # <<>> => 1 \in DOMAIN jobs
    BY <1>1
  <2> QED BY <2>1, <2>2, <2>3, SameChildren DEF NoCall
<1>11. CASE PauseStep
  <2>1. /\ call.op = "pause" /\ jobs' = SetStatus(call.at, "completed") /\ NextEntry("pause", "none")
        /\ call.at \in DOMAIN jobs /\ call.pid = jobs[call.at].pid
    BY <1>11 DEF PauseStep, NamedInv, GoneInv
  <2>2. PICK w \in Zombie : waitpid(call.pid, w)
    BY <1>11 DEF PauseStep
  <2>3. /\ call.pid \in Pids => procs'[call.pid] = "none"
        /\ \A p \in Pids : procs'[p] = procs[p] \/ procs'[p] = "none"
    BY <2>2, <1>1, WaitpidReaps
  <2>4. /\ DOMAIN jobs' = DOMAIN jobs
        /\ \A i \in DOMAIN jobs :
               jobs'[i].pid = jobs[i].pid /\ (i # call.at => jobs'[i].status = jobs[i].status)
    BY <2>1, <1>1, <1>4, SetStatusIs
  <2>5. call' = NoCall \/ /\ call'.op = "pause" /\ call'.at = call.at + 1
                          /\ call'.pid = jobs[call.at + 1].pid /\ call.at # Len(jobs)
    BY <2>1 DEF NextEntry, Calls
  <2>6. call.at # Len(jobs) => call.at + 1 \in DOMAIN jobs
    BY <2>1, <1>1
  <2>7. call'.op # "show" /\ (call'.op \in {"wait", "pause"} => call'.at \in DOMAIN jobs /\ call'.pid = jobs[call'.at].pid)
    BY <2>5, <2>6 DEF NoCall
  <2>8. \A i \in DOMAIN jobs : jobs'[i].status = "completed" /\ jobs[i].status # "completed" /\ jobs[i].pid \in Pids
                                 => procs'[jobs[i].pid] = "none"
    BY <2>1, <2>3, <2>4
  <2>9. \A p \in Pids : procs[p] = "none" => procs'[p] = "none"
    BY <2>3
  <2> QED BY <2>1, <2>4, <2>7, <2>8, <2>9, SameChildren
<1>12. CASE Show \/ ShowStep
  <2>1. "show" \in Ops \/ call.op = "show"
    BY <1>12 DEF Show, ShowStep, Ready
  <2> QED BY <2>1 DEF Watched, NamedInv, GoneInv
<1>13. CASE jobs_fini
  <2>1. jobs' = <<>> /\ call'.op = "exited"
    BY <1>13 DEF jobs_fini, Calls
  <2> QED BY <2>1 DEF NamedInv, GoneInv, ChildrenAreNamed
<1>14. CASE WaitReturns
  BY <1>14, ExpungedIsGone
<1>15. ASSUME NEW p \in Pids, Exit(p) \/ Fill(p) PROVE NamedInv'
  <2>1. UNCHANGED <<jobs, call>> /\ \A q \in Pids : procs[q] = "none" <=> procs'[q] = "none"
    BY <1>1, <1>15 DEF Exit, Fill, Exited, ProcInv
  <2>2. GoneInv'
    BY <2>1 DEF NamedInv, GoneInv
  <2>3. ChildrenAreNamed'
    BY <2>1 DEF NamedInv, ChildrenAreNamed
  <2> QED BY <2>2, <2>3 DEF NamedInv
<1>16. CASE UNCHANGED <<jobs, ID, procs, call>>
  BY <1>16 DEF NamedInv, GoneInv, ChildrenAreNamed
<1>17. UNCHANGED jvars => UNCHANGED <<jobs, ID, procs, call>>
  BY DEF jvars
<1> QED BY <1>2, <1>17, <1>5, <1>6, <1>7, <1>8, <1>9, <1>10, <1>11, <1>12, <1>13, <1>14, <1>15, <1>16
        DEF TableNext, JobsNext, Shell, ShellBlocked

LEMMA NamedIsEnough == NamedInv => CompletedHasTerminated /\ ChildrenAreNamed
BY DEF NamedInv, GoneInv, CompletedHasTerminated, Alive

LEMMA NamedInitially == JobsInit => NamedInv
BY DEF JobsInit, NamedInv, GoneInv, ChildrenAreNamed, NoCall

\* jobs.c:29, where nothing but FG and PAUSE waits: an entry marked completed names a
\* child that has terminated, for any children, failing forks and captured output.
THEOREM CompletedAreGone == ASSUME Watched PROVE JobsSpec => []CompletedHasTerminated
<1>1. JobsInv /\ OwnInv /\ NamedInv /\ [JobsNext]_jvars => OwnInv' /\ NamedInv'
  BY TableNextIsGeneral, NamedStep
<1> QED BY <1>1, NamedIsEnough, NamedInitially, OwnInitially, JobsInvInitial, JobsInvInductive, PTL DEF JobsSpec

\* jobs.c:350, likewise: while the shell runs, no child is forgotten that runs or waits
\* to be reaped; an entry names it, or jobs_run is about to make that entry.
THEOREM NoChildForgotten == ASSUME Watched PROVE JobsSpec => []ChildrenAreNamed
<1>1. JobsInv /\ OwnInv /\ NamedInv /\ [JobsNext]_jvars => OwnInv' /\ NamedInv'
  BY TableNextIsGeneral, NamedStep
<1> QED BY <1>1, NamedIsEnough, NamedInitially, OwnInitially, JobsInvInitial, JobsInvInductive, PTL DEF JobsSpec

-----------------------------------------------------------------------------
(* The engine.                                                                 *)

\* Nothing of a run is going on: a statement that was typed is part of none.
Outside == pc \in {"prompt", "show", "exited"} \/ (pc = "stmt" /\ cur.lineno = 0)

QuitInv ==
    /\ Outside => ~armed /\ ~got_quit
    /\ pc = "ignored" => ~armed

-----------------------------------------------------------------------------
(* Statements.                                                                 *)

\* Where a statement leads: it blocks or ends, and only a jump moves the counter.
Leads ==
    /\ pc = "stmt"
    /\ UNCHANGED <<armed, got_quit>>
    /\ \/ UNCHANGED <<pc, cur>> /\ UNCHANGED pvars
       \/ pc' = "dead" /\ UNCHANGED pvars
       \/ /\ cur.lineno = 0 /\ pc' \in {"prompt", "show"}
          /\ UNCHANGED pvars \/ prog_goto(cur.body.to)
       \/ /\ cur.lineno # 0 /\ pc' \in {"loop", "left"}
          /\ UNCHANGED pvars \/ prog_goto(cur.body.to)

LEMMA FinishLeads ==
    ASSUME NEW err, Finish(err)
    PROVE  \/ cur.lineno = 0 /\ pc' \in {"prompt", "show"}
           \/ cur.lineno # 0 /\ pc' \in {"loop", "left"}
<1>1. CASE cur.lineno = 0
  <2>1. pc' = Prompt(depth') BY <1>1 DEF Finish
  <2> QED BY <1>1, <2>1 DEF Prompt
<1>2. CASE cur.lineno # 0 BY <1>2 DEF Finish
<1> QED BY <1>1, <1>2

LEMMA JumpLeads == ASSUME Jump, pc = "stmt", UNCHANGED <<armed, got_quit>> PROVE Leads
<1>1. CASE prog_goto(cur.body.to) /\ Finish(FALSE) BY <1>1, FinishLeads DEF Leads
<1>2. CASE Finish(TRUE) /\ UNCHANGED pvars BY <1>2, FinishLeads DEF Leads
<1> QED BY <1>1, <1>2 DEF Jump

LEMMA EndLeads ==
    ASSUME NEW err, Finish(err), pc = "stmt", UNCHANGED <<armed, got_quit>>, UNCHANGED pvars
    PROVE  Leads
BY FinishLeads DEF Leads

LEMMA JobLeads ==
    ASSUME pc = "stmt", UNCHANGED <<pvars, armed, got_quit, depth>>,
           IF call' = NoCall THEN Finish(FALSE) ELSE UNCHANGED <<pc, cur>>
    PROVE  Leads
<1>1. CASE Finish(FALSE) BY <1>1, EndLeads
<1>2. CASE UNCHANGED <<pc, cur>> BY <1>2 DEF Leads
<1> QED BY <1>1, <1>2

LEMMA ExecuteLeads == Execute => Leads
<1>1. ASSUME Stop PROVE Leads
  <2>1. pc = "stmt" /\ Finish(TRUE) /\ UNCHANGED <<pvars, armed, got_quit>>
      BY <1>1 DEF Stop, Executing, Quietly
  <2> QED BY <2>1, EndLeads
<1>2. ASSUME GoTo PROVE Leads
  <2>1. pc = "stmt" /\ Jump /\ UNCHANGED <<armed, got_quit>>
      BY <1>2 DEF GoTo, Executing, Quietly
  <2> QED BY <2>1, JumpLeads
<1>3. ASSUME If PROVE Leads
  <2>1. pc = "stmt" /\ UNCHANGED <<armed, got_quit>> /\ (Jump \/ (Finish(TRUE) /\ UNCHANGED pvars))
      BY <1>3 DEF If, Executing, Quietly
  <2> QED BY <2>1, JumpLeads, EndLeads
<1>4. ASSUME IfNot PROVE Leads
  <2>1. /\ pc = "stmt" /\ UNCHANGED <<pvars, armed, got_quit>>
        /\ Finish(~HasInt(store, cur.body.var))
      BY <1>4 DEF IfNot, Executing, Quietly
  <2> QED BY <2>1, EndLeads
<1>5. ASSUME IfEqual PROVE Leads
  <2>1. /\ pc = "stmt" /\ UNCHANGED <<armed, got_quit>>
        /\ \/ Jump
           \/ Finish(store_get_string(store, cur.body.var) = "none") /\ UNCHANGED pvars
      BY <1>5 DEF IfEqual, Executing, Quietly
  <2> QED BY <2>1, JumpLeads, EndLeads
<1>6. ASSUME Set PROVE Leads
  <2>1. pc = "stmt" /\ Finish(FALSE) /\ UNCHANGED <<pvars, armed, got_quit>>
      BY <1>6 DEF Set, Executing, Quietly
  <2> QED BY <2>1, EndLeads
<1>7. ASSUME Copy PROVE Leads
  <2>1. /\ pc = "stmt" /\ UNCHANGED <<pvars, armed, got_quit>>
        /\ Finish(~HasInt(store, cur.body.arg))
      BY <1>7 DEF Copy, Executing, Quietly
  <2> QED BY <2>1, EndLeads
<1>8. ASSUME Unset PROVE Leads
  <2>1. /\ pc = "stmt" /\ UNCHANGED <<pvars, armed, got_quit>>
        /\ Finish(FALSE) \/ pc' = "dead"
      BY <1>8 DEF Unset, Executing, Quietly
  <2>2. CASE Finish(FALSE) BY <2>1, <2>2, EndLeads
  <2>3. CASE pc' = "dead" BY <2>1, <2>3 DEF Leads
  <2> QED BY <2>1, <2>2, <2>3
<1>9. ASSUME Source PROVE Leads
  <2>1. /\ pc = "stmt" /\ UNCHANGED <<pvars, armed, got_quit>>
        /\ Finish(FALSE) \/ Finish(TRUE)
      BY <1>9 DEF Source, Executing
  <2> QED BY <2>1, EndLeads
<1>10. ASSUME NoJob PROVE Leads
  <2>1. pc = "stmt" /\ Finish(TRUE) /\ UNCHANGED <<pvars, armed, got_quit>>
      BY <1>10 DEF NoJob, Executing, Quietly
  <2> QED BY <2>1, EndLeads
<1>11. ASSUME StartJob PROVE Leads
  <2>1. PICK op \in {"fg", "bg"} :
            JobStep(IF cur.body.arg = "capture" THEN RunCapture(op) ELSE Run(op))
      BY <1>11 DEF StartJob
  <2> QED BY <2>1, JobLeads DEF JobStep
<1>12. ASSUME OnJob PROVE Leads
  <2>1. CASE JobStep(WaitFor(JobNo)) BY <2>1, JobLeads DEF JobStep
  <2>2. CASE JobStep(Poll(JobNo)) BY <2>2, JobLeads DEF JobStep
  <2>3. CASE JobStep(Cancel(JobNo)) BY <2>3, JobLeads DEF JobStep
  <2>4. CASE JobStep(Pause) BY <2>4, JobLeads DEF JobStep
  <2> QED BY <1>12, <2>1, <2>2, <2>3, <2>4 DEF OnJob
<1>13. ASSUME Resume PROVE Leads BY <1>13, JobLeads DEF Resume, JobStep
<1> QED BY <1>1, <1>2, <1>3, <1>4, <1>5, <1>6, <1>7, <1>8, <1>9, <1>10, <1>11, <1>12, <1>13
        DEF Execute

-----------------------------------------------------------------------------
(* The engine and the program store.                                           *)

\* A jump goes to a line that is stored, one of Lines.
LEMMA GoToIsProgram ==
    ASSUME ProgInv, NEW n, prog_goto(n) PROVE ProgNext
<1>1. PICK i \in At(n) : counter' = i - 1 BY DEF prog_goto
<1>2. prog \in Seq(Stmts) /\ i \in DOMAIN prog /\ prog[i].lineno = n
    BY <1>1 DEF At, ProgInv, ProgTypeOK
<1>3. prog[i] \in Stmts BY <1>2
<1>4. n \in Lines BY <1>2, <1>3 DEF Stmts
<1> QED BY <1>4 DEF ProgNext

LEMMA StepIsProgram == ProgInv /\ [ShellNext]_vars => [ProgNext]_pvars
<1> SUFFICES ASSUME ProgInv, ShellNext PROVE [ProgNext]_pvars BY DEF vars
<1>1. CASE TypeStmt BY <1>1 DEF TypeStmt, ProgNext
<1>2. CASE TypeCommand BY <1>2 DEF TypeCommand
<1>3. CASE Delete BY <1>3 DEF Delete, ProgNext
<1>4. CASE RunOrCont BY <1>4 DEF RunOrCont, ProgNext
<1>5. CASE ReadEof BY <1>5 DEF ReadEof
<1>6. CASE Execute
  <2>1. UNCHANGED pvars \/ prog_goto(cur.body.to) BY <1>6, ExecuteLeads DEF Leads
  <2> QED BY <2>1, GoToIsProgram
<1>7. CASE Loop
  <2>1. UNCHANGED pvars \/ prog_next BY <1>7 DEF Loop
  <2> QED BY <2>1 DEF ProgNext
<1>8. CASE LeaveRun BY <1>8 DEF LeaveRun
<1>9. CASE ShowTables BY <1>9 DEF ShowTables
<1>10. CASE Quit BY <1>10 DEF Quit
<1>11. ASSUME NEW p \in Pids, Child(p) PROVE [ProgNext]_pvars BY <1>11 DEF Child
<1> QED BY <1>1, <1>2, <1>3, <1>4, <1>5, <1>6, <1>7, <1>8, <1>9, <1>10, <1>11
        DEF ShellNext, Input, Engine

LEMMA ProgInvAlways == ShellSpec => []ProgInv
<1>1. ShellInit => ProgInv BY InvInit DEF ShellInit
<1>2. ProgInv /\ [ShellNext]_vars => ProgInv' BY StepIsProgram, InvNext
<1> QED BY <1>1, <1>2, PTL DEF ShellSpec

\* execution.c drives program.c as program.c's own specification allows: every
\* step of the shell, its children and the user is a call of it or none.
THEOREM ShellUsesTheStore == ShellSpec => ProgSpec
<1>1. ShellInit => ProgInit BY DEF ShellInit
<1> QED BY <1>1, ProgInvAlways, StepIsProgram, PTL DEF ShellSpec, ProgSpec

\* So in the shell, too, no line is stored twice and `length` counts them.
THEOREM ShellKeepsTheStore == ShellSpec => [](LinesUnique /\ LengthAgrees)
<1>1. ProgInv => LinesUnique /\ LengthAgrees BY DEF ProgInv
<1> QED BY <1>1, ProgInvAlways, PTL

-----------------------------------------------------------------------------
(* The signal.                                                                 *)

LEMMA QuitStep == ProgInv /\ QuitInv /\ [ShellNext]_vars => QuitInv'
<1> SUFFICES ASSUME ProgInv, QuitInv, [ShellNext]_vars PROVE QuitInv' OBVIOUS
<1> USE DEF QuitInv, Outside
<1>1. CASE TypeStmt
  <2>1. pc = "prompt" /\ UNCHANGED <<armed, got_quit>> BY <1>1 DEF TypeStmt
  <2>2. pc' \in {"prompt", "show"} BY <1>1 DEF TypeStmt, Prompt
  <2> QED BY <2>1, <2>2
<1>2. CASE TypeCommand
  <2>1. pc = "prompt" /\ pc' = "stmt" /\ UNCHANGED <<armed, got_quit>> BY <1>2 DEF TypeCommand
  <2> QED BY <2>1
<1>3. CASE Delete
  <2>1. pc = "prompt" /\ UNCHANGED <<armed, got_quit>> BY <1>3 DEF Delete
  <2>2. pc' \in {"prompt", "show"} BY <1>3 DEF Delete, Prompt
  <2> QED BY <2>1, <2>2
<1>4. CASE RunOrCont
  <2>1. pc = "prompt" /\ UNCHANGED got_quit BY <1>4 DEF RunOrCont
  <2>2. pc' = "loop" \/ (pc' \in {"prompt", "show"} /\ UNCHANGED armed)
      BY <1>4 DEF RunOrCont, exec_cont, Prompt
  <2> QED BY <2>1, <2>2
<1>5. CASE ReadEof
  <2>1. pc = "prompt" /\ UNCHANGED <<armed, got_quit>> BY <1>5 DEF ReadEof
  <2>2. pc' \in {"prompt", "show", "exited"} BY <1>5 DEF ReadEof, Prompt
  <2> QED BY <2>1, <2>2
<1>6. CASE Execute BY <1>6, ExecuteLeads DEF Leads
<1>7. CASE Loop
  <2>1. pc = "loop" BY <1>7 DEF Loop
  <2>2. CASE pc' = "left" BY <2>2
  <2>3. CASE pc' = "stmt" /\ HasNext /\ cur' = prog_fetch
    <3>1. prog \in Seq(Stmts) /\ counter \in Nat BY DEF ProgInv, ProgTypeOK
    <3>2. counter + 1 \in DOMAIN prog BY <2>3, <3>1 DEF HasNext
    <3>3. prog_fetch \in Stmts BY <3>1, <3>2 DEF prog_fetch
    <3>4. cur'.lineno # 0 BY <2>3, <3>3, LinesAssumption DEF Stmts
    <3> QED BY <2>3, <3>4
  <2> QED BY <1>7, <2>2, <2>3 DEF Loop
<1>8. CASE LeaveRun BY <1>8 DEF LeaveRun, Prompt
<1>9. CASE ShowTables
  <2>1. pc = "show" /\ pc' \in {"show", "prompt"} /\ UNCHANGED <<armed, got_quit>>
      BY <1>9 DEF ShowTables
  <2> QED BY <2>1
<1>10. CASE Quit BY <1>10 DEF Quit
<1>11. ASSUME NEW p \in Pids, Child(p) PROVE QuitInv' BY <1>11 DEF Child, shvars
<1>12. CASE UNCHANGED vars BY <1>12 DEF vars, shvars
<1> QED BY <1>1, <1>2, <1>3, <1>4, <1>5, <1>6, <1>7, <1>8, <1>9, <1>10, <1>11, <1>12
        DEF ShellNext, Input, Engine

\* A SIGQUIT, whenever it comes, ends at most the run it was sent to
\* (execution.c:108-135): for any program, any input and any children.
THEOREM QuitStaysWithItsRun == ShellSpec => []QuitIsNotKept
<1>1. ShellInit => QuitInv BY DEF ShellInit, QuitInv
<1>2. QuitInv => QuitIsNotKept BY DEF QuitInv, Outside, QuitIsNotKept
<1> QED BY <1>1, <1>2, ProgInvAlways, QuitStep, PTL DEF ShellSpec

-----------------------------------------------------------------------------
(* The counter.                                                                *)

LEMMA CounterStep == ProgInv /\ RunStaysInProgram /\ [ShellNext]_vars => RunStaysInProgram'
<1> SUFFICES ASSUME ProgInv, RunStaysInProgram, [ShellNext]_vars PROVE RunStaysInProgram' OBVIOUS
<1> USE DEF RunStaysInProgram
<1>1. prog \in Seq(Stmts) /\ counter \in Nat /\ Len(prog) \in Nat BY DEF ProgInv, ProgTypeOK
<1>2. CASE TypeStmt
  <2>1. pc' \in {"prompt", "show"} BY <1>2 DEF TypeStmt, Prompt
  <2> QED BY <2>1
<1>3. CASE TypeCommand
  <2>1. pc' = "stmt" /\ cur'.lineno = 0 BY <1>3 DEF TypeCommand
  <2> QED BY <2>1
<1>4. CASE Delete
  <2>1. pc' \in {"prompt", "show"} BY <1>4 DEF Delete, Prompt
  <2> QED BY <2>1
<1>5. CASE RunOrCont
  <2>1. UNCHANGED prog BY <1>5 DEF RunOrCont, prog_reset, pvars
  <2>2. pc' \in {"prompt", "show"} \/ counter' < Len(prog)
      BY <1>5 DEF RunOrCont, exec_cont, Prompt
  <2>3. counter' \in Nat BY <1>1, <1>5 DEF RunOrCont, prog_reset, pvars
  <2> QED BY <1>1, <2>1, <2>2, <2>3
<1>6. CASE ReadEof
  <2>1. pc' \in {"prompt", "show", "exited"} BY <1>6 DEF ReadEof, Prompt
  <2> QED BY <2>1
<1>7. CASE Execute
  <2>1. Leads BY <1>7, ExecuteLeads
  <2>2. CASE UNCHANGED pvars BY <2>1, <2>2 DEF Leads, pvars
  <2>3. CASE prog_goto(cur.body.to)
    <3>1. PICK i \in At(cur.body.to) : counter' = i - 1 BY <2>3 DEF prog_goto
    <3>2. i \in 1 .. Len(prog) /\ UNCHANGED prog BY <1>1, <2>3, <3>1 DEF At, prog_goto
    <3> QED BY <1>1, <3>1, <3>2
  <2> QED BY <2>1, <2>2, <2>3 DEF Leads
<1>8. CASE Loop
  <2>1. CASE pc' = "left" BY <2>1
  <2>2. CASE HasNext /\ prog_next BY <1>1, <2>2 DEF HasNext, prog_next
  <2> QED BY <1>8, <2>1, <2>2 DEF Loop
<1>9. CASE LeaveRun BY <1>9 DEF LeaveRun, Prompt
<1>10. CASE ShowTables
  <2>1. pc' \in {"show", "prompt"} BY <1>10 DEF ShowTables
  <2> QED BY <2>1
<1>11. CASE Quit BY <1>11 DEF Quit, pvars
<1>12. ASSUME NEW p \in Pids, Child(p) PROVE RunStaysInProgram' BY <1>12 DEF Child, shvars, pvars
<1>13. CASE UNCHANGED vars BY <1>13 DEF vars, shvars, pvars
<1> QED BY <1>2, <1>3, <1>4, <1>5, <1>6, <1>7, <1>8, <1>9, <1>10, <1>11, <1>12, <1>13
        DEF ShellNext, Input, Engine

\* A running program has its counter within it, whatever it jumps to and whatever
\* was typed or deleted while it was stopped (execution.c:108, program.c).
THEOREM RunsStayInside == ShellSpec => []RunStaysInProgram
<1>1. ShellInit => RunStaysInProgram BY DEF ShellInit, RunStaysInProgram
<1> QED BY <1>1, ProgInvAlways, CounterStep, PTL DEF ShellSpec

-----------------------------------------------------------------------------
(* The engine and the job table.                                               *)

\* The job statements and the prompt's show use the table; a step of the engine that
\* does something else leaves it alone.
LEMMA StepIsTable == [ShellNext]_vars => [TableNext(JobNo)]_jvars
<1> SUFFICES ASSUME ShellNext PROVE TableNext(JobNo)
    BY DEF vars
<1>1. NoJobs => TableNext(JobNo) BY DEF NoJobs, TableNext
<1>2. CASE TypeStmt \/ TypeCommand \/ Delete \/ RunOrCont \/ Loop \/ LeaveRun
    BY <1>1, <1>2 DEF TypeStmt, TypeCommand, Delete, RunOrCont, Loop, LeaveRun, Elsewhere
<1>3. CASE ReadEof
  <2>1. NoJobs \/ jobs_fini BY <1>3 DEF ReadEof
  <2> QED BY <1>1, <2>1 DEF TableNext, JobsNext, Shell
<1>4. CASE ShowTables
  <2>1. NoJobs \/ Show \/ ShowStep BY <1>4 DEF ShowTables
  <2> QED BY <1>1, <2>1 DEF TableNext, JobsNext, Shell, ShellBlocked
<1>5. CASE Stop \/ GoTo \/ If \/ IfNot \/ IfEqual \/ Set \/ Copy \/ Unset \/ NoJob
    BY <1>1, <1>5 DEF Stop, GoTo, If, IfNot, IfEqual, Set, Copy, Unset, NoJob, Quietly
<1>6. CASE Source BY <1>1, <1>6 DEF Source
<1>7. CASE StartJob
  <2>1. PICK op \in {"fg", "bg"} :
            JobStep(IF cur.body.arg = "capture" THEN RunCapture(op) ELSE Run(op))
      BY <1>7 DEF StartJob
  <2>2. Run(op) \/ RunCapture(op) BY <2>1 DEF JobStep
  <2> QED BY <2>2 DEF TableNext, JobsNext, Shell
<1>8. CASE OnJob
  <2>1. WaitFor(JobNo) \/ Poll(JobNo) \/ Cancel(JobNo) \/ Pause BY <1>8 DEF OnJob, JobStep
  <2> QED BY <2>1 DEF TableNext, JobsNext, Shell
<1>9. CASE Resume
  <2>1. FgetsReturns \/ WaitReturns \/ PauseStep BY <1>9 DEF Resume, JobStep
  <2> QED BY <2>1 DEF TableNext, JobsNext, Shell, ShellBlocked
<1>10. CASE Quit BY <1>10 DEF Quit, jvars, TableNext
<1>11. ASSUME NEW p \in Pids, Child(p) PROVE TableNext(JobNo)
    BY <1>11 DEF Child, TableNext, JobsNext
<1> QED BY <1>2, <1>3, <1>4, <1>5, <1>6, <1>7, <1>8, <1>9, <1>10, <1>11
        DEF ShellNext, Input, Engine, Execute

LEMMA EngineTableStep == JobsInv /\ [ShellNext]_vars => JobsInv'
BY StepIsTable, TableStepKeepsInv

\* jobs.c:61 and 257-371, driven by execution.c: whatever number a variable gives a
\* job statement for an ID, and whichever of the statements come when, the table keeps
\* its count and no ID is found later than it promises.
THEOREM ShellKeepsTheTable == ShellSpec => [](NextIdIsTableSize /\ IdBoundsPosition)
<1>1. JobsInv => NextIdIsTableSize /\ IdBoundsPosition
    BY DEF JobsInv, TableInv, NextIdIsTableSize, IdBoundsPosition
<1>2. ShellInit => JobsInv BY JobsInvInitial DEF ShellInit
<1> QED BY <1>1, <1>2, EngineTableStep, PTL DEF ShellSpec

\* execution.c:204-256: in a session without wait, poll and the tables of the prompt, the
\* engine never marks as completed a job whose child goes on and forgets no child, and
\* FG waits for its own, inside runs and out of them.
THEOREM ShellMindsItsChildren ==
    ASSUME Watched
    PROVE  ShellSpec => [](CompletedHasTerminated /\ ChildrenAreNamed /\ ForegroundWaitsForOwn)
<1>1. ShellInit => JobsInv /\ OwnInv /\ NamedInv
    BY JobsInvInitial, OwnInitially, NamedInitially DEF ShellInit
<1>2. JobsInv /\ OwnInv /\ NamedInv /\ [ShellNext]_vars => OwnInv' /\ NamedInv'
    BY StepIsTable, NamedStep
<1> QED BY <1>1, <1>2, EngineTableStep, NamedIsEnough, OwnIsEnough, PTL DEF ShellSpec
=============================================================================
