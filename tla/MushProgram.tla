---------------------------- MODULE MushProgram ----------------------------
(***************************************************************************)
(* The program store of mush (hw4/src/program.c): a list of numbered       *)
(* statements and a program counter.  The doubly linked list with sentinel *)
(* `head` is the sequence prog; the integers counter and length are the    *)
(* globals of the same name.  One operator per function of the file.       *)
(***************************************************************************)
EXTENDS Integers, Sequences, FiniteSets, SequencesExt

CONSTANTS
    Lines,          \* the line numbers in use; the parser refuses n <= 0
    Bodies,         \* what a statement says, its line number aside
    MaxCounter      \* bound: the counter grows with every appended statement

ASSUME LinesAssumption == Lines \subseteq Nat \ {0}
ASSUME BoundAssumption == MaxCounter \in Nat

VARIABLES prog, counter, length

pvars == <<prog, counter, length>>

Stmts == [lineno : Lines, body : Bodies]

ProgInit == prog = <<>> /\ counter = 0 /\ length = 0

-----------------------------------------------------------------------------
(* Reading the store. *)

\* prog_fetch returns the first statement whose 1-based position exceeds
\* counter, or NULL.
HasNext == counter < Len(prog)
prog_fetch == prog[counter + 1]

At(lineno) == {i \in DOMAIN prog : prog[i].lineno = lineno}

\* What prog_list prints, a statement shown by its line number: the arrow
\* goes after statement number `counter`, or last when counter >= length.
Arrow == 0
prog_list ==
    LET shown == [i \in DOMAIN prog |-> prog[i].lineno]
    IN  IF counter >= length THEN Append(shown, Arrow)
        ELSE IF counter \in DOMAIN prog THEN InsertAt(shown, counter + 1, Arrow)
        ELSE shown

-----------------------------------------------------------------------------
(* The operations. *)

\* Mutants: a replaced statement moves to the end; appending leaves the counter
\* behind; a deletion counts the range and not the statements; a deletion drags the
\* counter along wherever the deleted statements are.
ReplaceMovesToEnd(stmt) ==
    /\ \E i \in At(stmt.lineno) : prog' = Append(RemoveAt(prog, i), stmt)
    /\ UNCHANGED <<counter, length>>

AppendKeepsCounter(stmt) ==
    /\ At(stmt.lineno) = {}
    /\ prog' = Append(prog, stmt)
    /\ length' = length + 1
    /\ UNCHANGED counter

DeleteCountsRange(min, max) ==
    /\ prog' = SelectSeq(prog, LAMBDA s : s.lineno \notin min .. max)
    /\ length' = length - (max - min + 1)
    /\ UNCHANGED counter

DeleteDragsCounter(min, max) ==
    LET kept == SelectSeq(prog, LAMBDA s : s.lineno \notin min .. max)
    IN  /\ prog' = kept
        /\ length' = Len(kept)
        /\ counter' = IF counter < length - Len(kept) THEN 0
                      ELSE counter - (length - Len(kept))

\* A statement with the line number of an old one takes its place ...
Replace(stmt) ==
    /\ \E i \in At(stmt.lineno) : prog' = [prog EXCEPT ![i] = stmt]
    /\ UNCHANGED <<counter, length>>

\* ... any other goes to the end of the list, wherever its number belongs.
AppendStmt(stmt) ==
    /\ At(stmt.lineno) = {}
    /\ counter < MaxCounter
    /\ prog' = Append(prog, stmt)
    /\ length' = length + 1
    /\ counter' = counter + 1

prog_insert(stmt) == Replace(stmt) \/ AppendStmt(stmt)

\* prog' is prog at the positions `keep`, in their order.
Subsequence(keep) ==
    \E f \in [1 .. Cardinality(keep) -> keep] :
        /\ \A j, k \in DOMAIN f : j < k => f[j] < f[k]
        /\ prog' = [k \in DOMAIN f |-> prog[f[k]]]

Doomed(min, max) == {i \in DOMAIN prog : prog[i].lineno \in min .. max}

prog_delete(min, max) ==
    /\ Subsequence(DOMAIN prog \ Doomed(min, max))
    /\ length' = length - Cardinality(Doomed(min, max))
    /\ UNCHANGED counter

prog_reset == counter' = 0 /\ UNCHANGED <<prog, length>>

\* The only caller, exec_cont, advances after a fetch that found a statement.
prog_next == HasNext /\ counter' = counter + 1 /\ UNCHANGED <<prog, length>>

prog_goto(lineno) ==
    /\ \E i \in At(lineno) : counter' = i - 1
    /\ UNCHANGED <<prog, length>>

ProgNext ==
    \/ \E stmt \in Stmts : prog_insert(stmt)
    \/ \E min, max \in Lines : prog_delete(min, max)
    \/ prog_reset
    \/ prog_next
    \/ \E lineno \in Lines : prog_goto(lineno)

ProgSpec == ProgInit /\ [][ProgNext]_pvars

-----------------------------------------------------------------------------
(* Properties. *)

ProgTypeOK ==
    /\ prog \in Seq(Stmts)
    /\ counter \in Nat
    /\ length \in Nat

\* No line number is stored twice: replacing, appending and deleting keep the
\* numbers apart, so prog_goto and prog_insert have one statement to find.
LinesUnique ==
    \A i, j \in DOMAIN prog : prog[i].lineno = prog[j].lineno => i = j

\* The global `length`, which prog_list compares with the counter, is the
\* number of nodes on the list after any mix of calls.
LengthAgrees == length = Len(prog)

\* program.c:86, "if the position of the program counter was after all
\* statements before insertion of a new statement, then it will still be after
\* all statements after insertion"; deletion likewise (program.c:136).  Only
\* prog_reset and prog_goto, which leave prog alone, move it off the end.
AtEnd == ~HasNext
EditingKeepsEnd == [][AtEnd /\ prog' # prog => AtEnd']_pvars

\* A deletion that leaves every statement before the counter alone keeps the
\* statement to be executed next, if that survives (program.c:129, the part of
\* the promise that holds).
DeletionAheadKeepsNext ==
    [][HasNext /\ Len(prog') < Len(prog)
          /\ IsPrefix(SubSeq(prog, 1, counter), prog')
          /\ prog_fetch \in Range(prog')
       => HasNext' /\ prog_fetch' = prog_fetch]_pvars

\* program.c:38, "The current position of the program counter is indicated by a
\* line containing only the string "-->" at the current program counter
\* position": true but for a counter of 0, where a listing has no such line.
ListingShowsCounter ==
    counter = 0 \/
    \E i \in DOMAIN prog_list :
        /\ prog_list[i] = Arrow
        /\ IF HasNext THEN i < Len(prog_list) /\ prog_list[i + 1] = prog_fetch.lineno
           ELSE i = Len(prog_list)

\* program.c:37, "Statements are listed in increasing order of their line
\* number".
ListedInOrder ==
    \A i, j \in DOMAIN prog_list :
        i < j /\ Arrow \notin {prog_list[i], prog_list[j]}
            => prog_list[i] < prog_list[j]
=============================================================================
