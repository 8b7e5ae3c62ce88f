------------------------ MODULE MushProgramContract ------------------------
(***************************************************************************)
(* The calls under which program.c keeps the promise of ProgramStore: new  *)
(* lines are typed in increasing order with the counter at the end, and a  *)
(* deletion while a program is stopped half way spares the statements it   *)
(* has passed.  The scripts of hw4/rsrc type their program in order and    *)
(* then `run` it, which is such a use.  The calls may be any; whether they *)
(* were these so far is remembered.                                        *)
(***************************************************************************)
EXTENDS MushProgram

CONSTANT End
ASSUME AboveAssumption == End \in Nat /\ \A n \in Lines : n < End

VARIABLE orderly    \* history: all calls so far were of this kind

cvars == <<pvars, orderly>>

\* The call adds a line above all others with the counter at the end ...
TypedInOrder ==
    Len(prog') > Len(prog) =>
        AtEnd /\ \A i \in DOMAIN prog : prog[i].lineno < prog'[Len(prog')].lineno

\* ... or takes no statement the counter has passed.
SparesPassed ==
    Len(prog') < Len(prog) => AtEnd \/ IsPrefix(SubSeq(prog, 1, counter), prog')

ContractNext == ProgNext /\ orderly' = (orderly /\ TypedInOrder /\ SparesPassed)

ContractInit == ProgInit /\ orderly = TRUE
ContractSpec == ContractInit /\ [][ContractNext]_cvars

-----------------------------------------------------------------------------

StoredLines == {prog[i].lineno : i \in DOMAIN prog}

StoredStmts == [n \in StoredLines |-> prog[CHOOSE i \in At(n) : TRUE].body]
Position == IF HasNext THEN prog_fetch.lineno ELSE End

Store == INSTANCE ProgramStore WITH stmts <- StoredStmts, pc <- Position

\* program.c:7-14 and the comments of its functions: as long as it is used in this
\* way, every call has the documented effect on the statements and on the position
\* of the program counter, although the code keeps neither sorted lines nor a
\* pointer to the next statement but a list in typing order and a number.
KeepsPromise == Store!Init /\ [][orderly' => [Store!Next]_(Store!vars)]_cvars

\* program.c:37, "Statements are listed in increasing order of their line
\* number": so they are in this use.
ListedWhenOrderly == orderly => ListedInOrder
=============================================================================
