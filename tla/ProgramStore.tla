---------------------------- MODULE ProgramStore ----------------------------
(***************************************************************************)
(* What hw4/src/program.c promises in its comments: a set of numbered      *)
(* statements and a program counter that stands just before one of them    *)
(* or after all (program.c:7-14).  MushProgramContract relates the code to *)
(* it.                                                                     *)
(***************************************************************************)
EXTENDS Integers

CONSTANTS Lines, Bodies

\* Where the counter stands when it is after all statements: a number above
\* every line, so that "the first line from pc on" reads the same there (assumed
\* in MushProgramContract).
CONSTANT End

VARIABLES
    stmts,  \* [line number stored |-> what the statement says]
    pc      \* the line the counter is just before, or End

vars == <<stmts, pc>>

Stored == DOMAIN stmts

\* The first stored line of a set, End if there is none.
First(lines) ==
    IF lines = {} THEN End
    ELSE CHOOSE n \in lines : \A m \in lines : n <= m

Init == stmts = [n \in {} |-> n] /\ pc = End

\* program.c:75-87, the counter stays before the statement it was before.
Insert(n, b) ==
    /\ stmts' = [m \in Stored \cup {n} |-> IF m = n THEN b ELSE stmts[m]]
    /\ pc' = pc

\* program.c:128-137, the counter moves only off a deleted statement, to the
\* first one beyond those deleted.
Delete(min, max) ==
    LET left == Stored \ (min .. max)
    IN  /\ stmts' = [m \in left |-> stmts[m]]
        /\ pc' = First({m \in left : pc <= m})

Reset == pc' = First(Stored) /\ UNCHANGED stmts

Advance == pc # End /\ pc' = First({m \in Stored : pc < m}) /\ UNCHANGED stmts

GoTo(n) == n \in Stored /\ pc' = n /\ UNCHANGED stmts

Next ==
    \/ \E n \in Lines, b \in Bodies : Insert(n, b)
    \/ \E min, max \in Lines : Delete(min, max)
    \/ Reset
    \/ Advance
    \/ \E n \in Lines : GoTo(n)

Spec == Init /\ [][Next]_vars
=============================================================================
