----------------------------- MODULE MushStore -----------------------------
(***************************************************************************)
(* The data store of mush (hw4/src/store.c): variables, each with a string *)
(* and a number of which every assignment writes one and perhaps the       *)
(* other.  The list of STORE nodes is a function of the names in use; the  *)
(* operators give the store after a call.                                  *)
(***************************************************************************)
EXTENDS Integers

CONSTANTS
    Strings,    \* what a program assigns as a string
    Strtol,     \* [Strings -> Int], the number strtol makes of each
    Junk,       \* the string of a node whose string was never written
    Leftover    \* the numbers malloc may leave in a node

ASSUME StringsAssumption == Junk \notin Strings /\ Strtol \in [Strings -> Int]
ASSUME LeftoverAssumption == Leftover \subseteq Int /\ Leftover # {}

VARIABLES
    store,  \* [name in use |-> its node]
    errno   \* BOOLEAN: the C variable is set; but for the scanner nothing clears it

svars == <<store, errno>>

StoreInit == store = [v \in {} |-> v] /\ errno \in BOOLEAN

Put(st, v, node) == [w \in DOMAIN st \cup {v} |-> IF w = v THEN node ELSE st[w]]

store_get_string(st, v) == IF v \in DOMAIN st THEN st[v].string ELSE "none"

\* store_get_int reports an integer of 0 as no integer.
HasInt(st, v) == v \in DOMAIN st /\ st[v].number # 0

\* An assignment of an integer leaves the string of the variable as it was.
store_set_int(st, v, n) ==
    Put(st, v, [string |-> IF v \in DOMAIN st THEN st[v].string ELSE Junk, number |-> n])

\* An assignment of a string also sets the number, unless an error is left in
\* errno, be it of a call long ago.
store_set_string(st, v, s, error) ==
    LET numbers == IF ~error THEN (IF s = Junk THEN Leftover ELSE {Strtol[s]})
                   ELSE IF v \in DOMAIN st THEN {st[v].number} ELSE Leftover
    IN  {Put(st, v, [string |-> s, number |-> n]) : n \in numbers}

\* With NULL for the value; only for a variable in use, see unset in MushShell.
store_unset(st, v) == [w \in DOMAIN st \ {v} |-> st[w]]
=============================================================================
