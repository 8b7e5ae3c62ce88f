---------------------------- MODULE ItemBuffer ----------------------------
(***************************************************************************)
(* What hw2/include/buffer.h promises: a sequence of items that is added   *)
(* to at its end and emptied, and a pointer at one of its slots that       *)
(* nextitem advances over items.                                           *)
(***************************************************************************)
EXTENDS Naturals, Sequences

CONSTANT Items

VARIABLES
    items,  \* the items in the buffer
    slot,   \* how many slots are before the pointer
    last    \* the last call and what it returned: nothing, an item, or all of them

Returns(call, value) == last' = [call |-> call, value |-> value]

Init == items = <<>> /\ slot = 0 /\ last = [call |-> "new", value |-> <<>>]

Add(item) == items' = Append(items, item) /\ Returns("add", <<>>) /\ UNCHANGED slot

\* additem when memory runs out.
FailToAdd == Returns("add", <<>>) /\ UNCHANGED <<items, slot>>

Clear == items' = <<>> /\ Returns("clear", <<>>) /\ UNCHANGED slot

Rewind == slot' = 0 /\ Returns("rewind", <<>>) /\ UNCHANGED items

\* With no item in its slot the pointer stays where it is.
NextItem ==
    /\ IF slot < Len(items) THEN slot' = slot + 1 /\ Returns("next", <<items[slot + 1]>>)
       ELSE Returns("next", <<>>) /\ UNCHANGED slot
    /\ UNCHANGED items

\* copyitems, which also returns NULL when memory runs out.
Copy ==
    /\ Returns("copy", items) \/ Returns("copy", <<>>)
    /\ UNCHANGED <<items, slot>>

Next ==
    \/ \E item \in Items : Add(item)
    \/ FailToAdd \/ Clear \/ Rewind \/ NextItem \/ Copy

Spec == Init /\ [][Next]_<<items, slot, last>>
=============================================================================
