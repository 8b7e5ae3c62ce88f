------------------------- MODULE ParBufferContract -------------------------
(***************************************************************************)
(* buffer.c beside the pointer that buffer.h speaks of: slot counts the    *)
(* items that nextitem returned since the last rewind.  With it a buffer   *)
(* is the ItemBuffer of its header.                                        *)
(***************************************************************************)
EXTENDS ParBuffer

VARIABLE slot

Writing == (\E item \in Items : additem(item)) \/ AddFails \/ clearbuffer

Reading ==
    \/ rewindbuffer /\ slot' = 0
    \/ nextitem /\ slot' = (IF HasItem THEN slot + 1 ELSE slot)
    \/ CopyItems /\ UNCHANGED slot

\* par uses nextitem to free what is in a buffer, when it adds nothing any more.
\* More generally: no block is added between nextitem reading the last slot of
\* the chain and the next rewind.
NoBlockAddedAtEnd == nextblk = NULL => Len(blocks') = Len(blocks)

SlotInit == BufInit /\ slot = 0
ReadLastNext == Reading \/ (Writing /\ NoBlockAddedAtEnd /\ UNCHANGED slot)

ReadLastSpec == SlotInit /\ [][ReadLastNext]_<<buffer, slot>>

-----------------------------------------------------------------------------
(* Properties. *)

Contract == INSTANCE ItemBuffer WITH items <- copyitems, last <- lastcall

\* buffer.h:36-74: the buffer is the sequence of the items added since the last
\* clear, and nextitem returns them by slot ("If there is an item in this slot,
\* nextitem(buf) advances the pointer to the next"), though blocks are used again
\* with old items in them and the pointer may be at a slot emptied since.
KeepsContract == Contract!Spec
=============================================================================
