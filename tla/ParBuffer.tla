----------------------------- MODULE ParBuffer -----------------------------
(***************************************************************************)
(* The growing buffer of par (hw2/src/buffer.c): a chain of blocks, each   *)
(* twice as large as the one before, that is filled from the front and     *)
(* never gives a block back.  The chain is the sequence blocks; a pointer  *)
(* to a block is its position, NULL is 0.                                  *)
(***************************************************************************)
EXTENDS Integers, Sequences

CONSTANTS
    Items,      \* what is stored
    Unwritten,  \* what malloc leaves in a slot
    First,      \* capacity of the first block: 124 / itemsize, at least 4
    MaxBlocks   \* bound on the chain: beyond it memory runs out

ASSUME FirstAssumption == First \in Nat \ {0}
ASSUME MaxBlocksAssumption == MaxBlocks \in Nat \ {0}

VARIABLES
    blocks, current, nextblk, nextindex,    \* the struct
    lastcall                                \* the last call and what it returned

buffer == <<blocks, current, nextblk, nextindex, lastcall>>

NULL == 0
NewBlock(maxhere, numprevious) ==
    [maxhere |-> maxhere, numprevious |-> numprevious, numhere |-> 0,
     items |-> [i \in 1 .. maxhere |-> Unwritten]]

\* newbuffer
BufInit ==
    /\ blocks = <<NewBlock(First, 0)>>
    /\ current = 1
    /\ nextblk = 1 /\ nextindex = 0
    /\ lastcall = [call |-> "new", value |-> <<>>]

Returns(call, value) == lastcall' = [call |-> call, value |-> value]

-----------------------------------------------------------------------------
(* Reading. *)

numitems == blocks[current].numprevious + blocks[current].numhere

\* copyitems copies the first numhere items of every block up to current to
\* the place numprevious in the array.
Place(b) == blocks[b].numprevious + 1 .. blocks[b].numprevious + blocks[b].numhere
Copied(k) == \E b \in 1 .. current : k \in Place(b)
copyitems ==
    [k \in 1 .. numitems |->
        IF Copied(k)
        THEN LET b == CHOOSE b \in 1 .. current : k \in Place(b)
             IN  blocks[b].items[k - blocks[b].numprevious]
        ELSE Unwritten]

\* (or it finds no memory).
CopyItems ==
    /\ Returns("copy", copyitems) \/ Returns("copy", <<>>)
    /\ UNCHANGED <<blocks, current, nextblk, nextindex>>

rewindbuffer ==
    /\ nextblk' = 1 /\ nextindex' = 0
    /\ Returns("rewind", <<>>) /\ UNCHANGED <<blocks, current>>

\* Mutant: a block is left behind when the items in it have been read, be it full
\* or not.

AdvanceAtEndOfItems ==
    IF nextindex + 1 >= blocks[nextblk].numhere
    THEN nextblk' = (IF nextblk = Len(blocks) THEN NULL ELSE nextblk + 1) /\ nextindex' = 0
    ELSE nextindex' = nextindex + 1 /\ UNCHANGED nextblk

\* Past the last slot of the last block nextblk becomes NULL.
Following(b) == IF b = Len(blocks) THEN NULL ELSE b + 1
Advance ==
    IF nextindex + 1 >= blocks[nextblk].maxhere
    THEN nextblk' = Following(nextblk) /\ nextindex' = 0
    ELSE nextindex' = nextindex + 1 /\ UNCHANGED nextblk

HasItem == nextblk # NULL /\ nextindex < blocks[nextblk].numhere

nextitem ==
    /\ IF HasItem THEN Returns("next", <<blocks[nextblk].items[nextindex + 1]>>) /\ Advance
       ELSE Returns("next", <<>>) /\ UNCHANGED <<nextblk, nextindex>>
    /\ UNCHANGED <<blocks, current>>

-----------------------------------------------------------------------------
(* Writing. *)

Full == blocks[current].numhere = blocks[current].maxhere

\* The chain with item stored in block b of it.
Stored(blk, item) ==
    [maxhere |-> blk.maxhere, numprevious |-> blk.numprevious, numhere |-> blk.numhere + 1,
     items |-> [blk.items EXCEPT ![blk.numhere + 1] = item]]
Put(chain, b, item) == [chain EXCEPT ![b] = Stored(chain[b], item)]

\* Mutant: clearbuffer leaves the later blocks filled.
ClearMovesOnly ==
    /\ blocks' = [blocks EXCEPT ![1].numhere = 0]
    /\ current' = 1
    /\ Returns("clear", <<>>) /\ UNCHANGED <<nextblk, nextindex>>

AddHere(item) == ~Full /\ blocks' = Put(blocks, current, item) /\ UNCHANGED current

\* A block from before the buffer was cleared is used again.
AddReused(item) ==
    /\ Full /\ current < Len(blocks)
    /\ blocks' = Put(blocks, current + 1, item)
    /\ current' = current + 1

AddGrown(item) ==
    /\ Full /\ current = Len(blocks) /\ current < MaxBlocks
    /\ blocks' = LET blk == blocks[current]
                 IN  Put(Append(blocks, NewBlock(2 * blk.maxhere, blk.numprevious + blk.numhere)),
                         current + 1, item)
    /\ current' = current + 1

additem(item) ==
    /\ AddHere(item) \/ AddReused(item) \/ AddGrown(item)
    /\ Returns("add", <<>>) /\ UNCHANGED <<nextblk, nextindex>>

\* malloc fails: an error is set and the buffer is as before.
AddFails ==
    /\ Full /\ current = Len(blocks)
    /\ Returns("add", <<>>) /\ UNCHANGED <<blocks, current, nextblk, nextindex>>

clearbuffer ==
    /\ blocks' = [b \in DOMAIN blocks |-> [blocks[b] EXCEPT !.numhere = 0]]
    /\ current' = 1
    /\ Returns("clear", <<>>) /\ UNCHANGED <<nextblk, nextindex>>

BufNext ==
    \/ \E item \in Items : additem(item)
    \/ AddFails \/ clearbuffer \/ rewindbuffer \/ nextitem \/ CopyItems

BufSpec == BufInit /\ [][BufNext]_buffer

-----------------------------------------------------------------------------
(* Properties. *)

Block == [maxhere : Nat \ {0}, numprevious : Nat, numhere : Nat,
          items : Seq(Items \cup {Unwritten})]

BufTypeOK ==
    /\ blocks \in Seq(Block)
    /\ \A b \in DOMAIN blocks :
          Len(blocks[b].items) = blocks[b].maxhere /\ blocks[b].numhere <= blocks[b].maxhere
    /\ current \in DOMAIN blocks
    /\ nextblk \in DOMAIN blocks \cup {NULL}
    /\ nextindex \in Nat

\* buffer.c:33-45: the blocks before the current one are full and those after it
\* are empty, also when blocks are used again after clearbuffer, which does not
\* touch numprevious: a block always starts where the one before it can end.
FilledInOrder ==
    /\ \A b \in 1 .. current - 1 : blocks[b].numhere = blocks[b].maxhere
    /\ \A b \in current + 1 .. Len(blocks) : blocks[b].numhere = 0
    /\ blocks[1].numprevious = 0
    /\ \A b \in 1 .. Len(blocks) - 1 :
          blocks[b + 1].numprevious = blocks[b].numprevious + blocks[b].maxhere
=============================================================================
