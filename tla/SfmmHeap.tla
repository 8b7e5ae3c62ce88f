------------------------------ MODULE SfmmHeap ------------------------------
(***************************************************************************)
(* The allocator of hw3/src/sfmm.c.                                        *)
(*                                                                         *)
(* Addresses are bytes from the start of the heap, and a block is named by *)
(* the address of its header.  Of the memory the model keeps the words     *)
(* that decode to a header or footer, live ones and ones left behind; all  *)
(* others hold data of the client, or nothing.  The links of the lists are *)
(* left out: a list is the sequence of its blocks.                         *)
(*                                                                         *)
(* The code goes wrong in several ways.  The model records as an event     *)
(* that it did, and ends there: what the heap is used for afterwards is    *)
(* undefined.                                                              *)
(***************************************************************************)
EXTENDS Integers, Sequences, SequencesExt, FiniteSets

CONSTANTS
    NUM_QUICK_LISTS, QUICK_LIST_MAX, NUM_FREE_LISTS, PAGE_SZ,
    SizeRange,      \* the number of values of sf_size_t, 2^32
    MaxPages,       \* bound: the pages sf_mem_grow has to give
    Requests,       \* the sizes the client asks for
    MaxLive,        \* bound: the blocks it holds at a time
    MaxCalls,       \* bound: the calls it makes
    Magics          \* "zero" after sf_set_magic(0), else "random"

VARIABLES
    heap,       \* the memory, its end, the lists, and the events
    live,       \* the blocks the client holds: address -> size it asked for
    magic,
    sf_errno,
    calls,      \* how many calls were made
    outcome     \* "runs", "aborted" or "crashed" (or hangs)

vars == <<heap, live, magic, sf_errno, calls, outcome>>

Align == 16
ASSUME SizesAssumption ==
    /\ NUM_QUICK_LISTS \in Nat /\ NUM_QUICK_LISTS >= 2
    /\ QUICK_LIST_MAX \in Nat \ {0}
    /\ NUM_FREE_LISTS \in Nat /\ NUM_FREE_LISTS >= 3
    /\ MaxPages \in Nat \ {0}
    /\ PAGE_SZ \in Nat /\ PAGE_SZ % 16 = 0 /\ PAGE_SZ >= 96
    /\ SizeRange \in Nat /\ SizeRange % Align = 0 /\ SizeRange % PAGE_SZ = 0
    /\ PAGE_SZ * MaxPages <= SizeRange
    /\ Requests \subseteq 0..(SizeRange - 1)

MinBlock == 32
QuickLists == 0..(NUM_QUICK_LISTS - 1)
FreeLists == 0..(NUM_FREE_LISTS - 1)
NULL == 0

\* Sizes are unsigned, and what does not fit wraps around.
Narrowed(n) == n % SizeRange

THIS_BLOCK_ALLOCATED == "this"
PREV_BLOCK_ALLOCATED == "prev"
IN_QUICK_LIST == "quick"


\* A header or footer of n bytes; the bit of 8 falls in the unused flag.
Header(n, flags) ==
    [size |-> n - (n % Align), payload |-> 0,
     flags |-> flags \cup (IF n % Align = 8 THEN {"unused"} ELSE {})]
Data == [size |-> 0, payload |-> 0, flags |-> {"data"}]
At(h, a) == IF a \in DOMAIN h.mem THEN h.mem[a] ELSE Data
Written(h, addresses, tag) ==
    [h EXCEPT !.mem = [a \in DOMAIN h.mem \cup addresses |-> IF a \in addresses THEN tag ELSE h.mem[a]]]
Footer(b, size) == b + size - 8
Tagged(h, b, tag) == Written(h, {b, Footer(b, tag.size)}, tag)

Event(h, name, happens) == IF happens THEN [h EXCEPT !.events = @ \cup {name}] ELSE h

\* What sfmm.c does wrong to the heap; "flushed" only loses blocks.
Wrong == {"misfiled", "false footer", "three merged", "slack", "other size",
          "half grown", "no room", "not held", "wrapped"}
Sound == heap.events \cap Wrong = {} /\ outcome = "runs"

FirstBlock == 40
\* The headers met from the first block on, going by the sizes, and the last is
\* where this ends.
Starts(h) ==
    LET from[b \in 0..(h.end + FirstBlock)] ==
          IF b \notin DOMAIN h.mem \/ h.mem[b].size = 0 \/ b + h.mem[b].size > h.end THEN {b}
          ELSE {b} \cup from[b + h.mem[b].size]
    IN  from[FirstBlock]

---------------------------------------------------------------------------
(* Free lists.                                                             *)

\* The list of a size, as a set of at most one.
FreeListOf(size) ==
    LET s == size - 8
        last == NUM_FREE_LISTS - 1
        range[i \in 0..(last - 1)] == IF i = 0 THEN 1 ELSE 2 * range[i - 1]
    IN  {i \in FreeLists :
            \/ i = 0 /\ s = MinBlock * range[0]
            \/ i \in 1..(last - 1) /\ MinBlock * range[i - 1] < s /\ s <= MinBlock * range[i]
            \/ i = last /\ s > MinBlock * range[last - 1]}

placeFreeBlock(h, size, b) ==
    Event([h EXCEPT !.free = [i \in FreeLists |->
                IF i \in FreeListOf(size) THEN <<b>> \o @[i] ELSE @[i]]],
          "misfiled", FreeListOf(size) # FreeListOf(At(h, b).size))

\* The first place of b in a list is taken out, if it is there.
Unlinked(list, b) ==
    IF b \in ToSet(list) THEN RemoveAt(list, CHOOSE k \in DOMAIN list : list[k] = b) ELSE list

removeFreeBlock(h, size, b) ==
    [h EXCEPT !.free = [i \in FreeLists |->
        IF i \in FreeListOf(size) THEN Unlinked(@[i], b) ELSE @[i]]]

LooksFree(tag) == tag.flags = {}

\* A footer in front of b that is none of a free block, but what was left in the
\* payload of an allocated one.
FalseFooter(h, b) ==
    LET tag == At(h, b - 8)
        prev == b - tag.size
    IN  prev \notin Starts(h) \/ At(h, prev) # tag

WithPrevious(h, size, b) ==
    LET prev == At(h, b - 8)
        tag == Header(prev.size + size, prev.flags)
        at == b - prev.size
    IN  Written(removeFreeBlock(Event(h, "false footer", FalseFooter(h, b)), prev.size, at),
                {at, Footer(b, size)}, tag)


WithNext(h, size, b) ==
    LET next == At(h, b + size)
    IN  Tagged(removeFreeBlock(h, next.size, b + size), b, Header(size + next.size, next.flags))

Result(h, b) == [heap |-> h, block |-> b]

\* Only neighbours without any flag are merged.  Between two of them b is merged
\* with each by itself.
coalesce(h, size, b) ==
    LET back == LooksFree(At(h, b - 8))
        on == LooksFree(At(h, b + size))
    IN  CASE back /\ on -> Result(Event(WithNext(WithPrevious(h, size, b), size, b), "three merged", TRUE), b)
          [] back /\ ~on -> Result(WithPrevious(h, size, b), b - At(h, b - 8).size)
          [] ~back /\ on -> Result(WithNext(h, size, b), b)
          [] OTHER -> Result(h, NULL)

\* What sf_free, findBlock and sf_realloc do with a block that became free.
placeMerged(merged, size, b) ==
    placeFreeBlock(merged.heap, size, IF merged.block # NULL THEN merged.block ELSE b)

\* Mutant: only a block that could not be merged is placed.
ReleaseAlone(h, size, b) ==
    LET merged == coalesce(h, size, b)
    IN  IF merged.block # NULL THEN merged.heap ELSE placeFreeBlock(h, size, b)

Release(h, size, b) == placeMerged(coalesce(h, size, b), size, b)

\* Mutant: the rest keeps the size of the whole.
SplitWithoutShare(h, b, size, n) == Tagged(h, b + n, Header(size, {PREV_BLOCK_ALLOCATED}))

\* The front n bytes of a block of the given size are used, the rest is free.
Split(h, b, size, n) == Tagged(h, b + n, Header(size - n, {PREV_BLOCK_ALLOCATED}))

---------------------------------------------------------------------------
(* The heap and its growth.                                                *)

Least(a, b) == IF a <= b THEN a ELSE b
PagesFor(size) == (size + PAGE_SZ - 1) \div PAGE_SZ
Grown(h, size) == Least(h.end + PAGE_SZ * PagesFor(size), PAGE_SZ * MaxPages)

NoHeap == [mem |-> <<>>, end |-> 0, free |-> [i \in FreeLists |-> <<>>],
           quick |-> [i \in QuickLists |-> <<>>], events |-> {}]

initializeHeap(h, size) ==
    LET end == Grown(h, Narrowed(size + 48))
        free == end - 48
        prologue == Written([h EXCEPT !.end = end], {8}, Header(32, {THIS_BLOCK_ALLOCATED}))
        epilogue == Written(prologue, {end - 8}, Header(0, {THIS_BLOCK_ALLOCATED}))
    IN  placeFreeBlock(Tagged(epilogue, FirstBlock, Header(free, {PREV_BLOCK_ALLOCATED})),
                       free, FirstBlock)

\* The block behind the old end is merged with the one before it, whatever it is.
collapse(h, size, b) ==
    LET prev == At(h, b - 8)
        tag == Header(prev.size + size, prev.flags)
    IN  Result(Written(removeFreeBlock(Event(h, "false footer", FalseFooter(h, b)), prev.size, b - prev.size),
                       {b - prev.size, b + size - Align}, tag),
               b - prev.size)

placeBySize(merged) ==
    placeFreeBlock(merged.heap, At(merged.heap, merged.block).size, merged.block)

extendHeap(h, size) ==
    LET end == Grown(h, size)
        new == h.end - 8
        newSize == end - h.end + 8
        epilogue == Written([h EXCEPT !.end = end], {end - 8}, Header(0, {THIS_BLOCK_ALLOCATED}))
        written == Written(epilogue, {new, end - Align}, Header(newSize, {}))
    IN  IF end - h.end < PAGE_SZ * PagesFor(size)
        THEN [ok |-> FALSE, heap |-> Event([h EXCEPT !.end = end], "half grown", end > h.end)]
        ELSE [ok |-> TRUE, heap |-> placeBySize(collapse(written, newSize, new))]

---------------------------------------------------------------------------
(* Quick lists.                                                            *)

IsQuick(size) == size <= MinBlock + (NUM_QUICK_LISTS - 2) * Align
QuickSize(i) == MinBlock + i * Align
QuickTag(size) == Header(size, {THIS_BLOCK_ALLOCATED, IN_QUICK_LIST})

\* The blocks of a full list are freed one by one; only what the last was merged
\* into is placed in a list.
Flush(h, size, blocks) ==
    LET merged[n \in 0..Len(blocks)] ==
          IF n = 0 THEN Result(h, NULL)
          ELSE coalesce(Tagged(merged[n - 1].heap, blocks[n], Header(size, {})), size, blocks[n])
    IN  merged[Len(blocks)]

\* Mutant: the block that is freed joins the list that was to be flushed.
insertWithoutFlush(h, size, b) ==
    LET i == (size - MinBlock) \div Align
    IN  Result(Written([h EXCEPT !.quick[i] = <<b>> \o @], {b}, QuickTag(size)), b)

Begun(flushed, i, b) ==
    IF flushed.block = NULL THEN flushed
    ELSE Result([placeBySize(flushed) EXCEPT !.quick[i] = <<b>>], b)

insertQuick(h, size, b) ==
    LET i == (size - MinBlock) \div Align
        marked == Written(h, {b}, QuickTag(size))
    IN  IF Len(h.quick[i]) < QUICK_LIST_MAX THEN Result([marked EXCEPT !.quick[i] = <<b>> \o @], b)
        ELSE Begun(Flush(Event(marked, "flushed", TRUE), size, h.quick[i]), i, b)

\* The first quick list that is not empty is taken from, whatever is asked for:
\* headers are compared without removing the magic number.  Where that is 0, the
\* search of a list of smaller blocks runs into its end.
QuickChoice(h) ==
    LET some == {i \in QuickLists : h.quick[i] # <<>>}
    IN  IF some = {} THEN NUM_QUICK_LISTS ELSE CHOOSE i \in some : \A j \in some : i <= j

---------------------------------------------------------------------------
(* findBlock.                                                              *)

Found(h, b) == [heap |-> h, block |-> b, crash |-> FALSE]

\* A free block is unlinked, and split when the rest can be a block.
TakeFree(h, i, k, size) ==
    LET b == h.free[i][k]
        unlinked == [h EXCEPT !.free[i] = RemoveAt(@, k)]
        whole == At(h, b).size
    IN  IF whole - size >= MinBlock
        THEN Found(Release(Split(unlinked, b, whole, size), whole - size, b + size), b)
        ELSE Found(Event(unlinked, "slack", whole > size), b)

\* Only the first list that is not empty is searched; without a fit the heap
\* grows, and the search begins anew.
FirstFit(h, size) ==
    LET some == {i \in FreeLists : h.free[i] # <<>>}
        first == CHOOSE i \in some : \A j \in some : i <= j
        fits == {k \in DOMAIN h.free[first] : At(h, h.free[first][k]).size >= size}
    IN  CASE some = {} -> [is |-> "empty"]
          [] some # {} /\ fits = {} -> [is |-> "none"]
          [] OTHER -> [is |-> "fit", list |-> first, place |-> CHOOSE k \in fits : \A j \in fits : k <= j]

\* The heap as it is after the n-th search; it cannot grow more often than it has
\* pages to get.
Searched(h, size) ==
    LET search[n \in 0..MaxPages] ==
          IF n = 0 THEN [ok |-> TRUE, heap |-> h]
          ELSE LET so == search[n - 1]
               IN  IF so.ok /\ FirstFit(so.heap, size).is = "none" THEN extendHeap(so.heap, size)
                   ELSE so
    IN  search[MaxPages]

TakeFit(h, fit, size) ==
    IF fit.is = "fit" THEN TakeFree(h, fit.list, fit.place, size) ELSE Found(h, NULL)

searchFreeLists(searched, size) ==
    IF searched.ok THEN TakeFit(searched.heap, FirstFit(searched.heap, size), size)
    ELSE Found(searched.heap, NULL)

findBlock(h, size, raw) ==
    LET i == QuickChoice(h)
        b == Head(h.quick[i])
    IN  CASE IsQuick(size) /\ i \in QuickLists /\ (raw \/ QuickSize(i) >= size) ->
                Found(Event([h EXCEPT !.quick[i] = Tail(@)], "other size", QuickSize(i) # size), b)
          [] IsQuick(size) /\ i \in QuickLists /\ ~(raw \/ QuickSize(i) >= size) ->
                [Found(h, NULL) EXCEPT !.crash = TRUE]
          [] OTHER -> searchFreeLists(Searched(h, size), size)

\* A block for n bytes of payload.
BlockFor(n) ==
    LET asked == Narrowed(n + 8)
        size == IF asked <= MinBlock THEN MinBlock ELSE asked
    IN  Narrowed(size + ((Align - (size % Align)) % Align))

\* Mutant: the header is without the size of the payload.
AllocatedWithoutPayload(h, b, size, n) ==
    Written(h, {b}, Header(size, {THIS_BLOCK_ALLOCATED, PREV_BLOCK_ALLOCATED}))

Allocated(h, b, size, n) ==
    Written(h, {b}, [Header(size, {THIS_BLOCK_ALLOCATED, PREV_BLOCK_ALLOCATED}) EXCEPT !.payload = n])

\* sf_malloc of n > 0 bytes.  For the largest n the size of the block wraps around,
\* and one that is far too small, or of no bytes, is handed out.
Wraps(n) == BlockFor(n) < n + 8
Handed(found, n) ==
    IF found.block = NULL THEN found
    ELSE [found EXCEPT !.heap = Allocated(Event(@, "wrapped", Wraps(n)), found.block, BlockFor(n), n)]

\* With some of them as the first call, the heap begins with no page and is written
\* to where none is, or the loop that counts the pages never ends.
Starting(n) == Narrowed(n + 48) \in 1..(SizeRange - PAGE_SZ)
Malloc(h, n) ==
    IF h.end = 0 /\ ~Starting(n) THEN [Found(h, NULL) EXCEPT !.crash = TRUE]
    ELSE Handed(findBlock(IF h.end = 0 THEN initializeHeap(h, n) ELSE h, BlockFor(n), magic = "random"), n)

\* sf_free of the block at b.
Free(h, b) ==
    LET size == At(h, b).size
    IN  IF IsQuick(size) THEN insertQuick(Written(h, {b}, Header(size, {})), size, b)
        ELSE Result(Release(Tagged(h, b, Header(size, {})), size, b), b)

---------------------------------------------------------------------------
(* The calls of the client.                                                *)

Init ==
    /\ heap = NoHeap
    /\ live = <<>>
    /\ magic \in Magics
    /\ sf_errno = "none"
    /\ calls = 0
    /\ outcome = "runs"

\* The client gets the block b for n bytes, and gave up those in `gone`.
Holding(b, n, gone) ==
    [x \in (DOMAIN live \ gone) \cup {b} |-> IF x = b THEN n ELSE live[x]]
Without(b) == [x \in DOMAIN live \ {b} |-> live[x]]
Payload(h, b) == (b + 8)..Footer(b, h.mem[b].size)

\* The client writes into a block of its own: what an earlier use left there is
\* gone.
Write(b) ==
    LET old == Payload(heap, b) \cap DOMAIN heap.mem
    IN  /\ Sound /\ old # {}
        /\ heap' = [heap EXCEPT !.mem = [a \in DOMAIN heap.mem \ old |-> heap.mem[a]]]
        /\ UNCHANGED <<live, magic, sf_errno, calls, outcome>>

\* sf_malloc returns what it got, and the client holds what held says.
Returned(got, held) ==
    \/ /\ got.crash
       /\ outcome' = "crashed"
       /\ UNCHANGED <<heap, live, sf_errno>>
    \/ /\ ~got.crash /\ got.block = NULL
       /\ heap' = got.heap /\ sf_errno' = "ENOMEM"
       /\ UNCHANGED <<live, outcome>>
    \/ /\ ~got.crash /\ got.block # NULL
       /\ heap' = got.heap
       /\ live' = held
       /\ UNCHANGED <<sf_errno, outcome>>

sf_malloc(n) ==
    /\ Sound /\ Cardinality(DOMAIN live) < MaxLive
    /\ \/ /\ n = 0
          /\ UNCHANGED <<heap, live, sf_errno, outcome>>
       \/ /\ n > 0
          /\ \E got \in {Malloc(heap, n)} : Returned(got, Holding(got.block, n, {}))
    /\ magic' = magic

\* The checks of a pointer.
Valid(b) ==
    LET tag == At(heap, b)
    IN  /\ b % Align = 8 /\ b >= FirstBlock /\ b <= heap.end - 8
        /\ tag.size >= MinBlock
        /\ THIS_BLOCK_ALLOCATED \in tag.flags

\* A block that does not say that the one before it is allocated is rejected where
\* the word before it is 0, as data of the client may be.
Doubtful(b) == PREV_BLOCK_ALLOCATED \notin At(heap, b).flags /\ b - 8 \notin DOMAIN heap.mem

\* What the client passes: a pointer it holds, or one it gave back or never got.
Pointers == Starts(heap) \cup {FirstBlock - Align}

Freed(b) ==
    \E freed \in {Free(Event(heap, "not held", b \notin DOMAIN live), b)} :
        \/ /\ freed.block = NULL
           /\ outcome' = "crashed"
           /\ UNCHANGED <<heap, live>>
        \/ /\ freed.block # NULL
           /\ heap' = freed.heap
           /\ live' = Without(b)
           /\ outcome' = outcome

sf_free(b) ==
    /\ Sound
    /\ \/ /\ ~Valid(b) \/ Doubtful(b)
          /\ outcome' = "aborted"
          /\ UNCHANGED <<heap, live>>
       \/ Valid(b) /\ Freed(b)
    /\ UNCHANGED <<magic, sf_errno>>

\* sf_realloc moves a block that is to grow; its payload is copied with what was
\* left behind in it ...
Copied(h, from, to) ==
    LET old == {a \in DOMAIN h.mem : a \in (from + 8)..(from + 7 + h.mem[from].payload)}
        kept == DOMAIN h.mem \ ((to + 8)..(to + 7 + h.mem[from].payload))
    IN  [h EXCEPT !.mem = [a \in kept \cup {a - from + to : a \in old} |->
                              IF a \in kept THEN h.mem[a] ELSE h.mem[a - to + from]]]

Moved(got, b) ==
    IF got.block = NULL \/ got.heap.events \cap Wrong # {} THEN got
    ELSE LET freed == Free(Copied(got.heap, b, got.block), b)
         IN  [got EXCEPT !.heap = freed.heap, !.crash = freed.block = NULL]

ReallocGrow(b, n) ==
    /\ n > At(heap, b).size
    /\ \E got \in {Moved(Malloc(heap, n), b)} : Returned(got, Holding(got.block, n, {b}))

\* ... splits one that is to shrink, clearing the flags of a free neighbour ...
Shrunk(h, b, n) ==
    LET size == h.mem[b].size
        split == Split(h, b, size, BlockFor(n))
        next == At(split, b + size)
        cleared == IF THIS_BLOCK_ALLOCATED \in next.flags THEN split
                   ELSE Written(split, {b + size}, Header(next.size, {}))
        kept == [Header(BlockFor(n), At(h, b).flags) EXCEPT !.payload = n]
    IN  Written(Release(cleared, size - BlockFor(n), b + BlockFor(n)), {b}, kept)

\* ... and leaves one that is too small by the header where it is: the rest is
\* then negative, as an unsigned number a huge one, and its footer far away.
ReallocInPlace(b, n) ==
    LET tag == At(heap, b)
        short == n + 8 > tag.size
    IN  /\ n <= tag.size
        /\ \/ /\ short
              /\ heap' = Event(heap, "no room", TRUE)
              /\ outcome' = IF n < tag.size THEN "crashed" ELSE outcome
           \/ /\ ~short /\ tag.size - BlockFor(n) >= MinBlock
              /\ heap' = Shrunk(heap, b, n)
              /\ outcome' = outcome
           \/ /\ ~short /\ tag.size - BlockFor(n) < MinBlock
              /\ heap' = Written(heap, {b}, [tag EXCEPT !.payload = n])
              /\ outcome' = outcome
        /\ live' = [live EXCEPT ![b] = n]
        /\ UNCHANGED sf_errno

sf_realloc(b, n) ==
    /\ Sound
    /\ \/ /\ ~Valid(b) \/ Doubtful(b)
          /\ sf_errno' = "EINVAL"
          /\ UNCHANGED <<heap, live, outcome>>
       \/ n = 0 /\ Valid(b) /\ Freed(b) /\ UNCHANGED sf_errno
       \/ n > 0 /\ Valid(b) /\ b \in DOMAIN live /\ (ReallocGrow(b, n) \/ ReallocInPlace(b, n))
       \/ /\ n > 0 /\ Valid(b) /\ b \notin DOMAIN live
          /\ heap' = Event(heap, "not held", TRUE)
          /\ UNCHANGED <<live, sf_errno, outcome>>
    /\ magic' = magic

Counts == calls < MaxCalls /\ calls' = calls + 1
Ended == (~Sound \/ calls = MaxCalls) /\ UNCHANGED vars
Next ==
    \/ \E n \in Requests : Counts /\ sf_malloc(n)
    \/ \E b \in Pointers : Counts /\ sf_free(b)
    \/ \E b \in Pointers, n \in Requests : Counts /\ sf_realloc(b, n)
    \/ \E b \in DOMAIN live : Write(b)
    \/ Ended
Spec == Init /\ [][Next]_vars

---------------------------------------------------------------------------
(* sf_internal_fragmentation: every second word, from the first header to one  *)
(* of size 0, is taken for a header.                                           *)

Counted(h) ==
    LET words == {a \in DOMAIN h.mem : a >= FirstBlock /\ a % Align = 8}
        ends == {a \in words : h.mem[a].size = 0}
        end == CHOOSE a \in ends : \A e \in ends : a <= e
    IN  {a \in words : a < end /\ h.mem[a].size < h.end /\ THIS_BLOCK_ALLOCATED \in h.mem[a].flags}

sf_internal_fragmentation ==
    [payload |-> MapThenSumSet(LAMBDA a : heap.mem[a].payload, Counted(heap)),
     blocks |-> MapThenSumSet(LAMBDA a : heap.mem[a].size, Counted(heap))]

---------------------------------------------------------------------------
(* Properties: of a heap to which nothing was done wrong yet.              *)

QuickBlocks == UNION {ToSet(heap.quick[i]) : i \in QuickLists}
ListedBlocks == UNION {ToSet(heap.free[i]) : i \in FreeLists}
FreeBlocks == {b \in Starts(heap) : THIS_BLOCK_ALLOCATED \notin At(heap, b).flags}

\* The blocks, going from one header to the next, fill the heap from the first
\* block to the epilogue.  Those that are marked allocated are the client's, as
\* large as it asked for, and those in the quick lists (sf_malloc, sf_free,
\* sf_realloc and all they call).  The footer of a free block, by which it is found
\* from behind, is the same as its header (sfmm.h: "footer contents must always be
\* identical").  A block for a size that wrapped around is smaller than what it was
\* asked for, and the heap is no longer sound.
HeapTiles ==
    Sound /\ heap.end > 0 =>
        LET starts == Starts(heap)
        IN  /\ \A b \in starts : b \in DOMAIN heap.mem /\ b <= heap.end - 8
            /\ At(heap, heap.end - 8) = Header(0, {THIS_BLOCK_ALLOCATED})
            /\ starts \ (FreeBlocks \cup {heap.end - 8}) = DOMAIN live \cup QuickBlocks
            /\ \A b \in DOMAIN live : heap.mem[b].size >= live[b] + 8 /\ b \notin QuickBlocks
            /\ \A b \in FreeBlocks : At(heap, Footer(b, heap.mem[b].size)) = heap.mem[b]

\* Every block in a list is a free block of the list's sizes, in that list once;
\* the quick lists hold blocks of their size, and no more than they may.
ListsHoldTheirBlocks ==
    Sound =>
        /\ \A i \in FreeLists :
              /\ IsInjective(heap.free[i])
              /\ \A b \in ToSet(heap.free[i]) : b \in FreeBlocks /\ i \in FreeListOf(heap.mem[b].size)
        /\ \A i \in QuickLists :
              /\ IsInjective(heap.quick[i]) /\ Len(heap.quick[i]) <= QUICK_LIST_MAX
              /\ \A b \in ToSet(heap.quick[i]) : heap.mem[b] = QuickTag(QuickSize(i))

\* A free block that is in no list is one of the smallest size, which no list is
\* for, or was left behind when a quick list was flushed.
FreeBlocksAreListed ==
    Sound /\ heap.end > 0 /\ "flushed" \notin heap.events =>
        \A b \in FreeBlocks \ ListedBlocks : heap.mem[b].size = MinBlock

\* What is counted as payload is what the client asked for; the sizes include
\* those of blocks in quick lists.  (Without a magic number a word of 0 ends the
\* count.)
FragmentationCounts ==
    Sound /\ heap.end > 0 /\ magic = "random" =>
        /\ sf_internal_fragmentation.payload = MapThenSumSet(LAMBDA b : live[b], DOMAIN live)
        /\ sf_internal_fragmentation.blocks
              = MapThenSumSet(LAMBDA b : heap.mem[b].size, DOMAIN live \cup QuickBlocks)
=============================================================================
