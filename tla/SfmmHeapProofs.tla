--------------------------- MODULE SfmmHeapProofs ---------------------------
(***************************************************************************)
(* Proofs about SfmmHeap: until the code does one of the things it does    *)
(* wrong, the blocks fill the heap, the lists hold the free ones, and the  *)
(* fragmentation is that of the blocks which are taken, whatever the sizes *)
(* of the lists and of the pages are and however often the client calls.   *)
(***************************************************************************)
EXTENDS SfmmHeap, ListLemmas, FiniteSetTheorems

-----------------------------------------------------------------------------
(* Heaps, well formed or not. *)

Flags == {THIS_BLOCK_ALLOCATED, PREV_BLOCK_ALLOCATED, IN_QUICK_LIST, "unused", "data"}
Words == [size : Nat, payload : Nat, flags : SUBSET Flags]
Memories == UNION {[A -> Words] : A \in SUBSET Int}
Heaps ==
    [mem : Memories, end : Nat, free : [FreeLists -> Seq(Int)],
     quick : [QuickLists -> Seq(Int)], events : SUBSET (Wrong \cup {"flushed"})]
Harmed(h) == h.events \cap Wrong # {}

IsAllocated(tag) == THIS_BLOCK_ALLOCATED \in tag.flags
\* A header that was left behind within a block: it counts as none of a block.
Spent(tag) == ~IsAllocated(tag) /\ tag.size > 0

LEMMA HeaderFacts ==
    ASSUME NEW n \in Nat, NEW flags \in SUBSET Flags
    PROVE  /\ Header(n, flags) \in Words
           /\ Header(n, flags).size = n - (n % 16)
           /\ Header(n, flags).size % 16 = 0
           /\ Header(n, flags).payload = 0
           /\ flags \subseteq Header(n, flags).flags
           /\ IsAllocated(Header(n, flags)) <=> THIS_BLOCK_ALLOCATED \in flags
           /\ n % 16 = 0 => Header(n, flags) = [size |-> n, payload |-> 0, flags |-> flags]
<1> DEFINE more == IF n % 16 = 8 THEN {"unused"} ELSE {}
<1>1. Header(n, flags) = [size |-> n - (n % 16), payload |-> 0, flags |-> flags \cup more]
  BY DEF Header, Align
<1>2. n - (n % 16) \in Nat /\ (n - (n % 16)) % 16 = 0
  OBVIOUS
<1>3. more \in SUBSET Flags /\ THIS_BLOCK_ALLOCATED \notin more
  BY DEF Flags, THIS_BLOCK_ALLOCATED
<1>4. n % 16 = 0 => more = {} /\ n - (n % 16) = n
  OBVIOUS
<1> HIDE DEF more
<1> DEFINE tag == Header(n, flags)
<1>5. tag.size = n - (n % 16) /\ tag.payload = 0 /\ tag.flags = flags \cup more
  BY <1>1
<1>6. tag \in Words
  BY <1>1, <1>2, <1>3 DEF Words
<1>7. n % 16 = 0 => tag = [size |-> n, payload |-> 0, flags |-> flags]
  BY <1>1, <1>4
<1> HIDE DEF tag
<1>8. flags \subseteq tag.flags /\ (THIS_BLOCK_ALLOCATED \in tag.flags <=> THIS_BLOCK_ALLOCATED \in flags)
  BY <1>3, <1>5
<1>9. tag.size = n - (n % 16) /\ tag.size % 16 = 0
  BY <1>2, <1>5
<1> QED BY <1>5, <1>6, <1>7, <1>8, <1>9 DEF tag, IsAllocated

LEMMA FreeHeaderFacts ==
    ASSUME NEW n \in Nat
    PROVE  /\ Header(n, {}) \in Words
           /\ Header(n, {}).size = n - (n % 16) /\ Header(n, {}).size % 16 = 0
           /\ ~IsAllocated(Header(n, {}))
           /\ n % 16 = 0 => Header(n, {}).size = n
<1> DEFINE none == {}
<1>1. none \in SUBSET Flags /\ THIS_BLOCK_ALLOCATED \notin none
  OBVIOUS
<1> HIDE DEF none
<1>2. /\ Header(n, none) \in Words
      /\ Header(n, none).size = n - (n % 16) /\ Header(n, none).size % 16 = 0
      /\ ~IsAllocated(Header(n, none))
  BY <1>1, HeaderFacts
<1>3. n % 16 = 0 => n - (n % 16) = n
  OBVIOUS
<1> QED BY <1>2, <1>3 DEF none

LEMMA MemoryFacts ==
    ASSUME NEW m \in Memories
    PROVE  /\ DOMAIN m \subseteq Int
           /\ \A a \in DOMAIN m : m[a] \in Words
           /\ m = [a \in DOMAIN m |-> m[a]]
BY DEF Memories

Overwritten(new, old, A, tag) ==
    /\ DOMAIN new = DOMAIN old \cup A
    /\ \A a \in A : new[a] = tag
    /\ \A a \in DOMAIN old \ A : new[a] = old[a]

LEMMA WrittenFields ==
    ASSUME NEW h \in Heaps, NEW A \in SUBSET Int, NEW tag \in Words
    PROVE  LET g == Written(h, A, tag)
           IN  /\ g \in Heaps
               /\ g.end = h.end /\ g.free = h.free /\ g.quick = h.quick /\ g.events = h.events
               /\ Overwritten(g.mem, h.mem, A, tag)
<1> DEFINE m == [a \in DOMAIN h.mem \cup A |-> IF a \in A THEN tag ELSE h.mem[a]]
<1>1. h.mem \in Memories
  BY DEF Heaps
<1>2. DOMAIN h.mem \subseteq Int /\ \A a \in DOMAIN h.mem : h.mem[a] \in Words
  BY <1>1, MemoryFacts
<1>3. m \in [DOMAIN h.mem \cup A -> Words] /\ DOMAIN h.mem \cup A \in SUBSET Int
  BY <1>2
<1>4. m \in Memories
  BY <1>3 DEF Memories
<1>5. Overwritten(m, h.mem, A, tag)
  BY DEF Overwritten
<1> HIDE DEF m
<1>6. Written(h, A, tag) = [h EXCEPT !.mem = m]
  BY DEF Written, m
<1> QED BY <1>4, <1>5, <1>6 DEF Heaps

LEMMA EventFields ==
    ASSUME NEW h \in Heaps, NEW name \in Wrong \cup {"flushed"}, NEW happens \in BOOLEAN
    PROVE  LET g == Event(h, name, happens)
           IN  /\ g \in Heaps
               /\ g.mem = h.mem /\ g.end = h.end /\ g.free = h.free /\ g.quick = h.quick
               /\ g.events = IF happens THEN h.events \cup {name} ELSE h.events
BY DEF Event, Heaps

-----------------------------------------------------------------------------
(* The blocks met on the way through the heap. *)

\* Going by the sizes from the first block on, one meets the members of S.
Walked(mem, end, S) ==
    /\ end \in Nat
    /\ S \subseteq FirstBlock .. (end - 8)
    /\ FirstBlock \in S /\ end - 8 \in S
    /\ S \subseteq DOMAIN mem
    /\ mem[end - 8].size = 0
    /\ \A b \in S \ {end - 8} :
          /\ mem[b].size > 0
          /\ b + mem[b].size \in S
          /\ \A c \in S : c <= b \/ c >= b + mem[b].size

Stops(h, b) == b \notin DOMAIN h.mem \/ h.mem[b].size = 0 \/ b + h.mem[b].size > h.end
StartsFrom(h) ==
    LET from[b \in 0 .. (h.end + FirstBlock)] ==
          IF b \notin DOMAIN h.mem \/ h.mem[b].size = 0 \/ b + h.mem[b].size > h.end THEN {b}
          ELSE {b} \cup from[b + h.mem[b].size]
    IN  from

LEMMA StartsUnfold ==
    ASSUME NEW h \in Heaps
    PROVE  LET from == StartsFrom(h)
           IN  /\ Starts(h) = from[FirstBlock]
               /\ \A b \in 0 .. (h.end + FirstBlock) :
                     from[b] = IF Stops(h, b) THEN {b} ELSE {b} \cup from[b + h.mem[b].size]
<1> DEFINE I == 0 .. (h.end + FirstBlock)
           V == SUBSET Int
           rank == [b \in I |-> h.end + FirstBlock - b]
           E(g, b) == IF Stops(h, b) THEN {b} ELSE {b} \cup g[b + h.mem[b].size]
           H == [b \in I |-> [g \in [I -> V] |-> E(g, b)]]
<1>1. h.end \in Nat /\ \A a \in DOMAIN h.mem : h.mem[a].size \in Nat
  BY MemoryFacts DEF Heaps, Words
<1>2. rank \in [I -> Nat] /\ \A b \in I : rank[b] = h.end + FirstBlock - b
  BY <1>1 DEF FirstBlock
<1>3. \A b \in I : ~Stops(h, b) =>
          b + h.mem[b].size \in I /\ rank[b + h.mem[b].size] < rank[b]
  <2> SUFFICES ASSUME NEW b \in I, ~Stops(h, b)
               PROVE  b + h.mem[b].size \in I /\ rank[b + h.mem[b].size] < rank[b]
    OBVIOUS
  <2>1. b \in DOMAIN h.mem /\ h.mem[b].size # 0 /\ ~(b + h.mem[b].size > h.end)
    BY DEF Stops
  <2>2. h.mem[b].size \in Nat
    BY <1>1, <2>1
  <2>3. b + h.mem[b].size \in I /\ b + h.mem[b].size > b
    <3> DEFINE size == h.mem[b].size
    <3>1. size \in Nat /\ size # 0 /\ ~(b + size > h.end) /\ h.end \in Nat /\ b \in Nat
      BY <1>1, <2>1, <2>2 DEF FirstBlock
    <3> HIDE DEF size
    <3>2. b + size \in I /\ b + size > b
      BY <3>1 DEF FirstBlock
    <3> HIDE DEF I
    <3> QED BY <3>2 DEF size
  <2> DEFINE next == b + h.mem[b].size
  <2>4. next \in I /\ next > b /\ rank[next] = h.end + FirstBlock - next /\ rank[b] = h.end + FirstBlock - b
    BY <1>2, <2>3
  <2>5. next \in Int /\ b \in Int /\ h.end \in Int
    BY <1>1, <2>3 DEF FirstBlock
  <2> HIDE DEF next, rank, I
  <2>6. rank[next] < rank[b]
    BY <2>4, <2>5 DEF FirstBlock
  <2> QED BY <2>4, <2>6 DEF next
<1>4. \A g \in [I -> V] : \A b \in I : E(g, b) \in V
  <2> SUFFICES ASSUME NEW g \in [I -> V], NEW b \in I PROVE E(g, b) \in V
    OBVIOUS
  <2>1. {b} \in V
    BY <1>1 DEF FirstBlock
  <2>2. ~Stops(h, b) => g[b + h.mem[b].size] \in V
    BY <1>3
  <2> QED BY <2>1, <2>2
<1>5. ASSUME NEW b \in I, NEW f, NEW g, \A k \in I : rank[k] < rank[b] => f[k] = g[k]
      PROVE  E(f, b) = E(g, b)
  <2>1. CASE Stops(h, b)
    BY <2>1
  <2>2. CASE ~Stops(h, b)
    <3>1. f[b + h.mem[b].size] = g[b + h.mem[b].size]
      BY <1>3, <1>5, <2>2
    <3> QED BY <2>2, <3>1
  <2> QED BY <2>1, <2>2
<1>6. StartsFrom(h) = CHOOSE g : g = [b \in I |-> E(g, b)]
  BY DEF StartsFrom, Stops
<1>7. Starts(h) = StartsFrom(h)[FirstBlock]
  BY DEF Starts, StartsFrom
<1> HIDE DEF E, rank
<1>8. H \in [I -> [[I -> V] -> V]]
  BY <1>4
<1>9. \A b \in I : \A g \in [I -> V] : H[b][g] = E(g, b)
  OBVIOUS
<1> HIDE DEF H, I, V
<1>10. PICK f \in [I -> V] : \A b \in I : f[b] = H[b][f]
  <2>1. \A b \in I : rank[b] < h.end + FirstBlock + 1
    BY <1>1, <1>2 DEF I, FirstBlock
  <2>2. \A b \in I : \A f, g \in [I -> V] :
          (\A k \in I : rank[k] < rank[b] => f[k] = g[k]) => H[b][f] = H[b][g]
    BY <1>5, <1>9
  <2>3. V # {} /\ h.end + FirstBlock + 1 \in Nat
    BY <1>1 DEF V, FirstBlock
  <2>4. Recursive(I, V, rank, H)
    BY <1>2, <1>8, <2>1, <2>2, <2>3 DEF Recursive
  <2> QED BY <2>4, Recursion DEF Solvable
<1>11. \A b \in I : f[b] = E(f, b)
  BY <1>9, <1>10
<1>12. f = [b \in I |-> E(f, b)]
  BY <1>10, <1>11
<1> DEFINE from == StartsFrom(h)
<1>13. from = [b \in I |-> E(from, b)]
  <2> DEFINE F(g) == [b \in I |-> E(g, b)]
  <2>1. f = F(f) /\ from = CHOOSE g : g = F(g)
    BY <1>6, <1>12
  <2> HIDE DEF F, from
  <2>2. from = F(from)
    BY <2>1, Zenon
  <2> QED BY <2>2 DEF F
<1> HIDE DEF from
<1>14. \A b \in I : from[b] = E(from, b)
  BY <1>13
<1> QED BY <1>7, <1>14 DEF from, E, I

\* Two walks agree: the blocks are what is met on the way.
LEMMA WalkedIsStarts ==
    ASSUME NEW h \in Heaps, NEW S, Walked(h.mem, h.end, S)
    PROVE  Starts(h) = S
<1> DEFINE from == StartsFrom(h)
           I == 0 .. (h.end + FirstBlock)
           next(b) == b + h.mem[b].size
<1>1. h.end \in Nat /\ \A a \in DOMAIN h.mem : h.mem[a].size \in Nat
  BY MemoryFacts DEF Heaps, Words
<1>2. Starts(h) = from[FirstBlock] /\ \A b \in I : from[b] = IF Stops(h, b) THEN {b} ELSE {b} \cup from[next(b)]
  BY StartsUnfold
<1> HIDE DEF from
<1>3. /\ S \subseteq FirstBlock .. (h.end - 8) /\ S \subseteq Int /\ S \subseteq I
      /\ FirstBlock \in S /\ h.end - 8 \in S
      /\ \A b \in S : Stops(h, b) <=> b = h.end - 8
      /\ \A b \in S \ {h.end - 8} :
            next(b) \in S /\ next(b) > b /\ \A c \in S : c <= b \/ c >= next(b)
  <2>1. /\ S \subseteq FirstBlock .. (h.end - 8) /\ S \subseteq Int /\ S \subseteq I
        /\ FirstBlock \in S /\ h.end - 8 \in S /\ S \subseteq DOMAIN h.mem
    BY <1>1 DEF Walked, FirstBlock
  <2>2. ASSUME NEW b \in S \ {h.end - 8}
        PROVE  /\ next(b) \in S /\ next(b) > b /\ ~Stops(h, b)
               /\ \A c \in S : c <= b \/ c >= next(b)
    <3>1. /\ h.mem[b].size > 0 /\ b + h.mem[b].size \in S
          /\ \A c \in S : c <= b \/ c >= b + h.mem[b].size
      BY DEF Walked
    <3>2. h.mem[b].size \in Nat /\ b \in Int /\ b \in DOMAIN h.mem
      BY <1>1, <2>1
    <3>3. \A c \in S : c <= h.end - 8
      BY <1>1, <2>1
    <3> QED BY <1>1, <3>1, <3>2, <3>3 DEF Stops
  <2>3. Stops(h, h.end - 8)
    BY DEF Stops, Walked
  <2> QED BY <2>1, <2>2, <2>3
<1> HIDE DEF next, I
<1>4. \A x \in S : x \in Int /\ x <= h.end
  BY <1>1, <1>3
<1>5. \A b \in S : from[b] \subseteq S /\ b \in from[b]
  <2> DEFINE T == {b \in S : ~(from[b] \subseteq S /\ b \in from[b])}
  <2> SUFFICES ASSUME T # {} PROVE FALSE
    OBVIOUS
  <2>1. T \in SUBSET Int /\ h.end \in Int /\ \A x \in T : x <= h.end
    BY <1>1, <1>4
  <2> HIDE DEF T
  <2>2. PICK b \in T : \A x \in T : x <= b
    BY <2>1, MaxIsGreatest
  <2>3. b \in S /\ b \in I /\ b \in Int /\ ~(from[b] \subseteq S /\ b \in from[b])
    BY <1>3 DEF T
  <2>4. CASE b = h.end - 8
    BY <1>2, <1>3, <2>3, <2>4
  <2>5. CASE b # h.end - 8
    <3>1. next(b) \in S /\ next(b) > b /\ next(b) \in Int
      BY <1>3, <2>3, <2>5
    <3>2. next(b) \notin T
      BY <2>2, <2>3, <3>1
    <3>3. from[next(b)] \subseteq S
      BY <3>1, <3>2 DEF T
    <3>4. from[b] = {b} \cup from[next(b)]
      BY <1>2, <1>3, <2>3, <2>5
    <3> QED BY <2>3, <3>3, <3>4
  <2> QED BY <2>4, <2>5
<1>6. ASSUME NEW b \in S, NEW c \in S, b <= c PROVE c \in from[b]
  <2> DEFINE T == {x \in S : x <= c /\ c \notin from[x]}
  <2> SUFFICES ASSUME T # {} PROVE FALSE
    BY <1>6
  <2>1. T \in SUBSET Int /\ h.end \in Int /\ \A x \in T : x <= h.end
    BY <1>1, <1>4
  <2> HIDE DEF T
  <2>2. PICK x \in T : \A y \in T : y <= x
    BY <2>1, MaxIsGreatest
  <2>3. x \in S /\ x \in I /\ x \in Int /\ c \in Int /\ x <= c /\ c \notin from[x]
    BY <1>3 DEF T
  <2>4. x # c
    BY <1>5, <2>3
  <2>5. x # h.end - 8
    BY <1>1, <1>3, <2>3, <2>4
  <2>6. next(x) \in S /\ next(x) \in Int /\ next(x) > x /\ next(x) <= c
    <3>1. next(x) \in S /\ next(x) > x /\ (c <= x \/ c >= next(x))
      BY <1>3, <2>3, <2>5
    <3>2. next(x) \in Int
      BY <1>4, <3>1
    <3> QED BY <2>3, <2>4, <3>1, <3>2
  <2>7. c \in from[next(x)]
    <3>1. next(x) \notin T
      BY <2>2, <2>3, <2>6
    <3> QED BY <2>6, <3>1 DEF T
  <2>8. from[x] = {x} \cup from[next(x)]
    BY <1>2, <1>3, <2>3, <2>5
  <2> QED BY <2>3, <2>7, <2>8
<1>7. \A c \in S : FirstBlock <= c
  BY <1>3 DEF FirstBlock
<1>8. S \subseteq from[FirstBlock] /\ from[FirstBlock] \subseteq S
  BY <1>3, <1>5, <1>6, <1>7
<1> QED BY <1>2, <1>8

-----------------------------------------------------------------------------
(* Blocks that fill the heap. *)

\* At b a block of S begins, which ends where the next of them begins.  The
\* footer of a free block is the same as its header.
IsBlock(mem, S, b) ==
    /\ b % 16 = 8
    /\ b \in DOMAIN mem
    /\ mem[b].size >= 32 /\ mem[b].size % 16 = 0
    /\ b + mem[b].size \in S
    /\ \A c \in S : c <= b \/ c >= b + mem[b].size
    /\ ~IsAllocated(mem[b]) =>
          /\ Footer(b, mem[b].size) \in DOMAIN mem
          /\ mem[Footer(b, mem[b].size)] = mem[b]

\* The blocks of S fill the heap up to the epilogue; no word in the place of a
\* footer is one of an allocated block, and none in the place of a header, but those
\* where a block begins.
Tiled(mem, end, S) ==
    /\ mem \in Memories
    /\ end \in Nat /\ end % 16 = 0
    /\ S \subseteq FirstBlock .. (end - 8)
    /\ FirstBlock \in S /\ end - 8 \in S
    /\ end - 8 \in DOMAIN mem /\ mem[end - 8] = Header(0, {THIS_BLOCK_ALLOCATED})
    /\ \A b \in S \ {end - 8} : IsBlock(mem, S, b)
    /\ \A a \in DOMAIN mem : a % 16 = 0 => ~IsAllocated(mem[a])
    /\ \A a \in DOMAIN mem \ S : a % 16 = 8 /\ a >= FirstBlock => Spent(mem[a])

LEMMA EpilogueFacts ==
    LET tag == Header(0, {THIS_BLOCK_ALLOCATED})
    IN  tag \in Words /\ tag.size = 0 /\ IsAllocated(tag)
<1>1. {THIS_BLOCK_ALLOCATED} \in SUBSET Flags
  BY DEF Flags
<1>2. 0 \in Nat /\ 0 % 16 = 0 /\ 0 - 0 = 0
  OBVIOUS
<1> QED BY <1>1, <1>2, HeaderFacts

LEMMA TiledFacts ==
    ASSUME NEW mem, NEW end, NEW S, Tiled(mem, end, S)
    PROVE  /\ end \in Nat /\ S \subseteq Int /\ S \subseteq DOMAIN mem
           /\ \A b \in S : b % 16 = 8 /\ b >= FirstBlock /\ b <= end - 8
           /\ \A b \in S : mem[b] \in Words /\ mem[b].size \in Nat
           /\ \A b \in S \ {end - 8} : IsBlock(mem, S, b)
           /\ mem[end - 8].size = 0 /\ IsAllocated(mem[end - 8])
<1>1. mem \in Memories /\ end \in Nat /\ S \subseteq FirstBlock .. (end - 8)
  BY DEF Tiled
<1>2. S \subseteq Int /\ \A b \in S : b >= FirstBlock /\ b <= end - 8
  BY <1>1 DEF FirstBlock
<1>3. \A b \in S : b \in DOMAIN mem /\ b % 16 = 8
  <2> SUFFICES ASSUME NEW b \in S PROVE b \in DOMAIN mem /\ b % 16 = 8
    OBVIOUS
  <2>1. CASE b = end - 8
    BY <1>1, <2>1 DEF Tiled
  <2>2. CASE b # end - 8
    BY <2>2 DEF Tiled, IsBlock
  <2> QED BY <2>1, <2>2
<1>4. \A b \in S : mem[b] \in Words /\ mem[b].size \in Nat
  BY <1>1, <1>3, MemoryFacts DEF Words
<1>5. mem[end - 8].size = 0 /\ IsAllocated(mem[end - 8])
  BY EpilogueFacts DEF Tiled
<1>6. \A b \in S \ {end - 8} : IsBlock(mem, S, b)
  BY DEF Tiled
<1> QED BY <1>1, <1>2, <1>3, <1>4, <1>5, <1>6

LEMMA TiledIsWalked ==
    ASSUME NEW mem, NEW end, NEW S, Tiled(mem, end, S)
    PROVE  Walked(mem, end, S)
<1>1. ASSUME NEW b \in S \ {end - 8}
      PROVE  /\ mem[b].size > 0 /\ b + mem[b].size \in S
             /\ \A c \in S : c <= b \/ c >= b + mem[b].size
  BY TiledFacts DEF IsBlock
<1>2. /\ end \in Nat /\ S \subseteq FirstBlock .. (end - 8)
      /\ FirstBlock \in S /\ end - 8 \in S /\ S \subseteq DOMAIN mem /\ mem[end - 8].size = 0
  BY TiledFacts DEF Tiled
<1> QED BY <1>1, <1>2 DEF Walked

LEMMA TiledStarts ==
    ASSUME NEW h \in Heaps, NEW S, Tiled(h.mem, h.end, S)
    PROVE  Starts(h) = S
BY TiledIsWalked, WalkedIsStarts

\* Between lo and hi, where blocks begin, new blocks N fill the memory; outside
\* nothing changes.
Rebuilt(mem, S, new, lo, hi, N) ==
    /\ new \in Memories
    /\ lo \in S /\ hi \in S /\ lo < hi
    /\ \A a \in Int : a < lo \/ a >= hi =>
          (a \in DOMAIN new <=> a \in DOMAIN mem) /\ (a \in DOMAIN mem => new[a] = mem[a])
    /\ \A a \in DOMAIN new : a >= lo /\ a < hi /\ a % 16 = 0 => ~IsAllocated(new[a])
    /\ \A a \in DOMAIN new \ N : a >= lo /\ a < hi /\ a % 16 = 8 => Spent(new[a])
    /\ lo \in N /\ \A b \in N : b \in Int /\ b >= lo /\ b < hi
    /\ \A b \in N : IsBlock(new, N \cup {hi}, b)

Outside(S, lo, hi) == {b \in S : b < lo \/ b >= hi}

LEMMA RebuiltIsTiled ==
    ASSUME NEW mem, NEW end, NEW S, Tiled(mem, end, S),
           NEW new, NEW lo, NEW hi, NEW N, Rebuilt(mem, S, new, lo, hi, N)
    PROVE  Tiled(new, end, Outside(S, lo, hi) \cup N)
<1> DEFINE T == Outside(S, lo, hi) \cup N
<1>1. /\ end \in Nat /\ S \subseteq Int /\ S \subseteq DOMAIN mem
      /\ \A b \in S : b % 16 = 8 /\ b >= FirstBlock /\ b <= end - 8
      /\ \A b \in S : mem[b] \in Words /\ mem[b].size \in Nat
      /\ \A b \in S \ {end - 8} : IsBlock(mem, S, b)
  BY TiledFacts
<1>2. /\ new \in Memories
      /\ lo \in S /\ hi \in S /\ lo < hi /\ lo \in Int /\ hi \in Int
      /\ \A a \in Int : a < lo \/ a >= hi =>
            (a \in DOMAIN new <=> a \in DOMAIN mem) /\ (a \in DOMAIN mem => new[a] = mem[a])
  BY <1>1 DEF Rebuilt
<1>3. /\ lo \in N /\ \A b \in N : b \in Int /\ b >= lo /\ b < hi
      /\ \A b \in N : IsBlock(new, N \cup {hi}, b)
  BY DEF Rebuilt
<1>4. hi \in T /\ lo \in T
  BY <1>2, <1>3 DEF Outside
<1>5. T \subseteq FirstBlock .. (end - 8)
  <2> SUFFICES ASSUME NEW b \in T PROVE b \in FirstBlock .. (end - 8)
    OBVIOUS
  <2>1. CASE b \in N
    <3>1. b \in Int /\ b >= lo /\ b < hi /\ lo >= FirstBlock /\ hi <= end - 8
      BY <1>1, <1>2, <1>3, <2>1
    <3> QED BY <1>1, <1>2, <3>1 DEF FirstBlock
  <2>2. CASE b \in Outside(S, lo, hi)
    <3>1. b \in Int /\ b >= FirstBlock /\ b <= end - 8
      BY <1>1, <2>2 DEF Outside
    <3> QED BY <1>1, <3>1 DEF FirstBlock
  <2> QED BY <2>1, <2>2
<1>6. FirstBlock \in T
  <2>1. FirstBlock \in S /\ FirstBlock <= lo /\ FirstBlock \in Int
    BY <1>1, <1>2 DEF Tiled, FirstBlock
  <2>2. CASE FirstBlock = lo
    BY <1>4, <2>2
  <2>3. CASE FirstBlock < lo
    BY <2>1, <2>3 DEF Outside
  <2> QED BY <1>2, <2>1, <2>2, <2>3
<1>7. end - 8 \in T /\ end - 8 \in DOMAIN new /\ new[end - 8] = Header(0, {THIS_BLOCK_ALLOCATED})
  <2>1. end - 8 \in S /\ end - 8 >= hi /\ end - 8 \in Int
    BY <1>1, <1>2 DEF Tiled
  <2>2. end - 8 \in DOMAIN mem /\ mem[end - 8] = Header(0, {THIS_BLOCK_ALLOCATED})
    BY DEF Tiled
  <2> QED BY <1>2, <2>1, <2>2 DEF Outside
<1>8. ASSUME NEW b \in N PROVE IsBlock(new, T, b)
  <2>1. /\ b % 16 = 8 /\ b \in DOMAIN new
        /\ new[b].size >= 32 /\ new[b].size % 16 = 0
        /\ b + new[b].size \in N \cup {hi}
        /\ \A c \in N \cup {hi} : c <= b \/ c >= b + new[b].size
        /\ ~IsAllocated(new[b]) =>
              /\ Footer(b, new[b].size) \in DOMAIN new
              /\ new[Footer(b, new[b].size)] = new[b]
    BY <1>3 DEF IsBlock
  <2>2. new[b].size \in Nat /\ b \in Int /\ b >= lo /\ b < hi
    BY <1>2, <1>3, <2>1, MemoryFacts DEF Words
  <2>3. b + new[b].size \in T /\ b + new[b].size <= hi
    BY <1>2, <1>3, <1>4, <2>1
  <2>4. \A c \in T : c <= b \/ c >= b + new[b].size
    <3> SUFFICES ASSUME NEW c \in T PROVE c <= b \/ c >= b + new[b].size
      OBVIOUS
    <3>1. CASE c \in N
      BY <2>1, <3>1
    <3>2. CASE c \in Outside(S, lo, hi)
      <4>1. c \in Int /\ (c < lo \/ c >= hi)
        BY <1>1, <3>2 DEF Outside
      <4> QED BY <1>2, <2>2, <2>3, <4>1
    <3> QED BY <3>1, <3>2
  <2> QED BY <2>1, <2>3, <2>4 DEF IsBlock
<1>9. ASSUME NEW b \in Outside(S, lo, hi), b # end - 8 PROVE IsBlock(new, T, b)
  <2>1. b \in S /\ b \in Int /\ (b < lo \/ b >= hi)
    BY <1>1 DEF Outside
  <2>2. /\ b % 16 = 8 /\ b \in DOMAIN mem
        /\ mem[b].size >= 32 /\ mem[b].size % 16 = 0
        /\ b + mem[b].size \in S
        /\ \A c \in S : c <= b \/ c >= b + mem[b].size
        /\ ~IsAllocated(mem[b]) =>
              /\ Footer(b, mem[b].size) \in DOMAIN mem
              /\ mem[Footer(b, mem[b].size)] = mem[b]
    BY <1>1, <1>9, <2>1 DEF IsBlock
  <2>3. b \in DOMAIN new /\ new[b] = mem[b] /\ mem[b].size \in Nat
    BY <1>1, <1>2, <2>1, <2>2
  <2>4. b + mem[b].size \in Int /\ (b + mem[b].size <= lo \/ b >= hi)
    BY <1>2, <2>1, <2>2, <2>3
  <2>5. b + mem[b].size \in T
    <3> DEFINE e == b + mem[b].size
    <3>1. e \in S /\ e \in Int /\ (e <= lo \/ b >= hi) /\ e >= b
      BY <2>1, <2>2, <2>3, <2>4
    <3> HIDE DEF e
    <3>2. e < lo \/ e = lo \/ e >= hi
      BY <1>2, <2>1, <3>1
    <3>3. e \in T
      BY <1>4, <3>1, <3>2 DEF Outside
    <3> QED BY <3>3 DEF e
  <2>6. \A c \in T : c <= b \/ c >= b + mem[b].size
    <3> SUFFICES ASSUME NEW c \in T PROVE c <= b \/ c >= b + mem[b].size
      OBVIOUS
    <3>1. CASE c \in N
      BY <1>2, <1>3, <2>1, <2>4, <3>1
    <3>2. CASE c \in Outside(S, lo, hi)
      BY <2>2, <3>2 DEF Outside
    <3> QED BY <3>1, <3>2
  <2>7. Footer(b, mem[b].size) \in Int /\ (Footer(b, mem[b].size) < lo \/ Footer(b, mem[b].size) >= hi)
    BY <1>2, <2>1, <2>2, <2>3, <2>4 DEF Footer
  <2> QED BY <1>2, <2>2, <2>3, <2>5, <2>6, <2>7 DEF IsBlock
<1>10. ASSUME NEW a \in DOMAIN new, a % 16 = 0 PROVE ~IsAllocated(new[a])
  <2>1. a \in Int
    BY <1>2, MemoryFacts
  <2>2. CASE a < lo \/ a >= hi
    BY <1>2, <1>10, <2>1, <2>2 DEF Tiled
  <2>3. CASE ~(a < lo \/ a >= hi)
    <3>1. a >= lo /\ a < hi
      BY <1>2, <2>1, <2>3
    <3> QED BY <1>10, <3>1 DEF Rebuilt
  <2> QED BY <2>2, <2>3
<1>11. end % 16 = 0
  BY DEF Tiled
<1>12. \A b \in T \ {end - 8} : IsBlock(new, T, b)
  BY <1>8, <1>9
<1>13. ASSUME NEW a \in DOMAIN new \ T, a % 16 = 8, a >= FirstBlock PROVE Spent(new[a])
  <2>1. a \in Int /\ a \notin N /\ a \notin Outside(S, lo, hi)
    BY <1>2, MemoryFacts
  <2>2. CASE a < lo \/ a >= hi
    <3>1. a \notin S
      BY <2>1, <2>2 DEF Outside
    <3>2. a \in DOMAIN mem /\ new[a] = mem[a]
      BY <1>2, <2>1, <2>2
    <3> QED BY <1>13, <3>1, <3>2 DEF Tiled
  <2>3. CASE ~(a < lo \/ a >= hi)
    <3>1. a >= lo /\ a < hi
      BY <1>2, <2>1, <2>3
    <3> QED BY <1>13, <2>1, <3>1 DEF Rebuilt
  <2> QED BY <2>2, <2>3
<1> HIDE DEF T
<1>14. Tiled(new, end, T)
  BY <1>1, <1>2, <1>5, <1>6, <1>7, <1>10, <1>11, <1>12, <1>13 DEF Tiled
<1> QED BY <1>14 DEF T

\* More memory behind the epilogue: what was the epilogue begins a block of it.
Extended(mem, end, new, last) ==
    LET tag == Header(last - end + 8, {})
    IN  /\ new \in Memories
        /\ last \in Nat /\ last % 16 = 0 /\ last >= end + 32
        /\ DOMAIN new = DOMAIN mem \cup {end - 8, last - 16, last - 8}
        /\ \A a \in DOMAIN mem \ {end - 8, last - 16, last - 8} : new[a] = mem[a]
        /\ new[end - 8] = tag /\ new[last - 16] = tag
        /\ new[last - 8] = Header(0, {THIS_BLOCK_ALLOCATED})

LEMMA ExtendedIsTiled ==
    ASSUME NEW mem, NEW end, NEW S, Tiled(mem, end, S),
           NEW new, NEW last, Extended(mem, end, new, last)
    PROVE  /\ Tiled(new, last, S \cup {last - 8})
           /\ new[end - 8].size = last - end /\ ~IsAllocated(new[end - 8])
<1> DEFINE T == S \cup {last - 8}
           tag == Header(last - end + 8, {})
<1>1. /\ end \in Nat /\ S \subseteq Int /\ S \subseteq DOMAIN mem
      /\ \A b \in S : b % 16 = 8 /\ b >= FirstBlock /\ b <= end - 8
      /\ \A b \in S : mem[b] \in Words /\ mem[b].size \in Nat
      /\ \A b \in S \ {end - 8} : IsBlock(mem, S, b)
  BY TiledFacts
<1>2. /\ end % 16 = 0 /\ FirstBlock \in S /\ end - 8 \in S
      /\ \A a \in DOMAIN mem : a % 16 = 0 => ~IsAllocated(mem[a])
  BY DEF Tiled
<1>3. /\ new \in Memories
      /\ last \in Nat /\ last % 16 = 0 /\ last >= end + 32
      /\ DOMAIN new = DOMAIN mem \cup {end - 8, last - 16, last - 8}
      /\ \A a \in DOMAIN mem \ {end - 8, last - 16, last - 8} : new[a] = mem[a]
      /\ new[end - 8] = tag /\ new[last - 16] = tag
      /\ new[last - 8] = Header(0, {THIS_BLOCK_ALLOCATED})
  BY DEF Extended
<1>4. tag.size = last - end /\ ~IsAllocated(tag) /\ tag.size % 16 = 0
  <2> DEFINE n == last - end + 8
  <2>1. n \in Nat /\ n % 16 = 8 /\ n - 8 = last - end /\ (last - end) % 16 = 0
    BY <1>1, <1>2, <1>3
  <2> HIDE DEF n
  <2>2. /\ Header(n, {}).size = n - (n % 16)
        /\ ~IsAllocated(Header(n, {})) /\ Header(n, {}).size % 16 = 0
    BY <2>1, FreeHeaderFacts
  <2>3. Header(n, {}).size = n - 8 /\ ~IsAllocated(Header(n, {})) /\ Header(n, {}).size % 16 = 0
    BY <2>1, <2>2
  <2> QED BY <2>1, <2>3 DEF n
<1> HIDE DEF tag
<1>5. \A b \in S \ {end - 8} : b < end - 8 /\ b \in DOMAIN new /\ new[b] = mem[b]
  <2> SUFFICES ASSUME NEW b \in S \ {end - 8}
               PROVE  b < end - 8 /\ b \in DOMAIN new /\ new[b] = mem[b]
    OBVIOUS
  <2>1. b \in Int /\ b <= end - 8 /\ b # end - 8
    BY <1>1
  <2>2. b \in Int /\ b < end - 8
    BY <1>1, <2>1
  <2> QED BY <1>1, <1>3, <2>2
<1>6. T \subseteq FirstBlock .. (last - 8) /\ FirstBlock \in T /\ last - 8 \in T
  <2>1. \A b \in S : b \in FirstBlock .. (last - 8)
    <3> SUFFICES ASSUME NEW b \in S PROVE b \in FirstBlock .. (last - 8)
      OBVIOUS
    <3>1. b \in Int /\ b >= FirstBlock /\ b <= end - 8
      BY <1>1
    <3> QED BY <1>1, <1>3, <3>1 DEF FirstBlock
  <2>2. end - 8 >= FirstBlock
    BY <1>1, <1>2
  <2> QED BY <1>1, <1>2, <1>3, <2>1, <2>2 DEF FirstBlock
<1>7. IsBlock(new, T, end - 8)
  <2>1. Footer(end - 8, last - end) = last - 16 /\ end - 8 + (last - end) = last - 8
    BY <1>1, <1>3 DEF Footer
  <2>2. \A c \in T : c <= end - 8 \/ c >= last - 8
    BY <1>1, <1>3
  <2>3. (end - 8) % 16 = 8 /\ last - end >= 32
    BY <1>1, <1>2, <1>3
  <2> QED BY <1>3, <1>4, <2>1, <2>2, <2>3 DEF IsBlock
<1>8. ASSUME NEW b \in S \ {end - 8} PROVE IsBlock(new, T, b)
  <2>1. /\ b % 16 = 8
        /\ mem[b].size >= 32 /\ mem[b].size % 16 = 0
        /\ b + mem[b].size \in S
        /\ \A c \in S : c <= b \/ c >= b + mem[b].size
        /\ ~IsAllocated(mem[b]) =>
              /\ Footer(b, mem[b].size) \in DOMAIN mem
              /\ mem[Footer(b, mem[b].size)] = mem[b]
    BY <1>1, <1>8 DEF IsBlock
  <2>2. mem[b].size \in Nat /\ b \in Int /\ b + mem[b].size <= end - 8 /\ b + mem[b].size \in Int
    BY <1>1, <1>8, <2>1
  <2>3. b + mem[b].size <= last - 8
    BY <1>1, <1>3, <2>2
  <2>4. \A c \in T : c <= b \/ c >= b + mem[b].size
    BY <2>1, <2>3
  <2>5. Footer(b, mem[b].size) \notin {end - 8, last - 16, last - 8}
    BY <1>1, <1>3, <2>2 DEF Footer
  <2> QED BY <1>3, <1>5, <2>1, <2>4, <2>5 DEF IsBlock
<1>9. ASSUME NEW a \in DOMAIN new, a % 16 = 0 PROVE ~IsAllocated(new[a])
  <2>1. a # end - 8 /\ a # last - 8
    BY <1>1, <1>2, <1>3, <1>9
  <2>2. CASE a = last - 16
    BY <1>3, <1>4, <2>2
  <2>3. CASE a # last - 16
    BY <1>2, <1>3, <1>9, <2>1, <2>3
  <2> QED BY <2>2, <2>3
<1>10. \A b \in T \ {last - 8} : IsBlock(new, T, b)
  BY <1>7, <1>8
<1>11. ASSUME NEW a \in DOMAIN new \ T, a % 16 = 8, a >= FirstBlock PROVE Spent(new[a])
  <2>1. a \notin S /\ a # end - 8 /\ a # last - 8
    BY <1>2
  <2>2. a # last - 16
    BY <1>3, <1>11
  <2>3. a \in DOMAIN mem /\ new[a] = mem[a]
    BY <1>3, <2>1, <2>2
  <2> QED BY <1>11, <2>1, <2>3 DEF Tiled
<1> HIDE DEF T
<1>12. Tiled(new, last, T)
  BY <1>3, <1>6, <1>9, <1>10, <1>11 DEF Tiled
<1> QED BY <1>3, <1>4, <1>12 DEF T

-----------------------------------------------------------------------------
(* The lists. *)

Filed(free, mem, S) ==
    \A i \in FreeLists :
        /\ IsInjective(free[i])
        /\ \A b \in ToSet(free[i]) :
              b \in S /\ ~IsAllocated(mem[b]) /\ i \in FreeListOf(mem[b].size)

Listed(free) == UNION {ToSet(free[i]) : i \in FreeLists}

LEMMA UnlinkedFacts ==
    ASSUME NEW s \in Seq(Int), NEW b
    PROVE  /\ Unlinked(s, b) \in Seq(Int)
           /\ ToSet(Unlinked(s, b)) \subseteq ToSet(s)
           /\ IsInjective(s) => IsInjective(Unlinked(s, b)) /\ ToSet(Unlinked(s, b)) = ToSet(s) \ {b}
<1>1. CASE b \notin ToSet(s)
  <2>1. Unlinked(s, b) = s
    BY <1>1 DEF Unlinked
  <2> QED BY <1>1, <2>1
<1>2. CASE b \in ToSet(s)
  <2> DEFINE k == CHOOSE k \in DOMAIN s : s[k] = b
             t == RemoveAt(s, k)
  <2>1. \E j \in DOMAIN s : s[j] = b
    BY <1>2 DEF ToSet
  <2>2. k \in 1 .. Len(s) /\ s[k] = b
    BY <2>1
  <2>3. Unlinked(s, b) = t
    BY <1>2 DEF Unlinked
  <2> HIDE DEF k
  <2>4. /\ t \in Seq(Int) /\ Len(t) = Len(s) - 1
        /\ \A j \in 1 .. Len(s) - 1 : t[j] = IF j < k THEN s[j] ELSE s[j + 1]
    BY <2>2, RemoveAtProperties
  <2> HIDE DEF t
  <2>5. DOMAIN s = 1 .. Len(s) /\ DOMAIN t = 1 .. Len(s) - 1 /\ Len(s) \in Nat
    BY <2>4
  <2>6. ToSet(t) \subseteq ToSet(s)
    <3>1. ASSUME NEW j \in 1 .. Len(s) - 1 PROVE t[j] \in {s[i] : i \in 1 .. Len(s)}
      <4>1. CASE j < k
        <5>1. t[j] = s[j] /\ j \in 1 .. Len(s)
          BY <2>4, <2>5, <4>1
        <5> QED BY <5>1
      <4>2. CASE ~(j < k)
        <5>1. t[j] = s[j + 1] /\ j + 1 \in 1 .. Len(s)
          BY <2>4, <2>5, <4>2
        <5> QED BY <5>1
      <4> QED BY <4>1, <4>2
    <3> QED BY <2>5, <3>1 DEF ToSet
  <2>7. ASSUME IsInjective(s) PROVE IsInjective(t) /\ ToSet(t) = ToSet(s) \ {b}
    <3>1. \A i, j \in 1 .. Len(s) : s[i] = s[j] => i = j
      BY <2>5, <2>7 DEF IsInjective
    <3>2. ASSUME NEW i \in 1 .. Len(s) - 1, NEW j \in 1 .. Len(s) - 1, t[i] = t[j] PROVE i = j
      <4> DEFINE from(x) == IF x < k THEN x ELSE x + 1
      <4>1. ASSUME NEW x \in 1 .. Len(s) - 1 PROVE from(x) \in 1 .. Len(s) /\ t[x] = s[from(x)]
        <5>1. from(x) \in 1 .. Len(s)
          BY <2>5
        <5>2. t[x] = s[from(x)]
          BY <2>4
        <5> QED BY <5>1, <5>2
      <4>2. from(i) = from(j)
        BY <3>1, <3>2, <4>1
      <4> QED BY <2>2, <4>2
    <3>3. IsInjective(t)
      BY <2>5, <3>2 DEF IsInjective
    <3>4. ASSUME NEW j \in 1 .. Len(s) - 1 PROVE t[j] # b
      <4>1. CASE j < k
        <5>1. t[j] = s[j] /\ j \in 1 .. Len(s) /\ j # k
          BY <2>2, <2>4, <2>5, <4>1
        <5> QED BY <2>2, <2>5, <3>1, <5>1
      <4>2. CASE ~(j < k)
        <5>1. t[j] = s[j + 1] /\ j + 1 \in 1 .. Len(s) /\ j + 1 # k
          BY <2>2, <2>4, <2>5, <4>2
        <5> QED BY <2>2, <2>5, <3>1, <5>1
      <4> QED BY <4>1, <4>2
    <3>5. ASSUME NEW j \in 1 .. Len(s), j # k PROVE s[j] \in ToSet(t)
      <4>1. CASE j < k
        <5>1. j \in 1 .. Len(s) - 1
          BY <2>2, <2>5, <4>1
        <5>2. t[j] = s[j]
          BY <2>4, <4>1, <5>1
        <5> QED BY <2>5, <5>1, <5>2 DEF ToSet
      <4>2. CASE ~(j < k)
        <5>1. j - 1 \in 1 .. Len(s) - 1 /\ ~(j - 1 < k) /\ j - 1 + 1 = j
          BY <2>2, <2>5, <3>5, <4>2
        <5>2. t[j - 1] = s[j]
          BY <2>4, <5>1
        <5> QED BY <2>5, <5>1, <5>2 DEF ToSet
      <4> QED BY <4>1, <4>2
    <3>6. b \notin ToSet(t)
      BY <2>5, <3>4 DEF ToSet
    <3>7. ToSet(s) \ {b} \subseteq ToSet(t)
      BY <2>2, <2>5, <3>5 DEF ToSet
    <3> QED BY <2>6, <3>3, <3>6, <3>7
  <2> QED BY <2>3, <2>4, <2>6, <2>7
<1> QED BY <1>1, <1>2

Prefixed(b, s) == <<b>> \o s

LEMMA PrefixedFacts ==
    ASSUME NEW s \in Seq(Int), NEW b \in Int
    PROVE  /\ Prefixed(b, s) \in Seq(Int) /\ Len(Prefixed(b, s)) = Len(s) + 1
           /\ ToSet(Prefixed(b, s)) = {b} \cup ToSet(s)
           /\ IsInjective(s) /\ b \notin ToSet(s) => IsInjective(Prefixed(b, s))
<1> DEFINE t == <<b>> \o s
<1>1. /\ t \in Seq(Int) /\ Len(t) = Len(s) + 1 /\ t[1] = b
      /\ \A j \in 1 .. Len(s) : t[j + 1] = s[j]
      /\ \A j \in 2 .. Len(t) : t[j] = s[j - 1]
  OBVIOUS
<1> HIDE DEF t
<1>2. DOMAIN s = 1 .. Len(s) /\ DOMAIN t = 1 .. Len(s) + 1 /\ Len(s) \in Nat
  BY <1>1
<1>3. \A j \in DOMAIN t : j = 1 \/ j \in 2 .. Len(t)
  BY <1>1, <1>2
<1>4. ToSet(t) \subseteq {b} \cup ToSet(s)
  <2> SUFFICES ASSUME NEW j \in DOMAIN t PROVE t[j] \in {b} \cup ToSet(s)
    BY DEF ToSet
  <2>1. CASE j = 1
    BY <1>1, <2>1
  <2>2. CASE j \in 2 .. Len(t)
    <3>1. t[j] = s[j - 1] /\ j - 1 \in DOMAIN s
      BY <1>1, <1>2, <2>2
    <3> QED BY <3>1 DEF ToSet
  <2> QED BY <1>3, <2>1, <2>2
<1>5. {b} \cup ToSet(s) \subseteq ToSet(t)
  <2>1. b \in ToSet(t)
    <3>1. 1 \in DOMAIN t /\ t[1] = b
      BY <1>1, <1>2
    <3> QED BY <3>1 DEF ToSet
  <2>2. \A j \in DOMAIN s : s[j] = t[j + 1] /\ j + 1 \in DOMAIN t
    BY <1>1, <1>2
  <2>3. ToSet(s) \subseteq ToSet(t)
    BY <2>2 DEF ToSet
  <2> QED BY <2>1, <2>3
<1>6. ASSUME IsInjective(s), b \notin ToSet(s) PROVE IsInjective(t)
  <2>1. \A i, j \in DOMAIN s : s[i] = s[j] => i = j
    BY <1>6 DEF IsInjective
  <2>2. \A j \in DOMAIN s : s[j] # b
    BY <1>6 DEF ToSet
  <2>3. ASSUME NEW i \in DOMAIN t, NEW j \in DOMAIN t, t[i] = t[j] PROVE i = j
    <3>1. \A k \in DOMAIN t : k # 1 => t[k] = s[k - 1] /\ k - 1 \in DOMAIN s /\ k \in Int
      BY <1>1, <1>2
    <3>2. CASE i = 1 /\ j # 1
      BY <1>1, <2>2, <2>3, <3>1, <3>2
    <3>3. CASE i # 1 /\ j = 1
      BY <1>1, <2>2, <2>3, <3>1, <3>3
    <3>4. CASE i # 1 /\ j # 1
      <4>1. i - 1 = j - 1 /\ i \in Int /\ j \in Int
        BY <2>1, <2>3, <3>1, <3>4
      <4> QED BY <4>1
    <3> QED BY <3>2, <3>3, <3>4
  <2> QED BY <2>3 DEF IsInjective
<1> QED BY <1>1, <1>4, <1>5, <1>6 DEF t, Prefixed

LEMMA RemovedFields ==
    ASSUME NEW h \in Heaps, NEW size, NEW b
    PROVE  LET g == removeFreeBlock(h, size, b)
           IN  /\ g \in Heaps
               /\ g.mem = h.mem /\ g.end = h.end /\ g.quick = h.quick /\ g.events = h.events
               /\ \A i \in FreeLists :
                     g.free[i] = IF i \in FreeListOf(size) THEN Unlinked(h.free[i], b) ELSE h.free[i]
<1> DEFINE free == [i \in FreeLists |->
                       IF i \in FreeListOf(size) THEN Unlinked(h.free[i], b) ELSE h.free[i]]
<1>1. \A i \in FreeLists : h.free[i] \in Seq(Int)
  BY DEF Heaps
<1>2. \A i \in FreeLists : Unlinked(h.free[i], b) \in Seq(Int)
  BY <1>1, UnlinkedFacts
<1>3. free \in [FreeLists -> Seq(Int)]
  BY <1>1, <1>2
<1>4. \A i \in FreeLists :
          free[i] = IF i \in FreeListOf(size) THEN Unlinked(h.free[i], b) ELSE h.free[i]
  OBVIOUS
<1>5. removeFreeBlock(h, size, b) = [h EXCEPT !.free = free]
  BY DEF removeFreeBlock
<1> HIDE DEF free
<1> QED BY <1>3, <1>4, <1>5 DEF Heaps

LEMMA RemovedIsFiled ==
    ASSUME NEW h \in Heaps, NEW b, NEW mem, NEW S, Filed(h.free, mem, S)
    PROVE  LET g == removeFreeBlock(h, mem[b].size, b)
           IN  /\ Filed(g.free, mem, S)
               /\ Listed(g.free) = Listed(h.free) \ {b}
<1> DEFINE F == FreeListOf(mem[b].size)
           g == removeFreeBlock(h, mem[b].size, b)
<1>1. \A i \in FreeLists : g.free[i] = IF i \in F THEN Unlinked(h.free[i], b) ELSE h.free[i]
  BY RemovedFields
<1>2. \A i \in FreeLists : h.free[i] \in Seq(Int)
  BY DEF Heaps
<1>3. \A i \in FreeLists :
          /\ IsInjective(h.free[i])
          /\ \A x \in ToSet(h.free[i]) :
                x \in S /\ ~IsAllocated(mem[x]) /\ i \in FreeListOf(mem[x].size)
  BY DEF Filed
<1> HIDE DEF g
<1>4. ASSUME NEW i \in FreeLists
      PROVE  IsInjective(g.free[i]) /\ ToSet(g.free[i]) = ToSet(h.free[i]) \ {b}
  <2>1. CASE i \in F
    <3>1. IsInjective(Unlinked(h.free[i], b)) /\ ToSet(Unlinked(h.free[i], b)) = ToSet(h.free[i]) \ {b}
      BY <1>2, <1>3, UnlinkedFacts
    <3> QED BY <1>1, <2>1, <3>1
  <2>2. CASE i \notin F
    <3>1. b \notin ToSet(h.free[i])
      BY <1>3, <2>2
    <3> QED BY <1>1, <1>3, <2>2, <3>1
  <2> QED BY <2>1, <2>2
<1>5. Filed(g.free, mem, S)
  BY <1>3, <1>4 DEF Filed
<1>6. Listed(g.free) = Listed(h.free) \ {b}
  BY <1>4 DEF Listed
<1> QED BY <1>5, <1>6 DEF g

\* The same for a size that is read elsewhere.
LEMMA RemovedOfSize ==
    ASSUME NEW h \in Heaps, NEW b, NEW size, NEW mem, NEW S,
           Filed(h.free, mem, S), mem[b].size = size
    PROVE  LET g == removeFreeBlock(h, size, b)
           IN  /\ Filed(g.free, mem, S)
               /\ Listed(g.free) = Listed(h.free) \ {b}
<1>1. removeFreeBlock(h, size, b) = removeFreeBlock(h, mem[b].size, b)
  OBVIOUS
<1> QED BY <1>1, RemovedIsFiled

LEMMA PlacedFields ==
    ASSUME NEW h \in Heaps, NEW size, NEW b \in Int
    PROVE  LET g == placeFreeBlock(h, size, b)
           IN  /\ g \in Heaps
               /\ g.mem = h.mem /\ g.end = h.end /\ g.quick = h.quick
               /\ \A i \in FreeLists :
                     g.free[i] = IF i \in FreeListOf(size) THEN Prefixed(b, h.free[i]) ELSE h.free[i]
<1> DEFINE free == [i \in FreeLists |->
                       IF i \in FreeListOf(size) THEN Prefixed(b, h.free[i]) ELSE h.free[i]]
           k == [h EXCEPT !.free = free]
           wrong == FreeListOf(size) # FreeListOf(At(h, b).size)
<1>1. \A i \in FreeLists : h.free[i] \in Seq(Int)
  BY DEF Heaps
<1>2. \A i \in FreeLists : Prefixed(b, h.free[i]) \in Seq(Int)
  BY <1>1, PrefixedFacts
<1>3. free \in [FreeLists -> Seq(Int)]
  BY <1>1, <1>2
<1>4. \A i \in FreeLists :
          free[i] = IF i \in FreeListOf(size) THEN Prefixed(b, h.free[i]) ELSE h.free[i]
  OBVIOUS
<1>5. placeFreeBlock(h, size, b) = Event(k, "misfiled", wrong)
  BY DEF placeFreeBlock, Prefixed
<1> HIDE DEF free
<1>6. /\ k \in Heaps /\ k.mem = h.mem /\ k.end = h.end /\ k.quick = h.quick /\ k.events = h.events
      /\ k.free = free
  BY <1>3 DEF Heaps
<1>7. "misfiled" \in Wrong \cup {"flushed"} /\ wrong \in BOOLEAN
  BY DEF Wrong
<1> HIDE DEF k, wrong
<1>8. LET g == Event(k, "misfiled", wrong)
      IN  /\ g \in Heaps
          /\ g.mem = k.mem /\ g.end = k.end /\ g.free = k.free /\ g.quick = k.quick
          /\ g.events = IF wrong THEN k.events \cup {"misfiled"} ELSE k.events
  BY <1>6, <1>7, EventFields
<1> QED BY <1>4, <1>5, <1>6, <1>8

Misfiled(h, size, b) == FreeListOf(size) # FreeListOf(At(h, b).size)

LEMMA PlacedEvents ==
    ASSUME NEW h \in Heaps, NEW size, NEW b
    PROVE  placeFreeBlock(h, size, b).events
             = IF Misfiled(h, size, b) THEN h.events \cup {"misfiled"} ELSE h.events
BY DEF placeFreeBlock, Event, Misfiled, Heaps

\* A free block that is in no list, to be placed in the list of its size.
Placeable(h, S, size, b) ==
    /\ Filed(h.free, h.mem, S)
    /\ b \in S /\ b \notin Listed(h.free) /\ ~IsAllocated(h.mem[b])
    /\ FreeListOf(size) = FreeListOf(h.mem[b].size)

LEMMA PlacedIsFiled ==
    ASSUME NEW h \in Heaps, NEW S, NEW size, NEW b \in Int, Placeable(h, S, size, b)
    PROVE  LET g == placeFreeBlock(h, size, b)
           IN  /\ Filed(g.free, h.mem, S)
               /\ Listed(h.free) \subseteq Listed(g.free)
               /\ FreeListOf(size) # {} => b \in Listed(g.free)
<1> DEFINE g == placeFreeBlock(h, size, b)
<1>1. \A i \in FreeLists :
          g.free[i] = IF i \in FreeListOf(size) THEN Prefixed(b, h.free[i]) ELSE h.free[i]
  BY PlacedFields
<1>2. \A i \in FreeLists : h.free[i] \in Seq(Int)
  BY DEF Heaps
<1>3. \A i \in FreeLists :
          /\ IsInjective(h.free[i])
          /\ \A x \in ToSet(h.free[i]) :
                x \in S /\ ~IsAllocated(h.mem[x]) /\ i \in FreeListOf(h.mem[x].size)
  BY DEF Filed, Placeable
<1>4. b \in S /\ b \notin Listed(h.free) /\ ~IsAllocated(h.mem[b]) /\ FreeListOf(size) = FreeListOf(h.mem[b].size)
  BY DEF Placeable
<1> HIDE DEF g
<1>5. ASSUME NEW i \in FreeLists
      PROVE  /\ IsInjective(g.free[i])
             /\ ToSet(g.free[i]) = IF i \in FreeListOf(size) THEN {b} \cup ToSet(h.free[i])
                                   ELSE ToSet(h.free[i])
  <2>1. CASE i \in FreeListOf(size)
    <3>1. b \notin ToSet(h.free[i])
      BY <1>4 DEF Listed
    <3>2. IsInjective(Prefixed(b, h.free[i])) /\ ToSet(Prefixed(b, h.free[i])) = {b} \cup ToSet(h.free[i])
      BY <1>2, <1>3, <3>1, PrefixedFacts
    <3> QED BY <1>1, <2>1, <3>2
  <2>2. CASE i \notin FreeListOf(size)
    BY <1>1, <1>3, <2>2
  <2> QED BY <2>1, <2>2
<1>6. Filed(g.free, h.mem, S)
  BY <1>3, <1>4, <1>5 DEF Filed
<1>7. Listed(h.free) \subseteq Listed(g.free)
  BY <1>5 DEF Listed
<1>8. FreeListOf(size) \subseteq FreeLists
  BY DEF FreeListOf
<1>9. FreeListOf(size) # {} => b \in Listed(g.free)
  BY <1>5, <1>8 DEF Listed
<1> QED BY <1>6, <1>7, <1>9 DEF g

\* When blocks change in a part of the heap in which no listed one begins, the
\* lists are as good as they were.
LEMMA FiledElsewhere ==
    ASSUME NEW free, NEW mem, NEW S, Filed(free, mem, S),
           NEW new, NEW T, \A b \in Listed(free) : b \in T /\ new[b] = mem[b]
    PROVE  Filed(free, new, T)
BY DEF Filed, Listed

\* The upper bounds of the sizes of the lists, in units of the smallest block.
Ranges ==
    LET range[i \in 0 .. (NUM_FREE_LISTS - 1 - 1)] == IF i = 0 THEN 1 ELSE 2 * range[i - 1]
    IN  range

LEMMA RangesUnfold ==
    LET last == NUM_FREE_LISTS - 1
    IN  /\ last \in Nat /\ last >= 2 /\ FreeLists = 0 .. last
        /\ \A i \in 0 .. (last - 1) : Ranges[i] \in Int
        /\ Ranges[0] = 1
        /\ \A i \in 1 .. (last - 1) : Ranges[i] = 2 * Ranges[i - 1]
<1> DEFINE last == NUM_FREE_LISTS - 1
           I == 0 .. (last - 1)
           E(g, i) == IF i = 0 THEN 1 ELSE 2 * g[i - 1]
           rank == [i \in I |-> i]
           H == [i \in I |-> [g \in [I -> Int] |-> E(g, i)]]
<1>1. last \in Nat /\ last >= 2 /\ FreeLists = 0 .. last
  BY SizesAssumption DEF FreeLists
<1>2. Ranges = CHOOSE g : g = [i \in I |-> E(g, i)]
  BY DEF Ranges
<1> HIDE DEF last
<1>3. rank \in [I -> Nat] /\ \A i \in I : rank[i] = i /\ rank[i] < last
  BY <1>1
<1>4. \A g \in [I -> Int] : \A i \in I : E(g, i) \in Int
  <2> SUFFICES ASSUME NEW g \in [I -> Int], NEW i \in I PROVE E(g, i) \in Int
    OBVIOUS
  <2>1. CASE i = 0
    BY <2>1
  <2>2. CASE i # 0
    <3>1. i - 1 \in I
      BY <1>1, <2>2
    <3>2. g[i - 1] \in Int
      BY <3>1
    <3> QED BY <2>2, <3>2
  <2> QED BY <2>1, <2>2
<1>5. ASSUME NEW i \in I, NEW f, NEW g, \A k \in I : rank[k] < rank[i] => f[k] = g[k]
      PROVE  E(f, i) = E(g, i)
  <2> SUFFICES ASSUME i # 0 PROVE f[i - 1] = g[i - 1]
    OBVIOUS
  <2>1. i - 1 \in I /\ rank[i - 1] < rank[i]
    BY <1>1, <1>3
  <2> QED BY <1>5, <2>1
<1> HIDE DEF E, rank
<1>6. H \in [I -> [[I -> Int] -> Int]] /\ \A i \in I : \A g \in [I -> Int] : H[i][g] = E(g, i)
  BY <1>4
<1> HIDE DEF H, I
<1>7. PICK f \in [I -> Int] : \A i \in I : f[i] = H[i][f]
  <2>1. \A i \in I : \A f, g \in [I -> Int] :
          (\A k \in I : rank[k] < rank[i] => f[k] = g[k]) => H[i][f] = H[i][g]
    BY <1>5, <1>6
  <2>2. Int # {}
    <3>1. 0 \in Int
      OBVIOUS
    <3> QED BY <3>1
  <2>3. Recursive(I, Int, rank, H)
    BY <1>1, <1>3, <1>6, <2>1, <2>2 DEF Recursive
  <2> QED BY <2>3, Recursion DEF Solvable
<1>8. f = [i \in I |-> E(f, i)]
  BY <1>6, <1>7
<1>9. Ranges = [i \in I |-> E(Ranges, i)]
  <2> DEFINE F(g) == [i \in I |-> E(g, i)]
  <2>1. f = F(f) /\ Ranges = CHOOSE g : g = F(g)
    BY <1>2, <1>8
  <2> HIDE DEF F
  <2>2. Ranges = F(Ranges)
    BY <2>1, Zenon
  <2> QED BY <2>2 DEF F
<1>10. \A i \in I : Ranges[i] = E(Ranges, i)
  BY <1>9
<1>11. \A i \in I : Ranges[i] \in Int
  <2>1. \A i \in I : f[i] = E(f, i)
    BY <1>6, <1>7
  <2>2. Agreeing(I, rank, f, Ranges)
    BY <1>3, <1>5, <1>10, <2>1 DEF Agreeing
  <2> QED BY <1>7, <2>2, Agreement
<1>12. Ranges[0] = 1
  BY <1>1, <1>10 DEF E, I
<1>13. \A i \in 1 .. (last - 1) : Ranges[i] = 2 * Ranges[i - 1]
  BY <1>1, <1>10 DEF E, I
<1> QED BY <1>1, <1>11, <1>12, <1>13 DEF I, last

LEMMA RangesGrow ==
    ASSUME NEW i \in 0 .. (NUM_FREE_LISTS - 1 - 1), NEW j \in 0 .. (NUM_FREE_LISTS - 1 - 1), i <= j
    PROVE  Ranges[i] >= 1 /\ Ranges[i] <= Ranges[j]
<1> DEFINE last == NUM_FREE_LISTS - 1
<1>1. /\ last \in Nat /\ last >= 2
      /\ \A k \in 0 .. (last - 1) : Ranges[k] \in Int
      /\ Ranges[0] = 1
      /\ \A k \in 1 .. (last - 1) : Ranges[k] = 2 * Ranges[k - 1]
  BY RangesUnfold
<1> HIDE DEF last
<1>2. \A k \in 0 .. (last - 1) : Ranges[k] >= 1
  <2> DEFINE T == {k \in 0 .. (last - 1) : ~(Ranges[k] >= 1)}
  <2> SUFFICES ASSUME T # {} PROVE FALSE
    OBVIOUS
  <2>1. T \in SUBSET Nat
    BY <1>1
  <2>2. PICK k \in T : \A n \in T : k <= n
    BY <2>1, FirstExists
  <2>3. k \in Nat /\ k # 0 /\ k \in 1 .. (last - 1) /\ ~(Ranges[k] >= 1)
    BY <1>1, <2>1
  <2>4. k - 1 \in 0 .. (last - 1) /\ k - 1 \notin T
    BY <1>1, <2>1, <2>2, <2>3
  <2>5. Ranges[k - 1] >= 1 /\ Ranges[k - 1] \in Int /\ Ranges[k] = 2 * Ranges[k - 1]
    BY <1>1, <2>3, <2>4
  <2> QED BY <2>3, <2>5
<1>3. \A k \in 0 .. (last - 1) : i <= k => Ranges[i] <= Ranges[k]
  <2> DEFINE T == {k \in 0 .. (last - 1) : i <= k /\ ~(Ranges[i] <= Ranges[k])}
  <2> SUFFICES ASSUME T # {} PROVE FALSE
    OBVIOUS
  <2>1. T \in SUBSET Nat
    BY <1>1
  <2>2. PICK k \in T : \A n \in T : k <= n
    BY <2>1, FirstExists
  <2>3. i \in 0 .. (last - 1) /\ i \in Nat
    BY <1>1 DEF last
  <2>4. k \in Nat /\ k # i /\ i <= k /\ k \in 0 .. (last - 1) /\ ~(Ranges[i] <= Ranges[k])
    BY <1>1, <2>1, <2>3
  <2>5. k \in 1 .. (last - 1) /\ k - 1 \in 0 .. (last - 1) /\ i <= k - 1 /\ k - 1 \notin T
    BY <1>1, <2>1, <2>2, <2>3, <2>4
  <2>6. Ranges[i] <= Ranges[k - 1] /\ Ranges[k - 1] >= 1 /\ Ranges[k] = 2 * Ranges[k - 1]
    BY <1>1, <1>2, <2>5
  <2>7. Ranges[i] \in Int /\ Ranges[k - 1] \in Int /\ Ranges[k] \in Int
    BY <1>1, <2>3, <2>5
  <2> QED BY <2>4, <2>6, <2>7
<1>4. i \in 0 .. (last - 1) /\ j \in 0 .. (last - 1)
  BY DEF last
<1> QED BY <1>2, <1>3, <1>4

LEMMA FreeListOfSize ==
    ASSUME NEW size
    PROVE  LET s == size - 8
               last == NUM_FREE_LISTS - 1
           IN  FreeListOf(size) =
                 {i \in FreeLists :
                    \/ i = 0 /\ s = MinBlock * Ranges[0]
                    \/ i \in 1 .. (last - 1) /\ MinBlock * Ranges[i - 1] < s /\ s <= MinBlock * Ranges[i]
                    \/ i = last /\ s > MinBlock * Ranges[last - 1]}
BY DEF FreeListOf, Ranges

\* No size is of two lists.
LEMMA OneFreeList ==
    ASSUME NEW size \in Nat, NEW i \in FreeListOf(size), NEW j \in FreeListOf(size)
    PROVE  i = j
<1> DEFINE s == size - 8
           last == NUM_FREE_LISTS - 1
           least(k) == IF k = 0 THEN 0 ELSE 32 * Ranges[k - 1]
<1>1. /\ last \in Nat /\ last >= 2 /\ FreeLists = 0 .. last
      /\ \A k \in 0 .. (last - 1) : Ranges[k] \in Int
  BY RangesUnfold
<1>2. \A k \in FreeListOf(size) :
         /\ k \in FreeLists
         /\ \/ k = 0 /\ s = 32 * Ranges[0]
            \/ k \in 1 .. (last - 1) /\ 32 * Ranges[k - 1] < s /\ s <= 32 * Ranges[k]
            \/ k = last /\ s > 32 * Ranges[last - 1]
  BY FreeListOfSize DEF MinBlock
<1>3. \A k, n \in 0 .. (last - 1) : k <= n => Ranges[k] <= Ranges[n]
  BY RangesGrow
<1>4. s \in Int
  OBVIOUS
<1> HIDE DEF s, last
<1>5. ASSUME NEW k \in FreeListOf(size), NEW n \in FreeListOf(size), k < n PROVE FALSE
  <2>1. k \in 0 .. (last - 1) /\ n \in 1 .. last /\ n - 1 \in 0 .. (last - 1) /\ k <= n - 1
    BY <1>1, <1>2, <1>5
  <2>2. s <= 32 * Ranges[k]
    BY <1>1, <1>2, <1>4, <2>1
  <2>3. s > 32 * Ranges[n - 1]
    BY <1>1, <1>2, <1>4, <2>1
  <2>4. Ranges[k] <= Ranges[n - 1] /\ Ranges[k] \in Int /\ Ranges[n - 1] \in Int
    BY <1>1, <1>3, <2>1
  <2> QED BY <1>4, <2>2, <2>3, <2>4
<1>6. i \in Int /\ j \in Int
  BY <1>1, <1>2
<1> QED BY <1>5, <1>6

\* Only blocks of the smallest size have no list.
LEMMA OthersHaveAList ==
    ASSUME NEW size \in Nat, size % 16 = 0, size >= 32, size # MinBlock
    PROVE  FreeListOf(size) # {}
<1> DEFINE s == size - 8
           last == NUM_FREE_LISTS - 1
           I == 0 .. (last - 1)
<1>1. last \in Nat /\ last >= 2 /\ FreeLists = 0 .. last /\ s \in Nat /\ s > 32
  BY RangesUnfold DEF MinBlock
<1>2. FreeListOf(size) =
        {i \in FreeLists :
            \/ i = 0 /\ s = MinBlock * Ranges[0]
            \/ i \in 1 .. (last - 1) /\ MinBlock * Ranges[i - 1] < s /\ s <= MinBlock * Ranges[i]
            \/ i = last /\ s > MinBlock * Ranges[last - 1]}
  BY FreeListOfSize
<1>3. Ranges[0] = 1 /\ \A i \in I : Ranges[i] \in Int
  BY RangesUnfold
<1> HIDE DEF s, last, I
<1>4. CASE s > MinBlock * Ranges[last - 1]
  <2>1. last \in FreeLists
    BY <1>1
  <2> QED BY <1>2, <1>4, <2>1
<1>5. CASE ~(s > MinBlock * Ranges[last - 1])
  <2> DEFINE P == {i \in I : s <= MinBlock * Ranges[i]}
  <2>1. last - 1 \in I
    BY <1>1 DEF I
  <2>2. s <= MinBlock * Ranges[last - 1]
    BY <1>1, <1>3, <1>5, <2>1 DEF MinBlock
  <2>3. P \in SUBSET Nat /\ P # {}
    BY <1>1, <2>1, <2>2 DEF I
  <2> HIDE DEF P
  <2>4. PICK i \in P : \A k \in P : i <= k
    BY <2>3, FirstExists
  <2>5. i \in I /\ i \in Nat /\ i # 0
    BY <1>1, <1>3, <2>3, <2>4 DEF P, MinBlock
  <2>6. i - 1 \in I /\ i - 1 \notin P /\ i \in 1 .. (last - 1)
    BY <1>1, <2>4, <2>5 DEF I
  <2>7. MinBlock * Ranges[i - 1] < s /\ s <= MinBlock * Ranges[i]
    BY <1>1, <1>3, <2>4, <2>6 DEF P, MinBlock
  <2>8. i \in FreeLists
    BY <1>1, <2>6
  <2> QED BY <1>2, <2>6, <2>7, <2>8
<1> QED BY <1>4, <1>5

-----------------------------------------------------------------------------
(* Merging neighbours. *)

LEMMA AtFacts ==
    ASSUME NEW h \in Heaps, NEW a
    PROVE  /\ At(h, a).size \in Nat
           /\ a \in DOMAIN h.mem => At(h, a) = h.mem[a] /\ h.mem[a] \in Words
           /\ LooksFree(At(h, a)) => a \in DOMAIN h.mem /\ ~IsAllocated(h.mem[a])
<1>1. h.mem \in Memories
  BY DEF Heaps
<1>2. a \in DOMAIN h.mem => At(h, a) = h.mem[a] /\ h.mem[a] \in Words /\ h.mem[a].size \in Nat
  BY <1>1, MemoryFacts DEF At, Words
<1>3. a \notin DOMAIN h.mem => At(h, a).size = 0 /\ At(h, a).flags = {"data"}
  BY DEF At, Data
<1>4. LooksFree(At(h, a)) => a \in DOMAIN h.mem
  BY <1>3 DEF LooksFree
<1> QED BY <1>2, <1>3, <1>4 DEF LooksFree, IsAllocated

Previous(h, b) == b - At(h, b - 8).size

LEMMA WithPreviousFields ==
    ASSUME NEW h \in Heaps, NEW size \in Nat, NEW b \in Int, LooksFree(At(h, b - 8))
    PROVE  LET g == WithPrevious(h, size, b)
               tag == At(h, b - 8)
           IN  /\ g \in Heaps /\ g.end = h.end /\ g.quick = h.quick
               /\ Overwritten(g.mem, h.mem, {Previous(h, b), Footer(b, size)},
                              Header(tag.size + size, tag.flags))
               /\ g.events = IF FalseFooter(h, b) THEN h.events \cup {"false footer"} ELSE h.events
               /\ \A mem, S : Filed(h.free, mem, S) /\ mem[Previous(h, b)].size = tag.size =>
                     /\ Filed(g.free, mem, S)
                     /\ Listed(g.free) = Listed(h.free) \ {Previous(h, b)}
<1> DEFINE tag == At(h, b - 8)
           at == Previous(h, b)
           k == Event(h, "false footer", FalseFooter(h, b))
           r == removeFreeBlock(k, tag.size, at)
           new == Header(tag.size + size, tag.flags)
           A == {at, Footer(b, size)}
           g == WithPrevious(h, size, b)
<1>1. g = Written(r, A, new)
  BY DEF WithPrevious, Previous
<1>2. tag.size \in Nat /\ tag.flags = {}
  BY AtFacts DEF LooksFree
<1> HIDE DEF tag
<1>3. new \in Words
  <2>1. tag.size + size \in Nat
    BY <1>2
  <2> QED BY <1>2, <2>1, FreeHeaderFacts
<1>4. at \in Int /\ Footer(b, size) \in Int
  BY <1>2 DEF Previous, Footer, tag
<1>5. FalseFooter(h, b) \in BOOLEAN /\ "false footer" \in Wrong \cup {"flushed"}
  BY DEF FalseFooter, Wrong
<1>6. /\ k \in Heaps /\ k.mem = h.mem /\ k.end = h.end /\ k.free = h.free /\ k.quick = h.quick
      /\ k.events = IF FalseFooter(h, b) THEN h.events \cup {"false footer"} ELSE h.events
  BY <1>5, EventFields
<1>7. k \in Heaps
  BY <1>6
<1> HIDE DEF k, at, new
<1>8. r \in Heaps /\ r.mem = k.mem /\ r.end = k.end /\ r.quick = k.quick /\ r.events = k.events
  BY <1>7, RemovedFields
<1>9. ASSUME NEW mem, NEW S, Filed(k.free, mem, S), mem[at].size = tag.size
      PROVE  Filed(r.free, mem, S) /\ Listed(r.free) = Listed(k.free) \ {at}
  <2> DEFINE n == tag.size
  <2>1. k \in Heaps /\ mem[at].size = n
    BY <1>7, <1>9
  <2> HIDE DEF n
  <2>2. Filed(removeFreeBlock(k, n, at).free, mem, S)
        /\ Listed(removeFreeBlock(k, n, at).free) = Listed(k.free) \ {at}
    BY <1>9, <2>1, RemovedOfSize
  <2>3. r = removeFreeBlock(k, n, at)
    BY DEF n
  <2> HIDE DEF r
  <2> QED BY <2>2, <2>3
<1> HIDE DEF r
<1>10. /\ g \in Heaps /\ g.end = r.end /\ g.free = r.free /\ g.quick = r.quick /\ g.events = r.events
      /\ Overwritten(g.mem, r.mem, A, new)
  <2>1. A \in SUBSET Int
    BY <1>4
  <2>2. g = Written(r, A, new)
    BY <1>1
  <2> HIDE DEF A, g
  <2>3. LET w == Written(r, A, new)
        IN  /\ w \in Heaps
            /\ w.end = r.end /\ w.free = r.free /\ w.quick = r.quick /\ w.events = r.events
            /\ Overwritten(w.mem, r.mem, A, new)
    BY <1>3, <1>8, <2>1, WrittenFields
  <2> QED BY <2>2, <2>3
<1> HIDE DEF g
<1>11. ASSUME NEW mem, NEW S, Filed(h.free, mem, S), mem[at].size = tag.size
       PROVE  Filed(g.free, mem, S) /\ Listed(g.free) = Listed(h.free) \ {at}
  BY <1>6, <1>9, <1>10, <1>11
<1>12. /\ g \in Heaps /\ g.end = h.end /\ g.quick = h.quick
       /\ g.events = IF FalseFooter(h, b) THEN h.events \cup {"false footer"} ELSE h.events
       /\ Overwritten(g.mem, h.mem, A, new)
  BY <1>6, <1>8, <1>10
<1> QED BY <1>11, <1>12 DEF g, tag, at, new

LEMMA WithNextFields ==
    ASSUME NEW h \in Heaps, NEW size \in Nat, NEW b \in Int, LooksFree(At(h, b + size))
    PROVE  LET g == WithNext(h, size, b)
               tag == Header(size + At(h, b + size).size, {})
           IN  /\ g \in Heaps /\ g.end = h.end /\ g.quick = h.quick /\ g.events = h.events
               /\ tag \in Words /\ ~IsAllocated(tag)
               /\ Overwritten(g.mem, h.mem, {b, Footer(b, tag.size)}, tag)
               /\ \A mem, S : Filed(h.free, mem, S) /\ mem[b + size].size = At(h, b + size).size =>
                     /\ Filed(g.free, mem, S)
                     /\ Listed(g.free) = Listed(h.free) \ {b + size}
<1> DEFINE next == At(h, b + size)
           c == b + size
           r == removeFreeBlock(h, next.size, c)
           tag == Header(size + next.size, {})
           A == {b, Footer(b, tag.size)}
           g == WithNext(h, size, b)
<1>1. next.size \in Nat /\ next.flags = {}
  BY AtFacts DEF LooksFree
<1>2. g = Written(r, A, tag)
  BY <1>1 DEF WithNext, Tagged
<1> HIDE DEF next
<1>3. tag \in Words /\ ~IsAllocated(tag) /\ tag.size \in Nat
  <2>1. size + next.size \in Nat
    BY <1>1
  <2> QED BY <2>1, FreeHeaderFacts DEF Words
<1> HIDE DEF tag, c
<1>4. r \in Heaps /\ r.mem = h.mem /\ r.end = h.end /\ r.quick = h.quick /\ r.events = h.events
  BY RemovedFields
<1>5. ASSUME NEW mem, NEW S, Filed(h.free, mem, S), mem[c].size = next.size
      PROVE  Filed(r.free, mem, S) /\ Listed(r.free) = Listed(h.free) \ {c}
  BY <1>5, RemovedIsFiled
<1> HIDE DEF r
<1>6. /\ g \in Heaps /\ g.end = r.end /\ g.free = r.free /\ g.quick = r.quick /\ g.events = r.events
      /\ Overwritten(g.mem, r.mem, A, tag)
  <2>1. A \in SUBSET Int
    BY <1>3 DEF Footer
  <2> HIDE DEF A
  <2> QED BY <1>2, <1>3, <1>4, <2>1, WrittenFields
<1> HIDE DEF g
<1>7. ASSUME NEW mem, NEW S, Filed(h.free, mem, S), mem[c].size = next.size
      PROVE  Filed(g.free, mem, S) /\ Listed(g.free) = Listed(h.free) \ {c}
  BY <1>5, <1>6, <1>7
<1>8. /\ g \in Heaps /\ g.end = h.end /\ g.quick = h.quick /\ g.events = h.events
      /\ Overwritten(g.mem, h.mem, A, tag)
  BY <1>4, <1>6
<1> QED BY <1>3, <1>7, <1>8 DEF g, next, c, tag

Results == [heap : Heaps, block : Int]

\* What is left of the cases of coalesce when it does nothing wrong.
MergedNone(h, size, b, r) ==
    ~LooksFree(At(h, b - 8)) /\ ~LooksFree(At(h, b + size)) /\ r = Result(h, NULL)
MergedPrevious(h, size, b, r) ==
    /\ LooksFree(At(h, b - 8)) /\ ~FalseFooter(h, b)
    /\ r = Result(WithPrevious(h, size, b), Previous(h, b))
MergedNext(h, size, b, r) ==
    /\ ~LooksFree(At(h, b - 8)) /\ LooksFree(At(h, b + size))
    /\ r = Result(WithNext(h, size, b), b)

LEMMA CoalesceFields ==
    ASSUME NEW h \in Heaps, NEW size \in Nat \ {0}, NEW b \in Int
    PROVE  LET r == coalesce(h, size, b)
           IN  /\ r \in Results
               /\ r.heap.end = h.end /\ r.heap.quick = h.quick
               /\ h.events \subseteq r.heap.events
               /\ ~Harmed(r.heap) =>
                     \/ MergedNone(h, size, b, r)
                     \/ MergedPrevious(h, size, b, r)
                     \/ MergedNext(h, size, b, r)
<1> DEFINE r == coalesce(h, size, b)
           back == LooksFree(At(h, b - 8))
           on == LooksFree(At(h, b + size))
<1>1. CASE ~back /\ ~on
  <2>1. r = Result(h, NULL)
    BY <1>1 DEF coalesce
  <2>2. MergedNone(h, size, b, r)
    BY <1>1, <2>1 DEF MergedNone
  <2> HIDE DEF r
  <2>3. r \in Results /\ r.heap = h
    BY <2>1 DEF Results, Result, NULL
  <2> QED BY <2>2, <2>3 DEF r
<1>2. CASE ~back /\ on
  <2> DEFINE g == WithNext(h, size, b)
  <2>1. r = Result(g, b)
    BY <1>2 DEF coalesce
  <2>2. MergedNext(h, size, b, r)
    BY <1>2, <2>1 DEF MergedNext
  <2>3. g \in Heaps /\ g.end = h.end /\ g.quick = h.quick /\ g.events = h.events
    BY <1>2, WithNextFields
  <2> HIDE DEF r, g
  <2>4. r \in Results /\ r.heap = g
    BY <2>1, <2>3 DEF Results, Result
  <2> QED BY <2>2, <2>3, <2>4 DEF r
<1>3. CASE back
  <2> DEFINE g == WithPrevious(h, size, b)
             tag == At(h, b - 8)
             new == Header(tag.size + size, tag.flags)
  <2>1. /\ g \in Heaps /\ g.end = h.end /\ g.quick = h.quick
        /\ Overwritten(g.mem, h.mem, {Previous(h, b), Footer(b, size)}, new)
        /\ g.events = IF FalseFooter(h, b) THEN h.events \cup {"false footer"} ELSE h.events
    BY <1>3, WithPreviousFields
  <2>2. "false footer" \in Wrong /\ "three merged" \in Wrong
    BY DEF Wrong
  <2>3. h.events \subseteq g.events /\ (~Harmed(g) => ~FalseFooter(h, b))
    BY <2>1, <2>2 DEF Harmed
  <2>4. Previous(h, b) \in Int /\ Previous(h, b) # b + size /\ Footer(b, size) # b + size
    <3>1. tag.size \in Nat
      BY AtFacts
    <3> HIDE DEF tag
    <3> QED BY <3>1 DEF Previous, Footer, tag
  <2>5. CASE ~on
    <3>1. r = Result(g, Previous(h, b))
      BY <1>3, <2>5 DEF coalesce, Previous
    <3> HIDE DEF r, g
    <3>2. r \in Results /\ r.heap = g
      BY <2>1, <2>4, <3>1 DEF Results, Result
    <3>3. ~Harmed(r.heap) => MergedPrevious(h, size, b, r)
      BY <1>3, <2>3, <3>1, <3>2 DEF MergedPrevious, g
    <3> QED BY <2>1, <2>3, <3>2, <3>3 DEF r
  <2>6. CASE on
    <3> DEFINE k == WithNext(g, size, b)
               e == Event(k, "three merged", TRUE)
    <3>1. r = Result(e, b)
      BY <1>3, <2>6 DEF coalesce
    <3> HIDE DEF r, g
    <3>2. b + size \in DOMAIN h.mem /\ At(h, b + size) = h.mem[b + size]
      BY <2>6, AtFacts
    <3>3. b + size \in DOMAIN g.mem /\ g.mem[b + size] = h.mem[b + size]
      BY <2>1, <2>4, <3>2 DEF Overwritten
    <3>4. LooksFree(At(g, b + size))
      BY <2>1, <2>6, <3>2, <3>3, AtFacts
    <3>5. k \in Heaps /\ k.end = g.end /\ k.quick = g.quick /\ k.events = g.events
      BY <2>1, <3>4, WithNextFields
    <3> HIDE DEF k
    <3>6. /\ e \in Heaps /\ e.end = k.end /\ e.quick = k.quick
          /\ e.events = k.events \cup {"three merged"}
      BY <2>2, <3>5, EventFields
    <3> HIDE DEF e
    <3>7. r \in Results /\ r.heap = e
      BY <3>1, <3>6 DEF Results, Result
    <3>8. Harmed(r.heap)
      BY <2>2, <3>6, <3>7 DEF Harmed
    <3> QED BY <2>1, <2>3, <3>5, <3>6, <3>7, <3>8 DEF r
  <2> QED BY <2>5, <2>6
<1> QED BY <1>1, <1>2, <1>3

-----------------------------------------------------------------------------
(* Heaps in order. *)

\* The blocks fill the heap, and the lists hold free ones.
Sane(h) ==
    /\ h \in Heaps
    /\ Tiled(h.mem, h.end, Starts(h))
    /\ Filed(h.free, h.mem, Starts(h))

Taken(h) == {a \in Starts(h) : IsAllocated(h.mem[a])} \ {h.end - 8}
Unused(h) == {a \in Starts(h) : ~IsAllocated(h.mem[a])}
Unfiled(h) == {a \in Unused(h) \ Listed(h.free) : h.mem[a].size # MinBlock}

Loose(h, b) == b \in Unused(h) \ Listed(h.free)

SameTaken(h, g) == Taken(g) = Taken(h) /\ \A a \in Taken(h) : g.mem[a] = h.mem[a]

\* The part of the heap from lo to hi is built anew, with the blocks N.
RebuiltHeap(h, g, lo, hi, N) ==
    /\ g \in Heaps /\ g.end = h.end
    /\ Rebuilt(h.mem, Starts(h), g.mem, lo, hi, N)
    /\ Filed(g.free, h.mem, Starts(h))
    /\ \A a \in Listed(g.free) : a < lo \/ a >= hi

LEMMA RebuiltIsSane ==
    ASSUME NEW h, NEW g, NEW lo, NEW hi, NEW N, Sane(h), RebuiltHeap(h, g, lo, hi, N)
    PROVE  /\ Sane(g)
           /\ Starts(g) = Outside(Starts(h), lo, hi) \cup N
           /\ \A a \in Outside(Starts(h), lo, hi) : g.mem[a] = h.mem[a]
           /\ \A a \in N : a >= lo /\ a < hi
           /\ h.end - 8 \in Outside(Starts(h), lo, hi)
<1> DEFINE S == Starts(h)
           T == Outside(S, lo, hi) \cup N
<1>1. /\ h \in Heaps /\ Tiled(h.mem, h.end, S) /\ g \in Heaps /\ g.end = h.end
      /\ Rebuilt(h.mem, S, g.mem, lo, hi, N) /\ Filed(g.free, h.mem, S)
      /\ \A a \in Listed(g.free) : a < lo \/ a >= hi
  BY DEF Sane, RebuiltHeap
<1> HIDE DEF S
<1>2. Tiled(g.mem, g.end, T)
  BY <1>1, RebuiltIsTiled
<1>3. Starts(g) = T
  BY <1>1, <1>2, TiledStarts
<1>4. ASSUME NEW a \in Outside(S, lo, hi) PROVE a \in T /\ g.mem[a] = h.mem[a]
  <2>1. a \in S /\ a \in Int /\ a \in DOMAIN h.mem /\ (a < lo \/ a >= hi)
    BY <1>1, TiledFacts DEF Outside
  <2> QED BY <1>1, <2>1 DEF Rebuilt
<1>5. \A a \in Listed(g.free) : a \in S
  BY <1>1 DEF Filed, Listed
<1>6. \A a \in Listed(g.free) : a \in T /\ g.mem[a] = h.mem[a]
  BY <1>1, <1>4, <1>5 DEF Outside
<1>7. Filed(g.free, g.mem, T)
  BY <1>1, <1>6, FiledElsewhere
<1>8. \A a \in N : a >= lo /\ a < hi
  BY <1>1 DEF Rebuilt
<1>9. h.end - 8 \in Outside(S, lo, hi)
  <2>1. /\ h.end - 8 \in S /\ hi \in S /\ h.end \in Nat /\ hi \in Int /\ hi <= h.end - 8
    BY <1>1, TiledFacts DEF Tiled, Rebuilt
  <2> QED BY <2>1 DEF Outside
<1> HIDE DEF T
<1>10. Sane(g)
  BY <1>1, <1>2, <1>3, <1>7 DEF Sane
<1> QED BY <1>3, <1>4, <1>8, <1>9, <1>10 DEF S, T

\* One free block takes the place of all that began between lo and hi: none behind
\* the first of them is still marked allocated.
LEMMA OneFreeBlock ==
    ASSUME NEW mem, NEW end, NEW S, Tiled(mem, end, S),
           NEW lo \in S, NEW hi \in S, lo < hi,
           NEW new \in Memories, NEW tag \in Words, ~IsAllocated(tag), tag.size = hi - lo,
           Overwritten(new, mem, {lo, hi - 8}, tag),
           \A a \in S : a > lo /\ a < hi => ~IsAllocated(mem[a])
    PROVE  Rebuilt(mem, S, new, lo, hi, {lo})
<1>1. /\ end \in Nat /\ S \subseteq Int /\ S \subseteq DOMAIN mem
      /\ \A b \in S : b % 16 = 8 /\ b >= FirstBlock /\ b <= end - 8
      /\ \A b \in S : mem[b] \in Words /\ mem[b].size \in Nat
      /\ \A b \in S \ {end - 8} : IsBlock(mem, S, b)
      /\ \A a \in DOMAIN mem : a % 16 = 0 => ~IsAllocated(mem[a])
  BY TiledFacts DEF Tiled
<1>2. lo \in Int /\ hi \in Int /\ lo % 16 = 8 /\ hi % 16 = 8 /\ lo # end - 8
  BY <1>1
<1>3. hi - lo >= 32 /\ (hi - lo) % 16 = 0
  <2>1. mem[lo].size >= 32 /\ (hi <= lo \/ hi >= lo + mem[lo].size) /\ mem[lo].size \in Nat
    BY <1>1, <1>2 DEF IsBlock
  <2> QED BY <1>2, <2>1
<1>4. /\ DOMAIN new = DOMAIN mem \cup {lo, hi - 8}
      /\ new[lo] = tag /\ new[hi - 8] = tag
      /\ \A a \in DOMAIN mem \ {lo, hi - 8} : new[a] = mem[a]
  BY DEF Overwritten
<1>5. \A a \in Int : a < lo \/ a >= hi =>
          (a \in DOMAIN new <=> a \in DOMAIN mem) /\ (a \in DOMAIN mem => new[a] = mem[a])
  BY <1>2, <1>4
<1>6. \A a \in DOMAIN new : a >= lo /\ a < hi /\ a % 16 = 0 => ~IsAllocated(new[a])
  BY <1>1, <1>4
<1>7. IsBlock(new, {lo} \cup {hi}, lo)
  <2>1. Footer(lo, tag.size) = hi - 8 /\ lo + tag.size = hi
    BY <1>2 DEF Footer
  <2> QED BY <1>2, <1>3, <1>4, <2>1 DEF IsBlock
<1>8. lo < hi /\ lo \in {lo} /\ \A b \in {lo} : b \in Int /\ b >= lo /\ b < hi
  BY <1>2
<1>9. \A b \in {lo} : IsBlock(new, {lo} \cup {hi}, b)
  BY <1>7
<1>10. ASSUME NEW a \in DOMAIN new \ {lo}, a >= lo, a < hi, a % 16 = 8 PROVE Spent(new[a])
  <2>1. a # hi - 8
    BY <1>2, <1>10
  <2>2. a \in DOMAIN mem /\ new[a] = mem[a]
    BY <1>4, <2>1
  <2>3. a \in Int /\ a > lo /\ a >= FirstBlock
    <3>1. a \in Int
      BY <2>2, MemoryFacts DEF Tiled
    <3>2. lo >= FirstBlock /\ FirstBlock \in Int
      BY <1>1 DEF FirstBlock
    <3> QED BY <1>2, <1>10, <3>1, <3>2
  <2>4. CASE a \in S
    <3>1. a # end - 8 /\ hi <= end - 8
      BY <1>1, <1>2, <1>10, <2>3
    <3>2. mem[a].size >= 32 /\ mem[a].size \in Nat
      BY <1>1, <2>4, <3>1 DEF IsBlock
    <3> QED BY <1>10, <2>2, <2>3, <2>4, <3>2 DEF Spent
  <2>5. CASE a \notin S
    BY <1>10, <2>2, <2>3, <2>5 DEF Tiled
  <2> QED BY <2>4, <2>5
<1> QED BY <1>5, <1>6, <1>8, <1>9, <1>10 DEF Rebuilt

\* A block that is allocated stays as large as it is.
LEMMA OneTakenBlock ==
    ASSUME NEW mem, NEW end, NEW S, Tiled(mem, end, S),
           NEW b \in S, b # end - 8,
           NEW new \in Memories, NEW tag \in Words, IsAllocated(tag), tag.size = mem[b].size,
           Overwritten(new, mem, {b}, tag)
    PROVE  Rebuilt(mem, S, new, b, b + mem[b].size, {b})
<1> DEFINE hi == b + mem[b].size
<1>1. /\ S \subseteq Int /\ S \subseteq DOMAIN mem
      /\ b \in Int /\ b % 16 = 8 /\ mem[b].size \in Nat /\ IsBlock(mem, S, b)
      /\ \A a \in DOMAIN mem : a % 16 = 0 => ~IsAllocated(mem[a])
  BY TiledFacts DEF Tiled
<1>2. mem[b].size >= 32 /\ mem[b].size % 16 = 0 /\ hi \in S
  BY <1>1 DEF IsBlock
<1>3. hi \in Int /\ b < hi
  BY <1>1, <1>2
<1>4. /\ DOMAIN new = DOMAIN mem \cup {b} /\ new[b] = tag
      /\ \A a \in DOMAIN mem \ {b} : new[a] = mem[a]
  BY DEF Overwritten
<1>5. \A a \in Int : a < b \/ a >= hi =>
          (a \in DOMAIN new <=> a \in DOMAIN mem) /\ (a \in DOMAIN mem => new[a] = mem[a])
  BY <1>1, <1>3, <1>4
<1>6. \A a \in DOMAIN new : a >= b /\ a < hi /\ a % 16 = 0 => ~IsAllocated(new[a])
  <2> SUFFICES ASSUME NEW a \in DOMAIN new, a % 16 = 0 PROVE ~IsAllocated(new[a])
    OBVIOUS
  <2>1. a # b
    BY <1>1
  <2> QED BY <1>1, <1>4, <2>1
<1>7. IsBlock(new, {b} \cup {hi}, b)
  BY <1>1, <1>2, <1>3, <1>4 DEF IsBlock
<1>8. \A x \in {b} : x \in Int /\ x >= b /\ x < hi
  BY <1>1, <1>3
<1>9. ASSUME NEW a \in DOMAIN new \ {b}, a >= b, a < hi, a % 16 = 8 PROVE Spent(new[a])
  <2>1. a \in DOMAIN mem /\ new[a] = mem[a]
    BY <1>4
  <2>2. a \in Int /\ b >= FirstBlock
    BY <2>1, MemoryFacts, TiledFacts DEF Tiled
  <2>3. a \notin S /\ a >= FirstBlock
    <3>1. \A c \in S : c <= b \/ c >= hi
      BY <1>1 DEF IsBlock
    <3> HIDE DEF hi
    <3> QED BY <1>1, <1>3, <1>9, <2>2, <3>1 DEF FirstBlock
  <2> QED BY <1>9, <2>1, <2>3 DEF Tiled
<1> HIDE DEF hi
<1>10. Rebuilt(mem, S, new, b, hi, {b})
  BY <1>1, <1>2, <1>3, <1>5, <1>6, <1>7, <1>8, <1>9 DEF Rebuilt
<1> QED BY <1>10 DEF hi

\* The block b is made part of the block c.
Merged(h, b, g, c) ==
    /\ Sane(g) /\ g.end = h.end /\ g.quick = h.quick
    /\ Loose(g, c)
    /\ SameTaken(h, g)
    /\ Unfiled(g) \ {c} \subseteq Unfiled(h) \ {b}

LEMMA LooseFacts ==
    ASSUME NEW h, NEW b, Sane(h), Loose(h, b)
    PROVE  /\ h \in Heaps /\ h.mem \in Memories
           /\ Tiled(h.mem, h.end, Starts(h)) /\ Filed(h.free, h.mem, Starts(h))
           /\ b \in Starts(h) /\ b \in Int /\ b # h.end - 8 /\ IsBlock(h.mem, Starts(h), b)
           /\ h.mem[b].size \in Nat /\ h.mem[b].size >= 32 /\ h.mem[b].size % 16 = 0
           /\ ~IsAllocated(h.mem[b]) /\ b \notin Listed(h.free)
<1>1. /\ h \in Heaps /\ Tiled(h.mem, h.end, Starts(h)) /\ Filed(h.free, h.mem, Starts(h))
      /\ b \in Starts(h) /\ ~IsAllocated(h.mem[b]) /\ b \notin Listed(h.free)
  BY DEF Sane, Loose, Unused
<1>2. b # h.end - 8 /\ b \in Int /\ h.mem[b].size \in Nat
  BY <1>1, TiledFacts
<1>3. IsBlock(h.mem, Starts(h), b)
  BY <1>1, <1>2, TiledFacts
<1>4. h.mem[b].size >= 32 /\ h.mem[b].size % 16 = 0
  BY <1>3 DEF IsBlock
<1>5. h.mem \in Memories
  BY <1>1 DEF Heaps
<1> QED BY <1>1, <1>2, <1>3, <1>4, <1>5

\* Two free blocks, c next to d, become one, at c.
Joined(h, g, c, d, tag) ==
    /\ g \in Heaps /\ g.end = h.end /\ g.quick = h.quick
    /\ c \in Starts(h) /\ d \in Starts(h) /\ c # h.end - 8 /\ d # h.end - 8
    /\ d = c + h.mem[c].size /\ ~IsAllocated(h.mem[c]) /\ ~IsAllocated(h.mem[d])
    /\ tag \in Words /\ ~IsAllocated(tag) /\ tag.size = h.mem[c].size + h.mem[d].size
    /\ Overwritten(g.mem, h.mem, {c, Footer(c, tag.size)}, tag)
    /\ Filed(g.free, h.mem, Starts(h))
    /\ Listed(g.free) \subseteq Listed(h.free) /\ c \notin Listed(g.free) /\ d \notin Listed(g.free)
    /\ \A a \in Listed(h.free) : a = c \/ a = d \/ a \in Listed(g.free)

LEMMA TwoBecomeOne ==
    ASSUME NEW h, NEW g, NEW c, NEW d, NEW tag, Sane(h), Joined(h, g, c, d, tag)
    PROVE  /\ Sane(g) /\ Loose(g, c) /\ SameTaken(h, g)
           /\ Unfiled(g) \ {c} \subseteq Unfiled(h) \ {c, d}
<1> USE DEF Joined
<1> DEFINE S == Starts(h)
           hi == d + h.mem[d].size
<1>1. /\ h \in Heaps /\ Tiled(h.mem, h.end, S) /\ S \subseteq Int
      /\ h.mem[c].size \in Nat /\ h.mem[d].size \in Nat
      /\ IsBlock(h.mem, S, c) /\ IsBlock(h.mem, S, d) /\ c \in Int /\ d \in Int
  <2>1. h \in Heaps /\ Tiled(h.mem, h.end, S)
    BY DEF Sane
  <2> QED BY <2>1, TiledFacts
<1> HIDE DEF S
<1>2. /\ hi \in S /\ hi \in Int /\ c < d /\ d < hi
      /\ \A a \in S : a <= c \/ a >= d
      /\ \A a \in S : a <= d \/ a >= hi
  <2>1. /\ h.mem[c].size >= 32 /\ h.mem[d].size >= 32 /\ hi \in S
        /\ \A a \in S : a <= c \/ a >= c + h.mem[c].size
        /\ \A a \in S : a <= d \/ a >= hi
    BY <1>1 DEF IsBlock
  <2> QED BY <1>1, <2>1
<1>3. tag.size = hi - c /\ Footer(c, tag.size) = hi - 8
  BY <1>1 DEF Footer
<1>4. \A a \in S : a < c \/ a >= hi \/ a = c \/ a = d
  BY <1>1, <1>2
<1> HIDE DEF hi
<1>5. Rebuilt(h.mem, S, g.mem, c, hi, {c})
  <2>1. g.mem \in Memories
    BY DEF Heaps
  <2>2. c \in S /\ hi \in S /\ c < hi
    BY <1>1, <1>2 DEF S
  <2>3. \A a \in S : a > c /\ a < hi => ~IsAllocated(h.mem[a])
    <3> SUFFICES ASSUME NEW a \in S, a > c, a < hi PROVE a = d
      OBVIOUS
    <3> QED BY <1>1, <1>2, <1>4
  <2> QED BY <1>1, <1>3, <2>1, <2>2, <2>3, OneFreeBlock
<1>6. \A a \in Listed(g.free) : a \in S /\ a # c /\ a # d
  BY DEF Filed, Listed, S
<1>7. RebuiltHeap(h, g, c, hi, {c})
  <2>1. \A a \in Listed(g.free) : a < c \/ a >= hi
    BY <1>4, <1>6
  <2> QED BY <1>5, <2>1 DEF RebuiltHeap, S
<1>8. /\ Sane(g)
      /\ Starts(g) = Outside(S, c, hi) \cup {c}
      /\ \A a \in Outside(S, c, hi) : g.mem[a] = h.mem[a]
  BY <1>7, RebuiltIsSane DEF S
<1>9. Starts(g) = S \ {d}
  <2>1. c \in S /\ c # d /\ ~(d < c) /\ ~(d >= hi) /\ c \in Int
    BY <1>1, <1>2 DEF S
  <2> QED BY <1>4, <1>8, <2>1 DEF Outside
<1>10. \A a \in S \ {c, d} : g.mem[a] = h.mem[a]
  BY <1>4, <1>8 DEF Outside
<1>11. g.mem[c] = tag
  BY DEF Overwritten
<1>12. Loose(g, c)
  <2>1. c \in Starts(g)
    BY <1>8
  <2> QED BY <1>11, <2>1 DEF Loose, Unused
<1>13. SameTaken(h, g)
  BY <1>9, <1>10, <1>11 DEF SameTaken, Taken, S
<1>14. Unfiled(g) \ {c} \subseteq Unfiled(h) \ {c, d}
  <2> SUFFICES ASSUME NEW a \in Unfiled(g), a # c PROVE a \in Unfiled(h) /\ a # d
    OBVIOUS
  <2>1. /\ a \in Starts(g) /\ ~IsAllocated(g.mem[a]) /\ a \notin Listed(g.free)
        /\ g.mem[a].size # MinBlock
    BY DEF Unfiled, Unused
  <2>2. a \in S /\ a # d /\ g.mem[a] = h.mem[a]
    BY <1>9, <1>10, <2>1
  <2>3. a \notin Listed(h.free)
    BY <2>1, <2>2
  <2> QED BY <2>1, <2>2, <2>3 DEF Unfiled, Unused, S
<1> QED BY <1>8, <1>12, <1>13, <1>14

LEMMA PreviousIsMerged ==
    ASSUME NEW h, NEW b, Sane(h), Loose(h, b),
           LooksFree(At(h, b - 8)), ~FalseFooter(h, b)
    PROVE  Merged(h, b, WithPrevious(h, h.mem[b].size, b), Previous(h, b))
<1> DEFINE g == WithPrevious(h, h.mem[b].size, b)
           c == Previous(h, b)
           tag == At(h, b - 8)
           new == Header(tag.size + h.mem[b].size, tag.flags)
<1>1. /\ h \in Heaps /\ Tiled(h.mem, h.end, Starts(h)) /\ Filed(h.free, h.mem, Starts(h))
      /\ b \in Starts(h) /\ b \in Int /\ b # h.end - 8
      /\ h.mem[b].size \in Nat /\ h.mem[b].size >= 32 /\ h.mem[b].size % 16 = 0
      /\ ~IsAllocated(h.mem[b]) /\ b \notin Listed(h.free)
  BY LooseFacts
<1>2. tag.size \in Nat /\ tag.flags = {} /\ ~IsAllocated(tag)
  BY <1>1, AtFacts DEF LooksFree, IsAllocated
<1>3. /\ g \in Heaps /\ g.end = h.end /\ g.quick = h.quick
      /\ Overwritten(g.mem, h.mem, {c, Footer(b, h.mem[b].size)}, new)
      /\ \A mem, S : Filed(h.free, mem, S) /\ mem[c].size = tag.size =>
            /\ Filed(g.free, mem, S)
            /\ Listed(g.free) = Listed(h.free) \ {c}
  BY <1>1, WithPreviousFields
<1>4. c \in Starts(h) /\ At(h, c) = tag /\ c = b - tag.size
  BY DEF FalseFooter, Previous
<1> HIDE DEF c, g, tag
<1>5. h.mem[c] = tag
  <2>1. c \in DOMAIN h.mem
    BY <1>1, <1>4, TiledFacts
  <2> QED BY <1>1, <1>4, <2>1, AtFacts
<1>6. b = c + h.mem[c].size /\ c # h.end - 8 /\ c # b
  <2>1. c \in Int /\ h.mem[h.end - 8].size = 0 /\ b \in Starts(h) \ {h.end - 8}
    BY <1>1, <1>4, TiledFacts
  <2>2. b = c + h.mem[c].size
    BY <1>1, <1>2, <1>4, <1>5, <2>1
  <2>3. tag.size # 0
    <3> SUFFICES ASSUME tag.size = 0 PROVE FALSE
      OBVIOUS
    <3>1. c = b
      BY <1>1, <1>4
    <3> QED BY <1>1, <1>5, <3>1
  <2> QED BY <1>1, <1>5, <2>1, <2>2, <2>3
<1>7. tag.size % 16 = 0
  BY <1>1, <1>4, <1>5, <1>6, TiledFacts DEF IsBlock
<1>8. new \in Words /\ ~IsAllocated(new) /\ new.size = h.mem[c].size + h.mem[b].size
  <2> DEFINE n == tag.size + h.mem[b].size
  <2>1. n \in Nat /\ n % 16 = 0
    BY <1>1, <1>2, <1>7
  <2>2. new = Header(n, {})
    BY <1>2
  <2> HIDE DEF n
  <2>3. Header(n, {}) \in Words /\ ~IsAllocated(Header(n, {})) /\ Header(n, {}).size = n
    BY <2>1, FreeHeaderFacts
  <2> QED BY <1>5, <2>2, <2>3 DEF n
<1> HIDE DEF new
<1>9. Footer(c, new.size) = Footer(b, h.mem[b].size)
  BY <1>1, <1>2, <1>4, <1>5, <1>8 DEF Footer
<1>10. Filed(g.free, h.mem, Starts(h)) /\ Listed(g.free) = Listed(h.free) \ {c}
  BY <1>1, <1>3, <1>5
<1>11. /\ Sane(g) /\ Loose(g, c) /\ SameTaken(h, g)
       /\ Unfiled(g) \ {c} \subseteq Unfiled(h) \ {c, b}
  <2>1. ~IsAllocated(h.mem[c])
    BY <1>2, <1>5
  <2>2. /\ Listed(g.free) \subseteq Listed(h.free) /\ c \notin Listed(g.free) /\ b \notin Listed(g.free)
        /\ \A a \in Listed(h.free) : a = c \/ a = b \/ a \in Listed(g.free)
    BY <1>1, <1>10
  <2>3. Overwritten(g.mem, h.mem, {c, Footer(c, new.size)}, new)
    BY <1>3, <1>9
  <2>4. Joined(h, g, c, b, new)
    BY <1>1, <1>3, <1>4, <1>6, <1>8, <1>10, <2>1, <2>2, <2>3 DEF Joined
  <2> QED BY <2>4, TwoBecomeOne
<1>12. Merged(h, b, g, c)
  BY <1>3, <1>11 DEF Merged
<1> QED BY <1>12 DEF g, c

LEMMA NextIsMerged ==
    ASSUME NEW h, NEW b, Sane(h), Loose(h, b), LooksFree(At(h, b + h.mem[b].size))
    PROVE  Merged(h, b, WithNext(h, h.mem[b].size, b), b)
<1> DEFINE g == WithNext(h, h.mem[b].size, b)
           d == b + h.mem[b].size
           new == Header(h.mem[b].size + At(h, d).size, {})
<1>1. /\ h \in Heaps /\ Tiled(h.mem, h.end, Starts(h)) /\ Filed(h.free, h.mem, Starts(h))
      /\ b \in Starts(h) /\ b \in Int /\ b # h.end - 8 /\ IsBlock(h.mem, Starts(h), b)
      /\ h.mem[b].size \in Nat /\ h.mem[b].size >= 32 /\ h.mem[b].size % 16 = 0
      /\ ~IsAllocated(h.mem[b]) /\ b \notin Listed(h.free)
  BY LooseFacts
<1>2. h \in Heaps /\ b \in Int /\ h.mem[b].size \in Nat /\ LooksFree(At(h, b + h.mem[b].size))
  BY <1>1
<1>3. d \in Starts(h)
  BY <1>1 DEF IsBlock
<1>4. At(h, d) = h.mem[d] /\ ~IsAllocated(h.mem[d])
  BY <1>1, AtFacts
<1>5. d # h.end - 8 /\ h.mem[d].size \in Nat /\ h.mem[d].size % 16 = 0
  <2>1. d # h.end - 8
    BY <1>1, <1>4, TiledFacts
  <2> QED BY <1>1, <1>3, <2>1, TiledFacts DEF IsBlock
<1>6. /\ g \in Heaps /\ g.end = h.end /\ g.quick = h.quick
      /\ Overwritten(g.mem, h.mem, {b, Footer(b, new.size)}, new)
      /\ \A mem, S : Filed(h.free, mem, S) /\ mem[d].size = At(h, d).size =>
            /\ Filed(g.free, mem, S)
            /\ Listed(g.free) = Listed(h.free) \ {d}
  <2> DEFINE size == h.mem[b].size
             w == WithNext(h, size, b)
             n == Header(size + At(h, b + size).size, {})
  <2>1. size \in Nat /\ LooksFree(At(h, b + size))
    BY <1>2
  <2> HIDE DEF size
  <2>2. /\ w \in Heaps /\ w.end = h.end /\ w.quick = h.quick
        /\ Overwritten(w.mem, h.mem, {b, Footer(b, n.size)}, n)
        /\ \A mem, S : Filed(h.free, mem, S) /\ mem[b + size].size = At(h, b + size).size =>
              /\ Filed(w.free, mem, S)
              /\ Listed(w.free) = Listed(h.free) \ {b + size}
    BY <1>2, <2>1, WithNextFields
  <2>3. g = w /\ new = n /\ d = b + size
    BY DEF size
  <2> HIDE DEF w, n, g, new, d
  <2> QED BY <2>2, <2>3
<1> HIDE DEF g
<1>7. Filed(g.free, h.mem, Starts(h)) /\ Listed(g.free) = Listed(h.free) \ {d}
  BY <1>1, <1>4, <1>6
<1>8. new \in Words /\ ~IsAllocated(new) /\ new.size = h.mem[b].size + h.mem[d].size
  <2> DEFINE n == h.mem[b].size + h.mem[d].size
  <2>1. n \in Nat /\ n % 16 = 0
    BY <1>1, <1>5
  <2>2. new = Header(n, {})
    BY <1>4
  <2> HIDE DEF n
  <2>3. Header(n, {}) \in Words /\ ~IsAllocated(Header(n, {})) /\ Header(n, {}).size = n
    BY <2>1, FreeHeaderFacts
  <2> QED BY <2>2, <2>3 DEF n
<1> HIDE DEF new
<1>9. b # d
  BY <1>1
<1> HIDE DEF d
<1>10. /\ Sane(g) /\ Loose(g, b) /\ SameTaken(h, g)
      /\ Unfiled(g) \ {b} \subseteq Unfiled(h) \ {b, d}
  <2>1. /\ Listed(g.free) \subseteq Listed(h.free) /\ b \notin Listed(g.free) /\ d \notin Listed(g.free)
        /\ \A a \in Listed(h.free) : a = b \/ a = d \/ a \in Listed(g.free)
    BY <1>1, <1>7
  <2>2. d = b + h.mem[b].size
    BY DEF d
  <2>3. Joined(h, g, b, d, new)
    BY <1>1, <1>3, <1>4, <1>5, <1>6, <1>7, <1>8, <2>1, <2>2 DEF Joined
  <2> QED BY <2>3, TwoBecomeOne
<1>11. Merged(h, b, g, b)
  BY <1>6, <1>10 DEF Merged
<1> QED BY <1>11 DEF g

\* coalesce, while it does nothing wrong.
LEMMA CoalesceIsSane ==
    ASSUME NEW h, NEW b, Sane(h), Loose(h, b)
    PROVE  LET r == coalesce(h, h.mem[b].size, b)
           IN  /\ r \in Results /\ h.events \subseteq r.heap.events
               /\ ~Harmed(r.heap) =>
                     \/ r.block = NULL /\ r.heap = h
                     \/ r.block # NULL /\ Merged(h, b, r.heap, r.block)
<1> DEFINE size == h.mem[b].size
           r == coalesce(h, size, b)
<1>1. h \in Heaps /\ b \in Int /\ size \in Nat /\ size >= 32
  BY LooseFacts
<1>2. size \in Nat \ {0}
  BY <1>1
<1>3. /\ r \in Results /\ h.events \subseteq r.heap.events
      /\ ~Harmed(r.heap) =>
            \/ MergedNone(h, size, b, r)
            \/ MergedPrevious(h, size, b, r)
            \/ MergedNext(h, size, b, r)
  BY <1>1, <1>2, CoalesceFields
<1> HIDE DEF r
<1>4. ASSUME NEW g, NEW c, Merged(h, b, g, c) PROVE c # NULL
  <2>1. Tiled(g.mem, g.end, Starts(g)) /\ c \in Starts(g)
    BY <1>4 DEF Merged, Sane, Loose, Unused
  <2>2. c >= FirstBlock
    BY <2>1, TiledFacts
  <2> QED BY <2>2 DEF FirstBlock, NULL
<1>5. CASE MergedNone(h, size, b, r)
  BY <1>3, <1>5 DEF MergedNone, Result, r
<1>6. CASE MergedPrevious(h, size, b, r)
  <2>1. r.heap = WithPrevious(h, size, b) /\ r.block = Previous(h, b)
    BY <1>6 DEF MergedPrevious, Result
  <2>2. Merged(h, b, r.heap, r.block)
    BY <1>6, <2>1, PreviousIsMerged DEF MergedPrevious
  <2> QED BY <1>3, <1>4, <2>2 DEF r
<1>7. CASE MergedNext(h, size, b, r)
  <2>1. r.heap = WithNext(h, size, b) /\ r.block = b
    BY <1>7 DEF MergedNext, Result
  <2>2. Merged(h, b, r.heap, r.block)
    BY <1>7, <2>1, NextIsMerged DEF MergedNext
  <2> QED BY <1>3, <1>4, <2>2 DEF r
<1> QED BY <1>3, <1>5, <1>6, <1>7 DEF r

\* The loose block b has found its place.
Settled(h, b, g) ==
    /\ Sane(g) /\ g.end = h.end /\ g.quick = h.quick
    /\ SameTaken(h, g)
    /\ Unfiled(g) \subseteq Unfiled(h) \ {b}

\* Only the memory says where blocks begin.
LEMMA SameMemory ==
    ASSUME NEW h, NEW g \in Heaps, Sane(h), g.mem = h.mem, g.end = h.end
    PROVE  Starts(g) = Starts(h) /\ Tiled(g.mem, g.end, Starts(g))
<1>1. Tiled(g.mem, g.end, Starts(h))
  BY DEF Sane
<1> QED BY <1>1, TiledStarts

LEMMA PlacingSettles ==
    ASSUME NEW h, NEW size, NEW b, Sane(h), Loose(h, b)
    PROVE  LET g == placeFreeBlock(h, size, b)
           IN  /\ g \in Heaps /\ h.events \subseteq g.events
               /\ ~Harmed(g) => Settled(h, b, g) /\ g.mem = h.mem
<1> DEFINE g == placeFreeBlock(h, size, b)
<1>1. /\ h \in Heaps /\ Filed(h.free, h.mem, Starts(h)) /\ Tiled(h.mem, h.end, Starts(h))
      /\ b \in Starts(h) /\ b \in Int /\ h.mem[b].size \in Nat
      /\ h.mem[b].size >= 32 /\ h.mem[b].size % 16 = 0
      /\ ~IsAllocated(h.mem[b]) /\ b \notin Listed(h.free)
  BY LooseFacts
<1>2. g \in Heaps /\ g.mem = h.mem /\ g.end = h.end /\ g.quick = h.quick
  BY <1>1, PlacedFields
<1>3. g.events = IF Misfiled(h, size, b) THEN h.events \cup {"misfiled"} ELSE h.events
  BY <1>1, PlacedEvents
<1> SUFFICES ASSUME ~Harmed(g) PROVE Settled(h, b, g)
  BY <1>2, <1>3
<1>4. FreeListOf(size) = FreeListOf(h.mem[b].size)
  <2>1. ~Misfiled(h, size, b)
    BY <1>3 DEF Harmed, Wrong
  <2>2. At(h, b) = h.mem[b]
    BY <1>1, TiledFacts, AtFacts
  <2> QED BY <2>1, <2>2 DEF Misfiled
<1>5. Placeable(h, Starts(h), size, b)
  BY <1>1, <1>4 DEF Placeable
<1>6. /\ Filed(g.free, h.mem, Starts(h))
      /\ Listed(h.free) \subseteq Listed(g.free)
      /\ FreeListOf(size) # {} => b \in Listed(g.free)
  BY <1>1, <1>5, PlacedIsFiled
<1>7. h.mem[b].size # MinBlock => FreeListOf(size) # {}
  BY <1>1, <1>4, OthersHaveAList
<1> HIDE DEF g
<1>8. Starts(g) = Starts(h) /\ Tiled(g.mem, g.end, Starts(g))
  BY <1>2, SameMemory
<1>9. Sane(g)
  BY <1>2, <1>6, <1>8 DEF Sane
<1>10. SameTaken(h, g)
  BY <1>2, <1>8 DEF SameTaken, Taken
<1>11. Unfiled(g) \subseteq Unfiled(h) \ {b}
  BY <1>2, <1>6, <1>7, <1>8 DEF Unfiled, Unused
<1> QED BY <1>2, <1>9, <1>10, <1>11 DEF Settled

\* A block that became free is merged and placed.
LEMMA ReleaseSettles ==
    ASSUME NEW h, NEW b, Sane(h), Loose(h, b)
    PROVE  LET g == Release(h, h.mem[b].size, b)
           IN  /\ g \in Heaps /\ h.events \subseteq g.events
               /\ ~Harmed(g) => Settled(h, b, g)
<1> DEFINE size == h.mem[b].size
           r == coalesce(h, size, b)
           c == IF r.block # NULL THEN r.block ELSE b
           g == placeFreeBlock(r.heap, size, c)
<1>1. Release(h, size, b) = g
  BY DEF Release, placeMerged
<1>2. /\ r \in Results /\ h.events \subseteq r.heap.events
      /\ ~Harmed(r.heap) =>
            \/ r.block = NULL /\ r.heap = h
            \/ r.block # NULL /\ Merged(h, b, r.heap, r.block)
  BY CoalesceIsSane
<1> HIDE DEF r
<1>3. r.heap \in Heaps /\ c \in Int
  <2>1. b \in Int
    BY LooseFacts
  <2> QED BY <1>2, <2>1 DEF Results
<1> HIDE DEF size, c
<1>4. g \in Heaps /\ r.heap.events \subseteq g.events
  <2>1. g \in Heaps
    BY <1>3, PlacedFields
  <2>2. g.events = IF Misfiled(r.heap, size, c) THEN r.heap.events \cup {"misfiled"} ELSE r.heap.events
    BY <1>3, PlacedEvents
  <2> QED BY <2>1, <2>2
<1>5. ASSUME ~Harmed(g) PROVE Settled(h, b, g)
  <2>1. ~Harmed(r.heap)
    BY <1>4, <1>5 DEF Harmed
  <2>2. CASE r.block = NULL /\ r.heap = h
    <3>1. c = b
      BY <2>2 DEF c
    <3> QED BY <1>5, <2>2, <3>1, PlacingSettles
  <2>3. CASE r.block # NULL /\ Merged(h, b, r.heap, r.block)
    <3>1. c = r.block
      BY <2>3 DEF c
    <3>2. /\ Sane(r.heap) /\ r.heap.end = h.end /\ r.heap.quick = h.quick
          /\ Loose(r.heap, c) /\ SameTaken(h, r.heap)
          /\ Unfiled(r.heap) \ {c} \subseteq Unfiled(h) \ {b}
      BY <2>3, <3>1 DEF Merged
    <3>3. Settled(r.heap, c, g)
      BY <1>5, <3>2, PlacingSettles
    <3> HIDE DEF g
    <3> QED BY <3>2, <3>3 DEF Settled, SameTaken
  <2> QED BY <1>2, <2>1, <2>2, <2>3
<1> QED BY <1>1, <1>2, <1>4, <1>5 DEF size

-----------------------------------------------------------------------------
(* Taking blocks and giving them back. *)

LEMMA TakenFacts ==
    ASSUME NEW h, NEW b \in Taken(h), Sane(h)
    PROVE  /\ h \in Heaps /\ h.mem \in Memories
           /\ Tiled(h.mem, h.end, Starts(h)) /\ Filed(h.free, h.mem, Starts(h))
           /\ b \in Starts(h) /\ b \in Int /\ b # h.end - 8 /\ IsBlock(h.mem, Starts(h), b)
           /\ h.mem[b].size \in Nat /\ h.mem[b].size >= 32 /\ h.mem[b].size % 16 = 0
           /\ IsAllocated(h.mem[b]) /\ b \notin Listed(h.free)
<1>1. /\ h \in Heaps /\ Tiled(h.mem, h.end, Starts(h)) /\ Filed(h.free, h.mem, Starts(h))
      /\ b \in Starts(h) /\ IsAllocated(h.mem[b]) /\ b # h.end - 8
  BY DEF Sane, Taken
<1>2. b \in Int /\ h.mem[b].size \in Nat
  BY <1>1, TiledFacts
<1>3. IsBlock(h.mem, Starts(h), b)
  BY <1>1, <1>2, TiledFacts
<1>4. h.mem[b].size >= 32 /\ h.mem[b].size % 16 = 0
  BY <1>3 DEF IsBlock
<1>5. h.mem \in Memories
  BY <1>1 DEF Heaps
<1>6. b \notin Listed(h.free)
  BY <1>1 DEF Filed, Listed
<1> QED BY <1>1, <1>2, <1>3, <1>4, <1>5, <1>6

\* The header of an allocated block is written; it was one before, or a free block
\* that is in no list.
Retagged(h, g, b, tag) ==
    /\ g \in Heaps /\ g.end = h.end /\ g.free = h.free
    /\ b \in Starts(h) /\ b # h.end - 8 /\ b \notin Listed(h.free)
    /\ tag \in Words /\ IsAllocated(tag) /\ tag.size = h.mem[b].size
    /\ Overwritten(g.mem, h.mem, {b}, tag)

LEMMA RetaggedIsSane ==
    ASSUME NEW h, NEW g, NEW b, NEW tag, Sane(h), Retagged(h, g, b, tag)
    PROVE  /\ Sane(g) /\ Starts(g) = Starts(h)
           /\ Taken(g) = Taken(h) \cup {b}
           /\ g.mem[b] = tag /\ \A a \in Starts(h) \ {b} : g.mem[a] = h.mem[a]
           /\ Unfiled(g) \subseteq Unfiled(h) \ {b}
<1> DEFINE S == Starts(h)
           hi == b + h.mem[b].size
<1>1. /\ h \in Heaps /\ Tiled(h.mem, h.end, S) /\ Filed(h.free, h.mem, S)
      /\ g \in Heaps /\ g.end = h.end /\ g.free = h.free
      /\ b \in S /\ b # h.end - 8 /\ b \notin Listed(h.free)
      /\ tag \in Words /\ IsAllocated(tag) /\ tag.size = h.mem[b].size
      /\ Overwritten(g.mem, h.mem, {b}, tag)
  BY DEF Sane, Retagged
<1> HIDE DEF S
<1>2. g.mem \in Memories
  BY <1>1 DEF Heaps
<1>3. Rebuilt(h.mem, S, g.mem, b, hi, {b})
  BY <1>1, <1>2, OneTakenBlock
<1>4. S \subseteq Int /\ h.mem[b].size \in Nat /\ \A a \in S : a <= b \/ a >= hi
  BY <1>1, TiledFacts DEF IsBlock
<1>5. \A a \in Listed(h.free) : a \in S
  BY <1>1 DEF Filed, Listed
<1>6. \A a \in S : a < b \/ a >= hi \/ a = b
  BY <1>1, <1>4
<1>7. RebuiltHeap(h, g, b, hi, {b})
  <2>1. \A a \in Listed(g.free) : a < b \/ a >= hi
    BY <1>1, <1>5, <1>6
  <2> QED BY <1>1, <1>3, <2>1 DEF RebuiltHeap, S
<1>8. /\ Sane(g)
      /\ Starts(g) = Outside(S, b, hi) \cup {b}
      /\ \A a \in Outside(S, b, hi) : g.mem[a] = h.mem[a]
  BY <1>7, RebuiltIsSane DEF S
<1>9. Starts(g) = S /\ \A a \in S \ {b} : g.mem[a] = h.mem[a]
  BY <1>1, <1>6, <1>8 DEF Outside
<1>10. g.mem[b] = tag
  BY <1>1 DEF Overwritten
<1>11. Taken(g) = Taken(h) \cup {b}
  BY <1>1, <1>9, <1>10 DEF Taken, S
<1>12. Unfiled(g) \subseteq Unfiled(h) \ {b}
  BY <1>1, <1>9, <1>10 DEF Unfiled, Unused, S
<1> QED BY <1>8, <1>9, <1>10, <1>11, <1>12 DEF S

\* A block becomes free: its header and footer say so.
LEMMA FreedIsLoose ==
    ASSUME NEW h, NEW b, Sane(h), b \in Taken(h)
    PROVE  LET g == Tagged(h, b, Header(h.mem[b].size, {}))
           IN  /\ Sane(g) /\ Loose(g, b) /\ g.mem[b].size = h.mem[b].size
               /\ g.end = h.end /\ g.quick = h.quick /\ g.events = h.events
               /\ Taken(g) = Taken(h) \ {b} /\ \A a \in Taken(g) : g.mem[a] = h.mem[a]
               /\ Unfiled(g) \ {b} \subseteq Unfiled(h)
<1> DEFINE S == Starts(h)
           size == h.mem[b].size
           hi == b + size
           tag == Header(size, {})
           g == Tagged(h, b, tag)
<1>1. /\ h \in Heaps /\ Tiled(h.mem, h.end, S) /\ Filed(h.free, h.mem, S)
      /\ b \in S /\ b \in Int /\ b # h.end - 8 /\ IsBlock(h.mem, S, b)
      /\ size \in Nat /\ size >= 32 /\ size % 16 = 0
      /\ IsAllocated(h.mem[b]) /\ b \notin Listed(h.free)
  BY TakenFacts
<1>2. tag \in Words /\ ~IsAllocated(tag) /\ tag.size = size
  BY <1>1, FreeHeaderFacts
<1> HIDE DEF tag
<1>3. hi - 8 = Footer(b, tag.size) /\ hi - 8 \in Int /\ hi \in Int /\ b < hi /\ tag.size = hi - b
  BY <1>1, <1>2 DEF Footer
<1>4. /\ g \in Heaps /\ g.end = h.end /\ g.free = h.free /\ g.quick = h.quick /\ g.events = h.events
      /\ Overwritten(g.mem, h.mem, {b, hi - 8}, tag)
  <2>1. {b, hi - 8} \in SUBSET Int
    BY <1>1, <1>3
  <2>2. g = Written(h, {b, hi - 8}, tag)
    BY <1>3 DEF Tagged
  <2> HIDE DEF g, hi
  <2> QED BY <1>1, <1>2, <2>1, <2>2, WrittenFields
<1> HIDE DEF g, S
<1>5. hi \in S /\ \A a \in S : a \in Int /\ (a <= b \/ a >= hi)
  BY <1>1, TiledFacts DEF IsBlock
<1> HIDE DEF hi
<1>6. Rebuilt(h.mem, S, g.mem, b, hi, {b})
  <2>1. g.mem \in Memories
    BY <1>4 DEF Heaps
  <2>2. \A a \in S : a > b /\ a < hi => ~IsAllocated(h.mem[a])
    BY <1>1, <1>3, <1>5
  <2> QED BY <1>1, <1>2, <1>3, <1>4, <1>5, <2>1, <2>2, OneFreeBlock
<1>7. \A a \in S : a < b \/ a >= hi \/ a = b
  BY <1>1, <1>5
<1>8. RebuiltHeap(h, g, b, hi, {b})
  <2>1. \A a \in Listed(h.free) : a \in S
    BY <1>1 DEF Filed, Listed
  <2>2. \A a \in Listed(g.free) : a < b \/ a >= hi
    BY <1>1, <1>4, <1>7, <2>1
  <2> QED BY <1>1, <1>4, <1>6, <2>2 DEF RebuiltHeap, S
<1>9. /\ Sane(g)
      /\ Starts(g) = Outside(S, b, hi) \cup {b}
      /\ \A a \in Outside(S, b, hi) : g.mem[a] = h.mem[a]
  BY <1>8, RebuiltIsSane DEF S
<1>10. Starts(g) = S /\ \A a \in S \ {b} : g.mem[a] = h.mem[a]
  BY <1>1, <1>7, <1>9 DEF Outside
<1>11. g.mem[b] = tag
  BY <1>4 DEF Overwritten
<1>12. Loose(g, b)
  BY <1>1, <1>2, <1>4, <1>10, <1>11 DEF Loose, Unused
<1>13. Taken(g) = Taken(h) \ {b} /\ \A a \in Taken(g) : g.mem[a] = h.mem[a]
  BY <1>1, <1>2, <1>4, <1>10, <1>11 DEF Taken, S
<1>14. Unfiled(g) \ {b} \subseteq Unfiled(h)
  BY <1>4, <1>10 DEF Unfiled, Unused, S
<1> QED BY <1>2, <1>4, <1>9, <1>11, <1>12, <1>13, <1>14 DEF g, tag

-----------------------------------------------------------------------------
(* Quick lists. *)

InQuick(h) == UNION {ToSet(h.quick[i]) : i \in QuickLists}

Stored(h) ==
    \A i \in QuickLists :
        /\ IsInjective(h.quick[i]) /\ Len(h.quick[i]) <= QUICK_LIST_MAX
        /\ \A b \in ToSet(h.quick[i]) : b \in Taken(h) /\ h.mem[b] = QuickTag(QuickSize(i))

\* The allocated blocks that are in no quick list are the client's.
Lent(h) == Taken(h) \ InQuick(h)

LEMMA QuickFacts ==
    ASSUME NEW size \in Nat, size >= 32, size % 16 = 0, IsQuick(size)
    PROVE  LET i == (size - MinBlock) \div Align
           IN  i \in QuickLists /\ QuickSize(i) = size
<1> DEFINE i == (size - 32) \div 16
<1>1. i \in Int /\ i >= 0 /\ 32 + i * 16 = size
  OBVIOUS
<1>2. NUM_QUICK_LISTS \in Nat /\ size <= 32 + (NUM_QUICK_LISTS - 2) * 16
  BY SizesAssumption DEF IsQuick, MinBlock, Align
<1> HIDE DEF i
<1>3. i <= NUM_QUICK_LISTS - 2
  BY <1>1, <1>2
<1>4. i \in QuickLists
  BY <1>1, <1>2, <1>3 DEF QuickLists
<1> QED BY <1>1, <1>4 DEF i, MinBlock, Align, QuickSize

LEMMA QuickTagFacts ==
    ASSUME NEW i \in QuickLists
    PROVE  /\ QuickSize(i) \in Nat /\ QuickSize(i) >= 32 /\ QuickSize(i) % 16 = 0
           /\ QuickTag(QuickSize(i)) \in Words /\ IsAllocated(QuickTag(QuickSize(i)))
           /\ QuickTag(QuickSize(i)).size = QuickSize(i)
<1>1. i \in Nat
  BY SizesAssumption DEF QuickLists
<1>2. QuickSize(i) \in Nat /\ QuickSize(i) >= 32 /\ QuickSize(i) % 16 = 0
  BY <1>1 DEF QuickSize, MinBlock, Align
<1>3. {THIS_BLOCK_ALLOCATED, IN_QUICK_LIST} \in SUBSET Flags
  BY DEF Flags
<1> DEFINE n == QuickSize(i)
<1>4. n \in Nat /\ n - (n % 16) = n
  BY <1>2
<1> HIDE DEF n
<1>5. /\ QuickTag(n) \in Words /\ IsAllocated(QuickTag(n)) /\ QuickTag(n).size = n
  BY <1>3, <1>4, HeaderFacts DEF QuickTag
<1> QED BY <1>2, <1>5 DEF n

\* A block is in one quick list only.
LEMMA OneQuickList ==
    ASSUME NEW h, Stored(h), NEW i \in QuickLists, NEW j \in QuickLists,
           NEW b \in ToSet(h.quick[i]), b \in ToSet(h.quick[j])
    PROVE  i = j
<1>1. QuickTag(QuickSize(i)) = QuickTag(QuickSize(j))
  BY DEF Stored
<1>2. QuickSize(i) = QuickSize(j)
  BY <1>1, QuickTagFacts
<1>3. i \in Int /\ j \in Int
  BY SizesAssumption DEF QuickLists
<1> QED BY <1>2, <1>3 DEF QuickSize, MinBlock, Align

\* The heap after a block was given back: nobody's any more, and nothing lost
\* unless a list was flushed.
GivenBack(h, b, g) ==
    /\ Sane(g) /\ Stored(g) /\ g.end = h.end
    /\ Lent(g) = Lent(h) \ {b}
    /\ \A a \in Lent(g) : g.mem[a] = h.mem[a]
    /\ "flushed" \notin g.events => Unfiled(g) \subseteq Unfiled(h)

LEMMA ShortListGrows ==
    ASSUME NEW h, NEW b, Sane(h), Stored(h), b \in Lent(h),
           NEW marked, NEW i \in QuickLists,
           QuickSize(i) = h.mem[b].size, Retagged(h, marked, b, QuickTag(QuickSize(i))),
           marked.quick = h.quick, Len(h.quick[i]) < QUICK_LIST_MAX
    PROVE  GivenBack(h, b, [marked EXCEPT !.quick[i] = <<b>> \o @])
<1> DEFINE tag == QuickTag(QuickSize(i))
           list == Prefixed(b, h.quick[i])
           g == [marked EXCEPT !.quick[i] = list]
<1>1. g = [marked EXCEPT !.quick[i] = <<b>> \o @]
  BY DEF Prefixed
<1>2. b \in Taken(h) /\ b \notin InQuick(h)
  BY DEF Lent
<1>3. b \in Int /\ h \in Heaps
  BY <1>2, TakenFacts
<1>4. h.quick \in [QuickLists -> Seq(Int)] /\ h.quick[i] \in Seq(Int)
  BY <1>3 DEF Heaps
<1>5. /\ Sane(marked) /\ Starts(marked) = Starts(h)
      /\ Taken(marked) = Taken(h) \cup {b}
      /\ marked.mem[b] = tag /\ \A a \in Starts(h) \ {b} : marked.mem[a] = h.mem[a]
      /\ Unfiled(marked) \subseteq Unfiled(h) \ {b}
  BY RetaggedIsSane
<1>6. marked \in Heaps /\ marked.end = h.end
  BY DEF Retagged
<1>7. /\ list \in Seq(Int) /\ Len(list) = Len(h.quick[i]) + 1
      /\ ToSet(list) = {b} \cup ToSet(h.quick[i])
      /\ IsInjective(h.quick[i]) /\ b \notin ToSet(h.quick[i]) => IsInjective(list)
  BY <1>3, <1>4, PrefixedFacts
<1> HIDE DEF list
<1>8. /\ g \in Heaps /\ g.mem = marked.mem /\ g.end = h.end /\ g.free = marked.free
      /\ g.events = marked.events
      /\ g.quick[i] = list /\ \A j \in QuickLists \ {i} : g.quick[j] = h.quick[j]
  BY <1>4, <1>6, <1>7 DEF Heaps
<1> HIDE DEF g
<1>9. Starts(g) = Starts(marked) /\ Tiled(g.mem, g.end, Starts(g))
  BY <1>5, <1>6, <1>8, SameMemory
<1>10. Sane(g) /\ Taken(g) = Taken(h) /\ Unfiled(g) = Unfiled(marked)
  <2>1. Sane(g)
    BY <1>5, <1>8, <1>9 DEF Sane
  <2>2. Taken(g) = Taken(marked) /\ Unfiled(g) = Unfiled(marked)
    BY <1>6, <1>8, <1>9 DEF Taken, Unfiled, Unused
  <2> QED BY <1>2, <1>5, <2>1, <2>2
<1>11. \A j \in QuickLists : b \notin ToSet(h.quick[j])
  BY <1>2 DEF InQuick
<1>12. ASSUME NEW j \in QuickLists, NEW a \in ToSet(h.quick[j])
       PROVE  a \in Taken(h) /\ g.mem[a] = QuickTag(QuickSize(j))
  <2>1. a \in Taken(h) /\ h.mem[a] = QuickTag(QuickSize(j)) /\ a # b
    BY <1>11 DEF Stored
  <2> QED BY <1>5, <1>8, <2>1 DEF Taken
<1>13. Stored(g)
  <2> SUFFICES ASSUME NEW j \in QuickLists
               PROVE  /\ IsInjective(g.quick[j]) /\ Len(g.quick[j]) <= QUICK_LIST_MAX
                      /\ \A a \in ToSet(g.quick[j]) : a \in Taken(g) /\ g.mem[a] = QuickTag(QuickSize(j))
    BY DEF Stored
  <2>1. IsInjective(h.quick[j]) /\ Len(h.quick[j]) <= QUICK_LIST_MAX
    BY DEF Stored
  <2>2. CASE j # i
    BY <1>8, <1>10, <1>12, <2>1, <2>2
  <2>3. CASE j = i
    <3>1. IsInjective(list) /\ Len(list) <= QUICK_LIST_MAX
      BY <1>4, <1>7, <1>11, <2>1, <2>3, SizesAssumption
    <3>2. \A a \in ToSet(list) : a \in Taken(g) /\ g.mem[a] = tag
      BY <1>2, <1>5, <1>7, <1>8, <1>10, <1>12
    <3> QED BY <1>8, <2>3, <3>1, <3>2
  <2> QED BY <2>2, <2>3
<1>14. InQuick(g) = InQuick(h) \cup {b}
  BY <1>7, <1>8 DEF InQuick
<1>15. Lent(g) = Lent(h) \ {b}
  BY <1>10, <1>14 DEF Lent
<1>16. \A a \in Lent(g) : g.mem[a] = h.mem[a]
  BY <1>5, <1>8, <1>15 DEF Lent, Taken
<1>17. GivenBack(h, b, g)
  BY <1>5, <1>8, <1>10, <1>13, <1>15, <1>16 DEF GivenBack
<1> QED BY <1>1, <1>17 DEF g

-----------------------------------------------------------------------------
(* A quick list is flushed. *)

Flushed(h, size, blocks) ==
    LET merged[n \in 0 .. Len(blocks)] ==
          IF n = 0 THEN Result(h, NULL)
          ELSE coalesce(Tagged(merged[n - 1].heap, blocks[n], Header(size, {})), size, blocks[n])
    IN  merged

Freeing(h, size, b) == coalesce(Tagged(h, b, Header(size, {})), size, b)

LEMMA FreeingFields ==
    ASSUME NEW h \in Heaps, NEW size \in Nat, size >= 32, NEW b \in Int
    PROVE  LET r == Freeing(h, size, b)
           IN  r \in Results /\ h.events \subseteq r.heap.events
<1> DEFINE tag == Header(size, {})
           g == Tagged(h, b, tag)
<1>1. tag \in Words /\ tag.size \in Nat
  BY FreeHeaderFacts DEF Words
<1> HIDE DEF tag
<1>2. {b, Footer(b, tag.size)} \in SUBSET Int
  BY <1>1 DEF Footer
<1>3. g \in Heaps /\ g.events = h.events
  BY <1>1, <1>2, WrittenFields DEF Tagged
<1> HIDE DEF g
<1>4. size \in Nat \ {0}
  OBVIOUS
<1>5. coalesce(g, size, b) \in Results /\ g.events \subseteq coalesce(g, size, b).heap.events
  BY <1>3, <1>4, CoalesceFields
<1> QED BY <1>3, <1>5 DEF Freeing, g, tag

LEMMA FlushedUnfold ==
    ASSUME NEW h \in Heaps, NEW size \in Nat, size >= 32, NEW blocks \in Seq(Int)
    PROVE  LET merged == Flushed(h, size, blocks)
           IN  /\ Flush(h, size, blocks) = merged[Len(blocks)]
               /\ merged \in [0 .. Len(blocks) -> Results]
               /\ merged[0] = Result(h, NULL)
               /\ \A n \in 1 .. Len(blocks) :
                     merged[n] = Freeing(merged[n - 1].heap, size, blocks[n])
<1> DEFINE I == 0 .. Len(blocks)
           V == Results
           rank == [n \in I |-> n]
           E(g, n) == IF n = 0 THEN Result(h, NULL) ELSE Freeing(g[n - 1].heap, size, blocks[n])
           H == [n \in I |-> [g \in [I -> V] |-> E(g, n)]]
           merged == Flushed(h, size, blocks)
<1>1. Len(blocks) \in Nat /\ \A n \in 1 .. Len(blocks) : blocks[n] \in Int
  OBVIOUS
<1>2. rank \in [I -> Nat] /\ \A n \in I : rank[n] = n /\ rank[n] < Len(blocks) + 1
  BY <1>1
<1>3. Result(h, NULL) \in V
  BY DEF Result, Results, NULL
<1>4. \A n \in I : n # 0 => n \in 1 .. Len(blocks) /\ n - 1 \in I /\ rank[n - 1] < rank[n]
  BY <1>1, <1>2
<1>5. \A g \in [I -> V] : \A n \in I : E(g, n) \in V
  <2> SUFFICES ASSUME NEW g \in [I -> V], NEW n \in I, n # 0 PROVE E(g, n) \in V
    BY <1>3
  <2>1. g[n - 1].heap \in Heaps /\ blocks[n] \in Int
    BY <1>1, <1>4 DEF Results
  <2> QED BY <2>1, FreeingFields
<1>6. ASSUME NEW n \in I, NEW f, NEW g, \A k \in I : rank[k] < rank[n] => f[k] = g[k]
      PROVE  E(f, n) = E(g, n)
  <2>1. n # 0 => f[n - 1] = g[n - 1]
    BY <1>4, <1>6
  <2> QED BY <2>1
<1>7. merged = CHOOSE g : g = [n \in I |-> E(g, n)]
  BY DEF Flushed, Freeing
<1>8. Flush(h, size, blocks) = merged[Len(blocks)]
  BY DEF Flush, Flushed
<1> HIDE DEF E, rank
<1>9. H \in [I -> [[I -> V] -> V]] /\ \A n \in I : \A g \in [I -> V] : H[n][g] = E(g, n)
  BY <1>5
<1> HIDE DEF H, I, V
<1>10. PICK f \in [I -> V] : \A n \in I : f[n] = H[n][f]
  <2>1. \A n \in I : \A f, g \in [I -> V] :
          (\A k \in I : rank[k] < rank[n] => f[k] = g[k]) => H[n][f] = H[n][g]
    BY <1>6, <1>9
  <2>2. V # {} /\ Len(blocks) + 1 \in Nat
    BY <1>1, <1>3 DEF V
  <2>3. Recursive(I, V, rank, H)
    BY <1>2, <1>9, <2>1, <2>2 DEF Recursive
  <2> QED BY <2>3, Recursion DEF Solvable
<1>11. f = [n \in I |-> E(f, n)]
  BY <1>9, <1>10
<1> HIDE DEF merged
<1>12. merged = [n \in I |-> E(merged, n)] /\ merged \in [I -> V]
  <2> DEFINE F(g) == [n \in I |-> E(g, n)]
  <2>1. f = F(f) /\ merged = CHOOSE g : g = F(g)
    BY <1>7, <1>11
  <2> HIDE DEF F
  <2>2. merged = F(merged)
    BY <2>1, Zenon
  <2>3. merged = [n \in I |-> E(merged, n)]
    BY <2>2 DEF F
  <2>4. \A n \in I : merged[n] = E(merged, n) /\ f[n] = E(f, n)
    BY <1>11, <2>3
  <2>5. \A n \in I : (\A k \in I : rank[k] < rank[n] => merged[k] = f[k]) => merged[n] = f[n]
    BY <1>6, <2>4
  <2>6. Agreeing(I, rank, merged, f)
    BY <1>2, <2>5 DEF Agreeing
  <2>7. \A n \in I : merged[n] = f[n]
    BY <2>6, Agreement
  <2>8. \A n \in I : merged[n] \in V
    BY <1>10, <2>7
  <2> QED BY <2>3, <2>8
<1>13. \A n \in I : merged[n] = E(merged, n)
  BY <1>12
<1>14. 0 \in I /\ \A n \in 1 .. Len(blocks) : n \in I /\ n # 0
  BY <1>1 DEF I
<1>15. merged[0] = Result(h, NULL)
  BY <1>13, <1>14 DEF E
<1>16. \A n \in 1 .. Len(blocks) : merged[n] = Freeing(merged[n - 1].heap, size, blocks[n])
  BY <1>13, <1>14 DEF E
<1> QED BY <1>8, <1>12, <1>15, <1>16 DEF merged, I, V

\* The blocks B were freed, one by one, from the heap h.
Emptied(h, B, r) ==
    /\ Sane(r.heap) /\ r.heap.end = h.end /\ r.heap.quick = h.quick
    /\ Taken(r.heap) = Taken(h) \ B
    /\ \A a \in Taken(r.heap) : r.heap.mem[a] = h.mem[a]
    /\ r.block # NULL => Loose(r.heap, r.block)

LEMMA FreeingEmpties ==
    ASSUME NEW h, NEW B, NEW r, r.heap \in Heaps, Emptied(h, B, r),
           NEW b, b \in Taken(h) \ B, NEW size, size = h.mem[b].size
    PROVE  LET q == Freeing(r.heap, size, b)
           IN  ~Harmed(q.heap) => Emptied(h, B \cup {b}, q)
<1> DEFINE g == r.heap
           f == Tagged(g, b, Header(size, {}))
           q == coalesce(f, size, b)
<1>1. /\ Sane(g) /\ g.end = h.end /\ g.quick = h.quick
      /\ Taken(g) = Taken(h) \ B /\ \A a \in Taken(g) : g.mem[a] = h.mem[a]
  BY DEF Emptied
<1>2. b \in Taken(g) /\ g.mem[b].size = size
  BY <1>1
<1> HIDE DEF g
<1>3. /\ Sane(f) /\ Loose(f, b) /\ f.mem[b].size = size
      /\ f.end = g.end /\ f.quick = g.quick
      /\ Taken(f) = Taken(g) \ {b} /\ \A a \in Taken(f) : f.mem[a] = g.mem[a]
  BY <1>1, <1>2, FreedIsLoose
<1> HIDE DEF f
<1>4. ~Harmed(q.heap) =>
         \/ q.block = NULL /\ q.heap = f
         \/ q.block # NULL /\ Merged(f, b, q.heap, q.block)
  BY <1>3, CoalesceIsSane
<1> HIDE DEF q
<1>5. ASSUME q.block = NULL, q.heap = f PROVE Emptied(h, B \cup {b}, q)
  BY <1>1, <1>3, <1>5 DEF Emptied
<1>6. ASSUME q.block # NULL, Merged(f, b, q.heap, q.block) PROVE Emptied(h, B \cup {b}, q)
  <2>1. /\ Sane(q.heap) /\ q.heap.end = f.end /\ q.heap.quick = f.quick
        /\ Loose(q.heap, q.block)
        /\ Taken(q.heap) = Taken(f) /\ \A a \in Taken(f) : q.heap.mem[a] = f.mem[a]
    BY <1>6 DEF Merged, SameTaken
  <2> QED BY <1>1, <1>3, <2>1 DEF Emptied
<1> QED BY <1>4, <1>5, <1>6 DEF Freeing, q, f, g

LEMMA FlushEmpties ==
    ASSUME NEW h, Sane(h), NEW size \in Nat, size >= 32,
           NEW blocks \in Seq(Int), IsInjective(blocks),
           \A b \in ToSet(blocks) : b \in Taken(h) /\ h.mem[b].size = size
    PROVE  LET r == Flush(h, size, blocks)
           IN  /\ r \in Results /\ h.events \subseteq r.heap.events
               /\ ~Harmed(r.heap) => Emptied(h, ToSet(blocks), r)
<1> DEFINE merged == Flushed(h, size, blocks)
           first(n) == {blocks[k] : k \in 1 .. n}
           fine(n) == /\ h.events \subseteq merged[n].heap.events
                      /\ ~Harmed(merged[n].heap) => Emptied(h, first(n), merged[n])
           T == {n \in 0 .. Len(blocks) : ~fine(n)}
<1>1. h \in Heaps
  BY DEF Sane
<1>2. /\ Flush(h, size, blocks) = merged[Len(blocks)]
      /\ merged \in [0 .. Len(blocks) -> Results]
      /\ merged[0] = Result(h, NULL)
      /\ \A n \in 1 .. Len(blocks) :
            merged[n] = Freeing(merged[n - 1].heap, size, blocks[n])
  BY <1>1, FlushedUnfold
<1> HIDE DEF merged
<1>3. Len(blocks) \in Nat /\ \A n \in 1 .. Len(blocks) : blocks[n] \in Int /\ blocks[n] \in ToSet(blocks)
  BY DEF ToSet
<1>4. fine(0)
  <2>1. merged[0].heap = h /\ merged[0].block = NULL /\ first(0) = {}
    BY <1>2 DEF Result
  <2>2. Emptied(h, {}, merged[0])
    BY <2>1 DEF Emptied
  <2> QED BY <2>1, <2>2
<1>5. ASSUME NEW n \in 1 .. Len(blocks), fine(n - 1) PROVE fine(n)
  <2> DEFINE r == merged[n - 1]
             b == blocks[n]
  <2>1. r \in Results /\ n - 1 \in 0 .. Len(blocks)
    <3>1. n - 1 \in 0 .. Len(blocks)
      BY <1>3
    <3> QED BY <1>2, <3>1
  <2>2. r.heap \in Heaps /\ merged[n] = Freeing(r.heap, size, b) /\ b \in Int
    BY <1>2, <1>3, <2>1 DEF Results
  <2>3. r.heap.events \subseteq merged[n].heap.events
    BY <2>2, FreeingFields
  <2>4. ASSUME ~Harmed(merged[n].heap) PROVE Emptied(h, first(n), merged[n])
    <3>1. ~Harmed(r.heap)
      BY <2>3, <2>4 DEF Harmed
    <3>2. Emptied(h, first(n - 1), r)
      BY <1>5, <3>1
    <3>3. b \in Taken(h) /\ h.mem[b].size = size
      BY <1>3
    <3>4. b \notin first(n - 1)
      <4> SUFFICES ASSUME NEW k \in 1 .. n - 1, blocks[k] = b PROVE FALSE
        OBVIOUS
      <4>1. k \in DOMAIN blocks /\ n \in DOMAIN blocks /\ k # n
        BY <1>3
      <4> QED BY <4>1 DEF IsInjective
    <3>5. first(n) = first(n - 1) \cup {b}
      <4>1. \A k \in 1 .. n : k = n \/ k \in 1 .. n - 1
        OBVIOUS
      <4>2. n \in 1 .. n /\ \A k \in 1 .. n - 1 : k \in 1 .. n
        OBVIOUS
      <4> QED BY <4>1, <4>2
    <3> DEFINE B == first(n - 1)
    <3> HIDE DEF first, fine, r, b
    <3>6. b \in Taken(h) \ B /\ Emptied(h, B, r)
      BY <3>2, <3>3, <3>4
    <3> HIDE DEF B
    <3>7. ~Harmed(Freeing(r.heap, size, b).heap) => Emptied(h, B \cup {b}, Freeing(r.heap, size, b))
      BY <2>2, <3>3, <3>6, FreeingEmpties
    <3>8. Emptied(h, B \cup {b}, merged[n])
      BY <2>2, <2>4, <3>7
    <3> QED BY <3>5, <3>8 DEF B
  <2>5. h.events \subseteq merged[n].heap.events
    BY <1>5, <2>3
  <2> QED BY <2>4, <2>5
<1> HIDE DEF fine
<1>6. T = {}
  <2> SUFFICES ASSUME T # {} PROVE FALSE
    OBVIOUS
  <2>1. T \in SUBSET Nat
    BY <1>3
  <2>2. PICK n \in T : \A k \in T : n <= k
    BY <2>1, FirstExists
  <2>3. n \in 0 .. Len(blocks) /\ ~fine(n) /\ n \in Nat
    BY <1>3
  <2>4. n # 0
    BY <1>4, <2>3
  <2>5. n \in 1 .. Len(blocks) /\ n - 1 \in 0 .. Len(blocks) /\ n - 1 \notin T
    BY <1>3, <2>1, <2>2, <2>3, <2>4
  <2>6. fine(n - 1)
    BY <2>5
  <2> QED BY <1>5, <2>3, <2>5, <2>6
<1>7. fine(Len(blocks))
  BY <1>3, <1>6
<1>8. first(Len(blocks)) = ToSet(blocks)
  BY <1>3 DEF ToSet
<1>9. merged[Len(blocks)] \in Results
  BY <1>2, <1>3
<1> QED BY <1>2, <1>7, <1>8, <1>9 DEF fine

\* The list i, whose blocks were freed from h, begins anew with b.
LEMMA FlushedListBegins ==
    ASSUME NEW h, NEW b, Sane(h), Stored(h), b \in Lent(h), NEW i \in QuickLists,
           NEW r, Emptied(h, ToSet(h.quick[i]), r), NEW quick, quick = [h.quick EXCEPT ![i] = <<b>>],
           NEW g, Sane(g), g.end = h.end, g.quick = quick, SameTaken(r.heap, g),
           h.mem[b] = QuickTag(QuickSize(i))
    PROVE  /\ Stored(g)
           /\ Lent(g) = Lent(h) \ {b}
           /\ \A a \in Lent(g) : g.mem[a] = h.mem[a]
<1> DEFINE B == ToSet(h.quick[i])
<1>1. b \in Taken(h) /\ \A j \in QuickLists : b \notin ToSet(h.quick[j])
  BY DEF Lent, InQuick
<1>2. h \in Heaps /\ h.quick \in [QuickLists -> Seq(Int)]
  BY DEF Sane, Heaps
<1>3. Taken(g) = Taken(h) \ B /\ \A a \in Taken(g) : g.mem[a] = h.mem[a]
  BY DEF Emptied, SameTaken
<1>4. g.quick[i] = <<b>> /\ \A j \in QuickLists \ {i} : g.quick[j] = h.quick[j]
  BY <1>2
<1>5. ToSet(<<b>>) = {b} /\ IsInjective(<<b>>) /\ Len(<<b>>) = 1
  BY DEF ToSet, IsInjective
<1>6. \A j \in QuickLists \ {i} : \A a \in ToSet(h.quick[j]) : a \notin B
  BY OneQuickList
<1>7. \A j \in QuickLists : \A a \in ToSet(h.quick[j]) : a \in Taken(h) /\ h.mem[a] = QuickTag(QuickSize(j))
  BY DEF Stored
<1>8. b \in Taken(g) /\ g.mem[b] = QuickTag(QuickSize(i))
  BY <1>1, <1>3
<1> HIDE DEF B
<1>9. Stored(g)
  <2> SUFFICES ASSUME NEW j \in QuickLists
               PROVE  /\ IsInjective(g.quick[j]) /\ Len(g.quick[j]) <= QUICK_LIST_MAX
                      /\ \A a \in ToSet(g.quick[j]) : a \in Taken(g) /\ g.mem[a] = QuickTag(QuickSize(j))
    BY DEF Stored
  <2>1. CASE j = i
    <3>1. 1 <= QUICK_LIST_MAX
      BY SizesAssumption
    <3> QED BY <1>4, <1>5, <1>8, <2>1, <3>1
  <2>2. CASE j # i
    <3>1. IsInjective(h.quick[j]) /\ Len(h.quick[j]) <= QUICK_LIST_MAX
      BY DEF Stored
    <3> QED BY <1>3, <1>4, <1>6, <1>7, <2>2, <3>1
  <2> QED BY <2>1, <2>2
<1>10. \A a : a \in InQuick(g) <=> a = b \/ (a \in InQuick(h) /\ a \notin B)
  <2>1. \A a : a \in InQuick(g) <=> a = b \/ \E j \in QuickLists \ {i} : a \in ToSet(h.quick[j])
    BY <1>4, <1>5 DEF InQuick
  <2> QED BY <1>6, <2>1 DEF InQuick, B
<1>11. Lent(g) = Lent(h) \ {b}
  <2>1. B \subseteq InQuick(h)
    BY DEF InQuick, B
  <2> QED BY <1>3, <1>10, <2>1 DEF Lent
<1> QED BY <1>3, <1>9, <1>11 DEF Lent

\* sf_free of a block that fits into a quick list.
LEMMA QuickFreeGivesBack ==
    ASSUME NEW h, NEW b, Sane(h), Stored(h), b \in Lent(h), IsQuick(h.mem[b].size)
    PROVE  LET size == h.mem[b].size
               r == insertQuick(Written(h, {b}, Header(size, {})), size, b)
           IN  /\ h.events \subseteq r.heap.events
               /\ ~Harmed(r.heap) /\ r.block # NULL => GivenBack(h, b, r.heap)
<1> DEFINE size == h.mem[b].size
           i == (size - MinBlock) \div Align
           tag == QuickTag(size)
           bare == Written(h, {b}, Header(size, {}))
           marked == Written(bare, {b}, tag)
           r == insertQuick(bare, size, b)
<1> SUFFICES /\ h.events \subseteq r.heap.events
             /\ ~Harmed(r.heap) /\ r.block # NULL => GivenBack(h, b, r.heap)
  OBVIOUS
<1>1. b \in Taken(h)
  BY DEF Lent
<1>2. /\ h \in Heaps /\ b \in Int /\ b \in Starts(h) /\ b # h.end - 8 /\ b \notin Listed(h.free)
      /\ size \in Nat /\ size >= 32 /\ size % 16 = 0
  BY <1>1, TakenFacts
<1>3. i \in QuickLists /\ QuickSize(i) = size
  BY <1>2, QuickFacts
<1>4. tag \in Words /\ IsAllocated(tag) /\ tag.size = size /\ tag = QuickTag(QuickSize(i))
  BY <1>3, QuickTagFacts
<1> HIDE DEF tag
<1>5. bare \in Heaps /\ bare.end = h.end /\ bare.free = h.free /\ bare.quick = h.quick
      /\ bare.events = h.events
      /\ Overwritten(bare.mem, h.mem, {b}, Header(size, {}))
  <2>1. {b} \in SUBSET Int /\ Header(size, {}) \in Words
    BY <1>2, FreeHeaderFacts
  <2> QED BY <1>2, <2>1, WrittenFields
<1> HIDE DEF bare
<1>6. marked \in Heaps /\ marked.end = h.end /\ marked.free = h.free /\ marked.quick = h.quick
      /\ marked.events = h.events
      /\ Overwritten(marked.mem, bare.mem, {b}, tag)
  <2>1. {b} \in SUBSET Int
    BY <1>2
  <2> QED BY <1>4, <1>5, <2>1, WrittenFields
<1> HIDE DEF marked
<1>7. Overwritten(marked.mem, h.mem, {b}, tag)
  BY <1>5, <1>6 DEF Overwritten
<1>8. Retagged(h, marked, b, tag)
  BY <1>2, <1>4, <1>6, <1>7 DEF Retagged
<1> DEFINE short == [marked EXCEPT !.quick[i] = <<b>> \o @]
           flushing == Event(marked, "flushed", TRUE)
           flushed == Flush(flushing, size, h.quick[i])
<1>9. r = IF Len(h.quick[i]) < QUICK_LIST_MAX THEN Result(short, b) ELSE Begun(flushed, i, b)
  BY <1>5 DEF insertQuick, marked, tag
<1> HIDE DEF r, i
<1>10. CASE Len(h.quick[i]) < QUICK_LIST_MAX
  <2>1. GivenBack(h, b, short)
    BY <1>3, <1>4, <1>6, <1>8, <1>10, ShortListGrows
  <2>2. short.events = marked.events
    OBVIOUS
  <2> QED BY <1>6, <1>9, <1>10, <2>1, <2>2 DEF Result
<1>11. CASE ~(Len(h.quick[i]) < QUICK_LIST_MAX)
  <2>1. /\ flushing \in Heaps /\ flushing.mem = marked.mem /\ flushing.end = h.end
        /\ flushing.free = h.free /\ flushing.quick = h.quick
        /\ flushing.events = h.events \cup {"flushed"}
    BY <1>6, EventFields, ZenonT(40)
  <2> HIDE DEF flushing
  <2>2. Retagged(h, flushing, b, tag)
    BY <1>6, <1>8, <2>1 DEF Retagged
  <2>3. /\ Sane(flushing) /\ Starts(flushing) = Starts(h)
        /\ Taken(flushing) = Taken(h) \cup {b}
        /\ flushing.mem[b] = tag /\ \A a \in Starts(h) \ {b} : flushing.mem[a] = h.mem[a]
    BY <2>2, RetaggedIsSane
  <2>4. Taken(flushing) = Taken(h)
    BY <1>1, <2>3
  <2>5. \A j \in QuickLists : b \notin ToSet(h.quick[j])
    BY DEF Lent, InQuick
  <2>6. Stored(flushing)
    <3>1. \A a \in Taken(h) \ {b} : flushing.mem[a] = h.mem[a]
      BY <2>3 DEF Taken
    <3>2. \A j \in QuickLists : \A a \in ToSet(h.quick[j]) : flushing.mem[a] = QuickTag(QuickSize(j))
      BY <2>5, <3>1 DEF Stored
    <3> QED BY <2>1, <2>4, <3>2 DEF Stored
  <2>7. Lent(flushing) = Lent(h) /\ \A a \in Lent(h) \ {b} : flushing.mem[a] = h.mem[a]
    BY <2>1, <2>3, <2>4 DEF Lent, InQuick, Taken
  <2>8. /\ h.quick[i] \in Seq(Int) /\ IsInjective(h.quick[i])
        /\ \A a \in ToSet(h.quick[i]) : a \in Taken(flushing) /\ flushing.mem[a].size = size
    <3>1. h.quick[i] \in Seq(Int)
      BY <1>2, <1>3 DEF Heaps
    <3>2. \A a \in ToSet(h.quick[i]) : a \in Taken(flushing) /\ flushing.mem[a] = tag
      BY <1>3, <1>4, <2>1, <2>6 DEF Stored
    <3> QED BY <1>3, <1>4, <3>1, <3>2 DEF Stored
  <2>9. /\ flushed \in Results /\ flushing.events \subseteq flushed.heap.events
        /\ ~Harmed(flushed.heap) => Emptied(flushing, ToSet(h.quick[i]), flushed)
    BY <1>2, <2>3, <2>8, FlushEmpties
  <2> HIDE DEF flushed
  <2>10. flushed.heap \in Heaps /\ flushed.block \in Int
    BY <2>9 DEF Results
  <2>11. CASE flushed.block = NULL
    <3>1. r = flushed
      BY <1>9, <1>11, <2>11 DEF Begun
    <3> QED BY <2>1, <2>9, <2>11, <3>1
  <2>12. CASE flushed.block # NULL
    <3> DEFINE other == At(flushed.heap, flushed.block).size
               placed == placeFreeBlock(flushed.heap, other, flushed.block)
               g == [placed EXCEPT !.quick[i] = <<b>>]
    <3>1. r = Result(g, b)
      BY <1>9, <1>11, <2>12 DEF Begun, placeBySize
    <3>2. /\ placed \in Heaps /\ placed.mem = flushed.heap.mem /\ placed.end = flushed.heap.end
          /\ placed.quick = flushed.heap.quick
      BY <2>10, PlacedFields
    <3>3. placed.events = IF Misfiled(flushed.heap, other, flushed.block)
                          THEN flushed.heap.events \cup {"misfiled"} ELSE flushed.heap.events
      BY <2>10, PlacedEvents
    <3> HIDE DEF placed
    <3>4. g.events = placed.events
      OBVIOUS
    <3>5. r.heap = g /\ h.events \subseteq g.events
      BY <2>1, <2>9, <3>1, <3>3, <3>4 DEF Result
    <3>6. ASSUME ~Harmed(g) PROVE GivenBack(h, b, g)
      <4>1. ~Harmed(flushed.heap) /\ ~Harmed(placed)
        BY <3>3, <3>4, <3>6 DEF Harmed
      <4>2. Emptied(flushing, ToSet(h.quick[i]), flushed)
        BY <2>9, <4>1
      <4>3. Sane(flushed.heap) /\ Loose(flushed.heap, flushed.block)
        BY <2>12, <4>2 DEF Emptied
      <4>4. Settled(flushed.heap, flushed.block, placed)
        BY <4>1, <4>3, PlacingSettles DEF placed
      <4>5. /\ Sane(placed) /\ placed.end = h.end /\ placed.quick = h.quick
            /\ SameTaken(flushed.heap, placed)
        BY <2>1, <4>2, <4>4 DEF Settled, Emptied
      <4>6. /\ g \in Heaps /\ g.mem = placed.mem /\ g.end = placed.end /\ g.free = placed.free
            /\ g.quick = [h.quick EXCEPT ![i] = <<b>>]
        <5>1. <<b>> \in Seq(Int) /\ placed.quick \in [QuickLists -> Seq(Int)]
          BY <1>2, <3>2 DEF Heaps
        <5> QED BY <1>3, <3>2, <4>5, <5>1 DEF Heaps
      <4> HIDE DEF g
      <4>7. Starts(g) = Starts(placed) /\ Tiled(g.mem, g.end, Starts(g))
        BY <4>5, <4>6, SameMemory
      <4>8. Sane(g)
        BY <4>5, <4>6, <4>7 DEF Sane
      <4>9. SameTaken(flushed.heap, g)
        BY <4>5, <4>6, <4>7 DEF SameTaken, Taken
      <4>10. /\ Stored(g) /\ Lent(g) = Lent(flushing) \ {b}
             /\ \A a \in Lent(g) : g.mem[a] = flushing.mem[a]
        <5>1. b \in Lent(flushing) /\ flushing.mem[b] = QuickTag(QuickSize(i)) /\ g.end = flushing.end
          BY <1>4, <2>1, <2>3, <2>7, <4>5, <4>6
        <5>2. g.quick = [flushing.quick EXCEPT ![i] = <<b>>]
          BY <2>1, <4>6
        <5>3. Emptied(flushing, ToSet(flushing.quick[i]), flushed)
          BY <2>1, <4>2
        <5> QED BY <1>3, <2>3, <2>6, <4>8, <4>9, <5>1, <5>2, <5>3, FlushedListBegins
      <4>11. "flushed" \in g.events
        BY <2>1, <2>9, <3>3, <3>4 DEF g
      <4> QED BY <2>7, <4>5, <4>6, <4>8, <4>10, <4>11 DEF GivenBack
    <3> HIDE DEF g
    <3> QED BY <3>5, <3>6
  <2> QED BY <2>11, <2>12
<1> QED BY <1>10, <1>11

\* What is done to other blocks does not matter to the quick lists.
LEMMA StoredStays ==
    ASSUME NEW h, NEW g, Stored(h), g.quick = h.quick,
           \A a \in InQuick(h) : a \in Taken(g) /\ g.mem[a] = h.mem[a]
    PROVE  Stored(g) /\ InQuick(g) = InQuick(h)
<1>1. InQuick(g) = InQuick(h)
  BY DEF InQuick
<1>2. ASSUME NEW i \in QuickLists, NEW a \in ToSet(h.quick[i])
      PROVE  a \in Taken(g) /\ g.mem[a] = QuickTag(QuickSize(i))
  <2>1. a \in InQuick(h) /\ h.mem[a] = QuickTag(QuickSize(i))
    BY DEF InQuick, Stored
  <2> QED BY <2>1
<1> QED BY <1>1, <1>2 DEF Stored

\* sf_free of a block the client holds.
LEMMA FreeGivesBack ==
    ASSUME NEW h, NEW b, Sane(h), Stored(h), b \in Lent(h)
    PROVE  LET r == Free(h, b)
           IN  /\ h.events \subseteq r.heap.events
               /\ ~Harmed(r.heap) /\ r.block # NULL => GivenBack(h, b, r.heap)
<1> DEFINE size == h.mem[b].size
           bare == Tagged(h, b, Header(size, {}))
           g == Release(bare, size, b)
           q == insertQuick(Written(h, {b}, Header(size, {})), size, b)
<1>1. b \in Taken(h) /\ b \notin InQuick(h)
  BY DEF Lent
<1>2. h \in Heaps /\ b \in Starts(h) /\ b \in DOMAIN h.mem
  BY <1>1, TakenFacts DEF IsBlock
<1>3. At(h, b).size = size
  BY <1>2, AtFacts
<1>4. Free(h, b) = IF IsQuick(size) THEN q ELSE Result(g, b)
  BY <1>3 DEF Free
<1> HIDE DEF size
<1>5. CASE IsQuick(size)
  <2>1. /\ h.events \subseteq q.heap.events
        /\ ~Harmed(q.heap) /\ q.block # NULL => GivenBack(h, b, q.heap)
    BY <1>5, QuickFreeGivesBack DEF size
  <2> HIDE DEF q
  <2> QED BY <1>4, <1>5, <2>1
<1>6. CASE ~IsQuick(size)
  <2>1. /\ Sane(bare) /\ Loose(bare, b) /\ bare.mem[b].size = size
        /\ bare.end = h.end /\ bare.quick = h.quick /\ bare.events = h.events
        /\ Taken(bare) = Taken(h) \ {b} /\ \A a \in Taken(bare) : bare.mem[a] = h.mem[a]
        /\ Unfiled(bare) \ {b} \subseteq Unfiled(h)
    BY <1>1, FreedIsLoose DEF size
  <2> HIDE DEF bare
  <2>2. /\ g \in Heaps /\ bare.events \subseteq g.events
        /\ ~Harmed(g) => Settled(bare, b, g)
    BY <2>1, ReleaseSettles
  <2> HIDE DEF g
  <2>3. ASSUME ~Harmed(g) PROVE GivenBack(h, b, g)
    <3>1. /\ Sane(g) /\ g.end = h.end /\ g.quick = h.quick
          /\ Taken(g) = Taken(h) \ {b} /\ \A a \in Taken(g) : g.mem[a] = h.mem[a]
          /\ Unfiled(g) \subseteq Unfiled(h)
      BY <2>1, <2>2, <2>3 DEF Settled, SameTaken
    <3>2. \A a \in InQuick(h) : a \in Taken(h) /\ a # b
      BY <1>1 DEF InQuick, Stored
    <3>3. Stored(g) /\ InQuick(g) = InQuick(h)
      BY <3>1, <3>2, StoredStays
    <3> QED BY <3>1, <3>3 DEF GivenBack, Lent
  <2>4. Free(h, b).heap = g
    BY <1>4, <1>6 DEF Result
  <2> QED BY <2>1, <2>2, <2>3, <2>4
<1> QED BY <1>5, <1>6

-----------------------------------------------------------------------------
(* A block is split. *)

\* The block b is allocated now, with the header tag.
Occupied(h, b, tag, g) ==
    /\ Sane(g) /\ g.end = h.end /\ g.quick = h.quick
    /\ Taken(g) = Taken(h) \cup {b}
    /\ g.mem[b] = tag /\ \A a \in Taken(h) \ {b} : g.mem[a] = h.mem[a]
    /\ Unfiled(g) \subseteq Unfiled(h) \ {b}

\* From lo to hi there is an allocated block and then, from mid on, a free one.
Divided(mem, S, new, lo, mid, hi) ==
    /\ new \in Memories
    /\ lo \in S /\ hi \in S /\ mid \in Int /\ mid % 16 = 8 /\ mid >= lo + 32 /\ hi >= mid + 32
    /\ \A a \in Int : a < lo \/ a >= hi =>
          (a \in DOMAIN new <=> a \in DOMAIN mem) /\ (a \in DOMAIN mem => new[a] = mem[a])
    /\ \A a \in DOMAIN new : a >= lo /\ a < hi /\ a % 16 = 0 => ~IsAllocated(new[a])
    /\ \A a \in DOMAIN new \ {lo, mid} : a >= lo /\ a < hi /\ a % 16 = 8 => Spent(new[a])
    /\ lo \in DOMAIN new /\ IsAllocated(new[lo]) /\ new[lo].size = mid - lo
    /\ mid \in DOMAIN new /\ ~IsAllocated(new[mid]) /\ new[mid].size = hi - mid
    /\ hi - 8 \in DOMAIN new /\ new[hi - 8] = new[mid]

LEMMA DividedIsRebuilt ==
    ASSUME NEW mem, NEW end, NEW S, Tiled(mem, end, S),
           NEW new, NEW lo, NEW mid, NEW hi, Divided(mem, S, new, lo, mid, hi)
    PROVE  Rebuilt(mem, S, new, lo, hi, {lo, mid})
<1> DEFINE T == {lo, mid} \cup {hi}
<1>1. /\ new \in Memories
      /\ lo \in S /\ hi \in S /\ mid \in Int /\ mid % 16 = 8 /\ mid >= lo + 32 /\ hi >= mid + 32
      /\ \A a \in Int : a < lo \/ a >= hi =>
            (a \in DOMAIN new <=> a \in DOMAIN mem) /\ (a \in DOMAIN mem => new[a] = mem[a])
      /\ \A a \in DOMAIN new : a >= lo /\ a < hi /\ a % 16 = 0 => ~IsAllocated(new[a])
      /\ \A a \in DOMAIN new \ {lo, mid} : a >= lo /\ a < hi /\ a % 16 = 8 => Spent(new[a])
  BY DEF Divided
<1>2. /\ lo \in DOMAIN new /\ IsAllocated(new[lo]) /\ new[lo].size = mid - lo
      /\ mid \in DOMAIN new /\ ~IsAllocated(new[mid]) /\ new[mid].size = hi - mid
      /\ hi - 8 \in DOMAIN new /\ new[hi - 8] = new[mid]
  BY DEF Divided
<1>3. lo \in Int /\ hi \in Int /\ lo % 16 = 8 /\ hi % 16 = 8
  BY <1>1, TiledFacts
<1>4. IsBlock(new, T, lo)
  <2>1. lo + new[lo].size = mid /\ new[lo].size >= 32 /\ new[lo].size % 16 = 0
    BY <1>1, <1>2, <1>3
  <2>2. \A c \in T : c <= lo \/ c >= lo + new[lo].size
    BY <1>1, <1>3, <2>1
  <2> QED BY <1>2, <1>3, <2>1, <2>2 DEF IsBlock
<1>5. IsBlock(new, T, mid)
  <2>1. mid + new[mid].size = hi /\ new[mid].size >= 32 /\ new[mid].size % 16 = 0
    BY <1>1, <1>2, <1>3
  <2>2. \A c \in T : c <= mid \/ c >= mid + new[mid].size
    BY <1>1, <1>3, <2>1
  <2>3. Footer(mid, new[mid].size) = hi - 8
    BY <1>1, <1>2, <1>3 DEF Footer
  <2> QED BY <1>1, <1>2, <2>1, <2>2, <2>3 DEF IsBlock
<1>6. \A b \in {lo, mid} : b \in Int /\ b >= lo /\ b < hi
  BY <1>1, <1>3
<1>7. lo < hi
  BY <1>1, <1>3
<1> QED BY <1>1, <1>4, <1>5, <1>6, <1>7 DEF Rebuilt

\* The same, in heaps: the block b, and the free one after it if that began in
\* front of hi, made room for b and c.
DividedHeap(h, g, b, c, hi, tag) ==
    /\ g \in Heaps /\ g.end = h.end /\ g.quick = h.quick
    /\ Divided(h.mem, Starts(h), g.mem, b, c, hi)
    /\ g.mem[b] = tag
    /\ b # h.end - 8 /\ b \notin Listed(g.free)
    /\ \A a \in Starts(h) : a > b /\ a < hi => ~IsAllocated(h.mem[a]) /\ a \notin Listed(g.free)
    /\ Filed(g.free, h.mem, Starts(h))
    /\ \A a \in Listed(h.free) : a <= b \/ a >= hi => a \in Listed(g.free) \/ a = b

LEMMA DividedIsOccupied ==
    ASSUME NEW h, NEW g, NEW b, NEW c, NEW hi, NEW tag, Sane(h), DividedHeap(h, g, b, c, hi, tag)
    PROVE  /\ Sane(g) /\ Loose(g, c)
           /\ Taken(g) = Taken(h) \cup {b}
           /\ g.mem[b] = tag /\ \A a \in Taken(h) \ {b} : g.mem[a] = h.mem[a]
           /\ Unfiled(g) \ {c} \subseteq Unfiled(h) \ {b}
<1> DEFINE S == Starts(h)
<1>1. /\ h \in Heaps /\ Tiled(h.mem, h.end, S) /\ Filed(h.free, h.mem, S)
  BY DEF Sane
<1>2. /\ g \in Heaps /\ g.end = h.end
      /\ Divided(h.mem, S, g.mem, b, c, hi)
      /\ g.mem[b] = tag
      /\ b # h.end - 8 /\ b \notin Listed(g.free)
      /\ \A a \in S : a > b /\ a < hi => ~IsAllocated(h.mem[a]) /\ a \notin Listed(g.free)
      /\ Filed(g.free, h.mem, S)
      /\ \A a \in Listed(h.free) : a <= b \/ a >= hi => a \in Listed(g.free) \/ a = b
  BY DEF DividedHeap
<1>3. Rebuilt(h.mem, S, g.mem, b, hi, {b, c})
  BY <1>1, <1>2, DividedIsRebuilt
<1>4. /\ b \in S /\ hi \in S /\ c \in Int /\ c >= b + 32 /\ hi >= c + 32
      /\ IsAllocated(g.mem[b]) /\ ~IsAllocated(g.mem[c])
  BY <1>2 DEF Divided
<1>5. S \subseteq Int
  BY <1>1, TiledFacts
<1>6. \A a \in Listed(g.free) : a \in S
  BY <1>2 DEF Filed, Listed
<1>7. \A a \in Listed(g.free) : a < b \/ a >= hi
  BY <1>2, <1>4, <1>5, <1>6
<1>8. RebuiltHeap(h, g, b, hi, {b, c})
  BY <1>2, <1>3, <1>7 DEF RebuiltHeap
<1>9. /\ Sane(g)
      /\ Starts(g) = Outside(S, b, hi) \cup {b, c}
      /\ \A a \in Outside(S, b, hi) : g.mem[a] = h.mem[a]
      /\ h.end - 8 \in Outside(S, b, hi)
  BY <1>8, RebuiltIsSane
<1> HIDE DEF S
<1>10. c \notin Listed(g.free)
  BY <1>4, <1>5, <1>7
<1>11. Loose(g, c)
  BY <1>4, <1>9, <1>10 DEF Loose, Unused
<1>12. \A a \in S : a = b \/ (a > b /\ a < hi) \/ a \in Outside(S, b, hi)
  BY <1>4, <1>5 DEF Outside
<1>13. \A a : a \in Taken(h) => a = b \/ a \in Outside(S, b, hi)
  BY <1>2, <1>12 DEF Taken, S
<1>14. \A a \in Taken(h) \ {b} : g.mem[a] = h.mem[a]
  BY <1>9, <1>13
<1>15. c \notin Taken(g)
  BY <1>4 DEF Taken
<1>16. \A a : a \in Taken(g) => a = b \/ a \in Taken(h)
  <2> SUFFICES ASSUME NEW a \in Taken(g), a # b PROVE a \in Taken(h)
    OBVIOUS
  <2>1. a \in Outside(S, b, hi) /\ IsAllocated(g.mem[a]) /\ a # h.end - 8
    BY <1>2, <1>9, <1>15 DEF Taken
  <2> QED BY <1>9, <2>1 DEF Taken, Outside, S
<1>17. \A a : a \in Taken(h) \/ a = b => a \in Taken(g)
  <2>1. b \in Taken(g)
    BY <1>2, <1>4, <1>9 DEF Taken
  <2>2. ASSUME NEW a \in Taken(h), a # b PROVE a \in Taken(g)
    <3>1. a \in Outside(S, b, hi) /\ IsAllocated(h.mem[a]) /\ a # h.end - 8
      BY <1>13, <2>2 DEF Taken
    <3> QED BY <1>2, <1>9, <3>1 DEF Taken
  <2> QED BY <2>1, <2>2
<1>18. Taken(g) = Taken(h) \cup {b}
  BY <1>16, <1>17
<1>19. Unfiled(g) \ {c} \subseteq Unfiled(h) \ {b}
  <2> SUFFICES ASSUME NEW a \in Unfiled(g), a # c PROVE a \in Unfiled(h) /\ a # b
    OBVIOUS
  <2>1. a \in Starts(g) /\ ~IsAllocated(g.mem[a]) /\ a \notin Listed(g.free) /\ g.mem[a].size # MinBlock
    BY DEF Unfiled, Unused
  <2>2. a # b
    BY <1>4, <2>1
  <2>3. a \in Outside(S, b, hi) /\ g.mem[a] = h.mem[a]
    BY <1>9, <2>1, <2>2
  <2>4. a \in S /\ (a < b \/ a >= hi) /\ a \in Int
    BY <1>5, <2>3 DEF Outside
  <2>5. a <= b \/ a >= hi
    BY <1>4, <1>5, <2>4
  <2>6. a \notin Listed(h.free)
    BY <1>2, <2>1, <2>2, <2>5
  <2> QED BY <2>1, <2>2, <2>3, <2>4, <2>6 DEF Unfiled, Unused, S
<1> QED BY <1>2, <1>9, <1>11, <1>14, <1>18, <1>19

\* In m the block b of h, free or allocated, is cut in two at c; only the rest has
\* its header yet.  A free block behind it may have lost its flags.
Cut(h, m, b, c) ==
    LET hi == b + h.mem[b].size
        tag == Header(hi - c, {PREV_BLOCK_ALLOCATED})
    IN  /\ Sane(h) /\ b \in Starts(h) /\ b # h.end - 8 /\ b \notin Listed(h.free)
        /\ c \in Int /\ c % 16 = 8 /\ c >= b + 32 /\ hi >= c + 32
        /\ m \in Heaps /\ m.end = h.end /\ m.free = h.free /\ m.quick = h.quick /\ m.events = h.events
        /\ DOMAIN m.mem = DOMAIN h.mem \cup {c, hi - 8}
        /\ m.mem[c] = tag /\ m.mem[hi - 8] = tag
        /\ \A a \in DOMAIN h.mem \ {c, hi - 8, hi} : m.mem[a] = h.mem[a]
        /\ \/ m.mem[hi] = h.mem[hi]
           \/ ~IsAllocated(h.mem[hi]) /\ m.mem[hi] = Header(h.mem[hi].size, {})

LEMMA CutFacts ==
    ASSUME NEW h, NEW m, NEW b, NEW c, Cut(h, m, b, c)
    PROVE  LET hi == b + h.mem[b].size
           IN  /\ h \in Heaps /\ m \in Heaps /\ Sane(h)
               /\ Tiled(h.mem, h.end, Starts(h)) /\ Filed(h.free, h.mem, Starts(h))
               /\ b \in Starts(h) /\ b \in Int /\ b % 16 = 8 /\ b # h.end - 8
               /\ IsBlock(h.mem, Starts(h), b)
               /\ hi \in Starts(h) /\ hi \in Int /\ hi % 16 = 8
               /\ c \in Int /\ c % 16 = 8 /\ c >= b + 32 /\ hi >= c + 32
               /\ hi - c \in Nat /\ (hi - c) % 16 = 0
               /\ \A a \in Starts(h) : a \in Int /\ (a <= b \/ a >= hi)
<1> DEFINE hi == b + h.mem[b].size
<1>1. /\ h \in Heaps /\ m \in Heaps /\ Sane(h)
      /\ Tiled(h.mem, h.end, Starts(h)) /\ Filed(h.free, h.mem, Starts(h))
      /\ b \in Starts(h) /\ b # h.end - 8
      /\ c \in Int /\ c % 16 = 8 /\ c >= b + 32 /\ hi >= c + 32
  BY DEF Cut, Sane
<1>2. b \in Int /\ b % 16 = 8 /\ IsBlock(h.mem, Starts(h), b) /\ h.mem[b].size \in Nat
  BY <1>1, TiledFacts
<1>3. hi \in Starts(h) /\ \A a \in Starts(h) : a <= b \/ a >= hi
  BY <1>2 DEF IsBlock
<1>4. hi \in Int /\ hi % 16 = 8 /\ \A a \in Starts(h) : a \in Int
  BY <1>1, <1>3, TiledFacts
<1> HIDE DEF hi
<1>5. hi - c \in Nat /\ (hi - c) % 16 = 0
  BY <1>1, <1>2, <1>4
<1> QED BY <1>1, <1>2, <1>3, <1>4, <1>5 DEF hi

\* The header of the rest.
LEMMA CutTag ==
    ASSUME NEW n \in Nat, n % 16 = 0
    PROVE  LET tag == Header(n, {PREV_BLOCK_ALLOCATED})
           IN  tag \in Words /\ ~IsAllocated(tag) /\ tag.size = n
<1>1. {PREV_BLOCK_ALLOCATED} \in SUBSET Flags /\ THIS_BLOCK_ALLOCATED \notin {PREV_BLOCK_ALLOCATED}
  BY DEF Flags, PREV_BLOCK_ALLOCATED, THIS_BLOCK_ALLOCATED
<1>2. n - (n % 16) = n
  OBVIOUS
<1> QED BY <1>1, <1>2, HeaderFacts

\* The headers that one meets are the same.
LEMMA CutHeaders ==
    ASSUME NEW h, NEW m, NEW b, NEW c, Cut(h, m, b, c)
    PROVE  /\ \A a \in Starts(h) :
                 /\ a \in DOMAIN m.mem /\ m.mem[a].size = h.mem[a].size
                 /\ IsAllocated(m.mem[a]) <=> IsAllocated(h.mem[a])
                 /\ a # b + h.mem[b].size => m.mem[a] = h.mem[a]
           /\ Starts(m) = Starts(h)
<1> DEFINE hi == b + h.mem[b].size
           S == Starts(h)
<1>1. /\ h \in Heaps /\ m \in Heaps
      /\ Tiled(h.mem, h.end, S)
      /\ b \in S /\ b \in Int /\ b # h.end - 8
      /\ hi \in S /\ hi \in Int /\ hi % 16 = 8
      /\ c \in Int /\ c >= b + 32 /\ hi >= c + 32
      /\ \A a \in S : a \in Int /\ (a <= b \/ a >= hi)
  BY CutFacts
<1>2. /\ m.end = h.end
      /\ DOMAIN m.mem = DOMAIN h.mem \cup {c, hi - 8}
      /\ \A a \in DOMAIN h.mem \ {c, hi - 8, hi} : m.mem[a] = h.mem[a]
      /\ m.mem[hi] = h.mem[hi] \/ (~IsAllocated(h.mem[hi]) /\ m.mem[hi] = Header(h.mem[hi].size, {}))
  BY DEF Cut
<1>3. S \subseteq DOMAIN h.mem /\ \A a \in S : h.mem[a].size \in Nat
  BY <1>1, TiledFacts
<1> HIDE DEF hi, S
<1>4. c \notin S /\ hi - 8 \notin S
  BY <1>1
<1>5. \A a \in S : a \in DOMAIN m.mem /\ (a # hi => m.mem[a] = h.mem[a])
  BY <1>2, <1>3, <1>4
<1>6. m.mem[hi].size = h.mem[hi].size /\ (IsAllocated(m.mem[hi]) <=> IsAllocated(h.mem[hi]))
  <2>1. CASE m.mem[hi] = h.mem[hi]
    BY <2>1
  <2>2. CASE ~IsAllocated(h.mem[hi]) /\ m.mem[hi] = Header(h.mem[hi].size, {})
    <3> DEFINE n == h.mem[hi].size
    <3>1. hi # h.end - 8
      BY <1>1, <2>2, TiledFacts
    <3>2. n \in Nat /\ n % 16 = 0
      BY <1>1, <1>3, <3>1, TiledFacts DEF IsBlock
    <3> HIDE DEF n
    <3>3. Header(n, {}).size = n /\ ~IsAllocated(Header(n, {}))
      BY <3>2, FreeHeaderFacts
    <3> QED BY <2>2, <3>3 DEF n
  <2> QED BY <1>2, <2>1, <2>2
<1>7. \A a \in S : /\ a \in DOMAIN m.mem /\ m.mem[a].size = h.mem[a].size
                   /\ IsAllocated(m.mem[a]) <=> IsAllocated(h.mem[a])
                   /\ a # hi => m.mem[a] = h.mem[a]
  <2> SUFFICES ASSUME NEW a \in S
               PROVE  /\ a \in DOMAIN m.mem /\ m.mem[a].size = h.mem[a].size
                      /\ IsAllocated(m.mem[a]) <=> IsAllocated(h.mem[a])
                      /\ a # hi => m.mem[a] = h.mem[a]
    OBVIOUS
  <2>1. CASE a = hi
    BY <1>5, <1>6, <2>1
  <2>2. CASE a # hi
    BY <1>5, <2>2
  <2> QED BY <2>1, <2>2
<1>8. Walked(h.mem, h.end, S)
  BY <1>1, TiledIsWalked
<1>9. Walked(m.mem, m.end, S)
  BY <1>2, <1>7, <1>8 DEF Walked
<1>10. Starts(m) = S
  BY <1>1, <1>9, WalkedIsStarts
<1> QED BY <1>7, <1>10 DEF hi, S

\* What looks like the footer of a free block in front of c is none.
LEMMA CutFooter ==
    ASSUME NEW h, NEW m, NEW b, NEW c, Cut(h, m, b, c), LooksFree(At(m, c - 8))
    PROVE  FalseFooter(m, c)
<1> DEFINE tag == At(m, c - 8)
           prev == c - tag.size
           S == Starts(h)
           hi == b + h.mem[b].size
<1>1. /\ h \in Heaps /\ m \in Heaps
      /\ Tiled(h.mem, h.end, S)
      /\ b \in S /\ b \in Int
      /\ hi \in S /\ hi \in Int
      /\ c \in Int /\ c >= b + 32 /\ hi >= c + 32
      /\ \A a \in S : a \in Int /\ (a <= b \/ a >= hi)
  BY CutFacts
<1> HIDE DEF hi, S
<1>2. Starts(m) = S /\ \A a \in S : a # hi => m.mem[a] = h.mem[a]
  BY CutHeaders DEF S, hi
<1>3. S \subseteq DOMAIN m.mem
  BY CutHeaders DEF S
<1>4. tag.size \in Nat
  BY <1>1, AtFacts
<1>5. c \notin S
  BY <1>1
<1> HIDE DEF tag
<1> SUFFICES ASSUME prev \in S, At(m, prev) = tag PROVE FALSE
  BY <1>2 DEF FalseFooter, tag
<1>6. prev <= c /\ prev # c /\ prev # hi
  BY <1>1, <1>4, <1>5
<1>7. h.mem[prev] = tag
  BY <1>1, <1>2, <1>3, <1>6, AtFacts
<1>8. ~IsAllocated(tag)
  BY DEF tag, LooksFree, IsAllocated
<1>9. prev # h.end - 8
  BY <1>1, <1>7, <1>8, TiledFacts
<1>10. IsBlock(h.mem, S, prev)
  BY <1>1, <1>9, TiledFacts
<1>11. prev + tag.size \in S
  BY <1>7, <1>10 DEF IsBlock
<1>12. prev + tag.size = c
  BY <1>1, <1>4
<1> QED BY <1>5, <1>11, <1>12

LEMMA CutCoalesce ==
    ASSUME NEW h, NEW m, NEW b, NEW c, Cut(h, m, b, c)
    PROVE  LET hi == b + h.mem[b].size
               rest == hi - c
               r == coalesce(m, rest, c)
           IN  /\ r \in Results /\ m.events \subseteq r.heap.events
               /\ ~Harmed(r.heap) => MergedNone(m, rest, c, r) \/ MergedNext(m, rest, c, r)
<1> DEFINE hi == b + h.mem[b].size
           rest == hi - c
           r == coalesce(m, rest, c)
<1> SUFFICES /\ r \in Results /\ m.events \subseteq r.heap.events
             /\ ~Harmed(r.heap) => MergedNone(m, rest, c, r) \/ MergedNext(m, rest, c, r)
  OBVIOUS
<1>1. m \in Heaps /\ c \in Int /\ hi \in Int /\ hi >= c + 32
  BY CutFacts
<1> HIDE DEF hi
<1>2. rest \in Nat \ {0}
  BY <1>1
<1> HIDE DEF rest
<1>3. /\ r \in Results /\ m.events \subseteq r.heap.events
      /\ ~Harmed(r.heap) =>
            \/ MergedNone(m, rest, c, r)
            \/ MergedPrevious(m, rest, c, r)
            \/ MergedNext(m, rest, c, r)
  BY <1>1, <1>2, CoalesceFields
<1>4. ~MergedPrevious(m, rest, c, r)
  BY CutFooter DEF MergedPrevious
<1> HIDE DEF r
<1> QED BY <1>3, <1>4

\* The words written lie between the new block and the end.
LEMMA CutAlone ==
    ASSUME NEW h, NEW m, NEW b, NEW c, Cut(h, m, b, c),
           ~LooksFree(At(m, b + h.mem[b].size)),
           NEW tag \in Words, IsAllocated(tag), tag.size = c - b
    PROVE  DividedHeap(h, Written(m, {b}, tag), b, c, b + h.mem[b].size, tag)
<1> DEFINE hi == b + h.mem[b].size
           rest == Header(hi - c, {PREV_BLOCK_ALLOCATED})
           g == Written(m, {b}, tag)
           S == Starts(h)
<1>1. /\ h \in Heaps /\ m \in Heaps
      /\ Tiled(h.mem, h.end, S) /\ Filed(h.free, h.mem, S)
      /\ b \in S /\ b \in Int /\ b % 16 = 8 /\ b # h.end - 8
      /\ hi \in S /\ hi \in Int /\ hi % 16 = 8
      /\ c \in Int /\ c % 16 = 8 /\ c >= b + 32 /\ hi >= c + 32
      /\ hi - c \in Nat /\ (hi - c) % 16 = 0
      /\ \A a \in S : a \in Int /\ (a <= b \/ a >= hi)
  BY CutFacts
<1>2. rest \in Words /\ ~IsAllocated(rest) /\ rest.size = hi - c
  BY <1>1, CutTag
<1> HIDE DEF hi, rest
<1>3. /\ m.end = h.end /\ m.free = h.free /\ m.quick = h.quick
      /\ b \notin Listed(h.free)
      /\ DOMAIN m.mem = DOMAIN h.mem \cup {c, hi - 8}
      /\ m.mem[c] = rest /\ m.mem[hi - 8] = rest
      /\ \A a \in DOMAIN h.mem \ {c, hi - 8, hi} : m.mem[a] = h.mem[a]
      /\ m.mem[hi] = h.mem[hi] \/ m.mem[hi] = Header(h.mem[hi].size, {})
  BY DEF Cut, hi, rest
<1>4. m.mem[hi] = h.mem[hi]
  <2> DEFINE n == h.mem[hi].size
  <2>1. hi \in DOMAIN m.mem /\ At(m, hi) = m.mem[hi]
    BY <1>1, CutHeaders, AtFacts DEF S
  <2>2. ~LooksFree(m.mem[hi])
    BY <2>1 DEF hi
  <2>3. n \in Nat /\ n % 16 = 0
    BY <1>1, TiledFacts DEF IsBlock
  <2> HIDE DEF n
  <2>4. LooksFree(Header(n, {}))
    BY <2>3 DEF Header, LooksFree, Align
  <2> QED BY <1>3, <2>2, <2>4 DEF n
<1>5. /\ g \in Heaps /\ g.end = m.end /\ g.free = m.free /\ g.quick = m.quick
      /\ Overwritten(g.mem, m.mem, {b}, tag)
  <2>1. {b} \in SUBSET Int
    BY <1>1
  <2> QED BY <1>1, <2>1, WrittenFields
<1> HIDE DEF g, S
<1>6. /\ DOMAIN g.mem = DOMAIN h.mem \cup {b, c, hi - 8}
      /\ g.mem[b] = tag /\ g.mem[c] = rest /\ g.mem[hi - 8] = rest
      /\ \A a \in DOMAIN h.mem \ {b, c, hi - 8} : g.mem[a] = h.mem[a]
  <2>1. c # b /\ hi - 8 # b
    BY <1>1
  <2>2. \A a \in DOMAIN h.mem \ {c, hi - 8} : m.mem[a] = h.mem[a]
    BY <1>3, <1>4
  <2> QED BY <1>3, <1>5, <2>1, <2>2 DEF Overwritten
<1>7. Divided(h.mem, S, g.mem, b, c, hi)
  <2>1. g.mem \in Memories
    BY <1>5 DEF Heaps
  <2>2. \A a \in Int : a < b \/ a >= hi =>
          (a \in DOMAIN g.mem <=> a \in DOMAIN h.mem) /\ (a \in DOMAIN h.mem => g.mem[a] = h.mem[a])
    BY <1>1, <1>6
  <2>3. \A a \in DOMAIN g.mem : a >= b /\ a < hi /\ a % 16 = 0 => ~IsAllocated(g.mem[a])
    <3> SUFFICES ASSUME NEW a \in DOMAIN g.mem, a % 16 = 0 PROVE ~IsAllocated(g.mem[a])
      OBVIOUS
    <3>1. CASE a \in {c, hi - 8}
      BY <1>2, <1>6, <3>1
    <3>2. CASE a \notin {c, hi - 8}
      <4>1. a # b
        BY <1>1
      <4>2. a \in DOMAIN h.mem /\ g.mem[a] = h.mem[a]
        BY <1>6, <3>2, <4>1
      <4> QED BY <1>1, <4>2 DEF Tiled
    <3> QED BY <3>1, <3>2
  <2>4. ASSUME NEW a \in DOMAIN g.mem \ {b, c}, a >= b, a < hi, a % 16 = 8 PROVE Spent(g.mem[a])
    <3>1. a # hi - 8
      BY <1>1, <2>4
    <3>2. a \in DOMAIN h.mem /\ g.mem[a] = h.mem[a]
      BY <1>6, <3>1
    <3>3. a \in Int /\ a > b /\ a >= FirstBlock
      BY <1>1, <2>4, <3>2, MemoryFacts, TiledFacts DEF Tiled, FirstBlock
    <3>4. a \notin S
      BY <1>1, <2>4, <3>3
    <3> QED BY <1>1, <2>4, <3>2, <3>3, <3>4 DEF Tiled
  <2> QED BY <1>1, <1>2, <1>6, <2>1, <2>2, <2>3, <2>4 DEF Divided
<1>8. \A a \in S : a > b /\ a < hi => FALSE
  BY <1>1
<1>9. DividedHeap(h, g, b, c, hi, tag)
  BY <1>1, <1>3, <1>5, <1>6, <1>7, <1>8 DEF DividedHeap, S
<1> QED BY <1>9 DEF g, hi

\* The rest is merged with the block behind it.
LEMMA CutWithNext ==
    ASSUME NEW h, NEW m, NEW b, NEW c, Cut(h, m, b, c),
           LooksFree(At(m, b + h.mem[b].size)),
           NEW tag \in Words, IsAllocated(tag), tag.size = c - b
    PROVE  LET hi == b + h.mem[b].size
           IN  DividedHeap(h, Written(WithNext(m, hi - c, c), {b}, tag), b, c, hi + h.mem[hi].size, tag)
<1> DEFINE hi == b + h.mem[b].size
           rest == Header(hi - c, {PREV_BLOCK_ALLOCATED})
           top == hi + h.mem[hi].size
           whole == Header(hi - c + At(m, hi).size, {})
           p == WithNext(m, hi - c, c)
           g == Written(p, {b}, tag)
           S == Starts(h)
<1>1. /\ h \in Heaps /\ m \in Heaps
      /\ Tiled(h.mem, h.end, S) /\ Filed(h.free, h.mem, S)
      /\ b \in S /\ b \in Int /\ b % 16 = 8 /\ b # h.end - 8
      /\ hi \in S /\ hi \in Int /\ hi % 16 = 8
      /\ c \in Int /\ c % 16 = 8 /\ c >= b + 32 /\ hi >= c + 32
      /\ hi - c \in Nat /\ (hi - c) % 16 = 0
      /\ \A a \in S : a \in Int /\ (a <= b \/ a >= hi)
  BY CutFacts
<1>2. rest \in Words /\ ~IsAllocated(rest)
  BY <1>1, CutTag
<1>3. /\ m.end = h.end /\ m.free = h.free /\ m.quick = h.quick
      /\ b \notin Listed(h.free)
      /\ DOMAIN m.mem = DOMAIN h.mem \cup {c, hi - 8}
      /\ m.mem[c] = rest /\ m.mem[hi - 8] = rest
      /\ \A a \in DOMAIN h.mem \ {c, hi - 8, hi} : m.mem[a] = h.mem[a]
  BY DEF Cut
<1>4. LooksFree(At(m, hi))
  OBVIOUS
<1>5. hi \in DOMAIN m.mem /\ At(m, hi) = m.mem[hi] /\ m.mem[hi].size = h.mem[hi].size
      /\ (IsAllocated(m.mem[hi]) <=> IsAllocated(h.mem[hi]))
  BY <1>1, CutHeaders, AtFacts
<1> HIDE DEF hi, rest
<1>6. ~IsAllocated(h.mem[hi])
  BY <1>4, <1>5 DEF LooksFree, IsAllocated
<1>7. hi # h.end - 8
  BY <1>1, <1>6, TiledFacts
<1>8. /\ h.mem[hi].size \in Nat /\ h.mem[hi].size >= 32 /\ h.mem[hi].size % 16 = 0
      /\ top \in S /\ \A a \in S : a <= hi \/ a >= top
  <2>1. h.mem[hi] \in Words /\ h.mem[hi].size \in Nat /\ IsBlock(h.mem, S, hi)
    BY <1>1, <1>7, TiledFacts
  <2> QED BY <2>1 DEF IsBlock
<1>9. whole \in Words /\ ~IsAllocated(whole) /\ whole.size = top - c
  <2> DEFINE n == hi - c + h.mem[hi].size
  <2>1. n \in Nat /\ n % 16 = 0 /\ n = top - c
    BY <1>1, <1>8
  <2>2. whole = Header(n, {})
    BY <1>5
  <2> HIDE DEF n
  <2>3. Header(n, {}) \in Words /\ ~IsAllocated(Header(n, {})) /\ Header(n, {}).size = n
    BY <2>1, FreeHeaderFacts
  <2> QED BY <2>1, <2>2, <2>3
<1>10. /\ p \in Heaps /\ p.end = m.end /\ p.quick = m.quick
       /\ Overwritten(p.mem, m.mem, {c, Footer(c, whole.size)}, whole)
       /\ \A mem, T : Filed(m.free, mem, T) /\ mem[c + (hi - c)].size = At(m, c + (hi - c)).size =>
             /\ Filed(p.free, mem, T)
             /\ Listed(p.free) = Listed(m.free) \ {c + (hi - c)}
  <2>1. c + (hi - c) = hi
    BY <1>1
  <2> DEFINE n == hi - c
  <2>2. n \in Nat /\ LooksFree(At(m, c + n)) /\ whole = Header(n + At(m, c + n).size, {})
    BY <1>1, <1>4, <2>1
  <2>3. p = WithNext(m, n, c)
    OBVIOUS
  <2> HIDE DEF n, whole, p
  <2>4. /\ p \in Heaps /\ p.end = m.end /\ p.quick = m.quick
        /\ Overwritten(p.mem, m.mem, {c, Footer(c, whole.size)}, whole)
        /\ \A mem, T : Filed(m.free, mem, T) /\ mem[c + n].size = At(m, c + n).size =>
              /\ Filed(p.free, mem, T)
              /\ Listed(p.free) = Listed(m.free) \ {c + n}
    BY <1>1, <2>2, <2>3, WithNextFields, ZenonT(40)
  <2> QED BY <2>4 DEF n
<1> HIDE DEF whole, p
<1>11. Footer(c, whole.size) = top - 8
  BY <1>1, <1>8, <1>9 DEF Footer
<1>12. Filed(p.free, h.mem, S) /\ Listed(p.free) = Listed(h.free) \ {hi}
  <2>1. c + (hi - c) = hi
    BY <1>1
  <2>2. h.mem[hi].size = At(m, hi).size
    BY <1>5
  <2> QED BY <1>1, <1>3, <1>10, <2>1, <2>2
<1>13. /\ g \in Heaps /\ g.end = p.end /\ g.free = p.free /\ g.quick = p.quick
       /\ Overwritten(g.mem, p.mem, {b}, tag)
  <2>1. {b} \in SUBSET Int
    BY <1>1
  <2> QED BY <1>10, <2>1, WrittenFields
<1> HIDE DEF g, S
<1>14. top \in Int /\ top >= hi + 32
  BY <1>1, <1>8
<1> HIDE DEF top
<1>15. /\ DOMAIN g.mem = DOMAIN h.mem \cup {b, c, hi - 8, top - 8}
       /\ g.mem[b] = tag /\ g.mem[c] = whole /\ g.mem[top - 8] = whole /\ g.mem[hi - 8] = rest
       /\ \A a \in DOMAIN h.mem \ {b, c, hi - 8, hi, top - 8} : g.mem[a] = h.mem[a]
       /\ g.mem[hi] = m.mem[hi]
  <2>1. c # b /\ hi - 8 # b /\ top - 8 # b /\ hi - 8 # c /\ hi - 8 # top - 8
    BY <1>1, <1>14
  <2>2. /\ DOMAIN p.mem = DOMAIN h.mem \cup {c, hi - 8, top - 8}
        /\ p.mem[c] = whole /\ p.mem[top - 8] = whole /\ p.mem[hi - 8] = rest
        /\ \A a \in DOMAIN h.mem \ {c, hi - 8, hi, top - 8} : p.mem[a] = h.mem[a]
    BY <1>3, <1>10, <1>11, <2>1 DEF Overwritten
  <2>3. g.mem[hi] = m.mem[hi]
    <3>1. hi # c /\ hi # top - 8 /\ hi # b
      BY <1>1, <1>14
    <3>2. p.mem[hi] = m.mem[hi] /\ hi \in DOMAIN p.mem
      BY <1>5, <1>10, <1>11, <3>1 DEF Overwritten
    <3> QED BY <1>13, <3>1, <3>2 DEF Overwritten
  <2> QED BY <1>13, <2>1, <2>2, <2>3 DEF Overwritten
<1>16. Divided(h.mem, S, g.mem, b, c, top)
  <2>1. g.mem \in Memories
    BY <1>13 DEF Heaps
  <2>2. \A a \in Int : a < b \/ a >= top =>
          (a \in DOMAIN g.mem <=> a \in DOMAIN h.mem) /\ (a \in DOMAIN h.mem => g.mem[a] = h.mem[a])
    BY <1>1, <1>14, <1>15
  <2>3. \A a \in DOMAIN g.mem : a >= b /\ a < top /\ a % 16 = 0 => ~IsAllocated(g.mem[a])
    <3> SUFFICES ASSUME NEW a \in DOMAIN g.mem, a % 16 = 0 PROVE ~IsAllocated(g.mem[a])
      OBVIOUS
    <3>1. CASE a \in {c, hi - 8, top - 8}
      BY <1>2, <1>9, <1>15, <3>1
    <3>2. CASE a \notin {c, hi - 8, top - 8}
      <4>1. a # b /\ a # hi
        BY <1>1
      <4>2. a \in DOMAIN h.mem /\ g.mem[a] = h.mem[a]
        BY <1>15, <3>2, <4>1
      <4> QED BY <1>1, <4>2 DEF Tiled
    <3> QED BY <3>1, <3>2
  <2>4. top >= c + 32
    BY <1>1, <1>14
  <2>5. top \in S
    BY <1>8 DEF top
  <2>6. ASSUME NEW a \in DOMAIN g.mem \ {b, c}, a >= b, a < top, a % 16 = 8 PROVE Spent(g.mem[a])
    <3>1. CASE a = hi
      BY <1>5, <1>6, <1>8, <1>15, <3>1 DEF Spent
    <3>2. CASE a # hi
      <4>1. a # hi - 8 /\ a # top - 8
        <5>1. top % 16 = 8
          BY <1>1, <2>5, TiledFacts
        <5> QED BY <1>1, <1>14, <2>6, <5>1
      <4>2. a \in DOMAIN h.mem /\ g.mem[a] = h.mem[a]
        BY <1>15, <3>2, <4>1
      <4>3. a \in Int /\ a > b /\ a >= FirstBlock
        BY <1>1, <2>6, <4>2, MemoryFacts, TiledFacts DEF Tiled, FirstBlock
      <4>4. \A x \in S : x <= hi \/ x >= top
        BY <1>8 DEF top
      <4>5. a \notin S
        BY <1>1, <1>14, <2>6, <3>2, <4>3, <4>4
      <4> QED BY <1>1, <2>6, <4>2, <4>3, <4>5 DEF Tiled
    <3> QED BY <3>1, <3>2
  <2> QED BY <1>1, <1>9, <1>14, <1>15, <2>1, <2>2, <2>3, <2>4, <2>5, <2>6 DEF Divided
<1>17. \A a \in S : a > b /\ a < top => a = hi
  <2>1. \A a \in S : a <= hi \/ a >= top
    BY <1>8 DEF top
  <2> QED BY <1>1, <1>14, <2>1
<1>18. \A a \in Listed(h.free) : a <= b \/ a >= top => a \in Listed(g.free) \/ a = b
  BY <1>1, <1>12, <1>13, <1>14
<1>19. DividedHeap(h, g, b, c, top, tag)
  BY <1>1, <1>3, <1>6, <1>10, <1>12, <1>13, <1>15, <1>16, <1>17, <1>18 DEF DividedHeap, S
<1> QED BY <1>19 DEF g, p, top, hi

LEMMA SameHeap ==
    ASSUME NEW g \in Heaps, NEW h \in Heaps,
           g.mem = h.mem, g.end = h.end, g.free = h.free, g.quick = h.quick, g.events = h.events
    PROVE  g = h
BY DEF Heaps

\* A header that is written elsewhere may as well be written before.
LEMMA PlacingCommutes ==
    ASSUME NEW p \in Heaps, NEW size, NEW c \in Int, NEW b \in Int, b # c, NEW tag \in Words
    PROVE  Written(placeFreeBlock(p, size, c), {b}, tag) = placeFreeBlock(Written(p, {b}, tag), size, c)
<1> DEFINE placed == placeFreeBlock(p, size, c)
           g == Written(placed, {b}, tag)
           marked == Written(p, {b}, tag)
           f == placeFreeBlock(marked, size, c)
<1>1. {b} \in SUBSET Int
  OBVIOUS
<1>2. /\ placed \in Heaps
      /\ placed.mem = p.mem /\ placed.end = p.end /\ placed.quick = p.quick
      /\ \A i \in FreeLists :
            placed.free[i] = IF i \in FreeListOf(size) THEN Prefixed(c, p.free[i]) ELSE p.free[i]
  BY PlacedFields
<1>3. placed.events = IF Misfiled(p, size, c) THEN p.events \cup {"misfiled"} ELSE p.events
  BY PlacedEvents
<1> HIDE DEF placed
<1>4. /\ g \in Heaps
      /\ g.end = placed.end /\ g.free = placed.free /\ g.quick = placed.quick /\ g.events = placed.events
      /\ Overwritten(g.mem, p.mem, {b}, tag)
  BY <1>1, <1>2, WrittenFields
<1>5. /\ marked \in Heaps
      /\ marked.end = p.end /\ marked.free = p.free /\ marked.quick = p.quick /\ marked.events = p.events
      /\ Overwritten(marked.mem, p.mem, {b}, tag)
  BY <1>1, WrittenFields
<1> HIDE DEF g, marked
<1>6. /\ f \in Heaps
      /\ f.mem = marked.mem /\ f.end = marked.end /\ f.quick = marked.quick
      /\ \A i \in FreeLists :
            f.free[i] = IF i \in FreeListOf(size) THEN Prefixed(c, marked.free[i]) ELSE marked.free[i]
  BY <1>5, PlacedFields
<1>7. f.events = IF Misfiled(marked, size, c) THEN marked.events \cup {"misfiled"} ELSE marked.events
  BY <1>5, PlacedEvents
<1> HIDE DEF f
<1>8. g.mem = f.mem
  <2>1. g.mem \in Memories /\ f.mem \in Memories
    BY <1>4, <1>6 DEF Heaps
  <2>2. g.mem = [a \in DOMAIN g.mem |-> g.mem[a]] /\ f.mem = [a \in DOMAIN f.mem |-> f.mem[a]]
    BY <2>1, MemoryFacts
  <2>3. DOMAIN g.mem = DOMAIN f.mem
    BY <1>4, <1>5, <1>6 DEF Overwritten
  <2>4. \A a \in DOMAIN g.mem : g.mem[a] = f.mem[a]
    BY <1>4, <1>5, <1>6 DEF Overwritten
  <2> QED BY <2>2, <2>3, <2>4
<1>9. g.free = f.free
  <2>1. g.free \in [FreeLists -> Seq(Int)] /\ f.free \in [FreeLists -> Seq(Int)]
    BY <1>4, <1>6 DEF Heaps
  <2>2. \A i \in FreeLists : g.free[i] = f.free[i]
    BY <1>2, <1>4, <1>5, <1>6
  <2> QED BY <2>1, <2>2
<1>10. At(p, c) = At(marked, c)
  BY <1>5 DEF At, Overwritten
<1>11. g.events = f.events
  BY <1>3, <1>4, <1>5, <1>7, <1>10 DEF Misfiled
<1>12. g = f
  BY <1>2, <1>4, <1>5, <1>6, <1>8, <1>9, <1>11, SameHeap
<1> QED BY <1>12 DEF g, f, placed, marked

\* The front of a block is allocated, and the rest set free.
LEMMA CutSettles ==
    ASSUME NEW h, NEW m, NEW b, NEW c, Cut(h, m, b, c),
           NEW tag \in Words, IsAllocated(tag), tag.size = c - b
    PROVE  LET hi == b + h.mem[b].size
               g == Written(Release(m, hi - c, c), {b}, tag)
           IN  /\ g \in Heaps /\ h.events \subseteq g.events
               /\ ~Harmed(g) => Occupied(h, b, tag, g)
<1> DEFINE hi == b + h.mem[b].size
           rest == hi - c
           r == coalesce(m, rest, c)
           x == IF r.block # NULL THEN r.block ELSE c
           placed == placeFreeBlock(r.heap, rest, x)
           g == Written(placed, {b}, tag)
<1> SUFFICES /\ g \in Heaps /\ h.events \subseteq g.events
             /\ ~Harmed(g) => Occupied(h, b, tag, g)
  BY DEF Release, placeMerged
<1>1. /\ h \in Heaps /\ m \in Heaps /\ b \in Int /\ b >= 0 /\ c \in Int /\ c >= b + 32
  <2>1. Tiled(h.mem, h.end, Starts(h)) /\ b \in Starts(h)
    BY CutFacts
  <2>2. b >= FirstBlock
    BY <2>1, TiledFacts
  <2> QED BY <2>2, CutFacts DEF FirstBlock
<1>2. /\ r \in Results /\ m.events \subseteq r.heap.events
      /\ ~Harmed(r.heap) => MergedNone(m, rest, c, r) \/ MergedNext(m, rest, c, r)
  BY CutCoalesce
<1>3. m.events = h.events
  BY DEF Cut
<1>4. b # c /\ c # NULL
  BY <1>1 DEF NULL
<1> HIDE DEF r
<1>5. r.heap \in Heaps /\ x \in Int
  BY <1>1, <1>2 DEF Results
<1> HIDE DEF x
<1>6. placed \in Heaps /\ r.heap.events \subseteq placed.events
  <2>1. placed \in Heaps
    BY <1>5, PlacedFields
  <2>2. placed.events = IF Misfiled(r.heap, rest, x) THEN r.heap.events \cup {"misfiled"} ELSE r.heap.events
    BY <1>5, PlacedEvents
  <2> HIDE DEF placed
  <2> QED BY <2>1, <2>2
<1> HIDE DEF placed
<1>7. g \in Heaps /\ g.events = placed.events
  <2>1. {b} \in SUBSET Int
    BY <1>1
  <2> QED BY <1>6, <2>1, WrittenFields
<1>8. h.events \subseteq g.events
  BY <1>2, <1>3, <1>6, <1>7
<1> HIDE DEF g
<1>9. ASSUME ~Harmed(g), NEW p \in Heaps, p = r.heap, r.block \in {NULL, c}, NEW top,
             DividedHeap(h, Written(p, {b}, tag), b, c, top, tag)
      PROVE  Occupied(h, b, tag, g)
  <2> DEFINE f == Written(p, {b}, tag)
  <2>1. x = c
    BY <1>4, <1>9 DEF x
  <2>2. g = Written(placeFreeBlock(p, rest, c), {b}, tag)
    BY <1>9, <2>1 DEF g, placed
  <2>3. g = placeFreeBlock(f, rest, c)
    BY <1>1, <1>4, <2>2, PlacingCommutes
  <2>4. f.end = h.end /\ f.quick = h.quick
    BY <1>9 DEF DividedHeap
  <2>5. Sane(h)
    BY DEF Cut
  <2> HIDE DEF f, rest
  <2>6. /\ Sane(f) /\ Loose(f, c)
        /\ Taken(f) = Taken(h) \cup {b}
        /\ f.mem[b] = tag /\ \A a \in Taken(h) \ {b} : f.mem[a] = h.mem[a]
        /\ Unfiled(f) \ {c} \subseteq Unfiled(h) \ {b}
    BY <1>9, <2>5, DividedIsOccupied DEF f
  <2>7. Settled(f, c, g)
    BY <1>9, <2>3, <2>6, PlacingSettles
  <2>8. /\ Sane(g) /\ g.end = f.end /\ g.quick = f.quick
        /\ Taken(g) = Taken(f) /\ \A a \in Taken(f) : g.mem[a] = f.mem[a]
        /\ Unfiled(g) \subseteq Unfiled(f) \ {c}
    BY <2>7 DEF Settled, SameTaken
  <2>9. g.mem[b] = tag /\ \A a \in Taken(h) \ {b} : g.mem[a] = h.mem[a]
    BY <2>6, <2>8
  <2> QED BY <2>4, <2>6, <2>8, <2>9 DEF Occupied
<1>10. ASSUME ~Harmed(g) PROVE Occupied(h, b, tag, g)
  <2>1. ~Harmed(r.heap)
    BY <1>6, <1>7, <1>10 DEF Harmed
  <2>2. c + rest = hi
    BY CutFacts
  <2>3. CASE MergedNone(m, rest, c, r)
    <3>1. r.heap = m /\ r.block = NULL /\ ~LooksFree(At(m, hi))
      BY <2>2, <2>3 DEF MergedNone, Result
    <3>2. DividedHeap(h, Written(m, {b}, tag), b, c, hi, tag)
      BY <3>1, CutAlone
    <3> QED BY <1>1, <1>9, <1>10, <3>1, <3>2
  <2>4. CASE MergedNext(m, rest, c, r)
    <3>1. r.heap = WithNext(m, rest, c) /\ r.block = c /\ LooksFree(At(m, hi))
      BY <2>2, <2>4 DEF MergedNext, Result
    <3>2. DividedHeap(h, Written(WithNext(m, rest, c), {b}, tag), b, c, hi + h.mem[hi].size, tag)
      BY <3>1, CutWithNext
    <3> HIDE DEF hi, rest
    <3> QED BY <1>5, <1>9, <1>10, <3>1, <3>2
  <2> QED BY <1>2, <2>1, <2>3, <2>4
<1> QED BY <1>7, <1>8, <1>10

-----------------------------------------------------------------------------
(* A block is found in the free lists. *)

LEMMA UnlinkedAt ==
    ASSUME NEW s \in Seq(Int), IsInjective(s), NEW k \in DOMAIN s
    PROVE  RemoveAt(s, k) = Unlinked(s, s[k])
<1>1. s[k] \in ToSet(s)
  BY DEF ToSet
<1> DEFINE j == CHOOSE j \in DOMAIN s : s[j] = s[k]
<1>2. j \in DOMAIN s /\ s[j] = s[k]
  OBVIOUS
<1>3. Unlinked(s, s[k]) = RemoveAt(s, j)
  BY <1>1 DEF Unlinked
<1> HIDE DEF j
<1>4. j = k
  BY <1>2 DEF IsInjective
<1> QED BY <1>3, <1>4

LEMMA TakenOut ==
    ASSUME NEW h, Sane(h), NEW i \in FreeLists, NEW k \in DOMAIN h.free[i]
    PROVE  LET b == h.free[i][k]
               u == [h EXCEPT !.free[i] = RemoveAt(@, k)]
           IN  /\ Sane(u) /\ Loose(u, b) /\ u \in Heaps
               /\ u.mem = h.mem /\ u.end = h.end /\ u.quick = h.quick /\ u.events = h.events
               /\ b \in Starts(h) /\ ~IsAllocated(h.mem[b])
               /\ Taken(u) = Taken(h)
               /\ Unfiled(u) \ {b} \subseteq Unfiled(h)
<1> DEFINE b == h.free[i][k]
           list == RemoveAt(h.free[i], k)
           u == [h EXCEPT !.free[i] = list]
<1>1. /\ h \in Heaps /\ Tiled(h.mem, h.end, Starts(h)) /\ Filed(h.free, h.mem, Starts(h))
      /\ h.free \in [FreeLists -> Seq(Int)] /\ h.free[i] \in Seq(Int)
  BY DEF Sane, Heaps
<1>2. b \in ToSet(h.free[i]) /\ IsInjective(h.free[i])
  BY <1>1 DEF Filed, ToSet
<1>3. b \in Starts(h) /\ ~IsAllocated(h.mem[b]) /\ i \in FreeListOf(h.mem[b].size)
  BY <1>1, <1>2 DEF Filed
<1>4. h.mem[b].size \in Nat
  BY <1>1, <1>3, TiledFacts
<1>5. list = Unlinked(h.free[i], b)
  BY <1>1, <1>2, UnlinkedAt
<1> HIDE DEF b
<1>6. list \in Seq(Int) /\ IsInjective(list) /\ ToSet(list) = ToSet(h.free[i]) \ {b}
  BY <1>1, <1>2, <1>5, UnlinkedFacts
<1> HIDE DEF list
<1>7. /\ u \in Heaps
      /\ u.mem = h.mem /\ u.end = h.end /\ u.quick = h.quick /\ u.events = h.events
      /\ u.free[i] = list /\ \A j \in FreeLists \ {i} : u.free[j] = h.free[j]
  BY <1>1, <1>6 DEF Heaps
<1> HIDE DEF u
<1>8. Starts(u) = Starts(h) /\ Tiled(u.mem, u.end, Starts(u))
  BY <1>7, SameMemory
<1>9. \A j \in FreeLists : IsInjective(u.free[j]) /\ ToSet(u.free[j]) \subseteq ToSet(h.free[j])
  BY <1>1, <1>6, <1>7 DEF Filed
<1>10. Filed(u.free, u.mem, Starts(u))
  BY <1>1, <1>7, <1>8, <1>9 DEF Filed
<1>11. Sane(u)
  BY <1>7, <1>8, <1>10 DEF Sane
<1>12. b \notin Listed(u.free)
  <2> SUFFICES ASSUME NEW j \in FreeLists, b \in ToSet(u.free[j]) PROVE FALSE
    BY DEF Listed
  <2>1. j \in FreeListOf(h.mem[b].size)
    BY <1>7, <1>10 DEF Filed
  <2>2. j = i
    BY <1>3, <1>4, <2>1, OneFreeList
  <2> QED BY <1>6, <1>7, <2>2
<1>13. Loose(u, b)
  BY <1>3, <1>7, <1>8, <1>12 DEF Loose, Unused
<1>14. Taken(u) = Taken(h)
  BY <1>7, <1>8 DEF Taken
<1>15. \A a \in Listed(h.free) : a = b \/ a \in Listed(u.free)
  <2> SUFFICES ASSUME NEW j \in FreeLists, NEW a \in ToSet(h.free[j]), a # b PROVE a \in ToSet(u.free[j])
    BY DEF Listed
  <2> QED BY <1>6, <1>7
<1>16. Unfiled(u) \ {b} \subseteq Unfiled(h)
  BY <1>7, <1>8, <1>15 DEF Unfiled, Unused
<1>17. u = [h EXCEPT !.free[i] = RemoveAt(@, k)]
  BY DEF u, list
<1> QED BY <1>3, <1>7, <1>11, <1>13, <1>14, <1>16, <1>17 DEF b, list, u

LEMMA RetaggedIsOccupied ==
    ASSUME NEW h, NEW g, NEW b, NEW tag, Sane(h), Retagged(h, g, b, tag), g.quick = h.quick
    PROVE  Occupied(h, b, tag, g)
<1>1. /\ Sane(g) /\ Starts(g) = Starts(h)
      /\ Taken(g) = Taken(h) \cup {b}
      /\ g.mem[b] = tag /\ \A a \in Starts(h) \ {b} : g.mem[a] = h.mem[a]
      /\ Unfiled(g) \subseteq Unfiled(h) \ {b}
  BY RetaggedIsSane
<1>2. g.end = h.end
  BY DEF Retagged
<1>3. \A a \in Taken(h) \ {b} : g.mem[a] = h.mem[a]
  BY <1>1 DEF Taken
<1> QED BY <1>1, <1>2, <1>3 DEF Occupied

\* The header of a block that is handed out.
AllocatedTag(size, n) ==
    [Header(size, {THIS_BLOCK_ALLOCATED, PREV_BLOCK_ALLOCATED}) EXCEPT !.payload = n]

LEMMA AllocatedTagFacts ==
    ASSUME NEW size \in Nat, size % 16 = 0, NEW n \in Nat
    PROVE  LET tag == AllocatedTag(size, n)
           IN  tag \in Words /\ IsAllocated(tag) /\ tag.size = size /\ tag.payload = n
<1> DEFINE head == Header(size, {THIS_BLOCK_ALLOCATED, PREV_BLOCK_ALLOCATED})
<1>1. {THIS_BLOCK_ALLOCATED, PREV_BLOCK_ALLOCATED} \in SUBSET Flags
  BY DEF Flags
<1>2. size - (size % 16) = size
  OBVIOUS
<1>3. head \in Words /\ head.size = size /\ IsAllocated(head)
  BY <1>1, <1>2, HeaderFacts
<1> HIDE DEF head
<1>4. AllocatedTag(size, n) = [head EXCEPT !.payload = n]
  BY DEF AllocatedTag, head
<1> QED BY <1>3, <1>4 DEF Words, IsAllocated

\* Such a block is allocated, and its rest set free.
LEMMA TakeFreeOccupies ==
    ASSUME NEW h, Sane(h), NEW i \in FreeLists, NEW k \in DOMAIN h.free[i],
           NEW size \in Nat, size >= 32, size % 16 = 0, NEW n \in Nat,
           At(h, h.free[i][k]).size >= size
    PROVE  LET found == TakeFree(h, i, k, size)
               b == found.block
               g == Allocated(found.heap, b, size, n)
           IN  /\ ~found.crash /\ b \in Int /\ b # NULL /\ b \notin Taken(h)
               /\ h.events \subseteq g.events
               /\ ~Harmed(g) => Occupied(h, b, AllocatedTag(size, n), g)
<1> DEFINE b == h.free[i][k]
           u == [h EXCEPT !.free[i] = RemoveAt(@, k)]
           whole == At(h, b).size
           tag == AllocatedTag(size, n)
           found == TakeFree(h, i, k, size)
           split == Split(u, b, whole, size)
           slack == Event(u, "slack", whole > size)
<1>1. /\ Sane(u) /\ Loose(u, b) /\ u \in Heaps
      /\ u.mem = h.mem /\ u.end = h.end /\ u.quick = h.quick /\ u.events = h.events
      /\ b \in Starts(h) /\ ~IsAllocated(h.mem[b])
      /\ Taken(u) = Taken(h)
      /\ Unfiled(u) \ {b} \subseteq Unfiled(h)
  BY TakenOut
<1>2. found = IF whole - size >= MinBlock
              THEN Found(Release(split, whole - size, b + size), b) ELSE Found(slack, b)
  BY DEF TakeFree
<1>3. tag \in Words /\ IsAllocated(tag) /\ tag.size = size
  BY AllocatedTagFacts
<1> HIDE DEF u, tag, found
<1>4. found.block = b /\ ~found.crash
  BY <1>2 DEF Found
<1>5. /\ b \in Starts(u) /\ b \in Int /\ b # u.end - 8 /\ b \notin Listed(u.free)
      /\ Tiled(u.mem, u.end, Starts(u)) /\ ~IsAllocated(u.mem[b])
  BY <1>1, LooseFacts
<1>6. whole = u.mem[b].size /\ whole \in Nat /\ whole % 16 = 0 /\ b % 16 = 8 /\ b >= FirstBlock
  <2>1. h \in Heaps /\ b \in DOMAIN h.mem
    BY <1>1, <1>5, TiledFacts DEF Sane
  <2>2. whole = u.mem[b].size
    BY <1>1, <2>1, AtFacts
  <2> QED BY <1>1, <1>5, <2>2, LooseFacts, TiledFacts
<1>7. b # NULL /\ b \notin Taken(h)
  BY <1>1, <1>5, <1>6 DEF FirstBlock, NULL, Taken
<1>8. ASSUME NEW g, Occupied(u, b, tag, g) PROVE Occupied(h, b, tag, g)
  BY <1>1, <1>8 DEF Occupied
<1>9. \A f : Allocated(f, b, size, n) = Written(f, {b}, tag)
  BY DEF Allocated, AllocatedTag, tag
<1> HIDE DEF whole, b
<1>10. CASE whole - size >= MinBlock
  <2> DEFINE c == b + size
             g == Written(Release(split, whole - size, c), {b}, tag)
             rest == Header(whole - size, {PREV_BLOCK_ALLOCATED})
  <2>1. found.heap = Release(split, whole - size, c)
    BY <1>2, <1>10 DEF Found
  <2>2. whole - size \in Nat /\ (whole - size) % 16 = 0 /\ whole - size >= 32
    BY <1>6, <1>10 DEF MinBlock
  <2>3. c \in Int /\ c % 16 = 8 /\ c >= b + 32 /\ b + whole >= c + 32
        /\ b + whole - c = whole - size /\ (b + whole) - c = whole - size
        /\ size = c - b
    BY <1>5, <1>6, <2>2
  <2>4. rest \in Words /\ rest.size = whole - size
    BY <2>2, CutTag
  <2> HIDE DEF rest
  <2>5. Footer(c, rest.size) = b + whole - 8 /\ b + whole - 8 \in Int /\ b + whole \in Int
    BY <1>5, <1>6, <2>3, <2>4 DEF Footer
  <2>6. split = Written(u, {c, b + whole - 8}, rest)
    BY <2>5 DEF Split, Tagged, rest
  <2>7. /\ split \in Heaps
        /\ split.end = u.end /\ split.free = u.free /\ split.quick = u.quick /\ split.events = u.events
        /\ Overwritten(split.mem, u.mem, {c, b + whole - 8}, rest)
    <3>1. {c, b + whole - 8} \in SUBSET Int
      BY <2>3, <2>5
    <3> HIDE DEF split, c
    <3> QED BY <1>1, <2>4, <2>6, <3>1, WrittenFields
  <2> HIDE DEF split, c
  <2>8. Cut(u, split, b, c)
    <3> DEFINE hi == b + u.mem[b].size
    <3>1. hi = b + whole /\ hi - 8 = b + whole - 8
      BY <1>5, <1>6
    <3>2. rest = Header(hi - c, {PREV_BLOCK_ALLOCATED})
      BY <2>3, <3>1 DEF rest
    <3> HIDE DEF hi
    <3>3. /\ DOMAIN split.mem = DOMAIN u.mem \cup {c, hi - 8}
          /\ split.mem[c] = rest /\ split.mem[hi - 8] = rest
          /\ \A a \in DOMAIN u.mem \ {c, hi - 8} : split.mem[a] = u.mem[a]
      BY <2>7, <3>1 DEF Overwritten
    <3>4. hi \in DOMAIN u.mem /\ hi # c /\ hi # hi - 8
      <4>1. IsBlock(u.mem, Starts(u), b)
        BY <1>5, TiledFacts
      <4>2. hi \in Starts(u)
        BY <4>1 DEF IsBlock, hi
      <4> QED BY <1>5, <2>3, <2>5, <3>1, <4>2, TiledFacts
    <3>5. split.mem[hi] = u.mem[hi]
      BY <3>3, <3>4
    <3>6. hi >= c + 32
      BY <2>3, <3>1
    <3> QED BY <1>1, <1>5, <2>3, <2>7, <3>2, <3>3, <3>5, <3>6 DEF Cut, hi
  <2>9. /\ g \in Heaps /\ u.events \subseteq g.events
        /\ ~Harmed(g) => Occupied(u, b, tag, g)
    <3> DEFINE hi == b + u.mem[b].size
    <3>1. hi - c = whole - size
      BY <1>6, <2>3
    <3>2. tag.size = c - b
      BY <1>3, <2>3
    <3>3. LET f == Written(Release(split, hi - c, c), {b}, tag)
          IN  /\ f \in Heaps /\ u.events \subseteq f.events
              /\ ~Harmed(f) => Occupied(u, b, tag, f)
      BY <1>3, <2>8, <3>2, CutSettles
    <3> HIDE DEF hi
    <3> QED BY <3>1, <3>3
  <2>10. Allocated(found.heap, found.block, size, n) = g
    BY <1>4, <1>9, <2>1
  <2> HIDE DEF g
  <2> QED BY <1>1, <1>4, <1>5, <1>7, <1>8, <2>9, <2>10 DEF found, tag
<1>11. CASE ~(whole - size >= MinBlock)
  <2> DEFINE g == Written(slack, {b}, tag)
  <2>1. found.heap = slack
    BY <1>2, <1>11 DEF Found
  <2>2. /\ slack \in Heaps
        /\ slack.mem = u.mem /\ slack.end = u.end /\ slack.free = u.free /\ slack.quick = u.quick
        /\ slack.events = IF whole > size THEN u.events \cup {"slack"} ELSE u.events
    BY <1>1 DEF Event, Heaps, Wrong
  <2> HIDE DEF slack
  <2>3. /\ g \in Heaps
        /\ g.end = slack.end /\ g.free = slack.free /\ g.quick = slack.quick /\ g.events = slack.events
        /\ Overwritten(g.mem, slack.mem, {b}, tag)
    <3>1. {b} \in SUBSET Int
      BY <1>5
    <3> QED BY <1>3, <2>2, <3>1, WrittenFields
  <2> HIDE DEF g
  <2>4. ASSUME ~Harmed(g) PROVE Occupied(u, b, tag, g)
    <3>1. ~(whole > size)
      BY <2>2, <2>3, <2>4 DEF Harmed, Wrong
    <3>2. whole = size
      <4>1. whole >= size
        BY DEF whole, b
      <4> QED BY <1>6, <3>1, <4>1
    <3>3. Retagged(u, g, b, tag)
      BY <1>3, <1>5, <1>6, <2>2, <2>3, <3>2 DEF Retagged
    <3> QED BY <1>1, <2>2, <2>3, <3>3, RetaggedIsOccupied
  <2>5. Allocated(found.heap, found.block, size, n) = g
    BY <1>4, <1>9, <2>1 DEF g
  <2>6. h.events \subseteq g.events
    BY <1>1, <2>2, <2>3
  <2> QED BY <1>4, <1>5, <1>7, <1>8, <2>4, <2>5, <2>6 DEF found, tag
<1> QED BY <1>10, <1>11

-----------------------------------------------------------------------------
(* The heap grows. *)

LEMMA AnyWord ==
    ASSUME NEW h \in Heaps, NEW a
    PROVE  At(h, a) \in Words
<1>1. a \in DOMAIN h.mem => At(h, a) \in Words
  BY AtFacts
<1>2. a \notin DOMAIN h.mem => At(h, a) = Data
  BY DEF At
<1>3. Data \in Words
  BY DEF Data, Words, Flags
<1> QED BY <1>1, <1>2, <1>3

CollapsedTag(h, size, b) == Header(At(h, b - 8).size + size, At(h, b - 8).flags)

LEMMA CollapseFields ==
    ASSUME NEW h \in Heaps, NEW size \in Nat, NEW b \in Int
    PROVE  LET r == collapse(h, size, b)
               tag == CollapsedTag(h, size, b)
               g == r.heap
           IN  /\ r.block = Previous(h, b) /\ r.block \in Int
               /\ g \in Heaps /\ g.end = h.end /\ g.quick = h.quick
               /\ Overwritten(g.mem, h.mem, {Previous(h, b), b + size - 16}, tag)
               /\ g.events = IF FalseFooter(h, b) THEN h.events \cup {"false footer"} ELSE h.events
               /\ \A mem, S : Filed(h.free, mem, S) /\ mem[Previous(h, b)].size = At(h, b - 8).size =>
                     /\ Filed(g.free, mem, S)
                     /\ Listed(g.free) = Listed(h.free) \ {Previous(h, b)}
<1> DEFINE prev == At(h, b - 8)
           at == Previous(h, b)
           k == Event(h, "false footer", FalseFooter(h, b))
           r == removeFreeBlock(k, prev.size, at)
           new == CollapsedTag(h, size, b)
           A == {at, b + size - 16}
           g == Written(r, A, new)
<1>1. collapse(h, size, b) = Result(g, at)
  BY DEF collapse, Previous, CollapsedTag, Align
<1>2. prev \in Words /\ prev.size \in Nat /\ prev.flags \in SUBSET Flags
  BY AnyWord DEF Words
<1>3. new \in Words
  <2>1. prev.size + size \in Nat
    BY <1>2
  <2>2. new = Header(prev.size + size, prev.flags)
    BY DEF CollapsedTag
  <2> HIDE DEF new, prev
  <2> QED BY <1>2, <2>1, <2>2, HeaderFacts
<1> HIDE DEF prev, new
<1>4. at \in Int /\ b + size - 16 \in Int
  BY <1>2 DEF Previous, prev
<1>5. FalseFooter(h, b) \in BOOLEAN /\ "false footer" \in Wrong \cup {"flushed"}
  BY DEF FalseFooter, Wrong
<1>6. /\ k \in Heaps /\ k.mem = h.mem /\ k.end = h.end /\ k.free = h.free /\ k.quick = h.quick
      /\ k.events = IF FalseFooter(h, b) THEN h.events \cup {"false footer"} ELSE h.events
  BY <1>5, EventFields
<1> HIDE DEF k, at
<1>7. r \in Heaps /\ r.mem = k.mem /\ r.end = k.end /\ r.quick = k.quick /\ r.events = k.events
  <2>1. k \in Heaps
    BY <1>6
  <2> QED BY <2>1, RemovedFields
<1>8. ASSUME NEW mem, NEW S, Filed(k.free, mem, S), mem[at].size = prev.size
      PROVE  Filed(r.free, mem, S) /\ Listed(r.free) = Listed(k.free) \ {at}
  <2> DEFINE n == prev.size
  <2>1. k \in Heaps /\ mem[at].size = n
    BY <1>6, <1>8
  <2> HIDE DEF n
  <2>2. Filed(removeFreeBlock(k, n, at).free, mem, S)
        /\ Listed(removeFreeBlock(k, n, at).free) = Listed(k.free) \ {at}
    BY <1>8, <2>1, RemovedOfSize
  <2>3. r = removeFreeBlock(k, n, at)
    BY DEF n
  <2> HIDE DEF r
  <2> QED BY <2>2, <2>3
<1> HIDE DEF r
<1>9. /\ g \in Heaps /\ g.end = r.end /\ g.free = r.free /\ g.quick = r.quick /\ g.events = r.events
      /\ Overwritten(g.mem, r.mem, A, new)
  <2>1. A \in SUBSET Int
    BY <1>4
  <2> HIDE DEF A
  <2> QED BY <1>3, <1>7, <2>1, WrittenFields
<1> HIDE DEF g
<1>10. ASSUME NEW mem, NEW S, Filed(h.free, mem, S), mem[at].size = prev.size
       PROVE  Filed(g.free, mem, S) /\ Listed(g.free) = Listed(h.free) \ {at}
  BY <1>6, <1>8, <1>9, <1>10
<1>11. /\ g \in Heaps /\ g.end = h.end /\ g.quick = h.quick
       /\ g.events = IF FalseFooter(h, b) THEN h.events \cup {"false footer"} ELSE h.events
       /\ Overwritten(g.mem, h.mem, A, new)
  BY <1>6, <1>7, <1>9
<1>12. collapse(h, size, b).heap = g /\ collapse(h, size, b).block = at
  BY <1>1 DEF Result
<1> QED BY <1>4, <1>10, <1>11, <1>12 DEF prev, at, new

\* Pages are whole.
LEMMA GrownFacts ==
    ASSUME NEW h \in Heaps, NEW size \in Nat \ {0}
    PROVE  LET end == Grown(h, size)
               more == PAGE_SZ * PagesFor(size)
           IN  /\ end \in Nat /\ more \in Nat /\ more % 16 = 0 /\ more >= 96
               /\ PAGE_SZ * MaxPages \in Nat /\ PAGE_SZ * MaxPages >= 96 /\ (PAGE_SZ * MaxPages) % 16 = 0
               /\ end = IF h.end + more <= PAGE_SZ * MaxPages THEN h.end + more ELSE PAGE_SZ * MaxPages
<1>1. PAGE_SZ \in Nat /\ PAGE_SZ % 16 = 0 /\ PAGE_SZ >= 96 /\ MaxPages \in Nat /\ MaxPages >= 1
  BY SizesAssumption
<1>2. PICK j \in Nat : PAGE_SZ = 16 * j
  <2>1. PAGE_SZ \div 16 \in Nat /\ PAGE_SZ = 16 * (PAGE_SZ \div 16)
    BY <1>1
  <2> QED BY <2>1
<1>3. ASSUME NEW k \in Nat, k >= 1
      PROVE  PAGE_SZ * k \in Nat /\ (PAGE_SZ * k) % 16 = 0 /\ PAGE_SZ * k >= 96
  <2>1. PAGE_SZ * k = 16 * (j * k) /\ j * k \in Nat
    BY <1>2
  <2>2. \A x \in Nat : (16 * x) % 16 = 0 /\ 16 * x \in Nat
    OBVIOUS
  <2>3. PAGE_SZ * k >= 96
    <3>1. PAGE_SZ * (k - 1) >= 0
      BY <1>1, <1>3
    <3>2. PAGE_SZ * k = PAGE_SZ * (k - 1) + PAGE_SZ
      BY <1>1
    <3> QED BY <1>1, <3>1, <3>2
  <2> QED BY <2>1, <2>2, <2>3
<1> DEFINE k == PagesFor(size)
<1>4. k \in Nat /\ k >= 1
  <2>1. size + PAGE_SZ - 1 >= PAGE_SZ /\ size + PAGE_SZ - 1 \in Nat /\ PAGE_SZ > 0
    BY <1>1
  <2> DEFINE q == (size + PAGE_SZ - 1) \div PAGE_SZ
             r == (size + PAGE_SZ - 1) % PAGE_SZ
  <2>2. q \in Int /\ r \in Int /\ r >= 0 /\ r < PAGE_SZ /\ size + PAGE_SZ - 1 = PAGE_SZ * q + r
    BY <1>1, <2>1
  <2> HIDE DEF q, r
  <2>3. ~(q <= 0)
    <3> SUFFICES ASSUME q <= 0 PROVE FALSE
      OBVIOUS
    <3>1. PAGE_SZ * q <= 0
      BY <1>1, <2>2
    <3> QED BY <1>1, <2>1, <2>2, <3>1
  <2> QED BY <2>2, <2>3 DEF q, PagesFor
<1> HIDE DEF k
<1>5. PAGE_SZ * k \in Nat /\ (PAGE_SZ * k) % 16 = 0 /\ PAGE_SZ * k >= 96
  BY <1>3, <1>4
<1>6. PAGE_SZ * MaxPages \in Nat /\ PAGE_SZ * MaxPages >= 96 /\ (PAGE_SZ * MaxPages) % 16 = 0
  BY <1>1, <1>3
<1>7. h.end \in Nat
  BY DEF Heaps
<1>8. Grown(h, size) = IF h.end + PAGE_SZ * k <= PAGE_SZ * MaxPages THEN h.end + PAGE_SZ * k
                       ELSE PAGE_SZ * MaxPages
  BY DEF Grown, Least, k
<1> QED BY <1>5, <1>6, <1>7, <1>8 DEF k

\* The new memory, before what was the end is merged.
Lengthened(h, end) ==
    LET epilogue == Written([h EXCEPT !.end = end], {end - 8}, Header(0, {THIS_BLOCK_ALLOCATED}))
    IN  Written(epilogue, {h.end - 8, end - Align}, Header(end - h.end + 8, {}))

LEMMA LengthenedFields ==
    ASSUME NEW h \in Heaps, NEW end \in Nat, end >= h.end + 96
    PROVE  LET w == Lengthened(h, end)
               tag == Header(end - h.end + 8, {})
           IN  /\ w \in Heaps /\ w.end = end /\ w.free = h.free /\ w.quick = h.quick /\ w.events = h.events
               /\ DOMAIN w.mem = DOMAIN h.mem \cup {h.end - 8, end - 16, end - 8}
               /\ w.mem[h.end - 8] = tag /\ w.mem[end - 16] = tag
               /\ w.mem[end - 8] = Header(0, {THIS_BLOCK_ALLOCATED})
               /\ \A a \in DOMAIN h.mem \ {h.end - 8, end - 16, end - 8} : w.mem[a] = h.mem[a]
<1> DEFINE tag == Header(end - h.end + 8, {})
           epi == Header(0, {THIS_BLOCK_ALLOCATED})
           longer == [h EXCEPT !.end = end]
           e == Written(longer, {end - 8}, epi)
           w == Written(e, {h.end - 8, end - 16}, tag)
<1>1. w = Lengthened(h, end)
  BY DEF Lengthened, Align
<1>2. h.end \in Nat
  BY DEF Heaps
<1>3. tag \in Words
  <2>1. end - h.end + 8 \in Nat
    BY <1>2
  <2> QED BY <2>1, FreeHeaderFacts
<1>4. epi \in Words
  BY EpilogueFacts
<1> HIDE DEF tag, epi
<1>5. /\ longer \in Heaps
      /\ longer.mem = h.mem /\ longer.end = end /\ longer.free = h.free /\ longer.quick = h.quick
      /\ longer.events = h.events
  BY DEF Heaps
<1> HIDE DEF longer
<1>6. /\ e \in Heaps /\ e.end = end /\ e.free = h.free /\ e.quick = h.quick /\ e.events = h.events
      /\ Overwritten(e.mem, h.mem, {end - 8}, epi)
  <2>1. {end - 8} \in SUBSET Int
    OBVIOUS
  <2> QED BY <1>4, <1>5, <2>1, WrittenFields
<1> HIDE DEF e
<1>7. /\ w \in Heaps /\ w.end = end /\ w.free = h.free /\ w.quick = h.quick /\ w.events = h.events
      /\ Overwritten(w.mem, e.mem, {h.end - 8, end - 16}, tag)
  <2>1. {h.end - 8, end - 16} \in SUBSET Int
    BY <1>2
  <2> QED BY <1>3, <1>6, <2>1, WrittenFields
<1> HIDE DEF w
<1>8. end - 8 # h.end - 8 /\ end - 8 # end - 16
  BY <1>2
<1>9. /\ DOMAIN w.mem = DOMAIN h.mem \cup {h.end - 8, end - 16, end - 8}
      /\ w.mem[h.end - 8] = tag /\ w.mem[end - 16] = tag /\ w.mem[end - 8] = epi
      /\ \A a \in DOMAIN h.mem \ {h.end - 8, end - 16, end - 8} : w.mem[a] = h.mem[a]
  BY <1>6, <1>7, <1>8 DEF Overwritten
<1> QED BY <1>1, <1>7, <1>9 DEF tag, epi

LEMMA LengthenedIsSane ==
    ASSUME NEW h, Sane(h), NEW end \in Nat, end >= h.end + 96, end % 16 = 0
    PROVE  LET w == Lengthened(h, end)
               b == h.end - 8
           IN  /\ Sane(w) /\ Loose(w, b) /\ w.end = end /\ w.quick = h.quick /\ w.events = h.events
               /\ w.mem[b] = Header(end - h.end + 8, {}) /\ w.mem[b].size = end - h.end
               /\ SameTaken(h, w)
               /\ Unfiled(w) \ {b} \subseteq Unfiled(h)
<1> DEFINE w == Lengthened(h, end)
           S == Starts(h)
           b == h.end - 8
<1>1. /\ h \in Heaps /\ h.mem \in Memories /\ Tiled(h.mem, h.end, S) /\ Filed(h.free, h.mem, S)
  BY DEF Sane, Heaps
<1>2. /\ w \in Heaps /\ w.end = end /\ w.free = h.free /\ w.quick = h.quick /\ w.events = h.events
      /\ DOMAIN w.mem = DOMAIN h.mem \cup {h.end - 8, end - 16, end - 8}
      /\ w.mem[h.end - 8] = Header(end - h.end + 8, {}) /\ w.mem[end - 16] = Header(end - h.end + 8, {})
      /\ w.mem[end - 8] = Header(0, {THIS_BLOCK_ALLOCATED})
      /\ \A a \in DOMAIN h.mem \ {h.end - 8, end - 16, end - 8} : w.mem[a] = h.mem[a]
  BY <1>1, LengthenedFields
<1> HIDE DEF w, S
<1>3. w.mem \in Memories
  BY <1>2 DEF Heaps
<1>4. /\ h.end \in Nat /\ h.end % 16 = 0 /\ S \subseteq Int /\ S \subseteq DOMAIN h.mem
      /\ \A a \in S : a % 16 = 8 /\ a <= h.end - 8
      /\ IsAllocated(h.mem[h.end - 8]) /\ b \in S
  <2>1. h.end % 16 = 0 /\ b \in S
    BY <1>1 DEF Tiled
  <2> QED BY <1>1, <2>1, TiledFacts
<1>5. Extended(h.mem, h.end, w.mem, end)
  <2>1. end >= h.end + 32
    BY <1>4
  <2> QED BY <1>2, <1>3, <2>1 DEF Extended
<1>6. /\ Tiled(w.mem, end, S \cup {end - 8})
      /\ w.mem[h.end - 8].size = end - h.end /\ ~IsAllocated(w.mem[h.end - 8])
  BY <1>1, <1>5, ExtendedIsTiled
<1>7. Starts(w) = S \cup {end - 8}
  BY <1>2, <1>6, TiledStarts
<1>8. ASSUME NEW a \in S, a # b PROVE w.mem[a] = h.mem[a]
  <2>1. a # end - 16 /\ a # end - 8
    BY <1>4
  <2> QED BY <1>2, <1>4, <1>8, <2>1
<1>9. \A a \in Listed(h.free) : a \in S /\ a # b
  BY <1>1, <1>4 DEF Filed, Listed
<1>10. Filed(w.free, w.mem, Starts(w))
  <2>1. \A a \in Listed(h.free) : a \in Starts(w) /\ w.mem[a] = h.mem[a]
    BY <1>7, <1>8, <1>9
  <2>2. Filed(h.free, w.mem, Starts(w))
    BY <1>1, <2>1, FiledElsewhere
  <2> QED BY <1>2, <2>2
<1>11. Sane(w)
  BY <1>2, <1>6, <1>7, <1>10 DEF Sane
<1>12. Loose(w, b)
  BY <1>2, <1>4, <1>6, <1>7, <1>9 DEF Loose, Unused
<1>13. end - 8 \notin S
  BY <1>4
<1>14. Taken(w) = Taken(h)
  <2>1. \A a \in Taken(w) : a \in Taken(h)
    BY <1>2, <1>6, <1>7, <1>8 DEF Taken, S
  <2>2. \A a \in Taken(h) : a \in Taken(w)
    BY <1>2, <1>7, <1>8, <1>13 DEF Taken, S
  <2> QED BY <2>1, <2>2
<1>15. SameTaken(h, w)
  BY <1>8, <1>14 DEF SameTaken, Taken, S
<1>16. IsAllocated(w.mem[end - 8])
  BY <1>2, EpilogueFacts
<1>17. Unfiled(w) \ {b} \subseteq Unfiled(h)
  <2> SUFFICES ASSUME NEW a \in Unfiled(w), a # b PROVE a \in Unfiled(h)
    OBVIOUS
  <2>1. a \in S
    BY <1>7, <1>16 DEF Unfiled, Unused
  <2>2. w.mem[a] = h.mem[a]
    BY <1>8, <2>1
  <2> QED BY <1>2, <2>1, <2>2 DEF Unfiled, Unused, S
<1> QED BY <1>2, <1>6, <1>11, <1>12, <1>15, <1>17 DEF w

\* What was the end is merged with the block before it, if that is one.
LEMMA CollapseMerges ==
    ASSUME NEW w, NEW b, Sane(w), Loose(w, b), NEW size \in Nat, size % 16 = 8,
           w.mem[b].size = size - 8, ~FalseFooter(w, b)
    PROVE  LET r == collapse(w, size, b) IN Merged(w, b, r.heap, r.block)
<1> DEFINE prev == At(w, b - 8)
           c == Previous(w, b)
           tag == CollapsedTag(w, size, b)
           g == collapse(w, size, b).heap
           S == Starts(w)
<1>1. /\ w \in Heaps /\ w.mem \in Memories
      /\ Tiled(w.mem, w.end, S) /\ Filed(w.free, w.mem, S)
      /\ b \in S /\ b \in Int /\ b # w.end - 8 /\ IsBlock(w.mem, S, b)
      /\ ~IsAllocated(w.mem[b]) /\ b \notin Listed(w.free)
  BY LooseFacts
<1>2. /\ collapse(w, size, b).block = c
      /\ g \in Heaps /\ g.end = w.end /\ g.quick = w.quick
      /\ Overwritten(g.mem, w.mem, {c, b + size - 16}, tag)
      /\ \A mem, T : Filed(w.free, mem, T) /\ mem[c].size = prev.size =>
            /\ Filed(g.free, mem, T)
            /\ Listed(g.free) = Listed(w.free) \ {c}
  BY <1>1, CollapseFields
<1> HIDE DEF g
<1>3. c \in S /\ At(w, c) = prev /\ c = b - prev.size
  BY DEF FalseFooter, Previous
<1> HIDE DEF S
<1>4. prev = w.mem[c] /\ prev \in Words /\ prev.size \in Nat /\ prev.flags \in SUBSET Flags
  <2>1. prev = w.mem[c]
    BY <1>1, <1>3, TiledFacts, AtFacts
  <2> QED BY <1>1, <2>1, AnyWord DEF Words
<1>5. ~IsAllocated(prev)
  <2>1. CASE b - 8 \in DOMAIN w.mem
    <3>1. (b - 8) % 16 = 0
      BY <1>1, TiledFacts
    <3>2. prev = w.mem[b - 8]
      BY <2>1 DEF At
    <3> QED BY <1>1, <2>1, <3>1, <3>2 DEF Tiled
  <2>2. CASE b - 8 \notin DOMAIN w.mem
    <3>1. prev.flags = {"data"}
      BY <2>2 DEF At, Data
    <3> QED BY <3>1 DEF IsAllocated, THIS_BLOCK_ALLOCATED
  <2> QED BY <2>1, <2>2
<1> HIDE DEF prev, c
<1>6. c # w.end - 8 /\ prev.size >= 32 /\ prev.size % 16 = 0
  <2>1. c # w.end - 8
    BY <1>1, <1>4, <1>5, TiledFacts
  <2>2. IsBlock(w.mem, S, c)
    BY <1>1, <1>3, <2>1, TiledFacts
  <2> QED BY <1>4, <2>1, <2>2 DEF IsBlock
<1>7. tag \in Words /\ ~IsAllocated(tag) /\ tag.size = prev.size + (size - 8)
  <2> DEFINE n == prev.size + size
  <2>1. n \in Nat /\ n % 16 = 8 /\ n - (n % 16) = prev.size + (size - 8)
    BY <1>4, <1>6
  <2>2. tag = Header(n, prev.flags)
    BY DEF CollapsedTag, prev
  <2> HIDE DEF n
  <2>3. /\ Header(n, prev.flags) \in Words
        /\ Header(n, prev.flags).size = n - (n % 16)
        /\ IsAllocated(Header(n, prev.flags)) <=> THIS_BLOCK_ALLOCATED \in prev.flags
    BY <1>4, <2>1, HeaderFacts
  <2>4. THIS_BLOCK_ALLOCATED \notin prev.flags
    BY <1>5 DEF IsAllocated
  <2> HIDE DEF tag
  <2> QED BY <2>1, <2>2, <2>3, <2>4
<1> HIDE DEF tag
<1>8. c \in Int /\ b = c + prev.size /\ Footer(c, tag.size) = b + size - 16
  BY <1>1, <1>3, <1>4, <1>7 DEF Footer
<1>9. Filed(g.free, w.mem, S) /\ Listed(g.free) = Listed(w.free) \ {c}
  BY <1>1, <1>2, <1>4
<1>10. Joined(w, g, c, b, tag)
  <2>1. /\ Listed(g.free) \subseteq Listed(w.free) /\ c \notin Listed(g.free) /\ b \notin Listed(g.free)
        /\ \A a \in Listed(w.free) : a = c \/ a = b \/ a \in Listed(g.free)
    BY <1>1, <1>9
  <2>2. Overwritten(g.mem, w.mem, {c, Footer(c, tag.size)}, tag)
    BY <1>2, <1>8
  <2> QED BY <1>1, <1>2, <1>3, <1>4, <1>5, <1>6, <1>7, <1>8, <1>9, <2>1, <2>2 DEF Joined, S
<1>11. /\ Sane(g) /\ Loose(g, c) /\ SameTaken(w, g)
       /\ Unfiled(g) \ {c} \subseteq Unfiled(w) \ {c, b}
  BY <1>10, TwoBecomeOne
<1>12. Merged(w, b, g, c)
  BY <1>2, <1>11 DEF Merged
<1> QED BY <1>2, <1>12 DEF g, c

Within(h) == h.end <= PAGE_SZ * MaxPages

\* The heap may have grown since, and is whole.
Enlarged(h, g) ==
    /\ Sane(g) /\ Within(g) /\ g.end >= h.end /\ g.quick = h.quick
    /\ SameTaken(h, g)
    /\ Unfiled(g) \subseteq Unfiled(h)

\* extendHeap, from any heap.
LEMMA ExtendFields ==
    ASSUME NEW h \in Heaps, NEW size \in Nat \ {0}
    PROVE  LET r == extendHeap(h, size)
           IN  /\ r.ok \in BOOLEAN /\ r.heap \in Heaps
               /\ h.events \subseteq r.heap.events
<1> DEFINE end == Grown(h, size)
           more == PAGE_SZ * PagesFor(size)
           half == Event([h EXCEPT !.end = end], "half grown", end > h.end)
           b == h.end - 8
           n == end - h.end + 8
           w == Lengthened(h, end)
           q == collapse(w, n, b)
           g == placeFreeBlock(q.heap, At(q.heap, q.block).size, q.block)
           r == extendHeap(h, size)
<1>1. r = IF end - h.end < more THEN [ok |-> FALSE, heap |-> half] ELSE [ok |-> TRUE, heap |-> g]
  BY DEF extendHeap, placeBySize, Lengthened
<1>2. h.end \in Nat /\ end \in Nat /\ more \in Nat /\ more >= 96
  BY GrownFacts DEF Heaps
<1> HIDE DEF r, end, more
<1>3. CASE end - h.end < more
  <2>1. half \in Heaps /\ h.events \subseteq half.events
    BY <1>2 DEF Event, Heaps, Wrong
  <2> HIDE DEF half
  <2> QED BY <1>1, <1>3, <2>1 DEF r
<1>4. CASE ~(end - h.end < more)
  <2>1. end >= h.end + 96 /\ n \in Nat /\ b \in Int
    BY <1>2, <1>4
  <2>2. w \in Heaps /\ w.events = h.events
    BY <1>2, <2>1, LengthenedFields
  <2> HIDE DEF w, n, b
  <2>3. q.block \in Int /\ q.heap \in Heaps
        /\ q.heap.events = IF FalseFooter(w, b) THEN w.events \cup {"false footer"} ELSE w.events
    BY <2>1, <2>2, CollapseFields
  <2> HIDE DEF q
  <2>4. g \in Heaps
    BY <2>3, PlacedFields
  <2> DEFINE other == At(q.heap, q.block).size
  <2>5. g.events = IF Misfiled(q.heap, other, q.block) THEN q.heap.events \cup {"misfiled"} ELSE q.heap.events
    BY <2>3, PlacedEvents
  <2> HIDE DEF g
  <2>6. h.events \subseteq g.events
    BY <2>2, <2>3, <2>5
  <2> QED BY <1>1, <1>4, <2>4, <2>6 DEF r
<1> QED BY <1>3, <1>4

LEMMA ExtendIsSane ==
    ASSUME NEW h, Sane(h), Within(h), NEW size \in Nat \ {0}
    PROVE  LET r == extendHeap(h, size)
           IN  ~Harmed(r.heap) => Enlarged(h, r.heap)
<1> DEFINE end == Grown(h, size)
           more == PAGE_SZ * PagesFor(size)
           longer == [h EXCEPT !.end = end]
           half == Event(longer, "half grown", end > h.end)
           b == h.end - 8
           n == end - h.end + 8
           w == Lengthened(h, end)
           q == collapse(w, n, b)
           g == placeFreeBlock(q.heap, At(q.heap, q.block).size, q.block)
           r == extendHeap(h, size)
<1>1. r = IF end - h.end < more THEN [ok |-> FALSE, heap |-> half] ELSE [ok |-> TRUE, heap |-> g]
  BY DEF extendHeap, placeBySize, Lengthened
<1>2. h \in Heaps /\ h.end \in Nat /\ Tiled(h.mem, h.end, Starts(h)) /\ h.end % 16 = 0
  BY DEF Heaps, Sane, Tiled
<1>3. /\ end \in Nat /\ more \in Nat /\ more % 16 = 0 /\ more >= 96
      /\ PAGE_SZ * MaxPages \in Nat
      /\ end = IF h.end + more <= PAGE_SZ * MaxPages THEN h.end + more ELSE PAGE_SZ * MaxPages
  BY <1>2, GrownFacts
<1>4. end <= PAGE_SZ * MaxPages /\ end >= h.end /\ end <= h.end + more
  BY <1>2, <1>3 DEF Within
<1> HIDE DEF r, end, more
<1>5. CASE end - h.end < more
  <2>1. r.heap = half
    BY <1>1, <1>5
  <2>2. half.events = IF end > h.end THEN h.events \cup {"half grown"} ELSE h.events
    BY <1>2 DEF Event, Heaps
  <2>3. half = IF end > h.end THEN half ELSE longer
    BY DEF Event
  <2> HIDE DEF half
  <2>4. ASSUME ~Harmed(half) PROVE Enlarged(h, half)
    <3>1. ~(end > h.end)
      BY <2>2, <2>4 DEF Harmed, Wrong
    <3>2. end = h.end
      BY <1>2, <1>3, <1>4, <3>1
    <3>3. half = h
      BY <1>2, <2>3, <3>1, <3>2 DEF Heaps
    <3> QED BY <1>2, <3>3 DEF Enlarged, SameTaken
  <2> QED BY <2>1, <2>4 DEF r
<1>6. CASE ~(end - h.end < more)
  <2>1. end = h.end + more /\ end >= h.end + 96 /\ n \in Nat /\ b \in Int
    BY <1>2, <1>3, <1>4, <1>6
  <2>2. end % 16 = 0 /\ n % 16 = 8 /\ n - 8 = end - h.end
    BY <1>2, <1>3, <2>1
  <2>3. /\ Sane(w) /\ Loose(w, b) /\ w.end = end /\ w.quick = h.quick /\ w.events = h.events
        /\ w.mem[b].size = n - 8
        /\ SameTaken(h, w)
        /\ Unfiled(w) \ {b} \subseteq Unfiled(h)
    BY <1>3, <2>1, <2>2, LengthenedIsSane
  <2> HIDE DEF w, n, b
  <2>4. q.block \in Int /\ q.heap \in Heaps
        /\ q.heap.events = IF FalseFooter(w, b) THEN w.events \cup {"false footer"} ELSE w.events
    BY <2>1, <2>3, CollapseFields DEF Sane
  <2> DEFINE other == At(q.heap, q.block).size
  <2>5. ~FalseFooter(w, b) => Merged(w, b, q.heap, q.block)
    BY <2>1, <2>2, <2>3, CollapseMerges
  <2> HIDE DEF q
  <2>6. g.events = IF Misfiled(q.heap, other, q.block) THEN q.heap.events \cup {"misfiled"} ELSE q.heap.events
    BY <2>4, PlacedEvents
  <2>7. r.heap = g
    BY <1>1, <1>6
  <2>8. ASSUME ~Harmed(g) PROVE Enlarged(h, g)
    <3>1. ~FalseFooter(w, b)
      BY <2>4, <2>6, <2>8 DEF Harmed, Wrong
    <3>2. /\ Sane(q.heap) /\ q.heap.end = w.end /\ q.heap.quick = w.quick
          /\ Loose(q.heap, q.block) /\ SameTaken(w, q.heap)
          /\ Unfiled(q.heap) \ {q.block} \subseteq Unfiled(w) \ {b}
      BY <2>5, <3>1 DEF Merged
    <3>3. Settled(q.heap, q.block, g)
      BY <2>8, <3>2, PlacingSettles
    <3> HIDE DEF g
    <3>4. /\ Sane(g) /\ g.end = end /\ g.quick = h.quick /\ SameTaken(h, g)
          /\ Unfiled(g) \subseteq Unfiled(h)
      BY <2>3, <3>2, <3>3 DEF Settled, SameTaken
    <3> QED BY <1>4, <3>4 DEF Enlarged, Within
  <2> HIDE DEF g
  <2> QED BY <2>7, <2>8 DEF r
<1> QED BY <1>5, <1>6

\* The heap after each search.
Searches(h, size) ==
    LET search[n \in 0 .. MaxPages] ==
          IF n = 0 THEN [ok |-> TRUE, heap |-> h]
          ELSE LET so == search[n - 1]
               IN  IF so.ok /\ FirstFit(so.heap, size).is = "none" THEN extendHeap(so.heap, size)
                   ELSE so
    IN  search

\* Any block is large enough for one of no bytes.
LEMMA NothingFits ==
    ASSUME NEW h \in Heaps
    PROVE  FirstFit(h, 0).is # "none"
<1> DEFINE some == {i \in FreeLists : h.free[i] # <<>>}
           first == CHOOSE i \in some : \A j \in some : i <= j
           fits == {k \in DOMAIN h.free[first] : At(h, h.free[first][k]).size >= 0}
           fit == [is |-> "fit", list |-> first, place |-> CHOOSE k \in fits : \A j \in fits : k <= j]
           r == FirstFit(h, 0)
<1>1. r = CASE some = {} -> [is |-> "empty"]
            [] some # {} /\ fits = {} -> [is |-> "none"]
            [] OTHER -> fit
  BY DEF FirstFit
<1>2. NUM_FREE_LISTS \in Nat /\ h.free \in [FreeLists -> Seq(Int)]
  BY SizesAssumption DEF Heaps
<1>3. ASSUME some # {} PROVE fits # {}
  <2>1. some \in SUBSET Nat
    BY <1>2 DEF FreeLists
  <2> HIDE DEF some
  <2>2. \E i \in some : \A j \in some : i <= j
    BY <1>3, <2>1, FirstExists
  <2>3. first \in some
    BY <2>2
  <2> HIDE DEF first
  <2>4. h.free[first] \in Seq(Int) /\ h.free[first] # <<>>
    BY <1>2, <2>3 DEF some
  <2>5. 1 \in DOMAIN h.free[first]
    BY <2>4
  <2>6. At(h, h.free[first][1]).size \in Nat
    BY AtFacts
  <2>7. At(h, h.free[first][1]).size >= 0
    BY <2>6
  <2> QED BY <2>5, <2>7
<1> HIDE DEF some, fits, r
<1>4. CASE some = {}
  <2>1. r = [is |-> "empty"]
    BY <1>1, <1>4
  <2>2. r.is = "empty"
    BY <2>1
  <2> QED BY <2>2 DEF r
<1>5. CASE some # {}
  <2>1. r = fit
    BY <1>1, <1>3, <1>5
  <2>2. r.is = "fit"
    BY <2>1
  <2> QED BY <2>2 DEF r
<1> QED BY <1>4, <1>5

SearchStates == [ok : BOOLEAN, heap : Heaps]
AfterSearch(so, size) ==
    IF so.ok /\ FirstFit(so.heap, size).is = "none" THEN extendHeap(so.heap, size) ELSE so

LEMMA SearchesUnfold ==
    ASSUME NEW h \in Heaps, NEW size \in Nat
    PROVE  LET search == Searches(h, size)
           IN  /\ Searched(h, size) = search[MaxPages]
               /\ search \in [0 .. MaxPages -> SearchStates]
               /\ search[0].heap = h
               /\ \A n \in 1 .. MaxPages : search[n] = AfterSearch(search[n - 1], size)
<1> DEFINE I == 0 .. MaxPages
           V == SearchStates
           rank == [n \in I |-> n]
           E(g, n) == IF n = 0 THEN [ok |-> TRUE, heap |-> h] ELSE AfterSearch(g[n - 1], size)
           H == [n \in I |-> [g \in [I -> V] |-> E(g, n)]]
           search == Searches(h, size)
<1>1. MaxPages \in Nat
  BY SizesAssumption
<1>2. rank \in [I -> Nat] /\ \A n \in I : rank[n] = n /\ rank[n] < MaxPages + 1
  BY <1>1
<1>3. [ok |-> TRUE, heap |-> h] \in V
  BY DEF SearchStates
<1>4. \A n \in I : n # 0 => n - 1 \in I /\ rank[n - 1] < rank[n]
  BY <1>1, <1>2
<1>5. \A so \in V : AfterSearch(so, size) \in V
  <2> SUFFICES ASSUME NEW so \in V, so.ok, FirstFit(so.heap, size).is = "none"
               PROVE  extendHeap(so.heap, size) \in V
    BY DEF AfterSearch
  <2> DEFINE r == extendHeap(so.heap, size)
  <2>1. so.heap \in Heaps
    BY DEF SearchStates
  <2>2. r.ok \in BOOLEAN /\ r.heap \in Heaps
    <3>1. size \in Nat \ {0}
      BY <2>1, NothingFits
    <3> QED BY <2>1, <3>1, ExtendFields
  <2>3. r = [ok |-> r.ok, heap |-> r.heap]
    BY DEF extendHeap
  <2> HIDE DEF r
  <2>4. [ok |-> r.ok, heap |-> r.heap] \in V
    BY <2>2 DEF SearchStates
  <2>5. r \in V
    BY <2>3, <2>4, Zenon
  <2> QED BY <2>5 DEF r
<1>6. \A g \in [I -> V] : \A n \in I : E(g, n) \in V
  BY <1>3, <1>4, <1>5
<1>7. ASSUME NEW n \in I, NEW f, NEW g, \A k \in I : rank[k] < rank[n] => f[k] = g[k]
      PROVE  E(f, n) = E(g, n)
  <2>1. n # 0 => f[n - 1] = g[n - 1]
    BY <1>4, <1>7
  <2> QED BY <2>1
<1>8. search = CHOOSE g : g = [n \in I |-> E(g, n)]
  BY DEF Searches, AfterSearch
<1>9. Searched(h, size) = search[MaxPages]
  BY DEF Searched, Searches
<1> HIDE DEF E, rank
<1>10. H \in [I -> [[I -> V] -> V]] /\ \A n \in I : \A g \in [I -> V] : H[n][g] = E(g, n)
  BY <1>6
<1> HIDE DEF H, I, V
<1>11. PICK f \in [I -> V] : \A n \in I : f[n] = H[n][f]
  <2>1. \A n \in I : \A f, g \in [I -> V] :
          (\A k \in I : rank[k] < rank[n] => f[k] = g[k]) => H[n][f] = H[n][g]
    BY <1>7, <1>10
  <2>2. V # {} /\ MaxPages + 1 \in Nat
    BY <1>1, <1>3
  <2>3. Recursive(I, V, rank, H)
    BY <1>2, <1>10, <2>1, <2>2 DEF Recursive
  <2> QED BY <2>3, Recursion DEF Solvable
<1>12. f = [n \in I |-> E(f, n)]
  BY <1>10, <1>11
<1> HIDE DEF search
<1>13. search = [n \in I |-> E(search, n)]
  <2> DEFINE F(g) == [n \in I |-> E(g, n)]
  <2>1. f = F(f) /\ search = CHOOSE g : g = F(g)
    BY <1>8, <1>12
  <2> HIDE DEF F
  <2>2. search = F(search)
    BY <2>1, Zenon
  <2> QED BY <2>2 DEF F
<1>14. \A n \in I : search[n] = E(search, n)
  BY <1>13
<1>15. search \in [I -> V]
  <2>1. \A n \in I : f[n] = E(f, n)
    BY <1>10, <1>11
  <2>2. \A n \in I : (\A k \in I : rank[k] < rank[n] => search[k] = f[k]) => search[n] = f[n]
    BY <1>7, <1>14, <2>1
  <2>3. Agreeing(I, rank, search, f)
    BY <1>2, <2>2 DEF Agreeing
  <2>4. \A n \in I : search[n] = f[n]
    BY <2>3, Agreement
  <2>5. \A n \in I : search[n] \in V
    BY <1>11, <2>4
  <2> QED BY <1>13, <2>5
<1>16. 0 \in I /\ \A n \in 1 .. MaxPages : n \in I /\ n # 0
  BY <1>1 DEF I
<1>17. search[0].heap = h
  BY <1>14, <1>16 DEF E
<1>18. \A n \in 1 .. MaxPages : search[n] = AfterSearch(search[n - 1], size)
  BY <1>14, <1>16 DEF E
<1> QED BY <1>9, <1>15, <1>17, <1>18 DEF search, I, V

\* Sets of numbers that hold 0 and with each the next hold all.
LEMMA AllUpTo ==
    ASSUME NEW last \in Nat, NEW T, 0 \in T, \A n \in 1 .. last : n - 1 \in T => n \in T
    PROVE  \A n \in 0 .. last : n \in T
<1> DEFINE missing == {n \in 0 .. last : n \notin T}
<1> SUFFICES ASSUME missing # {} PROVE FALSE
  OBVIOUS
<1>1. missing \in SUBSET Nat
  OBVIOUS
<1>2. PICK n \in missing : \A k \in missing : n <= k
  BY <1>1, FirstExists
<1>3. n \in 0 .. last /\ n \notin T /\ n # 0
  OBVIOUS
<1>4. n \in 1 .. last /\ n - 1 \in 0 .. last /\ n - 1 \notin missing
  BY <1>2, <1>3
<1>5. n - 1 \in T
  BY <1>4
<1> QED BY <1>3, <1>4, <1>5

LEMMA EnlargedTwice ==
    ASSUME NEW f, NEW g, NEW h, h.end \in Nat, g.end \in Nat, f.end \in Nat, Enlarged(h, g), Enlarged(g, f)
    PROVE  Enlarged(h, f)
BY DEF Enlarged, SameTaken

\* The searches of the free lists, between which the heap grows.
LEMMA SearchedIsSane ==
    ASSUME NEW h, Sane(h), Within(h), NEW size \in Nat
    PROVE  LET r == Searched(h, size)
           IN  /\ r.heap \in Heaps /\ h.events \subseteq r.heap.events
               /\ ~Harmed(r.heap) => Enlarged(h, r.heap)
<1> DEFINE search == Searches(h, size)
           fine(n) == /\ h.events \subseteq search[n].heap.events
                      /\ ~Harmed(search[n].heap) => Enlarged(h, search[n].heap)
           T == {n \in 0 .. MaxPages : fine(n)}
<1>1. h \in Heaps /\ MaxPages \in Nat
  BY SizesAssumption DEF Sane
<1>2. /\ Searched(h, size) = search[MaxPages]
      /\ search \in [0 .. MaxPages -> SearchStates]
      /\ search[0].heap = h
      /\ \A n \in 1 .. MaxPages : search[n] = AfterSearch(search[n - 1], size)
  BY <1>1, SearchesUnfold
<1> HIDE DEF search
<1>3. \A n \in 0 .. MaxPages : search[n].heap \in Heaps /\ search[n].heap.end \in Nat
  BY <1>2 DEF SearchStates, Heaps
<1>4. fine(0)
  <2>1. Enlarged(h, h)
    BY <1>1 DEF Enlarged, SameTaken, Heaps
  <2> QED BY <1>2, <2>1
<1>5. ASSUME NEW n \in 1 .. MaxPages, fine(n - 1) PROVE fine(n)
  <2> DEFINE so == search[n - 1]
             r == extendHeap(so.heap, size)
  <2>1. n - 1 \in 0 .. MaxPages /\ n \in 0 .. MaxPages
    BY <1>1
  <2>2. search[n] = so \/ (search[n] = r /\ size # 0)
    <3>1. search[n] = AfterSearch(so, size)
      BY <1>2
    <3>2. so.heap \in Heaps
      BY <1>3, <2>1
    <3> HIDE DEF so, r
    <3>3. size = 0 => FirstFit(so.heap, size).is # "none"
      BY <3>2, NothingFits
    <3> QED BY <3>1, <3>3 DEF AfterSearch, r
  <2>3. CASE search[n] = so
    BY <1>5, <2>3
  <2>4. CASE search[n] = r /\ size # 0
    <3>1. so.heap \in Heaps /\ search[n].heap \in Heaps
      BY <1>3, <2>1
    <3>2. so.heap.events \subseteq r.heap.events
      BY <2>4, <3>1, ExtendFields
    <3>3. ASSUME ~Harmed(r.heap) PROVE Enlarged(h, r.heap)
      <4>1. ~Harmed(so.heap)
        BY <3>2, <3>3 DEF Harmed
      <4>2. Enlarged(h, so.heap)
        BY <1>5, <4>1
      <4>3. Sane(so.heap) /\ Within(so.heap)
        BY <4>2 DEF Enlarged
      <4>4. Enlarged(so.heap, r.heap)
        BY <2>4, <3>3, <4>3, ExtendIsSane
      <4>5. h.end \in Nat /\ so.heap.end \in Nat /\ r.heap.end \in Nat
        BY <1>1, <1>3, <2>1, <2>4 DEF Heaps
      <4> HIDE DEF so, r
      <4> QED BY <4>2, <4>4, <4>5, EnlargedTwice
    <3>4. h.events \subseteq so.heap.events
      BY <1>5
    <3> HIDE DEF so, r
    <3> QED BY <2>4, <3>2, <3>3, <3>4
  <2> QED BY <2>2, <2>3, <2>4
<1> HIDE DEF fine
<1>6. 0 \in T /\ \A n \in 1 .. MaxPages : n - 1 \in T => n \in T
  BY <1>1, <1>4, <1>5
<1>7. MaxPages \in T
  <2> HIDE DEF T
  <2>1. MaxPages \in 0 .. MaxPages
    BY <1>1
  <2> QED BY <1>1, <1>6, <2>1, AllUpTo
<1>8. fine(MaxPages) /\ search[MaxPages].heap \in Heaps
  BY <1>1, <1>3, <1>7
<1> QED BY <1>2, <1>8 DEF fine

-----------------------------------------------------------------------------
(* A block is handed out. *)

LEMMA NarrowedFacts ==
    /\ SizeRange \in Nat /\ SizeRange >= 96 /\ SizeRange % 16 = 0
    /\ \A x \in Nat : Narrowed(x) \in 0 .. (SizeRange - 1)
    /\ \A x \in Nat : x < SizeRange => Narrowed(x) = x
    /\ Narrowed(SizeRange) = 0
<1>1. SizeRange \in Nat /\ SizeRange % 16 = 0
  BY SizesAssumption DEF Align
<1>2. SizeRange >= 96
  <2>1. PAGE_SZ \in Nat /\ PAGE_SZ >= 96 /\ MaxPages \in Nat /\ MaxPages >= 1
    BY SizesAssumption
  <2>2. PAGE_SZ * (MaxPages - 1) >= 0
    BY <2>1
  <2>3. PAGE_SZ * MaxPages = PAGE_SZ * (MaxPages - 1) + PAGE_SZ /\ PAGE_SZ * MaxPages \in Int
    BY <2>1
  <2>4. PAGE_SZ * MaxPages <= SizeRange
    BY SizesAssumption
  <2> QED BY <1>1, <2>1, <2>2, <2>3, <2>4
<1>3. ASSUME NEW x \in Nat
      PROVE  /\ Narrowed(x) \in 0 .. (SizeRange - 1)
             /\ x < SizeRange => Narrowed(x) = x
             /\ x = SizeRange => Narrowed(x) = 0
  BY <1>1, <1>2, <1>3 DEF Narrowed
<1> QED BY <1>1, <1>2, <1>3

\* The size of a block, as it would be if sizes did not wrap around.
LEMMA BlockForIsNarrowed ==
    ASSUME NEW n \in Nat
    PROVE  \E room \in Nat : /\ room % 16 = 0 /\ room >= 32 /\ room <= SizeRange
                             /\ room >= Narrowed(n + 8)
                             /\ (room < 48 \/ room < Narrowed(n + 8) + 16)
                             /\ BlockFor(n) = Narrowed(room)
<1> DEFINE asked == Narrowed(n + 8)
           m == IF asked <= 32 THEN 32 ELSE asked
           d == (16 - (m % 16)) % 16
<1>1. asked \in Nat /\ asked < SizeRange /\ SizeRange \in Nat /\ SizeRange >= 96 /\ SizeRange % 16 = 0
  BY NarrowedFacts
<1>2. BlockFor(n) = Narrowed(m + d)
  BY DEF BlockFor, MinBlock, Align
<1> HIDE DEF asked
<1>3. m \in Nat /\ m >= 32 /\ m >= asked /\ m < SizeRange /\ (m = 32 \/ m = asked)
  BY <1>1
<1> HIDE DEF m
<1>4. m % 16 \in 0 .. 15
  BY <1>3
<1>5. d \in 0 .. 15 /\ (m + d) % 16 = 0
  BY <1>3, <1>4
<1> HIDE DEF d
<1>6. m + d <= SizeRange
  BY <1>1, <1>3, <1>5
<1>7. m + d < 48 \/ m + d < asked + 16
  BY <1>1, <1>3, <1>5
<1> QED BY <1>2, <1>3, <1>5, <1>6, <1>7 DEF asked

LEMMA BlockForType ==
    ASSUME NEW n \in Nat
    PROVE  BlockFor(n) \in Nat /\ BlockFor(n) % 16 = 0
<1>1. PICK room \in Nat : room % 16 = 0 /\ room <= SizeRange /\ BlockFor(n) = Narrowed(room)
  BY BlockForIsNarrowed
<1>2. room < SizeRange \/ room = SizeRange
  BY <1>1, NarrowedFacts
<1>3. BlockFor(n) = room \/ BlockFor(n) = 0
  BY <1>1, <1>2, NarrowedFacts
<1> QED BY <1>1, <1>3

\* A block whose size does not wrap around is large enough.
LEMMA BlockForFacts ==
    ASSUME NEW n \in Nat, ~Wraps(n)
    PROVE  LET size == BlockFor(n)
           IN  size \in Nat /\ size % 16 = 0 /\ size >= 32 /\ size >= n + 8
<1>1. PICK room \in Nat : /\ room % 16 = 0 /\ room >= 32 /\ room <= SizeRange
                          /\ BlockFor(n) = Narrowed(room)
  BY BlockForIsNarrowed
<1>2. BlockFor(n) \in Nat /\ BlockFor(n) >= n + 8
  BY BlockForType DEF Wraps
<1>3. room # SizeRange
  BY <1>1, <1>2, NarrowedFacts
<1>4. BlockFor(n) = room
  BY <1>1, <1>3, NarrowedFacts
<1> QED BY <1>1, <1>2, <1>4

\* Of the sizes that blocks of the heap may have none wraps around.
LEMMA SmallSizesFit ==
    ASSUME NEW n \in Nat, n + 24 <= SizeRange
    PROVE  ~Wraps(n)
<1>1. PICK room \in Nat : /\ room % 16 = 0 /\ room >= 32 /\ room <= SizeRange
                          /\ room >= Narrowed(n + 8)
                          /\ (room < 48 \/ room < Narrowed(n + 8) + 16)
                          /\ BlockFor(n) = Narrowed(room)
  BY BlockForIsNarrowed
<1>2. Narrowed(n + 8) = n + 8 /\ SizeRange \in Nat /\ SizeRange >= 96
  BY NarrowedFacts
<1>3. room < SizeRange /\ room >= n + 8
  BY <1>1, <1>2
<1>4. BlockFor(n) = room
  BY <1>1, <1>3, NarrowedFacts
<1> QED BY <1>1, <1>3, <1>4 DEF Wraps

\* What a search finds is large enough.
LEMMA FitFacts ==
    ASSUME NEW h \in Heaps, NEW size \in Nat, FirstFit(h, size).is = "fit"
    PROVE  LET fit == FirstFit(h, size)
           IN  /\ fit.list \in FreeLists /\ fit.place \in DOMAIN h.free[fit.list]
               /\ At(h, h.free[fit.list][fit.place]).size >= size
<1> DEFINE some == {i \in FreeLists : h.free[i] # <<>>}
           first == CHOOSE i \in some : \A j \in some : i <= j
           fits == {k \in DOMAIN h.free[first] : At(h, h.free[first][k]).size >= size}
           place == CHOOSE k \in fits : \A j \in fits : k <= j
           fit == [is |-> "fit", list |-> first, place |-> place]
<1>1. FirstFit(h, size) = CASE some = {} -> [is |-> "empty"]
                            [] some # {} /\ fits = {} -> [is |-> "none"]
                            [] OTHER -> fit
  BY DEF FirstFit
<1>2. NUM_FREE_LISTS \in Nat /\ h.free \in [FreeLists -> Seq(Int)]
  BY SizesAssumption DEF Heaps
<1> DEFINE r == FirstFit(h, size)
<1> HIDE DEF fit
<1>3. some # {} /\ fits # {} /\ FirstFit(h, size) = fit
  <2> HIDE DEF some, fits
  <2>1. r = CASE some = {} -> [is |-> "empty"]
                            [] some # {} /\ fits = {} -> [is |-> "none"]
                            [] OTHER -> fit
    BY <1>1
  <2> HIDE DEF r
  <2>2. r.is = "fit"
    BY DEF r
  <2>3. some # {}
    <3> SUFFICES ASSUME some = {} PROVE FALSE
      OBVIOUS
    <3>1. r = [is |-> "empty"]
      BY <2>1
    <3> QED BY <2>2, <3>1
  <2>4. fits # {}
    <3> SUFFICES ASSUME fits = {} PROVE FALSE
      OBVIOUS
    <3>1. r = [is |-> "none"]
      BY <2>1, <2>3
    <3> QED BY <2>2, <3>1
  <2>5. r = fit
    BY <2>1, <2>3, <2>4
  <2> QED BY <2>3, <2>4, <2>5 DEF r
<1>4. first \in some
  <2>1. some \in SUBSET Nat
    BY <1>2 DEF FreeLists
  <2> HIDE DEF some
  <2>2. \E i \in some : \A j \in some : i <= j
    BY <1>3, <2>1, FirstExists
  <2> QED BY <2>2
<1>5. first \in FreeLists /\ h.free[first] \in Seq(Int)
  BY <1>2, <1>4
<1> HIDE DEF first
<1>6. place \in fits
  <2>1. fits \in SUBSET Nat
    BY <1>5
  <2> HIDE DEF fits
  <2>2. \E i \in fits : \A j \in fits : i <= j
    BY <1>3, <2>1, FirstExists
  <2> QED BY <2>2
<1> HIDE DEF place
<1>7. fit.list = first /\ fit.place = place
  BY DEF fit
<1> QED BY <1>3, <1>5, <1>6, <1>7

\* The events of what is done to a heap stay, whatever state it is in.
LEMMA ReleaseFields ==
    ASSUME NEW h \in Heaps, NEW size \in Nat \ {0}, NEW b \in Int
    PROVE  LET g == Release(h, size, b)
           IN  g \in Heaps /\ h.events \subseteq g.events
<1> DEFINE r == coalesce(h, size, b)
           c == IF r.block # NULL THEN r.block ELSE b
           g == placeFreeBlock(r.heap, size, c)
<1>1. Release(h, size, b) = g
  BY DEF Release, placeMerged
<1>2. r \in Results /\ h.events \subseteq r.heap.events
  BY CoalesceFields
<1> HIDE DEF r
<1>3. r.heap \in Heaps /\ c \in Int
  BY <1>2 DEF Results
<1> HIDE DEF c
<1>4. g \in Heaps
  BY <1>3, PlacedFields
<1>5. g.events = IF Misfiled(r.heap, size, c) THEN r.heap.events \cup {"misfiled"} ELSE r.heap.events
  BY <1>3, PlacedEvents
<1> QED BY <1>1, <1>2, <1>4, <1>5

LEMMA TakeFreeFields ==
    ASSUME NEW h \in Heaps, NEW i \in FreeLists, NEW k \in DOMAIN h.free[i],
           NEW size \in Nat
    PROVE  LET found == TakeFree(h, i, k, size)
           IN  /\ found.heap \in Heaps /\ found.block \in Int
               /\ h.events \subseteq found.heap.events
<1> DEFINE b == h.free[i][k]
           u == [h EXCEPT !.free[i] = RemoveAt(@, k)]
           whole == At(h, b).size
           found == TakeFree(h, i, k, size)
           split == Split(u, b, whole, size)
           slack == Event(u, "slack", whole > size)
<1>1. h.free[i] \in Seq(Int) /\ b \in Int
  <2>1. h.free \in [FreeLists -> Seq(Int)]
    BY DEF Heaps
  <2>2. h.free[i] \in Seq(Int)
    BY <2>1
  <2> QED BY <2>2
<1>2. u \in Heaps /\ u.events = h.events
  <2>1. k \in 1 .. Len(h.free[i])
    BY <1>1
  <2>2. RemoveAt(h.free[i], k) \in Seq(Int)
    BY <1>1, <2>1, RemoveAtProperties
  <2> QED BY <2>2 DEF Heaps
<1>3. whole \in Nat
  BY AnyWord DEF Words
<1>4. found = IF whole - size >= MinBlock
              THEN Found(Release(split, whole - size, b + size), b) ELSE Found(slack, b)
  BY DEF TakeFree
<1> HIDE DEF found, u, whole, b
<1>5. CASE whole - size >= MinBlock
  <2> DEFINE tag == Header(whole - size, {PREV_BLOCK_ALLOCATED})
             A == {b + size, Footer(b + size, tag.size)}
  <2>1. whole - size \in Nat \ {0} /\ b + size \in Int
    BY <1>1, <1>3, <1>5 DEF MinBlock
  <2>2. tag \in Words
    <3>1. {PREV_BLOCK_ALLOCATED} \in SUBSET Flags
      BY DEF Flags
    <3> QED BY <2>1, <3>1, HeaderFacts
  <2>3. split = Written(u, A, tag)
    BY DEF Split, Tagged
  <2> HIDE DEF tag
  <2>4. A \in SUBSET Int
    BY <2>1, <2>2 DEF Footer, Words
  <2> HIDE DEF A, split
  <2>5. split \in Heaps /\ split.events = u.events
    BY <1>2, <2>2, <2>3, <2>4, WrittenFields
  <2> DEFINE g == Release(split, whole - size, b + size)
  <2>6. g \in Heaps /\ split.events \subseteq g.events
    BY <2>1, <2>5, ReleaseFields
  <2>7. found.heap = g /\ found.block = b
    BY <1>4, <1>5 DEF Found
  <2> HIDE DEF g
  <2> QED BY <1>1, <1>2, <2>5, <2>6, <2>7 DEF found
<1>6. CASE ~(whole - size >= MinBlock)
  <2>1. slack \in Heaps /\ u.events \subseteq slack.events
    BY <1>2 DEF Event, Heaps, Wrong
  <2>2. found.heap = slack /\ found.block = b
    BY <1>4, <1>6 DEF Found
  <2> HIDE DEF slack
  <2> QED BY <1>1, <1>2, <2>1, <2>2 DEF found
<1> QED BY <1>5, <1>6


LEMMA FirstOff ==
    ASSUME NEW s \in Seq(Int), s # <<>>, IsInjective(s)
    PROVE  /\ Head(s) \in Int /\ Head(s) \in ToSet(s)
           /\ Tail(s) \in Seq(Int) /\ Len(Tail(s)) = Len(s) - 1 /\ IsInjective(Tail(s))
           /\ ToSet(Tail(s)) = ToSet(s) \ {Head(s)}
<1>1. Len(s) \in Nat \ {0} /\ Head(s) = s[1] /\ s[1] \in Int /\ DOMAIN s = 1 .. Len(s)
  OBVIOUS
<1>2. /\ Tail(s) \in Seq(Int) /\ Len(Tail(s)) = Len(s) - 1
      /\ DOMAIN Tail(s) = 1 .. (Len(s) - 1)
      /\ \A k \in 1 .. (Len(s) - 1) : Tail(s)[k] = s[k + 1]
  OBVIOUS
<1>3. \A j, k \in 1 .. Len(s) : s[j] = s[k] => j = k
  BY <1>1 DEF IsInjective
<1>4. IsInjective(Tail(s))
  <2> SUFFICES ASSUME NEW j \in 1 .. (Len(s) - 1), NEW k \in 1 .. (Len(s) - 1), Tail(s)[j] = Tail(s)[k]
               PROVE  j = k
    BY <1>2 DEF IsInjective
  <2>1. j + 1 \in 1 .. Len(s) /\ k + 1 \in 1 .. Len(s) /\ s[j + 1] = s[k + 1]
    BY <1>1, <1>2
  <2>2. j + 1 = k + 1
    BY <1>3, <2>1
  <2> QED BY <2>2
<1>5. ToSet(Tail(s)) = ToSet(s) \ {Head(s)}
  <2>1. ASSUME NEW k \in 1 .. (Len(s) - 1) PROVE Tail(s)[k] \in ToSet(s) /\ Tail(s)[k] # s[1]
    <3>1. k + 1 \in 1 .. Len(s) /\ 1 \in 1 .. Len(s) /\ k + 1 # 1
      BY <1>1
    <3>2. s[k + 1] # s[1]
      BY <1>3, <3>1
    <3> QED BY <1>1, <1>2, <3>1, <3>2 DEF ToSet
  <2>2. ASSUME NEW k \in 1 .. Len(s), s[k] # s[1] PROVE s[k] \in ToSet(Tail(s))
    <3>1. k - 1 \in 1 .. (Len(s) - 1) /\ (k - 1) + 1 = k
      BY <1>1, <2>2
    <3>2. Tail(s)[k - 1] = s[k]
      BY <1>2, <3>1
    <3> QED BY <1>2, <3>1, <3>2 DEF ToSet
  <2>3. ToSet(Tail(s)) = {Tail(s)[k] : k \in 1 .. (Len(s) - 1)} /\ ToSet(s) = {s[k] : k \in 1 .. Len(s)}
    BY <1>1, <1>2 DEF ToSet
  <2> QED BY <1>1, <2>1, <2>2, <2>3
<1>6. Head(s) \in ToSet(s)
  BY <1>1 DEF ToSet
<1> QED BY <1>1, <1>2, <1>4, <1>5, <1>6

\* The client holds what it held, or b as well.
Kept(h, g) ==
    /\ Sane(g) /\ Stored(g) /\ Within(g)
    /\ Lent(g) = Lent(h) /\ \A a \in Lent(h) : g.mem[a] = h.mem[a]
    /\ Unfiled(g) \subseteq Unfiled(h)
Lending(h, b, tag, g) ==
    /\ Sane(g) /\ Stored(g) /\ Within(g)
    /\ b \notin Lent(h) /\ Lent(g) = Lent(h) \cup {b}
    /\ g.mem[b] = tag /\ \A a \in Lent(h) : g.mem[a] = h.mem[a]
    /\ Unfiled(g) \subseteq Unfiled(h)

LEMMA EnlargedKeeps ==
    ASSUME NEW h, NEW g, Stored(h), Enlarged(h, g)
    PROVE  Kept(h, g)
<1>1. \A a \in InQuick(h) : a \in Taken(g) /\ g.mem[a] = h.mem[a]
  BY DEF Enlarged, SameTaken, InQuick, Stored
<1>2. Stored(g) /\ InQuick(g) = InQuick(h)
  BY <1>1, StoredStays DEF Enlarged
<1> QED BY <1>2 DEF Enlarged, SameTaken, Kept, Lent

LEMMA OccupiedLends ==
    ASSUME NEW h, NEW m, NEW b, NEW tag, NEW g, Stored(h), Enlarged(h, m),
           b \notin Taken(m), Occupied(m, b, tag, g)
    PROVE  Lending(h, b, tag, g)
<1>1. Kept(h, m)
  BY EnlargedKeeps
<1>2. InQuick(m) \subseteq Taken(m) /\ Lent(m) \subseteq Taken(m)
  BY <1>1 DEF Kept, Stored, InQuick, Lent
<1>3. \A a \in InQuick(m) : a \in Taken(g) /\ g.mem[a] = m.mem[a]
  BY <1>2 DEF Occupied
<1>4. Stored(g) /\ InQuick(g) = InQuick(m)
  BY <1>1, <1>3, StoredStays DEF Occupied, Kept
<1>5. Lent(g) = Lent(m) \cup {b} /\ b \notin Lent(m)
  BY <1>2, <1>4 DEF Occupied, Lent
<1>6. \A a \in Lent(m) : g.mem[a] = m.mem[a]
  BY <1>2, <1>5 DEF Occupied
<1>7. Within(g)
  BY <1>1 DEF Kept, Occupied, Within
<1> QED BY <1>1, <1>4, <1>5, <1>6, <1>7 DEF Kept, Lending, Occupied

\* A block of a quick list, of just the size that is asked for, is handed out.
LEMMA QuickBlockLends ==
    ASSUME NEW h, Sane(h), Stored(h), Within(h), NEW i \in QuickLists, h.quick[i] # <<>>,
           NEW n \in Nat, QuickSize(i) = BlockFor(n)
    PROVE  LET b == Head(h.quick[i])
               tag == AllocatedTag(BlockFor(n), n)
           IN  b # NULL /\ Lending(h, b, tag, Written([h EXCEPT !.quick[i] = Tail(@)], {b}, tag))
<1> DEFINE b == Head(h.quick[i])
           tag == AllocatedTag(BlockFor(n), n)
           u == [h EXCEPT !.quick[i] = Tail(h.quick[i])]
           g == Written(u, {b}, tag)
<1>1. h \in Heaps /\ h.quick[i] \in Seq(Int) /\ h.quick \in [QuickLists -> Seq(Int)]
  BY DEF Sane, Heaps
<1>2. \A j \in QuickLists : IsInjective(h.quick[j]) /\ Len(h.quick[j]) <= QUICK_LIST_MAX
  BY DEF Stored
<1>3. /\ b \in Int /\ b \in ToSet(h.quick[i])
      /\ Tail(h.quick[i]) \in Seq(Int) /\ Len(Tail(h.quick[i])) = Len(h.quick[i]) - 1
      /\ IsInjective(Tail(h.quick[i])) /\ ToSet(Tail(h.quick[i])) = ToSet(h.quick[i]) \ {b}
  BY <1>1, <1>2, FirstOff
<1> HIDE DEF b
<1>4. b \in Taken(h) /\ b \in InQuick(h) /\ h.mem[b] = QuickTag(QuickSize(i))
  BY <1>3 DEF Stored, InQuick
<1>5. tag \in Words /\ IsAllocated(tag) /\ tag.size = h.mem[b].size
  <2>1. h.mem[b].size = BlockFor(n)
    BY <1>4, QuickTagFacts
  <2>2. BlockFor(n) \in Nat /\ BlockFor(n) % 16 = 0
    BY BlockForType
  <2> QED BY <2>1, <2>2, AllocatedTagFacts
<1> HIDE DEF tag
<1>6. b \in Starts(h) /\ b # h.end - 8 /\ b \notin Listed(h.free) /\ b >= FirstBlock
  BY <1>4, TakenFacts, TiledFacts
<1>7. /\ u \in Heaps /\ u.mem = h.mem /\ u.end = h.end /\ u.free = h.free
      /\ u.quick[i] = Tail(h.quick[i]) /\ \A j \in QuickLists \ {i} : u.quick[j] = h.quick[j]
  BY <1>1, <1>3 DEF Heaps
<1> HIDE DEF u
<1>8. Starts(u) = Starts(h) /\ Tiled(u.mem, u.end, Starts(u))
  BY <1>7, SameMemory
<1>9. Sane(u) /\ Taken(u) = Taken(h) /\ Unfiled(u) = Unfiled(h)
  BY <1>7, <1>8 DEF Sane, Taken, Unfiled, Unused
<1>10. /\ g \in Heaps /\ g.end = u.end /\ g.free = u.free /\ g.quick = u.quick
       /\ Overwritten(g.mem, u.mem, {b}, tag)
  <2>1. {b} \in SUBSET Int
    BY <1>3
  <2> QED BY <1>5, <1>7, <2>1, WrittenFields
<1> HIDE DEF g
<1>11. Retagged(u, g, b, tag)
  BY <1>5, <1>6, <1>7, <1>8, <1>10 DEF Retagged
<1>12. Occupied(u, b, tag, g)
  BY <1>9, <1>10, <1>11, RetaggedIsOccupied
<1>13. /\ Sane(g) /\ g.end = h.end /\ Taken(g) = Taken(h)
       /\ g.mem[b] = tag /\ \A a \in Taken(h) \ {b} : g.mem[a] = h.mem[a]
       /\ Unfiled(g) \subseteq Unfiled(h)
  BY <1>4, <1>7, <1>9, <1>12 DEF Occupied
<1>14. \A j \in QuickLists \ {i} : b \notin ToSet(h.quick[j])
  BY <1>3, OneQuickList
<1>15. \A j \in QuickLists : ToSet(g.quick[j]) = ToSet(h.quick[j]) \ {b}
  BY <1>3, <1>7, <1>10, <1>14
<1>16. Stored(g)
  <2> SUFFICES ASSUME NEW j \in QuickLists
               PROVE  /\ IsInjective(g.quick[j]) /\ Len(g.quick[j]) <= QUICK_LIST_MAX
                      /\ \A a \in ToSet(g.quick[j]) : a \in Taken(g) /\ g.mem[a] = QuickTag(QuickSize(j))
    BY DEF Stored
  <2>1. IsInjective(g.quick[j]) /\ Len(g.quick[j]) <= QUICK_LIST_MAX
    <3>1. Len(h.quick[i]) \in Nat /\ QUICK_LIST_MAX \in Nat
      BY <1>1, SizesAssumption
    <3>2. CASE j # i
      BY <1>2, <1>7, <1>10, <3>2
    <3>3. CASE j = i
      <4>1. g.quick[i] = Tail(h.quick[i]) /\ Len(h.quick[i]) <= QUICK_LIST_MAX
        BY <1>2, <1>7, <1>10
      <4>2. Len(Tail(h.quick[i])) <= QUICK_LIST_MAX
        BY <1>3, <3>1, <4>1
      <4> QED BY <1>3, <3>3, <4>1, <4>2
    <3> QED BY <3>2, <3>3
  <2>2. ASSUME NEW a \in ToSet(g.quick[j]) PROVE a \in Taken(g) /\ g.mem[a] = QuickTag(QuickSize(j))
    <3>1. a \in ToSet(h.quick[j]) /\ a # b
      BY <1>15
    <3>2. a \in Taken(h) /\ h.mem[a] = QuickTag(QuickSize(j))
      BY <3>1 DEF Stored
    <3> QED BY <1>13, <3>1, <3>2
  <2> QED BY <2>1, <2>2
<1>17. InQuick(g) = InQuick(h) \ {b}
  <2> DEFINE old(j) == ToSet(h.quick[j])
             new(j) == ToSet(g.quick[j])
  <2>1. InQuick(h) = UNION {old(j) : j \in QuickLists} /\ InQuick(g) = UNION {new(j) : j \in QuickLists}
    BY DEF InQuick
  <2>2. \A j \in QuickLists : new(j) = old(j) \ {b}
    BY <1>15
  <2> HIDE DEF old, new
  <2>3. \A a : a \in UNION {new(j) : j \in QuickLists} <=> a \in UNION {old(j) : j \in QuickLists} /\ a # b
    BY <2>2
  <2> QED BY <2>1, <2>3
<1>18. Lent(g) = Lent(h) \cup {b} /\ b \notin Lent(h)
  BY <1>4, <1>13, <1>17 DEF Lent
<1>19. \A a \in Lent(h) : g.mem[a] = h.mem[a]
  BY <1>13, <1>18 DEF Lent
<1>20. Lending(h, b, tag, g)
  BY <1>13, <1>16, <1>18, <1>19 DEF Lending, Within
<1>21. b # NULL
  BY <1>3, <1>6 DEF FirstBlock, NULL
<1> QED BY <1>20, <1>21 DEF g, u, tag, b


\* What a call that asks for n bytes comes back with.
Answered(h, n, got) ==
    /\ h.events \subseteq got.heap.events
    /\ ~Harmed(got.heap) /\ ~got.crash =>
          \/ got.block = NULL /\ Kept(h, got.heap)
          \/ /\ got.block # NULL /\ ~Wraps(n)
             /\ Lending(h, got.block, AllocatedTag(BlockFor(n), n), got.heap)

LEMMA WrappingIsNoted ==
    ASSUME NEW h \in Heaps, NEW n
    PROVE  LET g == Event(h, "wrapped", Wraps(n))
           IN  /\ g \in Heaps /\ h.events \subseteq g.events
               /\ ~Harmed(g) => ~Wraps(n) /\ g = h
<1> DEFINE wraps == Wraps(n)
           g == Event(h, "wrapped", wraps)
<1>1. wraps \in BOOLEAN /\ "wrapped" \in Wrong \cup {"flushed"} /\ "wrapped" \in Wrong
  BY DEF Wraps, Wrong
<1> HIDE DEF wraps
<1>2. g \in Heaps /\ g.events = IF wraps THEN h.events \cup {"wrapped"} ELSE h.events
  BY <1>1, EventFields
<1>3. ~wraps => g = h
  BY DEF Event
<1> HIDE DEF g
<1>4. h.events \subseteq g.events
  BY <1>2
<1>5. ~Harmed(g) => ~wraps
  BY <1>1, <1>2 DEF Harmed
<1>6. g \in Heaps /\ h.events \subseteq g.events /\ (~Harmed(g) => ~wraps /\ g = h)
  BY <1>2, <1>3, <1>4, <1>5
<1> QED BY <1>6 DEF g, wraps

LEMMA QuickHit ==
    ASSUME NEW h, Sane(h), Stored(h), Within(h), NEW i \in QuickLists, h.quick[i] # <<>>, NEW n \in Nat
    PROVE  LET b == Head(h.quick[i])
               u == [h EXCEPT !.quick[i] = Tail(@)]
               g == Event(u, "other size", QuickSize(i) # BlockFor(n))
           IN  Answered(h, n, Handed(Found(g, b), n))
<1> DEFINE b == Head(h.quick[i])
           u == [h EXCEPT !.quick[i] = Tail(@)]
           size == BlockFor(n)
           differs == QuickSize(i) # size
           g == Event(u, "other size", differs)
           tag == AllocatedTag(size, n)
           noted == Event(g, "wrapped", Wraps(n))
           got == Handed(Found(g, b), n)
<1> SUFFICES Answered(h, n, got)
  OBVIOUS
<1>1. h \in Heaps /\ h.quick[i] \in Seq(Int) /\ h.quick \in [QuickLists -> Seq(Int)]
  BY DEF Sane, Heaps
<1>2. IsInjective(h.quick[i])
  BY DEF Stored
<1>3. b \in Int /\ b \in ToSet(h.quick[i]) /\ Tail(h.quick[i]) \in Seq(Int)
  BY <1>1, <1>2, FirstOff
<1>4. b # NULL
  <2>1. b \in Taken(h)
    BY <1>3 DEF Stored
  <2>2. b >= FirstBlock /\ b \in Int
    BY <2>1, TakenFacts, TiledFacts
  <2> QED BY <2>2 DEF FirstBlock, NULL
<1>5. u \in Heaps /\ u.events = h.events
  BY <1>1, <1>3 DEF Heaps
<1>6. size \in Nat /\ QuickSize(i) \in Nat /\ differs \in BOOLEAN
  BY BlockForType, QuickTagFacts
<1> HIDE DEF differs
<1>7. g \in Heaps /\ g.events = IF differs THEN u.events \cup {"other size"} ELSE u.events
  <2>1. "other size" \in Wrong \cup {"flushed"}
    BY DEF Wrong
  <2> HIDE DEF u
  <2> QED BY <1>5, <1>6, <2>1, EventFields
<1>8. ~differs => g = u
  BY DEF Event
<1> HIDE DEF g, u, size, b
<1>9. got.block = b /\ got.heap = Written(noted, {b}, tag) /\ ~got.crash
  BY <1>4 DEF Found, Handed, Allocated, AllocatedTag, size
<1>10. /\ g.events \subseteq got.heap.events
       /\ ~Harmed(got.heap) => ~Wraps(n) /\ noted = g
  <2>1. /\ noted \in Heaps /\ g.events \subseteq noted.events
        /\ ~Harmed(noted) => ~Wraps(n) /\ noted = g
    BY <1>7, WrappingIsNoted
  <2> HIDE DEF noted
  <2>2. Written(noted, {b}, tag).events = noted.events
    BY <2>1 DEF Written, Heaps
  <2> QED BY <1>9, <2>1, <2>2 DEF Harmed
<1> HIDE DEF noted
<1> HIDE DEF got
<1>11. ASSUME ~Harmed(got.heap) PROVE ~Wraps(n) /\ Lending(h, b, tag, got.heap)
  <2>1. ~differs
    BY <1>7, <1>10, <1>11 DEF Harmed, Wrong
  <2>2. Lending(h, b, tag, Written(u, {b}, tag))
    BY <2>1, QuickBlockLends DEF differs, size, b, u
  <2> QED BY <1>8, <1>9, <1>10, <1>11, <2>1, <2>2
<1> QED BY <1>4, <1>5, <1>7, <1>9, <1>10, <1>11 DEF Answered, size

\* The free lists are searched.
LEMMA SearchLends ==
    ASSUME NEW h, Sane(h), Stored(h), Within(h), NEW n \in Nat
    PROVE  Answered(h, n, Handed(searchFreeLists(Searched(h, BlockFor(n)), BlockFor(n)), n))
<1> DEFINE size == BlockFor(n)
           r == Searched(h, size)
           m == r.heap
           fit == FirstFit(m, size)
           tag == AllocatedTag(size, n)
           found == searchFreeLists(r, size)
           got == Handed(found, n)
<1> SUFFICES Answered(h, n, got)
  OBVIOUS
<1>1. size \in Nat /\ (~Wraps(n) => size >= 32 /\ size % 16 = 0)
  BY BlockForType, BlockForFacts
<1> HIDE DEF size
<1>2. /\ m \in Heaps /\ h.events \subseteq m.events
      /\ ~Harmed(m) => Enlarged(h, m)
  BY <1>1, SearchedIsSane
<1>3. found = IF r.ok THEN TakeFit(m, fit, size) ELSE Found(m, NULL)
  BY DEF searchFreeLists
<1> HIDE DEF r
<1>4. CASE r.ok /\ fit.is = "fit"
  <2> DEFINE i == fit.list
             k == fit.place
  <2>1. i \in FreeLists /\ k \in DOMAIN m.free[i] /\ At(m, m.free[i][k]).size >= size
    BY <1>1, <1>2, <1>4, FitFacts
  <2>2. found = TakeFree(m, i, k, size)
    BY <1>3, <1>4 DEF TakeFit
  <2> HIDE DEF i, k, fit, found
  <2>13. found.block = m.free[i][k]
    <3> DEFINE b == m.free[i][k]
    <3>1. \A g : Found(g, b).block = b
      BY DEF Found
    <3>2. \E g : found = Found(g, b)
      BY <2>2 DEF TakeFree
    <3> HIDE DEF b
    <3>3. found.block = b
      BY <3>1, <3>2
    <3> QED BY <3>3 DEF b
  <2>3. found.heap \in Heaps /\ found.block \in Int /\ m.events \subseteq found.heap.events
    BY <1>1, <1>2, <2>1, <2>2, TakeFreeFields
  <2> DEFINE noted == Event(found.heap, "wrapped", Wraps(n))
             g == Allocated(noted, found.block, size, n)
  <2>11. /\ noted \in Heaps /\ found.heap.events \subseteq noted.events
         /\ ~Harmed(noted) => ~Wraps(n) /\ noted = found.heap
    BY <2>3, WrappingIsNoted
  <2> HIDE DEF noted
  <2>12. g.events = noted.events
    BY <2>11 DEF Allocated, Written, Heaps
  <2>14. noted = found.heap => g = Allocated(found.heap, found.block, size, n)
    OBVIOUS
  <2> HIDE DEF g
  <2>4. found.heap.events \subseteq g.events
    BY <2>11, <2>12
  <2>5. ASSUME ~Harmed(g)
        PROVE  ~Wraps(n) /\ found.block # NULL /\ ~found.crash /\ Lending(h, found.block, tag, g)
    <3>1. ~Harmed(m)
      BY <2>3, <2>4, <2>5 DEF Harmed
    <3>2. Enlarged(h, m) /\ Sane(m)
      BY <1>2, <3>1 DEF Enlarged
    <3>3. ~Wraps(n) /\ g = Allocated(found.heap, found.block, size, n)
      <4>1. ~Harmed(noted)
        BY <2>12, <2>5 DEF Harmed
      <4> QED BY <2>11, <2>14, <4>1
    <3>4. size >= 32 /\ size % 16 = 0
      BY <1>1, <3>3
    <3>5. /\ found.block # NULL /\ ~found.crash /\ found.block \notin Taken(m)
          /\ Occupied(m, found.block, tag, g)
      BY <1>1, <2>1, <2>2, <2>5, <3>2, <3>3, <3>4, TakeFreeOccupies
    <3> QED BY <3>2, <3>3, <3>5, OccupiedLends
  <2> DEFINE handed == [found EXCEPT !.heap = g]
  <2>6. got = IF found.block = NULL THEN found ELSE handed
    BY DEF Handed, size, noted, g
  <2>7. found = [heap |-> found.heap, block |-> found.block, crash |-> found.crash]
    BY <2>2 DEF TakeFree, Found
  <2>8. handed.heap = g /\ handed.block = found.block /\ handed.crash = found.crash
    BY <2>7
  <2> HIDE DEF handed, got
  <2>9. CASE found.block # NULL
    BY <1>2, <2>3, <2>4, <2>5, <2>6, <2>8, <2>9 DEF Answered, size, tag
  <2>10. CASE found.block = NULL
    <3>1. ASSUME ~Harmed(m) PROVE FALSE
      <4>1. Sane(m)
        BY <1>2, <3>1 DEF Enlarged
      <4>2. m.free[i][k] \in ToSet(m.free[i])
        BY <2>1 DEF ToSet
      <4>3. m.free[i][k] \in Starts(m) /\ Tiled(m.mem, m.end, Starts(m))
        BY <2>1, <4>1, <4>2 DEF Sane, Filed
      <4>4. m.free[i][k] \in Int /\ m.free[i][k] >= FirstBlock
        BY <4>3, TiledFacts
      <4> QED BY <2>13, <2>10, <4>4 DEF FirstBlock, NULL
    <3>2. got = found /\ Harmed(found.heap)
      BY <2>3, <2>6, <2>10, <3>1 DEF Harmed
    <3> QED BY <1>2, <2>3, <3>2 DEF Answered
  <2> QED BY <2>9, <2>10
<1>5. CASE ~(r.ok /\ fit.is = "fit")
  <2>1. found = Found(m, NULL)
    BY <1>3, <1>5 DEF TakeFit
  <2> HIDE DEF found, m
  <2>2. got.heap = m /\ got.block = NULL /\ got.crash = FALSE
    BY <2>1 DEF Handed, Found
  <2> HIDE DEF got
  <2>3. ~Harmed(m) => Kept(h, m)
    BY <1>2, EnlargedKeeps
  <2> QED BY <1>2, <2>2, <2>3 DEF Answered
<1> QED BY <1>4, <1>5

\* findBlock and what sf_malloc makes of the block it finds.
LEMMA FindBlockLends ==
    ASSUME NEW h, Sane(h), Stored(h), Within(h), NEW n \in Nat, NEW raw \in BOOLEAN
    PROVE  Answered(h, n, Handed(findBlock(h, BlockFor(n), raw), n))
<1> DEFINE size == BlockFor(n)
           i == QuickChoice(h)
           b == Head(h.quick[i])
           hit == IsQuick(size) /\ i \in QuickLists
           large == raw \/ QuickSize(i) >= size
           taken == Found(Event([h EXCEPT !.quick[i] = Tail(@)], "other size", QuickSize(i) # size), b)
           crashed == [Found(h, NULL) EXCEPT !.crash = TRUE]
           searched == searchFreeLists(Searched(h, size), size)
           found == findBlock(h, size, raw)
<1> SUFFICES Answered(h, n, Handed(found, n))
  OBVIOUS
<1>1. found = IF hit /\ large THEN taken ELSE IF hit /\ ~large THEN crashed ELSE searched
  BY DEF findBlock
<1>2. Answered(h, n, Handed(searched, n))
  BY SearchLends
<1>3. ASSUME hit PROVE Answered(h, n, Handed(taken, n))
  <2> DEFINE some == {j \in QuickLists : h.quick[j] # <<>>}
  <2>1. NUM_QUICK_LISTS \notin QuickLists
    BY SizesAssumption DEF QuickLists
  <2>2. some # {} /\ i = CHOOSE j \in some : \A k \in some : j <= k
    BY <1>3, <2>1 DEF QuickChoice
  <2>3. some \in SUBSET Nat
    BY SizesAssumption DEF QuickLists
  <2> HIDE DEF some, i
  <2>4. \E j \in some : \A k \in some : j <= k
    BY <2>2, <2>3, FirstExists
  <2>5. i \in some
    BY <2>2, <2>4
  <2>6. i \in QuickLists /\ h.quick[i] # <<>>
    BY <2>5 DEF some
  <2> QED BY <2>6, QuickHit
<1> DEFINE got == Handed(crashed, n)
<1>4. got.heap = h /\ got.crash = TRUE
  BY DEF Handed, Found
<1>5. Answered(h, n, got)
  <2> HIDE DEF got
  <2> QED BY <1>4 DEF Answered
<1> HIDE DEF taken, crashed, searched, found, hit, large
<1> QED BY <1>1, <1>2, <1>3, <1>5

-----------------------------------------------------------------------------
(* The heap begins. *)

\* A heap in which nothing is allocated, and no block forgotten.
Vacant(h) == Sane(h) /\ Stored(h) /\ Within(h) /\ Lent(h) = {} /\ Unfiled(h) = {}

LEMMA NoHeapFacts ==
    /\ NoHeap \in Heaps /\ NoHeap.end = 0 /\ NoHeap.events = {} /\ NoHeap.mem = <<>>
    /\ \A i \in FreeLists : NoHeap.free[i] = <<>>
    /\ \A i \in QuickLists : NoHeap.quick[i] = <<>>
<1>1. <<>> \in Memories /\ DOMAIN <<>> = {}
  <2>1. <<>> \in [{} -> Words]
    OBVIOUS
  <2>2. {} \in SUBSET Int
    OBVIOUS
  <2> QED BY <2>1, <2>2 DEF Memories
<1>2. <<>> \in Seq(Int)
  OBVIOUS
<1> DEFINE mem == <<>>
<1>3. mem \in Memories /\ NoHeap = [mem |-> mem, end |-> 0, free |-> [i \in FreeLists |-> <<>>],
                                    quick |-> [i \in QuickLists |-> <<>>], events |-> {}]
  BY <1>1 DEF NoHeap
<1> HIDE DEF mem
<1>4. NoHeap.mem = mem /\ NoHeap \in Heaps
  BY <1>2, <1>3 DEF Heaps
<1> QED BY <1>3, <1>4 DEF mem

\* The memory of a new heap that ends at end.
NewHeap(w, end) ==
    LET tag == Header(end - 48, {PREV_BLOCK_ALLOCATED})
    IN  /\ w \in Heaps /\ w.end = end /\ w.events = {}
        /\ DOMAIN w.mem = {8, end - 8, FirstBlock, end - 16}
        /\ w.mem[8] = Header(32, {THIS_BLOCK_ALLOCATED})
        /\ w.mem[FirstBlock] = tag /\ w.mem[end - 16] = tag
        /\ w.mem[end - 8] = Header(0, {THIS_BLOCK_ALLOCATED})
        /\ \A i \in FreeLists : w.free[i] = <<>>
        /\ \A i \in QuickLists : w.quick[i] = <<>>

LEMMA NewHeapIsSane ==
    ASSUME NEW end \in Nat, end % 16 = 0, end >= 96, NEW w, NewHeap(w, end)
    PROVE  /\ Sane(w) /\ Loose(w, FirstBlock) /\ Taken(w) = {} /\ Unfiled(w) \subseteq {FirstBlock}
           /\ w.mem[FirstBlock].size = end - 48
<1> DEFINE S == {FirstBlock, end - 8}
           tag == Header(end - 48, {PREV_BLOCK_ALLOCATED})
           last == Header(0, {THIS_BLOCK_ALLOCATED})
           mem == w.mem
<1>1. /\ w \in Heaps /\ w.end = end
      /\ DOMAIN w.mem = {8, end - 8, FirstBlock, end - 16}
      /\ w.mem[FirstBlock] = tag /\ w.mem[end - 16] = tag /\ w.mem[end - 8] = last
      /\ \A i \in FreeLists : w.free[i] = <<>>
  BY DEF NewHeap
<1>2. tag \in Words /\ ~IsAllocated(tag) /\ tag.size = end - 48
  <2>1. end - 48 \in Nat /\ (end - 48) % 16 = 0
    OBVIOUS
  <2> QED BY <2>1, CutTag
<1>3. last \in Words /\ last.size = 0 /\ IsAllocated(last)
  BY EpilogueFacts
<1> HIDE DEF tag, last
<1>4. FirstBlock = 40 /\ 40 % 16 = 8
  BY DEF FirstBlock
<1>5. IsBlock(mem, S, 40)
  <2>1. /\ mem[40].size = end - 48 /\ mem[40].size >= 32 /\ mem[40].size % 16 = 0
        /\ 40 + mem[40].size = end - 8 /\ Footer(40, mem[40].size) = end - 16
    BY <1>1, <1>2, <1>4 DEF Footer
  <2>2. \A c \in S : c <= 40 \/ c >= end - 8
    BY <1>4
  <2>3. 40 \in DOMAIN mem /\ end - 8 \in S /\ end - 16 \in DOMAIN mem /\ mem[end - 16] = mem[40]
    BY <1>1, <1>4
  <2> HIDE DEF S, mem
  <2> QED BY <1>4, <2>1, <2>2, <2>3 DEF IsBlock
<1>6. \A a \in DOMAIN mem : a % 16 = 0 => ~IsAllocated(mem[a])
  <2> SUFFICES ASSUME NEW a \in DOMAIN mem, a % 16 = 0 PROVE ~IsAllocated(mem[a])
    OBVIOUS
  <2>1. a \in {8, end - 8, 40, end - 16}
    BY <1>1, <1>4
  <2>2. (end - 8) % 16 = 8 /\ 8 % 16 = 8
    OBVIOUS
  <2>3. a = end - 16
    BY <1>4, <2>1, <2>2
  <2> QED BY <1>1, <1>2, <2>3
<1>7. Tiled(mem, end, S)
  <2>1. mem \in Memories
    BY <1>1 DEF Heaps
  <2>2. S \subseteq FirstBlock .. (end - 8) /\ FirstBlock \in S /\ end - 8 \in S
    BY <1>4
  <2>3. \A b \in S \ {end - 8} : IsBlock(mem, S, b)
    BY <1>4, <1>5
  <2>4. end - 8 \in DOMAIN mem
    BY <1>1
  <2>5. ASSUME NEW a \in DOMAIN mem \ S, a % 16 = 8 /\ a >= FirstBlock PROVE Spent(mem[a])
    <3>1. a \in {8, end - 16}
      BY <1>1
    <3>2. (end - 16) % 16 = 0
      OBVIOUS
    <3> QED BY <1>4, <2>5, <3>1, <3>2
  <2> HIDE DEF S, mem
  <2> QED BY <1>1, <1>6, <2>1, <2>2, <2>3, <2>4, <2>5 DEF Tiled, last, mem
<1>8. Starts(w) = S
  <2> HIDE DEF S
  <2> QED BY <1>1, <1>7, TiledStarts
<1>9. Listed(w.free) = {}
  BY <1>1 DEF Listed, ToSet
<1>10. Filed(w.free, mem, S)
  <2>1. IsInjective(<<>>) /\ ToSet(<<>>) = {}
    BY DEF IsInjective, ToSet
  <2> QED BY <1>1, <2>1 DEF Filed
<1>11. Sane(w)
  BY <1>1, <1>7, <1>8, <1>10 DEF Sane
<1>12. IsAllocated(mem[end - 8]) /\ ~IsAllocated(mem[40]) /\ 40 # end - 8
  BY <1>1, <1>2, <1>3, <1>4
<1>13. Unused(w) = {40} /\ Taken(w) = {}
  <2> HIDE DEF mem
  <2> QED BY <1>1, <1>4, <1>8, <1>12 DEF Unused, Taken, mem
<1>14. Loose(w, 40) /\ Unfiled(w) \subseteq {40}
  BY <1>9, <1>13 DEF Loose, Unfiled
<1> QED BY <1>1, <1>2, <1>4, <1>11, <1>13, <1>14

\* The first page, or as many as are asked for.
LEMMA InitializeIsVacant ==
    ASSUME NEW n \in Nat, Starting(n)
    PROVE  LET g == initializeHeap(NoHeap, n)
           IN  Vacant(g) /\ g.events = {}
<1> DEFINE start == Narrowed(n + 48)
           end == Grown(NoHeap, start)
           free == end - 48
           none == [NoHeap EXCEPT !.end = end]
           front == Header(32, {THIS_BLOCK_ALLOCATED})
           last == Header(0, {THIS_BLOCK_ALLOCATED})
           tag == Header(free, {PREV_BLOCK_ALLOCATED})
           prologue == Written(none, {8}, front)
           epilogue == Written(prologue, {end - 8}, last)
           w == Written(epilogue, {FirstBlock, Footer(FirstBlock, tag.size)}, tag)
           g == placeFreeBlock(w, free, FirstBlock)
<1>1. initializeHeap(NoHeap, n) = g
  BY DEF initializeHeap, Tagged
<1>17. start \in Nat \ {0}
  BY NarrowedFacts DEF Starting
<1> HIDE DEF start
<1>2. end \in Nat /\ end >= 96 /\ end % 16 = 0 /\ end <= PAGE_SZ * MaxPages
  <2>1. start \in Nat \ {0} /\ NoHeap \in Heaps /\ NoHeap.end = 0
    BY <1>17, NoHeapFacts
  <2>2. LET more == PAGE_SZ * PagesFor(start)
        IN  /\ end \in Nat /\ more \in Nat /\ more % 16 = 0 /\ more >= 96
            /\ PAGE_SZ * MaxPages \in Nat /\ PAGE_SZ * MaxPages >= 96 /\ (PAGE_SZ * MaxPages) % 16 = 0
            /\ end = IF 0 + more <= PAGE_SZ * MaxPages THEN 0 + more ELSE PAGE_SZ * MaxPages
    BY <2>1, GrownFacts, ZenonT(40)
  <2> DEFINE more == PAGE_SZ * PagesFor(start)
             cap == PAGE_SZ * MaxPages
  <2>3. /\ more \in Nat /\ more % 16 = 0 /\ more >= 96
        /\ cap \in Nat /\ cap >= 96 /\ cap % 16 = 0
        /\ end = IF 0 + more <= cap THEN 0 + more ELSE cap
    BY <2>2
  <2> HIDE DEF end, more, cap
  <2>4. end = more \/ end = cap
    BY <2>3
  <2>5. end <= cap
    BY <2>3
  <2> QED BY <2>3, <2>4, <2>5 DEF cap
<1> HIDE DEF end
<1>3. free \in Nat /\ free % 16 = 0
  BY <1>2
<1>4. tag \in Words /\ tag.size = free
  BY <1>3, CutTag
<1>5. front \in Words /\ last \in Words
  <2>1. {THIS_BLOCK_ALLOCATED} \in SUBSET Flags
    BY DEF Flags
  <2> QED BY <2>1, HeaderFacts, EpilogueFacts
<1>6. Footer(FirstBlock, tag.size) = end - 16 /\ FirstBlock = 40
  BY <1>2, <1>4 DEF Footer, FirstBlock
<1>7. /\ none \in Heaps /\ none.mem = <<>> /\ none.end = end /\ none.free = NoHeap.free /\ none.quick = NoHeap.quick
      /\ none.events = {}
  BY <1>2, NoHeapFacts DEF Heaps
<1> HIDE DEF none, tag, front, last
<1>8. /\ prologue \in Heaps /\ prologue.end = end
      /\ prologue.free = NoHeap.free /\ prologue.quick = NoHeap.quick /\ prologue.events = {}
      /\ DOMAIN prologue.mem = {8} /\ prologue.mem[8] = front
  <2>1. {8} \in SUBSET Int /\ DOMAIN none.mem = {}
    BY <1>7
  <2> QED BY <1>5, <1>7, <2>1, WrittenFields DEF Overwritten
<1> HIDE DEF prologue
<1>9. /\ epilogue \in Heaps /\ epilogue.end = end
      /\ epilogue.free = NoHeap.free /\ epilogue.quick = NoHeap.quick /\ epilogue.events = {}
      /\ DOMAIN epilogue.mem = {8, end - 8} /\ epilogue.mem[8] = front /\ epilogue.mem[end - 8] = last
  <2> DEFINE A == {end - 8}
  <2>1. A \in SUBSET Int /\ end - 8 # 8
    BY <1>2
  <2>2. /\ epilogue \in Heaps /\ epilogue.end = prologue.end
        /\ epilogue.free = prologue.free /\ epilogue.quick = prologue.quick /\ epilogue.events = prologue.events
        /\ Overwritten(epilogue.mem, prologue.mem, A, last)
    BY <1>5, <1>8, <2>1, WrittenFields
  <2> HIDE DEF epilogue
  <2> QED BY <1>8, <2>1, <2>2 DEF Overwritten
<1> HIDE DEF epilogue
<1>10. NewHeap(w, end)
  <2> DEFINE A == {40, end - 16}
  <2>1. A \in SUBSET Int /\ 40 # 8 /\ 40 # end - 8 /\ end - 16 # 8 /\ end - 16 # end - 8
    BY <1>2
  <2>2. w = Written(epilogue, A, tag)
    BY <1>6
  <2> HIDE DEF w, A
  <2>3. /\ w \in Heaps /\ w.end = epilogue.end
        /\ w.free = epilogue.free /\ w.quick = epilogue.quick /\ w.events = epilogue.events
        /\ Overwritten(w.mem, epilogue.mem, A, tag)
    BY <1>4, <1>9, <2>1, <2>2, WrittenFields
  <2>4. DOMAIN w.mem = {8, end - 8, FirstBlock, end - 16}
    BY <1>6, <1>9, <2>3 DEF Overwritten, A
  <2>5. w.mem[FirstBlock] = tag /\ w.mem[end - 16] = tag /\ w.mem[8] = front /\ w.mem[end - 8] = last
    BY <1>6, <1>9, <2>1, <2>3 DEF Overwritten, A
  <2>6. (\A i \in FreeLists : w.free[i] = <<>>) /\ \A i \in QuickLists : w.quick[i] = <<>>
    BY <1>9, <2>3, NoHeapFacts
  <2> QED BY <1>9, <2>3, <2>4, <2>5, <2>6 DEF NewHeap, tag, front, last
<1> HIDE DEF w
<1>11. /\ Sane(w) /\ Loose(w, FirstBlock) /\ Taken(w) = {} /\ Unfiled(w) \subseteq {FirstBlock}
       /\ w.mem[FirstBlock].size = free
  BY <1>2, <1>10, NewHeapIsSane
<1>12. ~Harmed(g) => Settled(w, FirstBlock, g)
  BY <1>11, PlacingSettles
<1>13. g.events = {}
  <2>1. w \in Heaps /\ w.events = {} /\ FirstBlock \in DOMAIN w.mem
    BY <1>10 DEF NewHeap
  <2>2. At(w, FirstBlock).size = free
    BY <1>11, <2>1, AtFacts
  <2>3. ~Misfiled(w, free, FirstBlock)
    BY <2>2 DEF Misfiled
  <2> QED BY <2>1, <2>3, PlacedEvents
<1>14. w.end = end /\ \A i \in QuickLists : w.quick[i] = <<>>
  BY <1>10 DEF NewHeap
<1> HIDE DEF g
<1>15. ASSUME Settled(w, FirstBlock, g) PROVE Vacant(g)
  <2>1. Sane(g) /\ g.end = end /\ Taken(g) = {} /\ Unfiled(g) = {} /\ g.quick = w.quick
    BY <1>11, <1>14, <1>15 DEF Settled, SameTaken
  <2>2. Within(g) /\ Lent(g) = {}
    BY <1>2, <2>1 DEF Within, Lent
  <2>3. IsInjective(<<>>) /\ ToSet(<<>>) = {} /\ Len(<<>>) <= QUICK_LIST_MAX
    BY SizesAssumption DEF IsInjective, ToSet
  <2>4. Stored(g)
    BY <1>14, <2>1, <2>3 DEF Stored
  <2> QED BY <2>1, <2>2, <2>4 DEF Vacant
<1>16. Vacant(g)
  <2>1. ~Harmed(g)
    BY <1>13 DEF Harmed
  <2> QED BY <1>12, <1>15, <2>1
<1> QED BY <1>1, <1>13, <1>16


\* sf_malloc in a heap that is there, and the first one.
LEMMA MallocAnswers ==
    ASSUME NEW h, Sane(h), Stored(h), Within(h), h.end # 0, NEW n \in Nat
    PROVE  Answered(h, n, Malloc(h, n))
<1> DEFINE raw == magic = "random"
<1>1. Malloc(h, n) = Handed(findBlock(h, BlockFor(n), raw), n)
  BY DEF Malloc
<1>2. raw \in BOOLEAN
  OBVIOUS
<1> HIDE DEF raw
<1> QED BY <1>1, <1>2, FindBlockLends

\* The first one either finds a heap to begin with or goes wrong at once.
LEMMA FirstMalloc ==
    ASSUME NEW n \in Nat, Starting(n)
    PROVE  \E g : Vacant(g) /\ g.events = {} /\ Answered(g, n, Malloc(NoHeap, n))
<1> DEFINE raw == magic = "random"
           g == initializeHeap(NoHeap, n)
<1>1. Malloc(NoHeap, n) = Handed(findBlock(g, BlockFor(n), raw), n)
  BY NoHeapFacts DEF Malloc
<1>2. raw \in BOOLEAN
  OBVIOUS
<1>3. Vacant(g) /\ g.events = {}
  BY InitializeIsVacant
<1> HIDE DEF raw, g
<1>4. Answered(g, n, Malloc(NoHeap, n))
  BY <1>1, <1>2, <1>3, FindBlockLends DEF Vacant
<1> QED BY <1>3, <1>4

-----------------------------------------------------------------------------
(* The client's blocks change. *)

\* Of the words of the block b others are there than were.
Rewritten(h, b, g) ==
    /\ g \in Heaps /\ g.end = h.end /\ g.free = h.free /\ g.quick = h.quick
    /\ \A a \in Int : a < b + 8 \/ a >= b + h.mem[b].size =>
          (a \in DOMAIN g.mem <=> a \in DOMAIN h.mem) /\ (a \in DOMAIN h.mem => g.mem[a] = h.mem[a])
    /\ \A a \in DOMAIN g.mem : a >= b + 8 /\ a < b + h.mem[b].size /\ a % 16 = 0 => ~IsAllocated(g.mem[a])
    /\ \A a \in DOMAIN g.mem : a >= b + 8 /\ a < b + h.mem[b].size /\ a % 16 = 8 => Spent(g.mem[a])

LEMMA RewritingKeeps ==
    ASSUME NEW h, NEW b, NEW g, Sane(h), Stored(h), Within(h), b \in Taken(h), Rewritten(h, b, g)
    PROVE  Kept(h, g)
<1> DEFINE S == Starts(h)
           hi == b + h.mem[b].size
<1>1. /\ h \in Heaps /\ h.mem \in Memories
      /\ Tiled(h.mem, h.end, S) /\ Filed(h.free, h.mem, S)
      /\ b \in S /\ b \in Int /\ b # h.end - 8 /\ IsBlock(h.mem, S, b)
      /\ h.mem[b].size \in Nat /\ h.mem[b].size >= 32
      /\ IsAllocated(h.mem[b]) /\ b \notin Listed(h.free)
  BY TakenFacts
<1>2. /\ g \in Heaps /\ g.end = h.end /\ g.free = h.free /\ g.quick = h.quick
      /\ \A a \in Int : a < b + 8 \/ a >= hi =>
            (a \in DOMAIN g.mem <=> a \in DOMAIN h.mem) /\ (a \in DOMAIN h.mem => g.mem[a] = h.mem[a])
      /\ \A a \in DOMAIN g.mem : a >= b + 8 /\ a < hi /\ a % 16 = 0 => ~IsAllocated(g.mem[a])
      /\ \A a \in DOMAIN g.mem : a >= b + 8 /\ a < hi /\ a % 16 = 8 => Spent(g.mem[a])
  BY DEF Rewritten
<1>3. hi \in S /\ hi \in Int /\ b < hi /\ b % 16 = 8 /\ \A c \in S : c <= b \/ c >= hi
  BY <1>1 DEF IsBlock
<1>4. b \in DOMAIN h.mem /\ b \in DOMAIN g.mem /\ g.mem[b] = h.mem[b]
  BY <1>1, <1>2 DEF IsBlock
<1>5. \A a \in S : a \in Int /\ a \in DOMAIN h.mem
  BY <1>1, TiledFacts
<1>6. \A a \in S : g.mem[a] = h.mem[a]
  <2> SUFFICES ASSUME NEW a \in S PROVE g.mem[a] = h.mem[a]
    OBVIOUS
  <2>1. a \in Int /\ a \in DOMAIN h.mem /\ (a <= b \/ a >= hi)
    BY <1>3, <1>5
  <2> HIDE DEF hi, S
  <2>2. a < b + 8 \/ a >= hi
    BY <1>1, <2>1
  <2> QED BY <1>2, <2>1, <2>2 DEF hi
<1>7. IsBlock(g.mem, {b, hi}, b)
  <2>1. \A c \in {b, hi} : c <= b \/ c >= b + g.mem[b].size
    <3>1. hi = b + g.mem[b].size /\ hi \in Int
      BY <1>3, <1>4
    <3> HIDE DEF hi
    <3> QED BY <1>1, <3>1
  <2>2. h.mem[b].size >= 32 /\ h.mem[b].size % 16 = 0
    BY <1>1 DEF IsBlock
  <2>3. b + g.mem[b].size \in {b, hi}
    BY <1>4
  <2> QED BY <1>1, <1>3, <1>4, <2>1, <2>2, <2>3 DEF IsBlock
<1>8. \A a \in DOMAIN g.mem : a >= b /\ a < hi /\ a % 16 = 0 => ~IsAllocated(g.mem[a])
  <2> SUFFICES ASSUME NEW a \in DOMAIN g.mem, a >= b, a < hi, a % 16 = 0 PROVE ~IsAllocated(g.mem[a])
    OBVIOUS
  <2>1. a \in Int
    BY <1>2, MemoryFacts DEF Heaps
  <2>2. CASE a >= b + 8
    BY <1>2, <2>2
  <2>3. CASE a < b + 8
    <3>1. a \in DOMAIN h.mem /\ g.mem[a] = h.mem[a]
      BY <1>2, <2>1, <2>3
    <3> QED BY <1>1, <3>1 DEF Tiled
  <2> QED BY <1>1, <2>1, <2>2, <2>3
<1> DEFINE N == {b}
<1>9. Rebuilt(h.mem, S, g.mem, b, hi, N)
  <2>1. \A a \in Int : a < b \/ a >= hi =>
            (a \in DOMAIN g.mem <=> a \in DOMAIN h.mem) /\ (a \in DOMAIN h.mem => g.mem[a] = h.mem[a])
    BY <1>1, <1>2
  <2>2. g.mem \in Memories
    BY <1>2 DEF Heaps
  <2>3. b \in N /\ \A c \in N : c \in Int /\ c >= b /\ c < hi
    BY <1>1, <1>3
  <2>4. N \cup {hi} = {b, hi}
    OBVIOUS
  <2>5. \A c \in N : IsBlock(g.mem, N \cup {hi}, c)
    BY <1>7, <2>4
  <2>6. ASSUME NEW a \in DOMAIN g.mem \ N, a >= b /\ a < hi /\ a % 16 = 8 PROVE Spent(g.mem[a])
    <3>1. a \in Int /\ a # b
      BY <2>2, MemoryFacts
    <3> HIDE DEF N, hi, S
    <3>2. a >= b + 8
      BY <1>1, <1>3, <2>6, <3>1
    <3> QED BY <1>2, <2>6, <3>2
  <2> HIDE DEF N, hi, S
  <2> QED BY <1>1, <1>3, <1>8, <2>1, <2>2, <2>3, <2>5, <2>6 DEF Rebuilt
<1>10. \A a \in Listed(g.free) : a < b \/ a >= hi
  <2>1. \A a \in Listed(g.free) : a \in S /\ a # b
    BY <1>1, <1>2 DEF Listed, Filed
  <2>2. \A a \in S : a \in Int /\ (a <= b \/ a >= hi)
    BY <1>3, <1>5
  <2> SUFFICES ASSUME NEW a \in Listed(g.free) PROVE a < b \/ a >= hi
    OBVIOUS
  <2>3. a \in Int /\ a # b /\ (a <= b \/ a >= hi)
    BY <2>1, <2>2
  <2> HIDE DEF hi
  <2> QED BY <1>1, <2>3
<1>11. RebuiltHeap(h, g, b, hi, N)
  BY <1>1, <1>2, <1>9, <1>10 DEF RebuiltHeap
<1>12. Sane(g) /\ Starts(g) = Outside(S, b, hi) \cup N
  <2> HIDE DEF N, hi
  <2> QED BY <1>11, RebuiltIsSane
<1>13. Outside(S, b, hi) \cup N = S
  <2>1. \A a \in S : a < b \/ a >= hi \/ a = b
    BY <1>1, <1>3, <1>5
  <2> QED BY <1>1, <2>1 DEF Outside
<1>14. Starts(g) = S
  BY <1>12, <1>13
<1>15. Taken(g) = Taken(h) /\ Unfiled(g) = Unfiled(h) /\ \A a \in Taken(h) : g.mem[a] = h.mem[a]
  BY <1>2, <1>6, <1>14 DEF Taken, Unfiled, Unused
<1>16. Enlarged(h, g)
  <2>1. h.end \in Nat
    BY <1>1 DEF Heaps
  <2> QED BY <1>2, <1>12, <1>15, <2>1 DEF Enlarged, SameTaken, Within
<1> QED BY <1>16, EnlargedKeeps

\* Within a block no other begins.
LEMMA WithinNoBlock ==
    ASSUME NEW h, NEW b, Sane(h), b \in Taken(h), NEW a \in Int, a >= b + 8, a < b + h.mem[b].size
    PROVE  a \notin Starts(h) /\ a >= FirstBlock
<1>1. /\ h \in Heaps /\ Tiled(h.mem, h.end, Starts(h)) /\ b \in Starts(h) /\ b \in Int
      /\ IsBlock(h.mem, Starts(h), b) /\ h.mem[b].size \in Nat
  BY TakenFacts
<1>2. \A c \in Starts(h) : c <= b \/ c >= b + h.mem[b].size
  BY <1>1 DEF IsBlock
<1>3. b >= FirstBlock
  BY <1>1, TiledFacts
<1> QED BY <1>1, <1>2, <1>3 DEF FirstBlock

\* The client writes into its block.
LEMMA WriteKeeps ==
    ASSUME NEW h, NEW b, Sane(h), Stored(h), Within(h), b \in Taken(h)
    PROVE  LET old == Payload(h, b) \cap DOMAIN h.mem
           IN  Kept(h, [h EXCEPT !.mem = [a \in DOMAIN h.mem \ old |-> h.mem[a]]])
<1> DEFINE old == Payload(h, b) \cap DOMAIN h.mem
           mem == [a \in DOMAIN h.mem \ old |-> h.mem[a]]
           g == [h EXCEPT !.mem = mem]
           hi == b + h.mem[b].size
<1>1. /\ h \in Heaps /\ h.mem \in Memories /\ Tiled(h.mem, h.end, Starts(h))
      /\ b \in Int /\ h.mem[b].size \in Nat /\ h.mem[b].size >= 32
  BY TakenFacts
<1>2. DOMAIN h.mem \subseteq Int /\ \A a \in DOMAIN h.mem : h.mem[a] \in Words
  BY <1>1, MemoryFacts
<1>3. mem \in Memories
  <2> DEFINE A == DOMAIN h.mem \ old
  <2>1. A \in SUBSET Int /\ mem \in [A -> Words]
    BY <1>2
  <2> HIDE DEF A, mem
  <2> QED BY <2>1 DEF Memories
<1>4. g \in Heaps /\ g.mem = mem /\ g.end = h.end /\ g.free = h.free /\ g.quick = h.quick
  BY <1>1, <1>3 DEF Heaps
<1>5. \A a \in old : a \in Int /\ a >= b + 8 /\ a < hi
  BY <1>1 DEF Payload, Footer
<1> HIDE DEF g, old, hi
<1>6. \A a \in Int : a < b + 8 \/ a >= hi =>
            (a \in DOMAIN mem <=> a \in DOMAIN h.mem) /\ (a \in DOMAIN h.mem => mem[a] = h.mem[a])
  <2> SUFFICES ASSUME NEW a \in Int, a < b + 8 \/ a >= hi PROVE a \notin old
    OBVIOUS
  <2> QED BY <1>1, <1>5 DEF hi
<1>7. \A a \in DOMAIN mem : a % 16 = 0 => ~IsAllocated(mem[a])
  BY <1>1 DEF Tiled
<1>8. ASSUME NEW a \in DOMAIN mem, a >= b + 8, a < hi, a % 16 = 8 PROVE Spent(mem[a])
  <2>1. a \in DOMAIN h.mem /\ mem[a] = h.mem[a] /\ a \in Int
    BY <1>2
  <2>2. a \notin Starts(h) /\ a >= FirstBlock
    BY <1>1, <1>8, <2>1, WithinNoBlock DEF hi
  <2> QED BY <1>1, <1>8, <2>1, <2>2 DEF Tiled
<1> HIDE DEF mem
<1>9. Rewritten(h, b, g)
  BY <1>4, <1>6, <1>7, <1>8 DEF Rewritten, hi
<1>10. Kept(h, g)
  BY <1>9, RewritingKeeps
<1> QED BY <1>10 DEF g, mem, old

\* The payload of a block is copied into one that is large enough.
LEMMA CopyKeeps ==
    ASSUME NEW h, NEW from, NEW to, Sane(h), Stored(h), Within(h), from \in Taken(h), to \in Taken(h),
           h.mem[from].payload + 8 <= h.mem[from].size, h.mem[from].payload + 8 <= h.mem[to].size
    PROVE  Kept(h, Copied(h, from, to)) /\ Copied(h, from, to).events = h.events
<1> DEFINE n == h.mem[from].payload
           old == {a \in DOMAIN h.mem : a \in (from + 8) .. (from + 7 + n)}
           kept == DOMAIN h.mem \ ((to + 8) .. (to + 7 + n))
           copies == {a - from + to : a \in old}
           mem == [a \in kept \cup copies |-> IF a \in kept THEN h.mem[a] ELSE h.mem[a - to + from]]
           g == [h EXCEPT !.mem = mem]
           hi == to + h.mem[to].size
<1>1. Copied(h, from, to) = g
  BY DEF Copied
<1>2. /\ h \in Heaps /\ h.mem \in Memories /\ Tiled(h.mem, h.end, Starts(h))
      /\ to \in Int /\ h.mem[to].size \in Nat /\ h.mem[to].size >= 32
      /\ from \in Int /\ IsBlock(h.mem, Starts(h), from) /\ IsBlock(h.mem, Starts(h), to)
  BY TakenFacts
<1>3. from % 16 = 8 /\ to % 16 = 8 /\ from \in DOMAIN h.mem
  BY <1>2 DEF IsBlock
<1>4. DOMAIN h.mem \subseteq Int /\ \A a \in DOMAIN h.mem : h.mem[a] \in Words
  BY <1>2, MemoryFacts
<1>5. n \in Nat
  BY <1>3, <1>4 DEF Words
<1> HIDE DEF n
<1>6. \A a \in copies : /\ a \in Int /\ a >= to + 8 /\ a < hi
                        /\ a - to + from \in DOMAIN h.mem /\ a \notin kept
                        /\ a - to + from >= from + 8 /\ a - to + from < from + h.mem[from].size
                        /\ a % 16 = 0 => (a - to + from) % 16 = 0
                        /\ a % 16 = 8 => (a - to + from) % 16 = 8
  <2> SUFFICES ASSUME NEW c \in old
               PROVE  LET a == c - from + to
                      IN  /\ a \in Int /\ a >= to + 8 /\ a < hi
                          /\ a - to + from \in DOMAIN h.mem /\ a \notin kept
                          /\ a - to + from >= from + 8 /\ a - to + from < from + h.mem[from].size
                          /\ a % 16 = 0 => (a - to + from) % 16 = 0
                          /\ a % 16 = 8 => (a - to + from) % 16 = 8
    OBVIOUS
  <2> DEFINE a == c - from + to
  <2>1. c \in Int /\ c >= from + 8 /\ c <= from + 7 + n /\ c \in DOMAIN h.mem
    BY <1>4
  <2>2. a \in Int /\ a >= to + 8 /\ a <= to + 7 + n /\ a - to + from = c
    BY <1>2, <1>5, <2>1
  <2>3. a < hi
    BY <1>2, <1>5, <2>2 DEF n
  <2>4. a \notin kept
    BY <1>2, <1>5, <2>2
  <2>5. (a % 16 = 0 => c % 16 = 0) /\ (a % 16 = 8 => c % 16 = 8)
    <3>1. PICK i \in Int : from = 16 * i + 8
      <4>1. from = 16 * (from \div 16) + 8 /\ from \div 16 \in Int
        BY <1>2, <1>3
      <4> QED BY <4>1
    <3>2. PICK j \in Int : to = 16 * j + 8
      <4>1. to = 16 * (to \div 16) + 8 /\ to \div 16 \in Int
        BY <1>2, <1>3
      <4> QED BY <4>1
    <3>3. a = c + 16 * (j - i) /\ j - i \in Int
      BY <2>1, <3>1, <3>2
    <3> QED BY <2>1, <2>2, <3>3
  <2>6. c >= from + 8 /\ c < from + h.mem[from].size
    <3>1. h.mem[from].size \in Nat
      BY <1>3, <1>4 DEF Words
    <3> QED BY <1>2, <1>5, <2>1, <3>1 DEF n
  <2> HIDE DEF a, kept
  <2>7. (a - to + from) % 16 = c % 16
    BY <2>2
  <2> QED BY <2>1, <2>2, <2>3, <2>4, <2>5, <2>6, <2>7 DEF a
<1>7. mem \in Memories
  <2> DEFINE A == kept \cup copies
             value(a) == IF a \in kept THEN h.mem[a] ELSE h.mem[a - to + from]
  <2>1. A \in SUBSET Int
    BY <1>4, <1>6
  <2>2. \A a \in A : value(a) \in Words
    BY <1>4, <1>6
  <2>3. mem = [a \in A |-> value(a)]
    OBVIOUS
  <2> HIDE DEF A, mem, value
  <2>4. mem \in [A -> Words]
    BY <2>2, <2>3
  <2> QED BY <2>1, <2>4 DEF Memories
<1>8. g \in Heaps /\ g.mem = mem /\ g.end = h.end /\ g.free = h.free /\ g.quick = h.quick /\ g.events = h.events
  BY <1>2, <1>7 DEF Heaps
<1> HIDE DEF g
<1>9. \A a \in Int : a < to + 8 \/ a >= hi =>
            (a \in DOMAIN mem <=> a \in DOMAIN h.mem) /\ (a \in DOMAIN h.mem => mem[a] = h.mem[a])
  <2> SUFFICES ASSUME NEW a \in Int, a < to + 8 \/ a >= hi
               PROVE  (a \in kept <=> a \in DOMAIN h.mem) /\ a \notin copies
    OBVIOUS
  <2>1. a \notin (to + 8) .. (to + 7 + n)
    BY <1>2, <1>5 DEF n
  <2>2. a \notin copies
    <3> HIDE DEF copies, hi, kept
    <3> SUFFICES ASSUME a \in copies PROVE FALSE
      OBVIOUS
    <3>1. a >= to + 8 /\ a < hi /\ hi \in Int
      BY <1>2, <1>6 DEF hi
    <3> QED BY <1>2, <3>1
  <2> QED BY <2>1, <2>2
<1>10. \A a \in DOMAIN mem : a % 16 = 0 => ~IsAllocated(mem[a])
  <2> SUFFICES ASSUME NEW a \in kept \cup copies, a % 16 = 0 PROVE ~IsAllocated(mem[a])
    OBVIOUS
  <2>1. \A c \in DOMAIN h.mem : c % 16 = 0 => ~IsAllocated(h.mem[c])
    BY <1>2 DEF Tiled
  <2>2. CASE a \in kept
    BY <2>1, <2>2
  <2>3. CASE a \notin kept
    <3>1. a \in copies /\ mem[a] = h.mem[a - to + from]
      BY <2>3
    <3> HIDE DEF copies, mem
    <3>2. a - to + from \in DOMAIN h.mem /\ (a - to + from) % 16 = 0
      BY <1>6, <3>1
    <3> QED BY <2>1, <3>1, <3>2
  <2> QED BY <2>2, <2>3
<1>11. ASSUME NEW a \in kept \cup copies, a >= to + 8, a < hi, a % 16 = 8 PROVE Spent(mem[a])
  <2>1. CASE a \in kept
    <3>1. a \in DOMAIN h.mem /\ mem[a] = h.mem[a] /\ a \in Int
      BY <1>4, <2>1
    <3>2. a \notin Starts(h) /\ a >= FirstBlock
      BY <1>11, <3>1, WithinNoBlock
    <3> QED BY <1>2, <1>11, <3>1, <3>2 DEF Tiled
  <2>2. CASE a \notin kept
    <3>1. a \in copies /\ mem[a] = h.mem[a - to + from]
      BY <2>2
    <3> HIDE DEF copies, mem, kept, hi
    <3> DEFINE c == a - to + from
    <3>2. /\ c \in DOMAIN h.mem /\ c % 16 = 8 /\ c >= from + 8 /\ c < from + h.mem[from].size
      BY <1>6, <1>11, <3>1
    <3>3. c \in Int
      BY <1>4, <3>2
    <3> HIDE DEF c
    <3>4. c \notin Starts(h) /\ c >= FirstBlock
      BY <3>2, <3>3, WithinNoBlock
    <3>5. Spent(h.mem[c])
      BY <1>2, <3>2, <3>4 DEF Tiled
    <3> QED BY <3>1, <3>5 DEF c
  <2> QED BY <2>1, <2>2
<1>12. \A a \in DOMAIN mem : a >= to + 8 /\ a < hi /\ a % 16 = 8 => Spent(mem[a])
  BY <1>11
<1> HIDE DEF mem, hi
<1>13. Rewritten(h, to, g)
  BY <1>8, <1>9, <1>10, <1>12 DEF Rewritten, hi
<1> QED BY <1>1, <1>8, <1>13, RewritingKeeps


\* The client's block b has another header.
Relabelled(h, b, tag, g) ==
    /\ Sane(g) /\ Stored(g) /\ Within(g) /\ g.end = h.end
    /\ Lent(g) = Lent(h)
    /\ g.mem[b] = tag /\ \A a \in Lent(h) \ {b} : g.mem[a] = h.mem[a]
    /\ Unfiled(g) \subseteq Unfiled(h)

LEMMA OccupiedRelabels ==
    ASSUME NEW h, NEW b, NEW tag, NEW g, Stored(h), Within(h), b \in Lent(h), Occupied(h, b, tag, g)
    PROVE  Relabelled(h, b, tag, g)
<1>1. b \in Taken(h) /\ b \notin InQuick(h) /\ Lent(h) \subseteq Taken(h)
  BY DEF Lent
<1>2. Taken(g) = Taken(h)
  BY <1>1 DEF Occupied
<1>3. \A a \in InQuick(h) : a \in Taken(g) /\ g.mem[a] = h.mem[a]
  BY <1>1, <1>2 DEF Occupied, InQuick, Stored
<1>4. Stored(g) /\ InQuick(g) = InQuick(h)
  BY <1>3, StoredStays DEF Occupied
<1> QED BY <1>1, <1>2, <1>4 DEF Occupied, Relabelled, Within, Lent

\* A header is written over one of the same size.
LEMMA RetagRelabels ==
    ASSUME NEW h, NEW b, NEW tag \in Words, Sane(h), Stored(h), Within(h), b \in Lent(h),
           IsAllocated(tag), tag.size = h.mem[b].size
    PROVE  Relabelled(h, b, tag, Written(h, {b}, tag))
<1> DEFINE g == Written(h, {b}, tag)
<1>1. b \in Taken(h)
  BY DEF Lent
<1>2. h \in Heaps /\ b \in Int /\ b \in Starts(h) /\ b # h.end - 8 /\ b \notin Listed(h.free)
  BY <1>1, TakenFacts
<1>3. {b} \in SUBSET Int
  BY <1>2
<1>4. /\ g \in Heaps /\ g.end = h.end /\ g.free = h.free /\ g.quick = h.quick
      /\ Overwritten(g.mem, h.mem, {b}, tag)
  BY <1>2, <1>3, WrittenFields
<1> HIDE DEF g
<1>5. Retagged(h, g, b, tag)
  BY <1>2, <1>4 DEF Retagged
<1>6. Occupied(h, b, tag, g)
  BY <1>4, <1>5, RetaggedIsOccupied
<1> QED BY <1>6, OccupiedRelabels DEF g

\* The header of a block that was cut.
ShrunkTag(h, b, n) == [Header(BlockFor(n), At(h, b).flags) EXCEPT !.payload = n]

LEMMA ShrunkTagFacts ==
    ASSUME NEW h, NEW b \in Taken(h), Sane(h), NEW n \in Nat
    PROVE  LET tag == ShrunkTag(h, b, n)
           IN  tag \in Words /\ IsAllocated(tag) /\ tag.size = BlockFor(n) /\ tag.payload = n
<1> DEFINE flags == At(h, b).flags
           size == BlockFor(n)
           head == Header(size, flags)
<1>1. h \in Heaps /\ b \in DOMAIN h.mem /\ IsAllocated(h.mem[b])
  BY TakenFacts DEF IsBlock
<1>2. flags \in SUBSET Flags /\ THIS_BLOCK_ALLOCATED \in flags
  BY <1>1, AtFacts DEF Words, IsAllocated
<1>3. size \in Nat /\ size % 16 = 0
  BY BlockForType
<1> HIDE DEF size, flags
<1>4. size - (size % 16) = size
  BY <1>3
<1>5. head \in Words /\ head.size = size /\ IsAllocated(head)
  BY <1>2, <1>3, <1>4, HeaderFacts
<1> HIDE DEF head
<1>6. ShrunkTag(h, b, n) = [head EXCEPT !.payload = n]
  BY DEF ShrunkTag, head, size, flags
<1> QED BY <1>5, <1>6 DEF Words, IsAllocated, size

LEMMA ShrinkingRelabels ==
    ASSUME NEW h, NEW b, NEW n \in Nat, ~Wraps(n), Sane(h), Stored(h), Within(h), b \in Lent(h),
           h.mem[b].size - BlockFor(n) >= MinBlock
    PROVE  LET g == Shrunk(h, b, n)
           IN  /\ h.events \subseteq g.events
               /\ ~Harmed(g) => Relabelled(h, b, ShrunkTag(h, b, n), g)
<1> DEFINE size == h.mem[b].size
           room == BlockFor(n)
           c == b + room
           hi == b + size
           rest == Header(size - room, {PREV_BLOCK_ALLOCATED})
           split == Split(h, b, size, room)
           next == At(split, hi)
           bare == Header(next.size, {})
           cleared == IF THIS_BLOCK_ALLOCATED \in next.flags THEN split ELSE Written(split, {hi}, bare)
           tag == ShrunkTag(h, b, n)
           g == Written(Release(cleared, size - room, c), {b}, tag)
<1>1. Shrunk(h, b, n) = g
  BY DEF Shrunk, ShrunkTag
<1>2. b \in Taken(h)
  BY DEF Lent
<1>3. /\ h \in Heaps /\ h.mem \in Memories /\ Tiled(h.mem, h.end, Starts(h))
      /\ b \in Int /\ b \in Starts(h) /\ b # h.end - 8 /\ b \notin Listed(h.free)
      /\ size \in Nat /\ size >= 32 /\ size % 16 = 0
      /\ IsBlock(h.mem, Starts(h), b)
  BY <1>2, TakenFacts
<1>4. room \in Nat /\ room % 16 = 0 /\ room >= 32
  BY BlockForFacts
<1>5. tag \in Words /\ IsAllocated(tag) /\ tag.size = room
  BY <1>2, ShrunkTagFacts
<1>6. b % 16 = 8 /\ hi \in Starts(h)
  BY <1>3 DEF IsBlock
<1>7. hi \in Int /\ hi \in DOMAIN h.mem /\ h.mem[hi] \in Words
  BY <1>3, <1>6, TiledFacts
<1>8. size - room >= 32
  BY DEF MinBlock
<1> HIDE DEF size, room, tag
<1>9. size - room \in Nat /\ (size - room) % 16 = 0
  BY <1>3, <1>4, <1>8
<1>10. c \in Int /\ c % 16 = 8 /\ c >= b + 32 /\ hi >= c + 32 /\ hi - c = size - room /\ room = c - b
  BY <1>3, <1>4, <1>6, <1>8
<1>11. rest \in Words /\ rest.size = size - room
  BY <1>9, CutTag
<1> HIDE DEF rest
<1> DEFINE A == {c, hi - 8}
<1>12. split = Written(h, A, rest)
  <2>1. Footer(c, rest.size) = hi - 8
    BY <1>3, <1>4, <1>10, <1>11 DEF Footer
  <2> HIDE DEF hi
  <2> QED BY <2>1 DEF Split, Tagged, rest
<1>13. A \in SUBSET Int /\ hi \notin A
  BY <1>7, <1>10
<1> HIDE DEF split, hi, c
<1>14. /\ split \in Heaps
       /\ split.end = h.end /\ split.free = h.free /\ split.quick = h.quick /\ split.events = h.events
       /\ Overwritten(split.mem, h.mem, A, rest)
  BY <1>3, <1>11, <1>12, <1>13, WrittenFields
<1>15. hi \in DOMAIN split.mem /\ split.mem[hi] = h.mem[hi]
  BY <1>7, <1>13, <1>14 DEF Overwritten
<1>16. next = h.mem[hi]
  BY <1>14, <1>15, AtFacts
<1> HIDE DEF next
<1>17. bare \in Words
  <2>1. next.size \in Nat
    BY <1>7, <1>16 DEF Words
  <2> QED BY <2>1, FreeHeaderFacts
<1> HIDE DEF bare
<1>18. /\ cleared \in Heaps
       /\ cleared.end = h.end /\ cleared.free = h.free /\ cleared.quick = h.quick
       /\ cleared.events = h.events
       /\ DOMAIN cleared.mem = DOMAIN split.mem
       /\ \A a \in DOMAIN split.mem \ {hi} : cleared.mem[a] = split.mem[a]
       /\ \/ cleared.mem[hi] = h.mem[hi]
          \/ ~IsAllocated(h.mem[hi]) /\ cleared.mem[hi] = bare
  <2>1. CASE THIS_BLOCK_ALLOCATED \in next.flags
    <3>1. cleared = split
      BY <2>1
    <3> HIDE DEF cleared
    <3> QED BY <1>14, <1>15, <3>1
  <2>2. CASE THIS_BLOCK_ALLOCATED \notin next.flags
    <3>1. cleared = Written(split, {hi}, bare)
      BY <2>2
    <3> HIDE DEF cleared
    <3>2. {hi} \in SUBSET Int
      BY <1>7
    <3>3. /\ cleared \in Heaps
          /\ cleared.end = split.end /\ cleared.free = split.free /\ cleared.quick = split.quick
          /\ cleared.events = split.events
          /\ Overwritten(cleared.mem, split.mem, {hi}, bare)
      BY <1>14, <1>17, <3>1, <3>2, WrittenFields
    <3>4. ~IsAllocated(h.mem[hi])
      BY <1>16, <2>2 DEF IsAllocated
    <3> QED BY <1>14, <1>15, <3>3, <3>4 DEF Overwritten
  <2> QED BY <2>1, <2>2
<1> HIDE DEF cleared
<1>19. Cut(h, cleared, b, c)
  <2>1. /\ DOMAIN cleared.mem = DOMAIN h.mem \cup A
        /\ cleared.mem[c] = rest /\ cleared.mem[hi - 8] = rest
        /\ \A a \in DOMAIN h.mem \ {c, hi - 8, hi} : cleared.mem[a] = h.mem[a]
    BY <1>13, <1>14, <1>18 DEF Overwritten
  <2>2. rest = Header(hi - c, {PREV_BLOCK_ALLOCATED}) /\ hi = b + h.mem[b].size
    BY <1>10 DEF rest, hi, size
  <2>3. bare = Header(h.mem[hi].size, {})
    BY <1>16 DEF bare
  <2> QED BY <1>3, <1>6, <1>10, <1>18, <2>1, <2>2, <2>3 DEF Cut
<1>20. g = Written(Release(cleared, hi - c, c), {b}, tag)
  BY <1>10
<1>21. tag.size = c - b /\ hi = b + h.mem[b].size
  BY <1>5, <1>10 DEF hi, size
<1> HIDE DEF g
<1>22. /\ h.events \subseteq g.events
       /\ ~Harmed(g) => Occupied(h, b, tag, g)
  BY <1>5, <1>19, <1>20, <1>21, CutSettles
<1>23. ~Harmed(g) => Relabelled(h, b, tag, g)
  BY <1>22, OccupiedRelabels
<1> QED BY <1>1, <1>22, <1>23 DEF g, tag


\* sf_free of any allocated block leaves the events that were.
LEMMA FlushFields ==
    ASSUME NEW h \in Heaps, NEW size \in Nat, size >= 32, NEW blocks \in Seq(Int)
    PROVE  LET r == Flush(h, size, blocks)
           IN  r \in Results /\ h.events \subseteq r.heap.events
<1> DEFINE merged == Flushed(h, size, blocks)
           T == {n \in 0 .. Len(blocks) : h.events \subseteq merged[n].heap.events}
<1>1. /\ Flush(h, size, blocks) = merged[Len(blocks)]
      /\ merged \in [0 .. Len(blocks) -> Results]
      /\ merged[0] = Result(h, NULL)
      /\ \A n \in 1 .. Len(blocks) :
            merged[n] = Freeing(merged[n - 1].heap, size, blocks[n])
  BY FlushedUnfold
<1> HIDE DEF merged
<1>2. Len(blocks) \in Nat /\ \A n \in 1 .. Len(blocks) : blocks[n] \in Int
  OBVIOUS
<1>3. 0 \in T
  BY <1>1, <1>2 DEF Result
<1>4. ASSUME NEW n \in 1 .. Len(blocks), n - 1 \in T PROVE n \in T
  <2> DEFINE r == merged[n - 1]
  <2>1. r.heap \in Heaps /\ blocks[n] \in Int /\ h.events \subseteq r.heap.events
    BY <1>1, <1>2, <1>4 DEF Results
  <2>2. merged[n] = Freeing(r.heap, size, blocks[n]) /\ n \in 0 .. Len(blocks)
    BY <1>1, <1>2
  <2> HIDE DEF r
  <2>3. r.heap.events \subseteq merged[n].heap.events
    BY <2>1, <2>2, FreeingFields
  <2> QED BY <2>1, <2>2, <2>3
<1>5. Len(blocks) \in T
  <2> HIDE DEF T
  <2>1. Len(blocks) \in 0 .. Len(blocks)
    BY <1>2
  <2> QED BY <1>2, <1>3, <1>4, <2>1, AllUpTo
<1> QED BY <1>1, <1>5

LEMMA FreeFields ==
    ASSUME NEW h \in Heaps, NEW b \in Int, At(h, b).size >= 32, At(h, b).size % 16 = 0
    PROVE  h.events \subseteq Free(h, b).heap.events
<1> DEFINE size == At(h, b).size
           i == (size - MinBlock) \div Align
           bare == Tagged(h, b, Header(size, {}))
           untaken == Written(h, {b}, Header(size, {}))
           marked == Written(untaken, {b}, QuickTag(size))
           short == [marked EXCEPT !.quick[i] = <<b>> \o @]
           flushing == Event(marked, "flushed", TRUE)
           flushed == Flush(flushing, size, untaken.quick[i])
           g == Release(bare, size, b)
           q == insertQuick(untaken, size, b)
<1>1. size \in Nat /\ size \in Nat \ {0} /\ size >= 32 /\ size % 16 = 0
  BY AtFacts
<1>2. Header(size, {}) \in Words /\ Header(size, {}).size = size
  BY <1>1, FreeHeaderFacts
<1>3. Free(h, b) = IF IsQuick(size) THEN q ELSE Result(g, b)
  BY DEF Free
<1>4. CASE ~IsQuick(size)
  <2> DEFINE A == {b, Footer(b, size)}
  <2>1. bare = Written(h, A, Header(size, {}))
    BY <1>2 DEF Tagged
  <2>2. A \in SUBSET Int
    BY <1>1 DEF Footer
  <2> HIDE DEF A, bare, size
  <2>3. bare \in Heaps /\ bare.events = h.events
    BY <1>2, <2>1, <2>2, WrittenFields
  <2>4. g \in Heaps /\ bare.events \subseteq g.events
    BY <1>1, <2>3, ReleaseFields
  <2> HIDE DEF g
  <2> QED BY <1>3, <1>4, <2>3, <2>4 DEF Result
<1>5. CASE IsQuick(size)
  <2> HIDE DEF size
  <2>1. i \in QuickLists /\ QuickTag(size) \in Words /\ {b} \in SUBSET Int
    <3>1. i \in QuickLists /\ QuickSize(i) = size
      BY <1>1, <1>5, QuickFacts
    <3> QED BY <3>1, QuickTagFacts
  <2>2. untaken \in Heaps /\ untaken.events = h.events
    BY <1>2, <2>1, WrittenFields
  <2> HIDE DEF untaken
  <2>3. marked \in Heaps /\ marked.events = h.events
    BY <2>1, <2>2, WrittenFields
  <2>4. q = IF Len(untaken.quick[i]) < QUICK_LIST_MAX THEN Result(short, b) ELSE Begun(flushed, i, b)
    BY DEF insertQuick
  <2> HIDE DEF marked, q, i
  <2>5. short.events = marked.events
    OBVIOUS
  <2>6. untaken.quick[i] \in Seq(Int)
    BY <2>1, <2>2 DEF Heaps
  <2>7. flushing \in Heaps /\ h.events \subseteq flushing.events
    BY <2>3, EventFields
  <2> HIDE DEF flushing
  <2>8. flushed \in Results /\ flushing.events \subseteq flushed.heap.events
    BY <1>1, <2>6, <2>7, FlushFields
  <2> HIDE DEF flushed
  <2> DEFINE placed == placeBySize(flushed)
             other == At(flushed.heap, flushed.block).size
  <2>9. flushed.heap \in Heaps /\ flushed.heap.events \subseteq placed.events
    <3>1. flushed.heap \in Heaps
      BY <2>8 DEF Results
    <3>2. placed = placeFreeBlock(flushed.heap, other, flushed.block)
      BY DEF placeBySize
    <3> HIDE DEF placed, other
    <3>3. placed.events = IF Misfiled(flushed.heap, other, flushed.block)
                          THEN flushed.heap.events \cup {"misfiled"} ELSE flushed.heap.events
      BY <3>1, <3>2, PlacedEvents
    <3> QED BY <3>1, <3>3
  <2> HIDE DEF placed
  <2>10. [placed EXCEPT !.quick[i] = <<b>>].events = placed.events
    OBVIOUS
  <2>11. Begun(flushed, i, b) = IF flushed.block = NULL THEN flushed ELSE Result([placed EXCEPT !.quick[i] = <<b>>], b)
    BY DEF Begun, placed
  <2>12. flushed.heap.events \subseteq Begun(flushed, i, b).heap.events
    <3>1. CASE flushed.block = NULL
      BY <2>11, <3>1
    <3>2. CASE flushed.block # NULL
      <4> DEFINE begun == [placed EXCEPT !.quick[i] = <<b>>]
      <4>1. begun.events = placed.events /\ Begun(flushed, i, b) = Result(begun, b)
        BY <2>10, <2>11, <3>2
      <4> HIDE DEF begun
      <4>2. Begun(flushed, i, b).heap = begun
        BY <4>1 DEF Result
      <4> QED BY <2>9, <4>1, <4>2
    <3> QED BY <3>1, <3>2
  <2>13. h.events \subseteq q.heap.events
    <3>1. CASE Len(untaken.quick[i]) < QUICK_LIST_MAX
      BY <2>3, <2>4, <2>5, <3>1 DEF Result
    <3>2. CASE ~(Len(untaken.quick[i]) < QUICK_LIST_MAX)
      <4>1. q = Begun(flushed, i, b)
        BY <2>4, <3>2
      <4> QED BY <2>7, <2>8, <2>12, <4>1
    <3> QED BY <3>1, <3>2
  <2> QED BY <1>3, <1>5, <2>13
<1> QED BY <1>4, <1>5

\* sf_realloc moves a block of h to one that it was lent in g.
LEMMA MoveLends ==
    ASSUME NEW h, NEW b \in Lent(h), NEW n \in Nat, ~Wraps(n), n >= h.mem[b].payload,
           h.mem[b].payload + 8 <= h.mem[b].size,
           NEW c, NEW g, Lending(h, c, AllocatedTag(BlockFor(n), n), g)
    PROVE  LET m == Copied(g, b, c)
               r == Free(m, b)
           IN  /\ g.events \subseteq r.heap.events
               /\ ~Harmed(r.heap) /\ r.block # NULL =>
                     /\ Sane(r.heap) /\ Stored(r.heap) /\ Within(r.heap)
                     /\ Lent(r.heap) = (Lent(h) \ {b}) \cup {c}
                     /\ r.heap.mem[c] = AllocatedTag(BlockFor(n), n)
                     /\ \A a \in Lent(h) \ {b} : r.heap.mem[a] = h.mem[a]
                     /\ "flushed" \notin r.heap.events => Unfiled(r.heap) \subseteq Unfiled(h)
<1> DEFINE tag == AllocatedTag(BlockFor(n), n)
           m == Copied(g, b, c)
           r == Free(m, b)
<1>1. /\ Sane(g) /\ Stored(g) /\ Within(g)
      /\ c \notin Lent(h) /\ Lent(g) = Lent(h) \cup {c}
      /\ g.mem[c] = tag /\ \A a \in Lent(h) : g.mem[a] = h.mem[a]
      /\ Unfiled(g) \subseteq Unfiled(h)
  BY DEF Lending
<1>2. b \in Lent(g) /\ c \in Lent(g) /\ b # c /\ g.mem[b] = h.mem[b]
  BY <1>1
<1>3. b \in Taken(g) /\ c \in Taken(g)
  BY <1>2 DEF Lent
<1>4. g.mem[b].payload + 8 <= g.mem[c].size
  <2>1. BlockFor(n) \in Nat /\ BlockFor(n) >= n + 8 /\ BlockFor(n) % 16 = 0
    BY BlockForFacts
  <2>2. tag.size = BlockFor(n)
    BY <2>1, AllocatedTagFacts
  <2>3. g.mem[b].payload \in Nat
    <3>1. g \in Heaps /\ IsBlock(g.mem, Starts(g), b)
      BY <1>1, <1>3, TakenFacts
    <3>2. b \in DOMAIN g.mem
      BY <3>1 DEF IsBlock
    <3> QED BY <3>1, <3>2, AtFacts DEF Words
  <2> HIDE DEF tag
  <2> QED BY <1>1, <1>2, <2>1, <2>2, <2>3
<1> HIDE DEF tag
<1>5. Kept(g, m) /\ m.events = g.events
  BY <1>1, <1>2, <1>3, <1>4, CopyKeeps
<1> HIDE DEF m
<1>6. /\ Sane(m) /\ Stored(m) /\ Within(m)
      /\ Lent(m) = Lent(g) /\ \A a \in Lent(g) : m.mem[a] = g.mem[a]
      /\ Unfiled(m) \subseteq Unfiled(g)
  BY <1>5 DEF Kept
<1>7. /\ m.events \subseteq r.heap.events
      /\ ~Harmed(r.heap) /\ r.block # NULL => GivenBack(m, b, r.heap)
  BY <1>2, <1>6, FreeGivesBack
<1> HIDE DEF r
<1>8. ASSUME GivenBack(m, b, r.heap)
      PROVE  /\ Sane(r.heap) /\ Stored(r.heap) /\ Within(r.heap)
             /\ Lent(r.heap) = (Lent(h) \ {b}) \cup {c}
             /\ r.heap.mem[c] = tag
             /\ \A a \in Lent(h) \ {b} : r.heap.mem[a] = h.mem[a]
             /\ "flushed" \notin r.heap.events => Unfiled(r.heap) \subseteq Unfiled(h)
  <2>1. /\ Sane(r.heap) /\ Stored(r.heap) /\ r.heap.end = m.end
        /\ Lent(r.heap) = Lent(m) \ {b}
        /\ \A a \in Lent(r.heap) : r.heap.mem[a] = m.mem[a]
        /\ "flushed" \notin r.heap.events => Unfiled(r.heap) \subseteq Unfiled(m)
    BY <1>8 DEF GivenBack
  <2>2. Lent(r.heap) = (Lent(h) \ {b}) \cup {c}
    BY <1>1, <1>2, <1>6, <2>1
  <2>3. Within(r.heap)
    BY <1>6, <2>1 DEF Within
  <2>4. r.heap.mem[c] = tag /\ \A a \in Lent(h) \ {b} : r.heap.mem[a] = h.mem[a]
    BY <1>1, <1>2, <1>6, <2>1, <2>2
  <2> QED BY <1>1, <1>6, <2>1, <2>2, <2>3, <2>4
<1> QED BY <1>5, <1>7, <1>8 DEF r, m, tag

-----------------------------------------------------------------------------
(* The inductive invariant. *)

\* What the client holds is what is lent to it, and nothing is lost but by a
\* flush.
Owned(h, held) ==
    /\ DOMAIN held = Lent(h)
    /\ \A b \in Lent(h) : h.mem[b].payload = held[b] /\ held[b] + 8 <= h.mem[b].size
Kempt(h, held) ==
    /\ Sane(h) /\ Stored(h) /\ Within(h)
    /\ Owned(h, held)
    /\ "flushed" \notin h.events => Unfiled(h) = {}

\* The heap is not there yet, or it is kempt, until the code does something wrong.
Orderly(h, held) == (h = NoHeap /\ held = <<>>) \/ Kempt(h, held)
IInv == Sound => Orderly(heap, live)

LEMMA KeptIsKempt ==
    ASSUME NEW h, NEW held, Kempt(h, held), NEW g, Kept(h, g), h.events \subseteq g.events
    PROVE  Kempt(g, held)
BY DEF Kempt, Kept, Owned

LEMMA LendingIsKempt ==
    ASSUME NEW h, NEW held, Kempt(h, held), NEW n \in Nat, ~Wraps(n), NEW b, NEW g, h.events \subseteq g.events,
           Lending(h, b, AllocatedTag(BlockFor(n), n), g),
           NEW new, DOMAIN new = DOMAIN held \cup {b}, new[b] = n, \A a \in DOMAIN held : new[a] = held[a]
    PROVE  Kempt(g, new)
<1> DEFINE tag == AllocatedTag(BlockFor(n), n)
<1>1. tag.payload = n /\ n + 8 <= tag.size
  <2>1. BlockFor(n) \in Nat /\ BlockFor(n) >= n + 8 /\ BlockFor(n) % 16 = 0
    BY BlockForFacts
  <2>2. tag.size = BlockFor(n) /\ tag.payload = n
    BY <2>1, AllocatedTagFacts
  <2> HIDE DEF tag
  <2> QED BY <2>1, <2>2
<1> HIDE DEF tag
<1>2. /\ Sane(g) /\ Stored(g) /\ Within(g)
      /\ b \notin Lent(h) /\ Lent(g) = Lent(h) \cup {b}
      /\ g.mem[b] = tag /\ \A a \in Lent(h) : g.mem[a] = h.mem[a]
      /\ Unfiled(g) \subseteq Unfiled(h)
  BY DEF Lending, tag
<1>3. /\ DOMAIN held = Lent(h)
      /\ \A a \in Lent(h) : h.mem[a].payload = held[a] /\ held[a] + 8 <= h.mem[a].size
      /\ "flushed" \notin h.events => Unfiled(h) = {}
  BY DEF Kempt, Owned
<1>4. Owned(g, new)
  <2> SUFFICES ASSUME NEW a \in Lent(g)
               PROVE  g.mem[a].payload = new[a] /\ new[a] + 8 <= g.mem[a].size
    BY <1>2, <1>3 DEF Owned
  <2>1. CASE a = b
    BY <1>1, <1>2, <2>1
  <2>2. CASE a # b
    <3>1. a \in Lent(h) /\ g.mem[a] = h.mem[a] /\ new[a] = held[a]
      BY <1>2, <1>3, <2>2
    <3> QED BY <1>3, <3>1
  <2> QED BY <2>1, <2>2
<1> QED BY <1>2, <1>3, <1>4 DEF Kempt

LEMMA RelabelledIsKempt ==
    ASSUME NEW h, NEW held, Kempt(h, held), NEW n \in Nat, NEW b \in Lent(h), NEW tag, NEW g,
           h.events \subseteq g.events, Relabelled(h, b, tag, g),
           tag.payload = n, n + 8 <= tag.size
    PROVE  Kempt(g, [held EXCEPT ![b] = n])
<1> DEFINE new == [held EXCEPT ![b] = n]
<1>1. /\ DOMAIN held = Lent(h)
      /\ \A a \in Lent(h) : h.mem[a].payload = held[a] /\ held[a] + 8 <= h.mem[a].size
      /\ "flushed" \notin h.events => Unfiled(h) = {}
  BY DEF Kempt, Owned
<1>2. /\ Sane(g) /\ Stored(g) /\ Within(g)
      /\ Lent(g) = Lent(h)
      /\ g.mem[b] = tag /\ \A a \in Lent(h) \ {b} : g.mem[a] = h.mem[a]
      /\ Unfiled(g) \subseteq Unfiled(h)
  BY DEF Relabelled
<1>3. DOMAIN new = Lent(h) /\ new[b] = n /\ \A a \in Lent(h) \ {b} : new[a] = held[a]
  BY <1>1
<1> HIDE DEF new
<1>4. Owned(g, new)
  <2> SUFFICES ASSUME NEW a \in Lent(g)
               PROVE  g.mem[a].payload = new[a] /\ new[a] + 8 <= g.mem[a].size
    BY <1>2, <1>3 DEF Owned
  <2>1. CASE a = b
    BY <1>2, <1>3, <2>1
  <2>2. CASE a # b
    <3>1. a \in Lent(h) /\ g.mem[a] = h.mem[a] /\ new[a] = held[a]
      BY <1>2, <1>3, <2>2
    <3> QED BY <1>1, <3>1
  <2> QED BY <2>1, <2>2
<1> QED BY <1>1, <1>2, <1>4 DEF Kempt, new

\* The client holds those of its blocks that are still lent, and perhaps one more.
LEMMA ReturnedIsKempt ==
    ASSUME NEW h, NEW held, Kempt(h, held), NEW g, h.events \subseteq g.events,
           Sane(g), Stored(g), Within(g),
           "flushed" \notin g.events => Unfiled(g) \subseteq Unfiled(h),
           NEW new, Owned(g, new)
    PROVE  Kempt(g, new)
BY DEF Kempt

LEMMA VacantIsKempt ==
    ASSUME NEW g, Vacant(g)
    PROVE  Kempt(g, <<>>)
BY DEF Vacant, Kempt, Owned

LEMMA StartingOrCrash ==
    ASSUME NEW n, ~Starting(n)
    PROVE  Malloc(NoHeap, n).crash
<1>1. Malloc(NoHeap, n) = [Found(NoHeap, NULL) EXCEPT !.crash = TRUE]
  BY NoHeapFacts DEF Malloc
<1>2. Found(NoHeap, NULL) = [heap |-> NoHeap, block |-> NULL, crash |-> FALSE]
  BY DEF Found
<1> QED BY <1>1, <1>2

\* The heap that sf_malloc answers from.
LEMMA MallocFrom ==
    ASSUME NEW h, NEW held, Orderly(h, held), NEW n \in Nat, ~Malloc(h, n).crash
    PROVE  \E g : Kempt(g, held) /\ Answered(g, n, Malloc(h, n))
<1>1. CASE h = NoHeap /\ held = <<>>
  <2>1. PICK g : Vacant(g) /\ Answered(g, n, Malloc(NoHeap, n))
    <3>1. Starting(n)
      BY <1>1, StartingOrCrash
    <3> QED BY <3>1, FirstMalloc
  <2> QED BY <1>1, <2>1, VacantIsKempt
<1>2. CASE Kempt(h, held)
  <2>1. Sane(h) /\ Stored(h) /\ Within(h)
    BY <1>2 DEF Kempt
  <2>2. h.end # 0
    BY <2>1 DEF Sane, Tiled, FirstBlock
  <2>3. Answered(h, n, Malloc(h, n))
    BY <2>1, <2>2, MallocAnswers
  <2> QED BY <1>2, <2>3
<1> QED BY <1>1, <1>2 DEF Orderly

-----------------------------------------------------------------------------
(* The steps. *)

LEMMA HeldFacts ==
    ASSUME NEW b \in DOMAIN live, Orderly(heap, live)
    PROVE  /\ Kempt(heap, live) /\ b \in Lent(heap) /\ b \in Taken(heap) /\ b \in Int
           /\ heap \in Heaps /\ Sane(heap) /\ Stored(heap) /\ Within(heap)
           /\ b \in DOMAIN heap.mem /\ At(heap, b) = heap.mem[b] /\ heap.mem[b] \in Words
           /\ heap.mem[b].payload = live[b] /\ live[b] + 8 <= heap.mem[b].size
<1>1. Kempt(heap, live)
  BY DEF Orderly
<1>2. b \in Lent(heap) /\ heap.mem[b].payload = live[b] /\ live[b] + 8 <= heap.mem[b].size
  BY <1>1 DEF Kempt, Owned
<1>3. b \in Taken(heap) /\ Sane(heap) /\ Stored(heap) /\ Within(heap)
  BY <1>1, <1>2 DEF Kempt, Lent
<1>4. heap \in Heaps /\ b \in Int /\ IsBlock(heap.mem, Starts(heap), b)
  BY <1>3, TakenFacts
<1>5. b \in DOMAIN heap.mem
  BY <1>4 DEF IsBlock
<1>6. At(heap, b) = heap.mem[b] /\ heap.mem[b] \in Words
  BY <1>4, <1>5, AtFacts
<1> QED BY <1>1, <1>2, <1>3, <1>4, <1>5, <1>6

\* Where blocks may be: what the client passes is in the heap or fails the checks.
LEMMA PointerFacts ==
    ASSUME NEW b \in Pointers, Valid(b), Orderly(heap, live)
    PROVE  /\ Kempt(heap, live) /\ heap \in Heaps /\ b \in Taken(heap) /\ b \in Int
           /\ At(heap, b).size >= 32 /\ At(heap, b).size % 16 = 0
<1>1. Kempt(heap, live)
  <2> SUFFICES ASSUME heap = NoHeap PROVE FALSE
    BY DEF Orderly
  <2>1. heap.end = 0 /\ heap \in Heaps
    BY NoHeapFacts
  <2>2. b >= 40 /\ b <= heap.end - 8
    BY DEF Valid, FirstBlock
  <2>3. Starts(heap) = {40}
    <3>1. /\ Starts(heap) = StartsFrom(heap)[FirstBlock]
          /\ \A a \in 0 .. (heap.end + FirstBlock) :
                StartsFrom(heap)[a] = IF Stops(heap, a) THEN {a} ELSE {a} \cup StartsFrom(heap)[a + heap.mem[a].size]
      BY <2>1, StartsUnfold
    <3>2. Stops(heap, 40)
      BY NoHeapFacts DEF Stops
    <3>3. 40 \in 0 .. (heap.end + FirstBlock)
      BY <2>1 DEF FirstBlock
    <3>4. StartsFrom(heap)[40] = {40}
      BY <3>1, <3>2, <3>3
    <3> QED BY <3>1, <3>4 DEF FirstBlock
  <2>4. b \in Int
    BY <2>3 DEF Pointers, FirstBlock, Align
  <2> QED BY <2>1, <2>2, <2>4
<1>2. heap \in Heaps /\ Sane(heap) /\ Tiled(heap.mem, heap.end, Starts(heap))
  BY <1>1 DEF Kempt, Sane
<1>3. b \in Starts(heap) /\ b \in Int
  <2>1. b >= FirstBlock
    BY DEF Valid
  <2>2. b \in Starts(heap)
    BY <2>1 DEF Pointers, FirstBlock, Align
  <2> QED BY <1>2, <2>2, TiledFacts
<1>4. b \in DOMAIN heap.mem /\ At(heap, b) = heap.mem[b]
  <2>1. b \in DOMAIN heap.mem
    BY <1>2, <1>3, TiledFacts
  <2> QED BY <1>2, <2>1, AtFacts
<1>5. IsAllocated(heap.mem[b]) /\ heap.mem[b].size >= 32
  BY <1>4 DEF Valid, IsAllocated, MinBlock
<1>6. b # heap.end - 8
  <2>1. heap.mem[heap.end - 8].size = 0
    BY <1>2, TiledFacts
  <2> QED BY <1>5, <2>1
<1>7. b \in Taken(heap)
  BY <1>3, <1>5, <1>6 DEF Taken
<1>8. heap.mem[b].size % 16 = 0
  BY <1>2, <1>7, TakenFacts
<1> QED BY <1>1, <1>2, <1>3, <1>4, <1>5, <1>7, <1>8


\* A block, or none, comes back to the client.
LEMMA ReturnedFacts ==
    ASSUME NEW got, NEW held, Returned(got, held), Sound'
    PROVE  /\ ~got.crash /\ heap' = got.heap /\ ~Harmed(got.heap)
           /\ live' = IF got.block = NULL THEN live ELSE held
<1>1. ~Harmed(heap') /\ outcome' = "runs"
  BY DEF Sound, Harmed
<1>2. ~got.crash
  BY <1>1 DEF Returned
<1> QED BY <1>1, <1>2 DEF Returned

LEMMA MallocStep ==
    ASSUME Orderly(heap, live), NEW n \in Requests, sf_malloc(n), Sound'
    PROVE  Orderly(heap', live')
<1>1. n \in Nat
  BY SizesAssumption
<1>2. CASE n = 0
  BY <1>2, <1>1 DEF sf_malloc
<1>3. CASE n # 0
  <2> DEFINE got == Malloc(heap, n)
             new == Holding(got.block, n, {})
  <2>1. Returned(got, new)
    BY <1>3 DEF sf_malloc
  <2>2. PICK g : Kempt(g, live) /\ Answered(g, n, got)
    <3>1. ~got.crash
      <4> HIDE DEF got, new
      <4> QED BY <2>1, ReturnedFacts
    <3> QED BY <1>1, <3>1, MallocFrom
  <2>3. DOMAIN new = DOMAIN live \cup {got.block} /\ new[got.block] = n
        /\ \A a \in DOMAIN live \ {got.block} : new[a] = live[a]
    BY DEF Holding
  <2> HIDE DEF got, new
  <2>4. /\ ~got.crash /\ heap' = got.heap /\ ~Harmed(got.heap)
        /\ live' = IF got.block = NULL THEN live ELSE new
    BY <2>1, ReturnedFacts
  <2>5. g.events \subseteq got.heap.events
    BY <2>2 DEF Answered
  <2>6. CASE got.block = NULL
    <3>1. Kept(g, got.heap)
      BY <2>2, <2>4, <2>6 DEF Answered
    <3>2. Kempt(got.heap, live)
      BY <2>2, <2>5, <3>1, KeptIsKempt
    <3> QED BY <2>4, <2>6, <3>2 DEF Orderly
  <2>7. CASE got.block # NULL
    <3>1. ~Wraps(n) /\ Lending(g, got.block, AllocatedTag(BlockFor(n), n), got.heap)
      BY <2>2, <2>4, <2>7 DEF Answered
    <3>2. got.block \notin DOMAIN live
      BY <2>2, <3>1 DEF Lending, Kempt, Owned
    <3>3. \A a \in DOMAIN live : new[a] = live[a]
      BY <2>3, <3>2
    <3>4. Kempt(got.heap, new)
      BY <1>1, <2>2, <2>3, <2>5, <3>1, <3>3, LendingIsKempt
    <3> QED BY <2>4, <2>7, <3>4 DEF Orderly
  <2> QED BY <2>6, <2>7
<1> QED BY <1>2, <1>3

\* What sf_free and sf_realloc of size 0 do with a pointer that passes the checks.
LEMMA FreedStep ==
    ASSUME Orderly(heap, live), NEW b \in Pointers, Valid(b), Freed(b), Sound'
    PROVE  Orderly(heap', live')
<1> DEFINE told == Event(heap, "not held", b \notin DOMAIN live)
           r == Free(told, b)
           new == Without(b)
<1>1. /\ Kempt(heap, live) /\ heap \in Heaps /\ b \in Taken(heap) /\ b \in Int
      /\ At(heap, b).size >= 32 /\ At(heap, b).size % 16 = 0
  BY PointerFacts
<1>2. r.block # NULL /\ heap' = r.heap /\ live' = new /\ ~Harmed(r.heap)
  <2>1. ~Harmed(heap') /\ outcome' = "runs"
    BY DEF Sound, Harmed
  <2>2. /\ r.block # NULL
        /\ heap' = r.heap /\ live' = new
    BY <2>1 DEF Freed
  <2> QED BY <2>1, <2>2
<1>3. b \in DOMAIN live
  <2> SUFFICES ASSUME b \notin DOMAIN live PROVE FALSE
    OBVIOUS
  <2>1. /\ told \in Heaps /\ told.mem = heap.mem
        /\ "not held" \in told.events
    BY <1>1 DEF Event, Heaps, Wrong
  <2> HIDE DEF told
  <2>2. At(told, b) = At(heap, b)
    BY <2>1 DEF At
  <2>3. told.events \subseteq r.heap.events
    BY <1>1, <2>1, <2>2, FreeFields
  <2> QED BY <1>2, <2>1, <2>3 DEF Harmed, Wrong
<1>4. told = heap
  BY <1>3 DEF Event
<1>5. /\ Sane(heap) /\ Stored(heap) /\ Within(heap) /\ b \in Lent(heap)
      /\ DOMAIN live = Lent(heap)
      /\ \A a \in Lent(heap) : heap.mem[a].payload = live[a] /\ live[a] + 8 <= heap.mem[a].size
  BY <1>1, <1>3 DEF Kempt, Owned
<1>6. /\ heap.events \subseteq r.heap.events
      /\ ~Harmed(r.heap) /\ r.block # NULL => GivenBack(heap, b, r.heap)
  BY <1>4, <1>5, FreeGivesBack
<1> HIDE DEF r, told
<1>7. /\ Sane(r.heap) /\ Stored(r.heap) /\ r.heap.end = heap.end
      /\ Lent(r.heap) = Lent(heap) \ {b}
      /\ \A a \in Lent(r.heap) : r.heap.mem[a] = heap.mem[a]
      /\ "flushed" \notin r.heap.events => Unfiled(r.heap) \subseteq Unfiled(heap)
  BY <1>2, <1>6 DEF GivenBack
<1>8. DOMAIN new = DOMAIN live \ {b} /\ \A a \in DOMAIN new : new[a] = live[a]
  BY DEF Without
<1> HIDE DEF new
<1>9. Owned(r.heap, new)
  BY <1>5, <1>7, <1>8 DEF Owned
<1>10. Within(r.heap)
  BY <1>5, <1>7 DEF Within
<1>11. Kempt(r.heap, new)
  BY <1>1, <1>6, <1>7, <1>9, <1>10, ReturnedIsKempt
<1> QED BY <1>2, <1>11 DEF Orderly

LEMMA FreeStep ==
    ASSUME Orderly(heap, live), NEW b \in Pointers, sf_free(b), Sound'
    PROVE  Orderly(heap', live')
<1>1. outcome' = "runs"
  BY DEF Sound
<1>2. Valid(b) /\ Freed(b)
  BY <1>1 DEF sf_free
<1> QED BY <1>2, FreedStep

\* Only a call that gets no block crashes.
IsFound(r) ==
    /\ r = [heap |-> r.heap, block |-> r.block, crash |-> r.crash]
    /\ r.crash => r.block = NULL

LEMMA MallocFound ==
    ASSUME NEW h, NEW n
    PROVE  IsFound(Malloc(h, n))
<1>1. ASSUME NEW g, NEW b PROVE IsFound(Found(g, b)) /\ IsFound([Found(g, NULL) EXCEPT !.crash = TRUE])
  <2>1. IsFound([heap |-> g, block |-> b, crash |-> FALSE])
    BY DEF IsFound
  <2>2. IsFound([heap |-> g, block |-> NULL, crash |-> TRUE])
    BY DEF IsFound
  <2>3. [Found(g, NULL) EXCEPT !.crash = TRUE] = [heap |-> g, block |-> NULL, crash |-> TRUE]
    <3>1. ASSUME NEW f, NEW c, NEW d, f = [heap |-> g, block |-> NULL, crash |-> c]
          PROVE  [f EXCEPT !.crash = d] = [heap |-> g, block |-> NULL, crash |-> d]
      BY <3>1
    <3> DEFINE f == Found(g, NULL)
    <3>2. f = [heap |-> g, block |-> NULL, crash |-> FALSE]
      BY DEF Found
    <3> HIDE DEF f
    <3>3. [f EXCEPT !.crash = TRUE] = [heap |-> g, block |-> NULL, crash |-> TRUE]
      BY <3>1, <3>2
    <3> QED BY <3>3 DEF f
  <2>4. Found(g, b) = [heap |-> g, block |-> b, crash |-> FALSE]
    BY DEF Found
  <2> QED BY <2>1, <2>2, <2>3, <2>4
<1>2. ASSUME NEW g, NEW size, NEW raw PROVE IsFound(findBlock(g, size, raw))
  <2> DEFINE i == QuickChoice(g)
             b == Head(g.quick[i])
             hit == IsQuick(size) /\ i \in QuickLists
             large == raw \/ QuickSize(i) >= size
             taken == Found(Event([g EXCEPT !.quick[i] = Tail(@)], "other size", QuickSize(i) # size), b)
             crashed == [Found(g, NULL) EXCEPT !.crash = TRUE]
             searched == searchFreeLists(Searched(g, size), size)
  <2>1. findBlock(g, size, raw) = CASE hit /\ large -> taken [] hit /\ ~large -> crashed [] OTHER -> searched
    BY DEF findBlock
  <2>2. IsFound(taken) /\ IsFound(crashed)
    BY <1>1
  <2>3. IsFound(searched)
    <3> DEFINE r == Searched(g, size)
    <3> HIDE DEF r
    <3>1. IsFound(searchFreeLists(r, size))
      BY <1>1 DEF searchFreeLists, TakeFit, TakeFree
    <3> QED BY <3>1 DEF r
  <2> HIDE DEF taken, crashed, searched, hit, large
  <2> QED BY <2>1, <2>2, <2>3
<1>3. ASSUME NEW r, IsFound(r) PROVE IsFound(Handed(r, n))
  <2> DEFINE noted == Event(r.heap, "wrapped", Wraps(n))
             g == Allocated(noted, r.block, BlockFor(n), n)
  <2>1. Handed(r, n) = IF r.block = NULL THEN r ELSE [r EXCEPT !.heap = g]
    BY DEF Handed, noted
  <2> HIDE DEF g
  <2>2. r = [heap |-> r.heap, block |-> r.block, crash |-> r.crash] /\ (r.crash => r.block = NULL)
    BY <1>3 DEF IsFound
  <2>3. [r EXCEPT !.heap = g] = [heap |-> g, block |-> r.block, crash |-> r.crash]
    BY <2>2
  <2>4. IsFound([heap |-> g, block |-> r.block, crash |-> r.crash])
    BY <2>2 DEF IsFound
  <2> QED BY <1>3, <2>1, <2>3, <2>4
<1> DEFINE g == IF h.end = 0 THEN initializeHeap(h, n) ELSE h
           raw == magic = "random"
           crashed == [Found(h, NULL) EXCEPT !.crash = TRUE]
<1>4. Malloc(h, n) = crashed \/ Malloc(h, n) = Handed(findBlock(g, BlockFor(n), raw), n)
  BY DEF Malloc
<1>5. IsFound(crashed)
  BY <1>1
<1> HIDE DEF g, raw, crashed
<1> QED BY <1>2, <1>3, <1>4, <1>5

\* sf_realloc to a larger size.
LEMMA GrowStep ==
    ASSUME Orderly(heap, live), NEW b \in DOMAIN live, NEW n \in Nat, ReallocGrow(b, n), Sound'
    PROVE  Orderly(heap', live')
<1> DEFINE first == Malloc(heap, n)
           got == Moved(first, b)
           c == first.block
           r == Free(Copied(first.heap, b, c), b)
           moved == [first EXCEPT !.heap = r.heap, !.crash = r.block = NULL]
           new == Holding(got.block, n, {b})
<1>1. /\ Kempt(heap, live) /\ b \in Lent(heap) /\ heap \in Heaps
      /\ At(heap, b) = heap.mem[b] /\ heap.mem[b] \in Words
      /\ heap.mem[b].payload = live[b] /\ live[b] + 8 <= heap.mem[b].size
  BY HeldFacts
<1>2. n > heap.mem[b].size /\ Returned(got, new)
  BY <1>1 DEF ReallocGrow
<1>3. n >= heap.mem[b].payload
  BY <1>1, <1>2 DEF Words
<1>4. Answered(heap, n, first)
  <2>1. Sane(heap) /\ Stored(heap) /\ Within(heap)
    BY <1>1 DEF Kempt
  <2>2. heap.end # 0
    BY <2>1 DEF Sane, Tiled, FirstBlock
  <2> QED BY <2>1, <2>2, MallocAnswers
<1>5. got = IF first.block = NULL \/ first.heap.events \cap Wrong # {} THEN first ELSE moved
  BY DEF Moved
<1>6. /\ ~got.crash /\ heap' = got.heap /\ ~Harmed(got.heap)
      /\ live' = IF got.block = NULL THEN live ELSE new
  <2> HIDE DEF got, new
  <2> QED BY <1>2, ReturnedFacts
<1>7. moved.heap = r.heap /\ moved.crash = (r.block = NULL) /\ moved.block = c
  <2>1. first = [heap |-> first.heap, block |-> c, crash |-> first.crash]
    BY MallocFound DEF IsFound
  <2> HIDE DEF first, c, r
  <2> QED BY <2>1
<1> HIDE DEF first, moved, got
<1>8. ~Harmed(first.heap)
  BY <1>5, <1>6 DEF Harmed
<1>9. CASE first.block = NULL
  <2>1. got = first
    BY <1>5, <1>9
  <2>2. Kept(heap, first.heap) /\ heap.events \subseteq first.heap.events
    BY <1>4, <1>6, <1>8, <1>9, <2>1 DEF Answered
  <2>3. Kempt(first.heap, live)
    BY <1>1, <2>2, KeptIsKempt
  <2> QED BY <1>6, <1>9, <2>1, <2>3 DEF Orderly
<1>10. CASE first.block # NULL
  <2>1. got = moved
    BY <1>5, <1>8, <1>10 DEF Harmed
  <2> HIDE DEF r
  <2>2. r.block # NULL /\ heap' = r.heap /\ ~Harmed(r.heap) /\ live' = new /\ got.block = c
    BY <1>6, <1>7, <1>10, <2>1
  <2>3. CASE first.crash
    BY <1>10, <2>3, MallocFound DEF IsFound, first
  <2>4. CASE ~first.crash
    <3>1. /\ ~Wraps(n) /\ Lending(heap, c, AllocatedTag(BlockFor(n), n), first.heap)
          /\ heap.events \subseteq first.heap.events
      BY <1>4, <1>8, <1>10, <2>4 DEF Answered
    <3> DEFINE tag == AllocatedTag(BlockFor(n), n)
    <3>2. /\ first.heap.events \subseteq r.heap.events
          /\ Sane(r.heap) /\ Stored(r.heap) /\ Within(r.heap)
          /\ Lent(r.heap) = (Lent(heap) \ {b}) \cup {c}
          /\ r.heap.mem[c] = tag
          /\ \A a \in Lent(heap) \ {b} : r.heap.mem[a] = heap.mem[a]
          /\ "flushed" \notin r.heap.events => Unfiled(r.heap) \subseteq Unfiled(heap)
      BY <1>1, <1>3, <2>2, <3>1, MoveLends DEF r
    <3>3. tag.payload = n /\ n + 8 <= tag.size
      <4>1. BlockFor(n) \in Nat /\ BlockFor(n) >= n + 8 /\ BlockFor(n) % 16 = 0
        BY <3>1, BlockForFacts
      <4>2. tag.size = BlockFor(n) /\ tag.payload = n
        BY <4>1, AllocatedTagFacts
      <4> HIDE DEF tag
      <4> QED BY <4>1, <4>2
    <3>4. /\ DOMAIN live = Lent(heap) /\ c \notin Lent(heap)
          /\ \A a \in Lent(heap) : heap.mem[a].payload = live[a] /\ live[a] + 8 <= heap.mem[a].size
      BY <1>1, <3>1 DEF Kempt, Owned, Lending
    <3> HIDE DEF tag
    <3>5. /\ DOMAIN new = (DOMAIN live \ {b}) \cup {c} /\ new[c] = n
          /\ \A a \in DOMAIN live \ {b} : a # c => new[a] = live[a]
      BY <2>2 DEF Holding
    <3> HIDE DEF new
    <3>6. Owned(r.heap, new)
      <4> SUFFICES ASSUME NEW a \in Lent(r.heap)
                   PROVE  r.heap.mem[a].payload = new[a] /\ new[a] + 8 <= r.heap.mem[a].size
        BY <3>2, <3>4, <3>5 DEF Owned
      <4>1. CASE a = c
        BY <3>2, <3>3, <3>5, <4>1
      <4>2. CASE a # c
        <5>1. a \in Lent(heap) \ {b} /\ r.heap.mem[a] = heap.mem[a] /\ new[a] = live[a]
          BY <3>2, <3>4, <3>5, <4>2
        <5> QED BY <3>4, <5>1
      <4> QED BY <4>1, <4>2
    <3>7. heap.events \subseteq r.heap.events
      BY <3>1, <3>2
    <3>8. Kempt(r.heap, new)
      BY <1>1, <3>2, <3>6, <3>7, ReturnedIsKempt
    <3> QED BY <2>2, <3>8 DEF Orderly
  <2> QED BY <2>3, <2>4
<1> QED BY <1>9, <1>10


\* sf_realloc to no larger size.
LEMMA InPlaceStep ==
    ASSUME Orderly(heap, live), NEW b \in DOMAIN live, NEW n \in Nat, ReallocInPlace(b, n), Sound'
    PROVE  Orderly(heap', live')
<1> DEFINE tag == At(heap, b)
           short == n + 8 > tag.size
           new == [live EXCEPT ![b] = n]
           kept == [tag EXCEPT !.payload = n]
           room == BlockFor(n)
           long == tag.size - room >= MinBlock
<1>1. /\ Kempt(heap, live) /\ b \in Lent(heap) /\ b \in Taken(heap) /\ heap \in Heaps
      /\ Sane(heap) /\ Stored(heap) /\ Within(heap)
      /\ tag = heap.mem[b] /\ heap.mem[b] \in Words
  BY HeldFacts
<1>2. ~Harmed(heap')
  BY DEF Sound, Harmed
<1>3. live' = new
  BY DEF ReallocInPlace
<1>4. \/ short /\ heap' = Event(heap, "no room", TRUE)
      \/ ~short /\ long /\ heap' = Shrunk(heap, b, n)
      \/ ~short /\ tag.size - room < MinBlock /\ heap' = Written(heap, {b}, kept)
  BY DEF ReallocInPlace
<1>5. long <=> ~(tag.size - room < MinBlock)
  <2>1. tag.size \in Nat /\ room \in Nat
    BY <1>1, BlockForType DEF Words
  <2> HIDE DEF tag, room
  <2> QED BY <2>1 DEF MinBlock
<1>6. CASE short
  <2> HIDE DEF short
  <2>1. heap' = Event(heap, "no room", TRUE)
    BY <1>4, <1>6
  <2>2. "no room" \in heap'.events
    BY <1>1, <2>1 DEF Event, Heaps
  <2> QED BY <1>2, <2>2 DEF Harmed, Wrong
<1>7. CASE ~short /\ long
  <2> DEFINE g == Shrunk(heap, b, n)
             mark == ShrunkTag(heap, b, n)
  <2>1. heap' = g
    <3> HIDE DEF short, long, g
    <3> QED BY <1>4, <1>5, <1>7 DEF g
  <2>2. heap.mem[b].size - BlockFor(n) >= MinBlock
    BY <1>1, <1>7
  <2>10. ~Wraps(n)
    <3>1. /\ heap.mem[b].size \in Nat /\ b \in Int /\ b + heap.mem[b].size \in Starts(heap)
          /\ Tiled(heap.mem, heap.end, Starts(heap)) /\ b \in Starts(heap)
      BY <1>1, TakenFacts DEF IsBlock
    <3>2. /\ b >= 40 /\ b + heap.mem[b].size <= heap.end - 8 /\ heap.end \in Nat
      BY <1>1, <3>1 DEF Tiled, FirstBlock, Heaps
    <3>3. heap.end <= SizeRange /\ SizeRange \in Nat
      <4>1. PAGE_SZ * MaxPages <= SizeRange /\ SizeRange \in Nat /\ PAGE_SZ * MaxPages \in Int
        BY SizesAssumption
      <4> QED BY <1>1, <3>2, <4>1 DEF Within
    <3>4. n + 8 <= heap.mem[b].size
      <4> DEFINE all == heap.mem[b].size
      <4>1. ~(n + 8 > all) /\ all \in Nat
        BY <1>1, <1>7, <3>1
      <4> HIDE DEF all
      <4>2. n + 8 <= all
        BY <4>1
      <4> QED BY <4>2 DEF all
    <3>5. n + 24 <= SizeRange
      BY <3>1, <3>2, <3>3, <3>4
    <3> QED BY <3>5, SmallSizesFit
  <2> HIDE DEF g, mark, new, tag
  <2>3. /\ heap.events \subseteq g.events
        /\ ~Harmed(g) => Relabelled(heap, b, mark, g)
    BY <1>1, <2>2, <2>10, ShrinkingRelabels DEF g, mark
  <2>4. mark.payload = n /\ mark.size = BlockFor(n)
    BY <1>1, ShrunkTagFacts DEF mark
  <2>5. n + 8 <= mark.size
    BY <2>4, <2>10, BlockForFacts
  <2>6. Kempt(g, new)
    BY <1>1, <1>2, <2>1, <2>3, <2>4, <2>5, RelabelledIsKempt DEF new
  <2> QED BY <1>3, <2>1, <2>6 DEF Orderly
<1>8. CASE ~short /\ ~long
  <2> DEFINE g == Written(heap, {b}, kept)
  <2>1. heap' = g
    <3> HIDE DEF short, long, g
    <3> QED BY <1>4, <1>5, <1>8 DEF g
  <2>2. IsAllocated(heap.mem[b])
    BY <1>1 DEF Taken
  <2>3. /\ kept \in Words /\ IsAllocated(kept) /\ kept.size = heap.mem[b].size /\ kept.payload = n
    <3> HIDE DEF tag
    <3> QED BY <1>1, <2>2 DEF Words, IsAllocated
  <2>4. n + 8 <= kept.size
    <3> HIDE DEF kept
    <3>1. tag.size \in Nat /\ tag.size = kept.size
      BY <1>1, <2>3 DEF Words
    <3> HIDE DEF tag
    <3> QED BY <1>8, <3>1
  <2> HIDE DEF kept, tag, new
  <2>5. Relabelled(heap, b, kept, g)
    BY <1>1, <2>3, RetagRelabels
  <2>6. g.events = heap.events
    BY <1>1 DEF Written, Heaps
  <2> HIDE DEF g
  <2>7. Kempt(g, new)
    BY <1>1, <2>3, <2>4, <2>5, <2>6, RelabelledIsKempt DEF new
  <2> QED BY <1>3, <2>1, <2>7 DEF Orderly
<1> QED BY <1>6, <1>7, <1>8

LEMMA ReallocStep ==
    ASSUME Orderly(heap, live), NEW b \in Pointers, NEW n \in Requests, sf_realloc(b, n), Sound'
    PROVE  Orderly(heap', live')
<1>1. n \in Nat
  BY SizesAssumption
<1>2. CASE UNCHANGED <<heap, live, outcome>>
  BY <1>2
<1>3. CASE Valid(b) /\ Freed(b)
  BY <1>3, FreedStep
<1>4. CASE b \in DOMAIN live /\ ReallocGrow(b, n)
  BY <1>1, <1>4, GrowStep
<1>5. CASE b \in DOMAIN live /\ ReallocInPlace(b, n)
  BY <1>1, <1>5, InPlaceStep
<1>6. CASE Valid(b) /\ heap' = Event(heap, "not held", TRUE)
  <2>1. heap \in Heaps
    BY <1>6, PointerFacts
  <2>2. "not held" \in heap'.events
    BY <1>6, <2>1 DEF Event, Heaps
  <2> QED BY <2>2 DEF Sound, Wrong
<1> QED BY <1>2, <1>3, <1>4, <1>5, <1>6 DEF sf_realloc

LEMMA WriteStep ==
    ASSUME Orderly(heap, live), NEW b \in DOMAIN live, Write(b)
    PROVE  Orderly(heap', live')
<1> DEFINE old == Payload(heap, b) \cap DOMAIN heap.mem
           g == [heap EXCEPT !.mem = [a \in DOMAIN heap.mem \ old |-> heap.mem[a]]]
<1>1. /\ Kempt(heap, live) /\ b \in Taken(heap) /\ heap \in Heaps
      /\ Sane(heap) /\ Stored(heap) /\ Within(heap)
  BY HeldFacts
<1>2. heap' = g /\ live' = live
  BY DEF Write
<1>3. Kept(heap, g)
  BY <1>1, WriteKeeps
<1>4. g.events = heap.events
  BY <1>1 DEF Heaps
<1> HIDE DEF g
<1>5. Kempt(g, live)
  BY <1>1, <1>3, <1>4, KeptIsKempt
<1> QED BY <1>2, <1>5 DEF Orderly

LEMMA StepKeepsIt ==
    ASSUME IInv, [Next]_vars
    PROVE  IInv'
<1> SUFFICES ASSUME Sound' PROVE Orderly(heap', live')
  BY DEF IInv
<1>1. CASE UNCHANGED vars
  <2>1. Sound
    BY <1>1 DEF Sound, vars
  <2> QED BY <1>1, <2>1 DEF IInv, vars
<1>2. ASSUME NEW n \in Requests, sf_malloc(n) PROVE Orderly(heap', live')
  <2>1. Orderly(heap, live)
    BY <1>2 DEF sf_malloc, IInv
  <2> QED BY <1>2, <2>1, MallocStep
<1>3. ASSUME NEW b \in Pointers, sf_free(b) PROVE Orderly(heap', live')
  <2>1. Orderly(heap, live)
    BY <1>3 DEF sf_free, IInv
  <2> QED BY <1>3, <2>1, FreeStep
<1>4. ASSUME NEW b \in Pointers, NEW n \in Requests, sf_realloc(b, n) PROVE Orderly(heap', live')
  <2>1. Orderly(heap, live)
    BY <1>4 DEF sf_realloc, IInv
  <2> QED BY <1>4, <2>1, ReallocStep
<1>5. ASSUME NEW b \in DOMAIN live, Write(b) PROVE Orderly(heap', live')
  <2>1. Orderly(heap, live)
    BY <1>5 DEF Write, IInv
  <2> QED BY <1>5, <2>1, WriteStep
<1>6. CASE Ended
  BY <1>1, <1>6 DEF Ended
<1> QED BY <1>1, <1>2, <1>3, <1>4, <1>5, <1>6 DEF Next

LEMMA AlwaysIInv == Spec => []IInv
<1>1. Init => IInv
  BY DEF Init, IInv, Orderly
<1> QED BY <1>1, StepKeepsIt, PTL DEF Spec


-----------------------------------------------------------------------------
(* Sums over a set: in which order the elements are taken does not matter. *)

OneOf(S) == CHOOSE x \in S : TRUE
SumsOf(S, f, it) == [s \in SUBSET S |-> IF s = {} THEN 0 ELSE f[OneOf(s)] + it[s \ {OneOf(s)}]]
\* it[s] is the sum of f over s.
Sums(S, f, it) == it \in [SUBSET S -> Nat] /\ it = SumsOf(S, f, it)

SizeOf(S) == [s \in SUBSET S |-> Cardinality(s)]

LEMMA OneLess ==
    ASSUME NEW S, IsFiniteSet(S)
    PROVE  /\ SizeOf(S) \in [SUBSET S -> Nat] /\ Cardinality(S) \in Nat
           /\ \A s \in SUBSET S : SizeOf(S)[s] <= Cardinality(S)
           /\ \A s \in SUBSET S : s # {} =>
                 OneOf(s) \in S /\ s \ {OneOf(s)} \in SUBSET S /\ SizeOf(S)[s \ {OneOf(s)}] < SizeOf(S)[s]
<1>1. /\ SizeOf(S) \in [SUBSET S -> Nat] /\ Cardinality(S) \in Nat
      /\ \A s \in SUBSET S : SizeOf(S)[s] = Cardinality(s) /\ SizeOf(S)[s] <= Cardinality(S)
  BY FS_Subset, FS_CardinalityType DEF SizeOf
<1>2. ASSUME NEW s \in SUBSET S, s # {}
      PROVE  OneOf(s) \in S /\ s \ {OneOf(s)} \in SUBSET S /\ SizeOf(S)[s \ {OneOf(s)}] < SizeOf(S)[s]
  <2>1. OneOf(s) \in s
    BY <1>2 DEF OneOf
  <2>2. IsFiniteSet(s) /\ Cardinality(s) \in Nat
    BY FS_Subset, FS_CardinalityType
  <2>3. Cardinality(s \ {OneOf(s)}) = Cardinality(s) - 1
    BY <2>1, <2>2, FS_RemoveElement
  <2>4. s \ {OneOf(s)} \in SUBSET S
    OBVIOUS
  <2> QED BY <1>1, <2>1, <2>2, <2>3, <2>4
<1> QED BY <1>1, <1>2

LEMMA SumsExist ==
    ASSUME NEW S, IsFiniteSet(S), NEW f \in [S -> Nat]
    PROVE  \E it : Sums(S, f, it)
<1> DEFINE I == SUBSET S
           rank == SizeOf(S)
           E(it, s) == IF s = {} THEN 0 ELSE f[OneOf(s)] + it[s \ {OneOf(s)}]
           H == [s \in I |-> [it \in [I -> Nat] |-> E(it, s)]]
<1>1. rank \in [I -> Nat] /\ Cardinality(S) \in Nat /\ \A s \in I : rank[s] <= Cardinality(S)
  BY OneLess
<1>2. \A s \in I : s # {} => OneOf(s) \in S /\ s \ {OneOf(s)} \in I /\ rank[s \ {OneOf(s)}] < rank[s]
  BY OneLess
<1> HIDE DEF rank
<1>3. \A it \in [I -> Nat] : \A s \in I : E(it, s) \in Nat
  BY <1>2
<1>4. H \in [I -> [[I -> Nat] -> Nat]]
  BY <1>3
<1>5. \A s \in I : \A it \in [I -> Nat] : H[s][it] = E(it, s)
  OBVIOUS
<1>6. \A s \in I : \A f1, f2 \in [I -> Nat] :
          (\A k \in I : rank[k] < rank[s] => f1[k] = f2[k]) => E(f1, s) = E(f2, s)
  BY <1>2
<1> HIDE DEF H, E, I
<1>7. \A s \in I : \A f1, f2 \in [I -> Nat] :
          (\A k \in I : rank[k] < rank[s] => f1[k] = f2[k]) => H[s][f1] = H[s][f2]
  BY <1>5, <1>6
<1>8. \A s \in I : rank[s] < Cardinality(S) + 1
  BY <1>1
<1>9. Recursive(I, Nat, rank, H)
  <2>1. Cardinality(S) + 1 \in Nat /\ Nat # {}
    BY <1>1
  <2> QED BY <1>1, <1>4, <1>7, <1>8, <2>1 DEF Recursive
<1>10. PICK it \in [I -> Nat] : \A s \in I : it[s] = H[s][it]
  BY <1>9, Recursion DEF Solvable
<1>11. it = [s \in I |-> E(it, s)]
  BY <1>5, <1>10
<1> QED BY <1>10, <1>11 DEF Sums, SumsOf, E, I

\* There is one such sum.
LEMMA SumsUnique ==
    ASSUME NEW S, IsFiniteSet(S), NEW f, NEW it, it = SumsOf(S, f, it), NEW g, g = SumsOf(S, f, g)
    PROVE  \A s \in SUBSET S : g[s] = it[s]
<1> DEFINE I == SUBSET S
           rank == SizeOf(S)
<1>1. \A s \in I : g[s] = SumsOf(S, f, g)[s] /\ it[s] = SumsOf(S, f, it)[s]
  OBVIOUS
<1>2. \A s \in I : /\ g[s] = IF s = {} THEN 0 ELSE f[OneOf(s)] + g[s \ {OneOf(s)}]
                   /\ it[s] = IF s = {} THEN 0 ELSE f[OneOf(s)] + it[s \ {OneOf(s)}]
  BY <1>1 DEF SumsOf
<1>3. rank \in [I -> Nat]
      /\ \A s \in I : s # {} => s \ {OneOf(s)} \in I /\ rank[s \ {OneOf(s)}] < rank[s]
  BY OneLess
<1> HIDE DEF I, rank
<1>4. ASSUME NEW s \in I, \A k \in I : rank[k] < rank[s] => g[k] = it[k] PROVE g[s] = it[s]
  <2>1. CASE s = {}
    BY <1>2, <2>1
  <2>2. CASE s # {}
    <3>1. g[s \ {OneOf(s)}] = it[s \ {OneOf(s)}]
      BY <1>3, <1>4, <2>2
    <3> QED BY <1>2, <2>2, <3>1
  <2> QED BY <2>1, <2>2
<1>5. Agreeing(I, rank, g, it)
  BY <1>3, <1>4 DEF Agreeing
<1>6. \A s \in I : g[s] = it[s]
  BY <1>5, Agreement
<1> QED BY <1>6 DEF I

\* The empty set, and one with the element that is chosen first.
LEMMA SumsUnfold ==
    ASSUME NEW S, NEW f \in [S -> Nat], NEW it, Sums(S, f, it), NEW s \in SUBSET S
    PROVE  /\ it[s] \in Nat
           /\ s = {} => it[s] = 0
           /\ s # {} => OneOf(s) \in s /\ it[s] = f[OneOf(s)] + it[s \ {OneOf(s)}]
<1>1. it[s] \in Nat
  BY DEF Sums
<1>2. it[s] = SumsOf(S, f, it)[s]
  BY DEF Sums
<1>3. it[s] = IF s = {} THEN 0 ELSE f[OneOf(s)] + it[s \ {OneOf(s)}]
  BY <1>2 DEF SumsOf
<1> QED BY <1>1, <1>3 DEF OneOf

LEMMA SumOfNothing ==
    ASSUME NEW S, NEW f \in [S -> Nat], NEW it, Sums(S, f, it)
    PROVE  it[{}] = 0
<1> DEFINE none == {}
<1>1. none \in SUBSET S /\ none = {}
  OBVIOUS
<1> HIDE DEF none
<1>2. it[none] = 0
  BY <1>1, SumsUnfold
<1> QED BY <1>1, <1>2

\* Any element may be taken out of a sum.
LEMMA SumsWithout ==
    ASSUME NEW S, IsFiniteSet(S), NEW f \in [S -> Nat], NEW it, Sums(S, f, it)
    PROVE  \A s \in SUBSET S : \A x \in s : it[s] = f[x] + it[s \ {x}]
<1> DEFINE Holds(s) == \A x \in s : it[s] = f[x] + it[s \ {x}]
           Fails == {Cardinality(s) : s \in {s \in SUBSET S : ~Holds(s)}}
<1>1. \A s \in SUBSET S : IsFiniteSet(s) /\ Cardinality(s) \in Nat
  BY FS_Subset, FS_CardinalityType
<1> SUFFICES ASSUME Fails # {} PROVE FALSE
  OBVIOUS
<1>2. Fails \in SUBSET Nat
  BY <1>1
<1> HIDE DEF Fails
<1>3. PICK n \in Fails : \A k \in Fails : n <= k
  BY <1>2, FirstExists
<1> USE DEF Fails
<1>4. PICK s \in SUBSET S : ~Holds(s) /\ Cardinality(s) = n
  OBVIOUS
<1>5. PICK x \in s : it[s] # f[x] + it[s \ {x}]
  BY <1>4
<1>6. \A r \in SUBSET s : Cardinality(r) < Cardinality(s) => Holds(r)
  BY <1>1, <1>3, <1>4
<1> HIDE DEF Fails, Holds
<1> DEFINE a == OneOf(s)
<1>7. a \in s /\ it[s] = f[a] + it[s \ {a}]
  BY <1>5, SumsUnfold
<1> HIDE DEF a
<1>8. a # x
  BY <1>5, <1>7
<1>9. Cardinality(s \ {a}) < Cardinality(s) /\ Cardinality(s \ {x}) < Cardinality(s)
  <2>1. Cardinality(s \ {a}) = Cardinality(s) - 1 /\ Cardinality(s \ {x}) = Cardinality(s) - 1
    BY <1>1, <1>7, FS_RemoveElement
  <2> QED BY <1>1, <2>1
<1>10. it[s \ {a}] = f[x] + it[(s \ {a}) \ {x}] /\ it[s \ {x}] = f[a] + it[(s \ {x}) \ {a}]
  BY <1>6, <1>7, <1>8, <1>9 DEF Holds
<1>11. (s \ {a}) \ {x} = (s \ {x}) \ {a} /\ (s \ {x}) \ {a} \in SUBSET S
  OBVIOUS
<1>12. f[a] \in Nat /\ f[x] \in Nat /\ it[(s \ {x}) \ {a}] \in Nat
  BY <1>7, <1>11, SumsUnfold
<1> DEFINE less == it[(s \ {x}) \ {a}]
<1>13. it[s \ {a}] = f[x] + less /\ it[s \ {x}] = f[a] + less /\ less \in Nat
  BY <1>10, <1>11, <1>12
<1> HIDE DEF less
<1> QED BY <1>5, <1>7, <1>12, <1>13

\* What adds nothing may be left out.
LEMMA SumsAgree ==
    ASSUME NEW S, IsFiniteSet(S), NEW f \in [S -> Nat], NEW it, Sums(S, f, it),
           NEW T \in SUBSET S, NEW g \in [T -> Nat], NEW it2, Sums(T, g, it2),
           \A x \in T : f[x] = g[x], \A x \in S \ T : f[x] = 0
    PROVE  it[S] = it2[T]
<1> DEFINE I == SUBSET S
           rank == SizeOf(S)
           part == [s \in I |-> it2[s \cap T]]
<1>1. rank \in [I -> Nat]
      /\ \A s \in I : s # {} => s \ {OneOf(s)} \in I /\ rank[s \ {OneOf(s)}] < rank[s]
  BY OneLess
<1>2. IsFiniteSet(T)
  BY FS_Subset
<1>3. \A s \in I : s \cap T \in SUBSET T /\ it2[s \cap T] \in Nat /\ part[s] = it2[s \cap T]
  <2> SUFFICES ASSUME NEW s \in I PROVE s \cap T \in SUBSET T /\ it2[s \cap T] \in Nat
    OBVIOUS
  <2> QED BY SumsUnfold
<1> HIDE DEF rank, part
<1>4. ASSUME NEW s \in I, \A k \in I : rank[k] < rank[s] => it[k] = part[k]
      PROVE  it[s] = part[s]
  <2>1. CASE s = {}
    <3>1. it[s] = 0
      BY <2>1, SumsUnfold
    <3>2. s \cap T = {} /\ {} \in SUBSET T
      BY <2>1
    <3>3. it2[{}] = 0
      BY SumOfNothing
    <3> QED BY <1>3, <3>1, <3>2, <3>3
  <2>2. CASE s # {}
    <3> DEFINE a == OneOf(s)
    <3>1. a \in s /\ it[s] = f[a] + it[s \ {a}]
      BY <2>2, SumsUnfold
    <3>2. s \ {a} \in I /\ rank[s \ {a}] < rank[s]
      BY <1>1, <2>2
    <3> HIDE DEF a
    <3>3. it[s \ {a}] = it2[(s \ {a}) \cap T]
      BY <1>3, <1>4, <3>2
    <3>4. CASE a \in T
      <4>1. (s \ {a}) \cap T = (s \cap T) \ {a} /\ a \in s \cap T
        BY <3>1, <3>4
      <4>2. it2[s \cap T] = g[a] + it2[(s \cap T) \ {a}]
        BY <1>2, <1>3, <4>1, SumsWithout
      <4> QED BY <1>3, <3>1, <3>3, <3>4, <4>1, <4>2
    <3>5. CASE a \notin T
      <4>1. (s \ {a}) \cap T = s \cap T /\ f[a] = 0
        BY <3>1, <3>5
      <4> QED BY <1>3, <3>1, <3>3, <4>1
    <3> QED BY <3>4, <3>5
  <2> QED BY <2>1, <2>2
<1> HIDE DEF I
<1>5. Agreeing(I, rank, it, part)
  BY <1>1, <1>4 DEF Agreeing
<1>6. \A s \in I : it[s] = part[s]
  BY <1>5, Agreement
<1>7. S \in I /\ S \cap T = T
  BY DEF I
<1> QED BY <1>3, <1>6, <1>7

\* The sums of the model are such sums: of payloads, and of what is asked for.
Payloads(mem, S) == MapThenSumSet(LAMBDA a : mem[a].payload, S)
Sizes(mem, S) == MapThenSumSet(LAMBDA a : mem[a].size, S)
Asked(held, S) == MapThenSumSet(LAMBDA a : held[a], S)

LEMMA PayloadsSummed ==
    ASSUME NEW mem, NEW S, IsFiniteSet(S), NEW f \in [S -> Nat], \A a \in S : f[a] = mem[a].payload
    PROVE  \E it : Sums(S, f, it) /\ Payloads(mem, S) = it[S]
<1> DEFINE F(it) == [s \in SUBSET S |->
                        IF s = {} THEN 0 ELSE mem[OneOf(s)].payload + it[s \ {OneOf(s)}]]
           sum == CHOOSE it : it = F(it)
<1>1. Payloads(mem, S) = sum[S]
  BY DEF Payloads, MapThenSumSet, MapThenFoldSet, OneOf
<1>2. PICK it : Sums(S, f, it)
  BY SumsExist
<1>3. \A g : F(g) = SumsOf(S, f, g)
  <2>1. \A s \in SUBSET S : s # {} => OneOf(s) \in S
    BY DEF OneOf
  <2> QED BY <2>1 DEF SumsOf
<1>4. it = F(it)
  BY <1>2, <1>3 DEF Sums
<1> HIDE DEF F
<1>5. sum = F(sum)
  BY <1>4, Zenon
<1> HIDE DEF sum
<1>6. sum = SumsOf(S, f, sum)
  BY <1>3, <1>5
<1>7. sum[S] = it[S]
  <2>1. it = SumsOf(S, f, it)
    BY <1>2 DEF Sums
  <2> QED BY <1>6, <2>1, SumsUnique
<1> QED BY <1>1, <1>2, <1>7

LEMMA RequestsSummed ==
    ASSUME NEW held, NEW S, IsFiniteSet(S), NEW f \in [S -> Nat], \A a \in S : f[a] = held[a]
    PROVE  \E it : Sums(S, f, it) /\ Asked(held, S) = it[S]
<1> DEFINE F(it) == [s \in SUBSET S |->
                        IF s = {} THEN 0 ELSE held[OneOf(s)] + it[s \ {OneOf(s)}]]
           sum == CHOOSE it : it = F(it)
<1>1. Asked(held, S) = sum[S]
  BY DEF Asked, MapThenSumSet, MapThenFoldSet, OneOf
<1>2. PICK it : Sums(S, f, it)
  BY SumsExist
<1>3. \A g : F(g) = SumsOf(S, f, g)
  <2>1. \A s \in SUBSET S : s # {} => OneOf(s) \in S
    BY DEF OneOf
  <2> QED BY <2>1 DEF SumsOf
<1>4. it = F(it)
  BY <1>2, <1>3 DEF Sums
<1> HIDE DEF F
<1>5. sum = F(sum)
  BY <1>4, Zenon
<1> HIDE DEF sum
<1>6. sum = SumsOf(S, f, sum)
  BY <1>3, <1>5
<1>7. sum[S] = it[S]
  <2>1. it = SumsOf(S, f, it)
    BY <1>2 DEF Sums
  <2> QED BY <1>6, <2>1, SumsUnique
<1> QED BY <1>1, <1>2, <1>7

-----------------------------------------------------------------------------
(* What it means for the properties. *)

\* The names the properties use.
LEMMA KemptFacts ==
    ASSUME Kempt(heap, live)
    PROVE  /\ heap \in Heaps /\ Sane(heap) /\ Tiled(heap.mem, heap.end, Starts(heap))
           /\ FreeBlocks = Unused(heap) /\ ListedBlocks = Listed(heap.free) /\ QuickBlocks = InQuick(heap)
           /\ \A b \in Starts(heap) : b \in DOMAIN heap.mem /\ At(heap, b) = heap.mem[b]
<1>1. heap \in Heaps /\ Sane(heap) /\ Tiled(heap.mem, heap.end, Starts(heap))
  BY DEF Kempt, Sane
<1>2. \A b \in Starts(heap) : b \in DOMAIN heap.mem
  BY <1>1, TiledFacts
<1>3. \A b \in Starts(heap) : At(heap, b) = heap.mem[b]
  BY <1>1, <1>2, AtFacts
<1>4. FreeBlocks = Unused(heap)
  BY <1>3 DEF FreeBlocks, Unused, IsAllocated
<1> QED BY <1>1, <1>2, <1>3, <1>4 DEF ListedBlocks, Listed, QuickBlocks, InQuick

\* Until the code does something wrong, the blocks fill the heap, with no gap and no
\* overlap, each allocated one is the client's, large enough for what it asked for,
\* or in a quick list, and each free one has a footer like its header: of sf_malloc,
\* sf_free and sf_realloc, whatever the client calls, and in a heap of any size.
THEOREM BlocksTileTheHeap == Spec => []HeapTiles
<1>1. IInv => HeapTiles
  <2> SUFFICES ASSUME IInv, Sound, heap.end > 0
               PROVE  /\ \A b \in Starts(heap) : b \in DOMAIN heap.mem /\ b <= heap.end - 8
                      /\ At(heap, heap.end - 8) = Header(0, {THIS_BLOCK_ALLOCATED})
                      /\ Starts(heap) \ (FreeBlocks \cup {heap.end - 8}) = DOMAIN live \cup QuickBlocks
                      /\ \A b \in DOMAIN live : heap.mem[b].size >= live[b] + 8 /\ b \notin QuickBlocks
                      /\ \A b \in FreeBlocks : At(heap, Footer(b, heap.mem[b].size)) = heap.mem[b]
    BY DEF HeapTiles
  <2>1. Kempt(heap, live)
    BY NoHeapFacts DEF IInv, Orderly
  <2>2. /\ heap \in Heaps /\ Sane(heap) /\ Tiled(heap.mem, heap.end, Starts(heap))
        /\ FreeBlocks = Unused(heap) /\ QuickBlocks = InQuick(heap)
        /\ \A b \in Starts(heap) : b \in DOMAIN heap.mem /\ At(heap, b) = heap.mem[b]
    BY <2>1, KemptFacts
  <2>3. \A b \in Starts(heap) : b <= heap.end - 8
    BY <2>2, TiledFacts
  <2>4. At(heap, heap.end - 8) = Header(0, {THIS_BLOCK_ALLOCATED}) /\ IsAllocated(heap.mem[heap.end - 8])
    BY <2>2, EpilogueFacts DEF Tiled
  <2>5. DOMAIN live = Lent(heap)
        /\ \A b \in Lent(heap) : heap.mem[b].payload = live[b] /\ live[b] + 8 <= heap.mem[b].size
    BY <2>1 DEF Kempt, Owned
  <2>6. InQuick(heap) \subseteq Taken(heap)
    BY <2>1 DEF Kempt, Stored, InQuick
  <2>7. Starts(heap) \ (FreeBlocks \cup {heap.end - 8}) = DOMAIN live \cup QuickBlocks
    <3>1. Starts(heap) \ (Unused(heap) \cup {heap.end - 8}) = Taken(heap)
      BY DEF Unused, Taken
    <3> QED BY <2>2, <2>5, <2>6, <3>1 DEF Lent
  <2>8. ASSUME NEW b \in DOMAIN live PROVE heap.mem[b].size >= live[b] + 8 /\ b \notin QuickBlocks
    <3>1. b \in Lent(heap) /\ live[b] + 8 <= heap.mem[b].size /\ heap.mem[b].payload = live[b]
      BY <2>5
    <3>2. heap.mem[b] \in Words
      BY <2>2, <3>1, AtFacts DEF Lent, Taken
    <3>3. live[b] \in Nat /\ heap.mem[b].size \in Nat
      BY <3>1, <3>2 DEF Words
    <3> QED BY <2>2, <3>1, <3>3 DEF Lent
  <2>9. ASSUME NEW b \in FreeBlocks PROVE At(heap, Footer(b, heap.mem[b].size)) = heap.mem[b]
    <3>1. b \in Starts(heap) /\ ~IsAllocated(heap.mem[b]) /\ b # heap.end - 8
      BY <2>2, <2>4 DEF Unused
    <3>2. IsBlock(heap.mem, Starts(heap), b)
      BY <2>2, <3>1 DEF Tiled
    <3> DEFINE foot == Footer(b, heap.mem[b].size)
    <3>3. foot \in DOMAIN heap.mem /\ heap.mem[foot] = heap.mem[b]
      BY <3>1, <3>2 DEF IsBlock
    <3> HIDE DEF foot
    <3>4. At(heap, foot) = heap.mem[b]
      BY <3>3 DEF At
    <3> QED BY <3>4 DEF foot
  <2> QED BY <2>2, <2>3, <2>4, <2>7, <2>8, <2>9
<1> QED BY <1>1, AlwaysIInv, PTL

\* Every free list holds free blocks of its sizes, each once and in no other list,
\* and every quick list no more blocks than it may, of its size (placeFreeBlock,
\* removeFreeBlock, insertQuick and all that call them).
THEOREM ListsAreRight == Spec => []ListsHoldTheirBlocks
<1>1. IInv => ListsHoldTheirBlocks
  <2> SUFFICES ASSUME IInv, Sound
               PROVE  /\ \A i \in FreeLists :
                            /\ IsInjective(heap.free[i])
                            /\ \A b \in ToSet(heap.free[i]) :
                                  b \in FreeBlocks /\ i \in FreeListOf(heap.mem[b].size)
                      /\ \A i \in QuickLists :
                            /\ IsInjective(heap.quick[i]) /\ Len(heap.quick[i]) <= QUICK_LIST_MAX
                            /\ \A b \in ToSet(heap.quick[i]) : heap.mem[b] = QuickTag(QuickSize(i))
    BY DEF ListsHoldTheirBlocks
  <2>1. CASE heap = NoHeap
    <3>1. (\A i \in FreeLists : heap.free[i] = <<>>) /\ \A i \in QuickLists : heap.quick[i] = <<>>
      BY <2>1, NoHeapFacts
    <3>2. IsInjective(<<>>) /\ ToSet(<<>>) = {} /\ Len(<<>>) <= QUICK_LIST_MAX
      BY SizesAssumption DEF IsInjective, ToSet
    <3> QED BY <3>1, <3>2
  <2>2. CASE Kempt(heap, live)
    <3>1. Sane(heap) /\ FreeBlocks = Unused(heap)
      BY <2>2, KemptFacts
    <3>2. \A i \in FreeLists :
             /\ IsInjective(heap.free[i])
             /\ \A b \in ToSet(heap.free[i]) :
                   b \in FreeBlocks /\ i \in FreeListOf(heap.mem[b].size)
      BY <3>1 DEF Sane, Filed, Unused
    <3> QED BY <2>2, <3>2 DEF Kempt, Stored
  <2> QED BY <2>1, <2>2 DEF IInv, Orderly
<1> QED BY <1>1, AlwaysIInv, PTL

\* No free block is lost, unless it is of the smallest size or a quick list was
\* flushed (coalesce, findBlock, extendHeap, sf_realloc).
THEOREM FreeBlocksAreFound == Spec => []FreeBlocksAreListed
<1>1. IInv => FreeBlocksAreListed
  <2> SUFFICES ASSUME IInv, Sound, heap.end > 0, "flushed" \notin heap.events,
                      NEW b \in FreeBlocks \ ListedBlocks
               PROVE  heap.mem[b].size = MinBlock
    BY DEF FreeBlocksAreListed
  <2>1. Kempt(heap, live)
    BY NoHeapFacts DEF IInv, Orderly
  <2>2. FreeBlocks = Unused(heap) /\ ListedBlocks = Listed(heap.free)
    BY <2>1, KemptFacts
  <2>3. Unfiled(heap) = {}
    BY <2>1 DEF Kempt
  <2> QED BY <2>2, <2>3 DEF Unfiled
<1> QED BY <1>1, AlwaysIInv, PTL

\* What sf_internal_fragmentation takes for the header of an allocated block is one,
\* and the first word of size 0 is the epilogue.
LEMMA CountedAreTaken ==
    ASSUME NEW h, Sane(h)
    PROVE  Counted(h) = Taken(h)
<1> DEFINE S == Starts(h)
           words == {a \in DOMAIN h.mem : a >= FirstBlock /\ a % Align = 8}
           ends == {a \in words : h.mem[a].size = 0}
           last == h.end - 8
<1>1. h \in Heaps /\ Tiled(h.mem, h.end, S)
  BY DEF Sane
<1>2. /\ h.end \in Nat /\ S \subseteq Int /\ S \subseteq DOMAIN h.mem
      /\ \A b \in S : b % 16 = 8 /\ b >= FirstBlock /\ b <= last
      /\ \A b \in S : h.mem[b].size \in Nat
      /\ h.mem[last].size = 0 /\ last \in S
  BY <1>1, TiledFacts DEF Tiled
<1>3. ASSUME NEW b \in S, b # last
      PROVE  h.mem[b].size > 0 /\ h.mem[b].size < h.end
  <2>1. h.mem[b].size >= 32 /\ b + h.mem[b].size \in S
    BY <1>1, <1>3, TiledFacts DEF IsBlock
  <2>2. b + h.mem[b].size <= last /\ b >= 40 /\ b \in Int /\ h.mem[b].size \in Nat
    BY <1>2, <2>1 DEF FirstBlock
  <2> QED BY <1>2, <2>1, <2>2
<1>4. \A a \in words : a \in S \/ Spent(h.mem[a])
  BY <1>1 DEF Tiled, Align
<1>5. S \subseteq words
  BY <1>2 DEF Align
<1> HIDE DEF S, last
<1>6. ends = {last}
  <2>1. ASSUME NEW a \in ends PROVE a = last
    <3>1. a \in words /\ h.mem[a].size = 0
      OBVIOUS
    <3>2. ~(h.mem[a].size > 0)
      BY <3>1
    <3> QED BY <1>3, <1>4, <3>1, <3>2 DEF Spent
  <2>2. last \in ends
    BY <1>2, <1>5
  <2> HIDE DEF ends
  <2> QED BY <2>1, <2>2
<1>7. (CHOOSE a \in ends : \A e \in ends : a <= e) = last
  <2>1. last <= last
    BY <1>2 DEF last
  <2> QED BY <1>6, <2>1
<1>8. Counted(h) = {a \in words : a < last /\ h.mem[a].size < h.end /\ IsAllocated(h.mem[a])}
  BY <1>7 DEF Counted, IsAllocated
<1> HIDE DEF words, ends
<1>9. \A a \in Counted(h) : a \in Taken(h)
  <2> SUFFICES ASSUME NEW a \in words, a < last, IsAllocated(h.mem[a]) PROVE a \in Taken(h)
    BY <1>8
  <2>1. a \in S
    BY <1>4 DEF Spent
  <2>2. a # last
    BY <1>2 DEF last
  <2> QED BY <2>1, <2>2 DEF Taken, S, last
<1>10. \A a \in Taken(h) : a \in Counted(h)
  <2> SUFFICES ASSUME NEW a \in S, a # last, IsAllocated(h.mem[a]) PROVE a \in Counted(h)
    BY DEF Taken, S, last
  <2>1. a < last
    <3>1. a \in Int /\ last \in Int /\ a <= last
      BY <1>2 DEF last
    <3> QED BY <3>1
  <2> QED BY <1>3, <1>5, <1>8, <2>1
<1> QED BY <1>9, <1>10

\* With a magic number, sf_internal_fragmentation finds the client's blocks and those
\* in the quick lists, and no others: it adds up what the client asked for, and the
\* sizes of all these blocks, whatever was left behind in their payloads.
THEOREM FragmentationIsCounted == Spec => []FragmentationCounts
<1>1. IInv => FragmentationCounts
  <2> SUFFICES ASSUME IInv, Sound, heap.end > 0
               PROVE  /\ Payloads(heap.mem, Counted(heap)) = Asked(live, DOMAIN live)
                      /\ Sizes(heap.mem, Counted(heap)) = Sizes(heap.mem, DOMAIN live \cup QuickBlocks)
    BY DEF FragmentationCounts, sf_internal_fragmentation, Payloads, Sizes, Asked
  <2>1. Kempt(heap, live)
    BY NoHeapFacts DEF IInv, Orderly
  <2>2. heap \in Heaps /\ Sane(heap) /\ QuickBlocks = InQuick(heap)
    BY <2>1, KemptFacts
  <2>3. DOMAIN live = Lent(heap) /\ \A b \in Lent(heap) : heap.mem[b].payload = live[b]
    BY <2>1 DEF Kempt, Owned
  <2>4. InQuick(heap) \subseteq Taken(heap) /\ \A b \in InQuick(heap) : heap.mem[b].payload = 0
    <3>1. \A i \in QuickLists : \A b \in ToSet(heap.quick[i]) :
             b \in Taken(heap) /\ heap.mem[b] = QuickTag(QuickSize(i))
      BY <2>1 DEF Kempt, Stored
    <3>2. \A i \in QuickLists : QuickTag(QuickSize(i)).payload = 0
      BY DEF QuickTag, Header
    <3> QED BY <3>1, <3>2 DEF InQuick
  <2>5. Counted(heap) = DOMAIN live \cup QuickBlocks
    BY <2>2, <2>3, <2>4, CountedAreTaken DEF Lent
  <2> DEFINE T == Taken(heap)
             f == [a \in T |-> heap.mem[a].payload]
  <2>6. Counted(heap) = T /\ DOMAIN live \in SUBSET T
    BY <2>2, <2>3, CountedAreTaken DEF Lent
  <2>7. IsFiniteSet(T)
    <3>1. T \subseteq FirstBlock .. (heap.end - 8) /\ heap.end \in Nat
      BY <2>2, TiledFacts DEF Sane, Tiled, Taken
    <3>2. FirstBlock \in Int /\ heap.end - 8 \in Int
      BY <3>1 DEF FirstBlock
    <3>3. IsFiniteSet(FirstBlock .. (heap.end - 8))
      BY <3>2, FS_Interval
    <3> HIDE DEF T
    <3> QED BY <3>1, <3>3, FS_Subset
  <2>8. f \in [T -> Nat]
    <3>1. \A a \in T : heap.mem[a].payload \in Nat
      BY <2>2, TiledFacts DEF Sane, Taken, Words
    <3> QED BY <3>1
  <2>9. \A a \in DOMAIN live : f[a] = live[a]
    BY <2>3, <2>6
  <2>10. \A a \in T \ DOMAIN live : f[a] = 0
    BY <2>3, <2>4, <2>6 DEF Lent
  <2>11. \A a \in T : f[a] = heap.mem[a].payload
    OBVIOUS
  <2> DEFINE g == [a \in DOMAIN live |-> live[a]]
  <2>12. g \in [DOMAIN live -> Nat] /\ \A a \in DOMAIN live : g[a] = live[a]
    <3> HIDE DEF f, T
    <3> QED BY <2>6, <2>8, <2>9
  <2> HIDE DEF T, f, g
  <2>13. PICK it : Sums(T, f, it) /\ Payloads(heap.mem, T) = it[T]
    BY <2>7, <2>8, <2>11, PayloadsSummed
  <2>14. PICK it2 : Sums(DOMAIN live, g, it2) /\ Asked(live, DOMAIN live) = it2[DOMAIN live]
    <3>1. IsFiniteSet(DOMAIN live)
      BY <2>6, <2>7, FS_Subset
    <3> QED BY <2>12, <3>1, RequestsSummed
  <2>15. it[T] = it2[DOMAIN live]
    <3>1. \A a \in DOMAIN live : f[a] = g[a]
      BY <2>9, <2>12
    <3> QED BY <2>6, <2>7, <2>8, <2>10, <2>12, <2>13, <2>14, <3>1, SumsAgree
  <2> QED BY <2>5, <2>6, <2>13, <2>14, <2>15
<1> QED BY <1>1, AlwaysIInv, PTL
=============================================================================
