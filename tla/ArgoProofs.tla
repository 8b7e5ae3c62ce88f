----------------------------- MODULE ArgoProofs -----------------------------
(***************************************************************************)
(* Proofs about Argo: whatever the input is and however many slots there   *)
(* are, the lists of a value that was read are circular, and what a run    *)
(* takes is bounded by what it reads.                                      *)
(*                                                                         *)
(* The shape of the storage is described by `own`, which gives every slot  *)
(* up to argo_next_value the sentinel of the list it is in, or 0.          *)
(***************************************************************************)
EXTENDS Argo, ListLemmas, TLAPS

-----------------------------------------------------------------------------
(* The storage, shared out among lists. *)

Containers == {"array", "object"}

\* A sentinel owns itself and slots behind it; what lies between a sentinel and a slot
\* of its list belongs to it or to lists nested in it, or to none.
Owners(own, n) ==
    /\ own \in [0 .. n -> 0 .. n] /\ own[0] = 0
    /\ \A i \in 0 .. n : own[i] <= i /\ own[own[i]] = own[i]
    /\ \A b, e \in 0 .. n :
          own[b] # 0 /\ own[e] # 0 /\ own[e] <= b /\ b <= e => own[b] >= own[e]

\* Slot i is followed by the next slot of its list, linked both ways.
Follows(own, st, n, i) ==
    /\ st[i].next \in 0 .. n /\ st[i].next > i
    /\ own[st[i].next] = own[i] /\ st[st[i].next].prev = i
    /\ \A b \in 0 .. n : own[b] = own[i] => (b <= i \/ st[i].next <= b)

\* Slot i is the last of its list, and is linked with the sentinel.
LastOf(own, n, i) == \A b \in 0 .. n : own[b] = own[i] => b <= i
TurnsBack(own, st, i) == st[i].next = own[i] /\ st[own[i]].prev = i

\* The lists that are not closed yet, nested in one another; `ready` is the one whose
\* next slot is the last of the storage.
Opened(own, n, open, ready) ==
    /\ open \subseteq 1 .. n
    /\ \A s \in open : own[s] = s /\ \A b \in s .. n : own[b] # 0 => own[b] >= s
    /\ ready # 0 => ready \in open /\ own[n] = ready /\ ready < n

\* Sentinels have no type; behind a container is its sentinel, but for the container
\* that is about to be opened.
Typed(own, st, n, fresh) ==
    /\ \A i \in 1 .. n : own[i] = i => st[i].type = Untyped
    /\ \A i \in 0 .. n : st[i].type \in Containers =>
          (i + 1 \in 1 .. n /\ own[i + 1] = i + 1) \/ (fresh /\ i = n)
    /\ \A i \in Slots : i > n => st[i].type = Untyped

\* Every slot of a list has its neighbours; only the last can be without a type.
Chains(own, st, n, open, ready) ==
    \A i \in 1 .. n : own[i] # 0 =>
        /\ \/ Follows(own, st, n, i)
           \/ own[i] \in open /\ LastOf(own, n, i)
           \/ own[i] \notin open /\ TurnsBack(own, st, i)
        /\ st[i].type = Untyped =>
              \/ i = own[i]
              \/ own[i] \in open /\ own[i] = ready /\ i = n
              \/ own[i] \notin open /\ st[i].next = own[i]

Structure(own, st, n, open, ready, fresh) ==
    /\ Owners(own, n)
    /\ Opened(own, n, open, ready)
    /\ Typed(own, st, n, fresh)
    /\ Chains(own, st, n, open, ready)

\* What link changes.
Linked(st, st2, a, b) ==
    \A i \in Slots :
        /\ st2[i].type = st[i].type
        /\ st2[i].next = IF i = b THEN a ELSE st[i].next
        /\ st2[i].prev = IF i = a THEN b ELSE st[i].prev

\* The owners when the list of s is cut behind last.
Cut(own, n, s, last) == [i \in 0 .. n |-> IF own[i] = s /\ i > last THEN 0 ELSE own[i]]

\* A list that is cut behind one of its slots keeps its owners (the slots that a
\* loop had ready are in no list when it ends).
LEMMA CutOwners ==
    ASSUME NEW n \in Slots, NEW own, NEW s \in 1 .. n, NEW last \in 0 .. n,
           Owners(own, n), own[last] = s
    PROVE  /\ Owners(Cut(own, n, s, last), n)
           /\ \A i \in 0 .. n : Cut(own, n, s, last)[i] = IF own[i] = s /\ i > last THEN 0 ELSE own[i]
           /\ s <= last /\ own[s] = s
<1> DEFINE cut == Cut(own, n, s, last)
<1>1. n \in Nat /\ own \in [0 .. n -> 0 .. n] /\ s \in Int /\ s >= 1
  BY StorageAssumption DEF Slots, Owners
<1>2. \A i \in 0 .. n : cut[i] = IF own[i] = s /\ i > last THEN 0 ELSE own[i]
  BY DEF Cut
<1>3. s <= last /\ own[s] = s
  BY <1>1 DEF Owners
<1>4. cut \in [0 .. n -> 0 .. n]
  BY <1>1 DEF Cut
<1> HIDE DEF cut
<1>5. cut[0] = 0
  BY <1>1, <1>2 DEF Owners
<1>6. ASSUME NEW i \in 0 .. n PROVE cut[i] <= i /\ cut[cut[i]] = cut[i]
  <2>1. own[i] <= i /\ own[own[i]] = own[i] /\ own[i] \in 0 .. n /\ own[0] = 0
    BY <1>1 DEF Owners
  <2>2. CASE own[i] = s /\ i > last
    BY <1>1, <1>2, <1>5, <2>2
  <2>3. CASE ~(own[i] = s /\ i > last)
    <3>1. cut[i] = own[i]
      BY <1>2, <2>3
    <3>2. cut[own[i]] = own[i]
      BY <1>1, <1>2, <1>3, <2>1
    <3> QED BY <2>1, <3>1, <3>2
  <2> QED BY <2>2, <2>3
<1>7. ASSUME NEW b \in 0 .. n, NEW e \in 0 .. n,
             cut[b] # 0, cut[e] # 0, cut[e] <= b, b <= e
      PROVE  cut[b] >= cut[e]
  <2>1. cut[b] = own[b] /\ cut[e] = own[e]
    BY <1>2, <1>7
  <2> QED BY <1>7, <2>1 DEF Owners
<1> QED BY <1>2, <1>3, <1>4, <1>5, <1>6, <1>7 DEF Owners, cut

\* Closing: the list of s is linked from last back to s.
LEMMA CloseList ==
    ASSUME NEW n \in Slots, NEW own, NEW st, NEW st2, NEW open, NEW ready,
           NEW s \in open, NEW last \in 0 .. n,
           Structure(own, st, n, open, ready, FALSE), ready \in {0, s},
           own[last] = s, Linked(st, st2, s, last)
    PROVE  Structure(Cut(own, n, s, last), st2, n, open \ {s}, 0, FALSE)
<1> DEFINE cut == Cut(own, n, s, last)
<1> USE DEF Structure
<1>1. n \in Nat /\ own \in [0 .. n -> 0 .. n] /\ s \in 1 .. n /\ 0 .. n \subseteq Slots
      /\ own[0] = 0
  BY StorageAssumption DEF Slots, Owners, Opened
<1>2. /\ Owners(cut, n)
      /\ \A i \in 0 .. n : cut[i] = IF own[i] = s /\ i > last THEN 0 ELSE own[i]
      /\ s <= last /\ own[s] = s
  <2>1. Owners(own, n)
    OBVIOUS
  <2> HIDE DEF Structure
  <2>2. s \in 1 .. n
    BY <1>1
  <2>3. Owners(cut, n)
    BY <2>1, <2>2, CutOwners
  <2>4. s <= last /\ own[s] = s
    BY <2>1, <2>2, CutOwners
  <2>5. \A i \in 0 .. n : cut[i] = IF own[i] = s /\ i > last THEN 0 ELSE own[i]
    BY <2>1, <2>2, CutOwners
  <2> QED BY <2>3, <2>4, <2>5
<1> HIDE DEF cut
<1>3. Opened(cut, n, open \ {s}, 0)
  <2>1. ASSUME NEW r \in open \ {s}
        PROVE  cut[r] = r /\ \A b \in r .. n : cut[b] # 0 => cut[b] >= r
    <3>1. own[r] = r /\ (\A b \in r .. n : own[b] # 0 => own[b] >= r) /\ r \in 1 .. n
      BY DEF Opened
    <3> QED BY <1>1, <1>2, <3>1
  <2> QED BY <2>1 DEF Opened
<1>4. Typed(cut, st2, n, FALSE)
  <2>1. \A i \in 1 .. n : cut[i] = i => st2[i].type = Untyped
    BY <1>1, <1>2 DEF Linked, Typed
  <2>2. ASSUME NEW i \in 0 .. n, st2[i].type \in Containers
        PROVE  i + 1 \in 1 .. n /\ cut[i + 1] = i + 1
    <3>1. i + 1 \in 1 .. n /\ own[i + 1] = i + 1
      BY <1>1, <2>2 DEF Linked, Typed
    <3> QED BY <1>1, <1>2, <3>1
  <2>3. \A i \in Slots : i > n => st2[i].type = Untyped
    BY DEF Linked, Typed
  <2> QED BY <2>1, <2>2, <2>3 DEF Typed
<1>5. Chains(cut, st2, n, open \ {s}, 0)
  <2> SUFFICES ASSUME NEW i \in 1 .. n, cut[i] # 0
               PROVE  /\ \/ Follows(cut, st2, n, i)
                         \/ cut[i] \in open \ {s} /\ LastOf(cut, n, i)
                         \/ cut[i] \notin open \ {s} /\ TurnsBack(cut, st2, i)
                      /\ st2[i].type = Untyped =>
                            \/ i = cut[i]
                            \/ cut[i] \notin open \ {s} /\ st2[i].next = cut[i]
    BY DEF Chains
  <2>1. cut[i] = own[i] /\ ~(own[i] = s /\ i > last) /\ own[i] # 0
    BY <1>2
  <2>2. /\ \/ Follows(own, st, n, i)
           \/ own[i] \in open /\ LastOf(own, n, i)
           \/ own[i] \notin open /\ TurnsBack(own, st, i)
        /\ st[i].type = Untyped =>
              \/ i = own[i]
              \/ own[i] \in open /\ own[i] = ready /\ i = n
              \/ own[i] \notin open /\ st[i].next = own[i]
    BY <2>1 DEF Chains
  <2>3. i \in Slots /\ st2[i].type = st[i].type
        /\ st2[i].next = (IF i = last THEN s ELSE st[i].next)
    BY <1>1 DEF Linked
  <2>4. CASE own[i] = s /\ i = last
    <3>1. st2[i].next = s /\ st2[s].prev = i
      BY <1>1, <2>4 DEF Linked
    <3> QED BY <2>1, <2>4, <3>1 DEF TurnsBack
  <2>5. CASE own[i] = s /\ i # last
    <3>1. i < last
      BY <1>1, <2>1, <2>5
    <3>2. Follows(own, st, n, i)
      BY <1>1, <2>2, <2>5, <3>1 DEF LastOf
    <3>3. st[i].next <= last
      BY <1>1, <2>5, <3>1, <3>2 DEF Follows
    <3>4. st2[i].next = st[i].next /\ st[i].next # s
      BY <1>1, <1>2, <2>1, <2>3, <2>5, <3>1, <3>2 DEF Follows, Owners
    <3>5. Follows(cut, st2, n, i)
      <4>1. st2[st[i].next].prev = st[st[i].next].prev
        BY <1>1, <3>2, <3>4 DEF Linked, Follows
      <4>2. cut[st[i].next] = own[st[i].next]
        BY <1>1, <1>2, <3>2, <3>3 DEF Follows
      <4>3. \A b \in 0 .. n : cut[b] = s => own[b] = s
        BY <1>1, <1>2
      <4> QED BY <2>1, <2>5, <3>2, <3>4, <4>1, <4>2, <4>3 DEF Follows
    <3>6. st2[i].type = Untyped => i = own[i]
      BY <1>1, <2>2, <2>3, <2>5, <3>1
    <3> QED BY <2>1, <3>5, <3>6
  <2>6. CASE own[i] # s
    <3>1. i # last /\ st2[i].next = st[i].next
      BY <2>3, <2>6
    <3>2. \A b \in 0 .. n : cut[b] = own[i] <=> own[b] = own[i]
      BY <1>1, <1>2, <2>1, <2>6
    <3>3. Follows(own, st, n, i) => Follows(cut, st2, n, i)
      <4> SUFFICES ASSUME Follows(own, st, n, i) PROVE Follows(cut, st2, n, i)
        OBVIOUS
      <4>1. st[i].next \in 0 .. n /\ st[i].next # s
        BY <1>2, <2>6 DEF Follows
      <4>2. st2[st[i].next].prev = st[st[i].next].prev
        BY <1>1, <4>1 DEF Linked
      <4> QED BY <2>1, <3>1, <3>2, <4>1, <4>2 DEF Follows
    <3>4. LastOf(own, n, i) => LastOf(cut, n, i)
      BY <2>1, <3>2 DEF LastOf
    <3>5. TurnsBack(own, st, i) => TurnsBack(cut, st2, i)
      <4>1. cut[i] = own[i] /\ own[i] \in Slots
        BY <1>1, <2>1, <2>6, <3>2
      <4>2. st2[own[i]].prev = st[own[i]].prev
        BY <2>6, <4>1 DEF Linked
      <4> QED BY <3>1, <4>1, <4>2 DEF TurnsBack
    <3>6. \/ Follows(cut, st2, n, i)
          \/ cut[i] \in open \ {s} /\ LastOf(cut, n, i)
          \/ cut[i] \notin open \ {s} /\ TurnsBack(cut, st2, i)
      BY <2>1, <2>2, <2>6, <3>3, <3>4, <3>5
    <3>7. own[i] # ready
      BY <2>1, <2>6
    <3> QED BY <2>1, <2>2, <2>3, <3>1, <3>6, <3>7
  <2> QED BY <2>4, <2>5, <2>6
<1> QED BY <1>2, <1>3, <1>4, <1>5 DEF cut

\* The owners when the next slot goes to the list of s.
\* The owners when another slot is given to the list of s.
Grown(own, n, s) == [i \in 0 .. (n + 1) |-> IF i = n + 1 THEN s ELSE own[i]]

\* A slot at the end can be given to a list that no later one has closed
\* (argo_next_value grows by one).
LEMMA GrownOwners ==
    ASSUME NEW n \in Nat, NEW own, NEW s \in 1 .. (n + 1), Owners(own, n),
           s = n + 1 \/ own[s] = s, \A b \in s .. n : own[b] # 0 => own[b] >= s
    PROVE  /\ Owners(Grown(own, n, s), n + 1)
           /\ Grown(own, n, s)[n + 1] = s
           /\ \A i \in 0 .. n : Grown(own, n, s)[i] = own[i]
<1> DEFINE grown == Grown(own, n, s)
<1>1. own \in [0 .. n -> 0 .. n] /\ s \in Int /\ own[0] = 0
  BY DEF Owners
<1>2. grown[n + 1] = s /\ \A i \in 0 .. n : grown[i] = own[i]
  BY DEF Grown
<1>3. grown \in [0 .. (n + 1) -> 0 .. (n + 1)]
  BY <1>1 DEF Grown
<1> HIDE DEF grown
<1>4. ASSUME NEW i \in 0 .. (n + 1) PROVE grown[i] <= i /\ grown[grown[i]] = grown[i]
  <2>1. CASE i = n + 1
    BY <1>1, <1>2, <2>1
  <2>2. CASE i # n + 1
    <3>1. i \in 0 .. n
      BY <2>2
    <3>2. own[i] <= i /\ own[own[i]] = own[i] /\ own[i] \in 0 .. n
      BY <1>1, <3>1 DEF Owners
    <3> QED BY <1>2, <3>1, <3>2
  <2> QED BY <2>1, <2>2
<1>5. ASSUME NEW b \in 0 .. (n + 1), NEW e \in 0 .. (n + 1),
             grown[b] # 0, grown[e] # 0, grown[e] <= b, b <= e
      PROVE  grown[b] >= grown[e]
  <2>1. CASE b = n + 1
    BY <1>2, <1>5, <2>1
  <2>2. CASE b # n + 1 /\ e = n + 1
    <3>1. b \in s .. n /\ grown[b] = own[b] /\ grown[e] = s
      BY <1>1, <1>2, <1>5, <2>2
    <3> QED BY <1>5, <3>1
  <2>3. CASE b # n + 1 /\ e # n + 1
    <3>1. b \in 0 .. n /\ e \in 0 .. n /\ grown[b] = own[b] /\ grown[e] = own[e]
      BY <1>2, <2>3
    <3> QED BY <1>5, <3>1 DEF Owners
  <2> QED BY <2>1, <2>2, <2>3
<1>6. grown[0] = 0
  BY <1>1, <1>2
<1>7. Owners(grown, n + 1)
  BY <1>3, <1>4, <1>5, <1>6 DEF Owners
<1> USE DEF grown
<1>8. Owners(Grown(own, n, s), n + 1)
  BY <1>7
<1>9. Grown(own, n, s)[n + 1] = s
  BY <1>2
<1>10. \A i \in 0 .. n : Grown(own, n, s)[i] = own[i]
  BY <1>2
<1> HIDE DEF grown
<1> QED BY <1>8, <1>9, <1>10

\* A value comes into the slot that is next.
LEMMA TypeTop ==
    ASSUME NEW n \in Slots, NEW own, NEW st, NEW st2, NEW open, NEW ready, NEW fresh \in BOOLEAN,
           Structure(own, st, n, open, ready, FALSE), ready # 0 \/ n = 0,
           \A i \in Slots : st2[i].next = st[i].next /\ st2[i].prev = st[i].prev,
           \A i \in Slots : i # n => st2[i].type = st[i].type,
           st2[n].type # Untyped, st2[n].type \in Containers => fresh
    PROVE  Structure(own, st2, n, open, 0, fresh)
<1> USE DEF Structure
<1>1. n \in Nat /\ own \in [0 .. n -> 0 .. n] /\ 0 .. n \subseteq Slots
      /\ own[0] = 0
  BY StorageAssumption DEF Slots, Owners, Opened
<1>2. \A i \in 1 .. n : own[i] = i => i # n
  BY <1>1 DEF Opened
<1>3. Opened(own, n, open, 0)
  BY DEF Opened
<1>4. Typed(own, st2, n, fresh)
  <2>1. \A i \in 1 .. n : own[i] = i => st2[i].type = Untyped
    BY <1>1, <1>2 DEF Typed
  <2>2. ASSUME NEW i \in 0 .. n, st2[i].type \in Containers
        PROVE  (i + 1 \in 1 .. n /\ own[i + 1] = i + 1) \/ (fresh /\ i = n)
    BY <1>1, <2>2 DEF Typed
  <2>3. \A i \in Slots : i > n => st2[i].type = Untyped
    BY <1>1 DEF Typed
  <2> QED BY <2>1, <2>2, <2>3 DEF Typed
<1>5. Chains(own, st2, n, open, 0)
  <2> SUFFICES ASSUME NEW i \in 1 .. n, own[i] # 0
               PROVE  /\ \/ Follows(own, st2, n, i)
                         \/ own[i] \in open /\ LastOf(own, n, i)
                         \/ own[i] \notin open /\ TurnsBack(own, st2, i)
                      /\ st2[i].type = Untyped =>
                            i = own[i] \/ (own[i] \notin open /\ st2[i].next = own[i])
    BY DEF Chains
  <2>1. i \in Slots /\ st2[i].next = st[i].next /\ own[i] \in Slots
    BY <1>1
  <2>2. Follows(own, st, n, i) => Follows(own, st2, n, i)
    BY <1>1, <2>1 DEF Follows
  <2>3. TurnsBack(own, st, i) => TurnsBack(own, st2, i)
    BY <1>1, <2>1 DEF TurnsBack
  <2>4. st2[i].type = Untyped => i # n /\ st[i].type = Untyped
    BY <2>1
  <2> QED BY <2>1, <2>2, <2>3, <2>4 DEF Chains
<1> QED BY <1>3, <1>4, <1>5

\* A slot behind last is linked, and those behind last leave the list.
LEMMA AddAfter ==
    ASSUME NEW n \in Slots, NEW own, NEW st, NEW st2, NEW open, NEW s \in open, NEW last \in 0 .. n,
           Structure(own, st, n, open, 0, FALSE), \A r \in open : r <= s,
           own[last] = s, n + 1 \in Slots, Linked(st, st2, n + 1, last)
    PROVE  Structure(Grown(Cut(own, n, s, last), n, s), st2, n + 1, open, s, FALSE)
<1> DEFINE cut == Cut(own, n, s, last)
           grown == Grown(cut, n, s)
<1>1. Owners(own, n) /\ Opened(own, n, open, 0) /\ Typed(own, st, n, FALSE) /\ Chains(own, st, n, open, 0)
  BY DEF Structure
<1>2. n \in Nat /\ own \in [0 .. n -> 0 .. n] /\ s \in 1 .. n /\ 0 .. (n + 1) \subseteq Slots
      /\ own[0] = 0 /\ n + 1 \in Int
  BY <1>1, StorageAssumption DEF Slots, Owners, Opened
<1>3. Owners(own, n)
  BY <1>1
<1>4. s \in 1 .. n
  BY <1>2
<1>5. Owners(cut, n)
  BY <1>3, <1>4, CutOwners
<1>6. s <= last /\ own[s] = s
  BY <1>3, <1>4, CutOwners
<1>7. \A i \in 0 .. n : cut[i] = IF own[i] = s /\ i > last THEN 0 ELSE own[i]
  BY DEF Cut
<1>8. \A b \in s .. n : own[b] # 0 => own[b] >= s
  BY <1>1 DEF Opened
<1> HIDE DEF cut
<1>9. /\ s = n + 1 \/ cut[s] = s
      /\ \A b \in s .. n : cut[b] # 0 => cut[b] >= s
      /\ s \in 1 .. (n + 1)
  BY <1>2, <1>6, <1>7, <1>8
<1>10. Owners(grown, n + 1)
  BY <1>2, <1>5, <1>9, GrownOwners
<1>11. grown[n + 1] = s
  BY <1>2, <1>5, <1>9, GrownOwners
<1>12. \A i \in 0 .. n : grown[i] = cut[i]
  <2>1. \A i \in 0 .. n : i \in 0 .. (n + 1) /\ i # n + 1
    BY <1>2
  <2> QED BY <2>1 DEF Grown
<1> HIDE DEF grown
<1>13. Opened(grown, n + 1, open, s)
  <2>1. ASSUME NEW r \in open
        PROVE  grown[r] = r /\ \A b \in r .. (n + 1) : grown[b] # 0 => grown[b] >= r
    <3>1. own[r] = r /\ (\A b \in r .. n : own[b] # 0 => own[b] >= r) /\ r \in 1 .. n /\ r <= s
      BY <1>1 DEF Opened
    <3>2. grown[r] = r
      BY <1>2, <1>6, <1>7, <1>12, <3>1
    <3>3. ASSUME NEW b \in r .. (n + 1), grown[b] # 0 PROVE grown[b] >= r
      <4>1. CASE b = n + 1
        BY <1>2, <1>11, <3>1, <4>1
      <4>2. CASE b # n + 1
        <5>1. b \in r .. n /\ b \in 0 .. n
          BY <1>2, <3>1, <4>2
        <5> QED BY <1>7, <1>12, <3>1, <3>3, <5>1
      <4> QED BY <4>1, <4>2
    <3> QED BY <3>2, <3>3
  <2>2. open \subseteq 1 .. (n + 1)
    BY <1>1, <1>2 DEF Opened
  <2> QED BY <1>2, <1>11, <2>1, <2>2 DEF Opened
<1>14. Typed(grown, st2, n + 1, FALSE)
  <2>1. ASSUME NEW i \in 1 .. (n + 1), grown[i] = i PROVE st2[i].type = Untyped
    <3>1. i # n + 1
      BY <1>2, <1>11, <2>1
    <3>2. i \in 1 .. n /\ i \in 0 .. n /\ own[i] = i /\ i \in Slots
      BY <1>2, <1>7, <1>12, <2>1, <3>1
    <3> QED BY <1>1, <3>2 DEF Typed, Linked
  <2>2. ASSUME NEW i \in 0 .. (n + 1), st2[i].type \in Containers
        PROVE  i + 1 \in 1 .. (n + 1) /\ grown[i + 1] = i + 1
    <3>1. i \in Slots /\ st2[i].type = st[i].type
      BY <1>2 DEF Linked
    <3>2. i \in 0 .. n
      BY <1>1, <1>2, <2>2, <3>1 DEF Typed, Containers, Untyped
    <3>3. i + 1 \in 1 .. n /\ own[i + 1] = i + 1
      BY <1>1, <2>2, <3>1, <3>2 DEF Typed
    <3>4. i + 1 \in 0 .. n /\ ~(own[i + 1] = s /\ i + 1 > last)
      BY <1>2, <1>6, <3>2, <3>3
    <3> QED BY <1>2, <1>7, <1>12, <3>3, <3>4
  <2>3. ASSUME NEW i \in Slots, i > n + 1 PROVE st2[i].type = Untyped
    <3>1. st2[i].type = st[i].type
      BY DEF Linked
    <3>2. i > n
      BY <1>2, <2>3 DEF Slots
    <3>3. st[i].type = Untyped
      BY <1>1, <3>2 DEF Typed
    <3> QED BY <3>1, <3>3
  <2> QED BY <2>1, <2>2, <2>3 DEF Typed
<1>15. Chains(grown, st2, n + 1, open, s)
  <2> SUFFICES ASSUME NEW i \in 1 .. (n + 1), grown[i] # 0
               PROVE  /\ \/ Follows(grown, st2, n + 1, i)
                         \/ grown[i] \in open /\ LastOf(grown, n + 1, i)
                         \/ grown[i] \notin open /\ TurnsBack(grown, st2, i)
                      /\ st2[i].type = Untyped =>
                            \/ i = grown[i]
                            \/ grown[i] \in open /\ grown[i] = s /\ i = n + 1
                            \/ grown[i] \notin open /\ st2[i].next = grown[i]
    BY DEF Chains
  <2>1. CASE i = n + 1
    <3>1. LastOf(grown, n + 1, i)
      BY <1>2, <2>1 DEF LastOf
    <3> QED BY <1>11, <2>1, <3>1
  <2>2. CASE i # n + 1
    <3>1. i \in 0 .. n /\ i \in 1 .. n /\ i \in Slots /\ i # n + 1
      BY <1>2, <2>2
    <3>2. grown[i] = own[i] /\ ~(own[i] = s /\ i > last) /\ own[i] # 0
      BY <1>7, <1>12, <3>1
    <3>3. st2[i].type = st[i].type /\ st2[i].next = IF i = last THEN n + 1 ELSE st[i].next
      BY <3>1 DEF Linked
    <3>4. /\ \/ Follows(own, st, n, i)
             \/ own[i] \in open /\ LastOf(own, n, i)
             \/ own[i] \notin open /\ TurnsBack(own, st, i)
          /\ st[i].type = Untyped =>
                \/ i = own[i]
                \/ own[i] \in open /\ own[i] = 0 /\ i = n
                \/ own[i] \notin open /\ st[i].next = own[i]
      BY <1>1, <3>1, <3>2 DEF Chains
    <3>5. CASE own[i] = s /\ i = last
      <4>1. st2[i].next = n + 1 /\ st2[n + 1].prev = i
        BY <1>2, <3>3, <3>5 DEF Linked
      <4>2. ASSUME NEW b \in 0 .. (n + 1), grown[b] = s PROVE b <= i \/ n + 1 <= b
        <5>1. CASE b = n + 1
          BY <1>2, <5>1
        <5>2. CASE b # n + 1
          <6>1. b \in 0 .. n
            BY <1>2, <5>2
          <6> QED BY <1>2, <1>7, <1>12, <3>5, <4>2, <6>1
        <5> QED BY <5>1, <5>2
      <4>3. Follows(grown, st2, n + 1, i)
        BY <1>2, <1>11, <3>1, <3>2, <3>5, <4>1, <4>2 DEF Follows
      <4> QED BY <3>2, <3>3, <3>4, <3>5, <4>3
    <3>6. CASE own[i] = s /\ i # last
      <4>1. i < last
        BY <1>2, <3>1, <3>2, <3>6
      <4>2. Follows(own, st, n, i)
        BY <1>2, <3>4, <3>6, <4>1 DEF LastOf
      <4> DEFINE j == st[i].next
      <4>3. j \in 0 .. n /\ j > i /\ own[j] = s /\ st[j].prev = i
            /\ \A b \in 0 .. n : own[b] = s => (b <= i \/ j <= b)
        BY <3>6, <4>2 DEF Follows
      <4>4. st2[i].next = j
        BY <3>3, <3>6
      <4> HIDE DEF j
      <4>5. j <= last
        BY <1>2, <4>1, <4>3
      <4>6. grown[j] = s /\ j \in Slots /\ j # n + 1
        BY <1>2, <1>7, <1>12, <4>3, <4>5
      <4>7. st2[j].prev = i
        BY <4>3, <4>6 DEF Linked
      <4>8. ASSUME NEW b \in 0 .. (n + 1), grown[b] = s PROVE b <= i \/ j <= b
        <5>1. CASE b = n + 1
          BY <1>2, <4>3, <5>1
        <5>2. CASE b # n + 1
          <6>1. b \in 0 .. n
            BY <1>2, <5>2
          <6> QED BY <1>2, <1>7, <1>12, <4>3, <4>8, <6>1
        <5> QED BY <5>1, <5>2
      <4>9. Follows(grown, st2, n + 1, i)
        BY <1>2, <3>2, <3>6, <4>3, <4>4, <4>6, <4>7, <4>8 DEF Follows
      <4>10. st2[i].type = Untyped => i = own[i]
        BY <1>2, <3>3, <3>4, <3>6
      <4> QED BY <3>2, <4>9, <4>10
    <3>7. CASE own[i] # s
      <4>1. st2[i].next = st[i].next
        BY <1>6, <3>3, <3>7
      <4>2. ASSUME NEW b \in 0 .. (n + 1), grown[b] = own[i] PROVE b \in 0 .. n /\ own[b] = own[i]
        <5>1. b # n + 1
          BY <1>11, <3>7, <4>2
        <5>2. b \in 0 .. n
          BY <1>2, <5>1
        <5> QED BY <1>7, <1>12, <3>2, <4>2, <5>2
      <4>3. Follows(own, st, n, i) => Follows(grown, st2, n + 1, i)
        <5> SUFFICES ASSUME Follows(own, st, n, i) PROVE Follows(grown, st2, n + 1, i)
          OBVIOUS
        <5> DEFINE j == st[i].next
        <5>1. j \in 0 .. n /\ j > i /\ own[j] = own[i] /\ st[j].prev = i
              /\ \A b \in 0 .. n : own[b] = own[i] => (b <= i \/ j <= b)
          BY DEF Follows
        <5>2. st2[i].next = j
          BY <4>1
        <5> HIDE DEF j
        <5>3. grown[j] = own[i] /\ j \in Slots /\ j # n + 1 /\ j \in 0 .. (n + 1)
          BY <1>2, <1>7, <1>12, <3>7, <5>1
        <5>4. st2[j].prev = i
          BY <5>1, <5>3 DEF Linked
        <5> QED BY <1>2, <3>2, <4>2, <5>1, <5>2, <5>3, <5>4 DEF Follows
      <4>4. LastOf(own, n, i) => LastOf(grown, n + 1, i)
        BY <3>2, <4>2 DEF LastOf
      <4>5. TurnsBack(own, st, i) => TurnsBack(grown, st2, i)
        <5>1. own[i] \in 0 .. n /\ own[i] # n + 1 /\ own[i] \in Slots
          BY <1>2, <3>1
        <5> QED BY <3>2, <4>1, <5>1 DEF TurnsBack, Linked
      <4>6. own[i] \in open => own[i] # 0
        BY <3>2
      <4> QED BY <3>2, <3>3, <3>4, <4>1, <4>3, <4>4, <4>5, <4>6
    <3> QED BY <3>5, <3>6, <3>7
  <2> QED BY <2>1, <2>2
<1> QED BY <1>10, <1>13, <1>14, <1>15 DEF Structure, cut, grown

\* What does not touch types and links does not touch the structure.
LEMMA SameLinks ==
    ASSUME NEW n \in Slots, NEW own, NEW st, NEW st2, NEW open, NEW ready, NEW fresh,
           Structure(own, st, n, open, ready, fresh),
           \A i \in Slots : /\ st2[i].type = st[i].type
                            /\ st2[i].next = st[i].next
                            /\ st2[i].prev = st[i].prev
    PROVE  Structure(own, st2, n, open, ready, fresh)
<1> USE DEF Structure
<1>1. n \in Nat /\ own \in [0 .. n -> 0 .. n] /\ 0 .. n \subseteq Slots /\ 1 .. n \subseteq Slots
  BY StorageAssumption DEF Slots, Owners
<1>2. Typed(own, st2, n, fresh)
  BY <1>1 DEF Typed
<1>3. Chains(own, st2, n, open, ready)
  <2> SUFFICES ASSUME NEW i \in 1 .. n, own[i] # 0
               PROVE  /\ \/ Follows(own, st2, n, i)
                         \/ own[i] \in open /\ LastOf(own, n, i)
                         \/ own[i] \notin open /\ TurnsBack(own, st2, i)
                      /\ st2[i].type = Untyped =>
                            \/ i = own[i]
                            \/ own[i] \in open /\ own[i] = ready /\ i = n
                            \/ own[i] \notin open /\ st2[i].next = own[i]
    BY DEF Chains
  <2>1. i \in Slots /\ own[i] \in Slots
    BY <1>1
  <2>2. Follows(own, st, n, i) => Follows(own, st2, n, i)
    BY <1>1, <2>1 DEF Follows
  <2>3. TurnsBack(own, st, i) => TurnsBack(own, st2, i)
    BY <1>1, <2>1 DEF TurnsBack
  <2> QED BY <2>1, <2>2, <2>3 DEF Chains
<1> QED BY <1>2, <1>3

\* The slot behind a container becomes a sentinel.
LEMMA NewSentinel ==
    ASSUME NEW n \in Slots, NEW own, NEW st, NEW open,
           Structure(own, st, n, open, 0, TRUE), n + 1 \in Slots
    PROVE  Structure(Grown(own, n, n + 1), st, n + 1, open \cup {n + 1}, 0, FALSE)
<1> DEFINE grown == Grown(own, n, n + 1)
<1>1. Owners(own, n) /\ Opened(own, n, open, 0) /\ Typed(own, st, n, TRUE) /\ Chains(own, st, n, open, 0)
  BY DEF Structure
<1>2. n \in Nat /\ own \in [0 .. n -> 0 .. n] /\ 0 .. (n + 1) \subseteq Slots /\ n + 1 \in 1 .. (n + 1)
      /\ own[0] = 0
  BY <1>1, StorageAssumption DEF Slots, Owners
<1>3. \A b \in (n + 1) .. n : own[b] # 0 => own[b] >= n + 1
  BY <1>2
<1>4. Owners(grown, n + 1)
  BY <1>1, <1>2, <1>3, GrownOwners
<1>5. grown[n + 1] = n + 1 /\ \A i \in 0 .. n : grown[i] = own[i]
  BY <1>2 DEF Grown
<1> HIDE DEF grown
<1>6. Opened(grown, n + 1, open \cup {n + 1}, 0)
  <2>1. ASSUME NEW r \in open
        PROVE  grown[r] = r /\ \A b \in r .. (n + 1) : grown[b] # 0 => grown[b] >= r
    <3>1. own[r] = r /\ (\A b \in r .. n : own[b] # 0 => own[b] >= r) /\ r \in 1 .. n
      BY <1>1 DEF Opened
    <3>2. ASSUME NEW b \in r .. (n + 1), grown[b] # 0 PROVE grown[b] >= r
      <4>1. CASE b = n + 1
        BY <1>2, <1>5, <3>1, <4>1
      <4>2. CASE b # n + 1
        BY <1>2, <1>5, <3>1, <3>2, <4>2
      <4> QED BY <4>1, <4>2
    <3> QED BY <1>2, <1>5, <3>1, <3>2
  <2>2. \A b \in (n + 1) .. (n + 1) : grown[b] >= n + 1
    BY <1>2, <1>5
  <2>3. open \cup {n + 1} \subseteq 1 .. (n + 1)
    BY <1>1, <1>2 DEF Opened
  <2> QED BY <1>5, <2>1, <2>2, <2>3 DEF Opened
<1>7. Typed(grown, st, n + 1, FALSE)
  <2>1. st[n + 1].type = Untyped
    BY <1>1, <1>2 DEF Typed
  <2>2. ASSUME NEW i \in 1 .. (n + 1), grown[i] = i PROVE st[i].type = Untyped
    <3>1. CASE i = n + 1
      BY <2>1, <3>1
    <3>2. CASE i # n + 1
      <4>1. i \in 1 .. n /\ i \in 0 .. n
        BY <1>2, <3>2
      <4> QED BY <1>1, <1>5, <2>2, <4>1 DEF Typed
    <3> QED BY <3>1, <3>2
  <2>3. ASSUME NEW i \in 0 .. (n + 1), st[i].type \in Containers
        PROVE  i + 1 \in 1 .. (n + 1) /\ grown[i + 1] = i + 1
    <3>1. i \in 0 .. n
      BY <1>2, <2>1, <2>3 DEF Containers, Untyped
    <3>2. CASE i = n
      BY <1>2, <1>5, <3>2
    <3>3. CASE i # n
      <4>1. i + 1 \in 1 .. n /\ own[i + 1] = i + 1
        BY <1>1, <2>3, <3>1, <3>3 DEF Typed
      <4> QED BY <1>2, <1>5, <4>1
    <3> QED BY <3>2, <3>3
  <2>4. ASSUME NEW i \in Slots, i > n + 1 PROVE st[i].type = Untyped
    <3>1. i > n
      BY <1>2, <2>4 DEF Slots
    <3> QED BY <1>1, <3>1 DEF Typed
  <2> QED BY <2>2, <2>3, <2>4 DEF Typed
<1>8. Chains(grown, st, n + 1, open \cup {n + 1}, 0)
  <2> SUFFICES ASSUME NEW i \in 1 .. (n + 1), grown[i] # 0
               PROVE  /\ \/ Follows(grown, st, n + 1, i)
                         \/ grown[i] \in open \cup {n + 1} /\ LastOf(grown, n + 1, i)
                         \/ grown[i] \notin open \cup {n + 1} /\ TurnsBack(grown, st, i)
                      /\ st[i].type = Untyped =>
                            \/ i = grown[i]
                            \/ grown[i] \notin open \cup {n + 1} /\ st[i].next = grown[i]
    BY DEF Chains
  <2>1. CASE i = n + 1
    BY <1>2, <1>5, <2>1 DEF LastOf
  <2>2. CASE i # n + 1
    <3>1. i \in 0 .. n /\ i \in 1 .. n /\ grown[i] = own[i] /\ own[i] \in 0 .. n /\ own[i] # n + 1
      BY <1>2, <1>5, <2>2
    <3>2. /\ \/ Follows(own, st, n, i)
             \/ own[i] \in open /\ LastOf(own, n, i)
             \/ own[i] \notin open /\ TurnsBack(own, st, i)
          /\ st[i].type = Untyped =>
                \/ i = own[i]
                \/ own[i] \in open /\ own[i] = 0 /\ i = n
                \/ own[i] \notin open /\ st[i].next = own[i]
      BY <1>1, <3>1 DEF Chains
    <3>3. ASSUME NEW b \in 0 .. (n + 1), grown[b] = own[i] PROVE b \in 0 .. n /\ own[b] = own[i]
      BY <1>2, <1>5, <3>1, <3>3
    <3>4. Follows(own, st, n, i) => Follows(grown, st, n + 1, i)
      <4> SUFFICES ASSUME Follows(own, st, n, i) PROVE Follows(grown, st, n + 1, i)
        OBVIOUS
      <4> DEFINE j == st[i].next
      <4>1. j \in 0 .. n /\ j > i /\ own[j] = own[i] /\ st[j].prev = i
            /\ \A b \in 0 .. n : own[b] = own[i] => (b <= i \/ j <= b)
        BY DEF Follows
      <4>2. grown[j] = own[j] /\ j \in 0 .. (n + 1)
        BY <1>2, <1>5, <4>1
      <4> QED BY <3>1, <3>3, <4>1, <4>2 DEF Follows
    <3>5. LastOf(own, n, i) => LastOf(grown, n + 1, i)
      BY <3>1, <3>3 DEF LastOf
    <3>6. TurnsBack(own, st, i) => TurnsBack(grown, st, i)
      BY <3>1 DEF TurnsBack
    <3> QED BY <3>1, <3>2, <3>4, <3>5, <3>6
  <2> QED BY <2>1, <2>2
<1> QED BY <1>4, <1>6, <1>7, <1>8 DEF Structure, grown

\* A container without elements, and one with its first slot.
LEMMA OpenEmpty ==
    ASSUME NEW n \in Slots, NEW own, NEW st, NEW st2, NEW open,
           Structure(own, st, n, open, 0, TRUE), n + 1 \in Slots,
           Linked(st, st2, n + 1, n + 1), open \subseteq 1 .. n
    PROVE  /\ Structure(Cut(Grown(own, n, n + 1), n + 1, n + 1, n + 1), st2, n + 1, open, 0, FALSE)
<1> DEFINE grown == Grown(own, n, n + 1)
           both == open \cup {n + 1}
<1>1. Structure(grown, st, n + 1, both, 0, FALSE)
  BY NewSentinel
<1>2. n \in Nat
  BY StorageAssumption DEF Slots
<1>3. grown[n + 1] = n + 1 /\ n + 1 \in both /\ n + 1 \in 0 .. (n + 1)
  BY <1>2 DEF Grown
<1>4. both \ {n + 1} = open
  BY <1>2
<1> HIDE DEF grown, both
<1>5. Structure(Cut(grown, n + 1, n + 1, n + 1), st2, n + 1, both \ {n + 1}, 0, FALSE)
  BY <1>1, <1>3, CloseList
<1> QED BY <1>4, <1>5 DEF grown

\* A container whose list is opened: the sentinel, and a first slot behind it
\* (argo_read_array and argo_read_object up to their loops).
LEMMA OpenList ==
    ASSUME NEW n \in Slots, NEW own, NEW st, NEW st2, NEW open,
           Structure(own, st, n, open, 0, TRUE), n + 2 \in Slots,
           Linked(st, st2, n + 2, n + 1), open \subseteq 1 .. n,
           NEW begun, begun = [i \in 0 .. (n + 2) |-> IF i > n THEN n + 1 ELSE own[i]]
    PROVE  Structure(begun, st2, n + 2, open \cup {n + 1}, n + 1, FALSE)
<1> DEFINE grown == Grown(own, n, n + 1)
           both == open \cup {n + 1}
           m == n + 1
<1>1. m \in Slots /\ m + 1 = n + 2 /\ n \in Nat
  BY StorageAssumption DEF Slots
<1>2. Structure(grown, st, m, both, 0, FALSE)
  BY <1>1, NewSentinel
<1>3. grown[m] = m /\ m \in both /\ m \in 0 .. m
  BY <1>1 DEF Grown
<1>4. \A r \in both : r <= m
  BY <1>1
<1>5. m + 1 \in Slots /\ Linked(st, st2, m + 1, m)
  BY <1>1
<1>6. \A i \in 0 .. n : grown[i] = own[i] /\ i \in 0 .. m /\ i # m + 1 /\ ~(i > m)
  BY <1>1 DEF Grown
<1> HIDE DEF grown, both, m
<1>7. \A i \in 0 .. n : Grown(Cut(grown, m, m, m), m, m)[i] = own[i]
  <2> SUFFICES ASSUME NEW i \in 0 .. n PROVE Grown(Cut(grown, m, m, m), m, m)[i] = own[i]
    OBVIOUS
  <2>1. grown[i] = own[i] /\ i \in 0 .. m /\ i # m + 1 /\ ~(i > m) /\ i \in 0 .. (m + 1)
    BY <1>1, <1>6
  <2>2. Cut(grown, m, m, m)[i] = grown[i]
    BY <2>1 DEF Cut
  <2>3. Grown(Cut(grown, m, m, m), m, m)[i] = Cut(grown, m, m, m)[i]
    BY <2>1 DEF Grown
  <2> QED BY <2>1, <2>2, <2>3
<1>8. Structure(Grown(Cut(grown, m, m, m), m, m), st2, m + 1, both, m, FALSE)
  BY <1>1, <1>2, <1>3, <1>4, <1>5, AddAfter
<1>9. Structure(Grown(Cut(grown, m, m, m), m, m), st2, n + 2, open \cup {n + 1}, n + 1, FALSE)
  BY <1>1, <1>8 DEF both, m
<1>10. begun = Grown(Cut(grown, m, m, m), m, m)
  <2> DEFINE two == Grown(Cut(grown, m, m, m), m, m)
  <2>1. m + 1 = n + 2 /\ 0 .. (n + 2) = 0 .. (m + 1) /\ n + 2 \in Int
    BY <1>1 DEF m
  <2>2. \A i \in 0 .. (n + 2) : two[i] = IF i > n THEN n + 1 ELSE own[i]
    <3> SUFFICES ASSUME NEW i \in 0 .. (n + 2) PROVE two[i] = IF i > n THEN n + 1 ELSE own[i]
      OBVIOUS
    <3>1. CASE i <= n
      <4>1. i \in 0 .. n /\ ~(i > n)
        BY <1>1, <3>1
      <4> QED BY <4>1, <1>7
    <3>2. CASE ~(i <= n)
      <4>1. i > n /\ (i = m \/ i = m + 1) /\ i \in 0 .. (m + 1)
        BY <1>1, <3>2 DEF m
      <4>2. CASE i = m + 1
        <5>1. two[i] = m
          BY <4>1, <4>2 DEF Grown
        <5> QED BY <4>1, <5>1 DEF m
      <4>3. CASE i = m
        <5>1. m \in 0 .. m /\ m # m + 1 /\ ~(m > m)
          BY <1>1
        <5>2. Cut(grown, m, m, m)[m] = m
          BY <1>3, <5>1 DEF Cut
        <5>3. two[i] = m
          BY <4>1, <4>3, <5>1, <5>2 DEF Grown
        <5> QED BY <4>1, <5>3 DEF m
      <4> QED BY <4>1, <4>2, <4>3
    <3> QED BY <3>1, <3>2
  <2>3. two = [i \in 0 .. (n + 2) |-> two[i]]
    BY <2>1 DEF Grown
  <2> HIDE DEF two
  <2>4. \A i \in 0 .. (n + 2) : begun[i] = two[i]
    BY <2>2
  <2>5. begun = [i \in 0 .. (n + 2) |-> two[i]]
    BY <2>4
  <2>6. begun = two
    BY <2>3, <2>5
  <2> QED BY <2>6 DEF two
<1> QED BY <1>9, <1>10

-----------------------------------------------------------------------------
(* What is read of strings, numbers and names leaves bytes to read. *)

Byte == 0 .. 255
Bytes == Seq(Byte)
Chars == -128 .. 127

\* A character is taken off the input, or its end is met (fgetc).
LEMMA FetchRest ==
    ASSUME NEW in \in Bytes
    PROVE  /\ Fetch(in) \in Chars
           /\ Rest(in) \in Bytes
           /\ in = <<>> => Fetch(in) = EOF /\ Len(Rest(in)) = 0 /\ Len(in) = 0
           /\ in # <<>> => Len(Rest(in)) = Len(in) - 1 /\ Len(in) > 0
<1>1. CASE in = <<>>
  BY <1>1 DEF Fetch, Rest, EOF, Bytes, Chars
<1>2. CASE in # <<>>
  <2>1. Head(in) \in Byte /\ Tail(in) \in Bytes /\ Len(Tail(in)) = Len(in) - 1 /\ Len(in) > 0
    BY <1>2 DEF Bytes
  <2> DEFINE h == Head(in)
  <2>2. Fetch(in) \in Chars
    <3>1. h \in 0 .. 255
      BY <2>1 DEF Byte
    <3>2. Fetch(in) = IF h > 127 THEN h - 256 ELSE h
      BY <1>2 DEF Fetch
    <3> HIDE DEF h
    <3> QED BY <3>1, <3>2 DEF Chars
  <2> QED BY <1>2, <2>1, <2>2 DEF Rest
<1> QED BY <1>1, <1>2

\* A character that is given back is the next to be read; the end is not given
\* back (ungetc).
LEMMA UngetFacts ==
    ASSUME NEW c \in Chars, NEW in \in Bytes
    PROVE  /\ Unget(c, in) \in Bytes
           /\ c # EOF => /\ Len(Unget(c, in)) = Len(in) + 1
                         /\ Fetch(Unget(c, in)) = c
                         /\ Rest(Unget(c, in)) = in
           /\ c = EOF => Unget(c, in) = in
<1>1. CASE c = EOF
  BY <1>1 DEF Unget
<1>2. CASE c # EOF
  <2>1. c % 256 \in Byte /\ c = IF c % 256 > 127 THEN (c % 256) - 256 ELSE c % 256
    BY DEF Chars, Byte
  <2> DEFINE b == c % 256
             out == <<b>> \o in
  <2>2. Unget(c, in) = out
    BY <1>2 DEF Unget
  <2> HIDE DEF b
  <2>3. b \in Byte /\ c = IF b > 127 THEN b - 256 ELSE b
    BY <2>1 DEF b
  <2>4. out \in Bytes /\ Len(out) = Len(in) + 1 /\ out # <<>> /\ Head(out) = b /\ Tail(out) = in
    BY <2>3 DEF Bytes
  <2> HIDE DEF out
  <2>5. Fetch(out) = c /\ Rest(out) = in
    BY <2>3, <2>4 DEF Fetch, Rest
  <2> QED BY <1>2, <2>2, <2>4, <2>5
<1> QED BY <1>1, <1>2

\* A character that is looked at stays on the input; a byte that is taken for the
\* end is lost.
LEMMA PeekedFacts ==
    ASSUME NEW in \in Bytes
    PROVE  /\ Peeked(in) \in Bytes
           /\ Len(Peeked(in)) <= Len(in)
           /\ Fetch(in) # EOF => Len(Peeked(in)) = Len(in) /\ Fetch(Peeked(in)) = Fetch(in)
           /\ Fetch(in) = EOF /\ in # <<>> => Len(Peeked(in)) = Len(in) - 1
<1>1. Fetch(in) \in Chars /\ Rest(in) \in Bytes
  BY FetchRest
<1>2. Peeked(in) = Unget(Fetch(in), Rest(in))
  BY DEF Peeked
<1> DEFINE c == Fetch(in)
           rest == Rest(in)
<1>3. c \in Chars /\ rest \in Bytes
  BY <1>1
<1>4. /\ in = <<>> => c = EOF /\ Len(rest) = 0 /\ Len(in) = 0
      /\ in # <<>> => Len(rest) = Len(in) - 1 /\ Len(in) > 0
  BY FetchRest
<1> HIDE DEF c, rest
<1>5. Unget(c, rest) \in Bytes
  BY <1>3, UngetFacts
<1>6. c # EOF => Len(Unget(c, rest)) = Len(rest) + 1 /\ Fetch(Unget(c, rest)) = c
  BY <1>3, UngetFacts
<1>7. c = EOF => Unget(c, rest) = rest
  BY <1>3, UngetFacts
<1>8. Len(in) \in Nat /\ Len(rest) \in Nat
  BY <1>3 DEF Bytes
<1> QED BY <1>2, <1>4, <1>5, <1>6, <1>7, <1>8 DEF c, rest

\* The front of a sequence up to the first of stops.
Front1(n, stops) == IF stops = {} THEN n ELSE (CHOOSE i \in stops : \A j \in stops : i <= j) - 1

\* The number of elements before the first that stops a run.
LEMMA FrontRun ==
    ASSUME NEW n \in Nat, NEW stops \in SUBSET (1 .. n),
           NEW r, r = Front1(n, stops)
    PROVE  /\ r \in 0 .. n
           /\ \A i \in 1 .. r : i \notin stops
           /\ r < n => r + 1 \in stops
<1> USE DEF Front1
<1>1. CASE stops = {}
  BY <1>1
<1>2. CASE stops # {}
  <2>1. stops \in SUBSET Nat
    OBVIOUS
  <2>2. \E i \in stops : \A j \in stops : i <= j
    BY <1>2, <2>1, FirstExists
  <2> DEFINE first == CHOOSE i \in stops : \A j \in stops : i <= j
  <2>3. first \in stops /\ \A j \in stops : first <= j
    BY <2>2
  <2>4. r = first - 1
    BY <1>2
  <2> HIDE DEF first
  <2>5. first \in 1 .. n
    BY <2>3
  <2>6. ASSUME NEW i \in 1 .. r PROVE i \notin stops
    BY <2>3, <2>4, <2>5
  <2> QED BY <2>3, <2>4, <2>5, <2>6
<1> QED BY <1>1, <1>2

\* A run of digits after \\u is no longer than the input (argo_read_string).
LEMMA HexDigitsFacts ==
    ASSUME NEW in \in Bytes
    PROVE  HexDigits(in) \in 0 .. Len(in)
<1> DEFINE stops == {i \in DOMAIN in : ~argo_is_hex(in[i])}
<1>1. stops \in SUBSET (1 .. Len(in)) /\ Len(in) \in Nat
  BY DEF Bytes
<1>2. HexDigits(in) = Front1(Len(in), stops)
  BY DEF HexDigits, RunLength, Front1
<1> HIDE DEF stops
<1> QED BY <1>1, <1>2, FrontRun

\* A run of white space is no longer than the input.
LEMMA WhitespaceFacts ==
    ASSUME NEW in \in Bytes
    PROVE  RunLength(in, argo_is_whitespace) \in 0 .. Len(in)
<1> DEFINE stops == {i \in DOMAIN in : ~argo_is_whitespace(in[i])}
<1>1. stops \in SUBSET (1 .. Len(in)) /\ Len(in) \in Nat
  BY DEF Bytes
<1>2. RunLength(in, argo_is_whitespace) = Front1(Len(in), stops)
  BY DEF RunLength, Front1
<1> HIDE DEF stops
<1> QED BY <1>1, <1>2, FrontRun

Digits == Seq(0 .. 9)
Decimals == [digits : Digits, point : Int]

\* A decimal without the zeros at its ends is a decimal.
LEMMA DecimalFacts ==
    ASSUME NEW ds \in Digits, NEW p \in Int
    PROVE  Decimal(ds, p) \in Decimals
<1> DEFINE Stops1 == {i \in DOMAIN ds : ~(ds[i] = 0)}
           Stops2 == {i \in DOMAIN Reverse(ds) : ~(Reverse(ds)[i] = 0)}
           n == Len(ds)
           lead == Front1(n, Stops1)
           tail == Front1(n, Stops2)
<1>1. n \in Nat /\ DOMAIN ds = 1 .. n
  BY DEF Digits
<1>2. DOMAIN Reverse(ds) = 1 .. n /\ Len(Reverse(ds)) = n
  BY <1>1 DEF Reverse
<1>3. Stops1 \in SUBSET (1 .. n) /\ Stops2 \in SUBSET (1 .. n)
  BY <1>1, <1>2
<1>4. Decimal(ds, p) = IF lead = n THEN [digits |-> <<>>, point |-> 0]
                       ELSE [digits |-> SubSeq(ds, lead + 1, n - tail), point |-> p - lead]
  BY <1>2 DEF Decimal, RunLength, Front1
<1>5. lead = Front1(n, Stops1)
  OBVIOUS
<1>6. tail = Front1(n, Stops2)
  OBVIOUS
<1> HIDE DEF Stops1, Stops2, n, lead, tail
<1>7. lead \in 0 .. n
  BY <1>1, <1>3, <1>5, FrontRun
<1>8. tail \in 0 .. n
  BY <1>1, <1>3, <1>6, FrontRun
<1>9. SubSeq(ds, lead + 1, n - tail) \in Digits
  BY <1>1, <1>7, <1>8 DEF Digits, n
<1>10. <<>> \in Digits /\ p - lead \in Int
  BY <1>7 DEF Digits
<1> QED BY <1>4, <1>9, <1>10 DEF Decimals

\* One round of argo_read_string, with what the later rounds give.
Joined(read, char) == [ok |-> read.ok, value |-> <<char>> \o read.value, in |-> read.in]
StringRound(rest, n, reads) ==
    LET c == Fetch(rest)
        e == Fetch(Rest(rest))
        digits == HexDigits(SubSeq(rest, 3, n))
        after == Peeked(SubSeq(rest, digits + 3, n))
    IN  CASE c = ARGO_QUOTE -> Done(<<>>, Rest(rest))
          [] c = ARGO_BSLASH /\ e = ARGO_U ->
                Joined(reads[Len(after)], HexSum(SubSeq(rest, 3, digits + 2)))
          [] c = ARGO_BSLASH /\ e \in DOMAIN Escaped ->
                Joined(reads[Len(SubSeq(rest, 3, n))], Escaped[e])
          [] c = ARGO_BSLASH /\ e \notin DOMAIN Escaped \cup {ARGO_U} -> Wrong(rest)
          [] c = EOF -> Wrong(rest)
          [] OTHER -> Joined(reads[Len(Rest(rest))], c)
Suffix(in, n) == SubSeq(in, Len(in) - n + 1, Len(in))
Reads == [ok : BOOLEAN, value : Seq(Int), in : Bytes]

\* A sequence over a set is one over every larger set.
LEMMA SmallerSeq ==
    ASSUME NEW S, NEW U, S \subseteq U, NEW s \in Seq(S)
    PROVE  s \in Seq(U)
<1>1. \A j \in 1 .. Len(s) : s[j] \in S
  OBVIOUS
<1>2. \A j \in 1 .. Len(s) : s[j] \in U
  BY <1>1
<1>3. Len(s) \in Nat /\ s = [j \in 1 .. Len(s) |-> s[j]]
  OBVIOUS
<1> QED BY <1>2, <1>3

\* Hexadecimal digits make a number.
LEMMA HexSumInt ==
    ASSUME NEW digits \in Seq(Int)
    PROVE  HexSum(digits) \in Int
<1>1. \A i \in 1 .. Len(digits) : HexValue(digits[i]) \in Int
  <2>1. \A c \in Int : HexValue(c) \in Int
    BY DEF HexValue
  <2> QED BY <2>1
<1> DEFINE Term(i, base) == IF i <= Len(digits) THEN HexValue(digits[i]) * base ELSE 0
<1>2. HexSum(digits) = Term(1, 4096) + Term(2, 256) + Term(3, 16) + Term(4, 1)
  BY DEF HexSum
<1>3. Term(1, 4096) \in Int /\ Term(2, 256) \in Int /\ Term(3, 16) \in Int /\ Term(4, 1) \in Int
  BY <1>1
<1> HIDE DEF Term
<1> QED BY <1>2, <1>3

\* Every case of a round goes on with fewer characters, or ends with what is left.
LEMMA StringLefts ==
    ASSUME NEW n \in Nat, NEW rest \in Bytes, Len(rest) = n
    PROVE  LET c == Fetch(rest)
               e == Fetch(Rest(rest))
               digits == HexDigits(SubSeq(rest, 3, n))
               after == Peeked(SubSeq(rest, digits + 3, n))
           IN  /\ Rest(rest) \in Bytes /\ Len(Rest(rest)) \in Nat
               /\ c # EOF => Len(Rest(rest)) < n
               /\ c # EOF /\ e # EOF => /\ SubSeq(rest, 3, n) \in Bytes
                                        /\ Len(SubSeq(rest, 3, n)) \in 0 .. (n - 1)
                                        /\ after \in Bytes /\ Len(after) \in 0 .. (n - 1)
                                        /\ HexSum(SubSeq(rest, 3, digits + 2)) \in Int
               /\ c \in Int
<1> DEFINE c == Fetch(rest)
           e == Fetch(Rest(rest))
           tail == SubSeq(rest, 3, n)
           digits == HexDigits(tail)
           left == SubSeq(rest, digits + 3, n)
           after == Peeked(left)
<1>1. c \in Int /\ Rest(rest) \in Bytes /\ (c # EOF => Len(Rest(rest)) = n - 1 /\ n > 0)
  <2>1. c \in Chars /\ Rest(rest) \in Bytes
    BY FetchRest
  <2>2. rest = <<>> => c = EOF
    BY FetchRest
  <2>3. rest # <<>> => Len(Rest(rest)) = n - 1 /\ n > 0
    BY FetchRest
  <2>4. c \in Int
    <3> HIDE DEF c
    <3> QED BY <2>1 DEF Chars
  <2>5. c # EOF => rest # <<>>
    BY <2>2
  <2> HIDE DEF c
  <2> QED BY <2>1, <2>3, <2>4, <2>5
<1>2. c # EOF /\ e # EOF => n - 1 > 0
  <2>1. Rest(rest) = <<>> => e = EOF
    BY <1>1, FetchRest
  <2>2. Rest(rest) # <<>> => Len(Rest(rest)) > 0
    BY <1>1, FetchRest
  <2> HIDE DEF c, e
  <2> QED BY <1>1, <2>1, <2>2
<1>3. Len(Rest(rest)) \in Nat
  BY <1>1 DEF Bytes
<1>4. ASSUME c # EOF, e # EOF
      PROVE  /\ tail \in Bytes
             /\ Len(tail) \in 0 .. (n - 1)
             /\ after \in Bytes /\ Len(after) \in 0 .. (n - 1)
             /\ HexSum(SubSeq(rest, 3, digits + 2)) \in Int
  <2>1. n >= 2
    BY <1>2, <1>4
  <2>2. tail \in Bytes /\ Len(tail) = n - 2
    BY <2>1 DEF Bytes
  <2>3. digits \in 0 .. (n - 2)
    BY <2>2, HexDigitsFacts
  <2> HIDE DEF digits
  <2>4. left \in Bytes /\ Len(left) = n - 2 - digits
    BY <2>1, <2>3 DEF Bytes
  <2>5. after \in Bytes /\ Len(after) <= Len(left) /\ Len(after) \in Nat
    <3> HIDE DEF left
    <3>1. Peeked(left) \in Bytes /\ Len(Peeked(left)) <= Len(left)
      BY <2>4, PeekedFacts
    <3> QED BY <3>1 DEF Bytes
  <2>6. SubSeq(rest, 3, digits + 2) \in Seq(Int)
    <3>1. digits + 2 <= n /\ digits + 2 \in Nat
      BY <2>1, <2>3
    <3>2. rest \in Seq(Int)
      <4>1. Byte \subseteq Int
        BY DEF Byte
      <4> QED BY <4>1, SmallerSeq DEF Bytes
    <3> QED BY <3>1, <3>2
  <2>7. HexSum(SubSeq(rest, 3, digits + 2)) \in Int
    BY <2>6, HexSumInt
  <2> QED BY <2>1, <2>2, <2>3, <2>4, <2>5, <2>7
<1> QED BY <1>1, <1>3, <1>4

\* A character in front of what was read is something read.
LEMMA JoinedRead ==
    ASSUME NEW read \in Reads, NEW char \in Int
    PROVE  Joined(read, char) \in Reads
<1>1. read.ok \in BOOLEAN /\ read.value \in Seq(Int) /\ read.in \in Bytes
  BY DEF Reads
<1>2. <<char>> \o read.value \in Seq(Int)
  BY <1>1
<1> QED BY <1>1, <1>2 DEF Joined, Reads

\* An escape stands for a character.
LEMMA EscapedInt ==
    \A e \in DOMAIN Escaped : Escaped[e] \in 8 .. 92
  BY DEF Escaped, ARGO_B, ARGO_F, ARGO_N, ARGO_R, ARGO_T, ARGO_QUOTE, ARGO_BSLASH,
         ARGO_BS, ARGO_FF, ARGO_LF, ARGO_CR, ARGO_HT

\* A round with readings that agree on fewer characters gives the same; it is a
\* reading; and it leaves fewer characters when it succeeds and the later rounds do.
LEMMA StringRounds ==
    ASSUME NEW n \in Nat, NEW m \in Nat, n <= m, NEW rest \in Bytes, Len(rest) = n
    PROVE  /\ \A f, g :
                (\A k \in 0 .. (n - 1) : f[k] = g[k]) => StringRound(rest, n, f) = StringRound(rest, n, g)
           /\ \A f \in [0 .. m -> Reads] : StringRound(rest, n, f) \in Reads
           /\ \A f \in [0 .. m -> Reads] :
                (\A k \in 0 .. (n - 1) : f[k].ok => Len(f[k].in) < k)
                   => (StringRound(rest, n, f).ok => Len(StringRound(rest, n, f).in) < n)
<1> DEFINE c == Fetch(rest)
           e == Fetch(Rest(rest))
           tail == SubSeq(rest, 3, n)
           digits == HexDigits(tail)
           after == Peeked(SubSeq(rest, digits + 3, n))
           sum == HexSum(SubSeq(rest, 3, digits + 2))
           Round(f) == CASE c = ARGO_QUOTE -> Done(<<>>, Rest(rest))
              [] c = ARGO_BSLASH /\ e = ARGO_U -> Joined(f[Len(after)], sum)
              [] c = ARGO_BSLASH /\ e \in DOMAIN Escaped -> Joined(f[Len(tail)], Escaped[e])
              [] c = ARGO_BSLASH /\ e \notin DOMAIN Escaped \cup {ARGO_U} -> Wrong(rest)
              [] c = EOF -> Wrong(rest)
              [] OTHER -> Joined(f[Len(Rest(rest))], c)
<1>1. \A f : StringRound(rest, n, f) = Round(f)
  BY DEF StringRound
<1>2. /\ Rest(rest) \in Bytes /\ Len(Rest(rest)) \in Nat
      /\ c # EOF => Len(Rest(rest)) < n
      /\ c # EOF /\ e # EOF => /\ tail \in Bytes
                               /\ Len(tail) \in 0 .. (n - 1)
                               /\ after \in Bytes /\ Len(after) \in 0 .. (n - 1)
                               /\ sum \in Int
      /\ c \in Int
  BY StringLefts
<1>3. EOF \notin DOMAIN Escaped /\ EOF # ARGO_U /\ ARGO_BSLASH # EOF /\ ARGO_QUOTE # ARGO_BSLASH
      /\ ARGO_U \notin DOMAIN Escaped /\ ARGO_QUOTE # EOF
  BY DEF Escaped, EOF, ARGO_U, ARGO_BSLASH, ARGO_QUOTE, ARGO_B, ARGO_F, ARGO_N, ARGO_R, ARGO_T
<1>4. 0 .. (n - 1) \subseteq 0 .. m /\ (c # EOF => Len(Rest(rest)) \in 0 .. (n - 1))
  BY <1>2
<1>5. e \in DOMAIN Escaped => Escaped[e] \in Int
  <2>1. \A x \in DOMAIN Escaped : Escaped[x] \in 8 .. 92
    BY EscapedInt
  <2> HIDE DEF e
  <2>2. 8 .. 92 \subseteq Int
    OBVIOUS
  <2> QED BY <2>1, <2>2, Zenon
<1> DEFINE esc == Escaped[e]
<1> HIDE DEF c, e, tail, digits, after, sum
<1> DEFINE Ends == c = ARGO_QUOTE /\ \A g : Round(g) = Done(<<>>, Rest(rest))
           Stuck == \A g : Round(g) = Wrong(rest)
           GoesOnAs(f) == \E k \in 0 .. (n - 1), char \in Int :
                              \A g : g[k] = f[k] => Round(g) = Joined(f[k], char)
<1>6. ASSUME NEW f PROVE Ends \/ Stuck \/ GoesOnAs(f)
  <2>1. CASE c = ARGO_QUOTE
    BY <1>3, <2>1
  <2>2. CASE c = ARGO_BSLASH /\ e = ARGO_U
    <3>1. \A g : Round(g) = Joined(g[Len(after)], sum)
      BY <1>3, <2>2
    <3>2. Len(after) \in 0 .. (n - 1) /\ sum \in Int
      BY <1>2, <1>3, <2>2
    <3> HIDE DEF Round
    <3> QED BY <3>1, <3>2
  <2>3. CASE c = ARGO_BSLASH /\ e \in DOMAIN Escaped
    <3>1. \A g : Round(g) = Joined(g[Len(tail)], esc)
      BY <1>3, <2>3
    <3>2. Len(tail) \in 0 .. (n - 1) /\ esc \in Int
      BY <1>2, <1>3, <1>5, <2>3
    <3> HIDE DEF Round, esc
    <3> QED BY <3>1, <3>2
  <2>4. CASE c = ARGO_BSLASH /\ e \notin DOMAIN Escaped \cup {ARGO_U}
    BY <1>3, <2>4
  <2>5. CASE c = EOF
    BY <1>3, <2>5
  <2>6. CASE c \notin {ARGO_QUOTE, ARGO_BSLASH, EOF}
    <3>1. \A g : Round(g) = Joined(g[Len(Rest(rest))], c)
      BY <2>6
    <3>2. Len(Rest(rest)) \in 0 .. (n - 1) /\ c \in Int
      BY <1>2, <1>4, <2>6
    <3> HIDE DEF Round
    <3> QED BY <3>1, <3>2
  <2> HIDE DEF Round, Ends, Stuck, GoesOnAs
  <2>7. e = ARGO_U \/ e \in DOMAIN Escaped \/ e \notin DOMAIN Escaped \cup {ARGO_U}
    OBVIOUS
  <2> QED BY <2>1, <2>2, <2>3, <2>4, <2>5, <2>6, <2>7
<1>7. Done(<<>>, Rest(rest)) \in Reads /\ Wrong(rest) \in Reads /\ Wrong(rest).ok = FALSE
      /\ Done(<<>>, Rest(rest)).in = Rest(rest)
  BY <1>2 DEF Done, Wrong, Reads
<1>8. ASSUME NEW f, NEW g, \A k \in 0 .. (n - 1) : f[k] = g[k]
      PROVE  Round(f) = Round(g)
  <2> HIDE DEF Round
  <2>1. CASE \E k \in 0 .. (n - 1), char \in Int : \A h : h[k] = f[k] => Round(h) = Joined(f[k], char)
    <3>1. PICK k \in 0 .. (n - 1), char \in Int : \A h : h[k] = f[k] => Round(h) = Joined(f[k], char)
      BY <2>1
    <3>2. Round(f) = Joined(f[k], char)
      BY <3>1
    <3>3. Round(g) = Joined(f[k], char)
      BY <1>8, <3>1
    <3> QED BY <3>2, <3>3
  <2> QED BY <1>6, <2>1
<1> HIDE DEF Round
<1>9. ASSUME NEW f \in [0 .. m -> Reads] PROVE Round(f) \in Reads
  <2>1. ASSUME NEW k \in 0 .. (n - 1), NEW char \in Int, \A g : g[k] = f[k] => Round(g) = Joined(f[k], char)
        PROVE Round(f) \in Reads
    <3>1. Round(f) = Joined(f[k], char)
      BY <2>1
    <3>2. f[k] \in Reads
      BY <1>4
    <3> QED BY <3>1, <3>2, JoinedRead
  <2> QED BY <1>6, <1>7, <2>1
<1>10. ASSUME NEW f \in [0 .. m -> Reads], \A k \in 0 .. (n - 1) : f[k].ok => Len(f[k].in) < k,
              Round(f).ok
       PROVE  Len(Round(f).in) < n
  <2>1. CASE c = ARGO_QUOTE /\ Round(f) = Done(<<>>, Rest(rest))
    BY <1>2, <1>3, <1>7, <2>1
  <2>2. CASE \E k \in 0 .. (n - 1), char \in Int : \A g : g[k] = f[k] => Round(g) = Joined(f[k], char)
    <3>1. PICK k \in 0 .. (n - 1), char \in Int : \A g : g[k] = f[k] => Round(g) = Joined(f[k], char)
      BY <2>2
    <3>2. Round(f) = Joined(f[k], char)
      BY <3>1
    <3>3. Round(f).ok = f[k].ok /\ Round(f).in = f[k].in
      BY <3>2 DEF Joined
    <3>4. f[k] \in Reads
      BY <1>4
    <3>5. Len(f[k].in) \in Nat
      BY <3>4 DEF Reads, Bytes
    <3> DEFINE l == Len(f[k].in)
    <3>6. l < k /\ l \in Nat /\ k \in 0 .. (n - 1)
      BY <1>10, <3>3, <3>5
    <3>7. Len(Round(f).in) = l
      BY <3>3
    <3> HIDE DEF l
    <3> QED BY <3>6, <3>7
  <2> QED BY <1>6, <1>7, <1>10, <2>1, <2>2
<1> QED BY <1>1, <1>8, <1>9, <1>10

\* The rest of an input of a given length.
LEMMA SuffixFacts ==
    ASSUME NEW in \in Bytes, NEW n \in 0 .. Len(in)
    PROVE  Suffix(in, n) \in Bytes /\ Len(Suffix(in, n)) = n /\ Suffix(in, Len(in)) = in
<1> DEFINE m == Len(in)
           from == m - n + 1
<1>1. m \in Nat /\ from \in 1 .. (m + 1) /\ n \in Nat
  BY DEF Bytes
<1>2. Suffix(in, n) = SubSeq(in, from, m)
  BY DEF Suffix
<1>3. SubSeq(in, from, m) \in Bytes /\ Len(SubSeq(in, from, m)) = IF from <= m THEN m - from + 1 ELSE 0
  <2> HIDE DEF from
  <2> QED BY <1>1 DEF Bytes
<1>4. Suffix(in, Len(in)) = in
  <2>1. Suffix(in, Len(in)) = SubSeq(in, 1, Len(in))
    BY <1>1 DEF Suffix
  <2> QED BY <2>1 DEF Bytes
<1> QED BY <1>1, <1>2, <1>3, <1>4

\* The equation that defines StringReads holds of it.
LEMMA StringsUnfold ==
    ASSUME NEW in \in Bytes
    PROVE  /\ StringReads(in) \in [0 .. Len(in) -> Reads]
           /\ \A n \in 0 .. Len(in) :
                 StringReads(in)[n] = StringRound(Suffix(in, n), n, StringReads(in))
<1> DEFINE m == Len(in)
           I == 0 .. m
           rank == [n \in I |-> n]
           E(n, f) == StringRound(Suffix(in, n), n, f)
           H == [n \in I |-> [f \in [I -> Reads] |-> E(n, f)]]
           reads == StringReads(in)
<1>1. m \in Nat
  BY DEF Bytes
<1>2. rank \in [I -> Nat] /\ \A n \in I : rank[n] = n /\ rank[n] < m + 1
  BY <1>1
<1>3. ASSUME NEW n \in I
      PROVE  /\ \A f, g : (\A k \in 0 .. (n - 1) : f[k] = g[k]) => E(n, f) = E(n, g)
             /\ \A f \in [I -> Reads] : E(n, f) \in Reads
  <2>1. Suffix(in, n) \in Bytes /\ Len(Suffix(in, n)) = n
    BY SuffixFacts
  <2> DEFINE rest == Suffix(in, n)
  <2>2. rest \in Bytes /\ Len(rest) = n /\ n \in Nat /\ n <= m
    BY <1>1, <2>1
  <2> HIDE DEF rest
  <2>3. \A f, g : (\A k \in 0 .. (n - 1) : f[k] = g[k]) => StringRound(rest, n, f) = StringRound(rest, n, g)
    BY <1>1, <2>2, StringRounds
  <2>4. \A f \in [0 .. m -> Reads] : StringRound(rest, n, f) \in Reads
    BY <1>1, <2>2, StringRounds
  <2> QED BY <2>3, <2>4 DEF rest
<1>4. reads = CHOOSE g : g = [n \in I |-> E(n, g)]
  BY DEF StringReads, StringRound, Joined, Suffix
<1> HIDE DEF E, rank, reads
<1>5. H \in [I -> [[I -> Reads] -> Reads]] /\ \A n \in I : \A f \in [I -> Reads] : H[n][f] = E(n, f)
  BY <1>3
<1> HIDE DEF H
<1>6. \A n \in I : \A f, g \in [I -> Reads] :
          (\A k \in I : rank[k] < rank[n] => f[k] = g[k]) => H[n][f] = H[n][g]
  <2> SUFFICES ASSUME NEW n \in I, NEW f \in [I -> Reads], NEW g \in [I -> Reads],
                      \A k \in I : rank[k] < rank[n] => f[k] = g[k]
               PROVE  H[n][f] = H[n][g]
    OBVIOUS
  <2>1. \A k \in 0 .. (n - 1) : k \in I /\ rank[k] < rank[n]
    BY <1>1, <1>2
  <2>2. \A k \in 0 .. (n - 1) : f[k] = g[k]
    BY <2>1
  <2> HIDE DEF I
  <2> QED BY <1>3, <1>5, <2>2
<1>7. <<>> \in Seq(Int) /\ <<>> \in Bytes
  BY DEF Bytes
<1>8. Reads # {}
  <2>1. [ok |-> FALSE, value |-> <<>>, in |-> <<>>] \in Reads
    BY <1>7 DEF Reads
  <2> QED BY <2>1
<1> HIDE DEF I
<1>9. Recursive(I, Reads, rank, H)
  <2>1. m + 1 \in Nat
    BY <1>1
  <2> HIDE DEF m
  <2> QED BY <1>2, <1>5, <1>6, <1>8, <2>1 DEF Recursive
<1>10. PICK f \in [I -> Reads] : \A n \in I : f[n] = H[n][f]
  BY <1>9, Recursion DEF Solvable
<1>11. f = [n \in I |-> E(n, f)]
  <2>1. \A n \in I : f[n] = E(n, f)
    BY <1>5, <1>10
  <2> QED BY <1>10, <2>1
<1>12. reads = [n \in I |-> E(n, reads)]
  <2> DEFINE F(g) == [n \in I |-> E(n, g)]
  <2>1. f = F(f) /\ reads = CHOOSE g : g = F(g)
    BY <1>4, <1>11
  <2> HIDE DEF F
  <2>2. reads = F(reads)
    BY <2>1, Zenon
  <2> QED BY <2>2 DEF F
<1>13. \A n \in I : reads[n] = E(n, reads)
  BY <1>12
<1>14. DOMAIN reads = I
  BY <1>12, Zenon
<1>15. \A n \in I : reads[n] \in Reads
  <2>1. ASSUME NEW n \in I, \A k \in I : rank[k] < rank[n] => f[k] = reads[k]
        PROVE  f[n] = reads[n]
    <3>1. \A k \in 0 .. (n - 1) : k \in I /\ rank[k] < rank[n]
      BY <1>1, <1>2 DEF I
    <3>2. \A k \in 0 .. (n - 1) : f[k] = reads[k]
      BY <2>1, <3>1
    <3>3. E(n, f) = E(n, reads)
      BY <1>3, <3>2
    <3> QED BY <1>5, <1>10, <1>13, <3>3
  <2>2. Agreeing(I, rank, f, reads)
    BY <1>2, <2>1 DEF Agreeing
  <2>3. \A n \in I : f[n] = reads[n]
    BY <2>2, Agreement
  <2> QED BY <1>10, <2>3
<1>16. reads \in [I -> Reads]
  <2>1. reads = [n \in I |-> reads[n]]
    BY <1>12, <1>13
  <2> QED BY <1>15, <2>1
<1> QED BY <1>13, <1>16 DEF E, I, reads

\* A string that was read took at least one character, and leaves an input
\* (argo_read_string).
LEMMA ReadString ==
    ASSUME NEW in \in Bytes, NEW s \in Seq(Int)
    PROVE  LET read == argo_read_string(s, in)
           IN  /\ read \in Reads
               /\ read.ok => Len(read.in) < Len(in)
<1> DEFINE m == Len(in)
           reads == StringReads(in)
           read == argo_read_string(s, in)
<1>1. m \in Nat
  BY DEF Bytes
<1>2. reads \in [0 .. m -> Reads]
  BY StringsUnfold
<1>3. \A n \in 0 .. m : reads[n] = StringRound(Suffix(in, n), n, reads)
  BY StringsUnfold
<1>4. read = [ok |-> reads[m].ok, value |-> s \o reads[m].value, in |-> reads[m].in]
  BY DEF argo_read_string
<1> HIDE DEF reads, read
<1> DEFINE longer == {n \in 0 .. m : reads[n].ok /\ ~(Len(reads[n].in) < n)}
<1>5. longer = {}
  <2> SUFFICES ASSUME longer # {} PROVE FALSE
    OBVIOUS
  <2>1. longer \in SUBSET Nat
    OBVIOUS
  <2>2. PICK n \in longer : \A k \in longer : n <= k
    BY <2>1, FirstExists
  <2>3. n \in 0 .. m /\ reads[n].ok /\ ~(Len(reads[n].in) < n)
    BY <2>2
  <2>4. \A k \in 0 .. (n - 1) : reads[k].ok => Len(reads[k].in) < k
    <3> TAKE k \in 0 .. (n - 1)
    <3>1. k \in 0 .. m /\ ~(n <= k)
      BY <1>1, <2>3
    <3>2. k \notin longer
      BY <2>2, <3>1
    <3> QED BY <3>1, <3>2
  <2> DEFINE rest == Suffix(in, n)
  <2>5. rest \in Bytes /\ Len(rest) = n /\ n \in Nat /\ n <= m
    BY <1>1, <2>3, SuffixFacts
  <2> HIDE DEF rest
  <2>6. StringRound(rest, n, reads).ok => Len(StringRound(rest, n, reads).in) < n
    BY <1>1, <1>2, <2>4, <2>5, StringRounds
  <2>7. reads[n] = StringRound(rest, n, reads)
    BY <1>3, <2>3 DEF rest
  <2> QED BY <2>3, <2>6, <2>7
<1>6. reads[m] \in Reads /\ m \in 0 .. m
  BY <1>1, <1>2
<1>7. reads[m].ok => Len(reads[m].in) < m
  BY <1>5, <1>6
<1>8. s \o reads[m].value \in Seq(Int)
  BY <1>6 DEF Reads
<1>9. /\ read \in Reads
      /\ read.ok => Len(read.in) < m
  BY <1>4, <1>6, <1>7, <1>8 DEF Reads
<1> QED BY <1>9 DEF read

Phases == {"head", "minus", "fraction", "fractionExponent", "fractionDigits", "exponent",
           "exponentDigits", "unget", "swallow"}
Makings == [phase : Phases, sign : {-1, 1}, whole : Digits, frac : Digits,
            exponent : Nat, expSign : {-1, 1}, isInt : BOOLEAN]
Numbers == [isInt : BOOLEAN, sign : {-1, 1}, value : Decimals]

\* A number is begun in the phase `head`.
LEMMA NewNumberFacts ==
    /\ NewNumber \in Makings
    /\ NewNumber.phase = "head"
<1>1. <<>> \in Digits
  BY DEF Digits
<1> QED BY <1>1 DEF NewNumber, Makings, Phases

\* Each change of a number in the making.
LEMMA MakingChanges ==
    ASSUME NEW k \in Makings, NEW phase \in Phases, NEW c \in 48 .. 57
    PROVE  /\ To(k, phase) \in Makings /\ To(k, phase).phase = phase
           /\ Gains(k, "whole", c, phase) \in Makings /\ Gains(k, "whole", c, phase).phase = phase
           /\ Gains(k, "frac", c, phase) \in Makings /\ Gains(k, "frac", c, phase).phase = phase
           /\ Raises(k, c, phase) \in Makings /\ Raises(k, c, phase).phase = phase
<1>1. To(k, phase) \in Makings /\ To(k, phase).phase = phase
  BY DEF To, Makings
<1>2. c - 48 \in 0 .. 9
  OBVIOUS
<1>3. Append(k.whole, c - 48) \in Digits /\ Append(k.frac, c - 48) \in Digits
  BY <1>2 DEF Makings, Digits
<1>4. 10 * k.exponent + (c - 48) \in Nat
  <2>1. k.exponent \in Nat
    BY DEF Makings
  <2> QED BY <1>2, <2>1
<1>5. Gains(k, "whole", c, phase) \in Makings /\ Gains(k, "whole", c, phase).phase = phase
  BY <1>3 DEF Gains, Makings
<1>6. Gains(k, "frac", c, phase) \in Makings /\ Gains(k, "frac", c, phase).phase = phase
  BY <1>3 DEF Gains, Makings
<1>7. Raises(k, c, phase) \in Makings /\ Raises(k, c, phase).phase = phase
  BY <1>4 DEF Raises, Makings
<1> QED BY <1>1, <1>5, <1>6, <1>7

\* A turn of the loop of argo_read_number leaves its state as it should be, and at
\* the end of the input ends the loop.
LEMMA NumberSteps ==
    ASSUME NEW k \in Makings, NEW c \in Chars
    PROVE  /\ NumberStep(k, c) \in Makings
           /\ c = EOF => NumberStep(k, c).phase \in {"unget", "swallow"}
           /\ k.phase = "head" /\ (argo_is_digit(c) \/ c = ARGO_MINUS)
                => NumberStep(k, c).phase \notin {"unget", "swallow"}
<1> DEFINE step == NumberStep(k, c)
           digit == argo_is_digit(c)
           expo == argo_is_exponent(c)
<1> DEFINE Minus == [k EXCEPT !.sign = -1, !.phase = "minus"]
           Period == [k EXCEPT !.frac = <<>>, !.isInt = FALSE, !.phase = "fraction"]
           Minus2 == [k EXCEPT !.expSign = -1, !.phase = "fractionDigits"]
           Minus3 == [k EXCEPT !.expSign = -1, !.phase = "exponentDigits"]
<1>1. <<>> \in Digits
  BY DEF Digits
<1>2. digit => c \in 48 .. 57 /\ c # ARGO_MINUS /\ c # ARGO_PERIOD /\ c # EOF /\ ~expo
  BY DEF argo_is_digit, argo_is_exponent, ARGO_MINUS, ARGO_PERIOD, EOF
<1>3. expo => c # ARGO_MINUS /\ c # ARGO_PERIOD /\ c # EOF /\ ~digit
  BY DEF argo_is_digit, argo_is_exponent, ARGO_MINUS, ARGO_PERIOD, EOF
<1>4. ARGO_MINUS # ARGO_PERIOD /\ ARGO_MINUS # EOF /\ ARGO_PERIOD # EOF
  BY DEF ARGO_MINUS, ARGO_PERIOD, EOF
<1>5. step =
      CASE k.phase = "head" /\ c = ARGO_MINUS -> Minus
        [] k.phase \in {"head", "minus"} /\ c = ARGO_PERIOD ->
              Period
        [] k.phase \in {"head", "minus"} /\ digit -> Gains(k, "whole", c, "head")
        [] k.phase = "fraction" /\ digit -> Gains(k, "frac", c, "fraction")
        [] k.phase = "fraction" /\ expo -> To(k, "fractionExponent")
        [] k.phase \in {"head", "minus", "fractionExponent", "fractionDigits"} /\ expo ->
              BareExponent(k)
        [] k.phase = "fractionExponent" /\ c = ARGO_MINUS ->
              Minus2
        [] k.phase \in {"fractionExponent", "fractionDigits"} /\ digit ->
              Raises(k, c, "fractionDigits")
        [] k.phase = "exponent" /\ c = ARGO_MINUS ->
              Minus3
        [] k.phase \in {"exponent", "exponentDigits"} /\ digit ->
              Raises(k, c, "exponentDigits")
        [] k.phase \in {"exponent", "exponentDigits"} /\ ~digit
              /\ ~(k.phase = "exponent" /\ c = ARGO_MINUS) -> To(k, "swallow")
        [] OTHER -> To(k, "unget")
  BY DEF NumberStep
<1>6. /\ Minus \in Makings /\ Minus.phase = "minus"
      /\ Period \in Makings /\ Period.phase = "fraction"
      /\ Minus2 \in Makings /\ Minus2.phase = "fractionDigits"
      /\ Minus3 \in Makings /\ Minus3.phase = "exponentDigits"
      /\ BareExponent(k) \in Makings /\ BareExponent(k).phase = "exponent"
  BY <1>1 DEF Makings, BareExponent, Phases
<1>7. \A phase \in Phases : To(k, phase) \in Makings /\ To(k, phase).phase = phase
  BY DEF To, Makings
<1>8. ASSUME digit
      PROVE \A phase \in Phases :
              /\ Gains(k, "whole", c, phase) \in Makings /\ Gains(k, "whole", c, phase).phase = phase
              /\ Gains(k, "frac", c, phase) \in Makings /\ Gains(k, "frac", c, phase).phase = phase
              /\ Raises(k, c, phase) \in Makings /\ Raises(k, c, phase).phase = phase
  <2>1. c \in 48 .. 57
    BY <1>2, <1>8
  <2> TAKE phase \in Phases
  <2>2. Gains(k, "whole", c, phase) \in Makings /\ Gains(k, "whole", c, phase).phase = phase
    BY <2>1, MakingChanges
  <2>3. Gains(k, "frac", c, phase) \in Makings /\ Gains(k, "frac", c, phase).phase = phase
    BY <2>1, MakingChanges
  <2>4. Raises(k, c, phase) \in Makings /\ Raises(k, c, phase).phase = phase
    BY <2>1, MakingChanges
  <2> QED BY <2>2, <2>3, <2>4
<1>9. "fraction" \in Phases /\ "fractionExponent" \in Phases /\ "head" \in Phases
      /\ "fractionDigits" \in Phases /\ "exponentDigits" \in Phases
      /\ "swallow" \in Phases /\ "unget" \in Phases /\ k.phase \in Phases
  BY DEF Makings, Phases
<1> HIDE DEF step, digit, expo, Minus, Period, Minus2, Minus3
<1>10. step \in Makings
  <2>1. CASE k.phase = "head" /\ c = ARGO_MINUS
    BY <1>2, <1>3, <1>4, <1>5, <1>6, <2>1
  <2>2. CASE digit
    BY <1>2, <1>5, <1>7, <1>8, <1>9, <2>2
  <2>3. CASE expo
    BY <1>3, <1>5, <1>6, <1>7, <1>9, <2>3
  <2>4. CASE ~digit /\ ~expo /\ ~(k.phase = "head" /\ c = ARGO_MINUS)
    <3>1. CASE c = ARGO_PERIOD
      <4>1. step = Period \/ step = To(k, "swallow") \/ step = To(k, "unget")
        BY <1>4, <1>5, <2>4, <3>1
      <4> QED BY <1>6, <1>7, <1>9, <4>1
    <3>2. CASE c = ARGO_MINUS
      <4>1. step = Minus2 \/ step = Minus3 \/ step = To(k, "swallow") \/ step = To(k, "unget")
        BY <1>4, <1>5, <2>4, <3>2
      <4> QED BY <1>6, <1>7, <1>9, <4>1
    <3>3. CASE c \notin {ARGO_MINUS, ARGO_PERIOD}
      <4>1. step = To(k, "swallow") \/ step = To(k, "unget")
        BY <1>5, <2>4, <3>3
      <4> QED BY <1>7, <1>9, <4>1
    <3> QED BY <3>1, <3>2, <3>3
  <2> QED BY <2>1, <2>2, <2>3, <2>4
<1>11. ASSUME c = EOF PROVE step.phase \in {"unget", "swallow"}
  <2>1. step = To(k, "swallow") \/ step = To(k, "unget")
    BY <1>2, <1>3, <1>4, <1>5, <1>11
  <2> QED BY <1>7, <1>9, <2>1
<1>12. ASSUME k.phase = "head", digit \/ c = ARGO_MINUS PROVE step.phase \notin {"unget", "swallow"}
  <2>1. CASE c = ARGO_MINUS
    <3>1. step = Minus
      BY <1>2, <1>3, <1>4, <1>5, <1>12, <2>1
    <3> QED BY <1>6, <3>1
  <2>2. CASE digit
    <3>1. step = Gains(k, "whole", c, "head")
      BY <1>2, <1>5, <1>12, <2>2
    <3> QED BY <1>8, <1>9, <2>2, <3>1
  <2> QED BY <1>12, <2>1, <2>2
<1> QED BY <1>10, <1>11, <1>12 DEF step, digit

Behead(in, n) == SubSeq(in, n, Len(in))

\* The input without its first characters.
LEMMA BeheadFacts ==
    ASSUME NEW in \in Bytes, NEW n \in 1 .. (Len(in) + 1)
    PROVE  /\ Behead(in, n) \in Bytes /\ Len(Behead(in, n)) = Len(in) + 1 - n
           /\ Fetch(Behead(in, n)) \in Chars
           /\ n = 1 => Behead(in, n) = in
           /\ n = Len(in) + 1 => Fetch(Behead(in, n)) = EOF
<1>1. Behead(in, n) \in Bytes /\ Len(Behead(in, n)) = Len(in) + 1 - n
  BY DEF Behead, Bytes
<1>2. Fetch(Behead(in, n)) \in Chars
  BY <1>1, FetchRest
<1>3. n = 1 => Behead(in, n) = in
  BY DEF Behead, Bytes
<1>4. ASSUME n = Len(in) + 1 PROVE Fetch(Behead(in, n)) = EOF
  <2>1. Len(Behead(in, n)) = 0
    BY <1>1, <1>4 DEF Bytes
  <2>2. Behead(in, n) = <<>>
    BY <1>1, <2>1 DEF Bytes
  <2> QED BY <2>2 DEF Fetch
<1> QED BY <1>1, <1>2, <1>3, <1>4

\* The loop of argo_read_number, turn by turn.
LEMMA NumberUnfold ==
    ASSUME NEW in \in Bytes
    PROVE  /\ NumberLoop(in) \in [0 .. (Len(in) + 1) -> Makings]
           /\ NumberLoop(in)[0] = NewNumber
           /\ \A n \in 1 .. (Len(in) + 1) :
                 NumberLoop(in)[n] = NumberStep(NumberLoop(in)[n - 1], Fetch(Behead(in, n)))
<1> DEFINE m == Len(in) + 1
           I == 0 .. m
           rank == [n \in I |-> n]
           E(n, f) == IF n = 0 THEN NewNumber ELSE NumberStep(f[n - 1], Fetch(Behead(in, n)))
           H == [n \in I |-> [f \in [I -> Makings] |-> E(n, f)]]
           loop == NumberLoop(in)
<1>1. m \in Nat
  BY DEF Bytes
<1>2. rank \in [I -> Nat] /\ \A n \in I : rank[n] = n /\ rank[n] < m + 1
  BY <1>1
<1>3. NewNumber \in Makings
  BY NewNumberFacts
<1>4. \A n \in I : n # 0 => n \in 1 .. m /\ n - 1 \in I
  BY <1>1
<1>5. \A n \in 1 .. m : Fetch(Behead(in, n)) \in Chars
  BY BeheadFacts
<1>6. ASSUME NEW n \in I, NEW f \in [I -> Makings] PROVE E(n, f) \in Makings
  <2>1. CASE n = 0
    BY <1>3, <2>1
  <2>2. CASE n # 0
    <3>1. f[n - 1] \in Makings /\ Fetch(Behead(in, n)) \in Chars
      BY <1>4, <1>5, <2>2
    <3>2. NumberStep(f[n - 1], Fetch(Behead(in, n))) \in Makings
      BY <3>1, NumberSteps
    <3> QED BY <2>2, <3>2
  <2> QED BY <2>1, <2>2
<1>7. \A n \in I : \A f, g : (n # 0 => f[n - 1] = g[n - 1]) => E(n, f) = E(n, g)
  OBVIOUS
<1>8. loop = CHOOSE g : g = [n \in I |-> E(n, g)]
  BY DEF NumberLoop, Behead
<1> HIDE DEF E, rank, loop
<1>9. H \in [I -> [[I -> Makings] -> Makings]] /\ \A n \in I : \A f \in [I -> Makings] : H[n][f] = E(n, f)
  BY <1>6
<1>10. \A n \in I : n # 0 => n - 1 \in I /\ rank[n - 1] < rank[n]
  BY <1>2, <1>4
<1> HIDE DEF H, I
<1>11. Recursive(I, Makings, rank, H)
  <2>1. m + 1 \in Nat
    BY <1>1
  <2>2. \A n \in I : \A f, g \in [I -> Makings] :
          (\A k \in I : rank[k] < rank[n] => f[k] = g[k]) => H[n][f] = H[n][g]
    BY <1>7, <1>9, <1>10
  <2> HIDE DEF m
  <2> QED BY <1>2, <1>3, <1>9, <2>1, <2>2 DEF Recursive
<1>12. PICK f \in [I -> Makings] : \A n \in I : f[n] = H[n][f]
  BY <1>11, Recursion DEF Solvable
<1>13. f = [n \in I |-> E(n, f)]
  <2>1. \A n \in I : f[n] = E(n, f)
    BY <1>9, <1>12
  <2> QED BY <1>12, <2>1
<1>14. loop = [n \in I |-> E(n, loop)]
  <2> DEFINE F(g) == [n \in I |-> E(n, g)]
  <2>1. f = F(f) /\ loop = CHOOSE g : g = F(g)
    BY <1>8, <1>13
  <2> HIDE DEF F
  <2>2. loop = F(loop)
    BY <2>1, Zenon
  <2> QED BY <2>2 DEF F
<1>15. \A n \in I : loop[n] = E(n, loop)
  BY <1>14
<1>16. \A n \in I : f[n] = loop[n]
  <2>1. ASSUME NEW n \in I, \A k \in I : rank[k] < rank[n] => f[k] = loop[k]
        PROVE  f[n] = loop[n]
    <3>1. n # 0 => f[n - 1] = loop[n - 1]
      BY <1>10, <2>1
    <3>2. E(n, f) = E(n, loop)
      BY <1>7, <3>1
    <3> QED BY <1>9, <1>12, <1>15, <3>2
  <2>2. Agreeing(I, rank, f, loop)
    BY <1>2, <2>1 DEF Agreeing
  <2> QED BY <2>2, Agreement
<1>17. loop \in [I -> Makings]
  <2>1. loop = [n \in I |-> loop[n]]
    BY <1>14, <1>15
  <2> QED BY <1>12, <1>16, <2>1
<1>18. loop[0] = NewNumber
  <2>1. 0 \in I
    BY <1>1 DEF I
  <2> QED BY <1>15, <2>1 DEF E
<1>19. \A n \in 1 .. m : loop[n] = NumberStep(loop[n - 1], Fetch(Behead(in, n)))
  <2>1. \A n \in 1 .. m : n \in I /\ n # 0
    BY <1>1 DEF I
  <2> QED BY <1>15, <2>1 DEF E
<1> QED BY <1>17, <1>18, <1>19 DEF I, loop

\* What the loop of argo_read_number has gathered is a number.
LEMMA NumberIsNumber ==
    ASSUME NEW k \in Makings
    PROVE  Number(k) \in Numbers
<1>1. k.whole \o k.frac \in Digits /\ Len(k.whole) \in Nat
  BY DEF Makings, Digits
<1>2. k.expSign * k.exponent \in Int
  <2>1. k.exponent \in Nat /\ k.expSign \in {-1, 1}
    BY DEF Makings
  <2> QED BY <2>1
<1> DEFINE ds == k.whole \o k.frac
           p == Len(k.whole) + k.expSign * k.exponent
<1>3. ds \in Digits /\ p \in Int
  BY <1>1, <1>2
<1> HIDE DEF ds, p
<1>4. Decimal(ds, p) \in Decimals
  BY <1>3, DecimalFacts
<1>5. Number(k) = [isInt |-> k.isInt, sign |-> k.sign, value |-> Decimal(ds, p)]
  BY DEF Number, ds, p
<1>6. k.isInt \in BOOLEAN /\ k.sign \in {-1, 1}
  BY DEF Makings
<1> QED BY <1>4, <1>5, <1>6 DEF Numbers

\* A number takes at least one character (argo_read_number).
LEMMA ReadNumber ==
    ASSUME NEW in \in Bytes, argo_is_digit(Fetch(in)) \/ Fetch(in) = ARGO_MINUS
    PROVE  LET read == argo_read_number(in)
           IN  /\ read \in [ok : BOOLEAN, value : Numbers, in : Bytes]
               /\ Len(read.in) < Len(in)
<1> DEFINE k == NumberLoop(in)
           m == Len(in) + 1
           ends == {n \in 1 .. m : k[n].phase \in {"unget", "swallow"}}
           last == CHOOSE n \in ends : \A j \in ends : n <= j
           left == Behead(in, last)
           after == IF k[last].phase = "swallow" THEN Rest(left) ELSE Peeked(left)
<1>1. argo_read_number(in) = Done(Number(k[last]), after)
  BY DEF argo_read_number, Behead
<1>2. m \in Nat /\ m >= 1 /\ Len(in) \in Nat
  BY DEF Bytes
<1>3. k \in [0 .. m -> Makings]
  BY NumberUnfold
<1>4. k[0] = NewNumber
  BY NumberUnfold
<1>5. \A n \in 1 .. m : k[n] = NumberStep(k[n - 1], Fetch(Behead(in, n)))
  BY NumberUnfold
<1>6. \A n \in 1 .. m : Fetch(Behead(in, n)) \in Chars
  BY BeheadFacts
<1>7. Fetch(Behead(in, m)) = EOF /\ Behead(in, 1) = in
  <2>1. m \in 1 .. m /\ 1 \in 1 .. m
    BY <1>2
  <2> QED BY <2>1, BeheadFacts
<1> HIDE DEF k
<1>8. m \in ends
  <2>1. m \in 1 .. m /\ m - 1 \in 0 .. m
    BY <1>2
  <2>2. k[m - 1] \in Makings /\ EOF \in Chars
    BY <1>3, <2>1 DEF EOF, Chars
  <2>3. k[m] = NumberStep(k[m - 1], EOF)
    BY <1>5, <1>7, <2>1
  <2>4. NumberStep(k[m - 1], EOF).phase \in {"unget", "swallow"}
    BY <2>2, NumberSteps
  <2> HIDE DEF m
  <2> QED BY <2>1, <2>3, <2>4
<1>9. 1 \notin ends
  <2>1. k[1] = NumberStep(NewNumber, Fetch(in))
    <3>1. 1 \in 1 .. m /\ 1 - 1 = 0
      BY <1>2
    <3> HIDE DEF m
    <3> QED BY <1>4, <1>5, <1>7, <3>1
  <2>2. Fetch(in) \in Chars
    BY FetchRest
  <2>3. NumberStep(NewNumber, Fetch(in)).phase \notin {"unget", "swallow"}
    BY <2>2, NewNumberFacts, NumberSteps
  <2> QED BY <2>1, <2>3
<1>10. last \in ends
  <2>1. ends \in SUBSET Nat /\ ends # {}
    BY <1>8
  <2> HIDE DEF ends
  <2>2. \E n \in ends : \A j \in ends : n <= j
    BY <2>1, FirstExists
  <2> QED BY <2>2
<1> HIDE DEF last
<1>11. last \in 1 .. m /\ last # 1
  BY <1>9, <1>10
<1>12. left \in Bytes /\ Len(left) = m - last
  <2>1. last \in 1 .. (Len(in) + 1)
    BY <1>11
  <2> QED BY <2>1, BeheadFacts
<1> HIDE DEF left
<1>13. after \in Bytes /\ Len(after) <= Len(left)
  <2>1. Rest(left) \in Bytes /\ Len(Rest(left)) <= Len(left)
    <3>1. Rest(left) \in Bytes
      BY <1>12, FetchRest
    <3>2. left = <<>> => Len(Rest(left)) = 0 /\ Len(left) = 0
      BY <1>12, FetchRest
    <3>3. left # <<>> => Len(Rest(left)) = Len(left) - 1 /\ Len(left) > 0
      BY <1>12, FetchRest
    <3>4. Len(left) \in Nat
      BY <1>12 DEF Bytes
    <3> QED BY <3>1, <3>2, <3>3, <3>4
  <2>2. Peeked(left) \in Bytes /\ Len(Peeked(left)) <= Len(left)
    BY <1>12, PeekedFacts
  <2> QED BY <2>1, <2>2
<1> HIDE DEF after
<1>14. Len(after) < Len(in)
  <2>1. Len(after) \in Nat
    BY <1>13 DEF Bytes
  <2> QED BY <1>2, <1>11, <1>12, <1>13, <2>1
<1>15. Number(k[last]) \in Numbers
  <2>1. k[last] \in Makings
    BY <1>2, <1>3, <1>11
  <2> QED BY <2>1, NumberIsNumber
<1> QED BY <1>1, <1>13, <1>14, <1>15 DEF Done

\* null, true and false take at least two characters (argo_read_basic).
LEMMA ReadBasic ==
    ASSUME NEW in \in Bytes
    PROVE  LET read == argo_read_basic(in)
           IN  /\ read \in [ok : BOOLEAN, value : Bytes, in : Bytes]
               /\ read.ok => Len(read.in) + 1 < Len(in)
<1> DEFINE found == {t \in {ARGO_NULL_TOKEN, ARGO_TRUE_TOKEN, ARGO_FALSE_TOKEN} : IsPrefix(t, in)}
           t == CHOOSE t \in found : TRUE
           left == SubSeq(in, Len(t) + 1, Len(in))
<1>1. argo_read_basic(in) = IF found = {} THEN Wrong(in) ELSE Done(t, left)
  BY DEF argo_read_basic
<1>2. CASE found = {}
  BY <1>1, <1>2 DEF Wrong, Bytes
<1>3. CASE found # {}
  <2>1. t \in found
    BY <1>3
  <2>2. IsPrefix(t, in) /\ t \in {ARGO_NULL_TOKEN, ARGO_TRUE_TOKEN, ARGO_FALSE_TOKEN}
    BY <2>1
  <2> HIDE DEF t
  <2>3. t \in Bytes /\ Len(t) \in 4 .. 5
    <3>1. ARGO_NULL_TOKEN \in Bytes /\ Len(ARGO_NULL_TOKEN) = 4
      BY DEF ARGO_NULL_TOKEN, Bytes, Byte
    <3>2. ARGO_TRUE_TOKEN \in Bytes /\ Len(ARGO_TRUE_TOKEN) = 4
      BY DEF ARGO_TRUE_TOKEN, Bytes, Byte
    <3>3. ARGO_FALSE_TOKEN \in Bytes /\ Len(ARGO_FALSE_TOKEN) = 5
      BY DEF ARGO_FALSE_TOKEN, Bytes, Byte
    <3> QED BY <2>2, <3>1, <3>2, <3>3
  <2>4. Len(t) <= Len(in)
    BY <2>2 DEF IsPrefix
  <2>5. Len(in) \in Nat
    BY DEF Bytes
  <2>6. left \in Bytes /\ Len(left) = Len(in) - Len(t)
    BY <2>3, <2>4, <2>5 DEF Bytes
  <2> HIDE DEF found, left
  <2>7. Len(left) + 1 < Len(in)
    <3> DEFINE a == Len(t)
               b == Len(in)
               c == Len(left)
    <3>1. a \in 4 .. 5 /\ b \in Nat /\ c = b - a
      <4>1. a \in 4 .. 5
        BY <2>3
      <4>2. b \in Nat
        BY <2>5
      <4>3. c = b - a
        BY <2>6
      <4> QED BY <4>1, <4>2, <4>3
    <3> HIDE DEF a, b, c
    <3>2. c + 1 < b
      BY <3>1
    <3> QED BY <3>2 DEF b, c
  <2>8. argo_read_basic(in) = Done(t, left)
    BY <1>1, <1>3 DEF t
  <2>9. Done(t, left) = [ok |-> TRUE, value |-> t, in |-> left]
    BY DEF Done
  <2> QED BY <2>3, <2>6, <2>7, <2>8, <2>9
<1> QED BY <1>2, <1>3

-----------------------------------------------------------------------------
(* Values, and the bytes they are written as. *)

Types == {"none", "array", "object", "string", "number", "basic"}
Scalars == {"string", "number", "basic"}
Values == [type : Types, name : Seq(Int), string : Seq(Int), number : Numbers,
           basic : Bytes, list : Nat, next : Slots, prev : Slots]

\* A slot that was never written is a value of no type.
LEMMA NewValue == Value \in Values /\ Value.type = Untyped
<1>1. <<>> \in Digits /\ <<>> \in Seq(Int) /\ <<>> \in Bytes
  BY DEF Digits, Bytes
<1>2. Decimal(<<>>, 0) \in Decimals
  BY <1>1, DecimalFacts
<1>3. 0 \in Slots
  BY StorageAssumption DEF Slots
<1> DEFINE zero == Decimal(<<>>, 0)
<1>4. Value = [type |-> Untyped, name |-> <<>>, string |-> <<>>,
               number |-> [isInt |-> FALSE, sign |-> 1, value |-> zero],
               basic |-> <<>>, list |-> 0, next |-> 0, prev |-> 0]
  BY DEF Value
<1>5. zero \in Decimals
  BY <1>2
<1> HIDE DEF zero
<1>6. [isInt |-> FALSE, sign |-> 1, value |-> zero] \in Numbers
  BY <1>5 DEF Numbers
<1> QED BY <1>1, <1>3, <1>4, <1>6 DEF Values, Types, Untyped

\* What the readers of strings, numbers and basic values leave.
LEMMA ScalarFacts ==
    ASSUME stdin \in Bytes, Call.c \in Chars, NEW type \in Scalars, Begins(type, Call.c),
           NEW v \in Values
    PROVE  LET read == Scalar(type, v)
           IN  /\ read.ok \in BOOLEAN
               /\ read.in \in Bytes
               /\ read.ok => /\ Len(read.in) <= Len(stdin)
                             /\ type # "number" => Len(read.in) < Len(stdin)
               /\ read.value \in Values /\ read.value.type = type
               /\ read.value.next = v.next /\ read.value.prev = v.prev /\ read.value.list = v.list
               /\ read.value.name = v.name
<1> DEFINE given == Unget(Call.c, stdin)
<1>1. CASE type = "string"
  <2> DEFINE read == argo_read_string(v.string, stdin)
  <2>1. v.string \in Seq(Int)
    BY DEF Values
  <2>2. read \in Reads /\ (read.ok => Len(read.in) < Len(stdin))
    BY <2>1, ReadString
  <2>3. Scalar(type, v) = [read EXCEPT !.value = [v EXCEPT !.type = type, !.string = read.value]]
    BY <1>1 DEF Scalar
  <2> HIDE DEF read
  <2>4. Scalar(type, v) = [ok |-> read.ok, value |-> [v EXCEPT !.type = type, !.string = read.value],
                           in |-> read.in]
    BY <2>2, <2>3 DEF Reads
  <2>5. [v EXCEPT !.type = type, !.string = read.value] \in Values
    BY <1>1, <2>2 DEF Values, Reads, Types
  <2>6. Len(stdin) \in Nat /\ Len(read.in) \in Nat
    BY <2>2 DEF Reads, Bytes
  <2>7. read.ok => Len(read.in) <= Len(stdin)
    BY <2>2, <2>6
  <2> DEFINE w == [v EXCEPT !.type = type, !.string = read.value]
  <2>8. w.type = type /\ w.next = v.next /\ w.prev = v.prev /\ w.list = v.list /\ w.name = v.name
    BY DEF Values
  <2>9. w \in Values /\ Scalar(type, v) = [ok |-> read.ok, value |-> w, in |-> read.in]
    BY <2>4, <2>5
  <2>10. read.ok \in BOOLEAN /\ read.in \in Bytes
    BY <2>2 DEF Reads
  <2> HIDE DEF w
  <2> QED BY <1>1, <2>2, <2>7, <2>8, <2>9, <2>10
<1>2. ASSUME type \in {"number", "basic"}
      PROVE  Call.c # EOF /\ given \in Bytes /\ Len(given) = Len(stdin) + 1 /\ Fetch(given) = Call.c
  <2>1. Call.c # EOF
    <3>1. CASE type = "number"
      BY <3>1 DEF Begins, EOF, argo_is_digit, ARGO_MINUS
    <3>2. CASE type = "basic"
      BY <3>2 DEF Begins, EOF, ARGO_N, ARGO_T, ARGO_F
    <3> QED BY <1>2, <3>1, <3>2
  <2> QED BY <2>1, UngetFacts
<1>3. CASE type = "number"
  <2> DEFINE read == argo_read_number(given)
  <2>1. argo_is_digit(Fetch(given)) \/ Fetch(given) = ARGO_MINUS
    BY <1>2, <1>3 DEF Begins
  <2>2. read \in [ok : BOOLEAN, value : Numbers, in : Bytes] /\ Len(read.in) < Len(given)
    BY <1>2, <1>3, <2>1, ReadNumber
  <2>3. Scalar(type, v) = [read EXCEPT !.value = [v EXCEPT !.type = type, !.number = read.value]]
    BY <1>3 DEF Scalar
  <2> HIDE DEF read
  <2>4. Scalar(type, v) = [ok |-> read.ok, value |-> [v EXCEPT !.type = type, !.number = read.value],
                           in |-> read.in]
    BY <2>2, <2>3
  <2>5. [v EXCEPT !.type = type, !.number = read.value] \in Values
    BY <1>3, <2>2 DEF Values, Types
  <2>6. Len(stdin) \in Nat /\ Len(read.in) \in Nat
    BY <2>2 DEF Bytes
  <2>7. Len(read.in) <= Len(stdin)
    BY <1>2, <1>3, <2>2, <2>6
  <2> DEFINE w == [v EXCEPT !.type = type, !.number = read.value]
  <2>8. w.type = type /\ w.next = v.next /\ w.prev = v.prev /\ w.list = v.list /\ w.name = v.name
    BY DEF Values
  <2>9. w \in Values /\ Scalar(type, v) = [ok |-> read.ok, value |-> w, in |-> read.in]
    BY <2>4, <2>5
  <2>10. read.ok \in BOOLEAN /\ read.in \in Bytes
    BY <2>2
  <2> HIDE DEF w
  <2> QED BY <1>3, <2>2, <2>7, <2>8, <2>9, <2>10
<1>4. CASE type = "basic"
  <2> DEFINE read == argo_read_basic(given)
  <2>1. read \in [ok : BOOLEAN, value : Bytes, in : Bytes] /\ (read.ok => Len(read.in) + 1 < Len(given))
    BY <1>2, <1>4, ReadBasic
  <2>2. Scalar(type, v) = [read EXCEPT !.value = [v EXCEPT !.type = type, !.basic = read.value]]
    BY <1>4 DEF Scalar
  <2> HIDE DEF read
  <2>3. Scalar(type, v) = [ok |-> read.ok, value |-> [v EXCEPT !.type = type, !.basic = read.value],
                           in |-> read.in]
    BY <2>1, <2>2
  <2>4. [v EXCEPT !.type = type, !.basic = read.value] \in Values
    BY <1>4, <2>1 DEF Values, Types
  <2>5. Len(stdin) \in Nat /\ Len(read.in) \in Nat
    BY <2>1 DEF Bytes
  <2>6. read.ok => Len(read.in) <= Len(stdin) /\ Len(read.in) < Len(stdin)
    BY <1>2, <1>4, <2>1, <2>5
  <2> DEFINE w == [v EXCEPT !.type = type, !.basic = read.value]
  <2>7. w.type = type /\ w.next = v.next /\ w.prev = v.prev /\ w.list = v.list /\ w.name = v.name
    BY DEF Values
  <2>8. w \in Values /\ Scalar(type, v) = [ok |-> read.ok, value |-> w, in |-> read.in]
    BY <2>3, <2>4
  <2>9. read.ok \in BOOLEAN /\ read.in \in Bytes
    BY <2>1
  <2> HIDE DEF w
  <2> QED BY <1>4, <2>1, <2>6, <2>7, <2>8, <2>9
<1> QED BY <1>1, <1>3, <1>4 DEF Scalars

\* The hexadecimal digits that are written are bytes.
LEMMA HexBytes ==
    ASSUME NEW c \in Int
    PROVE  Hex(c) \in Bytes
<1>1. \A n \in 0 .. 15 : HexDigit(n) \in Byte
  BY DEF HexDigit, Byte
<1>2. \A n \in Int : n % 16 \in 0 .. 15
  OBVIOUS
<1>3. \A n \in Int : HexDigit(n % 16) \in Byte
  BY <1>1, <1>2
<1>4. (c + 256) \div 16 \in Int /\ c + 256 \in Int /\ c \div 4096 \in Int /\ c \div 256 \in Int
      /\ c \div 16 \in Int
  OBVIOUS
<1> DEFINE a == HexDigit(((c + 256) \div 16) % 16)
           b == HexDigit((c + 256) % 16)
           d == HexDigit((c \div 4096) % 16)
           e == HexDigit((c \div 256) % 16)
           f == HexDigit((c \div 16) % 16)
           g == HexDigit(c % 16)
<1>5. a \in Byte /\ b \in Byte /\ d \in Byte /\ e \in Byte /\ f \in Byte /\ g \in Byte
  BY <1>3, <1>4
<1>6. Hex(c) = IF c < 0 THEN <<102, 102, 102, 102, 102, 102>> \o <<a, b>> ELSE <<d, e, f, g>>
  BY DEF Hex
<1> HIDE DEF a, b, d, e, f, g
<1>7. <<102, 102, 102, 102, 102, 102>> \in Bytes
  BY DEF Bytes, Byte
<1>8. <<a, b>> \in Bytes /\ <<d, e, f, g>> \in Bytes
  BY <1>5 DEF Bytes
<1>9. <<102, 102, 102, 102, 102, 102>> \o <<a, b>> \in Bytes
  BY <1>7, <1>8 DEF Bytes
<1> QED BY <1>6, <1>8, <1>9

\* A character is written as bytes, escaped or not.
LEMMA WriteCharBytes ==
    ASSUME NEW c \in Int
    PROVE  WriteChar(c) \in Bytes
<1> DEFINE letters == {e \in DOMAIN Escaped : Escaped[e] = c}
           letter == CHOOSE e \in letters : TRUE
<1>1. WriteChar(c) =
        CASE letters # {} -> <<ARGO_BSLASH, letter>>
          [] letters = {} /\ (c < 32 \/ c > 255) -> <<ARGO_BSLASH, ARGO_U>> \o Hex(c)
          [] OTHER -> <<c>>
  BY DEF WriteChar
<1>2. letters # {} => letter \in DOMAIN Escaped
  OBVIOUS
<1>3. DOMAIN Escaped \subseteq Byte
  BY DEF Escaped, Byte, ARGO_B, ARGO_F, ARGO_N, ARGO_R, ARGO_T, ARGO_QUOTE, ARGO_BSLASH
<1> HIDE DEF letters, letter
<1>4. letters # {} => <<ARGO_BSLASH, letter>> \in Bytes
  BY <1>2, <1>3 DEF ARGO_BSLASH, Bytes, Byte
<1>5. <<ARGO_BSLASH, ARGO_U>> \o Hex(c) \in Bytes
  <2>1. <<ARGO_BSLASH, ARGO_U>> \in Bytes
    BY DEF ARGO_BSLASH, ARGO_U, Bytes, Byte
  <2>2. Hex(c) \in Bytes
    BY HexBytes
  <2> QED BY <2>1, <2>2 DEF Bytes
<1>6. ~(c < 32 \/ c > 255) => <<c>> \in Bytes
  BY DEF Bytes, Byte
<1>7. CASE letters # {}
  BY <1>1, <1>4, <1>7
<1>8. CASE letters = {} /\ (c < 32 \/ c > 255)
  BY <1>1, <1>5, <1>8
<1>9. CASE letters = {} /\ ~(c < 32 \/ c > 255)
  BY <1>1, <1>6, <1>9
<1> QED BY <1>7, <1>8, <1>9

\* A string is written as bytes (argo_write_string).
LEMMA WriteStringBytes ==
    ASSUME NEW s \in Seq(Int)
    PROVE  argo_write_string(s) \in Bytes
<1> DEFINE m == Len(s)
           I == 0 .. m
           rank == [n \in I |-> n]
           E(n, f) == IF n = 0 THEN <<ARGO_QUOTE>> ELSE f[n - 1] \o WriteChar(s[n])
           H == [n \in I |-> [f \in [I -> Bytes] |-> E(n, f)]]
           upto == CHOOSE g : g = [n \in I |-> E(n, g)]
<1>1. m \in Nat
  OBVIOUS
<1>2. rank \in [I -> Nat] /\ \A n \in I : rank[n] = n /\ rank[n] < m + 1
  BY <1>1
<1>3. <<ARGO_QUOTE>> \in Bytes
  BY DEF ARGO_QUOTE, Bytes, Byte
<1>4. \A n \in I : n # 0 => n \in 1 .. m /\ n - 1 \in I
  BY <1>1
<1>5. ASSUME NEW n \in I, NEW f \in [I -> Bytes] PROVE E(n, f) \in Bytes
  <2>1. CASE n = 0
    BY <1>3, <2>1
  <2>2. CASE n # 0
    <3>1. f[n - 1] \in Bytes
      BY <1>4, <2>2
    <3>2. s[n] \in Int
      BY <1>4, <2>2
    <3>3. WriteChar(s[n]) \in Bytes
      BY <3>2, WriteCharBytes
    <3>4. f[n - 1] \o WriteChar(s[n]) \in Bytes
      BY <3>1, <3>3 DEF Bytes
    <3> QED BY <2>2, <3>4
  <2> QED BY <2>1, <2>2
<1>6. \A n \in I : \A f, g : (n # 0 => f[n - 1] = g[n - 1]) => E(n, f) = E(n, g)
  OBVIOUS
<1>7. argo_write_string(s) = Append(upto[m], ARGO_QUOTE)
  BY DEF argo_write_string
<1> HIDE DEF E, rank
<1>8. H \in [I -> [[I -> Bytes] -> Bytes]] /\ \A n \in I : \A f \in [I -> Bytes] : H[n][f] = E(n, f)
  BY <1>5
<1>9. \A n \in I : n # 0 => n - 1 \in I /\ rank[n - 1] < rank[n]
  BY <1>2, <1>4
<1>10. m \in I
  BY <1>1
<1> HIDE DEF H, I
<1>11. Recursive(I, Bytes, rank, H)
  <2>1. m + 1 \in Nat
    BY <1>1
  <2>2. \A n \in I : \A f, g \in [I -> Bytes] :
          (\A k \in I : rank[k] < rank[n] => f[k] = g[k]) => H[n][f] = H[n][g]
    BY <1>6, <1>8, <1>9
  <2> HIDE DEF m
  <2> QED BY <1>2, <1>3, <1>8, <2>1, <2>2 DEF Recursive
<1>12. PICK f \in [I -> Bytes] : \A n \in I : f[n] = H[n][f]
  BY <1>11, Recursion DEF Solvable
<1>13. f = [n \in I |-> E(n, f)]
  <2>1. \A n \in I : f[n] = E(n, f)
    BY <1>8, <1>12
  <2> QED BY <1>12, <2>1
<1>14. upto = [n \in I |-> E(n, upto)]
  <2> DEFINE F(g) == [n \in I |-> E(n, g)]
  <2>1. f = F(f) /\ upto = CHOOSE g : g = F(g)
    BY <1>13
  <2> HIDE DEF F, upto
  <2>2. upto = F(upto)
    BY <2>1, Zenon
  <2> QED BY <2>2 DEF F
<1> HIDE DEF upto
<1>15. \A n \in I : upto[n] = E(n, upto)
  BY <1>14
<1>16. \A n \in I : f[n] = upto[n]
  <2>1. ASSUME NEW n \in I, \A k \in I : rank[k] < rank[n] => f[k] = upto[k]
        PROVE  f[n] = upto[n]
    <3>1. n # 0 => f[n - 1] = upto[n - 1]
      BY <1>9, <2>1
    <3>2. E(n, f) = E(n, upto)
      BY <1>6, <3>1
    <3> QED BY <1>8, <1>12, <1>15, <3>2
  <2>2. Agreeing(I, rank, f, upto)
    BY <1>2, <2>1 DEF Agreeing
  <2> QED BY <2>2, Agreement
<1>17. upto[m] \in Bytes
  BY <1>12, <1>16, <1>10
<1>18. Append(upto[m], ARGO_QUOTE) \in Bytes
  BY <1>17 DEF Bytes, Byte, ARGO_QUOTE
<1> QED BY <1>7, <1>18

\* "%ld" of an exponent.
LEMMA ShownBytes ==
    ASSUME NEW m \in Nat
    PROVE  Shown(m) \in Bytes
<1> DEFINE I == 0 .. m
           rank == [i \in I |-> i]
           E(i, f) == IF i < 10 THEN <<48 + i>> ELSE Append(f[i \div 10], 48 + (i % 10))
           H == [i \in I |-> [f \in [I -> Bytes] |-> E(i, f)]]
           shown == CHOOSE g : g = [i \in I |-> E(i, g)]
<1>1. rank \in [I -> Nat] /\ \A i \in I : rank[i] = i /\ rank[i] < m + 1
  OBVIOUS
<1>2. \A i \in I : ~(i < 10) => i \div 10 \in I /\ i \div 10 < i
  OBVIOUS
<1>3. ASSUME NEW i \in I, NEW f \in [I -> Bytes] PROVE E(i, f) \in Bytes
  <2>1. CASE i < 10
    <3>1. 48 + i \in Byte
      BY <2>1 DEF Byte
    <3> QED BY <2>1, <3>1 DEF Bytes
  <2>2. CASE ~(i < 10)
    <3>1. f[i \div 10] \in Bytes
      BY <1>2, <2>2
    <3>2. 48 + (i % 10) \in Byte
      BY DEF Byte
    <3> DEFINE a == f[i \div 10]
               b == 48 + (i % 10)
    <3>3. a \in Bytes /\ b \in Byte
      BY <3>1, <3>2
    <3>4. E(i, f) = Append(a, b)
      BY <2>2
    <3> HIDE DEF a, b, E
    <3> QED BY <3>3, <3>4 DEF Bytes
  <2> QED BY <2>1, <2>2
<1>4. \A i \in I : \A f, g : (~(i < 10) => f[i \div 10] = g[i \div 10]) => E(i, f) = E(i, g)
  OBVIOUS
<1>5. Shown(m) = shown[m]
  BY DEF Shown
<1>6. \A i \in I : ~(i < 10) => i \div 10 \in I /\ rank[i \div 10] < rank[i]
  BY <1>1, <1>2
<1> HIDE DEF E, rank
<1>7. H \in [I -> [[I -> Bytes] -> Bytes]] /\ \A n \in I : \A f \in [I -> Bytes] : H[n][f] = E(n, f)
  BY <1>3
<1>8. m \in I /\ m + 1 \in Nat /\ Bytes # {}
  <2>1. <<>> \in Bytes
    BY DEF Bytes
  <2> QED BY <2>1
<1> HIDE DEF H, I
<1>9. Recursive(I, Bytes, rank, H)
  <2>1. \A n \in I : \A f, g \in [I -> Bytes] :
          (\A k \in I : rank[k] < rank[n] => f[k] = g[k]) => H[n][f] = H[n][g]
    BY <1>4, <1>7, <1>6
  <2> QED BY <1>1, <1>7, <1>8, <2>1 DEF Recursive
<1>10. PICK f \in [I -> Bytes] : \A n \in I : f[n] = H[n][f]
  BY <1>9, Recursion DEF Solvable
<1>11. f = [n \in I |-> E(n, f)]
  <2>1. \A n \in I : f[n] = E(n, f)
    BY <1>7, <1>10
  <2> QED BY <1>10, <2>1
<1>12. shown = [n \in I |-> E(n, shown)]
  <2> DEFINE F(g) == [n \in I |-> E(n, g)]
  <2>1. f = F(f) /\ shown = CHOOSE g : g = F(g)
    BY <1>11
  <2> HIDE DEF F, shown
  <2>2. shown = F(shown)
    BY <2>1, Zenon
  <2> QED BY <2>2 DEF F
<1> HIDE DEF shown
<1>13. \A n \in I : shown[n] = E(n, shown)
  BY <1>12
<1>14. \A n \in I : f[n] = shown[n]
  <2>1. ASSUME NEW n \in I, \A k \in I : rank[k] < rank[n] => f[k] = shown[k]
        PROVE  f[n] = shown[n]
    <3>1. ~(n < 10) => f[n \div 10] = shown[n \div 10]
      BY <1>6, <2>1
    <3>2. E(n, f) = E(n, shown)
      BY <1>4, <3>1
    <3> QED BY <1>7, <1>10, <1>13, <3>2
  <2>2. Agreeing(I, rank, f, shown)
    BY <1>1, <2>1 DEF Agreeing
  <2> QED BY <2>2, Agreement
<1> QED BY <1>5, <1>10, <1>14, <1>8

\* Bytes behind bytes are bytes.
LEMMA JoinedBytes ==
    ASSUME NEW a \in Bytes, NEW b \in Bytes
    PROVE  a \o b \in Bytes
  BY DEF Bytes

\* Digits are written as bytes.
LEMMA AsciiBytes ==
    ASSUME NEW ds \in Digits
    PROVE  Ascii(ds) \in Bytes
<1>1. DOMAIN ds = 1 .. Len(ds) /\ Len(ds) \in Nat /\ \A i \in 1 .. Len(ds) : ds[i] \in 0 .. 9
  BY DEF Digits
<1>2. \A i \in 1 .. Len(ds) : ds[i] + 48 \in Byte
  <2>1. \A d \in 0 .. 9 : d + 48 \in Byte
    BY DEF Byte
  <2> QED BY <1>1, <2>1
<1>3. Ascii(ds) = [i \in 1 .. Len(ds) |-> ds[i] + 48]
  BY <1>1 DEF Ascii
<1> QED BY <1>1, <1>2, <1>3 DEF Bytes

\* The same element again and again is a sequence.
LEMMA ConstantSeq ==
    ASSUME NEW n \in Int, NEW S, NEW e \in S
    PROVE  [i \in 1 .. n |-> e] \in Seq(S)
<1>1. CASE n \in Nat
  BY <1>1
<1>2. CASE n \notin Nat
  <2>1. 1 .. n = 1 .. 0
    BY <1>2
  <2>2. [i \in 1 .. 0 |-> e] \in Seq(S)
    OBVIOUS
  <2> QED BY <2>1, <2>2
<1> QED BY <1>1, <1>2

\* Zeros are digits.
LEMMA ZerosDigits ==
    ASSUME NEW n \in Int
    PROVE  Zeros(n) \in Digits
<1>1. 0 \in 0 .. 9
  OBVIOUS
<1> QED BY <1>1, ConstantSeq DEF Zeros, Digits

\* The digits behind the point are written as bytes.
LEMMA FractionBytes ==
    ASSUME NEW ds \in Digits
    PROVE  ShownFraction(ds) \in Bytes
<1>1. <<48, ARGO_PERIOD>> \in Bytes
  BY DEF ARGO_PERIOD, Bytes, Byte
<1>2. Ascii(ds) \in Bytes
  BY AsciiBytes
<1> QED BY <1>1, <1>2, JoinedBytes DEF ShownFraction

\* The digits before the point are written as bytes.
LEMMA WholeBytes ==
    ASSUME NEW d \in Decimals
    PROVE  ShownWhole(d) \in Bytes
<1>1. d.digits \in Digits /\ d.point \in Int
  BY DEF Decimals
<1>2. d.point - Len(d.digits) \in Int
  BY <1>1 DEF Digits
<1>3. Zeros(d.point - Len(d.digits)) \in Digits
  BY <1>2, ZerosDigits
<1>4. d.digits \o Zeros(d.point - Len(d.digits)) \in Digits
  BY <1>1, <1>3 DEF Digits
<1>5. Ascii(d.digits \o Zeros(d.point - Len(d.digits))) \in Bytes
  BY <1>4, AsciiBytes
<1>6. <<48>> \in Bytes
  BY DEF Bytes, Byte
<1> QED BY <1>5, <1>6 DEF ShownWhole

\* A number with a fraction is written as bytes (argo_write_number).
LEMMA FloatBytes ==
    ASSUME NEW sign \in {-1, 1}, NEW d \in Decimals
    PROVE  WriteFloat(sign, d) \in Bytes
<1> DEFINE minus == IF sign < 0 THEN <<ARGO_MINUS>> ELSE <<>>
           atTenth == sign < 0 /\ d.digits = <<1>>
           exponent == IF atTenth THEN 1 - d.point ELSE -d.point
           one == <<49, ARGO_PERIOD, 48>>
           large == minus \o ShownFraction(d.digits) \o <<ARGO_E>> \o Shown(d.point)
           mantissa == IF atTenth THEN one ELSE ShownFraction(d.digits)
           near == minus \o ShownFraction(Zeros(-d.point) \o d.digits)
           small == minus \o mantissa \o <<ARGO_E, ARGO_MINUS>> \o Shown(exponent)
<1>1. WriteFloat(sign, d) =
      CASE d.digits = <<>> -> <<48, ARGO_PERIOD, 48>>
          [] d = One -> minus \o one
          [] d.digits # <<>> /\ d # One /\ d.point >= 1 -> large
          [] d.digits # <<>> /\ d.point < 1 /\ exponent = 1 -> near
          [] OTHER -> small
  BY DEF WriteFloat
<1>2. d.digits \in Digits /\ d.point \in Int
  BY DEF Decimals
<1>3. d = One => d.digits # <<>> /\ d.point >= 1
  BY DEF One
<1>4. minus \in Bytes /\ one \in Bytes /\ <<48, ARGO_PERIOD, 48>> \in Bytes
      /\ <<ARGO_E>> \in Bytes /\ <<ARGO_E, ARGO_MINUS>> \in Bytes
  <2>1. <<ARGO_MINUS>> \in Bytes /\ <<>> \in Bytes
    BY DEF Bytes, Byte, ARGO_MINUS
  <2>2. one \in Bytes
    BY DEF Bytes, Byte, ARGO_PERIOD
  <2>3. <<48, ARGO_PERIOD, 48>> \in Bytes
    BY DEF Bytes, Byte, ARGO_PERIOD
  <2>4. <<ARGO_E>> \in Bytes
    BY DEF Bytes, Byte, ARGO_E
  <2>5. <<ARGO_E, ARGO_MINUS>> \in Bytes
    BY DEF Bytes, Byte, ARGO_E, ARGO_MINUS
  <2>6. minus \in Bytes
    BY <2>1
  <2> QED BY <2>2, <2>3, <2>4, <2>5, <2>6
<1>5. ShownFraction(d.digits) \in Bytes
  BY <1>2, FractionBytes
<1>6. near \in Bytes
  <2>1. Zeros(-d.point) \in Digits
    BY <1>2, ZerosDigits
  <2>2. Zeros(-d.point) \o d.digits \in Digits
    BY <1>2, <2>1 DEF Digits
  <2>3. ShownFraction(Zeros(-d.point) \o d.digits) \in Bytes
    BY <2>2, FractionBytes
  <2> HIDE DEF minus
  <2> QED BY <1>4, <2>3, JoinedBytes
<1>7. d.point >= 1 => large \in Bytes
  <2> SUFFICES ASSUME d.point >= 1 PROVE large \in Bytes
    OBVIOUS
  <2>1. d.point \in Nat
    BY <1>2
  <2>2. Shown(d.point) \in Bytes
    BY <2>1, ShownBytes
  <2> HIDE DEF minus
  <2>3. minus \o ShownFraction(d.digits) \in Bytes
    BY <1>4, <1>5, JoinedBytes
  <2>4. minus \o ShownFraction(d.digits) \o <<ARGO_E>> \in Bytes
    BY <1>4, <2>3, JoinedBytes
  <2> QED BY <2>2, <2>4, JoinedBytes
<1>8. d.point < 1 => small \in Bytes
  <2> SUFFICES ASSUME d.point < 1 PROVE small \in Bytes
    OBVIOUS
  <2>1. exponent \in Nat
    BY <1>2
  <2>2. Shown(exponent) \in Bytes
    BY <2>1, ShownBytes
  <2>3. mantissa \in Bytes
    BY <1>4, <1>5
  <2> HIDE DEF minus, mantissa, exponent
  <2>4. minus \o mantissa \in Bytes
    BY <1>4, <2>3, JoinedBytes
  <2>5. minus \o mantissa \o <<ARGO_E, ARGO_MINUS>> \in Bytes
    BY <1>4, <2>4, JoinedBytes
  <2> QED BY <2>2, <2>5, JoinedBytes
<1>9. minus \o one \in Bytes
  <2> HIDE DEF minus, one
  <2> QED BY <1>4, JoinedBytes
<1> HIDE DEF minus, one, large, small, near, exponent
<1>10. CASE d.digits = <<>>
  BY <1>1, <1>3, <1>4, <1>10
<1>11. CASE d = One
  <2>1. ~(d.digits # <<>> /\ d.point < 1 /\ exponent = 1)
    BY <1>2, <1>3, <1>11
  <2> QED BY <1>1, <1>3, <1>9, <1>11, <2>1
<1>12. CASE d.digits # <<>> /\ d # One /\ d.point >= 1
  <2>1. ~(d.point < 1)
    BY <1>2, <1>12
  <2> QED BY <1>1, <1>7, <1>12, <2>1
<1>13. CASE d.digits # <<>> /\ d # One /\ d.point < 1
  <2>1. ~(d.point >= 1)
    BY <1>2, <1>13
  <2> QED BY <1>1, <1>6, <1>8, <1>13, <2>1
<1> QED BY <1>2, <1>10, <1>11, <1>12, <1>13

\* A number is written as bytes (argo_write_number).
LEMMA NumberBytes ==
    ASSUME NEW n \in Numbers
    PROVE  argo_write_number(n) \in Bytes
<1>1. n.sign \in {-1, 1} /\ n.value \in Decimals
  BY DEF Numbers
<1>2. WriteFloat(n.sign, n.value) \in Bytes /\ ShownWhole(n.value) \in Bytes
  BY <1>1, FloatBytes, WholeBytes
<1> DEFINE minus == IF n.sign < 0 /\ n.value.digits # <<>> THEN <<ARGO_MINUS>> ELSE <<>>
<1>3. minus \in Bytes
  <2>1. <<ARGO_MINUS>> \in Bytes /\ <<>> \in Bytes
    BY DEF Bytes, Byte, ARGO_MINUS
  <2> QED BY <2>1
<1>4. argo_write_number(n) = IF n.isInt THEN minus \o ShownWhole(n.value) ELSE WriteFloat(n.sign, n.value)
  BY DEF argo_write_number
<1> HIDE DEF minus
<1>5. minus \o ShownWhole(n.value) \in Bytes
  BY <1>2, <1>3, JoinedBytes
<1> QED BY <1>2, <1>4, <1>5

\* A value without elements is written as bytes.
LEMMA WrittenBytes ==
    ASSUME NEW v \in Values
    PROVE  Written(v) \in Bytes /\ argo_write_string(v.name) \in Bytes
<1>1. v.string \in Seq(Int) /\ v.number \in Numbers /\ v.basic \in Bytes /\ v.name \in Seq(Int)
  BY DEF Values
<1>2. argo_write_string(v.string) \in Bytes /\ argo_write_string(v.name) \in Bytes
  BY <1>1, WriteStringBytes
<1>3. argo_write_number(v.number) \in Bytes
  BY <1>1, NumberBytes
<1>4. argo_write_basic(v.basic) \in Bytes
  BY <1>1 DEF argo_write_basic
<1>5. <<>> \in Bytes
  BY DEF Bytes
<1> QED BY <1>2, <1>3, <1>4, <1>5 DEF Written

\* White space that is written is bytes (indent).
LEMMA IndentBytes ==
    ASSUME NEW n \in Int, options.indent \in Int
    PROVE  indent(n) \in Bytes /\ Newline \in Bytes
<1> DEFINE width == (n + 1) * options.indent
<1>1. width \in Int
  OBVIOUS
<1> HIDE DEF width
<1>2. ARGO_SPACE \in Byte /\ <<ARGO_LF>> \in Bytes /\ <<>> \in Bytes
  BY DEF ARGO_SPACE, ARGO_LF, Bytes, Byte
<1>3. [i \in 1 .. width |-> ARGO_SPACE] \in Bytes
  BY <1>1, <1>2, ConstantSeq DEF Bytes
<1>4. <<ARGO_LF>> \o [i \in 1 .. width |-> ARGO_SPACE] \in Bytes
  BY <1>2, <1>3, JoinedBytes
<1> QED BY <1>2, <1>4 DEF indent, Newline, width

-----------------------------------------------------------------------------
(* The variables. *)

ReadCalls == [fn : {"value", "array", "object"}, sent : Nat, last : Slots, c : Chars,
              at : {"first", "loop", "test", "nested"}, from : 1 .. 6]
WriteCalls == [fn : Containers, head : Slots]
Options == [do : {"none", "usage", "help", "validate", "canonicalize", "pretty"}, indent : Nat]
Storages == [Slots -> Values]

CallsOK ==
    /\ pc \in {"read", "overrun"} => calls \in Seq(ReadCalls)
    /\ pc = "write" => calls \in Seq(WriteCalls)
    /\ pc \in {"main", "exit"} => calls = <<>>

ResultOK ==
    /\ result \in {"none", "storage", "null"}
    /\ pc \in {"main", "read", "overrun"} => result = "none"
    /\ pc = "write" => result = "storage"

\* A run begins with everything as the loader left it.
Begun ==
    pc = "main" => /\ argo_value_storage = [i \in Slots |-> Value] /\ argo_next_value = 0
                   /\ stdin = Text /\ turns = 0 /\ values = 0

\* The types of the variables.
TypeOK ==
    /\ input \in Inputs /\ argv \in Argvs /\ options \in Options
    /\ pc \in {"main", "read", "write", "exit", "overrun"}
    /\ stdin \in Bytes /\ stdout \in Bytes /\ earlier.stdout \in Bytes
    /\ argo_value_storage \in Storages /\ argo_next_value \in Slots
    /\ level \in Int /\ values \in Nat /\ turns \in Nat
    /\ CallsOK /\ ResultOK /\ Begun

\* The stack of the reader: argo_read_value, and a container in each other.
StackOK ==
    pc = "read" =>
        /\ calls # <<>>
        /\ \A k \in DOMAIN calls :
              /\ calls[k].fn = "value" <=> k = 1
              /\ k < Len(calls) => calls[k].at = "nested"
              /\ calls[k].fn = "value" => calls[k].at \in {"loop", "nested"}
              /\ calls[k].at = "nested" => calls[k].from \in 1 .. 2
              /\ k > 1 /\ calls[k].at = "first" => calls[k].sent = argo_next_value + 1
              /\ k > 1 /\ calls[k].at # "first" => calls[k].sent \in 1 .. argo_next_value
              /\ \A j \in 2 .. (k - 1) : calls[j].sent < calls[k].sent

\* The list of a container is the slot behind it, which is there but for the
\* container that is about to be opened.
ContainerLists ==
    pc # "overrun" =>
        \A i \in Slots : argo_value_storage[i].type \in Containers =>
            /\ argo_value_storage[i].list = i + 1
            /\ i + 1 \in Slots \/ (pc = "read" /\ Call.at = "first" /\ i = argo_next_value)

\* The text of a run is bytes: the input, or what the first run wrote.
LEMMA TextIsBytes ==
    ASSUME TypeOK
    PROVE  Text \in Bytes /\ Len(Text) \in Nat
<1>1. input.text \in Bytes
  BY InputAssumption DEF TypeOK, Bytes, Byte
<1>2. earlier.stdout \in Bytes
  BY DEF TypeOK
<1>3. Text \in Bytes
  BY <1>1, <1>2 DEF Text
<1> QED BY <1>3 DEF Bytes

\* The slots are the first natural numbers.
LEMMA SlotsFacts ==
    /\ 0 \in Slots
    /\ \A i \in Slots : i \in Nat
    /\ \A i \in Slots : \A j \in Nat : j <= i => j \in Slots
    /\ \A i \in Nat : i \notin Slots => NUM_ARGO_VALUES <= i
  BY StorageAssumption DEF Slots

\* Two slots that are linked: one `next` and one `prev` change, nothing else.
LEMMA LinkFacts ==
    ASSUME NEW st \in Storages, NEW a \in Slots, NEW b \in Slots
    PROVE  /\ link(st, a, b) \in Storages
           /\ Linked(st, link(st, a, b), a, b)
           /\ \A i \in Slots : link(st, a, b)[i].list = st[i].list
<1> DEFINE mid == [st EXCEPT ![a] = [st[a] EXCEPT !.prev = b]]
           out == [mid EXCEPT ![b] = [mid[b] EXCEPT !.next = a]]
<1>1. link(st, a, b) = out
  BY DEF link
<1>2. \A v \in Values : /\ [v EXCEPT !.prev = b] \in Values
                        /\ [v EXCEPT !.prev = b].prev = b /\ [v EXCEPT !.prev = b].next = v.next
                        /\ [v EXCEPT !.prev = b].type = v.type /\ [v EXCEPT !.prev = b].list = v.list
  BY DEF Values
<1>3. \A v \in Values : /\ [v EXCEPT !.next = a] \in Values
                        /\ [v EXCEPT !.next = a].next = a /\ [v EXCEPT !.next = a].prev = v.prev
                        /\ [v EXCEPT !.next = a].type = v.type /\ [v EXCEPT !.next = a].list = v.list
  BY DEF Values
<1>4. mid \in Storages /\ \A i \in Slots : mid[i] = IF i = a THEN [st[a] EXCEPT !.prev = b] ELSE st[i]
  BY <1>2 DEF Storages
<1> HIDE DEF mid
<1>5. out \in Storages /\ \A i \in Slots : out[i] = IF i = b THEN [mid[b] EXCEPT !.next = a] ELSE mid[i]
  BY <1>3, <1>4 DEF Storages
<1> HIDE DEF out
<1>6. ASSUME NEW i \in Slots
      PROVE  /\ out[i].type = st[i].type /\ out[i].list = st[i].list
             /\ out[i].next = IF i = b THEN a ELSE st[i].next
             /\ out[i].prev = IF i = a THEN b ELSE st[i].prev
  <2>1. st[i] \in Values /\ st[a] \in Values /\ mid[b] \in Values /\ mid[i] \in Values
    BY <1>4 DEF Storages
  <2>2. /\ mid[i].type = st[i].type /\ mid[i].list = st[i].list /\ mid[i].next = st[i].next
        /\ mid[i].prev = IF i = a THEN b ELSE st[i].prev
    <3>1. CASE i = a
      <4>1. mid[i] = [st[i] EXCEPT !.prev = b]
        BY <1>4, <3>1
      <4> QED BY <1>2, <2>1, <3>1, <4>1
    <3>2. CASE i # a
      BY <1>4, <3>2
    <3> QED BY <3>1, <3>2
  <2>3. CASE i = b
    <3>1. out[i] = [mid[i] EXCEPT !.next = a]
      BY <1>5, <2>3
    <3> QED BY <1>3, <2>1, <2>2, <2>3, <3>1
  <2>4. CASE i # b
    BY <1>5, <2>2, <2>4
  <2> QED BY <2>3, <2>4
<1> QED BY <1>1, <1>5, <1>6 DEF Linked

-----------------------------------------------------------------------------
(* The stack. *)

\* The call on top of a stack: replaced, or returned from.
LEMMA TopCall ==
    ASSUME NEW S, NEW cs \in Seq(S), cs # <<>>
    PROVE  /\ Len(cs) \in Nat \ {0} /\ Last(cs) = cs[Len(cs)] /\ Last(cs) \in S
           /\ \A c \in S : /\ [cs EXCEPT ![Len(cs)] = c] \in Seq(S)
                           /\ Len([cs EXCEPT ![Len(cs)] = c]) = Len(cs)
                           /\ [cs EXCEPT ![Len(cs)] = c] # <<>>
                           /\ \A k \in 1 .. Len(cs) :
                                 [cs EXCEPT ![Len(cs)] = c][k] = IF k = Len(cs) THEN c ELSE cs[k]
           /\ Front(cs) \in Seq(S) /\ Len(Front(cs)) = Len(cs) - 1
           /\ \A k \in 1 .. (Len(cs) - 1) : Front(cs)[k] = cs[k]
<1>1. Len(cs) \in Nat \ {0}
  OBVIOUS
<1>2. Last(cs) = cs[Len(cs)] /\ Last(cs) \in S
  BY <1>1 DEF Last
<1>3. ASSUME NEW c \in S
      PROVE  /\ [cs EXCEPT ![Len(cs)] = c] \in Seq(S)
             /\ Len([cs EXCEPT ![Len(cs)] = c]) = Len(cs)
             /\ [cs EXCEPT ![Len(cs)] = c] # <<>>
             /\ \A k \in 1 .. Len(cs) :
                   [cs EXCEPT ![Len(cs)] = c][k] = IF k = Len(cs) THEN c ELSE cs[k]
  <2> DEFINE out == [cs EXCEPT ![Len(cs)] = c]
  <2>1. \A k \in 1 .. Len(cs) : out[k] = IF k = Len(cs) THEN c ELSE cs[k]
    OBVIOUS
  <2>2. out \in Seq(S) /\ Len(out) = Len(cs)
    BY ExceptSeq
  <2>3. out # <<>>
    BY <1>1, <2>2
  <2> QED BY <2>1, <2>2, <2>3
<1>4. Front(cs) = SubSeq(cs, 1, Len(cs) - 1)
  BY DEF Front
<1>5. Front(cs) \in Seq(S) /\ Len(Front(cs)) = Len(cs) - 1
      /\ \A k \in 1 .. (Len(cs) - 1) : Front(cs)[k] = cs[k]
  <2> DEFINE n == Len(cs) - 1
  <2>1. n \in 0 .. Len(cs) /\ n \in Nat
    BY <1>1
  <2> HIDE DEF n
  <2>2. SubSeq(cs, 1, n) \in Seq(S) /\ Len(SubSeq(cs, 1, n)) = n
    BY <2>1
  <2>3. \A k \in 1 .. n : SubSeq(cs, 1, n)[k] = cs[k]
    BY <2>1
  <2> QED BY <1>4, <2>2, <2>3 DEF n
<1> QED BY <1>1, <1>2, <1>3, <1>5

Top == pc = "read" /\ calls \in Seq(ReadCalls) /\ argo_next_value \in Nat /\ StackOK

\* What is known of the call that runs.
LEMMA TopFacts ==
    ASSUME Top
    PROVE  /\ calls # <<>> /\ DOMAIN calls = 1 .. Len(calls) /\ Len(calls) \in Nat \ {0}
           /\ Call = calls[Len(calls)] /\ Call \in ReadCalls
           /\ Call.fn = "value" <=> Len(calls) = 1
           /\ Call.fn = "value" => Call.at \in {"loop", "nested"}
           /\ Call.at = "nested" => Call.from \in 1 .. 2
           /\ Call.fn # "value" /\ Call.at # "first" => Call.sent \in 1 .. argo_next_value
           /\ Call.at = "first" => Call.sent = argo_next_value + 1
<1>1. calls # <<>> /\ calls \in Seq(ReadCalls)
  BY DEF Top, StackOK
<1>2. DOMAIN calls = 1 .. Len(calls) /\ Len(calls) \in Nat \ {0}
  BY <1>1
<1>3. Call = calls[Len(calls)] /\ Call \in ReadCalls
  BY <1>1, TopCall DEF Call
<1>4. Len(calls) \in DOMAIN calls /\ (Len(calls) # 1 => Len(calls) > 1)
  BY <1>2
<1> DEFINE k == Len(calls)
<1>5. /\ calls[k].fn = "value" <=> k = 1
      /\ calls[k].fn = "value" => calls[k].at \in {"loop", "nested"}
      /\ calls[k].at = "nested" => calls[k].from \in 1 .. 2
      /\ k > 1 /\ calls[k].at = "first" => calls[k].sent = argo_next_value + 1
      /\ k > 1 /\ calls[k].at # "first" => calls[k].sent \in 1 .. argo_next_value
  BY <1>4 DEF Top, StackOK
<1> QED BY <1>1, <1>2, <1>3, <1>4, <1>5

\* A call of the reader that goes on keeps the stack in order.
LEMMA StackReplaced ==
    ASSUME Top, NEW c2 \in ReadCalls, c2.fn = Call.fn, c2.sent = Call.sent,
           calls' = Replaced(c2), pc' = pc, argo_next_value' \in Nat,
           argo_next_value' >= argo_next_value,
           Call.at = "first" => argo_next_value' >= argo_next_value + 1,
           c2.at # "first", c2.fn = "value" => c2.at \in {"loop", "nested"},
           c2.at = "nested" => c2.from \in 1 .. 2
    PROVE  StackOK' /\ calls' \in Seq(ReadCalls) /\ Call' = c2 /\ Len(calls') = Len(calls)
           /\ \A k \in 1 .. (Len(calls) - 1) : calls'[k] = calls[k]
<1> DEFINE n == Len(calls)
<1>1. /\ calls # <<>> /\ DOMAIN calls = 1 .. n /\ n \in Nat \ {0}
      /\ Call = calls[n] /\ Call \in ReadCalls
      /\ Call.fn = "value" <=> n = 1
      /\ Call.fn # "value" /\ Call.at # "first" => Call.sent \in 1 .. argo_next_value
      /\ Call.at = "first" => Call.sent = argo_next_value + 1
  BY TopFacts
<1>2. calls \in Seq(ReadCalls) /\ argo_next_value \in Nat
  BY DEF Top
<1>3. calls' = [calls EXCEPT ![n] = c2]
  BY DEF Replaced
<1> DEFINE out == [calls EXCEPT ![n] = c2]
<1>4. out \in Seq(ReadCalls) /\ Len(out) = n /\ out # <<>>
  BY <1>1, <1>2, TopCall
<1>5. \A k \in 1 .. n : out[k] = IF k = n THEN c2 ELSE calls[k]
  BY <1>1, <1>2, TopCall
<1> HIDE DEF out
<1>6. DOMAIN out = 1 .. n
  BY <1>4
<1>7. n \in 1 .. n
  BY <1>1
<1>8. \A k \in 1 .. n : \A j \in 2 .. (k - 1) : j \in 1 .. n /\ j # n
  <2>1. n \in Nat
    BY <1>1
  <2> HIDE DEF n
  <2> QED BY <2>1
<1>9. \A k \in 1 .. (n - 1) : k \in 1 .. n /\ k # n
  <2>1. n \in Nat
    BY <1>1
  <2> HIDE DEF n
  <2> QED BY <2>1
<1>10. Last(out) = c2
  BY <1>4, <1>5, <1>7 DEF Last
<1>11. ASSUME NEW k \in 1 .. n
       PROVE  /\ out[k].fn = "value" <=> k = 1
              /\ k < n => out[k].at = "nested"
              /\ out[k].fn = "value" => out[k].at \in {"loop", "nested"}
              /\ out[k].at = "nested" => out[k].from \in 1 .. 2
              /\ k > 1 /\ out[k].at = "first" => out[k].sent = argo_next_value' + 1
              /\ k > 1 /\ out[k].at # "first" => out[k].sent \in 1 .. argo_next_value'
              /\ \A j \in 2 .. (k - 1) : out[j].sent < out[k].sent
  <2>1. /\ calls[k].fn = "value" <=> k = 1
        /\ k < n => calls[k].at = "nested"
        /\ calls[k].fn = "value" => calls[k].at \in {"loop", "nested"}
        /\ calls[k].at = "nested" => calls[k].from \in 1 .. 2
        /\ k > 1 /\ calls[k].at # "first" => calls[k].sent \in 1 .. argo_next_value
        /\ \A j \in 2 .. (k - 1) : calls[j].sent < calls[k].sent
    BY <1>1 DEF Top, StackOK
  <2>2. \A j \in 2 .. (k - 1) : out[j] = calls[j]
    BY <1>5, <1>8
  <2>3. CASE k = n
    <3>1. out[k] = c2 /\ calls[k] = Call
      BY <1>1, <1>5, <2>3
    <3>2. k > 1 => c2.sent \in 1 .. argo_next_value'
      BY <1>1, <1>2, <2>3
    <3> QED BY <1>1, <2>1, <2>2, <2>3, <3>1, <3>2
  <2>4. CASE k # n
    <3>1. k < n
      <4>1. n \in Nat
        BY <1>1
      <4> HIDE DEF n
      <4> QED BY <2>4, <4>1
    <3>2. out[k] = calls[k] /\ k < n
      BY <1>5, <2>4, <3>1
    <3>3. k > 1 => calls[k].sent \in 1 .. argo_next_value'
      BY <1>2, <2>1, <3>2
    <3> QED BY <2>1, <2>2, <3>2, <3>3
  <2> QED BY <2>3, <2>4
<1>12. StackOK'
  <2>1. calls' = out
    BY <1>3 DEF out
  <2> QED BY <1>4, <1>6, <1>11, <2>1 DEF StackOK
<1>13. Call' = c2
  BY <1>3, <1>10 DEF Call, out
<1>14. calls' \in Seq(ReadCalls) /\ Len(calls') = n /\ \A k \in 1 .. (n - 1) : calls'[k] = calls[k]
  <2> QED BY <1>3, <1>4, <1>5, <1>9 DEF out
<1> QED BY <1>12, <1>13, <1>14

\* A call of the reader that returns keeps the stack in order.
LEMMA StackReturned ==
    ASSUME Top, Call.fn # "value", calls' = Front(calls), pc' = pc,
           argo_next_value' \in Nat, argo_next_value' >= argo_next_value
    PROVE  StackOK' /\ calls' \in Seq(ReadCalls) /\ Call' = calls[Len(calls) - 1] /\ Call'.at = "nested"
           /\ Len(calls') = Len(calls) - 1 /\ Len(calls) > 1
           /\ \A k \in 1 .. (Len(calls) - 1) : calls'[k] = calls[k]
<1> DEFINE n == Len(calls) - 1
           out == Front(calls)
<1>1. calls # <<>> /\ DOMAIN calls = 1 .. (n + 1) /\ n \in Nat \ {0}
  BY TopFacts
<1>2. calls \in Seq(ReadCalls) /\ argo_next_value \in Nat
  BY DEF Top
<1>3. out \in Seq(ReadCalls) /\ Len(out) = n
  BY <1>1, <1>2, TopCall
<1>4. \A k \in 1 .. n : out[k] = calls[k]
  BY <1>1, <1>2, TopCall
<1> HIDE DEF out
<1>5. DOMAIN out = 1 .. n /\ out # <<>>
  BY <1>1, <1>3
<1>6. Last(out) = calls[n]
  BY <1>1, <1>3, <1>4 DEF Last
<1>7. ASSUME NEW k \in 1 .. n
      PROVE  /\ out[k].fn = "value" <=> k = 1
             /\ out[k].at = "nested"
             /\ out[k].at = "nested" => out[k].from \in 1 .. 2
             /\ k > 1 /\ out[k].at # "first" => out[k].sent \in 1 .. argo_next_value'
             /\ \A j \in 2 .. (k - 1) : out[j].sent < out[k].sent
  <2>1. k \in DOMAIN calls /\ k < Len(calls)
    BY <1>1
  <2>2. /\ calls[k].fn = "value" <=> k = 1
        /\ calls[k].at = "nested"
        /\ calls[k].at = "nested" => calls[k].from \in 1 .. 2
        /\ k > 1 /\ calls[k].at # "first" => calls[k].sent \in 1 .. argo_next_value
        /\ \A j \in 2 .. (k - 1) : calls[j].sent < calls[k].sent
    BY <2>1 DEF Top, StackOK
  <2>3. \A j \in 2 .. (k - 1) : out[j] = calls[j]
    BY <1>1, <1>4
  <2>4. k > 1 => calls[k].sent \in 1 .. argo_next_value'
    BY <1>2, <2>2
  <2> QED BY <1>4, <2>2, <2>3, <2>4
<1>8. StackOK'
  <2>1. \A k \in 1 .. n : out[k].at # "first"
    BY <1>7
  <2> QED BY <1>3, <1>5, <1>7, <2>1 DEF StackOK, out
<1>9. Call' = calls[n] /\ Call'.at = "nested"
  <2>1. n \in 1 .. n
    BY <1>1
  <2> QED BY <1>4, <1>6, <1>7, <2>1 DEF Call, out
<1> QED BY <1>1, <1>3, <1>4, <1>8, <1>9 DEF out

NewCall(type, n) == [fn |-> type, sent |-> n + 1, last |-> 0, c |-> EOF, at |-> "first", from |-> 1]

\* A call of the reader that makes another keeps the stack in order.
LEMMA StackNested ==
    ASSUME Top, NEW c2 \in ReadCalls, c2.fn = Call.fn, c2.sent = Call.sent, c2.at = "nested",
           NEW type \in Containers, calls' = Append(Replaced(c2), NewCall(type, argo_next_value)),
           pc' = pc, argo_next_value' = argo_next_value, Call.at # "first",
           c2.from \in 1 .. 2
    PROVE  StackOK' /\ calls' \in Seq(ReadCalls) /\ Call' = NewCall(type, argo_next_value)
           /\ Len(calls') = Len(calls) + 1 /\ calls'[Len(calls)] = c2
           /\ calls'[Len(calls) + 1] = NewCall(type, argo_next_value)
           /\ \A k \in 1 .. (Len(calls) - 1) : calls'[k] = calls[k]
<1> DEFINE n == Len(calls)
           new == NewCall(type, argo_next_value)
           mid == [calls EXCEPT ![n] = c2]
           out == Append(mid, new)
<1>1. /\ calls # <<>> /\ DOMAIN calls = 1 .. n /\ n \in Nat \ {0}
      /\ Call = calls[n] /\ Call \in ReadCalls
      /\ Call.fn = "value" <=> n = 1
      /\ Call.fn # "value" /\ Call.at # "first" => Call.sent \in 1 .. argo_next_value
  BY TopFacts
<1>2. calls \in Seq(ReadCalls) /\ argo_next_value \in Nat
  BY DEF Top
<1>3. calls' = out
  BY DEF Replaced
<1>4. mid \in Seq(ReadCalls) /\ Len(mid) = n
  BY <1>1, <1>2, TopCall
<1>5. \A k \in 1 .. n : mid[k] = IF k = n THEN c2 ELSE calls[k]
  BY <1>1, <1>2, TopCall
<1> HIDE DEF mid
<1>6. new \in ReadCalls
  BY <1>2, StorageAssumption DEF NewCall, ReadCalls, Containers, EOF, Chars, Slots
<1>7. new.fn = type /\ new.sent = argo_next_value + 1 /\ new.at = "first"
  BY DEF NewCall
<1> HIDE DEF new
<1>8. out \in Seq(ReadCalls) /\ Len(out) = n + 1 /\ out[n + 1] = new /\ \A k \in 1 .. n : out[k] = mid[k]
  BY <1>4, <1>6
<1> HIDE DEF out
<1>9. n \in 1 .. n /\ n \in Nat
  BY <1>1
<1>10. \A k \in 1 .. n : k # n => k < n
  <2> HIDE DEF n
  <2> QED BY <1>9
<1>11. \A k \in 1 .. (n - 1) : k \in 1 .. n /\ k # n
  <2> HIDE DEF n
  <2> QED BY <1>9
<1>12. \A k \in 1 .. n : k # n => out[k] = calls[k]
  BY <1>5, <1>8
<1>13. out[n] = c2
  BY <1>5, <1>8, <1>9
<1>14. DOMAIN out = 1 .. (n + 1) /\ out # <<>>
  BY <1>1, <1>8
<1>15. Last(out) = new
  BY <1>8 DEF Last
<1>16. ASSUME NEW k \in 1 .. (n + 1)
      PROVE  /\ out[k].fn = "value" <=> k = 1
             /\ k < n + 1 => out[k].at = "nested"
             /\ out[k].fn = "value" => out[k].at \in {"loop", "nested"}
             /\ out[k].at = "nested" => out[k].from \in 1 .. 2
             /\ k > 1 /\ out[k].at = "first" => out[k].sent = argo_next_value' + 1
             /\ k > 1 /\ out[k].at # "first" => out[k].sent \in 1 .. argo_next_value'
             /\ \A j \in 2 .. (k - 1) : out[j].sent < out[k].sent
  <2>1. \A j \in 1 .. n :
        /\ calls[j].fn = "value" <=> j = 1
        /\ j < n => calls[j].at = "nested"
        /\ calls[j].at = "nested" => calls[j].from \in 1 .. 2
        /\ j > 1 /\ calls[j].at # "first" => calls[j].sent \in 1 .. argo_next_value
        /\ \A i \in 2 .. (j - 1) : calls[i].sent < calls[j].sent
    BY <1>1 DEF Top, StackOK
  <2>2. \A j \in 2 .. n : out[j].sent = calls[j].sent /\ calls[j].sent \in 1 .. argo_next_value
    <3> TAKE j \in 2 .. n
    <3>1. j \in 1 .. n /\ j > 1
      BY <1>1
    <3>2. calls[j].at # "first"
      BY <1>1, <2>1, <3>1
    <3> QED BY <1>1, <1>5, <1>8, <2>1, <3>1, <3>2
  <2>3. CASE k = n + 1
    <3>1. out[k] = new
      BY <1>8, <2>3
    <3>2. \A j \in 2 .. (k - 1) : out[j].sent < new.sent
      BY <1>1, <1>2, <1>7, <2>2, <2>3
    <3> QED BY <1>1, <1>7, <2>3, <3>1, <3>2 DEF Containers
  <2>4. CASE k = n
    <3>1. out[k] = c2 /\ calls[k] = Call
      BY <1>1, <1>13, <2>4
    <3>2. k > 1 => c2.sent \in 1 .. argo_next_value'
      BY <1>1, <1>2, <2>4
    <3>3. \A j \in 2 .. (k - 1) : out[j].sent < out[k].sent
      BY <1>1, <2>1, <2>2, <2>4, <3>1
    <3> QED BY <1>1, <2>4, <3>1, <3>2, <3>3
  <2>5. CASE k < n
    <3>1. k \in 1 .. n /\ k # n /\ k < n + 1
      <4> HIDE DEF n
      <4> QED BY <1>9, <2>5
    <3>2. out[k] = calls[k] /\ k \in 1 .. n
      BY <1>12, <3>1
    <3>3. k > 1 => calls[k].sent \in 1 .. argo_next_value'
      BY <1>1, <2>1, <2>5, <3>2
    <3>4. \A j \in 2 .. (k - 1) : out[j].sent < out[k].sent
      BY <1>1, <2>1, <2>2, <2>5, <3>2
    <3>5. calls[k].at = "nested"
      BY <2>1, <2>5, <3>2
    <3> QED BY <2>1, <3>1, <3>2, <3>3, <3>4, <3>5
  <2>6. k = n + 1 \/ k = n \/ k < n
    <3> HIDE DEF n
    <3> QED BY <1>9
  <2> QED BY <2>3, <2>4, <2>5, <2>6
<1>17. StackOK'
  <2>1. pc' = "read" => calls' # <<>> /\ DOMAIN calls' = 1 .. (n + 1) /\ Len(calls') = n + 1
    BY <1>3, <1>8, <1>14
  <2> QED BY <1>3, <1>16, <2>1 DEF StackOK
<1>18. Call' = new
  BY <1>3, <1>15 DEF Call
<1>19. calls' \in Seq(ReadCalls) /\ Len(calls') = n + 1 /\ calls'[n] = c2 /\ calls'[n + 1] = new
  BY <1>3, <1>8, <1>13
<1>20. \A k \in 1 .. (n - 1) : calls'[k] = calls[k]
  BY <1>3, <1>11, <1>12
<1> QED BY <1>17, <1>18, <1>19, <1>20 DEF new

ReaderOK == TypeOK /\ StackOK /\ ContainerLists
Rd == ReaderOK /\ pc = "read"

\* The types of what the reader works on.
LEMMA RdFacts ==
    ASSUME Rd
    PROVE  /\ Top /\ pc = "read" /\ result = "none"
           /\ stdin \in Bytes /\ argo_value_storage \in Storages /\ argo_next_value \in Slots
           /\ argo_next_value \in Nat /\ values \in Nat /\ turns \in Nat
           /\ argo_value_storage[argo_next_value] \in Values
<1>1. calls \in Seq(ReadCalls) /\ result = "none"
  BY DEF Rd, ReaderOK, TypeOK, CallsOK, ResultOK
<1>2. argo_next_value \in Slots /\ argo_next_value \in Nat
  BY StorageAssumption DEF Rd, ReaderOK, TypeOK, Slots
<1>3. stdin \in Bytes /\ argo_value_storage \in Storages /\ values \in Nat /\ turns \in Nat
  BY DEF Rd, ReaderOK, TypeOK
<1>4. argo_value_storage[argo_next_value] \in Values
  BY <1>2, <1>3 DEF Storages
<1> QED BY <1>1, <1>2, <1>3, <1>4 DEF Top, Rd, ReaderOK

\* A step of the reader after which it goes on.
LEMMA TypeGoesOn ==
    ASSUME Rd, UNCHANGED <<chosen, level, stdout>>, turns' = turns + 1, values' \in Nat,
           GoesOn, calls' \in Seq(ReadCalls), stdin' \in Bytes,
           argo_value_storage' \in Storages, argo_next_value' \in Slots
    PROVE  TypeOK'
<1>1. pc = "read" /\ pc' = "read" /\ result' = "none" /\ turns' \in Nat
  BY RdFacts DEF GoesOn
<1> QED BY <1>1 DEF Rd, ReaderOK, TypeOK, CallsOK, ResultOK, Begun, chosen

\* A step after which it does not.
LEMMA TypeEnds ==
    ASSUME Rd, UNCHANGED <<chosen, level, stdout>>, turns' = turns + 1, values' \in Nat,
           \/ pc' = "exit" /\ calls' = <<>> /\ result' \in {"storage", "null"}
           \/ pc' = "write" /\ calls' = <<>> /\ result' = "storage"
           \/ pc' = "overrun" /\ calls' = calls /\ result' = result,
           UNCHANGED <<stdin, argo_value_storage, argo_next_value>>
    PROVE  TypeOK' /\ StackOK'
<1>1. pc = "read" /\ result = "none" /\ turns' \in Nat /\ calls \in Seq(ReadCalls)
      /\ <<>> \in Seq(WriteCalls)
  BY RdFacts DEF Top
<1> QED BY <1>1 DEF Rd, ReaderOK, TypeOK, CallsOK, ResultOK, Begun, chosen, StackOK

\* The lists of containers stay where they are when no container comes.
LEMMA ListsKept ==
    ASSUME Rd, argo_next_value' \in Slots,
           \A i \in Slots : /\ argo_value_storage'[i].type \in Containers =>
                                  /\ argo_value_storage[i].type \in Containers
                                  /\ argo_value_storage'[i].list = argo_value_storage[i].list,
           Call.at = "first" => pc' = "overrun" \/ argo_next_value + 1 \in Slots
    PROVE  ContainerLists'
<1> SUFFICES ASSUME pc' # "overrun", NEW i \in Slots, argo_value_storage'[i].type \in Containers
             PROVE  argo_value_storage'[i].list = i + 1 /\ i + 1 \in Slots
  BY DEF ContainerLists
<1>1. argo_value_storage[i].type \in Containers
      /\ argo_value_storage'[i].list = argo_value_storage[i].list
  OBVIOUS
<1>2. /\ argo_value_storage[i].list = i + 1
      /\ i + 1 \in Slots \/ (Call.at = "first" /\ i = argo_next_value)
  BY <1>1 DEF Rd, ReaderOK, ContainerLists
<1> QED BY <1>1, <1>2

-----------------------------------------------------------------------------
(* The tests of the loops. *)

\* The test that succeeds is the first of those left (the `if`s of a loop).
LEMMA ChosenFacts ==
    ASSUME NEW fn, NEW from \in 1 .. 6, NEW c
    PROVE  LET k == Chosen(fn, from, c)
           IN  /\ k \in from .. 6
               /\ k # 6 => Begins(Order(fn)[k], c)
               /\ \A j \in from .. 5 : j < k => ~Begins(Order(fn)[j], c)
<1> DEFINE hits == {k \in from .. 5 : Begins(Order(fn)[k], c)}
           k == Chosen(fn, from, c)
<1>1. k = IF hits = {} THEN 6 ELSE CHOOSE i \in hits : \A j \in hits : i <= j
  BY DEF Chosen
<1>2. CASE hits = {}
  <2>1. \A j \in from .. 5 : ~Begins(Order(fn)[j], c)
    BY <1>2
  <2>2. k = 6 /\ 6 \in from .. 6
    BY <1>1, <1>2
  <2> QED BY <2>1, <2>2
<1>3. CASE hits # {}
  <2>1. hits \in SUBSET Nat
    OBVIOUS
  <2>2. hits \in SUBSET (from .. 5)
    OBVIOUS
  <2>3. \A j \in from .. 5 : j \notin hits => ~Begins(Order(fn)[j], c)
    OBVIOUS
  <2>4. \A j \in hits : Begins(Order(fn)[j], c)
    OBVIOUS
  <2> HIDE DEF hits
  <2>5. \E i \in hits : \A j \in hits : i <= j
    BY <1>3, <2>1, FirstExists
  <2>6. k \in hits /\ \A j \in hits : k <= j
    BY <1>1, <1>3, <2>5
  <2> HIDE DEF k
  <2>7. k \in from .. 5
    BY <2>2, <2>6
  <2>8. \A j \in from .. 5 : j < k => j \notin hits
    BY <2>6, <2>7
  <2> QED BY <2>3, <2>4, <2>6, <2>7, <2>8 DEF k
<1> QED BY <1>2, <1>3

\* Containers are tested for before scalars.
LEMMA OrderFacts ==
    ASSUME NEW fn
    PROVE  /\ Order(fn)[1] \in Containers /\ Order(fn)[2] \in Containers
           /\ Order(fn)[3] = "string" /\ Order(fn)[4] = "number" /\ Order(fn)[5] = "basic"
  BY DEF Order, Containers

\* No value begins with the end of the input.
LEMMA BeginsNotEnd ==
    ASSUME NEW type \in Containers \cup Scalars
    PROVE  ~Begins(type, EOF)
<1>1. CASE type = "array"
  BY <1>1 DEF Begins, EOF, ARGO_LBRACK
<1>2. CASE type = "object"
  BY <1>2 DEF Begins, EOF, ARGO_LBRACE
<1>3. CASE type = "string"
  BY <1>3 DEF Begins, EOF, ARGO_QUOTE
<1>4. CASE type = "number"
  BY <1>4 DEF Begins, EOF, ARGO_MINUS, argo_is_digit
<1>5. CASE type = "basic"
  BY <1>5 DEF Begins, EOF, ARGO_N, ARGO_T, ARGO_F
<1> QED BY <1>1, <1>2, <1>3, <1>4, <1>5 DEF Containers, Scalars

\* What is known when the tests are about to be made.
LEMMA TestingFacts ==
    ASSUME Rd, NEW fns, Testing(fns)
    PROVE  /\ Call \in ReadCalls /\ Call.fn \in fns
           /\ \/ Call.at = "test" /\ Call.fn # "value"
              \/ Call.at = "loop" /\ Call.fn = "value" /\ Call.c # EOF
           /\ Choice \in Call.from .. 6 /\ Call.from \in 1 .. 6
           /\ Choice # 6 => Begins(Type, Call.c) /\ Call.c # EOF
           /\ Choice \in 1 .. 2 => Type \in Containers
           /\ Choice = 3 => Type = "string"
           /\ Choice = 4 => Type = "number"
           /\ Choice = 5 => Type = "basic"
<1>1. Call \in ReadCalls /\ (Call.fn = "value" => Call.at \in {"loop", "nested"})
  BY RdFacts, TopFacts
<1>2. Call.from \in 1 .. 6
  BY <1>1 DEF ReadCalls
<1>3. Choice \in Call.from .. 6 /\ (Choice # 6 => Begins(Type, Call.c))
  BY <1>2, ChosenFacts DEF Choice, Type
<1>4. \A type \in Containers \cup Scalars : ~Begins(type, EOF)
  BY BeginsNotEnd
<1>5. /\ Choice \in 1 .. 2 => Type \in Containers
      /\ Choice = 3 => Type = "string"
      /\ Choice = 4 => Type = "number"
      /\ Choice = 5 => Type = "basic"
  <2>1. Choice \in 1 .. 2 => Choice = 1 \/ Choice = 2
    OBVIOUS
  <2> QED BY <2>1, OrderFacts DEF Type
<1>6. Choice # 6 => Type \in Containers \cup Scalars
  <2>1. Choice # 6 => Choice \in 1 .. 2 \/ Choice = 3 \/ Choice = 4 \/ Choice = 5
    BY <1>2, <1>3
  <2> QED BY <1>5, <2>1 DEF Scalars
<1>7. Choice # 6 => Call.c # EOF
  BY <1>3, <1>4, <1>6
<1>8. /\ Call.fn \in fns
      /\ \/ Call.at = "test" /\ Call.fn # "value"
         \/ Call.at = "loop" /\ Call.fn = "value" /\ Call.c # EOF
  BY <1>1 DEF Testing, Reading
<1> QED BY <1>1, <1>2, <1>3, <1>5, <1>7, <1>8

\* The slots, and the turns, that the characters read so far would allow besides.
IndexSlack == 2 * (Len(Text) - Len(stdin)) - argo_next_value
TurnSlack == 5 * (Len(Text) - Len(stdin)) - argo_next_value - turns
Slack(i, t) == IndexSlack >= i /\ TurnSlack >= t

\* What is left of the slots and of the turns that the characters read so far
\* allow, wherever the reader is.
Budget ==
    pc = "read" =>
        /\ Call.at = "loop" =>
              /\ Slack(0, -1)
              /\ Call.c # EOF => Slack(2, 4)
              /\ Call.c # EOF /\ Call.fn # "value" /\ Call.c = CloserOf(Call.fn) => Slack(3, 6)
        /\ Call.at = "first" => Slack(2, 2)
        /\ Call.at = "nested" => Slack(3, 5)
        /\ Call.at = "test" => /\ Slack(1, 1)
                               /\ Call.from = 1 => Slack(1, 2) /\ (Call.c # EOF => Slack(2, 3))
                               /\ Call.from > 1 =>
                                     /\ Call.fn = "array" /\ Call.c # ARGO_RBRACK
                                     /\ Call.from <= 4 => Slack(2, 3)
                                     /\ Call.c = EOF /\ stdin # <<>> => Slack(1, 6)
                                     /\ Call.c # EOF => Fetch(stdin) = Call.c

\* What a step of the reader does to the slots and turns left: characters pay,
\* the index and the turn cost.
LEMMA SlackStep ==
    ASSUME Rd, UNCHANGED <<chosen, level, stdout>>, turns' = turns + 1,
           stdin' \in Bytes, argo_next_value' \in Nat
    PROVE  /\ IndexSlack \in Int /\ TurnSlack \in Int /\ Len(stdin) \in Nat /\ Len(stdin') \in Nat
           /\ IndexSlack' = IndexSlack + 2 * (Len(stdin) - Len(stdin')) - (argo_next_value' - argo_next_value)
           /\ TurnSlack' = TurnSlack + 5 * (Len(stdin) - Len(stdin')) - (argo_next_value' - argo_next_value) - 1
<1>1. Len(Text) \in Nat
  BY TextIsBytes DEF Rd, ReaderOK
<1>2. Text' = Text
  BY DEF Text, chosen
<1>3. Len(stdin) \in Nat /\ Len(stdin') \in Nat /\ argo_next_value \in Nat /\ turns \in Nat
  BY RdFacts DEF Bytes
<1> DEFINE l == Len(Text)
           a == Len(stdin)
           b == Len(stdin')
           n == argo_next_value
           m == argo_next_value'
           t == turns
           u == turns'
<1>4. l \in Nat /\ a \in Nat /\ b \in Nat /\ n \in Nat /\ m \in Nat /\ t \in Nat /\ u = t + 1
  BY <1>1, <1>3
<1>5. IndexSlack = 2 * (l - a) - n /\ TurnSlack = 5 * (l - a) - n - t
  BY DEF IndexSlack, TurnSlack
<1>6. IndexSlack' = 2 * (l - b) - m /\ TurnSlack' = 5 * (l - b) - m - u
  BY <1>2 DEF IndexSlack, TurnSlack
<1> HIDE DEF l, a, b, n, m, t, u
<1>7. IndexSlack \in Int /\ TurnSlack \in Int
  BY <1>4, <1>5
<1>8. IndexSlack' = IndexSlack + 2 * (a - b) - (m - n)
  BY <1>4, <1>5, <1>6
<1>9. TurnSlack' = TurnSlack + 5 * (a - b) - (m - n) - 1
  BY <1>4, <1>5, <1>6
<1> QED BY <1>3, <1>7, <1>8, <1>9 DEF a, b, n, m

-----------------------------------------------------------------------------
(* What comes behind a value. *)

\* The three ways on: the list ends; there is no slot; a slot is ready.
BehindCloses(st, in) ==
    /\ calls' = Front(calls) /\ argo_value_storage' = link(st, Call.sent, Call.last)
    /\ argo_next_value' = argo_next_value /\ GoesOn
    /\ stdin' \in Bytes /\ Len(stdin') < Len(in)
BehindOverruns ==
    /\ argo_next_value + 1 \notin Slots /\ Overruns
BehindGoesOn(st, in, previous, test, c2) ==
    /\ calls' = Replaced(c2) /\ c2.fn = Call.fn /\ c2.sent = Call.sent /\ c2.last = Call.last
    /\ argo_value_storage' = link(st, argo_next_value + 1, previous)
    /\ argo_next_value + 1 \in Slots /\ argo_next_value' = argo_next_value + 1 /\ GoesOn
    /\ stdin' \in Bytes /\ Len(stdin') <= Len(in)
    /\ Call.fn = "array" => /\ c2.at = "test" /\ c2.from = test + 1 /\ c2.c # ARGO_RBRACK
                            /\ c2.c = EOF => Len(stdin') = 0 \/ Len(stdin') < Len(in)
                            /\ c2.c # EOF => Fetch(stdin') = c2.c
    /\ Call.fn = "object" => /\ c2.at = "loop"
                             /\ c2.c # EOF => Len(stdin') < Len(in)

\* What is done behind a value is one of the three ways on.
LEMMA BehindFacts ==
    ASSUME Rd, Call.fn \in Containers, Call.at # "first",
           NEW st, NEW in \in Bytes, NEW previous, NEW spaces \in BOOLEAN,
           NEW test \in 1 .. 5, Behind(st, in, previous, spaces, test)
    PROVE  \/ BehindCloses(st, in)
           \/ BehindOverruns
           \/ \E c2 \in ReadCalls : BehindGoesOn(st, in, previous, test, c2)
<1> DEFINE run == RunLength(in, argo_is_whitespace)
           ahead == IF Call.fn = "object" /\ spaces THEN SubSeq(in, 1 + run, Len(in)) ELSE in
           c == Fetch(ahead)
           left == Peeked(ahead)
           top == argo_next_value + 1
<1>1. Len(in) \in Nat
  BY DEF Bytes
<1>2. ahead \in Bytes /\ Len(ahead) <= Len(in) /\ Len(ahead) \in Nat
  <2>1. run \in 0 .. Len(in)
    BY WhitespaceFacts
  <2> HIDE DEF run
  <2>2. SubSeq(in, 1 + run, Len(in)) \in Bytes /\ Len(SubSeq(in, 1 + run, Len(in))) = Len(in) - run
    BY <1>1, <2>1 DEF Bytes
  <2> QED BY <1>1, <2>1, <2>2
<1>3. CASE c = CloserOf(Call.fn)
  <2>1. calls' = Front(calls) /\ argo_value_storage' = link(st, Call.sent, Call.last)
        /\ argo_next_value' = argo_next_value /\ GoesOn /\ stdin' = Rest(ahead)
    BY <1>3 DEF Behind, ReturnsWith
  <2>2. c # EOF
    BY <1>3 DEF CloserOf, EOF, ARGO_RBRACK, ARGO_RBRACE
  <2> HIDE DEF ahead
  <2>3. Rest(ahead) \in Bytes
    BY <1>2, FetchRest
  <2>4. ahead # <<>>
    BY <1>2, <2>2, FetchRest
  <2>5. Len(Rest(ahead)) = Len(ahead) - 1
    BY <1>2, <2>4, FetchRest
  <2>6. Len(stdin') < Len(in)
    BY <1>1, <1>2, <2>1, <2>5
  <2> QED BY <2>1, <2>3, <2>6 DEF BehindCloses
<1>4. CASE c # CloserOf(Call.fn) /\ top \notin Slots
  BY <1>4 DEF Behind, BehindOverruns
<1>5. CASE c # CloserOf(Call.fn) /\ top \in Slots
  <2> DEFINE array == [Call EXCEPT !.c = c, !.at = "test", !.from = test + 1]
             object == [Call EXCEPT !.c = Fetch(left), !.at = "loop"]
  <2>1. /\ argo_next_value' = top
        /\ argo_value_storage' = link(st, top, previous)
        /\ GoesOn
        /\ IF Call.fn = "array" THEN calls' = Replaced(array) /\ stdin' = left
           ELSE calls' = Replaced(object) /\ stdin' = Rest(left)
    BY <1>5 DEF Behind
  <2> HIDE DEF ahead
  <2>2. Call \in ReadCalls
    BY RdFacts, TopFacts
  <2>3. c \in Chars
    BY <1>2, FetchRest
  <2>4. left \in Bytes /\ Len(left) <= Len(ahead)
    BY <1>2, PeekedFacts
  <2>5. /\ c # EOF => Len(left) = Len(ahead) /\ Fetch(left) = c
        /\ c = EOF /\ ahead # <<>> => Len(left) = Len(ahead) - 1
    BY <1>2, PeekedFacts
  <2>6. Len(left) \in Nat
    BY <2>4 DEF Bytes
  <2>7. CASE Call.fn = "array"
    <3> DEFINE call == Call
    <3>1. call \in ReadCalls /\ test + 1 \in 1 .. 6 /\ c \in Chars
      BY <2>2, <2>3
    <3> HIDE DEF call, c
    <3>2. [call EXCEPT !.c = c, !.at = "test", !.from = test + 1] \in ReadCalls
      BY <3>1 DEF ReadCalls
    <3>3. LET r == [call EXCEPT !.c = c, !.at = "test", !.from = test + 1]
          IN  /\ r.fn = call.fn /\ r.sent = call.sent /\ r.last = call.last
              /\ r.at = "test" /\ r.from = test + 1 /\ r.c = c
      BY <3>1 DEF ReadCalls
    <3>4. array \in ReadCalls /\ array.fn = Call.fn /\ array.sent = Call.sent /\ array.last = Call.last
          /\ array.at = "test" /\ array.from = test + 1 /\ array.c = c
      BY <3>2, <3>3 DEF call
    <3> USE DEF c
    <3>5. c # ARGO_RBRACK
      BY <1>5, <2>7 DEF CloserOf
    <3>6. c = EOF => Len(left) = 0 \/ Len(left) < Len(in)
      <4>1. ahead = <<>> => Len(ahead) = 0
        BY <1>2, FetchRest
      <4> QED BY <1>1, <1>2, <2>4, <2>5, <2>6, <4>1
    <3>7. Len(left) <= Len(in)
      BY <1>1, <1>2, <2>4, <2>6
    <3> HIDE DEF array, left, c
    <3>8. BehindGoesOn(st, in, previous, test, array)
      BY <1>5, <2>1, <2>4, <2>5, <2>7, <3>4, <3>5, <3>6, <3>7 DEF BehindGoesOn
    <3> QED BY <3>4, <3>8
  <2>8. CASE Call.fn = "object"
    <3> HIDE DEF left
    <3>1. Fetch(left) \in Chars /\ Rest(left) \in Bytes
      BY <2>4, FetchRest
    <3>2. object \in ReadCalls /\ object.fn = Call.fn /\ object.sent = Call.sent /\ object.last = Call.last
          /\ object.at = "loop" /\ object.c = Fetch(left)
      BY <2>2, <3>1 DEF ReadCalls
    <3>3. left = <<>> => Fetch(left) = EOF /\ Len(Rest(left)) = 0 /\ Len(left) = 0
      BY <2>4, FetchRest
    <3>4. left # <<>> => Len(Rest(left)) = Len(left) - 1 /\ Len(left) > 0
      BY <2>4, FetchRest
    <3>5. Len(Rest(left)) <= Len(in) /\ (Fetch(left) # EOF => Len(Rest(left)) < Len(in))
      BY <1>1, <1>2, <2>4, <2>6, <3>3, <3>4
    <3> HIDE DEF object
    <3>6. BehindGoesOn(st, in, previous, test, object)
      BY <1>5, <2>1, <2>8, <3>1, <3>2, <3>5 DEF BehindGoesOn
    <3> QED BY <3>2, <3>6
  <2> QED BY <2>7, <2>8 DEF Containers
<1> QED BY <1>3, <1>4, <1>5

\* The slots and turns left after a step that reads d characters and takes g slots.
LEMMA BudgetStep ==
    ASSUME Rd, UNCHANGED <<chosen, level, stdout>>, turns' = turns + 1,
           stdin' \in Bytes, argo_next_value' \in Nat,
           NEW i \in Int, NEW t \in Int, Slack(i, t), NEW d \in Int, NEW g \in Int,
           Len(stdin') + d <= Len(stdin), argo_next_value' = argo_next_value + g
    PROVE  /\ IndexSlack' \in Int /\ TurnSlack' \in Int
           /\ IndexSlack' >= i + 2 * d - g /\ TurnSlack' >= t + 5 * d - g - 1
<1>1. /\ IndexSlack \in Int /\ TurnSlack \in Int /\ Len(stdin) \in Nat /\ Len(stdin') \in Nat
      /\ IndexSlack' = IndexSlack + 2 * (Len(stdin) - Len(stdin')) - (argo_next_value' - argo_next_value)
      /\ TurnSlack' = TurnSlack + 5 * (Len(stdin) - Len(stdin')) - (argo_next_value' - argo_next_value) - 1
  BY SlackStep
<1>2. argo_next_value \in Nat /\ argo_next_value' - argo_next_value = g
  BY RdFacts
<1>3. IndexSlack >= i /\ TurnSlack >= t
  BY DEF Slack
<1> DEFINE a == IndexSlack
           b == TurnSlack
           a2 == IndexSlack'
           b2 == TurnSlack'
           l == Len(stdin)
           m == Len(stdin')
<1>4. a \in Int /\ b \in Int /\ l \in Nat /\ m \in Nat /\ a >= i /\ b >= t /\ m + d <= l
  BY <1>1, <1>3
<1>5. a2 = a + 2 * (l - m) - g /\ b2 = b + 5 * (l - m) - g - 1
  BY <1>1, <1>2
<1> HIDE DEF a, b, a2, b2, l, m
<1>6. a2 \in Int /\ b2 \in Int /\ a2 >= i + 2 * d - g /\ b2 >= t + 5 * d - g - 1
  BY <1>4, <1>5
<1> QED BY <1>6 DEF a2, b2

\* What is left at least, wherever the reader is.
LEMMA BudgetFloor ==
    ASSUME Rd, Budget
    PROVE  /\ Slack(0, -1)
           /\ Call.at = "first" => Slack(2, 2)
           /\ Call.at = "nested" => Slack(3, 5)
           /\ Call.at = "test" => Slack(1, 1)
<1>1. Call.at \in {"first", "loop", "test", "nested"}
  BY RdFacts, TopFacts DEF ReadCalls
<1>2. IndexSlack \in Int /\ TurnSlack \in Int
  <2>1. Len(Text) \in Nat
    BY TextIsBytes DEF Rd, ReaderOK
  <2>2. Len(stdin) \in Nat /\ argo_next_value \in Nat /\ turns \in Nat
    BY RdFacts DEF Bytes
  <2> QED BY <2>1, <2>2 DEF IndexSlack, TurnSlack
<1> QED BY <1>1, <1>2 DEF Rd, Budget, Slack

\* What is left of the budget when the reader ends.
Within == /\ pc = "overrun" => NUM_ARGO_VALUES <= 2 * Len(Text)
          /\ pc = "exit" /\ result # "storage" => turns <= 2 + TurnsPerCharacter * (1 + Len(Text))

\* An overrun needs an input half as long as the storage.
LEMMA OverrunWithin ==
    ASSUME Rd, UNCHANGED <<chosen, level, stdout>>, pc' = "overrun",
           NEW i \in Int, NEW g \in Int, g <= i, IndexSlack >= i, g >= 0, argo_next_value + g \notin Slots
    PROVE  Within' /\ Budget'
<1>1. Len(Text) \in Nat /\ Text' = Text
  BY TextIsBytes DEF Rd, ReaderOK, Text, chosen
<1>2. Len(stdin) \in Nat /\ argo_next_value \in Nat
  BY RdFacts DEF Bytes
<1>3. NUM_ARGO_VALUES <= argo_next_value + g /\ NUM_ARGO_VALUES \in Nat
  BY <1>2, SlotsFacts, StorageAssumption
<1>4. 2 * (Len(Text) - Len(stdin)) - argo_next_value >= i
  BY DEF IndexSlack
<1> DEFINE l == Len(Text)
           m == Len(stdin)
<1>5. l \in Nat /\ m \in Nat /\ 2 * (l - m) - argo_next_value >= i
  BY <1>1, <1>2, <1>4
<1> HIDE DEF l, m
<1>6. NUM_ARGO_VALUES <= 2 * l
  BY <1>2, <1>3, <1>5
<1> QED BY <1>1, <1>6 DEF Within, Budget, l

\* A read that fails does so within its turns.
LEMMA FailWithin ==
    ASSUME Rd, Budget, UNCHANGED <<chosen, level, stdout>>, turns' = turns + 1, pc' = "exit"
    PROVE  Within' /\ Budget'
<1>1. Len(Text) \in Nat /\ Text' = Text
  BY TextIsBytes DEF Rd, ReaderOK, Text, chosen
<1>2. Len(stdin) \in Nat /\ argo_next_value \in Nat /\ turns \in Nat
  BY RdFacts DEF Bytes
<1>3. 5 * (Len(Text) - Len(stdin)) - argo_next_value - turns >= -1
  BY BudgetFloor DEF Slack, TurnSlack
<1> DEFINE l == Len(Text)
           m == Len(stdin)
<1>4. l \in Nat /\ m \in Nat /\ 5 * (l - m) - argo_next_value - turns >= -1
  BY <1>1, <1>2, <1>3
<1> HIDE DEF l, m
<1>5. turns + 1 <= 2 + 5 * (1 + l)
  BY <1>2, <1>4
<1> QED BY <1>1, <1>5 DEF Within, Budget, l, TurnsPerCharacter

\* A step after which the reader goes on.
LEMMA WithinGoesOn ==
    ASSUME Rd, GoesOn
    PROVE  Within' /\ pc' = "read"
  BY DEF Rd, GoesOn, Within

ReaderStep == ReaderOK' /\ Budget' /\ Within'

\* The reader fails.
LEMMA FailsStep ==
    ASSUME Rd, Budget, Fails, UNCHANGED <<chosen, level, stdout>>, turns' = turns + 1,
           values' \in Nat, UNCHANGED <<stdin, argo_value_storage, argo_next_value>>,
           Call.at # "first"
    PROVE  ReaderStep
<1>1. TypeOK' /\ StackOK'
  BY TypeEnds DEF Fails
<1>2. ContainerLists'
  BY RdFacts, ListsKept
<1>3. Within' /\ Budget'
  BY FailWithin DEF Fails
<1> QED BY <1>1, <1>2, <1>3 DEF ReaderStep, ReaderOK

\* An overrun keeps the inductive invariant of the reader.
LEMMA OverrunStep ==
    ASSUME Rd, Overruns, UNCHANGED <<chosen, level, stdout>>, turns' = turns + 1,
           values' \in Nat,
           NEW i \in Int, NEW g \in Int, g <= i, IndexSlack >= i, g >= 0, argo_next_value + g \notin Slots
    PROVE  ReaderStep
<1>1. pc' = "overrun" /\ UNCHANGED <<stdin, argo_value_storage, argo_next_value, calls, result>>
  BY DEF Overruns, store
<1>2. TypeOK' /\ StackOK'
  BY <1>1, TypeEnds
<1>3. ContainerLists'
  BY <1>1 DEF ContainerLists
<1>4. Within' /\ Budget'
  BY <1>1, OverrunWithin
<1> QED BY <1>2, <1>3, <1>4 DEF ReaderStep, ReaderOK

\* The action EndOfInput keeps the types, the stack and the budget.
LEMMA EndOfInputStep ==
    ASSUME Rd, Budget, EndOfInput
    PROVE  ReaderStep
<1>1. /\ Fails /\ UNCHANGED <<chosen, level, stdout>> /\ turns' = turns + 1
      /\ values' \in Nat /\ UNCHANGED <<stdin, argo_value_storage, argo_next_value>>
      /\ Call.at # "first"
  BY RdFacts DEF EndOfInput, ReaderKeeps, Meets, Turned, store, Reading
<1> QED BY <1>1, FailsStep

\* The action Close keeps the types, the stack and the budget.
LEMMA CloseStep ==
    ASSUME Rd, Budget, Close
    PROVE  ReaderStep
<1>1. /\ GoesOn /\ UNCHANGED <<chosen, level, stdout>> /\ turns' = turns + 1
      /\ values' = values /\ stdin' = stdin /\ argo_next_value' = argo_next_value
      /\ argo_value_storage' = link(argo_value_storage, Call.sent, argo_next_value)
      /\ calls' = Front(calls) /\ Call.at = "loop" /\ Call.c = CloserOf(Call.fn)
      /\ Call.fn \in {"array", "object"}
  BY DEF Close, ReaderKeeps, Meets, Turned, ReturnsWith, Reading
<1>2. /\ Top /\ stdin \in Bytes /\ argo_value_storage \in Storages
      /\ argo_next_value \in Slots /\ argo_next_value \in Nat /\ values \in Nat
  BY RdFacts
<1>3. pc' = pc /\ pc' = "read" /\ Within'
  BY <1>1, WithinGoesOn DEF GoesOn
<1>4. /\ StackOK' /\ calls' \in Seq(ReadCalls) /\ Call'.at = "nested"
  BY <1>1, <1>2, <1>3, StackReturned
<1>5. Call.sent \in Slots
  <2>1. Call.sent \in 1 .. argo_next_value
    BY <1>1, <1>2, TopFacts
  <2> QED BY <1>2, <2>1, SlotsFacts
<1>6. argo_value_storage' \in Storages
      /\ \A i \in Slots : /\ argo_value_storage'[i].type = argo_value_storage[i].type
                          /\ argo_value_storage'[i].list = argo_value_storage[i].list
  <2> DEFINE st == argo_value_storage
             st2 == link(st, Call.sent, argo_next_value)
  <2>1. st \in Storages /\ argo_next_value \in Slots /\ Call.sent \in Slots
    BY <1>2, <1>5
  <2>2. st2 \in Storages /\ Linked(st, st2, Call.sent, argo_next_value)
        /\ \A i \in Slots : st2[i].list = st[i].list
    BY <2>1, LinkFacts
  <2> QED BY <1>1, <2>2 DEF Linked
<1>7. TypeOK'
  BY <1>1, <1>2, <1>4, <1>6, TypeGoesOn
<1>8. ContainerLists'
  BY <1>1, <1>2, <1>6, ListsKept
<1>9. Budget'
  <2>1. Slack(3, 6)
    <3>1. Call.c # EOF /\ Call.fn # "value"
      BY <1>1 DEF CloserOf, EOF, ARGO_RBRACK, ARGO_RBRACE
    <3> QED BY <1>1, <3>1 DEF Budget, Rd
  <2>2. Len(stdin') + 0 <= Len(stdin) /\ argo_next_value' = argo_next_value + 0
        /\ stdin' \in Bytes /\ argo_next_value' \in Nat
    BY <1>1, <1>2 DEF Bytes
  <2>3. IndexSlack' >= 3 /\ TurnSlack' >= 5
    <3>1. 3 \in Int /\ 6 \in Int /\ 0 \in Int
      OBVIOUS
    <3>2. IndexSlack' >= 3 + 2 * 0 - 0 /\ TurnSlack' >= 6 + 5 * 0 - 0 - 1
      BY <1>1, <2>1, <2>2, <3>1, BudgetStep, Zenon
    <3> QED BY <3>2
  <2> QED BY <1>4, <2>3 DEF Budget, Slack
<1> QED BY <1>3, <1>4, <1>7, <1>8, <1>9 DEF ReaderStep, ReaderOK

\* Every change the reader makes to a call gives a call.
LEMMA CallChanges ==
    ASSUME NEW call \in ReadCalls, NEW last \in Slots, NEW c \in Chars,
           NEW at \in {"first", "loop", "test", "nested"}, NEW from \in 1 .. 6
    PROVE  /\ [call EXCEPT !.last = last, !.at = at, !.from = from] \in ReadCalls
           /\ [call EXCEPT !.last = last, !.c = c] \in ReadCalls
           /\ [call EXCEPT !.last = last, !.c = c, !.at = at] \in ReadCalls
           /\ [call EXCEPT !.last = last, !.c = c, !.at = at, !.from = from] \in ReadCalls
           /\ [call EXCEPT !.at = at, !.from = from] \in ReadCalls
           /\ [call EXCEPT !.c = c, !.from = from, !.at = at] \in ReadCalls
           /\ [call EXCEPT !.c = c] \in ReadCalls
  BY DEF ReadCalls

\* The slots and turns left after a step that may read a character.
LEMMA BudgetNext ==
    ASSUME Rd, UNCHANGED <<chosen, level, stdout>>, turns' = turns + 1,
           stdin' \in Bytes, argo_next_value' \in Nat,
           NEW i \in Int, NEW t \in Int, Slack(i, t), NEW g \in Int,
           Len(stdin') <= Len(stdin), argo_next_value' = argo_next_value + g
    PROVE  /\ IndexSlack' \in Int /\ TurnSlack' \in Int
           /\ IndexSlack' >= i - g /\ TurnSlack' >= t - g - 1
           /\ Len(stdin') < Len(stdin) => IndexSlack' >= i + 2 - g /\ TurnSlack' >= t + 4 - g
<1>1. stdin \in Bytes /\ Len(stdin) \in Nat /\ Len(stdin') \in Nat
  BY RdFacts DEF Bytes
<1>2. 0 \in Int /\ 1 \in Int /\ Len(stdin') + 0 <= Len(stdin)
  BY <1>1
<1>3. /\ IndexSlack' \in Int /\ TurnSlack' \in Int
      /\ IndexSlack' >= i + 2 * 0 - g /\ TurnSlack' >= t + 5 * 0 - g - 1
  BY <1>2, BudgetStep, Zenon
<1>4. CASE Len(stdin') < Len(stdin)
  <2>1. Len(stdin') + 1 <= Len(stdin)
    BY <1>1, <1>4
  <2>2. IndexSlack' >= i + 2 * 1 - g /\ TurnSlack' >= t + 5 * 1 - g - 1
    BY <1>2, <2>1, BudgetStep, Zenon
  <2> QED BY <1>3, <1>4, <2>2
<1> QED BY <1>3, <1>4

\* The call on top goes on.
LEMMA StaysStep ==
    ASSUME Rd, UNCHANGED <<chosen, level, stdout>>, turns' = turns + 1, GoesOn, values' \in Nat,
           NEW c2 \in ReadCalls, c2.fn = Call.fn, c2.sent = Call.sent,
           calls' = Replaced(c2), c2.at \in {"loop", "test"}, c2.fn = "value" => c2.at = "loop",
           argo_next_value' \in Slots, argo_next_value' >= argo_next_value,
           Call.at = "first" => argo_next_value' >= argo_next_value + 1,
           stdin' \in Bytes, argo_value_storage' \in Storages,
           \A i \in Slots : argo_value_storage'[i].type \in Containers =>
                                  /\ argo_value_storage[i].type \in Containers
                                  /\ argo_value_storage'[i].list = argo_value_storage[i].list
    PROVE  ReaderOK' /\ Within' /\ Call' = c2 /\ pc' = "read"
<1>1. Top /\ argo_next_value \in Slots /\ argo_next_value \in Nat /\ argo_next_value' \in Nat
  BY RdFacts, SlotsFacts
<1>2. pc' = pc /\ pc' = "read" /\ Within'
  BY WithinGoesOn DEF GoesOn
<1>3. StackOK' /\ calls' \in Seq(ReadCalls) /\ Call' = c2
  BY <1>1, <1>2, StackReplaced
<1>4. TypeOK'
  BY <1>3, TypeGoesOn
<1>5. Call.at = "first" => argo_next_value + 1 \in Slots
  BY <1>1, SlotsFacts
<1>6. ContainerLists'
  BY <1>5, ListsKept
<1> QED BY <1>2, <1>3, <1>4, <1>6 DEF ReaderOK

\* The action Turn keeps the types, the stack and the budget.
LEMMA TurnStep ==
    ASSUME Rd, Budget, Turn
    PROVE  ReaderStep
<1> DEFINE c2 == [Call EXCEPT !.last = argo_next_value, !.at = "test", !.from = 1]
<1>1. /\ GoesOn /\ UNCHANGED <<chosen, level, stdout>> /\ turns' = turns + 1
      /\ values' = values /\ stdin' = stdin /\ argo_next_value' = argo_next_value
      /\ argo_value_storage' = argo_value_storage /\ calls' = Replaced(c2)
      /\ Call.at = "loop" /\ Call.c \notin {EOF, ARGO_RBRACK} /\ Call.fn = "array"
  BY DEF Turn, ReaderKeeps, Meets, Turned, Reading, store
<1>2. /\ Top /\ stdin \in Bytes /\ argo_value_storage \in Storages
      /\ argo_next_value \in Slots /\ argo_next_value \in Nat /\ values \in Nat
      /\ Call \in ReadCalls
  BY RdFacts, TopFacts
<1>3. c2 \in ReadCalls
  <2>1. 1 \in 1 .. 6 /\ "test" \in {"first", "loop", "test", "nested"} /\ Call.c \in Chars
    BY <1>2 DEF ReadCalls
  <2> QED BY <1>2, <2>1, CallChanges
<1>4. c2.fn = Call.fn /\ c2.sent = Call.sent /\ c2.at = "test" /\ c2.from = 1 /\ c2.c = Call.c
  BY <1>2 DEF ReadCalls
<1> HIDE DEF c2
<1>5. ReaderOK' /\ Within' /\ Call' = c2 /\ pc' = "read"
  <2>1. c2.fn # "value" /\ argo_next_value' >= argo_next_value /\ Call.at # "first"
    BY <1>1, <1>2, <1>4
  <2> QED BY <1>1, <1>2, <1>3, <1>4, <2>1, StaysStep
<1>6. Slack(2, 4)
  BY <1>1 DEF Budget, Rd
<1>7. IndexSlack' \in Int /\ TurnSlack' \in Int /\ IndexSlack' >= 2 /\ TurnSlack' >= 3
  <2>1. 2 \in Int /\ 4 \in Int /\ 0 \in Int /\ Len(stdin') <= Len(stdin)
        /\ argo_next_value' = argo_next_value + 0 /\ stdin' \in Bytes /\ argo_next_value' \in Nat
    BY <1>1, <1>2 DEF Bytes
  <2>2. IndexSlack' \in Int /\ TurnSlack' \in Int /\ IndexSlack' >= 2 - 0 /\ TurnSlack' >= 4 - 0 - 1
    BY <1>1, <1>6, <2>1, BudgetNext, Zenon
  <2> QED BY <2>2
<1>8. Budget'
  BY <1>4, <1>5, <1>7 DEF Budget, Slack
<1> QED BY <1>5, <1>8 DEF ReaderStep

\* The next character is fetched from what is left of the input.
LEMMA FetchedFacts ==
    ASSUME Rd, NEW in \in Bytes, Len(in) <= Len(stdin), stdin' = Rest(in)
    PROVE  /\ Fetch(in) \in Chars /\ stdin' \in Bytes /\ Len(stdin') <= Len(stdin)
           /\ Fetch(in) # EOF => Len(stdin') < Len(stdin)
<1>1. Len(stdin) \in Nat /\ Len(in) \in Nat
  BY RdFacts DEF Bytes
<1>2. Fetch(in) \in Chars /\ Rest(in) \in Bytes
  BY FetchRest
<1>3. in = <<>> => Fetch(in) = EOF /\ Len(Rest(in)) = 0 /\ Len(in) = 0
  BY FetchRest
<1>4. in # <<>> => Len(Rest(in)) = Len(in) - 1 /\ Len(in) > 0
  BY FetchRest
<1> DEFINE a == Len(stdin)
           b == Len(in)
           m == Len(Rest(in))
<1>5. a \in Nat /\ b \in Nat /\ b <= a /\ (in = <<>> => m = 0) /\ (in # <<>> => m = b - 1)
  BY <1>1, <1>3, <1>4
<1> HIDE DEF a, b, m
<1>6. m <= a /\ (in # <<>> => m < a)
  BY <1>5
<1> QED BY <1>2, <1>3, <1>6 DEF a, m

\* A character is fetched, and nothing of the storage is used up.
LEMMA FetchesStep ==
    ASSUME Rd, UNCHANGED <<chosen, level, stdout>>, turns' = turns + 1, argo_next_value' = argo_next_value,
           NEW in \in Bytes, Len(in) <= Len(stdin), stdin' = Rest(in),
           NEW i \in Int, NEW t \in Int, Slack(i, t)
    PROVE  /\ IndexSlack' \in Int /\ TurnSlack' \in Int
           /\ IndexSlack' >= i /\ TurnSlack' >= t - 1
           /\ Fetch(in) # EOF => IndexSlack' >= i + 2 /\ TurnSlack' >= t + 4
<1>1. /\ stdin' \in Bytes /\ Len(stdin') <= Len(stdin)
      /\ Fetch(in) # EOF => Len(stdin') < Len(stdin)
  BY FetchedFacts
<1>2. 0 \in Int /\ argo_next_value' = argo_next_value + 0 /\ argo_next_value' \in Nat
  BY RdFacts
<1>3. /\ IndexSlack' \in Int /\ TurnSlack' \in Int
      /\ IndexSlack' >= i - 0 /\ TurnSlack' >= t - 0 - 1
      /\ Len(stdin') < Len(stdin) => IndexSlack' >= i + 2 - 0 /\ TurnSlack' >= t + 4 - 0
  BY <1>1, <1>2, BudgetNext, Zenon
<1> QED BY <1>1, <1>3

\* The action Skip keeps the types, the stack and the budget.
LEMMA SkipStep ==
    ASSUME Rd, Budget, Skip
    PROVE  ReaderStep
<1> DEFINE c2 == [Call EXCEPT !.last = argo_next_value, !.c = Fetch(stdin)]
<1>1. /\ GoesOn /\ UNCHANGED <<chosen, level, stdout>> /\ turns' = turns + 1
      /\ values' = values /\ stdin' = Rest(stdin) /\ argo_next_value' = argo_next_value
      /\ argo_value_storage' = argo_value_storage /\ calls' = Replaced(c2)
      /\ Call.at = "loop" /\ Call.c # EOF /\ Call.fn = "object"
  BY DEF Skip, ReaderKeeps, Meets, Turned, Reading, store
<1>2. /\ Top /\ stdin \in Bytes /\ argo_value_storage \in Storages
      /\ argo_next_value \in Slots /\ argo_next_value \in Nat /\ values \in Nat
      /\ Call \in ReadCalls
  BY RdFacts, TopFacts
<1>3. Len(stdin) <= Len(stdin)
  BY <1>2 DEF Bytes
<1>4. Fetch(stdin) \in Chars /\ stdin' \in Bytes
  BY <1>1, <1>2, <1>3, FetchedFacts
<1>5. c2 \in ReadCalls
  <2>1. 1 \in 1 .. 6 /\ "test" \in {"first", "loop", "test", "nested"}
    OBVIOUS
  <2> QED BY <1>2, <1>4, <2>1, CallChanges
<1>6. c2.fn = Call.fn /\ c2.sent = Call.sent /\ c2.at = "loop" /\ c2.c = Fetch(stdin)
  BY <1>1, <1>2 DEF ReadCalls
<1> HIDE DEF c2
<1>7. ReaderOK' /\ Within' /\ Call' = c2 /\ pc' = "read"
  <2>1. argo_next_value' >= argo_next_value /\ Call.at # "first" /\ c2.at \in {"loop", "test"}
    BY <1>1, <1>2, <1>6
  <2> QED BY <1>1, <1>2, <1>4, <1>5, <1>6, <2>1, StaysStep
<1>8. Slack(2, 4)
  BY <1>1 DEF Budget, Rd
<1>9. /\ IndexSlack' \in Int /\ TurnSlack' \in Int /\ IndexSlack' >= 2 /\ TurnSlack' >= 3
      /\ Fetch(stdin) # EOF => IndexSlack' >= 4 /\ TurnSlack' >= 8
  <2>1. 2 \in Int /\ 4 \in Int
    OBVIOUS
  <2>2. /\ IndexSlack' \in Int /\ TurnSlack' \in Int
        /\ IndexSlack' >= 2 /\ TurnSlack' >= 4 - 1
        /\ Fetch(stdin) # EOF => IndexSlack' >= 2 + 2 /\ TurnSlack' >= 4 + 4
    BY <1>1, <1>2, <1>3, <1>8, <2>1, FetchesStep, Zenon
  <2> QED BY <2>2
<1>10. Budget'
  BY <1>6, <1>7, <1>9 DEF Budget, Slack
<1> QED BY <1>7, <1>10 DEF ReaderStep

\* A slot is given something that is not a container.
LEMMA StorageChanged ==
    ASSUME Rd, NEW i \in Slots, NEW w \in Values, w.type \notin Containers \/ w.type = argo_value_storage[i].type,
           w.list = argo_value_storage[i].list
    PROVE  LET st == [argo_value_storage EXCEPT ![i] = w]
           IN  /\ st \in Storages
               /\ \A j \in Slots : st[j].type \in Containers =>
                      /\ argo_value_storage[j].type \in Containers
                      /\ st[j].list = argo_value_storage[j].list
<1>1. argo_value_storage \in Storages
  BY RdFacts
<1> QED BY <1>1 DEF Storages

\* A name does not change the rest of a value.
LEMMA NamedValue ==
    ASSUME NEW v \in Values, NEW name \in Seq(Int)
    PROVE  LET w == [v EXCEPT !.name = name]
           IN  /\ w \in Values /\ w.name = name
               /\ w.type = v.type /\ w.list = v.list /\ w.next = v.next /\ w.prev = v.prev
  BY DEF Values

\* The action ReadName keeps the types, the stack and the budget.
LEMMA ReadNameStep ==
    ASSUME Rd, Budget, ReadName
    PROVE  ReaderStep
<1> DEFINE v == argo_value_storage[argo_next_value]
           read == argo_read_string(v.name, stdin)
           w == [v EXCEPT !.name = read.value]
           c2 == [Call EXCEPT !.last = argo_next_value, !.c = Fetch(read.in), !.at = "test", !.from = 1]
<1>1. /\ UNCHANGED <<chosen, level, stdout>> /\ turns' = turns + 1
      /\ values' = values /\ argo_next_value' = argo_next_value
      /\ Call.at = "loop" /\ Call.c = ARGO_QUOTE /\ Call.fn = "object"
  BY DEF ReadName, ReaderKeeps, Meets, Turned, Reading
<1>2. /\ Top /\ stdin \in Bytes /\ argo_value_storage \in Storages
      /\ argo_next_value \in Slots /\ argo_next_value \in Nat /\ values \in Nat
      /\ Call \in ReadCalls /\ v \in Values
  BY RdFacts, TopFacts
<1>3. IF read.ok
      THEN /\ argo_value_storage' = [argo_value_storage EXCEPT ![argo_next_value].name = read.value]
           /\ calls' = Replaced(c2) /\ stdin' = Rest(read.in) /\ GoesOn
      ELSE Fails /\ UNCHANGED <<argo_value_storage, stdin>>
  BY DEF ReadName
<1>4. v.name \in Seq(Int)
  BY <1>2 DEF Values
<1>5. read \in Reads /\ (read.ok => Len(read.in) < Len(stdin))
  BY <1>2, <1>4, ReadString
<1> HIDE DEF read
<1>6. read.ok \in BOOLEAN /\ read.in \in Bytes /\ read.value \in Seq(Int)
  BY <1>5 DEF Reads
<1>7. CASE ~read.ok
  <2>1. Fails /\ UNCHANGED <<stdin, argo_value_storage, argo_next_value>> /\ Call.at # "first"
        /\ values' \in Nat
    BY <1>1, <1>2, <1>3, <1>7
  <2> QED BY <1>1, <2>1, FailsStep
<1>8. CASE read.ok
  <2>1. /\ argo_value_storage' = [argo_value_storage EXCEPT ![argo_next_value] = w]
        /\ calls' = Replaced(c2) /\ stdin' = Rest(read.in) /\ GoesOn
    BY <1>3, <1>8
  <2>2. Len(read.in) <= Len(stdin)
    BY <1>2, <1>5, <1>6, <1>8 DEF Bytes
  <2>3. Fetch(read.in) \in Chars /\ stdin' \in Bytes
    BY <1>6, <2>1, <2>2, FetchedFacts
  <2>4. c2 \in ReadCalls
    <3>1. 1 \in 1 .. 6 /\ "test" \in {"first", "loop", "test", "nested"}
      OBVIOUS
    <3> QED BY <1>2, <2>3, <3>1, CallChanges
  <2>5. c2.fn = Call.fn /\ c2.sent = Call.sent /\ c2.at = "test" /\ c2.c = Fetch(read.in) /\ c2.from = 1
    BY <1>1, <1>2 DEF ReadCalls
  <2>6. w \in Values /\ w.type = v.type /\ w.list = v.list
    BY <1>2, <1>6, NamedValue
  <2> HIDE DEF c2, w
  <2>7. /\ argo_value_storage' \in Storages
        /\ \A j \in Slots : argo_value_storage'[j].type \in Containers =>
               /\ argo_value_storage[j].type \in Containers
               /\ argo_value_storage'[j].list = argo_value_storage[j].list
    BY <1>2, <2>1, <2>6, StorageChanged
  <2>8. ReaderOK' /\ Within' /\ Call' = c2 /\ pc' = "read"
    <3>1. argo_next_value' >= argo_next_value /\ Call.at # "first" /\ c2.at \in {"loop", "test"}
          /\ c2.fn # "value" /\ argo_next_value' \in Slots /\ values' \in Nat
      BY <1>1, <1>2, <2>5
    <3> QED BY <1>1, <2>1, <2>3, <2>4, <2>5, <2>7, <3>1, StaysStep
  <2>9. Slack(2, 4)
    <3>1. Call.c # EOF
      BY <1>1 DEF EOF, ARGO_QUOTE
    <3> QED BY <1>1, <3>1 DEF Budget, Rd
  <2>10. /\ IndexSlack' \in Int /\ TurnSlack' \in Int /\ IndexSlack' >= 2 /\ TurnSlack' >= 3
    <3>1. 2 \in Int /\ 4 \in Int
      OBVIOUS
    <3>2. /\ IndexSlack' \in Int /\ TurnSlack' \in Int
          /\ IndexSlack' >= 2 /\ TurnSlack' >= 4 - 1
      BY <1>1, <1>6, <2>1, <2>2, <2>9, <3>1, FetchesStep, Zenon
    <3> QED BY <3>2
  <2>11. Budget'
    BY <2>5, <2>8, <2>10 DEF Budget, Slack
  <2> QED BY <2>8, <2>11 DEF ReaderStep
<1> QED BY <1>6, <1>7, <1>8

\* The action ReadTop keeps the types, the stack and the budget.
LEMMA ReadTopStep ==
    ASSUME Rd, Budget, ReadTop
    PROVE  ReaderStep
<1> DEFINE v == argo_value_storage[argo_next_value]
           read == Scalar(Type, v)
           ahead == IF Type = "basic" THEN Rest(read.in) ELSE read.in
           c2 == [Call EXCEPT !.c = Fetch(ahead)]
<1>1. /\ UNCHANGED <<chosen, level, stdout>> /\ turns' = turns + 1
      /\ values' = values + 1 /\ argo_next_value' = argo_next_value
      /\ Testing({"value"}) /\ Choice <= 5 /\ Type \in Scalars
  BY DEF ReadTop, Meets, Turned, Scalars
<1>2. /\ Top /\ stdin \in Bytes /\ argo_value_storage \in Storages
      /\ argo_next_value \in Slots /\ argo_next_value \in Nat /\ values \in Nat
      /\ Call \in ReadCalls /\ v \in Values
  BY RdFacts, TopFacts
<1>3. IF read.ok /\ (Type = "basic" => argo_is_whitespace(Fetch(read.in)))
      THEN /\ argo_value_storage' = [argo_value_storage EXCEPT ![argo_next_value] = read.value]
           /\ calls' = Replaced(c2) /\ stdin' = Rest(ahead) /\ GoesOn
      ELSE Fails /\ UNCHANGED <<argo_value_storage, stdin>>
  BY DEF ReadTop
<1>4. /\ Call.fn = "value" /\ Call.at = "loop" /\ Call.c # EOF /\ Begins(Type, Call.c)
  <2>1. Choice # 6
    BY <1>1
  <2> QED BY <1>1, <2>1, TestingFacts
<1>5. Call.c \in Chars
  BY <1>2 DEF ReadCalls
<1>6. /\ read.ok \in BOOLEAN /\ read.in \in Bytes
      /\ read.ok => Len(read.in) <= Len(stdin)
      /\ read.value \in Values /\ read.value.type = Type /\ read.value.list = v.list
  BY <1>1, <1>2, <1>4, <1>5, ScalarFacts
<1> HIDE DEF read
<1>7. CASE ~(read.ok /\ (Type = "basic" => argo_is_whitespace(Fetch(read.in))))
  <2>1. Fails /\ UNCHANGED <<stdin, argo_value_storage, argo_next_value>> /\ Call.at # "first"
        /\ values' \in Nat
    BY <1>1, <1>2, <1>3, <1>4, <1>7
  <2> QED BY <1>1, <2>1, FailsStep
<1>8. CASE read.ok /\ (Type = "basic" => argo_is_whitespace(Fetch(read.in)))
  <2>1. /\ argo_value_storage' = [argo_value_storage EXCEPT ![argo_next_value] = read.value]
        /\ calls' = Replaced(c2) /\ stdin' = Rest(ahead) /\ GoesOn
    BY <1>3, <1>8
  <2>2. ahead \in Bytes /\ Len(ahead) <= Len(stdin)
    <3>1. Rest(read.in) \in Bytes
      BY <1>6, FetchRest
    <3>2. Len(Rest(read.in)) <= Len(read.in) /\ Len(read.in) \in Nat
      <4>1. (read.in = <<>> => Len(Rest(read.in)) = 0 /\ Len(read.in) = 0)
            /\ (read.in # <<>> => Len(Rest(read.in)) = Len(read.in) - 1)
        BY <1>6, FetchRest
      <4>2. Len(read.in) \in Nat
        BY <1>6 DEF Bytes
      <4> QED BY <4>1, <4>2
    <3>3. Len(stdin) \in Nat /\ Len(Rest(read.in)) \in Nat
      BY <1>2, <3>1 DEF Bytes
    <3> QED BY <1>6, <1>8, <3>1, <3>2, <3>3
  <2> HIDE DEF ahead
  <2>3. Fetch(ahead) \in Chars /\ stdin' \in Bytes
    BY <2>1, <2>2, FetchedFacts
  <2>4. c2 \in ReadCalls
    <3>1. 1 \in 1 .. 6 /\ "test" \in {"first", "loop", "test", "nested"}
      OBVIOUS
    <3> QED BY <1>2, <2>3, <3>1, CallChanges
  <2>5. c2.fn = Call.fn /\ c2.sent = Call.sent /\ c2.at = "loop" /\ c2.c = Fetch(ahead)
    BY <1>2, <1>4 DEF ReadCalls
  <2>6. Type \notin Containers
    BY <1>1 DEF Scalars, Containers
  <2> HIDE DEF c2
  <2>7. /\ argo_value_storage' \in Storages
        /\ \A j \in Slots : argo_value_storage'[j].type \in Containers =>
               /\ argo_value_storage[j].type \in Containers
               /\ argo_value_storage'[j].list = argo_value_storage[j].list
    BY <1>2, <1>6, <2>1, <2>6, StorageChanged
  <2>8. ReaderOK' /\ Within' /\ Call' = c2 /\ pc' = "read"
    <3>1. argo_next_value' >= argo_next_value /\ Call.at # "first" /\ c2.at \in {"loop", "test"}
          /\ argo_next_value' \in Slots /\ values' \in Nat
      BY <1>1, <1>2, <1>4, <2>5
    <3> QED BY <1>1, <2>1, <2>3, <2>4, <2>5, <2>7, <3>1, StaysStep
  <2>9. Slack(2, 4)
    BY <1>4 DEF Budget, Rd
  <2>10. /\ IndexSlack' \in Int /\ TurnSlack' \in Int /\ IndexSlack' >= 2 /\ TurnSlack' >= 3
         /\ Fetch(ahead) # EOF => IndexSlack' >= 4 /\ TurnSlack' >= 8
    <3>1. 2 \in Int /\ 4 \in Int
      OBVIOUS
    <3>2. /\ IndexSlack' \in Int /\ TurnSlack' \in Int
          /\ IndexSlack' >= 2 /\ TurnSlack' >= 4 - 1
          /\ Fetch(ahead) # EOF => IndexSlack' >= 2 + 2 /\ TurnSlack' >= 4 + 4
      BY <1>1, <2>1, <2>2, <2>9, <3>1, FetchesStep, Zenon
    <3> QED BY <3>2
  <2>11. Budget'
    BY <2>5, <2>8, <2>10, <1>4 DEF Budget, Slack
  <2> QED BY <2>8, <2>11 DEF ReaderStep
<1> QED BY <1>6, <1>7, <1>8

\* How the call goes on behind a character nothing begins with.
LEMMA NextCharacterStep ==
    ASSUME Rd, Budget, NextCharacter
    PROVE  ReaderStep
<1> DEFINE stays == Call.fn = "object" /\ Call.c # EOF
           c2 == [Call EXCEPT !.c = Fetch(stdin), !.from = 1,
                              !.at = IF stays THEN "test" ELSE "loop"]
<1>1. /\ GoesOn /\ UNCHANGED <<chosen, level, stdout>> /\ turns' = turns + 1
      /\ values' = values /\ stdin' = Rest(stdin) /\ argo_next_value' = argo_next_value
      /\ argo_value_storage' = argo_value_storage /\ calls' = Replaced(c2)
      /\ \/ Testing({"value", "array", "object"}) /\ Choice = 6
         \/ Call.fn = "value" /\ Call.at = "nested"
  BY DEF NextCharacter, ReaderKeeps, Meets, Turned, Reading, store
<1>2. /\ Top /\ stdin \in Bytes /\ argo_value_storage \in Storages
      /\ argo_next_value \in Slots /\ argo_next_value \in Nat /\ values \in Nat
      /\ Call \in ReadCalls
  BY RdFacts, TopFacts
<1>3. Len(stdin) <= Len(stdin)
  BY <1>2 DEF Bytes
<1>4. Fetch(stdin) \in Chars /\ stdin' \in Bytes
  BY <1>1, <1>2, <1>3, FetchedFacts
<1>5. c2 \in ReadCalls
  <2> DEFINE at == IF stays THEN "test" ELSE "loop"
  <2>1. 1 \in 1 .. 6 /\ at \in {"first", "loop", "test", "nested"}
    OBVIOUS
  <2> HIDE DEF at
  <2>2. [Call EXCEPT !.c = Fetch(stdin), !.from = 1, !.at = at] \in ReadCalls
    BY <1>2, <1>4, <2>1, CallChanges
  <2> QED BY <2>2 DEF at
<1>6. c2.fn = Call.fn /\ c2.sent = Call.sent /\ c2.c = Fetch(stdin) /\ c2.from = 1
      /\ c2.at = IF stays THEN "test" ELSE "loop"
  BY <1>2 DEF ReadCalls
<1>7. \/ Call.at = "test" /\ Call.fn # "value"
      \/ Call.at = "loop" /\ Call.fn = "value" /\ Call.c # EOF
      \/ Call.at = "nested" /\ Call.fn = "value"
  BY <1>1, TestingFacts
<1>8. Call.from \in 1 .. 6 /\ Call.fn \in {"value", "array", "object"}
  BY <1>2 DEF ReadCalls
<1> HIDE DEF c2
<1>9. ReaderOK' /\ Within' /\ Call' = c2 /\ pc' = "read"
  <2>1. argo_next_value' >= argo_next_value /\ Call.at # "first" /\ c2.at \in {"loop", "test"}
        /\ (c2.fn = "value" => c2.at = "loop")
    BY <1>1, <1>2, <1>6, <1>7
  <2> QED BY <1>1, <1>2, <1>4, <1>5, <1>6, <2>1, StaysStep
<1>10. \A i, t \in Int : Slack(i, t) =>
          /\ IndexSlack' \in Int /\ TurnSlack' \in Int /\ IndexSlack' >= i /\ TurnSlack' >= t - 1
          /\ Fetch(stdin) # EOF => IndexSlack' >= i + 2 /\ TurnSlack' >= t + 4
  BY <1>1, <1>2, <1>3, FetchesStep, Zenon
\* A loop begins again.
<1>11. CASE Call.at = "nested"
  <2>1. Slack(3, 5)
    BY <1>11 DEF Budget, Rd
  <2>2. /\ IndexSlack' \in Int /\ TurnSlack' \in Int /\ IndexSlack' >= 3 /\ TurnSlack' >= 4
        /\ Fetch(stdin) # EOF => IndexSlack' >= 5 /\ TurnSlack' >= 9
    BY <1>10, <2>1
  <2>3. c2.at = "loop"
    BY <1>6, <1>7, <1>11
  <2>4. Budget'
    BY <1>6, <1>9, <2>2, <2>3 DEF Budget, Slack
  <2> QED BY <1>9, <2>4 DEF ReaderStep
<1>12. CASE Call.at = "loop"
  <2>1. Slack(2, 4)
    BY <1>7, <1>12 DEF Budget, Rd
  <2>2. /\ IndexSlack' \in Int /\ TurnSlack' \in Int /\ IndexSlack' >= 2 /\ TurnSlack' >= 3
        /\ Fetch(stdin) # EOF => IndexSlack' >= 4 /\ TurnSlack' >= 8
    BY <1>10, <2>1
  <2>3. c2.at = "loop"
    BY <1>6, <1>7, <1>12
  <2>4. Budget'
    BY <1>6, <1>9, <2>2, <2>3 DEF Budget, Slack
  <2> QED BY <1>9, <2>4 DEF ReaderStep
<1>13. CASE Call.at = "test" /\ Call.c # EOF /\ Call.from = 1
  <2>1. Slack(2, 3)
    BY <1>13 DEF Budget, Rd
  <2>2. /\ IndexSlack' \in Int /\ TurnSlack' \in Int /\ IndexSlack' >= 2 /\ TurnSlack' >= 2
        /\ Fetch(stdin) # EOF => IndexSlack' >= 4 /\ TurnSlack' >= 7
    BY <1>10, <2>1
  <2>3. Budget'
    BY <1>6, <1>9, <2>2 DEF Budget, Slack
  <2> QED BY <1>9, <2>3 DEF ReaderStep
<1>14. CASE Call.at = "test" /\ Call.c = EOF /\ Call.from = 1
  <2>1. Slack(1, 2)
    BY <1>14 DEF Budget, Rd
  <2>2. /\ IndexSlack' \in Int /\ TurnSlack' \in Int /\ IndexSlack' >= 1 /\ TurnSlack' >= 1
        /\ Fetch(stdin) # EOF => IndexSlack' >= 3 /\ TurnSlack' >= 6
    BY <1>10, <2>1
  <2>3. c2.at = "loop"
    BY <1>6, <1>14
  <2>4. Budget'
    BY <1>6, <1>9, <2>2, <2>3 DEF Budget, Slack
  <2> QED BY <1>9, <2>4 DEF ReaderStep
<1>15. CASE Call.at = "test" /\ Call.from > 1
  <2>1. /\ Slack(1, 1) /\ Call.fn = "array" /\ Call.c # ARGO_RBRACK
        /\ Call.c = EOF /\ stdin # <<>> => Slack(1, 6)
        /\ Call.c # EOF => Fetch(stdin) = Call.c
    BY <1>15 DEF Budget, Rd
  <2>2. /\ IndexSlack' \in Int /\ TurnSlack' \in Int /\ IndexSlack' >= 1 /\ TurnSlack' >= 0
        /\ Fetch(stdin) # EOF => IndexSlack' >= 3 /\ TurnSlack' >= 5
    BY <1>10, <2>1
  <2>3. Fetch(stdin) # EOF /\ Fetch(stdin) = ARGO_RBRACK => TurnSlack' >= 6
    <3>1. SUFFICES ASSUME Fetch(stdin) # EOF, Fetch(stdin) = ARGO_RBRACK PROVE TurnSlack' >= 6
      OBVIOUS
    <3>2. stdin # <<>>
      BY <1>2, <3>1, FetchRest
    <3>3. Slack(1, 6)
      BY <2>1, <3>1, <3>2
    <3>4. TurnSlack' >= 6 + 4
      BY <1>10, <3>1, <3>3
    <3> QED BY <2>2, <3>4
  <2>4. c2.at = "loop" /\ c2.fn = "array" /\ CloserOf("array") = ARGO_RBRACK
    BY <1>6, <2>1 DEF CloserOf
  <2>5. Budget'
    BY <1>6, <1>9, <2>2, <2>3, <2>4 DEF Budget, Slack
  <2> QED BY <1>9, <2>5 DEF ReaderStep
<1> QED BY <1>7, <1>8, <1>11, <1>12, <1>13, <1>14, <1>15

\* The action EndRead keeps the types, the stack and the budget.
LEMMA EndReadStep ==
    ASSUME Rd, Budget, EndRead
    PROVE  ReaderOK' /\ Budget' /\ turns' + argo_next_value' <= 5 * Len(Text') + 2 /\ pc' # "overrun" /\ result' = "storage"
<1>1. /\ UNCHANGED <<chosen, level, stdout>> /\ turns' = turns + 1
      /\ values' = values /\ UNCHANGED <<stdin, argo_value_storage, argo_next_value>>
      /\ Call.at = "loop" /\ result' = "storage" /\ calls' = <<>> /\ pc' \in {"write", "exit"}
  BY DEF EndRead, ReaderKeeps, Meets, Turned, Reading, store
<1>2. TypeOK' /\ StackOK'
  BY <1>1, RdFacts, TypeEnds
<1>3. ContainerLists'
  BY <1>1, RdFacts, ListsKept
<1>4. Budget'
  BY <1>1 DEF Budget
<1>5. Len(Text) \in Nat /\ Text' = Text
  BY <1>1, TextIsBytes DEF Rd, ReaderOK, Text, chosen
<1>6. Len(stdin) \in Nat /\ argo_next_value \in Nat /\ turns \in Nat
  BY RdFacts DEF Bytes
<1>7. 5 * (Len(Text) - Len(stdin)) - argo_next_value - turns >= -1
  BY BudgetFloor DEF Slack, TurnSlack
<1> DEFINE l == Len(Text)
           m == Len(stdin)
<1>8. l \in Nat /\ m \in Nat /\ 5 * (l - m) - argo_next_value - turns >= -1
  BY <1>5, <1>6, <1>7
<1> HIDE DEF l, m
<1>9. turns + 1 + argo_next_value <= 5 * l + 2
  BY <1>6, <1>8
<1> QED BY <1>1, <1>2, <1>3, <1>4, <1>5, <1>9 DEF ReaderOK, l

\* The action Nest keeps the types, the stack and the budget.
LEMMA NestStep ==
    ASSUME Rd, Budget, Nest
    PROVE  ReaderStep
<1> DEFINE n == argo_next_value
           v == argo_value_storage[n]
           w == [v EXCEPT !.type = Type, !.list = n + 1]
           c2 == [Call EXCEPT !.at = "nested", !.from = Choice]
<1>1. /\ UNCHANGED <<chosen, level, stdout>> /\ turns' = turns + 1 /\ GoesOn
      /\ values' = (IF Call.fn = "value" THEN values + 1 ELSE values)
      /\ argo_next_value' = n /\ stdin' = stdin
      /\ Testing({"value", "array", "object"}) /\ Choice <= 5 /\ Type \in Containers
      /\ calls' = Append(Replaced(c2), NewCall(Type, n))
      /\ argo_value_storage' = [argo_value_storage EXCEPT ![n].type = Type, ![n].list = n + 1]
  BY DEF Nest, Meets, Turned, Containers, NewCall
<1>2. /\ Top /\ stdin \in Bytes /\ argo_value_storage \in Storages
      /\ n \in Slots /\ n \in Nat /\ values \in Nat
      /\ Call \in ReadCalls /\ v \in Values
  BY RdFacts, TopFacts
<1>3. /\ \/ Call.at = "test" /\ Call.fn # "value"
         \/ Call.at = "loop" /\ Call.fn = "value" /\ Call.c # EOF
      /\ Choice \in Call.from .. 5 /\ Call.from \in 1 .. 6
      /\ Choice \in 1 .. 2 /\ Call.c # EOF
  <2>1. Choice # 6 /\ Choice \in Call.from .. 6 /\ Call.from \in 1 .. 6
    BY <1>1, TestingFacts
  <2>2. Choice \notin 3 .. 5
    <3>1. /\ Choice = 3 => Type = "string"
          /\ Choice = 4 => Type = "number"
          /\ Choice = 5 => Type = "basic"
      BY <1>1, TestingFacts
    <3>2. Type \notin {"string", "number", "basic"}
      BY <1>1 DEF Containers
    <3> QED BY <3>1, <3>2
  <2>3. Call.c # EOF
    BY <1>1, <2>1, TestingFacts
  <2>4. \/ Call.at = "test" /\ Call.fn # "value"
        \/ Call.at = "loop" /\ Call.fn = "value" /\ Call.c # EOF
    BY <1>1, TestingFacts
  <2>5. Choice \in Call.from .. 5 /\ Choice \in 1 .. 2
    BY <2>1, <2>2
  <2> QED BY <2>1, <2>3, <2>4, <2>5
<1>4. c2 \in ReadCalls
  <2>1. Choice \in 1 .. 6 /\ "nested" \in {"first", "loop", "test", "nested"} /\ Call.c \in Chars
    BY <1>2, <1>3 DEF ReadCalls
  <2> QED BY <1>2, <2>1, CallChanges
<1>5. c2.fn = Call.fn /\ c2.sent = Call.sent /\ c2.at = "nested" /\ c2.from = Choice
  BY <1>2 DEF ReadCalls
<1>6. w \in Values /\ w.type = Type /\ w.list = n + 1
  <2>1. v \in Values /\ Type \in Types /\ n + 1 \in Nat
    BY <1>1, <1>2 DEF Types, Containers
  <2> HIDE DEF v, n
  <2>2. w \in Values
    BY <2>1 DEF Values
  <2>3. w.type = Type /\ w.list = n + 1
    BY <2>1 DEF Values
  <2> QED BY <2>2, <2>3
<1>7. argo_value_storage' = [argo_value_storage EXCEPT ![n] = w]
  <2> DEFINE mid == [argo_value_storage EXCEPT ![n].type = Type]
  <2>1. mid \in [Slots -> Values] /\ mid[n] = [v EXCEPT !.type = Type]
    BY <1>1, <1>2 DEF Storages, Values, Types, Containers
  <2>2. argo_value_storage' = [mid EXCEPT ![n] = [mid[n] EXCEPT !.list = n + 1]]
    BY <1>1, <1>2, <2>1 DEF Storages
  <2>3. [[v EXCEPT !.type = Type] EXCEPT !.list = n + 1] = w
    BY <1>2 DEF Values
  <2> QED BY <1>2, <2>1, <2>2, <2>3 DEF Storages
<1> HIDE DEF w, c2
<1>8. argo_value_storage' \in Storages
      /\ \A i \in Slots : argo_value_storage'[i] = IF i = n THEN w ELSE argo_value_storage[i]
  BY <1>2, <1>6, <1>7 DEF Storages
<1>9. pc' = pc /\ pc' = "read" /\ Within'
  BY <1>1, WithinGoesOn DEF GoesOn
<1>10. StackOK' /\ calls' \in Seq(ReadCalls) /\ Call' = NewCall(Type, n)
  <2>1. c2.from \in 1 .. 2
    BY <1>3, <1>5
  <2>2. Call.at # "first"
    BY <1>3
  <2> QED BY <1>1, <1>2, <1>4, <1>5, <1>9, <2>1, <2>2, StackNested
<1>11. Call'.at = "first" /\ Call'.fn = Type
  BY <1>10 DEF NewCall
<1>12. TypeOK'
  <2>1. values' \in Nat /\ stdin' \in Bytes /\ argo_next_value' \in Slots
    BY <1>1, <1>2
  <2> QED BY <1>1, <1>8, <1>10, <2>1, TypeGoesOn
<1>13. ContainerLists'
  <2> SUFFICES ASSUME NEW i \in Slots, argo_value_storage'[i].type \in Containers
               PROVE  argo_value_storage'[i].list = i + 1
                      /\ (i + 1 \in Slots \/ (pc' = "read" /\ Call'.at = "first" /\ i = argo_next_value'))
    BY DEF ContainerLists
  <2>1. CASE i = n
    BY <1>1, <1>6, <1>8, <1>9, <1>11, <2>1
  <2>2. CASE i # n
    <3>1. argo_value_storage[i].type \in Containers /\ argo_value_storage'[i] = argo_value_storage[i]
      BY <1>8, <2>2
    <3>2. argo_value_storage[i].list = i + 1 /\ i + 1 \in Slots
      BY <1>3, <3>1 DEF Rd, ReaderOK, ContainerLists
    <3> QED BY <3>1, <3>2
  <2> QED BY <2>1, <2>2
<1>14. Slack(2, 3)
  <2>1. CASE Call.at = "loop"
    <3>1. Slack(2, 4) /\ IndexSlack \in Int /\ TurnSlack \in Int
      <4>1. Slack(2, 4)
        BY <1>3, <2>1 DEF Budget, Rd
      <4>2. stdin' \in Bytes /\ argo_next_value' \in Nat
        BY <1>1, <1>2
      <4> QED BY <1>1, <4>1, <4>2, SlackStep
    <3> QED BY <3>1 DEF Slack
  <2>2. CASE Call.at = "test" /\ Call.from = 1
    BY <1>3, <2>2 DEF Budget, Rd
  <2>3. CASE Call.at = "test" /\ Call.from # 1
    <3>1. Call.from > 1 /\ Call.from <= 4
      BY <1>3, <2>3
    <3> QED BY <2>3, <3>1 DEF Budget, Rd
  <2> QED BY <1>3, <2>1, <2>2, <2>3
<1>15. IndexSlack' \in Int /\ TurnSlack' \in Int /\ IndexSlack' >= 2 /\ TurnSlack' >= 2
  <2>1. 2 \in Int /\ 3 \in Int /\ 0 \in Int /\ Len(stdin') <= Len(stdin)
        /\ argo_next_value' = argo_next_value + 0 /\ stdin' \in Bytes /\ argo_next_value' \in Nat
    BY <1>1, <1>2 DEF Bytes
  <2>2. IndexSlack' \in Int /\ TurnSlack' \in Int /\ IndexSlack' >= 2 - 0 /\ TurnSlack' >= 3 - 0 - 1
    BY <1>1, <1>14, <2>1, BudgetNext, Zenon
  <2> QED BY <2>2
<1>16. Budget'
  BY <1>11, <1>15 DEF Budget, Slack
<1> QED BY <1>9, <1>10, <1>12, <1>13, <1>16 DEF ReaderStep, ReaderOK

\* The action Open keeps the types, the stack and the budget.
LEMMA OpenStep ==
    ASSUME Rd, Budget, Open
    PROVE  ReaderStep
<1> DEFINE n == argo_next_value
           c == Fetch(stdin)
           closes == c = CloserOf(Call.fn)
           top == IF closes THEN n + 1 ELSE n + 2
           c2 == [Call EXCEPT !.last = top, !.c = c, !.at = "loop"]
           v == argo_value_storage[n + 1]
           w == [v EXCEPT !.type = Untyped]
           typed == [argo_value_storage EXCEPT ![n + 1] = w]
<1>1. /\ UNCHANGED <<chosen, level, stdout>> /\ turns' = turns + 1
      /\ values' = values /\ Call.at = "first" /\ Call.fn \in Containers
  BY DEF Open, ReaderKeeps, Meets, Turned, Reading, Containers
<1>2. /\ Top /\ stdin \in Bytes /\ argo_value_storage \in Storages
      /\ n \in Slots /\ n \in Nat /\ values \in Nat /\ Call \in ReadCalls
  BY RdFacts, TopFacts
<1>3. IF top \notin Slots THEN Overruns
      ELSE /\ stdin' = Rest(stdin) /\ argo_next_value' = top /\ GoesOn
           /\ IF closes THEN ReturnsWith(link([argo_value_storage EXCEPT ![n + 1].type = Untyped], n + 1, n + 1))
              ELSE /\ argo_value_storage' = link([argo_value_storage EXCEPT ![n + 1].type = Untyped], n + 2, n + 1)
                   /\ calls' = Replaced(c2)
  <2>1. (n + 1) + 1 = n + 2
    BY <1>2
  <2> QED BY <2>1 DEF Open
<1>4. Slack(2, 2)
  BY <1>1 DEF Budget, Rd
<1>5. CASE top \notin Slots
  <2>1. IndexSlack >= 2 /\ 2 \in Int
    BY <1>4 DEF Slack
  <2>2. CASE closes
    <3>1. n + 1 \notin Slots /\ Overruns /\ 1 \in Int /\ 1 <= 2 /\ 1 >= 0 /\ values' \in Nat
      BY <1>1, <1>2, <1>3, <1>5, <2>2
    <3> QED BY <1>1, <2>1, <3>1, OverrunStep
  <2>3. CASE ~closes
    <3>1. n + 2 \notin Slots /\ Overruns /\ 2 <= 2 /\ 2 >= 0 /\ values' \in Nat
      BY <1>1, <1>2, <1>3, <1>5, <2>3
    <3> QED BY <1>1, <2>1, <3>1, OverrunStep
  <2> QED BY <2>2, <2>3
<1>6. CASE top \in Slots
  <2>1. n + 1 \in Slots /\ n + 1 <= top /\ top \in Nat
    BY <1>2, <1>6, SlotsFacts
  <2>2. v \in Values /\ w \in Values /\ w.type = Untyped /\ w.list = v.list
    <3>1. v \in Values
      BY <1>2, <2>1 DEF Storages
    <3> HIDE DEF v
    <3>2. Untyped \in Types
      BY DEF Types, Untyped
    <3>3. w \in Values
      BY <3>1, <3>2 DEF Values
    <3>4. w.type = Untyped /\ w.list = v.list
      BY <3>1 DEF Values
    <3> QED BY <3>1, <3>3, <3>4
  <2>3. [argo_value_storage EXCEPT ![n + 1].type = Untyped] = typed
    BY <1>2, <2>1 DEF Storages
  <2>4. typed \in Storages /\ \A i \in Slots : typed[i] = IF i = n + 1 THEN w ELSE argo_value_storage[i]
    BY <1>2, <2>1, <2>2 DEF Storages
  <2>5. /\ stdin' = Rest(stdin) /\ argo_next_value' = top /\ GoesOn
        /\ argo_value_storage' = link(typed, top, n + 1)
        /\ IF closes THEN calls' = Front(calls) ELSE calls' = Replaced(c2)
    BY <1>3, <1>6, <2>3 DEF ReturnsWith
  <2>6. Untyped \notin Containers
    BY DEF Untyped, Containers
  <2> HIDE DEF w, typed
  <2>7. /\ argo_value_storage' \in Storages
        /\ \A i \in Slots : argo_value_storage'[i].type \in Containers =>
               /\ argo_value_storage[i].type \in Containers
               /\ argo_value_storage'[i].list = argo_value_storage[i].list
    <3> DEFINE st2 == link(typed, top, n + 1)
    <3>1. st2 \in Storages /\ Linked(typed, st2, top, n + 1) /\ \A i \in Slots : st2[i].list = typed[i].list
      BY <1>6, <2>1, <2>4, LinkFacts
    <3> HIDE DEF st2
    <3>2. \A i \in Slots : st2[i].type = typed[i].type
      BY <3>1 DEF Linked
    <3>3. \A i \in Slots : st2[i].type \in Containers =>
               /\ argo_value_storage[i].type \in Containers
               /\ st2[i].list = argo_value_storage[i].list
      BY <2>2, <2>4, <2>6, <3>1, <3>2
    <3> QED BY <2>5, <3>1, <3>3 DEF st2
  <2>8. Len(stdin) <= Len(stdin) /\ Len(stdin) \in Nat
    BY <1>2 DEF Bytes
  <2>9. c \in Chars /\ stdin' \in Bytes /\ Len(stdin') <= Len(stdin)
        /\ (c # EOF => Len(stdin') < Len(stdin))
    BY <1>2, <2>5, <2>8, FetchedFacts
  <2>10. pc' = pc /\ pc' = "read" /\ Within'
    BY <2>5, WithinGoesOn DEF GoesOn
  <2>11. CASE closes
    <3>1. c # EOF
      BY <2>11 DEF CloserOf, EOF, ARGO_RBRACK, ARGO_RBRACE
    <3>2. Call.fn # "value" /\ argo_next_value' >= argo_next_value /\ argo_next_value' \in Nat
          /\ argo_next_value' = argo_next_value + 1 /\ calls' = Front(calls)
      BY <1>1, <1>2, <2>1, <2>5, <2>11 DEF Containers
    <3>3. StackOK' /\ calls' \in Seq(ReadCalls) /\ Call'.at = "nested"
      BY <1>2, <2>10, <3>2, StackReturned
    <3>4. TypeOK'
      <4>1. values' \in Nat /\ argo_next_value' \in Slots
        BY <1>1, <1>2, <1>6, <2>5
      <4> QED BY <1>1, <2>5, <2>7, <2>9, <3>3, <4>1, TypeGoesOn
    <3>5. ContainerLists'
      BY <1>6, <2>1, <2>5, <2>7, ListsKept
    <3>6. IndexSlack' \in Int /\ TurnSlack' \in Int /\ IndexSlack' >= 3 /\ TurnSlack' >= 5
      <4>1. 1 \in Int /\ 2 \in Int
        OBVIOUS
      <4>2. /\ IndexSlack' \in Int /\ TurnSlack' \in Int
            /\ Len(stdin') < Len(stdin) => IndexSlack' >= 2 + 2 - 1 /\ TurnSlack' >= 2 + 4 - 1
        BY <1>1, <1>4, <2>9, <3>2, <4>1, BudgetNext, Zenon
      <4> QED BY <2>9, <3>1, <4>2
    <3>7. Budget'
      BY <3>3, <3>6 DEF Budget, Slack
    <3> QED BY <2>10, <3>3, <3>4, <3>5, <3>7 DEF ReaderStep, ReaderOK
  <2>12. CASE ~closes
    <3>1. c2 \in ReadCalls
      <4>1. "loop" \in {"first", "loop", "test", "nested"} /\ 1 \in 1 .. 6
        OBVIOUS
      <4> QED BY <1>2, <1>6, <2>9, <4>1, CallChanges
    <3>2. c2.fn = Call.fn /\ c2.sent = Call.sent /\ c2.at = "loop" /\ c2.c = c
      BY <1>2 DEF ReadCalls
    <3> HIDE DEF c2
    <3>3. ReaderOK' /\ Within' /\ Call' = c2 /\ pc' = "read"
      <4>1. /\ argo_next_value' >= argo_next_value /\ argo_next_value' >= argo_next_value + 1
            /\ c2.at \in {"loop", "test"} /\ argo_next_value' \in Slots /\ values' \in Nat
        BY <1>1, <1>2, <1>6, <2>1, <2>5, <3>2
      <4>2. calls' = Replaced(c2)
        BY <2>5, <2>12
      <4> QED BY <1>1, <2>5, <2>7, <2>9, <3>1, <3>2, <4>1, <4>2, StaysStep
    <3>4. /\ IndexSlack' \in Int /\ TurnSlack' \in Int /\ IndexSlack' >= 0 /\ TurnSlack' >= -1
          /\ c # EOF => IndexSlack' >= 2 /\ TurnSlack' >= 4
      <4>1. 2 \in Int /\ argo_next_value' = argo_next_value + 2 /\ argo_next_value' \in Nat
        BY <1>2, <2>1, <2>5, <2>12
      <4>2. /\ IndexSlack' \in Int /\ TurnSlack' \in Int
            /\ IndexSlack' >= 2 - 2 /\ TurnSlack' >= 2 - 2 - 1
            /\ Len(stdin') < Len(stdin) => IndexSlack' >= 2 + 2 - 2 /\ TurnSlack' >= 2 + 4 - 2
        BY <1>1, <1>4, <2>9, <4>1, BudgetNext, Zenon
      <4> QED BY <2>9, <4>2
    <3>5. Budget'
      <4>1. c2.c # CloserOf(c2.fn)
        BY <2>12, <3>2
      <4> QED BY <3>2, <3>3, <3>4, <4>1 DEF Budget, Slack
    <3> QED BY <3>3, <3>5 DEF ReaderStep
  <2> QED BY <2>11, <2>12
<1> QED BY <1>5, <1>6

\* What the characters read behind a value leave of the turns and the slots.
Enough(in, test) ==
    \/ Slack(3, 5)
    \/ Slack(2, 3) /\ (Len(in) < Len(stdin) \/ test >= 4)
    \/ Slack(1, 1) /\ Len(in) < Len(stdin) /\ test = 5

\* The slots and turns left after what is done behind a value.
LEMMA BehindBudget ==
    ASSUME Rd, UNCHANGED <<chosen, level, stdout>>, turns' = turns + 1,
           stdin' \in Bytes, argo_next_value' \in Nat, NEW g \in {0, 1}, argo_next_value' = argo_next_value + g,
           NEW in \in Bytes, Len(in) <= Len(stdin), Len(stdin') <= Len(in),
           NEW test \in 1 .. 5, Enough(in, test), g = 0 => Len(stdin') < Len(in)
    PROVE  /\ IndexSlack' \in Int /\ TurnSlack' \in Int
           /\ g = 0 => IndexSlack' >= 3 /\ TurnSlack' >= 5
           /\ g = 1 => /\ IndexSlack' >= 1 /\ TurnSlack' >= 1
                       /\ test <= 3 => IndexSlack' >= 2 /\ TurnSlack' >= 3
                       /\ Len(stdin') < Len(in) => IndexSlack' >= 3 /\ TurnSlack' >= 6
<1> DEFINE d == Len(stdin) - Len(stdin')
           e == Len(stdin) - Len(in)
           h == Len(in) - Len(stdin')
<1>1. Len(stdin) \in Nat /\ Len(stdin') \in Nat /\ Len(in) \in Nat
  BY RdFacts DEF Bytes
<1>2. d \in Int /\ Len(stdin') + d <= Len(stdin) /\ e \in Nat /\ h \in Nat /\ d = e + h
      /\ (Len(in) < Len(stdin) => e >= 1) /\ (Len(stdin') < Len(in) => h >= 1)
  BY <1>1
<1>3. g \in Int /\ 0 \in Int /\ 1 \in Int /\ 2 \in Int /\ 3 \in Int /\ 5 \in Int
  OBVIOUS
<1> DEFINE i == IndexSlack'
           t == TurnSlack'
<1> HIDE DEF d, e, h
<1>4. \A a, b \in Int : Slack(a, b) => /\ IndexSlack' \in Int /\ TurnSlack' \in Int
                                       /\ IndexSlack' >= a + 2 * d - g /\ TurnSlack' >= b + 5 * d - g - 1
  BY <1>2, <1>3, BudgetStep, Zenon
<1>5. \A a, b \in Int : Slack(a, b) => /\ i \in Int /\ t \in Int
                                       /\ i >= a + 2 * d - g /\ t >= b + 5 * d - g - 1
  BY <1>4
<1> HIDE DEF i, t
<1>6. i \in Int /\ t \in Int
  BY <1>3, <1>5 DEF Enough
<1>7. \/ i >= 3 + 2 * d - g /\ t >= 5 + 5 * d - g - 1
      \/ i >= 2 + 2 * d - g /\ t >= 3 + 5 * d - g - 1 /\ (e >= 1 \/ test >= 4)
      \/ i >= 1 + 2 * d - g /\ t >= 1 + 5 * d - g - 1 /\ e >= 1 /\ test = 5
  BY <1>2, <1>3, <1>5 DEF Enough
<1>8. g = 0 => h >= 1
  BY <1>2
<1>9. /\ g = 0 => i >= 3 /\ t >= 5
      /\ g = 1 => /\ i >= 1 /\ t >= 1
                  /\ test <= 3 => i >= 2 /\ t >= 3
                  /\ h >= 1 => i >= 3 /\ t >= 6
  BY <1>2, <1>6, <1>7, <1>8
<1> QED BY <1>2, <1>6, <1>9 DEF i, t

\* What is done behind a value keeps the types, the stack and the budget.
LEMMA BehindStep ==
    ASSUME Rd, UNCHANGED <<chosen, level, stdout>>, turns' = turns + 1, values' = values,
           Call.fn \in Containers, Call.at # "first",
           NEW st \in Storages, NEW in \in Bytes, Len(in) <= Len(stdin), NEW previous \in Slots,
           NEW spaces \in BOOLEAN, NEW test \in 1 .. 5, Behind(st, in, previous, spaces, test),
           Enough(in, test), Call.last \in Slots,
           \A i \in Slots : st[i].type \in Containers =>
               /\ argo_value_storage[i].type \in Containers
               /\ st[i].list = argo_value_storage[i].list
    PROVE  ReaderStep
<1>1. /\ Top /\ stdin \in Bytes /\ argo_value_storage \in Storages
      /\ argo_next_value \in Slots /\ argo_next_value \in Nat /\ values \in Nat
      /\ Call \in ReadCalls /\ Len(in) \in Nat /\ Len(stdin) \in Nat
  BY RdFacts, TopFacts DEF Bytes
<1>2. Call.fn # "value"
  BY DEF Containers
<1>3. \/ BehindCloses(st, in)
      \/ BehindOverruns
      \/ \E c2 \in ReadCalls : BehindGoesOn(st, in, previous, test, c2)
  BY BehindFacts
<1>4. ASSUME NEW a \in Slots, NEW b \in Slots, argo_value_storage' = link(st, a, b)
      PROVE  /\ argo_value_storage' \in Storages
             /\ \A i \in Slots : argo_value_storage'[i].type \in Containers =>
                   /\ argo_value_storage[i].type \in Containers
                   /\ argo_value_storage'[i].list = argo_value_storage[i].list
  <2> DEFINE st2 == link(st, a, b)
  <2>1. st2 \in Storages /\ Linked(st, st2, a, b) /\ \A i \in Slots : st2[i].list = st[i].list
    BY LinkFacts
  <2> HIDE DEF st2
  <2>2. \A i \in Slots : st2[i].type = st[i].type
    BY <2>1 DEF Linked
  <2>3. \A i \in Slots : st2[i].type \in Containers =>
                   /\ argo_value_storage[i].type \in Containers
                   /\ st2[i].list = argo_value_storage[i].list
    BY <2>1, <2>2
  <2> QED BY <1>4, <2>1, <2>3 DEF st2
<1>5. CASE BehindCloses(st, in)
  <2>1. /\ calls' = Front(calls) /\ argo_value_storage' = link(st, Call.sent, Call.last)
        /\ argo_next_value' = argo_next_value /\ GoesOn /\ stdin' \in Bytes /\ Len(stdin') < Len(in)
    BY <1>5 DEF BehindCloses
  <2>2. pc' = pc /\ pc' = "read" /\ Within'
    BY <2>1, WithinGoesOn DEF GoesOn
  <2>3. StackOK' /\ calls' \in Seq(ReadCalls) /\ Call'.at = "nested"
    BY <1>1, <1>2, <2>1, <2>2, StackReturned
  <2>4. Call.sent \in Slots
    <3>1. Call.sent \in 1 .. argo_next_value
      BY <1>1, <1>2, TopFacts
    <3> QED BY <1>1, <3>1, SlotsFacts
  <2>5. /\ argo_value_storage' \in Storages
        /\ \A i \in Slots : argo_value_storage'[i].type \in Containers =>
                   /\ argo_value_storage[i].type \in Containers
                   /\ argo_value_storage'[i].list = argo_value_storage[i].list
    BY <1>4, <2>1, <2>4
  <2>6. values' \in Nat /\ argo_next_value' \in Slots /\ argo_next_value' \in Nat
        /\ argo_next_value' = argo_next_value + 0 /\ 0 \in {0, 1}
    BY <1>1, <2>1
  <2>7. TypeOK'
    BY <2>1, <2>3, <2>5, <2>6, TypeGoesOn
  <2>8. ContainerLists'
    BY <2>5, <2>6, ListsKept
  <2>9. Len(stdin') <= Len(in)
    BY <1>1, <2>1 DEF Bytes
  <2>10. IndexSlack' \in Int /\ TurnSlack' \in Int /\ IndexSlack' >= 3 /\ TurnSlack' >= 5
    BY <2>1, <2>6, <2>9, BehindBudget, Zenon
  <2>11. Budget'
    BY <2>3, <2>10 DEF Budget, Slack
  <2> QED BY <2>2, <2>3, <2>7, <2>8, <2>11 DEF ReaderStep, ReaderOK
<1>6. CASE BehindOverruns
  <2>1. argo_next_value + 1 \notin Slots /\ Overruns /\ 1 \in Int /\ 1 <= 1 /\ 1 >= 0 /\ values' \in Nat
    BY <1>1, <1>6 DEF BehindOverruns
  <2>2. IndexSlack >= 1
    <3>1. IndexSlack \in Int
      <4>1. Len(Text) \in Nat
        BY TextIsBytes DEF Rd, ReaderOK
      <4> QED BY <1>1, <4>1 DEF IndexSlack
    <3> QED BY <3>1 DEF Enough, Slack
  <2> QED BY <2>1, <2>2, OverrunStep
<1>7. CASE \E c2 \in ReadCalls : BehindGoesOn(st, in, previous, test, c2)
  <2>1. PICK c2 \in ReadCalls : BehindGoesOn(st, in, previous, test, c2)
    BY <1>7
  <2>2. /\ calls' = Replaced(c2) /\ c2.fn = Call.fn /\ c2.sent = Call.sent
        /\ argo_value_storage' = link(st, argo_next_value + 1, previous)
        /\ argo_next_value + 1 \in Slots /\ argo_next_value' = argo_next_value + 1 /\ GoesOn
        /\ stdin' \in Bytes /\ Len(stdin') <= Len(in)
    BY <2>1 DEF BehindGoesOn
  <2>3. /\ argo_value_storage' \in Storages
        /\ \A i \in Slots : argo_value_storage'[i].type \in Containers =>
                   /\ argo_value_storage[i].type \in Containers
                   /\ argo_value_storage'[i].list = argo_value_storage[i].list
    BY <1>4, <2>2
  <2>4. values' \in Nat /\ argo_next_value' \in Slots /\ argo_next_value' \in Nat
        /\ argo_next_value' >= argo_next_value /\ 1 \in {0, 1} /\ ~(1 = 0)
    BY <1>1, <2>2
  <2>5. Call.fn = "array" \/ Call.fn = "object"
    BY DEF Containers
  <2>6. Call.fn = "array" => c2.at = "test"
    BY <2>1 DEF BehindGoesOn
  <2>7. Call.fn = "object" => c2.at = "loop"
    BY <2>1 DEF BehindGoesOn
  <2>8. c2.at \in {"loop", "test"} /\ c2.fn # "value"
    BY <1>2, <2>2, <2>5, <2>6, <2>7
  <2>9. ReaderOK' /\ Within' /\ Call' = c2 /\ pc' = "read"
    BY <2>2, <2>3, <2>4, <2>8, StaysStep
  <2>10. /\ IndexSlack' \in Int /\ TurnSlack' \in Int
         /\ IndexSlack' >= 1 /\ TurnSlack' >= 1
         /\ test <= 3 => IndexSlack' >= 2 /\ TurnSlack' >= 3
         /\ Len(stdin') < Len(in) => IndexSlack' >= 3 /\ TurnSlack' >= 6
    BY <2>2, <2>4, BehindBudget, Zenon
  <2>11. CASE Call.fn = "array"
    <3>1. /\ c2.at = "test" /\ c2.from = test + 1 /\ c2.c # ARGO_RBRACK
          /\ c2.c = EOF => Len(stdin') = 0 \/ Len(stdin') < Len(in)
          /\ c2.c # EOF => Fetch(stdin') = c2.c
      BY <2>1, <2>11 DEF BehindGoesOn
    <3>2. c2.c = EOF /\ stdin' # <<>> => TurnSlack' >= 6
      <4>1. stdin' # <<>> => Len(stdin') > 0
        BY <2>2, FetchRest
      <4> QED BY <1>1, <2>10, <3>1, <4>1
    <3>3. c2.from # 1 /\ (c2.from <= 4 => test <= 3)
      BY <3>1
    <3>4. Call'.at = "test" /\ Call'.fn = "array"
      BY <2>2, <2>9, <2>11, <3>1
    <3>5. Slack(1, 1)' /\ (Call'.from <= 4 => Slack(2, 3)')
          /\ (Call'.c = EOF /\ stdin' # <<>> => Slack(1, 6)')
      BY <2>9, <2>10, <3>2, <3>3 DEF Slack
    <3>6. Budget'
      BY <2>9, <3>1, <3>3, <3>4, <3>5 DEF Budget
    <3> QED BY <2>9, <3>6 DEF ReaderStep
  <2>12. CASE Call.fn = "object"
    <3>1. c2.at = "loop" /\ (c2.c # EOF => Len(stdin') < Len(in))
      BY <2>1, <2>12 DEF BehindGoesOn
    <3>2. Budget'
      BY <2>9, <2>10, <3>1 DEF Budget, Slack
    <3> QED BY <2>9, <3>2 DEF ReaderStep
  <2> QED BY <2>5, <2>11, <2>12
<1> QED BY <1>3, <1>5, <1>6, <1>7

\* The action BackFromNested keeps the types, the stack and the budget.
LEMMA BackFromNestedStep ==
    ASSUME Rd, Budget, BackFromNested
    PROVE  ReaderStep
<1>1. /\ UNCHANGED <<chosen, level, stdout>> /\ turns' = turns + 1
      /\ values' = values /\ Call.at = "nested" /\ Call.fn \in Containers
      /\ Behind(argo_value_storage, stdin, Call.last, FALSE, Call.from)
  BY DEF BackFromNested, ReaderKeeps, Meets, Turned, Reading, Containers
<1>2. /\ stdin \in Bytes /\ argo_value_storage \in Storages /\ Len(stdin) <= Len(stdin)
      /\ Call \in ReadCalls
  BY RdFacts, TopFacts DEF Bytes
<1>3. Call.last \in Slots
  BY <1>2 DEF ReadCalls
<1>4. Enough(stdin, Call.from)
  BY <1>1 DEF Enough, Budget, Rd
<1>5. Call.from \in 1 .. 5
  <2>1. Call.from \in 1 .. 2
    BY <1>1, RdFacts, TopFacts
  <2> QED BY <2>1
<1> QED BY <1>1, <1>2, <1>3, <1>4, <1>5, BehindStep

\* The action ReadScalar keeps the types, the stack and the budget.
LEMMA ReadScalarStep ==
    ASSUME Rd, Budget, ReadScalar
    PROVE  ReaderStep
<1> DEFINE n == argo_next_value
           v == argo_value_storage[n]
           read == Scalar(Type, v)
           st == [argo_value_storage EXCEPT ![n] = read.value]
<1>1. /\ UNCHANGED <<chosen, level, stdout>> /\ turns' = turns + 1 /\ values' = values
      /\ Testing({"array", "object"}) /\ Choice <= 5 /\ Type \in Scalars
      /\ IF read.ok THEN Behind(st, read.in, n, TRUE, Choice)
         ELSE Fails /\ UNCHANGED <<argo_value_storage, argo_next_value, stdin>>
  BY DEF ReadScalar, ReaderKeeps, Meets, Turned, Scalars, store
<1>2. /\ Top /\ stdin \in Bytes /\ argo_value_storage \in Storages
      /\ n \in Slots /\ n \in Nat /\ values \in Nat
      /\ Call \in ReadCalls /\ v \in Values
  BY RdFacts, TopFacts
<1>3. /\ Call.at = "test" /\ Call.fn \in Containers /\ Call.c # EOF
      /\ Choice \in Call.from .. 5 /\ Call.from \in 1 .. 6 /\ Choice \in 3 .. 5
      /\ Begins(Type, Call.c) /\ (Choice = 3 => Type = "string") /\ (Choice = 5 => Type = "basic")
  <2>1. Choice # 6 /\ Choice \in Call.from .. 6 /\ Call.from \in 1 .. 6
    BY <1>1, TestingFacts
  <2>2. Choice \notin 1 .. 2
    <3>1. Choice \in 1 .. 2 => Type \in Containers
      BY <1>1, TestingFacts
    <3>2. Type \notin Containers
      BY <1>1 DEF Containers, Scalars
    <3> QED BY <3>1, <3>2
  <2>3. /\ Call.c # EOF /\ Begins(Type, Call.c)
        /\ Choice = 3 => Type = "string"
        /\ Choice = 5 => Type = "basic"
    BY <1>1, <2>1, TestingFacts
  <2>4. Call.at = "test" /\ Call.fn \in Containers
    <3>1. /\ Call.fn \in {"array", "object"}
          /\ \/ Call.at = "test" /\ Call.fn # "value"
             \/ Call.at = "loop" /\ Call.fn = "value" /\ Call.c # EOF
      BY <1>1, TestingFacts
    <3> QED BY <3>1 DEF Containers
  <2>5. Choice \in Call.from .. 5 /\ Choice \in 3 .. 5
    BY <2>1, <2>2
  <2> QED BY <2>1, <2>3, <2>4, <2>5
<1>4. Call.c \in Chars /\ Call.last \in Slots
  BY <1>2 DEF ReadCalls
<1>5. /\ read.ok \in BOOLEAN /\ read.in \in Bytes
      /\ read.ok => /\ Len(read.in) <= Len(stdin)
                    /\ Type # "number" => Len(read.in) < Len(stdin)
      /\ read.value \in Values /\ read.value.type = Type /\ read.value.list = v.list
  BY <1>1, <1>2, <1>3, <1>4, ScalarFacts
<1> HIDE DEF read
<1>6. CASE ~read.ok
  <2>1. Fails /\ UNCHANGED <<stdin, argo_value_storage, argo_next_value>> /\ Call.at # "first"
        /\ values' \in Nat
    BY <1>1, <1>2, <1>3, <1>6
  <2> QED BY <1>1, <2>1, FailsStep
<1>7. CASE read.ok
  <2>1. Type \notin Containers
    BY <1>1 DEF Scalars, Containers
  <2>2. /\ st \in Storages
        /\ \A j \in Slots : st[j].type \in Containers =>
               /\ argo_value_storage[j].type \in Containers
               /\ st[j].list = argo_value_storage[j].list
    BY <1>2, <1>5, <2>1, StorageChanged
  <2> HIDE DEF st
  <2>3. Enough(read.in, Choice)
    <3>1. CASE Call.from <= 4
      <4>1. Slack(2, 3)
        <5>1. CASE Call.from = 1
          BY <1>3, <5>1 DEF Budget, Rd
        <5>2. CASE Call.from # 1
          <6>1. Call.from > 1
            BY <1>3, <5>2
          <6> QED BY <1>3, <3>1, <6>1 DEF Budget, Rd
        <5> QED BY <5>1, <5>2
      <4>2. CASE Choice = 3
        <5>1. Type # "number"
          BY <1>3, <4>2
        <5> QED BY <1>5, <1>7, <4>1, <5>1 DEF Enough
      <4>3. CASE Choice # 3
        <5>1. Choice >= 4
          BY <1>3, <4>3
        <5> QED BY <4>1, <5>1 DEF Enough
      <4> QED BY <4>2, <4>3
    <3>2. CASE ~(Call.from <= 4)
      <4>1. Choice = 5 /\ Type # "number"
        BY <1>3, <3>2
      <4>2. Slack(1, 1)
        BY <1>3 DEF Budget, Rd
      <4> QED BY <1>5, <1>7, <4>1, <4>2 DEF Enough
    <3> QED BY <3>1, <3>2
  <2>4. Choice \in 1 .. 5 /\ Call.at # "first" /\ TRUE \in BOOLEAN
    BY <1>3
  <2>5. Behind(st, read.in, n, TRUE, Choice)
    BY <1>1, <1>7
  <2> QED BY <1>1, <1>2, <1>3, <1>4, <1>5, <1>7, <2>2, <2>3, <2>4, <2>5, BehindStep
<1> QED BY <1>5, <1>6, <1>7

\* The options are among those that validargs.c sets.
LEMMA ValidargsFacts ==
    ASSUME NEW args \in Argvs
    PROVE  validargs(args) \in Options
<1> DEFINE n == Len(args)
           given(i, text) == n >= i /\ Is(args[i], text)
           reject == [do |-> "usage", indent |-> 0]
<1>1. DOMAIN args = 1 .. n /\ \A i \in DOMAIN args : "number" \in DOMAIN args[i] => args[i].number \in Nat
  BY ArgvAssumption
<1>2. \A text \in {"usage", "help", "validate", "canonicalize"} : [do |-> text, indent |-> 0] \in Options
  BY DEF Options
<1>3. Rejected \in Options
  BY <1>2 DEF Rejected
<1>4. CASE n \notin 1 .. 3
  BY <1>3, <1>4 DEF validargs
<1>5. CASE n \in 1 .. 3 /\ given(1, "-h")
  <2>1. ~given(1, "-v") /\ ~given(1, "-c")
    <3>1. args[1].text = "-h"
      BY <1>5 DEF Is
    <3>2. args[1].text # "-v" /\ args[1].text # "-c"
      BY <3>1
    <3> QED BY <3>2 DEF Is
  <2>2. validargs(args) = [do |-> "help", indent |-> 0]
    <3> DEFINE a == given(1, "-v")
               b == given(1, "-c")
               h == given(1, "-h")
    <3>1. n \in 1 .. 3 /\ h /\ ~a /\ ~b
      BY <1>5, <2>1
    <3>2. validargs(args) =
          CASE n \notin 1 .. 3 -> Rejected
            [] n \in 1 .. 3 /\ h -> [do |-> "help", indent |-> 0]
            [] n = 1 /\ a -> [do |-> "validate", indent |-> 0]
            [] n = 1 /\ b -> [do |-> "canonicalize", indent |-> 0]
            [] n = 2 /\ b /\ given(2, "-p") -> [do |-> "pretty", indent |-> 4]
            [] n = 3 /\ b /\ given(2, "-p") /\ Numeral(args[3])
                 /\ args[3].number <= 127 -> [do |-> "pretty", indent |-> args[3].number]
            [] OTHER -> Rejected
      BY DEF validargs
    <3> HIDE DEF a, b, h, n
    <3> QED BY <3>1, <3>2
  <2> QED BY <1>2, <2>2
<1> DEFINE pretty(k) == [do |-> "pretty", indent |-> k]
<1>6. \A k \in Nat : pretty(k) \in Options
  BY DEF Options
<1>7. n = 3 /\ Numeral(args[3]) => args[3].number \in Nat
  BY <1>1 DEF Numeral
<1>8. CASE n \in 1 .. 3 /\ ~given(1, "-h")
  <2> DEFINE a == given(1, "-v")
             b == given(1, "-c")
             p == given(2, "-p")
             h == given(1, "-h")
             k == args[3].number
             q == n = 3 /\ Numeral(args[3]) /\ k <= 127
  <2>1. validargs(args) =
          CASE n \notin 1 .. 3 -> Rejected
            [] n \in 1 .. 3 /\ h -> [do |-> "help", indent |-> 0]
            [] n = 1 /\ a -> [do |-> "validate", indent |-> 0]
            [] n = 1 /\ b -> [do |-> "canonicalize", indent |-> 0]
            [] n = 2 /\ b /\ p -> [do |-> "pretty", indent |-> 4]
            [] n = 3 /\ b /\ p /\ Numeral(args[3]) /\ k <= 127 -> pretty(k)
            [] OTHER -> Rejected
    BY DEF validargs
  <2>2. n = 3 /\ Numeral(args[3]) => k \in Nat
    BY <1>7
  <2>3. ~h /\ n \in 1 .. 3
    BY <1>8
  <2>4. [do |-> "pretty", indent |-> 4] \in Options
    BY DEF Options
  <2> HIDE DEF a, b, p, h, k, n
  <2>5. CASE n = 1 /\ a
    <3>1. validargs(args) \in {[do |-> "validate", indent |-> 0], [do |-> "canonicalize", indent |-> 0]}
      BY <2>1, <2>3, <2>5
    <3> QED BY <1>2, <3>1
  <2>6. CASE n = 1 /\ ~a /\ b
    <3>1. validargs(args) = [do |-> "canonicalize", indent |-> 0]
      BY <2>1, <2>3, <2>6
    <3> QED BY <1>2, <3>1
  <2>7. CASE n = 1 /\ ~a /\ ~b
    BY <2>1, <2>3, <2>7, <1>3
  <2>8. CASE n = 2 /\ b /\ p
    <3>1. validargs(args) = [do |-> "pretty", indent |-> 4]
      BY <2>1, <2>3, <2>8
    <3> QED BY <2>4, <3>1
  <2>9. CASE n = 2 /\ ~(b /\ p)
    BY <2>1, <2>3, <2>9, <1>3
  <2>10. CASE n = 3 /\ b /\ p /\ Numeral(args[3]) /\ k <= 127
    <3>1. validargs(args) = pretty(k)
      BY <2>1, <2>3, <2>10
    <3> QED BY <1>6, <2>2, <2>10, <3>1
  <2>11. CASE n = 3 /\ ~(b /\ p /\ Numeral(args[3]) /\ k <= 127)
    <3>1. validargs(args) = Rejected
      BY <2>1, <2>3, <2>11
    <3> QED BY <1>3, <3>1
  <2> QED BY <2>3, <2>5, <2>6, <2>7, <2>8, <2>9, <2>10, <2>11
<1> QED BY <1>4, <1>5, <1>8

\* The inductive invariant, as far as the reader needs it.
Checked == ReaderOK /\ Budget /\ Within

\* The program begins with types, stack and budget as they should be.
LEMMA InitChecked ==
    ASSUME Init
    PROVE  Checked
<1>1. /\ pc = "main" /\ result = "none" /\ calls = <<>> /\ turns = 0 /\ values = 0 /\ level = 0
      /\ argo_value_storage = [i \in Slots |-> Value] /\ argo_next_value = 0
      /\ input \in Inputs /\ argv \in Argvs /\ stdin = input.text /\ stdout = <<>>
      /\ options = [do |-> "none", indent |-> 0] /\ earlier = Nothing
  BY DEF Init
<1>2. argo_value_storage \in Storages
  BY <1>1, NewValue DEF Storages
<1>3. stdin \in Bytes /\ stdout \in Bytes /\ earlier.stdout \in Bytes
  BY <1>1, InputAssumption DEF Bytes, Byte, Nothing
<1>4. argo_next_value \in Slots /\ 0 \in Nat /\ 0 \in Int
  BY <1>1, SlotsFacts
<1>5. options \in Options
  BY <1>1 DEF Options
<1>6. TypeOK
  <2>1. stdin = Text
    BY <1>1 DEF Text
  <2> QED BY <1>1, <1>2, <1>3, <1>4, <1>5, <2>1 DEF TypeOK, CallsOK, ResultOK, Begun
<1>7. ContainerLists
  <2>1. \A i \in Slots : argo_value_storage[i].type \notin Containers
    BY <1>1, NewValue DEF Untyped, Containers
  <2> QED BY <2>1 DEF ContainerLists
<1> QED BY <1>1, <1>6, <1>7 DEF Checked, ReaderOK, StackOK, Budget, Within

\* The action main keeps the types, the stack and the budget.
LEMMA MainStep ==
    ASSUME Checked, main
    PROVE  Checked' /\ turns' = 1 /\ (pc' = "exit" => calls' = <<>> /\ result' = "none")
<1>1. /\ pc = "main" /\ options' = validargs(argv) /\ turns' = turns + 1
      /\ UNCHANGED <<argo_value_storage, argo_next_value, input, argv, earlier, level, stdout, result, values>>
      /\ \/ pc' = "exit" /\ UNCHANGED <<stdin, calls>>
         \/ pc' = "read" /\ stdin' = Rest(stdin) /\ calls' = <<ValueCall>>
  BY DEF main, store
<1>2. TypeOK
  BY DEF Checked, ReaderOK
<1>3. /\ result = "none" /\ argo_value_storage = [i \in Slots |-> Value] /\ argo_next_value = 0
      /\ stdin = Text /\ turns = 0 /\ values = 0 /\ calls = <<>> /\ stdin \in Bytes
  BY <1>1, <1>2 DEF TypeOK, CallsOK, ResultOK, Begun
<1>4. options' \in Options
  BY <1>1, <1>2, ValidargsFacts DEF TypeOK
<1>5. ValueCall \in ReadCalls /\ ValueCall.fn = "value" /\ ValueCall.at = "loop" /\ ValueCall.c = Fetch(stdin)
  <2>1. Fetch(stdin) \in Chars /\ 0 \in Slots
    BY <1>3, FetchRest, SlotsFacts
  <2> QED BY <2>1 DEF ValueCall, ReadCalls
<1>6. Rest(stdin) \in Bytes
  BY <1>3, FetchRest
<1>7. ContainerLists'
  <2>1. \A i \in Slots : argo_value_storage'[i].type \notin Containers
    BY <1>1, <1>3, NewValue DEF Untyped, Containers
  <2> QED BY <2>1 DEF ContainerLists
<1>8. Text' = Text /\ Len(Text) \in Nat
  BY <1>1, <1>2, TextIsBytes DEF Text
<1>9. turns' = 1 /\ result' = "none"
  BY <1>1, <1>3
<1>10. CASE pc' = "exit" /\ UNCHANGED <<stdin, calls>>
  <2>1. TypeOK'
    BY <1>1, <1>2, <1>3, <1>4, <1>9, <1>10 DEF TypeOK, CallsOK, ResultOK, Begun
  <2>2. Within'
    <3> DEFINE l == Len(Text)
    <3>1. l \in Nat
      BY <1>8
    <3> HIDE DEF l
    <3>2. 1 <= 2 + 5 * (1 + l)
      BY <3>1
    <3> QED BY <1>8, <1>9, <1>10, <3>2 DEF Within, TurnsPerCharacter, l
  <2> QED BY <1>3, <1>7, <1>9, <1>10, <2>1, <2>2 DEF Checked, ReaderOK, StackOK, Budget
<1>11. CASE pc' = "read" /\ stdin' = Rest(stdin) /\ calls' = <<ValueCall>>
  <2>1. calls' \in Seq(ReadCalls) /\ Len(calls') = 1 /\ calls'[1] = ValueCall /\ calls' # <<>>
        /\ DOMAIN calls' = {1}
    BY <1>5, <1>11
  <2>2. TypeOK'
    BY <1>1, <1>2, <1>3, <1>4, <1>6, <1>9, <1>11, <2>1 DEF TypeOK, CallsOK, ResultOK, Begun
  <2>3. StackOK'
    BY <1>5, <2>1 DEF StackOK
  <2>4. Call' = ValueCall
    BY <2>1 DEF Call, Last
  <2>5. Within'
    BY <1>11 DEF Within
  <2>6. Budget'
    <3> DEFINE l == Len(Text)
               m == Len(Rest(stdin))
    <3>1. l \in Nat /\ m \in Nat /\ l = Len(stdin)
      BY <1>3, <1>6, <1>8 DEF Bytes
    <3>2. stdin = <<>> => Fetch(stdin) = EOF /\ m = 0 /\ l = 0
      BY <1>3, <3>1, FetchRest
    <3>3. stdin # <<>> => m = l - 1 /\ l > 0
      BY <1>3, <3>1, FetchRest
    <3>4. IndexSlack' = 2 * (l - m) - 0 /\ TurnSlack' = 5 * (l - m) - 0 - 1
      BY <1>1, <1>3, <1>8, <1>9, <1>11 DEF IndexSlack, TurnSlack
    <3>5. IndexSlack' >= 0 /\ TurnSlack' >= -1 /\ (Fetch(stdin) # EOF => IndexSlack' >= 2 /\ TurnSlack' >= 4)
      <4> HIDE DEF l, m
      <4>1. l - m >= 0 /\ (Fetch(stdin) # EOF => l - m = 1) /\ l - m \in Int
        BY <3>1, <3>2, <3>3
      <4> QED BY <3>4, <4>1
    <3> QED BY <1>5, <2>4, <3>5 DEF Budget, Slack
  <2> QED BY <1>7, <1>9, <1>11, <2>2, <2>3, <2>5, <2>6 DEF Checked, ReaderOK
<1> QED BY <1>1, <1>10, <1>11

\* A step of the writer that writes bytes keeps the types.
LEMMA WriterStep ==
    ASSUME Checked, pc = "write", WriterKeeps, stdout' \in Bytes, level' \in Int,
           \/ pc' = "write" /\ calls' \in Seq(WriteCalls)
           \/ pc' = "exit" /\ calls' = <<>>
    PROVE  Checked'
<1>1. /\ UNCHANGED <<argo_value_storage, argo_next_value, chosen, stdin, result, values>>
      /\ turns' = turns + 1
  BY DEF WriterKeeps, Turned, store
<1>2. TypeOK /\ result = "storage" /\ turns' \in Nat
  BY <1>1 DEF Checked, ReaderOK, TypeOK, ResultOK
<1>3. TypeOK'
  BY <1>1, <1>2 DEF TypeOK, CallsOK, ResultOK, Begun, chosen
<1>4. ContainerLists'
  BY <1>1 DEF Checked, ReaderOK, ContainerLists
<1> QED BY <1>1, <1>2, <1>3, <1>4 DEF Checked, ReaderOK, StackOK, Budget, Within

Wr == Checked /\ pc = "write"

\* The types of what the writer works on; the list of a container is in the slot
\* behind it.
LEMMA WrFacts ==
    ASSUME Wr
    PROVE  /\ argo_value_storage \in Storages /\ calls \in Seq(WriteCalls)
           /\ stdout \in Bytes /\ level \in Int /\ options \in Options /\ options.indent \in Int
           /\ \A i \in Slots : /\ argo_value_storage[i] \in Values
                               /\ argo_value_storage[i].type \in Containers =>
                                     /\ argo_value_storage[i].list = i + 1 /\ i + 1 \in Slots
                                     /\ WriteCall(argo_value_storage[i]) \in WriteCalls
                                     /\ WriteCall(argo_value_storage[i]).head = argo_value_storage[i + 1].next
<1>1. TypeOK /\ pc = "write" /\ ContainerLists
  BY DEF Wr, Checked, ReaderOK
<1>2. /\ argo_value_storage \in Storages /\ calls \in Seq(WriteCalls)
      /\ stdout \in Bytes /\ level \in Int /\ options \in Options
  BY <1>1 DEF TypeOK, CallsOK
<1>3. options.indent \in Int
  BY <1>2 DEF Options
<1>4. ASSUME NEW i \in Slots
      PROVE  /\ argo_value_storage[i] \in Values
             /\ argo_value_storage[i].type \in Containers =>
                   /\ argo_value_storage[i].list = i + 1 /\ i + 1 \in Slots
                   /\ WriteCall(argo_value_storage[i]) \in WriteCalls
                   /\ WriteCall(argo_value_storage[i]).head = argo_value_storage[i + 1].next
  <2>1. argo_value_storage[i] \in Values
    BY <1>2 DEF Storages
  <2>2. SUFFICES ASSUME argo_value_storage[i].type \in Containers
                 PROVE  /\ argo_value_storage[i].list = i + 1 /\ i + 1 \in Slots
                        /\ WriteCall(argo_value_storage[i]) \in WriteCalls
                        /\ WriteCall(argo_value_storage[i]).head = argo_value_storage[i + 1].next
    BY <2>1
  <2>3. argo_value_storage[i].list = i + 1 /\ i + 1 \in Slots
    BY <1>1, <2>2 DEF ContainerLists
  <2>4. argo_value_storage[i + 1].next \in Slots
    BY <1>2, <2>3 DEF Storages, Values
  <2>5. WriteCall(argo_value_storage[i]) = [fn |-> argo_value_storage[i].type, head |-> argo_value_storage[i + 1].next]
    BY <2>3 DEF WriteCall
  <2> QED BY <2>2, <2>3, <2>4, <2>5 DEF WriteCalls
<1> QED BY <1>2, <1>3, <1>4

\* Brackets, commas and colons are bytes.
LEMMA SymbolBytes ==
    /\ <<>> \in Bytes /\ <<ARGO_COMMA>> \in Bytes /\ <<ARGO_COLON>> \in Bytes /\ <<ARGO_SPACE>> \in Bytes
    /\ \A type : OpenerOf(type) \in Bytes /\ <<CloserOf(type)>> \in Bytes
<1>1. <<>> \in Bytes /\ <<ARGO_COMMA>> \in Bytes /\ <<ARGO_COLON>> \in Bytes /\ <<ARGO_SPACE>> \in Bytes
  BY DEF Bytes, Byte, ARGO_COMMA, ARGO_COLON, ARGO_SPACE
<1>2. ASSUME NEW type PROVE OpenerOf(type) \in Bytes
  <2>1. <<ARGO_LBRACK>> \in Bytes /\ <<ARGO_LBRACE>> \in Bytes
    BY DEF Bytes, Byte, ARGO_LBRACK, ARGO_LBRACE
  <2> QED BY <2>1 DEF OpenerOf
<1>3. ASSUME NEW type PROVE <<CloserOf(type)>> \in Bytes
  <2>1. ARGO_RBRACK \in Byte /\ ARGO_RBRACE \in Byte
    BY DEF Byte, ARGO_RBRACK, ARGO_RBRACE
  <2>2. CloserOf(type) \in Byte
    BY <2>1 DEF CloserOf
  <2> QED BY <2>2 DEF Bytes
<1> QED BY <1>1, <1>2, <1>3

\* What follows an element is bytes.
LEMMA SeparatorBytes ==
    ASSUME Wr, NEW v \in Values, NEW n \in Int
    PROVE  Separator(v, n) \in Bytes
<1>1. indent(n) \in Bytes /\ Newline \in Bytes
  BY WrFacts, IndentBytes
<1>2. <<ARGO_COMMA>> \o indent(n) \in Bytes
  BY <1>1, SymbolBytes, JoinedBytes
<1> QED BY <1>1, <1>2, SymbolBytes DEF Separator

\* The name of a member is bytes.
LEMMA NamedBytes ==
    ASSUME Wr, Here \in Values
    PROVE  Named \in Bytes
<1>1. argo_write_string(Here.name) \in Bytes
  BY WrittenBytes
<1> DEFINE space == IF Pretty THEN <<ARGO_SPACE>> ELSE <<>>
           name == argo_write_string(Here.name)
<1>2. space \in Bytes /\ <<ARGO_COLON>> \in Bytes /\ <<>> \in Bytes
  BY SymbolBytes
<1>3. Named = IF Call.fn = "array" THEN <<>> ELSE name \o <<ARGO_COLON>> \o space
  BY DEF Named
<1>4. name \in Bytes
  BY <1>1
<1> HIDE DEF space, name
<1>5. name \o <<ARGO_COLON>> \in Bytes
  BY <1>2, <1>4, JoinedBytes
<1>6. name \o <<ARGO_COLON>> \o space \in Bytes
  BY <1>2, <1>5, JoinedBytes
<1> QED BY <1>2, <1>3, <1>6

\* The output stays bytes.
LEMMA WritesBytes ==
    ASSUME stdout \in Bytes, NEW text \in Bytes, Writes(text)
    PROVE  stdout' \in Bytes
  BY JoinedBytes DEF Writes

\* The action WriteValue keeps the types.
LEMMA WriteValueStep ==
    ASSUME Wr, WriteValue
    PROVE  Checked'
<1> DEFINE v == argo_value_storage[0]
<1>1. WriterKeeps /\ level' = level /\ calls = <<>>
      /\ IF v.type \in Containers
         THEN Writes(OpenerOf(v.type) \o indent(level)) /\ calls' = <<WriteCall(v)>> /\ pc' = "write"
         ELSE Writes(Written(v) \o Newline) /\ pc' = "exit" /\ calls' = <<>>
  BY DEF WriteValue, Wr, Containers
<1>2. /\ stdout \in Bytes /\ level \in Int /\ options.indent \in Int
      /\ v \in Values /\ (v.type \in Containers => WriteCall(v) \in WriteCalls)
  BY WrFacts, SlotsFacts
<1>3. indent(level) \in Bytes /\ Newline \in Bytes
  BY <1>2, IndentBytes
<1> HIDE DEF v
<1>4. CASE v.type \in Containers
  <2>1. OpenerOf(v.type) \o indent(level) \in Bytes
    BY <1>3, SymbolBytes, JoinedBytes
  <2>2. stdout' \in Bytes
    BY <1>1, <1>2, <1>4, <2>1, WritesBytes
  <2>3. <<WriteCall(v)>> \in Seq(WriteCalls)
    BY <1>2, <1>4
  <2> QED BY <1>1, <1>2, <1>4, <2>2, <2>3, WriterStep DEF Wr
<1>5. CASE v.type \notin Containers
  <2>1. Written(v) \in Bytes
    BY <1>2, WrittenBytes
  <2>2. Written(v) \o Newline \in Bytes
    BY <1>3, <2>1, JoinedBytes
  <2>3. stdout' \in Bytes
    BY <1>1, <1>2, <1>5, <2>2, WritesBytes
  <2> QED BY <1>1, <1>2, <1>5, <2>3, WriterStep DEF Wr
<1> QED BY <1>4, <1>5

\* What is known of the element that is about to be written.
LEMMA WritingFacts ==
    ASSUME Wr, calls # <<>>
    PROVE  /\ Len(calls) \in Nat \ {0} /\ Call = calls[Len(calls)] /\ Call \in WriteCalls
           /\ Call.head \in Slots /\ Here \in Values /\ Here.next \in Slots
           /\ \A c \in WriteCalls : Replaced(c) \in Seq(WriteCalls)
<1>1. calls \in Seq(WriteCalls)
  BY WrFacts
<1>2. Len(calls) \in Nat \ {0} /\ Call = calls[Len(calls)] /\ Call \in WriteCalls
  BY <1>1, TopCall DEF Call
<1>3. Call.head \in Slots
  BY <1>2 DEF WriteCalls
<1>4. Here \in Values
  BY <1>3, WrFacts DEF Here
<1>5. Here.next \in Slots
  BY <1>4 DEF Values
<1>6. \A c \in WriteCalls : Replaced(c) \in Seq(WriteCalls)
  BY <1>1, TopCall DEF Replaced
<1> QED BY <1>2, <1>3, <1>4, <1>5, <1>6

\* The action WriteScalar keeps the types.
LEMMA WriteScalarStep ==
    ASSUME Wr, WriteScalar
    PROVE  Checked'
<1>1. /\ WriterKeeps /\ calls # <<>> /\ level' = level /\ pc' = "write"
      /\ Writes(Named \o Written(Here) \o Separator(Here, level))
      /\ calls' = Replaced([Call EXCEPT !.head = Here.next])
  BY DEF WriteScalar, Wr, Writing
<1>2. stdout \in Bytes /\ level \in Int
  BY WrFacts
<1>3. Here \in Values /\ Here.next \in Slots /\ Call \in WriteCalls
  BY <1>1, WritingFacts
<1>4. Named \in Bytes /\ Written(Here) \in Bytes /\ Separator(Here, level) \in Bytes
  BY <1>2, <1>3, NamedBytes, WrittenBytes, SeparatorBytes
<1>5. Named \o Written(Here) \in Bytes
  BY <1>4, JoinedBytes
<1>6. Named \o Written(Here) \o Separator(Here, level) \in Bytes
  BY <1>4, <1>5, JoinedBytes
<1>7. stdout' \in Bytes
  BY <1>1, <1>2, <1>6, WritesBytes
<1>8. [Call EXCEPT !.head = Here.next] \in WriteCalls
  BY <1>3 DEF WriteCalls
<1>9. calls' \in Seq(WriteCalls)
  BY <1>1, <1>8, WritingFacts
<1> QED BY <1>1, <1>2, <1>7, <1>9, WriterStep DEF Wr

\* The action WriteNested keeps the types.
LEMMA WriteNestedStep ==
    ASSUME Wr, WriteNested
    PROVE  Checked'
<1>1. /\ WriterKeeps /\ calls # <<>> /\ level' = level + 1 /\ pc' = "write" /\ Here.type \in Containers
      /\ Writes(Named \o OpenerOf(Here.type) \o indent(level + 1))
      /\ calls' = Append(calls, WriteCall(Here))
  BY DEF WriteNested, Wr, Writing, Containers
<1>2. stdout \in Bytes /\ level \in Int /\ level + 1 \in Int /\ options.indent \in Int /\ calls \in Seq(WriteCalls)
  BY WrFacts
<1>3. Here \in Values /\ Call.head \in Slots
  BY <1>1, WritingFacts
<1>4. WriteCall(Here) \in WriteCalls
  BY <1>1, <1>3, WrFacts DEF Here
<1>5. Named \in Bytes /\ indent(level + 1) \in Bytes /\ OpenerOf(Here.type) \in Bytes
  BY <1>2, <1>3, NamedBytes, IndentBytes, SymbolBytes
<1>6. Named \o OpenerOf(Here.type) \in Bytes
  BY <1>5, JoinedBytes
<1>7. Named \o OpenerOf(Here.type) \o indent(level + 1) \in Bytes
  BY <1>5, <1>6, JoinedBytes
<1>8. stdout' \in Bytes
  BY <1>1, <1>2, <1>7, WritesBytes
<1>9. calls' \in Seq(WriteCalls)
  BY <1>1, <1>2, <1>4
<1> QED BY <1>1, <1>2, <1>8, <1>9, WriterStep DEF Wr

\* The action WriteClose keeps the types.
LEMMA WriteCloseStep ==
    ASSUME Wr, WriteClose
    PROVE  Checked'
<1> DEFINE n == Len(calls)
           outer == calls[n - 1]
           v == argo_value_storage[outer.head]
           new == [outer EXCEPT !.head = v.next]
<1>1. /\ WriterKeeps /\ calls # <<>> /\ n > 1 /\ level' = level - 1 /\ pc' = "write"
      /\ Writes(indent(level - 1) \o <<CloserOf(v.type)>> \o Separator(v, level - 1))
      /\ calls' = Append(SubSeq(calls, 1, n - 2), new)
  BY DEF WriteClose, Wr, Writing
<1>2. stdout \in Bytes /\ level \in Int /\ level - 1 \in Int /\ options.indent \in Int /\ calls \in Seq(WriteCalls)
  BY WrFacts
<1>3. n \in Nat /\ n - 1 \in 1 .. n
  BY <1>1, <1>2
<1>4. outer \in WriteCalls
  BY <1>2, <1>3
<1>5. outer.head \in Slots
  BY <1>4 DEF WriteCalls
<1>6. v \in Values
  BY <1>5, WrFacts
<1> HIDE DEF v, outer
<1>7. indent(level - 1) \in Bytes /\ <<CloserOf(v.type)>> \in Bytes /\ Separator(v, level - 1) \in Bytes
  BY <1>2, <1>6, IndentBytes, SymbolBytes, SeparatorBytes
<1>8. indent(level - 1) \o <<CloserOf(v.type)>> \in Bytes
  BY <1>7, JoinedBytes
<1>9. indent(level - 1) \o <<CloserOf(v.type)>> \o Separator(v, level - 1) \in Bytes
  BY <1>7, <1>8, JoinedBytes
<1>10. stdout' \in Bytes
  BY <1>1, <1>2, <1>9, WritesBytes
<1>11. new \in WriteCalls
  <2>1. v.next \in Slots
    BY <1>6 DEF Values
  <2> QED BY <1>4, <2>1 DEF WriteCalls
<1>12. calls' \in Seq(WriteCalls)
  <2> HIDE DEF new
  <2>1. SubSeq(calls, 1, n - 2) \in Seq(WriteCalls)
    BY <1>2, <1>3
  <2> QED BY <1>1, <1>11, <2>1
<1> QED BY <1>1, <1>2, <1>10, <1>12, WriterStep DEF Wr

\* The action WriteEnd keeps the types.
LEMMA WriteEndStep ==
    ASSUME Wr, WriteEnd
    PROVE  Checked'
<1>1. /\ WriterKeeps /\ level' = level /\ pc' = "exit" /\ calls' = <<>>
      /\ Writes(<<CloserOf(Call.fn)>> \o Newline)
  BY DEF WriteEnd
<1>2. stdout \in Bytes /\ level \in Int /\ options.indent \in Int
  BY WrFacts
<1>3. <<CloserOf(Call.fn)>> \in Bytes /\ Newline \in Bytes
  BY <1>2, IndentBytes, SymbolBytes
<1>4. <<CloserOf(Call.fn)>> \o Newline \in Bytes
  BY <1>3, JoinedBytes
<1>5. stdout' \in Bytes
  BY <1>1, <1>2, <1>4, WritesBytes
<1> QED BY <1>1, <1>2, <1>5, WriterStep DEF Wr

\* The action RunAgain keeps the types.
LEMMA RunAgainStep ==
    ASSUME Checked, RunAgain
    PROVE  Checked'
<1>1. /\ pc = "exit" /\ stdin' = stdout
      /\ earlier' = [ran |-> TRUE, value |-> ValueAt(0), strings |-> StringsRead, stdout |-> stdout]
      /\ argo_value_storage' = [i \in Slots |-> Value] /\ argo_next_value' = 0
      /\ calls' = <<>> /\ level' = 0 /\ stdout' = <<>> /\ pc' = "main" /\ result' = "none"
      /\ values' = 0 /\ turns' = 0 /\ UNCHANGED <<input, argv, options>> /\ earlier = Nothing
  BY DEF RunAgain, Piped
<1>2. TypeOK
  BY DEF Checked, ReaderOK
<1>3. earlier'.stdout = stdout /\ stdout \in Bytes
  BY <1>1, <1>2 DEF TypeOK
<1>4. argo_value_storage' \in Storages
  BY <1>1, NewValue DEF Storages
<1>5. stdin' = Text'
  <2>1. earlier' # Nothing
    BY <1>1 DEF Nothing
  <2> QED BY <1>1, <1>3, <2>1 DEF Text
<1>6. argo_next_value' \in Slots /\ values' \in Nat /\ turns' \in Nat /\ level' \in Int /\ stdout' \in Bytes
  BY <1>1, SlotsFacts, SymbolBytes
<1>7. TypeOK'
  BY <1>1, <1>2, <1>3, <1>4, <1>5, <1>6 DEF TypeOK, CallsOK, ResultOK, Begun
<1>8. ContainerLists'
  <2>1. \A i \in Slots : argo_value_storage'[i].type \notin Containers
    BY <1>1, NewValue DEF Untyped, Containers
  <2> QED BY <2>1 DEF ContainerLists
<1> QED BY <1>1, <1>7, <1>8 DEF Checked, ReaderOK, StackOK, Budget, Within

\* Every step keeps the types, the shape of the stack, and the budget.
LEMMA CheckedStep ==
    ASSUME Checked, [Next]_vars
    PROVE  Checked'
<1>1. CASE UNCHANGED vars
  <2>1. UNCHANGED <<argo_value_storage, argo_next_value, input, argv, options, earlier, stdin, calls,
                    level, stdout, pc, result, values, turns>>
    BY <1>1 DEF vars, store, chosen
  <2> QED BY <2>1 DEF Checked, ReaderOK, TypeOK, CallsOK, ResultOK, Begun, Text, StackOK, ContainerLists,
                      Call, Budget, Slack, IndexSlack, TurnSlack, Within
<1>2. CASE main
  BY <1>2, MainStep
<1>3. CASE Reader
  <2>1. Rd /\ Budget
    BY <1>3 DEF Checked, Rd, Reader, Open, EndOfInput, Close, Turn, Skip, ReadName, Nest, ReadScalar,
                BackFromNested, NextCharacter, ReadTop, EndRead, Testing, Reading
  <2>2. ReaderStep => Checked'
    BY DEF ReaderStep, Checked
  <2>3. CASE Open
    BY <2>1, <2>2, <2>3, OpenStep
  <2>4. CASE EndOfInput
    BY <2>1, <2>2, <2>4, EndOfInputStep
  <2>5. CASE Close
    BY <2>1, <2>2, <2>5, CloseStep
  <2>6. CASE Turn
    BY <2>1, <2>2, <2>6, TurnStep
  <2>7. CASE Skip
    BY <2>1, <2>2, <2>7, SkipStep
  <2>8. CASE ReadName
    BY <2>1, <2>2, <2>8, ReadNameStep
  <2>9. CASE Nest
    BY <2>1, <2>2, <2>9, NestStep
  <2>10. CASE ReadScalar
    BY <2>1, <2>2, <2>10, ReadScalarStep
  <2>11. CASE BackFromNested
    BY <2>1, <2>2, <2>11, BackFromNestedStep
  <2>12. CASE NextCharacter
    BY <2>1, <2>2, <2>12, NextCharacterStep
  <2>13. CASE ReadTop
    BY <2>1, <2>2, <2>13, ReadTopStep
  <2>14. CASE EndRead
    <3>1. ReaderOK' /\ Budget' /\ pc' # "overrun" /\ result' = "storage"
      BY <2>1, <2>14, EndReadStep
    <3> QED BY <3>1 DEF Checked, Within
  <2> QED BY <1>3, <2>3, <2>4, <2>5, <2>6, <2>7, <2>8, <2>9, <2>10, <2>11, <2>12, <2>13, <2>14 DEF Reader
<1>4. CASE Writer
  <2>1. Wr
    BY <1>4 DEF Wr, Writer, WriteValue, WriteScalar, WriteNested, WriteClose, WriteEnd, Writing
  <2> QED BY <1>4, <2>1, WriteValueStep, WriteScalarStep, WriteNestedStep, WriteCloseStep, WriteEndStep
          DEF Writer
<1>5. CASE RunAgain
  BY <1>5, RunAgainStep
<1>6. CASE Exited
  <2>1. UNCHANGED vars
    BY <1>6 DEF Exited
  <2> QED BY <1>1, <2>1
<1> QED BY <1>1, <1>2, <1>3, <1>4, <1>5, <1>6 DEF Next

\* Every variable keeps its type, the stack of the reader stays in order, the list of
\* a container stays in the slot behind it, and the characters read so far pay for the
\* slots and for the turns: two slots and five turns each, wherever the reader is.
THEOREM CheckedAlways == Spec => []Checked
<1>1. Init => Checked
  BY InitChecked
<1>2. Checked /\ [Next]_vars => Checked'
  BY CheckedStep
<1> QED BY <1>1, <1>2, PTL DEF Spec

-----------------------------------------------------------------------------
(* The shape of the storage while it is read. *)

\* The lists that are open, the one whose last slot is the next to be filled, and
\* whether the container in that slot waits for its list.
Opens == {calls[k].sent : k \in {j \in 2 .. Len(calls) : calls[j].at # "first"}}
Ready == IF Call.fn # "value" /\ Call.at \in {"loop", "test"} THEN Call.sent ELSE 0
Fresh == Call.at = "first"

\* Where the calls that are in a list are.
Waiting(own) ==
    \A k \in 2 .. Len(calls) : calls[k].at \in {"test", "nested"} =>
        calls[k].last \in 0 .. argo_next_value /\ own[calls[k].last] = calls[k].sent

Laid(own) ==
    /\ Structure(own, argo_value_storage, argo_next_value, Opens, Ready, Fresh)
    /\ Waiting(own)

ReadShape ==
    pc = "read" /\ values <= 1 =>
        /\ values = 0 => argo_next_value = 0 /\ Call.fn = "value" /\ Call.at = "loop"
        /\ \E own : Laid(own)

Settled(own) == Structure(own, argo_value_storage, argo_next_value, {}, 0, FALSE)
DoneShape == result = "storage" /\ values <= 1 => \E own : Settled(own)

\* The list of the call that runs is the last that is open.
LEMMA OpensTop ==
    ASSUME Top
    PROVE  /\ Call.fn = "value" => Opens = {}
           /\ Call.fn # "value" => Len(calls) \in 2 .. Len(calls) /\ Call = calls[Len(calls)]
           /\ Call.fn # "value" /\ Call.at # "first" =>
                 Call.sent \in Opens /\ \A r \in Opens : r <= Call.sent
<1> DEFINE n == Len(calls)
<1>1. /\ n \in Nat \ {0} /\ Call = calls[n] /\ (Call.fn = "value" <=> n = 1)
      /\ DOMAIN calls = 1 .. n
  BY TopFacts
<1>2. Call.fn = "value" => Opens = {}
  BY <1>1 DEF Opens
<1>3. Call.fn # "value" => n \in 2 .. n
  BY <1>1
<1>4. ASSUME Call.fn # "value", Call.at # "first"
      PROVE  Call.sent \in Opens /\ \A r \in Opens : r <= Call.sent
  <2>1. Call.sent \in Opens
    BY <1>1, <1>3, <1>4 DEF Opens
  <2>2. ASSUME NEW k \in 2 .. n PROVE calls[k].sent <= Call.sent
    <3>1. calls[n].sent \in Nat /\ n \in DOMAIN calls
      <4>1. Call \in ReadCalls
        BY TopFacts
      <4>2. n \in DOMAIN calls
        BY <1>1
      <4> QED BY <1>1, <4>1, <4>2 DEF ReadCalls
    <3>2. CASE k = n
      BY <1>1, <3>1, <3>2
    <3>3. CASE k # n
      <4>1. k \in 2 .. (n - 1) /\ k \in 1 .. n
        <5>1. n \in Nat
          BY <1>1
        <5> HIDE DEF n
        <5> QED BY <3>3, <5>1
      <4>2. calls[k].sent < calls[n].sent
        BY <3>1, <4>1 DEF Top, StackOK
      <4>3. calls[k] \in ReadCalls
        BY <1>1, <4>1 DEF Top
      <4>4. calls[k].sent \in Nat
        BY <4>3 DEF ReadCalls
      <4> QED BY <1>1, <3>1, <4>2, <4>4
    <3> QED BY <3>2, <3>3
  <2> QED BY <2>1, <2>2 DEF Opens
<1> QED BY <1>1, <1>2, <1>3, <1>4

\* The open lists when a call goes on.
LEMMA OpensReplaced ==
    ASSUME Top, NEW c2 \in ReadCalls, c2.fn = Call.fn, c2.sent = Call.sent, c2.at # "first",
           Call' = c2, Len(calls') = Len(calls), calls' \in Seq(ReadCalls), calls' # <<>>,
           \A k \in 1 .. (Len(calls) - 1) : calls'[k] = calls[k]
    PROVE  /\ Opens' = IF Call.at = "first" THEN Opens \cup {Call.sent} ELSE Opens
           /\ Ready' = (IF c2.fn # "value" /\ c2.at \in {"loop", "test"} THEN c2.sent ELSE 0)
           /\ Fresh' = FALSE
<1> DEFINE n == Len(calls)
<1>1. /\ n \in Nat \ {0} /\ Call = calls[n] /\ (Call.fn = "value" <=> n = 1)
      /\ Call.fn = "value" => Call.at \in {"loop", "nested"}
      /\ DOMAIN calls = 1 .. n
  BY TopFacts
<1>2. calls'[n] = c2
  <2>1. Call' = calls'[Len(calls')]
    BY TopCall DEF Call
  <2> QED BY <2>1
<1>3. ASSUME NEW k \in 2 .. n, k # n PROVE calls'[k] = calls[k]
  <2>1. k \in 1 .. (n - 1)
    BY <1>1, <1>3
  <2> QED BY <2>1
<1>4. Ready' = (IF c2.fn # "value" /\ c2.at \in {"loop", "test"} THEN c2.sent ELSE 0) /\ Fresh' = FALSE
  BY DEF Ready, Fresh
<1>5. Opens' = {calls'[k].sent : k \in {j \in 2 .. n : calls'[j].at # "first"}}
  BY DEF Opens
<1>6. CASE n = 1
  <2>1. 2 .. n = {}
    BY <1>6
  <2>2. Opens = {} /\ Opens' = {} /\ Call.at # "first"
    BY <1>1, <1>5, <1>6, <2>1 DEF Opens
  <2> QED BY <1>4, <2>2
<1>7. CASE n # 1
  <2>1. n \in 2 .. n
    BY <1>1, <1>7
  <2> HIDE DEF n
  <2>2. \A k \in 2 .. n : /\ calls'[k].sent = calls[k].sent
                          /\ k # n => calls'[k].at = calls[k].at
    BY <1>1, <1>2, <1>3
  <2>3. Opens' = {calls[k].sent : k \in {j \in 2 .. n : j = n \/ calls[j].at # "first"}}
    <3>1. \A j \in 2 .. n : calls'[j].at # "first" <=> (j = n \/ calls[j].at # "first")
      BY <1>2, <2>2
    <3> QED BY <1>5, <2>2, <3>1
  <2>4. Opens = {calls[k].sent : k \in {j \in 2 .. n : calls[j].at # "first"}}
    BY DEF Opens, n
  <2>5. Opens' = IF Call.at = "first" THEN Opens \cup {Call.sent} ELSE Opens
    BY <1>1, <2>1, <2>3, <2>4
  <2> QED BY <1>4, <2>5
<1> QED BY <1>6, <1>7

\* The open lists when a call returns: its own is closed.
LEMMA OpensReturned ==
    ASSUME Top, Call.fn # "value", Call'.at = "nested", Len(calls') = Len(calls) - 1,
           \A k \in 1 .. (Len(calls) - 1) : calls'[k] = calls[k]
    PROVE  Opens' = (IF Call.at = "first" THEN Opens ELSE Opens \ {Call.sent}) /\ Ready' = 0 /\ Fresh' = FALSE
<1> DEFINE n == Len(calls)
<1>1. /\ n \in Nat \ {0} /\ Call = calls[n] /\ n # 1 /\ DOMAIN calls = 1 .. n
  BY TopFacts
<1>2. Ready' = 0 /\ Fresh' = FALSE
  BY DEF Ready, Fresh
<1>3. ASSUME NEW k \in 2 .. (n - 1) PROVE calls'[k] = calls[k] /\ calls[k].sent < calls[n].sent
                                          /\ calls[k].sent \in Nat
  <2>1. k \in 1 .. (n - 1) /\ n \in DOMAIN calls /\ k \in 1 .. n
    BY <1>1
  <2>2. calls[k].sent < calls[n].sent
    BY <2>1 DEF Top, StackOK
  <2>3. calls[k] \in ReadCalls
    BY <1>1, <2>1 DEF Top
  <2>4. calls[k].sent \in Nat
    BY <2>3 DEF ReadCalls
  <2> QED BY <2>1, <2>2, <2>4
<1>4. Opens' = {calls'[k].sent : k \in {j \in 2 .. (n - 1) : calls'[j].at # "first"}}
  BY DEF Opens
<1>5. Opens = {calls[k].sent : k \in {j \in 2 .. n : calls[j].at # "first"}}
  BY DEF Opens
<1>6. \A j : j \in 2 .. n <=> (j \in 2 .. (n - 1) \/ j = n)
  BY <1>1
<1>7. \A j \in 2 .. (n - 1) : calls[j].sent # calls[n].sent
  <2>1. calls[n].sent \in Nat
    <3>1. Call \in ReadCalls
      BY TopFacts
    <3> QED BY <1>1, <3>1 DEF ReadCalls
  <2> QED BY <1>3, <2>1
<1> HIDE DEF n
<1>8. Opens' = {calls[k].sent : k \in {j \in 2 .. (n - 1) : calls[j].at # "first"}}
  BY <1>3, <1>4
<1>9. Opens' = IF Call.at = "first" THEN Opens ELSE Opens \ {Call.sent}
  BY <1>1, <1>5, <1>6, <1>7, <1>8
<1> QED BY <1>2, <1>9

\* The open lists when a call makes another: none yet.
LEMMA OpensNested ==
    ASSUME Top, NEW c2 \in ReadCalls, c2.sent = Call.sent, c2.at = "nested", Call.at # "first",
           Call'.at = "first", Len(calls') = Len(calls) + 1, calls'[Len(calls)] = c2,
           calls'[Len(calls) + 1] = Call',
           \A k \in 1 .. (Len(calls) - 1) : calls'[k] = calls[k]
    PROVE  Opens' = Opens /\ Ready' = 0 /\ Fresh' = TRUE
<1> DEFINE n == Len(calls)
<1>1. n \in Nat \ {0} /\ Call = calls[n]
  BY TopFacts
<1>2. Ready' = 0 /\ Fresh' = TRUE
  BY DEF Ready, Fresh
<1>3. \A k \in 2 .. n : k # n => calls'[k] = calls[k]
  <2>1. \A k \in 2 .. n : k # n => k \in 1 .. (n - 1)
    BY <1>1
  <2> QED BY <2>1
<1>4. Opens' = {calls'[k].sent : k \in {j \in 2 .. (n + 1) : calls'[j].at # "first"}}
  BY DEF Opens
<1>5. Opens = {calls[k].sent : k \in {j \in 2 .. n : calls[j].at # "first"}}
  BY DEF Opens
<1>6. \A j : j \in 2 .. (n + 1) <=> (j \in 2 .. n \/ j = n + 1)
  BY <1>1
<1> HIDE DEF n
<1>7. \A j \in 2 .. n : calls'[j].sent = calls[j].sent /\ (calls'[j].at # "first" <=> calls[j].at # "first")
  BY <1>1, <1>3 DEF n
<1>8. calls'[n + 1].at = "first"
  BY DEF n
<1>9. Opens' = Opens
  BY <1>4, <1>5, <1>6, <1>7, <1>8
<1> QED BY <1>2, <1>9

\* The stack when a call goes on.
LEMMA ReplacedFacts ==
    ASSUME Top, NEW c2, calls' = Replaced(c2), calls' \in Seq(ReadCalls)
    PROVE  /\ c2 \in ReadCalls /\ Call' = c2 /\ Len(calls') = Len(calls) /\ calls' # <<>>
           /\ \A k \in 1 .. (Len(calls) - 1) : calls'[k] = calls[k]
<1> DEFINE n == Len(calls)
<1>1. n \in Nat \ {0} /\ DOMAIN calls = 1 .. n
  BY TopFacts
<1>2. calls' = [calls EXCEPT ![n] = c2]
  BY DEF Replaced
<1>3. DOMAIN calls' = 1 .. n
  BY <1>1, <1>2
<1>4. Len(calls') = n
  BY <1>1, <1>3
<1>5. n \in 1 .. n
  BY <1>1
<1>6. calls'[n] = c2 /\ \A k \in 1 .. n : k # n => calls'[k] = calls[k]
  BY <1>1, <1>2, <1>5
<1>7. c2 \in ReadCalls
  BY <1>4, <1>5, <1>6
<1>8. calls' # <<>>
  BY <1>1, <1>4
<1>9. Call' = c2
  BY <1>4, <1>6, <1>8, TopCall DEF Call
<1>10. \A k \in 1 .. (n - 1) : calls'[k] = calls[k]
  <2>1. \A k \in 1 .. (n - 1) : k \in 1 .. n /\ k # n
    <3>1. n \in Nat
      BY <1>1
    <3> HIDE DEF n
    <3> QED BY <3>1
  <2> QED BY <1>6, <2>1
<1> QED BY <1>4, <1>7, <1>8, <1>9, <1>10

\* The stack when a call returns.
LEMMA ReturnedFacts ==
    ASSUME Top, Call.fn # "value", calls' = Front(calls)
    PROVE  /\ Len(calls') = Len(calls) - 1 /\ Call'.at = "nested"
           /\ \A k \in 1 .. (Len(calls) - 1) : calls'[k] = calls[k]
<1> DEFINE n == Len(calls)
<1>1. n \in Nat \ {0} /\ DOMAIN calls = 1 .. n /\ n # 1 /\ calls \in Seq(ReadCalls) /\ calls # <<>>
  BY TopFacts DEF Top
<1>2. /\ calls' \in Seq(ReadCalls) /\ Len(calls') = n - 1
      /\ \A k \in 1 .. (n - 1) : calls'[k] = calls[k]
  BY <1>1, TopCall
<1>3. n - 1 \in 1 .. n /\ n - 1 < n /\ n - 1 \in 1 .. (n - 1)
  BY <1>1
<1>4. calls' # <<>>
  BY <1>2, <1>3
<1>5. Call' = calls'[n - 1]
  <2>1. Last(calls') = calls'[Len(calls')]
    BY <1>2, <1>4, TopCall
  <2>2. Call' = Last(calls')
    BY DEF Call
  <2>3. calls'[Len(calls')] = calls'[n - 1]
    BY <1>2
  <2> QED BY <2>1, <2>2, <2>3
<1>6. calls[n - 1].at = "nested"
  BY <1>1, <1>3 DEF Top, StackOK
<1> QED BY <1>2, <1>3, <1>5, <1>6

\* The calls under the one on top are where they were.
LEMMA WaitingBelow ==
    ASSUME Top, NEW own, Waiting(own), NEW own2,
           \A i \in 0 .. argo_next_value : own[i] # Call.sent => own2[i] = own[i],
           argo_next_value' \in Nat, argo_next_value' >= argo_next_value,
           \A k \in 1 .. (Len(calls) - 1) : calls'[k] = calls[k]
    PROVE  \A k \in 2 .. (Len(calls) - 1) : calls'[k].at \in {"test", "nested"} =>
               calls'[k].last \in 0 .. argo_next_value' /\ own2[calls'[k].last] = calls'[k].sent
<1> DEFINE n == Len(calls)
<1>1. n \in Nat \ {0} /\ DOMAIN calls = 1 .. n /\ Call = calls[n] /\ calls \in Seq(ReadCalls)
      /\ argo_next_value \in Nat
  BY TopFacts DEF Top
<1>2. SUFFICES ASSUME NEW k \in 2 .. (n - 1), calls'[k].at \in {"test", "nested"}
               PROVE  calls'[k].last \in 0 .. argo_next_value' /\ own2[calls'[k].last] = calls'[k].sent
  OBVIOUS
<1>3. k \in 1 .. (n - 1) /\ k \in 2 .. n /\ k \in 1 .. n /\ n \in 1 .. n
  BY <1>1
<1>4. calls'[k] = calls[k]
  BY <1>3
<1>5. calls[k].last \in 0 .. argo_next_value /\ own[calls[k].last] = calls[k].sent
  BY <1>2, <1>3, <1>4 DEF Waiting
<1>6. calls[k].sent < calls[n].sent
  BY <1>1, <1>3 DEF Top, StackOK
<1>7. calls[k] \in ReadCalls /\ calls[n] \in ReadCalls
  BY <1>1, <1>3
<1>8. calls[k].sent # Call.sent
  <2>1. calls[k].sent \in Nat /\ calls[n].sent \in Nat
    BY <1>7 DEF ReadCalls
  <2> QED BY <1>1, <1>6, <2>1
<1>9. own2[calls[k].last] = calls[k].sent
  BY <1>5, <1>8
<1>10. calls[k].last \in 0 .. argo_next_value'
  BY <1>1, <1>5
<1> QED BY <1>4, <1>9, <1>10

\* A call that goes on leaves the calls below it where they are in their lists.
LEMMA LaidReplaced ==
    ASSUME Top, NEW own, Waiting(own), NEW own2,
           \A i \in 0 .. argo_next_value : own[i] # Call.sent => own2[i] = own[i],
           argo_next_value' \in Nat, argo_next_value' >= argo_next_value,
           NEW c2, c2.fn = Call.fn, c2.sent = Call.sent, c2.at # "first",
           calls' = Replaced(c2), calls' \in Seq(ReadCalls),
           c2.at \in {"test", "nested"} /\ c2.fn # "value" =>
               c2.last \in 0 .. argo_next_value' /\ own2[c2.last] = c2.sent,
           NEW open, open = (IF Call.at = "first" THEN Opens \cup {Call.sent} ELSE Opens),
           NEW ready, ready = (IF c2.fn # "value" /\ c2.at \in {"loop", "test"} THEN c2.sent ELSE 0),
           Structure(own2, argo_value_storage', argo_next_value', open, ready, FALSE)
    PROVE  Laid(own2)'
<1> DEFINE n == Len(calls)
<1>1. /\ c2 \in ReadCalls /\ Call' = c2 /\ Len(calls') = n /\ calls' # <<>>
      /\ \A k \in 1 .. (n - 1) : calls'[k] = calls[k]
  BY ReplacedFacts
<1>2. Opens' = open /\ Ready' = ready /\ Fresh' = FALSE
  BY <1>1, OpensReplaced
<1>3. n \in Nat \ {0} /\ (Call.fn = "value" <=> n = 1)
  BY TopFacts
<1>4. calls'[n] = c2
  BY <1>1, TopCall DEF Call
<1>5. Waiting(own2)'
  <2>1. SUFFICES ASSUME NEW k \in 2 .. n, calls'[k].at \in {"test", "nested"}
                 PROVE  calls'[k].last \in 0 .. argo_next_value' /\ own2[calls'[k].last] = calls'[k].sent
    BY <1>1 DEF Waiting
  <2>2. CASE k = n
    <3>1. c2.fn # "value"
      BY <1>3, <2>2
    <3> QED BY <1>4, <2>1, <2>2, <3>1
  <2>3. CASE k # n
    <3>1. k \in 2 .. (n - 1)
      BY <1>3, <2>3
    <3> QED BY <1>1, <2>1, <3>1, WaitingBelow
  <2> QED BY <2>2, <2>3
<1> QED BY <1>2, <1>5 DEF Laid

\* A call that returns leaves the calls below it where they are in their lists.
LEMMA LaidReturned ==
    ASSUME Top, Call.fn # "value", NEW own, Waiting(own), NEW own2,
           \A i \in 0 .. argo_next_value : own[i] # Call.sent => own2[i] = own[i],
           argo_next_value' \in Nat, argo_next_value' >= argo_next_value,
           calls' = Front(calls),
           NEW open, open = (IF Call.at = "first" THEN Opens ELSE Opens \ {Call.sent}),
           Structure(own2, argo_value_storage', argo_next_value', open, 0, FALSE)
    PROVE  Laid(own2)'
<1> DEFINE n == Len(calls)
<1>1. /\ Call'.at = "nested" /\ Len(calls') = n - 1
      /\ \A k \in 1 .. (n - 1) : calls'[k] = calls[k]
  BY ReturnedFacts
<1>2. Opens' = open /\ Ready' = 0 /\ Fresh' = FALSE
  BY <1>1, OpensReturned
<1>3. Waiting(own2)'
  <2>1. \A k \in 1 .. (Len(calls) - 1) : calls'[k] = calls[k]
    BY <1>1
  <2>2. Len(calls') = Len(calls) - 1
    BY <1>1
  <2> HIDE DEF n
  <2>3. \A k \in 2 .. (Len(calls) - 1) : calls'[k].at \in {"test", "nested"} =>
            calls'[k].last \in 0 .. argo_next_value' /\ own2[calls'[k].last] = calls'[k].sent
    BY <2>1, WaitingBelow
  <2> QED BY <2>2, <2>3 DEF Waiting
<1> QED BY <1>2, <1>3 DEF Laid

\* The last call of a list, and what a step keeps.
LEMMA LaidFacts ==
    ASSUME Rd, NEW own, Laid(own)
    PROVE  /\ Structure(own, argo_value_storage, argo_next_value, Opens, Ready, Fresh)
           /\ Waiting(own) /\ own \in [0 .. argo_next_value -> 0 .. argo_next_value]
           /\ Call.fn # "value" /\ Call.at # "first" =>
                 /\ Call.sent \in Opens /\ Call.sent \in 1 .. argo_next_value
                 /\ \A r \in Opens : r <= Call.sent
           /\ Call.fn # "value" /\ Call.at \in {"loop", "test"} =>
                 own[argo_next_value] = Call.sent /\ Ready = Call.sent
           /\ Call.fn # "value" /\ Call.at \in {"test", "nested"} =>
                 Call.last \in 0 .. argo_next_value /\ own[Call.last] = Call.sent
           /\ Call.at \notin {"loop", "test"} \/ Call.fn = "value" => Ready = 0
           /\ Opens \subseteq 1 .. argo_next_value
<1>1. Top
  BY RdFacts
<1>2. Structure(own, argo_value_storage, argo_next_value, Opens, Ready, Fresh) /\ Waiting(own)
  BY DEF Laid
<1>3. own \in [0 .. argo_next_value -> 0 .. argo_next_value]
  BY <1>2 DEF Structure, Owners
<1>4. Call.fn # "value" /\ Call.at # "first" =>
          /\ Call.sent \in Opens /\ Call.sent \in 1 .. argo_next_value
          /\ \A r \in Opens : r <= Call.sent
  BY <1>1, OpensTop, TopFacts
<1>5. Call.fn # "value" /\ Call.at \in {"loop", "test"} =>
          own[argo_next_value] = Call.sent /\ Ready = Call.sent
  <2>1. SUFFICES ASSUME Call.fn # "value" /\ Call.at \in {"loop", "test"}
                 PROVE  own[argo_next_value] = Call.sent /\ Ready = Call.sent
    OBVIOUS
  <2>2. Ready = Call.sent
    BY <2>1 DEF Ready
  <2>3. Call.sent \in 1 .. argo_next_value
    BY <1>4, <2>1
  <2>4. Ready # 0
    BY <2>2, <2>3
  <2> QED BY <1>2, <2>2, <2>4 DEF Structure, Opened
<1>6. Call.fn # "value" /\ Call.at \in {"test", "nested"} =>
          Call.last \in 0 .. argo_next_value /\ own[Call.last] = Call.sent
  BY <1>1, <1>2, OpensTop DEF Waiting
<1>7. Call.at \notin {"loop", "test"} \/ Call.fn = "value" => Ready = 0
  BY DEF Ready
<1>8. Opens \subseteq 1 .. argo_next_value
  BY <1>2 DEF Structure, Opened
<1> QED BY <1>2, <1>3, <1>4, <1>5, <1>6, <1>7, <1>8

Shapes == ReadShape /\ DoneShape
\* The reader goes on, and has met no second value.
Sh == Rd /\ ReadShape /\ values <= 1

\* The reader that goes on reads.
LEMMA NextReads ==
    ASSUME Rd, ReaderOK', GoesOn
    PROVE  /\ pc' = "read" /\ calls' \in Seq(ReadCalls) /\ argo_next_value' \in Nat
           /\ argo_next_value' \in Slots /\ argo_value_storage' \in Storages
           /\ result' = "none"
<1>1. pc' = "read" /\ result' = "none"
  BY RdFacts DEF GoesOn
<1> QED BY <1>1, SlotsFacts DEF ReaderOK, TypeOK, CallsOK

\* What is known while the reader is at its first value.
LEMMA ShFacts ==
    ASSUME Sh
    PROVE  /\ Rd /\ Top /\ \E own : Laid(own)
           /\ values = 0 => argo_next_value = 0 /\ Call.fn = "value" /\ Call.at = "loop"
  BY RdFacts DEF Sh, Rd, ReadShape

\* A reader that goes on keeps the shape of the storage.
LEMMA ShapesGoOn ==
    ASSUME result' = "none", NEW own, Laid(own)',
           values' = 0 => argo_next_value' = 0 /\ Call'.fn = "value" /\ Call'.at = "loop"
    PROVE  Shapes'
  BY DEF Shapes, ReadShape, DoneShape

\* A reader that fails or leaves the storage leaves no list to speak of.
LEMMA ShapesGone ==
    ASSUME pc' # "read", result' # "storage"
    PROVE  Shapes'
  BY DEF Shapes, ReadShape, DoneShape

\* The action Turn keeps the shape of the storage.
LEMMA TurnShape ==
    ASSUME Sh, ReaderOK', Turn
    PROVE  Shapes'
<1> DEFINE c2 == [Call EXCEPT !.last = argo_next_value, !.at = "test", !.from = 1]
<1>1. /\ GoesOn /\ values' = values /\ argo_next_value' = argo_next_value
      /\ argo_value_storage' = argo_value_storage /\ calls' = Replaced(c2)
      /\ Call.at = "loop" /\ Call.fn = "array"
  BY DEF Turn, ReaderKeeps, Reading, store
<1>2. Rd /\ Top /\ argo_next_value \in Nat /\ Call \in ReadCalls /\ Call.fn # "value"
  BY <1>1, ShFacts, RdFacts, TopFacts
<1>3. PICK own : Laid(own)
  BY ShFacts
<1>4. /\ Structure(own, argo_value_storage, argo_next_value, Opens, Call.sent, FALSE) /\ Waiting(own)
      /\ own[argo_next_value] = Call.sent
  BY <1>1, <1>2, <1>3, LaidFacts DEF Fresh
<1>5. pc' = "read" /\ calls' \in Seq(ReadCalls) /\ result' = "none"
  BY <1>1, <1>2, NextReads
<1>6. c2.fn = Call.fn /\ c2.sent = Call.sent /\ c2.at = "test" /\ c2.last = argo_next_value
  BY <1>2 DEF ReadCalls
<1> HIDE DEF c2
<1>7. Laid(own)'
  <2>1. /\ argo_next_value' \in Nat /\ argo_next_value' >= argo_next_value /\ c2.at # "first"
        /\ c2.last \in 0 .. argo_next_value' /\ own[c2.last] = c2.sent
    BY <1>1, <1>2, <1>4, <1>6
  <2>2. Opens = (IF Call.at = "first" THEN Opens \cup {Call.sent} ELSE Opens)
        /\ Call.sent = (IF c2.fn # "value" /\ c2.at \in {"loop", "test"} THEN c2.sent ELSE 0)
    BY <1>1, <1>2, <1>6
  <2>3. Structure(own, argo_value_storage', argo_next_value', Opens, Call.sent, FALSE)
    BY <1>1, <1>4
  <2> QED BY <1>1, <1>2, <1>4, <1>5, <1>6, <2>1, <2>2, <2>3, LaidReplaced
<1>8. values' # 0
  BY <1>1, <1>2, ShFacts
<1> QED BY <1>5, <1>7, <1>8, ShapesGoOn

\* The action Skip keeps the shape of the storage.
LEMMA SkipShape ==
    ASSUME Sh, ReaderOK', Skip
    PROVE  Shapes'
<1> DEFINE c2 == [Call EXCEPT !.last = argo_next_value, !.c = Fetch(stdin)]
<1>1. /\ GoesOn /\ values' = values /\ argo_next_value' = argo_next_value
      /\ argo_value_storage' = argo_value_storage /\ calls' = Replaced(c2)
      /\ Call.at = "loop" /\ Call.fn = "object"
  BY DEF Skip, ReaderKeeps, Reading, store
<1>2. Rd /\ Top /\ argo_next_value \in Nat /\ Call \in ReadCalls /\ Call.fn # "value"
  BY <1>1, ShFacts, RdFacts, TopFacts
<1>3. PICK own : Laid(own)
  BY ShFacts
<1>4. /\ Structure(own, argo_value_storage, argo_next_value, Opens, Call.sent, FALSE) /\ Waiting(own)
  BY <1>1, <1>2, <1>3, LaidFacts DEF Fresh
<1>5. pc' = "read" /\ calls' \in Seq(ReadCalls) /\ result' = "none"
  BY <1>1, <1>2, NextReads
<1>6. c2.fn = Call.fn /\ c2.sent = Call.sent /\ c2.at = "loop"
  BY <1>1, <1>2 DEF ReadCalls
<1> HIDE DEF c2
<1>7. Laid(own)'
  <2>1. argo_next_value' \in Nat /\ argo_next_value' >= argo_next_value /\ c2.at # "first"
        /\ c2.at \notin {"test", "nested"}
    BY <1>1, <1>2, <1>6
  <2>2. Opens = (IF Call.at = "first" THEN Opens \cup {Call.sent} ELSE Opens)
        /\ Call.sent = (IF c2.fn # "value" /\ c2.at \in {"loop", "test"} THEN c2.sent ELSE 0)
    BY <1>1, <1>2, <1>6
  <2>3. Structure(own, argo_value_storage', argo_next_value', Opens, Call.sent, FALSE)
    BY <1>1, <1>4
  <2> QED BY <1>1, <1>2, <1>4, <1>5, <1>6, <2>1, <2>2, <2>3, LaidReplaced
<1>8. values' # 0
  BY <1>1, <1>2, ShFacts
<1> QED BY <1>5, <1>7, <1>8, ShapesGoOn

\* The action NextCharacter keeps the shape of the storage.
LEMMA NextCharacterShape ==
    ASSUME Sh, ReaderOK', NextCharacter
    PROVE  Shapes'
<1> DEFINE stays == Call.fn = "object" /\ Call.c # EOF
           c2 == [Call EXCEPT !.c = Fetch(stdin), !.from = 1,
                              !.at = IF stays THEN "test" ELSE "loop"]
<1>1. /\ GoesOn /\ values' = values /\ argo_next_value' = argo_next_value
      /\ argo_value_storage' = argo_value_storage /\ calls' = Replaced(c2)
      /\ \/ Testing({"value", "array", "object"})
         \/ Call.fn = "value" /\ Call.at = "nested"
  BY DEF NextCharacter, ReaderKeeps, Reading, store
<1>2. Rd /\ Top /\ argo_next_value \in Nat /\ Call \in ReadCalls
  BY ShFacts, RdFacts, TopFacts
<1>3. PICK own : Laid(own)
  BY ShFacts
<1>4. \/ Call.at = "test" /\ Call.fn # "value"
      \/ Call.at \in {"loop", "nested"} /\ Call.fn = "value"
  BY <1>1, <1>2, TestingFacts
<1>5. pc' = "read" /\ calls' \in Seq(ReadCalls) /\ result' = "none"
  BY <1>1, <1>2, NextReads
<1>6. c2.fn = Call.fn /\ c2.sent = Call.sent /\ c2.at = (IF stays THEN "test" ELSE "loop") /\ c2.last = Call.last
  BY <1>2 DEF ReadCalls
<1> HIDE DEF c2
<1>7. /\ Structure(own, argo_value_storage, argo_next_value, Opens, Ready, FALSE) /\ Waiting(own)
      /\ Ready = (IF c2.fn # "value" /\ c2.at \in {"loop", "test"} THEN c2.sent ELSE 0)
      /\ Call.fn # "value" => Call.last \in 0 .. argo_next_value /\ own[Call.last] = Call.sent
  <2>1. Structure(own, argo_value_storage, argo_next_value, Opens, Ready, FALSE) /\ Waiting(own)
    BY <1>2, <1>3, <1>4, LaidFacts DEF Fresh
  <2>2. CASE Call.fn # "value"
    <3>1. Ready = Call.sent
      BY <1>4, <2>2 DEF Ready
    <3>2. Call.last \in 0 .. argo_next_value /\ own[Call.last] = Call.sent
      BY <1>2, <1>3, <1>4, <2>2, LaidFacts
    <3> QED BY <1>6, <2>1, <2>2, <3>1, <3>2
  <2>3. CASE Call.fn = "value"
    BY <1>6, <2>1, <2>3 DEF Ready
  <2> QED BY <2>2, <2>3
<1>8. Laid(own)'
  <2>1. /\ argo_next_value' \in Nat /\ argo_next_value' >= argo_next_value /\ c2.at # "first"
        /\ c2.fn # "value" => c2.last \in 0 .. argo_next_value' /\ own[c2.last] = c2.sent
    BY <1>1, <1>2, <1>6, <1>7
  <2>2. Opens = (IF Call.at = "first" THEN Opens \cup {Call.sent} ELSE Opens)
    BY <1>4
  <2>3. Structure(own, argo_value_storage', argo_next_value', Opens, Ready, FALSE)
    BY <1>1, <1>7
  <2> QED BY <1>1, <1>2, <1>5, <1>6, <1>7, <2>1, <2>2, <2>3, LaidReplaced
<1>9. values' = 0 => argo_next_value' = 0 /\ Call'.fn = "value" /\ Call'.at = "loop"
  <2>1. Call' = c2
    BY <1>1, <1>2, <1>5, ReplacedFacts
  <2> QED BY <1>1, <1>6, <2>1, ShFacts
<1> QED BY <1>5, <1>8, <1>9, ShapesGoOn

\* The action ReadName keeps the shape of the storage.
LEMMA ReadNameShape ==
    ASSUME Sh, ReaderOK', ReadName
    PROVE  Shapes'
<1> DEFINE v == argo_value_storage[argo_next_value]
           read == argo_read_string(v.name, stdin)
           w == [v EXCEPT !.name = read.value]
           c2 == [Call EXCEPT !.last = argo_next_value, !.c = Fetch(read.in), !.at = "test", !.from = 1]
<1>1. /\ values' = values /\ argo_next_value' = argo_next_value
      /\ Call.at = "loop" /\ Call.fn = "object"
      /\ IF read.ok
         THEN /\ argo_value_storage' = [argo_value_storage EXCEPT ![argo_next_value].name = read.value]
              /\ calls' = Replaced(c2) /\ GoesOn
         ELSE Fails
  BY DEF ReadName, ReaderKeeps, Reading
<1>2. /\ Rd /\ Top /\ argo_next_value \in Nat /\ Call \in ReadCalls /\ Call.fn # "value"
      /\ argo_value_storage \in Storages /\ argo_next_value \in Slots /\ v \in Values /\ stdin \in Bytes
  BY <1>1, ShFacts, RdFacts, TopFacts
<1>3. PICK own : Laid(own)
  BY ShFacts
<1>4. /\ Structure(own, argo_value_storage, argo_next_value, Opens, Call.sent, FALSE) /\ Waiting(own)
      /\ own[argo_next_value] = Call.sent
  BY <1>1, <1>2, <1>3, LaidFacts DEF Fresh
<1>5. read \in Reads
  <2>1. v.name \in Seq(Int)
    BY <1>2 DEF Values
  <2> QED BY <1>2, <2>1, ReadString
<1> HIDE DEF read
<1>6. read.ok \in BOOLEAN /\ read.value \in Seq(Int)
  BY <1>5 DEF Reads
<1>7. CASE ~read.ok
  BY <1>1, <1>7, ShapesGone DEF Fails
<1>8. CASE read.ok
  <2>1. /\ argo_value_storage' = [argo_value_storage EXCEPT ![argo_next_value] = w]
        /\ calls' = Replaced(c2) /\ GoesOn
    BY <1>1, <1>8
  <2>2. pc' = "read" /\ calls' \in Seq(ReadCalls) /\ result' = "none"
    BY <1>2, <2>1, NextReads
  <2>3. c2.fn = Call.fn /\ c2.sent = Call.sent /\ c2.at = "test" /\ c2.last = argo_next_value
    BY <1>2 DEF ReadCalls
  <2>4. w.type = v.type /\ w.next = v.next /\ w.prev = v.prev
    BY <1>2, <1>6, NamedValue
  <2> HIDE DEF c2, w
  <2>5. \A i \in Slots : /\ argo_value_storage'[i].type = argo_value_storage[i].type
                         /\ argo_value_storage'[i].next = argo_value_storage[i].next
                         /\ argo_value_storage'[i].prev = argo_value_storage[i].prev
    BY <1>2, <2>1, <2>4 DEF Storages
  <2>6. Structure(own, argo_value_storage', argo_next_value', Opens, Call.sent, FALSE)
    BY <1>1, <1>2, <1>4, <2>5, SameLinks
  <2>7. /\ argo_next_value' \in Nat /\ argo_next_value' >= argo_next_value /\ c2.at # "first"
        /\ c2.last \in 0 .. argo_next_value' /\ own[c2.last] = c2.sent
    BY <1>1, <1>2, <1>4, <2>3
  <2>8. Opens = (IF Call.at = "first" THEN Opens \cup {Call.sent} ELSE Opens)
        /\ Call.sent = (IF c2.fn # "value" /\ c2.at \in {"loop", "test"} THEN c2.sent ELSE 0)
    BY <1>1, <1>2, <2>3
  <2>9. Laid(own)'
    BY <1>2, <1>4, <2>1, <2>2, <2>3, <2>6, <2>7, <2>8, LaidReplaced
  <2>10. values' # 0
    BY <1>1, <1>2, ShFacts
  <2> QED BY <2>2, <2>9, <2>10, ShapesGoOn
<1> QED BY <1>6, <1>7, <1>8

\* The action Close keeps the shape of the storage.
LEMMA CloseShape ==
    ASSUME Sh, ReaderOK', Close
    PROVE  Shapes'
<1> DEFINE n == argo_next_value
           s == Call.sent
           st2 == link(argo_value_storage, s, n)
<1>1. /\ GoesOn /\ values' = values /\ argo_next_value' = n
      /\ argo_value_storage' = st2 /\ calls' = Front(calls)
      /\ Call.at = "loop" /\ Call.fn \in {"array", "object"}
  BY DEF Close, ReaderKeeps, ReturnsWith, Reading
<1>2. /\ Rd /\ Top /\ n \in Nat /\ Call \in ReadCalls /\ Call.fn # "value"
      /\ argo_value_storage \in Storages /\ n \in Slots
  BY <1>1, ShFacts, RdFacts, TopFacts
<1>3. PICK own : Laid(own)
  BY ShFacts
<1>4. /\ Structure(own, argo_value_storage, n, Opens, s, FALSE) /\ Waiting(own)
      /\ own[n] = s /\ s \in Opens /\ s \in 1 .. n
  BY <1>1, <1>2, <1>3, LaidFacts DEF Fresh
<1>5. Linked(argo_value_storage, st2, s, n)
  <2>1. s \in Slots
    BY <1>2, <1>4, SlotsFacts
  <2> QED BY <1>2, <2>1, LinkFacts
<1>6. n \in 0 .. n /\ s \in {0, s}
  BY <1>2
<1>7. Structure(Cut(own, n, s, n), st2, n, Opens \ {s}, 0, FALSE)
  <2> HIDE DEF st2, n, s
  <2> QED BY <1>2, <1>4, <1>5, <1>6, CloseList
<1>8. \A i \in 0 .. n : own[i] # s => Cut(own, n, s, n)[i] = own[i]
  BY DEF Cut
<1>9. PICK own2 : own2 = Cut(own, n, s, n)
  OBVIOUS
<1>10. Laid(own2)'
  <2>1. /\ \A i \in 0 .. argo_next_value : own[i] # Call.sent => own2[i] = own[i]
        /\ argo_next_value' \in Nat /\ argo_next_value' >= argo_next_value
        /\ Opens \ {s} = (IF Call.at = "first" THEN Opens ELSE Opens \ {Call.sent})
    BY <1>1, <1>2, <1>8, <1>9
  <2>2. Structure(own2, argo_value_storage', argo_next_value', Opens \ {s}, 0, FALSE)
    BY <1>1, <1>7, <1>9
  <2> QED BY <1>1, <1>2, <1>4, <2>1, <2>2, LaidReturned
<1>11. values' # 0
  BY <1>1, <1>2, ShFacts
<1>12. result' = "none"
  BY <1>1, <1>2, NextReads
<1> QED BY <1>10, <1>11, <1>12, ShapesGoOn

\* The action Open keeps the shape of the storage.
LEMMA OpenShape ==
    ASSUME Sh, ReaderOK', Open
    PROVE  Shapes'
<1> DEFINE n == argo_next_value
           closes == Fetch(stdin) = CloserOf(Call.fn)
           top == IF closes THEN n + 1 ELSE n + 2
           c2 == [Call EXCEPT !.last = top, !.c = Fetch(stdin), !.at = "loop"]
           typed == [argo_value_storage EXCEPT ![n + 1].type = Untyped]
           st2 == link(typed, top, n + 1)
<1>1. values' = values /\ Call.at = "first" /\ Call.fn \in Containers
  BY DEF Open, ReaderKeeps, Reading, Containers
<1>2. /\ Rd /\ Top /\ n \in Nat /\ Call \in ReadCalls /\ Call.fn # "value" /\ n \in Slots
      /\ argo_value_storage \in Storages /\ Call.sent = n + 1
  BY <1>1, ShFacts, RdFacts, TopFacts DEF Containers
<1>3. IF top \notin Slots THEN Overruns
      ELSE /\ argo_next_value' = top /\ GoesOn /\ argo_value_storage' = st2
           /\ IF closes THEN calls' = Front(calls) ELSE calls' = Replaced(c2)
  <2>1. (n + 1) + 1 = n + 2
    BY <1>2
  <2> QED BY <2>1 DEF Open, ReturnsWith
<1>4. CASE top \notin Slots
  <2>1. pc' = "overrun" /\ result' = "none"
    BY <1>2, <1>3, <1>4, RdFacts DEF Overruns
  <2> QED BY <2>1, ShapesGone
<1>5. CASE top \in Slots
  <2>1. n + 1 \in Slots /\ n + 1 <= top /\ top \in Nat
    BY <1>2, <1>5, SlotsFacts
  <2>2. PICK own : Laid(own)
    BY ShFacts
  <2>3. /\ Structure(own, argo_value_storage, n, Opens, 0, TRUE) /\ Waiting(own)
        /\ Opens \subseteq 1 .. n
    BY <1>1, <1>2, <2>2, LaidFacts DEF Fresh
  <2>4. typed \in Storages /\ \A i \in Slots : /\ typed[i].type = argo_value_storage[i].type
                                               /\ typed[i].next = argo_value_storage[i].next
                                               /\ typed[i].prev = argo_value_storage[i].prev
    <3> DEFINE v == argo_value_storage[n + 1]
               w == [v EXCEPT !.type = Untyped]
    <3>1. v \in Values /\ v.type = Untyped
      <4>1. n + 1 > n
        BY <1>2
      <4> QED BY <1>2, <2>1, <2>3, <4>1 DEF Storages, Structure, Typed
    <3>2. w = v
      BY <3>1 DEF Values
    <3>3. typed = [argo_value_storage EXCEPT ![n + 1] = w]
      BY <1>2, <2>1 DEF Storages
    <3> HIDE DEF w
    <3>4. typed = argo_value_storage
      BY <1>2, <2>1, <3>2, <3>3 DEF Storages
    <3> QED BY <1>2, <3>4
  <2> HIDE DEF typed
  <2>5. Structure(own, typed, n, Opens, 0, TRUE)
    BY <1>2, <2>3, <2>4, SameLinks
  <2>6. Linked(typed, st2, top, n + 1)
    BY <1>5, <2>1, <2>4, LinkFacts
  <2>7. /\ argo_next_value' = top /\ GoesOn /\ argo_value_storage' = st2
        /\ IF closes THEN calls' = Front(calls) ELSE calls' = Replaced(c2)
    BY <1>3, <1>5
  <2>8. result' = "none" /\ pc' = "read" /\ calls' \in Seq(ReadCalls)
    BY <1>2, <2>7, NextReads
  <2>9. values' # 0
    BY <1>1, <1>2, ShFacts
  <2> HIDE DEF st2
  <2>10. argo_next_value' \in Nat /\ argo_next_value' >= argo_next_value
    BY <1>2, <2>1, <2>7
  <2>11. CASE closes
    <3> DEFINE cut == Cut(Grown(own, n, n + 1), n + 1, n + 1, n + 1)
    <3>1. Structure(cut, st2, n + 1, Opens, 0, FALSE)
      BY <1>2, <2>1, <2>3, <2>5, <2>6, <2>11, OpenEmpty
    <3>2. PICK own2 : own2 = cut
      OBVIOUS
    <3>3. \A i \in 0 .. argo_next_value : own[i] # Call.sent => own2[i] = own[i]
      <4> SUFFICES ASSUME NEW i \in 0 .. n PROVE cut[i] = own[i]
        BY <3>2
      <4>1. i \in 0 .. (n + 1) /\ i # n + 1 /\ ~(i > n + 1)
        BY <1>2
      <4> QED BY <4>1 DEF Cut, Grown
    <3>4. Laid(own2)'
      <4>1. Structure(own2, argo_value_storage', argo_next_value', Opens, 0, FALSE)
        BY <2>7, <2>11, <3>1, <3>2
      <4>2. Opens = (IF Call.at = "first" THEN Opens ELSE Opens \ {Call.sent})
        BY <1>1
      <4>3. calls' = Front(calls)
        BY <2>7, <2>11
      <4> HIDE DEF cut
      <4> QED BY <1>2, <2>3, <2>10, <3>3, <4>1, <4>2, <4>3, LaidReturned
    <3> QED BY <2>8, <2>9, <3>4, ShapesGoOn
  <2>12. CASE ~closes
    <3>1. PICK own2 : own2 = [i \in 0 .. (n + 2) |-> IF i > n THEN n + 1 ELSE own[i]]
      OBVIOUS
    <3>2. Structure(own2, st2, n + 2, Opens \cup {n + 1}, n + 1, FALSE)
      <4>1. top = n + 2
        BY <2>12
      <4>2. n + 2 \in Slots /\ Linked(typed, st2, n + 2, n + 1)
        BY <1>5, <2>6, <4>1
      <4>3. n \in Slots /\ Structure(own, typed, n, Opens, 0, TRUE) /\ Opens \subseteq 1 .. n
        BY <1>2, <2>3, <2>5
      <4> HIDE DEF closes, top, n
      <4> QED BY <3>1, <4>2, <4>3, OpenList
    <3>3. \A i \in 0 .. n : own2[i] = own[i]
      <4> SUFFICES ASSUME NEW i \in 0 .. n PROVE own2[i] = own[i]
        OBVIOUS
      <4>1. i \in 0 .. (n + 2) /\ ~(i > n)
        BY <1>2
      <4> QED BY <3>1, <4>1
    <3>4. c2.fn = Call.fn /\ c2.sent = Call.sent /\ c2.at = "loop"
      BY <1>2 DEF ReadCalls
    <3> HIDE DEF c2
    <3>5. Laid(own2)'
      <4>1. Structure(own2, argo_value_storage', argo_next_value', Opens \cup {Call.sent}, Call.sent, FALSE)
        BY <1>2, <2>7, <2>12, <3>2
      <4>2. Opens \cup {Call.sent} = (IF Call.at = "first" THEN Opens \cup {Call.sent} ELSE Opens)
            /\ Call.sent = (IF c2.fn # "value" /\ c2.at \in {"loop", "test"} THEN c2.sent ELSE 0)
            /\ c2.at # "first" /\ c2.at \notin {"test", "nested"}
        BY <1>1, <1>2, <3>4
      <4>3. calls' = Replaced(c2)
        BY <2>7, <2>12
      <4>4. \A i \in 0 .. argo_next_value : own[i] # Call.sent => own2[i] = own[i]
        BY <3>3
      <4> QED BY <1>2, <2>3, <2>8, <2>10, <3>4, <4>1, <4>2, <4>3, <4>4, LaidReplaced
    <3> QED BY <2>8, <2>9, <3>5, ShapesGoOn
  <2> QED BY <2>11, <2>12
<1> QED BY <1>4, <1>5

\* A value is put into the slot that is next.
LEMMA TypedTop ==
    ASSUME Sh, NEW own, Laid(own), NEW st, NEW fresh \in BOOLEAN,
           Call.fn # "value" => Call.at \in {"loop", "test"},
           Call.fn = "value" => argo_next_value = 0,
           Call.at # "first",
           NEW w, st = [argo_value_storage EXCEPT ![argo_next_value] = w],
           w.next = argo_value_storage[argo_next_value].next,
           w.prev = argo_value_storage[argo_next_value].prev,
           w.type # Untyped, w.type \in Containers => fresh
    PROVE  Structure(own, st, argo_next_value, Opens, 0, fresh)
<1> DEFINE n == argo_next_value
<1>1. Rd /\ n \in Slots /\ argo_value_storage \in Storages
  BY ShFacts, RdFacts
<1>2. Structure(own, argo_value_storage, n, Opens, Ready, FALSE)
  BY <1>1, LaidFacts DEF Fresh
<1>3. Ready # 0 \/ n = 0
  <2>1. CASE Call.fn # "value"
    <3>1. Ready = Call.sent /\ Call.sent \in 1 .. n
      BY <1>1, <2>1, LaidFacts
    <3> QED BY <3>1
  <2> QED BY <2>1
<1>4. \A i \in Slots : st[i] = IF i = n THEN w ELSE argo_value_storage[i]
  BY <1>1 DEF Storages
<1>5. /\ \A i \in Slots : st[i].next = argo_value_storage[i].next /\ st[i].prev = argo_value_storage[i].prev
      /\ \A i \in Slots : i # n => st[i].type = argo_value_storage[i].type
      /\ st[n].type # Untyped /\ (st[n].type \in Containers => fresh)
  BY <1>1, <1>4
<1> HIDE DEF n
<1>6. Structure(own, st, n, Opens, 0, fresh)
  BY <1>1, <1>2, <1>3, <1>5, TypeTop
<1> QED BY <1>6 DEF n

\* The action ReadTop keeps the shape of the storage.
LEMMA ReadTopShape ==
    ASSUME Sh, ReaderOK', ReadTop, values' <= 1
    PROVE  Shapes'
<1> DEFINE n == argo_next_value
           v == argo_value_storage[n]
           read == Scalar(Type, v)
           ahead == IF Type = "basic" THEN Rest(read.in) ELSE read.in
           c2 == [Call EXCEPT !.c = Fetch(ahead)]
           good == read.ok /\ (Type = "basic" => argo_is_whitespace(Fetch(read.in)))
<1>1. /\ values' = values + 1 /\ argo_next_value' = n
      /\ Testing({"value"}) /\ Choice <= 5 /\ Type \in Scalars
      /\ IF good
         THEN /\ argo_value_storage' = [argo_value_storage EXCEPT ![n] = read.value]
              /\ calls' = Replaced(c2) /\ GoesOn
         ELSE Fails
  BY DEF ReadTop, Scalars
<1>2. /\ Rd /\ Top /\ stdin \in Bytes /\ argo_value_storage \in Storages
      /\ n \in Slots /\ n \in Nat /\ values \in Nat
      /\ Call \in ReadCalls /\ v \in Values
  BY ShFacts, RdFacts, TopFacts
<1>3. values = 0 /\ n = 0
  <2>1. values = 0
    BY <1>1, <1>2
  <2> QED BY <2>1, ShFacts
<1>4. Call.fn = "value" /\ Call.at = "loop" /\ Begins(Type, Call.c)
  <2>1. Choice # 6
    BY <1>1
  <2> QED BY <1>1, <1>2, <2>1, TestingFacts
<1>5. Call.c \in Chars
  BY <1>2 DEF ReadCalls
<1>6. /\ read.ok \in BOOLEAN /\ read.value.type = Type
      /\ read.value.next = v.next /\ read.value.prev = v.prev
  BY <1>1, <1>2, <1>4, <1>5, ScalarFacts
<1> HIDE DEF read
<1>7. CASE ~good
  BY <1>1, <1>7, ShapesGone DEF Fails
<1>8. CASE good
  <2>1. /\ argo_value_storage' = [argo_value_storage EXCEPT ![n] = read.value]
        /\ calls' = Replaced(c2) /\ GoesOn
    BY <1>1, <1>8
  <2>2. pc' = "read" /\ calls' \in Seq(ReadCalls) /\ result' = "none"
    BY <1>2, <2>1, NextReads
  <2>3. PICK own : Laid(own)
    BY ShFacts
  <2>4. Type # Untyped /\ Type \notin Containers
    BY <1>1 DEF Scalars, Untyped, Containers
  <2>5. Structure(own, argo_value_storage', argo_next_value', Opens, 0, FALSE) /\ Waiting(own)
    <3>1. Structure(own, argo_value_storage', n, Opens, 0, FALSE)
      BY <1>3, <1>4, <1>6, <2>1, <2>3, <2>4, TypedTop
    <3> QED BY <1>1, <1>2, <2>3, <3>1, LaidFacts
  <2>6. c2.fn = Call.fn /\ c2.sent = Call.sent /\ c2.at = "loop"
    BY <1>2, <1>4 DEF ReadCalls
  <2> HIDE DEF c2
  <2>7. Laid(own)'
    <3>1. argo_next_value' \in Nat /\ argo_next_value' >= argo_next_value /\ c2.at # "first"
          /\ c2.at \notin {"test", "nested"}
      BY <1>1, <1>2, <2>6
    <3>2. Opens = (IF Call.at = "first" THEN Opens \cup {Call.sent} ELSE Opens)
          /\ 0 = (IF c2.fn # "value" /\ c2.at \in {"loop", "test"} THEN c2.sent ELSE 0)
      BY <1>4, <2>6
    <3> QED BY <1>2, <2>1, <2>2, <2>5, <2>6, <3>1, <3>2, LaidReplaced
  <2>8. values' # 0
    BY <1>1, <1>3
  <2> QED BY <2>2, <2>7, <2>8, ShapesGoOn
<1> QED BY <1>6, <1>7, <1>8

\* The action Nest keeps the shape of the storage.
LEMMA NestShape ==
    ASSUME Sh, ReaderOK', Nest, values' <= 1
    PROVE  Shapes'
<1> DEFINE n == argo_next_value
           v == argo_value_storage[n]
           w == [v EXCEPT !.type = Type, !.list = n + 1]
           c2 == [Call EXCEPT !.at = "nested", !.from = Choice]
           new == NewCall(Type, n)
<1>1. /\ GoesOn /\ values' = (IF Call.fn = "value" THEN values + 1 ELSE values)
      /\ argo_next_value' = n
      /\ Testing({"value", "array", "object"}) /\ Choice <= 5 /\ Type \in Containers
      /\ calls' = Append(Replaced(c2), new)
      /\ argo_value_storage' = [argo_value_storage EXCEPT ![n].type = Type, ![n].list = n + 1]
  BY DEF Nest, Meets, Containers, NewCall
<1>2. /\ Rd /\ Top /\ argo_value_storage \in Storages
      /\ n \in Slots /\ n \in Nat /\ values \in Nat
      /\ Call \in ReadCalls /\ v \in Values
  BY ShFacts, RdFacts, TopFacts
<1>3. \/ Call.at = "test" /\ Call.fn # "value"
      \/ Call.at = "loop" /\ Call.fn = "value"
  BY <1>1, <1>2, TestingFacts
<1>4. Choice \in 1 .. 2
  <2>1. Choice # 6 /\ Choice \in Call.from .. 6 /\ Call.from \in 1 .. 6
    BY <1>1, <1>2, TestingFacts
  <2>2. Choice \notin 3 .. 5
    <3>1. /\ Choice = 3 => Type = "string"
          /\ Choice = 4 => Type = "number"
          /\ Choice = 5 => Type = "basic"
      BY <1>1, <1>2, TestingFacts
    <3>2. Type \notin {"string", "number", "basic"}
      BY <1>1 DEF Containers
    <3> QED BY <3>1, <3>2
  <2> QED BY <2>1, <2>2
<1>5. Call.fn = "value" => values = 0 /\ n = 0
  <2>1. Call.fn = "value" => values = 0
    BY <1>1, <1>2
  <2> QED BY <2>1, ShFacts
<1>6. w.type = Type /\ w.next = v.next /\ w.prev = v.prev
  BY <1>2 DEF Values
<1>7. argo_value_storage' = [argo_value_storage EXCEPT ![n] = w]
  <2> DEFINE mid == [argo_value_storage EXCEPT ![n].type = Type]
  <2>1. mid \in [Slots -> Values] /\ mid[n] = [v EXCEPT !.type = Type]
    <3>1. [v EXCEPT !.type = Type] \in Values
      BY <1>1, <1>2 DEF Values, Types, Containers
    <3> QED BY <1>2, <3>1 DEF Storages
  <2>2. argo_value_storage' = [mid EXCEPT ![n] = [mid[n] EXCEPT !.list = n + 1]]
    BY <1>1, <1>2, <2>1 DEF Storages
  <2>3. [[v EXCEPT !.type = Type] EXCEPT !.list = n + 1] = w
    BY <1>2 DEF Values
  <2> QED BY <1>2, <2>1, <2>2, <2>3 DEF Storages
<1>8. c2.fn = Call.fn /\ c2.sent = Call.sent /\ c2.at = "nested" /\ c2.from = Choice /\ c2.last = Call.last
  BY <1>2 DEF ReadCalls
<1>9. c2 \in ReadCalls
  <2>1. Choice \in 1 .. 6 /\ "nested" \in {"first", "loop", "test", "nested"} /\ Call.c \in Chars
    BY <1>2, <1>4 DEF ReadCalls
  <2> QED BY <1>2, <2>1, CallChanges
<1> HIDE DEF w, c2
<1>10. pc' = "read" /\ calls' \in Seq(ReadCalls) /\ result' = "none"
  BY <1>1, <1>2, NextReads
<1>11. PICK own : Laid(own)
  BY ShFacts
<1>12. Structure(own, argo_value_storage', argo_next_value', Opens, 0, TRUE)
  <2>1. Type # Untyped /\ Call.at # "first" /\ (Call.fn # "value" => Call.at \in {"loop", "test"})
    BY <1>1, <1>3 DEF Containers, Untyped
  <2>2. Structure(own, argo_value_storage', n, Opens, 0, TRUE)
    BY <1>5, <1>6, <1>7, <1>11, <2>1, TypedTop
  <2> QED BY <1>1, <2>2
<1>13. /\ Call' = new /\ Len(calls') = Len(calls) + 1 /\ calls'[Len(calls)] = c2
       /\ calls'[Len(calls) + 1] = new
       /\ \A k \in 1 .. (Len(calls) - 1) : calls'[k] = calls[k]
  <2>1. c2.from \in 1 .. 2 /\ Call.at # "first" /\ pc' = pc
    BY <1>2, <1>3, <1>4, <1>8, <1>10, RdFacts
  <2> QED BY <1>1, <1>2, <1>8, <1>9, <2>1, StackNested
<1>14. new.at = "first"
  BY DEF NewCall
<1>15. Opens' = Opens /\ Ready' = 0 /\ Fresh' = TRUE
  <2>1. Call.at # "first"
    BY <1>3
  <2> HIDE DEF new
  <2> QED BY <1>2, <1>8, <1>9, <1>13, <1>14, <2>1, OpensNested
<1>16. Waiting(own)'
  <2> DEFINE m == Len(calls)
  <2>1. m \in Nat \ {0} /\ (Call.fn = "value" <=> m = 1)
    BY <1>2, TopFacts
  <2>2. Waiting(own)
    BY <1>2, <1>11, LaidFacts
  <2>3. \A k \in 2 .. (m - 1) : calls'[k].at \in {"test", "nested"} =>
            calls'[k].last \in 0 .. argo_next_value' /\ own[calls'[k].last] = calls'[k].sent
    <3>1. argo_next_value' \in Nat /\ argo_next_value' >= argo_next_value
      BY <1>1, <1>2
    <3> QED BY <1>2, <1>13, <2>2, <3>1, WaitingBelow
  <2>4. m # 1 => Call.last \in 0 .. argo_next_value' /\ own[Call.last] = Call.sent
    BY <1>1, <1>2, <1>3, <1>11, <2>1, LaidFacts
  <2>5. SUFFICES ASSUME NEW k \in 2 .. (m + 1), calls'[k].at \in {"test", "nested"}
                 PROVE  calls'[k].last \in 0 .. argo_next_value' /\ own[calls'[k].last] = calls'[k].sent
    BY <1>13 DEF Waiting
  <2>6. k # m + 1
    BY <1>13, <1>14, <2>5
  <2>7. CASE k = m
    <3>1. m # 1
      BY <2>7
    <3> QED BY <1>8, <1>13, <2>4, <2>7, <3>1
  <2>8. CASE k # m
    <3>1. k \in 2 .. (m - 1)
      <4> HIDE DEF m
      <4> QED BY <2>1, <2>5, <2>6, <2>8
    <3> QED BY <2>3, <2>5, <3>1
  <2> QED BY <2>7, <2>8
<1>17. Laid(own)'
  BY <1>12, <1>15, <1>16 DEF Laid
<1>18. values' # 0
  <2>1. CASE Call.fn = "value"
    BY <1>1, <1>5, <2>1
  <2>2. CASE Call.fn # "value"
    BY <1>1, <2>2, ShFacts
  <2> QED BY <2>1, <2>2
<1> QED BY <1>10, <1>17, <1>18, ShapesGoOn

\* What comes behind a value closes its list, or has a slot ready for the next.
LEMMA BehindShape ==
    ASSUME Sh, ReaderOK', values' = values, Call.fn \in Containers, Call.at \in {"test", "nested"},
           NEW own, Laid(own), NEW st \in Storages,
           Structure(own, st, argo_next_value, Opens, 0, FALSE),
           NEW previous \in 0 .. argo_next_value, own[previous] = Call.sent, Call.last <= previous,
           NEW in \in Bytes, NEW spaces \in BOOLEAN, NEW test \in 1 .. 5,
           Behind(st, in, previous, spaces, test)
    PROVE  Shapes'
<1> DEFINE n == argo_next_value
           s == Call.sent
<1>1. /\ Rd /\ Top /\ n \in Nat /\ n \in Slots /\ Call \in ReadCalls /\ Call.fn # "value" /\ Call.at # "first"
  BY ShFacts, RdFacts, TopFacts DEF Containers
<1>2. /\ Waiting(own) /\ s \in Opens /\ s \in 1 .. n /\ \A r \in Opens : r <= s
      /\ Call.last \in 0 .. n /\ own[Call.last] = s
      /\ own \in [0 .. n -> 0 .. n]
  BY <1>1, LaidFacts
<1>3. \/ BehindCloses(st, in)
      \/ BehindOverruns
      \/ \E c2 \in ReadCalls : BehindGoesOn(st, in, previous, test, c2)
  BY <1>1, BehindFacts
<1>4. values' # 0
  BY <1>1, ShFacts
<1>5. CASE BehindOverruns
  <2>1. pc' = "overrun" /\ result' = "none"
    BY <1>1, <1>5, RdFacts DEF BehindOverruns, Overruns
  <2> QED BY <2>1, ShapesGone
<1>6. CASE BehindCloses(st, in)
  <2> DEFINE last == Call.last
             st2 == link(st, s, last)
  <2>1. /\ calls' = Front(calls) /\ argo_value_storage' = st2
        /\ argo_next_value' = n /\ GoesOn
    BY <1>6 DEF BehindCloses
  <2>2. s \in Slots /\ last \in Slots
    <3>1. s \in 0 .. n /\ last \in 0 .. n
      BY <1>1, <1>2
    <3> HIDE DEF s, last
    <3> QED BY <1>1, <3>1, SlotsFacts
  <2>3. Linked(st, st2, s, last)
    BY <2>2, LinkFacts
  <2>4. Structure(Cut(own, n, s, last), st2, n, Opens \ {s}, 0, FALSE)
    <3> HIDE DEF st2, n, s, last
    <3> QED BY <1>1, <1>2, <2>3, CloseList DEF n, s, last
  <2>5. PICK own2 : own2 = Cut(own, n, s, last)
    OBVIOUS
  <2>6. \A i \in 0 .. n : own[i] # s => own2[i] = own[i]
    BY <2>5 DEF Cut
  <2>7. Laid(own2)'
    <3>1. /\ argo_next_value' \in Nat /\ argo_next_value' >= argo_next_value
          /\ Opens \ {s} = (IF Call.at = "first" THEN Opens ELSE Opens \ {Call.sent})
      BY <1>1, <2>1
    <3>2. Structure(own2, argo_value_storage', argo_next_value', Opens \ {s}, 0, FALSE)
      BY <2>1, <2>4, <2>5
    <3> QED BY <1>1, <1>2, <2>1, <2>6, <3>1, <3>2, LaidReturned
  <2>8. result' = "none"
    BY <1>1, <2>1, NextReads
  <2> QED BY <1>4, <2>7, <2>8, ShapesGoOn
<1>7. CASE \E c2 \in ReadCalls : BehindGoesOn(st, in, previous, test, c2)
  <2>1. PICK c2 \in ReadCalls : BehindGoesOn(st, in, previous, test, c2)
    BY <1>7
  <2> DEFINE top == n + 1
             st2 == link(st, top, previous)
  <2>2. /\ calls' = Replaced(c2) /\ c2.fn = Call.fn /\ c2.sent = Call.sent /\ c2.last = Call.last
        /\ argo_value_storage' = st2 /\ top \in Slots /\ argo_next_value' = top /\ GoesOn
    BY <2>1 DEF BehindGoesOn
  <2>3. c2.at \in {"loop", "test"}
    BY <2>1 DEF BehindGoesOn, Containers
  <2>4. Linked(st, st2, top, previous)
    <3>1. previous \in Slots
      BY <1>1, SlotsFacts
    <3> QED BY <2>2, <3>1, LinkFacts
  <2>5. Structure(Grown(Cut(own, n, s, previous), n, s), st2, n + 1, Opens, s, FALSE)
    <3> HIDE DEF st2, n, s
    <3> QED BY <1>1, <1>2, <2>2, <2>4, AddAfter DEF n, s
  <2>6. PICK own2 : own2 = Grown(Cut(own, n, s, previous), n, s)
    OBVIOUS
  <2>7. \A i \in 0 .. n : own2[i] = IF own[i] = s /\ i > previous THEN 0 ELSE own[i]
    <3> SUFFICES ASSUME NEW i \in 0 .. n
                 PROVE  own2[i] = IF own[i] = s /\ i > previous THEN 0 ELSE own[i]
      OBVIOUS
    <3>1. i \in 0 .. (n + 1) /\ i # n + 1
      BY <1>1
    <3>2. Cut(own, n, s, previous)[i] = IF own[i] = s /\ i > previous THEN 0 ELSE own[i]
      BY DEF Cut
    <3> QED BY <2>6, <3>1, <3>2 DEF Grown
  <2>8. own2[Call.last] = s /\ Call.last \in 0 .. (n + 1)
    <3>1. ~(Call.last > previous) /\ Call.last \in 0 .. (n + 1)
      <4> DEFINE l == Call.last
      <4>1. l \in 0 .. n /\ l <= previous /\ previous \in 0 .. n /\ n \in Nat
        BY <1>1, <1>2
      <4> HIDE DEF l, n
      <4>2. ~(l > previous) /\ l \in 0 .. (n + 1)
        BY <4>1
      <4> QED BY <4>2 DEF l
    <3>2. own2[Call.last] = IF own[Call.last] = s /\ Call.last > previous THEN 0 ELSE own[Call.last]
      BY <1>2, <2>7
    <3> QED BY <1>2, <3>1, <3>2
  <2>9. pc' = "read" /\ calls' \in Seq(ReadCalls) /\ result' = "none"
    BY <1>1, <2>2, NextReads
  <2>10. Laid(own2)'
    <3>1. /\ \A i \in 0 .. argo_next_value : own[i] # Call.sent => own2[i] = own[i]
          /\ argo_next_value' \in Nat /\ argo_next_value' >= argo_next_value /\ c2.at # "first"
      BY <1>1, <2>2, <2>3, <2>7
    <3>2. c2.last \in 0 .. argo_next_value' /\ own2[c2.last] = c2.sent
      BY <2>2, <2>8
    <3>3. Opens = (IF Call.at = "first" THEN Opens \cup {Call.sent} ELSE Opens)
          /\ s = (IF c2.fn # "value" /\ c2.at \in {"loop", "test"} THEN c2.sent ELSE 0)
      BY <1>1, <2>2, <2>3
    <3>4. Structure(own2, argo_value_storage', argo_next_value', Opens, s, FALSE)
      BY <2>2, <2>5, <2>6
    <3> QED BY <1>1, <1>2, <2>2, <2>9, <3>1, <3>2, <3>3, <3>4, LaidReplaced
  <2> QED BY <1>4, <2>9, <2>10, ShapesGoOn
<1> QED BY <1>3, <1>5, <1>6, <1>7

\* The action BackFromNested keeps the shape of the storage.
LEMMA BackFromNestedShape ==
    ASSUME Sh, ReaderOK', BackFromNested
    PROVE  Shapes'
<1>1. /\ values' = values /\ Call.at = "nested" /\ Call.fn \in Containers
      /\ Behind(argo_value_storage, stdin, Call.last, FALSE, Call.from)
  BY DEF BackFromNested, ReaderKeeps, Reading, Containers
<1>2. /\ Rd /\ argo_next_value \in Nat /\ Call.fn # "value" /\ stdin \in Bytes
      /\ argo_value_storage \in Storages
  BY <1>1, ShFacts, RdFacts, TopFacts DEF Containers
<1>3. PICK own : Laid(own)
  BY ShFacts
<1>4. /\ Structure(own, argo_value_storage, argo_next_value, Opens, 0, FALSE)
      /\ Call.last \in 0 .. argo_next_value /\ own[Call.last] = Call.sent
  BY <1>1, <1>2, <1>3, LaidFacts DEF Fresh
<1>5. Call.from \in 1 .. 5 /\ Call.last <= Call.last
  <2>1. Call.from \in 1 .. 2
    BY <1>1, <1>2, RdFacts, TopFacts
  <2> QED BY <1>4, <2>1
<1> QED BY <1>1, <1>2, <1>3, <1>4, <1>5, BehindShape

\* The action ReadScalar keeps the shape of the storage.
LEMMA ReadScalarShape ==
    ASSUME Sh, ReaderOK', ReadScalar
    PROVE  Shapes'
<1> DEFINE n == argo_next_value
           v == argo_value_storage[n]
           read == Scalar(Type, v)
           st == [argo_value_storage EXCEPT ![n] = read.value]
<1>1. /\ values' = values
      /\ Testing({"array", "object"}) /\ Choice <= 5 /\ Type \in Scalars
      /\ IF read.ok THEN Behind(st, read.in, n, TRUE, Choice)
         ELSE Fails
  BY DEF ReadScalar, ReaderKeeps, Meets, Turned, Scalars, store
<1>2. /\ Rd /\ Top /\ stdin \in Bytes /\ argo_value_storage \in Storages
      /\ n \in Slots /\ n \in Nat
      /\ Call \in ReadCalls /\ v \in Values
  BY ShFacts, RdFacts, TopFacts
<1>3. /\ Call.at = "test" /\ Call.fn \in Containers /\ Call.fn # "value"
      /\ Choice \in 1 .. 5 /\ Begins(Type, Call.c)
  <2>1. Choice # 6 /\ Choice \in Call.from .. 6 /\ Call.from \in 1 .. 6
    BY <1>1, <1>2, TestingFacts
  <2>2. Begins(Type, Call.c)
    BY <1>1, <1>2, <2>1, TestingFacts
  <2>3. /\ Call.fn \in {"array", "object"}
        /\ \/ Call.at = "test" /\ Call.fn # "value"
           \/ Call.at = "loop" /\ Call.fn = "value" /\ Call.c # EOF
    BY <1>1, <1>2, TestingFacts
  <2>4. Choice \in 1 .. 5
    BY <2>1
  <2> QED BY <2>2, <2>3, <2>4 DEF Containers
<1>4. Call.c \in Chars
  BY <1>2 DEF ReadCalls
<1>5. /\ read.ok \in BOOLEAN /\ read.in \in Bytes
      /\ read.value \in Values /\ read.value.type = Type
      /\ read.value.next = v.next /\ read.value.prev = v.prev
  BY <1>1, <1>2, <1>3, <1>4, ScalarFacts
<1> HIDE DEF read
<1>6. CASE ~read.ok
  BY <1>1, <1>6, ShapesGone DEF Fails
<1>7. CASE read.ok
  <2>1. PICK own : Laid(own)
    BY ShFacts
  <2>2. /\ Call.last \in 0 .. n /\ own[n] = Call.sent /\ n \in 0 .. n
    BY <1>2, <1>3, <2>1, LaidFacts
  <2>3. st \in Storages
    BY <1>2, <1>5 DEF Storages
  <2>4. Structure(own, st, n, Opens, 0, FALSE)
    <3>1. Type # Untyped /\ Type \notin Containers
      BY <1>1 DEF Scalars, Untyped, Containers
    <3>2. Call.fn # "value" => Call.at \in {"loop", "test"}
      BY <1>3
    <3>3. Call.fn = "value" => argo_next_value = 0
      BY <1>3
    <3>4. Call.at # "first" /\ FALSE \in BOOLEAN
      BY <1>3
    <3> QED BY <1>5, <2>1, <3>1, <3>2, <3>3, <3>4, TypedTop
  <2> HIDE DEF st
  <2>5. Behind(st, read.in, n, TRUE, Choice)
    BY <1>1, <1>7
  <2>6. Call.last <= n /\ TRUE \in BOOLEAN
    BY <1>2, <2>2
  <2> QED BY <1>1, <1>3, <1>5, <2>1, <2>2, <2>3, <2>4, <2>5, <2>6, BehindShape
<1> QED BY <1>5, <1>6, <1>7

\* The action EndRead keeps the shape of the storage.
LEMMA EndReadShape ==
    ASSUME Sh, EndRead
    PROVE  Shapes'
<1>1. /\ values' = values /\ UNCHANGED <<argo_value_storage, argo_next_value>>
      /\ Call.fn = "value" /\ Call.at = "loop" /\ pc' # "read"
  BY DEF EndRead, ReaderKeeps, Reading, store
<1>2. Rd /\ Top
  BY ShFacts
<1>3. PICK own : Laid(own)
  BY ShFacts
<1>4. Opens = {} /\ Ready = 0 /\ Fresh = FALSE
  BY <1>1, <1>2, OpensTop DEF Ready, Fresh
<1>5. Settled(own)
  BY <1>3, <1>4 DEF Laid, Settled
<1>6. Settled(own)'
  BY <1>1, <1>5 DEF Settled
<1> QED BY <1>1, <1>6 DEF Shapes, ReadShape, DoneShape

\* A run begins with one slot, which belongs to no list.
LEMMA FreshStructure ==
    ASSUME NEW own, own = [i \in 0 .. 0 |-> 0], NEW st, \A i \in Slots : st[i].type = Untyped
    PROVE  Structure(own, st, 0, {}, 0, FALSE)
<1>1. 0 .. 0 = {0} /\ 1 .. 0 = {} /\ 0 \in Slots
  BY SlotsFacts
<1>2. own[0] = 0 /\ \A i \in 0 .. 0 : own[i] = 0 /\ i = 0
  BY <1>1
<1>3. Owners(own, 0)
  BY <1>1, <1>2 DEF Owners
<1>4. Opened(own, 0, {}, 0)
  BY DEF Opened
<1>5. Typed(own, st, 0, FALSE)
  BY <1>1 DEF Typed, Untyped, Containers
<1>6. Chains(own, st, 0, {}, 0)
  BY <1>1 DEF Chains
<1> QED BY <1>3, <1>4, <1>5, <1>6 DEF Structure

\* The reader begins with a storage of the right shape.
LEMMA MainShape ==
    ASSUME Checked, main
    PROVE  Shapes'
<1>1. /\ TypeOK /\ pc = "main" /\ UNCHANGED <<argo_value_storage, argo_next_value, result, values>>
      /\ \/ pc' = "exit"
         \/ pc' = "read" /\ calls' = <<ValueCall>>
  BY DEF main, store, Checked, ReaderOK
<1>2. /\ result' = "none" /\ argo_value_storage' = [i \in Slots |-> Value] /\ argo_next_value' = 0
  BY <1>1 DEF TypeOK, ResultOK, Begun
<1>3. CASE pc' = "exit"
  BY <1>2, <1>3, ShapesGone
<1>4. CASE pc' = "read" /\ calls' = <<ValueCall>>
  <2>1. Len(calls') = 1 /\ Call' = ValueCall
    BY <1>4 DEF Call, Last
  <2>2. ValueCall.fn = "value" /\ ValueCall.at = "loop"
    BY DEF ValueCall
  <2>3. 2 .. 1 = {}
    OBVIOUS
  <2>4. Opens' = {} /\ Ready' = 0 /\ Fresh' = FALSE
    BY <2>1, <2>2, <2>3 DEF Opens, Ready, Fresh
  <2>5. PICK own : own = [i \in 0 .. 0 |-> 0]
    OBVIOUS
  <2>6. \A i \in Slots : argo_value_storage'[i].type = Untyped
    BY <1>2, NewValue
  <2>7. Structure(own, argo_value_storage', 0, {}, 0, FALSE)
    BY <2>5, <2>6, FreshStructure
  <2>8. Waiting(own)'
    BY <2>1, <2>3 DEF Waiting
  <2>9. Laid(own)'
    BY <1>2, <2>4, <2>7, <2>8 DEF Laid
  <2> QED BY <1>2, <2>1, <2>2, <2>9, ShapesGoOn
<1> QED BY <1>1, <1>3, <1>4

\* Every action of the reader keeps the shape of the storage.
LEMMA ReaderShape ==
    ASSUME Rd, Shapes, Reader, Checked'
    PROVE  Shapes'
<1>1. values \in Nat /\ ReaderOK'
  BY RdFacts, TopFacts DEF Checked
<1>2. values' = values \/ values' = values + 1
  BY DEF Reader, Open, EndOfInput, Close, Turn, Skip, ReadName, Nest, ReadScalar, BackFromNested,
         NextCharacter, ReadTop, EndRead, ReaderKeeps
<1>3. CASE values' <= 1
  <2>1. Sh
    <3>1. values <= 1
      BY <1>1, <1>2, <1>3
    <3> QED BY <3>1 DEF Sh, Shapes
  <2>2. CASE EndOfInput
    <3>1. Fails
      BY <2>2 DEF EndOfInput
    <3> QED BY <3>1, ShapesGone DEF Fails
  <2> QED BY <1>1, <1>3, <2>1, <2>2, OpenShape, CloseShape, TurnShape, SkipShape, ReadNameShape, NestShape,
             ReadScalarShape, BackFromNestedShape, NextCharacterShape, ReadTopShape, EndReadShape DEF Reader
<1>4. CASE ~(values' <= 1)
  BY <1>4 DEF Shapes, ReadShape, DoneShape
<1> QED BY <1>3, <1>4

\* The writer, and a program that has ended, keep the storage.
LEMMA StoreKept ==
    ASSUME Shapes, UNCHANGED <<argo_value_storage, argo_next_value, result, values>>, pc' # "read"
    PROVE  Shapes'
<1>1. ASSUME NEW own, Settled(own) PROVE Settled(own)'
  BY <1>1 DEF Settled
<1> QED BY <1>1 DEF Shapes, ReadShape, DoneShape

\* Of a storage that nothing was read into nothing is said.
LEMMA InitShapes ==
    ASSUME Init
    PROVE  Shapes
  BY DEF Init, Shapes, ReadShape, DoneShape

\* Every step keeps the shape of the storage.
LEMMA ShapesStep ==
    ASSUME Checked, Shapes, Checked', [Next]_vars
    PROVE  Shapes'
<1>1. CASE UNCHANGED vars
  <2>1. UNCHANGED <<argo_value_storage, argo_next_value, calls, pc, result, values>>
    BY <1>1 DEF vars, store
  <2>2. ASSUME NEW own, Laid(own) PROVE Laid(own)'
    <3>1. Call' = Call /\ Opens' = Opens /\ Ready' = Ready /\ Fresh' = Fresh
      BY <2>1 DEF Call, Opens, Ready, Fresh
    <3> QED BY <2>1, <2>2, <3>1 DEF Laid, Waiting
  <2>3. ASSUME NEW own, Settled(own) PROVE Settled(own)'
    BY <2>1, <2>3 DEF Settled
  <2> QED BY <2>1, <2>2, <2>3 DEF Shapes, ReadShape, DoneShape, Call
<1>2. CASE main
  BY <1>2, MainShape
<1>3. CASE Reader
  <2>1. Rd
    BY <1>3 DEF Checked, Rd, Reader, Open, EndOfInput, Close, Turn, Skip, ReadName, Nest, ReadScalar,
                BackFromNested, NextCharacter, ReadTop, EndRead, Testing, Reading
  <2> QED BY <1>3, <2>1, ReaderShape
<1>4. CASE Writer
  <2>1. UNCHANGED <<argo_value_storage, argo_next_value, result, values>> /\ pc' # "read"
    BY <1>4 DEF Writer, WriteValue, WriteScalar, WriteNested, WriteClose, WriteEnd, Writing, WriterKeeps, store
  <2> QED BY <2>1, StoreKept
<1>5. CASE RunAgain
  <2>1. pc' # "read" /\ result' # "storage"
    BY <1>5 DEF RunAgain
  <2> QED BY <2>1, ShapesGone
<1>6. CASE Exited
  <2>1. UNCHANGED vars
    BY <1>6 DEF Exited
  <2> QED BY <1>1, <2>1
<1> QED BY <1>1, <1>2, <1>3, <1>4, <1>5, <1>6 DEF Next

\* While the reader is at its first value, and when it has come to its end, the slots
\* of the storage are shared out among the lists: every list is an increasing chain from
\* its sentinel, linked both ways, nested ones lie between two neighbours of the outer
\* one, and all that are closed turn back to their sentinel.
THEOREM ShapesAlways == Spec => []Shapes
<1>1. Init => Checked /\ Shapes
  BY InitChecked, InitShapes
<1>2. Checked /\ Shapes /\ [Next]_vars => (Checked /\ Shapes)'
  BY CheckedStep, ShapesStep
<1> QED BY <1>1, <1>2, PTL DEF Spec

\* What holds of 0 and is handed on holds up to n.
LEMMA UpwardInduction ==
    ASSUME NEW n \in Nat, NEW T, 0 \in T, \A i \in 1 .. n : i - 1 \in T => i \in T
    PROVE  \A i \in 0 .. n : i \in T
<1> DEFINE S == {i \in 0 .. n : i \notin T}
<1> SUFFICES ASSUME S # {} PROVE FALSE
  OBVIOUS
<1>1. S \in SUBSET Nat
  OBVIOUS
<1>2. PICK i \in S : \A k \in S : i <= k
  <2> HIDE DEF S
  <2> QED BY <1>1, FirstExists
<1>3. i \in 1 .. n /\ i - 1 \in 0 .. n /\ ~(i <= i - 1)
  BY <1>2
<1>4. i - 1 \in T
  BY <1>2, <1>3
<1> QED BY <1>2, <1>3, <1>4

-----------------------------------------------------------------------------
(* Lists of the right shape are circular. *)

\* The walk along the links from slot s on, as Around defines it; what it is
\* step by step; and that it comes back to s, once, along links that agree.
Walk(st, s, m) ==
    CHOOSE g : g = [n \in 0 .. m |-> IF n = 0 THEN s ELSE st[g[n - 1]].next]
Walked(st, s, slot) ==
    /\ slot \in [0 .. NUM_ARGO_VALUES -> Slots] /\ slot[0] = s
    /\ \A n \in 1 .. NUM_ARGO_VALUES : slot[n] = st[slot[n - 1]].next
Round(st, s, slot) ==
    \E m \in 1 .. NUM_ARGO_VALUES :
        /\ slot[m] = s
        /\ \A k \in 1 .. m : st[slot[k]].prev = slot[k - 1]
        /\ \A k \in 1 .. (m - 1) : slot[k] # s
        /\ \A k \in 1 .. (m - 2) : st[slot[k]].type # Untyped

\* Following the links one by one is a recursive function, which exists.
LEMMA WalkFacts ==
    ASSUME NEW st \in Storages, NEW s \in Slots
    PROVE  Walked(st, s, Walk(st, s, NUM_ARGO_VALUES))
<1> DEFINE m == NUM_ARGO_VALUES
           slot == Walk(st, s, m)
           I == 0 .. m
           rank == [i \in I |-> i]
           E(i, f) == IF i = 0 THEN s ELSE st[f[i - 1]].next
           H == [i \in I |-> [f \in [I -> Slots] |-> E(i, f)]]
<1>1. m \in Nat
  BY StorageAssumption
<1> HIDE DEF m
<1>2. rank \in [I -> Nat] /\ \A i \in I : rank[i] = i /\ rank[i] < m + 1
  BY <1>1
<1>3. \A i \in I : i # 0 => i - 1 \in I /\ rank[i - 1] < rank[i]
  BY <1>1
<1>4. ASSUME NEW i \in I, NEW f \in [I -> Slots] PROVE E(i, f) \in Slots
  <2>1. CASE i = 0
    BY <2>1
  <2>2. CASE i # 0
    <3>1. f[i - 1] \in Slots
      BY <1>3, <2>2
    <3>2. st[f[i - 1]] \in Values
      BY <3>1 DEF Storages
    <3>3. st[f[i - 1]].next \in Slots
      BY <3>2 DEF Values
    <3> QED BY <2>2, <3>3
  <2> QED BY <2>1, <2>2
<1>5. \A i \in I : \A f, g : (i # 0 => f[i - 1] = g[i - 1]) => E(i, f) = E(i, g)
  OBVIOUS
<1>6. m + 1 \in Nat /\ Slots # {} /\ 0 \in I
  BY <1>1, SlotsFacts
<1>7. slot = CHOOSE g : g = [n \in I |-> E(n, g)]
  BY DEF Walk
<1>8. \A f : E(0, f) = s /\ \A n \in 1 .. m : E(n, f) = st[f[n - 1]].next /\ n \in I
  OBVIOUS
<1> HIDE DEF E, rank, slot
<1>9. H \in [I -> [[I -> Slots] -> Slots]] /\ \A n \in I : \A f \in [I -> Slots] : H[n][f] = E(n, f)
  BY <1>4
<1> HIDE DEF H, I
<1>10. Recursive(I, Slots, rank, H)
  <2>1. \A n \in I : \A f, g \in [I -> Slots] :
          (\A k \in I : rank[k] < rank[n] => f[k] = g[k]) => H[n][f] = H[n][g]
    BY <1>3, <1>5, <1>9
  <2> QED BY <1>2, <1>6, <1>9, <2>1 DEF Recursive
<1>11. PICK f \in [I -> Slots] : \A n \in I : f[n] = H[n][f]
  BY <1>10, Recursion DEF Solvable
<1>12. f = [n \in I |-> E(n, f)]
  <2>1. \A n \in I : f[n] = E(n, f)
    BY <1>9, <1>11
  <2> QED BY <1>11, <2>1
<1>13. slot = [n \in I |-> E(n, slot)]
  <2> DEFINE F(g) == [n \in I |-> E(n, g)]
  <2>1. f = F(f) /\ slot = CHOOSE g : g = F(g)
    BY <1>7, <1>12
  <2> HIDE DEF F
  <2>2. slot = F(slot)
    BY <2>1, Zenon
  <2> QED BY <2>2 DEF F
<1>14. \A n \in I : slot[n] = E(n, slot)
  BY <1>13
<1>15. \A n \in I : f[n] = slot[n]
  <2>1. ASSUME NEW n \in I, \A k \in I : rank[k] < rank[n] => f[k] = slot[k]
        PROVE  f[n] = slot[n]
    <3>1. n # 0 => f[n - 1] = slot[n - 1]
      BY <1>3, <2>1
    <3>2. E(n, f) = E(n, slot)
      BY <1>5, <3>1
    <3> QED BY <1>9, <1>11, <1>14, <3>2
  <2>2. Agreeing(I, rank, f, slot)
    BY <1>2, <2>1 DEF Agreeing
  <2> QED BY <2>2, Agreement
<1>16. slot \in [I -> Slots]
  BY <1>11, <1>13, <1>15
<1>17. \A n \in 1 .. m : slot[n] = st[slot[n - 1]].next
  BY <1>8, <1>14
<1>18. slot[0] = s
  BY <1>6, <1>8, <1>14
<1> QED BY <1>16, <1>17, <1>18 DEF I, m, slot, Walked

\* In a list that is closed the link of a slot leads on, or back to the sentinel.
Leads(own, st, n, s, i) ==
    /\ st[i].next \in 1 .. n /\ own[st[i].next] = s /\ st[st[i].next].prev = i
    /\ st[i].next = s \/ st[i].next > i
    /\ st[i].type = Untyped => i = s \/ st[i].next = s

\* Behind a slot of a closed list is the next of its slots, or the sentinel.
LEMMA NextInList ==
    ASSUME NEW n \in Slots, NEW own, NEW st, Structure(own, st, n, {}, 0, FALSE),
           NEW s \in 1 .. n, NEW i \in 1 .. n, own[i] = s
    PROVE  Leads(own, st, n, s, i)
<1> DEFINE j == st[i].next
<1>1. n \in Nat /\ s # 0 /\ own[s] = s
  BY StorageAssumption DEF Slots, Structure, Owners
<1>2. /\ \/ Follows(own, st, n, i)
         \/ TurnsBack(own, st, i)
      /\ st[i].type = Untyped => i = s \/ j = s
  BY <1>1 DEF Structure, Chains
<1>3. CASE Follows(own, st, n, i)
  <2>1. j \in 0 .. n /\ j > i /\ own[j] = s /\ st[j].prev = i
    BY <1>3 DEF Follows
  <2>2. j \in 1 .. n
    BY <2>1
  <2> QED BY <1>2, <2>1, <2>2 DEF Leads
<1>4. CASE TurnsBack(own, st, i)
  BY <1>1, <1>2, <1>4 DEF TurnsBack, Leads
<1> QED BY <1>2, <1>3, <1>4

\* The slots of a list that is closed are passed one after the other, and then
\* comes its sentinel again.
LEMMA RoundList ==
    ASSUME NEW n \in Slots, NEW own, NEW st, Structure(own, st, n, {}, 0, FALSE),
           NEW s \in 1 .. n, own[s] = s,
           NEW slot, Walked(st, s, slot)
    PROVE  Round(st, s, slot)
<1> USE DEF Walked
<1> DEFINE M == NUM_ARGO_VALUES
           In(i) == i \in 1 .. n /\ own[i] = s
<1>1. M \in Nat \ {0} /\ n \in Nat /\ n < M /\ s # 0
  BY StorageAssumption DEF Slots
<1>2. ASSUME NEW i, In(i)
      PROVE  LET j == st[i].next
             IN  /\ In(j) /\ st[j].prev = i /\ (j = s \/ j > i)
                 /\ st[i].type = Untyped => i = s \/ j = s
  <2>1. i \in 1 .. n /\ own[i] = s
    BY <1>2
  <2>2. Leads(own, st, n, s, i)
    BY <2>1, NextInList
  <2> QED BY <2>2 DEF Leads
<1>3. \A k \in 1 .. M : k - 1 \in 0 .. M
  BY <1>1
<1>4. \A k \in 0 .. M : In(slot[k])
  <2> DEFINE T == {k \in 0 .. M : In(slot[k])}
  <2>1. 0 \in T
    BY <1>1
  <2>2. ASSUME NEW k \in 1 .. M, k - 1 \in T PROVE k \in T
    <3>1. In(slot[k - 1])
      BY <2>2
    <3>2. In(st[slot[k - 1]].next)
      BY <1>2, <3>1
    <3> QED BY <3>2
  <2>3. M \in Nat
    BY <1>1
  <2> HIDE DEF T, M
  <2>4. \A k \in 0 .. M : k \in T
    BY <2>1, <2>2, <2>3, UpwardInduction
  <2> QED BY <2>4 DEF T
<1>5. ASSUME NEW k \in 1 .. M
      PROVE  /\ st[slot[k]].prev = slot[k - 1] /\ (slot[k] = s \/ slot[k] > slot[k - 1])
             /\ st[slot[k - 1]].type = Untyped => slot[k - 1] = s \/ slot[k] = s
  <2>1. In(slot[k - 1]) /\ slot[k] = st[slot[k - 1]].next
    BY <1>3, <1>4
  <2> HIDE DEF In
  <2> QED BY <1>2, <2>1
<1> DEFINE R == {k \in 1 .. M : slot[k] = s}
<1>6. R # {}
  <2> SUFFICES ASSUME \A k \in 1 .. M : slot[k] # s PROVE FALSE
    OBVIOUS
  <2> DEFINE T == {k \in 0 .. M : slot[k] >= s + k}
  <2>1. 0 \in T
    BY <1>1
  <2>2. ASSUME NEW k \in 1 .. M, k - 1 \in T PROVE k \in T
    <3>1. slot[k - 1] >= s + (k - 1) /\ slot[k] > slot[k - 1]
      BY <1>5, <2>2
    <3>2. slot[k] \in Nat /\ slot[k - 1] \in Nat /\ k \in 0 .. M
      <4>1. k \in 0 .. M /\ k - 1 \in 0 .. M
        BY <1>3
      <4>2. In(slot[k]) /\ In(slot[k - 1])
        BY <1>4, <4>1
      <4> QED BY <1>1, <4>1, <4>2
    <3> QED BY <3>1, <3>2
  <2>3. M \in Nat
    BY <1>1
  <2>4. \A k \in 0 .. M : k \in T
    <3> HIDE DEF T, M
    <3> QED BY <2>1, <2>2, <2>3, UpwardInduction
  <2>5. M \in 0 .. M
    BY <1>1
  <2>6. slot[M] >= s + M /\ slot[M] \in 1 .. n
    BY <1>4, <2>4, <2>5
  <2> QED BY <1>1, <2>6
<1>7. R \in SUBSET Nat
  BY <1>1
<1>8. PICK m \in R : \A k \in R : m <= k
  <2> HIDE DEF R
  <2> QED BY <1>6, <1>7, FirstExists
<1>9. m \in 1 .. M /\ slot[m] = s
  BY <1>8
<1>10. ASSUME NEW k \in 1 .. (m - 1) PROVE slot[k] # s
  <2>1. k \in 1 .. M /\ ~(m <= k)
    BY <1>1, <1>9
  <2> QED BY <1>8, <2>1
<1>11. ASSUME NEW k \in 1 .. (m - 2) PROVE st[slot[k]].type # Untyped
  <2>1. k \in 1 .. (m - 1) /\ k + 1 \in 1 .. (m - 1) /\ k + 1 \in 1 .. M /\ (k + 1) - 1 = k
    BY <1>1, <1>9
  <2>2. slot[k] # s /\ slot[k + 1] # s
    BY <1>10, <2>1
  <2> QED BY <1>5, <2>1, <2>2
<1>12. \A k \in 1 .. m : st[slot[k]].prev = slot[k - 1]
  <2>1. \A k \in 1 .. m : k \in 1 .. M
    BY <1>1, <1>9
  <2> QED BY <1>5, <2>1
<1> QED BY <1>9, <1>10, <1>11, <1>12 DEF Round

\* In a storage of the right shape all lists are circular.
LEMMA SettledListsAreCircular ==
    ASSUME Checked, Shapes
    PROVE  ListsAreCircular
<1> SUFFICES ASSUME Finished, values <= 1, NEW s \in Lists PROVE Circular(s)
  BY DEF ListsAreCircular
<1> DEFINE n == argo_next_value
           st == argo_value_storage
           slot == Around(s)
<1>1. /\ st \in Storages /\ n \in Slots /\ pc = "exit"
      /\ ContainerLists
  BY DEF Finished, Checked, ReaderOK, TypeOK
<1>2. PICK own : Settled(own)
  BY DEF Finished, Shapes, DoneShape
<1>3. Structure(own, st, n, {}, 0, FALSE)
  BY <1>2 DEF Settled
<1>4. PICK i \in 0 .. n : st[i].type \in Containers /\ s = st[i].list
  BY DEF Lists, Containers
<1>5. s = i + 1 /\ s \in 1 .. n /\ own[s] = s /\ s \in Slots
  <2>1. n \in Nat /\ i \in Slots
    BY <1>1, SlotsFacts
  <2>2. i + 1 \in 1 .. n /\ own[i + 1] = i + 1
    BY <1>3, <1>4, <2>1 DEF Structure, Typed
  <2>3. st[i].list = i + 1
    BY <1>1, <1>4, <2>1 DEF ContainerLists
  <2>4. s \in Slots
    BY <1>1, <1>4, <2>1, <2>2, <2>3, SlotsFacts
  <2> QED BY <1>4, <2>2, <2>3, <2>4
<1>6. st[s].type = Untyped
  BY <1>3, <1>5 DEF Structure, Typed
<1>7. slot = Walk(st, s, NUM_ARGO_VALUES)
  BY DEF Around, Walk
<1> HIDE DEF slot, st, n
<1>8. Walked(st, s, slot)
  BY <1>1, <1>5, <1>7, WalkFacts
<1>9. Round(st, s, slot)
  BY <1>1, <1>3, <1>5, <1>8, RoundList
<1> QED BY <1>6, <1>9 DEF Circular, Round, slot, st

\* The lists of a value that was read are circular both ways and pass their sentinel
\* once, whatever the input and however many slots there are.
THEOREM ListsStayCircular == Spec => []ListsAreCircular
<1>1. Checked /\ Shapes => ListsAreCircular
  BY SettledListsAreCircular
<1> QED BY <1>1, CheckedAlways, ShapesAlways, PTL

-----------------------------------------------------------------------------
(* How many turns the writer takes. *)

\* The sentinel of the list that call k writes, and the slot it comes to when the
\* calls above it have returned.
Sent(cs, k) == IF k = 1 THEN 1 ELSE cs[k - 1].head + 1
At(st, cs, k) == IF k = Len(cs) THEN cs[k].head ELSE st[cs[k].head].next

\* What lies behind slot p is still to be written, and what every call comes to.
Passing(own, st, n, cs, p) ==
    /\ p \in 0 .. n
    /\ \A k \in 1 .. Len(cs) :
          /\ Sent(cs, k) \in 1 .. p /\ own[Sent(cs, k)] = Sent(cs, k)
          /\ cs[k].head \in 1 .. n /\ own[cs[k].head] = Sent(cs, k)
          /\ At(st, cs, k) > p \/ At(st, cs, k) = Sent(cs, k)
    /\ \A j, k \in 1 .. Len(cs) : j < k => Sent(cs, j) < Sent(cs, k)

\* The writer begins behind the sentinel of the outermost list (argo_write_value).
LEMMA PassingValue ==
    ASSUME NEW n \in Slots, NEW own, NEW st, Structure(own, st, n, {}, 0, FALSE),
           st[0].type \in Containers,
           NEW cs, Len(cs) = 1, cs[1].head = st[1].next
    PROVE  Passing(own, st, n, cs, 1)
<1>1. n \in Nat /\ 0 \in 0 .. n /\ 0 + 1 = 1 /\ 1 .. 1 = {1}
  BY StorageAssumption DEF Slots
<1>2. 1 \in 1 .. n /\ own[1] = 1
  <2>1. 0 + 1 \in 1 .. n /\ own[0 + 1] = 0 + 1
    BY <1>1 DEF Structure, Typed
  <2> QED BY <1>1, <2>1
<1>3. Sent(cs, 1) = 1 /\ At(st, cs, 1) = st[1].next
  BY DEF Sent, At
<1> DEFINE j == st[1].next
<1>4. j \in 1 .. n /\ own[j] = 1 /\ (j = 1 \/ j > 1)
  <2>1. Leads(own, st, n, 1, 1)
    BY <1>2, NextInList
  <2> QED BY <2>1 DEF Leads
<1> HIDE DEF j
<1>5. 1 \in 0 .. n /\ 1 \in 1 .. 1
  BY <1>1, <1>2
<1>6. \A k \in 1 .. Len(cs) : k = 1
  OBVIOUS
<1>7. \A a, b \in 1 .. Len(cs) : ~(a < b)
  OBVIOUS
<1> QED BY <1>2, <1>3, <1>4, <1>5, <1>6, <1>7 DEF Passing, j

\* Where the calls go on is behind slot h.
Beyond(own, st, n, cs, m, h) ==
    \A k \in 1 .. m : LET e == st[cs[k].head].next
                      IN  e \in 1 .. n /\ own[e] = Sent(cs, k) /\ (e > h \/ e = Sent(cs, k))

LEMMA LaterSlot ==
    ASSUME NEW n \in Nat, NEW p \in 0 .. n, NEW h \in 1 .. n, h > p
    PROVE  h \in (p + 1) .. n
OBVIOUS

\* What a call comes to lies behind the element that the topmost call is at.
LEMMA ComesBehind ==
    ASSUME NEW n \in Slots, NEW own, NEW st, Structure(own, st, n, {}, 0, FALSE),
           NEW cs, NEW p, Passing(own, st, n, cs, p), NEW m \in Nat \ {0}, m = Len(cs),
           NEW h, h = cs[m].head, st[h].type # Untyped
    PROVE  h \in (p + 1) .. n /\ Sent(cs, m) \in 1 .. p /\ Beyond(own, st, n, cs, m, h)
<1>1. n \in Nat /\ p \in 0 .. n /\ m \in 1 .. m /\ own \in [0 .. n -> 0 .. n]
  BY StorageAssumption DEF Slots, Passing, Structure, Owners
<1> DEFINE s == Sent(cs, m)
<1>2. s \in 1 .. p /\ own[s] = s /\ h \in 1 .. n /\ own[h] = s
  BY <1>1 DEF Passing
<1>3. s \in 1 .. n
  BY <1>1, <1>2
<1>4. st[s].type = Untyped
  BY <1>2, <1>3 DEF Structure, Typed
<1>5. h > p
  <2>1. h > p \/ h = s
    BY <1>1 DEF Passing, At
  <2> QED BY <1>4, <2>1
<1>6. ASSUME NEW k \in 1 .. m
      PROVE  LET e == st[cs[k].head].next
             IN  e \in 1 .. n /\ own[e] = Sent(cs, k) /\ (e > h \/ e = Sent(cs, k))
  <2> DEFINE e == st[cs[k].head].next
             r == Sent(cs, k)
             g == cs[k].head
  <2>1. r \in 1 .. p /\ own[r] = r /\ g \in 1 .. n /\ own[g] = r
    BY DEF Passing
  <2>2. r \in 1 .. n
    BY <1>1, <2>1
  <2>3. e \in 1 .. n /\ own[e] = r /\ (e = r \/ e > g)
    <3>1. Leads(own, st, n, r, g)
      <4> HIDE DEF r, g
      <4> QED BY <2>1, <2>2, NextInList
    <3> QED BY <3>1 DEF Leads
  <2>4. CASE k = m
    BY <2>3, <2>4
  <2>5. CASE k # m
    <3>1. r < s
      <4>1. k < m
        BY <2>5
      <4> QED BY <1>1, <4>1 DEF Passing
    <3>2. e > p \/ e = r
      BY <2>5 DEF Passing, At
    <3>3. e \in 1 .. n /\ own[e] = r /\ r \in 1 .. p /\ s \in 1 .. p /\ h \in 1 .. n /\ own[h] = s
      BY <1>2, <2>1, <2>3
    <3>4. e \in Nat /\ r \in Nat /\ s \in Nat /\ h \in Nat /\ r # 0 /\ s # 0 /\ s <= p /\ p \in Nat
          /\ e \in 0 .. n /\ h \in 0 .. n
      <4> HIDE DEF e, r, s
      <4>1. p \in Nat /\ n \in Nat
        BY <1>1
      <4>2. e \in Nat /\ e \in 0 .. n
        BY <3>3, <4>1
      <4>3. h \in Nat /\ h \in 0 .. n
        BY <3>3, <4>1
      <4>4. r \in Nat /\ r # 0
        BY <3>3, <4>1
      <4>5. s \in Nat /\ s # 0 /\ s <= p
        BY <3>3, <4>1
      <4> QED BY <4>1, <4>2, <4>3, <4>4, <4>5
    <3> HIDE DEF e, r, s
    <3>5. ASSUME e > p PROVE e > h
      <4>1. e # h
        BY <3>3, <3>4, <3>1
      <4>2. ~(e < h)
        <5> SUFFICES ASSUME e < h PROVE FALSE
          OBVIOUS
        <5>1. e \in 0 .. n /\ h \in 0 .. n /\ own[e] # 0 /\ own[h] # 0 /\ own[h] <= e /\ e <= h
          BY <3>3, <3>4, <3>5
        <5>2. own[e] >= own[h]
          BY <5>1 DEF Structure, Owners
        <5> QED BY <3>3, <3>4, <3>1, <5>2
      <4> QED BY <3>4, <4>1, <4>2
    <3>6. e \in 1 .. n /\ own[e] = r /\ (e > h \/ e = r)
      BY <3>2, <3>5, <3>3
    <3> QED BY <3>6 DEF e, r
  <2> QED BY <2>4, <2>5
<1>7. h \in (p + 1) .. n
  <2>1. h \in 1 .. n /\ h > p
    BY <1>2, <1>5
  <2>2. n \in Nat /\ p \in 0 .. n
    BY <1>1
  <2> HIDE DEF s
  <2> QED BY <2>1, <2>2, LaterSlot
<1> QED BY <1>2, <1>6, <1>7 DEF Beyond

\* The call m on top, cs, comes to slot h and goes on as cs2 does.
GoesPast(cs, cs2, st, m, h) ==
    /\ m \in Nat \ {0} /\ m = Len(cs) /\ h = cs[m].head /\ st[h].type # Untyped
    /\ Len(cs2) = m /\ cs2[m].head = st[h].next
    /\ \A k \in 1 .. (m - 1) : cs2[k] = cs[k]
GoesInto(cs, cs2, st, m, h) ==
    /\ m \in Nat \ {0} /\ m = Len(cs) /\ h = cs[m].head /\ st[h].type \in Containers
    /\ Len(cs2) = m + 1 /\ cs2[m + 1].head = st[h + 1].next
    /\ \A k \in 1 .. m : cs2[k] = cs[k]

\* An element that is written is passed, and lies behind all that were.
LEMMA PassingScalar ==
    ASSUME NEW n \in Slots, NEW own, NEW st, Structure(own, st, n, {}, 0, FALSE),
           NEW cs, NEW p, Passing(own, st, n, cs, p), NEW m, NEW h, NEW cs2, GoesPast(cs, cs2, st, m, h)
    PROVE  h > p /\ Passing(own, st, n, cs2, h)
<1> SUFFICES ASSUME m \in Nat \ {0}, m = Len(cs), h = cs[m].head, st[h].type # Untyped,
                    Len(cs2) = m, cs2[m].head = st[h].next, \A k \in 1 .. (m - 1) : cs2[k] = cs[k]
             PROVE  h > p /\ Passing(own, st, n, cs2, h)
  BY DEF GoesPast
<1>1. n \in Nat /\ p \in 0 .. n
  BY StorageAssumption DEF Slots, Passing
<1>2. h \in (p + 1) .. n /\ Beyond(own, st, n, cs, m, h)
  BY ComesBehind
<1>3. h > p /\ h \in 0 .. n
  BY <1>1, <1>2
<1>4. \A k \in 1 .. m : Sent(cs2, k) = Sent(cs, k)
  <2> SUFFICES ASSUME NEW k \in 1 .. m PROVE Sent(cs2, k) = Sent(cs, k)
    OBVIOUS
  <2>1. k # 1 => k - 1 \in 1 .. (m - 1)
    OBVIOUS
  <2> QED BY <2>1 DEF Sent
<1>5. ASSUME NEW k \in 1 .. m
      PROVE  /\ Sent(cs2, k) \in 1 .. h /\ own[Sent(cs2, k)] = Sent(cs2, k)
             /\ cs2[k].head \in 1 .. n /\ own[cs2[k].head] = Sent(cs2, k)
             /\ At(st, cs2, k) > h \/ At(st, cs2, k) = Sent(cs2, k)
  <2> DEFINE e == st[cs[k].head].next
             r == Sent(cs, k)
  <2>1. r \in 1 .. p /\ own[r] = r /\ cs[k].head \in 1 .. n /\ own[cs[k].head] = r
    BY DEF Passing
  <2>2. e \in 1 .. n /\ own[e] = r /\ (e > h \/ e = r)
    BY <1>2 DEF Beyond
  <2>3. At(st, cs2, k) = e /\ cs2[k].head \in 1 .. n /\ own[cs2[k].head] = r
    <3>1. CASE k = m
      BY <2>2, <3>1 DEF At
    <3>2. CASE k # m
      <4>1. k \in 1 .. (m - 1)
        BY <3>2
      <4> QED BY <2>1, <3>2, <4>1 DEF At
    <3> QED BY <3>1, <3>2
  <2>4. r \in 1 .. h
    <3> HIDE DEF r
    <3> QED BY <1>1, <1>3, <2>1
  <2>5. Sent(cs2, k) = r
    BY <1>4
  <2> QED BY <2>1, <2>2, <2>3, <2>4, <2>5
<1>6. \A j, k \in 1 .. m : j < k => Sent(cs2, j) < Sent(cs2, k)
  BY <1>4 DEF Passing
<1> QED BY <1>3, <1>5, <1>6 DEF Passing

\* A container that is met is passed, and its sentinel with it.
LEMMA PassingNested ==
    ASSUME NEW n \in Slots, NEW own, NEW st, Structure(own, st, n, {}, 0, FALSE),
           NEW cs, NEW p, Passing(own, st, n, cs, p), NEW m, NEW h, NEW cs2, GoesInto(cs, cs2, st, m, h)
    PROVE  h > p /\ Passing(own, st, n, cs2, h + 1)
<1> SUFFICES ASSUME m \in Nat \ {0}, m = Len(cs), h = cs[m].head, st[h].type \in Containers,
                    Len(cs2) = m + 1, cs2[m + 1].head = st[h + 1].next,
                    \A k \in 1 .. m : cs2[k] = cs[k]
             PROVE  h > p /\ Passing(own, st, n, cs2, h + 1)
  BY DEF GoesInto
<1>1. n \in Nat /\ p \in 0 .. n
  BY StorageAssumption DEF Slots, Passing
<1>2. st[h].type # Untyped
  BY DEF Containers, Untyped
<1>3. h \in (p + 1) .. n /\ Beyond(own, st, n, cs, m, h)
  BY <1>2, ComesBehind
<1>4. Sent(cs, m) \in 1 .. p
  BY DEF Passing
<1>5. h > p /\ h \in 0 .. n /\ h \in Nat
  BY <1>1, <1>3
<1> DEFINE q == h + 1
<1>6. q \in 1 .. n /\ own[q] = q
  BY <1>5 DEF Structure, Typed
<1>7. \A k \in 1 .. m : Sent(cs2, k) = Sent(cs, k) /\ k \in 1 .. (m + 1) /\ k # m + 1
  <2> SUFFICES ASSUME NEW k \in 1 .. m PROVE Sent(cs2, k) = Sent(cs, k)
    OBVIOUS
  <2>1. k # 1 => k - 1 \in 1 .. m
    OBVIOUS
  <2> QED BY <2>1 DEF Sent
<1>8. Sent(cs2, m + 1) = q
  <2>1. m + 1 # 1 /\ (m + 1) - 1 = m /\ m \in 1 .. m
    OBVIOUS
  <2>2. cs2[m] = cs[m]
    BY <2>1
  <2> QED BY <2>1, <2>2 DEF Sent
<1>9. ASSUME NEW k \in 1 .. m
      PROVE  /\ Sent(cs2, k) \in 1 .. q /\ own[Sent(cs2, k)] = Sent(cs2, k)
             /\ cs2[k].head \in 1 .. n /\ own[cs2[k].head] = Sent(cs2, k)
             /\ At(st, cs2, k) > q \/ At(st, cs2, k) = Sent(cs2, k)
             /\ Sent(cs2, k) < q
  <2> DEFINE e == st[cs[k].head].next
             r == Sent(cs, k)
  <2>1. r \in 1 .. p /\ own[r] = r /\ cs[k].head \in 1 .. n /\ own[cs[k].head] = r
    BY DEF Passing
  <2>2. e \in 1 .. n /\ own[e] = r /\ (e > h \/ e = r)
    BY <1>3 DEF Beyond
  <2>3. At(st, cs2, k) = e /\ cs2[k] = cs[k] /\ Sent(cs2, k) = r
    BY <1>7 DEF At
  <2> HIDE DEF r, e
  <2>4. r \in 1 .. q /\ r < q /\ (e > q \/ e = r)
    <3>1. r < q /\ r \in 1 .. q
      BY <1>1, <1>5, <2>1
    <3>2. e # q
      BY <1>6, <2>2, <3>1, <2>1
    <3> QED BY <1>5, <2>2, <3>1, <3>2
  <2> QED BY <2>1, <2>2, <2>3, <2>4
<1>10. /\ cs2[m + 1].head \in 1 .. n /\ own[cs2[m + 1].head] = q
       /\ At(st, cs2, m + 1) > q \/ At(st, cs2, m + 1) = q
  <2> DEFINE e == st[q].next
  <2>1. e \in 1 .. n /\ own[e] = q /\ (e = q \/ e > q)
    <3>1. Leads(own, st, n, q, q)
      <4> HIDE DEF q
      <4> QED BY <1>6, NextInList
    <3> QED BY <3>1 DEF Leads
  <2> QED BY <2>1 DEF At
<1>11. \A k \in 1 .. (m + 1) : k \in 1 .. m \/ k = m + 1
  OBVIOUS
<1>12. q \in 0 .. n /\ q \in 1 .. q
  BY <1>1, <1>5, <1>6
<1> HIDE DEF q
<1>13. ASSUME NEW k \in 1 .. (m + 1)
       PROVE  /\ Sent(cs2, k) \in 1 .. q /\ own[Sent(cs2, k)] = Sent(cs2, k)
              /\ cs2[k].head \in 1 .. n /\ own[cs2[k].head] = Sent(cs2, k)
              /\ At(st, cs2, k) > q \/ At(st, cs2, k) = Sent(cs2, k)
  <2>1. CASE k \in 1 .. m
    BY <1>9, <2>1
  <2>2. CASE k = m + 1
    BY <1>6, <1>8, <1>10, <1>12, <2>2
  <2> QED BY <1>11, <2>1, <2>2
<1>14. ASSUME NEW j \in 1 .. (m + 1), NEW k \in 1 .. (m + 1), j < k
       PROVE  Sent(cs2, j) < Sent(cs2, k)
  <2>1. j \in 1 .. m
    BY <1>14
  <2>2. CASE k = m + 1
    BY <1>8, <1>9, <2>1, <2>2
  <2>3. CASE k # m + 1
    <3>1. k \in 1 .. m
      BY <2>3
    <3> QED BY <1>7, <1>14, <2>1, <3>1 DEF Passing
  <2> QED BY <2>2, <2>3
<1>15. Passing(own, st, n, cs2, q)
  BY <1>12, <1>13, <1>14 DEF Passing
<1> QED BY <1>5, <1>15 DEF q

\* A list that is at its end passes nothing: the outer one goes on.
LEMMA PassingClose ==
    ASSUME NEW n \in Slots, NEW own, NEW st, Structure(own, st, n, {}, 0, FALSE),
           NEW cs, NEW p, Passing(own, st, n, cs, p), NEW m \in Nat \ {0}, m + 1 = Len(cs),
           NEW cs2, Len(cs2) = m, cs2[m].head = st[cs[m].head].next,
           \A k \in 1 .. (m - 1) : cs2[k] = cs[k]
    PROVE  Passing(own, st, n, cs2, p)
<1>1. n \in Nat /\ p \in 0 .. n
  BY StorageAssumption DEF Slots, Passing
<1>2. \A k \in 1 .. m : k \in 1 .. (m + 1) /\ k # m + 1
  OBVIOUS
<1>3. \A k \in 1 .. m : Sent(cs2, k) = Sent(cs, k)
  <2> SUFFICES ASSUME NEW k \in 1 .. m PROVE Sent(cs2, k) = Sent(cs, k)
    OBVIOUS
  <2>1. k # 1 => k - 1 \in 1 .. (m - 1)
    OBVIOUS
  <2> QED BY <2>1 DEF Sent
<1>4. ASSUME NEW k \in 1 .. m
      PROVE  /\ Sent(cs2, k) \in 1 .. p /\ own[Sent(cs2, k)] = Sent(cs2, k)
             /\ cs2[k].head \in 1 .. n /\ own[cs2[k].head] = Sent(cs2, k)
             /\ At(st, cs2, k) > p \/ At(st, cs2, k) = Sent(cs2, k)
  <2> DEFINE e == st[cs[k].head].next
             r == Sent(cs, k)
             g == cs[k].head
  <2>1. r \in 1 .. p /\ own[r] = r /\ g \in 1 .. n /\ own[g] = r
    BY <1>2 DEF Passing
  <2>2. e > p \/ e = r
    BY <1>2 DEF Passing, At
  <2>3. r \in 1 .. n
    BY <1>1, <2>1
  <2>4. e \in 1 .. n /\ own[e] = r
    <3>1. Leads(own, st, n, r, g)
      <4> HIDE DEF r, g
      <4> QED BY <2>1, <2>3, NextInList
    <3> QED BY <3>1 DEF Leads
  <2>5. At(st, cs2, k) = e /\ cs2[k].head \in 1 .. n /\ own[cs2[k].head] = r
    <3>1. CASE k = m
      BY <2>4, <3>1 DEF At
    <3>2. CASE k # m
      <4>1. k \in 1 .. (m - 1)
        BY <3>2
      <4> QED BY <2>1, <3>2, <4>1 DEF At
    <3> QED BY <3>1, <3>2
  <2>6. Sent(cs2, k) = r
    BY <1>3
  <2> QED BY <2>1, <2>2, <2>5, <2>6
<1>5. \A j, k \in 1 .. m : j < k => Sent(cs2, j) < Sent(cs2, k)
  BY <1>2, <1>3 DEF Passing
<1> QED BY <1>1, <1>4, <1>5 DEF Passing

\* Every slot that the writer has passed, and every call that has returned, took a
\* turn; the turns of the reader left room for that.
Room(cs, t, p) == t + argo_next_value + Len(cs) <= 5 * Len(Text) + 3 + p
Passed(own, p) ==
    /\ Settled(own)
    /\ Passing(own, argo_value_storage, argo_next_value, calls, p)
    /\ Room(calls, turns, p)
    /\ calls = <<>> => p = 0 /\ turns + argo_next_value <= 5 * Len(Text) + 2
WriterPace == pc = "write" /\ values <= 1 => \E own : \E p : Passed(own, p)

InTime == turns <= 2 + TurnsPerCharacter * (1 + Len(Text))
EndsInTime == pc \in {"exit", "overrun"} /\ (result # "storage" \/ values <= 1) => InTime
Paced == WriterPace /\ EndsInTime

\* What the reader took leaves the writer its turns.
LEMMA ReaderRoom ==
    ASSUME NEW t \in Nat, NEW n \in Nat, NEW l \in Nat, t + n <= 5 * l + 2
    PROVE  t <= 2 + 5 * (1 + l) /\ t + n + 0 <= 5 * l + 3 + 0
  OBVIOUS

\* Each turn of the reader fits, the last one too.
LEMMA ReaderTurns ==
    ASSUME Rd, Budget, Reader
    PROVE  Text' = Text /\ turns' + argo_next_value <= 5 * Len(Text) + 2 /\ turns' \in Nat
           /\ argo_next_value \in Nat /\ Len(Text) \in Nat
<1>1. turns' = turns + 1 /\ UNCHANGED <<input, earlier>>
  BY DEF Reader, Open, EndOfInput, Close, Turn, Skip, ReadName, Nest, ReadScalar, BackFromNested,
         NextCharacter, ReadTop, EndRead, ReaderKeeps, Meets, Turned, chosen
<1>2. Text' = Text /\ Len(Text) \in Nat
  BY <1>1, TextIsBytes DEF Rd, ReaderOK, Text
<1>3. Len(stdin) \in Nat /\ argo_next_value \in Nat /\ turns \in Nat
  BY RdFacts DEF Bytes
<1>4. 5 * (Len(Text) - Len(stdin)) - argo_next_value - turns >= -1
  BY BudgetFloor DEF Slack, TurnSlack
<1> DEFINE l == Len(Text)
           m == Len(stdin)
<1>5. l \in Nat /\ m \in Nat /\ 5 * (l - m) - argo_next_value - turns >= -1
  BY <1>2, <1>3, <1>4
<1> HIDE DEF l, m
<1>6. turns + 1 + argo_next_value <= 5 * l + 2
  BY <1>3, <1>5
<1> QED BY <1>1, <1>2, <1>3, <1>6 DEF l

\* Every action of the reader keeps the pace.
LEMMA ReaderPace ==
    ASSUME Rd, Budget, Reader, Checked', Shapes'
    PROVE  Paced'
<1>1. /\ Text' = Text /\ turns' + argo_next_value <= 5 * Len(Text) + 2 /\ turns' \in Nat
      /\ argo_next_value \in Nat /\ Len(Text) \in Nat
  BY ReaderTurns
<1>2. InTime'
  <2>1. turns' <= 2 + 5 * (1 + Len(Text))
    BY <1>1, ReaderRoom
  <2> QED BY <1>1, <2>1 DEF InTime, TurnsPerCharacter
<1>3. EndsInTime'
  BY <1>2 DEF EndsInTime
<1>4. ASSUME pc' = "write", values' <= 1 PROVE \E own : \E p : Passed(own, p)'
  <2>1. EndRead
    BY <1>4 DEF Rd, Reader, Open, EndOfInput, Close, Turn, Skip, ReadName, Nest, ReadScalar, BackFromNested,
           NextCharacter, ReadTop, EndRead, GoesOn, Overruns, Fails, Behind
  <2>2. result' = "storage" /\ calls' = <<>> /\ argo_next_value' = argo_next_value
    BY <2>1 DEF EndRead, store
  <2>3. PICK own : Settled(own)'
    BY <1>4, <2>2 DEF Shapes, DoneShape
  <2>4. Len(calls') = 0
    BY <2>2
  <2>5. Passing(own, argo_value_storage', argo_next_value', calls', 0)
    <3>1. 0 \in 0 .. argo_next_value' /\ 1 .. 0 = {}
      BY <1>1, <2>2
    <3> QED BY <2>4, <3>1 DEF Passing
  <2>6. Room(calls, turns, 0)'
    <3>1. turns' + argo_next_value + 0 <= 5 * Len(Text) + 3 + 0
      BY <1>1, ReaderRoom
    <3> QED BY <1>1, <2>2, <2>4, <3>1 DEF Room
  <2>7. turns' + argo_next_value' <= 5 * Len(Text') + 2
    BY <1>1, <2>2
  <2>8. Passed(own, 0)'
    BY <2>3, <2>5, <2>6, <2>7 DEF Passed
  <2> QED BY <2>8
<1>5. WriterPace'
  BY <1>4 DEF WriterPace
<1> QED BY <1>3, <1>5 DEF Paced

\* A turn of the writer that passes a slot, or comes back from a call, fits.
LEMMA StepRoom ==
    ASSUME NEW t \in Nat, NEW n \in Nat, NEW l \in Nat, NEW b \in Nat, NEW p \in Nat, NEW q \in Nat, NEW k \in Nat,
           t + n + l <= 5 * b + 3 + p, p <= n
    PROVE  /\ t + 1 <= 2 + 5 * (1 + b)
           /\ (k + 1) + p <= l + q => (t + 1) + n + k <= 5 * b + 3 + q
  OBVIOUS

\* What a step of the writer leaves as it is, and what it may count on.
LEMMA PaceFacts ==
    ASSUME Wr, WriterKeeps, Shapes, Paced, values <= 1
    PROVE  /\ argo_next_value \in Slots /\ argo_next_value \in Nat /\ turns \in Nat /\ Len(Text) \in Nat
           /\ Len(calls) \in Nat /\ turns' = turns + 1 /\ Text' = Text
           /\ UNCHANGED <<argo_value_storage, argo_next_value, result, values>>
           /\ \E own : \E p : Passed(own, p)
<1>1. TypeOK /\ pc = "write"
  BY DEF Wr, Checked, ReaderOK
<1>2. calls \in Seq(WriteCalls)
  BY WrFacts
<1>3. turns' = turns + 1 /\ UNCHANGED <<argo_value_storage, argo_next_value, result, values, input, earlier>>
  BY DEF WriterKeeps, Turned, store, chosen
<1>4. argo_next_value \in Slots /\ argo_next_value \in Nat /\ turns \in Nat /\ Len(Text) \in Nat
  BY <1>1, TextIsBytes, SlotsFacts DEF TypeOK
<1>5. Text' = Text
  BY <1>3 DEF Text
<1> QED BY <1>1, <1>2, <1>3, <1>4, <1>5 DEF Paced, WriterPace

\* The parts of what the writer has passed.
LEMMA PassedFacts ==
    ASSUME NEW own, NEW p, Passed(own, p)
    PROVE  /\ Structure(own, argo_value_storage, argo_next_value, {}, 0, FALSE)
           /\ Passing(own, argo_value_storage, argo_next_value, calls, p)
           /\ p \in 0 .. argo_next_value /\ Room(calls, turns, p)
           /\ calls = <<>> => p = 0 /\ turns + argo_next_value <= 5 * Len(Text) + 2
  BY DEF Passed, Settled, Passing

\* The last step of the writer comes in time.
LEMMA PaceEnds ==
    ASSUME Wr, WriterKeeps, Shapes, Paced, pc' = "exit"
    PROVE  Paced'
<1>1. result' = "storage" /\ values' = values
  BY DEF WriterKeeps, Wr, Checked, ReaderOK, TypeOK, ResultOK
<1>2. ASSUME values <= 1 PROVE InTime'
  <2>1. /\ argo_next_value \in Nat /\ turns \in Nat /\ Len(Text) \in Nat
        /\ Len(calls) \in Nat /\ turns' = turns + 1 /\ Text' = Text
        /\ \E own : \E p : Passed(own, p)
    BY <1>2, PaceFacts
  <2>2. PICK own : \E p : Passed(own, p)
    BY <2>1
  <2>3. PICK p : Passed(own, p)
    BY <2>2
  <2>4. p \in 0 .. argo_next_value /\ turns + argo_next_value + Len(calls) <= 5 * Len(Text) + 3 + p
    BY <2>3, PassedFacts DEF Room
  <2>5. p \in Nat /\ p <= argo_next_value /\ 0 \in Nat
    BY <2>1, <2>4
  <2>6. turns + 1 <= 2 + 5 * (1 + Len(Text))
    BY <2>1, <2>4, <2>5, StepRoom
  <2> QED BY <2>1, <2>6 DEF InTime, TurnsPerCharacter
<1> QED BY <1>1, <1>2 DEF Paced, WriterPace, EndsInTime

\* The first turn of the writer is the one that the reader left.
LEMMA FirstRoom ==
    ASSUME NEW t \in Nat, NEW n \in Nat, NEW b \in Nat, t + n <= 5 * b + 2
    PROVE  (t + 1) + n + 1 <= 5 * b + 3 + 1
  OBVIOUS

\* A step of the writer that passes as much as it takes keeps the pace.
LEMMA PaceKept ==
    ASSUME Wr, WriterKeeps, Shapes, Paced, pc' = "write", values <= 1,
           NEW own, NEW p, Passed(own, p), NEW q \in Nat, NEW k \in Nat, k = Len(calls'), calls' # <<>>,
           Passing(own, argo_value_storage, argo_next_value, calls', q), (k + 1) + p <= Len(calls) + q
    PROVE  Paced'
<1>1. /\ argo_next_value \in Nat /\ turns \in Nat /\ Len(Text) \in Nat
      /\ Len(calls) \in Nat /\ turns' = turns + 1 /\ Text' = Text
      /\ UNCHANGED <<argo_value_storage, argo_next_value, result, values>>
  BY PaceFacts
<1>2. /\ p \in 0 .. argo_next_value /\ turns + argo_next_value + Len(calls) <= 5 * Len(Text) + 3 + p
  BY PassedFacts DEF Room
<1>3. p \in Nat /\ p <= argo_next_value
  BY <1>1, <1>2
<1>4. (turns + 1) + argo_next_value + k <= 5 * Len(Text) + 3 + q
  BY <1>1, <1>2, <1>3, StepRoom
<1>5. Room(calls, turns, q)'
  BY <1>1, <1>4 DEF Room
<1>6. Settled(own)'
  BY <1>1 DEF Passed, Settled
<1>7. Passing(own, argo_value_storage, argo_next_value, calls, q)'
  BY <1>1
<1>8. Passed(own, q)'
  BY <1>5, <1>6, <1>7 DEF Passed
<1>9. WriterPace'
  BY <1>8 DEF WriterPace
<1> QED BY <1>9 DEF Paced, EndsInTime

\* A second value: nothing is said.
LEMMA PaceSecond ==
    ASSUME Wr, WriterKeeps, pc' \in {"write", "exit"}, ~(values <= 1)
    PROVE  Paced'
<1>1. values' = values /\ result' = "storage"
  BY DEF WriterKeeps, Wr, Checked, ReaderOK, TypeOK, ResultOK
<1> QED BY <1>1 DEF Paced, WriterPace, EndsInTime

\* The action WriteScalar keeps the pace.
LEMMA WriteScalarPace ==
    ASSUME Wr, Shapes, Paced, WriteScalar
    PROVE  Paced'
<1> DEFINE m == Len(calls)
           h == Call.head
           c2 == [Call EXCEPT !.head = Here.next]
<1>1. /\ WriterKeeps /\ calls # <<>> /\ pc' = "write" /\ Here.type # Untyped /\ calls' = Replaced(c2)
  BY DEF WriteScalar, Wr, Writing
<1>2. CASE ~(values <= 1)
  BY <1>1, <1>2, PaceSecond
<1>3. CASE values <= 1
  <2>1. PICK own : \E p : Passed(own, p)
    BY <1>1, <1>3, PaceFacts
  <2>2. PICK p : Passed(own, p)
    BY <2>1
  <2>3. /\ Structure(own, argo_value_storage, argo_next_value, {}, 0, FALSE)
        /\ Passing(own, argo_value_storage, argo_next_value, calls, p)
        /\ p \in 0 .. argo_next_value
    BY <2>2, PassedFacts
  <2>4. /\ calls \in Seq(WriteCalls) /\ m \in Nat \ {0} /\ Call = calls[m] /\ Call \in WriteCalls
        /\ Here.next \in Slots
    BY <1>1, WrFacts, WritingFacts
  <2>5. c2 \in WriteCalls /\ c2.head = argo_value_storage[h].next
    BY <2>4 DEF WriteCalls, Here
  <2> HIDE DEF c2
  <2>6. /\ Len(calls') = m /\ calls'[m] = c2 /\ \A k \in 1 .. (m - 1) : calls'[k] = calls[k]
    <3>1. /\ Len(calls') = m
          /\ \A k \in 1 .. m : calls'[k] = IF k = m THEN c2 ELSE calls[k]
      BY <1>1, <2>4, <2>5, TopCall DEF Replaced
    <3>2. m \in 1 .. m /\ \A k \in 1 .. (m - 1) : k \in 1 .. m /\ k # m
      <4>1. m \in Nat \ {0}
        BY <2>4
      <4> HIDE DEF m
      <4> QED BY <4>1
    <3> QED BY <3>1, <3>2
  <2>7. argo_next_value \in Slots /\ argo_next_value \in Nat
    BY <1>1, <1>3, PaceFacts
  <2>8. argo_value_storage[h].type # Untyped /\ h = calls[m].head /\ calls'[m].head = argo_value_storage[h].next
    BY <1>1, <2>4, <2>5, <2>6 DEF Here
  <2>9. h > p /\ Passing(own, argo_value_storage, argo_next_value, calls', h)
    <3>1. m = Len(calls) /\ m \in Nat \ {0}
      BY <2>4
    <3>2. Len(calls') = m /\ \A k \in 1 .. (m - 1) : calls'[k] = calls[k]
      BY <2>6
    <3> HIDE DEF h, m
    <3>3. GoesPast(calls, calls', argo_value_storage, m, h)
      BY <2>8, <3>1, <3>2 DEF GoesPast
    <3> QED BY <2>3, <2>7, <3>3, PassingScalar
  <2>10. h \in Nat /\ m \in Nat /\ p \in Nat
    <3>1. h \in Slots
      BY <1>1, WritingFacts
    <3>2. h \in Nat
      BY <3>1, SlotsFacts
    <3>3. m \in Nat
      BY <2>4
    <3> HIDE DEF h, m
    <3>4. p \in Nat
      BY <2>3, <2>7
    <3> QED BY <3>2, <3>3, <3>4
  <2>11. (m + 1) + p <= m + h
    <3> HIDE DEF h, m
    <3> QED BY <2>9, <2>10
  <2>12. calls' # <<>>
    <3>1. Len(calls') # 0
      BY <2>4, <2>6
    <3> QED BY <3>1
  <2> QED BY <1>1, <1>3, <2>2, <2>6, <2>9, <2>10, <2>11, <2>12, PaceKept
<1> QED BY <1>2, <1>3

\* The action WriteNested keeps the pace.
LEMMA WriteNestedPace ==
    ASSUME Wr, Shapes, Paced, WriteNested
    PROVE  Paced'
<1> DEFINE m == Len(calls)
           h == Call.head
           c2 == WriteCall(Here)
<1>1. /\ WriterKeeps /\ calls # <<>> /\ pc' = "write" /\ Here.type \in Containers /\ calls' = Append(calls, c2)
  BY DEF WriteNested, Wr, Writing, Containers
<1>2. CASE ~(values <= 1)
  BY <1>1, <1>2, PaceSecond
<1>3. CASE values <= 1
  <2>1. PICK own : \E p : Passed(own, p)
    BY <1>1, <1>3, PaceFacts
  <2>2. PICK p : Passed(own, p)
    BY <2>1
  <2>3. /\ Structure(own, argo_value_storage, argo_next_value, {}, 0, FALSE)
        /\ Passing(own, argo_value_storage, argo_next_value, calls, p)
        /\ p \in 0 .. argo_next_value
    BY <2>2, PassedFacts
  <2>4. /\ calls \in Seq(WriteCalls) /\ m \in Nat \ {0} /\ Call = calls[m] /\ Call \in WriteCalls
        /\ h \in Slots
    BY <1>1, WrFacts, WritingFacts
  <2>5. c2 \in WriteCalls /\ c2.head = argo_value_storage[h + 1].next
    BY <1>1, <2>4, WrFacts DEF Here
  <2> HIDE DEF c2
  <2>6. /\ Len(calls') = m + 1 /\ calls'[m + 1] = c2 /\ \A k \in 1 .. m : calls'[k] = calls[k]
    BY <1>1, <2>4, <2>5
  <2>7. argo_next_value \in Slots /\ argo_next_value \in Nat
    BY <1>1, <1>3, PaceFacts
  <2>8. /\ argo_value_storage[h].type \in Containers /\ h = calls[m].head
        /\ calls'[m + 1].head = argo_value_storage[h + 1].next
    BY <1>1, <2>4, <2>5, <2>6 DEF Here
  <2>9. h > p /\ Passing(own, argo_value_storage, argo_next_value, calls', h + 1)
    <3>1. m = Len(calls) /\ m \in Nat \ {0}
      BY <2>4
    <3>2. Len(calls') = m + 1 /\ \A k \in 1 .. m : calls'[k] = calls[k]
      BY <2>6
    <3> HIDE DEF h, m
    <3>3. GoesInto(calls, calls', argo_value_storage, m, h)
      BY <2>8, <3>1, <3>2 DEF GoesInto
    <3> QED BY <2>3, <2>7, <3>3, PassingNested
  <2>10. h \in Nat /\ m \in Nat /\ p \in Nat /\ h + 1 \in Nat /\ m + 1 \in Nat
    <3>1. h \in Slots
      BY <1>1, WritingFacts
    <3>2. h \in Nat
      BY <3>1, SlotsFacts
    <3>3. m \in Nat
      BY <2>4
    <3> HIDE DEF h, m
    <3>4. p \in Nat
      BY <2>3, <2>7
    <3> QED BY <3>2, <3>3, <3>4
  <2>11. ((m + 1) + 1) + p <= m + (h + 1)
    <3> HIDE DEF h, m
    <3> QED BY <2>9, <2>10
  <2>12. calls' # <<>>
    <3>1. Len(calls') # 0
      BY <2>4, <2>6
    <3> QED BY <3>1
  <2> QED BY <1>1, <1>3, <2>2, <2>6, <2>9, <2>10, <2>11, <2>12, PaceKept
<1> QED BY <1>2, <1>3

\* The action WriteClose keeps the pace.
LEMMA WriteClosePace ==
    ASSUME Wr, Shapes, Paced, WriteClose
    PROVE  Paced'
<1> DEFINE m == Len(calls) - 1
           outer == calls[m]
           v == argo_value_storage[outer.head]
           c2 == [outer EXCEPT !.head = v.next]
<1>1. /\ WriterKeeps /\ calls # <<>> /\ pc' = "write" /\ Len(calls) > 1
      /\ calls' = Append(SubSeq(calls, 1, Len(calls) - 2), c2)
  BY DEF WriteClose, Wr, Writing
<1>2. CASE ~(values <= 1)
  BY <1>1, <1>2, PaceSecond
<1>3. CASE values <= 1
  <2>1. PICK own : \E p : Passed(own, p)
    BY <1>1, <1>3, PaceFacts
  <2>2. PICK p : Passed(own, p)
    BY <2>1
  <2>3. /\ Structure(own, argo_value_storage, argo_next_value, {}, 0, FALSE)
        /\ Passing(own, argo_value_storage, argo_next_value, calls, p)
        /\ p \in 0 .. argo_next_value
    BY <2>2, PassedFacts
  <2>4. /\ calls \in Seq(WriteCalls) /\ m \in Nat \ {0} /\ Len(calls) = m + 1 /\ Len(calls) - 2 = m - 1
        /\ m \in 1 .. Len(calls)
    <3>1. calls \in Seq(WriteCalls)
      BY WrFacts
    <3> QED BY <1>1, <3>1
  <2>5. outer \in WriteCalls
    BY <2>4
  <2>6. c2 \in WriteCalls /\ c2.head = argo_value_storage[outer.head].next
    <3>1. outer.head \in Slots
      BY <2>5 DEF WriteCalls
    <3>2. v \in Values
      BY <3>1, WrFacts
    <3>3. v.next \in Slots
      BY <3>2 DEF Values
    <3> QED BY <2>5, <3>3 DEF WriteCalls
  <2> HIDE DEF c2
  <2>7. /\ Len(calls') = m /\ calls'[m] = c2 /\ \A k \in 1 .. (m - 1) : calls'[k] = calls[k]
    <3>1. calls' = Append(SubSeq(calls, 1, m - 1), c2)
      BY <1>1, <2>4
    <3>2. m \in Nat \ {0} /\ calls \in Seq(WriteCalls) /\ Len(calls) = m + 1
      BY <2>4
    <3> HIDE DEF m
    <3> DEFINE u == SubSeq(calls, 1, m - 1)
    <3>3. u \in Seq(WriteCalls) /\ Len(u) = m - 1 /\ \A k \in 1 .. (m - 1) : u[k] = calls[k]
      BY <3>2
    <3> HIDE DEF u
    <3>4. Len(Append(u, c2)) = m /\ Append(u, c2)[m] = c2 /\ \A k \in 1 .. (m - 1) : Append(u, c2)[k] = u[k]
      BY <2>6, <3>2, <3>3
    <3> QED BY <3>1, <3>3, <3>4 DEF u
  <2>8. argo_next_value \in Slots /\ argo_next_value \in Nat
    BY <1>1, <1>3, PaceFacts
  <2>9. calls'[m].head = argo_value_storage[calls[m].head].next
    BY <2>6, <2>7
  <2>10. Passing(own, argo_value_storage, argo_next_value, calls', p)
    <3>1. m \in Nat \ {0} /\ m + 1 = Len(calls)
      BY <2>4
    <3>2. Len(calls') = m /\ \A k \in 1 .. (m - 1) : calls'[k] = calls[k]
      BY <2>7
    <3> HIDE DEF m
    <3> QED BY <2>3, <2>8, <2>9, <3>1, <3>2, PassingClose
  <2>11. m \in Nat /\ p \in Nat /\ (m + 1) + p <= Len(calls) + p
    BY <2>3, <2>4, <2>8
  <2>12. calls' # <<>>
    <3>1. Len(calls') # 0
      BY <2>4, <2>7
    <3> QED BY <3>1
  <2> QED BY <1>1, <1>3, <2>2, <2>7, <2>10, <2>11, <2>12, PaceKept
<1> QED BY <1>2, <1>3

\* The action WriteEnd keeps the pace.
LEMMA WriteEndPace ==
    ASSUME Wr, Shapes, Paced, WriteEnd
    PROVE  Paced'
  BY PaceEnds DEF WriteEnd

\* The action WriteValue keeps the pace.
LEMMA WriteValuePace ==
    ASSUME Wr, Shapes, Paced, WriteValue
    PROVE  Paced'
<1> DEFINE v == argo_value_storage[0]
           c2 == WriteCall(v)
<1>1. /\ WriterKeeps /\ calls = <<>>
      /\ IF v.type \in Containers THEN calls' = <<c2>> /\ pc' = "write" ELSE pc' = "exit"
  BY DEF WriteValue, Wr, Containers
<1>2. CASE v.type \notin Containers
  BY <1>1, <1>2, PaceEnds
<1>3. CASE v.type \in Containers /\ ~(values <= 1)
  BY <1>1, <1>3, PaceSecond
<1>4. CASE v.type \in Containers /\ values <= 1
  <2>1. PICK own : \E p : Passed(own, p)
    BY <1>1, <1>4, PaceFacts
  <2>2. PICK p : Passed(own, p)
    BY <2>1
  <2>3. /\ Structure(own, argo_value_storage, argo_next_value, {}, 0, FALSE)
        /\ turns + argo_next_value <= 5 * Len(Text) + 2
    BY <1>1, <2>2, PassedFacts
  <2>4. c2.head = argo_value_storage[1].next
    <3>1. 0 \in Slots /\ 0 + 1 = 1
      BY SlotsFacts
    <3>2. c2.head = argo_value_storage[0 + 1].next
      BY <1>4, <3>1, WrFacts
    <3> QED BY <3>1, <3>2
  <2> HIDE DEF c2
  <2>5. Len(calls') = 1 /\ calls'[1].head = argo_value_storage[1].next /\ Len(calls) = 0
    BY <1>1, <1>4, <2>4
  <2>6. argo_next_value \in Slots /\ argo_next_value \in Nat
    BY <1>1, <1>4, PaceFacts
  <2>7. Passing(own, argo_value_storage, argo_next_value, calls', 1)
    BY <1>4, <2>3, <2>5, <2>6, PassingValue
  <2>8. /\ turns \in Nat /\ Len(Text) \in Nat /\ turns' = turns + 1 /\ Text' = Text
        /\ UNCHANGED <<argo_value_storage, argo_next_value, result, values>>
    BY <1>1, <1>4, PaceFacts
  <2>9. (turns + 1) + argo_next_value + 1 <= 5 * Len(Text) + 3 + 1
    BY <2>3, <2>6, <2>8, FirstRoom
  <2>10. Room(calls, turns, 1)'
    BY <2>5, <2>8, <2>9 DEF Room
  <2>11. Settled(own)'
    BY <2>2, <2>8 DEF Passed, Settled
  <2>12. calls' # <<>>
    <3>1. Len(calls') # 0
      BY <2>5
    <3> QED BY <3>1
  <2>13. Passing(own, argo_value_storage, argo_next_value, calls, 1)'
    BY <2>7, <2>8
  <2>14. Passed(own, 1)'
    BY <2>10, <2>11, <2>12, <2>13 DEF Passed
  <2>15. pc' = "write"
    BY <1>1, <1>4
  <2> QED BY <2>14, <2>15 DEF Paced, WriterPace, EndsInTime
<1> QED BY <1>2, <1>3, <1>4

\* Before a run nothing is said of its pace.
LEMMA InitPaced ==
    ASSUME Init
    PROVE  Paced
  BY DEF Init, Paced, WriterPace, EndsInTime

\* The action main keeps the pace.
LEMMA MainPace ==
    ASSUME Checked, main
    PROVE  Paced'
<1>1. TypeOK /\ Begun /\ pc = "main" /\ turns' = turns + 1 /\ pc' \in {"read", "exit"} /\ UNCHANGED <<input, earlier>>
  BY DEF main, Checked, ReaderOK, TypeOK
<1>2. turns' = 1
  BY <1>1 DEF Begun
<1>3. Text' = Text /\ Len(Text) \in Nat
  BY <1>1, TextIsBytes DEF Text
<1>4. InTime'
  BY <1>2, <1>3 DEF InTime, TurnsPerCharacter
<1> QED BY <1>1, <1>4 DEF Paced, WriterPace, EndsInTime

\* What the pace speaks of.
Watched == <<argo_value_storage, argo_next_value, calls, turns, pc, result, values, input, earlier>>

\* The pace is kept when nothing it speaks of changes.
LEMMA PaceStutters ==
    ASSUME Paced, UNCHANGED Watched
    PROVE  Paced'
<1>1. /\ UNCHANGED <<argo_value_storage, argo_next_value, calls, turns, pc, result, values, input, earlier>>
  BY DEF Watched
<1>2. Text' = Text
  BY <1>1 DEF Text
<1>3. ASSUME NEW own, NEW p, Passed(own, p) PROVE Passed(own, p)'
  BY <1>1, <1>2, <1>3 DEF Passed, Settled, Room
<1>4. WriterPace'
  BY <1>1, <1>3 DEF Paced, WriterPace
<1>5. EndsInTime'
  BY <1>1, <1>2 DEF Paced, EndsInTime, InTime
<1> QED BY <1>4, <1>5 DEF Paced

\* Every step keeps the pace.
LEMMA PacedStep ==
    ASSUME Checked, Shapes, Paced, Checked', Shapes', [Next]_vars
    PROVE  Paced'
<1>1. CASE UNCHANGED vars
  BY <1>1, PaceStutters DEF vars, store, chosen, Watched
<1>2. CASE main
  BY <1>2, MainPace
<1>3. CASE Reader
  <2>1. Rd
    BY <1>3 DEF Checked, Rd, Reader, Open, EndOfInput, Close, Turn, Skip, ReadName, Nest, ReadScalar,
                BackFromNested, NextCharacter, ReadTop, EndRead, Testing, Reading
  <2> QED BY <1>3, <2>1, ReaderPace DEF Checked
<1>4. CASE Writer
  <2>1. Wr
    BY <1>4 DEF Wr, Writer, WriteValue, WriteScalar, WriteNested, WriteClose, WriteEnd, Writing
  <2> QED BY <1>4, <2>1, WriteValuePace, WriteScalarPace, WriteNestedPace, WriteClosePace, WriteEndPace DEF Writer
<1>5. CASE RunAgain
  BY <1>5 DEF RunAgain, Paced, WriterPace, EndsInTime
<1>6. CASE Exited
  BY <1>1, <1>6 DEF Exited
<1> QED BY <1>1, <1>2, <1>3, <1>4, <1>5, <1>6 DEF Next

\* All of it together.
ArgoInv == Checked /\ Shapes /\ Paced

\* The inductive invariant: types, stack and budget; the shape of the storage; and the
\* pace of the writer, which never passes a slot twice.
THEOREM ArgoInvAlways == Spec => []ArgoInv
<1>1. Init => ArgoInv
  BY InitChecked, InitShapes, InitPaced DEF ArgoInv
<1>2. ArgoInv /\ [Next]_vars => ArgoInv'
  BY CheckedStep, ShapesStep, PacedStep DEF ArgoInv
<1> QED BY <1>1, <1>2, PTL DEF Spec

\* A slot of the writer's list and the slots behind it leave room in the turns.
LEMMA RoomInTime ==
    ASSUME NEW t \in Nat, NEW n \in Nat, NEW l \in Nat, NEW b \in Nat, NEW p \in Nat,
           t + n + l <= 5 * b + 3 + p, p <= n
    PROVE  t <= 2 + 5 * (1 + b)
  OBVIOUS

\* The turns of the reader fit.
LEMMA ReadInTime ==
    ASSUME NEW t \in Nat, NEW n \in Nat, NEW s \in Nat, NEW b \in Nat, 5 * (b - s) - n - t >= -1
    PROVE  t <= 2 + 5 * (1 + b)
  OBVIOUS

\* The inductive invariant implies what is said of every run.
LEMMA BoundsHold ==
    ASSUME ArgoInv
    PROVE  InputBoundsRun
<1>1. Checked /\ ReaderOK /\ TypeOK /\ Begun /\ Within /\ Budget /\ WriterPace /\ EndsInTime
  BY DEF ArgoInv, Checked, Paced, ReaderOK, TypeOK
<1>2. Len(Text) \in Nat /\ Len(stdin) \in Nat /\ turns \in Nat /\ argo_next_value \in Nat
  BY <1>1, TextIsBytes, SlotsFacts DEF TypeOK, Bytes
<1>3. ASSUME pc = "read"
      PROVE  argo_next_value <= 2 * (Len(Text) - Len(stdin)) /\ turns <= 2 + 5 * (1 + Len(Text))
  <2>1. Slack(0, -1)
    BY <1>1, <1>3, BudgetFloor DEF Rd
  <2>2. argo_next_value <= 2 * (Len(Text) - Len(stdin))
    BY <1>2, <2>1 DEF Slack, IndexSlack
  <2>3. 5 * (Len(Text) - Len(stdin)) - argo_next_value - turns >= -1
    BY <2>1 DEF Slack, TurnSlack
  <2> QED BY <1>2, <2>2, <2>3, ReadInTime
<1>4. ASSUME pc = "write", values <= 1
      PROVE  turns <= 2 + 5 * (1 + Len(Text))
  <2>1. PICK own : \E p : Passed(own, p)
    BY <1>1, <1>4 DEF WriterPace
  <2>2. PICK p : Passed(own, p)
    BY <2>1
  <2>3. p \in 0 .. argo_next_value /\ turns + argo_next_value + Len(calls) <= 5 * Len(Text) + 3 + p
    BY <2>2, PassedFacts DEF Room
  <2>4. Len(calls) \in Nat
    <3>1. calls \in Seq(WriteCalls)
      BY <1>1, <1>4, WrFacts DEF Wr
    <3> QED BY <3>1
  <2>5. p \in Nat /\ p <= argo_next_value
    BY <1>2, <2>3
  <2> QED BY <1>2, <2>3, <2>4, <2>5, RoomInTime
<1>5. pc = "main" => turns <= 2 + 5 * (1 + Len(Text))
  BY <1>1, <1>2 DEF Begun
<1>6. pc \in {"exit", "overrun"} /\ (result # "storage" \/ values <= 1) => turns <= 2 + 5 * (1 + Len(Text))
  BY <1>1 DEF EndsInTime, InTime, TurnsPerCharacter
<1>7. pc = "write" => result = "storage"
  BY <1>1 DEF TypeOK, ResultOK
<1>8. pc \in {"main", "read", "write", "exit", "overrun"}
  BY <1>1 DEF TypeOK
<1>9. pc = "overrun" => NUM_ARGO_VALUES <= 2 * Len(Text)
  BY <1>1 DEF Within
<1> QED BY <1>3, <1>4, <1>5, <1>6, <1>7, <1>8, <1>9 DEF InputBoundsRun, TurnsPerCharacter

\* A run takes at most two slots and five turns for each character, two turns and five
\* for the end included: an input shorter than half the storage cannot leave the array,
\* and for a single value the writer ends, whatever the input is.
THEOREM RunsAreBounded == Spec => []InputBoundsRun
  BY ArgoInvAlways, BoundsHold, PTL
=============================================================================
