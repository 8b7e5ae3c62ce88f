-------------------------- MODULE PbxServerProofs --------------------------
(***************************************************************************)
(* Proofs about PbxServer: for any clients, descriptors and bounds, every  *)
(* thread serves the connection it was created for, and no extension is    *)
(* given to two units.                                                     *)
(***************************************************************************)
EXTENDS PbxServer, TLAPS

(* The inductive invariant.  A number travels from accept() to the thread      *)
(* through a block whose address main holds, then the thread.                  *)

\* main points at the block of its last call of accept().
PointsAtLast == connfd = accepts

\* Nothing is known of the calls to come.
NothingYet ==
    \A t \in Threads : t > accepts => pc[t] = "none" /\ accepted[t] = None /\ registered[t] = None

\* Before the thread is created, its number is in the block.
Stored ==
    main = "create" =>
        /\ accepts \in Threads /\ pc[accepts] = "none" /\ registered[accepts] = None
        /\ block[accepts] = accepted[accepts]

\* A thread that was created finds it there.
Handed == \A t \in Threads : pc[t] = "created" => arg[t] = t /\ block[t] = accepted[t]

\* A number that was returned is in use for ever, and was returned once.
InUse == \A t \in Threads : accepted[t] \in Descriptors => table[accepted[t]] # Nobody
ReturnedOnce ==
    \A s, t \in Threads : accepted[s] = accepted[t] /\ accepted[t] \in Descriptors => s = t

PbxInv ==
    /\ PbxTypeOK
    /\ PointsAtLast /\ NothingYet /\ Stored /\ Handed
    /\ InUse /\ ReturnedOnce
    /\ ServesItsConnection

\* The variables PbxInv speaks of.
own == <<main, connfd, block, accepts, accepted, pc, arg, fd, registered, table>>

LEMMA Numbers == Failed \notin Descriptors /\ None \notin Descriptors /\ None # Failed
BY DescriptorsAssumption DEF Failed, None

LEMMA Bound == MaxAccepts \in Nat
BY BoundsAssumption

LEMMA InvInit == Init => PbxInv
<1> SUFFICES ASSUME Init PROVE PbxInv OBVIOUS
<1>1. /\ main = "start" /\ connfd = 0 /\ accepts = 0
      /\ block = [t \in Threads |-> None] /\ accepted = [t \in Threads |-> None]
      /\ pc = [t \in Threads |-> "none"] /\ arg = [t \in Threads |-> 0]
      /\ fd = [t \in Threads |-> None] /\ registered = [t \in Threads |-> None]
      /\ table = [d \in Descriptors |-> Nobody]
    BY DEF Init
<1>2. 0 \in 0..MaxAccepts BY Bound
<1>3. PbxTypeOK BY <1>1, <1>2 DEF PbxTypeOK, Fds
<1>4. PointsAtLast /\ NothingYet /\ Stored /\ Handed
    BY <1>1 DEF PointsAtLast, NothingYet, Stored, Handed
<1>5. InUse /\ ReturnedOnce BY <1>1, Numbers DEF InUse, ReturnedOnce
<1>6. ServesItsConnection BY <1>1 DEF ServesItsConnection
<1> QED BY <1>3, <1>4, <1>5, <1>6 DEF PbxInv

LEMMA InvUnchanged == PbxInv /\ UNCHANGED own => PbxInv'
<1> SUFFICES ASSUME PbxInv, UNCHANGED own PROVE PbxInv' OBVIOUS
<1>1. PbxTypeOK' BY DEF PbxInv, own, PbxTypeOK
<1>2. PointsAtLast' /\ NothingYet' /\ Stored' /\ Handed'
    BY DEF PbxInv, own, PointsAtLast, NothingYet, Stored, Handed
<1>3. InUse' /\ ReturnedOnce' BY DEF PbxInv, own, InUse, ReturnedOnce
<1>4. ServesItsConnection' BY DEF PbxInv, own, ServesItsConnection
<1> QED BY <1>1, <1>2, <1>3, <1>4 DEF PbxInv

LEMMA InvStart == PbxInv /\ Start => PbxInv'
<1> SUFFICES ASSUME PbxInv, Start PROVE PbxInv' OBVIOUS
<1> USE DEF Start, Serves, Terminates, clients, service, threads
<1>1. PbxTypeOK' BY DEF PbxInv, PbxTypeOK
<1>2. PointsAtLast' /\ NothingYet' /\ Stored' /\ Handed'
    BY DEF PbxInv, PointsAtLast, NothingYet, Stored, Handed
<1>3. InUse' /\ ReturnedOnce' BY DEF PbxInv, InUse, ReturnedOnce
<1>4. ServesItsConnection' BY DEF PbxInv, ServesItsConnection
<1> QED BY <1>1, <1>2, <1>3, <1>4 DEF PbxInv

\* What both outcomes of accept() have in common.
LEMMA InvAccepted ==
    ASSUME PbxInv, NEW result \in Descriptors \cup {Failed}, Accepting, Accepted(result),
           main' = "create", UNCHANGED <<pc, arg, fd, registered>>,
           table' \in [Descriptors -> Clients \cup {Nobody}],
           \A d \in Descriptors : table[d] # Nobody => table'[d] # Nobody,
           result \in Descriptors => table[result] = Nobody /\ table'[result] # Nobody
    PROVE  PbxInv'
<1> DEFINE n == accepts + 1
<1> USE Bound, Numbers DEF Accepted, Accepting
<1>1. n \in Threads /\ accepts' = n /\ connfd' = n /\ n > accepts /\ accepts \in Nat
    BY DEF PbxInv, PbxTypeOK, Threads
<1>2. /\ block' \in [Threads -> Fds] /\ accepted' \in [Threads -> Fds]
      /\ block'[n] = result /\ accepted'[n] = result
      /\ \A t \in Threads \ {n} : block'[t] = block[t] /\ accepted'[t] = accepted[t]
    BY <1>1 DEF PbxInv, PbxTypeOK, Fds
<1>3. pc[n] = "none" /\ accepted[n] = None /\ registered[n] = None
    BY <1>1 DEF PbxInv, NothingYet
<1>4. PbxTypeOK' BY <1>1, <1>2 DEF PbxInv, PbxTypeOK, Threads
<1>5. PointsAtLast' /\ Stored' BY <1>1, <1>2, <1>3 DEF PointsAtLast, Stored
<1>6. NothingYet'
  <2> SUFFICES ASSUME NEW t \in Threads, t > n
               PROVE pc[t] = "none" /\ accepted'[t] = None /\ registered[t] = None
      BY <1>1 DEF NothingYet
  <2>1. t > accepts /\ t # n BY <1>1 DEF Threads
  <2> QED BY <2>1, <1>2 DEF PbxInv, NothingYet
<1>7. Handed' BY <1>2, <1>3 DEF PbxInv, Handed
<1>8. InUse'
  <2> SUFFICES ASSUME NEW t \in Threads, accepted'[t] \in Descriptors
               PROVE table'[accepted'[t]] # Nobody
      BY DEF InUse
  <2>1. CASE t = n BY <2>1, <1>2
  <2>2. CASE t # n BY <2>2, <1>2 DEF PbxInv, InUse
  <2> QED BY <2>1, <2>2
<1>9. ReturnedOnce'
  <2> SUFFICES ASSUME NEW s \in Threads, NEW t \in Threads, accepted'[s] = accepted'[t],
                      accepted'[t] \in Descriptors
               PROVE s = t
      BY DEF ReturnedOnce
  <2>1. CASE s = n /\ t # n BY <2>1, <1>2 DEF PbxInv, InUse
  <2>2. CASE s # n /\ t = n BY <2>2, <1>2 DEF PbxInv, InUse
  <2>3. CASE s # n /\ t # n BY <2>3, <1>2 DEF PbxInv, ReturnedOnce
  <2> QED BY <2>1, <2>2, <2>3
<1>10. ServesItsConnection' BY <1>2, <1>3 DEF PbxInv, ServesItsConnection
<1> QED BY <1>4, <1>5, <1>6, <1>7, <1>8, <1>9, <1>10 DEF PbxInv

LEMMA InvAccept == ASSUME PbxInv, NEW c \in Clients, Accept(c) PROVE PbxInv'
<1>1. PICK d \in Descriptors : Lowest(d) /\ Accepted(d) /\ table' = [table EXCEPT ![d] = c]
    BY DEF Accept
<1>2. Nobody # c BY ClientsAssumption DEF Nobody
<1>3. table[d] = Nobody BY <1>1 DEF Lowest, Free
<1>4. /\ table' \in [Descriptors -> Clients \cup {Nobody}]
      /\ table'[d] = c /\ \A e \in Descriptors \ {d} : table'[e] = table[e]
    BY <1>1 DEF PbxInv, PbxTypeOK
<1>5. Accepting /\ main' = "create" /\ UNCHANGED <<pc, arg, fd, registered>>
    BY DEF Accept, service, threads
<1> QED BY <1>1, <1>2, <1>3, <1>4, <1>5, InvAccepted

LEMMA InvAcceptFails == PbxInv /\ AcceptFails => PbxInv'
<1> SUFFICES ASSUME PbxInv, AcceptFails PROVE PbxInv' OBVIOUS
<1>1. Accepting /\ Accepted(Failed) /\ main' = "create" /\ UNCHANGED <<pc, arg, fd, registered, table>>
    BY DEF AcceptFails, service, threads
<1>2. table' \in [Descriptors -> Clients \cup {Nobody}] BY <1>1 DEF PbxInv, PbxTypeOK
<1> QED BY <1>1, <1>2, Numbers, InvAccepted

LEMMA InvCreate == PbxInv /\ Create => PbxInv'
<1> SUFFICES ASSUME PbxInv, Create PROVE PbxInv' OBVIOUS
<1> DEFINE n == accepts
<1>1. /\ main = "create" /\ main' = "accept"
      /\ UNCHANGED <<connfd, block, accepts, accepted, fd, registered, table>>
    BY DEF Create
<1>2. n \in Threads /\ pc[n] = "none" /\ registered[n] = None /\ block[n] = accepted[n]
    BY <1>1 DEF PbxInv, Stored
<1>3. connfd = n BY DEF PbxInv, PointsAtLast
<1>4. CASE UNCHANGED <<pc, arg>>
  <2>1. PbxTypeOK' BY <1>1, <1>4 DEF PbxInv, PbxTypeOK
  <2>2. PointsAtLast' /\ NothingYet' /\ Stored' /\ Handed'
      BY <1>1, <1>4 DEF PbxInv, PointsAtLast, NothingYet, Stored, Handed
  <2>3. InUse' /\ ReturnedOnce' BY <1>1, <1>4 DEF PbxInv, InUse, ReturnedOnce
  <2>4. ServesItsConnection' BY <1>1, <1>4 DEF PbxInv, ServesItsConnection
  <2> QED BY <2>1, <2>2, <2>3, <2>4 DEF PbxInv
<1>5. CASE pc' = [pc EXCEPT ![n] = "created"] /\ arg' = [arg EXCEPT ![n] = connfd]
  <2>1. /\ pc'[n] = "created" /\ arg'[n] = n
        /\ \A t \in Threads \ {n} : pc'[t] = pc[t] /\ arg'[t] = arg[t]
        /\ pc' \in [Threads -> {"none", "created", "taken", "read", "obey", "gone"}]
        /\ arg' \in [Threads -> 0..MaxAccepts]
      BY <1>2, <1>3, <1>5 DEF PbxInv, PbxTypeOK
  <2>2. PbxTypeOK' BY <1>1, <2>1 DEF PbxInv, PbxTypeOK
  <2>3. PointsAtLast' /\ Stored' BY <1>1 DEF PbxInv, PointsAtLast, Stored
  <2>4. NothingYet'
    <3> SUFFICES ASSUME NEW t \in Threads, t > accepts
                 PROVE pc'[t] = "none" /\ accepted[t] = None /\ registered[t] = None
        BY <1>1 DEF NothingYet
    <3>1. accepts \in Nat BY DEF PbxInv, PbxTypeOK
    <3>2. t # n BY <3>1 DEF Threads
    <3> QED BY <3>2, <2>1 DEF PbxInv, NothingYet
  <2>5. Handed' BY <1>1, <1>2, <2>1 DEF PbxInv, Handed
  <2>6. InUse' /\ ReturnedOnce' BY <1>1 DEF PbxInv, InUse, ReturnedOnce
  <2>7. ServesItsConnection' BY <1>1, <2>1 DEF PbxInv, ServesItsConnection
  <2> QED BY <2>2, <2>3, <2>4, <2>5, <2>6, <2>7 DEF PbxInv
<1> QED BY <1>4, <1>5 DEF Create

LEMMA InvTake == ASSUME PbxInv, NEW t \in Threads, Take(t) PROVE PbxInv'
<1>1. /\ pc[t] = "created" /\ pc' = [pc EXCEPT ![t] = "taken"]
      /\ fd' = [fd EXCEPT ![t] = block[arg[t]]] /\ block' = [block EXCEPT ![arg[t]] = None]
      /\ UNCHANGED <<main, connfd, accepts, accepted, arg, registered, table>>
    BY DEF Take, At
<1>2. arg[t] = t /\ block[t] = accepted[t] BY <1>1 DEF PbxInv, Handed
<1>3. /\ pc'[t] = "taken" /\ fd'[t] = accepted[t]
      /\ \A s \in Threads \ {t} : pc'[s] = pc[s] /\ fd'[s] = fd[s] /\ block'[s] = block[s]
      /\ pc' \in [Threads -> {"none", "created", "taken", "read", "obey", "gone"}]
      /\ fd' \in [Threads -> Fds] /\ block' \in [Threads -> Fds]
    BY <1>1, <1>2 DEF PbxInv, PbxTypeOK, Fds
<1>4. PbxTypeOK' BY <1>1, <1>3 DEF PbxInv, PbxTypeOK
<1>5. PointsAtLast' /\ NothingYet' BY <1>1, <1>3 DEF PbxInv, PointsAtLast, NothingYet
<1>6. Stored'
  <2> SUFFICES ASSUME main = "create"
               PROVE /\ accepts \in Threads /\ pc'[accepts] = "none" /\ registered[accepts] = None
                     /\ block'[accepts] = accepted[accepts]
      BY <1>1 DEF Stored
  <2>1. accepts \in Threads /\ pc[accepts] = "none" BY DEF PbxInv, Stored
  <2>2. accepts # t BY <2>1, <1>1
  <2> QED BY <2>1, <2>2, <1>3 DEF PbxInv, Stored
<1>7. Handed' BY <1>1, <1>3 DEF PbxInv, Handed
<1>8. InUse' /\ ReturnedOnce' BY <1>1 DEF PbxInv, InUse, ReturnedOnce
<1>9. ServesItsConnection' BY <1>1, <1>3 DEF PbxInv, ServesItsConnection
<1> QED BY <1>4, <1>5, <1>6, <1>7, <1>8, <1>9 DEF PbxInv

LEMMA InvRegister == ASSUME PbxInv, NEW t \in Threads, Register(t) PROVE PbxInv'
<1>1. /\ pc[t] = "taken" /\ pc' = [pc EXCEPT ![t] = "read"]
      /\ registered' = [registered EXCEPT ![t] = fd[t]]
      /\ UNCHANGED <<main, connfd, accepts, accepted, block, arg, fd, table>>
    BY DEF Register, At, mains
<1>2. fd[t] = accepted[t] BY <1>1 DEF PbxInv, ServesItsConnection
<1>3. /\ pc'[t] = "read" /\ registered'[t] = accepted[t]
      /\ \A s \in Threads \ {t} : pc'[s] = pc[s] /\ registered'[s] = registered[s]
      /\ pc' \in [Threads -> {"none", "created", "taken", "read", "obey", "gone"}]
      /\ registered' \in [Threads -> Fds]
    BY <1>1, <1>2 DEF PbxInv, PbxTypeOK
<1>4. PbxTypeOK' BY <1>1, <1>3 DEF PbxInv, PbxTypeOK
<1>5. PointsAtLast' BY <1>1 DEF PbxInv, PointsAtLast
<1>6. NothingYet' BY <1>1, <1>3 DEF PbxInv, NothingYet
<1>7. Stored' BY <1>1, <1>3 DEF PbxInv, Stored
<1>8. Handed' BY <1>1, <1>3 DEF PbxInv, Handed
<1>9. InUse' /\ ReturnedOnce' BY <1>1 DEF PbxInv, InUse, ReturnedOnce
<1>10. ServesItsConnection' BY <1>1, <1>2, <1>3 DEF PbxInv, ServesItsConnection
<1> QED BY <1>4, <1>5, <1>6, <1>7, <1>8, <1>9, <1>10 DEF PbxInv

\* A thread that has its connection reads, obeys, or ends; any may be ended.
LEMMA InvMoves ==
    ASSUME PbxInv, NEW t \in Threads, NEW to \in {"read", "obey", "gone"},
           pc[t] \in {"read", "obey"} \/ (pc[t] # "none" /\ to = "gone"),
           pc' = [pc EXCEPT ![t] = to],
           UNCHANGED <<main, connfd, accepts, accepted, block, arg, fd, registered, table>>
    PROVE  PbxInv'
<1>1. /\ pc'[t] = to /\ \A s \in Threads \ {t} : pc'[s] = pc[s]
      /\ pc' \in [Threads -> {"none", "created", "taken", "read", "obey", "gone"}]
    BY DEF PbxInv, PbxTypeOK
<1>2. pc[t] # "none" OBVIOUS
<1>3. PbxTypeOK' BY <1>1 DEF PbxInv, PbxTypeOK
<1>4. PointsAtLast' BY DEF PbxInv, PointsAtLast
<1>5. NothingYet' BY <1>1, <1>2 DEF PbxInv, NothingYet
<1>6. Stored' BY <1>1, <1>2 DEF PbxInv, Stored
<1>7. Handed' BY <1>1 DEF PbxInv, Handed
<1>8. InUse' /\ ReturnedOnce' BY DEF PbxInv, InUse, ReturnedOnce
<1>9. ServesItsConnection' BY <1>1 DEF PbxInv, ServesItsConnection
<1> QED BY <1>3, <1>4, <1>5, <1>6, <1>7, <1>8, <1>9 DEF PbxInv

LEMMA InvService == ASSUME PbxInv, NEW t \in Threads, Service(t) PROVE PbxInv'
<1>1. CASE Take(t) BY <1>1, InvTake
<1>2. CASE Register(t) BY <1>2, InvRegister
<1>3. ASSUME NEW c \in Clients, Read(t, c) PROVE PbxInv'
  <2>1. /\ pc[t] = "read" /\ pc' = [pc EXCEPT ![t] = "obey"]
        /\ UNCHANGED <<main, connfd, accepts, accepted, block, arg, fd, registered, table>>
      BY <1>3 DEF Read, At, mains
  <2> QED BY <2>1, InvMoves
<1>4. CASE Dispatch(t)
  <2>1. /\ pc[t] = "obey" /\ pc' = [pc EXCEPT ![t] = "read"]
        /\ UNCHANGED <<main, connfd, accepts, accepted, block, arg, fd, registered, table>>
      BY <1>4 DEF Dispatch, At, mains
  <2> QED BY <2>1, InvMoves
<1>5. CASE Leave(t)
  <2>1. /\ pc[t] = "read" /\ pc' = [pc EXCEPT ![t] = "gone"]
        /\ UNCHANGED <<main, connfd, accepts, accepted, block, arg, fd, registered, table>>
      BY <1>5 DEF Leave, At, mains
  <2> QED BY <2>1, InvMoves
<1> QED BY <1>1, <1>2, <1>3, <1>4, <1>5 DEF Service

LEMMA InvHandler == PbxInv /\ handler => PbxInv'
<1> SUFFICES ASSUME PbxInv, handler PROVE PbxInv' OBVIOUS
<1>1. UNCHANGED <<connfd, accepts, accepted, block, arg, fd, registered, table>>
    BY DEF handler, clients
<1>2. CASE main' = "gone" /\ UNCHANGED pc
  <2>1. PbxTypeOK' BY <1>1, <1>2 DEF PbxInv, PbxTypeOK
  <2>2. PointsAtLast' /\ NothingYet' /\ Stored' /\ Handed'
      BY <1>1, <1>2 DEF PbxInv, PointsAtLast, NothingYet, Stored, Handed
  <2>3. InUse' /\ ReturnedOnce' BY <1>1 DEF PbxInv, InUse, ReturnedOnce
  <2>4. ServesItsConnection' BY <1>1, <1>2 DEF PbxInv, ServesItsConnection
  <2> QED BY <2>1, <2>2, <2>3, <2>4 DEF PbxInv
<1>3. ASSUME NEW t \in Alive, pc' = [pc EXCEPT ![t] = "gone"], UNCHANGED main PROVE PbxInv'
  <2>1. t \in Threads /\ pc[t] # "none" BY DEF Alive
  <2> QED BY <1>1, <1>3, <2>1, InvMoves
<1> QED BY <1>2, <1>3 DEF handler

LEMMA InvNext == PbxInv /\ [Next]_vars => PbxInv'
<1> SUFFICES ASSUME PbxInv, [Next]_vars PROVE PbxInv' OBVIOUS
<1>1. CASE MainThread
    BY <1>1, InvStart, InvAccept, InvAcceptFails, InvCreate DEF MainThread
<1>2. ASSUME NEW t \in Threads, Service(t) PROVE PbxInv' BY <1>2, InvService
<1>3. CASE handler BY <1>3, InvHandler
<1>4. CASE Exit
  <2>1. UNCHANGED own BY <1>4 DEF Exit, own, mains, service, threads
  <2> QED BY <2>1, InvUnchanged
<1>5. ASSUME NEW c \in Clients, Client(c) PROVE PbxInv'
  <2>1. CASE Connect(c) BY <2>1, InvUnchanged DEF Connect, own, mains, service, threads
  <2>2. ASSUME NEW line \in Commands[c], Send(c, line) PROVE PbxInv'
      BY <2>2, InvUnchanged DEF Send, own, mains, service, threads
  <2>3. CASE Close(c) BY <2>3, InvUnchanged DEF Close, own, mains, service, threads
  <2> QED BY <1>5, <2>1, <2>2, <2>3 DEF Client
<1>6. CASE UNCHANGED vars
  <2>1. UNCHANGED own BY <1>6 DEF vars, own, mains, service, threads
  <2> QED BY <2>1, InvUnchanged
<1> QED BY <1>1, <1>2, <1>3, <1>4, <1>5, <1>6 DEF Next

LEMMA InvAlways == Spec => []PbxInv
<1>1. Init => PbxInv BY InvInit
<1>2. PbxInv /\ [Next]_vars => PbxInv' BY InvNext
<1> QED BY <1>1, <1>2, PTL DEF Spec

-----------------------------------------------------------------------------
\* The state of the server stays within its types, for any clients, descriptors
\* and bounds (main.c, server.c).
THEOREM PbxTypeCorrect == Spec => []PbxTypeOK
<1>1. PbxInv => PbxTypeOK BY DEF PbxInv
<1> QED BY <1>1, InvAlways, PTL

\* Each thread serves, and registers a unit for, the connection whose number main
\* passed it by a pointer (main.c:95-97, server.c:21-25).
THEOREM ThreadsServeTheirOwn == Spec => []ServesItsConnection
<1>1. PbxInv => ServesItsConnection BY DEF PbxInv
<1> QED BY <1>1, InvAlways, PTL

\* No two registered units have the same extension (server.c:25), because none of
\* the numbers accept() returned is ever given back.
THEOREM ExtensionsAreApart == Spec => []ExtensionsApart
<1>1. PbxInv => ExtensionsApart
  <2> SUFFICES ASSUME PbxInv, NEW s \in Threads, NEW t \in Threads,
                      registered[s] = registered[t], registered[t] \in Descriptors
               PROVE s = t
      BY DEF ExtensionsApart
  <2>1. registered[s] # None /\ registered[t] # None BY Numbers
  <2>2. registered[s] = accepted[s] /\ registered[t] = accepted[t]
      BY <2>1 DEF PbxInv, ServesItsConnection
  <2> QED BY <2>2 DEF PbxInv, ReturnedOnce
<1> QED BY <1>1, InvAlways, PTL
=============================================================================
