----------------------------- MODULE PbxServer -----------------------------
(***************************************************************************)
(* The PBX server (hw5): the main thread that accepts connections          *)
(* (main.c), a thread for each of them (server.c), their clients, and the  *)
(* hangup signal.  The exchange itself is an archive without source: what  *)
(* the server calls of it is recorded, and that a unit is registered.      *)
(*                                                                         *)
(* A command is two groups of bytes, a word of four letters and what       *)
(* follows it to the end of the line: as much as strncmp and strtol tell   *)
(* apart.  Groups arrive in order and read() returns any number of them.   *)
(***************************************************************************)
EXTENDS Integers, Sequences, FiniteSets

CONSTANTS
    Clients,
    Descriptors,    \* the numbers accept() can return
    Commands,       \* the lines each client may send
    Leftovers,      \* what the stack of a new thread may hold
    MaxAccepts,     \* bound: calls of accept()
    MaxSent,        \* bound: how many lines each client sends
    MaxSignals      \* bound: hangup signals

Words == {"pick", "hang", "dial", "chat"}
Rests == {"up", " 5", " 0", "\r\n"}

ASSUME DescriptorsAssumption == Descriptors \subseteq Nat
ASSUME CommandsAssumption == Commands \in [Clients -> SUBSET (Words \X Rests)]
ASSUME LeftoversAssumption == Leftovers \subseteq Seq(STRING)
ASSUME ClientsAssumption == "nobody" \notin Clients
ASSUME BoundsAssumption == MaxAccepts \in Nat /\ MaxSent \in [Clients -> Nat] /\ MaxSignals \in Nat

VARIABLES
    main,       \* "start", "accept", "create", "gone"
    connfd,     \* main's pointer: the number of a block
    block,      \* what the blocks hold that main allocated for connfd
    accepts,    \* calls of accept() so far; the thread for one has its number
    pc, arg, fd, buf,   \* of each thread: where it is, its argument, its connection
    table,      \* whose connection a descriptor is
    registered, \* the extension of the unit of a thread
    process,    \* "runs", "exited"
    conn,       \* of each client: "away", "waiting", "open", "closed"
    stream,     \* the groups a client sent that were not read
    signals

\* History: what each accept() returned, the lines each client sent, the calls each
\* thread made, and whether one of its reads returned other than one line.
VARIABLES accepted, sent, calls, cut

mains == <<main, connfd, block, accepts, accepted>>
clients == <<conn, stream, sent>>
threads == <<pc, arg, fd, buf>>
service == <<threads, registered, calls, cut>>
vars == <<mains, clients, service, table, process, signals>>

Threads == 1..MaxAccepts
None == -2          \* no descriptor: a block freed, a unit not registered
Failed == -1        \* what a failing call returns
Nobody == "nobody"
Line == <<1, 2>>    \* the positions of a line in the buffer that are looked at

Init ==
    /\ main = "start" /\ connfd = 0 /\ accepts = 0
    /\ block = [t \in Threads |-> None]
    /\ accepted = [t \in Threads |-> None]
    /\ pc = [t \in Threads |-> "none"]
    /\ arg = [t \in Threads |-> 0]
    /\ fd = [t \in Threads |-> None]
    /\ buf = [t \in Threads |-> <<"", "">>]
    /\ table = [d \in Descriptors |-> Nobody]
    /\ registered = [t \in Threads |-> None]
    /\ calls = [t \in Threads |-> <<>>]
    /\ cut = [t \in Threads |-> FALSE]
    /\ conn = [c \in Clients |-> "away"]
    /\ stream = [c \in Clients |-> <<>>]
    /\ sent = [c \in Clients |-> <<>>]
    /\ process = "runs" /\ signals = 0

-----------------------------------------------------------------------------
(* The main thread.                                                          *)

Serves == main = "start" /\ process = "runs" /\ main' = "accept" /\ UNCHANGED process

\* No port is given, or none can be bound or listened on: terminate().
Terminates == main = "start" /\ process = "runs" /\ process' = "exited" /\ UNCHANGED main

Start ==
    /\ Serves \/ Terminates
    /\ UNCHANGED <<connfd, block, accepts, accepted, clients, service, table, signals>>

\* Mutant: one block serves all connections.
AcceptedInOneBlock(result) ==
    /\ connfd' = 1
    /\ block' = [block EXCEPT ![1] = result]
    /\ accepted' = [accepted EXCEPT ![accepts + 1] = result]
    /\ accepts' = accepts + 1

\* *connfd = accept(...), into a block of its own.
Accepted(result) ==
    /\ connfd' = accepts + 1
    /\ block' = [block EXCEPT ![accepts + 1] = result]
    /\ accepted' = [accepted EXCEPT ![accepts + 1] = result]
    /\ accepts' = accepts + 1

Free == {d \in Descriptors : table[d] = Nobody}
Lowest(d) == d \in Free /\ \A e \in Free : d <= e

Accepting == process = "runs" /\ main = "accept" /\ accepts < MaxAccepts

Accept(c) ==
    /\ Accepting /\ conn[c] = "waiting"
    /\ \E d \in Descriptors :
          /\ Lowest(d)
          /\ Accepted(d)
          /\ table' = [table EXCEPT ![d] = c]
    /\ conn' = [conn EXCEPT ![c] = "open"]
    /\ main' = "create"
    /\ UNCHANGED <<stream, sent, service, process, signals>>

\* No descriptor is left.  Nobody looks at what accept() returned.
AcceptFails ==
    /\ Accepting /\ Free = {}
    /\ Accepted(Failed)
    /\ main' = "create"
    /\ UNCHANGED <<table, clients, service, process, signals>>

\* pthread_create; when it fails the connection is never heard of again.
Create ==
    /\ process = "runs" /\ main = "create"
    /\ \/ /\ pc' = [pc EXCEPT ![accepts] = "created"]
          /\ arg' = [arg EXCEPT ![accepts] = connfd]
          /\ \E old \in Leftovers : buf' = [buf EXCEPT ![accepts] = old]
       \/ UNCHANGED <<pc, arg, buf>>
    /\ main' = "accept"
    /\ UNCHANGED <<fd, connfd, block, accepts, accepted, registered, calls, cut,
                   clients, table, process, signals>>

-----------------------------------------------------------------------------
(* pbx_client_service.                                                       *)

At(t, place) == process = "runs" /\ pc[t] = place


\* int connfd = *arg; free(arg).
Take(t) ==
    /\ At(t, "created")
    /\ pc' = [pc EXCEPT ![t] = "taken"]
    /\ fd' = [fd EXCEPT ![t] = block[arg[t]]]
    /\ block' = [block EXCEPT ![arg[t]] = None]
    /\ UNCHANGED <<arg, buf, main, connfd, accepts, accepted, registered, calls, cut,
                   clients, table, process, signals>>

\* tu_init and pbx_register.
Register(t) ==
    /\ At(t, "taken")
    /\ registered' = [registered EXCEPT ![t] = fd[t]]
    /\ pc' = [pc EXCEPT ![t] = "read"]
    /\ UNCHANGED <<arg, fd, buf, mains, clients, calls, cut, table, process, signals>>

Connected(t, c) == fd[t] \in Descriptors /\ table[fd[t]] = c

\* Mutant: what was read is put behind what the buffer held.
ReadBehind(t, c) ==
    /\ At(t, "read") /\ Connected(t, c)
    /\ \E n \in 1..Len(stream[c]) :
          /\ stream' = [stream EXCEPT ![c] = SubSeq(stream[c], n + 1, Len(stream[c]))]
          /\ cut' = [cut EXCEPT ![t] = cut[t] \/ n # Len(Line)]
    /\ pc' = [pc EXCEPT ![t] = "obey"]
    /\ UNCHANGED <<arg, fd, buf, mains, registered, calls, conn, sent, table, process, signals>>

\* read() writes over the beginning of the buffer, and how much is not remembered.
Read(t, c) ==
    /\ At(t, "read") /\ Connected(t, c)
    /\ \E n \in 1..Len(stream[c]) :
          /\ buf' = [buf EXCEPT ![t] = [i \in DOMAIN Line |-> IF i <= n THEN stream[c][i]
                                                            ELSE buf[t][i]]]
          /\ stream' = [stream EXCEPT ![c] = SubSeq(stream[c], n + 1, Len(stream[c]))]
          /\ cut' = [cut EXCEPT ![t] = cut[t] \/ n # Len(Line)]
    /\ pc' = [pc EXCEPT ![t] = "obey"]
    /\ UNCHANGED <<arg, fd, mains, registered, calls, conn, sent, table, process, signals>>

\* The four commands; a number that is not positive is not dialed.
Obey(line) ==
    CASE line = <<"pick", "up">> -> <<"pickup">>
      [] line = <<"hang", "up">> -> <<"hangup">>
      [] line = <<"dial", " 5">> -> <<"dial">>
      [] line[1] = "chat" /\ line[2] \in {" 5", " 0"} -> <<"chat">>
      [] OTHER -> <<>>

\* Mutants: the end of the input is taken for a line; the connection is closed and the
\* unit kept.

LeaveNever(t) ==
    /\ At(t, "read")
    /\ \E c \in Clients : Connected(t, c) /\ conn[c] = "closed" /\ stream[c] = <<>>
    /\ pc' = [pc EXCEPT ![t] = "obey"]
    /\ UNCHANGED <<arg, fd, buf, mains, registered, calls, cut, clients, table, process, signals>>

LeaveAndClose(t) ==
    /\ At(t, "read")
    /\ \E c \in Clients : Connected(t, c) /\ conn[c] = "closed" /\ stream[c] = <<>>
    /\ pc' = [pc EXCEPT ![t] = "gone"]
    /\ table' = [table EXCEPT ![fd[t]] = Nobody]
    /\ UNCHANGED <<arg, fd, buf, mains, registered, calls, cut, clients, process, signals>>

Dispatch(t) ==
    /\ At(t, "obey")
    /\ calls' = [calls EXCEPT ![t] = calls[t] \o Obey(buf[t])]
    /\ pc' = [pc EXCEPT ![t] = "read"]
    /\ UNCHANGED <<arg, fd, buf, mains, registered, cut, clients, table, process, signals>>

\* read() returns 0 or less: the thread returns.  The connection stays open and the
\* unit stays registered.
Leave(t) ==
    /\ At(t, "read")
    /\ \/ fd[t] = Failed
       \/ \E c \in Clients : Connected(t, c) /\ conn[c] = "closed" /\ stream[c] = <<>>
    /\ pc' = [pc EXCEPT ![t] = "gone"]
    /\ UNCHANGED <<arg, fd, buf, mains, registered, calls, cut, clients, table, process, signals>>

Service(t) == Take(t) \/ Register(t) \/ (\E c \in Clients : Read(t, c)) \/ Dispatch(t) \/ Leave(t)

-----------------------------------------------------------------------------
(* The signal, and the end of the process.                                   *)

Alive == {t \in Threads : pc[t] \notin {"none", "gone"}}

\* SIGHUP is handled by one thread, whichever, and pthread_exit ends that one.
handler ==
    /\ process = "runs" /\ main # "start" /\ signals < MaxSignals
    /\ \/ main # "gone" /\ main' = "gone" /\ UNCHANGED pc
       \/ /\ \E t \in Alive : pc' = [pc EXCEPT ![t] = "gone"]
          /\ UNCHANGED main
    /\ signals' = signals + 1
    /\ UNCHANGED <<arg, fd, buf, connfd, block, accepts, accepted, registered, calls, cut,
                   clients, table, process>>

\* The process ends with its last thread; terminate() is not called.
Exit ==
    /\ process = "runs" /\ main = "gone" /\ Alive = {}
    /\ process' = "exited"
    /\ UNCHANGED <<mains, clients, service, table, signals>>

-----------------------------------------------------------------------------
(* The clients.                                                              *)

Connect(c) ==
    /\ process = "runs" /\ main # "start" /\ conn[c] = "away"
    /\ conn' = [conn EXCEPT ![c] = "waiting"]
    /\ UNCHANGED <<mains, stream, sent, service, table, process, signals>>

Send(c, line) ==
    /\ conn[c] = "open" /\ Len(sent[c]) < MaxSent[c]
    /\ stream' = [stream EXCEPT ![c] = stream[c] \o line]
    /\ sent' = [sent EXCEPT ![c] = Append(sent[c], line)]
    /\ UNCHANGED <<mains, conn, service, table, process, signals>>

Close(c) ==
    /\ conn[c] = "open"
    /\ conn' = [conn EXCEPT ![c] = "closed"]
    /\ UNCHANGED <<mains, stream, sent, service, table, process, signals>>

Client(c) == Connect(c) \/ (\E line \in Commands[c] : Send(c, line)) \/ Close(c)

-----------------------------------------------------------------------------
MainThread == Start \/ (\E c \in Clients : Accept(c)) \/ AcceptFails \/ Create

Next ==
    \/ MainThread
    \/ \E t \in Threads : Service(t)
    \/ handler \/ Exit
    \/ \E c \in Clients : Client(c)

Spec == Init /\ [][Next]_vars

\* The threads go on as long as they can; clients and signals need not come.
FairSpec ==
    /\ Spec
    /\ WF_vars(MainThread) /\ WF_vars(Exit)
    /\ \A t \in Threads : WF_vars(Service(t))

-----------------------------------------------------------------------------
(* Properties.                                                               *)

Fds == Descriptors \cup {None, Failed}

PbxTypeOK ==
    /\ main \in {"start", "accept", "create", "gone"}
    /\ connfd \in 0..MaxAccepts /\ accepts \in 0..MaxAccepts
    /\ block \in [Threads -> Fds] /\ accepted \in [Threads -> Fds]
    /\ registered \in [Threads -> Fds]
    /\ pc \in [Threads -> {"none", "created", "taken", "read", "obey", "gone"}]
    /\ arg \in [Threads -> 0..MaxAccepts] /\ fd \in [Threads -> Fds]
    /\ table \in [Descriptors -> Clients \cup {Nobody}]

\* A thread serves the connection it was created for, however late it gets to read
\* the number that main passed it by a pointer (main.c:97, server.c:21): so no two
\* threads serve one client.
ServesItsConnection ==
    \A t \in Threads :
        /\ pc[t] \in {"taken", "read", "obey"} => fd[t] = accepted[t]
        /\ registered[t] # None => registered[t] = accepted[t]

\* The units that are registered have extensions of their own, although none is
\* ever unregistered (server.c:33): the number of a connection is its extension and
\* is not given out again, for no connection is closed either.
ExtensionsApart ==
    \A s, t \in Threads :
        registered[s] = registered[t] /\ registered[t] \in Descriptors => s = t

\* How many of the lines of a client were read.
LinesRead(c) == (2 * Len(sent[c]) - Len(stream[c])) \div 2

\* What the first n of them ask for.
Asked(lines, n) ==
    LET told[k \in 0..n] == IF k = 0 THEN <<>> ELSE told[k - 1] \o Obey(lines[k]) IN told[n]

\* Where every read returns one line (the server relies on it, server.c:31), the unit
\* is told what its client sent, in the same order, whatever the buffer held before.
ToldInOrder(t, c) ==
    ~cut[t] /\ pc[t] = "read" /\ Connected(t, c)
        => calls[t] = Asked(sent[c], LinesRead(c))

\* There was no descriptor or no thread for a client.
Unserved(c) ==
    \E t \in Threads :
        accepted[t] \in Descriptors /\ table[accepted[t]] = c /\ pc[t] = "none"

\* So it is told, and no command is left lying: what a client sends is read, unless a
\* signal ended its thread, for none of the commands ends the service.
ObeysInOrder ==
    /\ [](\A t \in Threads, c \in Clients : ToldInOrder(t, c))
    /\ \A c \in Clients :
          stream[c] # <<>> ~> stream[c] = <<>> \/ signals > 0 \/ Unserved(c)

\* When the signal ended main, the server still ends, once the clients it serves
\* have left: each of its threads notices (server.c:31).
EndsWithItsClients ==
    main = "gone" /\ (\A c \in Clients : conn[c] # "open") ~> process = "exited"
=============================================================================
