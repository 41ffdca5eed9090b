--------------------------- MODULE SpawnBrokerProofs ---------------------------
(***************************************************************************)
(* Proofs about SpawnBroker, for any connections, any descriptor numbers   *)
(* and whatever the clients send.                                          *)
(***************************************************************************)
EXTENDS SpawnBroker, TLAPS

\* A worker runs, between the spawn of its thread and its return.
Runs(c) == worker[c] \notin {"none", "end"}

\* The steps at which a worker's number is on the list.
Retaining == WorkerSteps \ {"none", "drop_last", "close", "end"}

\* The steps at which a worker has no tree yet, and no longer.
Treeless == {"none", "receive", "launch"}
Dismissed == {"release", "close", "end"}

\* The acceptor holds a descriptor between accept and the hand-over, and then
\* one of a connection that no worker serves.
AcceptorInv ==
    /\ acceptor.fd \in Fd <=> acceptor.step \in {"admit", "retain"}
    /\ acceptor.fd \in Fd => /\ table[acceptor.fd] # None
                             /\ table[acceptor.fd] \in Conn =>
                                   worker[table[acceptor.fd]] = "none"
    /\ acceptor.step = "retain" => table[acceptor.fd] \in Conn

\* A descriptor is held by the acceptor or by the running worker of its
\* connection, and a connection has one descriptor.
TableInv ==
    /\ \A fd \in Fd : table[fd] # None =>
           \/ fd = acceptor.fd
           \/ table[fd] \in Conn /\ Runs(table[fd])
    /\ \A fd, other \in Fd : table[fd] \in Conn /\ table[fd] = table[other] => fd = other
    /\ \A c \in Conn : Runs(c) => \E fd \in Fd : table[fd] = c

\* A connection that waits to be accepted has neither worker nor descriptor,
\* and who has one of them has connected.
BacklogInv ==
    /\ \A c \in backlog \cap Conn : /\ worker[c] = "none" /\ peer[c] # "none"
                                    /\ \A fd \in Fd : table[fd] # c
    /\ \A c \in Conn : worker[c] # "none" => peer[c] # "none"
    /\ \A fd \in Fd : table[fd] \in Conn => peer[table[fd]] # "none"

\* A number is on the list while its worker has not released it.
RetainedInv ==
    \A fd \in retained : table[fd] \in Conn /\ worker[table[fd]] \in Retaining

\* A running worker will be joined, and when the handles have been taken there
\* will be no further one.
JoinInv ==
    /\ \A c \in Conn : Runs(c) => c \in handles \cup taken
    /\ IF main \in {"join", "done"} THEN acceptor.step = "end" /\ handles = {}
                                    ELSE taken = {}
    /\ main = "done" => \A c \in taken : ~Runs(c)

\* What a worker has dropped is gone, or kept for the recovery.
TreeInv ==
    \A c \in Conn :
        /\ worker[c] \in Treeless => tree[c] = "none" /\ nested[c] = "none"
        /\ worker[c] \in Dismissed => /\ tree[c] \in {"none", "gone", "survived"}
                                      /\ nested[c] # "mounted"

IInv ==
    /\ TypeOK
    /\ AcceptorInv
    /\ TableInv
    /\ BacklogInv
    /\ RetainedInv
    /\ JoinInv
    /\ TreeInv

USE DEF threads, clients, spawned

-------------------------------------------------------------------------------
(***************************************************************************)
(* Type correctness                                                        *)
(***************************************************************************)

\* A frame in the inbox is one the client may send, or its SPAWN_TERMINATE.
LEMMA FrameTypes ==
    /\ \A c \in Conn : Sends[c] \subseteq Frames
    /\ [kind |-> "terminate", flags |-> {}] \in Frames
    /\ \A frame \in Frames : frame.flags \in Flags
  BY BrokerAssumption DEF Frames, Flags

\* Every worker that runs has its number.
LEMMA FdOfWorker ==
    ASSUME TableInv, NEW c \in Conn, Runs(c)
    PROVE  FdOf(c) \in Fd /\ table[FdOf(c)] = c
  BY DEF TableInv, FdOf

\* The steps of main thread and acceptor.
LEMMA ThreadsType ==
    ASSUME TypeOK, AcceptorInv, Stop \/ MainThread \/ Acceptor
    PROVE  TypeOK'
<1> USE DEF TypeOK, MainSteps, AcceptorSteps, WorkerSteps
<1>1. CASE Stop  BY <1>1 DEF Stop
<1>2. CASE ShutRetained  BY <1>2 DEF ShutRetained
<1>3. CASE ShutListener  BY <1>3 DEF ShutListener
<1>4. CASE JoinAcceptor  BY <1>4 DEF JoinAcceptor
<1>5. CASE JoinWorkers  BY <1>5 DEF JoinWorkers
<1>6. CASE Accept  BY <1>6 DEF Accept, FreeFds
<1>7. CASE AcceptFails  BY <1>7 DEF AcceptFails
<1>8. CASE Admit  BY <1>8, BrokerAssumption DEF Admit, AcceptorInv
<1>9. CASE Retain  BY <1>9 DEF Retain, AcceptorInv, Goto
<1> QED  BY <1>1, <1>2, <1>3, <1>4, <1>5, <1>6, <1>7, <1>8, <1>9 DEF MainThread, Acceptor

\* The steps of clients and of the processes of the sandbox.
LEMMA OutsideType ==
    ASSUME TypeOK, NEW c \in Conn, Client(c) \/ Sandbox(c)
    PROVE  TypeOK'
<1> USE FrameTypes DEF TypeOK
<1>1. CASE Connect(c)  BY <1>1 DEF Connect
<1>2. CASE Request(c)  BY <1>2 DEF Request
<1>3. CASE Terminate(c)  BY <1>3 DEF Terminate
<1>4. CASE Hangup(c)  BY <1>4 DEF Hangup
<1>5. CASE Report(c)  BY <1>5 DEF Report
<1>6. CASE TreeEnds(c)  BY <1>6 DEF TreeEnds
<1>7. CASE OwnerExits(c)  BY <1>7 DEF OwnerExits
<1> QED  BY <1>1, <1>2, <1>3, <1>4, <1>5, <1>6, <1>7 DEF Client, Sandbox

\* The steps of a worker.
LEMMA WorkerType ==
    ASSUME TypeOK, TableInv, NEW c \in Conn, Worker(c)
    PROVE  TypeOK'
<1> USE FrameTypes DEF TypeOK, WorkerSteps, Goto, Send
<1>1. CASE Receive(c)
  <2>1. inbox[c] # None => inbox[c].flags \in Flags
    OBVIOUS
  <2>2. request' \in [Conn -> Flags]
    BY <1>1, <2>1 DEF Receive, Received
  <2>3. replies' \in [Conn -> SUBSET {"probed", "accepted", "started", "exited"}]
    BY <1>1 DEF Receive
  <2>4. worker' \in [Conn -> WorkerSteps] /\ inbox' \in [Conn -> Frames \cup {None}]
    BY <1>1 DEF Receive
  <2> QED  BY <1>1, <2>2, <2>3, <2>4 DEF Receive
<1>2. CASE Launch(c)  BY <1>2 DEF Launch, CreateNested
<1>3. CASE SendAccepted(c)  BY <1>3 DEF SendAccepted
<1>4. CASE NotifyStarted(c)  BY <1>4 DEF NotifyStarted
<1>5. CASE Abandon(c)  BY <1>5 DEF Abandon
<1>6. CASE PollSignal(c)  BY <1>6 DEF PollSignal
<1>7. CASE WaitOver(c)  BY <1>7 DEF WaitOver
<1>8. CASE Watch(c)  BY <1>8 DEF Watch
<1>9. CASE DropTree(c)  BY <1>9 DEF DropTree, Dropped, CleanNested
<1>10. CASE Release(c)  BY <1>10 DEF Release
<1>11. CASE Close(c)
  <2>1. FdOf(c) \in Fd
    BY <1>11, FdOfWorker DEF Close, Runs
  <2>2. {} \in Flags
    BY DEF Flags
  <2> QED  BY <1>11, <2>1, <2>2 DEF Close
<1> QED
  BY <1>1, <1>2, <1>3, <1>4, <1>5, <1>6, <1>7, <1>8, <1>9, <1>10, <1>11 DEF Worker

-------------------------------------------------------------------------------
(***************************************************************************)
(* Each step preserves the invariant                                       *)
(***************************************************************************)

\* The main thread changes no descriptor and no worker.
LEMMA MainStep ==
    ASSUME IInv, Stop \/ MainThread
    PROVE  IInv'
<1> USE DEF IInv
<1>1. TypeOK'
  BY ThreadsType
<1>2. UNCHANGED <<retained, acceptor, table, worker, tree, nested>>
  BY DEF MainThread, Stop, ShutRetained, ShutListener, JoinAcceptor, JoinWorkers
<1>3. backlog' = backlog \/ backlog' = backlog \cup {Waker}
  BY DEF MainThread, Stop, ShutRetained, ShutListener, JoinAcceptor, JoinWorkers
<1>4. \A c \in Conn : peer[c] # "none" => peer'[c] # "none"
  BY DEF MainThread, Stop, ShutRetained, ShutListener, JoinAcceptor, JoinWorkers
<1>5. AcceptorInv' /\ RetainedInv' /\ TreeInv'
  BY <1>2 DEF AcceptorInv, RetainedInv, TreeInv
<1>6. TableInv'
  BY <1>2 DEF TableInv, Runs
<1>7. BacklogInv'
  BY <1>2, <1>3, <1>4, BrokerAssumption DEF BacklogInv, TypeOK
<1>8. JoinInv'
  <2> USE DEF JoinInv, Runs
  <2>1. CASE Stop \/ ShutRetained \/ ShutListener
    BY <2>1 DEF Stop, ShutRetained, ShutListener
  <2>2. CASE JoinAcceptor
    BY <2>2 DEF JoinAcceptor
  <2>3. CASE JoinWorkers
    BY <2>3 DEF JoinWorkers
  <2> QED  BY <2>1, <2>2, <2>3 DEF MainThread
<1> QED  BY <1>1, <1>5, <1>6, <1>7, <1>8

\* accept4 gives the connection a free number.
LEMMA AcceptStep ==
    ASSUME IInv, Accept \/ AcceptFails
    PROVE  IInv'
<1> USE BrokerAssumption DEF IInv, TypeOK
<1>1. TypeOK'
  BY ThreadsType DEF Acceptor
<1>2. CASE Accept
  <2>1. PICK c \in backlog, fd \in FreeFds :
           /\ table' = [table EXCEPT ![fd] = c]
           /\ backlog' = backlog \ {c}
           /\ acceptor' = [step |-> "admit", fd |-> fd]
    BY <1>2 DEF Accept
  <2>2. /\ acceptor.step = "accept" /\ acceptor.fd \notin Fd
        /\ fd \in Fd /\ table[fd] = None /\ fd \notin retained
        /\ UNCHANGED <<main, taken, retained, handles, worker, peer, tree, nested>>
    BY <1>2 DEF Accept, FreeFds, AcceptorInv, RetainedInv
  <2>3. AcceptorInv'
    BY <2>1, <2>2 DEF AcceptorInv, BacklogInv
  <2>4. TableInv'
    <3>1. \A other \in Fd : table[other] # c \/ c \notin Conn
      BY <2>1 DEF BacklogInv
    <3>2. \A other \in Fd : table'[other] = IF other = fd THEN c ELSE table[other]
      BY <2>1, <2>2
    <3>3. \A other \in Fd : table'[other] # None =>
             \/ other = fd
             \/ table'[other] \in Conn /\ worker[table'[other]] \notin {"none", "end"}
      BY <2>2, <3>2 DEF TableInv, Runs
    <3>4. ASSUME NEW d \in Conn, Runs(d) PROVE \E other \in Fd : table'[other] = d
      <4>1. PICK other \in Fd : table[other] = d
        BY <3>4 DEF TableInv
      <4> QED  BY <2>2, <3>2, <4>1
    <3>5. \A a, b \in Fd : table'[a] \in Conn /\ table'[a] = table'[b] => a = b
      BY <3>1, <3>2 DEF TableInv
    <3> QED  BY <2>1, <2>2, <3>3, <3>4, <3>5 DEF TableInv, Runs
  <2>5. BacklogInv'
    BY <2>1, <2>2 DEF BacklogInv
  <2>6. RetainedInv' /\ JoinInv' /\ TreeInv'
    BY <2>1, <2>2 DEF RetainedInv, JoinInv, TreeInv, Runs
  <2> QED  BY <1>1, <2>3, <2>4, <2>5, <2>6
<1>3. CASE AcceptFails
  <2>1. /\ acceptor' = [acceptor EXCEPT !.step = "end"] /\ acceptor.step = "accept"
        /\ UNCHANGED <<main, taken, retained, handles, backlog, table, worker, peer,
                       tree, nested>>
    BY <1>3 DEF AcceptFails
  <2>2. AcceptorInv' /\ RetainedInv' /\ TreeInv' /\ JoinInv' /\ BacklogInv'
    BY <2>1 DEF AcceptorInv, RetainedInv, TreeInv, JoinInv, BacklogInv, Runs
  <2>3. TableInv'
    BY <2>1 DEF TableInv, Runs
  <2> QED  BY <1>1, <2>2, <2>3
<1> QED  BY <1>2, <1>3

\* The acceptor turns a connection away, or hands it to a worker.
LEMMA AdmitStep ==
    ASSUME IInv, Admit
    PROVE  IInv'
<1> USE BrokerAssumption DEF IInv, TypeOK
<1>1. TypeOK'
  BY ThreadsType DEF Acceptor
<1> DEFINE f == acceptor.fd
<1>2. /\ f \in Fd /\ table[f] # None /\ acceptor.step = "admit"
      /\ UNCHANGED <<main, taken, retained, handles, backlog, worker, tree, nested>>
  BY DEF Admit, AcceptorInv
<1>3. CASE /\ table[f] # Waker
           /\ acceptor' = [acceptor EXCEPT !.step = "retain"]
           /\ UNCHANGED <<table, peer>>
  <2>1. AcceptorInv' /\ RetainedInv' /\ TreeInv' /\ JoinInv' /\ BacklogInv'
    BY <1>2, <1>3 DEF AcceptorInv, RetainedInv, TreeInv, JoinInv, BacklogInv, Runs
  <2>2. TableInv'
    BY <1>2, <1>3 DEF TableInv, Runs
  <2> QED  BY <1>1, <2>1, <2>2
<1>4. CASE /\ peer' = IF table[f] = Waker THEN peer ELSE [peer EXCEPT ![table[f]] = "closed"]
           /\ table' = [table EXCEPT ![f] = None]
           /\ acceptor' = [step |-> IF stopping THEN "end" ELSE "accept", fd |-> None]
  <2>1. f \notin retained
    BY <1>2 DEF AcceptorInv, RetainedInv, Retaining
  <2>2. \A c \in Conn : peer[c] # "none" => peer'[c] # "none"
    BY <1>2, <1>4
  <2>3. AcceptorInv' /\ RetainedInv' /\ TreeInv' /\ JoinInv' /\ BacklogInv'
    BY <1>2, <1>4, <2>1, <2>2 DEF AcceptorInv, RetainedInv, TreeInv, JoinInv, BacklogInv, Runs
  <2>4. TableInv'
    BY <1>2, <1>4 DEF TableInv, AcceptorInv, Runs
  <2> QED  BY <1>1, <2>3, <2>4
<1> QED  BY <1>3, <1>4 DEF Admit

LEMMA RetainStep ==
    ASSUME IInv, Retain
    PROVE  IInv'
<1> USE BrokerAssumption DEF IInv, TypeOK
<1>1. TypeOK'
  BY ThreadsType DEF Acceptor
<1>2. PICK f \in Fd, c \in Conn :
         /\ f = acceptor.fd /\ table[f] = c
         /\ worker[c] = "none" /\ acceptor.step = "retain"
         /\ retained' = retained \cup {f}
         /\ handles' = handles \cup {c}
         /\ worker' = [worker EXCEPT ![c] = "receive"]
  BY DEF Retain, AcceptorInv, Goto
<1>3. /\ acceptor' = [step |-> "accept", fd |-> None]
      /\ UNCHANGED <<main, taken, backlog, table, peer, tree, nested>>
  BY DEF Retain
<1>4. AcceptorInv' /\ JoinInv' /\ TreeInv'
  BY <1>2, <1>3 DEF AcceptorInv, JoinInv, TreeInv, Runs, Treeless, Dismissed
<1>5. TableInv'
  <2>1. \A d \in Conn : worker'[d] = IF d = c THEN "receive" ELSE worker[d]
    BY <1>2
  <2>2. \A fd \in Fd : table[fd] # None =>
           table[fd] \in Conn /\ worker'[table[fd]] \notin {"none", "end"}
    BY <1>2, <2>1 DEF TableInv, Runs
  <2> QED  BY <1>2, <1>3, <2>1, <2>2 DEF TableInv, Runs
<1>6. BacklogInv'
  BY <1>2, <1>3 DEF BacklogInv
<1>7. RetainedInv'
  BY <1>2, <1>3 DEF RetainedInv, Retaining, WorkerSteps
<1> QED  BY <1>1, <1>4, <1>5, <1>6, <1>7

\* Clients and the processes of the sandbox.
LEMMA OutsideStep ==
    ASSUME IInv, NEW c \in Conn, Client(c) \/ Sandbox(c)
    PROVE  IInv'
<1> USE DEF IInv
<1>1. TypeOK'
  BY OutsideType
<1>2. UNCHANGED <<threads, table, worker, nested>>
  BY DEF Client, Sandbox, Connect, Request, Terminate, Hangup, Report, TreeEnds, OwnerExits
<1>3. AcceptorInv' /\ RetainedInv' /\ JoinInv'
  BY <1>2 DEF AcceptorInv, RetainedInv, JoinInv, Runs
<1>4. TableInv'
  BY <1>2 DEF TableInv, Runs
<1>5. BacklogInv'
  <2> USE DEF BacklogInv, TypeOK
  <2>1. CASE Connect(c)
    BY <2>1 DEF Connect
  <2>2. CASE ~Connect(c)
    BY <1>2, <2>2 DEF Client, Sandbox, Request, Terminate, Hangup, Report, TreeEnds,
                      OwnerExits
  <2> QED  BY <2>1, <2>2
<1>6. TreeInv'
  <2>1. \/ UNCHANGED tree
        \/ /\ tree[c] \in {"starting", "running"}
           /\ \E t \in {"running", "gone"} : tree' = [tree EXCEPT ![c] = t]
           /\ tree[c] = "starting" \/ tree' = [tree EXCEPT ![c] = "gone"]
    BY DEF Client, Sandbox, Connect, Request, Terminate, Hangup, Report, TreeEnds,
           OwnerExits
  <2> QED  BY <1>2, <2>1 DEF TreeInv, TypeOK
<1> QED  BY <1>1, <1>3, <1>4, <1>5, <1>6

\* A worker that goes on keeps its number and its place among the threads.
LEMMA WorkerGoesOn ==
    ASSUME IInv, NEW c \in Conn, NEW step \in Retaining, TypeOK', TreeInv',
           worker[c] \in Retaining, Goto(c, step),
           UNCHANGED <<threads, backlog, table, peer>>
    PROVE  IInv'
<1> USE DEF IInv, TypeOK, Goto, Retaining
<1>1. AcceptorInv' /\ RetainedInv'
  BY DEF AcceptorInv, RetainedInv
<1>2. JoinInv'
  BY DEF JoinInv, Runs
<1>3. TableInv'
  BY DEF TableInv, Runs
<1>4. BacklogInv'
  BY DEF BacklogInv
<1> QED  BY <1>1, <1>2, <1>3, <1>4

\* The steps of a worker before it gives up its number.
LEMMA ServingStep ==
    ASSUME IInv, NEW c \in Conn,
           \/ Receive(c) \/ Launch(c) \/ SendAccepted(c) \/ NotifyStarted(c)
           \/ Abandon(c) \/ PollSignal(c) \/ WaitOver(c) \/ Watch(c)
    PROVE  IInv'
<1>1. TypeOK'
  BY WorkerType DEF Worker, IInv
<1>2. UNCHANGED <<threads, backlog, table, peer>>
  BY DEF Receive, Launch, SendAccepted, NotifyStarted, Abandon, PollSignal, WaitOver, Watch
<1>3. (\E step \in Retaining : worker[c] \in Retaining /\ Goto(c, step)) /\ TreeInv'
  <2> USE DEF IInv, TypeOK, TreeInv, Goto, Retaining, Treeless, Dismissed, WorkerSteps
  <2>1. CASE Receive(c)  BY <2>1 DEF Receive
  <2>2. CASE Launch(c)  BY <2>2 DEF Launch, CreateNested
  <2>3. CASE SendAccepted(c)  BY <2>3 DEF SendAccepted
  <2>4. CASE NotifyStarted(c)  BY <2>4 DEF NotifyStarted
  <2>5. CASE Abandon(c)  BY <2>5 DEF Abandon
  <2>6. CASE PollSignal(c)  BY <2>6 DEF PollSignal
  <2>7. CASE WaitOver(c)  BY <2>7 DEF WaitOver
  <2>8. CASE Watch(c)  BY <2>8 DEF Watch
  <2> QED  BY <2>1, <2>2, <2>3, <2>4, <2>5, <2>6, <2>7, <2>8
<1>4. PICK step \in Retaining : worker[c] \in Retaining /\ Goto(c, step)
  BY <1>3
<1> QED  BY <1>1, <1>2, <1>3, <1>4, WorkerGoesOn

\* A worker drops what it has spawned.
LEMMA DropStep ==
    ASSUME IInv, NEW c \in Conn, DropTree(c)
    PROVE  IInv'
<1> USE DEF IInv
<1>1. TypeOK'
  BY WorkerType DEF Worker
<1>2. /\ UNCHANGED <<threads, backlog, table, peer>>
      /\ worker[c] \in {"drop", "drop_last"}
      /\ worker' = [worker EXCEPT ![c] = IF worker[c] = "drop" THEN "release" ELSE "close"]
  BY DEF DropTree, Goto
<1> USE DEF TypeOK
<1>3. AcceptorInv' /\ JoinInv'
  BY <1>2 DEF AcceptorInv, JoinInv, Runs
<1>4. TableInv'
  BY <1>2 DEF TableInv, Runs
<1>5. BacklogInv'
  BY <1>2 DEF BacklogInv
<1>6. RetainedInv'
  BY <1>2 DEF RetainedInv, Retaining, WorkerSteps
<1>7. TreeInv'
  BY <1>2 DEF TreeInv, DropTree, Dropped, CleanNested, Treeless, Dismissed
<1> QED  BY <1>1, <1>3, <1>4, <1>5, <1>6, <1>7

\* The number goes off the list first, and is free only afterwards.
LEMMA ReleaseStep ==
    ASSUME IInv, NEW c \in Conn, Release(c)
    PROVE  IInv'
<1> USE DEF IInv
<1>1. TypeOK'
  BY WorkerType DEF Worker
<1>2. /\ UNCHANGED <<main, taken, handles, acceptor, backlog, table, peer, tree, nested>>
      /\ worker[c] \in {"release", "release_first"}
      /\ worker' = [worker EXCEPT ![c] = IF worker[c] = "release" THEN "close"
                                                                   ELSE "drop_last"]
      /\ retained' = retained \ {FdOf(c)}
  BY DEF Release, Goto
<1>3. FdOf(c) \in Fd /\ table[FdOf(c)] = c
  BY <1>2, FdOfWorker DEF Runs
<1> USE DEF TypeOK
<1>4. AcceptorInv' /\ JoinInv'
  BY <1>2 DEF AcceptorInv, JoinInv, Runs
<1>5. TableInv'
  BY <1>2 DEF TableInv, Runs
<1>6. BacklogInv'
  BY <1>2 DEF BacklogInv
<1>7. RetainedInv'
  BY <1>2, <1>3 DEF RetainedInv, TableInv
<1>8. TreeInv'
  BY <1>2 DEF TreeInv, Treeless, Dismissed
<1> QED  BY <1>1, <1>4, <1>5, <1>6, <1>7, <1>8

LEMMA CloseStep ==
    ASSUME IInv, NEW c \in Conn, Close(c)
    PROVE  IInv'
<1> USE BrokerAssumption DEF IInv
<1>1. TypeOK'
  BY WorkerType DEF Worker
<1>2. worker[c] = "close"
  BY DEF Close
<1>3. PICK f \in Fd : /\ table[f] = c
                      /\ table' = [table EXCEPT ![f] = None]
  BY <1>2, FdOfWorker DEF Close, Runs
<1>4. /\ UNCHANGED <<main, taken, retained, handles, acceptor, backlog, tree, nested>>
      /\ worker' = [worker EXCEPT ![c] = "end"]
      /\ peer' = [peer EXCEPT ![c] = "closed"]
  BY DEF Close, Goto
<1> USE DEF TypeOK
<1>5. f # acceptor.fd /\ f \notin retained
  BY <1>2, <1>3 DEF AcceptorInv, RetainedInv, Retaining
<1>6. AcceptorInv' /\ JoinInv'
  BY <1>2, <1>3, <1>4, <1>5 DEF AcceptorInv, JoinInv, Runs
<1>7. TableInv'
  BY <1>2, <1>3, <1>4, <1>5 DEF TableInv, Runs
<1>8. BacklogInv'
  BY <1>2, <1>3, <1>4 DEF BacklogInv
<1>9. RetainedInv'
  BY <1>2, <1>3, <1>4, <1>5 DEF RetainedInv, Retaining
<1>10. TreeInv'
  BY <1>2, <1>4 DEF TreeInv, Treeless, Dismissed
<1> QED  BY <1>1, <1>6, <1>7, <1>8, <1>9, <1>10

-------------------------------------------------------------------------------
(***************************************************************************)
(* The theorems                                                            *)
(***************************************************************************)

\* Every reachable state of the broker satisfies the inductive invariant.
THEOREM Invariance == Spec => []IInv
<1>1. Init => IInv
  <2> SUFFICES ASSUME Init PROVE IInv
    OBVIOUS
  <2>1. TypeOK
    BY BrokerAssumption DEF Init, TypeOK, MainSteps, AcceptorSteps, WorkerSteps, Flags
  <2>2. AcceptorInv /\ TableInv /\ BacklogInv
    BY BrokerAssumption DEF Init, AcceptorInv, TableInv, BacklogInv, Runs
  <2>3. RetainedInv /\ JoinInv /\ TreeInv
    BY DEF Init, RetainedInv, JoinInv, TreeInv, Runs, Dismissed
  <2> QED  BY <2>1, <2>2, <2>3 DEF IInv
<1>2. IInv /\ [Next]_vars => IInv'
  <2> SUFFICES ASSUME IInv, [Next]_vars PROVE IInv'
    OBVIOUS
  <2>1. CASE Stop \/ MainThread
    BY <2>1, MainStep
  <2>2. CASE Acceptor
    BY <2>2, AcceptStep, AdmitStep, RetainStep DEF Acceptor
  <2>3. ASSUME NEW c \in Conn, Worker(c) PROVE IInv'
    BY <2>3, ServingStep, DropStep, ReleaseStep, CloseStep DEF Worker
  <2>4. ASSUME NEW c \in Conn, Client(c) \/ Sandbox(c) PROVE IInv'
    BY <2>4, OutsideStep
  <2>5. CASE UNCHANGED vars
    BY <2>5
    DEF vars, IInv, TypeOK, AcceptorInv, TableInv, BacklogInv, RetainedInv, JoinInv,
        TreeInv, Runs
  <2> QED  BY <2>1, <2>2, <2>3, <2>4, <2>5 DEF Next, Done
<1> QED  BY <1>1, <1>2, PTL DEF Spec

\* The variables of the broker keep their types.
THEOREM TypeCorrect == Spec => []TypeOK
BY Invariance, PTL DEF IInv

\* stop shuts down open connections only: no retained number was closed, so none
\* was given out again, however acceptor, workers and main thread interleave.
THEOREM RetainedNumbersOpen == Spec => []RetainedOpen
<1>1. IInv => RetainedOpen
  BY DEF IInv, RetainedInv, RetainedOpen, Retaining
<1> QED  BY <1>1, Invariance, PTL

\* The drop of the broker leaves no thread, no open connection, and of what was
\* spawned only what outlived SIGKILL or could not be unmounted.
THEOREM QuietWhenDropped == Spec => []QuietAfterDrop
<1>1. IInv => QuietAfterDrop
  <2> SUFFICES ASSUME IInv, main = "done" PROVE QuietAfterDrop
    BY DEF QuietAfterDrop
  <2>1. acceptor.step = "end" /\ acceptor.fd \notin Fd
    BY DEF IInv, JoinInv, AcceptorInv
  <2>2. \A c \in Conn : worker[c] \in {"none", "end"}
    BY DEF IInv, JoinInv, Runs
  <2>3. FreeFds = Fd
    BY <2>1, <2>2 DEF IInv, TableInv, FreeFds, Runs
  <2>4. \A c \in Conn : tree[c] \in {"none", "gone", "survived"} /\ nested[c] # "mounted"
    BY <2>2 DEF IInv, TreeInv, Treeless, Dismissed
  <2> QED  BY <2>1, <2>2, <2>3, <2>4 DEF QuietAfterDrop
<1> QED  BY <1>1, Invariance, PTL
===============================================================================
