------------------------------ MODULE SpawnBroker ------------------------------
(***************************************************************************)
(* The spawn broker of a launch: an acceptor thread, one worker thread per *)
(* connection, and the main thread that shuts them down when the launch is *)
(* over (Drop of SpawnBroker).                                             *)
(*                                                                         *)
(* A client, the portal bridge, connects and sends one request.  A spawn   *)
(* request starts a process tree in the sandbox, or in a nested root, and  *)
(* the worker supervises it to its end.  The threads share the stopping    *)
(* flag, the list of retained descriptor numbers and the list of join      *)
(* handles.  The tree of a connection is one unit here; what it is made of *)
(* and how it is reaped is ProcessSupervision.                             *)
(***************************************************************************)
EXTENDS Naturals

CONSTANTS Conn,      \* connections that clients may make
          Fd,        \* descriptor numbers the launcher has left
          Sends,     \* the frames the client of a connection may send first
          Waker,     \* the connection wake_broker makes
          None

\* What a client sends: a spawn request with its flags (WATCH_BUS, NOTIFY_START,
\* SANDBOX), a probe (PING, FD_TEST, LIFECYCLE_TEST), a frame receive_packet or
\* parse_spawn rejects, and SPAWN_TERMINATE.
Flags == SUBSET {"watch", "notify", "nested"}

Frames == [kind : {"spawn"}, flags : Flags]
             \cup [kind : {"probe", "malformed", "terminate"}, flags : {{}}]

ASSUME BrokerAssumption ==
    /\ Sends \in [Conn -> SUBSET Frames]
    /\ Fd \subseteq Nat
    /\ Waker \notin Conn /\ None \notin Conn \cup {Waker} \cup Fd

VARIABLES main,       \* where the main thread is
          taken,      \* the workers it has to join
          stopping,   \* BrokerConnections.stopping
          retained,   \* BrokerConnections.retained_fds
          handles,    \* BrokerConnections.workers
          listening,  \* the listener accepts
          backlog,    \* connections not yet accepted
          acceptor,   \* the acceptor: its step and the descriptor it holds
          table,      \* the launcher's descriptors
          worker,     \* where the worker of each connection is
          peer,       \* the client's end: "none", "open" or "closed"
          shut,       \* connections shut down by stop
          inbox,      \* what the client has sent and the worker has not read
          replies,    \* what the client has been sent
          request,    \* the request a worker is serving
          tree,       \* the spawned process tree
          signalled,  \* the worker has asked the tree to end
          bus,        \* WATCH_BUS: the bus of the owner went away
          owner,      \* the subtree WATCH_BUS ties the request to
          nested      \* the nested root of the request

threads == <<main, taken, stopping, retained, handles, listening, acceptor>>
clients == <<peer, shut, inbox, replies>>
spawned == <<request, tree, signalled, bus, owner, nested>>
vars == <<threads, backlog, table, worker, clients, spawned>>

MainSteps == {"serve", "shut", "listener", "acceptor", "join", "done"}
AcceptorSteps == {"accept", "admit", "retain", "end"}
WorkerSteps == {"none", "receive", "launch", "accepted", "started",
                "abandon", "wait", "watch", "drop", "release", "close",
                "release_first", "drop_last", "end"}

FdOf(c) == CHOOSE fd \in Fd : table[fd] = c

FreeFds == {fd \in Fd : table[fd] = None}

\* A frame sent now reaches the client.
Reachable(c) == peer[c] = "open" /\ c \notin shut

Goto(c, step) == worker' = [worker EXCEPT ![c] = step]

Send(c, reply) == replies' = IF Reachable(c)
                             THEN [replies EXCEPT ![c] = @ \cup {reply}]
                             ELSE replies

Init ==
    /\ main = "serve" /\ taken = {} /\ stopping = FALSE
    /\ retained = {} /\ handles = {}
    /\ listening = TRUE /\ backlog = {}
    /\ acceptor = [step |-> "accept", fd |-> None]
    /\ table = [fd \in Fd |-> None]
    /\ worker = [c \in Conn |-> "none"]
    /\ peer = [c \in Conn |-> "none"] /\ shut = {}
    /\ inbox = [c \in Conn |-> None]
    /\ replies = [c \in Conn |-> {}]
    /\ request = [c \in Conn |-> {}]
    /\ tree = [c \in Conn |-> "none"]
    /\ signalled = {} /\ bus = {}
    /\ owner = [c \in Conn |-> "none"]
    /\ nested = [c \in Conn |-> "none"]

-------------------------------------------------------------------------------
(***************************************************************************)
(* Plausible mistakes in the code, each of which a property below excludes *)
(***************************************************************************)

\* The workers are taken for joining while the acceptor may still add one.
JoinAcceptorLate ==
    /\ main = "acceptor"
    /\ taken' = handles
    /\ handles' = {}
    /\ main' = "join"
    /\ UNCHANGED <<stopping, retained, listening, acceptor, backlog, table, worker,
                   clients, spawned>>

\* The descriptor is closed, and its number free, while it is still retained.
CloseEarly(c) ==
    /\ worker[c] = "drop"
    /\ table' = [table EXCEPT ![FdOf(c)] = None]
    /\ tree' = [tree EXCEPT ![c] = "gone"]
    /\ nested' = [nested EXCEPT ![c] = "none"]
    /\ Goto(c, "end")
    /\ UNCHANGED <<threads, backlog, clients, request, signalled, bus, owner>>

\* The end of the readiness pipe is taken for an interrupted read, and read again.
StartedInsists(c) ==
    /\ worker[c] = "started"
    /\ tree[c] # "starting"
    /\ IF tree[c] = "gone"
       THEN UNCHANGED <<worker, replies>>
       ELSE /\ Send(c, "started")
            /\ Goto(c, IF Reachable(c) THEN "wait" ELSE "abandon")
    /\ UNCHANGED <<threads, backlog, table, peer, shut, inbox, spawned>>

\* The watch on the bus goes on after the broker is told to stop.
WatchOn(c) ==
    /\ worker[c] = "watch"
    /\ IF c \in bus /\ owner[c] = "orphaned"
       THEN /\ owner' = [owner EXCEPT ![c] = "none"]
            /\ Goto(c, "drop")
       ELSE UNCHANGED <<owner, worker>>
    /\ UNCHANGED <<threads, backlog, table, clients, request, tree, signalled, bus, nested>>

-------------------------------------------------------------------------------
(***************************************************************************)
(* Clients and the processes of the sandbox                                *)
(***************************************************************************)

\* The bridge connects while the socket is there.
Connect(c) ==
    /\ peer[c] = "none" /\ listening /\ main \in {"serve", "shut", "listener"}
    /\ peer' = [peer EXCEPT ![c] = "open"]
    /\ backlog' = backlog \cup {c}
    /\ UNCHANGED <<threads, table, worker, shut, inbox, replies, spawned>>

\* It sends its request in the same handler; later, for a watched bus, it may
\* send SPAWN_TERMINATE.
Request(c) ==
    /\ peer[c] = "open" /\ c \notin shut /\ inbox[c] = None
    /\ worker[c] \in {"none", "receive"}
    /\ \E frame \in Sends[c] : inbox' = [inbox EXCEPT ![c] = frame]
    /\ UNCHANGED <<threads, backlog, table, worker, peer, shut, replies, spawned>>

Terminate(c) ==
    /\ peer[c] = "open" /\ inbox[c] = None /\ "accepted" \in replies[c]
    /\ "watch" \in request[c] /\ c \notin bus \cup shut
    /\ inbox' = [inbox EXCEPT ![c] = [kind |-> "terminate", flags |-> {}]]
    /\ UNCHANGED <<threads, backlog, table, worker, peer, shut, replies, spawned>>

\* (A hangup of a client in the backlog is met when it is served.)
Hangup(c) ==
    /\ peer[c] = "open" /\ worker[c] # "none"
    /\ peer' = [peer EXCEPT ![c] = "closed"]
    /\ UNCHANGED <<threads, backlog, table, worker, shut, inbox, replies, spawned>>

\* secure_launch writes the started pid just before it runs the command.
Report(c) ==
    /\ tree[c] = "starting"
    /\ tree' = [tree EXCEPT ![c] = "running"]
    /\ UNCHANGED <<threads, backlog, table, worker, clients, request, signalled,
                   bus, owner, nested>>

\* The whole tree ends, signalled or not.
TreeEnds(c) ==
    /\ tree[c] \in {"starting", "running"}
    /\ tree' = [tree EXCEPT ![c] = "gone"]
    /\ UNCHANGED <<threads, backlog, table, worker, clients, request, signalled,
                   bus, owner, nested>>

\* The root of the subtree that made the request exits and has been reaped;
\* nobody asks before the worker watches.
OwnerExits(c) ==
    /\ owner[c] = "alive" /\ worker[c] = "watch"
    /\ owner' = [owner EXCEPT ![c] = "orphaned"]
    /\ UNCHANGED <<threads, backlog, table, worker, clients, request, tree,
                   signalled, bus, nested>>

-------------------------------------------------------------------------------
(***************************************************************************)
(* The acceptor: broker_loop                                               *)
(***************************************************************************)

\* accept4 takes a waiting connection and the lowest free number.
Accept ==
    /\ acceptor.step = "accept"
    /\ \E c \in backlog, fd \in FreeFds :
           /\ \A other \in FreeFds : fd <= other
           /\ table' = [table EXCEPT ![fd] = c]
           /\ backlog' = backlog \ {c}
           /\ acceptor' = [step |-> "admit", fd |-> fd]
    /\ UNCHANGED <<main, taken, stopping, retained, handles, listening, worker,
                   clients, spawned>>

\* Any error of accept4 ends the loop: the listener was shut down, or the
\* launcher has no descriptor left.
AcceptFails ==
    /\ acceptor.step = "accept"
    /\ ~listening \/ (backlog # {} /\ FreeFds = {})
    /\ acceptor' = [acceptor EXCEPT !.step = "end"]
    /\ UNCHANGED <<main, taken, stopping, retained, handles, listening, backlog,
                   table, worker, clients, spawned>>

\* The stopping flag is looked at once, then the credentials of the peer.
Admit ==
    /\ acceptor.step = "admit"
    /\ \/ /\ ~stopping /\ table[acceptor.fd] # Waker
          /\ acceptor' = [acceptor EXCEPT !.step = "retain"]
          /\ UNCHANGED <<table, peer>>
       \/ /\ LET c == table[acceptor.fd] IN
             peer' = IF c = Waker THEN peer ELSE [peer EXCEPT ![c] = "closed"]
          /\ table' = [table EXCEPT ![acceptor.fd] = None]
          /\ acceptor' = [step |-> IF stopping THEN "end" ELSE "accept", fd |-> None]
    /\ UNCHANGED <<main, taken, stopping, retained, handles, listening, backlog,
                   worker, shut, inbox, replies, spawned>>

\* The number goes on the list, the worker starts and its handle is kept.
Retain ==
    /\ acceptor.step = "retain"
    /\ retained' = retained \cup {acceptor.fd}
    /\ handles' = handles \cup {table[acceptor.fd]}
    /\ Goto(table[acceptor.fd], "receive")
    /\ acceptor' = [step |-> "accept", fd |-> None]
    /\ UNCHANGED <<main, taken, stopping, listening, backlog, table, clients, spawned>>

-------------------------------------------------------------------------------
(***************************************************************************)
(* A worker: handle_connection                                             *)
(***************************************************************************)

Received(c, kind) == c \notin shut /\ inbox[c] # None /\ inbox[c].kind = kind

\* receive_packet waits for a frame; a connection that was shut down or hung
\* up gives none, and neither does a frame that does not parse.
Receive(c) ==
    /\ worker[c] = "receive"
    /\ \/ c \in shut \/ inbox[c] # None \/ peer[c] = "closed"
    /\ inbox' = [inbox EXCEPT ![c] = None]
    /\ IF Received(c, "spawn")
       THEN /\ request' = [request EXCEPT ![c] = inbox[c].flags]
            /\ Goto(c, "launch")
            /\ UNCHANGED replies
       ELSE /\ Goto(c, "release")
            /\ UNCHANGED request
            /\ IF Received(c, "probe") THEN Send(c, "probed") ELSE UNCHANGED replies
    /\ UNCHANGED <<threads, backlog, table, peer, shut, tree, signalled, bus,
                   owner, nested>>

\* What is left of a nested root: its mounts, and with them root and record,
\* may fail to go, and do not go under a running process.
CleanNested(c, running) ==
    nested' \in {[nested EXCEPT ![c] = s] :
                   s \in IF nested[c] = "none" THEN {"none"}
                         ELSE IF running THEN {"kept"} ELSE {"none", "kept"}}

\* NestedSandboxRoot::create and populate: the mounts are up, or what there was
\* of them is cleaned up again, as far as that goes.
CreateNested(c, done) ==
    nested' \in {[nested EXCEPT ![c] = s] :
                   s \in IF "nested" \notin request[c] THEN {"none"}
                         ELSE IF done THEN {"mounted"} ELSE {"none", "kept"}}

\* WATCH_BUS asks for the subtree of the caller now; then comes
\* spawn_in_existing_sandbox, which undoes what it did when a step fails.
Launch(c) ==
    /\ worker[c] = "launch"
    /\ \/ /\ owner' = [owner EXCEPT ![c] = IF "watch" \in request[c] THEN "alive"
                                                                    ELSE "none"]
          /\ tree' = [tree EXCEPT ![c] = "starting"]
          /\ CreateNested(c, TRUE)
          /\ Goto(c, "accepted")
       \/ /\ CreateNested(c, FALSE)
          /\ Goto(c, "release")
          /\ UNCHANGED <<owner, tree>>
    /\ UNCHANGED <<threads, backlog, table, clients, request, signalled, bus>>

SendAccepted(c) ==
    /\ worker[c] = "accepted"
    /\ Send(c, "accepted")
    /\ Goto(c, IF ~Reachable(c) THEN "abandon"
               ELSE IF "notify" \in request[c] THEN "started" ELSE "wait")
    /\ UNCHANGED <<threads, backlog, table, peer, shut, inbox, spawned>>

\* wait_for_spawn_started reads until the pid is there or the pipe ends; it
\* does not look at the stopping flag.
NotifyStarted(c) ==
    /\ worker[c] = "started"
    /\ tree[c] # "starting"
    /\ Send(c, "started")
    /\ Goto(c, IF Reachable(c) THEN "wait" ELSE "abandon")
    /\ UNCHANGED <<threads, backlog, table, peer, shut, inbox, spawned>>

\* wait_for_exit(.., || true): the client is gone, the tree is ended or outlives
\* SIGKILL.  The number is released before tree and nested root are dropped.
Abandon(c) ==
    /\ worker[c] = "abandon"
    /\ tree' \in {tree, [tree EXCEPT ![c] = "gone"]}
    /\ signalled' = signalled \cup {c}
    /\ Goto(c, "release_first")
    /\ UNCHANGED <<threads, backlog, table, clients, request, bus, owner, nested>>

\* watch_bus_termination_requested: a hangup, or the SPAWN_TERMINATE frame.
BusGone(c) == peer[c] = "closed" \/ c \in shut \/ Received(c, "terminate")

\* One poll of wait_for_exit_with_signal asks for the end of the tree.
PollSignal(c) ==
    /\ worker[c] = "wait" /\ c \notin signalled /\ tree[c] # "gone"
    /\ stopping \/ ("watch" \in request[c] /\ BusGone(c))
    /\ signalled' = signalled \cup {c}
    /\ IF stopping
       THEN UNCHANGED <<bus, inbox>>
       ELSE /\ bus' = bus \cup {c}
            /\ inbox' = [inbox EXCEPT ![c] = None]
    /\ UNCHANGED <<threads, backlog, table, worker, peer, shut, replies, request,
                   tree, owner, nested>>

\* The tree is gone, or it outlives SIGKILL by the grace period: only then is
\* no status sent.
WaitOver(c) ==
    /\ worker[c] = "wait"
    /\ \/ /\ tree[c] = "gone"
          /\ Send(c, "exited")
       \/ /\ tree[c] # "gone" /\ c \in signalled
          /\ UNCHANGED replies
    /\ Goto(c, IF "watch" \in request[c] THEN "watch" ELSE "drop")
    /\ UNCHANGED <<threads, backlog, table, peer, shut, inbox, spawned>>

\* The loop after the status: until the broker stops, or the bus has gone and
\* the processes its owner left behind are ended.
Watch(c) ==
    /\ worker[c] = "watch"
    /\ \/ /\ stopping
          /\ Goto(c, "drop")
          /\ UNCHANGED <<bus, inbox, owner>>
       \/ /\ ~stopping /\ c \notin bus /\ BusGone(c)
          /\ bus' = bus \cup {c}
          /\ inbox' = [inbox EXCEPT ![c] = None]
          /\ UNCHANGED <<worker, owner>>
       \/ /\ ~stopping /\ c \in bus /\ owner[c] = "orphaned"
          /\ owner' = [owner EXCEPT ![c] = "none"]
          /\ Goto(c, "drop")
          /\ UNCHANGED <<bus, inbox>>
    /\ UNCHANGED <<threads, backlog, table, peer, shut, replies, request, tree,
                   signalled, nested>>

\* Drop of SandboxProcessTree and NestedSandboxRoot: the tree is ended again,
\* and may survive again.
Dropped(c) ==
    \/ /\ tree' = [tree EXCEPT ![c] = "gone"]
       /\ CleanNested(c, FALSE)
    \/ /\ tree[c] # "gone"
       /\ tree' = [tree EXCEPT ![c] = "survived"]
       /\ CleanNested(c, TRUE)

DropTree(c) ==
    /\ worker[c] \in {"drop", "drop_last"}
    /\ Dropped(c)
    /\ Goto(c, IF worker[c] = "drop" THEN "release" ELSE "close")
    /\ UNCHANGED <<threads, backlog, table, clients, request, signalled, bus, owner>>

Release(c) ==
    /\ worker[c] \in {"release", "release_first"}
    /\ retained' = retained \ {FdOf(c)}
    /\ Goto(c, IF worker[c] = "release" THEN "close" ELSE "drop_last")
    /\ UNCHANGED <<main, taken, stopping, handles, listening, acceptor, backlog,
                   table, clients, spawned>>

\* The connection is dropped last, when handle_connection returns; nothing is
\* left of it but what was spawned.
Close(c) ==
    /\ worker[c] = "close"
    /\ table' = [table EXCEPT ![FdOf(c)] = None]
    /\ Goto(c, "end")
    /\ peer' = [peer EXCEPT ![c] = "closed"]
    /\ shut' = shut \ {c} /\ signalled' = signalled \ {c} /\ bus' = bus \ {c}
    /\ inbox' = [inbox EXCEPT ![c] = None]
    /\ replies' = [replies EXCEPT ![c] = {}]
    /\ request' = [request EXCEPT ![c] = {}]
    /\ owner' = [owner EXCEPT ![c] = "none"]
    /\ UNCHANGED <<threads, backlog, tree, nested>>

-------------------------------------------------------------------------------
(***************************************************************************)
(* The main thread: Drop of SpawnBroker                                    *)
(***************************************************************************)
Stop ==
    /\ main = "serve"
    /\ stopping' = TRUE
    /\ main' = "shut"
    /\ UNCHANGED <<taken, retained, handles, listening, acceptor, backlog, table,
                   worker, clients, spawned>>

\* stop shuts down every retained number, whatever it stands for by now.
ShutRetained ==
    /\ main = "shut"
    /\ shut' = (shut \cup {table[fd] : fd \in retained}) \cap Conn
    /\ main' = "listener"
    /\ UNCHANGED <<taken, stopping, retained, handles, listening, acceptor,
                   backlog, table, worker, peer, inbox, replies, spawned>>

\* shutdown of a listening socket may be refused, then wake_broker connects;
\* after that the socket is removed.
ShutListener ==
    /\ main = "listener"
    /\ listening' \in {FALSE, listening}
    /\ backlog' = IF listening' THEN backlog \cup {Waker} ELSE backlog
    /\ main' = "acceptor"
    /\ UNCHANGED <<taken, stopping, retained, handles, acceptor, table, worker,
                   clients, spawned>>

\* The acceptor is joined before the handles are taken.
JoinAcceptor ==
    /\ main = "acceptor" /\ acceptor.step = "end"
    /\ taken' = handles
    /\ handles' = {}
    /\ main' = "join"
    /\ UNCHANGED <<stopping, retained, listening, acceptor, backlog, table, worker,
                   clients, spawned>>

JoinWorkers ==
    /\ main = "join"
    /\ \A c \in taken : worker[c] = "end"
    /\ main' = "done"
    /\ listening' = FALSE
    /\ peer' = [c \in Conn |-> IF c \in backlog THEN "closed" ELSE peer[c]]
    /\ UNCHANGED <<taken, stopping, retained, handles, acceptor, backlog, table,
                   worker, shut, inbox, replies, spawned>>

-------------------------------------------------------------------------------
MainThread == ShutRetained \/ ShutListener \/ JoinAcceptor \/ JoinWorkers

Acceptor == Accept \/ AcceptFails \/ Admit \/ Retain

Worker(c) == \/ Receive(c) \/ Launch(c) \/ SendAccepted(c) \/ NotifyStarted(c)
             \/ Abandon(c) \/ PollSignal(c) \/ WaitOver(c) \/ Watch(c)
             \/ DropTree(c) \/ Release(c) \/ Close(c)

Client(c) == Connect(c) \/ Request(c) \/ Terminate(c) \/ Hangup(c)

Sandbox(c) == Report(c) \/ TreeEnds(c) \/ OwnerExits(c)

\* The launch is over and nothing is left to do.
Done == main = "done" /\ UNCHANGED vars

Next == \/ Stop \/ MainThread \/ Acceptor \/ Done
        \/ \E c \in Conn : Worker(c) \/ Client(c) \/ Sandbox(c)

Spec == Init /\ [][Next]_vars

\* A client the worker waits for.
Due(c) == inbox[c] = None /\ worker[c] \in {"none", "receive"}

\* The threads are scheduled.  The bridge sends its request in the handler that
\* connects, or closes; afterwards nothing makes it close.  secure_launch
\* reports or exits, it waits for nothing of the application.  Nothing is
\* assumed of the application itself.
Fairness ==
    /\ WF_vars(MainThread) /\ WF_vars(Acceptor)
    /\ \A c \in Conn : /\ WF_vars(Worker(c))
                       /\ WF_vars(Due(c) /\ (Request(c) \/ Hangup(c)))
                       /\ WF_vars(tree[c] = "starting" /\ (Report(c) \/ TreeEnds(c)))

FairSpec == Spec /\ Fairness

-------------------------------------------------------------------------------
(***************************************************************************)
(* Properties                                                              *)
(***************************************************************************)
\* The types of the variables.
TypeOK ==
    /\ main \in MainSteps
    /\ taken \subseteq Conn /\ handles \subseteq Conn
    /\ stopping \in BOOLEAN /\ listening \in BOOLEAN
    /\ retained \subseteq Fd
    /\ backlog \subseteq Conn \cup {Waker}
    /\ acceptor \in [step : AcceptorSteps, fd : Fd \cup {None}]
    /\ table \in [Fd -> Conn \cup {Waker, None}]
    /\ worker \in [Conn -> WorkerSteps]
    /\ peer \in [Conn -> {"none", "open", "closed"}]
    /\ shut \subseteq Conn /\ signalled \subseteq Conn /\ bus \subseteq Conn
    /\ inbox \in [Conn -> Frames \cup {None}]
    /\ replies \in [Conn -> SUBSET {"probed", "accepted", "started", "exited"}]
    /\ request \in [Conn -> Flags]
    /\ tree \in [Conn -> {"none", "starting", "running", "gone", "survived"}]
    /\ owner \in [Conn -> {"none", "alive", "orphaned"}]
    /\ nested \in [Conn -> {"none", "mounted", "kept"}]

(***************************************************************************)
(* The numbers stop shuts down are of open connections: a worker releases  *)
(* its number before the descriptor is closed, so that a number which has  *)
(* been given out again is never shut down for its former holder           *)
(* (handle_connection, release before the drop of connection).             *)
(***************************************************************************)
RetainedOpen ==
    \A fd \in retained :
        /\ table[fd] \in Conn
        /\ worker[table[fd]] \notin {"none", "end"}

(***************************************************************************)
(* When the broker has been dropped, no thread of it runs, every           *)
(* connection is closed, no process it spawned is left but one that        *)
(* outlived SIGKILL, and no nested root but one whose unmount failed, with *)
(* its record: the teardown of the sandbox that follows meets nothing new. *)
(***************************************************************************)
QuietAfterDrop ==
    main = "done" =>
        /\ acceptor.step = "end"
        /\ FreeFds = Fd
        /\ \A c \in Conn : /\ worker[c] \in {"none", "end"}
                           /\ tree[c] \in {"none", "gone", "survived"}
                           /\ nested[c] # "mounted"

(***************************************************************************)
(* A launch that is over does end: the drop of the broker returns, whatever *)
(* connections are waiting, being accepted or being served, among them one *)
(* that is retained after stop has gone through the list.                  *)
(***************************************************************************)
ShutdownCompletes == stopping ~> main = "done"

(***************************************************************************)
(* Who was told that the command was accepted, and stays, is told that it  *)
(* has ended, even when it ended before it could report that it started;   *)
(* but not when it outlived SIGKILL and the wait gave up on it             *)
(* (handle_connection sends SPAWN_EXITED only if the wait ended well).     *)
(***************************************************************************)
AcceptedAnswered ==
    \A c \in Conn :
        ("accepted" \in replies[c] /\ tree[c] = "gone" /\ worker[c] \in {"started", "wait"})
            ~> ("exited" \in replies[c] \/ ~Reachable(c))
===============================================================================
