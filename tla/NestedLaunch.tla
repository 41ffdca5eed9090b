----------------------------- MODULE NestedLaunch -----------------------------
(***************************************************************************)
(* The secure launch helper.  A direct launch is one set-user-ID process   *)
(* that enters the sandbox, gives up its privileges and becomes the        *)
(* program.  A nested launch goes from a client through the daemon to a    *)
(* worker, which forks a child: the child creates a jail and attaches to   *)
(* it, the worker takes over the jail's owning descriptor, approves the    *)
(* launch, and waits for the child or for the client to go away.           *)
(*                                                                         *)
(* One launch is modelled: the workers are processes that share nothing.   *)
(* The jail is the kernel's: it goes away, with every process in it, when  *)
(* its owning descriptor is closed for the last time, and when it is not   *)
(* persistent and empty.                                                   *)
(***************************************************************************)
EXTENDS Naturals, Sequences, FiniteSets

CONSTANTS Fd,        \* the descriptor numbers a process may have
          LifeFd,    \* the number of the child's end of the lifecycle socket
          SourceFds, \* the numbers at which received descriptors arrive
          Requests   \* the requests: launch mode, validity and fd targets

ASSUME LaunchAssumption ==
    /\ Fd \subseteq Nat /\ IsFiniteSet(Fd) /\ 0..2 \subseteq Fd
    /\ \A fd \in Fd : 0..fd \subseteq Fd
    /\ LifeFd \in Fd \ 0..2
    /\ SourceFds \in Seq(Fd \ (0..2 \cup {LifeFd}))
    /\ \A i, j \in DOMAIN SourceFds : i # j => SourceFds[i] # SourceFds[j]
    /\ \A r \in Requests : /\ r.mode \in {"direct", "nested"}
                           /\ r.good \in BOOLEAN
                           /\ r.targets \in Seq(Nat)
                           /\ Len(r.targets) <= Len(SourceFds)
                           \* parse_mapped_fds
                           /\ \A i, j \in DOMAIN r.targets :
                                 i # j => r.targets[i] # r.targets[j]

VARIABLES request,   \* what is launched
          rootAt,    \* what is at the path of the sandbox root
          client,    \* "started" and "status" while it waits, "done" or "gone"
          asked,     \* the client has sent a signal
          replies,   \* what the client was sent
          worker,    \* where the worker is
          signalled, \* the worker has asked the process group to end
          child,     \* where the child, or the direct helper, is
          opened,    \* the directory that the child has opened
          inside,    \* the root it has entered
          dropped,   \* it has given up its privileges
          table,     \* its descriptors
          dups,      \* map_nested_fds: the numbers of the duplicates
          mapped,    \* and how many targets have been made
          message,   \* the lifecycle socket: what the worker has not read
          approval,  \* and what the child has not read
          jail,      \* "none", "made" or "removed"
          persist,   \* the jail persists
          owners,    \* who has the owning descriptor
          kids       \* processes of the program: "none", in its "group", "left" it

clients == <<client, asked, replies>>
mapping == <<table, dups, mapped>>
entry == <<opened, inside, dropped, mapping>>
prison == <<child, jail, persist, owners, kids>>
vars == <<request, rootAt, clients, worker, signalled, entry, message, approval, prison>>

\* What a descriptor stands for: the i-th that came with the request, a standard
\* one, the lifecycle socket, or nothing.
SourceOf(i) == <<"source", i>>
Stdio == <<"stdio", 0>>
Lifecycle == <<"lifecycle", 0>>
Closed == <<"closed", 0>>

\* The child's descriptors after the fork, once it has closed the connection
\* and the worker's end of the lifecycle socket.
ForkedTable(targets) ==
    [fd \in Fd |-> IF fd \in 0..2 THEN Stdio
                   ELSE IF fd = LifeFd THEN Lifecycle
                   ELSE IF \E i \in DOMAIN targets : SourceFds[i] = fd
                        THEN SourceOf(CHOOSE i \in DOMAIN targets : SourceFds[i] = fd)
                   ELSE Closed]

\* The steps at which the child is attached to the jail.
Attached == {"send", "approval", "map", "drop", "report", "exec", "running"}
Setup == {"open", "enter", "create", "attach"} \cup (Attached \ {"running"})

\* The child's end of the lifecycle socket is open: exec closes it.
ChildListens == child \in Setup /\ Lifecycle \in {table[fd] : fd \in Fd}
WorkerListens == worker \notin {"none", "end"}

\* What is left after a step that leaves the child at c, its processes at k,
\* the owning descriptor with h and persistence p of a jail that was j.
Settle(c, k, h, p, j) ==
    LET empty == c \notin Attached /\ k = "none"
        gone == j = "made" /\ (h = {} \/ (~p /\ empty))
        end == gone \/ j = "removed"
    IN  /\ jail' = IF gone THEN "removed" ELSE j
        /\ child' = IF end /\ c \in Attached THEN "dead" ELSE c
        /\ kids' = IF end THEN "none" ELSE k
        /\ owners' = IF end THEN {} ELSE h
        /\ persist' = p

ChildStep(step) == Settle(step, kids, owners, persist, jail)

\* The child ends, by itself or killed: its descriptors close.
ChildDies == Settle("dead", kids, owners \ {"child"}, persist, jail)

Init ==
    /\ request \in Requests
    /\ rootAt = "valid"
    /\ client = IF request.mode = "nested" THEN "started" ELSE "done"
    /\ asked = FALSE /\ replies = {}
    /\ worker = "none" /\ signalled = FALSE
    /\ child = IF request.mode = "direct" THEN "validate" ELSE "none"
    /\ opened = "none" /\ inside = "host" /\ dropped = FALSE
    /\ table = ForkedTable(<<>>) /\ dups = <<>> /\ mapped = 0
    /\ message = "none" /\ approval = FALSE
    /\ jail = "none" /\ persist = FALSE /\ owners = {} /\ kids = "none"

-------------------------------------------------------------------------------
(***************************************************************************)
(* Plausible mistakes in the code, each of which a property below excludes *)
(***************************************************************************)

\* Duplicates are made at any number that is not a standard one.
AboveStandard(fd) == fd >= 3

\* The jail is created at the path of the sandbox root.
EnterByPath == rootAt

\* The status is sent while the owning descriptor is still open.
CloseOwnerLate ==
    /\ worker = "close"
    /\ worker' = "status"
    /\ UNCHANGED <<request, rootAt, clients, signalled, entry, message, approval, prison>>

\* Only a signal of the client ends the launch, its going away does not.
AskedToEndOnlyBySignal == asked

-------------------------------------------------------------------------------
(***************************************************************************)
(* The client, and what happens to the sandbox root                        *)
(***************************************************************************)

\* SIGINT or SIGTERM: the handler sends the signal and exits.
ClientSignalled ==
    /\ client \in {"started", "status"}
    /\ asked' = TRUE
    /\ client' = "gone"
    /\ UNCHANGED <<request, rootAt, replies, worker, signalled, entry, message, approval,
                   prison>>

ClientKilled ==
    /\ client \in {"started", "status"}
    /\ client' = "gone"
    /\ UNCHANGED <<request, rootAt, asked, replies, worker, signalled, entry, message,
                   approval, prison>>

\* read_started, notify_launch_started and read_status, or the end of the
\* connection, upon which the client reports an error.
ClientReads ==
    /\ client \in {"started", "status"}
    /\ \/ client = "started" /\ "started" \in replies /\ client' = "status"
       \/ client = "status" /\ "status" \in replies /\ client' = "done"
       \/ client \notin replies /\ worker = "end" /\ client' = "done"
    /\ UNCHANGED <<request, rootAt, asked, replies, worker, signalled, entry, message,
                   approval, prison>>

\* The directory at the path is replaced by another.
ReplaceRoot ==
    /\ rootAt = "valid"
    /\ rootAt' = "other"
    /\ UNCHANGED <<request, clients, worker, signalled, entry, message, approval, prison>>

-------------------------------------------------------------------------------
(***************************************************************************)
(* execute_with_mappings: the child of a worker, or the direct helper      *)
(***************************************************************************)

\* The direct helper parses and validates its own arguments.
Validate ==
    /\ child = "validate"
    /\ ChildStep(IF request.good /\ rootAt = "valid" THEN "open" ELSE "dead")
    /\ UNCHANGED <<request, rootAt, clients, worker, signalled, entry, message, approval>>

\* A step of the setup fails: the process ends without an exec.
SetupFails ==
    /\ child \in Setup
    /\ ChildDies
    /\ UNCHANGED <<request, rootAt, clients, worker, signalled, entry, message, approval>>

\* The root is opened again, and compared with the request.
OpenRoot ==
    /\ child = "open"
    /\ opened' = rootAt
    /\ IF rootAt = "valid"
       THEN ChildStep(IF request.mode = "direct" THEN "enter" ELSE "create")
       ELSE ChildDies
    /\ UNCHANGED <<request, rootAt, clients, worker, signalled, inside, dropped, mapping,
                   message, approval>>

\* Where fchdir and then chroot, or the jail's path ".", lead.
EnterRoot == opened

Chroot ==
    /\ child = "enter"
    /\ inside' = EnterRoot
    /\ ChildStep("map")
    /\ UNCHANGED <<request, rootAt, clients, worker, signalled, opened, dropped, mapping,
                   message, approval>>

\* create_nested_jail: persistent, and owned through a descriptor.
CreateJail ==
    /\ child = "create"
    /\ inside' = EnterRoot
    /\ Settle("attach", kids, {"child"}, TRUE, "made")
    /\ UNCHANGED <<request, rootAt, clients, worker, signalled, opened, dropped, mapping,
                   message, approval>>

\* The descriptor of the root is closed first; a jail that cannot be attached
\* to is removed.
AttachJail ==
    /\ child = "attach"
    /\ \/ ChildStep("send")
       \/ Settle("dead", kids, {}, persist, "removed")
    /\ UNCHANGED <<request, rootAt, clients, worker, signalled, entry, message, approval>>

\* The jail and its owning descriptor are sent to the worker.
SendJail ==
    /\ child = "send"
    /\ IF WorkerListens
       THEN /\ message' = "jail"
            /\ Settle("approval", kids, owners \cup {"message"}, persist, jail)
       ELSE ChildDies /\ UNCHANGED message
    /\ UNCHANGED <<request, rootAt, clients, worker, signalled, entry, approval>>

\* The child's own copy is closed when the approval has come.
ReadApproval ==
    /\ child = "approval"
    /\ \/ /\ approval
          /\ approval' = FALSE
          /\ Settle("map", kids, owners \ {"child"}, persist, jail)
       \/ ~approval /\ ~WorkerListens /\ ChildDies /\ UNCHANGED approval
    /\ UNCHANGED <<request, rootAt, clients, worker, signalled, entry, message>>

\* The targets the child is run with; a direct launch has none.
Targets == IF request.mode = "nested" THEN request.targets ELSE <<>>

\* Duplicates are made above every target, and above the standard descriptors.
AboveTargets(fd) == fd >= 3 /\ \A i \in DOMAIN Targets : fd > Targets[i]

FreeFds == {fd \in Fd : AboveTargets(fd) /\ table[fd] = Closed}

\* chdir to the working directory, then map_nested_fds.  Its first loop gives
\* each source a duplicate, at the lowest number, if the process has one left.
DuplicateSource ==
    /\ child = "map" /\ Len(dups) < Len(Targets)
    /\ IF FreeFds = {}
       THEN ChildDies /\ UNCHANGED <<table, dups>>
       ELSE /\ \E fd \in FreeFds :
                  /\ \A other \in FreeFds : fd <= other
                  /\ table' = [table EXCEPT ![fd] = table[SourceFds[Len(dups) + 1]]]
                  /\ dups' = Append(dups, fd)
            /\ ChildStep("map")
    /\ UNCHANGED <<request, rootAt, clients, worker, signalled, opened, inside, dropped,
                   mapped, message, approval>>

\* The second makes each target from its duplicate, and closes that.
MakeTarget ==
    /\ child = "map" /\ Len(dups) = Len(Targets) /\ mapped < Len(Targets)
    /\ table' = [table EXCEPT ![Targets[mapped + 1]] = table[dups[mapped + 1]],
                              ![dups[mapped + 1]] = Closed]
    /\ mapped' = mapped + 1
    /\ ChildStep("map")
    /\ UNCHANGED <<request, rootAt, clients, worker, signalled, opened, inside, dropped,
                   dups, message, approval>>

MappingDone ==
    /\ child = "map" /\ Len(dups) = Len(Targets) /\ mapped = Len(Targets)
    /\ ChildStep("drop")
    /\ UNCHANGED <<request, rootAt, clients, worker, signalled, entry, message, approval>>

DropCredentials ==
    /\ child = "drop"
    /\ dropped' = TRUE
    /\ ChildStep("report")
    /\ UNCHANGED <<request, rootAt, clients, worker, signalled, opened, inside, mapping,
                   message, approval>>

\* The readiness is written to the lifecycle socket's number: what a mapping has
\* put there is written to instead, if it is a socket.
ReportStarted ==
    /\ child = "report"
    /\ IF request.mode = "direct"
       THEN ChildStep("exec") /\ UNCHANGED message
       ELSE IF table[LifeFd] = Lifecycle
            THEN IF WorkerListens
                 THEN message' = "started" /\ ChildStep("exec")
                 ELSE ChildDies /\ UNCHANGED message
            ELSE ChildStep("exec") /\ UNCHANGED message
    /\ UNCHANGED <<request, rootAt, clients, worker, signalled, entry, approval>>

Exec ==
    /\ child = "exec"
    /\ ChildStep("running")
    /\ UNCHANGED <<request, rootAt, clients, worker, signalled, entry, message, approval>>

\* The program starts processes, which may leave its group, and ends; they may
\* live on.
ProgramRuns ==
    /\ request.mode = "nested"
    /\ \/ child = "running" /\ kids = "none"
          /\ Settle(child, "group", owners, persist, jail)
       \/ kids = "group" /\ Settle(child, "left", owners, persist, jail)
       \/ kids # "none" /\ Settle(child, "none", owners, persist, jail)
       \/ child = "running" /\ ChildDies
    /\ UNCHANGED <<request, rootAt, clients, worker, signalled, entry, message, approval>>

-------------------------------------------------------------------------------
(***************************************************************************)
(* The daemon and the worker: serve_nested_request                         *)
(***************************************************************************)

\* The daemon accepts and forks a worker, or ends: it has an error in accept
\* or fork, and its connections close.
Accept ==
    /\ worker = "none" /\ request.mode = "nested"
    /\ worker' \in {"receive", "end"}
    /\ UNCHANGED <<request, rootAt, clients, signalled, entry, message, approval, prison>>

\* validate_for_peer: the peer's identity and groups, the sandbox root, the
\* working directory; and the mode and the number of descriptors.
ValidForPeer == request.good /\ rootAt = "valid"

\* receive_nested_request and parse, an error of which ends the worker as a
\* request that is not valid does: request.good stands for both.
ReceiveRequest ==
    /\ worker = "receive"
    /\ worker' = IF ValidForPeer THEN "fork" ELSE "end"
    /\ UNCHANGED <<request, rootAt, clients, signalled, entry, message, approval, prison>>

\* The lifecycle socket and the child, which becomes a process group.
ForkChild ==
    /\ worker = "fork"
    /\ \/ /\ worker' = "jail"
          /\ table' = ForkedTable(request.targets)
          /\ ChildStep("open")
       \/ worker' = "end" /\ UNCHANGED <<table, prison>>
    /\ UNCHANGED <<request, rootAt, clients, signalled, opened, inside, dropped, dups,
                   mapped, message, approval>>

ReceiveJail ==
    /\ worker = "jail"
    /\ \/ /\ message = "jail"
          /\ message' = "none"
          /\ worker' = "clear"
          /\ Settle(child, kids, (owners \ {"message"}) \cup {"worker"}, persist, jail)
       \/ message = "none" /\ ~ChildListens /\ worker' = "kill" /\ UNCHANGED <<message, prison>>
    /\ UNCHANGED <<request, rootAt, clients, signalled, entry, approval>>

\* clear_nested_jail_persistence; a jail that keeps it is removed.
ClearPersistence ==
    /\ worker = "clear"
    /\ \/ worker' = "approve" /\ Settle(child, kids, owners, FALSE, jail)
       \/ worker' = "kill" /\ Settle(child, kids, {}, persist, "removed")
    /\ UNCHANGED <<request, rootAt, clients, signalled, entry, message, approval>>

Approve ==
    /\ worker = "approve"
    /\ IF ChildListens
       THEN approval' = TRUE /\ worker' = "ready" /\ UNCHANGED prison
       ELSE worker' = "kill" /\ Settle(child, kids, {}, persist, "removed") /\ UNCHANGED approval
    /\ UNCHANGED <<request, rootAt, clients, signalled, entry, message>>

\* The child's readiness, or the end of the lifecycle socket.
ReadStarted ==
    /\ worker = "ready"
    /\ \/ message = "started" /\ message' = "none" /\ worker' = "tell"
       \/ message = "none" /\ ~ChildListens /\ worker' = "kill" /\ UNCHANGED message
    /\ UNCHANGED <<request, rootAt, clients, signalled, entry, approval, prison>>

WriteStarted ==
    /\ worker = "tell"
    /\ IF client = "gone"
       THEN worker' = "kill" /\ UNCHANGED replies
       ELSE worker' = "wait" /\ replies' = replies \cup {"started"}
    /\ UNCHANGED <<request, rootAt, client, asked, signalled, entry, message, approval,
                   prison>>

\* What wait_for_nested_child_or_client takes for a request to end.
AskedToEnd == asked \/ client = "gone"

Reap ==
    /\ worker = "wait" /\ child = "dead"
    /\ worker' = "close"
    /\ UNCHANGED <<request, rootAt, clients, signalled, entry, message, approval, prison>>

TerminateGroup ==
    /\ worker = "wait" /\ child # "dead"
    /\ AskedToEnd /\ ~signalled
    /\ signalled' = TRUE
    /\ UNCHANGED <<request, rootAt, clients, worker, entry, message, approval, prison>>

\* Two seconds later, what is left of the process group.
KillGroup ==
    /\ worker = "wait" /\ child # "dead" /\ signalled
    /\ Settle("dead", IF kids = "group" THEN "none" ELSE kids, owners \ {"child"}, persist,
              jail)
    /\ UNCHANGED <<request, rootAt, clients, worker, signalled, entry, message, approval>>

\* waitpid or poll fails: the child is not killed by the worker, but its jail goes.
WaitFails ==
    /\ worker = "wait"
    /\ worker' = "exit"
    /\ Settle(child, kids, owners \ {"worker"}, persist, jail)
    /\ UNCHANGED <<request, rootAt, clients, signalled, entry, message, approval>>

CloseOwner ==
    /\ worker = "close"
    /\ worker' = "status"
    /\ Settle(child, kids, owners \ {"worker"}, persist, jail)
    /\ UNCHANGED <<request, rootAt, clients, signalled, entry, message, approval>>

WriteStatus ==
    /\ worker = "status"
    /\ worker' = "exit"
    /\ replies' = IF client = "gone" THEN replies ELSE replies \cup {"status"}
    /\ UNCHANGED <<request, rootAt, client, asked, signalled, entry, message, approval,
                   prison>>

\* The worker's process ends, and with it every descriptor it still has.
ExitWorker ==
    /\ worker = "exit"
    /\ worker' = "end"
    /\ message' = "none"
    /\ Settle(child, kids, owners \ {"worker", "message"}, persist, jail)
    /\ UNCHANGED <<request, rootAt, clients, signalled, entry, approval>>

\* An error before the wait: the owning descriptor is closed, and the child is
\* killed and waited for.
KillChild ==
    /\ worker = "kill"
    /\ worker' = "exit"
    /\ Settle("dead", kids, owners \ {"worker", "child"}, persist, jail)
    /\ UNCHANGED <<request, rootAt, clients, signalled, entry, message, approval>>

\* The worker is killed: its descriptors close, the one in flight to it too.
WorkerKilled ==
    /\ WorkerListens
    /\ worker' = "end"
    /\ message' = "none"
    /\ Settle(child, kids, owners \ {"worker", "message"}, persist, jail)
    /\ UNCHANGED <<request, rootAt, clients, signalled, entry, approval>>

-------------------------------------------------------------------------------
ChildNext ==
    \/ Validate \/ OpenRoot \/ Chroot \/ CreateJail \/ AttachJail \/ SendJail
    \/ ReadApproval \/ DuplicateSource \/ MakeTarget \/ MappingDone \/ DropCredentials
    \/ ReportStarted \/ Exec

WorkerNext ==
    \/ Accept \/ ReceiveRequest \/ ForkChild \/ ReceiveJail \/ ClearPersistence \/ Approve
    \/ ReadStarted \/ WriteStarted \/ Reap \/ TerminateGroup \/ KillGroup \/ CloseOwner
    \/ WriteStatus \/ KillChild \/ ExitWorker

ClientNext == ClientSignalled \/ ClientKilled \/ ClientReads

Failures == SetupFails \/ WaitFails \/ WorkerKilled \/ ReplaceRoot

Next == ChildNext \/ WorkerNext \/ ClientNext \/ ProgramRuns \/ Failures

Spec == Init /\ [][Next]_vars

\* The helper's own processes run; nothing makes a program end, a client go away
\* or a call fail.
FairSpec == Spec /\ WF_vars(ChildNext) /\ WF_vars(WorkerNext) /\ WF_vars(ClientReads)

-------------------------------------------------------------------------------
(***************************************************************************)
(* Properties                                                              *)
(***************************************************************************)

\* The types of the variables.
TypeOK ==
    /\ request \in Requests
    /\ rootAt \in {"valid", "other"}
    /\ client \in {"started", "status", "done", "gone"} /\ asked \in BOOLEAN
    /\ replies \subseteq {"started", "status"}
    /\ worker \in {"none", "receive", "fork", "jail", "clear", "approve", "ready", "tell",
                   "wait", "close", "status", "kill", "exit", "end"}
    /\ signalled \in BOOLEAN
    /\ child \in Setup \cup {"none", "validate", "running", "dead"}
    /\ opened \in {"none", "valid", "other"} /\ inside \in {"host", "none", "valid", "other"}
    /\ dropped \in BOOLEAN
    /\ table \in [Fd -> {Stdio, Lifecycle, Closed} \cup {SourceOf(i) : i \in DOMAIN SourceFds}]
    /\ dups \in Seq(Fd) /\ mapped \in Nat
    /\ message \in {"none", "jail", "started"} /\ approval \in BOOLEAN
    /\ jail \in {"none", "made", "removed"} /\ persist \in BOOLEAN
    /\ owners \subseteq {"child", "message", "worker"}
    /\ kids \in {"none", "group", "left"}

\* A program runs only as the request that was validated, in the root that was
\* validated whatever has become of its path, without privileges, and, when it
\* is nested, after the worker has taken the jail over: in a jail that does not
\* persist and whose owning descriptor the worker alone has
\* (execute_with_mappings, serve_nested_request).
Confined ==
    child = "running" =>
        /\ request.good /\ inside = "valid" /\ dropped
        /\ request.mode = "nested" => jail = "made" /\ ~persist /\ owners = {"worker"}

\* A client that is told the status finds nothing of the launch left: the jail
\* is gone and with it the processes that had left the group of the child
\* (drop(owner) before write_status).
StatusLast ==
    "status" \in replies => child = "dead" /\ kids = "none" /\ jail = "removed"

\* A nested program has each descriptor of the request at its target, and at
\* each of 0, 1 and 2 that is no target the standard stream it was forked with:
\* no target overwrote a source that was still to be mapped (map_nested_fds).
SourcesMapped ==
    child = "running" /\ request.mode = "nested" =>
        \A fd \in 0..2 \cup {request.targets[i] : i \in DOMAIN request.targets} :
            table[fd] = IF \E i \in DOMAIN request.targets : request.targets[i] = fd
                        THEN SourceOf(CHOOSE i \in DOMAIN request.targets :
                                          request.targets[i] = fd)
                        ELSE Stdio

\* When the client of a nested launch is gone, or has its answer, everything of
\* the launch ends: the child in whatever step of its setup it was, the program
\* and the processes that left its group, and the jail (serve_nested_request).
NothingLeft ==
    (request.mode = "nested" /\ client \in {"gone", "done"})
        ~> (child \in {"none", "dead"} /\ kids = "none" /\ jail # "made" /\ worker = "end")

===============================================================================
