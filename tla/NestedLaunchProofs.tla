-------------------------- MODULE NestedLaunchProofs --------------------------
(***************************************************************************)
(* Proofs about NestedLaunch, for any request, any number of descriptors   *)
(* and any targets they are mapped to.                                     *)
(***************************************************************************)
EXTENDS NestedLaunch, TLAPS

Nested == request.mode = "nested"
Direct == request.mode = "direct"

\* The child before it hands its jail over, and after the approval.
Before == {"open", "create", "attach", "send"}
Approved == {"map", "drop", "report", "exec", "running"}

\* A direct launch is one process, without worker, jail or messages.
ModeInv ==
    /\ Direct => /\ worker = "none" /\ message = "none" /\ ~approval /\ replies = {}
                 /\ jail = "none" /\ owners = {} /\ kids = "none"
                 /\ child \in {"validate", "open", "enter", "dead"} \cup Approved
    /\ Nested => child \notin {"validate", "enter"}

\* How far the process has come says what it has done on the way.
EntryInv ==
    /\ child \notin {"none", "validate", "dead"} \/ worker = "fork" => request.good
    /\ child \in {"enter", "create"} => opened = "valid"
    /\ child \in {"attach", "send", "approval"} \cup Approved => inside = "valid"
    /\ child \in {"report", "exec", "running"} => dropped

\* The kernel's jail: it has an owner while it is there, and takes its processes
\* with it when it goes.
JailInv ==
    /\ jail = "made" => owners # {}
    /\ jail # "made" => owners = {} /\ kids = "none"
    /\ Nested /\ child \in {"attach"} \cup Attached => jail = "made"
    /\ child \in {"dead"} \cup Approved => "child" \notin owners
    /\ child = "attach" => "child" \in owners /\ persist
    /\ child \notin {"running", "dead"} => kids = "none"

\* The hand-over of a nested launch: the owning descriptor is in flight with its
\* message, the approval follows its receipt and the end of persistence, and
\* what the child does next follows the approval.
HandoverInv ==
    Nested =>
        /\ "message" \in owners => message = "jail"
        /\ message = "jail" => child \in {"approval", "dead"} /\ ~approval /\ jail # "none"
        /\ approval => child \in {"approval", "dead"} /\ ~persist
        /\ child \in Approved => ~persist /\ message # "jail" /\ "message" \notin owners
        /\ child \in Before =>
              ~approval /\ message = "none" /\ worker \in {"jail", "kill", "exit", "end"}
        /\ worker \in {"none", "receive", "fork"} =>
              child = "none" /\ message = "none" /\ ~approval
        /\ worker = "jail" => ~approval

\* What the worker knows of a launch whose jail it has taken over.
WorkerInv ==
    /\ worker \in {"clear", "approve"} => child \in {"approval", "dead"} /\ ~approval
    /\ worker \in {"clear", "approve", "ready", "tell", "wait", "close", "status"} =>
           /\ child \in {"approval", "dead"} \cup Approved
           /\ message # "jail" /\ jail # "none"
    /\ worker = "approve" => ~persist
    /\ worker \in {"close", "status"} => child = "dead"
    /\ worker = "status" \/ "status" \in replies => child = "dead" /\ jail = "removed"

StepInv ==
    /\ ModeInv
    /\ EntryInv
    /\ JailInv
    /\ HandoverInv
    /\ WorkerInv

IInv == TypeOK /\ StepInv

\* The i-th descriptor of the request is where map_nested_fds left it.
Mapped(i) == table[request.targets[i]] = SourceOf(i)

\* The standard descriptors that no target has replaced yet.
Kept(fd) == \A i \in 1..mapped : request.targets[i] # fd

\* The loops of map_nested_fds: every source has its number until it has a
\* duplicate, every duplicate until its target is made, at numbers above all
\* targets, so that no target is made over something still needed.
LoopInv ==
    /\ Len(dups) <= Len(request.targets)
    /\ mapped <= Len(dups) /\ (mapped > 0 => Len(dups) = Len(request.targets))
    /\ \A i \in 1..Len(dups) : AboveTargets(dups[i])
    /\ \A i, j \in 1..Len(dups) : dups[i] = dups[j] => i = j
    /\ mapped = 0 => \A i \in DOMAIN request.targets : table[SourceFds[i]] = SourceOf(i)
    /\ \A i \in mapped + 1 .. Len(dups) : table[dups[i]] = SourceOf(i)
    /\ \A i \in 1..mapped : Mapped(i)
    /\ \A fd \in 0..2 : Kept(fd) => table[fd] = Stdio

MapInv ==
    /\ child \in Before \cup {"none", "approval", "validate", "enter"} =>
           dups = <<>> /\ mapped = 0
    /\ Nested /\ child \in Before \cup {"approval"} => table = ForkedTable(request.targets)
    /\ Nested /\ child \in Approved => LoopInv
    /\ Nested /\ child \in Approved \ {"map"} => mapped = Len(request.targets)
    /\ Direct => dups = <<>> /\ mapped = 0
USE DEF clients, mapping, entry, prison, Nested, Direct

-------------------------------------------------------------------------------
(***************************************************************************)
(* The kernel's jail                                                       *)
(***************************************************************************)

\* After a step of a process the jail is as the step left it, with an owner and
\* a reason to be there ...
Stays(c, k, h, p, j) ==
    /\ jail' = j /\ j # "removed"
    /\ child' = c /\ kids' = k /\ owners' = h /\ persist' = p
    /\ j = "made" => h # {}

\* ... or it is gone with everything in it.
Goes(c, h, p, j) ==
    /\ jail' = "removed" /\ j # "none" /\ (j = "made" => h = {} \/ ~p)
    /\ child' = IF c \in Attached THEN "dead" ELSE c
    /\ kids' = "none" /\ owners' = {} /\ persist' = p

LEMMA SettleEffect ==
    ASSUME NEW c, NEW k, NEW h, NEW p, NEW j \in {"none", "made", "removed"},
           Settle(c, k, h, p, j)
    PROVE  Stays(c, k, h, p, j) \/ Goes(c, h, p, j)
  BY DEF Settle, Stays, Goes

\* A jail that was removed is gone.
LEMMA RemovedEffect ==
    ASSUME NEW c, NEW k, NEW h, NEW p, Settle(c, k, h, p, "removed")
    PROVE  Goes(c, h, p, "removed")
  BY DEF Settle, Goes

\* What the constants say of a request.
LEMMA RequestTypes ==
    ASSUME NEW r \in Requests
    PROVE  /\ r.mode \in {"direct", "nested"} /\ r.good \in BOOLEAN
           /\ r.targets \in Seq(Nat) /\ Len(r.targets) <= Len(SourceFds)
           /\ \A i, j \in DOMAIN r.targets : i # j => r.targets[i] # r.targets[j]
  BY LaunchAssumption

\* The child, or the direct helper, up to the approval.
LEMMA EntryStep ==
    ASSUME IInv,
           \/ Validate \/ SetupFails \/ OpenRoot \/ Chroot \/ CreateJail
           \/ AttachJail \/ SendJail \/ ReadApproval
    PROVE  StepInv'
<1> USE DEF StepInv, ModeInv, EntryInv, JailInv, HandoverInv, WorkerInv, Before, Approved,
            Attached, Setup
<1>1. /\ request.mode \in {"direct", "nested"} /\ jail \in {"none", "made", "removed"}
      /\ owners \subseteq {"child", "message", "worker"}
  BY RequestTypes DEF IInv, TypeOK
<1>2. StepInv
  BY DEF IInv
<1>3. CASE Validate
  <2>1. \/ request.good /\ \/ Stays("open", kids, owners, persist, jail)
                           \/ Goes("open", owners, persist, jail)
        \/ Stays("dead", kids, owners, persist, jail)
        \/ Goes("dead", owners, persist, jail)
    BY <1>3, <1>1, SettleEffect DEF Validate, ChildStep
  <2>2. ModeInv' /\ EntryInv'
    BY <1>3, <1>1, <1>2, <2>1 DEF Validate, Stays, Goes
  <2>3. JailInv'
    BY <1>3, <1>1, <1>2, <2>1 DEF Validate, Stays, Goes
  <2>4. HandoverInv' /\ WorkerInv'
    BY <1>3, <1>1, <1>2, <2>1 DEF Validate, Stays, Goes
  <2> QED  BY <2>2, <2>3, <2>4
<1>4. CASE SetupFails
  <2>1. \/ Stays("dead", kids, owners \ {"child"}, persist, jail)
        \/ Goes("dead", owners \ {"child"}, persist, jail)
    BY <1>4, <1>1, SettleEffect DEF SetupFails, ChildDies
  <2>2. ModeInv' /\ EntryInv'
    BY <1>4, <1>1, <1>2, <2>1 DEF SetupFails, Stays, Goes
  <2>3. JailInv'
    BY <1>4, <1>1, <1>2, <2>1 DEF SetupFails, Stays, Goes
  <2>4. HandoverInv' /\ WorkerInv'
    BY <1>4, <1>1, <1>2, <2>1 DEF SetupFails, Stays, Goes
  <2> QED  BY <2>2, <2>3, <2>4
<1>5. CASE OpenRoot
  <2>1. \/ Direct /\ rootAt = "valid" /\ \/ Stays("enter", kids, owners, persist, jail)
                                         \/ Goes("enter", owners, persist, jail)
        \/ Nested /\ rootAt = "valid" /\ \/ Stays("create", kids, owners, persist, jail)
                                         \/ Goes("create", owners, persist, jail)
        \/ Stays("dead", kids, owners \ {"child"}, persist, jail)
        \/ Goes("dead", owners \ {"child"}, persist, jail)
    BY <1>5, <1>1, SettleEffect DEF OpenRoot, ChildStep, ChildDies
  <2>2. ModeInv' /\ EntryInv'
    BY <1>5, <1>1, <1>2, <2>1 DEF OpenRoot, Stays, Goes
  <2>3. JailInv'
    BY <1>5, <1>1, <1>2, <2>1 DEF OpenRoot, Stays, Goes
  <2>4. HandoverInv' /\ WorkerInv'
    BY <1>5, <1>1, <1>2, <2>1 DEF OpenRoot, Stays, Goes
  <2> QED  BY <2>2, <2>3, <2>4
<1>6. CASE Chroot
  <2>1. \/ Stays("map", kids, owners, persist, jail)
        \/ Goes("map", owners, persist, jail)
    BY <1>6, <1>1, SettleEffect DEF Chroot, ChildStep
  <2>2. ModeInv' /\ EntryInv'
    BY <1>6, <1>1, <1>2, <2>1 DEF Chroot, Stays, Goes, EnterRoot
  <2>3. JailInv'
    BY <1>6, <1>1, <1>2, <2>1 DEF Chroot, Stays, Goes, EnterRoot
  <2>4. HandoverInv' /\ WorkerInv'
    BY <1>6, <1>1, <1>2, <2>1 DEF Chroot, Stays, Goes, EnterRoot
  <2> QED  BY <2>2, <2>3, <2>4
<1>7. CASE CreateJail
  <2>1. \/ Stays("attach", kids, {"child"}, TRUE, "made")
        \/ Goes("attach", {"child"}, TRUE, "made")
    BY <1>7, <1>1, SettleEffect DEF CreateJail
  <2>2. ModeInv' /\ EntryInv'
    BY <1>7, <1>1, <1>2, <2>1 DEF CreateJail, Stays, Goes, EnterRoot
  <2>3. JailInv'
    BY <1>7, <1>1, <1>2, <2>1 DEF CreateJail, Stays, Goes, EnterRoot
  <2>4. HandoverInv' /\ WorkerInv'
    BY <1>7, <1>1, <1>2, <2>1 DEF CreateJail, Stays, Goes, EnterRoot
  <2> QED  BY <2>2, <2>3, <2>4
<1>8. CASE AttachJail
  <2>1. \/ Stays("send", kids, owners, persist, jail)
        \/ Goes("send", owners, persist, jail)
        \/ Goes("dead", {}, persist, "removed")
    BY <1>8, <1>1, SettleEffect, RemovedEffect DEF AttachJail, ChildStep
  <2>2. ModeInv' /\ EntryInv'
    BY <1>8, <1>1, <1>2, <2>1 DEF AttachJail, Stays, Goes
  <2>3. JailInv'
    BY <1>8, <1>1, <1>2, <2>1 DEF AttachJail, Stays, Goes
  <2>4. HandoverInv' /\ WorkerInv'
    BY <1>8, <1>1, <1>2, <2>1 DEF AttachJail, Stays, Goes
  <2> QED  BY <2>2, <2>3, <2>4
<1>9. CASE SendJail
  <2>1. \/ /\ WorkerListens /\ message' = "jail"
           /\ \/ Stays("approval", kids, owners \cup {"message"}, persist, jail)
              \/ Goes("approval", owners \cup {"message"}, persist, jail)
        \/ UNCHANGED message /\ \/ Stays("dead", kids, owners \ {"child"}, persist, jail)
                                \/ Goes("dead", owners \ {"child"}, persist, jail)
    BY <1>9, <1>1, SettleEffect DEF SendJail, ChildDies
  <2>2. ModeInv' /\ EntryInv'
    BY <1>9, <1>1, <1>2, <2>1 DEF SendJail, Stays, Goes
  <2>3. JailInv'
    BY <1>9, <1>1, <1>2, <2>1 DEF SendJail, Stays, Goes
  <2>4. HandoverInv' /\ WorkerInv'
    BY <1>9, <1>1, <1>2, <2>1 DEF SendJail, Stays, Goes
  <2> QED  BY <2>2, <2>3, <2>4
<1>10. CASE ReadApproval
  <2>1. \/ approval /\ ~approval' /\ \/ Stays("map", kids, owners \ {"child"}, persist, jail)
                                     \/ Goes("map", owners \ {"child"}, persist, jail)
        \/ UNCHANGED approval /\ \/ Stays("dead", kids, owners \ {"child"}, persist, jail)
                                 \/ Goes("dead", owners \ {"child"}, persist, jail)
    BY <1>10, <1>1, SettleEffect DEF ReadApproval, ChildDies
  <2>2. ModeInv' /\ EntryInv'
    BY <1>10, <1>1, <1>2, <2>1 DEF ReadApproval, Stays, Goes
  <2>3. JailInv'
    BY <1>10, <1>1, <1>2, <2>1 DEF ReadApproval, Stays, Goes
  <2>4. HandoverInv' /\ WorkerInv'
    BY <1>10, <1>1, <1>2, <2>1 DEF ReadApproval, Stays, Goes
  <2> QED  BY <2>2, <2>3, <2>4
<1> QED  BY <1>3, <1>4, <1>5, <1>6, <1>7, <1>8, <1>9, <1>10

\* What follows: the mapping, the end of the privileges, the program.
LEMMA RunStep ==
    ASSUME IInv,
           \/ DuplicateSource \/ MakeTarget \/ MappingDone \/ DropCredentials
           \/ ReportStarted \/ Exec \/ ProgramRuns
    PROVE  StepInv'
<1> USE DEF StepInv, ModeInv, EntryInv, JailInv, HandoverInv, WorkerInv, Before, Approved,
            Attached, Setup
<1>1. /\ request.mode \in {"direct", "nested"} /\ jail \in {"none", "made", "removed"}
      /\ owners \subseteq {"child", "message", "worker"}
  BY RequestTypes DEF IInv, TypeOK
<1>2. StepInv
  BY DEF IInv
<1>3. CASE DuplicateSource
  <2>1. \/ Stays("map", kids, owners, persist, jail)
        \/ Goes("map", owners, persist, jail)
        \/ Stays("dead", kids, owners \ {"child"}, persist, jail)
        \/ Goes("dead", owners \ {"child"}, persist, jail)
    BY <1>3, <1>1, SettleEffect DEF DuplicateSource, ChildStep, ChildDies
  <2>2. ModeInv' /\ EntryInv'
    BY <1>3, <1>1, <1>2, <2>1 DEF DuplicateSource, Stays, Goes
  <2>3. JailInv'
    BY <1>3, <1>1, <1>2, <2>1 DEF DuplicateSource, Stays, Goes
  <2>4. HandoverInv' /\ WorkerInv'
    BY <1>3, <1>1, <1>2, <2>1 DEF DuplicateSource, Stays, Goes
  <2> QED  BY <2>2, <2>3, <2>4
<1>4. CASE MakeTarget
  <2>1. \/ Stays("map", kids, owners, persist, jail)
        \/ Goes("map", owners, persist, jail)
    BY <1>4, <1>1, SettleEffect DEF MakeTarget, ChildStep
  <2>2. ModeInv' /\ EntryInv'
    BY <1>4, <1>1, <1>2, <2>1 DEF MakeTarget, Stays, Goes
  <2>3. JailInv'
    BY <1>4, <1>1, <1>2, <2>1 DEF MakeTarget, Stays, Goes
  <2>4. HandoverInv' /\ WorkerInv'
    BY <1>4, <1>1, <1>2, <2>1 DEF MakeTarget, Stays, Goes
  <2> QED  BY <2>2, <2>3, <2>4
<1>5. CASE MappingDone
  <2>1. \/ Stays("drop", kids, owners, persist, jail)
        \/ Goes("drop", owners, persist, jail)
    BY <1>5, <1>1, SettleEffect DEF MappingDone, ChildStep
  <2>2. ModeInv' /\ EntryInv'
    BY <1>5, <1>1, <1>2, <2>1 DEF MappingDone, Stays, Goes
  <2>3. JailInv'
    BY <1>5, <1>1, <1>2, <2>1 DEF MappingDone, Stays, Goes
  <2>4. HandoverInv' /\ WorkerInv'
    BY <1>5, <1>1, <1>2, <2>1 DEF MappingDone, Stays, Goes
  <2> QED  BY <2>2, <2>3, <2>4
<1>6. CASE DropCredentials
  <2>1. \/ Stays("report", kids, owners, persist, jail)
        \/ Goes("report", owners, persist, jail)
    BY <1>6, <1>1, SettleEffect DEF DropCredentials, ChildStep
  <2>2. ModeInv' /\ EntryInv'
    BY <1>6, <1>1, <1>2, <2>1 DEF DropCredentials, Stays, Goes
  <2>3. JailInv'
    BY <1>6, <1>1, <1>2, <2>1 DEF DropCredentials, Stays, Goes
  <2>4. HandoverInv' /\ WorkerInv'
    BY <1>6, <1>1, <1>2, <2>1 DEF DropCredentials, Stays, Goes
  <2> QED  BY <2>2, <2>3, <2>4
<1>7. CASE ReportStarted
  <2>1. \/ message' \in {message, "started"} /\ \/ Stays("exec", kids, owners, persist, jail)
                                                \/ Goes("exec", owners, persist, jail)
        \/ UNCHANGED message /\ \/ Stays("dead", kids, owners \ {"child"}, persist, jail)
                                \/ Goes("dead", owners \ {"child"}, persist, jail)
    BY <1>7, <1>1, SettleEffect DEF ReportStarted, ChildStep, ChildDies
  <2>2. ModeInv' /\ EntryInv'
    BY <1>7, <1>1, <1>2, <2>1 DEF ReportStarted, Stays, Goes
  <2>3. JailInv'
    BY <1>7, <1>1, <1>2, <2>1 DEF ReportStarted, Stays, Goes
  <2>4. HandoverInv' /\ WorkerInv'
    BY <1>7, <1>1, <1>2, <2>1 DEF ReportStarted, Stays, Goes
  <2> QED  BY <2>2, <2>3, <2>4
<1>8. CASE Exec
  <2>1. \/ Stays("running", kids, owners, persist, jail)
        \/ Goes("running", owners, persist, jail)
    BY <1>8, <1>1, SettleEffect DEF Exec, ChildStep
  <2>2. ModeInv' /\ EntryInv'
    BY <1>8, <1>1, <1>2, <2>1 DEF Exec, Stays, Goes
  <2>3. JailInv'
    BY <1>8, <1>1, <1>2, <2>1 DEF Exec, Stays, Goes
  <2>4. HandoverInv' /\ WorkerInv'
    BY <1>8, <1>1, <1>2, <2>1 DEF Exec, Stays, Goes
  <2> QED  BY <2>2, <2>3, <2>4
<1>9. CASE ProgramRuns
  <2>1. \/ child = "running" /\ \/ Stays(child, "group", owners, persist, jail)
                                \/ Goes(child, owners, persist, jail)
        \/ kids = "group" /\ \/ Stays(child, "left", owners, persist, jail)
                             \/ Goes(child, owners, persist, jail)
        \/ Stays(child, "none", owners, persist, jail)
        \/ Goes(child, owners, persist, jail)
        \/ Stays("dead", kids, owners \ {"child"}, persist, jail)
        \/ Goes("dead", owners \ {"child"}, persist, jail)
    BY <1>9, <1>1, SettleEffect DEF ProgramRuns, ChildDies
  <2>2. ModeInv' /\ EntryInv'
    BY <1>9, <1>1, <1>2, <2>1 DEF ProgramRuns, Stays, Goes
  <2>3. JailInv'
    BY <1>9, <1>1, <1>2, <2>1 DEF ProgramRuns, Stays, Goes
  <2>4. HandoverInv' /\ WorkerInv'
    BY <1>9, <1>1, <1>2, <2>1 DEF ProgramRuns, Stays, Goes
  <2> QED  BY <2>2, <2>3, <2>4
<1> QED  BY <1>3, <1>4, <1>5, <1>6, <1>7, <1>8, <1>9

\* The worker, where it touches the jail.
LEMMA WorkerStep ==
    ASSUME IInv,
           \/ ReceiveJail \/ ClearPersistence \/ Approve \/ KillGroup \/ WaitFails
           \/ CloseOwner \/ ExitWorker \/ KillChild \/ WorkerKilled
    PROVE  StepInv'
<1> USE DEF StepInv, ModeInv, EntryInv, JailInv, HandoverInv, WorkerInv, Before, Approved,
            Attached, Setup
<1>1. /\ request.mode \in {"direct", "nested"} /\ jail \in {"none", "made", "removed"}
      /\ owners \subseteq {"child", "message", "worker"}
  BY RequestTypes DEF IInv, TypeOK
<1>2. StepInv
  BY DEF IInv
<1>3. CASE ReceiveJail
  <2>1. \/ /\ message = "jail" /\ message' = "none" /\ worker' = "clear"
           /\ \/ Stays(child, kids, (owners \ {"message"}) \cup {"worker"}, persist, jail)
              \/ Goes(child, (owners \ {"message"}) \cup {"worker"}, persist, jail)
        \/ worker' = "kill" /\ UNCHANGED message /\ UNCHANGED prison
    BY <1>3, <1>1, SettleEffect DEF ReceiveJail
  <2>2. ModeInv' /\ EntryInv'
    BY <1>3, <1>1, <1>2, <2>1 DEF ReceiveJail, Stays, Goes
  <2>3. JailInv'
    BY <1>3, <1>1, <1>2, <2>1 DEF ReceiveJail, Stays, Goes
  <2>4. HandoverInv' /\ WorkerInv'
    BY <1>3, <1>1, <1>2, <2>1 DEF ReceiveJail, Stays, Goes
  <2> QED  BY <2>2, <2>3, <2>4
<1>4. CASE ClearPersistence
  <2>1. \/ worker' = "approve" /\ \/ Stays(child, kids, owners, FALSE, jail)
                                  \/ Goes(child, owners, FALSE, jail)
        \/ worker' = "kill" /\ Goes(child, {}, persist, "removed")
    BY <1>4, <1>1, SettleEffect, RemovedEffect DEF ClearPersistence
  <2>2. ModeInv' /\ EntryInv'
    BY <1>4, <1>1, <1>2, <2>1 DEF ClearPersistence, Stays, Goes
  <2>3. JailInv'
    BY <1>4, <1>1, <1>2, <2>1 DEF ClearPersistence, Stays, Goes
  <2>4. HandoverInv' /\ WorkerInv'
    BY <1>4, <1>1, <1>2, <2>1 DEF ClearPersistence, Stays, Goes
  <2> QED  BY <2>2, <2>3, <2>4
<1>5. CASE Approve
  <2>1. \/ ChildListens /\ approval' /\ worker' = "ready" /\ UNCHANGED prison
        \/ worker' = "kill" /\ UNCHANGED approval /\ Goes(child, {}, persist, "removed")
    BY <1>5, <1>1, SettleEffect, RemovedEffect DEF Approve
  <2>2. ModeInv' /\ EntryInv'
    BY <1>5, <1>1, <1>2, <2>1 DEF Approve, Stays, Goes
  <2>3. JailInv'
    BY <1>5, <1>1, <1>2, <2>1 DEF Approve, Stays, Goes
  <2>4. HandoverInv' /\ WorkerInv'
    BY <1>5, <1>1, <1>2, <2>1 DEF Approve, Stays, Goes
  <2> QED  BY <2>2, <2>3, <2>4
<1>6. CASE KillGroup
  <2>1. \/ Stays("dead", IF kids = "group" THEN "none" ELSE kids, owners \ {"child"}, persist, jail)
        \/ Goes("dead", owners \ {"child"}, persist, jail)
    BY <1>6, <1>1, SettleEffect DEF KillGroup
  <2>2. ModeInv' /\ EntryInv'
    BY <1>6, <1>1, <1>2, <2>1 DEF KillGroup, Stays, Goes
  <2>3. JailInv'
    BY <1>6, <1>1, <1>2, <2>1 DEF KillGroup, Stays, Goes
  <2>4. HandoverInv' /\ WorkerInv'
    BY <1>6, <1>1, <1>2, <2>1 DEF KillGroup, Stays, Goes
  <2> QED  BY <2>2, <2>3, <2>4
<1>7. CASE WaitFails
  <2>1. \/ Stays(child, kids, owners \ {"worker"}, persist, jail)
        \/ Goes(child, owners \ {"worker"}, persist, jail)
    BY <1>7, <1>1, SettleEffect DEF WaitFails
  <2>2. ModeInv' /\ EntryInv'
    BY <1>7, <1>1, <1>2, <2>1 DEF WaitFails, Stays, Goes
  <2>3. JailInv'
    BY <1>7, <1>1, <1>2, <2>1 DEF WaitFails, Stays, Goes
  <2>4. HandoverInv' /\ WorkerInv'
    BY <1>7, <1>1, <1>2, <2>1 DEF WaitFails, Stays, Goes
  <2> QED  BY <2>2, <2>3, <2>4
<1>8. CASE CloseOwner
  <2>1. \/ Stays(child, kids, owners \ {"worker"}, persist, jail)
        \/ Goes(child, owners \ {"worker"}, persist, jail)
    BY <1>8, <1>1, SettleEffect DEF CloseOwner
  <2>2. ModeInv' /\ EntryInv'
    BY <1>8, <1>1, <1>2, <2>1 DEF CloseOwner, Stays, Goes
  <2>3. JailInv'
    BY <1>8, <1>1, <1>2, <2>1 DEF CloseOwner, Stays, Goes
  <2>4. HandoverInv'
    BY <1>8, <1>1, <1>2, <2>1 DEF CloseOwner, Stays, Goes
  <2>5. WorkerInv'
    BY <1>8, <1>1, <1>2, <2>1 DEF CloseOwner, Stays, Goes
  <2> QED  BY <2>2, <2>3, <2>4, <2>5
<1>9. CASE ExitWorker
  <2>1. \/ Stays(child, kids, owners \ {"worker", "message"}, persist, jail)
        \/ Goes(child, owners \ {"worker", "message"}, persist, jail)
    BY <1>9, <1>1, SettleEffect DEF ExitWorker
  <2>2. ModeInv' /\ EntryInv'
    BY <1>9, <1>1, <1>2, <2>1 DEF ExitWorker, Stays, Goes
  <2>3. JailInv'
    BY <1>9, <1>1, <1>2, <2>1 DEF ExitWorker, Stays, Goes
  <2>4. HandoverInv' /\ WorkerInv'
    BY <1>9, <1>1, <1>2, <2>1 DEF ExitWorker, Stays, Goes
  <2> QED  BY <2>2, <2>3, <2>4
<1>10. CASE KillChild
  <2>1. \/ Stays("dead", kids, owners \ {"worker", "child"}, persist, jail)
        \/ Goes("dead", owners \ {"worker", "child"}, persist, jail)
    BY <1>10, <1>1, SettleEffect DEF KillChild
  <2>2. ModeInv' /\ EntryInv'
    BY <1>10, <1>1, <1>2, <2>1 DEF KillChild, Stays, Goes
  <2>3. JailInv'
    BY <1>10, <1>1, <1>2, <2>1 DEF KillChild, Stays, Goes
  <2>4. HandoverInv' /\ WorkerInv'
    BY <1>10, <1>1, <1>2, <2>1 DEF KillChild, Stays, Goes
  <2> QED  BY <2>2, <2>3, <2>4
<1>11. CASE WorkerKilled
  <2>1. \/ Stays(child, kids, owners \ {"worker", "message"}, persist, jail)
        \/ Goes(child, owners \ {"worker", "message"}, persist, jail)
    BY <1>11, <1>1, SettleEffect DEF WorkerKilled
  <2>2. ModeInv' /\ EntryInv'
    BY <1>11, <1>1, <1>2, <2>1 DEF WorkerKilled, Stays, Goes, WorkerListens
  <2>3. JailInv'
    BY <1>11, <1>1, <1>2, <2>1 DEF WorkerKilled, Stays, Goes, WorkerListens
  <2>4. HandoverInv' /\ WorkerInv'
    BY <1>11, <1>1, <1>2, <2>1 DEF WorkerKilled, Stays, Goes, WorkerListens
  <2> QED  BY <2>2, <2>3, <2>4
<1> QED  BY <1>3, <1>4, <1>5, <1>6, <1>7, <1>8, <1>9, <1>10, <1>11

\* The steps that leave the jail and its processes alone, and the fork.
LEMMA QuietStep ==
    ASSUME IInv,
           \/ ClientNext \/ ReplaceRoot \/ Accept \/ ReceiveRequest \/ ForkChild
           \/ ReadStarted \/ WriteStarted \/ Reap \/ TerminateGroup \/ WriteStatus
           \/ UNCHANGED vars
    PROVE  StepInv'
<1> USE DEF StepInv, ModeInv, EntryInv, JailInv, HandoverInv, WorkerInv, Before, Approved,
            Attached, Setup
<1>1. /\ request.mode \in {"direct", "nested"} /\ jail \in {"none", "made", "removed"}
      /\ owners \subseteq {"child", "message", "worker"}
  BY RequestTypes DEF IInv, TypeOK
<1>2. StepInv
  BY DEF IInv
<1>3. CASE ClientNext
  BY <1>2, <1>3 DEF ClientNext, ClientSignalled, ClientKilled, ClientReads
<1>4. CASE ReplaceRoot
  BY <1>2, <1>4 DEF ReplaceRoot
<1>5. CASE Accept
  BY <1>1, <1>2, <1>5 DEF Accept
<1>6. CASE ReceiveRequest
  BY <1>1, <1>2, <1>6 DEF ReceiveRequest, ValidForPeer
<1>7. CASE ForkChild
  <2>1. \/ worker' = "jail" /\ Stays("open", kids, owners, persist, jail)
        \/ worker' = "jail" /\ Goes("open", owners, persist, jail)
        \/ worker' = "end" /\ UNCHANGED prison
    BY <1>7, <1>1, SettleEffect DEF ForkChild, ChildStep
  <2> QED
    BY <1>7, <1>1, <1>2, <2>1 DEF ForkChild, Stays, Goes
<1>8. CASE ReadStarted
  BY <1>1, <1>2, <1>8 DEF ReadStarted
<1>9. CASE WriteStarted
  BY <1>1, <1>2, <1>9 DEF WriteStarted
<1>10. CASE Reap
  BY <1>1, <1>2, <1>10 DEF Reap
<1>11. CASE TerminateGroup
  BY <1>1, <1>2, <1>11 DEF TerminateGroup
<1>12. CASE WriteStatus
  BY <1>1, <1>2, <1>12 DEF WriteStatus
<1>13. CASE UNCHANGED vars
  BY <1>2, <1>13 DEF vars
<1> QED
  BY <1>3, <1>4, <1>5, <1>6, <1>7, <1>8, <1>9, <1>10, <1>11, <1>12, <1>13

-------------------------------------------------------------------------------
(***************************************************************************)
(* Types                                                                   *)
(***************************************************************************)

Steps == Setup \cup {"none", "validate", "running", "dead"}
Contents == {Stdio, Lifecycle, Closed} \cup {SourceOf(i) : i \in DOMAIN SourceFds}

PrisonType ==
    /\ child \in Steps
    /\ jail \in {"none", "made", "removed"} /\ persist \in BOOLEAN
    /\ owners \subseteq {"child", "message", "worker"}
    /\ kids \in {"none", "group", "left"}

MappingType == table \in [Fd -> Contents] /\ dups \in Seq(Fd) /\ mapped \in Nat

PathType ==
    /\ request \in Requests
    /\ rootAt \in {"valid", "other"}
    /\ opened \in {"none", "valid", "other"} /\ inside \in {"host", "none", "valid", "other"}

PartyType ==
    /\ client \in {"started", "status", "done", "gone"}
    /\ replies \subseteq {"started", "status"}
    /\ worker \in {"none", "receive", "fork", "jail", "clear", "approve", "ready", "tell",
                   "wait", "close", "status", "kill", "exit", "end"}
    /\ message \in {"none", "jail", "started"}

FlagType ==
    /\ asked \in BOOLEAN /\ signalled \in BOOLEAN
    /\ dropped \in BOOLEAN /\ approval \in BOOLEAN

LEMMA TypeParts ==
    TypeOK <=> PrisonType /\ MappingType /\ PathType /\ PartyType /\ FlagType
  BY DEF TypeOK, PrisonType, MappingType, PathType, PartyType, FlagType, Steps, Contents

LEMMA SettleType ==
    ASSUME NEW c \in Steps, NEW k \in {"none", "group", "left"},
           NEW h \in SUBSET {"child", "message", "worker"}, NEW p \in BOOLEAN,
           NEW j \in {"none", "made", "removed"}, Settle(c, k, h, p, j)
    PROVE  PrisonType'
  BY DEF Settle, PrisonType, Steps

LEMMA PrisonTypeStep ==
    ASSUME PrisonType, [Next]_vars
    PROVE  PrisonType'
<1> USE DEF PrisonType
<1>s. /\ Setup \cup {"none", "validate", "running", "dead"} = Steps
      /\ \A c \in {"open", "enter", "create", "attach", "send", "approval", "map", "drop",
                   "report", "exec", "running", "dead"} : c \in Steps
  BY DEF Steps, Setup, Attached
<1>d. ChildDies => PrisonType'
  <2>1. "dead" \in Steps /\ owners \ {"child"} \in SUBSET {"child", "message", "worker"}
    BY <1>s
  <2> QED
    BY <2>1, SettleType DEF ChildDies
<1>c. ASSUME NEW c \in {"open", "enter", "create", "attach", "send", "approval", "map", "drop",
                   "report", "exec", "running", "dead"}, ChildStep(c)
      PROVE  PrisonType'
  BY <1>s, <1>c, SettleType DEF ChildStep
<1>1. CASE ChildNext
  <2>1. CASE Validate
    BY <2>1, <1>c DEF Validate
  <2>2. CASE OpenRoot
    BY <2>2, <1>c, <1>d DEF OpenRoot
  <2>3. CASE Chroot
    BY <2>3, <1>c DEF Chroot
  <2>4. CASE CreateJail
    BY <2>4, <1>s, SettleType DEF CreateJail
  <2>5. CASE AttachJail
    <3>1. CASE ChildStep("send")
      BY <3>1, <1>c
    <3>2. CASE Settle("dead", kids, {}, persist, "removed")
      BY <3>2, <1>s, SettleType
    <3> QED  BY <2>5, <3>1, <3>2 DEF AttachJail
  <2>6. CASE SendJail
    <3>1. CASE Settle("approval", kids, owners \cup {"message"}, persist, jail)
      BY <3>1, <1>s, SettleType
    <3> QED  BY <2>6, <3>1, <1>d DEF SendJail
  <2>7. CASE ReadApproval
    <3>1. CASE Settle("map", kids, owners \ {"child"}, persist, jail)
      BY <3>1, <1>s, SettleType
    <3> QED  BY <2>7, <3>1, <1>d DEF ReadApproval
  <2>8. CASE DuplicateSource
    BY <2>8, <1>c, <1>d DEF DuplicateSource
  <2>9. CASE MakeTarget
    BY <2>9, <1>c DEF MakeTarget
  <2>10. CASE MappingDone
    BY <2>10, <1>c DEF MappingDone
  <2>11. CASE DropCredentials
    BY <2>11, <1>c DEF DropCredentials
  <2>12. CASE ReportStarted
    BY <2>12, <1>c, <1>d DEF ReportStarted
  <2>13. CASE Exec
    BY <2>13, <1>c DEF Exec
  <2> QED
    BY <1>1, <2>1, <2>2, <2>3, <2>4, <2>5, <2>6, <2>7, <2>8, <2>9, <2>10, <2>11, <2>12, <2>13
    DEF ChildNext
<1>2. CASE ProgramRuns
  <2>1. CASE Settle(child, "group", owners, persist, jail)
    BY <2>1, SettleType
  <2>2. CASE Settle(child, "left", owners, persist, jail)
    BY <2>2, SettleType
  <2>3. CASE Settle(child, "none", owners, persist, jail)
    BY <2>3, SettleType
  <2> QED  BY <1>2, <2>1, <2>2, <2>3, <1>d DEF ProgramRuns
<1>3. CASE WorkerNext
  <2>1. CASE ForkChild
    BY <2>1, <1>c DEF ForkChild
  <2>2. CASE ReceiveJail
    <3>1. CASE Settle(child, kids, (owners \ {"message"}) \cup {"worker"}, persist, jail)
      BY <3>1, SettleType
    <3> QED  BY <2>2, <3>1 DEF ReceiveJail
  <2>3. CASE ClearPersistence \/ Approve
    <3>1. CASE Settle(child, kids, owners, FALSE, jail)
      BY <3>1, SettleType
    <3>2. CASE Settle(child, kids, {}, persist, "removed")
      BY <3>2, SettleType
    <3> QED  BY <2>3, <3>1, <3>2 DEF ClearPersistence, Approve
  <2>4. CASE KillGroup
    <3> DEFINE k == IF kids = "group" THEN "none" ELSE kids
    <3>1. k \in {"none", "group", "left"} /\ "dead" \in Steps
      BY <1>s
    <3>2. Settle("dead", k, owners \ {"child"}, persist, jail)
      BY <2>4 DEF KillGroup
    <3> HIDE DEF k
    <3> QED  BY <3>1, <3>2, SettleType
  <2>5. CASE CloseOwner
    BY <2>5, SettleType DEF CloseOwner
  <2>6. CASE KillChild
    BY <2>6, <1>s, SettleType DEF KillChild
  <2>7. CASE ExitWorker
    BY <2>7, SettleType DEF ExitWorker
  <2>8. CASE \/ Accept \/ ReceiveRequest \/ ReadStarted \/ WriteStarted \/ Reap
             \/ TerminateGroup \/ WriteStatus
    BY <2>8
    DEF Accept, ReceiveRequest, ValidForPeer, ReadStarted, WriteStarted, Reap, TerminateGroup, WriteStatus
  <2> QED
    BY <1>3, <2>1, <2>2, <2>3, <2>4, <2>5, <2>6, <2>7, <2>8 DEF WorkerNext
<1>4. CASE ClientNext
  BY <1>4 DEF ClientNext, ClientSignalled, ClientKilled, ClientReads
<1>5. CASE Failures
  <2>1. CASE SetupFails
    BY <2>1, <1>d DEF SetupFails
  <2>2. CASE WaitFails
    BY <2>2, SettleType DEF WaitFails
  <2>3. CASE WorkerKilled
    BY <2>3, SettleType DEF WorkerKilled
  <2>4. CASE ReplaceRoot
    BY <2>4 DEF ReplaceRoot
  <2> QED  BY <1>5, <2>1, <2>2, <2>3, <2>4 DEF Failures
<1>6. CASE UNCHANGED vars
  BY <1>6 DEF vars
<1> QED
  BY <1>1, <1>2, <1>3, <1>4, <1>5, <1>6 DEF Next

LEMMA ForkedType ==
    ASSUME NEW targets \in Seq(Nat), Len(targets) <= Len(SourceFds)
    PROVE  ForkedTable(targets) \in [Fd -> Contents]
<1>1. DOMAIN targets \subseteq DOMAIN SourceFds
  BY LaunchAssumption
<1> QED
  BY <1>1 DEF ForkedTable, Contents

\* The steps that change the child's descriptors.
LEMMA MappingSteps ==
    ASSUME [Next]_vars
    PROVE  DuplicateSource \/ MakeTarget \/ ForkChild \/ UNCHANGED mapping
  BY DEF Next, vars, ChildNext, Validate, OpenRoot, Chroot, CreateJail, AttachJail,
     SendJail, ReadApproval, MappingDone, DropCredentials, ReportStarted, Exec, WorkerNext,
     Accept, ReceiveRequest, ValidForPeer, ReceiveJail, ClearPersistence, Approve, ReadStarted,
     WriteStarted, Reap, TerminateGroup, KillGroup, CloseOwner, WriteStatus, KillChild,
     ExitWorker, ClientNext, ClientSignalled, ClientKilled, ClientReads, ProgramRuns,
     Failures, SetupFails, WaitFails, WorkerKilled, ReplaceRoot

LEMMA MappingTypeStep ==
    ASSUME MappingType, request \in Requests, [Next]_vars
    PROVE  MappingType'
<1> USE DEF MappingType
<1>1. CASE DuplicateSource
  <2>1. Len(dups) < Len(SourceFds)
    BY <1>1, RequestTypes, LaunchAssumption DEF DuplicateSource, Targets
  <2>2. SourceFds[Len(dups) + 1] \in Fd
    BY <2>1, LaunchAssumption
  <2>3. CASE FreeFds = {}
    BY <1>1, <2>3 DEF DuplicateSource
  <2>4. CASE FreeFds # {}
    <3>1. PICK fd \in FreeFds :
             /\ table' = [table EXCEPT ![fd] = table[SourceFds[Len(dups) + 1]]]
             /\ dups' = Append(dups, fd)
      BY <1>1, <2>4 DEF DuplicateSource
    <3>2. fd \in Fd
      BY DEF FreeFds
    <3> QED  BY <1>1, <2>2, <3>1, <3>2 DEF DuplicateSource
  <2> QED  BY <2>3, <2>4
<1>2. CASE MakeTarget
  <2>1. dups[mapped + 1] \in Fd
    BY <1>2 DEF MakeTarget
  <2>2. Closed \in Contents
    BY DEF Contents
  <2> QED  BY <1>2, <2>1, <2>2 DEF MakeTarget
<1>3. CASE ForkChild
  BY <1>3, RequestTypes, ForkedType DEF ForkChild
<1>4. CASE UNCHANGED mapping
  BY <1>4
<1> QED
  BY MappingSteps, <1>1, <1>2, <1>3, <1>4

LEMMA PathTypeStep ==
    ASSUME PathType, [Next]_vars
    PROVE  PathType'
<1> USE DEF PathType
<1>1. CASE ChildNext
  BY <1>1 DEF ChildNext, Validate, OpenRoot, Chroot, CreateJail, AttachJail, SendJail,
     ReadApproval, DuplicateSource, MakeTarget, MappingDone, DropCredentials, ReportStarted,
     Exec, EnterRoot
<1>2. CASE WorkerNext
  BY <1>2 DEF WorkerNext, Accept, ReceiveRequest, ValidForPeer, ForkChild, ReceiveJail, ClearPersistence,
     Approve, ReadStarted, WriteStarted, Reap, TerminateGroup, KillGroup, CloseOwner,
     WriteStatus, KillChild, ExitWorker
<1>3. CASE ClientNext
  BY <1>3 DEF ClientNext, ClientSignalled, ClientKilled, ClientReads
<1>4. CASE ProgramRuns \/ Failures
  BY <1>4 DEF ProgramRuns, Failures, SetupFails, WaitFails, WorkerKilled, ReplaceRoot
<1>5. CASE UNCHANGED vars
  BY <1>5 DEF vars
<1> QED
  BY <1>1, <1>2, <1>3, <1>4, <1>5 DEF Next

LEMMA FlagTypeStep ==
    ASSUME FlagType, [Next]_vars
    PROVE  FlagType'
<1> USE DEF FlagType
<1>1. CASE ChildNext
  BY <1>1 DEF ChildNext, Validate, OpenRoot, Chroot, CreateJail, AttachJail, SendJail,
     ReadApproval, DuplicateSource, MakeTarget, MappingDone, DropCredentials, ReportStarted,
     Exec
<1>2. CASE WorkerNext
  BY <1>2 DEF WorkerNext, Accept, ReceiveRequest, ValidForPeer, ForkChild, ReceiveJail, ClearPersistence,
     Approve, ReadStarted, WriteStarted, Reap, TerminateGroup, KillGroup, CloseOwner,
     WriteStatus, KillChild, ExitWorker
<1>3. CASE ClientNext
  BY <1>3 DEF ClientNext, ClientSignalled, ClientKilled, ClientReads
<1>4. CASE ProgramRuns \/ Failures
  BY <1>4 DEF ProgramRuns, Failures, SetupFails, WaitFails, WorkerKilled, ReplaceRoot
<1>5. CASE UNCHANGED vars
  BY <1>5 DEF vars
<1> QED
  BY <1>1, <1>2, <1>3, <1>4, <1>5 DEF Next

LEMMA PartyTypeStep ==
    ASSUME PartyType, [Next]_vars
    PROVE  PartyType'
<1> USE DEF PartyType
<1>1. CASE ChildNext
  BY <1>1 DEF ChildNext, Validate, OpenRoot, Chroot, CreateJail, AttachJail, SendJail,
     ReadApproval, DuplicateSource, MakeTarget, MappingDone, DropCredentials, ReportStarted,
     Exec, EnterRoot
<1>2. CASE WorkerNext
  <2>1. CASE \/ Accept \/ ReceiveRequest \/ ForkChild \/ ReceiveJail \/ ClearPersistence
             \/ Approve \/ ReadStarted \/ WriteStarted
    BY <2>1 DEF Accept, ReceiveRequest, ValidForPeer, ForkChild, ReceiveJail, ClearPersistence, Approve,
       ReadStarted, WriteStarted
  <2>2. CASE \/ Reap \/ TerminateGroup \/ KillGroup \/ CloseOwner \/ WriteStatus \/ KillChild
             \/ ExitWorker
    BY <2>2 DEF Reap, TerminateGroup, KillGroup, CloseOwner, WriteStatus, KillChild, ExitWorker
  <2> QED  BY <1>2, <2>1, <2>2 DEF WorkerNext
<1>3. CASE ClientNext
  BY <1>3 DEF ClientNext, ClientSignalled, ClientKilled, ClientReads
<1>4. CASE ProgramRuns \/ Failures
  BY <1>4 DEF ProgramRuns, Failures, SetupFails, WaitFails, WorkerKilled, ReplaceRoot
<1>5. CASE UNCHANGED vars
  BY <1>5 DEF vars
<1> QED
  BY <1>1, <1>2, <1>3, <1>4, <1>5 DEF Next

-------------------------------------------------------------------------------
(***************************************************************************)
(* The launch                                                              *)
(***************************************************************************)

\* How far the child and the worker have come is consistent with the jail, its
\* owners and the messages between them, at every point of a launch.
THEOREM Invariance == Spec => []IInv
<1>1. Init => IInv
  <2> SUFFICES ASSUME Init PROVE IInv
    OBVIOUS
  <2>1. request.mode \in {"direct", "nested"}
    BY RequestTypes DEF Init
  <2>2. PrisonType
    BY <2>1 DEF Init, PrisonType, Steps
  <2>3. MappingType
    <3>1. <<>> \in Seq(Nat) /\ Len(<<>>) <= Len(SourceFds)
      BY LaunchAssumption
    <3>2. ForkedTable(<<>>) \in [Fd -> Contents]
      BY <3>1, ForkedType
    <3>3. <<>> \in Seq(Fd) /\ 0 \in Nat
      OBVIOUS
    <3> QED  BY <3>2, <3>3 DEF Init, MappingType
  <2>4. PartyType /\ PathType
    BY <2>1 DEF Init, PartyType, PathType
  <2>p. FlagType
    BY DEF Init, FlagType
  <2>5. StepInv
    BY <2>1
    DEF Init, StepInv, ModeInv, EntryInv, JailInv, HandoverInv, WorkerInv, Before, Approved,
        Attached, Setup
  <2> QED  BY <2>2, <2>3, <2>4, <2>p, <2>5, TypeParts DEF IInv
<1>2. IInv /\ [Next]_vars => IInv'
  <2> SUFFICES ASSUME IInv, [Next]_vars PROVE IInv'
    OBVIOUS
  <2>1. PrisonType /\ MappingType /\ PathType /\ PartyType /\ FlagType /\ request \in Requests
    BY TypeParts DEF IInv, PathType
  <2>2. PrisonType' /\ MappingType' /\ PathType' /\ PartyType' /\ FlagType'
    BY <2>1, PrisonTypeStep, MappingTypeStep, PathTypeStep, PartyTypeStep, FlagTypeStep
  <2>3. TypeOK'
    BY <2>2, TypeParts, PTL
  <2>4. StepInv'
    BY EntryStep, RunStep, WorkerStep, QuietStep DEF Next, ChildNext, WorkerNext, Failures
  <2> QED  BY <2>3, <2>4 DEF IInv
<1> QED  BY <1>1, <1>2, PTL DEF Spec

\* Every variable keeps its type in every state of a launch.
THEOREM TypeCorrect == Spec => []TypeOK
<1>1. IInv => TypeOK
  BY DEF IInv
<1> QED  BY <1>1, Invariance, PTL

\* A program is run only in the root that was validated and without privileges,
\* and a nested one only in a jail that goes away with the worker that took it
\* over, whatever the client, the worker and the sandbox root go through
\* (execute_with_mappings, serve_nested_request).
THEOREM ProgramsConfined == Spec => []Confined
<1>1. IInv => Confined
  <2> SUFFICES ASSUME IInv, child = "running"
               PROVE  /\ request.good /\ inside = "valid" /\ dropped
                      /\ request.mode = "nested" =>
                            jail = "made" /\ ~persist /\ owners = {"worker"}
    BY DEF Confined
  <2>1. request.good /\ inside = "valid" /\ dropped
    BY DEF IInv, StepInv, EntryInv, Approved
  <2>2. ASSUME request.mode = "nested"
        PROVE  jail = "made" /\ ~persist /\ owners = {"worker"}
    <3>1. jail = "made" /\ ~persist /\ owners # {}
      BY <2>2 DEF IInv, StepInv, JailInv, HandoverInv, Approved, Attached
    <3>2. "child" \notin owners /\ "message" \notin owners
      BY <2>2 DEF IInv, StepInv, JailInv, HandoverInv, Approved
    <3>3. owners \subseteq {"child", "message", "worker"}
      BY DEF IInv, TypeOK
    <3> QED  BY <3>1, <3>2, <3>3
  <2> QED  BY <2>1, <2>2
<1> QED  BY <1>1, Invariance, PTL

\* A client that has the status finds no process and no jail of the launch left
\* (drop(owner) before write_status in serve_nested_request).
THEOREM StatusComesLast == Spec => []StatusLast
<1>1. IInv => StatusLast
  BY DEF IInv, StepInv, WorkerInv, JailInv, StatusLast
<1> QED  BY <1>1, Invariance, PTL

-------------------------------------------------------------------------------
(***************************************************************************)
(* The mapping of the descriptors                                          *)
(***************************************************************************)

Early == Before \cup {"none", "approval", "validate", "enter"}

LEMMA SettledChild ==
    ASSUME NEW c, NEW k, NEW h, NEW p, NEW j, Settle(c, k, h, p, j)
    PROVE  child' \in {c, "dead"}
  BY DEF Settle

\* Received descriptors are where they arrived, standard ones where they belong.
LEMMA ForkedContents ==
    ASSUME NEW targets \in Seq(Nat), Len(targets) <= Len(SourceFds)
    PROVE  /\ \A i \in DOMAIN targets : ForkedTable(targets)[SourceFds[i]] = SourceOf(i)
           /\ \A fd \in 0..2 : ForkedTable(targets)[fd] = Stdio
<1>1. DOMAIN targets \subseteq DOMAIN SourceFds
  BY LaunchAssumption
<1>2. ASSUME NEW i \in DOMAIN targets
      PROVE  ForkedTable(targets)[SourceFds[i]] = SourceOf(i)
  <2>1. SourceFds[i] \in Fd /\ SourceFds[i] \notin 0..2 /\ SourceFds[i] # LifeFd
    BY <1>1, <1>2, LaunchAssumption
  <2>2. (CHOOSE j \in DOMAIN targets : SourceFds[j] = SourceFds[i]) = i
    BY <1>1, <1>2, LaunchAssumption
  <2> QED  BY <1>2, <2>1, <2>2 DEF ForkedTable
<1>3. ASSUME NEW fd \in 0..2
      PROVE  ForkedTable(targets)[fd] = Stdio
  BY <1>3, LaunchAssumption DEF ForkedTable
<1> QED  BY <1>2, <1>3

\* Where the child comes from, in the steps that leave the mapping alone.
LEMMA ChildMoves ==
    ASSUME StepInv, request.mode \in {"direct", "nested"}, Next, UNCHANGED mapping
    PROVE  /\ request' = request
           /\ \/ child' \in {child, "dead"}
              \/ child \in Early \ {"none"} /\ child' \in Early \ {"none"}
              \/ ForkChild
              \/ DuplicateSource
              \/ MakeTarget
              \/ child \in {"approval", "enter"} /\ child' = "map"
              \/ child = "map" /\ child' = "drop" /\ MappingDone
              \/ child \in Approved \ {"map"} /\ child' \in Approved \ {"map"}
<1> DEFINE Goal == /\ request' = request
                   /\ \/ child' \in {child, "dead"}
                      \/ child \in Early \ {"none"} /\ child' \in Early \ {"none"}
                      \/ ForkChild
                      \/ DuplicateSource
                      \/ MakeTarget
                      \/ child \in {"approval", "enter"} /\ child' = "map"
                      \/ child = "map" /\ child' = "drop" /\ MappingDone
                      \/ child \in Approved \ {"map"} /\ child' \in Approved \ {"map"}
<1> SUFFICES Goal
  OBVIOUS
<1>1. CASE \/ Validate \/ OpenRoot \/ Chroot \/ CreateJail \/ AttachJail
  BY <1>1, SettledChild
  DEF Validate, OpenRoot, Chroot, CreateJail, AttachJail, ChildStep, ChildDies, Early, Before
<1>2. CASE SendJail \/ ReadApproval
  BY <1>2, SettledChild
  DEF SendJail, ReadApproval, ChildStep, ChildDies, Early, Before
<1>3. CASE DuplicateSource \/ MakeTarget \/ MappingDone
  BY <1>3, SettledChild DEF DuplicateSource, MakeTarget, MappingDone, ChildStep
<1>4. CASE DropCredentials \/ ReportStarted \/ Exec
  BY <1>4, SettledChild
  DEF DropCredentials, ReportStarted, Exec, ChildStep, ChildDies, Approved
<1>5. CASE WorkerNext
  BY <1>5, SettledChild
  DEF WorkerNext, Accept, ReceiveRequest, ValidForPeer, ForkChild, ReceiveJail, ClearPersistence, Approve,
      ReadStarted, WriteStarted, Reap, TerminateGroup, KillGroup, CloseOwner, WriteStatus,
      KillChild, ExitWorker
<1>6. CASE ClientNext
  BY <1>6 DEF ClientNext, ClientSignalled, ClientKilled, ClientReads
<1>7. CASE ProgramRuns
  BY <1>7, SettledChild DEF ProgramRuns, ChildDies
<1>8. CASE Failures
  BY <1>8, SettledChild
  DEF Failures, SetupFails, WaitFails, WorkerKilled, ReplaceRoot, ChildDies
<1> QED
  BY <1>1, <1>2, <1>3, <1>4, <1>5, <1>6, <1>7, <1>8 DEF Next, ChildNext

\* The first loop: a duplicate is made at a number nothing else has, above all
\* targets.
LEMMA DuplicateStep ==
    ASSUME IInv, MapInv, Nested, DuplicateSource
    PROVE  MapInv'
<1> DEFINE targets == request.targets
           n == Len(dups)
<1>1. /\ targets \in Seq(Nat) /\ Len(targets) <= Len(SourceFds)
      /\ table \in [Fd -> Contents] /\ dups \in Seq(Fd) /\ mapped \in Nat
  BY RequestTypes, TypeParts DEF IInv, MappingType, PathType
<1>2. Targets = targets /\ request' = request /\ mapped' = mapped /\ child = "map"
  BY DEF Targets, DuplicateSource
<1>3. LoopInv
  BY <1>2 DEF MapInv, Approved
<1>4. mapped = 0 /\ n < Len(targets)
  BY <1>1, <1>2, <1>3 DEF LoopInv, DuplicateSource
<1>5. CASE FreeFds = {}
  <2>1. child' = "dead"
    BY <1>5, SettledChild DEF DuplicateSource, ChildDies
  <2> QED
    BY <1>2, <2>1 DEF MapInv, Before, Approved
<1>6. CASE FreeFds # {}
  <2>1. PICK fd \in FreeFds : /\ table' = [table EXCEPT ![fd] = table[SourceFds[n + 1]]]
                              /\ dups' = Append(dups, fd)
    BY <1>6 DEF DuplicateSource
  <2>2. child' \in {"map", "dead"}
    BY <1>6, SettledChild DEF DuplicateSource, ChildStep
  <2>3. fd \in Fd /\ fd \in Nat /\ AboveTargets(fd) /\ table[fd] = Closed
    BY LaunchAssumption DEF FreeFds
  <2>4. \A i : SourceOf(i) # Closed
    BY DEF SourceOf, Closed
  <2>5. \A i \in DOMAIN targets : SourceFds[i] \in Fd /\ SourceFds[i] # fd
                                  /\ table[SourceFds[i]] = SourceOf(i)
    BY <1>1, <1>3, <1>4, <2>3, <2>4, LaunchAssumption DEF LoopInv
  <2>6. \A i \in 1..n : dups[i] \in Fd /\ dups[i] # fd /\ table[dups[i]] = SourceOf(i)
    BY <1>1, <1>3, <1>4, <2>3, <2>4 DEF LoopInv
  <2>7. /\ table'[fd] = SourceOf(n + 1)
        /\ \A other \in Fd : other # fd => table'[other] = table[other]
    <3>1. n + 1 \in DOMAIN targets
      BY <1>1, <1>4
    <3>2. table[SourceFds[n + 1]] = SourceOf(n + 1)
      BY <2>5, <3>1
    <3> QED  BY <1>1, <2>1, <2>3, <3>2
  <2>8. /\ Len(dups') = n + 1 /\ dups'[n + 1] = fd
        /\ \A i \in 1..n : dups'[i] = dups[i]
    BY <1>1, <2>1, <2>3
  <2>9. LoopInv'
    <3>1. Len(dups') <= Len(targets) /\ mapped' = 0
      BY <1>1, <1>2, <1>4, <2>8
    <3>2. \A i \in 1..Len(dups') : AboveTargets(dups'[i])
      BY <1>1, <1>3, <2>3, <2>8 DEF LoopInv
    <3>3. \A i, j \in 1..Len(dups') : dups'[i] = dups'[j] => i = j
      BY <1>1, <1>3, <2>6, <2>8 DEF LoopInv
    <3>4. \A i \in DOMAIN targets : table'[SourceFds[i]] = SourceOf(i)
      BY <2>5, <2>7
    <3>5. \A i \in 1..Len(dups') : table'[dups'[i]] = SourceOf(i)
      BY <1>1, <2>6, <2>7, <2>8
    <3>6. \A x \in 0..2 : table'[x] = Stdio
      <4>1. \A x \in 0..2 : table[x] = Stdio /\ x \in Fd /\ x # fd
        BY <1>3, <1>4, <2>3, LaunchAssumption DEF LoopInv, Kept, AboveTargets
      <4> QED  BY <4>1, <2>7
    <3>7. \A i \in 1..Len(dups') : AboveTargets(dups[i])' = AboveTargets(dups'[i])
      BY <1>2 DEF AboveTargets, Targets
    <3> QED
      BY <1>1, <1>2, <3>1, <3>2, <3>3, <3>4, <3>5, <3>6, <3>7 DEF LoopInv
  <2> QED
    BY <1>2, <2>2, <2>9 DEF MapInv, Before, Approved
<1> QED  BY <1>5, <1>6

\* The second loop: a target is made over nothing that is still needed.
LEMMA TargetStep ==
    ASSUME IInv, MapInv, Nested, MakeTarget
    PROVE  MapInv'
<1> DEFINE targets == request.targets
           m == mapped + 1
<1>1. /\ targets \in Seq(Nat) /\ Len(targets) <= Len(SourceFds)
      /\ table \in [Fd -> Contents] /\ dups \in Seq(Fd) /\ mapped \in Nat
      /\ \A i, j \in DOMAIN targets : i # j => targets[i] # targets[j]
  BY RequestTypes, TypeParts DEF IInv, MappingType, PathType
<1>2. /\ Targets = targets /\ request' = request /\ mapped' = m /\ child = "map"
      /\ dups' = dups
  BY DEF Targets, MakeTarget
<1>3. LoopInv
  BY <1>2 DEF MapInv, Approved
<1>4. Len(dups) = Len(targets) /\ m \in 1..Len(targets)
  BY <1>1, <1>2 DEF MakeTarget
<1>5. \A i \in 1..Len(dups) : /\ dups[i] \in Fd /\ dups[i] \in Nat /\ dups[i] >= 3
                              /\ \A j \in 1..Len(targets) : targets[j] < dups[i]
  <2>1. \A i \in 1..Len(dups) : dups[i] \in Fd /\ dups[i] \in Nat
    <3>1. Fd \subseteq Nat /\ dups \in Seq(Fd)
      BY <1>1, LaunchAssumption
    <3>2. \A i \in 1..Len(dups) : dups[i] \in Fd
      BY <3>1
    <3> QED  BY <3>1, <3>2
  <2> QED
    BY <1>1, <1>2, <1>3, <2>1 DEF LoopInv, AboveTargets
<1>6. targets[m] \in Fd /\ dups[m] \in Fd /\ targets[m] # dups[m]
  <2>1. dups[m] \in Fd /\ dups[m] \in Nat /\ targets[m] \in 0..dups[m] /\ targets[m] # dups[m]
    BY <1>1, <1>4, <1>5
  <2> QED  BY <2>1, LaunchAssumption
<1>7. /\ table'[targets[m]] = SourceOf(m)
      /\ \A x \in Fd \ {targets[m], dups[m]} : table'[x] = table[x]
  <2>1. table[dups[m]] = SourceOf(m)
    BY <1>1, <1>3, <1>4 DEF LoopInv
  <2>2. table' = [table EXCEPT ![targets[m]] = table[dups[m]], ![dups[m]] = Closed]
    BY <1>2 DEF MakeTarget
  <2> HIDE DEF targets, m
  <2> QED  BY <1>1, <1>6, <2>1, <2>2
<1>8. \A i \in m + 1 .. Len(dups) : table'[dups[i]] = SourceOf(i)
  <2> SUFFICES ASSUME NEW i \in m + 1 .. Len(dups)
               PROVE  table'[dups[i]] = SourceOf(i)
    OBVIOUS
  <2>1. i \in 1..Len(dups) /\ i # m /\ i \in mapped + 1 .. Len(dups)
    BY <1>1, <1>4
  <2>2. dups[i] # dups[m] /\ table[dups[i]] = SourceOf(i)
    BY <1>3, <1>4, <2>1 DEF LoopInv
  <2>3. dups[i] \in Fd /\ dups[i] # targets[m]
    BY <1>1, <1>4, <1>5, <2>1
  <2> QED  BY <1>7, <2>2, <2>3
<1>9. \A i \in 1..m : table'[targets[i]] = SourceOf(i)
  <2> SUFFICES ASSUME NEW i \in 1..m, i # m
               PROVE  table'[targets[i]] = SourceOf(i)
    BY <1>7
  <2>1. i \in 1..mapped /\ i \in 1..Len(targets)
    BY <1>1, <1>4
  <2>2. targets[i] # targets[m] /\ targets[i] # dups[m] /\ table[targets[i]] = SourceOf(i)
    BY <1>1, <1>3, <1>4, <1>5, <2>1 DEF LoopInv, Mapped
  <2>3. targets[i] \in Fd
    <3>1. dups[m] \in Fd /\ targets[i] \in 0..dups[m]
      BY <1>1, <1>4, <1>5, <2>1
    <3> QED  BY <3>1, LaunchAssumption
  <2> QED  BY <1>7, <2>2, <2>3
<1>10. ASSUME NEW x \in 0..2, \A i \in 1..m : targets[i] # x
       PROVE  table'[x] = Stdio
  <2>1. x # targets[m] /\ x # dups[m] /\ x \in Fd
    BY <1>1, <1>4, <1>5, <1>10, LaunchAssumption
  <2>2. table[x] = Stdio
    BY <1>1, <1>3, <1>10 DEF LoopInv, Kept
  <2> QED  BY <1>7, <2>1, <2>2
<1>11. LoopInv'
  <2>1. \A i \in 1..Len(dups) : AboveTargets(dups[i])'
    BY <1>2, <1>3 DEF LoopInv, AboveTargets, Targets
  <2>2. \A i, j \in 1..Len(dups) : dups[i] = dups[j] => i = j
    BY <1>3 DEF LoopInv
  <2> QED
    BY <1>1, <1>2, <1>4, <1>8, <1>9, <1>10, <2>1, <2>2 DEF LoopInv, Mapped, Kept
<1>12. child' \in {"map", "dead"}
  BY SettledChild DEF MakeTarget, ChildStep
<1> QED
  BY <1>2, <1>11, <1>12 DEF MapInv, Before, Approved

\* Every other step: the loops start from the descriptors as they arrived, and
\* end when all targets are made.
LEMMA MapStep ==
    ASSUME IInv, MapInv, [Next]_vars
    PROVE  MapInv'
<1>1. /\ request.mode \in {"direct", "nested"}
      /\ request.targets \in Seq(Nat) /\ Len(request.targets) <= Len(SourceFds)
      /\ dups \in Seq(Fd) /\ mapped \in Nat
  BY RequestTypes, TypeParts DEF IInv, MappingType, PathType
<1>2. CASE DuplicateSource
  <2>1. Nested
    BY <1>1, <1>2 DEF DuplicateSource, Targets, MapInv
  <2> QED  BY <1>2, <2>1, DuplicateStep
<1>3. CASE MakeTarget
  <2>1. Nested
    BY <1>1, <1>3 DEF MakeTarget, Targets, MapInv
  <2> QED  BY <1>3, <2>1, TargetStep
<1>4. CASE ForkChild
  <2>1. child = "none" /\ Nested
    BY <1>1, <1>4 DEF ForkChild, IInv, StepInv, HandoverInv, ModeInv
  <2>2. \/ table' = ForkedTable(request.targets) /\ child' \in {"open", "dead"}
        \/ UNCHANGED <<table, child>>
    BY <1>4, SettledChild DEF ForkChild, ChildStep
  <2>3. dups = <<>> /\ mapped = 0 /\ UNCHANGED <<request, dups, mapped>>
    BY <1>4, <2>1 DEF ForkChild, MapInv
  <2> QED
    BY <2>1, <2>2, <2>3 DEF MapInv, Before, Approved
<1>5. ASSUME UNCHANGED <<request, mapping>>, LoopInv
      PROVE  LoopInv'
  BY <1>5 DEF LoopInv, Mapped, Kept, AboveTargets, Targets
<1>6. CASE UNCHANGED vars
  BY <1>5, <1>6 DEF vars, MapInv
<1>7. ASSUME Next, UNCHANGED mapping, ~ForkChild, ~DuplicateSource, ~MakeTarget
      PROVE  MapInv'
  <2>1. /\ request' = request
        /\ \/ child' \in {child, "dead"}
           \/ child \in Early \ {"none"} /\ child' \in Early \ {"none"}
           \/ child \in {"approval", "enter"} /\ child' = "map"
           \/ child = "map" /\ child' = "drop" /\ MappingDone
           \/ child \in Approved \ {"map"} /\ child' \in Approved \ {"map"}
    BY <1>1, <1>7, ChildMoves DEF IInv
  <2>2. CASE child' \in {child, "dead"}
    BY <1>5, <1>7, <2>1, <2>2 DEF MapInv, Before, Approved
  <2>3. CASE child \in Early \ {"none"} /\ child' \in Early \ {"none"}
    <3>1. Nested => child \in Before \cup {"approval"}
      BY <2>3 DEF IInv, StepInv, ModeInv, Early
    <3> QED
      BY <1>7, <2>1, <2>3, <3>1 DEF MapInv, Before, Approved, Early
  <2>4. CASE child \in {"approval", "enter"} /\ child' = "map"
    <3>1. dups = <<>> /\ mapped = 0
      BY <2>4 DEF MapInv
    <3>2. ASSUME Nested PROVE LoopInv'
      <4>1. table = ForkedTable(request.targets)
        BY <2>4, <3>2 DEF MapInv, IInv, StepInv, ModeInv
      <4>2. /\ \A i \in DOMAIN request.targets : table[SourceFds[i]] = SourceOf(i)
            /\ \A fd \in 0..2 : table[fd] = Stdio
        BY <1>1, <4>1, ForkedContents
      <4>3. LoopInv
        BY <1>1, <3>1, <4>2 DEF LoopInv
      <4> QED  BY <1>5, <1>7, <2>1, <4>3
    <3> QED
      BY <1>7, <2>1, <2>4, <3>1, <3>2 DEF MapInv, Before, Approved
  <2>5. CASE child = "map" /\ child' = "drop" /\ MappingDone
    <3>1. Nested => mapped = Len(request.targets)
      BY <2>5 DEF MappingDone, Targets
    <3>2. Nested => LoopInv'
      BY <1>5, <1>7, <2>1, <2>5 DEF MapInv, Approved
    <3> QED
      BY <1>7, <2>1, <2>5, <3>1, <3>2 DEF MapInv, Before, Approved
  <2>6. CASE child \in Approved \ {"map"} /\ child' \in Approved \ {"map"}
    BY <1>5, <1>7, <2>1, <2>6 DEF MapInv, Before, Approved
  <2> QED  BY <2>1, <2>2, <2>3, <2>4, <2>5, <2>6
<1>8. \/ DuplicateSource \/ MakeTarget \/ ForkChild \/ UNCHANGED mapping
  BY MappingSteps
<1> QED  BY <1>2, <1>3, <1>4, <1>6, <1>7, <1>8

\* A nested program has each descriptor of the request at its target and its
\* other standard descriptors untouched, for every choice of targets and every
\* numbering of the sources, overlapping ones too (map_nested_fds).
THEOREM DescriptorsMapped == Spec => []SourcesMapped
<1>1. Init => MapInv
  BY RequestTypes DEF Init, MapInv, Before, Approved
<1>2. IInv /\ MapInv /\ [Next]_vars => MapInv'
  BY MapStep
<1>3. IInv /\ MapInv => SourcesMapped
  <2> SUFFICES ASSUME IInv, MapInv, child = "running", Nested,
                      NEW fd \in 0..2 \cup {request.targets[i] : i \in DOMAIN request.targets}
               PROVE  table[fd] = IF \E i \in DOMAIN request.targets : request.targets[i] = fd
                                  THEN SourceOf(CHOOSE i \in DOMAIN request.targets :
                                                    request.targets[i] = fd)
                                  ELSE Stdio
    BY DEF SourcesMapped
  <2>1. LoopInv /\ mapped = Len(request.targets)
    BY DEF MapInv, Approved
  <2>2. request.targets \in Seq(Nat)
    BY RequestTypes, TypeParts DEF IInv, PathType
  <2>3. DOMAIN request.targets = 1..mapped
    BY <2>1, <2>2
  <2>4. CASE \E i \in DOMAIN request.targets : request.targets[i] = fd
    <3>1. PICK i \in DOMAIN request.targets :
              /\ request.targets[i] = fd
              /\ i = CHOOSE j \in DOMAIN request.targets : request.targets[j] = fd
      BY <2>4
    <3>2. Mapped(i)
      BY <2>1, <2>3, <3>1 DEF LoopInv
    <3> QED  BY <2>4, <3>1, <3>2 DEF Mapped
  <2>5. CASE ~\E i \in DOMAIN request.targets : request.targets[i] = fd
    <3>1. Kept(fd) /\ fd \in 0..2
      BY <2>3, <2>5 DEF Kept
    <3> QED  BY <2>1, <2>5, <3>1 DEF LoopInv
  <2> QED  BY <2>4, <2>5
<1> QED  BY <1>1, <1>2, <1>3, Invariance, PTL DEF Spec

===============================================================================
