----------------------- MODULE ProcessSupervisionProofs -----------------------
(***************************************************************************)
(* Proofs about ProcessSupervision, for any number of processes and        *)
(* signals.                                                                *)
(***************************************************************************)
EXTENDS ProcessSupervision, TLAPS

\* wait_for_exit_with_signal has not returned, or has given up on the tree.
Waiting == {"try", "list", "relist", "poll", "signal", "survived"}

\* The root keeps its place in the reaper's listing, as a process or a zombie,
\* until the main thread has its status.
RootInv ==
    /\ place[Root] = "app"
    /\ main \in Waiting /\ ~status => proc[Root] # "free"

\* The launcher has a main thread; a worker does nothing after it.
LauncherInv ==
    /\ main # "exit" <=> launcher = "up"
    /\ launcher # "up" => bus = "closed"

\* The wait ends well with the status.
OkInv == main = "ok" => status

\* A process of a nested sandbox runs in one that has been made and has not
\* been removed.
NestInv == \A p \in Pid : proc[p] = "live" /\ place[p] # "app" => nest[place[p]] = "running"

\* What flatpak kill has not read is removed already or comes later; when it
\* does not leave the end of the sandbox to the launcher, there is none, and
\* no nested sandbox is made any more.
KillInv ==
    /\ kill.step \notin {"idle", "not_running"} =>
          /\ "app" \in kill.roots
          /\ \A n \in Nested : n \in kill.roots \/ n \in kill.later \/ nest[n] = "gone"
    /\ kill.step \in {"exited", "stale", "term", "kill", "swept"} => launcher # "up"

IInv ==
    /\ TypeOK
    /\ RootInv
    /\ LauncherInv
    /\ OkInv
    /\ StatusKept
    /\ TreeEnded
    /\ OrphansOnly
    /\ NestInv
    /\ KillInv
    /\ SweptEmpty

USE DEF tree, waiter, Roots

-------------------------------------------------------------------------------
(***************************************************************************)
(* Type correctness                                                        *)
(***************************************************************************)

\* processes_remain leaves every process running, a zombie or reaped, the root
\* untouched unless it may be reaped, and nothing of a nested sandbox changed.
LEMMA ReapedTypes ==
    ASSUME TypeOK, NEW too \in BOOLEAN
    PROVE  /\ Reaped(too) \in [Pid -> {"free", "live", "zombie"}]
           /\ \A p \in Pid : Reaped(too)[p] # proc[p] => proc[p] = "zombie" /\ p \in Listed
           /\ \A p \in Pid : Reaped(too)[p] = "live" <=> proc[p] = "live"
           /\ ~too => Reaped(too)[Root] = proc[Root]
  BY SupervisionAssumption DEF TypeOK, Reaped

LEMMA MainType ==
    ASSUME TypeOK, Waits
    PROVE  TypeOK'
<1> USE SupervisionAssumption DEF TypeOK, MainSteps, BusSteps
<1>1. CASE TryWait  BY <1>1 DEF TryWait
<1>2. CASE List  BY <1>2, ReapedTypes DEF List
<1>3. CASE Relist  BY <1>3 DEF Relist
<1>4. CASE Poll  BY <1>4 DEF Poll, Live
<1>5. CASE WithinGrace  BY <1>5 DEF WithinGrace
<1>6. CASE Expire  BY <1>6 DEF Expire
<1>7. CASE DropTree
  <2>1. proc' \in [Pid -> {"free", "live", "zombie"}]
    BY <1>7, ReapedTypes DEF DropTree
  <2>2. doomed' \subseteq Pid /\ main' \in MainSteps
    BY <1>7 DEF DropTree, Live
  <2> QED  BY <1>7, <2>1, <2>2 DEF DropTree
<1>8. CASE Cleanup  BY <1>8 DEF Cleanup, Live
<1> QED  BY <1>1, <1>2, <1>3, <1>4, <1>5, <1>6, <1>7, <1>8 DEF Waits

LEMMA KillType ==
    ASSUME TypeOK, KillCommand
    PROVE  TypeOK'
<1> USE DEF TypeOK, KillSteps, KillGoto
<1>1. CASE ReadRecords
  <2>1. OwnershipRoots \in SUBSET Roots
    BY DEF OwnershipRoots
  <2> QED  BY <1>1, <2>1 DEF ReadRecords
<1>2. CASE Snapshot  BY <1>2 DEF Snapshot
<1>3. CASE CheckIdentity  BY <1>3 DEF CheckIdentity
<1>4. CASE CheckReaper  BY <1>4 DEF CheckReaper
<1>5. CASE CheckAgain  BY <1>5 DEF CheckAgain
<1>6. CASE SignalLauncher  BY <1>6 DEF SignalLauncher, HandleSignal
<1>7. CASE Decide  BY <1>7 DEF Decide
<1>8. CASE Sweep  BY <1>8 DEF Sweep, Live
<1> QED  BY <1>1, <1>2, <1>3, <1>4, <1>5, <1>6, <1>7, <1>8 DEF KillCommand

\* The worker of a lost bus, the signals of the user, the end of the launcher.
LEMMA OtherType ==
    ASSUME TypeOK,
           \/ BusLost \/ OrphanCheck \/ OrphanEnd \/ LauncherDies \/ PidReused
           \/ \E s \in {"TERM", "HUP"} : UserSignals(s)
    PROVE  TypeOK'
<1> USE SupervisionAssumption DEF TypeOK, BusSteps, MainSteps
<1>1. CASE BusLost  BY <1>1 DEF BusLost
<1>2. CASE OrphanCheck  BY <1>2 DEF OrphanCheck
<1>3. CASE OrphanEnd
  <2>1. proc' \in [Pid -> {"free", "live", "zombie"}]
    BY <1>3, ReapedTypes DEF OrphanEnd
  <2>2. doomed' \subseteq Pid /\ bus' \in BusSteps
    BY <1>3 DEF OrphanEnd, Live
  <2> QED  BY <1>3, <2>1, <2>2 DEF OrphanEnd
<1>4. CASE LauncherDies  BY <1>4 DEF LauncherDies
<1>5. CASE PidReused  BY <1>5 DEF PidReused
<1>6. CASE \E s \in {"TERM", "HUP"} : UserSignals(s)  BY <1>6 DEF UserSignals, HandleSignal
<1> QED  BY <1>1, <1>2, <1>3, <1>4, <1>5, <1>6

LEMMA ProcessType ==
    ASSUME TypeOK, NEW p \in Pid, NEW q \in Pid, Fork(p, q) \/ Exit(p)
    PROVE  TypeOK'
<1> USE DEF TypeOK
<1>1. CASE Fork(p, q)  BY <1>1 DEF Fork
<1>2. CASE Exit(p)  BY <1>2 DEF Exit
<1> QED  BY <1>1, <1>2

\* What the broker does for nested sandboxes.
NestedStep(n) == PublishNested(n) \/ RemoveNested(n) \/ \E q \in Pid : SpawnNested(n, q)

LEMMA NestedType ==
    ASSUME TypeOK, NEW n \in Nested, NestedStep(n)
    PROVE  TypeOK'
<1> USE DEF TypeOK
<1>1. CASE PublishNested(n)  BY <1>1 DEF PublishNested
<1>2. CASE RemoveNested(n)  BY <1>2 DEF RemoveNested
<1>3. CASE \E q \in Pid : SpawnNested(n, q)  BY <1>3 DEF SpawnNested
<1> QED  BY <1>1, <1>2, <1>3 DEF NestedStep
-------------------------------------------------------------------------------
(***************************************************************************)
(* Each step preserves the invariant                                       *)
(***************************************************************************)

\* A reaped tree stays empty, and reaping ends nobody.
LEMMA ReapKeeps ==
    ASSUME TypeOK, NEW too \in BOOLEAN, proc' = Reaped(too), UNCHANGED place
    PROVE  /\ Listed = {} => Listed' = {}
           /\ \A p \in Pid : proc'[p] = "live" <=> proc[p] = "live"
<1>1. \A p \in Pid : proc'[p] # proc[p] => proc[p] = "zombie" /\ p \in Listed
  BY ReapedTypes
<1>2. \A p \in Pid : proc'[p] = "live" <=> proc[p] = "live"
  BY ReapedTypes
<1> QED  BY <1>1, <1>2 DEF Listed

\* What is known of nested sandboxes and of flatpak kill.
SweepInv == NestInv /\ KillInv /\ SweptEmpty

\* A step that starts no process, makes no nested sandbox and is none of the kill
\* command keeps it.
LEMMA SweepKeeps ==
    ASSUME IInv, UNCHANGED <<place, nest, kill>>, launcher' = "up" => launcher = "up",
           \A p \in Pid : proc'[p] = "live" => proc[p] = "live"
    PROVE  SweepInv'
  BY DEF IInv, SweepInv, NestInv, KillInv, SweptEmpty

\* The wait of the main thread.
LEMMA WaitStep ==
    ASSUME IInv, launcher = "up", TryWait \/ List \/ Relist \/ Poll \/ WithinGrace \/ Expire
    PROVE  IInv'
<1>1. TypeOK'
  BY MainType DEF IInv, Waits
<1> USE SupervisionAssumption
    DEF IInv, TypeOK, RootInv, LauncherInv, OkInv, StatusKept, TreeEnded, OrphansOnly, Waiting
<1>2. CASE TryWait
  <2>1. RootInv' /\ LauncherInv' /\ OkInv' /\ StatusKept' /\ TreeEnded' /\ OrphansOnly'
    BY <1>2 DEF TryWait
  <2>2. SweepInv'
    BY <1>2, SweepKeeps DEF TryWait
  <2> QED  BY <1>1, <2>1, <2>2 DEF SweepInv
<1>3. CASE List
  <2>1. Root \in Listed \/ status
    BY <1>3 DEF List, Listed
  <2>2. /\ Listed = {} => Listed' = {}
        /\ \A p \in Pid : proc'[p] = "live" <=> proc[p] = "live"
        /\ proc'[Root] = proc[Root]
    BY <1>3, ReapKeeps, ReapedTypes DEF List
  <2>3. RootInv' /\ LauncherInv' /\ OkInv' /\ StatusKept' /\ TreeEnded' /\ OrphansOnly'
    BY <1>3, <2>1, <2>2 DEF List
  <2>4. SweepInv'
    BY <1>3, <2>2, SweepKeeps DEF List
  <2> QED  BY <1>1, <2>3, <2>4 DEF SweepInv
<1>4. CASE Relist
  <2>1. Root \in Listed \/ status
    BY <1>4 DEF Relist, Listed
  <2>2. Listed' = Listed /\ SweepInv'
    BY <1>4, SweepKeeps DEF Relist, Listed
  <2> QED  BY <1>1, <1>4, <2>1, <2>2 DEF Relist, SweepInv
<1>5. CASE Poll
  <2>1. SweepInv'
    BY <1>5, SweepKeeps DEF Poll
  <2> QED  BY <1>1, <1>5, <2>1 DEF Poll, SweepInv
<1>6. CASE WithinGrace \/ Expire
  <2>1. SweepInv'
    BY <1>6, SweepKeeps DEF WithinGrace, Expire
  <2> QED  BY <1>1, <1>6, <2>1 DEF WithinGrace, Expire, SweepInv
<1> QED  BY <1>2, <1>3, <1>4, <1>5, <1>6

\* The end of the launch, and the end of the launcher.
LEMMA EndStep ==
    ASSUME IInv, DropTree \/ Cleanup \/ LauncherDies \/ PidReused
    PROVE  IInv'
<1>1. TypeOK'
  BY MainType, OtherType DEF IInv, Waits
<1> USE SupervisionAssumption
    DEF IInv, TypeOK, RootInv, LauncherInv, OkInv, StatusKept, TreeEnded, OrphansOnly, Waiting
<1>2. CASE DropTree
  <2>1. \A p \in Pid : proc'[p] = "live" <=> proc[p] = "live"
    BY <1>2, ReapKeeps DEF DropTree
  <2>2. SweepInv'
    BY <1>2, <2>1, SweepKeeps DEF DropTree
  <2>3. main' \in {"drop", "drop_kill", "cleanup"}
        /\ UNCHANGED <<place, status, bus, launcher>> /\ main # "exit"
    BY <1>2 DEF DropTree
  <2> QED  BY <1>1, <2>2, <2>3 DEF SweepInv
<1>3. CASE Cleanup \/ LauncherDies
  <2>1. SweepInv'
    BY <1>3, SweepKeeps DEF Cleanup, LauncherDies
  <2> QED  BY <1>1, <1>3, <2>1 DEF Cleanup, LauncherDies, SweepInv
<1>4. CASE PidReused
  <2>1. Listed' = Listed /\ SweepInv'
    BY <1>4, SweepKeeps DEF PidReused, Listed
  <2> QED  BY <1>1, <1>4, <2>1 DEF PidReused, SweepInv
<1> QED  BY <1>2, <1>3, <1>4

\* The worker of a lost bus, and the signals of the user.
LEMMA WorkerStep ==
    ASSUME IInv,
           \/ BusLost \/ OrphanCheck \/ OrphanEnd
           \/ \E s \in {"TERM", "HUP"} : UserSignals(s)
    PROVE  IInv'
<1>1. TypeOK'
  BY OtherType DEF IInv
<1> USE SupervisionAssumption
    DEF IInv, TypeOK, RootInv, LauncherInv, OkInv, StatusKept, TreeEnded, OrphansOnly, Waiting
<1>2. CASE BusLost
  <2>1. Listed' = Listed /\ SweepInv'
    BY <1>2, SweepKeeps DEF BusLost, Listed
  <2> QED  BY <1>1, <1>2, <2>1 DEF BusLost, SweepInv
<1>3. CASE OrphanCheck
  <2>1. Listed' = Listed /\ SweepInv'
    BY <1>3, SweepKeeps DEF OrphanCheck, Listed
  <2>2. Root \notin Listed => \/ status
                             \/ main \in {"drop", "drop_kill", "cleanup", "exit"}
    BY DEF Listed, MainSteps
  <2> QED  BY <1>1, <1>3, <2>1, <2>2 DEF OrphanCheck, SweepInv
<1>4. CASE OrphanEnd
  <2>1. /\ Listed = {} => Listed' = {}
        /\ \A p \in Pid : proc'[p] = "live" <=> proc[p] = "live"
        /\ proc'[Root] = proc[Root]
    BY <1>4, ReapKeeps, ReapedTypes DEF OrphanEnd
  <2>2. SweepInv'
    BY <1>4, <2>1, SweepKeeps DEF OrphanEnd
  <2> QED  BY <1>1, <1>4, <2>1, <2>2 DEF OrphanEnd, SweepInv
<1>5. CASE \E s \in {"TERM", "HUP"} : UserSignals(s)
  <2>1. UNCHANGED <<proc, place, nest, main, status, bus, launcher, kill>>
    BY <1>5 DEF UserSignals, HandleSignal
  <2>2. Listed' = Listed /\ SweepInv'
    BY <2>1, SweepKeeps DEF Listed
  <2> QED  BY <1>1, <2>1, <2>2 DEF SweepInv
<1> QED  BY <1>2, <1>3, <1>4, <1>5

\* The kill command changes no process: it dooms them.  A sweep that finds nobody
\* in the roots that were read leaves only what came later.
LEMMA KillStep ==
    ASSUME IInv, KillCommand
    PROVE  IInv'
<1>1. TypeOK'
  BY KillType DEF IInv
<1>2. UNCHANGED <<proc, place, nest, main, status, bus, launcher>>
  BY DEF KillCommand, ReadRecords, Snapshot, CheckIdentity, CheckReaper, CheckAgain,
         SignalLauncher, HandleSignal, Decide, Sweep
<1>3. Listed' = Listed /\ NestInv'
  BY <1>2 DEF Listed, NestInv, IInv
<1> USE DEF KillGoto, IInv, TypeOK
<1>4. KillInv' /\ SweptEmpty'
  <2>1. CASE ReadRecords
    BY <1>2, <2>1 DEF ReadRecords, OwnershipRoots, KillInv, SweptEmpty
  <2>2. CASE Snapshot \/ CheckIdentity \/ CheckReaper \/ CheckAgain \/ SignalLauncher \/ Decide
    <3>1. /\ kill'.roots = kill.roots /\ kill'.later = kill.later
          /\ kill.step \notin {"idle", "not_running"} /\ kill'.step # "swept"
          /\ kill'.step \in {"exited", "stale", "term", "kill", "swept"} => launcher # "up"
      BY <2>2 DEF Snapshot, CheckIdentity, CheckReaper, CheckAgain, SignalLauncher, Decide, KillInv
    <3> QED  BY <1>2, <3>1 DEF KillInv, SweptEmpty
  <2>3. CASE Sweep
    <3>1. /\ kill'.roots = kill.roots /\ kill'.later = kill.later
          /\ kill.step \in {"term", "kill"} /\ launcher # "up"
          /\ kill'.step \notin {"idle", "not_running"}
          /\ kill'.step = "swept" => Live(kill.roots) = {}
      BY <2>3 DEF Sweep, KillInv
    <3>2. KillInv'
      BY <1>2, <3>1 DEF KillInv
    <3>3. ASSUME Live(kill.roots) = {}, NEW p \in Pid, proc[p] = "live"
          PROVE  place[p] \in kill.later
      <4>1. place[p] \notin kill.roots
        BY <3>3 DEF Live
      <4>2. place[p] \in Nested /\ nest[place[p]] = "running"
        BY <3>1, <3>3, <4>1 DEF KillInv, NestInv
      <4> QED  BY <3>1, <4>1, <4>2 DEF KillInv
    <3> QED  BY <1>2, <3>1, <3>2, <3>3 DEF SweptEmpty
  <2> QED  BY <2>1, <2>2, <2>3 DEF KillCommand
<1> QED
  BY <1>1, <1>2, <1>3, <1>4
  DEF RootInv, LauncherInv, OkInv, StatusKept, TreeEnded, OrphansOnly

\* Processes fork and exit.
LEMMA ProcessStep ==
    ASSUME IInv, NEW p \in Pid, NEW q \in Pid, Fork(p, q) \/ Exit(p)
    PROVE  IInv'
<1>1. TypeOK'
  BY ProcessType DEF IInv
<1>2. UNCHANGED <<nest, main, status, bus, launcher, kill>>
  BY DEF Fork, Exit
<1> USE SupervisionAssumption DEF IInv, TypeOK
<1>3. RootInv'
  BY <1>2 DEF RootInv, LauncherInv, Fork, Exit, Waiting
<1>4. Listed = {} => Listed' = {}
  BY DEF Listed, Fork, Exit
<1>5. SweepInv'
  <2>1. ASSUME NEW r \in Pid, proc'[r] = "live"
        PROVE  \E o \in Pid : proc[o] = "live" /\ place'[r] = place[o]
    BY <2>1 DEF Fork, Exit
  <2> QED  BY <1>2, <2>1 DEF SweepInv, NestInv, KillInv, SweptEmpty
<1> QED
  BY <1>1, <1>2, <1>3, <1>4, <1>5
  DEF LauncherInv, OkInv, StatusKept, TreeEnded, OrphansOnly, SweepInv

\* A nested sandbox is made, entered and removed while the launcher is there, and
\* so never after the kill command has found it gone.
LEMMA NestedKeeps ==
    ASSUME IInv, NEW n \in Nested, NestedStep(n)
    PROVE  IInv'
<1>1. TypeOK'
  BY NestedType DEF IInv
<1>2. UNCHANGED <<main, status, bus, launcher, kill>> /\ launcher = "up"
  BY DEF NestedStep, PublishNested, SpawnNested, RemoveNested, BrokerUp
<1> USE SupervisionAssumption DEF IInv, TypeOK
<1>3. RootInv' /\ Listed' = Listed
  BY <1>2 DEF RootInv, NestedStep, PublishNested, SpawnNested, RemoveNested, Listed
<1>4. NestInv'
  <2>1. CASE PublishNested(n)  BY <2>1 DEF PublishNested, NestInv
  <2>2. CASE RemoveNested(n)  BY <2>2 DEF RemoveNested, NestInv, Live
  <2>3. CASE \E q \in Pid : SpawnNested(n, q)  BY <2>3 DEF SpawnNested, NestInv
  <2> QED  BY <2>1, <2>2, <2>3 DEF NestedStep
<1>5. KillInv' /\ SweptEmpty'
  <2>1. \A k \in Nested : nest[k] = "gone" => nest'[k] = "gone"
    BY DEF NestedStep, PublishNested, SpawnNested, RemoveNested
  <2> QED  BY <1>2, <2>1 DEF KillInv, SweptEmpty
<1> QED
  BY <1>1, <1>2, <1>3, <1>4, <1>5 DEF LauncherInv, OkInv, StatusKept, TreeEnded, OrphansOnly

-------------------------------------------------------------------------------
(***************************************************************************)
(* The theorems                                                            *)
(***************************************************************************)

\* Every reachable state satisfies the inductive invariant.
THEOREM Invariance == Spec => []IInv
<1>1. Init => IInv
  <2> SUFFICES ASSUME Init PROVE IInv
    OBVIOUS
  <2>1. TypeOK
    <3>1. proc \in [Pid -> {"free", "live", "zombie"}] /\ place \in [Pid -> Roots]
          /\ nest \in [Nested -> {"none", "published", "running", "gone"}]
      BY DEF Init
    <3>2. kill \in [step : KillSteps, owned : BOOLEAN, roots : SUBSET Roots, later : SUBSET Nested]
      BY DEF Init, KillSteps
    <3>3. sent \in 0..MaxSignals
      BY SupervisionAssumption DEF Init
    <3> QED  BY <3>1, <3>2, <3>3 DEF Init, TypeOK, MainSteps, BusSteps
  <2>2. RootInv /\ LauncherInv /\ OkInv
    BY SupervisionAssumption DEF Init, RootInv, LauncherInv, OkInv
  <2>3. StatusKept /\ TreeEnded /\ OrphansOnly /\ NestInv /\ KillInv /\ SweptEmpty
    BY DEF Init, StatusKept, TreeEnded, OrphansOnly, NestInv, KillInv, SweptEmpty
  <2> QED  BY <2>1, <2>2, <2>3 DEF IInv
<1>2. IInv /\ [Next]_vars => IInv'
  <2> SUFFICES ASSUME IInv, [Next]_vars PROVE IInv'
    OBVIOUS
  <2>1. CASE Main
    BY <2>1, WaitStep, EndStep DEF Main, Waits
  <2>2. CASE LauncherDies \/ PidReused
    BY <2>2, EndStep
  <2>3. CASE BusLost \/ OrphanCheck \/ OrphanEnd \/ \E s \in {"TERM", "HUP"} : UserSignals(s)
    BY <2>3, WorkerStep
  <2>4. CASE KillCommand
    BY <2>4, KillStep
  <2>5. ASSUME NEW p \in Pid, NEW q \in Pid, Fork(p, q) \/ Exit(p) PROVE IInv'
    BY <2>5, ProcessStep
  <2>6. CASE UNCHANGED vars
    BY <2>6
    DEF vars, IInv, TypeOK, RootInv, LauncherInv, OkInv, StatusKept, TreeEnded, OrphansOnly,
        NestInv, KillInv, SweptEmpty, Listed
  <2>7. ASSUME NEW n \in Nested, NestedStep(n) PROVE IInv'
    BY <2>7, NestedKeeps
  <2> QED  BY <2>1, <2>2, <2>3, <2>4, <2>5, <2>6, <2>7 DEF Next, Finished, NestedStep
<1> QED  BY <1>1, <1>2, PTL DEF Spec

\* The variables keep their types.
THEOREM TypeCorrect == Spec => []TypeOK
BY Invariance, PTL DEF IInv

\* The wait of the launcher never ends without the status of the application,
\* whatever workers and kill commands reap and signal beside it.
THEOREM StatusAlwaysKept == Spec => []StatusKept
BY Invariance, PTL DEF IInv

\* When the wait ends well the listing of the reaper is empty and stays so.
THEOREM TreeHasEnded == Spec => []TreeEnded
BY Invariance, PTL DEF IInv

\* A worker signals the subtree of a lost bus only after the root's own waiter
\* has collected its status.
THEOREM OnlyOrphansEnded == Spec => []OrphansOnly
BY Invariance, PTL DEF IInv

\* A sweep of flatpak kill that succeeds leaves nobody in the sandbox or in a
\* nested one, unless that was made after the command had read the records.
THEOREM SweepsEmpty == Spec => []SweptEmpty
BY Invariance, PTL DEF IInv


===============================================================================
