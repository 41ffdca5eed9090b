------------------------- MODULE SandboxRecoveryProofs -------------------------
(***************************************************************************)
(* Proofs about SandboxRecovery, for any number of sandbox roots, nested   *)
(* in any way the broker nests them, and any number of recoveries; and     *)
(* about RecordStorage, which keeps the run records that it reads.         *)
(***************************************************************************)
EXTENDS SandboxRecovery, RecordStorage, TLAPS

\* Nothing of this root is a running launcher's, and nothing of it will be.
Spared(r) == stage[r] = "gone" \/ Owner(r) \notin alive

Building == {"published", "up", "spawned", "closed"}

\* A launcher appears with its root and never again, and whatever is recorded,
\* read or judged has been published.
BornInv ==
    /\ \A r \in Root : stage[r] # "unborn" => stage[Owner(r)] # "unborn"
    /\ \A r \in alive : stage[r] \notin {"unborn", "gone"}
    /\ \A r \in recorded : stage[r] # "unborn"
    /\ \A q \in Recoverer :
           /\ \A r \in view[q].records \cup view[q].mounts \cup stale[q] :
                  stage[r] # "unborn"
           /\ cur[q] # None => stage[cur[q]] # "unborn"

\* The root of a running launcher is recorded from before its first mount until
\* after its last, processes are in mounted roots, and mounts are recorded.
SystemInv ==
    /\ \A r \in Root : Owner(r) \in alive =>
           /\ stage[r] \in Building => r \in recorded
           /\ stage[r] \in {"up", "spawned"} => r \in mounted
    /\ \A r \in mounted : stage[r] \in {"up", "spawned"} /\ r \in recorded
    /\ \A r \in procs : stage[r] = "spawned" /\ r \in mounted

\* A recovery has a root in hand from the second look to the end of the teardown.
CurInv ==
    \A q \in Recoverer :
        /\ pc[q] = "idle" => cur[q] = None
        /\ pc[q] = "records" \/ TearingDown(q) => cur[q] # None

\* What the second look has read so far: a root whose record it does not find is
\* nobody's, and processes that were there at its start are seen with their mounts.
Look(q) ==
    /\ \A r \in before[q] : stage[r] \notin {"unborn", "published", "up"}
    /\ cur[q] # None =>
          /\ before[q] \subseteq {cur[q]} \cup Nested(cur[q])
          /\ pc[q] \in {"mounts", "processes", "judge"} /\ cur[q] \notin view[q].records
                => Spared(cur[q])
          /\ pc[q] \in {"processes", "judge"} =>
                before[q] \cap procs \subseteq view[q].mounts
          /\ pc[q] = "judge" => before[q] \cap procs \subseteq view[q].processes

LookInv == \A q \in Recoverer : Look(q)

\* A root that is torn down is nobody's, and nobody starts a process in it again.
Ending(q) ==
    /\ TearingDown(q) => Spared(cur[q]) /\ before[q] \cap procs = {}
    /\ pc[q] \in {"unmount", "remove"} => cur[q] \notin procs

TeardownInv == \A q \in Recoverer : Ending(q)

View == [records : SUBSET Root, mounts : SUBSET Root, processes : SUBSET Root]

IInv ==
    /\ TypeOK
    /\ BornInv
    /\ SystemInv
    /\ CurInv
    /\ LookInv
    /\ TeardownInv

USE DEF system, recovery

-------------------------------------------------------------------------------
(***************************************************************************)
(* Type correctness                                                        *)
(***************************************************************************)

\* The parents of nested roots are roots, and so is the owner of any root.
LEMMA ParentTypes ==
    /\ \A r \in Root : Owner(r) \in Root /\ Owner(r) \in Primary
    /\ \A r \in Root \ Primary : Parent[r] \in Root
    /\ Primary \subseteq Root
  BY RootAssumption DEF Owner, Primary

LEMMA ActiveType ==
    ASSUME TypeOK, NEW q \in Recoverer
    PROVE  Active(q) \subseteq Root
  BY ParentTypes DEF TypeOK, Active

LEMMA LauncherType ==
    ASSUME TypeOK, NEW r \in Root, Launcher(r)
    PROVE  TypeOK'
<1> USE ParentTypes, RootAssumption DEF TypeOK, Stages
<1>1. CASE Publish(r)  BY <1>1 DEF Publish, Primary
<1>2. CASE MountRoot(r)  BY <1>2 DEF MountRoot
<1>3. CASE Spawn(r)  BY <1>3 DEF Spawn
<1>4. CASE ProcessesExit(r)  BY <1>4 DEF ProcessesExit
<1>5. CASE Teardown(r)  BY <1>5 DEF Teardown
<1>6. CASE Forget(r)  BY <1>6 DEF Forget
<1>7. CASE LauncherDies(r)  BY <1>7 DEF LauncherDies
<1>8. CASE PidReused(r)  BY <1>8 DEF PidReused
<1> QED  BY <1>1, <1>2, <1>3, <1>4, <1>5, <1>6, <1>7, <1>8 DEF Launcher

\* What Proceed leaves of the recovery's state.
LEMMA ProceedType ==
    ASSUME TypeOK, NEW q \in Recoverer, Proceed(q)
    PROVE  /\ pc' \in [Recoverer -> PCs]
           /\ view' \in [Recoverer -> View]
           /\ stale' \in [Recoverer -> SUBSET Root]
           /\ cur' \in [Recoverer -> Root \cup {None}]
           /\ before' \in [Recoverer -> SUBSET Root]
  BY DEF TypeOK, Proceed, Goto, PCs, NoView, View

LEMMA RecoverType ==
    ASSUME TypeOK, NEW q \in Recoverer, Recover(q) \/ RecoveryFails(q)
    PROVE  TypeOK'
<1> USE DEF TypeOK, PCs, Goto, NoView
<1>1. CASE ReadRecords(q)  BY <1>1 DEF ReadRecords
<1>2. CASE ReadMounts(q)  BY <1>2 DEF ReadMounts
<1>3. CASE ReadProcesses(q)  BY <1>3 DEF ReadProcesses
<1>4. CASE FirstLook(q)  BY <1>4 DEF FirstLook
<1>5. CASE NextStale(q)
  <2>1. PICK r \in stale[q] : cur' = [cur EXCEPT ![q] = r]
    BY <1>5 DEF NextStale
  <2> QED  BY <1>5, <2>1 DEF NextStale
<1>6. CASE SecondLook(q)
  <2>1. CASE Proceed(q)
    BY <1>6, <2>1, ProceedType DEF SecondLook, View
  <2>2. CASE ~Proceed(q)
    <3>1. [records |-> view[q].records \cap {cur[q]}, mounts |-> {}, processes |-> {}]
             \in View
      BY DEF View
    <3>2. view' = [view EXCEPT ![q] = [records |-> view[q].records \cap {cur[q]},
                                       mounts |-> {}, processes |-> {}]]
      BY <1>6, <2>2 DEF SecondLook
    <3> QED  BY <1>6, <2>2, <3>1, <3>2 DEF SecondLook, View
  <2> QED  BY <2>1, <2>2
<1>7. CASE Terminate(q)  BY <1>7 DEF Terminate
<1>8. CASE Unmount(q)  BY <1>8 DEF Unmount
<1>9. CASE RemoveRoot(q)  BY <1>9, ProceedType DEF RemoveRoot, View
<1>10. CASE RecoveryFails(q)  BY <1>10 DEF RecoveryFails
<1> QED
  BY <1>1, <1>2, <1>3, <1>4, <1>5, <1>6, <1>7, <1>8, <1>9, <1>10 DEF Recover

-------------------------------------------------------------------------------
(***************************************************************************)
(* Steps of launchers                                                      *)
(***************************************************************************)

\* A launcher never goes back behind the publication of a root, nor behind the
\* start of its processes, and none takes over the root of another.
LEMMA LauncherForward ==
    ASSUME IInv, NEW r \in Root, Launcher(r), NEW s \in Root
    PROVE  /\ stage[s] # "unborn" => stage'[s] # "unborn"
           /\ stage[s] \notin {"unborn", "published", "up"} =>
                 stage'[s] \notin {"unborn", "published", "up"}
           /\ stage[s] # "unborn" /\ Spared(s) => Spared(s)'
           /\ s \in procs' \ procs => stage[s] = "up" /\ Owner(s) \in alive
<1> USE ParentTypes DEF IInv, TypeOK, Spared
<1>1. CASE Publish(r)
  <2>1. stage[s] # "unborn" => Owner(s) # r
    BY <1>1 DEF Publish, BornInv
  <2> QED  BY <1>1, <2>1 DEF Publish
<1>2. CASE MountRoot(r)  BY <1>2 DEF MountRoot
<1>3. CASE Spawn(r)  BY <1>3 DEF Spawn
<1>4. CASE ProcessesExit(r)  BY <1>4 DEF ProcessesExit
<1>5. CASE Teardown(r)  BY <1>5 DEF Teardown
<1>6. CASE Forget(r)  BY <1>6 DEF Forget
<1>7. CASE LauncherDies(r)  BY <1>7 DEF LauncherDies
<1>8. CASE PidReused(r)  BY <1>8 DEF PidReused
<1> QED  BY <1>1, <1>2, <1>3, <1>4, <1>5, <1>6, <1>7, <1>8 DEF Launcher

\* Launchers and their records.
LEMMA LauncherSystem ==
    ASSUME IInv, NEW r \in Root, Launcher(r)
    PROVE  /\ SystemInv'
           /\ \A s \in Root : stage'[s] # "unborn" => stage'[Owner(s)] # "unborn"
           /\ \A s \in alive' : stage'[s] \notin {"unborn", "gone"}
           /\ \A s \in recorded' : stage'[s] # "unborn"
<1> USE ParentTypes, RootAssumption
    DEF IInv, TypeOK, SystemInv, BornInv, Building, Stages
<1>1. CASE Publish(r)
  <2>1. \A s \in Root : Owner(s) = r /\ s # r => stage[s] = "unborn" \/ Parent[r] # None
    BY <1>1 DEF Publish
  <2>2. Owner(r) = IF Parent[r] = None THEN r ELSE Parent[r]
    BY DEF Owner
  <2>3. \A s \in Root : Owner(s) = r => Parent[r] = None
    BY DEF Primary
  <2> QED  BY <1>1, <2>1, <2>2, <2>3 DEF Publish, Primary
<1>2. CASE MountRoot(r)  BY <1>2 DEF MountRoot
<1>3. CASE Spawn(r)  BY <1>3 DEF Spawn
<1>4. CASE ProcessesExit(r)  BY <1>4 DEF ProcessesExit
<1>5. CASE Teardown(r)  BY <1>5 DEF Teardown
<1>6. CASE Forget(r)  BY <1>6 DEF Forget
<1>7. CASE LauncherDies(r)  BY <1>7 DEF LauncherDies
<1>8. CASE PidReused(r)  BY <1>8 DEF PidReused
<1> QED  BY <1>1, <1>2, <1>3, <1>4, <1>5, <1>6, <1>7, <1>8 DEF Launcher

LEMMA LauncherStep ==
    ASSUME IInv, NEW r \in Root, Launcher(r)
    PROVE  IInv'
<1>1. TypeOK'
  BY LauncherType DEF IInv
<1>2. UNCHANGED recovery
  BY DEF Launcher, Publish, MountRoot, Spawn, ProcessesExit, Teardown, Forget, LauncherDies,
         PidReused
<1>3. \A s \in Root :
         /\ stage[s] # "unborn" => stage'[s] # "unborn"
         /\ stage[s] \notin {"unborn", "published", "up"} =>
               stage'[s] \notin {"unborn", "published", "up"}
         /\ stage[s] # "unborn" /\ Spared(s) => Spared(s)'
         /\ s \in procs' \ procs => stage[s] = "up" /\ Owner(s) \in alive
  BY LauncherForward
<1> USE DEF IInv, TypeOK
<1>4. BornInv' /\ SystemInv'
  BY <1>1, <1>2, <1>3, LauncherSystem DEF BornInv
<1>5. CurInv'
  BY <1>2 DEF CurInv, TearingDown
<1>6. \A q \in Recoverer : before[q] \cap procs' \subseteq before[q] \cap procs
  BY <1>1, <1>3 DEF LookInv, Look
<1>7. LookInv'
  <2> SUFFICES ASSUME NEW q \in Recoverer
               PROVE  /\ \A s \in before[q] : stage'[s] \notin {"unborn", "published", "up"}
                      /\ cur[q] # None =>
                         /\ before[q] \subseteq {cur[q]} \cup Nested(cur[q])
                         /\ pc[q] \in {"mounts", "processes", "judge"}
                               /\ cur[q] \notin view[q].records => Spared(cur[q])'
                         /\ pc[q] \in {"processes", "judge"} =>
                               before[q] \cap procs' \subseteq view[q].mounts
                         /\ pc[q] = "judge" =>
                               before[q] \cap procs' \subseteq view[q].processes
    BY <1>2 DEF LookInv, Look, Nested
  <2>1. \A s \in before[q] : stage'[s] \notin {"unborn", "published", "up"}
    BY <1>3 DEF LookInv, Look
  <2>2. cur[q] # None /\ Spared(cur[q]) => Spared(cur[q])'
    BY <1>2, <1>3 DEF BornInv, Spared
  <2> QED  BY <1>6, <2>1, <2>2 DEF LookInv, Look
<1>8. TeardownInv'
  <2> SUFFICES ASSUME NEW q \in Recoverer
               PROVE  /\ TearingDown(q) => Spared(cur[q])' /\ before[q] \cap procs' = {}
                      /\ pc[q] \in {"unmount", "remove"} => cur[q] \notin procs'
    BY <1>2 DEF TeardownInv, Ending, TearingDown
  <2>1. TearingDown(q) => cur[q] \in Root /\ stage[cur[q]] # "unborn" /\ Spared(cur[q])
    BY DEF TeardownInv, Ending, CurInv, BornInv
  <2>2. TearingDown(q) => Spared(cur[q])'
    BY <1>2, <1>3, <2>1 DEF Spared
  <2>3. pc[q] \in {"unmount", "remove"} => cur[q] \notin procs'
    BY <1>3, <2>1 DEF TeardownInv, Ending, TearingDown, Spared
  <2> QED  BY <1>6, <2>2, <2>3 DEF TeardownInv, Ending
<1> QED  BY <1>1, <1>4, <1>5, <1>7, <1>8

-------------------------------------------------------------------------------
(***************************************************************************)
(* Steps of recoveries                                                     *)
(***************************************************************************)

\* What a recovery does to the sandboxes: it takes the root in hand away.
LEMMA RecoverSystem ==
    ASSUME IInv, NEW q \in Recoverer, Recover(q) \/ RecoveryFails(q)
    PROVE  /\ UNCHANGED <<stage, alive>>
           /\ procs' \subseteq procs
           /\ \A r \in Root : Spared(r)' = Spared(r)
           /\ SystemInv'
<1> USE DEF IInv, TypeOK, SystemInv
<1>1. CASE Terminate(q)
  BY <1>1 DEF Terminate, Spared
<1>2. CASE Unmount(q)
  <2>1. Spared(cur[q]) /\ cur[q] \in Root /\ cur[q] \notin procs
    BY <1>2 DEF Unmount, TeardownInv, Ending, CurInv, TearingDown
  <2> QED  BY <1>2, <2>1 DEF Unmount, Spared, Building
<1>3. CASE RemoveRoot(q)
  <2>1. Spared(cur[q]) /\ cur[q] \in Root
    BY <1>3 DEF RemoveRoot, TeardownInv, Ending, CurInv, TearingDown
  <2> QED  BY <1>3, <2>1 DEF RemoveRoot, Spared, Building
<1>4. CASE UNCHANGED system
  BY <1>4 DEF Spared
<1> QED
  BY <1>1, <1>2, <1>3, <1>4
  DEF Recover, ReadRecords, ReadMounts, ReadProcesses, FirstLook, NextStale, SecondLook,
      RecoveryFails

\* What is read and judged has been published.
LEMMA RecoverBorn ==
    ASSUME IInv, NEW q \in Recoverer, Recover(q) \/ RecoveryFails(q)
    PROVE  BornInv' /\ CurInv'
<1>1. UNCHANGED <<stage, alive>> /\ SystemInv'
  BY RecoverSystem
<1> USE DEF IInv, TypeOK, BornInv, CurInv, TearingDown, Goto, NoView, SystemInv
<1>2. CASE ReadRecords(q)  BY <1>1, <1>2 DEF ReadRecords
<1>3. CASE ReadMounts(q)  BY <1>1, <1>3 DEF ReadMounts
<1>4. CASE ReadProcesses(q)  BY <1>1, <1>4 DEF ReadProcesses
<1>5. CASE FirstLook(q)  BY <1>1, <1>5 DEF FirstLook
<1>6. CASE NextStale(q)
  <2>1. PICK r \in stale[q] : cur' = [cur EXCEPT ![q] = r]
    BY <1>6 DEF NextStale
  <2> QED  BY <1>1, <1>6, <2>1, RootAssumption DEF NextStale
<1>7. CASE SecondLook(q) /\ Proceed(q)  BY <1>1, <1>7 DEF SecondLook, Proceed
<1>8. CASE SecondLook(q) /\ ~Proceed(q)  BY <1>1, <1>8 DEF SecondLook
<1>9. CASE Terminate(q)  BY <1>1, <1>9 DEF Terminate
<1>10. CASE Unmount(q)  BY <1>1, <1>10 DEF Unmount
<1>11. CASE RemoveRoot(q)  BY <1>1, <1>11 DEF RemoveRoot, Proceed
<1>12. CASE RecoveryFails(q)  BY <1>1, <1>12 DEF RecoveryFails
<1> QED
  BY <1>2, <1>3, <1>4, <1>5, <1>6, <1>7, <1>8, <1>9, <1>10, <1>11, <1>12 DEF Recover

\* The judgement of the second look: a root that is not active is nobody's, and
\* none of the processes that were there at its start lives.
LEMMA SecondLookSound ==
    ASSUME IInv, NEW q \in Recoverer, pc[q] = "judge", cur[q] # None,
           cur[q] \notin Active(q)
    PROVE  Spared(cur[q]) /\ before[q] \cap procs = {}
<1>1. Spared(cur[q])
  <2>1. CASE cur[q] \in view[q].records
    BY <2>1 DEF Active, LauncherActive, Spared
  <2>2. CASE cur[q] \notin view[q].records
    BY <2>2 DEF IInv, LookInv, Look
  <2> QED  BY <2>1, <2>2
<1>2. ASSUME NEW r \in before[q] \cap procs
      PROVE  FALSE
  <2>1. r \in view[q].mounts /\ r \in view[q].processes /\ r \in {cur[q]} \cup Nested(cur[q])
    BY <1>2 DEF IInv, LookInv, Look
  <2>2. CASE r = cur[q]
    BY <2>1, <2>2 DEF Active
  <2>3. CASE r \in Nested(cur[q])
    <3>1. r \in Root \ Primary /\ Parent[r] = cur[q]
      BY <2>3 DEF Nested, Primary
    <3> QED  BY <2>1, <3>1 DEF Active
  <2> QED  BY <2>1, <2>2, <2>3
<1> QED  BY <1>1, <1>2

\* A step of one recovery keeps what another has seen true.
LEMMA OtherRecoveries ==
    ASSUME IInv, NEW q \in Recoverer, Recover(q) \/ RecoveryFails(q),
           NEW p \in Recoverer \ {q}
    PROVE  Look(p)' /\ Ending(p)'
<1>1. /\ UNCHANGED <<stage, alive>> /\ procs' \subseteq procs
      /\ \A r \in Root : Spared(r)' = Spared(r)
  BY RecoverSystem
<1>2. UNCHANGED <<pc[p], view[p], cur[p], before[p]>>
  BY DEF IInv, TypeOK, Recover, ReadRecords, ReadMounts, ReadProcesses, FirstLook, NextStale,
         SecondLook, Terminate, Unmount, RemoveRoot, RecoveryFails, Proceed, Goto
<1>3. Look(p) /\ Ending(p) /\ cur[p] \in Root \cup {None}
  BY DEF IInv, LookInv, TeardownInv, TypeOK
<1>4. TearingDown(p)' = TearingDown(p) /\ (TearingDown(p) => cur[p] \in Root)
  BY <1>2, <1>3 DEF TearingDown, IInv, CurInv
<1>5. cur[p] \in Root => Spared(cur[p])' = Spared(cur[p])
  BY <1>1, <1>2 DEF Spared
<1>6. Look(p)'
  BY <1>1, <1>2, <1>3, <1>5 DEF Look, Nested
<1>7. Ending(p)'
  BY <1>1, <1>2, <1>3, <1>4, <1>5 DEF Ending
<1> QED  BY <1>6, <1>7

\* The looks, and the teardown that follows.
LEMMA OwnRecovery ==
    ASSUME IInv, NEW q \in Recoverer, Recover(q) \/ RecoveryFails(q)
    PROVE  Look(q)' /\ Ending(q)'
<1>1. /\ UNCHANGED <<stage, alive>> /\ procs' \subseteq procs
      /\ \A r \in Root : Spared(r)' = Spared(r)
  BY RecoverSystem
<1>2. Look(q) /\ Ending(q) /\ cur[q] \in Root \cup {None}
  BY DEF IInv, LookInv, TeardownInv, TypeOK
<1>3. SystemInv /\ BornInv
  BY DEF IInv
<1> USE DEF Look, Ending, TearingDown, Goto
<1>4. CASE ReadRecords(q)
  <2>1. cur[q] # None /\ cur[q] \notin recorded => Spared(cur[q])
    BY <1>2, <1>3 DEF SystemInv, BornInv, Spared, Building, IInv, TypeOK, Stages
  <2> QED  BY <1>1, <1>2, <1>4, <2>1 DEF ReadRecords, IInv, TypeOK, Spared
<1>5. CASE ReadMounts(q)
  BY <1>1, <1>2, <1>3, <1>5 DEF ReadMounts, IInv, TypeOK, Spared, SystemInv
<1>6. CASE ReadProcesses(q)
  BY <1>1, <1>2, <1>6 DEF ReadProcesses, IInv, TypeOK, Spared
<1>7. CASE FirstLook(q)
  BY <1>1, <1>2, <1>7 DEF FirstLook, IInv, TypeOK
<1>8. CASE NextStale(q)
  <2>1. PICK r \in stale[q] : cur' = [cur EXCEPT ![q] = r]
    BY <1>8 DEF NextStale
  <2>2. before'[q] \subseteq procs \cap ({cur'[q]} \cup Nested(cur'[q]))
    BY <1>8 DEF NextStale, IInv, TypeOK
  <2>3. pc'[q] = "records"
    BY <1>8 DEF NextStale, IInv, TypeOK
  <2> QED  BY <1>1, <1>3, <2>2, <2>3 DEF SystemInv, Nested
<1>9. CASE Proceed(q)
  BY <1>9 DEF Proceed, IInv, TypeOK
<1>10. CASE SecondLook(q) /\ ~Proceed(q)
  <2>1. Spared(cur[q]) /\ before[q] \cap procs = {}
    BY <1>10, SecondLookSound DEF SecondLook
  <2> QED  BY <1>1, <1>2, <1>10, <2>1 DEF SecondLook, IInv, TypeOK, Spared
<1>11. CASE Terminate(q)
  BY <1>1, <1>2, <1>11 DEF Terminate, IInv, TypeOK, Spared
<1>12. CASE Unmount(q)
  BY <1>1, <1>2, <1>12 DEF Unmount, IInv, TypeOK, Spared
<1>13. CASE RecoveryFails(q)
  BY <1>13 DEF RecoveryFails, IInv, TypeOK
<1> QED
  BY <1>4, <1>5, <1>6, <1>7, <1>8, <1>9, <1>10, <1>11, <1>12, <1>13
  DEF Recover, RemoveRoot

-------------------------------------------------------------------------------
(***************************************************************************)
(* The theorems                                                            *)
(***************************************************************************)

\* Every reachable state satisfies the inductive invariant.
THEOREM Invariance == Spec => []IInv
<1>1. Init => IInv
  <2> SUFFICES ASSUME Init PROVE IInv
    OBVIOUS
  <2>1. TypeOK
    BY DEF Init, TypeOK, Stages, PCs, NoView
  <2>2. BornInv /\ SystemInv /\ CurInv
    BY ParentTypes DEF Init, BornInv, SystemInv, CurInv, TearingDown, NoView
  <2>3. LookInv /\ TeardownInv
    BY DEF Init, LookInv, Look, TeardownInv, Ending, TearingDown
  <2> QED  BY <2>1, <2>2, <2>3 DEF IInv
<1>2. IInv /\ [Next]_vars => IInv'
  <2> SUFFICES ASSUME IInv, [Next]_vars PROVE IInv'
    OBVIOUS
  <2>1. ASSUME NEW r \in Root, Launcher(r) PROVE IInv'
    BY <2>1, LauncherStep
  <2>2. ASSUME NEW q \in Recoverer, Recover(q) \/ RecoveryFails(q) PROVE IInv'
    <3>1. TypeOK'
      BY <2>2, RecoverType DEF IInv
    <3>2. BornInv' /\ SystemInv' /\ CurInv'
      BY <2>2, RecoverBorn, RecoverSystem
    <3>3. LookInv' /\ TeardownInv'
      BY <2>2, OwnRecovery, OtherRecoveries DEF LookInv, TeardownInv
    <3> QED  BY <3>1, <3>2, <3>3 DEF IInv
  <2>3. CASE UNCHANGED vars
    BY <2>3
    DEF vars, IInv, TypeOK, BornInv, SystemInv, CurInv, LookInv, Look, TeardownInv, Ending,
        TearingDown, Spared, Nested
  <2> QED  BY <2>1, <2>2, <2>3 DEF Next
<1> QED  BY <1>1, <1>2, PTL DEF Spec

\* The variables keep their types.
THEOREM TypeCorrect == Spec => []TypeOK
BY Invariance, PTL DEF IInv

\* However many commands recover at once, none tears down a root of a running
\* launcher: the second look judges a root only by records it reads anew.
THEOREM LiveLaunchersSpared == Spec => []LiveLauncherSpared
<1>1. IInv => LiveLauncherSpared
  BY DEF IInv, TeardownInv, Ending, Spared, LiveLauncherSpared
<1> QED  BY <1>1, Invariance, PTL

\* Processes that outlive their launcher, and were there when the second look
\* began, are gone when a recovery tears down their root or its parent.
THEOREM OrphansAlwaysSpared == Spec => []OrphansSpared
<1>1. IInv => OrphansSpared
  BY DEF IInv, TeardownInv, Ending, OrphansSpared
<1> QED  BY <1>1, Invariance, PTL

\* What is mounted is recorded, whoever dies half-way.
THEOREM MountsAlwaysRecorded == Spec => []MountsRecorded
<1>1. IInv => MountsRecorded
  BY DEF IInv, SystemInv, MountsRecorded
<1> QED  BY <1>1, Invariance, PTL

-------------------------------------------------------------------------------
(***************************************************************************)
(* The run records that recoveries read and remove are files that          *)
(* write_atomic publishes.  What RecordStorage promises of it, for any     *)
(* number of processes, records and contents.                              *)
(***************************************************************************)
\* A process inside write_atomic knows what it writes, and what it is about to
\* rename is its own temporary file, with that content.
WriterHolds ==
    \A p \in Process :
        /\ writer[p] \in {"create", "write", "rename"} => arg[p] # NoWrite
        /\ writer[p] = "rename" => temp[TempName(p, arg[p].key)] = arg[p].value

RecordInv == RecordsTypeOK /\ RecordsWhole /\ WriterHolds

\* The invariant holds before the first write, over any records there are.
LEMMA RecordInit == RecordsInit => RecordInv
BY ContentAssumption DEF RecordsInit, RecordInv, RecordsTypeOK, RecordsWhole, WriterHolds,
   Content, WriterPCs, Temp, TempName

\* write_atomic: the create, the write and the rename.
LEMMA WriteStep ==
    ASSUME RecordInv, NEW p \in Process,
           StartWrite(p) \/ CreateTemp(p) \/ WriteTemp(p) \/ RenameTemp(p)
    PROVE  RecordInv'
<1> USE ContentAssumption DEF RecordInv, RecordsTypeOK, RecordsWhole, WriterHolds,
        Content, WriterPCs, Temp, TempName, WriterGoto
<1>1. CASE StartWrite(p)
  <2>1. PICK k \in Key, v \in Value :
           arg' = [arg EXCEPT ![p] = [key |-> k, value |-> v]]
    BY <1>1 DEF StartWrite
  <2>2. RecordsTypeOK' /\ RecordsWhole'
    BY <1>1, <2>1 DEF StartWrite
  <2>3. WriterHolds'
    BY <1>1, <2>1 DEF StartWrite
  <2> QED BY <2>2, <2>3
<1>2. CASE CreateTemp(p)
  <2>1. RecordsTypeOK' /\ RecordsWhole'
    BY <1>2 DEF CreateTemp
  <2>2. WriterHolds'
    BY <1>2 DEF CreateTemp
  <2> QED BY <2>1, <2>2
<1>3. CASE WriteTemp(p)
  <2>1. RecordsTypeOK' /\ RecordsWhole'
    BY <1>3 DEF WriteTemp
  <2>2. WriterHolds'
    BY <1>3 DEF WriteTemp
  <2> QED BY <2>1, <2>2
<1>4. CASE RenameTemp(p)
  <2>1. /\ arg[p] \in [key : Key, value : Value]
        /\ temp[<<arg[p].key, p>>] = arg[p].value
    BY <1>4 DEF RenameTemp
  <2>2. RecordsTypeOK'
    BY <1>4, <2>1 DEF RenameTemp
  <2>3. RecordsWhole'
    BY <1>4, <2>1 DEF RenameTemp
  <2>4. WriterHolds'
    BY <1>4, <2>1 DEF RenameTemp
  <2> QED BY <2>2, <2>3, <2>4
<1> QED BY <1>1, <1>2, <1>3, <1>4

\* The other steps leave the temporary files alone.
LEMMA OtherStep ==
    ASSUME RecordInv, NEW p \in Process,
           \/ RemoveRecord(p) \/ Crash(p)
           \/ OpenDirectory(p) \/ ReadEntry(p) \/ CloseDirectory(p)
    PROVE  RecordInv'
<1> USE ContentAssumption DEF RecordInv, RecordsTypeOK, RecordsWhole, WriterHolds,
        Content, WriterPCs, Temp, TempName, WriterGoto
<1>1. CASE RemoveRecord(p)
  BY <1>1 DEF RemoveRecord
<1>2. CASE Crash(p)
  <2>1. RecordsTypeOK' /\ RecordsWhole'
    BY <1>2 DEF Crash
  <2>2. WriterHolds'
    BY <1>2 DEF Crash
  <2> QED BY <2>1, <2>2
<1>3. CASE OpenDirectory(p)
  <2>1. Entries \in SUBSET Entry
    BY DEF Entries, Entry
  <2>2. RecordsTypeOK' /\ RecordsWhole'
    BY <1>3, <2>1 DEF OpenDirectory
  <2>3. WriterHolds'
    BY <1>3 DEF OpenDirectory
  <2> QED BY <2>2, <2>3
<1>4. CASE ReadEntry(p)
  <2>1. PICK entry \in names[p] :
           \/ /\ found' = [found EXCEPT ![p] = @ \cup {EntryKey(entry)}]
              /\ names' = [names EXCEPT ![p] = @ \ {entry}]
              /\ UNCHANGED writer
           \/ WriterGoto(p, "failed") /\ UNCHANGED <<names, found>>
    BY <1>4 DEF ReadEntry
  <2>2. EntryKey(entry) \in Key
    <3>1. entry \in Entry
      BY <2>1
    <3>2. \A t \in Temp : t[1] \in Key
      OBVIOUS
    <3> QED BY <3>1, <3>2 DEF EntryKey, Entry
  <2>3. UNCHANGED <<record, temp, arg, crashes>> /\ writer[p] = "list"
    BY <1>4 DEF ReadEntry
  <2>4. RecordsTypeOK'
    BY <2>1, <2>2, <2>3
  <2>5. RecordsWhole' /\ WriterHolds'
    BY <2>1, <2>3
  <2> QED BY <2>4, <2>5
<1>5. CASE CloseDirectory(p)
  BY <1>5 DEF CloseDirectory
<1> QED BY <1>1, <1>2, <1>3, <1>4, <1>5

\* Every reachable state satisfies the invariant.
THEOREM RecordInvariance == RecordsSpec => []RecordInv
<1>1. RecordInv /\ [RecordsNext]_recordVars => RecordInv'
  <2> SUFFICES ASSUME RecordInv, [RecordsNext]_recordVars PROVE RecordInv'
    OBVIOUS
  <2>1. CASE RecordsNext
    BY <2>1, WriteStep, OtherStep DEF RecordsNext
  <2>2. CASE UNCHANGED recordVars
    BY <2>2 DEF recordVars, RecordInv, RecordsTypeOK, RecordsWhole, WriterHolds, TempName
  <2> QED BY <2>1, <2>2
<1> QED BY RecordInit, <1>1, PTL DEF RecordsSpec

\* Every record, temporary file and listing keeps its type: whatever a rename
\* publishes is a content that some caller handed to write_atomic.
THEOREM RecordTypeCorrect == RecordsSpec => []RecordsTypeOK
BY RecordInvariance, PTL DEF RecordInv

\* get_app finds a whole record or none: no process, killed or running, leaves
\* an empty file under a record's name.
THEOREM RecordsAlwaysWhole == RecordsSpec => []RecordsWhole
BY RecordInvariance, PTL DEF RecordInv

\* The rename of write_atomic publishes what its own process wrote, whoever
\* else writes the same record.
THEOREM WritersPublishTheirOwn == RecordsSpec => PublishesOwn
<1>1. RecordInv /\ [RecordsNext]_recordVars =>
        [\A p \in Process : RenameTemp(p) => record'[arg[p].key] = arg[p].value]_recordVars
  <2> SUFFICES ASSUME RecordInv, NEW p \in Process, RenameTemp(p)
               PROVE  record'[arg[p].key] = arg[p].value
    OBVIOUS
  <2>1. /\ arg[p] \in [key : Key, value : Value]
        /\ temp[TempName(p, arg[p].key)] = arg[p].value
    BY DEF RecordInv, RecordsTypeOK, WriterHolds, RenameTemp
  <2> QED BY <2>1 DEF RenameTemp, RecordInv, RecordsTypeOK
<1> QED BY <1>1, RecordInvariance, PTL DEF RecordsSpec, PublishesOwn
===============================================================================
