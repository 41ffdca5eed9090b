--------------------------- MODULE DeploymentsProofs ---------------------------
(***************************************************************************)
(* Proofs about Deployments, for any processes, applications, runtimes,    *)
(* generations and offers, with any commands that overlap or not.          *)
(***************************************************************************)
EXTENDS Deployments, TLAPS

Fields == {"cmd", "at", "tgt", "copy", "keep", "doomed", "elders"}

\* The local state of a process is a record.
JobShape == DOMAIN job = Process /\ \A p \in Process : DOMAIN job[p] = Fields

AppRecs == [App -> Pair \cup {NoRecord}]

\* What a command works on once it has chosen.
Target(c, t) ==
    /\ c \in {"install", "update", "run"} =>
           t.app \in App /\ t.adir \in AppDir /\ t.rdir \in RuntimeDir
    /\ c \in {"install", "update", "install_runtime", "update_runtime"} =>
           t.rdir \in RuntimeDir /\ t.dirs \subseteq Dest
    /\ c = "update" => t.old.record.adir \in Dest
    /\ c = "update_runtime" => t.listed \in AppRecs
    /\ c \in {"uninstall", "uninstall_runtime", "uninstall_unused"} => t.dir \in Dest

\* The places at which a command has chosen.
Busy == {"deploy", "pin", "unpin", "record_runtime", "record_app", "replaced",
         "scrub", "unrecord", "pin_run", "mount", "done"}

\* The places of a startup, which a deployment passes once more.
Binding == {"startup", "list_bindings", "bind"}

\* The commands that get to a place.
Place(label, c) ==
    /\ label \in Command => c = label
    /\ label \in {"pin", "unpin", "record_app", "replaced"} => c \in {"install", "update"}
    /\ label \in {"deploy", "record_runtime"} =>
           c \in {"install", "update", "install_runtime", "update_runtime"}
    /\ label = "unrecord" => c \in {"uninstall", "uninstall_runtime", "uninstall_unused"}
    /\ label = "scrub" =>
           c \in {"update", "uninstall", "uninstall_runtime", "uninstall_unused"}
    /\ label \in {"pin_run", "mount"} => c = "run"

JobOK(j) ==
    /\ j.cmd \in Command \cup {"none"}
    /\ Place(j.at, j.cmd)
    /\ j.tgt = NoRecord \/ Target(j.cmd, j.tgt)
    /\ j.at \in Busy => Target(j.cmd, j.tgt)
    /\ j.at \in Binding /\ j.tgt # NoRecord =>
           j.cmd \in {"install", "update", "install_runtime", "update_runtime"}
    /\ j.copy = NoRecord \/ j.copy \in AppRecs
    /\ j.at = "bind" => j.copy \in AppRecs
    /\ j.keep \subseteq Dest
    /\ j.doomed \subseteq Path

JobInv == \A p \in Process : JobOK(job[p])

\* The types of what is on disk.
TreeTypes == S!TypeOK /\ gutted \subseteq {d \in Dest : dest[d] \in Commit}

RecordTypes ==
    /\ appRec \in AppRecs
    /\ rtRec \in [Runtime -> RuntimeDir \cup {NoRecord}]
    /\ runs \subseteq RunRecord

TypeInv == TreeTypes /\ RecordTypes /\ commands \in 0..MaxCommands /\ JobShape /\ JobInv

\* A step leaves the local state of the other processes alone.
Others(p) == \A q \in Process : q # p => job'[q] = job[q]

-------------------------------------------------------------------------------
(***************************************************************************)
(* What the vocabulary of the model does to the local state of a process   *)
(***************************************************************************)

\* Go moves a process to a place.
LEMMA GoEffect ==
    ASSUME JobShape, NEW p \in Process, NEW label, Go(p, label)
    PROVE  /\ JobShape' /\ Others(p)
           /\ job'[p].at = label
           /\ job'[p].cmd = job[p].cmd /\ job'[p].tgt = job[p].tgt
           /\ job'[p].copy = job[p].copy /\ job'[p].keep = job[p].keep
           /\ job'[p].doomed = job[p].doomed /\ job'[p].elders = job[p].elders
  BY DEF JobShape, Fields, Go, Others

\* A process whose command is over has no local state.
LEMMA EndEffect ==
    ASSUME JobShape, NEW p \in Process, End(p)
    PROVE  JobShape' /\ Others(p) /\ job'[p] = Idle
  BY DEF JobShape, Fields, End, Idle, Others

-------------------------------------------------------------------------------
(***************************************************************************)
(* Storage keeps its types, whoever changes the trees meanwhile            *)
(***************************************************************************)

\* SetStaging writes a content.
LEMMA SetStagingType ==
    ASSUME S!TypeOK, NEW a \in S!Activation, NEW content \in S!Contents,
           S!SetStaging(a, content)
    PROVE  staging' \in [Dest -> [Commit -> S!Contents]]
<1>1. a.dest \in Dest /\ a.commit \in Commit
  BY DEF S!Activation
<1> QED  BY <1>1 DEF S!TypeOK, S!SetStaging

\* Leaving the storage keeps the types of the local state.
LEMMA LeaveType ==
    ASSUME S!TypeOK, NEW p \in Process, S!Leave(p)
    PROVE  /\ lock' \in Process \cup {Free}
           /\ pc' \in [Process -> S!PCs]
           /\ mode' \in [Process -> {"recover", "deploy"}]
           /\ plan' \in [Process -> SUBSET S!Activation]
           /\ work' \in [Process -> SUBSET S!Activation]
           /\ todo' \in [Process -> SUBSET S!Activation]
           /\ cur' \in [Process -> S!Activation]
<1>1. cur[p] \in S!Activation
  BY DEF S!TypeOK
<1>2. S!AnyActivation \in S!Activation
  BY <1>1 DEF S!AnyActivation
<1> QED  BY <1>2 DEF S!TypeOK, S!Leave, S!Goto, S!PCs

LEMMA OpenType ==
    ASSUME S!TypeOK, NEW p \in Process, S!Open(p) PROVE S!TypeOK'
  BY DEF S!TypeOK, S!Open, S!Goto, S!PCs, S!files

LEMMA BeginType ==
    ASSUME S!TypeOK, NEW p \in Process, NEW asked \in SUBSET S!Activation, NEW forced,
           S!BeginPlan(p, asked, forced)
    PROVE  S!TypeOK'
<1>1. {a \in asked : a \in forced \/ ~S!Matches(a)} \in SUBSET S!Activation
  OBVIOUS
<1> QED  BY <1>1 DEF S!TypeOK, S!BeginPlan, S!Goto, S!PCs, S!files

\* A step of deploy or of a recovery.
LEMMA WorkType ==
    ASSUME S!TypeOK, NEW p \in Process, S!Work(p) PROVE S!TypeOK'
<1> DEFINE a == cur[p]
<1>1. /\ a \in S!Activation /\ a.dest \in Dest /\ a.commit \in Commit
      /\ \A b \in todo[p] : b \in S!Activation /\ b.dest \in Dest
  BY DEF S!TypeOK, S!Activation
<1>2. \A c : S!Erode(c) \in S!Contents
  BY DEF S!Erode, S!Contents
<1>3. /\ Absent \in S!Contents /\ Broken \in S!Contents
      /\ a.commit \in S!Contents
  BY <1>1 DEF S!Contents
<1>4. CASE S!RecoverEntry(p)
  <2> PICK b \in todo[p] : \/ S!RecoverStaged(p, b) \/ S!RecoverActivated(p, b)
                           \/ S!RecoverRestored(p, b) \/ S!RecoverLost(p, b)
    BY <1>4 DEF S!RecoverEntry
  <2>1. b \in S!Activation /\ b.dest \in Dest
    BY <1>1
  <2>2. CASE S!RecoverStaged(p, b)
    BY <2>1, <2>2 DEF S!TypeOK, S!RecoverStaged, S!Goto, S!PCs, S!files
  <2>3. CASE S!RecoverActivated(p, b)
    BY <2>3 DEF S!TypeOK, S!RecoverActivated, S!files
  <2>4. CASE S!RecoverRestored(p, b)
    BY <2>1, <2>4, <1>3, LeaveType DEF S!TypeOK, S!RecoverRestored
  <2>5. CASE S!RecoverLost(p, b)
    BY <2>5, LeaveType DEF S!TypeOK, S!RecoverLost, S!files
  <2> QED  BY <2>2, <2>3, <2>4, <2>5
<1>5. CASE S!Stage(p)
  BY <1>5 DEF S!TypeOK, S!Stage, S!Goto, S!PCs, S!files
<1>6. CASE S!Unstage(p)
  <2>1. staging' \in [Dest -> [Commit -> S!Contents]]
    BY <1>1, <1>2, <1>6, SetStagingType DEF S!Unstage
  <2> QED  BY <2>1, <1>6 DEF S!TypeOK, S!Unstage, S!Goto, S!PCs
<1>7. CASE S!Checkout(p)
  <2>1. staging' \in [Dest -> [Commit -> S!Contents]]
    BY <1>1, <1>3, <1>7, SetStagingType DEF S!Checkout
  <2> QED  BY <2>1, <1>7 DEF S!TypeOK, S!Checkout, S!Goto, S!PCs
<1>8. CASE S!Seal(p)
  <2>1. staging' \in [Dest -> [Commit -> S!Contents]]
    BY <1>1, <1>3, <1>8, SetStagingType DEF S!Seal
  <2> QED  BY <2>1, <1>8 DEF S!TypeOK, S!Seal, S!Goto, S!PCs
<1>9. CASE S!CheckoutFails(p)
  <2>1. staging' \in [Dest -> [Commit -> S!Contents]]
    BY <1>1, <1>3, <1>9, SetStagingType DEF S!CheckoutFails
  <2> QED  BY <2>1, <1>9, LeaveType DEF S!TypeOK, S!CheckoutFails
<1>10. CASE S!Publish(p)
  BY <1>10 DEF S!TypeOK, S!Publish, S!Goto, S!PCs
<1>11. CASE S!ActivateEntry(p)
  BY <1>11 DEF S!TypeOK, S!ActivateEntry, S!Goto, S!PCs, S!files
<1>12. CASE S!DropBackup(p)
  BY <1>1, <1>2, <1>12 DEF S!TypeOK, S!DropBackup, S!Goto, S!PCs
<1>13. CASE S!Preserve(p)
  <2>1. /\ dest' \in [Dest -> S!Contents]
        /\ backup' \in [Dest -> S!Contents]
    BY <1>1, <1>3, <1>13 DEF S!TypeOK, S!Preserve
  <2> QED  BY <2>1, <1>13 DEF S!TypeOK, S!Preserve, S!Goto, S!PCs
<1>14. CASE S!Activate(p) /\ staging[a.dest][a.commit] = Absent
  BY <1>14, LeaveType DEF S!TypeOK, S!Activate, S!files
<1>15. CASE S!Activate(p) /\ staging[a.dest][a.commit] # Absent
  <2>1. S!RenameStaging(p)
    BY <1>15 DEF S!Activate
  <2>2. staging' \in [Dest -> [Commit -> S!Contents]]
    BY <1>1, <1>3, <2>1, SetStagingType DEF S!RenameStaging
  <2>3. dest' \in [Dest -> S!Contents]
    BY <1>1, <2>1 DEF S!TypeOK, S!RenameStaging
  <2> QED  BY <2>1, <2>2, <2>3 DEF S!TypeOK, S!RenameStaging, S!Goto, S!PCs
<1>16. CASE S!EntriesDone(p)
  BY <1>16 DEF S!TypeOK, S!EntriesDone, S!Goto, S!PCs, S!files
<1>17. CASE S!CleanBackup(p)
  <2> PICK b \in todo[p] :
        /\ backup' = [backup EXCEPT ![b.dest] = S!Erode(@)]
        /\ todo' = [todo EXCEPT ![p] = IF backup[b.dest] = Absent THEN @ \ {b} ELSE @]
    BY <1>17 DEF S!CleanBackup
  <2>1. /\ backup' \in [Dest -> S!Contents]
        /\ todo' \in [Process -> SUBSET S!Activation]
    BY <1>1, <1>2 DEF S!TypeOK
  <2> QED  BY <2>1, <1>17 DEF S!TypeOK, S!CleanBackup
<1>18. CASE S!Complete(p)
  BY <1>18 DEF S!TypeOK, S!Complete, S!Goto, S!PCs
<1> QED
  BY <1>4, <1>5, <1>6, <1>7, <1>8, <1>9, <1>10, <1>11, <1>12, <1>13, <1>14, <1>15,
     <1>16, <1>17, <1>18 DEF S!Work

\* Closing the storage, or a crash inside it.
LEMMA LeavingType ==
    ASSUME S!TypeOK, NEW p \in Process, S!Close(p) \/ S!Abort(p) PROVE S!TypeOK'
<1>1. CASE S!Close(p)
  BY <1>1, LeaveType DEF S!TypeOK, S!Close, S!files
<1>2. CASE S!Abort(p)
  <2>1. aborts' \in 0..MaxAborts
    BY <1>2, StorageAssumption DEF S!TypeOK, S!Abort
  <2> QED  BY <1>2, <2>1, LeaveType DEF S!TypeOK, S!Abort, S!files
<1> QED  BY <1>1, <1>2

-------------------------------------------------------------------------------
(***************************************************************************)
(* The types of the records and of the local state of the commands         *)
(***************************************************************************)

\* A step that leaves the disk alone leaves its types alone.
LEMMA DiskFrame ==
    ASSUME TypeInv, UNCHANGED storage
    PROVE  TreeTypes'
  BY DEF TypeInv, TreeTypes, S!TypeOK, storage, trees

LEMMA RecordFrame ==
    ASSUME TypeInv, UNCHANGED records
    PROVE  RecordTypes'
  BY DEF TypeInv, RecordTypes, records

\* Only the state of p has to be looked at after a step of p.
LEMMA JobFrame ==
    ASSUME JobInv, NEW p \in Process, Others(p), JobOK(job'[p])
    PROVE  JobInv'
  BY DEF JobInv, Others

LEMMA IdleOK == JobOK(Idle)
  BY DEF JobOK, Idle, Place, Busy, Binding, Command

\* A command goes on to a place that it may be at.
LEMMA GoOK ==
    ASSUME JobShape, JobInv, NEW p \in Process, NEW label, Go(p, label),
           Place(label, job[p].cmd),
           label \in Busy => Target(job[p].cmd, job[p].tgt),
           label \in Binding /\ job[p].tgt # NoRecord =>
               job[p].cmd \in {"install", "update", "install_runtime", "update_runtime"},
           label = "bind" => job[p].copy \in AppRecs
    PROVE  JobShape' /\ JobInv'
<1>1. JobOK(job[p])
  BY DEF JobInv
<1>2. JobOK(job'[p])
  BY <1>1, GoEffect DEF JobOK
<1> QED  BY <1>2, GoEffect, JobFrame

LEMMA EndOK ==
    ASSUME JobShape, JobInv, NEW p \in Process, End(p)
    PROVE  JobShape' /\ JobInv'
  BY EndEffect, JobFrame, IdleOK

\* The directories that a choice names are activations of the storage.
LEMMA ActType ==
    ASSUME NEW dirs \in SUBSET Dest
    PROVE  {Act(d) : d \in dirs} \in SUBSET S!Activation
  BY GenerationAssumption DEF Act, S!Activation

LEMMA StorageTypes ==
    ASSUME TypeInv, NEW p \in Process,
           \/ OpenStorage(p) \/ Deploy(p) \/ StorageWork(p) \/ CloseStorage(p) \/ Crash(p)
    PROVE  TypeInv'
<1> USE DEF TypeInv
<1>1. RecordTypes'
  BY RecordFrame DEF OpenStorage, Deploy, StorageWork, CloseStorage, Crash
<1>2. commands' \in 0..MaxCommands
  BY DEF OpenStorage, Deploy, StorageWork, CloseStorage, Crash
<1>3. CASE OpenStorage(p)
  <2>1. TreeTypes'
    BY <1>3, OpenType DEF OpenStorage, TreeTypes, S!Open, S!files
  <2> QED  BY <1>1, <1>2, <1>3, <2>1 DEF OpenStorage, JobShape, JobInv
<1>4. CASE Deploy(p)
  <2> DEFINE t == job[p].tgt
  <2>1. Target(job[p].cmd, t) /\ Place("deploy", job[p].cmd)
    BY <1>4 DEF Deploy, At, JobInv, JobOK, Busy
  <2>2. t.dirs \in SUBSET Dest
    BY <2>1 DEF Target, Place
  <2>3. S!TypeOK'
    BY <1>4, <2>2, ActType, BeginType DEF Deploy, TreeTypes
  <2>4. TreeTypes'
    BY <1>4, <2>3 DEF Deploy, TreeTypes, S!BeginPlan, S!files
  <2> QED  BY <1>1, <1>2, <1>4, <2>4 DEF Deploy, JobShape, JobInv
<1>5. CASE StorageWork(p)
  <2>1. S!TypeOK'
    BY <1>5, WorkType DEF StorageWork, TreeTypes
  <2>2. TreeTypes'
    BY <1>5, <2>1 DEF StorageWork, TreeTypes, Regenerate
  <2>3. JobShape' /\ JobInv'
    <3>1. CASE End(p)
      BY <3>1, EndOK
    <3>2. CASE UNCHANGED job
      BY <3>2 DEF JobShape, JobInv
    <3> QED  BY <1>5, <3>1, <3>2 DEF StorageWork
  <2> QED  BY <1>1, <1>2, <2>2, <2>3
<1>6. CASE CloseStorage(p)
  <2>1. TreeTypes'
    BY <1>6, LeavingType DEF CloseStorage, TreeTypes, S!Close, S!files
  <2>2. JobShape' /\ JobInv'
    <3>1. ASSUME At(p, "deploy"), NEW label \in {"record_runtime", "pin"},
                 label = "pin" => ~RuntimeOnly(p)
          PROVE  /\ Place(label, job[p].cmd) /\ Target(job[p].cmd, job[p].tgt)
                 /\ label \notin Binding
      BY <3>1 DEF JobInv, JobOK, At, Place, Busy, Binding, RuntimeOnly, Command
    <3>2. CASE At(p, "deploy")
                 /\ Go(p, IF RuntimeOnly(p) THEN "record_runtime" ELSE "pin")
      BY <3>1, <3>2, GoOK DEF Binding
    <3>3. CASE At(p, "startup") /\ Go(p, "list_bindings")
      BY <3>3, GoOK DEF JobInv, JobOK, At, Place, Busy, Binding, Command
    <3>5. CASE Go(p, "keep_apps")
      BY <3>5, GoOK DEF Place, Busy, Binding, Command
    <3>4. CASE End(p)
      BY <3>4, EndOK
    <3> QED  BY <1>6, <3>2, <3>3, <3>4, <3>5 DEF CloseStorage
  <2> QED  BY <1>1, <1>2, <2>1, <2>2
<1>7. CASE Crash(p)
  <2>1. ASSUME pc[p] = "idle" PROVE TreeTypes'
    BY <1>7, <2>1, StorageAssumption DEF Crash, TreeTypes, S!TypeOK
  <2>2. ASSUME pc[p] # "idle" PROVE TreeTypes'
    BY <1>7, <2>2, LeavingType DEF Crash, TreeTypes, S!Abort, S!files
  <2>3. End(p)
    BY <1>7 DEF Crash
  <2> QED  BY <1>1, <1>2, <2>1, <2>2, <2>3, EndOK
<1> QED  BY <1>3, <1>4, <1>5, <1>6, <1>7

LEMMA StartupTypes ==
    ASSUME TypeInv, NEW p \in Process,
           Start(p) \/ ListBindings(p) \/ Bind(p) \/ Bound(p)
    PROVE  TypeInv'
<1> USE DEF TypeInv
<1>1. TreeTypes'
  BY DiskFrame DEF Start, ListBindings, Bind, Bound
<1>2. CASE Start(p)
  <2>1. RecordTypes'
    BY <1>2 DEF Start, RecordTypes
  <2>5. commands' \in 0..MaxCommands
    <3>1. commands < MaxCommands /\ commands' = commands + 1
      BY <1>2 DEF Start
    <3>2. MaxCommands \in Nat
      BY InstanceAssumption
    <3> QED  BY <3>1, <3>2
  <2>2. PICK c \in Commands :
          job' = [job EXCEPT ![p] = [Idle EXCEPT !.cmd = c, !.at = "startup",
                                                 !.elders = Mounted]]
    BY <1>2 DEF Start
  <2>3. /\ JobShape' /\ Others(p)
        /\ job'[p] = [Idle EXCEPT !.cmd = c, !.at = "startup", !.elders = Mounted]
    BY <2>2 DEF JobShape, Fields, Others, Idle
  <2>4. JobOK(job'[p])
    BY <2>3, InstanceAssumption DEF JobOK, Idle, Place, Busy, Binding, Command
  <2> QED  BY <1>1, <2>1, <2>3, <2>4, <2>5, JobFrame
<1>3. CASE ListBindings(p)
  <2>1. RecordTypes' /\ commands' \in 0..MaxCommands
    BY <1>3, RecordFrame DEF ListBindings
  <2>2. /\ JobShape' /\ Others(p)
        /\ job'[p].at = "bind" /\ job'[p].copy = appRec
        /\ job'[p].cmd = job[p].cmd /\ job'[p].tgt = job[p].tgt
        /\ job'[p].keep = job[p].keep /\ job'[p].doomed = job[p].doomed
    BY <1>3 DEF ListBindings, JobShape, Fields, Others
  <2>3. JobOK(job'[p])
    BY <1>3, <2>2 DEF ListBindings, At, JobInv, JobOK, Place, Busy, Binding, Command,
       RecordTypes
  <2> QED  BY <1>1, <2>1, <2>2, <2>3, JobFrame
<1>4. CASE Bind(p)
  <2> DEFINE copy == job[p].copy
  <2>1. copy \in AppRecs
    BY <1>4 DEF Bind, At, JobInv, JobOK
  <2> PICK a \in App :
        /\ copy[a] # NoRecord
        /\ appRec' = IF rtRec[RefOf[copy[a].rdir]] \in {NoRecord, copy[a].rdir} THEN appRec
                     ELSE [appRec EXCEPT
                             ![a] = [copy[a] EXCEPT !.rdir = rtRec[RefOf[copy[a].rdir]]]]
        /\ job' = [job EXCEPT ![p].copy[a] = NoRecord]
    BY <1>4 DEF Bind
  <2>2. copy[a] \in Pair
    BY <2>1 DEF AppRecs
  <2>3. copy[a].rdir \in RuntimeDir /\ RefOf[copy[a].rdir] \in Runtime
    BY <2>2, GenerationAssumption DEF Pair
  <2>4. rtRec[RefOf[copy[a].rdir]] \in RuntimeDir \cup {NoRecord}
    BY <2>3 DEF RecordTypes
  <2>5. appRec' \in AppRecs
    BY <2>2, <2>4 DEF RecordTypes, AppRecs, Pair
  <2>6. RecordTypes' /\ commands' \in 0..MaxCommands
    BY <1>4, <2>5 DEF Bind, RecordTypes
  <2>7. /\ JobShape' /\ Others(p)
        /\ job'[p].at = job[p].at /\ job'[p].copy = [copy EXCEPT ![a] = NoRecord]
        /\ job'[p].cmd = job[p].cmd /\ job'[p].tgt = job[p].tgt
        /\ job'[p].keep = job[p].keep /\ job'[p].doomed = job[p].doomed
    BY DEF JobShape, Fields, Others
  <2>8. job'[p].copy \in AppRecs
    BY <2>1, <2>7 DEF AppRecs
  <2>9. JobOK(job'[p])
    BY <2>7, <2>8 DEF JobInv, JobOK
  <2> QED  BY <1>1, <2>6, <2>7, <2>9, JobFrame
<1>5. CASE Bound(p)
  <2>1. RecordTypes' /\ commands' \in 0..MaxCommands
    BY <1>5, RecordFrame DEF Bound
  <2>2. /\ JobShape' /\ Others(p)
        /\ job'[p].at = IF job[p].tgt = NoRecord \/ RuntimeOnly(p)
                        THEN "keep_apps" ELSE "replaced"
        /\ job'[p].copy = NoRecord
        /\ job'[p].cmd = job[p].cmd /\ job'[p].tgt = job[p].tgt
        /\ job'[p].keep = job[p].keep /\ job'[p].doomed = job[p].doomed
    BY <1>5 DEF Bound, JobShape, Fields, Others
  <2>3. JobOK(job'[p])
    <3>1. JobOK(job[p]) /\ job[p].at = "bind"
      BY <1>5 DEF Bound, At, JobInv
    <3>2. CASE job[p].tgt = NoRecord \/ RuntimeOnly(p)
      BY <3>1, <3>2, <2>2 DEF JobOK, Place, Busy, Binding, Command
    <3>3. CASE ~(job[p].tgt = NoRecord \/ RuntimeOnly(p))
      <4>1. job[p].cmd \in {"install", "update"} /\ Target(job[p].cmd, job[p].tgt)
        BY <3>1, <3>3 DEF JobOK, Binding, RuntimeOnly
      <4> QED  BY <3>1, <3>3, <4>1, <2>2 DEF JobOK, Place, Busy, Binding, Command
    <3> QED  BY <3>2, <3>3
  <2> QED  BY <1>1, <2>1, <2>2, <2>3, JobFrame
<1> QED  BY <1>2, <1>3, <1>4, <1>5

\* A step of a removal keeps the types of the trees.
LEMMA RemoveType ==
    ASSUME TreeTypes, NEW path \in Path, Remove(path)
    PROVE  TreeTypes'
<1> DEFINE d == path.dir
<1>1. d \in Dest /\ CommitOf[d] \in Commit
  BY GenerationAssumption DEF Path
<1>2. /\ Broken \in S!Contents /\ Absent \in S!Contents
      /\ \A c : S!Erode(c) \in S!Contents
  BY DEF S!Contents, S!Erode
<1>3. dest' \in [Dest -> S!Contents]
  BY <1>1, <1>2 DEF TreeTypes, S!TypeOK, Remove
<1>4. staging' \in [Dest -> [Commit -> S!Contents]]
  BY <1>1, <1>2 DEF TreeTypes, S!TypeOK, Remove
<1>5. backup' \in [Dest -> S!Contents]
  BY <1>1, <1>2 DEF TreeTypes, S!TypeOK, Remove
<1>6. gutted' \subseteq {e \in Dest : dest'[e] \in Commit}
  <2>1. ASSUME path.kind = "dest", Whole(path), gutted' = gutted \cup {d}, dest' = dest
        PROVE  gutted' \subseteq {e \in Dest : dest'[e] \in Commit}
    BY <1>1, <2>1 DEF TreeTypes, Whole, Content
  <2>2. ASSUME gutted' = gutted \ {d}, NEW c, dest' = [dest EXCEPT ![d] = c]
        PROVE  gutted' \subseteq {e \in Dest : dest'[e] \in Commit}
    BY <2>2 DEF TreeTypes, S!TypeOK
  <2>3. ASSUME UNCHANGED <<dest, gutted>>
        PROVE  gutted' \subseteq {e \in Dest : dest'[e] \in Commit}
    BY <2>3 DEF TreeTypes
  <2> QED  BY <2>1, <2>2, <2>3 DEF Remove
<1> QED  BY <1>3, <1>4, <1>5, <1>6 DEF TreeTypes, S!TypeOK, Remove

\* What a cleanup protects and what it removes.
LEMMA KeepTypes ==
    ASSUME RecordTypes
    PROVE  /\ UNION {{appRec[a].adir, appRec[a].rdir} : a \in Installed} \subseteq Dest
           /\ {rtRec[r] : r \in Runtime} \ {NoRecord} \subseteq Dest
           /\ UNION {{r.adir, r.rdir} : r \in runs} \subseteq Dest
<1>1. \A a \in Installed : appRec[a].adir \in Dest /\ appRec[a].rdir \in Dest
  BY GenerationAssumption DEF RecordTypes, AppRecs, Installed, Pair
<1>2. \A r \in runs : r.adir \in Dest /\ r.rdir \in Dest
  BY GenerationAssumption DEF RecordTypes, RunRecord
<1>3. {rtRec[r] : r \in Runtime} \ {NoRecord} \subseteq Dest
  BY GenerationAssumption DEF RecordTypes
<1> QED  BY <1>1, <1>2, <1>3

LEMMA CleanupTypes ==
    ASSUME TypeInv, NEW p \in Process,
           \/ KeepApps(p) \/ KeepRuntimes(p) \/ KeepRuns(p) \/ ListRuntimes(p)
           \/ ListApps(p) \/ Sweep(p) \/ Swept(p) \/ Done(p) \/ Decline(p)
    PROVE  TypeInv'
<1> USE DEF TypeInv
<1> DEFINE Same(keep, doomed, label) ==
             /\ JobShape' /\ Others(p)
             /\ job'[p].cmd = job[p].cmd /\ job'[p].tgt = job[p].tgt
             /\ job'[p].copy = job[p].copy
             /\ job'[p].keep = keep /\ job'[p].doomed = doomed /\ job'[p].at = label
<1>1. RecordTypes' /\ commands' \in 0..MaxCommands
  BY RecordFrame DEF KeepApps, KeepRuntimes, KeepRuns, ListRuntimes, ListApps, Sweep,
     Swept, Done, Decline
<1>2. JobOK(job[p])
  BY DEF JobInv
<1>3. ASSUME NEW keep \in SUBSET Dest, NEW doomed \in SUBSET Path,
             NEW label, label \in {"keep_runtimes", "keep_runs", "list_runtimes",
                                     "sweep_runtimes", "sweep_apps"},
             Same(keep, doomed, label), UNCHANGED storage
      PROVE  TypeInv'
  <2>1. JobOK(job'[p])
    BY <1>2, <1>3 DEF JobOK, Place, Busy, Binding, Command
  <2> QED  BY <1>1, <1>3, <2>1, DiskFrame, JobFrame
<1>4. job[p].keep \in SUBSET Dest /\ job[p].doomed \in SUBSET Path
  BY <1>2 DEF JobOK
<1>5. CASE KeepApps(p)
  <2> DEFINE k == UNION {{appRec[a].adir, appRec[a].rdir} : a \in Installed}
  <2>1. Same(k, job[p].doomed, "keep_runtimes") /\ UNCHANGED storage
    BY <1>5 DEF KeepApps, JobShape, Fields, Others
  <2>2. k \in SUBSET Dest
    BY KeepTypes
  <2> QED  BY <1>3, <1>4, <2>1, <2>2
<1>6. CASE KeepRuntimes(p)
  <2> DEFINE k == job[p].keep \cup ({rtRec[r] : r \in Runtime} \ {NoRecord})
  <2>1. Same(k, job[p].doomed, "keep_runs") /\ UNCHANGED storage
    BY <1>6 DEF KeepRuntimes, JobShape, Fields, Others
  <2>2. k \in SUBSET Dest
    BY <1>4, KeepTypes
  <2> QED  BY <1>3, <1>4, <2>1, <2>2
<1>7. CASE KeepRuns(p)
  <2> DEFINE k == job[p].keep \cup UNION {{r.adir, r.rdir} : r \in runs}
  <2>1. Same(k, job[p].doomed, "list_runtimes") /\ UNCHANGED storage
    BY <1>7 DEF KeepRuns, JobShape, Fields, Others
  <2>2. k \in SUBSET Dest
    BY <1>4, KeepTypes
  <2> QED  BY <1>3, <1>4, <2>1, <2>2
<1>8. CASE ListRuntimes(p)
  <2>1. Same(job[p].keep, Retired(p, RuntimeDir), "sweep_runtimes") /\ UNCHANGED storage
    BY <1>8 DEF ListRuntimes, JobShape, Fields, Others
  <2>2. Retired(p, RuntimeDir) \in SUBSET Path
    BY DEF Retired
  <2> QED  BY <1>3, <1>4, <2>1, <2>2
<1>9. CASE ListApps(p)
  <2>1. Same(job[p].keep, Retired(p, AppDir), "sweep_apps") /\ UNCHANGED storage
    BY <1>9 DEF ListApps, JobShape, Fields, Others
  <2>2. Retired(p, AppDir) \in SUBSET Path
    BY DEF Retired
  <2> QED  BY <1>3, <1>4, <2>1, <2>2
<1>10. CASE Sweep(p)
  <2> PICK path \in job[p].doomed :
        /\ Remove(path)
        /\ job' = [job EXCEPT ![p].doomed = IF Whole(path) THEN @ ELSE @ \ {path}]
    BY <1>10 DEF Sweep
  <2>1. TreeTypes'
    BY <1>4, RemoveType
  <2> DEFINE doomed == IF Whole(path) THEN job[p].doomed ELSE job[p].doomed \ {path}
  <2>2. Same(job[p].keep, doomed, job[p].at)
    BY DEF JobShape, Fields, Others
  <2>3. doomed \subseteq Path
    BY <1>4
  <2>4. JobOK(job'[p])
    BY <1>2, <2>2, <2>3 DEF JobOK
  <2> QED  BY <1>1, <2>1, <2>2, <2>4, JobFrame
<1>11. CASE Swept(p)
  <2>1. TreeTypes'
    BY <1>11, DiskFrame DEF Swept
  <2>2. CASE job[p].tgt = NoRecord
    <3>1. Go(p, job[p].cmd)
      BY <1>11, <2>2 DEF Swept
    <3>2. Place(job[p].cmd, job[p].cmd) /\ job[p].cmd \notin Busy \cup Binding
      BY <1>2 DEF JobOK, Place, Busy, Binding, Command
    <3> QED  BY <1>1, <2>1, <3>1, <3>2, GoOK DEF Binding
  <2>3. CASE job[p].tgt # NoRecord
    <3>1. Go(p, "done")
      BY <1>11, <2>3 DEF Swept
    <3>2. Place("done", job[p].cmd) /\ Target(job[p].cmd, job[p].tgt)
      BY <1>2, <2>3 DEF JobOK, Place, Command
    <3> QED  BY <1>1, <2>1, <3>1, <3>2, GoOK DEF Binding
  <2> QED  BY <2>2, <2>3
<1>12. CASE Done(p)
  <2>1. TreeTypes'
    BY <1>12, DiskFrame DEF Done
  <2>2. CASE Go(p, "last_refs")
    BY <1>1, <2>1, <2>2, GoOK DEF Place, Command, Busy, Binding
  <2>3. CASE End(p)
    BY <1>1, <2>1, <2>3, EndOK
  <2>4. CASE /\ job[p].cmd = "update_runtime"
             /\ job' = [job EXCEPT ![p].cmd = "update", ![p].at = "update",
                                   ![p].tgt = NoRecord, ![p].copy = job[p].tgt.listed]
    <3>1. /\ JobShape' /\ Others(p)
          /\ job'[p].cmd = "update" /\ job'[p].at = "update" /\ job'[p].tgt = NoRecord
          /\ job'[p].copy = job[p].tgt.listed
          /\ job'[p].keep = job[p].keep /\ job'[p].doomed = job[p].doomed
      BY <2>4 DEF JobShape, Fields, Others
    <3>2. job[p].tgt.listed \in AppRecs
      BY <1>2, <1>12, <2>4 DEF Done, At, JobOK, Busy, Target
    <3>3. JobOK(job'[p])
      BY <1>2, <3>1, <3>2 DEF JobOK, Place, Busy, Binding, Command
    <3> QED  BY <1>1, <2>1, <3>1, <3>3, JobFrame
  <2> QED  BY <1>12, <2>2, <2>3, <2>4 DEF Done
<1>13. CASE Decline(p)
  BY <1>1, <1>13, DiskFrame, EndOK DEF Decline
<1> QED  BY <1>5, <1>6, <1>7, <1>8, <1>9, <1>10, <1>11, <1>12, <1>13

\* What a command has chosen is typed, and it goes on to a place it may be at.
LEMMA ChoiceOK ==
    ASSUME JobShape, JobInv, NEW p \in Process, NEW tgt, NEW label,
           job' = [job EXCEPT ![p].tgt = tgt, ![p].at = label],
           Target(job[p].cmd, tgt), Place(label, job[p].cmd), label \notin Binding
    PROVE  JobShape' /\ JobInv'
<1>1. /\ JobShape' /\ Others(p)
      /\ job'[p].tgt = tgt /\ job'[p].at = label
      /\ job'[p].cmd = job[p].cmd /\ job'[p].copy = job[p].copy
      /\ job'[p].keep = job[p].keep /\ job'[p].doomed = job[p].doomed
  BY DEF JobShape, Fields, Others
<1>2. JobOK(job'[p])
  BY <1>1 DEF JobInv, JobOK, Binding
<1> QED  BY <1>1, <1>2, JobFrame

\* The generations that a command may choose.
LEMMA GenerationTypes ==
    ASSUME NEW family, NEW force
    PROVE  GenerationDir(family, force) \subseteq family
  BY DEF GenerationDir

LEMMA SelectTypes ==
    ASSUME TypeInv, NEW p \in Process, NEW o \in Offers, NEW a, NEW old,
           NEW forceApp, NEW forceRt, Select(p, o, a, old, forceApp, forceRt),
           job[p].cmd \in {"install", "update"},
           job[p].cmd = "update" => old \in Pair
    PROVE  JobShape' /\ JobInv'
<1> DEFINE apps == {d \in AppDir : AppOf[d] = o.app /\ CommitOf[d] = o.commit}
           rts == {d \in RuntimeDir : RefOf[d] = o.ref /\ CommitOf[d] = o.rcommit}
           tgt(adir, rdir) ==
              [app |-> o.app, adir |-> adir, rdir |-> rdir, dirs |-> {adir, rdir},
               force |-> (IF forceApp THEN {adir} ELSE {})
                            \cup (IF forceRt THEN {rdir} ELSE {}),
               old |-> [app |-> a, record |-> old]]
<1>1. PICK adir \in GenerationDir(apps, forceApp) :
      \E rdir \in IF ~forceRt /\ rtRec[o.ref] \in rts THEN {rtRec[o.ref]}
                  ELSE GenerationDir(rts, forceRt) :
          job' = [job EXCEPT ![p].tgt = tgt(adir, rdir), ![p].at = "deploy"]
  BY DEF Select
<1>2. PICK rdir \in IF ~forceRt /\ rtRec[o.ref] \in rts THEN {rtRec[o.ref]}
                    ELSE GenerationDir(rts, forceRt) :
          job' = [job EXCEPT ![p].tgt = tgt(adir, rdir), ![p].at = "deploy"]
  BY <1>1
<1>3. adir \in AppDir /\ rdir \in RuntimeDir
  <2>1. adir \in apps
    BY GenerationTypes
  <2>2. rdir \in rts
    BY GenerationTypes
  <2> QED  BY <2>1, <2>2
<1>4. o.app \in App
  BY GenerationAssumption DEF Offer
<1>5. {adir, rdir} \subseteq Dest
  BY <1>3, GenerationAssumption
<1>6. job[p].cmd = "update" => old.adir \in Dest
  BY GenerationAssumption DEF Pair
<1>7. Target(job[p].cmd, tgt(adir, rdir))
  BY <1>3, <1>4, <1>5, <1>6 DEF Target
<1>8. Place("deploy", job[p].cmd)
  BY DEF Place, Command
<1>9. PICK t : t = tgt(adir, rdir)
  OBVIOUS
<1>10. /\ job' = [job EXCEPT ![p].tgt = t, ![p].at = "deploy"]
       /\ Target(job[p].cmd, t)
  BY <1>2, <1>7, <1>9
<1>11. JobShape /\ JobInv /\ "deploy" \notin Binding
  BY DEF TypeInv, Binding
<1> HIDE DEF tgt
<1> QED  BY <1>8, <1>10, <1>11, ChoiceOK

LEMMA SelectRuntimeTypes ==
    ASSUME TypeInv, NEW p \in Process, NEW o \in Offers, SelectRuntime(p, o),
           RuntimeOnly(p)
    PROVE  JobShape' /\ JobInv'
<1> DEFINE rts == {d \in RuntimeDir : RefOf[d] = o.ref /\ CommitOf[d] = o.rcommit}
<1>1. PICK d \in GenerationDir(rts, TRUE) :
        job' = [job EXCEPT
                  ![p].tgt = [rdir |-> d, dirs |-> {d}, force |-> {d}, listed |-> appRec],
                  ![p].at = "deploy"]
  BY DEF SelectRuntime
<1>2. d \in RuntimeDir /\ {d} \subseteq Dest
  BY GenerationTypes, GenerationAssumption
<1>3. Target(job[p].cmd, [rdir |-> d, dirs |-> {d}, force |-> {d}, listed |-> appRec])
  BY <1>2 DEF Target, TypeInv, RecordTypes, RuntimeOnly
<1>4. Place("deploy", job[p].cmd)
  BY DEF Place, Command, RuntimeOnly
<1>5. PICK t : t = [rdir |-> d, dirs |-> {d}, force |-> {d}, listed |-> appRec]
  OBVIOUS
<1>6. /\ job' = [job EXCEPT ![p].tgt = t, ![p].at = "deploy"]
      /\ Target(job[p].cmd, t)
  BY <1>1, <1>3, <1>5
<1>7. JobShape /\ JobInv /\ "deploy" \notin Binding
  BY DEF TypeInv, Binding
<1> QED  BY <1>4, <1>6, <1>7, ChoiceOK

LEMMA ChoiceTypes ==
    ASSUME TypeInv, NEW p \in Process,
           Update(p) \/ Install(p) \/ UpdateRuntime(p) \/ InstallRuntime(p)
    PROVE  TypeInv'
<1>1. TreeTypes' /\ RecordTypes' /\ commands' \in 0..MaxCommands
  BY DiskFrame, RecordFrame DEF TypeInv, Update, Install, UpdateRuntime, InstallRuntime
<1>2. JobOK(job[p])
  BY DEF TypeInv, JobInv
<1>3. CASE Update(p)
  <2>1. job[p].cmd = "update"
    BY <1>2, <1>3 DEF Update, At, JobOK, Place, Command
  <2>2. PICK a \in App, o \in Offers :
          /\ Listed(p)[a] # NoRecord
          /\ \E forceApp, forceRt : Select(p, o, a, Listed(p)[a], forceApp, forceRt)
    BY <1>3 DEF Update
  <2>3. Listed(p) \in AppRecs
    BY <1>2 DEF Listed, JobOK, TypeInv, RecordTypes
  <2>4. Listed(p)[a] \in Pair
    BY <2>2, <2>3 DEF AppRecs
  <2> QED  BY <1>1, <2>1, <2>2, <2>4, SelectTypes DEF TypeInv
<1>4. CASE Install(p)
  <2>1. job[p].cmd = "install"
    BY <1>2, <1>4 DEF Install, At, JobOK, Place, Command
  <2>2. PICK o \in Offers : \E forceRt : Select(p, o, o.app, NoRecord, TRUE, forceRt)
    BY <1>4 DEF Install
  <2> QED  BY <1>1, <2>1, <2>2, SelectTypes DEF TypeInv
<1>5. CASE UpdateRuntime(p)
  <2>1. RuntimeOnly(p)
    BY <1>2, <1>5 DEF UpdateRuntime, At, JobOK, Place, Command, RuntimeOnly
  <2> QED  BY <1>1, <1>5, <2>1, SelectRuntimeTypes DEF UpdateRuntime, TypeInv
<1>6. CASE InstallRuntime(p)
  <2>1. RuntimeOnly(p)
    BY <1>2, <1>6 DEF InstallRuntime, At, JobOK, Place, Command, RuntimeOnly
  <2> QED  BY <1>1, <1>6, <2>1, SelectRuntimeTypes DEF InstallRuntime, TypeInv
<1> QED  BY <1>3, <1>4, <1>5, <1>6

\* Removing a record keeps the types of the records.
LEMMA Removal ==
    ASSUME RecordTypes, NEW key
    PROVE  /\ [appRec EXCEPT ![key] = NoRecord] \in AppRecs
           /\ [rtRec EXCEPT ![key] = NoRecord] \in [Runtime -> RuntimeDir \cup {NoRecord}]
  BY DEF RecordTypes, AppRecs

LEMMA RecordingTypes ==
    ASSUME TypeInv, NEW p \in Process,
           Pin(p) \/ Unpin(p) \/ RecordRuntime(p) \/ RecordApp(p)
    PROVE  TypeInv'
<1> USE DEF TypeInv
<1> DEFINE t == job[p].tgt
<1>1. TreeTypes' /\ commands' \in 0..MaxCommands
  BY DiskFrame DEF Pin, Unpin, RecordRuntime, RecordApp
<1>2. JobOK(job[p])
  BY DEF JobInv
<1>3. ASSUME job[p].at \in {"pin", "unpin", "record_runtime", "record_app"}
      PROVE  /\ Target(job[p].cmd, t) /\ Place(job[p].at, job[p].cmd)
             /\ t.rdir \in RuntimeDir
             /\ ~RuntimeOnly(p) =>
                   job[p].cmd \in {"install", "update"} /\ t.app \in App /\ t.adir \in AppDir
  <2>1. Target(job[p].cmd, t) /\ Place(job[p].at, job[p].cmd)
    BY <1>2, <1>3 DEF JobOK, Busy
  <2> QED  BY <1>3, <2>1 DEF Target, Place, RuntimeOnly
<1>4. ASSUME job[p].at \in {"pin", "unpin", "record_app"} PROVE ~RuntimeOnly(p)
  BY <1>2, <1>4 DEF JobOK, Place, RuntimeOnly
<1>5. CASE Pin(p)
  <2>1. RecordTypes'
    BY <1>3, <1>4, <1>5 DEF Pin, At, RecordTypes, RunRecord
  <2>2. /\ Place("unpin", job[p].cmd) /\ Target(job[p].cmd, t)
    BY <1>3, <1>4, <1>5 DEF Pin, At, Place, Command
  <2> QED  BY <1>1, <1>5, <2>1, <2>2, GoOK DEF Pin, Binding
<1>6. CASE Unpin(p)
  <2>1. RecordTypes'
    BY <1>6 DEF Unpin, RecordTypes
  <2>2. Place("record_runtime", job[p].cmd) /\ Target(job[p].cmd, t)
    BY <1>3, <1>4, <1>6 DEF Unpin, At, Place, Command
  <2>3. JobShape' /\ JobInv'
    BY <1>6, <2>2, GoOK, EndOK DEF Unpin, Binding
  <2> QED  BY <1>1, <2>1, <2>3
<1>7. CASE RecordRuntime(p)
  <2>1. job[p].at = "record_runtime"
    BY <1>7 DEF RecordRuntime, At
  <2>2. RecordTypes'
    BY <1>3, <1>7, <2>1 DEF RecordRuntime, RecordTypes
  <2>3. job[p].cmd \in {"install", "update", "install_runtime", "update_runtime"}
    BY <1>3, <2>1 DEF Place
  <2>4. JobShape' /\ JobInv'
    <3>1. CASE RuntimeOnly(p)
      BY <1>7, <2>3, <3>1, GoOK DEF RecordRuntime, Place, Command, Busy, Binding
    <3>2. CASE ~RuntimeOnly(p)
      <4>1. Place("record_app", job[p].cmd) /\ Target(job[p].cmd, t)
        BY <1>3, <2>1, <3>2 DEF Place, Command
      <4> QED  BY <1>7, <3>2, <4>1, GoOK DEF RecordRuntime, Binding
    <3> QED  BY <3>1, <3>2
  <2> QED  BY <1>1, <2>2, <2>4
<1>8. CASE RecordApp(p)
  <2>1. job[p].at = "record_app" /\ ~RuntimeOnly(p)
    BY <1>4, <1>8 DEF RecordApp, At
  <2>2. RecordTypes'
    BY <1>3, <1>8, <2>1 DEF RecordApp, RecordTypes, AppRecs, Pair
  <2>3. job[p].cmd \in {"install", "update"}
    BY <1>3, <2>1
  <2>4. JobShape' /\ JobInv'
    BY <1>8, <2>3, GoOK DEF RecordApp, Place, Command, Busy, Binding
  <2> QED  BY <1>1, <2>2, <2>4
<1> QED  BY <1>5, <1>6, <1>7, <1>8

LEMMA ReplacingTypes ==
    ASSUME TypeInv, NEW p \in Process, Publish(p) \/ Replace(p) \/ DropOldRuntime(p)
    PROVE  TypeInv'
<1> USE DEF TypeInv
<1>1. TreeTypes' /\ commands' \in 0..MaxCommands
  BY DiskFrame DEF Publish, Replace, DropOldRuntime
<1>2. JobOK(job[p])
  BY DEF JobInv
<1>3. CASE Publish(p)
  <2>1. RecordTypes'
    BY <1>3, Removal DEF Publish, RecordTypes
  <2> QED  BY <1>1, <1>3, <2>1, EndOK DEF Publish
<1>4. CASE Replace(p)
  <2>1. RecordTypes'
    BY <1>4, Removal DEF Replace, RecordTypes
  <2>2. Place("scrub", job[p].cmd) /\ Target(job[p].cmd, job[p].tgt)
    BY <1>2, <1>4 DEF Replace, At, JobOK, Place, Command, Busy
  <2>3. CASE Go(p, "scrub")
    BY <1>1, <2>1, <2>2, <2>3, GoOK DEF Binding
  <2>4. CASE Go(p, "drop_old")
    BY <1>1, <2>1, <2>4, GoOK DEF Place, Command, Busy, Binding
  <2> QED  BY <1>4, <2>3, <2>4 DEF Replace
<1>5. CASE DropOldRuntime(p)
  <2>1. RecordTypes'
    BY <1>5, Removal DEF DropOldRuntime, RecordTypes
  <2>2. Go(p, "refs") \/ Go(p, "keep_apps")
    BY <1>5 DEF DropOldRuntime
  <2>3. JobShape' /\ JobInv'
    BY <2>2, GoOK DEF Place, Command, Busy, Binding
  <2> QED  BY <1>1, <2>1, <2>3
<1> QED  BY <1>3, <1>4, <1>5

LEMMA UninstallTypes ==
    ASSUME TypeInv, NEW p \in Process,
           \/ Uninstall(p) \/ Unrecord(p) \/ UninstallRuntime(p) \/ UninstallUnused(p)
           \/ UnrecordRuntime(p) \/ Scrub(p)
    PROVE  TypeInv'
<1> USE DEF TypeInv
<1>1. commands' \in 0..MaxCommands
  BY DEF Uninstall, Unrecord, UninstallRuntime, UninstallUnused, UnrecordRuntime, Scrub
<1>2. JobOK(job[p])
  BY DEF JobInv
<1>3. ASSUME NEW t, NEW label \in {"unrecord", "scrub"},
             job' = [job EXCEPT ![p].tgt = t, ![p].at = label], t.dir \in Dest,
             job[p].cmd \in {"uninstall", "uninstall_runtime", "uninstall_unused"}
      PROVE  JobShape' /\ JobInv'
  BY <1>3, ChoiceOK DEF Place, Target, Command, Binding
<1>4. CASE Uninstall(p)
  <2>1. PICK a \in Installed :
          job' = [job EXCEPT ![p].tgt = [app |-> a, dir |-> appRec[a].adir],
                             ![p].at = "unrecord"]
    BY <1>4 DEF Uninstall
  <2>2. appRec[a].adir \in Dest
    BY GenerationAssumption DEF Installed, RecordTypes, AppRecs, Pair
  <2>3. job[p].cmd = "uninstall"
    BY <1>2, <1>4 DEF Uninstall, At, JobOK, Place, Command
  <2>4. PICK t : t = [app |-> a, dir |-> appRec[a].adir]
    OBVIOUS
  <2>6. job' = [job EXCEPT ![p].tgt = t, ![p].at = "unrecord"] /\ t.dir \in Dest
    BY <2>1, <2>2, <2>4
  <2>5. JobShape' /\ JobInv'
    BY <1>3, <2>3, <2>6
  <2> QED  BY <1>1, <1>4, <2>5, DiskFrame, RecordFrame DEF Uninstall
<1>5. CASE UninstallRuntime(p)
  <2>1. PICK ref \in Runtime :
          /\ rtRec[ref] # NoRecord
          /\ job' = [job EXCEPT ![p].tgt = [ref |-> ref, dir |-> rtRec[ref]],
                                ![p].at = "unrecord"]
    BY <1>5 DEF UninstallRuntime
  <2>2. rtRec[ref] \in Dest
    BY <2>1, GenerationAssumption DEF RecordTypes
  <2>3. job[p].cmd = "uninstall_runtime"
    BY <1>2, <1>5 DEF UninstallRuntime, At, JobOK, Place, Command
  <2>4. PICK t : t = [ref |-> ref, dir |-> rtRec[ref]]
    OBVIOUS
  <2>6. job' = [job EXCEPT ![p].tgt = t, ![p].at = "unrecord"] /\ t.dir \in Dest
    BY <2>1, <2>2, <2>4
  <2>5. JobShape' /\ JobInv'
    BY <1>3, <2>3, <2>6
  <2> QED  BY <1>1, <1>5, <2>5, DiskFrame, RecordFrame DEF UninstallRuntime
<1>6. CASE UninstallUnused(p)
  <2>1. PICK ref \in Runtime :
          /\ rtRec[ref] # NoRecord
          /\ job' = [job EXCEPT ![p].tgt = [ref |-> ref, dir |-> rtRec[ref]],
                                ![p].at = "scrub"]
    BY <1>6 DEF UninstallUnused
  <2>2. rtRec[ref] \in Dest
    BY <2>1, GenerationAssumption DEF RecordTypes
  <2>3. job[p].cmd = "uninstall_unused"
    BY <1>2, <1>6 DEF UninstallUnused, At, JobOK, Place, Command
  <2>4. PICK t : t = [ref |-> ref, dir |-> rtRec[ref]]
    OBVIOUS
  <2>6. job' = [job EXCEPT ![p].tgt = t, ![p].at = "scrub"] /\ t.dir \in Dest
    BY <2>1, <2>2, <2>4
  <2>5. JobShape' /\ JobInv'
    BY <1>3, <2>3, <2>6
  <2> QED  BY <1>1, <1>6, <2>5, DiskFrame, RecordFrame DEF UninstallUnused
<1>7. CASE Unrecord(p)
  <2>1. TreeTypes' /\ RecordTypes'
    BY <1>7, DiskFrame, Removal DEF Unrecord, RecordTypes
  <2>2. Place("scrub", job[p].cmd) /\ Target(job[p].cmd, job[p].tgt)
    BY <1>2, <1>7 DEF Unrecord, At, JobOK, Place, Command, Busy
  <2>3. Go(p, "scrub") \/ End(p)
    BY <1>7 DEF Unrecord
  <2>4. JobShape' /\ JobInv'
    BY <2>2, <2>3, GoOK, EndOK DEF Binding
  <2> QED  BY <1>1, <2>1, <2>4
<1>8. CASE UnrecordRuntime(p)
  <2>1. TreeTypes' /\ RecordTypes'
    BY <1>8, DiskFrame, Removal DEF UnrecordRuntime, RecordTypes
  <2>2. Place("scrub", job[p].cmd) /\ Target(job[p].cmd, job[p].tgt)
    BY <1>2, <1>8 DEF UnrecordRuntime, At, JobOK, Place, Command, Busy
  <2>3. CASE Go(p, "scrub")
    BY <1>1, <2>1, <2>2, <2>3, GoOK DEF Binding
  <2>4. CASE Go(p, "keep_apps")
    BY <1>1, <2>1, <2>4, GoOK DEF Place, Command, Busy, Binding
  <2> QED  BY <1>8, <2>3, <2>4 DEF UnrecordRuntime
<1>9. CASE Scrub(p)
  <2>1. Target(job[p].cmd, job[p].tgt) /\ Place("scrub", job[p].cmd)
    BY <1>2, <1>9 DEF Scrub, At, JobOK, Busy
  <2>2. Victim(p) \in Dest
    BY <2>1 DEF Target, Place, Victim
  <2>3. TreeTypes'
    BY <1>9, <2>2, RemoveType DEF Scrub, Path
  <2>4. RecordTypes'
    BY <1>9, RecordFrame DEF Scrub
  <2>5. JobShape' /\ JobInv'
    <3>1. CASE UNCHANGED job
      BY <3>1 DEF JobShape, JobInv
    <3>2. CASE Go(p, AfterScrub(p))
      <4>1. CASE job[p].cmd = "uninstall_unused"
        <5>1. AfterScrub(p) = "unrecord"
          BY <4>1 DEF AfterScrub
        <5>2. Place("unrecord", job[p].cmd)
          BY <4>1 DEF Place, Command
        <5> QED  BY <2>1, <3>2, <5>1, <5>2, GoOK DEF Binding
      <4>2. CASE job[p].cmd # "uninstall_unused"
        <5>1. AfterScrub(p) \in {"drop_old", "refs"}
          BY <4>2 DEF AfterScrub
        <5> QED  BY <3>2, <5>1, GoOK DEF Place, Command, Busy, Binding
      <4> QED  BY <4>1, <4>2
    <3> QED  BY <1>9, <3>1, <3>2 DEF Scrub
  <2> QED  BY <1>1, <2>3, <2>4, <2>5
<1> QED  BY <1>4, <1>5, <1>6, <1>7, <1>8, <1>9

\* The run record that a launch publishes.
RunOf(p) == [by |-> p, app |-> job[p].tgt.app, adir |-> job[p].tgt.adir,
             rdir |-> job[p].tgt.rdir]

\* What its publication does to the local states.
LEMMA PinRunEffect ==
    ASSUME JobShape, NEW p \in Process, PinRun(p), job[p].tgt.app \in Installed
    PROVE  /\ JobShape' /\ runs' = runs \cup {RunOf(p)}
           /\ \A q \in Process :
                 /\ job'[q].at = IF q = p THEN "mount" ELSE job[q].at
                 /\ job'[q].elders = job[q].elders \ {RunOf(p)}
                 /\ job'[q].cmd = job[q].cmd /\ job'[q].tgt = job[q].tgt
                 /\ job'[q].copy = job[q].copy /\ job'[q].keep = job[q].keep
                 /\ job'[q].doomed = job[q].doomed
<1> DEFINE r == RunOf(p)
<1>1. /\ runs' = runs \cup {r}
      /\ job' = [q \in Process |-> [job[q] EXCEPT !.at = IF q = p THEN "mount" ELSE @,
                                                  !.elders = @ \ {r}]]
  BY DEF PinRun, RunOf
<1> HIDE DEF r
<1>2. /\ JobShape'
      /\ \A q \in Process :
            /\ job'[q].at = IF q = p THEN "mount" ELSE job[q].at
            /\ job'[q].elders = job[q].elders \ {r}
            /\ job'[q].cmd = job[q].cmd /\ job'[q].tgt = job[q].tgt
            /\ job'[q].copy = job[q].copy /\ job'[q].keep = job[q].keep
            /\ job'[q].doomed = job[q].doomed
  BY <1>1 DEF JobShape, Fields
<1> QED  BY <1>1, <1>2 DEF r

LEMMA RunTypes ==
    ASSUME TypeInv, NEW p \in Process, Launch(p) \/ PinRun(p) \/ Mount(p) \/ Exit(p)
    PROVE  TypeInv'
<1> USE DEF TypeInv
<1>1. TreeTypes' /\ commands' \in 0..MaxCommands
  BY DiskFrame DEF Launch, PinRun, Mount, Exit
<1>2. JobOK(job[p])
  BY DEF JobInv
<1>3. CASE Launch(p)
  <2>1. PICK a \in Installed :
          job' = [job EXCEPT
                    ![p].tgt = [app |-> a, adir |-> appRec[a].adir, rdir |-> appRec[a].rdir],
                    ![p].at = "pin_run"]
    BY <1>3 DEF Launch
  <2>2. a \in App /\ appRec[a].adir \in AppDir /\ appRec[a].rdir \in RuntimeDir
    BY DEF Installed, RecordTypes, AppRecs, Pair
  <2>3. job[p].cmd = "run"
    BY <1>2, <1>3 DEF Launch, At, JobOK, Place, Command
  <2>4. PICK t : t = [app |-> a, adir |-> appRec[a].adir, rdir |-> appRec[a].rdir]
    OBVIOUS
  <2>5. /\ job' = [job EXCEPT ![p].tgt = t, ![p].at = "pin_run"]
        /\ Target(job[p].cmd, t) /\ Place("pin_run", job[p].cmd) /\ "pin_run" \notin Binding
    BY <2>1, <2>2, <2>3, <2>4 DEF Target, Place, Command, Binding
  <2>6. JobShape' /\ JobInv'
    BY <2>5, ChoiceOK
  <2> QED  BY <1>1, <1>3, <2>6, RecordFrame DEF Launch
<1>4. ASSUME job[p].at \in {"pin_run", "mount"}
      PROVE  /\ Target(job[p].cmd, job[p].tgt) /\ job[p].cmd = "run"
             /\ job[p].tgt.app \in App /\ job[p].tgt.adir \in AppDir
             /\ job[p].tgt.rdir \in RuntimeDir
  <2>1. Target(job[p].cmd, job[p].tgt) /\ job[p].cmd = "run"
    BY <1>2, <1>4 DEF JobOK, Busy, Place
  <2> QED  BY <2>1 DEF Target
<1>5. CASE PinRun(p) /\ job[p].tgt.app \notin Installed
  <2>1. RecordTypes'
    BY <1>5 DEF PinRun, RecordTypes
  <2> QED  BY <1>1, <1>5, <2>1, EndOK DEF PinRun
<1>6. CASE PinRun(p) /\ job[p].tgt.app \in Installed
  <2>1. job[p].at = "pin_run"
    BY <1>6 DEF PinRun, At
  <2>2. RecordTypes'
    <3>1. RunOf(p) \in RunRecord
      BY <1>4, <2>1 DEF RunOf, RunRecord
    <3>2. runs' = runs \cup {RunOf(p)} /\ UNCHANGED <<appRec, rtRec>>
      BY <1>6, PinRunEffect DEF PinRun
    <3> QED  BY <3>1, <3>2 DEF RecordTypes
  <2>3. \A q \in Process \ {p} : JobOK(job'[q])
    BY <1>6, PinRunEffect DEF JobInv, JobOK
  <2>4. JobOK(job'[p])
    BY <1>2, <1>4, <1>6, <2>1, PinRunEffect DEF JobOK, Place, Command, Busy, Binding
  <2> QED  BY <1>1, <1>6, <2>2, <2>3, <2>4, PinRunEffect DEF JobInv
<1>7. CASE Mount(p)
  <2>1. RecordTypes'
    BY <1>7 DEF Mount, RecordTypes
  <2>2. JobShape' /\ JobInv'
    BY <1>7, GoOK, EndOK DEF Mount, Place, Command, Busy, Binding
  <2> QED  BY <1>1, <2>1, <2>2
<1>8. CASE Exit(p)
  <2>1. RecordTypes'
    BY <1>8 DEF Exit, RecordTypes
  <2>2. /\ JobShape' /\ Others(p)
        /\ job'[p].at = "keep_apps"
        /\ job'[p].cmd = job[p].cmd /\ job'[p].tgt = job[p].tgt
        /\ job'[p].copy = job[p].copy
        /\ job'[p].keep = job[p].keep /\ job'[p].doomed = job[p].doomed
    BY <1>8 DEF Exit, JobShape, Fields, Others
  <2>3. JobOK(job'[p])
    BY <1>2, <2>2 DEF JobOK, Place, Command, Busy, Binding
  <2> QED  BY <1>1, <2>1, <2>2, <2>3, JobFrame
<1> QED  BY <1>3, <1>5, <1>6, <1>7, <1>8

\* What an installation is found with.
First(o, launched, installed, a, r) ==
    /\ AppOf[a] = o.app /\ CommitOf[a] = o.commit
    /\ RefOf[r] = o.ref /\ CommitOf[r] = o.rcommit
    /\ appRec = [x \in App |-> IF x = o.app /\ installed
                              THEN [adir |-> a, rdir |-> r] ELSE NoRecord]
    /\ rtRec = [x \in Runtime |-> IF x = o.ref THEN r ELSE NoRecord]
    /\ dest = [d \in Dest |-> IF d \in {a, r} THEN CommitOf[d] ELSE Absent]
    /\ runs = [by : launched, app : {o.app}, adir : {a}, rdir : {r}]
    /\ job = [p \in Process |->
                IF p \notin launched THEN Idle
                ELSE [Idle EXCEPT !.cmd = "run", !.at = "running",
                        !.tgt = [app |-> o.app, adir |-> a, rdir |-> r]]]

\* Init begins with one.
LEMMA InitFirst ==
    ASSUME Init
    PROVE  \E o \in Offers, launched \in SUBSET Process, installed \in BOOLEAN,
              a \in AppDir, r \in RuntimeDir : First(o, launched, installed, a, r)
<1>1. \E o \in Offers, launched \in SUBSET Process, installed \in BOOLEAN :
      \E a \in AppDir \cap Ordinary, r \in RuntimeDir \cap Ordinary :
          First(o, launched, installed, a, r)
  BY Zenon DEF Init, First
<1> QED  BY <1>1

LEMMA InitTypes == Init => TypeInv
<1> SUFFICES ASSUME Init PROVE TypeInv
  OBVIOUS
<1>1. PICK o \in Offers, launched \in SUBSET Process, installed \in BOOLEAN,
           a \in AppDir, r \in RuntimeDir : First(o, launched, installed, a, r)
  BY InitFirst
<1>2. o.app \in App /\ o.ref \in Runtime /\ a \in Dest /\ CommitOf[a] \in Commit
  BY GenerationAssumption DEF Offer
<1>3. RecordTypes
  BY <1>1, <1>2 DEF First, RecordTypes, AppRecs, Pair, RunRecord
<1>4. TreeTypes
  <2>1. Act(a) \in S!Activation
    BY <1>2 DEF Act, S!Activation
  <2>2. S!AnyActivation \in S!Activation
    BY <2>1 DEF S!AnyActivation
  <2>3. /\ lock \in Process \cup {Free} /\ journal \in SUBSET S!Activation
        /\ dest \in [Dest -> S!Contents]
        /\ staging \in [Dest -> [Commit -> S!Contents]]
        /\ backup \in [Dest -> S!Contents]
    BY DEF Init, S!Init, S!Contents
  <2>4. /\ pc \in [Process -> S!PCs] /\ mode \in [Process -> {"recover", "deploy"}]
    BY DEF Init, S!Init, S!PCs
  <2>5. /\ plan \in [Process -> SUBSET S!Activation]
        /\ work \in [Process -> SUBSET S!Activation]
        /\ todo \in [Process -> SUBSET S!Activation]
        /\ cur \in [Process -> S!Activation]
    BY <2>2 DEF Init, S!Init
  <2>6. aborts \in 0..MaxAborts /\ gutted = {}
    BY StorageAssumption DEF Init, S!Init
  <2> QED  BY <2>3, <2>4, <2>5, <2>6 DEF TreeTypes, S!TypeOK
<1>5. commands \in 0..MaxCommands
  <2>1. commands = 0 /\ MaxCommands \in Nat
    BY InstanceAssumption DEF Init
  <2> QED  BY <2>1
<1>6. JobShape
  BY <1>1 DEF First, JobShape, Fields, Idle
<1>7. JobInv
  <2> SUFFICES ASSUME NEW p \in Process PROVE JobOK(job[p])
    BY DEF JobInv
  <2>1. CASE p \notin launched
    BY <1>1, <2>1, IdleOK DEF First
  <2>2. CASE p \in launched
    <3>1. PICK t : t = [app |-> o.app, adir |-> a, rdir |-> r]
      OBVIOUS
    <3>2. job[p] = [Idle EXCEPT !.cmd = "run", !.at = "running", !.tgt = t]
      BY <1>1, <2>2, <3>1 DEF First
    <3>3. Target("run", t)
      BY <1>2, <3>1 DEF Target
    <3> QED  BY <3>2, <3>3 DEF JobOK, Idle, Place, Busy, Binding, Command
  <2> QED  BY <2>1, <2>2
<1> QED  BY <1>3, <1>4, <1>5, <1>6, <1>7 DEF TypeInv

LEMMA StepTypes ==
    ASSUME TypeInv, [Next]_vars
    PROVE  TypeInv'
<1>1. CASE UNCHANGED vars
  <2>1. UNCHANGED <<storage, records, job, commands>>
    BY <1>1 DEF vars
  <2> QED  BY <2>1, DiskFrame, RecordFrame DEF TypeInv, JobShape, JobInv
<1>2. ASSUME NEW p \in Process, Step(p) PROVE TypeInv'
  BY <1>2, StorageTypes, StartupTypes, CleanupTypes, ChoiceTypes, RecordingTypes,
     ReplacingTypes, UninstallTypes, RunTypes DEF Step
<1> QED  BY <1>1, <1>2 DEF Next, Quiet

LEMMA TypeInvariance == Spec => []TypeInv
  BY InitTypes, StepTypes, PTL DEF Spec

\* TypeOK is invariant: whatever commands overlap and are killed, records name
\* generations of their kind, a run record has all of its fields, a cleanup
\* removes directories of the installation, and only a complete generation
\* counts as gutted.
THEOREM TypeCorrect == Spec => []TypeOK
<1>1. TypeInv => TypeOK
  BY DEF TypeInv, TreeTypes, RecordTypes, AppRecs, JobInv, JobOK, TypeOK
<1> QED  BY <1>1, TypeInvariance, PTL

-------------------------------------------------------------------------------
(***************************************************************************)
(* The cleanup and the sandboxes that ran before it                        *)
(***************************************************************************)

\* The places at which a process may have a run record: one that was killed,
\* an install that applies extra data, a launch and a running application.
Holding == {"none", "unpin", "mount", "running"}

\* The places of a cleanup that has read all records, and where it removes.
Sweeping == {"sweep_runtimes", "sweep_apps"}
Sparing == Sweeping \cup {"list_runtimes"}

RunsInv == \A r \in runs : job[r.by].at \in Holding

\* A sandbox that is being launched is not one that ran before.
NewcomerInv ==
    \A r \in runs : job[r.by].at = "mount" => \A q \in Process : r \notin job[q].elders

DoomedInv == \A q \in Process : job[q].doomed # {} => job[q].at \in Sweeping

\* A cleanup that has read all records protects the sandboxes that ran before
\* it and still run: they had their run record all the time.
KeepInv ==
    \A q \in Process : job[q].at \in Sparing =>
        \A r \in job[q].elders \cap Mounted : r.adir \in job[q].keep /\ r.rdir \in job[q].keep

EldersInv == RunsInv /\ NewcomerInv /\ DoomedInv /\ KeepInv /\ EldersSpared

USE DEF Holding, Sweeping, Sparing

\* A record's process is one.
LEMMA ByType == ASSUME TypeInv PROVE \A r \in runs : r.by \in Process
  BY DEF TypeInv, RecordTypes, RunRecord

\* A step of p after which no sandbox runs that did not, and which gives p's
\* cleanup nothing more to remove.
LEMMA ModestStep ==
    ASSUME TypeInv, EldersInv, NEW p \in Process, Others(p),
           runs' \subseteq runs,
           \A r \in runs' : r.by = p => job'[p].at \in Holding,
           job'[p].at \in {"mount", "running"} => job'[p].at = job[p].at,
           job'[p].elders \subseteq job[p].elders,
           job'[p].doomed \subseteq job[p].doomed,
           job'[p].doomed # {} => job'[p].at \in Sweeping,
           job'[p].at \in Sparing => job[p].at \in Sparing /\ job'[p].keep = job[p].keep
    PROVE  EldersInv'
<1>1. \A r \in runs' : r \in runs /\ r.by \in Process
  BY ByType
<1>2. \A q \in Process : /\ job'[q].at \in {"mount", "running"} => job'[q].at = job[q].at
                         /\ job'[q].elders \subseteq job[q].elders
                         /\ job'[q].doomed \subseteq job[q].doomed
                         /\ job'[q].at \in Sparing =>
                               job[q].at \in Sparing /\ job'[q].keep = job[q].keep
  BY DEF Others
<1>3. RunsInv'
  BY <1>1 DEF EldersInv, RunsInv, Others
<1>4. NewcomerInv'
  BY <1>1, <1>2 DEF EldersInv, NewcomerInv
<1>5. DoomedInv'
  BY DEF EldersInv, DoomedInv, Others
<1>6. Mounted' \subseteq Mounted
  BY <1>1, <1>2 DEF Mounted, At
<1>7. KeepInv'
  BY <1>2, <1>6 DEF EldersInv, KeepInv
<1>8. EldersSpared'
  BY <1>2, <1>6 DEF EldersInv, EldersSpared
<1> QED  BY <1>3, <1>4, <1>5, <1>7, <1>8 DEF EldersInv

\* A step of p between places where it has no run record and no cleanup.
LEMMA PlainStep ==
    ASSUME TypeInv, EldersInv, NEW p \in Process, Others(p), UNCHANGED runs,
           job[p].at \notin Holding \cup Sweeping,
           job'[p].at \notin Holding \cup Sparing,
           job'[p].elders = job[p].elders, job'[p].doomed = job[p].doomed
    PROVE  EldersInv'
<1>1. \A r \in runs : r.by # p
  BY DEF EldersInv, RunsInv
<1>2. job[p].doomed = {}
  BY DEF EldersInv, DoomedInv
<1> QED  BY <1>1, <1>2, ModestStep

LEMMA GoElders ==
    ASSUME TypeInv, EldersInv, NEW p \in Process, NEW label, Go(p, label), UNCHANGED runs,
           job[p].at \notin Holding \cup Sweeping, label \notin Holding \cup Sparing
    PROVE  EldersInv'
<1>1. JobShape
  BY DEF TypeInv
<1> QED  BY <1>1, GoEffect, PlainStep

LEMMA EndElders ==
    ASSUME TypeInv, EldersInv, NEW p \in Process, End(p), runs' \subseteq runs
    PROVE  EldersInv'
<1>1. Others(p) /\ job'[p] = Idle
  BY EndEffect DEF TypeInv
<1>2. job'[p].at = "none" /\ job'[p].elders = {} /\ job'[p].doomed = {}
  BY <1>1 DEF Idle
<1> QED  BY <1>1, <1>2, ModestStep

LEMMA StorageElders ==
    ASSUME TypeInv, EldersInv, NEW p \in Process,
           \/ OpenStorage(p) \/ Deploy(p) \/ StorageWork(p) \/ CloseStorage(p) \/ Crash(p)
    PROVE  EldersInv'
<1>1. UNCHANGED runs
  BY DEF OpenStorage, Deploy, StorageWork, CloseStorage, Crash, records
<1>2. CASE UNCHANGED job
  BY <1>1, <1>2 DEF EldersInv, RunsInv, NewcomerInv, DoomedInv, KeepInv, EldersSpared,
     Mounted, At
<1>3. CASE End(p)
  BY <1>1, <1>3, EndElders
<1>4. CASE CloseStorage(p) /\ ~End(p)
  <2>1. \E label \in {"list_bindings", "keep_apps", "record_runtime", "pin"} :
            /\ Go(p, label)
            /\ job[p].at \in {"startup", "refs", "deploy"}
    BY <1>4 DEF CloseStorage, At
  <2> QED  BY <1>1, <2>1, GoElders
<1> QED  BY <1>2, <1>3, <1>4 DEF OpenStorage, Deploy, StorageWork, Crash

LEMMA StartElders ==
    ASSUME TypeInv, EldersInv, NEW p \in Process, Start(p) \/ Exit(p)
    PROVE  EldersInv'
<1>1. /\ Others(p) /\ job'[p].elders = Mounted
      /\ job'[p].at \in {"startup", "keep_apps"} /\ job'[p].doomed = {}
  <2>1. JobShape /\ (job[p].at = "running" => job[p].doomed = {})
    BY DEF TypeInv, EldersInv, DoomedInv
  <2>2. CASE Start(p)
    BY <2>1, <2>2 DEF Start, Others, JobShape, Idle
  <2>3. CASE Exit(p)
    BY <2>1, <2>3 DEF Exit, At, Others, JobShape, Fields
  <2> QED  BY <2>2, <2>3
<1>2. \A r \in runs' : r \in runs /\ r.by \in Process \ {p}
  BY ByType DEF Start, Exit, At
<1>3. \A r \in runs' : job'[r.by] = job[r.by]
  BY <1>1, <1>2 DEF Others
<1>4. Mounted' \subseteq Mounted
  BY <1>2, <1>3 DEF Mounted, At
<1>5. RunsInv'
  BY <1>2, <1>3 DEF EldersInv, RunsInv
<1>6. NewcomerInv'
  <2> SUFFICES ASSUME NEW r \in runs', job'[r.by].at = "mount", NEW q \in Process
               PROVE  r \notin job'[q].elders
    BY DEF NewcomerInv
  <2>1. r \in runs /\ job[r.by].at = "mount"
    BY <1>2, <1>3
  <2>2. r \notin job[q].elders /\ r \notin Mounted
    BY <2>1 DEF EldersInv, NewcomerInv, Mounted, At
  <2> QED  BY <1>1, <2>2 DEF Others
<1>7. DoomedInv'
  BY <1>1 DEF EldersInv, DoomedInv, Others
<1>8. KeepInv'
  BY <1>1, <1>4 DEF EldersInv, KeepInv, Others
<1>9. EldersSpared'
  BY <1>1, <1>4 DEF EldersInv, EldersSpared, Others
<1> QED  BY <1>5, <1>6, <1>7, <1>8, <1>9 DEF EldersInv

LEMMA BindingElders ==
    ASSUME TypeInv, EldersInv, NEW p \in Process,
           ListBindings(p) \/ Bind(p) \/ Bound(p) \/ KeepApps(p) \/ KeepRuntimes(p)
    PROVE  EldersInv'
<1>1. /\ UNCHANGED runs /\ Others(p)
      /\ job[p].at \in {"list_bindings", "bind", "keep_apps", "keep_runtimes"}
      /\ job'[p].at \in {"bind", "keep_apps", "replaced", "keep_runtimes", "keep_runs"}
      /\ job'[p].elders = job[p].elders /\ job'[p].doomed = job[p].doomed
  <2>1. JobShape
    BY DEF TypeInv
  <2>2. CASE ListBindings(p)
    BY <2>1, <2>2 DEF ListBindings, At, Others, JobShape, Fields, records
  <2>3. CASE Bind(p)
    BY <2>1, <2>3 DEF Bind, At, Others, JobShape, Fields
  <2>4. CASE Bound(p)
    BY <2>1, <2>4 DEF Bound, At, Others, JobShape, Fields, records
  <2>5. CASE KeepApps(p)
    BY <2>1, <2>5 DEF KeepApps, At, Others, JobShape, Fields, records
  <2>6. CASE KeepRuntimes(p)
    BY <2>1, <2>6 DEF KeepRuntimes, At, Others, JobShape, Fields, records
  <2> QED  BY <2>2, <2>3, <2>4, <2>5, <2>6
<1> QED  BY <1>1, PlainStep

\* The run records are read last: all sandboxes that run have theirs.
LEMMA KeepElders ==
    ASSUME TypeInv, EldersInv, NEW p \in Process, KeepRuns(p)
    PROVE  EldersInv'
<1>1. /\ UNCHANGED runs /\ Others(p) /\ job[p].at = "keep_runs"
      /\ job'[p].at = "list_runtimes"
      /\ job'[p].keep = job[p].keep \cup UNION {{r.adir, r.rdir} : r \in runs}
      /\ job'[p].elders = job[p].elders /\ job'[p].doomed = job[p].doomed
  BY DEF TypeInv, KeepRuns, At, Others, JobShape, Fields, records
<1>2. \A r \in runs : r.by \in Process \ {p} /\ r.adir \in job'[p].keep
                                             /\ r.rdir \in job'[p].keep
  BY <1>1, ByType DEF EldersInv, RunsInv
<1>3. \A r \in runs' : r \in runs /\ job'[r.by] = job[r.by]
  BY <1>1, <1>2 DEF Others
<1>4. job[p].doomed = {}
  BY <1>1 DEF EldersInv, DoomedInv
<1>5. Mounted' \subseteq Mounted /\ Mounted \subseteq runs
  BY <1>3 DEF Mounted, At
<1>6. RunsInv'
  BY <1>3 DEF EldersInv, RunsInv
<1>7. NewcomerInv'
  BY <1>1, <1>3 DEF EldersInv, NewcomerInv, Others
<1>8. DoomedInv'
  BY <1>1, <1>4 DEF EldersInv, DoomedInv, Others
<1>9. KeepInv'
  BY <1>1, <1>2, <1>5 DEF EldersInv, KeepInv, Others
<1>10. EldersSpared'
  BY <1>1, <1>4, <1>5 DEF EldersInv, EldersSpared, Others
<1> QED  BY <1>6, <1>7, <1>8, <1>9, <1>10 DEF EldersInv

\* What a cleanup decides to remove is not protected.
LEMMA ListElders ==
    ASSUME TypeInv, EldersInv, NEW p \in Process, ListRuntimes(p) \/ ListApps(p)
    PROVE  EldersInv'
<1>1. PICK dirs :
      /\ UNCHANGED runs /\ Others(p)
      /\ job[p].at \in Sparing /\ job'[p].at \in Sweeping
      /\ job'[p].doomed = Retired(p, dirs)
      /\ job'[p].keep = job[p].keep /\ job'[p].elders = job[p].elders
  <2>1. JobShape
    BY DEF TypeInv
  <2>2. CASE ListRuntimes(p)
    BY <2>1, <2>2 DEF ListRuntimes, At, Others, JobShape, Fields, records
  <2>3. CASE ListApps(p)
    BY <2>1, <2>3 DEF ListApps, At, Others, JobShape, Fields, records
  <2> QED  BY <2>2, <2>3
<1>2. \A r \in runs : r.by \in Process \ {p}
  BY <1>1, ByType DEF EldersInv, RunsInv
<1>3. \A r \in runs' : r \in runs /\ job'[r.by] = job[r.by]
  BY <1>1, <1>2 DEF Others
<1>4. Mounted' \subseteq Mounted
  BY <1>3 DEF Mounted, At
<1>5. RunsInv'
  BY <1>3 DEF EldersInv, RunsInv
<1>6. NewcomerInv'
  BY <1>1, <1>3 DEF EldersInv, NewcomerInv, Others
<1>7. DoomedInv'
  BY <1>1 DEF EldersInv, DoomedInv, Others
<1>8. KeepInv'
  BY <1>1, <1>4 DEF EldersInv, KeepInv, Others
<1>9. EldersSpared'
  <2> SUFFICES ASSUME NEW q \in Process, NEW r \in job'[q].elders \cap Mounted',
                      NEW d \in {r.adir, r.rdir}
               PROVE  [kind |-> "dest", dir |-> d] \notin job'[q].doomed
    BY DEF EldersSpared
  <2>1. CASE q # p
    BY <1>1, <1>4, <2>1 DEF EldersInv, EldersSpared, Others
  <2>2. CASE q = p
    <3>1. d \in job[p].keep
      BY <1>1, <1>4, <2>2 DEF EldersInv, KeepInv
    <3>2. [kind |-> "dest", dir |-> d] \notin Retired(p, dirs)
      BY <3>1 DEF Retired
    <3> QED  BY <1>1, <2>2, <3>2
  <2> QED  BY <2>1, <2>2
<1> QED  BY <1>5, <1>6, <1>7, <1>8, <1>9 DEF EldersInv

LEMMA SweepElders ==
    ASSUME TypeInv, EldersInv, NEW p \in Process, Sweep(p) \/ Swept(p) \/ Done(p) \/ Decline(p)
    PROVE  EldersInv'
<1>1. JobShape /\ JobOK(job[p])
  BY DEF TypeInv, JobInv
<1>2. UNCHANGED runs
  BY DEF Sweep, Swept, Done, Decline, records
<1>3. job[p].at \notin Holding => \A r \in runs : r.by # p
  BY DEF EldersInv, RunsInv
<1>4. CASE Sweep(p)
  <2>1. /\ Others(p) /\ job'[p].doomed \subseteq job[p].doomed
        /\ job[p].at \in Sweeping /\ job'[p].at = job[p].at
        /\ job'[p].elders = job[p].elders /\ job'[p].keep = job[p].keep
    BY <1>1, <1>4 DEF Sweep, Others, JobShape, Fields
  <2> QED  BY <1>2, <1>3, <2>1, ModestStep
<1>5. CASE Swept(p)
  <2>1. PICK label : Go(p, label) /\ label \in Command \cup {"none", "done"}
    BY <1>1, <1>5 DEF Swept, JobOK
  <2>2. /\ Others(p) /\ job'[p].at = label
        /\ job'[p].elders = job[p].elders /\ job'[p].doomed = job[p].doomed
    BY <1>1, <2>1, GoEffect
  <2>3. job[p].at = "sweep_apps" /\ job[p].doomed = {}
    BY <1>5 DEF Swept, At
  <2>4. label \notin Sparing \cup {"mount", "running"}
    BY <2>1 DEF Command
  <2> QED  BY <1>2, <1>3, <2>2, <2>3, <2>4, ModestStep
<1>6. CASE Done(p)
  <2>1. job[p].at = "done"
    BY <1>6 DEF Done, At
  <2>2. CASE Go(p, "last_refs")
    BY <1>2, <2>1, <2>2, GoElders
  <2>3. CASE End(p)
    BY <1>2, <2>3, EndElders
  <2>4. CASE job' = [job EXCEPT ![p].cmd = "update", ![p].at = "update",
                                ![p].tgt = NoRecord, ![p].copy = job[p].tgt.listed]
    <3>1. /\ Others(p) /\ job'[p].at = "update"
          /\ job'[p].elders = job[p].elders /\ job'[p].doomed = job[p].doomed
      BY <1>1, <2>4 DEF Others, JobShape, Fields
    <3> QED  BY <1>2, <2>1, <3>1, PlainStep
  <2> QED  BY <1>6, <2>2, <2>3, <2>4 DEF Done
<1>7. CASE Decline(p)
  BY <1>2, <1>7, EndElders DEF Decline
<1> QED  BY <1>4, <1>5, <1>6, <1>7

\* A command chooses what it works on.
LEMMA ChoiceElders ==
    ASSUME TypeInv, EldersInv, NEW p \in Process,
           \/ Update(p) \/ Install(p) \/ UpdateRuntime(p) \/ InstallRuntime(p)
           \/ Uninstall(p) \/ UninstallRuntime(p) \/ UninstallUnused(p) \/ Launch(p)
    PROVE  EldersInv'
<1>1. UNCHANGED runs /\ job[p].at \in Command
  BY DEF Update, Install, UpdateRuntime, InstallRuntime, Uninstall, UninstallRuntime,
     UninstallUnused, Launch, At, Command, records
<1>2. JobShape
  BY DEF TypeInv
<1>3. /\ Others(p) /\ job'[p].at \in {"deploy", "unrecord", "scrub", "pin_run"}
      /\ job'[p].elders = job[p].elders /\ job'[p].doomed = job[p].doomed
  <2>1. CASE Update(p) \/ Install(p)
    <3>1. \E o, a, old, forceApp, forceRt : Select(p, o, a, old, forceApp, forceRt)
      BY <2>1 DEF Update, Install
    <3> QED  BY <1>2, <3>1 DEF Select, JobShape, Fields, Others
  <2>2. CASE UpdateRuntime(p) \/ InstallRuntime(p)
    <3>1. \E o : SelectRuntime(p, o)
      BY <2>2 DEF UpdateRuntime, InstallRuntime
    <3> QED  BY <1>2, <3>1 DEF SelectRuntime, JobShape, Fields, Others
  <2>3. CASE Uninstall(p)
    BY <1>2, <2>3 DEF Uninstall, JobShape, Fields, Others
  <2>4. CASE UninstallRuntime(p)
    BY <1>2, <2>4 DEF UninstallRuntime, JobShape, Fields, Others
  <2>5. CASE UninstallUnused(p)
    BY <1>2, <2>5 DEF UninstallUnused, JobShape, Fields, Others
  <2>6. CASE Launch(p)
    BY <1>2, <2>6 DEF Launch, JobShape, Fields, Others
  <2> QED  BY <2>1, <2>2, <2>3, <2>4, <2>5, <2>6
<1>4. job[p].at \notin Holding \cup Sweeping
  BY <1>1 DEF Command
<1> QED  BY <1>1, <1>3, <1>4, PlainStep

LEMMA RecordingElders ==
    ASSUME TypeInv, EldersInv, NEW p \in Process,
           \/ RecordRuntime(p) \/ RecordApp(p) \/ Publish(p) \/ Replace(p)
           \/ DropOldRuntime(p) \/ Unrecord(p) \/ UnrecordRuntime(p) \/ Scrub(p)
    PROVE  EldersInv'
<1>1. /\ UNCHANGED runs
      /\ job[p].at \in {"record_runtime", "record_app", "replaced", "drop_old", "unrecord",
                        "scrub"}
  BY DEF RecordRuntime, RecordApp, Publish, Replace, DropOldRuntime, Unrecord,
     UnrecordRuntime, Scrub, At, records
<1>2. CASE End(p)
  BY <1>1, <1>2, EndElders
<1>3. CASE UNCHANGED job
  BY <1>1, <1>3 DEF EldersInv, RunsInv, NewcomerInv, DoomedInv, KeepInv, EldersSpared,
     Mounted, At
<1>4. CASE \E label \in {"list_bindings", "record_app", "scrub", "drop_old", "refs",
                         "keep_apps", "unrecord"} : Go(p, label)
  BY <1>1, <1>4, GoElders
<1>5. \/ End(p) \/ UNCHANGED job
      \/ \E label \in {"list_bindings", "record_app", "scrub", "drop_old", "refs",
                       "keep_apps", "unrecord"} : Go(p, label)
  BY DEF RecordRuntime, RecordApp, Publish, Replace, DropOldRuntime, Unrecord,
     UnrecordRuntime, Scrub, AfterScrub
<1> QED  BY <1>2, <1>3, <1>4, <1>5

\* The pin of an install is no sandbox.
LEMMA PinElders ==
    ASSUME TypeInv, EldersInv, NEW p \in Process, Pin(p) \/ Unpin(p)
    PROVE  EldersInv'
<1>1. CASE Pin(p)
  <2>1. /\ job[p].at = "pin" /\ Others(p) /\ job'[p].at = "unpin"
        /\ job'[p].elders = job[p].elders /\ job'[p].doomed = job[p].doomed
    BY <1>1, GoEffect DEF Pin, At, TypeInv
  <2>2. \A r \in runs' : r.by = p \/ (r \in runs /\ r.by \in Process)
    BY <1>1, ByType DEF Pin
  <2>3. \A r \in runs : r.by # p
    BY <2>1 DEF EldersInv, RunsInv
  <2>4. Mounted' \subseteq Mounted
    BY <2>1, <2>2 DEF Mounted, At, Others
  <2>5. RunsInv'
    BY <2>1, <2>2 DEF EldersInv, RunsInv, Others
  <2>6. NewcomerInv'
    BY <2>1, <2>2 DEF EldersInv, NewcomerInv, Others
  <2>7. DoomedInv'
    BY <2>1 DEF EldersInv, DoomedInv, Others
  <2>8. KeepInv'
    BY <2>1, <2>4 DEF EldersInv, KeepInv, Others
  <2>9. EldersSpared'
    BY <2>1, <2>4 DEF EldersInv, EldersSpared, Others
  <2> QED  BY <2>5, <2>6, <2>7, <2>8, <2>9 DEF EldersInv
<1>2. CASE Unpin(p)
  <2>1. runs' \subseteq runs /\ (\A r \in runs' : r.by # p) /\ job[p].at = "unpin"
    BY <1>2 DEF Unpin, At
  <2>2. CASE End(p)
    BY <2>1, <2>2, EndElders
  <2>3. CASE Go(p, "record_runtime")
    <3>1. /\ Others(p) /\ job'[p].at = "record_runtime"
          /\ job'[p].elders = job[p].elders /\ job'[p].doomed = job[p].doomed
      BY <2>3, GoEffect DEF TypeInv
    <3>2. job[p].doomed = {}
      BY <2>1 DEF EldersInv, DoomedInv
    <3> QED  BY <2>1, <3>1, <3>2, ModestStep
  <2> QED  BY <1>2, <2>2, <2>3 DEF Unpin
<1> QED  BY <1>1, <1>2

\* A launch publishes its record, and is in no list of sandboxes that ran
\* before when it mounts.
LEMMA LaunchElders ==
    ASSUME TypeInv, EldersInv, NEW p \in Process, PinRun(p) \/ Mount(p)
    PROVE  EldersInv'
<1>1. CASE PinRun(p) /\ job[p].tgt.app \notin Installed
  BY <1>1, EndElders DEF PinRun
<1>2. CASE PinRun(p) /\ job[p].tgt.app \in Installed
  <2>1. /\ JobShape' /\ runs' = runs \cup {RunOf(p)}
        /\ \A q \in Process :
              /\ job'[q].at = IF q = p THEN "mount" ELSE job[q].at
              /\ job'[q].elders = job[q].elders \ {RunOf(p)}
              /\ job'[q].keep = job[q].keep /\ job'[q].doomed = job[q].doomed
    BY <1>2, PinRunEffect DEF TypeInv
  <2>2. job[p].at = "pin_run" /\ RunOf(p).by = p
    BY <1>2 DEF PinRun, At, RunOf
  <2>3. \A r \in runs : r.by \in Process \ {p}
    BY <2>2, ByType DEF EldersInv, RunsInv
  <2>4. Mounted' \subseteq Mounted
    BY <2>1, <2>2, <2>3 DEF Mounted, At
  <2>5. RunsInv'
    BY <2>1, <2>2, <2>3 DEF EldersInv, RunsInv
  <2>6. NewcomerInv'
    BY <2>1, <2>2, <2>3 DEF EldersInv, NewcomerInv
  <2>7. DoomedInv'
    BY <2>1, <2>2 DEF EldersInv, DoomedInv
  <2>8. KeepInv'
    BY <2>1, <2>2, <2>4 DEF EldersInv, KeepInv
  <2>9. EldersSpared'
    BY <2>1, <2>4 DEF EldersInv, EldersSpared
  <2> QED  BY <2>5, <2>6, <2>7, <2>8, <2>9 DEF EldersInv
<1>3. CASE Mount(p) /\ End(p)
  BY <1>3, EndElders DEF Mount
<1>4. CASE Mount(p) /\ ~End(p)
  <2>1. Go(p, "running") /\ UNCHANGED runs /\ job[p].at = "mount"
    BY <1>4 DEF Mount, At
  <2>2. /\ Others(p) /\ job'[p].at = "running"
        /\ job'[p].elders = job[p].elders /\ job'[p].doomed = job[p].doomed
    BY <2>1, GoEffect DEF TypeInv
  <2>3. \A r \in runs' : r \in runs /\ r.by \in Process
    BY <2>1, ByType
  <2>4. \A r \in Mounted' \ Mounted : \A q \in Process : r \notin job[q].elders
    <3>1. ASSUME NEW r \in Mounted', r \notin Mounted
          PROVE  r \in runs /\ job[r.by].at = "mount"
      BY <2>1, <2>2, <2>3, <3>1 DEF Mounted, At, Others
    <3> QED  BY <3>1 DEF EldersInv, NewcomerInv
  <2>5. \A q \in Process : job'[q].elders = job[q].elders
    BY <2>2 DEF Others
  <2>6. RunsInv'
    BY <2>2, <2>3 DEF EldersInv, RunsInv, Others
  <2>7. NewcomerInv'
    BY <2>2, <2>3, <2>5 DEF EldersInv, NewcomerInv, Others
  <2>8. DoomedInv'
    BY <2>1, <2>2 DEF EldersInv, DoomedInv, Others
  <2>9. KeepInv'
    BY <2>2, <2>4, <2>5 DEF EldersInv, KeepInv, Others
  <2>10. EldersSpared'
    BY <2>2, <2>4, <2>5 DEF EldersInv, EldersSpared, Others
  <2> QED  BY <2>6, <2>7, <2>8, <2>9, <2>10 DEF EldersInv
<1> QED  BY <1>1, <1>2, <1>3, <1>4

LEMMA InitElders == Init => EldersInv
<1> SUFFICES ASSUME Init PROVE EldersInv
  OBVIOUS
<1>1. PICK launched \in SUBSET Process :
        /\ \A r \in runs : r.by \in launched
        /\ \A p \in Process : /\ job[p].elders = {} /\ job[p].doomed = {}
                              /\ job[p].at = IF p \in launched THEN "running" ELSE "none"
  BY DEF Init, Idle
<1> QED  BY <1>1 DEF EldersInv, RunsInv, NewcomerInv, DoomedInv, KeepInv, EldersSpared

LEMMA StepElders ==
    ASSUME TypeInv, EldersInv, [Next]_vars
    PROVE  EldersInv'
<1>1. CASE UNCHANGED vars
  BY <1>1 DEF vars, records, EldersInv, RunsInv, NewcomerInv, DoomedInv, KeepInv,
     EldersSpared, Mounted, At
<1>2. ASSUME NEW p \in Process, Step(p) PROVE EldersInv'
  BY <1>2, StorageElders, StartElders, BindingElders, KeepElders, ListElders, SweepElders,
     ChoiceElders, RecordingElders, PinElders, LaunchElders DEF Step
<1> QED  BY <1>1, <1>2 DEF Next, Quiet

\* EldersSpared is invariant, for any number of commands that overlap and are
\* killed anywhere: a cleanup reads application, runtime and run records one
\* after the other and removes later, but a sandbox that ran when its command
\* began, and still runs, has had its run record all the time.
THEOREM EldersAlwaysSpared == Spec => []EldersSpared
<1>1. EldersInv => EldersSpared
  BY DEF EldersInv
<1>2. Spec => []EldersInv
  BY InitElders, StepElders, TypeInvariance, PTL DEF Spec
<1> QED  BY <1>1, <1>2, PTL

-------------------------------------------------------------------------------
(***************************************************************************)
(* What a cleanup leaves, when commands do not overlap                     *)
(***************************************************************************)

\* The places of processes that let another command run.
Calm == {"none", "running"}

Alone == \A p, q \in Process : p # q => job[p].at \in Calm \/ job[q].at \in Calm

\* The directories that some record names.
Named == (UNION {{appRec[a].adir, appRec[a].rdir} : a \in Installed})
           \cup {rtRec[ref] : ref \in Runtime}
           \cup (UNION {{r.adir, r.rdir} : r \in runs})

\* The places of a cleanup that has read records, and the end of the command.
Sound == {"keep_runtimes", "keep_runs", "list_runtimes", "sweep_runtimes",
          "sweep_apps", "done"}

\* What a cleanup protects is in a record.
SoundInv == \A p \in Process : job[p].at \in Sound => job[p].keep \subseteq Named

Kept(p, path) == path.kind = "dest" /\ path.dir \in job[p].keep

\* What has a marker is protected or will be removed: the runtimes before the
\* applications, and at the end nothing remains to be removed.
Cleaned(p, path) ==
    /\ At(p, "sweep_runtimes") =>
          path.dir \in AppDir \/ path \in job[p].doomed \/ Kept(p, path)
    /\ At(p, "sweep_apps") => path \in job[p].doomed \/ Kept(p, path)
    /\ At(p, "done") => Kept(p, path)

CleanedInv ==
    \A p \in Process : \A path \in Path : Content(path) \in Commit => Cleaned(p, path)

ReclaimInv == Alone /\ SoundInv /\ CleanedInv

\* The local state of the others, as far as their cleanups need it.
Elsewhere(p) ==
    \A q \in Process : q # p => /\ job'[q].at = job[q].at
                                /\ job'[q].keep = job[q].keep
                                /\ job'[q].doomed = job[q].doomed

LEMMA OthersElsewhere == ASSUME NEW p, Others(p) PROVE Elsewhere(p)
  BY DEF Others, Elsewhere

\* A process that rests does nothing beside a command but die.
LEMMA Resting ==
    ASSUME TypeInv, ~Overlap, NEW p \in Process, NEW q \in Process, p # q,
           job[p].at \in Calm, job[q].at \notin Calm, Step(p)
    PROVE  Crash(p)
<1>1. ~Turn(p)
  BY DEF Turn, Calm
<1>2. ~Decline(p)
  BY DEF Decline, At, TypeInv, JobInv, JobOK, Command, Calm
<1>3. ~(OpenStorage(p) \/ Deploy(p) \/ StorageWork(p) \/ CloseStorage(p))
  BY DEF OpenStorage, Deploy, StorageWork, CloseStorage, UsesStorage, At, Calm
<1>4. ~(Start(p) \/ Exit(p) \/ ListBindings(p) \/ Bind(p) \/ Bound(p) \/ KeepApps(p)
          \/ KeepRuntimes(p) \/ KeepRuns(p) \/ ListRuntimes(p) \/ ListApps(p)
          \/ Sweep(p) \/ Swept(p) \/ Done(p))
  BY <1>1 DEF Start, Exit, ListBindings, Bind, Bound, KeepApps, KeepRuntimes, KeepRuns,
     ListRuntimes, ListApps, Sweep, Swept, Done, At, Calm
<1>5. ~(Update(p) \/ Install(p) \/ UpdateRuntime(p) \/ InstallRuntime(p) \/ Pin(p)
          \/ Unpin(p) \/ RecordRuntime(p) \/ RecordApp(p) \/ Publish(p) \/ Replace(p)
          \/ DropOldRuntime(p))
  BY DEF Update, Install, UpdateRuntime, InstallRuntime, Pin, Unpin, RecordRuntime,
     RecordApp, Publish, Replace, DropOldRuntime, At, Calm
<1>6. ~(Uninstall(p) \/ Unrecord(p) \/ UninstallRuntime(p) \/ UninstallUnused(p)
          \/ UnrecordRuntime(p) \/ Scrub(p) \/ Launch(p) \/ PinRun(p) \/ Mount(p))
  BY DEF Uninstall, Unrecord, UninstallRuntime, UninstallUnused, UnrecordRuntime, Scrub,
     Launch, PinRun, Mount, At, Calm
<1> QED  BY <1>2, <1>3, <1>4, <1>5, <1>6 DEF Step

\* The cleanups of the others go on as they were when a process dies.
LEMMA CrashReclaims ==
    ASSUME TypeInv, ReclaimInv, NEW p \in Process, Crash(p)
    PROVE  ReclaimInv'
<1>1. Others(p) /\ job'[p] = Idle
  BY EndEffect DEF TypeInv, Crash
<1>2. job'[p].at = "none"
  BY <1>1 DEF Idle
<1>3. UNCHANGED <<dest, staging, backup, appRec, rtRec, runs>>
  BY DEF Crash, S!Abort, S!files, records
<1>4. Alone'
  BY <1>1, <1>2 DEF ReclaimInv, Alone, Others, Calm
<1>5. SoundInv'
  BY <1>1, <1>2, <1>3 DEF ReclaimInv, SoundInv, Others, Sound, Named, Installed
<1>6. CleanedInv'
  BY <1>1, <1>2, <1>3 DEF ReclaimInv, CleanedInv, Cleaned, Others, At, Content, Kept
<1> QED  BY <1>4, <1>5, <1>6 DEF ReclaimInv

\* A step of the command that runs, to a place outside of its cleanup.
LEMMA AwayReclaims ==
    ASSUME ReclaimInv, NEW p \in Process, Elsewhere(p), job'[p].at \notin Sound,
           \A q \in Process : q # p => job[q].at \in Calm
    PROVE  ReclaimInv'
<1>1. \A q \in Process : q # p => job'[q].at \in Calm
  BY DEF Elsewhere
<1>2. \A q \in Process : job'[q].at \notin Sound
  BY <1>1 DEF Calm, Sound
<1> QED  BY <1>1, <1>2 DEF ReclaimInv, Alone, SoundInv, CleanedInv, Cleaned, At, Sound

\* A step that moves p only, to a place outside of a cleanup.
Away(p) == Elsewhere(p) /\ job'[p].at \notin Sound

LEMMA GoAway ==
    ASSUME TypeInv, NEW p \in Process, NEW label, Go(p, label), label \notin Sound
    PROVE  Away(p)
  BY GoEffect, OthersElsewhere DEF TypeInv, Away

LEMMA EndAway ==
    ASSUME TypeInv, NEW p \in Process, End(p)
    PROVE  Away(p)
<1>1. Others(p) /\ job'[p] = Idle
  BY EndEffect DEF TypeInv
<1> QED  BY <1>1, OthersElsewhere DEF Away, Idle, Sound

LEMMA StayAway ==
    ASSUME NEW p \in Process, UNCHANGED job, job[p].at \notin Sound
    PROVE  Away(p)
  BY DEF Away, Elsewhere

\* The storage, the startup and what ends a command.
LEMMA CommonAway ==
    ASSUME TypeInv, NEW p \in Process,
           \/ OpenStorage(p) \/ Deploy(p) \/ StorageWork(p) \/ CloseStorage(p)
           \/ Start(p) \/ Exit(p) \/ Decline(p) \/ Done(p)
           \/ ListBindings(p) \/ Bind(p) \/ Bound(p)
    PROVE  Away(p)
<1>1. CASE OpenStorage(p) \/ Deploy(p) \/ StorageWork(p)
  <2>1. job[p].at \notin Sound
    BY <1>1 DEF OpenStorage, Deploy, StorageWork, UsesStorage, At, Sound
  <2>2. End(p) \/ UNCHANGED job
    BY <1>1 DEF OpenStorage, Deploy, StorageWork
  <2> QED  BY <2>1, <2>2, EndAway, StayAway
<1>2. CASE CloseStorage(p)
  <2>1. End(p) \/ \E label \in {"list_bindings", "keep_apps", "record_runtime", "pin"} :
                     Go(p, label)
    BY <1>2 DEF CloseStorage
  <2> QED  BY <2>1, EndAway, GoAway DEF Sound
<1>3. CASE Start(p)
  <2>1. Others(p) /\ job'[p].at = "startup"
    BY <1>3 DEF Start, TypeInv, JobShape, Idle, Others
  <2> QED  BY <2>1, OthersElsewhere DEF Away, Sound
<1>4. CASE Exit(p) \/ ListBindings(p) \/ Bound(p)
  <2>1. Others(p) /\ job'[p].at \in {"keep_apps", "bind", "replaced"}
    BY <1>4 DEF Exit, ListBindings, Bound, TypeInv, JobShape, Fields, Others
  <2> QED  BY <2>1, OthersElsewhere DEF Away, Sound
<1>5. CASE Bind(p)
  <2>1. Others(p) /\ job'[p].at = "bind"
    BY <1>5 DEF Bind, At, TypeInv, JobShape, Fields, Others
  <2> QED  BY <2>1, OthersElsewhere DEF Away, Sound
<1>6. CASE Decline(p)
  BY <1>6, EndAway DEF Decline
<1>7. CASE Done(p)
  <2>1. CASE Go(p, "last_refs")
    BY <2>1, GoAway DEF Sound
  <2>2. CASE End(p)
    BY <2>2, EndAway
  <2>3. CASE job' = [job EXCEPT ![p].cmd = "update", ![p].at = "update",
                                ![p].tgt = NoRecord, ![p].copy = job[p].tgt.listed]
    <3>1. Others(p) /\ job'[p].at = "update"
      BY <2>3 DEF TypeInv, JobShape, Fields, Others
    <3> QED  BY <3>1, OthersElsewhere DEF Away, Sound
  <2> QED  BY <1>7, <2>1, <2>2, <2>3 DEF Done
<1> QED  BY <1>1, <1>2, <1>3, <1>4, <1>5, <1>6, <1>7

\* install and update.
LEMMA DeployingAway ==
    ASSUME TypeInv, NEW p \in Process,
           \/ Update(p) \/ Install(p) \/ UpdateRuntime(p) \/ InstallRuntime(p)
           \/ Pin(p) \/ Unpin(p) \/ RecordRuntime(p) \/ RecordApp(p) \/ Publish(p)
           \/ Replace(p) \/ DropOldRuntime(p)
    PROVE  Away(p)
<1>1. JobShape
  BY DEF TypeInv
<1>2. CASE Update(p) \/ Install(p)
  <2>1. \E o, a, old, forceApp, forceRt : Select(p, o, a, old, forceApp, forceRt)
    BY <1>2 DEF Update, Install
  <2>2. Others(p) /\ job'[p].at = "deploy"
    BY <1>1, <2>1 DEF Select, JobShape, Fields, Others
  <2> QED  BY <2>2, OthersElsewhere DEF Away, Sound
<1>3. CASE UpdateRuntime(p) \/ InstallRuntime(p)
  <2>1. \E o : SelectRuntime(p, o)
    BY <1>3 DEF UpdateRuntime, InstallRuntime
  <2>2. Others(p) /\ job'[p].at = "deploy"
    BY <1>1, <2>1 DEF SelectRuntime, JobShape, Fields, Others
  <2> QED  BY <2>2, OthersElsewhere DEF Away, Sound
<1>4. CASE \/ Pin(p) \/ Unpin(p) \/ RecordRuntime(p) \/ RecordApp(p) \/ Publish(p)
           \/ Replace(p) \/ DropOldRuntime(p)
  <2>1. End(p) \/ \E label \in {"unpin", "record_runtime", "record_app", "list_bindings",
                                "drop_old", "scrub", "refs", "keep_apps"} : Go(p, label)
    BY <1>4 DEF Pin, Unpin, RecordRuntime, RecordApp, Publish, Replace, DropOldRuntime
  <2> QED  BY <2>1, EndAway, GoAway DEF Sound
<1> QED  BY <1>2, <1>3, <1>4

\* uninstall and run.
LEMMA RemovingAway ==
    ASSUME TypeInv, NEW p \in Process,
           \/ Uninstall(p) \/ Unrecord(p) \/ UninstallRuntime(p) \/ UninstallUnused(p)
           \/ UnrecordRuntime(p) \/ Scrub(p) \/ Launch(p) \/ PinRun(p) \/ Mount(p)
    PROVE  Away(p)
<1>1. CASE Uninstall(p) \/ UninstallRuntime(p) \/ UninstallUnused(p) \/ Launch(p)
  <2>1. \E t : \E label \in {"unrecord", "scrub", "pin_run"} :
            job' = [job EXCEPT ![p].tgt = t, ![p].at = label]
    BY <1>1 DEF Uninstall, UninstallRuntime, UninstallUnused, Launch
  <2>2. Others(p) /\ job'[p].at \in {"unrecord", "scrub", "pin_run"}
    BY <2>1 DEF TypeInv, JobShape, Fields, Others
  <2> QED  BY <2>2, OthersElsewhere DEF Away, Sound
<1>2. CASE Unrecord(p) \/ UnrecordRuntime(p) \/ Mount(p)
  <2>1. End(p) \/ \E label \in {"scrub", "keep_apps", "running"} : Go(p, label)
    BY <1>2 DEF Unrecord, UnrecordRuntime, Mount
  <2> QED  BY <2>1, EndAway, GoAway DEF Sound
<1>3. CASE Scrub(p)
  <2>1. UNCHANGED job \/ \E label \in {"drop_old", "unrecord", "refs"} : Go(p, label)
    BY <1>3 DEF Scrub, AfterScrub
  <2>2. job[p].at \notin Sound
    BY <1>3 DEF Scrub, At, Sound
  <2> QED  BY <2>1, <2>2, StayAway, GoAway DEF Sound
<1>4. CASE PinRun(p) /\ job[p].tgt.app \in Installed
  BY <1>4, PinRunEffect DEF TypeInv, Away, Elsewhere, Sound
<1>5. CASE PinRun(p) /\ job[p].tgt.app \notin Installed
  BY <1>5, EndAway DEF PinRun
<1> QED  BY <1>1, <1>2, <1>3, <1>4, <1>5

\* A step of the command that runs, within its cleanup.
LEMMA CleanupReclaims ==
    ASSUME ReclaimInv, NEW p \in Process, Others(p), UNCHANGED records,
           \A q \in Process : q # p => job[q].at \in Calm,
           job'[p].at \in Sound => job'[p].keep \subseteq Named,
           \A path \in Path : Content(path)' \in Commit => Cleaned(p, path)'
    PROVE  ReclaimInv'
<1>1. \A q \in Process : q # p => job'[q].at \in Calm
  BY DEF Others
<1>2. Alone'
  BY <1>1 DEF Alone
<1>3. SoundInv'
  BY <1>1 DEF SoundInv, Calm, Sound, Named, Installed, records
<1>4. CleanedInv'
  <2>1. \A q \in Process : q # p => \A path \in Path : Cleaned(q, path)'
    BY <1>1 DEF Cleaned, At, Calm
  <2> QED  BY <2>1 DEF CleanedInv
<1> QED  BY <1>2, <1>3, <1>4 DEF ReclaimInv

\* Reading the records.
LEMMA KeepReclaims ==
    ASSUME TypeInv, ReclaimInv, NEW p \in Process,
           \A q \in Process : q # p => job[q].at \in Calm,
           KeepApps(p) \/ KeepRuntimes(p) \/ KeepRuns(p)
    PROVE  ReclaimInv'
<1>1. JobShape
  BY DEF TypeInv
<1>2. /\ Others(p) /\ UNCHANGED records
      /\ job'[p].at \in {"keep_runtimes", "keep_runs", "list_runtimes"}
  BY <1>1 DEF KeepApps, KeepRuntimes, KeepRuns, JobShape, Fields, Others
<1>3. job[p].at \in {"keep_runtimes", "keep_runs"} => job[p].keep \subseteq Named
  BY DEF ReclaimInv, SoundInv, Sound
<1>4. job'[p].keep \subseteq Named
  <2>1. CASE KeepApps(p)
    BY <1>1, <2>1 DEF KeepApps, JobShape, Fields, Named
  <2>2. CASE KeepRuntimes(p)
    BY <1>1, <1>3, <2>2 DEF KeepRuntimes, At, JobShape, Fields, Named
  <2>3. CASE KeepRuns(p)
    BY <1>1, <1>3, <2>3 DEF KeepRuns, At, JobShape, Fields, Named
  <2> QED  BY <2>1, <2>2, <2>3
<1>5. \A path \in Path : Cleaned(p, path)'
  BY <1>2 DEF Cleaned, At
<1> QED  BY <1>2, <1>4, <1>5, CleanupReclaims

\* Listing what to remove, and the end of the removal.
LEMMA ListReclaims ==
    ASSUME TypeInv, ReclaimInv, NEW p \in Process,
           \A q \in Process : q # p => job[q].at \in Calm,
           ListRuntimes(p) \/ ListApps(p) \/ Swept(p)
    PROVE  ReclaimInv'
<1>1. JobShape /\ job[p].cmd \in Command \cup {"none"}
  BY DEF TypeInv, JobInv, JobOK
<1>2. /\ Others(p) /\ UNCHANGED <<records, storage>>
      /\ job'[p].keep = job[p].keep
  BY <1>1, GoEffect DEF ListRuntimes, ListApps, Swept, JobShape, Fields, Others
<1>3. job[p].at \in {"list_runtimes", "sweep_runtimes", "sweep_apps"}
  BY DEF ListRuntimes, ListApps, Swept, At
<1>4. job'[p].keep \subseteq Named
  BY <1>2, <1>3 DEF ReclaimInv, SoundInv, Sound
<1>5. \A path \in Path : Content(path)' = Content(path)
  BY <1>2 DEF Content, storage, trees
<1>6. \A path \in Path : path.dir \in AppDir \cup RuntimeDir
  BY GenerationAssumption DEF Path
<1>7. ASSUME NEW path \in Path, Content(path) \in Commit PROVE Cleaned(p, path)'
  <2>1. Cleaned(p, path) /\ (Kept(p, path)' <=> Kept(p, path))
    BY <1>2, <1>7 DEF ReclaimInv, CleanedInv, Kept
  <2>2. CASE ListRuntimes(p)
    <3>1. job'[p].at = "sweep_runtimes" /\ job'[p].doomed = Retired(p, RuntimeDir)
      BY <1>1, <2>2 DEF ListRuntimes, JobShape, Fields
    <3>2. path.dir \in AppDir \/ path \in job'[p].doomed \/ Kept(p, path)
      BY <1>6, <1>7, <3>1 DEF Retired, Kept
    <3> QED  BY <2>1, <3>1, <3>2 DEF Cleaned, At
  <2>3. CASE ListApps(p)
    <3>1. /\ job'[p].at = "sweep_apps" /\ job'[p].doomed = Retired(p, AppDir)
          /\ job[p].at = "sweep_runtimes" /\ job[p].doomed = {}
      BY <1>1, <2>3 DEF ListApps, At, JobShape, Fields
    <3>2. path \in job'[p].doomed \/ Kept(p, path)
      BY <1>7, <2>1, <3>1 DEF Retired, Kept, Cleaned, At
    <3> QED  BY <2>1, <3>1, <3>2 DEF Cleaned, At
  <2>4. CASE Swept(p)
    <3>1. /\ job'[p].at \in Command \cup {"none", "done"}
          /\ job[p].at = "sweep_apps" /\ job[p].doomed = {}
      BY <1>1, <2>4, GoEffect DEF Swept, At
    <3>2. Kept(p, path)
      BY <2>1, <3>1 DEF Cleaned, At
    <3> QED  BY <2>1, <3>1, <3>2 DEF Cleaned, At, Command
  <2> QED  BY <2>2, <2>3, <2>4
<1> QED  BY <1>2, <1>4, <1>5, <1>7, CleanupReclaims

\* safe_remove_dir leaves no marker where it goes on or ends without one, and
\* touches nothing else.
LEMMA RemoveEffect ==
    ASSUME TreeTypes, NEW path \in Path, Remove(path), NEW x \in Path,
           Content(x)' \in Commit
    PROVE  Content(x) \in Commit /\ (x = path => Whole(path))
<1>1. \A c : S!Erode(c) \notin Commit
  BY StorageAssumption DEF S!Erode
<1>2. /\ path.dir \in Dest /\ x.dir \in Dest
      /\ path.kind \in {"dest", "staging", "backup"} /\ x.kind \in {"dest", "staging", "backup"}
      /\ x.kind = path.kind /\ x.dir = path.dir => x = path
  BY DEF Path
<1>3. /\ dest \in [Dest -> S!Contents] /\ backup \in [Dest -> S!Contents]
      /\ staging \in [Dest -> [Commit -> S!Contents]] /\ CommitOf[x.dir] \in Commit
  BY <1>2, GenerationAssumption DEF TreeTypes, S!TypeOK
<1>4. CASE x.kind = "dest"
  <2>1. Content(x) = dest[x.dir] /\ Content(x)' = dest'[x.dir]
    BY <1>4 DEF Content
  <2>2. CASE path.kind = "dest"
    BY <1>2, <1>3, <1>4, <2>1, <2>2, StorageAssumption DEF Remove, Whole
  <2>3. CASE path.kind # "dest"
    BY <1>4, <2>1, <2>3 DEF Remove
  <2> QED  BY <2>2, <2>3
<1>5. CASE x.kind = "staging"
  <2>1. /\ Content(x) = staging[x.dir][CommitOf[x.dir]]
        /\ Content(x)' = staging'[x.dir][CommitOf[x.dir]]
    BY <1>5 DEF Content
  <2>2. CASE path.kind = "staging" /\ path.dir = x.dir
    <3>1. staging' = [staging EXCEPT ![x.dir][CommitOf[x.dir]] = S!Erode(@)]
      BY <2>2 DEF Remove
    <3>2. staging'[x.dir][CommitOf[x.dir]] = S!Erode(staging[x.dir][CommitOf[x.dir]])
      BY <1>2, <1>3, <3>1
    <3> QED  BY <1>1, <2>1, <3>2
  <2>3. CASE path.kind = "staging" /\ path.dir # x.dir
    BY <1>2, <1>3, <2>1, <2>3 DEF Remove
  <2>4. CASE path.kind # "staging"
    BY <1>5, <2>1, <2>4 DEF Remove
  <2> QED  BY <2>2, <2>3, <2>4
<1>6. CASE x.kind = "backup"
  <2>1. Content(x) = backup[x.dir] /\ Content(x)' = backup'[x.dir]
    BY <1>6 DEF Content
  <2>2. CASE path.kind = "backup" /\ path.dir = x.dir
    <3>1. backup'[x.dir] = S!Erode(backup[x.dir])
      BY <1>2, <1>3, <2>2 DEF Remove
    <3> QED  BY <1>1, <2>1, <3>1
  <2>3. CASE path.kind = "backup" /\ path.dir # x.dir
    BY <1>2, <1>3, <2>1, <2>3 DEF Remove
  <2>4. CASE path.kind # "backup"
    BY <1>6, <2>1, <2>4 DEF Remove
  <2> QED  BY <2>2, <2>3, <2>4
<1> QED  BY <1>2, <1>4, <1>5, <1>6

LEMMA SweepReclaims ==
    ASSUME TypeInv, ReclaimInv, NEW p \in Process,
           \A q \in Process : q # p => job[q].at \in Calm, Sweep(p)
    PROVE  ReclaimInv'
<1>1. JobShape /\ TreeTypes /\ job[p].doomed \subseteq Path
  BY DEF TypeInv, JobInv, JobOK
<1>2. PICK path \in job[p].doomed :
        /\ Remove(path)
        /\ job' = [job EXCEPT ![p].doomed = IF Whole(path) THEN @ ELSE @ \ {path}]
  BY DEF Sweep
<1>3. /\ Others(p) /\ job'[p].at = job[p].at /\ job'[p].keep = job[p].keep
      /\ job'[p].doomed = IF Whole(path) THEN job[p].doomed ELSE job[p].doomed \ {path}
  BY <1>1, <1>2 DEF JobShape, Fields, Others
<1>4. UNCHANGED records /\ job[p].at \in {"sweep_runtimes", "sweep_apps"}
  BY DEF Sweep
<1>5. job'[p].keep \subseteq Named
  BY <1>3, <1>4 DEF ReclaimInv, SoundInv, Sound
<1>6. ASSUME NEW x \in Path, Content(x)' \in Commit PROVE Cleaned(p, x)'
  <2>1. Content(x) \in Commit /\ (x = path => Whole(path))
    BY <1>1, <1>2, <1>6, RemoveEffect
  <2>2. Cleaned(p, x)
    BY <2>1 DEF ReclaimInv, CleanedInv
  <2>3. x \in job[p].doomed => x \in job'[p].doomed
    BY <1>3, <2>1
  <2> QED  BY <1>3, <2>2, <2>3 DEF Cleaned, At, Kept
<1> QED  BY <1>3, <1>4, <1>5, <1>6, CleanupReclaims

LEMMA InitReclaims == Init => ReclaimInv
<1> SUFFICES ASSUME Init PROVE ReclaimInv
  OBVIOUS
<1>1. \A p \in Process : job[p].at \in Calm
  BY DEF Init, Idle, Calm
<1> QED  BY <1>1 DEF ReclaimInv, Alone, SoundInv, CleanedInv, Cleaned, At, Calm, Sound

LEMMA StepReclaims ==
    ASSUME ~Overlap, TypeInv, ReclaimInv, [Next]_vars
    PROVE  ReclaimInv'
<1>1. CASE UNCHANGED vars
  BY <1>1 DEF vars, storage, trees, records, ReclaimInv, Alone, SoundInv, CleanedInv,
     Cleaned, Kept, Named, Installed, Content, At
<1>2. ASSUME NEW p \in Process, Step(p) PROVE ReclaimInv'
  <2>1. CASE Crash(p)
    BY <2>1, CrashReclaims
  <2>2. CASE ~Crash(p)
    <3>1. \A q \in Process : q # p => job[q].at \in Calm
      <4>1. ASSUME NEW q \in Process, q # p, job[q].at \notin Calm PROVE FALSE
        <5>1. job[p].at \in Calm
          BY <4>1 DEF ReclaimInv, Alone
        <5> QED  BY <1>2, <2>2, <4>1, <5>1, Resting
      <4> QED  BY <4>1
    <3>2. CASE KeepApps(p) \/ KeepRuntimes(p) \/ KeepRuns(p)
      BY <3>1, <3>2, KeepReclaims
    <3>3. CASE ListRuntimes(p) \/ ListApps(p) \/ Swept(p)
      BY <3>1, <3>3, ListReclaims
    <3>4. CASE Sweep(p)
      BY <3>1, <3>4, SweepReclaims
    <3>5. CASE Away(p)
      BY <3>1, <3>5, AwayReclaims DEF Away
    <3> QED  BY <1>2, <2>2, <3>2, <3>3, <3>4, <3>5, CommonAway, DeployingAway,
                RemovingAway DEF Step
  <2> QED  BY <2>1, <2>2
<1> QED  BY <1>1, <1>2 DEF Next, Quiet

\* ReclaimsRetired is invariant when commands do not overlap: whatever commands
\* there were before and wherever they were killed, a cleanup that comes to its
\* end leaves nothing with a marker that no record names, since it protects
\* nothing else and lists the runtimes, then the applications, completely.
THEOREM RetiredReclaimed == ASSUME ~Overlap PROVE Spec => []ReclaimsRetired
<1>1. ReclaimInv => ReclaimsRetired
  <2> SUFFICES ASSUME ReclaimInv, NEW p \in Process, At(p, "done"), NEW path \in Path,
                      Content(path) \in Commit
               PROVE  path.kind = "dest" /\ path.dir \in Named
    <3>1. \A d \in Named : \/ \E a \in Installed : d \in {appRec[a].adir, appRec[a].rdir}
                           \/ d \in {rtRec[ref] : ref \in Runtime}
                           \/ \E r \in runs : d \in {r.adir, r.rdir}
      BY DEF Named
    <3> QED  BY <3>1 DEF ReclaimsRetired
  <2>1. Kept(p, path)
    BY DEF ReclaimInv, CleanedInv, Cleaned
  <2>2. job[p].keep \subseteq Named
    BY DEF ReclaimInv, SoundInv, Sound, At
  <2> QED  BY <2>1, <2>2 DEF Kept
<1>2. TypeInv /\ ReclaimInv /\ [Next]_vars => ReclaimInv'
  BY StepReclaims
<1>3. Spec => []ReclaimInv
  BY <1>2, InitReclaims, TypeInvariance, PTL DEF Spec
<1> QED  BY <1>1, <1>3, PTL

-------------------------------------------------------------------------------
(***************************************************************************)
(* What is installed, mounted or just deployed keeps all of its files.     *)
(* The invariant says which directories have to stay (Needed): those that  *)
(* records name, those a command has deployed and not yet recorded, those  *)
(* a launch has read or a sandbox runs from, and, to the end of a command  *)
(* that deploys, those of the sandboxes it found running.  They are intact *)
(* (NeededIntact); no transaction, on disk or in memory, is about them     *)
(* (JournalForeign, StoreInv); a cleanup protects them record by record    *)
(* (CleanupInv); and what a command chose is still true when it acts on    *)
(* it (ChoiceInv, OwnerInv).                                               *)
(***************************************************************************)

\* Commands run one after the other, none of them renames an application, and
\* none removes a runtime by itself.
Orderly ==
    /\ ~Overlap
    /\ Renames = {}
    /\ Commands \cap {"uninstall_runtime", "uninstall_unused"} = {}

Deploying == {"install", "update", "install_runtime", "update_runtime"}

\* A deployment that is complete and not yet in its records.
Committed == {"pin", "unpin", "record_runtime", "record_app"}

Launching == {"pin_run", "mount", "running"}

\* The directories that a process is about to record, or runs from.
Needs(p) ==
    CASE job[p].at \in Committed -> job[p].tgt.dirs
      [] job[p].at \in Launching -> {job[p].tgt.adir, job[p].tgt.rdir}
      [] OTHER -> {}

\* The directories that have to stay, to the end of a deployment also those of
\* the sandboxes it found running.
Needed(d) ==
    /\ d \in Dest
    /\ \/ \E a \in Installed : d \in {appRec[a].adir, appRec[a].rdir}
       \/ \E ref \in Runtime : rtRec[ref] = d
       \/ \E p \in Process : d \in Needs(p)
       \/ \E p \in Process : /\ job[p].cmd \in Deploying
                            /\ \E r \in runs : d \in {r.adir, r.rdir}

NeededIntact == \A d \in Dest : Needed(d) => Intact(d)

\* An entry of a transaction, that of no directory that has to stay.
Foreign(a) == a.dest \in Dest /\ a = Act(a.dest) /\ ~Needed(a.dest)

JournalForeign == \A a \in journal : Foreign(a)

\* What a process knows of the record it has made, and of what it has chosen.
Choice(p) ==
    LET j == job[p] IN
    /\ j.cmd \notin {"uninstall_runtime", "uninstall_unused"}
    /\ j.at = "none" => j.cmd = "none"
    /\ j.at = "startup" => j.tgt = NoRecord
    /\ j.at = "running" => j.cmd = "run"
    /\ j.at = "scrub" => j.cmd = "uninstall"
    /\ j.at \in Launching => AppOf[j.tgt.adir] = j.tgt.app
    /\ j.at \in {"mount", "running"} => RunOf(p) \in runs
    /\ j.at \in {"deploy"} \cup Committed =>
          IF j.cmd \in {"install", "update"}
          THEN AppOf[j.tgt.adir] = j.tgt.app /\ j.tgt.dirs = {j.tgt.adir, j.tgt.rdir}
          ELSE j.tgt.dirs = {j.tgt.rdir}
    /\ j.at = "deploy" => \A d \in j.tgt.force : ~Needed(d)
    /\ j.cmd = "update" /\ j.at \in {"deploy", "replaced"} \cup Committed =>
          j.tgt.old.app = j.tgt.app
    /\ j.cmd = "update" /\ j.at \in {"list_bindings", "bind"} /\ j.tgt # NoRecord =>
          j.tgt.old.app = j.tgt.app
    /\ j.at = "bind" => \A a \in App : j.copy[a] \in {NoRecord, appRec[a]}
    /\ j.at = "unrecord" => /\ appRec[j.tgt.app] # NoRecord
                            /\ j.tgt.dir = appRec[j.tgt.app].adir
                            /\ \A q \in Process : job[q].at = "running" =>
                                   job[q].tgt.app # j.tgt.app
    /\ j.at = "scrub" => ~Needed(j.tgt.dir)

ChoiceInv == \A p \in Process : Choice(p)

OwnerInv ==
    /\ \A r \in runs : job[r.by].at \in {"mount", "running"} => r = RunOf(r.by)
    /\ \A a \in Installed : AppOf[appRec[a].adir] = a

\* The storage works on behalf of the command, on a transaction of its own.
Staging == {"stage", "unstage", "checkout", "seal"}
Moving == {"next", "drop", "preserve", "activate"}
Visiting == {"unstage", "checkout", "seal", "drop", "preserve", "activate"}

Transaction(p) ==
    /\ pc[p] # "idle" => UsesStorage(p)
    /\ pc[p] \in {"idle", "ready", "deployed"} => work[p] = {}
    /\ pc[p] \in Staging \cup {"ready", "deployed"} => journal = {}
    /\ \A a \in work[p] : Foreign(a)
    /\ todo[p] \subseteq work[p]
    /\ pc[p] \in Visiting => cur[p] \in todo[p]
    /\ job[p].at \in Committed => journal = {}

\* A deployment stages what does not match, and then moves it.
Staged(a) == staging[a.dest][a.commit] = a.commit

Deployment(p) ==
    /\ pc[p] \in Staging \cup {"deployed"} => mode[p] = "deploy"
    /\ pc[p] # "idle" /\ mode[p] = "deploy" =>
          /\ job[p].at = "deploy" /\ pc[p] # "ready"
          /\ plan[p] = {Act(d) : d \in job[p].tgt.dirs}
          /\ work[p] \subseteq plan[p]
          /\ pc[p] \in Staging => /\ \A a \in plan[p] \ work[p] : S!Matches(a)
                                  /\ \A a \in work[p] \ todo[p] : Staged(a)
          /\ pc[p] \in Moving => /\ \A a \in plan[p] \ todo[p] : S!Matches(a)
                                 /\ \A a \in todo[p] : Staged(a)
          /\ pc[p] \in {"clean", "deployed"} => \A a \in plan[p] : S!Matches(a)

StoreInv == \A p \in Process : Transaction(p) /\ Deployment(p)

\* What a cleanup has read so far.
Protects(p) ==
    LET j == job[p] IN
    /\ j.at \in {"keep_runtimes", "keep_runs"} \cup Sparing =>
          \A a \in Installed : appRec[a].adir \in j.keep /\ appRec[a].rdir \in j.keep
    /\ j.at \in {"keep_runs"} \cup Sparing =>
          \A ref \in Runtime : rtRec[ref] = NoRecord \/ rtRec[ref] \in j.keep
    /\ j.at \in Sparing => \A r \in runs : r.adir \in j.keep /\ r.rdir \in j.keep
    /\ j.at \in Sweeping => \A path \in j.doomed :
                                path.kind = "dest" => path.dir \notin j.keep

\* A command that deploys meets no half-removed directory: the startup has
\* removed them all.
Entered == Deploying \cup {"deploy", "done"} \cup Committed

Deploys(p) == job[p].cmd \in Deploying /\ job[p].at \in Entered => gutted = {}

CleanupInv == \A p \in Process : Protects(p) /\ Deploys(p)

IntactInv ==
    /\ NeededIntact
    /\ JournalForeign
    /\ ChoiceInv
    /\ OwnerInv
    /\ StoreInv
    /\ CleanupInv

\* A step of p leaves alone what the others do.
Apart(p) ==
    \A q \in Process : q # p =>
        /\ job'[q].at = job[q].at /\ job'[q].cmd = job[q].cmd /\ job'[q].tgt = job[q].tgt
        /\ pc'[q] = pc[q] /\ mode'[q] = mode[q] /\ plan'[q] = plan[q]
        /\ work'[q] = work[q] /\ todo'[q] = todo[q] /\ cur'[q] = cur[q]

\* The others rest.
Quietly(p) == \A q \in Process : q # p => job[q].at \in Calm

\* Their sandboxes keep their records.
RunsStay(p) ==
    \A q \in Process : q # p /\ job[q].at = "running" => RunOf(q) \in runs'

Own(p) == Choice(p) /\ Transaction(p) /\ Deployment(p) /\ Protects(p) /\ Deploys(p)

\* What is known of a process that rests outlives a step of the command that runs.
LEMMA RestingIntact ==
    ASSUME IntactInv, NEW p \in Process, Apart(p), Quietly(p), RunsStay(p),
           NEW q \in Process, q # p
    PROVE  Own(q)'
<1>1. /\ job[q].at \in Calm /\ job'[q].at = job[q].at /\ job'[q].cmd = job[q].cmd
      /\ job'[q].tgt = job[q].tgt /\ pc'[q] = pc[q] /\ work'[q] = work[q]
      /\ todo'[q] = todo[q]
  BY DEF Apart, Quietly
<1>2. Choice(q) /\ Transaction(q)
  BY DEF IntactInv, ChoiceInv, StoreInv
<1>3. pc[q] = "idle" /\ work[q] = {} /\ todo[q] = {}
  BY <1>1, <1>2 DEF Transaction, UsesStorage, Calm
<1>4. job[q].cmd \notin Deploying
  BY <1>1, <1>2 DEF Choice, Calm, Deploying
<1>5. RunOf(q)' = RunOf(q)
  BY <1>1 DEF RunOf
<1>6. Choice(q)'
  BY <1>1, <1>2, <1>5 DEF Choice, Calm, Launching, Committed, RunsStay
<1>7. Transaction(q)' /\ Deployment(q)'
  BY <1>1, <1>3 DEF Transaction, Deployment, Staging, Visiting, Moving, Committed, Calm
<1>8. Protects(q)' /\ Deploys(q)'
  BY <1>1, <1>4 DEF Protects, Deploys, Calm
<1> QED  BY <1>6, <1>7, <1>8 DEF Own

\* So that a step of a command is a matter of its own state and of the disk.
LEMMA ActiveStep ==
    ASSUME IntactInv, NEW p \in Process, Apart(p), Quietly(p), RunsStay(p),
           NeededIntact', JournalForeign', OwnerInv', Own(p)'
    PROVE  IntactInv'
<1>1. \A q \in Process : Own(q)'
  BY RestingIntact
<1> QED  BY <1>1 DEF Own, IntactInv, ChoiceInv, StoreInv, CleanupInv

\* The same when the disk does not change and nothing more has to stay.
LEMMA RecordStep ==
    ASSUME IntactInv, NEW p \in Process, Apart(p), Quietly(p), RunsStay(p),
           UNCHANGED storage, pc[p] = "idle",
           \A d : Needed(d)' => Needed(d),
           job'[p].at \in Committed => journal = {},
           OwnerInv', Choice(p)', Protects(p)', Deploys(p)'
    PROVE  IntactInv'
<1>1. UNCHANGED <<journal, dest, gutted, pc, work, todo>>
  BY DEF storage, trees
<1>2. NeededIntact'
  BY <1>1 DEF IntactInv, NeededIntact, Intact
<1>3. JournalForeign'
  BY <1>1 DEF IntactInv, JournalForeign, Foreign
<1>4. Transaction(p)
  BY DEF IntactInv, StoreInv
<1>5. Transaction(p)' /\ Deployment(p)'
  BY <1>1, <1>4 DEF Transaction, Deployment, Staging, Visiting, Moving
<1> QED  BY <1>2, <1>3, <1>5, ActiveStep DEF Own

\* Nothing more has to stay after a step that removes records, or writes some
\* that name what had to stay already.
LEMMA NeededFrame ==
    ASSUME NEW p \in Process, Apart(p),
           \A a \in App : \/ appRec'[a] \in {appRec[a], NoRecord}
                          \/ Needed(appRec'[a].adir) /\ Needed(appRec'[a].rdir),
           \A ref \in Runtime : rtRec'[ref] \in {rtRec[ref], NoRecord} \/ Needed(rtRec'[ref]),
           \A d \in Needs(p)' : d \in Dest => Needed(d),
           \A r \in runs' : \/ /\ r \in runs
                               /\ job'[p].cmd \in Deploying => job[p].cmd \in Deploying
                            \/ Needed(r.adir) /\ Needed(r.rdir)
    PROVE  \A d : Needed(d)' => Needed(d)
<1> SUFFICES ASSUME NEW d, Needed(d)' PROVE Needed(d)
  OBVIOUS
<1>1. \A q \in Process : q # p => Needs(q)' = Needs(q)
  BY DEF Apart, Needs
<1>2. CASE \E a \in Installed' : d \in {appRec'[a].adir, appRec'[a].rdir}
  BY <1>2 DEF Needed, Installed
<1>3. CASE \E ref \in Runtime : rtRec'[ref] = d
  BY <1>3, RecordAssumption DEF Needed
<1>4. CASE \E q \in Process : d \in Needs(q)'
  BY <1>1, <1>4 DEF Needed
<1>5. CASE \E q \in Process : /\ job'[q].cmd \in Deploying
                              /\ \E r \in runs' : d \in {r.adir, r.rdir}
  BY <1>5 DEF Apart, Needed
<1> QED  BY <1>2, <1>3, <1>4, <1>5 DEF Needed

\* A directory of a record, of a launch or of a deployment has to stay.
LEMMA NeededFacts ==
    ASSUME TypeInv
    PROVE  /\ \A a \in Installed : Needed(appRec[a].adir) /\ Needed(appRec[a].rdir)
           /\ \A ref \in Runtime : rtRec[ref] # NoRecord => Needed(rtRec[ref])
           /\ \A p \in Process : \A d \in Needs(p) : d \in Dest => Needed(d)
           /\ \A p \in Process : job[p].cmd \in Deploying =>
                 \A r \in runs : Needed(r.adir) /\ Needed(r.rdir)
<1>1. \A a \in Installed : appRec[a].adir \in Dest /\ appRec[a].rdir \in Dest
  BY GenerationAssumption DEF TypeInv, RecordTypes, AppRecs, Pair, Installed
<1>2. \A ref \in Runtime : rtRec[ref] # NoRecord => rtRec[ref] \in Dest
  BY GenerationAssumption DEF TypeInv, RecordTypes
<1>3. \A r \in runs : r.adir \in Dest /\ r.rdir \in Dest
  BY GenerationAssumption DEF TypeInv, RecordTypes, RunRecord
<1> QED  BY <1>1, <1>2, <1>3 DEF Needed

\* Records keep their owners when none is added.
LEMMA OwnerFrame ==
    ASSUME TypeInv, IntactInv, NEW p \in Process, Apart(p), runs' \subseteq runs,
           job'[p].at \in {"mount", "running"} =>
               job[p].at \in {"mount", "running"} /\ job'[p].tgt = job[p].tgt,
           \A a \in App : appRec'[a] \in {appRec[a], NoRecord}
    PROVE  OwnerInv'
<1>1. \A r \in runs' : r \in runs /\ r.by \in Process
  BY ByType
<1>2. ASSUME NEW r \in runs', job'[r.by].at \in {"mount", "running"} PROVE r = RunOf(r.by)'
  <2>1. job[r.by].at \in {"mount", "running"} /\ job'[r.by].tgt = job[r.by].tgt
    BY <1>1, <1>2 DEF Apart
  <2> QED  BY <1>1, <2>1 DEF IntactInv, OwnerInv, RunOf
<1>3. \A a \in Installed' : AppOf[appRec'[a].adir] = a
  BY DEF IntactInv, OwnerInv, Installed
<1> QED  BY <1>2, <1>3 DEF OwnerInv

\* A step that leaves the storage and the other processes alone.
LEMMA OthersApart ==
    ASSUME NEW p, Others(p), UNCHANGED storage PROVE Apart(p)
  BY DEF Others, Apart, storage

\* The sandboxes of the others keep their records when only p's may go.
LEMMA RunsFrame ==
    ASSUME IntactInv, NEW p, \A r \in runs : r.by # p => r \in runs'
    PROVE  RunsStay(p)
<1>1. \A q \in Process : job[q].at = "running" => RunOf(q) \in runs /\ RunOf(q).by = q
  BY DEF IntactInv, ChoiceInv, Choice, RunOf
<1> QED  BY <1>1 DEF RunsStay

\* A command is over, and has removed records at most.
LEMMA EndIntact ==
    ASSUME TypeInv, IntactInv, NEW p \in Process, Quietly(p), End(p), UNCHANGED storage,
           pc[p] = "idle", runs' \subseteq runs, \A r \in runs : r.by # p => r \in runs',
           \A a \in App : appRec'[a] \in {appRec[a], NoRecord},
           \A ref \in Runtime : rtRec'[ref] \in {rtRec[ref], NoRecord}
    PROVE  IntactInv'
<1>1. Others(p) /\ job'[p] = Idle
  BY EndEffect DEF TypeInv
<1>2. /\ job'[p].at = "none" /\ job'[p].cmd = "none"
  BY <1>1 DEF Idle
<1>3. Apart(p) /\ RunsStay(p)
  BY <1>1, OthersApart, RunsFrame
<1>4. OwnerInv'
  BY <1>2, <1>3, OwnerFrame
<1>5. \A d : Needed(d)' => Needed(d)
  <2>1. Needs(p)' = {} /\ job'[p].cmd \notin Deploying
    BY <1>2 DEF Needs, Committed, Launching, Deploying
  <2> QED  BY <1>3, <2>1, NeededFrame
<1>6. Choice(p)' /\ Protects(p)' /\ Deploys(p)'
  BY <1>2 DEF Choice, Protects, Deploys, Launching, Committed, Deploying
<1> QED  BY <1>2, <1>3, <1>4, <1>5, <1>6, RecordStep DEF Committed

\* A process uses the storage at some places only.
LEMMA IdleOutside ==
    ASSUME IntactInv, NEW p \in Process, ~UsesStorage(p)
    PROVE  pc[p] = "idle"
  BY DEF IntactInv, StoreInv, Transaction

\* A step that only moves p, and not to a place where it needs directories.
LEMMA MoveIntact ==
    ASSUME TypeInv, IntactInv, NEW p \in Process, Quietly(p), Others(p),
           UNCHANGED <<storage, records>>, pc[p] = "idle",
           job'[p].at \notin Committed \cup Launching,
           job'[p].cmd \in Deploying => job[p].cmd \in Deploying,
           Choice(p)', Protects(p)', Deploys(p)'
    PROVE  IntactInv'
<1>1. UNCHANGED <<runs, appRec, rtRec>>
  BY DEF records
<1>2. Apart(p) /\ RunsStay(p)
  BY <1>1, OthersApart, RunsFrame
<1>3. OwnerInv'
  BY <1>1, <1>2, OwnerFrame DEF Launching
<1>4. \A d : Needed(d)' => Needed(d)
  BY <1>1, <1>2, NeededFrame DEF Needs
<1> QED  BY <1>2, <1>3, <1>4, RecordStep

\* What Deploys says outlives a step that leaves the disk alone.
LEMMA DeploysFrame ==
    ASSUME NEW p \in Process, UNCHANGED gutted,
           job'[p].cmd \in Deploying /\ job'[p].at \in Entered => gutted = {}
    PROVE  Deploys(p)'
  BY DEF Deploys

\* reconcile_runtime_bindings reads the records, and comes to its end.
LEMMA BindingIntact ==
    ASSUME TypeInv, IntactInv, NEW p \in Process, Quietly(p), ListBindings(p) \/ Bound(p)
    PROVE  IntactInv'
<1>1. JobShape /\ Choice(p)
  BY DEF TypeInv, IntactInv, ChoiceInv
<1>2. UNCHANGED <<storage, records>> /\ UNCHANGED <<dest, gutted, runs, appRec>>
  BY DEF ListBindings, Bound, storage, trees, records
<1>3. pc[p] = "idle"
  BY IdleOutside DEF ListBindings, Bound, At, UsesStorage
<1>4. /\ Others(p) /\ job'[p].cmd = job[p].cmd /\ job'[p].tgt = job[p].tgt
      /\ job'[p].at \in {"bind", "keep_apps", "replaced"}
  BY <1>1 DEF ListBindings, Bound, JobShape, Fields, Others
<1>5. Choice(p)'
  <2>1. CASE ListBindings(p)
    <3>1. job'[p].at = "bind" /\ job'[p].copy = appRec /\ job[p].at = "list_bindings"
      BY <1>1, <2>1 DEF ListBindings, At, JobShape, Fields
    <3> QED  BY <1>1, <1>2, <1>4, <3>1 DEF Choice, Launching, Committed
  <2>2. CASE Bound(p)
    <3>1. /\ job[p].at = "bind"
          /\ job'[p].at = IF job[p].tgt = NoRecord \/ RuntimeOnly(p)
                          THEN "keep_apps" ELSE "replaced"
      BY <1>1, <2>2 DEF Bound, At, JobShape, Fields
    <3> QED  BY <1>1, <1>4, <3>1 DEF Choice, Launching, Committed
  <2> QED  BY <2>1, <2>2
<1>6. Protects(p)'
  BY <1>4 DEF Protects
<1>7. Deploys(p)'
  BY <1>2, <1>4, DeploysFrame DEF Entered, Deploying, Committed
<1> QED  BY <1>2, <1>3, <1>4, <1>5, <1>6, <1>7, MoveIntact DEF Committed, Launching

\* reconcile_runtime_bindings writes back the record it has read, with a runtime
\* that is recorded.
LEMMA BindIntact ==
    ASSUME TypeInv, IntactInv, NEW p \in Process, Quietly(p), Bind(p)
    PROVE  IntactInv'
<1>1. JobShape /\ Choice(p) /\ JobOK(job[p]) /\ job[p].at = "bind"
  BY DEF TypeInv, IntactInv, ChoiceInv, JobInv, Bind, At
<1>2. UNCHANGED <<storage, rtRec, runs>> /\ UNCHANGED <<dest, gutted>>
  BY DEF Bind, storage, trees
<1>3. pc[p] = "idle"
  BY <1>1, IdleOutside DEF UsesStorage
<1>4. PICK a \in App :
        LET old == job[p].copy[a]
            current == rtRec[RefOf[old.rdir]]
        IN
        /\ old # NoRecord
        /\ appRec' = IF current \in {NoRecord, old.rdir} THEN appRec
                     ELSE [appRec EXCEPT ![a] = [old EXCEPT !.rdir = current]]
        /\ job' = [job EXCEPT ![p].copy[a] = NoRecord]
  BY DEF Bind
<1> DEFINE old == job[p].copy[a]
           current == rtRec[RefOf[old.rdir]]
<1>5. job[p].copy \in AppRecs /\ old = appRec[a] /\ appRec[a] \in Pair /\ a \in Installed
  BY <1>1, <1>4 DEF JobOK, Choice, AppRecs, Installed
<1>6. /\ Others(p) /\ job'[p].at = "bind" /\ job'[p].cmd = job[p].cmd
      /\ job'[p].tgt = job[p].tgt
      /\ \A b \in App : job'[p].copy[b] = IF b = a THEN NoRecord ELSE job[p].copy[b]
  BY <1>1, <1>4, <1>5 DEF JobShape, Fields, Others, AppRecs
<1>7. /\ \A b \in App \ {a} : appRec'[b] = appRec[b]
      /\ appRec'[a] # NoRecord /\ appRec'[a].adir = appRec[a].adir
      /\ appRec'[a].rdir \in {appRec[a].rdir, current}
      /\ appRec'[a].rdir # NoRecord
  <2>1. CASE current \in {NoRecord, old.rdir}
    <3>1. appRec' = appRec
      BY <1>4, <2>1
    <3> QED  BY <1>5, <3>1, RecordAssumption, GenerationAssumption DEF Pair, Installed
  <2>2. CASE current \notin {NoRecord, old.rdir}
    <3>1. appRec' = [appRec EXCEPT ![a] = [old EXCEPT !.rdir = current]]
      BY <1>4, <2>2
    <3>2. current \in RuntimeDir
      BY <1>5, <2>2, GenerationAssumption DEF TypeInv, RecordTypes, Pair
    <3>3. [old EXCEPT !.rdir = current] = [adir |-> old.adir, rdir |-> current]
      BY <1>5 DEF Pair
    <3>4. [adir |-> old.adir, rdir |-> current] \in Pair
      BY <1>5, <3>2 DEF Pair
    <3> QED  BY <1>5, <2>2, <3>1, <3>3, <3>4, RecordAssumption
                DEF TypeInv, RecordTypes, AppRecs
  <2> QED  BY <2>1, <2>2
<1>8. Apart(p) /\ RunsStay(p)
  BY <1>2, <1>6, OthersApart, RunsFrame
<1>9. Installed' = Installed
  BY <1>5, <1>7 DEF Installed
<1>10. OwnerInv'
  <2>1. \A b \in Installed' : AppOf[appRec'[b].adir] = b
    BY <1>5, <1>7, <1>9 DEF IntactInv, OwnerInv, Installed
  <2>2. \A r \in runs : r.by \in Process
    BY ByType
  <2>3. ASSUME NEW r \in runs, job'[r.by].at \in {"mount", "running"}
        PROVE  r = RunOf(r.by)'
    <3>1. job[r.by].at \in {"mount", "running"} /\ job'[r.by].tgt = job[r.by].tgt
      BY <1>6, <2>2, <2>3 DEF Others
    <3> QED  BY <3>1 DEF IntactInv, OwnerInv, RunOf
  <2> QED  BY <1>2, <2>1, <2>3 DEF OwnerInv
<1>11. \A d : Needed(d)' => Needed(d)
  <2>1. Needs(p)' = {}
    BY <1>6 DEF Needs, Committed, Launching
  <2>2. Needed(appRec[a].adir) /\ Needed(appRec[a].rdir)
    BY <1>5, NeededFacts
  <2>3. current # NoRecord => Needed(current)
    BY <1>5, NeededFacts, GenerationAssumption DEF Pair
  <2>4. Needed(appRec'[a].adir) /\ Needed(appRec'[a].rdir)
    BY <1>7, <2>2, <2>3
  <2> QED  BY <1>2, <1>6, <1>7, <1>8, <2>1, <2>4, NeededFrame
<1>12. Choice(p)'
  <2>1. \A b \in App : job'[p].copy[b] \in {NoRecord, appRec'[b]}
    BY <1>1, <1>6, <1>7 DEF Choice
  <2> QED  BY <1>1, <1>6, <2>1 DEF Choice, Launching, Committed
<1>13. Protects(p)' /\ Deploys(p)'
  BY <1>1, <1>2, <1>6, DeploysFrame DEF Protects, Entered, Deploying, Committed
<1> QED  BY <1>2, <1>3, <1>6, <1>8, <1>10, <1>11, <1>12, <1>13, RecordStep DEF Committed

\* The records protect, kind by kind, what has to stay.
LEMMA KeepIntact ==
    ASSUME TypeInv, IntactInv, NEW p \in Process, Quietly(p),
           KeepApps(p) \/ KeepRuntimes(p) \/ KeepRuns(p)
    PROVE  IntactInv'
<1>1. JobShape /\ Choice(p) /\ Protects(p)
  BY DEF TypeInv, IntactInv, ChoiceInv, CleanupInv
<1>2. /\ UNCHANGED <<storage, records>>
      /\ UNCHANGED <<dest, gutted, runs, appRec, rtRec>>
  BY DEF KeepApps, KeepRuntimes, KeepRuns, storage, trees, records
<1>3. pc[p] = "idle"
  BY IdleOutside DEF KeepApps, KeepRuntimes, KeepRuns, At, UsesStorage
<1>4. /\ Others(p) /\ job'[p].cmd = job[p].cmd
      /\ job'[p].at \in {"keep_runtimes", "keep_runs", "list_runtimes"}
  BY <1>1 DEF KeepApps, KeepRuntimes, KeepRuns, JobShape, Fields, Others
<1>5. Choice(p)'
  BY <1>1, <1>4 DEF Choice, Launching, Committed
<1>6. Protects(p)'
  <2>1. CASE KeepApps(p)
    <3>1. /\ job'[p].keep = UNION {{appRec[a].adir, appRec[a].rdir} : a \in Installed}
          /\ job'[p].at = "keep_runtimes"
      BY <1>1, <2>1 DEF KeepApps, JobShape, Fields
    <3> QED  BY <1>2, <3>1 DEF Protects, Installed
  <2>2. CASE KeepRuntimes(p)
    <3>1. /\ job'[p].keep = job[p].keep \cup ({rtRec[r] : r \in Runtime} \ {NoRecord})
          /\ job'[p].at = "keep_runs" /\ job[p].at = "keep_runtimes"
      BY <1>1, <2>2 DEF KeepRuntimes, At, JobShape, Fields
    <3> QED  BY <1>1, <1>2, <3>1 DEF Protects, Installed
  <2>3. CASE KeepRuns(p)
    <3>1. /\ job'[p].keep = job[p].keep \cup UNION {{r.adir, r.rdir} : r \in runs}
          /\ job'[p].at = "list_runtimes" /\ job[p].at = "keep_runs"
      BY <1>1, <2>3 DEF KeepRuns, At, JobShape, Fields
    <3> QED  BY <1>1, <1>2, <3>1 DEF Protects, Installed
  <2> QED  BY <2>1, <2>2, <2>3
<1>7. Deploys(p)'
  BY <1>2, <1>4, DeploysFrame DEF Entered, Deploying, Committed
<1> QED  BY <1>2, <1>3, <1>4, <1>5, <1>6, <1>7, MoveIntact DEF Committed, Launching

\* A cleanup lists what no record protects.
LEMMA ListIntact ==
    ASSUME TypeInv, IntactInv, NEW p \in Process, Quietly(p), ListRuntimes(p) \/ ListApps(p)
    PROVE  IntactInv'
<1>1. JobShape /\ Choice(p) /\ Protects(p)
  BY DEF TypeInv, IntactInv, ChoiceInv, CleanupInv
<1>2. /\ UNCHANGED <<storage, records>>
      /\ UNCHANGED <<dest, gutted, runs, appRec, rtRec>>
  BY DEF ListRuntimes, ListApps, storage, trees, records
<1>3. pc[p] = "idle"
  BY IdleOutside DEF ListRuntimes, ListApps, At, UsesStorage
<1>4. /\ Others(p) /\ job'[p].cmd = job[p].cmd /\ job'[p].keep = job[p].keep
      /\ job'[p].at \in Sweeping /\ job[p].at \in Sparing
      /\ \E dirs : job'[p].doomed = Retired(p, dirs)
  BY <1>1 DEF ListRuntimes, ListApps, At, JobShape, Fields, Others
<1>5. Choice(p)'
  BY <1>1, <1>4 DEF Choice, Launching, Committed
<1>6. \A path \in job'[p].doomed : path.kind = "dest" => path.dir \notin job[p].keep
  BY <1>4 DEF Retired
<1>7. Protects(p)'
  BY <1>1, <1>2, <1>4, <1>6 DEF Protects, Installed
<1>8. Deploys(p)'
  BY <1>2, <1>4, DeploysFrame DEF Entered, Deploying, Committed
<1> QED  BY <1>2, <1>3, <1>4, <1>5, <1>7, <1>8, MoveIntact DEF Committed, Launching

\* A cleanup leaves no directory half-removed: what it protects is intact, and
\* nothing else is left with a marker.
LEMMA SweptClean ==
    ASSUME TypeInv, ReclaimInv, IntactInv, NEW p \in Process, At(p, "sweep_apps"),
           job[p].doomed = {}, job[p].cmd \in Deploying
    PROVE  gutted = {}
<1> SUFFICES ASSUME NEW d \in gutted PROVE FALSE
  OBVIOUS
<1>1. d \in Dest /\ dest[d] \in Commit
  BY DEF TypeInv, TreeTypes
<1>2. PICK path : path = [kind |-> "dest", dir |-> d]
  OBVIOUS
<1>3. path \in Path /\ Content(path) \in Commit
  BY <1>1, <1>2 DEF Path, Content
<1>4. d \in job[p].keep
  BY <1>2, <1>3 DEF ReclaimInv, CleanedInv, Cleaned, Kept
<1>5. d \in Named
  BY <1>4 DEF ReclaimInv, SoundInv, Sound, At
<1>6. Needed(d)
  BY <1>1, <1>5 DEF Named, Needed
<1> QED  BY <1>1, <1>6 DEF IntactInv, NeededIntact, Intact

\* The cleanup is over, at startup or at the end of the command.
LEMMA SweptIntact ==
    ASSUME TypeInv, ReclaimInv, IntactInv, NEW p \in Process, Quietly(p), Swept(p)
    PROVE  IntactInv'
<1>1. JobShape /\ Choice(p) /\ job[p].cmd \in Command \cup {"none"}
  BY DEF TypeInv, IntactInv, ChoiceInv, JobInv, JobOK
<1>2. /\ UNCHANGED <<storage, records>>
      /\ UNCHANGED <<dest, gutted, runs>>
  BY DEF Swept, storage, trees, records
<1>3. pc[p] = "idle"
  BY IdleOutside DEF Swept, At, UsesStorage
<1>4. /\ Others(p) /\ job'[p].cmd = job[p].cmd
      /\ job'[p].at \in {job[p].cmd, "done"}
  BY <1>1, GoEffect DEF Swept
<1>5. Choice(p)'
  BY <1>1, <1>4 DEF Choice, Launching, Committed, Command
<1>6. Protects(p)'
  BY <1>1, <1>4 DEF Protects, Command
<1>7. Deploys(p)'
  BY <1>2, <1>4, DeploysFrame, SweptClean DEF Swept
<1> QED  BY <1>1, <1>2, <1>3, <1>4, <1>5, <1>6, <1>7, MoveIntact
            DEF Committed, Launching, Command

\* A command ends, declines, or goes on from runtimes to applications.
LEMMA DoneIntact ==
    ASSUME TypeInv, IntactInv, NEW p \in Process, Quietly(p), Done(p) \/ Decline(p)
    PROVE  IntactInv'
<1>1. JobShape /\ Choice(p) /\ Deploys(p) /\ job[p].cmd \in Command \cup {"none"}
  BY DEF TypeInv, IntactInv, ChoiceInv, CleanupInv, JobInv, JobOK
<1>2. /\ UNCHANGED <<storage, records>>
      /\ UNCHANGED <<dest, gutted, runs, appRec, rtRec>>
  BY DEF Done, Decline, storage, trees, records
<1>3. pc[p] = "idle"
  BY <1>1, IdleOutside DEF Done, Decline, At, UsesStorage, Command
<1>4. CASE End(p)
  BY <1>2, <1>3, <1>4, EndIntact
<1>5. CASE ~End(p)
  <2>1. /\ job[p].cmd = "update_runtime" /\ At(p, "done")
        /\ job' = [job EXCEPT ![p].cmd = "update", ![p].at = "update",
                              ![p].tgt = NoRecord, ![p].copy = job[p].tgt.listed]
    BY <1>1, <1>5 DEF Done, Decline, Choice
  <2>2. Others(p) /\ job'[p].cmd = "update" /\ job'[p].at = "update"
    BY <1>1, <2>1 DEF JobShape, Fields, Others
  <2>3. Choice(p)' /\ Protects(p)'
    BY <2>2 DEF Choice, Protects, Launching, Committed
  <2>4. gutted = {}
    BY <1>1, <2>1 DEF Deploys, At, Entered, Deploying
  <2>5. Deploys(p)'
    BY <1>2, <2>1, <2>4, DeploysFrame DEF Deploying
  <2> QED  BY <1>2, <1>3, <2>1, <2>2, <2>3, <2>5, MoveIntact
              DEF Committed, Launching, Deploying
<1> QED  BY <1>4, <1>5

\* A command begins: the records that are left are those of running sandboxes.
LEMMA StartIntact ==
    ASSUME Orderly, TypeInv, IntactInv, NEW p \in Process, Quietly(p), Start(p)
    PROVE  IntactInv'
<1>1. JobShape /\ pc[p] = "idle" /\ job[p].at = "none"
  BY IdleOutside DEF TypeInv, Start, At, UsesStorage
<1>2. UNCHANGED <<storage, appRec, rtRec>> /\ UNCHANGED <<dest, gutted>>
  BY DEF Start, storage, trees
<1>3. /\ Others(p) /\ job'[p].at = "startup" /\ job'[p].cmd \in Commands
      /\ job'[p].tgt = NoRecord
      /\ runs' = {r \in runs : job[r.by].at # "none"}
  BY <1>1 DEF Start, At, JobShape, Idle, Others
<1>4. Apart(p)
  BY <1>2, <1>3, OthersApart
<1>5. RunsStay(p)
  <2>1. \A q \in Process : job[q].at = "running" => RunOf(q) \in runs /\ RunOf(q).by = q
    BY DEF IntactInv, ChoiceInv, Choice, RunOf
  <2> QED  BY <1>3, <2>1 DEF RunsStay
<1>6. OwnerInv'
  BY <1>2, <1>3, <1>4, OwnerFrame
<1>7. ASSUME NEW r \in runs' PROVE Needed(r.adir) /\ Needed(r.rdir)
  <2>1. r.by \in Process /\ r \in runs /\ r.adir \in Dest /\ r.rdir \in Dest
    BY <1>3, GenerationAssumption DEF TypeInv, RecordTypes, RunRecord
  <2>2. job[r.by].at = "running"
    BY <1>1, <1>3, <2>1 DEF Quietly, Calm
  <2>3. r = RunOf(r.by)
    BY <2>1, <2>2 DEF IntactInv, OwnerInv
  <2>4. r.adir = job[r.by].tgt.adir /\ r.rdir = job[r.by].tgt.rdir
    BY <2>3 DEF RunOf
  <2>5. r.adir \in Needs(r.by) /\ r.rdir \in Needs(r.by)
    BY <2>2, <2>4 DEF Needs, Committed, Launching
  <2> QED  BY <2>1, <2>5, NeededFacts
<1>8. \A d : Needed(d)' => Needed(d)
  <2>1. Needs(p)' = {}
    BY <1>3 DEF Needs, Committed, Launching
  <2> QED  BY <1>2, <1>4, <1>7, <2>1, NeededFrame
<1>9. Choice(p)' /\ Protects(p)' /\ Deploys(p)'
  BY <1>3 DEF Orderly, Choice, Protects, Deploys, Entered, Deploying, Launching, Committed
<1> QED  BY <1>1, <1>2, <1>3, <1>4, <1>5, <1>6, <1>8, <1>9, RecordStep DEF Committed

\* A generation that is forced is a new directory.
LEMMA GenerationFresh ==
    ASSUME IntactInv, NEW family \in SUBSET Dest, NEW force, force,
           NEW d \in GenerationDir(family, force)
    PROVE  ~Needed(d)
<1>1. d \in Dest /\ dest[d] = Absent
  BY DEF GenerationDir
<1>2. CommitOf[d] # Absent
  BY <1>1, GenerationAssumption, StorageAssumption
<1> QED  BY <1>1, <1>2 DEF IntactInv, NeededIntact, Intact

\* A choice goes on to deploy, with nothing half-removed around.
LEMMA ChosenIntact ==
    ASSUME TypeInv, IntactInv, NEW p \in Process, Quietly(p), UNCHANGED <<storage, records>>,
           job[p].at \in Deploying, job[p].cmd \in Deploying, Others(p),
           job'[p].cmd = job[p].cmd, job'[p].at = "deploy", Choice(p)'
    PROVE  IntactInv'
<1>1. pc[p] = "idle"
  BY IdleOutside DEF UsesStorage, Deploying
<1>2. UNCHANGED <<dest, gutted, runs>>
  BY DEF storage, trees, records
<1>3. gutted = {}
  BY DEF IntactInv, CleanupInv, Deploys, Entered
<1>4. Deploys(p)'
  BY <1>2, <1>3, DeploysFrame
<1>5. Protects(p)'
  BY DEF Protects
<1> QED  BY <1>1, <1>4, <1>5, MoveIntact DEF Committed, Launching

\* install and update choose an application's and a runtime's generation.
LEMMA SelectIntact ==
    ASSUME TypeInv, IntactInv, NEW p \in Process, Quietly(p), UNCHANGED <<storage, records>>,
           NEW o \in Offers, NEW old, NEW forceApp, NEW forceRt,
           Select(p, o, o.app, old, forceApp, forceRt),
           job[p].at \in Deploying, job[p].cmd \in {"install", "update"}
    PROVE  IntactInv'
<1> DEFINE apps == {d \in AppDir : AppOf[d] = o.app /\ CommitOf[d] = o.commit}
           rts == {d \in RuntimeDir : RefOf[d] = o.ref /\ CommitOf[d] = o.rcommit}
<1>1. PICK adir \in GenerationDir(apps, forceApp) :
        \E rdir \in IF ~forceRt /\ rtRec[o.ref] \in rts THEN {rtRec[o.ref]}
                    ELSE GenerationDir(rts, forceRt) :
           job' = [job EXCEPT
                     ![p].tgt = [app |-> o.app, adir |-> adir, rdir |-> rdir,
                                 dirs |-> {adir, rdir},
                                 force |-> (IF forceApp THEN {adir} ELSE {})
                                              \cup (IF forceRt THEN {rdir} ELSE {}),
                                 old |-> [app |-> o.app, record |-> old]],
                     ![p].at = "deploy"]
  BY DEF Select
<1>2. PICK rdir \in IF ~forceRt /\ rtRec[o.ref] \in rts THEN {rtRec[o.ref]}
                    ELSE GenerationDir(rts, forceRt) :
        job' = [job EXCEPT
                  ![p].tgt = [app |-> o.app, adir |-> adir, rdir |-> rdir,
                              dirs |-> {adir, rdir},
                              force |-> (IF forceApp THEN {adir} ELSE {})
                                           \cup (IF forceRt THEN {rdir} ELSE {}),
                              old |-> [app |-> o.app, record |-> old]],
                  ![p].at = "deploy"]
  BY <1>1
<1>3. apps \in SUBSET Dest /\ rts \in SUBSET Dest
  BY GenerationAssumption
<1>4. adir \in apps
  BY DEF GenerationDir
<1>5. (forceApp => ~Needed(adir)) /\ (forceRt => ~Needed(rdir))
  <2>1. forceApp => ~Needed(adir)
    BY <1>3, GenerationFresh
  <2>2. forceRt => rdir \in GenerationDir(rts, forceRt)
    OBVIOUS
  <2>3. forceRt => ~Needed(rdir)
    BY <1>3, <2>2, GenerationFresh
  <2> QED  BY <2>1, <2>3
<1> DEFINE tgt == [app |-> o.app, adir |-> adir, rdir |-> rdir, dirs |-> {adir, rdir},
                   force |-> (IF forceApp THEN {adir} ELSE {})
                                \cup (IF forceRt THEN {rdir} ELSE {}),
                   old |-> [app |-> o.app, record |-> old]]
<1>6. PICK t : t = tgt
  OBVIOUS
<1>7. /\ t.app = o.app /\ t.adir = adir /\ t.rdir = rdir /\ t.dirs = {adir, rdir}
      /\ t.force = (IF forceApp THEN {adir} ELSE {}) \cup (IF forceRt THEN {rdir} ELSE {})
      /\ t.old.app = o.app
  BY <1>6
<1>8. job' = [job EXCEPT ![p].tgt = t, ![p].at = "deploy"]
  BY <1>2, <1>6
<1> HIDE DEF tgt, apps, rts
<1>9. JobShape /\ Choice(p)
  BY DEF TypeInv, IntactInv, ChoiceInv
<1>10. /\ Others(p) /\ job'[p].at = "deploy" /\ job'[p].tgt = t
       /\ job'[p].cmd = job[p].cmd
  BY <1>8, <1>9 DEF JobShape, Fields, Others
<1>11. UNCHANGED <<appRec, rtRec, runs>>
  BY DEF records
<1>12. \A d : Needed(d)' => Needed(d)
  BY <1>10, <1>11, OthersApart, NeededFrame DEF Needs, Committed, Launching
<1>13. \A d \in t.force : ~Needed(d)'
  BY <1>5, <1>7, <1>12
<1>14. AppOf[t.adir] = t.app /\ t.dirs = {t.adir, t.rdir} /\ t.old.app = t.app
  BY <1>4, <1>7 DEF apps
<1>15. Choice(p)'
  BY <1>9, <1>10, <1>13, <1>14 DEF Choice, Launching, Committed
<1> QED  BY <1>10, <1>15, ChosenIntact DEF Deploying

\* update_runtime chooses a new generation.
LEMMA SelectRuntimeIntact ==
    ASSUME TypeInv, IntactInv, NEW p \in Process, Quietly(p), UNCHANGED <<storage, records>>,
           NEW o \in Offers, SelectRuntime(p, o),
           job[p].at \in Deploying, job[p].cmd \in {"install_runtime", "update_runtime"}
    PROVE  IntactInv'
<1> DEFINE rts == {d \in RuntimeDir : RefOf[d] = o.ref /\ CommitOf[d] = o.rcommit}
<1>1. PICK d \in GenerationDir(rts, TRUE) :
        job' = [job EXCEPT
                  ![p].tgt = [rdir |-> d, dirs |-> {d}, force |-> {d}, listed |-> appRec],
                  ![p].at = "deploy"]
  BY DEF SelectRuntime
<1>2. rts \in SUBSET Dest
  BY GenerationAssumption
<1>3. ~Needed(d)
  BY <1>2, GenerationFresh
<1>4. PICK t : t = [rdir |-> d, dirs |-> {d}, force |-> {d}, listed |-> appRec]
  OBVIOUS
<1>5. t.rdir = d /\ t.dirs = {d} /\ t.force = {d}
  BY <1>4
<1>6. JobShape /\ Choice(p)
  BY DEF TypeInv, IntactInv, ChoiceInv
<1>7. job' = [job EXCEPT ![p].tgt = t, ![p].at = "deploy"]
  BY <1>1, <1>4
<1>8. /\ Others(p) /\ job'[p].at = "deploy" /\ job'[p].tgt = t
      /\ job'[p].cmd = job[p].cmd
  BY <1>6, <1>7 DEF JobShape, Fields, Others
<1>9. UNCHANGED <<appRec, rtRec, runs>>
  BY DEF records
<1>10. ~Needed(d)'
  BY <1>3, <1>8, <1>9, OthersApart, NeededFrame DEF Needs, Committed, Launching
<1>11. Choice(p)'
  BY <1>5, <1>6, <1>8, <1>10 DEF Choice, Launching, Committed
<1> QED  BY <1>8, <1>11, ChosenIntact DEF Deploying

\* The four commands that deploy make their choice.
LEMMA ChoosingIntact ==
    ASSUME Orderly, TypeInv, IntactInv, NEW p \in Process, Quietly(p),
           Update(p) \/ Install(p) \/ UpdateRuntime(p) \/ InstallRuntime(p)
    PROVE  IntactInv'
<1>1. JobOK(job[p])
  BY DEF TypeInv, JobInv
<1>2. UNCHANGED <<storage, records>>
  BY DEF Update, Install, UpdateRuntime, InstallRuntime
<1>3. job[p].at \in Deploying /\ job[p].cmd = job[p].at
  BY <1>1 DEF Update, Install, UpdateRuntime, InstallRuntime, At, JobOK, Place, Command,
     Deploying
<1>4. CASE Update(p)
  <2>1. PICK o \in Offers :
          \E old, forceApp, forceRt : Select(p, o, o.app, old, forceApp, forceRt)
    BY <1>4 DEF Update, Orderly
  <2> QED  BY <1>2, <1>3, <1>4, <2>1, SelectIntact DEF Update, At
<1>5. CASE Install(p)
  <2>1. PICK o \in Offers : \E forceRt : Select(p, o, o.app, NoRecord, TRUE, forceRt)
    BY <1>5 DEF Install
  <2> QED  BY <1>2, <1>3, <1>5, <2>1, SelectIntact DEF Install, At
<1>6. CASE UpdateRuntime(p) \/ InstallRuntime(p)
  <2>1. PICK o \in Offers : SelectRuntime(p, o)
    BY <1>6 DEF UpdateRuntime, InstallRuntime
  <2> QED  BY <1>2, <1>3, <1>6, <2>1, SelectRuntimeIntact
              DEF UpdateRuntime, InstallRuntime, At
<1> QED  BY <1>4, <1>5, <1>6

\* What a deployment that is complete stands for.
LEMMA CommittedFacts ==
    ASSUME TypeInv, IntactInv, NEW p \in Process, job[p].at \in Committed
    PROVE  /\ pc[p] = "idle" /\ journal = {} /\ job[p].cmd \in Deploying
           /\ gutted = {} /\ job[p].tgt.rdir \in job[p].tgt.dirs
           /\ \A d \in job[p].tgt.dirs : d \in Dest /\ Needed(d) /\ Intact(d)
           /\ job[p].at # "record_runtime" \/ ~RuntimeOnly(p) =>
                 /\ job[p].cmd \in {"install", "update"}
                 /\ job[p].tgt.app \in App /\ job[p].tgt.adir \in job[p].tgt.dirs
                 /\ AppOf[job[p].tgt.adir] = job[p].tgt.app
<1> DEFINE t == job[p].tgt
<1>1. Choice(p) /\ Transaction(p) /\ Deploys(p) /\ JobOK(job[p])
  BY DEF TypeInv, JobInv, IntactInv, ChoiceInv, StoreInv, CleanupInv
<1>2. pc[p] = "idle" /\ journal = {}
  BY <1>1 DEF Transaction, UsesStorage, Committed
<1>3. job[p].cmd \in Deploying /\ Target(job[p].cmd, t)
  BY <1>1 DEF JobOK, Place, Busy, Committed, Deploying
<1>4. t.dirs \subseteq Dest
  BY <1>3 DEF Target, Deploying
<1>5. gutted = {}
  BY <1>1, <1>3 DEF Deploys, Entered
<1>6. \A d \in t.dirs : Needed(d) /\ Intact(d)
  <2>1. Needs(p) = t.dirs
    BY DEF Needs, Committed, Launching
  <2> QED  BY <1>4, <2>1, NeededFacts DEF IntactInv, NeededIntact
<1>7. t.rdir \in t.dirs
  BY <1>1 DEF Choice
<1>8. job[p].at # "record_runtime" \/ ~RuntimeOnly(p) =>
          job[p].cmd \in {"install", "update"}
  BY <1>1, <1>3 DEF JobOK, Place, Committed, RuntimeOnly, Deploying
<1>9. job[p].cmd \in {"install", "update"} =>
          t.adir \in t.dirs /\ AppOf[t.adir] = t.app /\ t.app \in App
  BY <1>1, <1>3 DEF Choice, Target
<1> QED  BY <1>2, <1>3, <1>4, <1>5, <1>6, <1>7, <1>8, <1>9

\* The pin names directories that have to stay already.
LEMMA PinIntact ==
    ASSUME TypeInv, IntactInv, NEW p \in Process, Quietly(p), Pin(p)
    PROVE  IntactInv'
<1> DEFINE t == job[p].tgt
           r == [by |-> p, app |-> t.app, adir |-> t.adir, rdir |-> t.rdir]
<1>1. JobShape /\ Choice(p) /\ job[p].at = "pin"
  BY DEF TypeInv, IntactInv, ChoiceInv, Pin, At
<1>2. /\ pc[p] = "idle" /\ journal = {} /\ gutted = {} /\ t.rdir \in t.dirs
      /\ \A d \in t.dirs : d \in Dest /\ Needed(d) /\ Intact(d)
      /\ job[p].cmd \in Deploying /\ t.adir \in t.dirs
  BY <1>1, CommittedFacts DEF Committed
<1>3. /\ UNCHANGED <<storage, appRec, rtRec>> /\ UNCHANGED <<dest, gutted>>
      /\ runs' = runs \cup {r} /\ Go(p, "unpin")
  BY DEF Pin, storage, trees
<1>4. r.by = p /\ r.adir = t.adir /\ r.rdir = t.rdir
  OBVIOUS
<1> HIDE DEF r
<1>5. /\ Others(p) /\ job'[p].at = "unpin" /\ job'[p].tgt = t /\ job'[p].cmd = job[p].cmd
  BY <1>1, <1>3, GoEffect
<1>6. Apart(p) /\ RunsStay(p)
  BY <1>3, <1>5, OthersApart, RunsFrame
<1>7. OwnerInv'
  <2>1. \A x \in runs : x.by \in Process
    BY ByType
  <2>2. ASSUME NEW x \in runs', job'[x.by].at \in {"mount", "running"}
        PROVE  x = RunOf(x.by)'
    <3>1. x \in runs /\ x.by # p
      BY <1>3, <1>4, <1>5, <2>2
    <3>2. job'[x.by] = job[x.by]
      BY <1>5, <2>1, <3>1 DEF Others
    <3> QED  BY <2>2, <3>1, <3>2 DEF IntactInv, OwnerInv, RunOf
  <2> QED  BY <1>3, <2>2 DEF IntactInv, OwnerInv, Installed
<1>8. \A d : Needed(d)' => Needed(d)
  <2>1. Needs(p)' = t.dirs
    BY <1>5 DEF Needs, Committed, Launching
  <2>2. ASSUME NEW x \in runs', x \notin runs PROVE Needed(x.adir) /\ Needed(x.rdir)
    <3>1. x.adir \in t.dirs /\ x.rdir \in t.dirs
      BY <1>2, <1>3, <1>4, <2>2
    <3> QED  BY <1>2, <3>1
  <2> QED  BY <1>2, <1>3, <1>5, <1>6, <2>1, <2>2, NeededFrame
<1>9. Choice(p)'
  BY <1>1, <1>5 DEF Choice, Launching, Committed
<1>10. Protects(p)' /\ Deploys(p)'
  BY <1>2, <1>3, <1>5 DEF Protects, Deploys
<1> QED  BY <1>2, <1>3, <1>5, <1>6, <1>7, <1>8, <1>9, <1>10, RecordStep

\* Without the pin they still have to stay, for what p is about to record.
LEMMA UnpinIntact ==
    ASSUME TypeInv, IntactInv, NEW p \in Process, Quietly(p), Unpin(p)
    PROVE  IntactInv'
<1>1. JobShape /\ Choice(p) /\ Deploys(p) /\ job[p].at = "unpin"
  BY DEF TypeInv, IntactInv, ChoiceInv, CleanupInv, Unpin, At
<1>2. /\ pc[p] = "idle" /\ journal = {} /\ gutted = {}
      /\ \A d \in job[p].tgt.dirs : Needed(d)
  BY <1>1, CommittedFacts DEF Committed
<1>3. /\ UNCHANGED <<storage, appRec, rtRec>> /\ UNCHANGED <<dest, gutted>>
      /\ runs' = {r \in runs : r.by # p}
  BY DEF Unpin, storage, trees
<1>4. CASE End(p)
  BY <1>2, <1>3, <1>4, EndIntact
<1>5. CASE Go(p, "record_runtime")
  <2>1. /\ Others(p) /\ job'[p].at = "record_runtime" /\ job'[p].tgt = job[p].tgt
        /\ job'[p].cmd = job[p].cmd
    BY <1>1, <1>5, GoEffect
  <2>2. Apart(p) /\ RunsStay(p)
    BY <1>3, <2>1, OthersApart, RunsFrame
  <2>3. OwnerInv'
    BY <1>3, <2>1, <2>2, OwnerFrame
  <2>4. \A d : Needed(d)' => Needed(d)
    <3>1. Needs(p)' = job[p].tgt.dirs
      BY <2>1 DEF Needs, Committed, Launching
    <3> QED  BY <1>2, <1>3, <2>1, <2>2, <3>1, NeededFrame
  <2>5. Choice(p)'
    BY <1>1, <2>1 DEF Choice, Launching, Committed
  <2>6. Protects(p)' /\ Deploys(p)'
    BY <1>1, <1>2, <1>3, <2>1 DEF Protects, Deploys, Intact
  <2> QED  BY <1>2, <1>3, <2>2, <2>3, <2>4, <2>5, <2>6, RecordStep
<1> QED  BY <1>4, <1>5 DEF Unpin

\* The runtime record names a directory that had to stay.
LEMMA RecordRuntimeIntact ==
    ASSUME TypeInv, IntactInv, NEW p \in Process, Quietly(p), RecordRuntime(p)
    PROVE  IntactInv'
<1> DEFINE t == job[p].tgt
<1>1. JobShape /\ Choice(p) /\ job[p].at = "record_runtime"
  BY DEF TypeInv, IntactInv, ChoiceInv, RecordRuntime, At
<1>2. /\ pc[p] = "idle" /\ journal = {} /\ gutted = {} /\ t.rdir \in t.dirs
      /\ \A d \in t.dirs : Needed(d)
  BY <1>1, CommittedFacts DEF Committed
<1>3. /\ UNCHANGED <<storage, appRec, runs>> /\ UNCHANGED <<dest, gutted>>
      /\ rtRec' = [rtRec EXCEPT ![RefOf[t.rdir]] = t.rdir]
      /\ Go(p, IF RuntimeOnly(p) THEN "list_bindings" ELSE "record_app")
  BY DEF RecordRuntime, storage, trees
<1>4. /\ Others(p) /\ job'[p].tgt = t /\ job'[p].cmd = job[p].cmd
      /\ job'[p].at = IF RuntimeOnly(p) THEN "list_bindings" ELSE "record_app"
  BY <1>1, <1>3, GoEffect
<1>5. Apart(p) /\ RunsStay(p)
  BY <1>3, <1>4, OthersApart, RunsFrame
<1>6. OwnerInv'
  BY <1>3, <1>4, <1>5, OwnerFrame
<1>7. \A ref \in Runtime : rtRec'[ref] = rtRec[ref] \/ Needed(rtRec'[ref])
  BY <1>2, <1>3 DEF TypeInv, RecordTypes
<1>8. \A d : Needed(d)' => Needed(d)
  BY <1>2, <1>3, <1>4, <1>5, <1>7, NeededFrame DEF Needs, Committed, Launching
<1>9. Choice(p)'
  BY <1>1, <1>4 DEF Choice, Launching, Committed, RuntimeOnly
<1>10. Protects(p)' /\ Deploys(p)'
  BY <1>2, <1>3, <1>4, DeploysFrame DEF Protects
<1> QED  BY <1>2, <1>3, <1>5, <1>6, <1>8, <1>9, <1>10, RecordStep

\* So does the application record.
LEMMA RecordAppIntact ==
    ASSUME TypeInv, IntactInv, NEW p \in Process, Quietly(p), RecordApp(p)
    PROVE  IntactInv'
<1> DEFINE t == job[p].tgt
<1>1. JobShape /\ Choice(p) /\ job[p].at = "record_app"
  BY DEF TypeInv, IntactInv, ChoiceInv, RecordApp, At
<1>2. /\ pc[p] = "idle" /\ journal = {} /\ gutted = {} /\ t.rdir \in t.dirs
      /\ \A d \in t.dirs : Needed(d)
      /\ t.app \in App /\ t.adir \in t.dirs /\ AppOf[t.adir] = t.app
  BY <1>1, CommittedFacts DEF Committed
<1>3. /\ UNCHANGED <<storage, rtRec, runs>> /\ UNCHANGED <<dest, gutted>>
      /\ appRec' = [appRec EXCEPT ![t.app] = [adir |-> t.adir, rdir |-> t.rdir]]
      /\ Go(p, "list_bindings")
  BY DEF RecordApp, storage, trees
<1>4. /\ Others(p) /\ job'[p].tgt = t /\ job'[p].cmd = job[p].cmd
      /\ job'[p].at = "list_bindings"
  BY <1>1, <1>3, GoEffect
<1>5. Apart(p) /\ RunsStay(p)
  BY <1>3, <1>4, OthersApart, RunsFrame
<1>6. /\ \A a \in App \ {t.app} : appRec'[a] = appRec[a]
      /\ appRec'[t.app].adir = t.adir /\ appRec'[t.app].rdir = t.rdir
  BY <1>2, <1>3 DEF TypeInv, RecordTypes, AppRecs
<1>7. OwnerInv'
  <2>1. \A r \in runs : r.by \in Process
    BY ByType
  <2>2. ASSUME NEW r \in runs, job'[r.by].at \in {"mount", "running"}
        PROVE  r = RunOf(r.by)'
    <3>1. job[r.by].at \in {"mount", "running"} /\ job'[r.by].tgt = job[r.by].tgt
      BY <1>4, <2>1, <2>2 DEF Others
    <3> QED  BY <3>1 DEF IntactInv, OwnerInv, RunOf
  <2>3. \A a \in Installed' : AppOf[appRec'[a].adir] = a
    BY <1>2, <1>6 DEF IntactInv, OwnerInv, Installed
  <2> QED  BY <1>3, <2>2, <2>3 DEF OwnerInv
<1>8. \A d : Needed(d)' => Needed(d)
  <2>1. Needs(p)' = {}
    BY <1>4 DEF Needs, Committed, Launching
  <2>2. \A a \in App : \/ appRec'[a] = appRec[a]
                       \/ Needed(appRec'[a].adir) /\ Needed(appRec'[a].rdir)
    BY <1>2, <1>6
  <2> QED  BY <1>3, <1>4, <1>5, <2>1, <2>2, NeededFrame
<1>9. Choice(p)'
  BY <1>1, <1>4 DEF Choice, Launching, Committed
<1>10. Protects(p)' /\ Deploys(p)'
  BY <1>2, <1>3, <1>4, DeploysFrame DEF Protects
<1> QED  BY <1>2, <1>3, <1>4, <1>5, <1>7, <1>8, <1>9, <1>10, RecordStep DEF Committed

\* What follows a deployment, when no application has been renamed.
LEMMA ReplacingIntact ==
    ASSUME TypeInv, IntactInv, NEW p \in Process, Quietly(p),
           Publish(p) \/ Replace(p) \/ DropOldRuntime(p)
    PROVE  IntactInv'
<1>1. JobShape /\ Choice(p)
  BY DEF TypeInv, IntactInv, ChoiceInv
<1>2. UNCHANGED <<storage, runs>> /\ UNCHANGED <<dest, gutted>>
  BY DEF Publish, Replace, DropOldRuntime, storage, trees
<1>3. pc[p] = "idle"
  BY IdleOutside DEF Publish, Replace, DropOldRuntime, At, UsesStorage
<1>4. CASE Publish(p)
  <2>1. \A a \in App : appRec'[a] \in {appRec[a], NoRecord}
    BY <1>4 DEF Publish, TypeInv, RecordTypes, AppRecs
  <2> QED  BY <1>2, <1>3, <1>4, <2>1, EndIntact DEF Publish
<1>5. CASE Replace(p)
  <2>1. UNCHANGED <<appRec, rtRec>> /\ Go(p, "drop_old")
    BY <1>1, <1>5 DEF Replace, At, Choice
  <2>2. Others(p) /\ job'[p].at = "drop_old" /\ job'[p].cmd = job[p].cmd
    BY <1>1, <2>1, GoEffect
  <2>3. Choice(p)' /\ Protects(p)'
    BY <1>1, <2>2 DEF Choice, Protects, Launching, Committed
  <2>4. Deploys(p)'
    BY <1>2, <2>2, DeploysFrame DEF Entered, Deploying, Committed
  <2> QED  BY <1>2, <1>3, <2>1, <2>2, <2>3, <2>4, MoveIntact DEF Committed, Launching, records
<1>6. CASE DropOldRuntime(p)
  <2>1. UNCHANGED appRec /\ \E label \in {"refs", "keep_apps"} : Go(p, label)
    BY <1>6 DEF DropOldRuntime
  <2>2. /\ Others(p) /\ job'[p].at \in {"refs", "keep_apps"}
        /\ job'[p].cmd = job[p].cmd
    BY <1>1, <2>1, GoEffect
  <2>3. \A ref \in Runtime : rtRec'[ref] \in {rtRec[ref], NoRecord}
    BY <1>6 DEF DropOldRuntime, TypeInv, RecordTypes
  <2>4. Apart(p) /\ RunsStay(p)
    BY <1>2, <2>2, OthersApart, RunsFrame
  <2>5. OwnerInv'
    BY <1>2, <2>1, <2>2, <2>4, OwnerFrame
  <2>6. \A d : Needed(d)' => Needed(d)
    <3>1. Needs(p)' = {}
      BY <2>2 DEF Needs, Committed, Launching
    <3> QED  BY <1>2, <2>1, <2>2, <2>3, <2>4, <3>1, NeededFrame
  <2>7. Choice(p)' /\ Protects(p)'
    BY <1>1, <2>2 DEF Choice, Protects, Launching, Committed
  <2>8. Deploys(p)'
    BY <1>2, <2>2, DeploysFrame DEF Entered, Deploying, Committed
  <2> QED  BY <1>2, <1>3, <2>2, <2>4, <2>5, <2>6, <2>7, <2>8, RecordStep DEF Committed
<1> QED  BY <1>4, <1>5, <1>6

\* An uninstall chooses an application that no sandbox runs.
LEMMA UninstallIntact ==
    ASSUME TypeInv, IntactInv, NEW p \in Process, Quietly(p), Uninstall(p)
    PROVE  IntactInv'
<1>1. JobShape /\ Choice(p) /\ job[p].cmd = "uninstall" /\ job[p].at = "uninstall"
  BY DEF TypeInv, IntactInv, ChoiceInv, Uninstall, At, JobInv, JobOK, Place, Command
<1>2. UNCHANGED <<storage, records>> /\ UNCHANGED <<dest, gutted, runs, appRec>>
  BY DEF Uninstall, storage, trees, records
<1>3. pc[p] = "idle"
  BY <1>1, IdleOutside DEF UsesStorage
<1>4. PICK a \in Installed :
        /\ \A r \in Mounted : r.app # a
        /\ job' = [job EXCEPT ![p].tgt = [app |-> a, dir |-> appRec[a].adir],
                              ![p].at = "unrecord"]
  BY DEF Uninstall
<1>5. /\ Others(p) /\ job'[p].at = "unrecord" /\ job'[p].cmd = "uninstall"
      /\ job'[p].tgt.app = a /\ job'[p].tgt.dir = appRec[a].adir
  BY <1>1, <1>4 DEF JobShape, Fields, Others
<1>6. \A q \in Process : job'[q].at = "running" => job'[q].tgt.app # a
  <2> SUFFICES ASSUME NEW q \in Process, job'[q].at = "running" PROVE job'[q].tgt.app # a
    OBVIOUS
  <2>1. q # p /\ job'[q] = job[q]
    BY <1>5 DEF Others
  <2>2. RunOf(q) \in runs /\ RunOf(q).by = q /\ RunOf(q).app = job[q].tgt.app
    BY <2>1 DEF IntactInv, ChoiceInv, Choice, RunOf
  <2>3. RunOf(q) \in Mounted
    BY <2>1, <2>2 DEF Mounted, At
  <2> QED  BY <1>4, <2>1, <2>2, <2>3
<1>7. Choice(p)'
  BY <1>2, <1>4, <1>5, <1>6 DEF Choice, Launching, Committed, Installed
<1>8. Protects(p)' /\ Deploys(p)'
  BY <1>5 DEF Protects, Deploys, Deploying
<1> QED  BY <1>2, <1>3, <1>5, <1>7, <1>8, MoveIntact DEF Committed, Launching, Deploying

\* No command removes a runtime by itself.
LEMMA NoRuntimeRemoval ==
    ASSUME TypeInv, IntactInv, NEW p \in Process
    PROVE  ~(UninstallRuntime(p) \/ UninstallUnused(p) \/ UnrecordRuntime(p))
<1>1. JobOK(job[p]) /\ Choice(p)
  BY DEF TypeInv, JobInv, IntactInv, ChoiceInv
<1> QED  BY <1>1 DEF JobOK, Choice, UninstallRuntime, UninstallUnused, UnrecordRuntime, At,
            Place, Command

\* When its record is gone nothing names the application's generation.
LEMMA UnrecordIntact ==
    ASSUME TypeInv, IntactInv, NEW p \in Process, Quietly(p), Unrecord(p)
    PROVE  IntactInv'
<1> DEFINE a == job[p].tgt.app
           dir == job[p].tgt.dir
<1>1. JobShape /\ Choice(p) /\ job[p].cmd = "uninstall" /\ job[p].at = "unrecord"
  BY DEF TypeInv, IntactInv, ChoiceInv, Unrecord, At
<1>2. UNCHANGED <<storage, rtRec, runs>> /\ UNCHANGED <<dest, gutted>>
  BY DEF Unrecord, storage, trees
<1>3. pc[p] = "idle"
  BY <1>1, IdleOutside DEF UsesStorage
<1>4. /\ appRec' = [appRec EXCEPT ![a] = NoRecord]
      /\ IF a \in Installed THEN Go(p, "scrub") ELSE End(p)
  BY DEF Unrecord
<1>5. \A b \in App : appRec'[b] = IF b = a THEN NoRecord ELSE appRec[b]
  BY <1>4 DEF TypeInv, RecordTypes, AppRecs
<1>6. CASE a \notin Installed
  BY <1>2, <1>3, <1>4, <1>5, <1>6, EndIntact
<1>7. CASE a \in Installed
  <2>1. /\ Others(p) /\ job'[p].at = "scrub" /\ job'[p].tgt = job[p].tgt
        /\ job'[p].cmd = "uninstall"
    BY <1>1, <1>4, <1>7, GoEffect
  <2>2. Apart(p) /\ RunsStay(p)
    BY <1>2, <2>1, OthersApart, RunsFrame
  <2>3. OwnerInv'
    BY <1>2, <1>5, <2>1, <2>2, OwnerFrame
  <2>4. Needs(p)' = {}
    BY <2>1 DEF Needs, Committed, Launching
  <2>5. \A d : Needed(d)' => Needed(d)
    BY <1>1, <1>2, <1>5, <2>1, <2>2, <2>4, NeededFrame
  <2>6. dir = appRec[a].adir /\ dir \in AppDir /\ AppOf[dir] = a /\ dir \notin RuntimeDir
    BY <1>1, <1>7, GenerationAssumption
       DEF Choice, IntactInv, OwnerInv, TypeInv, RecordTypes, AppRecs, Pair, Installed
  <2>7. ~Needed(dir)'
    <3>1. ASSUME NEW b \in Installed', dir \in {appRec'[b].adir, appRec'[b].rdir}
          PROVE  FALSE
      <4>1. b \in Installed /\ b # a /\ appRec'[b] = appRec[b]
        BY <1>5 DEF Installed
      <4>2. appRec[b].rdir \in RuntimeDir /\ AppOf[appRec[b].adir] = b
        BY <4>1 DEF IntactInv, OwnerInv, TypeInv, RecordTypes, AppRecs, Pair, Installed
      <4> QED  BY <2>6, <3>1, <4>1, <4>2
    <3>2. ASSUME NEW ref \in Runtime, rtRec'[ref] = dir PROVE FALSE
      BY <1>2, <2>6, <3>2, RecordAssumption, GenerationAssumption DEF TypeInv, RecordTypes
    <3>3. ASSUME NEW q \in Process, dir \in Needs(q)' PROVE FALSE
      <4>1. q # p /\ job[q].at \in Calm /\ job'[q] = job[q]
        BY <2>1, <2>4, <3>3 DEF Quietly, Others
      <4>2. job[q].at = "running" /\ dir \in {job[q].tgt.adir, job[q].tgt.rdir}
        BY <3>3, <4>1 DEF Needs, Committed, Launching, Calm
      <4>3. RunOf(q) \in RunRecord /\ AppOf[job[q].tgt.adir] = job[q].tgt.app
        BY <4>2 DEF IntactInv, ChoiceInv, Choice, Launching, TypeInv, RecordTypes
      <4>4. job[q].tgt.rdir \in RuntimeDir
        BY <4>3 DEF RunOf, RunRecord
      <4>5. job[q].tgt.app # a
        BY <1>1, <4>2 DEF Choice
      <4> QED  BY <2>6, <4>2, <4>3, <4>4, <4>5
    <3>4. \A q \in Process : job'[q].cmd \notin Deploying
      <4>1. \A q \in Process : q # p => job[q].cmd \notin Deploying /\ job'[q] = job[q]
        BY <2>1 DEF IntactInv, ChoiceInv, Choice, Quietly, Calm, Deploying, Others
      <4> QED  BY <2>1, <4>1 DEF Deploying
    <3> QED  BY <2>1, <3>1, <3>2, <3>3, <3>4 DEF Needed
  <2>8. Choice(p)'
    BY <2>1, <2>7 DEF Choice, Launching, Committed
  <2>9. Protects(p)' /\ Deploys(p)'
    BY <2>1 DEF Protects, Deploys, Deploying
  <2> QED  BY <1>2, <1>3, <2>1, <2>2, <2>3, <2>5, <2>8, <2>9, RecordStep DEF Committed
<1> QED  BY <1>6, <1>7

\* A launch needs the directories of a record.
LEMMA LaunchIntact ==
    ASSUME TypeInv, IntactInv, NEW p \in Process, Quietly(p), Launch(p)
    PROVE  IntactInv'
<1>1. JobShape /\ Choice(p) /\ job[p].cmd = "run" /\ job[p].at = "run"
  BY DEF TypeInv, IntactInv, ChoiceInv, Launch, At, JobInv, JobOK, Place, Command
<1>2. UNCHANGED <<storage, records>> /\ UNCHANGED <<appRec, rtRec, runs>>
  BY DEF Launch, records
<1>3. pc[p] = "idle"
  BY <1>1, IdleOutside DEF UsesStorage
<1>4. PICK a \in Installed :
        job' = [job EXCEPT ![p].tgt = [app |-> a, adir |-> appRec[a].adir,
                                       rdir |-> appRec[a].rdir],
                           ![p].at = "pin_run"]
  BY DEF Launch
<1>5. /\ Others(p) /\ job'[p].at = "pin_run" /\ job'[p].cmd = "run"
      /\ job'[p].tgt.app = a /\ job'[p].tgt.adir = appRec[a].adir
      /\ job'[p].tgt.rdir = appRec[a].rdir
  BY <1>1, <1>4 DEF JobShape, Fields, Others
<1>6. Apart(p) /\ RunsStay(p)
  BY <1>2, <1>5, OthersApart, RunsFrame
<1>7. OwnerInv'
  BY <1>2, <1>5, <1>6, OwnerFrame
<1>8. \A d : Needed(d)' => Needed(d)
  <2>1. Needs(p)' = {appRec[a].adir, appRec[a].rdir}
    BY <1>5 DEF Needs, Committed, Launching
  <2>2. Needed(appRec[a].adir) /\ Needed(appRec[a].rdir)
    BY NeededFacts
  <2> QED  BY <1>1, <1>2, <1>5, <1>6, <2>1, <2>2, NeededFrame
<1>9. AppOf[appRec[a].adir] = a
  BY DEF IntactInv, OwnerInv
<1>10. Choice(p)'
  BY <1>5, <1>9 DEF Choice, Launching, Committed
<1>11. Protects(p)' /\ Deploys(p)'
  BY <1>5 DEF Protects, Deploys, Deploying
<1> QED  BY <1>2, <1>3, <1>5, <1>6, <1>7, <1>8, <1>10, <1>11, RecordStep DEF Committed

\* Its run record protects them from then on.
LEMMA PinRunIntact ==
    ASSUME TypeInv, EldersInv, IntactInv, NEW p \in Process, Quietly(p), PinRun(p)
    PROVE  IntactInv'
<1>1. JobShape /\ Choice(p) /\ job[p].cmd = "run" /\ job[p].at = "pin_run"
  BY DEF TypeInv, IntactInv, ChoiceInv, PinRun, At, JobInv, JobOK, Place
<1>2. UNCHANGED <<storage, appRec, rtRec>>
  BY DEF PinRun
<1>3. pc[p] = "idle"
  BY <1>1, IdleOutside DEF UsesStorage
<1>4. CASE job[p].tgt.app \notin Installed
  BY <1>2, <1>3, <1>4, EndIntact DEF PinRun
<1>5. CASE job[p].tgt.app \in Installed
  <2>1. /\ runs' = runs \cup {RunOf(p)}
        /\ \A q \in Process : /\ job'[q].at = IF q = p THEN "mount" ELSE job[q].at
                              /\ job'[q].cmd = job[q].cmd /\ job'[q].tgt = job[q].tgt
    BY <1>1, <1>5, PinRunEffect
  <2>2. Apart(p)
    BY <1>2, <2>1 DEF Apart, storage
  <2>3. RunsStay(p)
    BY <2>1, RunsFrame
  <2>4. RunOf(p)' = RunOf(p) /\ RunOf(p).by = p
    BY <2>1 DEF RunOf
  <2>5. \A r \in runs : r.by # p /\ r.by \in Process
    BY <1>1, ByType DEF EldersInv, RunsInv
  <2>6. OwnerInv'
    <3>1. ASSUME NEW r \in runs', job'[r.by].at \in {"mount", "running"}
          PROVE  r = RunOf(r.by)'
      <4>1. CASE r \in runs
        <5>1. r.by # p /\ job'[r.by].at = job[r.by].at /\ job'[r.by].tgt = job[r.by].tgt
          BY <2>1, <2>5, <4>1
        <5> QED  BY <3>1, <4>1, <5>1 DEF IntactInv, OwnerInv, RunOf
      <4>2. CASE r = RunOf(p)
        BY <2>4, <4>2
      <4> QED  BY <2>1, <4>1, <4>2
    <3> QED  BY <1>2, <3>1 DEF IntactInv, OwnerInv, Installed
  <2>7. \A d : Needed(d)' => Needed(d)
    <3>1. Needs(p)' = Needs(p)
      BY <1>1, <2>1 DEF Needs, Committed, Launching
    <3>2. \A d \in Needs(p) : d \in Dest => Needed(d)
      BY NeededFacts
    <3>3. job'[p].cmd \notin Deploying
      BY <1>1, <2>1 DEF Deploying
    <3>4. ASSUME NEW r \in runs', r \notin runs PROVE Needed(r.adir) /\ Needed(r.rdir)
      <4>1. r = RunOf(p)
        BY <2>1, <3>4
      <4>2. r.adir \in Needs(p) /\ r.rdir \in Needs(p)
        BY <1>1, <4>1 DEF RunOf, Needs, Committed, Launching
      <4>3. r.adir \in Dest /\ r.rdir \in Dest
        BY <1>1, <4>1, GenerationAssumption DEF RunOf, TypeInv, JobInv, JobOK, Busy, Target
      <4> QED  BY <3>2, <4>2, <4>3
    <3> QED  BY <1>2, <2>2, <3>1, <3>2, <3>3, <3>4, NeededFrame
  <2>8. Choice(p)'
    BY <1>1, <2>1, <2>4 DEF Choice, Launching, Committed
  <2>9. Protects(p)' /\ Deploys(p)'
    BY <1>1, <2>1 DEF Protects, Deploys, Deploying
  <2> QED  BY <1>2, <1>3, <2>1, <2>2, <2>3, <2>6, <2>7, <2>8, <2>9, RecordStep DEF Committed
<1> QED  BY <1>4, <1>5

\* A launch mounts its directories, or fails and drops its record.
LEMMA MountIntact ==
    ASSUME TypeInv, IntactInv, NEW p \in Process, Quietly(p), Mount(p)
    PROVE  IntactInv'
<1>1. JobShape /\ Choice(p) /\ job[p].cmd = "run" /\ job[p].at = "mount"
  BY DEF TypeInv, IntactInv, ChoiceInv, Mount, At, JobInv, JobOK, Place
<1>2. UNCHANGED <<storage, appRec, rtRec>>
  BY DEF Mount
<1>3. pc[p] = "idle"
  BY <1>1, IdleOutside DEF UsesStorage
<1>4. CASE End(p) /\ runs' = {r \in runs : r.by # p}
  BY <1>2, <1>3, <1>4, EndIntact
<1>5. CASE Go(p, "running") /\ UNCHANGED runs
  <2>1. /\ Others(p) /\ job'[p].at = "running" /\ job'[p].cmd = "run"
        /\ job'[p].tgt = job[p].tgt
    BY <1>1, <1>5, GoEffect
  <2>2. Apart(p) /\ RunsStay(p)
    BY <1>2, <1>5, <2>1, OthersApart, RunsFrame
  <2>3. OwnerInv'
    BY <1>1, <1>2, <1>5, <2>1, <2>2, OwnerFrame
  <2>4. \A d : Needed(d)' => Needed(d)
    <3>1. Needs(p)' = Needs(p)
      BY <1>1, <2>1 DEF Needs, Committed, Launching
    <3>2. \A d \in Needs(p) : d \in Dest => Needed(d)
      BY NeededFacts
    <3> QED  BY <1>1, <1>2, <1>5, <2>1, <2>2, <3>1, <3>2, NeededFrame
  <2>5. RunOf(p)' = RunOf(p)
    BY <2>1 DEF RunOf
  <2>6. Choice(p)'
    BY <1>1, <1>5, <2>1, <2>5 DEF Choice, Launching, Committed
  <2>7. Protects(p)' /\ Deploys(p)'
    BY <2>1 DEF Protects, Deploys, Deploying
  <2> QED  BY <1>2, <1>3, <2>1, <2>2, <2>3, <2>4, <2>6, <2>7, RecordStep DEF Committed
<1> QED  BY <1>4, <1>5 DEF Mount

\* A sandbox ends: its directories are free to go.
LEMMA ExitIntact ==
    ASSUME TypeInv, IntactInv, NEW p \in Process, Quietly(p), Exit(p)
    PROVE  IntactInv'
<1>1. JobShape /\ Choice(p) /\ job[p].cmd = "run" /\ job[p].at = "running"
  BY DEF TypeInv, IntactInv, ChoiceInv, Choice, Exit, At
<1>2. UNCHANGED <<storage, appRec, rtRec>> /\ runs' = {r \in runs : r.by # p}
  BY DEF Exit
<1>3. pc[p] = "idle"
  BY <1>1, IdleOutside DEF UsesStorage
<1>4. /\ Others(p) /\ job'[p].at = "keep_apps" /\ job'[p].cmd = "run"
  BY <1>1 DEF Exit, JobShape, Fields, Others
<1>5. Apart(p) /\ RunsStay(p)
  BY <1>2, <1>4, OthersApart, RunsFrame
<1>6. OwnerInv'
  BY <1>2, <1>4, <1>5, OwnerFrame
<1>7. \A d : Needed(d)' => Needed(d)
  <2>1. Needs(p)' = {}
    BY <1>4 DEF Needs, Committed, Launching
  <2> QED  BY <1>1, <1>2, <1>4, <1>5, <2>1, NeededFrame
<1>8. Choice(p)' /\ Protects(p)' /\ Deploys(p)'
  BY <1>4 DEF Choice, Protects, Deploys, Deploying, Launching, Committed
<1> QED  BY <1>2, <1>3, <1>4, <1>5, <1>6, <1>7, <1>8, RecordStep DEF Committed

\* safe_remove_dir touches no other directory.
LEMMA RemoveFrame ==
    ASSUME TypeInv, NEW path \in Path, Remove(path), NEW d \in Dest,
           path.kind = "dest" => d # path.dir
    PROVE  dest'[d] = dest[d] /\ (d \in gutted' <=> d \in gutted)
<1>1. dest \in [Dest -> S!Contents]
  BY DEF TypeInv, TreeTypes, S!TypeOK
<1> QED  BY <1>1 DEF Remove

\* A command removes what need not stay.
LEMMA RemoveIntact ==
    ASSUME TypeInv, IntactInv, NEW p \in Process, Quietly(p), UNCHANGED records,
           NEW path \in Path, Remove(path), path.kind = "dest" => ~Needed(path.dir),
           Others(p), job'[p].cmd = job[p].cmd, pc[p] = "idle",
           job'[p].at \notin Committed \cup Launching \cup Entered,
           Choice(p)', Protects(p)'
    PROVE  IntactInv'
<1>1. UNCHANGED <<appRec, rtRec, runs>> /\ UNCHANGED <<journal, pc, mode, plan, work, todo, cur>>
  BY DEF records, Remove
<1>2. Apart(p)
  BY <1>1 DEF Others, Apart
<1>3. RunsStay(p)
  BY <1>1, RunsFrame
<1>4. OwnerInv'
  BY <1>1, <1>2, OwnerFrame DEF Launching
<1>5. \A d : Needed(d)' => Needed(d)
  <2>1. Needs(p)' = {}
    BY DEF Needs
  <2> QED  BY <1>1, <1>2, <2>1, NeededFrame
<1>6. \A d \in Dest : Intact(d) /\ (path.kind = "dest" => d # path.dir) => Intact(d)'
  BY RemoveFrame DEF Intact
<1>7. NeededIntact'
  BY <1>5, <1>6 DEF IntactInv, NeededIntact
<1>8. JournalForeign'
  BY <1>1, <1>5 DEF IntactInv, JournalForeign, Foreign
<1>9. Transaction(p)' /\ Deployment(p)'
  <2>1. work[p] = {} /\ todo[p] = {}
    BY DEF IntactInv, StoreInv, Transaction
  <2> QED  BY <1>1, <2>1 DEF Transaction, Deployment, Staging, Visiting, Moving
<1>10. Deploys(p)'
  BY DEF Deploys
<1> QED  BY <1>2, <1>3, <1>4, <1>7, <1>8, <1>9, <1>10, ActiveStep DEF Own

\* A cleanup has seen all that has to stay.
LEMMA SweepIntact ==
    ASSUME TypeInv, IntactInv, NEW p \in Process, Quietly(p), Sweep(p)
    PROVE  IntactInv'
<1>1. JobShape /\ Choice(p) /\ Protects(p) /\ job[p].doomed \subseteq Path
  BY DEF TypeInv, IntactInv, ChoiceInv, CleanupInv, JobInv, JobOK
<1>2. UNCHANGED records /\ UNCHANGED <<appRec, rtRec, runs>> /\ job[p].at \in Sweeping
  BY DEF Sweep, records
<1>3. pc[p] = "idle"
  BY <1>2, IdleOutside DEF UsesStorage
<1>4. PICK path \in job[p].doomed :
        /\ Remove(path)
        /\ job' = [job EXCEPT ![p].doomed = IF Whole(path) THEN @ ELSE @ \ {path}]
  BY DEF Sweep
<1>5. /\ Others(p) /\ job'[p].at = job[p].at /\ job'[p].keep = job[p].keep
      /\ job'[p].doomed \subseteq job[p].doomed /\ job'[p].cmd = job[p].cmd
  BY <1>1, <1>4 DEF JobShape, Fields, Others
<1>6. path.kind = "dest" => path.dir \notin job[p].keep
  BY <1>1, <1>2 DEF Protects
<1>7. /\ \A a \in Installed : appRec[a].adir \in job[p].keep /\ appRec[a].rdir \in job[p].keep
      /\ \A ref \in Runtime : rtRec[ref] = NoRecord \/ rtRec[ref] \in job[p].keep
      /\ \A r \in runs : r.adir \in job[p].keep /\ r.rdir \in job[p].keep
  BY <1>1, <1>2 DEF Protects
<1>8. ASSUME NEW d, Needed(d) PROVE d \in job[p].keep
  <2>1. ASSUME NEW q \in Process, d \in Needs(q) PROVE d \in job[p].keep
    <3>1. q # p /\ job[q].at = "running"
      BY <1>2, <2>1 DEF Needs, Committed, Launching, Quietly, Calm
    <3>2. d \in {job[q].tgt.adir, job[q].tgt.rdir}
      BY <2>1, <3>1 DEF Needs, Committed, Launching
    <3>3. RunOf(q) \in runs
      BY <3>1 DEF IntactInv, ChoiceInv, Choice
    <3>4. RunOf(q).adir = job[q].tgt.adir /\ RunOf(q).rdir = job[q].tgt.rdir
      BY DEF RunOf
    <3> QED  BY <1>7, <3>2, <3>3, <3>4
  <2> QED  BY <1>7, <1>8, <2>1, RecordAssumption DEF Needed
<1>9. path.kind = "dest" => ~Needed(path.dir)
  BY <1>6, <1>8
<1>10. Choice(p)'
  BY <1>1, <1>2, <1>5 DEF Choice, Launching, Committed
<1>11. Protects(p)'
  BY <1>1, <1>2, <1>5 DEF Protects, Installed
<1>12. path \in Path /\ job'[p].at \notin Committed \cup Launching \cup Entered
  BY <1>1, <1>2, <1>5 DEF Committed, Launching, Entered, Deploying
<1> QED  BY <1>2, <1>3, <1>4, <1>5, <1>9, <1>10, <1>11, <1>12, RemoveIntact

\* An uninstall removes the generation that it took the record of.
LEMMA ScrubIntact ==
    ASSUME TypeInv, IntactInv, NEW p \in Process, Quietly(p), Scrub(p)
    PROVE  IntactInv'
<1>1. JobShape /\ Choice(p) /\ JobOK(job[p]) /\ job[p].at = "scrub"
  BY DEF TypeInv, IntactInv, ChoiceInv, JobInv, Scrub, At
<1>2. job[p].cmd = "uninstall" /\ ~Needed(job[p].tgt.dir) /\ job[p].tgt.dir \in Dest
  BY <1>1 DEF Choice, JobOK, Target, Busy
<1>3. PICK path : path = [kind |-> "dest", dir |-> job[p].tgt.dir]
  OBVIOUS
<1>4. path \in Path /\ path.kind = "dest" /\ path.dir = job[p].tgt.dir
  BY <1>2, <1>3 DEF Path
<1>5. Remove(path) /\ (UNCHANGED job \/ Go(p, "refs")) /\ UNCHANGED records
  BY <1>2, <1>3 DEF Scrub, Victim, AfterScrub
<1>6. /\ Others(p) /\ job'[p].at \in {"scrub", "refs"} /\ job'[p].cmd = "uninstall"
      /\ job'[p].tgt = job[p].tgt
  BY <1>1, <1>2, <1>5, GoEffect DEF Others
<1>7. pc[p] = "idle"
  BY <1>1, IdleOutside DEF UsesStorage
<1>8. ~Needed(job[p].tgt.dir)'
  <2>1. Needs(p)' = {}
    BY <1>6 DEF Needs, Committed, Launching
  <2>2. Apart(p) /\ UNCHANGED <<appRec, rtRec, runs>>
    BY <1>5, <1>6 DEF Others, Apart, Remove, records
  <2>3. \A d : Needed(d)' => Needed(d)
    BY <1>2, <1>6, <2>1, <2>2, NeededFrame
  <2> QED  BY <1>2, <1>6, <2>3
<1>9. Choice(p)' /\ Protects(p)'
  BY <1>6, <1>8 DEF Choice, Protects, Launching, Committed
<1>10. job'[p].at \notin Committed \cup Launching \cup Entered
  BY <1>6 DEF Committed, Launching, Entered, Deploying
<1> QED  BY <1>2, <1>4, <1>5, <1>6, <1>7, <1>9, <1>10, RemoveIntact DEF Deploying

\* The storage keeps the local state of the others.
Beside(p) ==
    \A q \in Process : q # p =>
        /\ pc'[q] = pc[q] /\ mode'[q] = mode[q] /\ plan'[q] = plan[q]
        /\ work'[q] = work[q] /\ todo'[q] = todo[q] /\ cur'[q] = cur[q]

\* Leaving the storage clears the local state.
LEMMA LeaveEffect ==
    ASSUME S!TypeOK, NEW p \in Process, S!Leave(p)
    PROVE  /\ Beside(p) /\ pc'[p] = "idle" /\ work'[p] = {} /\ todo'[p] = {}
           /\ plan'[p] = {} /\ mode'[p] = "deploy"
  BY DEF S!TypeOK, S!Leave, S!Goto, Beside

\* A step of a deployment or of a recovery is beside the others.
LEMMA WorkBeside ==
    ASSUME S!TypeOK, NEW p \in Process, S!Work(p)
    PROVE  Beside(p)
<1>1. CASE S!RecoverEntry(p)
  <2> PICK a \in todo[p] : \/ S!RecoverStaged(p, a) \/ S!RecoverActivated(p, a)
                           \/ S!RecoverRestored(p, a) \/ S!RecoverLost(p, a)
    BY <1>1 DEF S!RecoverEntry
  <2>1. CASE S!RecoverStaged(p, a) \/ S!RecoverActivated(p, a)
    BY <2>1 DEF S!TypeOK, S!RecoverStaged, S!RecoverActivated, S!Goto, Beside
  <2>2. CASE S!RecoverRestored(p, a) \/ S!RecoverLost(p, a)
    BY <2>2, LeaveEffect DEF S!RecoverRestored, S!RecoverLost
  <2> QED  BY <2>1, <2>2
<1>2. CASE S!Stage(p) \/ S!Unstage(p) \/ S!Checkout(p) \/ S!Seal(p)
  BY <1>2 DEF S!TypeOK, S!Stage, S!Unstage, S!Checkout, S!Seal, S!Goto, Beside
<1>3. CASE S!CheckoutFails(p)
  BY <1>3, LeaveEffect DEF S!CheckoutFails
<1>4. CASE S!Publish(p) \/ S!ActivateEntry(p) \/ S!DropBackup(p) \/ S!Preserve(p)
  BY <1>4 DEF S!TypeOK, S!Publish, S!ActivateEntry, S!DropBackup, S!Preserve, S!Goto, Beside
<1>5. CASE S!Activate(p)
  BY <1>5, LeaveEffect DEF S!TypeOK, S!Activate, S!RenameStaging, S!Goto, Beside
<1>6. CASE S!EntriesDone(p) \/ S!CleanBackup(p) \/ S!Complete(p)
  BY <1>6 DEF S!TypeOK, S!EntriesDone, S!CleanBackup, S!Complete, S!Goto, Beside
<1> QED  BY <1>1, <1>2, <1>3, <1>4, <1>5, <1>6 DEF S!Work

\* A step on the disk, of a command that goes on or fails.
LEMMA StillNeeded ==
    ASSUME TypeInv, NEW p \in Process, UNCHANGED records, Apart(p),
           job'[p] = job[p] \/ job'[p] = Idle
    PROVE  \A d : Needed(d)' => Needed(d)
<1>1. UNCHANGED <<appRec, rtRec, runs>>
  BY DEF records
<1>2. \A d \in Needs(p)' : d \in Dest => Needed(d)
  <2>1. Needs(p)' \in {Needs(p), {}}
    BY DEF Needs, Idle, Committed, Launching
  <2> QED  BY <2>1, NeededFacts
<1>3. job'[p].cmd \in Deploying => job[p].cmd \in Deploying
  BY DEF Idle, Deploying
<1> QED  BY <1>1, <1>2, <1>3, NeededFrame

\* Such a step keeps the invariant when it is about directories that need not stay.
LEMMA DiskStep ==
    ASSUME TypeInv, IntactInv, NEW p \in Process, Quietly(p), UNCHANGED records, Apart(p),
           job'[p] = job[p] \/ job'[p] = Idle, gutted' \subseteq gutted,
           \A d \in Dest : Needed(d) => dest'[d] = dest[d],
           \A a \in journal' : Foreign(a), Transaction(p)', Deployment(p)'
    PROVE  IntactInv'
<1>1. UNCHANGED <<appRec, rtRec, runs>>
  BY DEF records
<1>2. \A d : Needed(d)' => Needed(d)
  BY StillNeeded
<1>3. NeededIntact'
  BY <1>2 DEF IntactInv, NeededIntact, Intact
<1>4. JournalForeign'
  BY <1>2 DEF JournalForeign, Foreign
<1>5. OwnerInv'
  BY <1>1, OwnerFrame DEF Idle
<1>6. RunsStay(p)
  BY <1>1, RunsFrame
<1>7. Choice(p) /\ Protects(p) /\ Deploys(p)
  BY DEF IntactInv, ChoiceInv, CleanupInv
<1>8. Choice(p)' /\ Protects(p)' /\ Deploys(p)'
  <2>1. CASE job'[p] = Idle
    BY <2>1 DEF Idle, Choice, Protects, Deploys, Deploying, Launching, Committed
  <2>2. CASE job'[p] = job[p]
    <3>1. RunOf(p)' = RunOf(p)
      BY <2>2 DEF RunOf
    <3>2. \A q \in Process : job'[q].at = job[q].at /\ job'[q].tgt = job[q].tgt
      BY <2>2 DEF Apart
    <3>3. Choice(p)'
      BY <1>1, <1>2, <1>7, <2>2, <3>1, <3>2 DEF Choice
    <3>4. Protects(p)' /\ Deploys(p)'
      BY <1>1, <1>7, <2>2 DEF Protects, Deploys, Installed
    <3> QED  BY <3>3, <3>4
  <2> QED  BY <2>1, <2>2
<1> QED  BY <1>3, <1>4, <1>5, <1>6, <1>8, ActiveStep DEF Own

\* What a transaction needs of a step that goes on with it.
LEMMA SameTransaction ==
    ASSUME NEW p \in Process, Transaction(p), UNCHANGED job, UsesStorage(p),
           \A d : Needed(d)' => Needed(d),
           work'[p] \subseteq work[p], todo'[p] \subseteq work'[p],
           pc'[p] \in {"idle", "ready", "deployed"} => work'[p] = {},
           pc'[p] \in Staging \cup {"ready", "deployed"} => journal' = {},
           pc'[p] \in Visiting => cur'[p] \in todo'[p]
    PROVE  Transaction(p)'
<1>1. UsesStorage(p)' /\ job'[p].at \notin Committed
  BY DEF UsesStorage, Committed
<1>2. \A a \in work'[p] : Foreign(a)'
  BY DEF Transaction, Foreign
<1> QED  BY <1>1, <1>2 DEF Transaction

\* A process that has left the storage has no transaction.
LEMMA LeaveTransaction ==
    ASSUME S!TypeOK, NEW p \in Process, S!Leave(p), job'[p].at \notin Committed
    PROVE  Transaction(p)' /\ Deployment(p)'
<1>1. pc'[p] = "idle" /\ work'[p] = {} /\ todo'[p] = {}
  BY LeaveEffect
<1> QED  BY <1>1 DEF Transaction, Deployment, Staging, Moving, Visiting

\* The steps of a recovery.
LEMMA RecoverIntact ==
    ASSUME TypeInv, IntactInv, NEW p \in Process, StorageWork(p), S!RecoverEntry(p),
           \A d : Needed(d)' => Needed(d)
    PROVE  /\ \A d \in Dest : Needed(d) => dest'[d] = dest[d]
           /\ UNCHANGED journal /\ Transaction(p)' /\ Deployment(p)'
<1>1. /\ S!TypeOK /\ JobShape /\ Transaction(p) /\ UsesStorage(p)
      /\ pc[p] = "next" /\ mode[p] = "recover"
  BY DEF TypeInv, TreeTypes, IntactInv, StoreInv, StorageWork, S!RecoverEntry
<1>2. PICK a \in todo[p] : \/ S!RecoverStaged(p, a) \/ S!RecoverActivated(p, a)
                           \/ S!RecoverRestored(p, a) \/ S!RecoverLost(p, a)
  BY DEF S!RecoverEntry
<1>3. a \in S!Activation /\ a.dest \in Dest /\ ~Needed(a.dest) /\ todo[p] \subseteq work[p]
  BY <1>1 DEF Transaction, Foreign, S!TypeOK
<1>4. CASE S!RecoverStaged(p, a)
  <2>1. /\ UNCHANGED <<journal, dest, staging>> /\ work'[p] = work[p] /\ todo'[p] = todo[p]
        /\ mode'[p] = "recover" /\ pc'[p] \in {"drop", "activate"} /\ cur'[p] = a
    BY <1>1, <1>4 DEF S!RecoverStaged, S!Goto, S!files, S!TypeOK
  <2>2. UNCHANGED job
    BY <2>1 DEF StorageWork
  <2>3. Transaction(p)'
    BY <1>1, <1>3, <2>1, <2>2, SameTransaction DEF Staging
  <2>4. Deployment(p)'
    BY <2>1 DEF Deployment, Staging
  <2> QED  BY <2>1, <2>3, <2>4
<1>5. CASE S!RecoverActivated(p, a)
  <2>1. /\ UNCHANGED <<journal, dest, staging>> /\ work'[p] = work[p]
        /\ todo'[p] \subseteq todo[p] /\ mode'[p] = "recover" /\ pc'[p] = "next"
    BY <1>1, <1>5 DEF S!RecoverActivated, S!files, S!TypeOK
  <2>2. UNCHANGED job
    BY <2>1 DEF StorageWork
  <2>3. Transaction(p)'
    BY <1>1, <1>3, <2>1, <2>2, SameTransaction DEF Staging, Visiting
  <2>4. Deployment(p)'
    BY <2>1 DEF Deployment, Staging
  <2> QED  BY <2>1, <2>3, <2>4
<1>6. CASE S!RecoverRestored(p, a) \/ S!RecoverLost(p, a)
  <2>1. S!Leave(p) /\ UNCHANGED journal
    BY <1>6 DEF S!RecoverRestored, S!RecoverLost, S!files
  <2>2. \A d \in Dest : d # a.dest => dest'[d] = dest[d]
    BY <1>1, <1>6 DEF S!RecoverRestored, S!RecoverLost, S!files, S!TypeOK
  <2>3. job'[p].at \notin Committed
    <3>1. pc'[p] = "idle"
      BY <1>1, <2>1, LeaveEffect
    <3>2. job'[p] = Idle
      BY <1>1, <3>1, EndEffect DEF StorageWork
    <3> QED  BY <3>2 DEF Idle, Committed
  <2> QED  BY <1>1, <1>3, <2>1, <2>2, <2>3, LeaveTransaction
<1> QED  BY <1>2, <1>4, <1>5, <1>6

\* What a deployment needs of a step that goes on with it.
LEMMA DeploymentFacts ==
    ASSUME TypeInv, IntactInv, NEW p \in Process, pc[p] # "idle", mode[p] = "deploy"
    PROVE  /\ \A a, b \in plan[p] : a.dest = b.dest => a = b
           /\ todo[p] \subseteq work[p] /\ work[p] \subseteq plan[p]
           /\ \A a \in plan[p] : a \in S!Activation /\ a.dest \in Dest /\ a.commit \in Commit
<1>1. Transaction(p) /\ Deployment(p) /\ S!TypeOK
  BY DEF IntactInv, StoreInv, TypeInv, TreeTypes
<1>2. \A a, b \in plan[p] : a.dest = b.dest => a = b
  BY <1>1 DEF Deployment, Act
<1>3. \A a \in plan[p] : a \in S!Activation /\ a.dest \in Dest /\ a.commit \in Commit
  BY <1>1 DEF S!TypeOK, S!Activation
<1> QED  BY <1>1, <1>2, <1>3 DEF Transaction, Deployment

\* SetStaging writes one staging directory.
LEMMA SetStagingEffect ==
    ASSUME S!TypeOK, NEW a \in S!Activation, NEW content, S!SetStaging(a, content)
    PROVE  /\ staging'[a.dest][a.commit] = content
           /\ \A b \in S!Activation : b.dest # a.dest =>
                 staging'[b.dest][b.commit] = staging[b.dest][b.commit]
<1>1. a.dest \in Dest /\ a.commit \in Commit /\ \A b \in S!Activation : b.dest \in Dest
  BY DEF S!Activation
<1>2. staging' = [staging EXCEPT ![a.dest] = [staging[a.dest] EXCEPT ![a.commit] = content]]
  BY DEF S!SetStaging
<1> QED  BY <1>1, <1>2 DEF S!TypeOK

\* The steps that stage what does not match.
LEMMA StagingIntact ==
    ASSUME TypeInv, IntactInv, NEW p \in Process, StorageWork(p),
           S!Stage(p) \/ S!Unstage(p) \/ S!Checkout(p) \/ S!Seal(p),
           \A d : Needed(d)' => Needed(d)
    PROVE  UNCHANGED <<journal, dest>> /\ Transaction(p)' /\ Deployment(p)'
<1> DEFINE a == cur[p]
<1>1. S!TypeOK /\ Transaction(p) /\ Deployment(p) /\ UsesStorage(p)
  BY DEF TypeInv, TreeTypes, IntactInv, StoreInv, StorageWork
<1>2. pc[p] \in Staging /\ mode[p] = "deploy" /\ journal = {} /\ job[p].at = "deploy"
  BY <1>1 DEF S!Stage, S!Unstage, S!Checkout, S!Seal, Staging, Deployment, Transaction
<1>3. /\ \A x, y \in plan[p] : x.dest = y.dest => x = y
      /\ todo[p] \subseteq work[p] /\ work[p] \subseteq plan[p]
      /\ \A x \in plan[p] : x \in S!Activation
  BY <1>2, DeploymentFacts DEF Staging
<1>4. /\ UNCHANGED <<journal, dest>> /\ mode'[p] = mode[p] /\ plan'[p] = plan[p]
      /\ work'[p] = work[p] /\ pc'[p] \in Staging
  BY <1>1, <1>2 DEF S!Stage, S!Unstage, S!Checkout, S!Seal, S!Goto, S!files, S!TypeOK, Staging
<1>5. UNCHANGED job
  BY <1>4 DEF StorageWork, Staging
<1>6. todo'[p] \subseteq todo[p] /\ (pc'[p] \in Visiting => cur'[p] \in todo'[p])
  <2>1. CASE S!Stage(p)
    BY <1>1, <2>1 DEF S!Stage, S!TypeOK
  <2>2. CASE S!Unstage(p) \/ S!Checkout(p)
    BY <1>1, <2>2 DEF S!Unstage, S!Checkout, Transaction, Visiting
  <2>3. CASE S!Seal(p)
    BY <1>1, <2>3 DEF S!Seal, S!Goto, S!TypeOK, Visiting
  <2> QED  BY <2>1, <2>2, <2>3
<1>7. Transaction(p)'
  BY <1>1, <1>2, <1>3, <1>4, <1>5, <1>6, SameTransaction DEF Staging
<1>8. \A x \in work[p] \ todo'[p] : Staged(x)'
  <2>1. \A x \in work[p] \ todo[p] : Staged(x)
    BY <1>1, <1>2 DEF Deployment, Staging
  <2>2. CASE S!Stage(p)
    BY <1>1, <2>1, <2>2 DEF S!Stage, S!files, Staged
  <2>3. CASE ~S!Stage(p)
    <3>1. a \in todo[p] /\ a \in S!Activation
      BY <1>1, <1>3, <2>3 DEF S!Unstage, S!Checkout, S!Seal, Transaction, Visiting
    <3>2. \E content : S!SetStaging(a, content)
      BY <2>3 DEF S!Unstage, S!Checkout, S!Seal
    <3>3. \A x \in S!Activation : x.dest # a.dest =>
            staging'[x.dest][x.commit] = staging[x.dest][x.commit]
      BY <1>1, <3>1, <3>2, SetStagingEffect
    <3>4. \A x \in work[p] : x # a => (Staged(x) => Staged(x)')
      BY <1>3, <3>1, <3>3 DEF Staged
    <3>5. CASE S!Seal(p)
      <4>1. staging'[a.dest][a.commit] = a.commit /\ todo'[p] = todo[p] \ {a}
        BY <1>1, <3>1, <3>5, SetStagingEffect DEF S!Seal, S!TypeOK
      <4>2. Staged(a)'
        <5>1. a' = a
          BY <3>5 DEF S!Seal
        <5> QED  BY <4>1, <5>1 DEF Staged
      <4>3. SUFFICES ASSUME NEW x \in work[p] \ todo'[p], x # a PROVE Staged(x)'
        <5>1. a' = a
          BY <3>5 DEF S!Seal
        <5> QED  BY <4>2, <5>1
      <4> QED  BY <2>1, <3>4, <4>1, <4>3
    <3>6. CASE S!Unstage(p) \/ S!Checkout(p)
      <4>1. todo'[p] = todo[p]
        BY <3>6 DEF S!Unstage, S!Checkout
      <4> QED  BY <2>1, <3>1, <3>4, <4>1
    <3> QED  BY <2>3, <3>5, <3>6
  <2> QED  BY <2>2, <2>3
<1>9. Deployment(p)'
  <2>1. \A x \in plan[p] \ work[p] : S!Matches(x)'
    BY <1>1, <1>2, <1>4 DEF Deployment, Staging, S!Matches
  <2>2. pc'[p] \notin Moving \cup {"clean", "deployed", "ready"}
    BY <1>4 DEF Staging, Moving
  <2> QED  BY <1>1, <1>2, <1>3, <1>4, <1>5, <1>8, <2>1, <2>2 DEF Deployment, Staging
<1> QED  BY <1>4, <1>7, <1>9

\* The steps that move what is staged, or bring it to an end, leave the entries
\* of the transaction alone.
LEMMA MovingIntact ==
    ASSUME TypeInv, IntactInv, NEW p \in Process, StorageWork(p),
           S!Publish(p) \/ S!ActivateEntry(p) \/ S!DropBackup(p) \/ S!EntriesDone(p)
             \/ S!CleanBackup(p) \/ S!Complete(p),
           \A d : Needed(d)' => Needed(d)
    PROVE  /\ UNCHANGED dest /\ (\A a \in journal' : Foreign(a))
           /\ Transaction(p)' /\ Deployment(p)'
<1>1. S!TypeOK /\ Transaction(p) /\ Deployment(p) /\ UsesStorage(p) /\ JournalForeign
  BY DEF TypeInv, TreeTypes, IntactInv, StoreInv, StorageWork
<1>2. /\ UNCHANGED <<dest, staging>> /\ mode'[p] = mode[p] /\ plan'[p] = plan[p]
      /\ pc[p] # "idle" /\ pc'[p] # "idle" /\ mode[p] \in {"recover", "deploy"}
  BY <1>1 DEF S!Publish, S!ActivateEntry, S!DropBackup, S!EntriesDone, S!CleanBackup,
     S!Complete, S!Goto, S!files, S!TypeOK
<1>3. UNCHANGED job
  BY <1>2 DEF StorageWork
<1>4. \A x : Staged(x)' = Staged(x) /\ S!Matches(x)' = S!Matches(x)
  BY <1>2 DEF Staged, S!Matches
<1>5. \A x \in journal \cup work[p] : Foreign(x)
  BY <1>1 DEF Transaction, JournalForeign
<1>6. CASE S!Publish(p)
  <2>1. /\ pc[p] = "stage" /\ todo[p] = {} /\ journal' = work[p] /\ todo'[p] = work[p]
        /\ pc'[p] = "next" /\ work'[p] = work[p]
    BY <1>1, <1>6 DEF S!Publish, S!Goto, S!TypeOK
  <2>2. Transaction(p)'
    BY <1>1, <1>3, <2>1, SameTransaction DEF Staging, Visiting
  <2>3. Deployment(p)'
    BY <1>1, <1>2, <1>3, <1>4, <2>1 DEF Deployment, Staging, Moving
  <2> QED  BY <1>2, <1>5, <2>1, <2>2, <2>3
<1>7. CASE S!ActivateEntry(p)
  <2>1. /\ pc[p] = "next" /\ pc'[p] = "drop" /\ cur'[p] \in todo[p]
        /\ UNCHANGED <<journal, todo, work>>
    BY <1>1, <1>7 DEF S!ActivateEntry, S!Goto, S!files, S!TypeOK
  <2>2. Transaction(p)'
    BY <1>1, <1>3, <2>1, SameTransaction DEF Staging, Transaction
  <2>3. Deployment(p)'
    BY <1>1, <1>2, <1>3, <1>4, <2>1 DEF Deployment, Staging, Moving
  <2> QED  BY <1>2, <1>5, <2>1, <2>2, <2>3
<1>8. CASE S!DropBackup(p)
  <2>1. /\ pc[p] = "drop" /\ pc'[p] \in {"drop", "preserve"}
        /\ UNCHANGED <<journal, todo, work, cur>>
    BY <1>1, <1>8 DEF S!DropBackup, S!Goto, S!TypeOK
  <2>2. Transaction(p)'
    BY <1>1, <1>3, <2>1, SameTransaction DEF Staging, Visiting, Transaction
  <2>3. Deployment(p)'
    BY <1>1, <1>2, <1>3, <1>4, <2>1 DEF Deployment, Staging, Moving
  <2> QED  BY <1>2, <1>5, <2>1, <2>2, <2>3
<1>9. CASE S!EntriesDone(p)
  <2>1. /\ pc[p] = "next" /\ pc'[p] = "clean" /\ todo[p] = {} /\ todo'[p] = work[p]
        /\ UNCHANGED <<journal, work>>
    BY <1>1, <1>9 DEF S!EntriesDone, S!Goto, S!files, S!TypeOK
  <2>2. Transaction(p)'
    BY <1>1, <1>3, <2>1, SameTransaction DEF Staging, Visiting
  <2>3. Deployment(p)'
    BY <1>1, <1>2, <1>3, <1>4, <2>1 DEF Deployment, Staging, Moving
  <2> QED  BY <1>2, <1>5, <2>1, <2>2, <2>3
<1>10. CASE S!CleanBackup(p)
  <2>1. /\ pc[p] = "clean" /\ UNCHANGED <<journal, pc, work>> /\ todo'[p] \subseteq todo[p]
    BY <1>1, <1>10 DEF S!CleanBackup, S!TypeOK
  <2>2. Transaction(p)'
    BY <1>1, <1>3, <2>1, SameTransaction DEF Staging, Visiting, Transaction
  <2>3. Deployment(p)'
    BY <1>1, <1>2, <1>3, <1>4, <2>1 DEF Deployment, Staging, Moving
  <2> QED  BY <1>2, <1>5, <2>1, <2>2, <2>3
<1>11. CASE S!Complete(p)
  <2>1. /\ pc[p] = "clean" /\ todo[p] = {} /\ todo'[p] = {} /\ journal' = {} /\ work'[p] = {}
        /\ pc'[p] = IF mode[p] = "recover" THEN "ready" ELSE "deployed"
    BY <1>1, <1>11 DEF S!Complete, S!Goto, S!TypeOK
  <2>2. Transaction(p)'
    BY <1>1, <1>3, <2>1, SameTransaction DEF Staging, Visiting
  <2>3. Deployment(p)'
    BY <1>1, <1>2, <1>3, <1>4, <2>1 DEF Deployment, Staging, Moving
  <2> QED  BY <1>2, <2>1, <2>2, <2>3
<1> QED  BY <1>6, <1>7, <1>8, <1>9, <1>10, <1>11

\* The two renames of an entry.
LEMMA RenameIntact ==
    ASSUME TypeInv, IntactInv, NEW p \in Process, StorageWork(p),
           S!Preserve(p) \/ (S!RenameStaging(p) /\ pc[p] = "activate"),
           \A d : Needed(d)' => Needed(d)
    PROVE  /\ \A d \in Dest : Needed(d) => dest'[d] = dest[d]
           /\ UNCHANGED journal /\ Transaction(p)' /\ Deployment(p)'
<1> DEFINE a == cur[p]
<1>1. S!TypeOK /\ Transaction(p) /\ Deployment(p) /\ UsesStorage(p)
  BY DEF TypeInv, TreeTypes, IntactInv, StoreInv, StorageWork
<1>2. /\ pc[p] \in {"preserve", "activate"} /\ pc'[p] \in {"activate", "next"}
      /\ mode'[p] = mode[p] /\ plan'[p] = plan[p] /\ UNCHANGED <<journal, work>>
      /\ pc'[p] = "activate" => cur'[p] = a /\ todo'[p] = todo[p]
      /\ todo'[p] \subseteq todo[p]
  BY <1>1 DEF S!Preserve, S!RenameStaging, S!Goto, S!TypeOK
<1>3. a \in todo[p] /\ a \in work[p] /\ a \in S!Activation /\ a.dest \in Dest /\ ~Needed(a.dest)
  BY <1>1, <1>2 DEF Transaction, Foreign, Visiting, S!TypeOK
<1>4. \A d \in Dest : d # a.dest => dest'[d] = dest[d]
  BY <1>1, <1>3 DEF S!Preserve, S!RenameStaging, S!TypeOK
<1>5. UNCHANGED job
  BY <1>2 DEF StorageWork
<1>6. Transaction(p)'
  BY <1>1, <1>2, <1>3, <1>5, SameTransaction DEF Staging, Visiting, Transaction
<1>7. Deployment(p)'
  <2>1. CASE mode[p] # "deploy"
    BY <1>2, <2>1 DEF Deployment, Staging
  <2>2. CASE mode[p] = "deploy"
    <3>1. /\ \A x, y \in plan[p] : x.dest = y.dest => x = y
          /\ todo[p] \subseteq work[p] /\ work[p] \subseteq plan[p]
          /\ \A x \in plan[p] : x \in S!Activation /\ x.dest \in Dest
      BY <1>2, <2>2, DeploymentFacts
    <3>2. /\ \A x \in plan[p] \ todo[p] : S!Matches(x)
          /\ \A x \in todo[p] : Staged(x)
      BY <1>1, <1>2, <2>2 DEF Deployment, Moving
    <3>3. \A x \in plan[p] : x # a => (S!Matches(x) => S!Matches(x)')
      BY <1>3, <1>4, <3>1 DEF S!Matches
    <3>4. \A x \in todo'[p] : Staged(x)'
      <4>1. CASE S!Preserve(p)
        BY <3>2, <4>1 DEF S!Preserve, Staged
      <4>2. CASE S!RenameStaging(p)
        <5>1. todo'[p] = todo[p] \ {a} /\ S!SetStaging(a, Absent)
          BY <1>1, <4>2 DEF S!RenameStaging, S!TypeOK
        <5>2. \A x \in S!Activation : x.dest # a.dest =>
                staging'[x.dest][x.commit] = staging[x.dest][x.commit]
          BY <1>1, <1>3, <5>1, SetStagingEffect
        <5>3. \A x \in todo[p] : x # a => (Staged(x) => Staged(x)')
          BY <1>3, <3>1, <5>2 DEF Staged
        <5> QED  BY <3>2, <5>1, <5>3
      <4> QED  BY <4>1, <4>2
    <3>5. \A x \in plan[p] \ todo'[p] : S!Matches(x)'
      <4>1. CASE S!Preserve(p)
        <5>1. todo'[p] = todo[p]
          BY <4>1 DEF S!Preserve
        <5> QED  BY <1>3, <3>2, <3>3, <5>1
      <4>2. CASE S!RenameStaging(p)
        <5>1. todo'[p] = todo[p] \ {a} /\ dest'[a.dest] = staging[a.dest][a.commit]
          BY <1>1, <1>3, <4>2 DEF S!RenameStaging, S!TypeOK
        <5>2. dest'[a.dest] = a.commit
          BY <1>3, <3>2, <5>1 DEF Staged
        <5> SUFFICES ASSUME NEW x \in plan[p] \ todo'[p] PROVE S!Matches(x)'
          OBVIOUS
        <5>3. CASE x = a
          BY <5>2, <5>3 DEF S!Matches
        <5>4. CASE x # a
          BY <3>2, <3>3, <5>1, <5>4
        <5> QED  BY <5>3, <5>4
      <4> QED  BY <4>1, <4>2
    <3> QED  BY <1>1, <1>2, <1>5, <2>2, <3>1, <3>4, <3>5 DEF Deployment, Staging, Moving
  <2> QED  BY <2>1, <2>2
<1> QED  BY <1>2, <1>3, <1>4, <1>6, <1>7

\* Every step of a deployment or a recovery.
LEMMA StorageWorkIntact ==
    ASSUME TypeInv, IntactInv, NEW p \in Process, Quietly(p), StorageWork(p)
    PROVE  IntactInv'
<1>1. S!TypeOK /\ JobShape /\ UNCHANGED records /\ gutted' \subseteq gutted
  BY DEF TypeInv, TreeTypes, StorageWork, Regenerate
<1>2. Others(p) /\ (job'[p] = job[p] \/ job'[p] = Idle)
  BY <1>1, EndEffect DEF StorageWork, Others
<1>3. Apart(p)
  BY <1>1, <1>2, WorkBeside DEF StorageWork, Others, Beside, Apart
<1>4. \A d : Needed(d)' => Needed(d)
  BY <1>1, <1>2, <1>3, StillNeeded
<1>5. \A a \in journal : Foreign(a)
  BY DEF IntactInv, JournalForeign
<1>6. ASSUME S!Leave(p) PROVE Transaction(p)' /\ Deployment(p)'
  <2>1. pc'[p] = "idle"
    BY <1>1, <1>6, LeaveEffect
  <2>2. job'[p] = Idle
    BY <1>1, <2>1, EndEffect DEF StorageWork
  <2> QED  BY <1>1, <1>6, <2>2, LeaveTransaction DEF Idle, Committed
<1>7. /\ \A d \in Dest : Needed(d) => dest'[d] = dest[d]
      /\ \A a \in journal' : Foreign(a)
      /\ Transaction(p)' /\ Deployment(p)'
  <2>1. CASE S!RecoverEntry(p)
    BY <1>4, <1>5, <2>1, RecoverIntact
  <2>2. CASE S!Stage(p) \/ S!Unstage(p) \/ S!Checkout(p) \/ S!Seal(p)
    BY <1>4, <1>5, <2>2, StagingIntact
  <2>3. CASE S!CheckoutFails(p)
    BY <1>5, <1>6, <2>3 DEF S!CheckoutFails
  <2>4. CASE S!Publish(p) \/ S!ActivateEntry(p) \/ S!DropBackup(p) \/ S!EntriesDone(p)
               \/ S!CleanBackup(p) \/ S!Complete(p)
    BY <1>4, <2>4, MovingIntact
  <2>5. CASE S!Preserve(p)
    BY <1>4, <1>5, <2>5, RenameIntact
  <2>6. CASE S!Activate(p)
    <3>1. CASE S!Leave(p) /\ UNCHANGED S!files
      BY <1>5, <1>6, <3>1 DEF S!files
    <3>2. CASE S!RenameStaging(p) /\ pc[p] = "activate"
      BY <1>4, <1>5, <3>2, RenameIntact
    <3> QED  BY <2>6, <3>1, <3>2 DEF S!Activate
  <2> QED  BY <2>1, <2>2, <2>3, <2>4, <2>5, <2>6 DEF StorageWork, S!Work
<1> QED  BY <1>1, <1>2, <1>3, <1>7, DiskStep

\* The lock is taken: a journal that is there is recovered.
LEMMA OpenIntact ==
    ASSUME TypeInv, IntactInv, NEW p \in Process, Quietly(p), OpenStorage(p)
    PROVE  IntactInv'
<1>1. S!TypeOK /\ UsesStorage(p) /\ UNCHANGED <<journal, dest, gutted, records, job>>
  BY DEF TypeInv, TreeTypes, OpenStorage, S!Open, S!files
<1>2. /\ mode'[p] = "recover" /\ work'[p] = journal /\ todo'[p] = journal
      /\ pc'[p] = IF journal = {} THEN "ready" ELSE "next"
  BY <1>1 DEF OpenStorage, S!Open, S!Goto, S!TypeOK
<1>3. Apart(p)
  BY <1>1 DEF OpenStorage, S!Open, S!Goto, S!files, S!TypeOK, Apart
<1>4. \A d : Needed(d)' => Needed(d)
  BY <1>1, <1>3, StillNeeded
<1>5. \A a \in journal : Foreign(a)
  BY DEF IntactInv, JournalForeign
<1>6. Transaction(p)'
  <2>1. \A a \in work'[p] : Foreign(a)'
    BY <1>2, <1>4, <1>5 DEF Foreign
  <2>2. UsesStorage(p)' /\ job'[p].at \notin Committed
    BY <1>1 DEF UsesStorage, Committed
  <2> QED  BY <1>1, <1>2, <2>1, <2>2 DEF Transaction, Staging, Visiting
<1>7. Deployment(p)'
  BY <1>2 DEF Deployment, Staging
<1> QED  BY <1>1, <1>3, <1>5, <1>6, <1>7, DiskStep

\* A deployment works on what is forced, hence new, or does not match.
LEMMA DeployIntact ==
    ASSUME TypeInv, IntactInv, NEW p \in Process, Quietly(p), Deploy(p)
    PROVE  IntactInv'
<1> DEFINE t == job[p].tgt
           asked == {Act(d) : d \in t.dirs}
           pending == {a \in asked : a \in {Act(d) : d \in t.force} \/ ~S!Matches(a)}
<1>1. /\ S!TypeOK /\ job[p].at = "deploy" /\ pc[p] = "ready" /\ Choice(p) /\ JobOK(job[p])
      /\ Transaction(p) /\ UNCHANGED <<journal, dest, gutted, records, job>>
  BY DEF TypeInv, TreeTypes, JobInv, IntactInv, ChoiceInv, StoreInv, Deploy, At, S!BeginPlan,
     S!files
<1>2. t.dirs \subseteq Dest /\ \A d \in t.force : ~Needed(d)
  BY <1>1 DEF JobOK, Busy, Place, Target, Choice
<1>3. /\ mode'[p] = "deploy" /\ plan'[p] = asked /\ work'[p] = pending /\ todo'[p] = pending
      /\ pc'[p] = IF pending = {} THEN "deployed" ELSE "stage"
  BY <1>1 DEF Deploy, S!BeginPlan, S!Goto, S!TypeOK
<1>4. Apart(p)
  BY <1>1 DEF Deploy, S!BeginPlan, S!Goto, S!files, S!TypeOK, Apart
<1>5. \A d : Needed(d)' => Needed(d)
  BY <1>1, <1>4, StillNeeded
<1>6. \A a \in journal : Foreign(a)
  BY DEF IntactInv, JournalForeign
<1>7. ASSUME NEW a \in pending PROVE Foreign(a)
  <2>1. PICK d \in t.dirs : a = Act(d)
    OBVIOUS
  <2>2. a.dest = d /\ a.commit = CommitOf[d] /\ d \in Dest
    BY <1>2, <2>1 DEF Act
  <2>3. CASE \E x \in t.force : a = Act(x)
    BY <1>2, <2>1, <2>2, <2>3 DEF Foreign, Act
  <2>4. CASE ~S!Matches(a)
    BY <2>1, <2>2, <2>4 DEF Foreign, S!Matches, IntactInv, NeededIntact, Intact
  <2> QED  BY <2>3, <2>4
<1>8. Transaction(p)'
  <2>1. \A a \in work'[p] : Foreign(a)'
    BY <1>3, <1>5, <1>7 DEF Foreign
  <2>2. UsesStorage(p)' /\ job'[p].at \notin Committed
    BY <1>1 DEF UsesStorage, Committed
  <2>3. journal' = {}
    BY <1>1 DEF Transaction
  <2> QED  BY <1>3, <2>1, <2>2, <2>3 DEF Transaction, Staging, Visiting
<1>9. Deployment(p)'
  <2>1. \A a \in asked \ pending : S!Matches(a)'
    BY <1>1 DEF S!Matches
  <2> HIDE DEF pending, asked
  <2>2. pending \subseteq asked
    BY DEF pending
  <2>3. plan'[p] = {Act(d) : d \in job'[p].tgt.dirs}
    BY <1>1, <1>3 DEF asked
  <2> QED  BY <1>1, <1>3, <2>1, <2>2, <2>3 DEF Deployment, Staging, Moving
<1> QED  BY <1>1, <1>4, <1>6, <1>8, <1>9, DiskStep

\* The storage is closed.  After a deployment everything it was asked for matches,
\* with nothing half-removed around: from here on it has to stay.
LEMMA CloseIntact ==
    ASSUME TypeInv, IntactInv, NEW p \in Process, Quietly(p), CloseStorage(p)
    PROVE  IntactInv'
<1>1. /\ S!TypeOK /\ JobShape /\ Choice(p) /\ Transaction(p) /\ Deployment(p) /\ Deploys(p)
      /\ JobOK(job[p])
  BY DEF TypeInv, TreeTypes, JobInv, IntactInv, ChoiceInv, StoreInv, CleanupInv
<1>2. /\ pc[p] \in {"ready", "deployed"} /\ S!Leave(p) /\ UNCHANGED records
      /\ UNCHANGED <<journal, dest, gutted, appRec, rtRec, runs>>
  BY DEF CloseStorage, S!Close, S!files, records
<1>3. Beside(p)
  BY <1>1, <1>2, LeaveEffect
<1>4. journal = {} /\ \A a \in journal' : Foreign(a)
  BY <1>1, <1>2 DEF Transaction
<1>5. CASE End(p)
  <2>1. Others(p) /\ job'[p] = Idle
    BY <1>1, <1>5, EndEffect
  <2>2. Apart(p)
    BY <1>3, <2>1 DEF Others, Beside, Apart
  <2>3. Transaction(p)' /\ Deployment(p)'
    BY <1>1, <1>2, <2>1, LeaveTransaction DEF Idle, Committed
  <2> QED  BY <1>2, <1>4, <2>1, <2>2, <2>3, DiskStep
<1>6. ASSUME NEW label, Go(p, label), label \in {"list_bindings", "keep_apps"} \cup Committed
      PROVE  /\ Others(p) /\ Apart(p) /\ RunsStay(p) /\ OwnerInv' /\ JournalForeign'
             /\ job'[p].at = label /\ job'[p].cmd = job[p].cmd /\ job'[p].tgt = job[p].tgt
             /\ Transaction(p)' /\ Deployment(p)' /\ Protects(p)'
  <2>1. /\ Others(p) /\ job'[p].at = label /\ job'[p].cmd = job[p].cmd
        /\ job'[p].tgt = job[p].tgt
    BY <1>1, <1>6, GoEffect
  <2>2. Apart(p) /\ RunsStay(p)
    BY <1>2, <1>3, <2>1, RunsFrame DEF Others, Beside, Apart
  <2>3. OwnerInv'
    BY <1>2, <1>6, <2>1, <2>2, OwnerFrame DEF Committed
  <2>4. pc'[p] = "idle" /\ work'[p] = {} /\ todo'[p] = {}
    BY <1>1, <1>2, LeaveEffect
  <2>5. Transaction(p)' /\ Deployment(p)'
    BY <1>2, <1>4, <2>4 DEF Transaction, Deployment, Staging, Moving, Visiting
  <2>6. Protects(p)'
    BY <1>6, <2>1 DEF Protects, Committed
  <2>7. JournalForeign'
    BY <1>2, <1>4 DEF JournalForeign
  <2> QED  BY <2>1, <2>2, <2>3, <2>5, <2>6, <2>7
<1>7. ASSUME NEW label \in {"list_bindings", "keep_apps"}, Go(p, label),
             job[p].at \in {"startup", "refs"},
             label = "list_bindings" => job[p].at = "startup"
      PROVE  IntactInv'
  <2>1. /\ Apart(p) /\ RunsStay(p) /\ OwnerInv' /\ JournalForeign'
        /\ job'[p].at = label /\ job'[p].cmd = job[p].cmd /\ job'[p].tgt = job[p].tgt
        /\ Transaction(p)' /\ Deployment(p)' /\ Protects(p)'
    BY <1>6, <1>7
  <2>2. NeededIntact'
    <3>1. Needs(p)' = {}
      BY <1>7, <2>1 DEF Needs, Committed, Launching
    <3>2. \A d : Needed(d)' => Needed(d)
      BY <1>2, <2>1, <3>1, NeededFrame
    <3> QED  BY <1>2, <3>2 DEF IntactInv, NeededIntact, Intact
  <2>3. Choice(p)'
    BY <1>1, <1>7, <2>1 DEF Choice, Launching, Committed
  <2>4. Deploys(p)'
    BY <1>7, <2>1 DEF Deploys, Entered, Deploying, Committed
  <2> QED  BY <2>1, <2>2, <2>3, <2>4, ActiveStep DEF Own
<1>8. ASSUME At(p, "deploy"), pc[p] = "deployed",
             Go(p, IF RuntimeOnly(p) THEN "record_runtime" ELSE "pin")
      PROVE  IntactInv'
  <2> DEFINE t == job[p].tgt
             label == IF RuntimeOnly(p) THEN "record_runtime" ELSE "pin"
  <2>1. label \in Committed /\ label \in {"record_runtime", "pin"}
    BY DEF Committed
  <2>2. /\ Others(p) /\ Apart(p) /\ RunsStay(p) /\ OwnerInv' /\ JournalForeign'
        /\ job'[p].at = label /\ job'[p].cmd = job[p].cmd /\ job'[p].tgt = t
        /\ Transaction(p)' /\ Deployment(p)' /\ Protects(p)'
    BY <1>6, <1>8, <2>1
  <2> HIDE DEF label
  <2>3. job[p].cmd \in Deploying /\ t.dirs \subseteq Dest
    BY <1>1, <1>8 DEF At, JobOK, Place, Busy, Target, Deploying
  <2>4. gutted = {}
    BY <1>1, <1>8, <2>3 DEF Deploys, Entered, At
  <2>5. \A d \in t.dirs : Intact(d)
    <3>1. \A a \in {Act(d) : d \in t.dirs} : S!Matches(a)
      BY <1>1, <1>8 DEF Deployment
    <3>2. \A d \in t.dirs : S!Matches(Act(d))
      BY <3>1
    <3> QED  BY <2>4, <3>2 DEF S!Matches, Act, Intact
  <2>6. NeededIntact'
    <3>1. Needs(p)' = t.dirs
      BY <2>1, <2>2 DEF Needs, Committed, Launching
    <3>2. ASSUME NEW d, Needed(d)' PROVE Needed(d) \/ d \in t.dirs
      <4>1. \A q \in Process : q # p => Needs(q)' = Needs(q)
        BY <2>2 DEF Apart, Needs
      <4>2. \A q \in Process : job'[q].cmd = job[q].cmd
        BY <2>2 DEF Others
      <4> QED  BY <1>2, <3>1, <3>2, <4>1, <4>2 DEF Needed, Installed
    <3> QED  BY <1>2, <2>5, <3>2 DEF IntactInv, NeededIntact, Intact
  <2>7. Choice(p)'
    BY <1>1, <1>8, <2>1, <2>2 DEF Choice, At, Launching, Committed
  <2>8. Deploys(p)'
    BY <1>2, <2>4 DEF Deploys
  <2> QED  BY <2>2, <2>6, <2>7, <2>8, ActiveStep DEF Own
<1> QED  BY <1>5, <1>7, <1>8 DEF CloseStorage, At

\* A process dies: its needs go, and the others go on as they were.
LEMMA CrashIntact ==
    ASSUME TypeInv, IntactInv, NEW p \in Process, Crash(p)
    PROVE  IntactInv'
<1>1. S!TypeOK /\ JobShape
  BY DEF TypeInv, TreeTypes
<1>2. Others(p) /\ job'[p] = Idle /\ job'[p].at = "none" /\ job'[p].cmd = "none"
  BY <1>1, EndEffect DEF Crash, Idle
<1>3. /\ UNCHANGED records /\ UNCHANGED <<appRec, rtRec, runs>>
      /\ UNCHANGED <<journal, dest, staging, gutted>>
  BY DEF Crash, S!Abort, S!files, records
<1>4. /\ Beside(p) /\ pc'[p] = "idle" /\ work'[p] = {} /\ todo'[p] = {}
  <2>1. CASE pc[p] = "idle"
    BY <2>1 DEF Crash, Beside, IntactInv, StoreInv, Transaction
  <2>2. CASE pc[p] # "idle"
    BY <1>1, <2>2, LeaveEffect DEF Crash, S!Abort
  <2> QED  BY <2>1, <2>2
<1>5. Apart(p)
  BY <1>2, <1>4 DEF Others, Beside, Apart
<1>6. \A d : Needed(d)' => Needed(d)
  BY <1>2, <1>3, <1>5, StillNeeded
<1>7. NeededIntact' /\ JournalForeign'
  BY <1>3, <1>6 DEF IntactInv, NeededIntact, JournalForeign, Intact, Foreign
<1>8. OwnerInv'
  BY <1>2, <1>3, <1>5, OwnerFrame
<1>9. Own(p)'
  BY <1>2, <1>4 DEF Own, Choice, Transaction, Deployment, Protects, Deploys, Launching,
     Committed, Staging, Moving, Visiting, Deploying
<1>10. ASSUME NEW q \in Process, q # p PROVE Own(q)'
  <2>1. /\ job'[q] = job[q] /\ pc'[q] = pc[q] /\ mode'[q] = mode[q] /\ plan'[q] = plan[q]
        /\ work'[q] = work[q] /\ todo'[q] = todo[q] /\ cur'[q] = cur[q]
    BY <1>2, <1>4, <1>10 DEF Others, Beside
  <2>2. Own(q)
    BY DEF Own, IntactInv, ChoiceInv, StoreInv, CleanupInv
  <2>3. Choice(q)'
    <3>1. RunOf(q)' = RunOf(q)
      BY <2>1 DEF RunOf
    <3>2. \A x \in Process : job'[x].at = "running" =>
            job[x].at = "running" /\ job'[x].tgt = job[x].tgt
      BY <1>2 DEF Others
    <3> QED  BY <1>3, <1>6, <2>1, <2>2, <3>1, <3>2 DEF Own, Choice
  <2>4. Transaction(q)'
    BY <1>3, <1>6, <2>1, <2>2 DEF Own, Transaction, Foreign, UsesStorage
  <2>5. Deployment(q)'
    BY <1>3, <2>1, <2>2 DEF Own, Deployment, Staged, S!Matches
  <2>6. Protects(q)' /\ Deploys(q)'
    BY <1>3, <2>1, <2>2 DEF Own, Protects, Deploys, Installed
  <2> QED  BY <2>3, <2>4, <2>5, <2>6 DEF Own
<1> QED  BY <1>7, <1>8, <1>9, <1>10 DEF Own, IntactInv, ChoiceInv, StoreInv, CleanupInv

\* The two directories an installation begins with are intact.
LEMMA InitIntact == Init => IntactInv
<1> SUFFICES ASSUME Init PROVE IntactInv
  OBVIOUS
<1>1. PICK o \in Offers, launched \in SUBSET Process, installed \in BOOLEAN,
           a \in AppDir, r \in RuntimeDir : First(o, launched, installed, a, r)
  BY InitFirst
<1>2. /\ gutted = {} /\ journal = {}
      /\ \A p \in Process : pc[p] = "idle" /\ work[p] = {} /\ todo[p] = {}
  BY DEF Init, S!Init
<1>3. PICK t : t = [app |-> o.app, adir |-> a, rdir |-> r]
  OBVIOUS
<1>4. t.app = o.app /\ t.adir = a /\ t.rdir = r
  BY <1>3
<1>5. \A p \in Process :
        \/ job[p].cmd = "none" /\ job[p].at = "none" /\ p \notin launched
        \/ job[p].cmd = "run" /\ job[p].at = "running" /\ job[p].tgt = t /\ p \in launched
  BY <1>1, <1>3 DEF First, Idle
<1>6. \A x \in Installed : x = o.app /\ appRec[x].adir = a /\ appRec[x].rdir = r
  BY <1>1 DEF First, Installed
<1>7. \A ref \in Runtime : rtRec[ref] \in {r, NoRecord}
  BY <1>1 DEF First
<1>8. \A x \in runs : /\ x.by \in Process
                     /\ x = [by |-> x.by, app |-> o.app, adir |-> a, rdir |-> r]
  BY <1>1 DEF First
<1>9. NeededIntact
  <2> SUFFICES ASSUME NEW d \in Dest, Needed(d) PROVE Intact(d)
    BY DEF NeededIntact
  <2>1. \A p \in Process : job[p].cmd \notin Deploying
    BY <1>5 DEF Deploying
  <2>2. \A p \in Process : Needs(p) \subseteq {a, r}
    BY <1>4, <1>5 DEF Needs, Committed, Launching
  <2>3. d \in {a, r}
    BY <1>6, <1>7, <2>1, <2>2, RecordAssumption DEF Needed
  <2> QED  BY <1>1, <1>2, <2>3 DEF First, Intact
<1>10. JournalForeign
  BY <1>2 DEF JournalForeign
<1>11. ASSUME NEW p \in Process PROVE Choice(p)
  <2>1. job[p].at = "running" => AppOf[job[p].tgt.adir] = job[p].tgt.app
    BY <1>1, <1>4, <1>5 DEF First
  <2>2. job[p].at = "running" => RunOf(p) \in runs
    BY <1>1, <1>4, <1>5 DEF First, RunOf
  <2> QED  BY <1>5, <2>1, <2>2 DEF Choice, Launching, Committed
<1>12. OwnerInv
  <2>1. ASSUME NEW x \in runs, job[x.by].at \in {"mount", "running"} PROVE x = RunOf(x.by)
    <3>1. job[x.by].tgt = t
      BY <1>5, <1>8, <2>1
    <3> QED  BY <1>4, <1>8, <3>1 DEF RunOf
  <2>2. \A x \in Installed : AppOf[appRec[x].adir] = x
    BY <1>1, <1>6 DEF First
  <2> QED  BY <2>1, <2>2 DEF OwnerInv
<1>13. ASSUME NEW p \in Process PROVE Transaction(p) /\ Deployment(p)
  BY <1>2 DEF Transaction, Deployment, Staging, Moving, Visiting
<1>14. ASSUME NEW p \in Process PROVE Protects(p) /\ Deploys(p)
  BY <1>2, <1>5 DEF Protects, Deploys
<1> QED  BY <1>9, <1>10, <1>11, <1>12, <1>13, <1>14
            DEF IntactInv, ChoiceInv, StoreInv, CleanupInv

\* A step that changes nothing.
LEMMA StutterIntact == ASSUME IntactInv, UNCHANGED vars PROVE IntactInv'
<1>1. UNCHANGED <<journal, dest, staging, gutted, pc, mode, plan, work, todo, cur, appRec,
                  rtRec, runs, job>>
  BY DEF vars, storage, trees, records
<1>2. \A d : Needed(d)' = Needed(d)
  BY <1>1 DEF Needed, Needs, Installed
<1>3. NeededIntact' /\ JournalForeign'
  BY <1>1, <1>2 DEF IntactInv, NeededIntact, JournalForeign, Foreign, Intact
<1>4. ChoiceInv'
  <2>1. \A p \in Process : RunOf(p)' = RunOf(p)
    BY <1>1 DEF RunOf
  <2> QED  BY <1>1, <1>2, <2>1 DEF IntactInv, ChoiceInv, Choice
<1>5. OwnerInv'
  BY <1>1 DEF IntactInv, OwnerInv, RunOf, Installed
<1>6. StoreInv'
  BY <1>1, <1>2 DEF IntactInv, StoreInv, Transaction, Deployment, Foreign, UsesStorage,
     Staged, S!Matches
<1>7. CleanupInv'
  BY <1>1 DEF IntactInv, CleanupInv, Protects, Deploys, Installed
<1> QED  BY <1>3, <1>4, <1>5, <1>6, <1>7 DEF IntactInv

\* Every step of every command, or the death of a process.
LEMMA StepIntact ==
    ASSUME Orderly, TypeInv, EldersInv, ReclaimInv, IntactInv, [Next]_vars
    PROVE  IntactInv'
<1>1. CASE UNCHANGED vars
  BY <1>1, StutterIntact
<1>2. ASSUME NEW p \in Process, Step(p) PROVE IntactInv'
  <2>1. CASE Crash(p)
    BY <2>1, CrashIntact
  <2>2. CASE ~Crash(p)
    <3>1. Quietly(p)
      <4>1. ASSUME NEW q \in Process, q # p, job[q].at \notin Calm PROVE FALSE
        <5>1. job[p].at \in Calm
          BY <4>1 DEF ReclaimInv, Alone
        <5> QED  BY <1>2, <2>2, <4>1, <5>1, Resting DEF Orderly
      <4> QED  BY <4>1 DEF Quietly
    <3>2. CASE OpenStorage(p) \/ Deploy(p) \/ StorageWork(p) \/ CloseStorage(p)
      BY <3>1, <3>2, OpenIntact, DeployIntact, StorageWorkIntact, CloseIntact
    <3>3. CASE Start(p) \/ Decline(p) \/ Done(p) \/ ListBindings(p) \/ Bind(p) \/ Bound(p)
      BY <3>1, <3>3, StartIntact, DoneIntact, BindingIntact, BindIntact
    <3>4. CASE \/ KeepApps(p) \/ KeepRuntimes(p) \/ KeepRuns(p) \/ ListRuntimes(p)
               \/ ListApps(p) \/ Sweep(p) \/ Swept(p)
      BY <3>1, <3>4, KeepIntact, ListIntact, SweepIntact, SweptIntact
    <3>5. CASE \/ Update(p) \/ Install(p) \/ UpdateRuntime(p) \/ InstallRuntime(p)
               \/ Pin(p) \/ Unpin(p) \/ RecordRuntime(p) \/ RecordApp(p)
      BY <3>1, <3>5, ChoosingIntact, PinIntact, UnpinIntact, RecordRuntimeIntact,
         RecordAppIntact
    <3>6. CASE Publish(p) \/ Replace(p) \/ DropOldRuntime(p)
      BY <3>1, <3>6, ReplacingIntact
    <3>7. CASE \/ Uninstall(p) \/ Unrecord(p) \/ UninstallRuntime(p) \/ UninstallUnused(p)
               \/ UnrecordRuntime(p) \/ Scrub(p)
      BY <3>1, <3>7, UninstallIntact, UnrecordIntact, NoRuntimeRemoval, ScrubIntact
    <3>8. CASE Launch(p) \/ PinRun(p) \/ Mount(p) \/ Exit(p)
      BY <3>1, <3>8, LaunchIntact, PinRunIntact, MountIntact, ExitIntact
    <3> QED  BY <1>2, <2>2, <3>2, <3>3, <3>4, <3>5, <3>6, <3>7, <3>8 DEF Step
  <2> QED  BY <2>1, <2>2
<1> QED  BY <1>1, <1>2 DEF Next, Quiet

\* IntactInv is an inductive invariant of orderly commands.
LEMMA IntactInvariance == ASSUME Orderly PROVE Spec => [](TypeInv /\ IntactInv)
<1>1. TypeInv /\ EldersInv /\ [Next]_vars => EldersInv'
  BY StepElders
<1>2. TypeInv /\ ReclaimInv /\ [Next]_vars => ReclaimInv'
  BY StepReclaims DEF Orderly
<1>3. TypeInv /\ EldersInv /\ ReclaimInv /\ IntactInv /\ [Next]_vars => IntactInv'
  BY StepIntact
<1> QED  BY <1>1, <1>2, <1>3, InitElders, InitReclaims, InitIntact, TypeInvariance, PTL
            DEF Spec

\* PinnedIntact is invariant of commands that run one after the other, when none
\* of them renames an application or removes a runtime by itself (in a model with
\* one of these it is not): wherever commands are killed, whatever they recover,
\* update, uninstall or clean up, the two checkouts a mounted sandbox was launched
\* from keep all of their files, for its run record protects them from every
\* cleanup, no uninstall chooses its application, and no deployment is staged for
\* a directory that is complete.
THEOREM PinnedStaysIntact == ASSUME Orderly PROVE Spec => []PinnedIntact
<1>1. TypeInv /\ IntactInv => PinnedIntact
  <2> SUFFICES ASSUME TypeInv, IntactInv, NEW r \in Mounted
               PROVE  Intact(r.adir) /\ Intact(r.rdir)
    BY DEF PinnedIntact
  <2>1. /\ r \in runs /\ job[r.by].at = "running" /\ r.by \in Process
        /\ r.adir \in Dest /\ r.rdir \in Dest
    BY GenerationAssumption DEF Mounted, At, TypeInv, RecordTypes, RunRecord
  <2>2. r = RunOf(r.by)
    BY <2>1 DEF IntactInv, OwnerInv
  <2>3. r.adir = job[r.by].tgt.adir /\ r.rdir = job[r.by].tgt.rdir
    BY <2>2 DEF RunOf
  <2>4. r.adir \in Needs(r.by) /\ r.rdir \in Needs(r.by)
    BY <2>1, <2>3 DEF Needs, Committed, Launching
  <2>5. Needed(r.adir) /\ Needed(r.rdir)
    BY <2>1, <2>4, NeededFacts
  <2> QED  BY <2>1, <2>5 DEF IntactInv, NeededIntact
<1> QED  BY <1>1, IntactInvariance, PTL

\* InstalledIntact is invariant of the same commands: both checkouts of every
\* application record have all of their files, also after the recovery of whatever
\* transaction is in the journal.  That transaction is about other directories;
\* what is deployed is complete before a record names it; and a generation whose
\* removal was interrupted is not reused, because the startup of the command that
\* deploys has removed the rest of it.
THEOREM InstalledStaysIntact == ASSUME Orderly PROVE Spec => []InstalledIntact
<1>1. TypeInv /\ IntactInv => InstalledIntact
  <2> SUFFICES ASSUME TypeInv, IntactInv, NEW a \in Installed,
                      NEW d \in {appRec[a].adir, appRec[a].rdir}
               PROVE  S!AfterRestart[d] = CommitOf[d] /\ d \notin gutted
    BY DEF InstalledIntact
  <2>1. Needed(d) /\ d \in Dest
    BY NeededFacts DEF Needed
  <2>2. ~\E x \in journal : x.dest = d
    BY <2>1 DEF IntactInv, JournalForeign, Foreign
  <2>3. S!AfterRestart[d] = dest[d]
    BY <2>1, <2>2 DEF S!AfterRestart
  <2> QED  BY <2>1, <2>3 DEF IntactInv, NeededIntact, Intact
<1> QED  BY <1>1, IntactInvariance, PTL
===============================================================================
