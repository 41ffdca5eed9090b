---------------------------- MODULE SandboxRecovery ----------------------------
(***************************************************************************)
(* recover_stale_mounts, which every command but ps and kill runs at its   *)
(* start, beside the launchers that build and tear down sandboxes.         *)
(*                                                                         *)
(* Nothing is locked.  A launcher publishes the run record of a root, then *)
(* mounts under it, then starts the application.  A recovery looks at the  *)
(* records, the mount table and the process table one after the other, and *)
(* looks at all three again before it tears a root down.  Names of roots   *)
(* are never used again.                                                   *)
(***************************************************************************)
EXTENDS FiniteSets

CONSTANTS Root,        \* sandbox roots, of launches and of nested spawns
          Parent,      \* parent_root of a nested root, None for a launch
          None,
          Recoverer    \* commands that start up

Primary == {r \in Root : Parent[r] = None}

\* The launch whose launcher serves this root.
Owner(r) == IF Parent[r] = None THEN r ELSE Parent[r]

\* The spawn broker of a launch creates the nested roots beside its root.
ASSUME RootAssumption ==
    /\ None \notin Root
    /\ Parent \in [Root -> Root \cup {None}]
    /\ \A r \in Root : Owner(r) \in Primary

VARIABLES stage,      \* how far the launcher has come with a root
          alive,      \* the launches whose launcher runs
          reused,     \* dead launchers whose pid belongs to another process
          recorded,   \* the roots with a run record
          mounted,    \* the roots with mounts
          procs,      \* the roots with processes in them
          pc,         \* where each recovery is
          view,       \* what it has read
          stale,      \* the roots it still has to recover
          cur,        \* the root it is about to recover
          before      \* history: the roots with processes at its last look

system == <<stage, alive, reused, recorded, mounted, procs>>
recovery == <<pc, view, stale, cur, before>>
vars == <<system, recovery>>

Stages == {"unborn", "published", "up", "spawned", "closed", "gone"}

PCs == {"idle", "records", "mounts", "processes", "judge", "terminate",
        "unmount", "remove"}

NoView == [records |-> {}, mounts |-> {}, processes |-> {}]

Nested(r) == {c \in Root : Parent[c] = r}

Init ==
    /\ stage = [r \in Root |-> "unborn"]
    /\ alive = {} /\ reused = {}
    /\ recorded = {} /\ mounted = {} /\ procs = {}
    /\ pc = [q \in Recoverer |-> "idle"]
    /\ view = [q \in Recoverer |-> NoView]
    /\ stale = [q \in Recoverer |-> {}]
    /\ cur = [q \in Recoverer |-> None]
    /\ before = [q \in Recoverer |-> {}]

-------------------------------------------------------------------------------
(***************************************************************************)
(* Plausible mistakes in the code, each of which a property below excludes *)
(***************************************************************************)

\* The mounts go up before the record is published.
MountFirst(r) ==
    /\ Parent[r] = None
    /\ stage[r] = "unborn"
    /\ alive' = alive \cup {r}
    /\ mounted' = mounted \cup {r}
    /\ stage' = [stage EXCEPT ![r] = "published"]
    /\ UNCHANGED <<reused, recorded, procs, recovery>>

\* The record of a root is filed under the root's parent.
PublishParent(r) ==
    /\ Parent[r] = None
    /\ stage[r] = "unborn"
    /\ alive' = alive \cup {r}
    /\ recorded' = recorded \cup {Parent[r]}
    /\ stage' = [stage EXCEPT ![r] = "published"]
    /\ UNCHANGED <<reused, mounted, procs, recovery>>

\* A stale root is recovered on the strength of the first look.
NextStaleUnseen(q) ==
    /\ pc[q] = "judge"
    /\ cur[q] = None
    /\ \E r \in stale[q] : cur' = [cur EXCEPT ![q] = r]
    /\ pc' = [pc EXCEPT ![q] = "terminate"]
    /\ UNCHANGED <<system, view, stale, before>>

\* A launcher is taken for its pid alone.
PidActive(r) == Owner(r) \in alive \cup reused

\* The parents of live nested roots are not protected.
ActiveAlone(q) ==
    LET v == view[q] IN
    {r \in v.records : r \in v.processes \/ Owner(r) \in alive}
       \cup {r \in v.mounts : r \in v.processes}

-------------------------------------------------------------------------------
(***************************************************************************)
(* Launchers: ChrootNullfsBackend::prepare, ChrootInstance, and            *)
(* NestedSandboxRoot for the roots of spawned commands                     *)
(***************************************************************************)

\* The run record is written first; a nested root is asked for by a process
\* of the sandbox.
Publish(r) ==
    /\ stage[r] = "unborn"
    /\ IF Parent[r] = None
       THEN alive' = alive \cup {r}
       ELSE /\ Parent[r] \in alive /\ Parent[r] \in procs
            /\ stage[Parent[r]] = "spawned"
            /\ UNCHANGED alive
    /\ recorded' = recorded \cup {r}
    /\ stage' = [stage EXCEPT ![r] = "published"]
    /\ UNCHANGED <<reused, mounted, procs, recovery>>

MountRoot(r) ==
    /\ stage[r] = "published"
    /\ Owner(r) \in alive
    /\ mounted' = mounted \cup {r}
    /\ stage' = [stage EXCEPT ![r] = "up"]
    /\ UNCHANGED <<alive, reused, recorded, procs, recovery>>

Spawn(r) ==
    /\ stage[r] = "up"
    /\ Owner(r) \in alive
    /\ procs' = procs \cup {r}
    /\ stage' = [stage EXCEPT ![r] = "spawned"]
    /\ UNCHANGED <<alive, reused, recorded, mounted, recovery>>

ProcessesExit(r) ==
    /\ r \in procs
    /\ procs' = procs \ {r}
    /\ UNCHANGED <<stage, alive, reused, recorded, mounted, recovery>>

\* The launcher ends what is left in the root and unmounts it, nested roots
\* before their parent.
Teardown(r) ==
    /\ stage[r] \in {"published", "up", "spawned"}
    /\ Owner(r) \in alive
    /\ \A c \in Nested(r) : stage[c] \in {"unborn", "gone"}
    /\ procs' = procs \ {r}
    /\ mounted' = mounted \ {r}
    /\ stage' = [stage EXCEPT ![r] = "closed"]
    /\ UNCHANGED <<alive, reused, recorded, recovery>>

\* ... and removes the record; the launcher of a launch then exits.
Forget(r) ==
    /\ stage[r] = "closed"
    /\ Owner(r) \in alive
    /\ recorded' = recorded \ {r}
    /\ alive' = alive \ {r}
    /\ stage' = [stage EXCEPT ![r] = "gone"]
    /\ UNCHANGED <<reused, mounted, procs, recovery>>

\* The launcher is killed.  The processes of its sandboxes may live on.
LauncherDies(r) ==
    /\ r \in alive
    /\ alive' = alive \ {r}
    /\ UNCHANGED <<stage, reused, recorded, mounted, procs, recovery>>

PidReused(r) ==
    /\ r \in (Primary \cap recorded) \ (alive \cup reused)
    /\ reused' = reused \cup {r}
    /\ UNCHANGED <<stage, alive, recorded, mounted, procs, recovery>>

-------------------------------------------------------------------------------
(***************************************************************************)
(* recover_stale_mounts                                                    *)
(***************************************************************************)
Goto(q, label) == pc' = [pc EXCEPT ![q] = label]

\* A command that starts, or the second look at a root.
ReadRecords(q) ==
    /\ pc[q] \in {"idle", "records"}
    /\ view' = [view EXCEPT ![q].records = recorded]
    /\ Goto(q, "mounts")
    /\ UNCHANGED <<system, stale, cur, before>>

ReadMounts(q) ==
    /\ pc[q] = "mounts"
    /\ view' = [view EXCEPT ![q].mounts = mounted]
    /\ Goto(q, "processes")
    /\ UNCHANGED <<system, stale, cur, before>>

ReadProcesses(q) ==
    /\ pc[q] = "processes"
    /\ view' = [view EXCEPT ![q].processes = procs]
    /\ Goto(q, "judge")
    /\ UNCHANGED <<system, stale, cur, before>>

\* run_record_launcher_active compares the pid and the start of the process.
LauncherActive(r) == Owner(r) \in alive

\* active_sandbox_roots: roots in use, and the parents of nested ones.
Active(q) ==
    LET v == view[q]
        used == {r \in v.records : r \in v.processes \/ LauncherActive(r)}
                   \cup {r \in v.mounts : r \in v.processes}
    IN  used \cup {Parent[r] : r \in (used \cap (v.records \cup v.mounts)) \ Primary}

\* The first look yields the stale roots.
FirstLook(q) ==
    /\ pc[q] = "judge"
    /\ cur[q] = None
    /\ stale[q] = {}
    /\ LET found == (view[q].records \cup view[q].mounts) \ Active(q) IN
       /\ stale' = [stale EXCEPT ![q] = found]
       /\ IF found = {} THEN Goto(q, "idle") ELSE UNCHANGED pc
    /\ view' = [view EXCEPT ![q] = NoView]
    /\ UNCHANGED <<system, cur, before>>

\* Look again at everything, for one of them: children before their parents.
NextStale(q) ==
    /\ pc[q] = "judge"
    /\ cur[q] = None
    /\ \E r \in stale[q] :
          /\ Nested(r) \cap stale[q] = {}
          /\ cur' = [cur EXCEPT ![q] = r]
    /\ before' = [before EXCEPT ![q] = procs \cap ({cur'[q]} \cup Nested(cur'[q]))]
    /\ Goto(q, "records")
    /\ UNCHANGED <<system, view, stale>>

\* On to the next root, or the end.
Proceed(q) ==
    /\ cur' = [cur EXCEPT ![q] = None]
    /\ stale' = [stale EXCEPT ![q] = @ \ {cur[q]}]
    /\ view' = [view EXCEPT ![q] = NoView]
    /\ before' = [before EXCEPT ![q] = {}]
    /\ Goto(q, IF stale[q] = {cur[q]} THEN "idle" ELSE "judge")

SecondLook(q) ==
    /\ pc[q] = "judge"
    /\ cur[q] # None
    /\ IF cur[q] \in Active(q) THEN Proceed(q)
       ELSE /\ Goto(q, "terminate")
            /\ view' = [view EXCEPT ![q] = [NoView EXCEPT !.records =
                                            view[q].records \cap {cur[q]}]]
            /\ UNCHANGED <<stale, cur, before>>
    /\ UNCHANGED system

Terminate(q) ==
    /\ pc[q] = "terminate"
    /\ procs' = procs \ {cur[q]}
    /\ Goto(q, "unmount")
    /\ UNCHANGED <<stage, alive, reused, recorded, mounted, view, stale, cur,
                   before>>

Unmount(q) ==
    /\ pc[q] = "unmount"
    /\ mounted' = mounted \ {cur[q]}
    /\ Goto(q, "remove")
    /\ UNCHANGED <<stage, alive, reused, recorded, procs, view, stale, cur,
                   before>>

\* Remove the root and the records of it that the second look has read.
RemoveRoot(q) ==
    /\ pc[q] = "remove"
    /\ recorded' = IF cur[q] \notin mounted THEN recorded \ ({cur[q]} \cap view[q].records)
                                            ELSE recorded
    /\ Proceed(q)
    /\ UNCHANGED <<stage, alive, reused, mounted, procs>>

\* The command is interrupted, or a process or a mount resists.
RecoveryFails(q) ==
    /\ pc[q] # "idle"
    /\ Goto(q, "idle")
    /\ view' = [view EXCEPT ![q] = NoView]
    /\ stale' = [stale EXCEPT ![q] = {}]
    /\ cur' = [cur EXCEPT ![q] = None]
    /\ before' = [before EXCEPT ![q] = {}]
    /\ UNCHANGED system

-------------------------------------------------------------------------------
Launcher(r) ==
    \/ Publish(r) \/ MountRoot(r) \/ Spawn(r) \/ ProcessesExit(r)
    \/ Teardown(r) \/ Forget(r) \/ LauncherDies(r) \/ PidReused(r)

Recover(q) ==
    \/ ReadRecords(q) \/ ReadMounts(q) \/ ReadProcesses(q)
    \/ FirstLook(q) \/ NextStale(q) \/ SecondLook(q)
    \/ Terminate(q) \/ Unmount(q) \/ RemoveRoot(q)

Next == \/ \E r \in Root : Launcher(r)
        \/ \E q \in Recoverer : Recover(q) \/ RecoveryFails(q)

Spec == Init /\ [][Next]_vars

\* A step that only a failure explains: a look that finds nothing to do also
\* takes a recovery back to where it began.
Interrupted(q) == RecoveryFails(q) /\ ~Recover(q)

\* Users go on running commands, and from some time on they are not killed.
Fairness == /\ \A q \in Recoverer : WF_vars(Recover(q))
            /\ \A q \in Recoverer : <>[][~Interrupted(q)]_vars

FairSpec == Spec /\ Fairness

-------------------------------------------------------------------------------
(***************************************************************************)
(* Properties                                                              *)
(***************************************************************************)
TypeOK ==
    /\ stage \in [Root -> Stages]
    /\ alive \subseteq Primary /\ reused \subseteq Primary
    /\ recorded \subseteq Root /\ mounted \subseteq Root /\ procs \subseteq Root
    /\ pc \in [Recoverer -> PCs]
    /\ view \in [Recoverer -> [records : SUBSET Root, mounts : SUBSET Root,
                               processes : SUBSET Root]]
    /\ stale \in [Recoverer -> SUBSET Root]
    /\ cur \in [Recoverer -> Root \cup {None}]
    /\ before \in [Recoverer -> SUBSET Root]

TearingDown(q) == pc[q] \in {"terminate", "unmount", "remove"}

(***************************************************************************)
(* A recovery never tears down a root that a running launcher still uses:  *)
(* not one that is being built, whose record it missed and whose mounts it *)
(* saw, nor one that has not started its application yet, nor a nested one *)
(* (stale_sandbox_recovery.rs, the comment at 27-29).                      *)
(***************************************************************************)
LiveLauncherSpared ==
    \A q \in Recoverer :
        TearingDown(q) /\ stage[cur[q]] # "gone" => Owner(cur[q]) \notin alive

(***************************************************************************)
(* Nor one with processes that outlive their launcher, nor the parent, the *)
(* source of its mounts, of a nested one with such processes, if they were *)
(* there when the recovery looked for the second time.  (Processes that    *)
(* start after the process table was read, under a launcher that dies      *)
(* before it is looked up, are not spared.)                                *)
(***************************************************************************)
OrphansSpared ==
    \A q \in Recoverer : TearingDown(q) =>
        ({cur[q]} \cup Nested(cur[q])) \cap before[q] \cap procs = {}

(***************************************************************************)
(* A record is removed only with the mounts of its root: what is mounted   *)
(* can always be found again from the records, so no mount is leaked when  *)
(* launcher, recovery or both die half-way.                                *)
(***************************************************************************)
MountsRecorded == mounted \subseteq recorded

(***************************************************************************)
(* What a dead launcher leaves behind is recovered: its record goes once   *)
(* the processes in its sandbox are gone, even if another process has its  *)
(* pid by then.                                                            *)
(***************************************************************************)
StaleRecovered ==
    \A r \in Root :
        (r \in recorded /\ Owner(r) \notin alive /\ procs = {}) ~> (r \notin recorded)
===============================================================================
