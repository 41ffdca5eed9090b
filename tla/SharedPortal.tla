----------------------------- MODULE SharedPortal -----------------------------
(***************************************************************************)
(* The portal that all running instances of one application share: a       *)
(* private bus, the portal bridge and the status notifier bridge, detached *)
(* processes that are known by the pid files of one directory.             *)
(*                                                                         *)
(* A launch writes its run record, takes the lock of the application and   *)
(* uses the portal it finds ready, or stops it and starts another.  When   *)
(* its sandbox is over it stops the portal unless another instance is      *)
(* active.  Every command recovers portals that no active instance uses.   *)
(* Launches may be killed at any point, and the portal's processes crash.  *)
(***************************************************************************)
EXTENDS Naturals

CONSTANTS Launch,     \* the launches of the application
          Recovery,   \* the commands, which recover stale portals one by one
          None,
          MaxFaults   \* bound on kills, crashes and failing calls

Process == Launch \cup {Recovery}

\* Plausible mistake: bus.pid is not among the names (see the section on mistakes).
StopOrderNoBus == <<"bridge", "notifier", "notifier">>

\* The processes of a portal in the order they are started, and the order in
\* which stop_shared_portal goes through their pid files.
StartOrder == <<"bus", "bridge", "notifier">>
StopOrder == <<"bridge", "notifier", "bus">>
Kind == {"bus", "bridge", "notifier"}

ASSUME PortalAssumption ==
    /\ Recovery \notin Launch
    /\ None \notin Process
    /\ MaxFaults \in Nat

VARIABLES at,      \* where a process is: its step, the n-th of a loop, and why
          lock,    \* who holds the lock of the application's scope
          record,  \* the run record of a launch: "none", "active", "inactive"
          tries,   \* how often the cleanup of an instance has failed
          using,   \* the portal an instance was given
          dir,     \* the shared directory exists
          appId,   \* its app-id file: "none", "empty" or "named"
          pid,     \* its pid files: whose portal a process belongs to
          sock,    \* the portal whose bus is bound to the socket
          alive,   \* the portal processes that run
          known,   \* the sandboxes that the bridge at the socket has registered
          faults,
          blame,   \* why an instance lost its portal (history)
          strays   \* processes whose pid file was lost or never made (history)

launches == <<record, tries>>
files == <<dir, appId, pid, sock>>
portal == <<files, alive, known>>
history == <<blame, strays>>
vars == <<at, lock, launches, using, portal, faults, history>>

Over == {"new", "gone", "killed"}
Serving == {"prepared", "running"}

\* A portal is named after the launch that started it.
ProcessesOf(l) == {l} \X Kind

\* What shared_portal_ready and wait_for_portal_proxy ask of the socket.
Ready == sock # None /\ ProcessesOf(sock) \subseteq alive

\* gdbus reaches the bridge of the portal at the socket.
Reachable == sock # None /\ {<<sock, "bus">>, <<sock, "bridge">>} \subseteq alive

\* app_has_active_run: a record that is not marked inactive, of a live launcher.
Active(l) == record[l] = "active" /\ at[l].step \notin Over

At(p, step) == at[p].step = step
Goto(p, step) == at' = [at EXCEPT ![p] = [step |-> step, n |-> 1, why |-> "none"]]
Advance(p, step) == at' = [at EXCEPT ![p].step = step]
Stop(p, reason) == at' = [at EXCEPT ![p] = [step |-> "stop", n |-> 1, why |-> reason]]
Unlock(p) == lock' = IF lock = p THEN None ELSE lock

Fault == faults < MaxFaults /\ faults' = faults + 1

\* The instances of portals that are being taken away.
Blamed(portals, reason) ==
    [l \in Launch |-> IF at[l].step \in Serving /\ using[l] \in portals
                      THEN blame[l] \cup {reason}
                      ELSE blame[l]]

Release(l) == using' = [using EXCEPT ![l] = None] /\ blame' = [blame EXCEPT ![l] = {}]

Init ==
    /\ at = [p \in Process |-> [step |-> IF p = Recovery THEN "idle" ELSE "new",
                                n |-> 1, why |-> "none"]]
    /\ lock = None
    /\ record = [l \in Launch |-> "none"]
    /\ tries = [l \in Launch |-> 0]
    /\ using = [l \in Launch |-> None]
    /\ dir = FALSE /\ appId = "none" /\ pid = [k \in Kind |-> None] /\ sock = None
    /\ alive = {} /\ known = {}
    /\ faults = 0
    /\ blame = [l \in Launch |-> {}] /\ strays = {}

-------------------------------------------------------------------------------
(***************************************************************************)
(* Plausible mistakes in the code, each of which a property below excludes *)
(***************************************************************************)

\* The recovery trusts what it saw before it had the lock.
RecheckSkipped ==
    /\ At(Recovery, "recheck")
    /\ Stop(Recovery, "stale")
    /\ UNCHANGED <<lock, launches, using, portal, faults, history>>

\* A directory without a readable app-id is left for its launch to finish.
StaleNamed(id) == id = "named" /\ \A l \in Launch : ~Active(l)

-------------------------------------------------------------------------------
(***************************************************************************)
(* What an error leads to                                                  *)
(***************************************************************************)

\* prepare returns it, and PendingRunRecord drops its record.
AbandonLaunch(l) ==
    /\ Unlock(l)
    /\ record' = [record EXCEPT ![l] = "none"]
    /\ Goto(l, "gone")
    /\ UNCHANGED tries

\* cleanup returns it, and is called once more when the instance is dropped;
\* the record is left for the recovery.
CleanAgain(l) ==
    /\ Unlock(l)
    /\ tries' = [tries EXCEPT ![l] = @ + 1]
    /\ Goto(l, IF tries[l] = 0 THEN "remove" ELSE "gone")
    /\ UNCHANGED record

\* The command ends with it.
EndCommand == Unlock(Recovery) /\ Goto(Recovery, "idle") /\ UNCHANGED launches

-------------------------------------------------------------------------------
(***************************************************************************)
(* stop_shared_portal, for a launch and for the recovery                   *)
(***************************************************************************)

\* One pid file after the other: the process it names, if that still runs.
Terminate(p) ==
    /\ At(p, "stop") /\ at[p].n <= 3
    /\ LET k == StopOrder[at[p].n]
           victim == alive \cap {<<pid[k], k>>}
       IN  /\ alive' = alive \ victim
           /\ blame' = Blamed({q[1] : q \in victim}, at[p].why)
    /\ at' = [at EXCEPT ![p].n = @ + 1]
    /\ UNCHANGED <<lock, launches, using, files, known, faults, strays>>

\* unmount_under and remove_dir.  A process that was filed meanwhile, by a
\* launch that does not share the lock, loses its pid file.
RemoveShared(p) ==
    /\ At(p, "stop") /\ at[p].n = 4
    /\ dir' = FALSE /\ appId' = "none" /\ sock' = None
    /\ pid' = [k \in Kind |-> None]
    /\ blame' = Blamed({sock}, at[p].why)
    /\ strays' = IF at[p].why = "nameless"
                 THEN strays \cup {q \in alive : pid[q[2]] = q[1]}
                 ELSE strays
    /\ IF at[p].why \in {"unready", "mismatch"}
       THEN /\ at' = [at EXCEPT ![p] = [step |-> "dirs", n |-> 1, why |-> "reset"]]
            /\ UNCHANGED lock
       ELSE /\ Goto(p, IF at[p].why = "last" THEN "cleaned" ELSE "idle")
            /\ Unlock(p)
    /\ UNCHANGED <<launches, using, alive, known, faults>>

\* ps, mount or the unmounting of a document fails.
StopFails(p) ==
    /\ At(p, "stop")
    /\ Fault
    /\ \/ at[p].why \in {"unready", "mismatch"} /\ AbandonLaunch(p)
       \/ at[p].why = "last" /\ CleanAgain(p)
       \/ p = Recovery /\ EndCommand
    /\ UNCHANGED <<using, portal, history>>

-------------------------------------------------------------------------------
(***************************************************************************)
(* HostPortal::prepare                                                     *)
(***************************************************************************)

\* PendingRunRecord::new, before the lock is asked for.
WriteRecord(l) ==
    /\ At(l, "new")
    /\ record' = [record EXCEPT ![l] = "active"]
    /\ Goto(l, "lock")
    /\ UNCHANGED <<lock, tries, using, portal, faults, history>>

LockScope(l) ==
    /\ At(l, "lock")
    /\ lock = None
    /\ lock' = l
    /\ Goto(l, "dirs")
    /\ UNCHANGED <<launches, using, portal, faults, history>>

CreateDirs(l) ==
    /\ At(l, "dirs")
    /\ dir' = TRUE
    /\ Advance(l, "truncate")
    /\ UNCHANGED <<lock, launches, using, appId, pid, sock, alive, known, faults,
                   history>>

\* fs::write of app-id opens the file and truncates it, and then writes.
TruncateId(l) ==
    /\ At(l, "truncate")
    /\ IF dir
       THEN appId' = "empty" /\ Advance(l, "name") /\ UNCHANGED <<lock, launches>>
       ELSE AbandonLaunch(l) /\ UNCHANGED appId
    /\ UNCHANGED <<using, dir, pid, sock, alive, known, faults, history>>

WriteId(l) ==
    /\ At(l, "name")
    /\ appId' = IF appId = "empty" THEN "named" ELSE appId
    /\ Goto(l, IF at[l].why = "reset" THEN "spawn" ELSE "check")
    /\ UNCHANGED <<lock, launches, using, dir, pid, sock, alive, known, faults,
                   history>>

\* The portal is used as it is found, or stopped: it does not answer, or it
\* serves host commands and the launch must not have them, or the reverse.
CheckReady(l) ==
    /\ At(l, "check")
    /\ \/ /\ Ready
          /\ using' = [using EXCEPT ![l] = sock]
          /\ lock' = None
          /\ Goto(l, "prepared")
       \/ /\ Stop(l, IF Ready THEN "mismatch" ELSE "unready")
          /\ UNCHANGED <<using, lock>>
    /\ UNCHANGED <<launches, portal, faults, history>>

\* The next process of the portal.  The bus needs its configuration file, and
\* binds the socket; the bridge makes its directories again.
SpawnNext(l) ==
    /\ At(l, "spawn")
    /\ LET k == StartOrder[at[l].n]
       IN  IF k = "bus" /\ ~dir
           THEN AbandonLaunch(l) /\ UNCHANGED <<alive, known, dir, sock>>
           ELSE /\ alive' = alive \cup {<<l, k>>}
                /\ dir' = (dir \/ k = "bridge")
                /\ known' = IF k = "bridge" THEN {} ELSE known
                /\ sock' = IF k = "bus" THEN l ELSE sock
                /\ Advance(l, "file")
                /\ UNCHANGED <<lock, launches>>
    /\ UNCHANGED <<using, appId, pid, faults, history>>

\* A process cannot be started: only the failing notifier ends the other two.
SpawnFails(l) ==
    /\ At(l, "spawn")
    /\ Fault
    /\ alive' = IF StartOrder[at[l].n] = "notifier" THEN alive \ ProcessesOf(l) ELSE alive
    /\ AbandonLaunch(l)
    /\ UNCHANGED <<using, files, known, history>>

\* The pid file is written after the process has been started.
WritePid(l) ==
    /\ At(l, "file")
    /\ IF dir
       THEN /\ pid' = [pid EXCEPT ![StartOrder[at[l].n]] = l]
            /\ IF at[l].n = 3
               THEN Goto(l, "wait")
               ELSE at' = [at EXCEPT ![l].step = "spawn", ![l].n = @ + 1]
            /\ UNCHANGED <<lock, launches, strays>>
       ELSE /\ AbandonLaunch(l)
            /\ strays' = strays \cup (alive \cap ProcessesOf(l))
            /\ UNCHANGED pid
    /\ UNCHANGED <<using, dir, appId, sock, alive, known, faults, blame>>

\* wait_for_portal_proxy: when it fails the three processes are ended.
WaitForPortal(l) ==
    /\ At(l, "wait")
    /\ \/ /\ Ready /\ sock = l
          /\ using' = [using EXCEPT ![l] = l]
          /\ lock' = None
          /\ Goto(l, "prepared")
          /\ UNCHANGED <<launches, alive, faults>>
       \/ /\ IF Ready /\ sock = l THEN Fault ELSE UNCHANGED faults
          /\ alive' = alive \ ProcessesOf(l)
          /\ AbandonLaunch(l)
          /\ UNCHANGED using
    /\ UNCHANGED <<files, known, history>>

-------------------------------------------------------------------------------
(***************************************************************************)
(* The instance and HostPortal::cleanup                                    *)
(***************************************************************************)

\* The launch fails before the instance exists: the portal is not told.
PrepareFails(l) ==
    /\ At(l, "prepared")
    /\ Fault
    /\ AbandonLaunch(l)
    /\ Release(l)
    /\ UNCHANGED <<portal, strays>>

\* AddSandbox, after which the application runs; an error cleans up.
AttachSandbox(l) ==
    /\ At(l, "prepared")
    /\ IF Reachable
       THEN /\ known' = known \cup {l}
            /\ Goto(l, "running")
            /\ UNCHANGED <<using, blame>>
       ELSE Goto(l, "remove") /\ Release(l) /\ UNCHANGED known
    /\ UNCHANGED <<lock, launches, files, alive, faults, strays>>

ApplicationEnds(l) ==
    /\ At(l, "running")
    /\ Goto(l, "remove")
    /\ Release(l)
    /\ UNCHANGED <<lock, launches, portal, faults, strays>>

\* RemoveSandbox: the portal that is asked may not be the one l was given, and
\* then it has nothing to detach.
RemoveSandbox(l) ==
    /\ At(l, "remove")
    /\ IF Reachable
       THEN /\ known' = known \ {l}
            /\ Goto(l, "relock")
            /\ UNCHANGED <<lock, launches>>
       ELSE CleanAgain(l) /\ UNCHANGED known
    /\ UNCHANGED <<using, files, alive, faults, history>>

RelockScope(l) ==
    /\ At(l, "relock")
    /\ lock = None
    /\ lock' = l
    /\ Goto(l, "inactive")
    /\ UNCHANGED <<launches, using, portal, faults, history>>

MarkInactive(l) ==
    /\ At(l, "inactive")
    /\ record' = [record EXCEPT ![l] = "inactive"]
    /\ Goto(l, "others")
    /\ UNCHANGED <<lock, tries, using, portal, faults, history>>

\* other_active_app_instances, under the lock.
AskOthers(l) ==
    /\ At(l, "others")
    /\ IF \E m \in Launch \ {l} : Active(m)
       THEN lock' = None /\ Goto(l, "cleaned")
       ELSE UNCHANGED lock /\ Stop(l, "last")
    /\ UNCHANGED <<launches, using, portal, faults, history>>

\* The rest of the instance's cleanup, which removes the record at its end.
Finish(l) ==
    /\ At(l, "cleaned")
    /\ record' = [record EXCEPT ![l] = "none"]
    /\ Goto(l, "gone")
    /\ UNCHANGED <<lock, tries, using, portal, faults, history>>

-------------------------------------------------------------------------------
(***************************************************************************)
(* recover_stale_portal_mounts, the shared portals                         *)
(***************************************************************************)

\* app_id.is_empty() || !app_has_active_run(...)
Stale(id) == id = "empty" \/ \A l \in Launch : ~Active(l)

\* A missing file reads as the empty id.
ReadId ==
    /\ At(Recovery, "idle")
    /\ dir
    /\ at' = [at EXCEPT ![Recovery] = [step |-> "look", n |-> 1,
                                       why |-> IF appId = "named" THEN "named" ELSE "empty"]]
    /\ UNCHANGED <<lock, launches, using, portal, faults, history>>

LookActive ==
    /\ At(Recovery, "look")
    /\ IF Stale(at[Recovery].why) THEN Advance(Recovery, "lock") ELSE Goto(Recovery, "idle")
    /\ UNCHANGED <<lock, launches, using, portal, faults, history>>

\* The lock is that of the id that was read: the empty one has a lock of its own.
LockRead ==
    /\ At(Recovery, "lock")
    /\ IF at[Recovery].why = "named"
       THEN lock = None /\ lock' = Recovery
       ELSE UNCHANGED lock
    /\ Advance(Recovery, "recheck")
    /\ UNCHANGED <<launches, using, portal, faults, history>>

\* The runs are looked at again, the id is not.
Recheck ==
    /\ At(Recovery, "recheck")
    /\ IF Stale(at[Recovery].why)
       THEN /\ Stop(Recovery, IF at[Recovery].why = "named" THEN "stale" ELSE "nameless")
            /\ UNCHANGED lock
       ELSE Goto(Recovery, "idle") /\ Unlock(Recovery)
    /\ UNCHANGED <<launches, using, portal, faults, history>>

-------------------------------------------------------------------------------
(***************************************************************************)
(* Kills and crashes                                                       *)
(***************************************************************************)

\* The launch is killed: the lock is released, the record stays, and the
\* process it has just started has no pid file.
KillLaunch(l) ==
    /\ at[l].step \notin Over
    /\ Fault
    /\ Unlock(l)
    /\ Goto(l, "killed")
    /\ Release(l)
    /\ strays' = IF At(l, "file")
                 THEN strays \cup (alive \cap {<<l, StartOrder[at[l].n]>>})
                 ELSE strays
    /\ UNCHANGED <<launches, portal>>

\* The recovering command is killed, or fails, between two of its steps.
KillRecovery ==
    /\ ~At(Recovery, "idle")
    /\ Fault
    /\ EndCommand
    /\ UNCHANGED <<using, portal, history>>

PortalCrashes ==
    /\ Fault
    /\ \E p \in alive : /\ alive' = alive \ {p}
                        /\ blame' = Blamed({p[1]}, "crash")
    /\ UNCHANGED <<at, lock, launches, using, files, known, strays>>

-------------------------------------------------------------------------------
LaunchStep(l) ==
    \/ Terminate(l) \/ RemoveShared(l) \/ StopFails(l)
    \/ WriteRecord(l) \/ LockScope(l) \/ CreateDirs(l) \/ TruncateId(l) \/ WriteId(l)
    \/ CheckReady(l) \/ SpawnNext(l) \/ SpawnFails(l) \/ WritePid(l) \/ WaitForPortal(l)
    \/ PrepareFails(l) \/ AttachSandbox(l) \/ ApplicationEnds(l) \/ RemoveSandbox(l)
    \/ RelockScope(l) \/ MarkInactive(l) \/ AskOthers(l) \/ Finish(l)

RecoveryStep ==
    \/ ReadId \/ LookActive \/ LockRead \/ Recheck
    \/ Terminate(Recovery) \/ RemoveShared(Recovery) \/ StopFails(Recovery)

Next ==
    \/ \E l \in Launch : LaunchStep(l) \/ KillLaunch(l)
    \/ RecoveryStep \/ KillRecovery
    \/ PortalCrashes

Spec == Init /\ [][Next]_vars

\* Commands are run again and again, and each recovers before it does anything.
FairSpec == Spec /\ WF_vars(RecoveryStep)

-------------------------------------------------------------------------------
(***************************************************************************)
(* Properties                                                              *)
(***************************************************************************)

\* The types of the variables.
TypeOK ==
    /\ at \in [Process ->
                [step : {"new", "lock", "dirs", "truncate", "name", "check", "spawn",
                         "file", "wait", "prepared", "running", "remove", "relock",
                         "inactive", "others", "stop", "cleaned", "gone", "killed",
                         "idle", "look", "recheck"},
                 n : 1..4,
                 why : {"none", "reset", "unready", "mismatch", "last", "named",
                        "empty", "stale", "nameless"}]]
    /\ lock \in Process \cup {None}
    /\ record \in [Launch -> {"none", "active", "inactive"}]
    /\ tries \in [Launch -> 0..2]
    /\ dir \in BOOLEAN /\ (~dir => appId = "none")
    /\ appId \in {"none", "empty", "named"}
    /\ pid \in [Kind -> Launch \cup {None}]
    /\ sock \in Launch \cup {None}
    /\ alive \subseteq Launch \X Kind /\ strays \subseteq Launch \X Kind
    /\ known \subseteq Launch
    /\ using \in [Launch -> Launch \cup {None}]
    /\ faults \in 0..MaxFaults

\* An instance keeps the portal it was given, with its documents registered,
\* for as long as it runs (sandbox_portal.rs, portal_scope.rs and
\* stale_portal_recovery.rs together).  Neither the cleanup of another instance
\* nor the recovery of a portal whose app-id it could read ever takes it away;
\* what does is a crash, a later launch that finds the portal not ready for
\* what it needs, and a recovery that caught app-id while it was being written.
PortalServes ==
    \A l \in Launch :
        at[l].step \in Serving =>
            /\ blame[l] \subseteq {"crash", "unready", "mismatch", "nameless"}
            /\ blame[l] = {} => /\ ProcessesOf(using[l]) \subseteq alive
                                /\ At(l, "running") => l \in known

\* Two portals of one application never run at the same time: a launch starts
\* one only when the processes of the last, as far as they have a pid file, are
\* gone (sandbox_portal.rs 98-125 with stop_shared_portal).
OnePortal ==
    \A p, q \in alive \ strays : p[2] = "bus" /\ q[2] = "bus" => p = q

\* Once no launch is left the portal is stopped by the commands that follow,
\* whatever the launches left behind: failed starts, killed cleanups, a torn
\* app-id.  Only a process without a pid file stays.
StaleStopped ==
    (\A l \in Launch : at[l].step \in Over)
        ~> (alive \subseteq strays \/ \E l \in Launch : at[l].step \notin Over)

===============================================================================
