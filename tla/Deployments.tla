------------------------------ MODULE Deployments ------------------------------
(***************************************************************************)
(* The installation: application, runtime and run records, the generations *)
(* of checkouts they name, the commands that replace and remove them, and  *)
(* cleanup_retired_deployments, which removes what no record names.        *)
(*                                                                         *)
(* Only Storage takes a lock (CheckoutActivation); records are read and    *)
(* written, and generations removed, without one.  A step of a command is  *)
(* one kind of record, or one directory, that it reads or writes.          *)
(***************************************************************************)
EXTENDS Naturals, FiniteSets

CONSTANTS Process, Dest, Commit, Absent, Broken, Free, MaxAborts,
          App,          \* application ids
          Runtime,      \* runtime refs
          AppOf,        \* the application of an application generation
          RefOf,        \* the runtime ref of a runtime generation
          CommitOf,     \* the commit each generation directory is named after
          Ordinary,     \* generations named by their commit alone, no repairs
          Offers,       \* what the remote may offer: [app, commit, ref, rcommit]
          Renames,      \* pairs of an application id and the one replacing it
          NoRecord,     \* no record file
          Commands,     \* the commands of this instance
          Overlap,      \* whether commands may run at the same time
          MaxCommands   \* bound on the commands of a behaviour

AppDir == DOMAIN AppOf

RuntimeDir == DOMAIN RefOf

Pair == [adir : AppDir, rdir : RuntimeDir]

RunRecord == [by : Process, app : App, adir : AppDir, rdir : RuntimeDir]

Command == {"install", "install_runtime", "update", "update_runtime",
            "uninstall", "uninstall_runtime", "uninstall_unused", "run", "list"}

Offer == [app : App, commit : Commit, ref : Runtime, rcommit : Commit]

\* The directories beside each other in a family of generations: all of them
\* carry an `.ostree-commit` marker once their checkout is complete.
Path == [kind : {"dest", "staging", "backup"}, dir : Dest]

ASSUME GenerationAssumption ==
    /\ Dest = AppDir \cup RuntimeDir
    /\ AppDir \cap RuntimeDir = {}
    /\ AppOf \in [AppDir -> App]
    /\ RefOf \in [RuntimeDir -> Runtime]
    /\ CommitOf \in [Dest -> Commit]
    /\ Ordinary \subseteq Dest
    /\ Offers \subseteq Offer
    /\ Renames \subseteq App \X App

\* The constants of CheckoutActivation.
ASSUME StorageAssumption ==
    /\ Absent \notin Commit /\ Broken \notin Commit /\ Absent # Broken
    /\ Free \notin Process
    /\ MaxAborts \in Nat

ASSUME RecordAssumption == NoRecord \notin Pair \cup Dest

ASSUME InstanceAssumption ==
    Commands \subseteq Command /\ Overlap \in BOOLEAN /\ MaxCommands \in Nat

VARIABLES lock, journal, dest, staging, backup, pc, mode, plan, work, todo,
          cur, aborts,     \* CheckoutActivation
          gutted,          \* destinations that lost files but not the marker
          appRec,          \* refs/apps: application id -> pair of directories
          rtRec,           \* refs/runtimes: runtime ref -> directory
          runs,            \* the run records, and the pins of installs
          job,             \* the command of each process, and its local state
          commands         \* commands started so far

trees == <<dest, staging, backup, gutted>>
storage == <<lock, journal, pc, mode, plan, work, todo, cur, aborts, trees>>
records == <<appRec, rtRec, runs>>
vars == <<storage, records, job, commands>>

\* A process between commands.  at: where it is in its command; tgt: what the
\* command works on; copy: the application records it read; keep: directories
\* its cleanup protects; doomed: paths its cleanup removes; elders: the
\* sandboxes that ran when the command began or its own application exited.
Idle == [cmd |-> "none", at |-> "none", tgt |-> NoRecord, copy |-> NoRecord,
         keep |-> {}, doomed |-> {}, elders |-> {}]

Act(d) == [dest |-> d, commit |-> CommitOf[d]]

\* The deployment lists: a runtime generation, alone or with an application's.
Plans == {{Act(a), Act(r)} : a \in AppDir, r \in RuntimeDir}
           \cup {{Act(r)} : r \in RuntimeDir}

S == INSTANCE CheckoutActivation

At(p, label) == job[p].at = label

Go(p, label) == job' = [job EXCEPT ![p].at = label]

\* The commands that deploy with update_runtime.
RuntimeOnly(p) == job[p].cmd \in {"install_runtime", "update_runtime"}

\* The command of p is over, or has failed.
End(p) == job' = [job EXCEPT ![p] = Idle]

Installed == {a \in App : appRec[a] # NoRecord}

\* A generation with every file its commit has.
Intact(d) == dest[d] = CommitOf[d] /\ d \notin gutted

\* The sandboxes whose nullfs mounts are up.  One that outlives its launcher
\* stays here: its processes keep its record as the launcher did.
Mounted == {r \in runs : At(r.by, "running")}

\* Without overlap a command waits until the others are over or have a
\* sandbox running.
Turn(p) == Overlap \/ \A q \in Process \ {p} : job[q].at \in {"none", "running"}

\* An application is installed, or an uninstall was killed when it had removed
\* the record only; processes in `launched` run it, from before or since the
\* prompt of that uninstall.
Init ==
    /\ \E o \in Offers, launched \in SUBSET Process, installed \in BOOLEAN :
       \E a \in AppDir \cap Ordinary, r \in RuntimeDir \cap Ordinary :
          /\ AppOf[a] = o.app /\ CommitOf[a] = o.commit
          /\ RefOf[r] = o.ref /\ CommitOf[r] = o.rcommit
          /\ appRec = [x \in App |-> IF x = o.app /\ installed
                                    THEN [adir |-> a, rdir |-> r] ELSE NoRecord]
          /\ rtRec = [x \in Runtime |-> IF x = o.ref THEN r ELSE NoRecord]
          /\ dest = [d \in Dest |-> IF d \in {a, r} THEN CommitOf[d] ELSE Absent]
          /\ runs = [by : launched, app : {o.app}, adir : {a}, rdir : {r}]
          /\ job = [p \in Process |->
                      IF p \notin launched THEN Idle
                      ELSE [Idle EXCEPT !.cmd = "run", !.at = "running",
                              !.tgt = [app |-> o.app, adir |-> a, rdir |-> r]]]
    /\ S!Init
    /\ gutted = {}
    /\ commands = 0

-------------------------------------------------------------------------------
(***************************************************************************)
(* Plausible mistakes in the code, each of which a property below excludes *)
(***************************************************************************)

\* cleanup_retired_deployments protects the application of a run, not the
\* runtime it was launched with.
KeepRunsAppOnly(p) ==
    /\ At(p, "keep_runs")
    /\ job' = [job EXCEPT ![p].keep = @ \cup {r.adir : r \in runs},
                          ![p].at = "list_runtimes"]
    /\ UNCHANGED <<storage, records, commands>>

\* uninstall keeps the record of the checkout it removes.
UnrecordLate(p) ==
    /\ At(p, "unrecord")
    /\ Go(p, "scrub")
    /\ UNCHANGED <<storage, records, commands>>

\* The application generations are not swept.
ListAppsNothing(p) ==
    /\ At(p, "sweep_runtimes")
    /\ job[p].doomed = {}
    /\ Go(p, "sweep_apps")
    /\ UNCHANGED <<storage, records, commands>>

\* record_install writes the commit where the directory belongs.
RecordRuntimeCommit(p) ==
    /\ At(p, "record_runtime")
    /\ rtRec' = [rtRec EXCEPT ![RefOf[job[p].tgt.rdir]] = CommitOf[job[p].tgt.rdir]]
    /\ Go(p, "record_app")
    /\ UNCHANGED <<storage, appRec, runs, commands>>

-------------------------------------------------------------------------------
(***************************************************************************)
(* Storage, as a command uses it: at startup and after an uninstall only   *)
(* to open it, which recovers a journal, and in an update to deploy.       *)
(***************************************************************************)
UsesStorage(p) == job[p].at \in {"startup", "deploy", "refs", "last_refs"}

\* A directory that a storage step replaces or removes is no longer gutted.
Regenerate == gutted' = {d \in gutted : dest'[d] = dest[d]}

OpenStorage(p) ==
    /\ UsesStorage(p)
    /\ S!Open(p)
    /\ UNCHANGED <<gutted, records, job, commands>>

\* checkout_remote_app calls deploy for the application and the runtime,
\* update_runtime for the runtime alone.
Deploy(p) ==
    LET t == job[p].tgt IN
    /\ At(p, "deploy")
    /\ S!BeginPlan(p, {Act(d) : d \in t.dirs}, {Act(d) : d \in t.force})
    /\ UNCHANGED <<gutted, records, job, commands>>

\* A step of deploy or of a recovery; when it fails, so does the command.
StorageWork(p) ==
    /\ UsesStorage(p)
    /\ S!Work(p)
    /\ Regenerate
    /\ IF pc'[p] = "idle" THEN End(p) ELSE UNCHANGED job
    /\ UNCHANGED <<records, commands>>

CloseStorage(p) ==
    /\ \/ At(p, "startup") /\ pc[p] = "ready" /\ Go(p, "list_bindings")
       \/ At(p, "refs") /\ pc[p] = "ready" /\ Go(p, "keep_apps")
       \/ At(p, "last_refs") /\ pc[p] = "ready" /\ End(p)
       \/ /\ At(p, "deploy") /\ pc[p] = "deployed"
          /\ Go(p, IF RuntimeOnly(p) THEN "record_runtime" ELSE "pin")
    /\ S!Close(p)
    /\ UNCHANGED <<gutted, records, commands>>

\* The process is killed, or an operation fails, anywhere.  Records stay: a
\* failing command that would remove its own is Unpin, Mount or Publish.
Crash(p) ==
    /\ ~At(p, "none")
    /\ IF pc[p] = "idle"
       THEN /\ aborts < MaxAborts
            /\ aborts' = aborts + 1
            /\ UNCHANGED <<lock, journal, dest, staging, backup, pc, mode,
                           plan, work, todo, cur>>
       ELSE S!Abort(p)
    /\ End(p)
    /\ UNCHANGED <<gutted, records, commands>>

-------------------------------------------------------------------------------
(***************************************************************************)
(* Startup: initialize_inner.  Records of dead launchers are removed, the  *)
(* storage is recovered, bindings are reconciled, generations cleaned up.  *)
(***************************************************************************)
Start(p) ==
    /\ At(p, "none")
    /\ Turn(p)
    /\ commands < MaxCommands
    /\ commands' = commands + 1
    /\ \E c \in Commands :
          job' = [job EXCEPT ![p] = [Idle EXCEPT !.cmd = c, !.at = "startup",
                                                 !.elders = Mounted]]
    /\ runs' = {r \in runs : ~At(r.by, "none")}
    /\ UNCHANGED <<storage, appRec, rtRec>>

\* reconcile_runtime_bindings reads the application records...
ListBindings(p) ==
    /\ At(p, "list_bindings")
    /\ job' = [job EXCEPT ![p].copy = appRec, ![p].at = "bind"]
    /\ UNCHANGED <<storage, records, commands>>

\* ... and rewrites each one whose runtime is not the current one.
Bind(p) ==
    /\ At(p, "bind")
    /\ \E a \in {a \in App : job[p].copy[a] # NoRecord} :
          LET old == job[p].copy[a]
              current == rtRec[RefOf[old.rdir]]
          IN
          /\ appRec' = IF current \in {NoRecord, old.rdir} THEN appRec
                       ELSE [appRec EXCEPT ![a] = [old EXCEPT !.rdir = current]]
          /\ job' = [job EXCEPT ![p].copy[a] = NoRecord]
    /\ UNCHANGED <<storage, rtRec, runs, commands>>

\* The loop is over, in a startup, in update_runtime or in record_install.
Bound(p) ==
    /\ At(p, "bind")
    /\ \A a \in App : job[p].copy[a] = NoRecord
    /\ job' = [job EXCEPT ![p].copy = NoRecord,
                          ![p].at = IF job[p].tgt = NoRecord \/ RuntimeOnly(p)
                                    THEN "keep_apps" ELSE "replaced"]
    /\ UNCHANGED <<storage, records, commands>>

-------------------------------------------------------------------------------
(***************************************************************************)
(* cleanup_retired_deployments                                             *)
(***************************************************************************)
KeepApps(p) ==
    /\ At(p, "keep_apps")
    /\ job' = [job EXCEPT ![p].keep = UNION {{appRec[a].adir, appRec[a].rdir} :
                                               a \in Installed},
                          ![p].at = "keep_runtimes"]
    /\ UNCHANGED <<storage, records, commands>>

KeepRuntimes(p) ==
    /\ At(p, "keep_runtimes")
    /\ job' = [job EXCEPT ![p].keep = @ \cup ({rtRec[r] : r \in Runtime}
                                                 \ {NoRecord}),
                          ![p].at = "keep_runs"]
    /\ UNCHANGED <<storage, records, commands>>

KeepRuns(p) ==
    /\ At(p, "keep_runs")
    /\ job' = [job EXCEPT ![p].keep = @ \cup UNION {{r.adir, r.rdir} : r \in runs},
                          ![p].at = "list_runtimes"]
    /\ UNCHANGED <<storage, records, commands>>

Content(path) ==
    CASE path.kind = "dest" -> dest[path.dir]
      [] path.kind = "staging" -> staging[path.dir][CommitOf[path.dir]]
      [] path.kind = "backup" -> backup[path.dir]

\* The directories with a marker that no record protects.  The name of a
\* staging or backup directory is in no record.
Retired(p, dirs) ==
    {path \in Path : /\ path.dir \in dirs
                     /\ Content(path) \in Commit
                     /\ path.kind = "dest" => path.dir \notin job[p].keep}

ListRuntimes(p) ==
    /\ At(p, "list_runtimes")
    /\ job' = [job EXCEPT ![p].doomed = Retired(p, RuntimeDir),
                          ![p].at = "sweep_runtimes"]
    /\ UNCHANGED <<storage, records, commands>>

ListApps(p) ==
    /\ At(p, "sweep_runtimes")
    /\ job[p].doomed = {}
    /\ job' = [job EXCEPT ![p].doomed = Retired(p, AppDir),
                          ![p].at = "sweep_apps"]
    /\ UNCHANGED <<storage, records, commands>>

\* remove_dir_all has begun when part of the files is gone, with or without
\* the marker, and is over with the directory.
Whole(path) == Content(path) \in Commit
               /\ ~(path.kind = "dest" /\ path.dir \in gutted)

\* A step of safe_remove_dir on a path.
Remove(path) ==
    LET d == path.dir IN
    /\ IF path.kind = "dest"
       THEN \/ /\ dest' = [dest EXCEPT ![d] = IF Whole(path) THEN Broken ELSE Absent]
               /\ gutted' = gutted \ {d}
            \/ /\ Whole(path)
               /\ gutted' = gutted \cup {d}
               /\ UNCHANGED dest
       ELSE UNCHANGED <<dest, gutted>>
    /\ staging' = IF path.kind = "staging"
                  THEN [staging EXCEPT ![d][CommitOf[d]] = S!Erode(@)]
                  ELSE staging
    /\ backup' = IF path.kind = "backup" THEN [backup EXCEPT ![d] = S!Erode(@)]
                                         ELSE backup
    /\ UNCHANGED <<lock, journal, pc, mode, plan, work, todo, cur, aborts>>

Sweep(p) ==
    /\ job[p].at \in {"sweep_runtimes", "sweep_apps"}
    /\ \E path \in job[p].doomed :
          /\ Remove(path)
          /\ job' = [job EXCEPT ![p].doomed = IF Whole(path) THEN @ ELSE @ \ {path}]
    /\ UNCHANGED <<records, commands>>

\* The cleanup is the end of the startup, or of the command.
Swept(p) ==
    /\ At(p, "sweep_apps")
    /\ job[p].doomed = {}
    /\ Go(p, IF job[p].tgt = NoRecord THEN job[p].cmd ELSE "done")
    /\ UNCHANGED <<storage, records, commands>>

\* uninstall --unused removes the refs last, and an update of runtimes may go
\* on with the applications it listed at its beginning; the others are over.
Done(p) ==
    /\ At(p, "done")
    /\ \/ job[p].cmd = "uninstall_unused" /\ Go(p, "last_refs")
       \/ job[p].cmd # "uninstall_unused" /\ End(p)
       \/ /\ job[p].cmd = "update_runtime"
          /\ job' = [job EXCEPT ![p].cmd = "update", ![p].at = "update",
                                ![p].tgt = NoRecord, ![p].copy = job[p].tgt.listed]
    /\ UNCHANGED <<storage, records, commands>>

\* There is nothing to do, the remote or the user says no, or a check of the
\* command fails.  Commands that only read end here as well.
Decline(p) ==
    /\ At(p, job[p].cmd)
    /\ ~At(p, "none")
    /\ End(p)
    /\ UNCHANGED <<storage, records, commands>>

-------------------------------------------------------------------------------
(***************************************************************************)
(* install and update: cmd_install, update_resolved, checkout_remote_app   *)
(***************************************************************************)

\* What checkout_present may say of a directory.
Presence(d) == CASE d = NoRecord -> {FALSE}
                 [] dest[d] = Absent -> {FALSE}
                 [] dest[d] = Broken -> BOOLEAN
                 [] OTHER -> {TRUE}

\* The directory that generation_checkout_dir may choose of one family: the
\* ordinary one, or when it exists already, and is forced, a new one.
GenerationDir(family, force) ==
    LET ordinary == family \cap Ordinary IN
    IF force /\ \E d \in ordinary : dest[d] # Absent
    THEN {d \in family \ Ordinary : dest[d] = Absent}
    ELSE ordinary

\* The runtime directory that an offer is compared with.
CurrentRuntime(o, old) ==
    IF rtRec[o.ref] # NoRecord THEN rtRec[o.ref]
    ELSE IF old # NoRecord /\ RefOf[old.rdir] = o.ref THEN old.rdir
    ELSE NoRecord

\* An offer o is accepted that replaces the record `old` of application a, or
\* is new; forceApp and forceRt are update_status's or install's answers.
Select(p, o, a, old, forceApp, forceRt) ==
    LET apps == {d \in AppDir : AppOf[d] = o.app /\ CommitOf[d] = o.commit}
        rts == {d \in RuntimeDir : RefOf[d] = o.ref /\ CommitOf[d] = o.rcommit}
        current == rtRec[o.ref]
    IN
    \E adir \in GenerationDir(apps, forceApp) :
    \E rdir \in IF ~forceRt /\ current \in rts THEN {current}
                ELSE GenerationDir(rts, forceRt) :
        job' = [job EXCEPT
                  ![p].tgt = [app |-> o.app, adir |-> adir, rdir |-> rdir,
                              dirs |-> {adir, rdir},
                              force |-> (IF forceApp THEN {adir} ELSE {})
                                           \cup (IF forceRt THEN {rdir} ELSE {}),
                              old |-> [app |-> a, record |-> old]],
                  ![p].at = "deploy"]

\* The application records that update goes by: those that it listed before it
\* updated runtimes, when it began with that.
Listed(p) == IF job[p].copy = NoRecord THEN appRec ELSE job[p].copy

Update(p) ==
    /\ At(p, "update")
    /\ \E a \in {a \in App : Listed(p)[a] # NoRecord}, o \in Offers :
          LET old == Listed(p)[a]
              current == CurrentRuntime(o, old)
          IN
          /\ o.app = a \/ <<a, o.app>> \in Renames
          /\ \E appThere \in Presence(old.adir), rtThere \in Presence(current) :
                LET forceApp == appThere /\ o.app = a => CommitOf[old.adir] # o.commit
                    forceRt == rtThere => CommitOf[current] # o.rcommit
                    upToDate == /\ ~forceApp /\ ~forceRt
                                /\ RefOf[old.rdir] = o.ref
                                /\ CommitOf[old.rdir] = o.rcommit
                IN
                /\ ~upToDate
                /\ Select(p, o, a, old, forceApp, forceRt)
    /\ UNCHANGED <<storage, records, commands>>

Install(p) ==
    /\ At(p, "install")
    /\ \E o \in Offers :
          /\ o.app \notin Installed
          /\ \E rtThere \in Presence(rtRec[o.ref]) :
                Select(p, o, o.app, NoRecord, TRUE,
                       rtThere => CommitOf[rtRec[o.ref]] # o.rcommit)
    /\ UNCHANGED <<storage, records, commands>>

\* The checkout_present and commit comparisons of update_runtime_targets and
\* of install_runtime --or-update.
Outdated(o) ==
    \E there \in Presence(rtRec[o.ref]) : there => CommitOf[rtRec[o.ref]] # o.rcommit

\* update_runtime is called with force: the generation is a new one.
SelectRuntime(p, o) ==
    \E d \in GenerationDir({d \in RuntimeDir : RefOf[d] = o.ref
                                             /\ CommitOf[d] = o.rcommit}, TRUE) :
        job' = [job EXCEPT
                  ![p].tgt = [rdir |-> d, dirs |-> {d}, force |-> {d}, listed |-> appRec],
                  ![p].at = "deploy"]

\* Of the runtimes that are out of date the model follows one.
UpdateRuntime(p) ==
    /\ At(p, "update_runtime")
    /\ \E o \in Offers : /\ rtRec[o.ref] # NoRecord
                        /\ Outdated(o)
                        /\ SelectRuntime(p, o)
    /\ UNCHANGED <<storage, records, commands>>

InstallRuntime(p) ==
    /\ At(p, "install_runtime")
    /\ \E o \in Offers : Outdated(o) /\ SelectRuntime(p, o)
    /\ UNCHANGED <<storage, records, commands>>

\* write_checkout_pin, for apply_extra_data.
Pin(p) ==
    LET t == job[p].tgt IN
    /\ At(p, "pin")
    /\ runs' = runs \cup {[by |-> p, app |-> t.app, adir |-> t.adir, rdir |-> t.rdir]}
    /\ Go(p, "unpin")
    /\ UNCHANGED <<storage, appRec, rtRec, commands>>

\* apply_extra_data is over; when it failed, so does the command.
Unpin(p) ==
    /\ At(p, "unpin")
    /\ runs' = {r \in runs : r.by # p}
    /\ Go(p, "record_runtime") \/ End(p)
    /\ UNCHANGED <<storage, appRec, rtRec, commands>>

\* record_install writes the runtime record, then the application record;
\* update_runtime writes the runtime record alone.
RecordRuntime(p) ==
    /\ At(p, "record_runtime")
    /\ rtRec' = [rtRec EXCEPT ![RefOf[job[p].tgt.rdir]] = job[p].tgt.rdir]
    /\ Go(p, IF RuntimeOnly(p) THEN "list_bindings" ELSE "record_app")
    /\ UNCHANGED <<storage, appRec, runs, commands>>

RecordApp(p) ==
    LET t == job[p].tgt IN
    /\ At(p, "record_app")
    /\ appRec' = [appRec EXCEPT ![t.app] = [adir |-> t.adir, rdir |-> t.rdir]]
    /\ Go(p, "list_bindings")
    /\ UNCHANGED <<storage, rtRec, runs, commands>>

\* install is over, unless the extensions or the exports fail: then it takes
\* the record back.
Publish(p) ==
    /\ At(p, "replaced")
    /\ job[p].cmd = "install"
    /\ \/ UNCHANGED appRec
       \/ appRec' = [appRec EXCEPT ![job[p].tgt.app] = NoRecord]
    /\ End(p)
    /\ UNCHANGED <<storage, rtRec, runs, commands>>

\* update removes the record and the checkout of a renamed application.
Replace(p) ==
    LET t == job[p].tgt IN
    /\ At(p, "replaced")
    /\ job[p].cmd = "update"
    /\ IF t.old.app = t.app
       THEN UNCHANGED appRec /\ Go(p, "drop_old")
       ELSE appRec' = [appRec EXCEPT ![t.old.app] = NoRecord] /\ Go(p, "scrub")
    /\ UNCHANGED <<storage, rtRec, runs, commands>>

\* The runtime of the previous version goes when no application needs it and
\* it was not installed for itself (the second disjunct).
DropOldRuntime(p) ==
    LET ref == RefOf[job[p].tgt.old.record.rdir] IN
    /\ At(p, "drop_old")
    /\ \/ /\ ref # RefOf[job[p].tgt.rdir]
          /\ \A a \in Installed : RefOf[appRec[a].rdir] # ref
          /\ rtRec[ref] # NoRecord
          /\ rtRec' = [rtRec EXCEPT ![ref] = NoRecord]
          /\ Go(p, "refs")
       \/ UNCHANGED rtRec /\ Go(p, "keep_apps")
    /\ UNCHANGED <<storage, appRec, runs, commands>>

-------------------------------------------------------------------------------
(***************************************************************************)
(* uninstall: cmd_uninstall, uninstall_runtime, uninstall_unused           *)
(***************************************************************************)
Uninstall(p) ==
    /\ At(p, "uninstall")
    /\ \E a \in Installed :
          /\ \A r \in Mounted : r.app # a
          /\ job' = [job EXCEPT ![p].tgt = [app |-> a, dir |-> appRec[a].adir],
                                ![p].at = "unrecord"]
    /\ UNCHANGED <<storage, records, commands>>

\* The user has confirmed: the record goes first.
Unrecord(p) ==
    LET a == job[p].tgt.app IN
    /\ At(p, "unrecord")
    /\ job[p].cmd = "uninstall"
    /\ appRec' = [appRec EXCEPT ![a] = NoRecord]
    /\ IF a \in Installed THEN Go(p, "scrub") ELSE End(p)
    /\ UNCHANGED <<storage, rtRec, runs, commands>>

\* uninstall_runtime asks that no application uses the runtime.
UninstallRuntime(p) ==
    /\ At(p, "uninstall_runtime")
    /\ \E ref \in Runtime :
          /\ rtRec[ref] # NoRecord
          /\ \A a \in Installed : RefOf[appRec[a].rdir] # ref
          /\ job' = [job EXCEPT ![p].tgt = [ref |-> ref, dir |-> rtRec[ref]],
                                ![p].at = "unrecord"]
    /\ UNCHANGED <<storage, records, commands>>

\* --unused asks that no application and no sandbox uses it; of the runtimes
\* it plans to remove, the model follows one.
UninstallUnused(p) ==
    /\ At(p, "uninstall_unused")
    /\ \E ref \in Runtime :
          /\ rtRec[ref] # NoRecord
          /\ \A a \in Installed : RefOf[appRec[a].rdir] # ref
          /\ \A r \in runs : RefOf[r.rdir] # ref
          /\ job' = [job EXCEPT ![p].tgt = [ref |-> ref, dir |-> rtRec[ref]],
                                ![p].at = "scrub"]
    /\ UNCHANGED <<storage, records, commands>>

\* uninstall_runtime removes the record before the checkout, --unused after it.
UnrecordRuntime(p) ==
    /\ At(p, "unrecord")
    /\ job[p].cmd \in {"uninstall_runtime", "uninstall_unused"}
    /\ rtRec' = [rtRec EXCEPT ![job[p].tgt.ref] = NoRecord]
    /\ Go(p, IF job[p].cmd = "uninstall_runtime" THEN "scrub" ELSE "keep_apps")
    /\ UNCHANGED <<storage, appRec, runs, commands>>

\* The checkout that a command removes itself, and what comes after it.
Victim(p) == IF job[p].cmd = "update" THEN job[p].tgt.old.record.adir
                                      ELSE job[p].tgt.dir

AfterScrub(p) == CASE job[p].cmd = "update" -> "drop_old"
                   [] job[p].cmd = "uninstall_unused" -> "unrecord"
                   [] OTHER -> "refs"

Scrub(p) ==
    LET path == [kind |-> "dest", dir |-> Victim(p)] IN
    /\ At(p, "scrub")
    /\ Remove(path)
    /\ IF Whole(path) THEN UNCHANGED job ELSE Go(p, AfterScrub(p))
    /\ UNCHANGED <<records, commands>>

-------------------------------------------------------------------------------
(***************************************************************************)
(* run: cmd_run, resolve_app, PendingRunRecord and ChrootInstance          *)
(***************************************************************************)

\* The record is read and its directories are there; neither is locked.
Launch(p) ==
    /\ At(p, "run")
    /\ \E a \in Installed :
          LET r == appRec[a] IN
          /\ dest[r.adir] # Absent /\ dest[r.rdir] # Absent
          /\ job' = [job EXCEPT ![p].tgt = [app |-> a, adir |-> r.adir, rdir |-> r.rdir],
                                ![p].at = "pin_run"]
    /\ UNCHANGED <<storage, records, commands>>

\* pinned_deployment_for_app reads the application record again.  The sandbox is
\* none that ran before, though one with the same record may have.
PinRun(p) ==
    LET t == job[p].tgt IN
    /\ At(p, "pin_run")
    /\ IF t.app \in Installed
       THEN LET r == [by |-> p, app |-> t.app, adir |-> t.adir, rdir |-> t.rdir]
            IN  /\ runs' = runs \cup {r}
                /\ job' = [q \in Process |-> [job[q] EXCEPT
                                               !.at = IF q = p THEN "mount" ELSE @,
                                               !.elders = @ \ {r}]]
       ELSE End(p) /\ UNCHANGED runs
    /\ UNCHANGED <<storage, appRec, rtRec, commands>>

\* nullfs mounts whatever the directories hold.  When one is gone the launch
\* fails, and the pending record is dropped.
Mount(p) ==
    LET t == job[p].tgt IN
    /\ At(p, "mount")
    /\ IF dest[t.adir] # Absent /\ dest[t.rdir] # Absent
       THEN Go(p, "running") /\ UNCHANGED runs
       ELSE End(p) /\ runs' = {r \in runs : r.by # p}
    /\ UNCHANGED <<storage, appRec, rtRec, commands>>

\* The application exits: mounts and record go, and the cleanup runs.
Exit(p) ==
    /\ At(p, "running")
    /\ Turn(p)
    /\ runs' = {r \in runs : r.by # p}
    /\ job' = [job EXCEPT ![p].at = "keep_apps", ![p].elders = Mounted]
    /\ UNCHANGED <<storage, appRec, rtRec, commands>>

-------------------------------------------------------------------------------
Step(p) ==
    \/ OpenStorage(p) \/ Deploy(p) \/ StorageWork(p) \/ CloseStorage(p)
    \/ Start(p) \/ Crash(p) \/ Decline(p) \/ Done(p)
    \/ ListBindings(p) \/ Bind(p) \/ Bound(p)
    \/ KeepApps(p) \/ KeepRuntimes(p) \/ KeepRuns(p)
    \/ ListRuntimes(p) \/ ListApps(p) \/ Sweep(p) \/ Swept(p)
    \/ Update(p) \/ Install(p) \/ UpdateRuntime(p) \/ InstallRuntime(p) \/ Pin(p) \/ Unpin(p)
    \/ RecordRuntime(p) \/ RecordApp(p) \/ Publish(p) \/ Replace(p)
    \/ DropOldRuntime(p)
    \/ Uninstall(p) \/ Unrecord(p) \/ UninstallRuntime(p) \/ UninstallUnused(p)
    \/ UnrecordRuntime(p) \/ Scrub(p)
    \/ Launch(p) \/ PinRun(p) \/ Mount(p) \/ Exit(p)

\* Every command of the behaviour is over.
Quiet ==
    /\ commands = MaxCommands
    /\ \A p \in Process : At(p, "none")
    /\ UNCHANGED vars

Next == (\E p \in Process : Step(p)) \/ Quiet

Spec == Init /\ [][Next]_vars

-------------------------------------------------------------------------------
(***************************************************************************)
(* Properties                                                              *)
(***************************************************************************)
TypeOK ==
    /\ S!TypeOK
    /\ gutted \subseteq {d \in Dest : dest[d] \in Commit}
    /\ appRec \in [App -> Pair \cup {NoRecord}]
    /\ rtRec \in [Runtime -> RuntimeDir \cup {NoRecord}]
    /\ runs \subseteq RunRecord
    /\ \A p \in Process : job[p].cmd \in Command \cup {"none"}
    /\ \A p \in Process : job[p].keep \subseteq Dest /\ job[p].doomed \subseteq Path
    /\ commands \in 0..MaxCommands

(***************************************************************************)
(* What is installed can be launched.  The two directories of every        *)
(* application record hold every file of their commits once an interrupted *)
(* transaction is recovered: no cleanup, uninstall or update removes one   *)
(* that a record still names, wherever the commands before were killed,    *)
(* and no update reuses a generation whose removal was interrupted after   *)
(* files but before the marker that checkout_matches trusts.               *)
(***************************************************************************)
InstalledIntact ==
    \A a \in Installed : \A d \in {appRec[a].adir, appRec[a].rdir} :
        S!AfterRestart[d] = CommitOf[d] /\ d \notin gutted

(***************************************************************************)
(* A sandbox keeps the checkouts it was launched from for as long as it is *)
(* mounted, whatever is updated, uninstalled or cleaned up meanwhile.      *)
(***************************************************************************)
PinnedIntact ==
    \A r \in Mounted : Intact(r.adir) /\ Intact(r.rdir)

(***************************************************************************)
(* The cleanup of a command, at startup or at its end, spares the          *)
(* directories of the sandboxes that were running when the command began   *)
(* (or its own sandbox ended), also when other commands change the records *)
(* while it reads them.                                                    *)
(***************************************************************************)
EldersSpared ==
    \A p \in Process : \A r \in job[p].elders \cap Mounted :
        \A d \in {r.adir, r.rdir} :
            [kind |-> "dest", dir |-> d] \notin job[p].doomed

(***************************************************************************)
(* Nothing retired is kept: when a command that ends with a cleanup is     *)
(* over, every generation with a marker is in a record, and no staging or  *)
(* backup directory with one is left.                                      *)
(***************************************************************************)
ReclaimsRetired ==
    \A p \in Process : At(p, "done") =>
        \A path \in Path : Content(path) \in Commit =>
            /\ path.kind = "dest"
            /\ \/ \E a \in Installed : path.dir \in {appRec[a].adir, appRec[a].rdir}
               \/ path.dir \in {rtRec[ref] : ref \in Runtime}
               \/ \E r \in runs : path.dir \in {r.adir, r.rdir}

(***************************************************************************)
(* The journal of a deployment can be recovered, as CheckoutActivation has *)
(* it, while the cleanups of other commands run without the storage lock.  *)
(***************************************************************************)
JournalRecoverable == S!JournalRecoverable
===============================================================================
