# A TLA+ verification project for freebsd-flatpak

freebsd-flatpak is a command, `flatpak`, that installs, updates and runs Linux
Flatpak applications on FreeBSD: OSTree checkouts for the files, chroots with
nullfs mounts for the sandboxes, small set-uid helpers for what needs
privileges. Every invocation is its own process. There is no daemon; what
processes know of each other is on disk, in the mount table and in the process
table, and nearly all of it is read and written without a lock. That is what
this project is about.

Paths below are relative to the repository; `PROJECT.json` maps every definition
to the lines it models.

## The system

| Part | State | Operations | Hard because |
|---|---|---|---|
| checkout activation `ostree/checkout_activation.rs`, `ostree_repository.rs` | `.storage.lock`, journal `.storage-transaction`, destination, staging and backup directories | `Storage::open` (lock, recover), `deploy` (pull, stage, journal, rename, clean) | a crash anywhere, also in the recovery of a crash |
| record storage `installation/record_storage.rs` | one file per record, temporary files beside them | `write_atomic`, remove, read by name, list | no lock; killed writers |
| application, runtime, run records | `refs/apps`, `refs/runtimes`, `runs` | `record_install`, `reconcile_runtime_bindings`, pins and run records | several records describe one deployment |
| generation cleanup | directories with an `.ostree-commit` marker | `cleanup_retired_deployments` | runs in every command and at every sandbox exit, without the storage lock |
| startup recovery | all of the above | `initialize_inner`: stale sandboxes, portals, graphics, storage, bindings, cleanup | whatever the last command left |
| install, update, uninstall | local plan of the command | resolve, confirm, deploy, pin, extra data, record, export, remove | long commands with a prompt in the middle, running sandboxes |
| run, chroot backend | run record, mounts, processes | `PendingRunRecord`, mount, launch, `ChrootInstance::cleanup` | everything else happens meanwhile |
| stale sandbox recovery | records, mount table, process table | `recover_stale_mounts` | three views read at three times |
| spawn broker, nested sandboxes `sandbox/spawn_broker.rs` | listener, retained descriptors, worker threads, nested roots | `broker_loop`, `handle_connection`, `NestedSandboxRoot`, `Drop` | threads; a shutdown at any point of a request |
| process supervision, kill `sandbox/process_supervision.rs`, `cli/kill.rs` | reaper, last signal, process identities | wait for a tree, end orphans, `force_stop_launcher`, sweep by roots | forks, zombies, pid reuse, signals that replace each other, nested sandboxes made meanwhile |
| mounts of a sandbox `sandbox/mount_operations.rs`, `chroot_instance.rs`, `secure_mount.rs` | owned mounts, staging, mount table, directory attributes | mount through the helper, merge, `cleanup` twice | partial failure of every call, order of unmounts, a killed helper, a bridge that ends with grants mounted |
| secure launch `secure_launch.rs` | jail and its owning descriptor, descriptors, client socket | enter the root, jail, map descriptors, wait, report | four processes, each of which may die between any two calls |
| shared portal `portal_integration/` | pid files, `app-id`, bus socket, scope lock, registrations | `HostPortal::prepare`, `attach_sandbox`, `cleanup`, `recover_stale_portal_mounts` | shared by launches that come, go and crash |
| extensions, remotes, metadata cache, exports, grants, host resources | caches, config, user files | mostly planning | boundary cases |
| C helpers | D-Bus state (portal bridge), none (shims) | | |

Commands call each other's code only within a process. Across processes the
storage lock orders deployments; records are the activation point of what is
installed; run records pin what is running; markers say what a directory holds.

What makes it correct: an installed application has all the files its record
names; a running one keeps them; a transaction is all or nothing and never
blocks the next command; nothing is kept for ever; a live sandbox is not torn
down, a dead one is, in an order in which no mount loses its ground; when a
launch is over nothing of it is left, and its status is not lost on the way; an
instance keeps the portal it was given.

## Modules

| Module | Models |
|---|---|
| `AtomicActivation` | what `deploy` promises: the checkouts of a list change in one step |
| `CheckoutActivation` | `Storage::open`, `deploy`, recovery |
| `Deployments` | records, generations, cleanup, install, update, uninstall, run; composes an instance of `CheckoutActivation` |
| `SandboxRecovery` | `recover_stale_mounts` beside launchers and nested sandboxes |
| `RecordStorage` | record files |
| `SpawnBroker` | the broker's threads, requests and shutdown |
| `ProcessSupervision` | the launcher's wait, signals, orphans, `flatpak kill` |
| `SandboxMounts` | mounting and unmounting one sandbox, with the set-uid mount helper and the bridge's grants |
| `SharedPortal` | the portal of an application, its launches and its recovery |
| `NestedLaunch` | one direct or nested run of the launch helper |
| `...Proofs` | the theorems about each of these; those about `RecordStorage` are in `SandboxRecoveryProofs` |
| `MC...` | the constants of the instances below |

### CheckoutActivation

A step is one file-system call whose effect a crash can expose. `dest`,
`staging` and `backup` give the content of a path: a commit, `Absent`, or
`Broken` for a tree with files missing (a checkout in progress, or a removal:
`Erode` needs two steps). `journal` is the transaction file, published and
removed in one step as the code does it by rename and unlink. The lists of the
code are sets, so entries are handled in any order. `Leave` is the drop of
`Storage`: it frees the flock, as the death of its process does. `Abort` is an
error return or a kill at any point. Init allows any content at the
destinations, incomplete checkouts included.

Staging directories are told apart by destination and commit, as their names
are. Not modelled: a journal that does not parse (it is synced before the
rename), the repository's content, loss of unsynced data.

### Deployments

Processes run one command each: startup (`Start` to `Swept`), the command, its
cleanup. `job[p]` is the local state of the process; `job[p].at` the place in the
code. Each record kind that is read and each directory that is removed is a step
of its own. A directory that is being removed is `Broken` once the marker is
gone and `gutted` while files are gone and the marker is not, since
`remove_dir_all` keeps no order. Storage steps are those of `CheckoutActivation`
with `Plans` fixed to an application and a runtime generation.

`Overlap` says whether commands may interleave; without it only sandboxes run
beside a command. The difference matters: some of what is found below
needs two commands at once, the rest only a kill or a running sandbox.

Commands that change a runtime alone (`install_runtime`, `update_runtime`) deploy
one checkout, write the runtime record and rebind the applications. `flatpak
update` updates runtimes first and then applications, which it has listed before:
`Done` goes on to `Update` with that list.

Bounds and simplifications: one application or runtime per update, one runtime
per `uninstall --unused`; the second `reconcile_runtime_bindings` that update runs
right after the one in `record_install` is not repeated; whether a runtime was
installed for itself and from which remote is a nondeterministic choice; legacy
checkouts (directly at the family), extensions, exports and `--delete-data` are
left out. A sandbox that outlives its launcher counts as running until its
processes are gone; how it is found again is `SandboxRecovery`.

`elders` is a history variable: the sandboxes that ran when the command began. A
sandbox is identified by its run record, and a process may launch the same
generation again, so `PinRun` takes the new record out of everyone's `elders`: the
new sandbox is none that ran before.

### SandboxRecovery

A launcher publishes the run record of a root, mounts, starts processes, and
tears down in the reverse order; nested roots belong to the launcher of their
parent. A recovery reads records, mounts and processes one after the other,
judges, and for each root it finds stale reads all three again before it
terminates, unmounts and removes. `LauncherActive` compares the process identity,
so a reused pid (`PidReused`) does not count. Everything may die anywhere.
`before` is a history variable: the roots with processes when the second look
began. Order and retries of unmounts, and document mounts, are left out; a
termination or unmount that fails is `RecoveryFails`.

### RecordStorage

`record` and `temp` are the files of one record directory; `Empty` is a file
created and not yet written. A listing reads the entries that readdir returned
one by one; `Unique` is the check for duplicates that `list_runtimes` has and
`list_apps` has not.

### SpawnBroker

`main`, `acceptor` and `worker[c]` are the program counters of the three kinds of
thread; `retained`, `handles` and `stopping` are the fields of
`BrokerConnections`; `table` is the launcher's descriptor table, so that a number
can be given out twice. `Drop for SpawnBroker` is `Stop`, `ShutRetained` (one
descriptor at a time: the list may change in between), `ShutListener` (the waking
connection), `JoinAcceptor`, `JoinWorkers`. A worker receives, launches, answers,
waits for readiness, watches, drops the tree, cleans the nested root, releases
its number and closes. A request is its kind and flags. The process tree is one
unit; `"survived"` is a tree that outlived SIGKILL, `"kept"` a nested root whose
unmount failed and which stays recorded for recovery. The bridge that connects is
external. Not modelled: the bytes of frames, the content of nested roots.

### ProcessSupervision

`proc` and `place` give each process its state and the root it runs in. The main
thread alternates `try_wait` and listings of the reaper, polls `LAST_SIGNAL`,
signals and escalates (`WithinGrace`, `Expire`); `DropTree` and `Cleanup` are the
end of the launch on every path. `bus` is a broker worker whose watched bus has
gone. `nest` are the sandboxes that broker workers nest in this one, beside
everything else: `PublishNested` writes the record, `SpawnNested` runs the command,
`RemoveNested` takes the record away; after the launcher's death nothing makes new
ones. `kill` is another process with records and a process table it read before: it
asks the launcher (`CheckIdentity` to `SignalLauncher`) or, when that is dead, goes
by roots (`Sweep`). `kill.roots` are those that `OwnershipRoots` finds in the records
at the time of `ReadRecords`, and stay the same; `kill.later` is history, the nested
sandboxes not yet made then. A pid is freed only when it is waited for; the
launcher's own may be reused (`PidReused`).

### SandboxMounts

A launch makes a list of mounts, each through one run of the helper with its own
program counter: a file mount takes the parent directory from its owner, mounts,
and gives it back, and rolls back when it cannot. `table` is the kernel's mount
table, with `Needs` saying which mount keeps which busy. Paths are sequences of
numbers, since `owned_mount_teardown_order` compares names. The order is a relation
between two mounts and not a sorted list: the next mount a pass of cleanup unmounts
is the one that none of those left comes before. Likewise `MergeEntry` takes the
entries of a merged directory in the order of their names. The merge of extension
directories and the aliasing of nullfs sources are operators that compute with
paths as the code does. `ChrootInstance::cleanup` runs when the application has
ended or the launch has failed, and again when the instance is dropped. `peer` is a
helper of another launch in the same host directory.

`bridge` is the process that answers on the portal's bus address: whether one is
there (`up`), whether it knows this sandbox (`registered`), the grants it has mounted
in it (`targets`), and whether the launcher still has a proxy to clean up. It ends by
a crash, with its grants mounted, or because another launch of the application stops
it, when it unmounts those it can (`BridgeEnds`); the one started in its place
(`BridgeReplaced`; `SharedPortal` has the reasons) knows no grant and no sandbox, and
answers `RemoveSandbox` with success. `DocumentPlan` has two grants, so that one may
go and the other stay.

`ghost` is history: the faults, and the mounts they left to nobody. `Loose` is the
union of three kinds. `cut`: the helper was killed after the mount. `bare`: a tmpfs that
`adjust_tmpfs` left mounted when it returned an error (`secure_mount.rs:1122-1142`).
`stray`: a grant that a failed attach could not take back, or whose bridge has
ended. `held` are mounts whose own unmount has failed and `orphans` those whose ground
was forced away. A loose mount that can still be reached keeps `remove_dir_all` from
removing its mountpoint, and so keeps root and record for later commands; what is mounted
there has been emptied by then, which the model does not follow further.

`PlanAssumption` says what `prepare` may ask for. Sources are host paths, which begin
with `Host`. No target is the root itself. Every top-level name is greater than
`Staging`, which stands for `.freebsd-flatpak-mount-sources`: the names are those of
`prepare`, of the roots of the `host` permission, of the home directory and of the
XDG directories, and other absolute paths are not granted
(`GrantBuilder::apply_permission`), so only a home or XDG directory below a top-level
name that begins with a dot could be an exception. The document directory lies in the
runtime directory, which is writable and shows another directory of the host in that
place, and nothing of the plan is mounted below it.

### SharedPortal

Launches and the commands' recovery, step by step between file operations, starts
and lock operations. `pid` are the pid files, `sock` is the bus that is bound to the
socket, `alive` the processes that really run; they differ after a kill. `blame` and
`strays` are history: why an instance lost its portal, and which processes no pid
file names. `why` in the program counter says for which reason a portal is stopped.

### NestedLaunch

Client, worker and child of one launch (for a direct launch the child is the
helper itself). `owners` is who has the descriptor that owns the jail, the
message in flight included (`Settle`: the kernel removes a jail without owner and
its processes, and a jail without persistence that is empty). `table` is the
child's descriptor table during `map_nested_fds`: a `DuplicateSource` per
descriptor, at the lowest free number above all targets, then a `MakeTarget` each,
then `MappingDone`; `dups` and `mapped` say how far the loops have come.
Every process may be killed at every step; the path of the root may be replaced at
any time. Validation is one verdict.

## Runs

Passing:

| Run | Instance | Shows |
|---|---|---|
| `checkout` | 2 processes, 2 directories, 2 commits, 3 aborts, fair | `JournalRecoverable`, `NoOrphanBackup`, `RenameTargetFree`, `NeverActivatesPartial`, refinement of `AtomicActivation`, `JournalCleared` |
| `deployments` | 3 commands in turn, 2 crashes, sandboxes running | `InstalledIntact`, `PinnedIntact`, `ReclaimsRetired` |
| `overlap` | 3 processes interleaved, rename | `EldersSpared` |
| `recovery` | a launch, its nested sandbox, 2 recovering commands, fair | `LiveLauncherSpared`, `OrphansSpared`, `MountsRecorded`, `StaleRecovered` |
| `records` | 2 processes, 2 records, 1 kill | `RecordsWhole`, `PublishesOwn` |
| `broker` | 2 connections, 2 descriptor numbers, fair | `RetainedOpen`, `QuietAfterDrop`, `ShutdownCompletes`, `AcceptedAnswered` |
| `supervision` | 3 pids, a nested sandbox, 1 signal and that of `kill`, fair | `StatusKept`, `TreeEnded`, `OrphansOnly`, `SweptEmpty`, `StopsWhenAsked` |
| `mounts` | 4 mount lists, 4 faults | `Tracked`, `TeardownSound`, `RemovedLast`, `ParentsRestored` |
| `portal` | 2 launches, 1 fault, fair | `PortalServes`, `OnePortal`, `StaleStopped` |
| `launch` | 1 launch, 10 descriptor numbers, fair | `Confined`, `StatusLast`, `SourcesMapped`, `NothingLeft` |

Why the bounds are enough. Three aborts allow a transaction, its recovery and the
recovery of that to be interrupted; two directories are the least with which a
transaction can be half done. Two versions of an application and of its runtime,
each with a repair directory, give every branch of `update_status` and
`generation_checkout_dir`. Two recoverers are the least that can disturb each
other. With two connections and two numbers one connection is accepted, or
closes and has its number given out again, while another is served and the broker
stops. Three pids are a root, a child in the background and one that is forked
between two listings, or runs in a nested sandbox; the nested
sandbox is made before or after `flatpak kill` reads the records, or is gone by then;
the user's signal and the force stop of `flatpak kill` are a request and the one that
replaces it. Four faults let a mount, the restoration and the rollback of one file mount
fail together and a bridge end beside it; the mount lists hold the cases the
ordering distinguishes: a file on a nullfs, a staged merge, a source that aliases
its parent, a tmpfs mask, documents below the runtime directory, a taken
mountpoint. Two launches and a recovery are the least for a portal to be used,
replaced and recovered. Descriptor targets swap sources, hit a standard
descriptor, the lifecycle socket, and the limit.

Of `SpawnBroker`, `ProcessSupervision`, `SandboxMounts`, `SharedPortal` and
`NestedLaunch` the runs do not check `TypeOK`: it is proved. `portal` and `launch` do
not check deadlock: their launches are over in the end and nothing has to follow.

Violated, each a finding in `PROJECT.json` with the line that says otherwise:

| Run | Property | Needs | What happens |
|---|---|---|---|
| `uninstall_runtime` | `PinnedIntact` | a running sandbox | the runtime's checkout is removed under it |
| `exit_cleanup` | `JournalRecoverable` | a kill, a running sandbox | the exit's cleanup removes what the journal names: every later command fails |

What the models show besides, with other constants or as an exception that a
property names; these are listed as hazards and not as runs:

- `uninstall --unused` killed inside its removal leaves the runtime record and the
  marker over missing files, and a later install reuses the checkout
  (`InstalledIntact` with `uninstall_unused` among the commands and a crash).
- An update that renames an application removes the old checkout under a running
  sandbox (`PinnedIntact`, with `Renames`).
- With `Overlap`: the cleanup of one command removes the generation another has
  deployed and not yet recorded (`InstalledIntact`);
  `reconcile_runtime_bindings` writes back a record that another command has
  removed or replaced; a launch during the prompt of uninstall is not seen.
- A listing of runtimes fails beside a writer, on a temporary file or on a record
  that is gone since readdir (`ReadEntry` of `RecordStorage`).
- In `SandboxRecovery` a sandbox whose first process starts after the process
  table was read, and whose launcher dies before it is looked up, is torn down
  with its processes, which the comment at `stale_sandbox_recovery.rs:27-29` rules
  out for live instances.
- A SIGHUP within a poll interval of SIGTERM or of `flatpak kill` replaces it: the
  launcher does not stop, and kill has reported success (`StopsWhenAsked`).
- Two helpers in one host directory can leave it owned by root and unwritable
  (`ParentsRestored`, `ghost.overlap`). A mount whose helper is killed after
  `nmount` is in no list of the launcher (`Tracked`, `ghost.cut`), nor is a tmpfs
  whose owner and mode could not be set (`ghost.bare`); recovery finds them in the
  mount table.
- Grants of a portal bridge that has ended are below a document directory that
  cleanup forces off when another bridge answers for the sandbox; root and record
  are then removed, and the grants stay in the mount table (`RemovedLast`,
  `ghost.stray`) for `recover_orphaned_document_mounts`. So a document directory that
  one pass has kept, since the bridge was gone and did not answer, "so a retry can
  still resolve and unmount the child" (`chroot_instance.rs:415-417`), is forced off
  over the child by that retry if another launch has started a bridge meanwhile.
- `flatpak kill` of a dead launcher's instance does not sweep a nested sandbox that
  was made between its reading of the records and the launcher's death, and reports
  success (`SweptEmpty`, `kill.later`).
- A recovery that reads `app-id` while a launch writes it stops a portal in use
  (`PortalServes`, `"nameless"`), as does a later launch with another host command
  permission (`"mismatch"`).
- A command that outlives SIGKILL is never answered with its exit: `wait` fails and
  `SPAWN_EXITED` is skipped (`AcceptedAnswered`).
- A failing `accept4` ends the acceptor of a broker, a failing `accept` or `fork`
  the launch daemon (`AcceptFails`; `secure_launch.rs:958`); nothing restarts them.
- A target that is the number of the child's lifecycle socket is overwritten
  before the child reports (`secure_launch.rs:321`): that launch fails, and
  cleanly (`NothingLeft`).

`docs/history/host-filesystem.md` says that cleanup "now retries normal unmounts";
`unmount_mountpoint_with` tries once, then by force, which is what is modelled.

The passing runs of `Deployments` leave the commands out that break their
property (`uninstall_runtime`, `uninstall_unused` and renames from `deployments`),
or look at another one.

## Fairness

`CheckoutActivation!Fairness`: the process that holds the flock goes on, and a
free flock is taken again. Users run further commands and each of them opens the
storage; a killed process frees the flock, and kills are bounded.
`SandboxRecovery!Fairness`: commands go on being run, and from some time on they
are not killed. Launchers have no fairness: they may stay up or hang for ever.
`SpawnBroker!Fairness`: the threads are scheduled; the bridge sends its request or
closes the connection it made, after which nothing makes it close; the launch helper
of a starting command reports or exits. A running command has none: it may run for ever until it is ended.
`ProcessSupervision!Fairness`: the launcher is scheduled, time passes (`Expire` is
strong: the wait returns to it again and again, and the deadline lies in the
past), and SIGKILL takes effect. `SharedPortal`: commands are run again and again
and each recovers first; launches have no fairness. `NestedLaunch`: child and
worker go on and the client reads its answers; no failure, no end of the program
and no departure of the client is forced.

## Proofs

The theorems hold for every value of the constants that satisfies the named
assumptions of the module, without bounds on processes, directories, connections,
launches or faults. Each module has an inductive invariant: the properties, and
what ties the local state of a process to the state the others see. All are checked
by TLAPS to the last leaf.

`CheckoutActivationProofs`. Only the holder of the lock is active; its `work` is
the journal once that is published; the entries outside `todo` are activated; the
entry in `cur` is where its label says; what a journal names is staged completely
or activated. `JournalRecoverable` alone is not inductive: it says nothing of a
process that is about to publish. From it follow `TypeCorrect`,
`AlwaysRecoverable`, `NoBackupLeaks`, `RenamesSucceed`, the action property
`OnlyCompleteCheckouts` and `Refinement`: each step changes `AfterRestart` not at
all, but for `Publish`, which changes it as `AtomicActivation` does. Assumptions:
the destinations of one list differ (an application, its runtime, one directory
per extension), the content markers are not commits.

`DeploymentsProofs`. `EldersAlwaysSpared`: no cleanup dooms a directory of a sandbox
that ran when its command began, for any commands, interleaved in any way. A
sandbox that is mounted has its record (`RunsInv`); a record is written only by a
launch that is in nobody's `elders` (`NewcomerInv`); once the run records have been
read, `keep` covers the elders that still run (`KeepInv`), and `doomed` is empty
outside the sweeps (`DoomedInv`). The order matters: applications, runtimes and runs
are read at three times, and only what is read last is still true of sandboxes.
`TypeCorrect` needs more than the types: which command gets to which place, and what
it works on there, since `job[p].tgt` differs from command to command.
`RetiredReclaimed` assumes `~Overlap`, and nothing of the commands: then a process
beside a command can only die (`Alone`), what a cleanup protects is in a record
until it is over (`SoundInv`), and whatever has a marker is protected or still to be
removed, runtimes before applications (`CleanedInv`).
`PinnedStaysIntact` and `InstalledStaysIntact` assume `Orderly`: commands run one
after the other, none renames an application, and none is `uninstall_runtime` or
`uninstall_unused`. Each clause is there because TLC refutes one of the two without
it (see Runs): these are what the code does, and not limits of the proof. The
invariant, `IntactInv`, starts from the directories that have to stay (`Needed`):
those that records name, those deployed and not yet recorded, those a launch has
read or a sandbox runs from and, to the end of a command that deploys, those of the
sandboxes it found running. They are complete (`NeededIntact`); no transaction is
about them, in the journal or in memory (`JournalForeign`, `StoreInv`); a cleanup protects them record by record
(`CleanupInv`); what a command chose is still true when it acts on it (`ChoiceInv`,
`OwnerInv`). `CleanupInv` also says that a command that deploys meets no half-removed
generation, since its startup has removed the rest of each: without it a checkout
that matches by its marker would be taken for complete. Of the storage the proof
uses the actions of `CheckoutActivation` itself, and a deployment's own entries are
followed through staging, journal and activation (`Deployment`).

`SandboxRecoveryProofs`. `LiveLaunchersSpared`, `OrphansAlwaysSpared`,
`MountsAlwaysRecorded`, for roots nested in any way and any number of recoveries.
The root of a running launcher is recorded from before its first mount until after
its last (`SystemInv`), so a second look that does not find a record has found a
root that is nobody's, now and for ever (`LookInv`, `Spared`); processes that were
there when it began are seen with their mounts, since these are read in the reverse
order of their making. `TeardownInv` carries that over the steps of the teardown.
Assumption: the owner of a nested root is the launch at the top of its parents.

The records that this relies on are files: the second part of the module extends
`RecordStorage` and proves that they are whole or absent (`RecordsAlwaysWhole`) and
that a rename publishes what its own process wrote (`WritersPublishTheirOwn`).
`WriterHolds` says that what a process is about to rename is its own temporary file
with its own content; with it both are inductive. Assumption: the content markers are
not contents.

`SandboxMountsProofs`. `MountsTracked`, `TeardownIsSound`, `RootGoesLast`,
`AttributesRestored`, `TypeCorrect`, for any plans that satisfy `PlanAssumption` and
any number of faults. `TeardownIsSound` rests on `UsersFirst`: a mount that needs
another comes before it in `owned_mount_teardown_order`. One mounted below another is
deeper. One that takes its files from a mount in the sandbox takes them from a staged
source, at depth two below `Staging`, and is itself at least as deep, since a source
is staged only for a target that another mount covers; if it is no deeper its
top-level name is the greater one. This needs to be known of every mount in the table
(`MountInv`), and so of the mappings and of the requests still to come. For
`NoOrphans`, a forced unmount finds only users that were tried before and are held,
loose ones, or the grants of a document directory that the pass leaves alone
(`PassInv`, `ForcedUsers`, `DocDirUse`). `RootGoesLast` needs that a pass without errors
has kept nothing (`NothingKept`) and that whatever is mounted is loose or has someone
who will unmount it (`KnownInv`): a grant the bridge that has the sandbox registered,
to which the launcher still has its proxy (`BridgeInv`), so that a pass over which the
portal has succeeded finds none but stray ones; a mount under way depends on how far
its helper has come (`HelperInv`): an error it reports means that the mount is not there,
whatever the rollback did, or that it is a bare tmpfs. `AttrInv` ties the attributes
of a directory to the program counters of the two helpers that may be at work in it.

`SpawnBrokerProofs`. `RetainedNumbersOpen`: shutdown reaches no descriptor that the
launcher has given to something else, because a number leaves the list before it is
closed (`RetainedInv`) and one number belongs to one worker (`TableInv`).
`QuietWhenDropped`: when the broker is gone no tree and no nested root of its
workers is left. A worker that runs will be joined (`JoinInv`), also one that was
spawned while the handles were taken, as the acceptor has been joined before.

`ProcessSupervisionProofs`. `StatusAlwaysKept`, `TreeHasEnded`, `OnlyOrphansEnded`,
`SweepsEmpty`. The root stays in the reaper's listing until its status has been
taken (`RootInv`): that is why the wait cannot end without it. For `SweepsEmpty`, a
process of a nested sandbox implies that the sandbox is recorded (`NestInv`), and one
that was recorded when the records were read is among the roots, while one that had
gone by then never comes back (`KillInv`). The properties are
part of the invariant, as a later step reads what an earlier one has established.

`SharedPortalProofs`. `PortalsServe`, `AtMostOnePortal`. What makes it work is the
lock (`LockInv`), and that a launch is recorded as active before it looks for a
portal (`RecordInv`), so that the last one out sees it (`QuietInv`). The case that a
recovery acts without the lock, on an empty `app-id`, is not excluded: it is one of
the excuses that `PortalServes` names, and `ServeInv` shows that there are no others.
A launch that starts a portal writes pid files alone (`FreshInv`), every process
that runs is named by one (`TrackInv`), and what a stop has gone through is down
(`StopInv`).

`NestedLaunchProofs`. `ProgramsConfined`, `StatusComesLast`, `DescriptorsMapped`. The
owning descriptor of the jail is always with the child, in flight or with the worker
(`JailInv`, `HandoverInv`), the approval follows its receipt and the end of
persistence, so the program is in a jail that dies with the worker (`WorkerInv`).
`DescriptorsMapped` has an invariant of its own (`LoopInv`): duplicates are above all
targets and differ, so making a target overwrites nothing that is still needed, for
any targets, also those that are sources of others. Assumption: descriptor numbers
are contiguous from zero, and the source descriptors differ.

Three of the proof attempts changed a model. `map_nested_fds` was one step, which
presupposed what `SourcesMapped` says of it; it now is two loops. `EldersSpared` did
not hold beyond the bound of its run: a process that exits and launches the same
generation again had the same run record, and so counted as an elder. And the
teardown order of `SandboxMounts` is sound only because of the name of the staging
directory, which the runs had fixed: with a target at a top-level name that sorts
before it, such as a home in `/.a`, and a mount of depth two below that which shows its parent's
files, the staged source would be unmounted before its user (with `Staging = 8` TLC
finds this). `PlanAssumption` now states it.

Only model-checked:

Liveness: `JournalCleared`, `StaleRecovered`, `ShutdownCompletes`,
`AcceptedAnswered`, `StopsWhenAsked`, `StaleStopped`, `NothingLeft`. TLAPS has no
rule for `ENABLED` and fairness here. Every invariant and every action property of a
passing run has a theorem.

## Plan

Done: the models of the parts above, and a theorem for every safety property that a
run checks. What would come next: the parts of a component listed as partly modelled
in `PROJECT.json` and the hazards there that no property covers, first the removal
after a prompt in `uninstall` and the unlocked read and write of application records.

## Not modelled

- Filesystem grants, permissions, overrides, argument translation: they turn
  metadata and options into a list of mounts and have no state. The list is an
  input of `SandboxMounts`.
- Extensions: the choice is matching of metadata; deployment and cleanup are those
  of runtimes.
- Remotes, summaries, metadata cache, ref resolution: parsing and network access.
  The answers are the constant `Offers`.
- Exports and desktop files: copies of rewritten files; that they can fail is in
  `Publish`.
- `recover_orphaned_document_mounts`, the recovery of portal directories of
  earlier versions, graphics recovery.
- The portals of the C bridge (the registration of sandboxes and the mounts of their
  grants are in `SandboxMounts`), the status notifier bridge, the preloaded shims,
  host resource detection, output; libostree itself; loss of unsynced data.
