----------------------------- MODULE SandboxMounts -----------------------------
(***************************************************************************)
(* The mounts of one sandbox: the launcher prepares them one after the     *)
(* other (mount_operations.rs), each through a run of the set-user-ID      *)
(* helper (secure_mount.rs), and takes them down again in                  *)
(* ChrootInstance::cleanup, once when the application has ended and once   *)
(* more when the instance is dropped.  The portal bridge, which launches   *)
(* of the application share, mounts document grants below one of them; it  *)
(* may end at any time, and the next launch starts another.                *)
(*                                                                         *)
(* A path is a sequence of component names, a name a number: names are     *)
(* compared when mounts are ordered.  Targets are relative to the sandbox  *)
(* root; the sources of nullfs mounts are host paths, which begin with     *)
(* Host, a name no target begins with, or lie in the staging directory of  *)
(* the root.  A helper's step may fail, its processes may be killed, a     *)
(* mount may be kept busy from outside, and a bridge may end; all of that  *)
(* together happens at most MaxFaults times.                               *)
(***************************************************************************)
EXTENDS Integers, Sequences, FiniteSets, SequencesExt

CONSTANTS
    Plans,      \* lists of mounts a launch may ask for, in the order of prepare
    Staging,    \* the name of STAGING_ROOT
    Host,       \* the name that host paths begin with
    DocDir,     \* the target of the document directory
    Grants,     \* documents: the paths of their mounts below DocDir
    Generated,  \* the host path of the trees that HostGraphics generates
    MaxFaults   \* bound on the faults of a behaviour

VARIABLES
    pc,         \* where the launcher is
    todo,       \* mounts still to be made
    owned,      \* owned_mounts
    mappings,   \* nullfs_mounts
    nextId,     \* next_mount_staging_id; the staging tmpfs is ready once it is > 0
    table,      \* the kernel's mount table below the root
    helper,     \* the launcher's run of the helper
    peer,       \* another launch's helper in the same host directory
    attrs,      \* attributes of the directories that hold file mounts
    bridge,     \* up; registered: it knows DocDir; targets: its grant mounts in
                \* this sandbox; proxy: the instance's handle
    pass,       \* one cleanup: its errors, the mounts left to try and those kept
    exists,     \* what of the instance is still there
    ghost       \* history: faults, and what each left behind

vars == <<pc, todo, owned, mappings, nextId, table, helper, peer, attrs,
          bridge, pass, exists, ghost>>

Caller == [owner |-> "caller", w |-> TRUE]

Idle == [pc |-> "idle"]

NoPass == [errors |-> FALSE, portal |-> FALSE, left |-> {}, kept |-> {}, tries |-> 0]

(***************************************************************************)
(* Requests.  A merge is a directory made of several sources: one nullfs   *)
(* when a single directory holds exactly the selected entries and the      *)
(* deployment has nothing there, else a tmpfs with a mount per entry, in   *)
(* the order of names.  The entries are directories; holes are the         *)
(* placeholders of targets that the deployment does not have.              *)
(***************************************************************************)
Nullfs(source, target, ro, file) ==
    [op |-> "nullfs", source |-> source, target |-> target, ro |-> ro,
     file |-> file, origin |-> source]

Tmpfs(target) ==
    [op |-> "tmpfs", source |-> <<>>, target |-> target, ro |-> FALSE,
     file |-> FALSE, origin |-> <<>>]

Special(target) == [Tmpfs(target) EXCEPT !.op = "special"]

Attach == [op |-> "attach"]

Parent(p) == SubSeq(p, 1, Len(p) - 1)

direct_merge_source(merge) ==
    DOMAIN merge.entries # {} /\ merge.base = {} /\ merge.whole

mount_extension_merge(merge) ==
    LET selected == DOMAIN merge.entries
    IN IF selected = {} /\ merge.holes = {}
       THEN <<>>
       ELSE IF direct_merge_source(merge)
       THEN <<Nullfs(Parent(merge.entries[CHOOSE n \in selected : TRUE]), merge.target, TRUE, FALSE)>>
       ELSE <<Tmpfs(merge.target),
              [op |-> "entries", merge |-> merge, names |-> selected \cup (merge.base \ merge.holes)]>>

\* A selected entry hides that of the deployment.
EntrySource(merge, n) ==
    IF n \in DOMAIN merge.entries THEN merge.entries[n] ELSE Append(merge.source, n)

(***************************************************************************)
(* nullfs_source_aliases_parent: the mount that covers the target already  *)
(* shows the source there.                                                 *)
(***************************************************************************)
Covering(S, p) ==
    {m \in S : /\ IsStrictPrefix(m.path, p)
               /\ \A n \in S : IsStrictPrefix(n.path, p) => Len(n.path) <= Len(m.path)}

Shows(x, source, target) ==
    x.source \o SubSeq(target, Len(x.target) + 1, Len(target)) = source

nullfs_source_aliases_parent(source, target) ==
    \E m \in Covering(owned, target), x \in mappings :
       x.target = m.path /\ Shows(x, source, target)

\* As deep, and greater by its names.
GreaterName(p, q) ==
    /\ Len(p) = Len(q)
    /\ \E i \in DOMAIN p : p[i] > q[i] /\ \A j \in 1..(i - 1) : p[j] = q[j]

\* Variant: the other order of names within one depth.
teardown_by_depth(a, b) == Len(a.path) > Len(b.path) \/ GreaterName(b.path, a.path)

\* What is deeper comes first, of what is equally deep the greater name.
owned_mount_teardown_order(a, b) == Len(a.path) > Len(b.path) \/ GreaterName(a.path, b.path)

(***************************************************************************)
(* What prepare asks for.  The root is no mountpoint, and a top-level name *)
(* is greater than that of the staging directory, which begins with a dot. *)
(* The document directory is mounted in the runtime directory, which is    *)
(* writable and shows another directory of the host there; nothing of the  *)
(* plan is mounted below it.                                               *)
(***************************************************************************)
Path == Seq(Nat)

HostPath == {p \in Path : p # <<>> /\ p[1] = Host}

Target == {p \in Path : p # <<>> /\ p[1] > Staging /\ p[1] # Host}

Asked == UNION {Range(p) : p \in Plans}

Mounting == {"nullfs", "tmpfs", "special"}

\* A mount at this target, with these files, leaves the document directory alone.
SparesDocDir(e) ==
    /\ ~ IsStrictPrefix(DocDir, e.target)
    /\ IsStrictPrefix(e.target, DocDir) =>
          /\ ~ e.ro
          /\ e.op = "nullfs" => \A d \in Asked : d.op = "nullfs" /\ d.target = DocDir =>
                                   ~ Shows(e, d.source, DocDir)

Requested(e) ==
    \/ e = Attach
    \/ /\ e.op = "merge"
       /\ e.source \in HostPath /\ e.target \in Target
       /\ e.base \subseteq Nat
       /\ \A n \in DOMAIN e.entries :
             n \in Nat /\ e.entries[n] \in HostPath /\ Len(e.entries[n]) > 1
       /\ ~ IsPrefix(e.target, DocDir) /\ ~ IsPrefix(DocDir, e.target)
    \/ /\ e.op \in Mounting
       /\ e \in [op : Mounting, source : Path, target : Target, ro : BOOLEAN,
                  file : BOOLEAN, origin : Path]
       /\ IF e.op = "nullfs" THEN e.source \in HostPath /\ e.origin = e.source
                             ELSE e.source = <<>> /\ ~ e.ro /\ ~ e.file
       /\ SparesDocDir(e)

ASSUME PlanAssumption ==
    /\ Staging \in Nat /\ Host \in Nat /\ Host # Staging
    /\ DocDir \in Target
    /\ Generated \in HostPath
    /\ \A g \in Grants : g \in Path /\ IsStrictPrefix(DocDir, g)
    /\ \A p \in Plans : p \in Seq(Asked)
    /\ \A e \in Asked : Requested(e)
    /\ MaxFaults \in Nat

(***************************************************************************)
(* The kernel.  A mount is in use while another is mounted below it or     *)
(* takes its files from it, and cannot be unmounted normally then.         *)
(***************************************************************************)
Needs(m, n) == IsStrictPrefix(n.path, m.path) \/ IsPrefix(n.path, m.source)

Users(m) == {n \in table \ {m} : Needs(n, m)}

ReadOnlyParent(p) == \E m \in Covering(table, p) : m.ro

MountOf(e, by) ==
    [path |-> e.target, source |-> e.source, ro |-> e.ro, op |-> e.op, by |-> by]

Fault == ghost.faults < MaxFaults

Faulted == [ghost EXCEPT !.faults = @ + 1]

-----------------------------------------------------------------------------
(***************************************************************************)
(* Init: the root is laid out and the run record is committed, prepare is  *)
(* about to make the first mount.                                          *)
(***************************************************************************)
FileParents == {Parent(e.target) : e \in {e \in Asked : e.op = "nullfs" /\ e.file}}
               \cup {<<Staging>>}

Init ==
    /\ todo \in Plans
    /\ pc = "mount"
    /\ owned = {}
    /\ mappings = {}
    /\ nextId = 0
    /\ table = {}
    /\ helper = Idle
    /\ peer = Idle
    /\ attrs = [d \in FileParents |-> Caller]
    /\ bridge = [up |-> TRUE, registered |-> FALSE, targets |-> {}, proxy |-> Attach \in Range(todo)]
    /\ pass = NoPass
    /\ exists = [root |-> TRUE, record |-> TRUE, generated |-> TRUE]
    /\ ghost = [faults |-> 0, cut |-> {}, bare |-> {}, stray |-> {}, held |-> {},
                orphans |-> {}, overlap |-> FALSE, stuck |-> {}]

-----------------------------------------------------------------------------
(***************************************************************************)
(* prepare.                                                                *)
(***************************************************************************)
\* An error: prepare returns and the instance is dropped.
GiveUp == pc' = "cleanup" /\ pass' = [NoPass EXCEPT !.tries = 1] /\ todo' = <<>>

Merge ==
    /\ pc = "mount" /\ todo # <<>> /\ Head(todo).op = "merge"
    /\ todo' = mount_extension_merge(Head(todo)) \o Tail(todo)
    /\ UNCHANGED <<pc, owned, mappings, nextId, table, helper, peer, attrs, bridge, pass, exists, ghost>>

\* The entries of a merge in the order of their names.
MergeEntry ==
    /\ pc = "mount" /\ todo # <<>> /\ Head(todo).op = "entries"
    /\ LET e == Head(todo)
       IN \/ e.names = {} /\ todo' = Tail(todo)
          \/ \E n \in e.names :
                /\ \A k \in e.names : n <= k
                /\ todo' = <<Nullfs(EntrySource(e.merge, n), Append(e.merge.target, n), TRUE, FALSE),
                             [e EXCEPT !.names = @ \ {n}]>> \o Tail(todo)
    /\ UNCHANGED <<pc, owned, mappings, nextId, table, helper, peer, attrs, bridge, pass, exists, ghost>>

\* ensure_mountpoint_free
Free(target) == \A m \in table : m.path # target

\* mount_nullfs_impl of a source the parent mount shows already: it is
\* mounted in the staging directory first, and from there on the target.
Stage ==
    /\ pc = "mount" /\ todo # <<>> /\ helper = Idle
    /\ LET e == Head(todo)
           staged == <<Staging, nextId>>
       IN /\ e.op = "nullfs" /\ Free(e.target)
          /\ nullfs_source_aliases_parent(e.source, e.target)
          /\ todo' = (IF nextId = 0 THEN <<Tmpfs(<<Staging>>)>> ELSE <<>>)
                     \o <<Nullfs(e.source, staged, e.ro, e.file),
                          [e EXCEPT !.source = staged]>>
                     \o Tail(todo)
    /\ nextId' = nextId + 1
    /\ UNCHANGED <<pc, owned, mappings, table, helper, peer, attrs, bridge, pass, exists, ghost>>

\* The mountpoint is free, and the helper is started.
RunHelper ==
    /\ pc = "mount" /\ todo # <<>> /\ helper = Idle
    /\ LET e == Head(todo)
       IN /\ e.op \in Mounting
          /\ ~ (e.op = "nullfs" /\ nullfs_source_aliases_parent(e.source, e.target))
          /\ Free(e.target)
          /\ helper' = [pc |-> IF e.file THEN "attrs" ELSE "mount", e |-> e,
                        saved |-> Caller, locked |-> FALSE, mounted |-> FALSE, rolled |-> "no"]
    /\ UNCHANGED <<pc, todo, owned, mappings, nextId, table, peer, attrs, bridge, pass, exists, ghost>>

MountpointTaken ==
    /\ pc = "mount" /\ todo # <<>> /\ helper = Idle
    /\ Head(todo).op \in Mounting
    /\ ~ Free(Head(todo).target)
    /\ GiveUp
    /\ UNCHANGED <<owned, mappings, nextId, table, helper, peer, attrs, bridge, exists, ghost>>

\* run_command: the mount is recorded only when the helper reports success.
Report ==
    /\ pc = "mount"
    /\ helper.pc \in {"ok", "error"}
    /\ helper' = Idle
    /\ \/ /\ helper.pc = "ok"
          /\ LET e == helper.e
             IN /\ owned' = owned \cup {[path |-> e.target, ro |-> e.ro]}
                /\ mappings' = IF e.op = "nullfs"
                               THEN mappings \cup {[source |-> e.origin, target |-> e.target]}
                               ELSE mappings
          /\ todo' = Tail(todo)
          /\ UNCHANGED <<pc, pass>>
       \/ /\ helper.pc = "error"
          /\ GiveUp
          /\ UNCHANGED <<owned, mappings>>
    /\ UNCHANGED <<nextId, table, peer, attrs, bridge, exists, ghost>>

(***************************************************************************)
(* attach_sandbox: the bridge mounts every grant below the document        *)
(* directory.  When one cannot be mounted it takes those it has mounted    *)
(* away again and does not register the directory; taking one away may     *)
(* fail too.  Without a bridge on the bus the call fails.                  *)
(***************************************************************************)
GrantMount(g) == [path |-> g, source |-> <<>>, ro |-> TRUE, op |-> "nullfs", by |-> "bridge"]

GrantMounts == {GrantMount(g) : g \in Grants}

AttachSandbox ==
    /\ pc = "mount" /\ todo # <<>> /\ Head(todo).op = "attach" /\ bridge.proxy
    /\ \/ /\ bridge.up
          /\ todo' = Tail(todo)
          /\ table' = table \cup GrantMounts
          /\ bridge' = [bridge EXCEPT !.registered = TRUE, !.targets = GrantMounts]
          /\ UNCHANGED <<pc, pass, ghost>>
       \/ /\ bridge.up /\ Fault
          /\ GiveUp
          /\ \E left \in {{}} \cup {{m} : m \in GrantMounts} :
                /\ table' = table \cup left
                /\ bridge' = [bridge EXCEPT !.targets = @ \cup left]
                /\ ghost' = [Faulted EXCEPT !.stray = @ \cup left]
       \/ /\ ~ bridge.up
          /\ GiveUp
          /\ UNCHANGED <<table, bridge, ghost>>
    /\ UNCHANGED <<owned, mappings, nextId, helper, peer, attrs, exists>>

\* The plan is complete; launch starts the application, which ends some day.
Launch ==
    /\ pc = "mount" /\ todo = <<>> /\ helper = Idle
    /\ pc' = "running"
    /\ UNCHANGED <<todo, owned, mappings, nextId, table, helper, peer, attrs, bridge, pass, exists, ghost>>

\* A running application's document is taken back, or a new one is shared.
ShareDocument ==
    /\ pc = "running" /\ bridge.registered
    /\ \E m \in GrantMounts :
          IF m \in table
          THEN table' = table \ {m} /\ bridge' = [bridge EXCEPT !.targets = @ \ {m}]
          ELSE table' = table \cup {m} /\ bridge' = [bridge EXCEPT !.targets = @ \cup {m}]
    /\ UNCHANGED <<pc, todo, owned, mappings, nextId, helper, peer, attrs, pass, exists, ghost>>

(***************************************************************************)
(* The bridge crashes, with all its grants mounted, or another launch of   *)
(* the application stops it, when it takes down the grants it can          *)
(* (cleanup_grant) and forgets the rest.  The bridge that is started in    *)
(* its place on the same bus address knows none of them.                   *)
(***************************************************************************)
BridgeEnds ==
    /\ bridge.up /\ (bridge.proxy \/ bridge.targets # {})
    /\ Fault
    /\ \E rest \in SUBSET bridge.targets :
          /\ bridge.targets \cap ghost.orphans \subseteq rest    \* paths that do not resolve
          /\ table' = table \ (bridge.targets \ rest)
          /\ ghost' = [Faulted EXCEPT !.stray = @ \cup rest]
    /\ bridge' = [bridge EXCEPT !.up = FALSE, !.registered = FALSE, !.targets = {}]
    /\ UNCHANGED <<pc, todo, owned, mappings, nextId, helper, peer, attrs, pass, exists>>

BridgeReplaced ==
    /\ ~ bridge.up /\ bridge.proxy
    /\ bridge' = [bridge EXCEPT !.up = TRUE]
    /\ UNCHANGED <<pc, todo, owned, mappings, nextId, table, helper, peer, attrs, pass, exists, ghost>>

ApplicationEnds ==
    /\ pc = "running"
    /\ pc' = "cleanup"
    /\ pass' = NoPass
    /\ UNCHANGED <<todo, owned, mappings, nextId, table, helper, peer, attrs, bridge, exists, ghost>>

-----------------------------------------------------------------------------
(***************************************************************************)
(* The helper.  A directory is mounted on in one step; the root of a new   *)
(* tmpfs is given its mode and owner afterwards.                           *)
(***************************************************************************)
HelperStep(h) == helper' = h /\ UNCHANGED <<pc, todo, owned, mappings, nextId, peer, bridge, pass, exists>>

nmount ==
    /\ helper.pc = "mount"
    /\ UNCHANGED attrs
    /\ \/ /\ table' = table \cup {MountOf(helper.e, "launcher")}
          /\ HelperStep([helper EXCEPT !.pc = IF helper.e.op = "tmpfs" THEN "adjust" ELSE "ok"])
          /\ UNCHANGED ghost
       \/ /\ Fault /\ ghost' = Faulted
          /\ HelperStep([helper EXCEPT !.pc = "error"])
          /\ UNCHANGED table

\* An error here leaves the new tmpfs mounted.
adjust_tmpfs ==
    /\ helper.pc = "adjust"
    /\ UNCHANGED <<table, attrs>>
    /\ \/ /\ HelperStep([helper EXCEPT !.pc = "ok"])
          /\ UNCHANGED ghost
       \/ /\ Fault /\ ghost' = [Faulted EXCEPT !.bare = @ \cup {MountOf(helper.e, "launcher")}]
          /\ HelperStep([helper EXCEPT !.pc = "error"])

(***************************************************************************)
(* A file is mounted on while its directory belongs to root and cannot be  *)
(* written: protect_regular_file_parent, the mount, and the restoration.   *)
(* A directory on a read-only mount needs no protection.                   *)
(***************************************************************************)
Dir == Parent(helper.e.target)

HelperLocks == helper.pc \in {"chown", "chmod", "nmount", "rechown", "rechmod", "rollback"} /\ helper.locked

PeerLocks == peer.pc \in {"chown", "chmod", "rechown", "rechmod"}

directory_attributes ==
    /\ helper.pc = "attrs"
    /\ UNCHANGED <<table, attrs>>
    /\ \/ /\ ReadOnlyParent(helper.e.target)
          /\ HelperStep([helper EXCEPT !.pc = "nmount"])
          /\ UNCHANGED ghost
       \/ /\ ~ ReadOnlyParent(helper.e.target)
          /\ HelperStep([helper EXCEPT !.pc = "chown", !.saved = attrs[Dir], !.locked = TRUE])
          /\ ghost' = [ghost EXCEPT !.overlap = @ \/ (PeerLocks /\ peer.dir = Dir)]
       \/ /\ Fault /\ ghost' = Faulted
          /\ HelperStep([helper EXCEPT !.pc = "error"])

protect_regular_file_parent ==
    /\ helper.pc \in {"chown", "chmod"}
    /\ UNCHANGED table
    /\ \/ /\ helper.pc = "chown"
          /\ attrs' = [attrs EXCEPT ![Dir].owner = "root"]
          /\ HelperStep([helper EXCEPT !.pc = "chmod"])
          /\ UNCHANGED ghost
       \/ /\ helper.pc = "chmod"
          /\ attrs' = [attrs EXCEPT ![Dir].w = FALSE]
          /\ HelperStep([helper EXCEPT !.pc = "nmount"])
          /\ UNCHANGED ghost
       \/ /\ Fault /\ ghost' = Faulted
          /\ HelperStep([helper EXCEPT !.pc = IF helper.pc = "chown" THEN "error" ELSE "rechown"])
          /\ UNCHANGED attrs

nmount_regular_file_nullfs ==
    /\ helper.pc = "nmount"
    /\ UNCHANGED attrs
    /\ \/ /\ table' = table \cup {MountOf(helper.e, "launcher")}
          /\ HelperStep([helper EXCEPT !.mounted = TRUE, !.pc = IF helper.locked THEN "rechown" ELSE "ok"])
          /\ UNCHANGED ghost
       \/ /\ Fault /\ ghost' = Faulted
          /\ HelperStep([helper EXCEPT !.pc = IF helper.locked THEN "rechown" ELSE "error"])
          /\ UNCHANGED table

\* Variant: an error also when the rollback failed.
VerdictStrict(h) == [h EXCEPT !.pc = IF h.mounted /\ h.rolled = "no" THEN "ok" ELSE "error"]

\* An error is reported only when nothing is mounted.
Verdict(h) == [h EXCEPT !.pc = IF h.mounted THEN "ok" ELSE "error"]

\* Variant: the mode is not restored.
restore_owner_only ==
    /\ helper.pc \in {"rechown", "rechmod"}
    /\ UNCHANGED table
    /\ \/ /\ helper.pc = "rechown"
          /\ attrs' = [attrs EXCEPT ![Dir] = [owner |-> helper.saved.owner, w |-> FALSE]]
          /\ HelperStep(Verdict(helper))
          /\ UNCHANGED ghost
       \/ helper.pc = "rechmod" /\ UNCHANGED <<attrs, ghost>> /\ HelperStep(Verdict(helper))

restore_directory_attributes ==
    /\ helper.pc \in {"rechown", "rechmod"}
    /\ UNCHANGED table
    /\ \/ /\ helper.pc = "rechown"
          /\ attrs' = [attrs EXCEPT ![Dir].owner = helper.saved.owner]
          /\ HelperStep([helper EXCEPT !.pc = "rechmod"])
          /\ UNCHANGED ghost
       \/ /\ helper.pc = "rechmod"
          /\ attrs' = [attrs EXCEPT ![Dir].w = helper.saved.w]
          /\ HelperStep(Verdict(helper))
          /\ UNCHANGED ghost
       \/ /\ Fault
          /\ UNCHANGED attrs
          /\ IF helper.mounted /\ helper.rolled = "no"
             THEN HelperStep([helper EXCEPT !.pc = "rollback"]) /\ ghost' = Faulted
             ELSE HelperStep(Verdict(helper)) /\ ghost' = [Faulted EXCEPT !.stuck = @ \cup {Dir}]

rollback_regular_file_mount ==
    /\ helper.pc = "rollback"
    /\ UNCHANGED attrs
    /\ \/ /\ table' = table \ {MountOf(helper.e, "launcher")}
          /\ HelperStep([helper EXCEPT !.pc = "rechown", !.mounted = FALSE, !.rolled = "done"])
          /\ UNCHANGED ghost
       \/ /\ Fault /\ ghost' = Faulted
          /\ HelperStep([helper EXCEPT !.pc = "rechown", !.rolled = "failed"])
          /\ UNCHANGED table

\* A signal, from the terminal for instance, ends the helper.
HelperKilled ==
    /\ helper.pc \notin {"idle", "error"}
    /\ Fault
    /\ ghost' = [Faulted EXCEPT !.cut = @ \cup (table \cap {MountOf(helper.e, "launcher")}),
                                !.stuck = @ \cup (IF HelperLocks THEN {Dir} ELSE {})]
    /\ HelperStep([helper EXCEPT !.pc = "error"])
    /\ UNCHANGED <<table, attrs>>

\* Another launch of the application mounts a file on the same host directory.
PeerStep ==
    /\ \/ /\ peer = Idle
          /\ \E d \in FileParents :
                /\ \E m \in table : m.path = d /\ m.op = "nullfs" /\ ~ m.ro
                /\ peer' = [pc |-> "chown", dir |-> d, saved |-> attrs[d]]
                /\ ghost' = [ghost EXCEPT !.overlap = @ \/ (HelperLocks /\ d = Dir)]
          /\ UNCHANGED attrs
       \/ /\ peer.pc = "chown"
          /\ attrs' = [attrs EXCEPT ![peer.dir].owner = "root"]
          /\ peer' = [peer EXCEPT !.pc = "chmod"]
          /\ UNCHANGED ghost
       \/ /\ peer.pc = "chmod"
          /\ attrs' = [attrs EXCEPT ![peer.dir].w = FALSE]
          /\ peer' = [peer EXCEPT !.pc = "rechown"]
          /\ UNCHANGED ghost
       \/ /\ peer.pc = "rechown"
          /\ attrs' = [attrs EXCEPT ![peer.dir].owner = peer.saved.owner]
          /\ peer' = [peer EXCEPT !.pc = "rechmod"]
          /\ UNCHANGED ghost
       \/ /\ peer.pc = "rechmod"
          /\ attrs' = [attrs EXCEPT ![peer.dir].w = peer.saved.w]
          /\ peer' = [peer EXCEPT !.pc = "over"]
          /\ UNCHANGED ghost
    /\ UNCHANGED <<pc, todo, owned, mappings, nextId, table, helper, bridge, pass, exists>>

Helper ==
    \/ nmount \/ adjust_tmpfs \/ directory_attributes \/ protect_regular_file_parent
    \/ nmount_regular_file_nullfs \/ restore_directory_attributes
    \/ rollback_regular_file_mount \/ HelperKilled

-----------------------------------------------------------------------------
(***************************************************************************)
(* cleanup.  A pass that fails is tried once more when the instance is     *)
(* dropped; after that everything is left to the recovery of a later       *)
(* command, which finds the run record.                                    *)
(***************************************************************************)
PassFails ==
    IF pass.tries = 0
    THEN pc' = "cleanup" /\ pass' = [NoPass EXCEPT !.tries = 1]
    ELSE pc' = "abandoned" /\ UNCHANGED pass

terminate_chroot_processes ==
    /\ pc = "cleanup"
    /\ \/ pc' = "portal" /\ UNCHANGED <<pass, ghost>>
       \/ Fault /\ ghost' = Faulted /\ PassFails
    /\ UNCHANGED <<todo, owned, mappings, nextId, table, helper, peer, attrs, bridge, exists>>

(***************************************************************************)
(* HostPortal::cleanup: RemoveSandbox, then the run record, and the shared *)
(* portal is stopped when no other instance uses it.  The bridge that      *)
(* answers leaves the directory registered when a grant could not be       *)
(* detached, and is content with a directory it does not know: one whose   *)
(* attach failed, or that an earlier bridge had registered.                *)
(***************************************************************************)
\* What RemoveSandbox detaches.
Detachable == IF bridge.registered THEN bridge.targets ELSE {}

PortalCleanup ==
    /\ pc = "portal"
    /\ pc' = "unmount"
    /\ \/ /\ ~ bridge.proxy
          /\ pass' = [pass EXCEPT !.left = owned]
          /\ UNCHANGED <<table, bridge, ghost>>
       \/ /\ bridge.proxy /\ bridge.up
          /\ \E stopped \in BOOLEAN, rest \in SUBSET (bridge.targets \ Detachable) :
                /\ stopped \/ rest = bridge.targets \ Detachable
                /\ table' = table \ (bridge.targets \ rest)
                /\ bridge' = [up |-> ~ stopped, registered |-> FALSE,
                              targets |-> IF stopped THEN {} ELSE rest, proxy |-> FALSE]
          /\ pass' = [pass EXCEPT !.left = owned]
          /\ UNCHANGED ghost
       \/ /\ bridge.proxy
          /\ pass' = [pass EXCEPT !.left = owned, !.errors = TRUE, !.portal = TRUE]
          /\ \/ ~ bridge.up /\ UNCHANGED <<table, bridge, ghost>>
             \/ /\ bridge.up /\ Fault /\ ghost' = Faulted
                /\ \E left \in SUBSET Detachable :
                      /\ table' = table \ (Detachable \ left)
                      /\ bridge' = [bridge EXCEPT !.targets = @ \ (Detachable \ left),
                                                 !.registered = @ /\ left # {}]
    /\ UNCHANGED <<todo, owned, mappings, nextId, helper, peer, attrs, exists>>

(***************************************************************************)
(* unmount_mountpoint of the next mount: normally, and by force when that  *)
(* failed and the mount is read-only.  The document directory stays while  *)
(* the portal may still have grants below it.                              *)
(***************************************************************************)
Kept(m) == [pass EXCEPT !.left = @ \ {m}, !.kept = @ \cup {m}, !.errors = TRUE]

SkipDocDir(m) == pass.portal /\ m.path = DocDir

Detached(m) == [pass EXCEPT !.left = @ \ {m}]

UnmountNext ==
    /\ pc = "unmount"
    /\ \E m \in pass.left :
       LET at == {x \in table : x.path = m.path}
           users == UNION {Users(x) : x \in at}
           lost == at \cap ghost.orphans # {}     \* its path cannot be resolved
       IN /\ \A n \in pass.left : ~ owned_mount_teardown_order(n, m)
          /\ \/ /\ SkipDocDir(m)
                /\ pass' = Kept(m)
                /\ UNCHANGED <<table, ghost>>
             \/ /\ ~ SkipDocDir(m)
                /\ at = {} \/ (users = {} /\ ~ lost)
                /\ table' = table \ at
                /\ pass' = Detached(m)
                /\ UNCHANGED ghost
             \/ /\ ~ SkipDocDir(m)
                /\ at # {} /\ m.ro /\ ~ lost
                /\ users # {} \/ Fault
                /\ table' = table \ at
                /\ pass' = Detached(m)
                /\ ghost' = [ghost EXCEPT !.faults = IF users = {} THEN @ + 1 ELSE @,
                                          !.orphans = @ \cup users]
             \/ /\ ~ SkipDocDir(m)
                /\ at # {}
                /\ IF lost \/ (users # {} /\ ~ m.ro)
                   THEN ghost' = [ghost EXCEPT !.held = @ \cup at]
                   ELSE Fault /\ ghost' = [Faulted EXCEPT !.held = @ \cup at]
                /\ pass' = Kept(m)
                /\ UNCHANGED table
    /\ UNCHANGED <<pc, todo, owned, mappings, nextId, helper, peer, attrs, bridge, exists>>

\* Variant: the generated sources go whatever is left mounted.
SourcesForgotten == TRUE

\* The generated sources go only when no owned mount is left.
SourcesUnused == pass.kept = {}

CleanResources ==
    /\ pc = "unmount" /\ pass.left = {}
    /\ pc' = "remove"
    /\ owned' = pass.kept
    /\ \/ /\ exists' = [exists EXCEPT !.generated = @ /\ ~ SourcesUnused]
          /\ UNCHANGED <<pass, ghost>>
       \/ /\ Fault /\ ghost' = Faulted
          /\ pass' = [pass EXCEPT !.errors = TRUE]
          /\ UNCHANGED exists
    /\ UNCHANGED <<todo, mappings, nextId, table, helper, peer, attrs, bridge>>

(***************************************************************************)
(* Without errors the root is removed, with everything below it, and then  *)
(* the run record.  A mountpoint cannot be removed while it is mounted on; *)
(* remove_dir_all has emptied what is mounted there before it finds out.   *)
(***************************************************************************)
\* cleanup found no error.
RemoveAllowed == ~ pass.errors

RemoveRoot ==
    /\ pc = "remove"
    /\ \/ /\ RemoveAllowed
          /\ table \ ghost.orphans = {}
          /\ exists' = [exists EXCEPT !.root = FALSE]
          /\ pc' = "record"
          /\ UNCHANGED <<pass, ghost>>
       \/ /\ RemoveAllowed
          /\ IF table \ ghost.orphans # {} THEN UNCHANGED ghost ELSE Fault /\ ghost' = Faulted
          /\ PassFails
          /\ UNCHANGED exists
       \/ /\ ~ RemoveAllowed
          /\ PassFails
          /\ UNCHANGED <<exists, ghost>>
    /\ UNCHANGED <<todo, owned, mappings, nextId, table, helper, peer, attrs, bridge>>

RemoveRecord ==
    /\ pc = "record"
    /\ \/ /\ exists' = [exists EXCEPT !.record = FALSE]
          /\ pc' = "done"
          /\ UNCHANGED <<pass, ghost>>
       \/ /\ Fault /\ ghost' = Faulted
          /\ PassFails
          /\ UNCHANGED exists
    /\ UNCHANGED <<todo, owned, mappings, nextId, table, helper, peer, attrs, bridge>>

Finished == pc \in {"done", "abandoned"} /\ UNCHANGED vars

Next ==
    \/ Merge \/ MergeEntry \/ Stage \/ RunHelper \/ MountpointTaken \/ Report \/ AttachSandbox
    \/ Launch \/ ShareDocument \/ ApplicationEnds
    \/ BridgeEnds \/ BridgeReplaced
    \/ Helper \/ PeerStep
    \/ terminate_chroot_processes \/ PortalCleanup \/ UnmountNext \/ CleanResources
    \/ RemoveRoot \/ RemoveRecord \/ Finished

Spec == Init /\ [][Next]_vars

-----------------------------------------------------------------------------
\* The types of the variables.
TypeOK ==
    /\ pc \in {"mount", "running", "cleanup", "portal", "unmount", "remove", "record",
               "done", "abandoned"}
    /\ helper.pc \in {"idle", "mount", "adjust", "attrs", "chown", "chmod", "nmount",
                      "rechown", "rechmod", "rollback", "ok", "error"}
    /\ peer.pc \in {"idle", "chown", "chmod", "rechown", "rechmod", "over"}
    /\ \A m, n \in table : m.path = n.path => m = n
    /\ \A m \in table : m.op \in {"nullfs", "tmpfs", "special"} /\ m.by \in {"launcher", "bridge"}
    /\ attrs \in [FileParents -> [owner : {"caller", "root"}, w : BOOLEAN]]
    /\ nextId \in Nat
    /\ ghost.faults \in 0..MaxFaults

\* What the launcher can still unmount.
Known == owned \cup pass.left \cup pass.kept

(***************************************************************************)
(* Every mount the launcher made is in owned_mounts, or its helper has not *)
(* reported yet, whatever combination of mount, restoration and rollback   *)
(* fails (finish_regular_file_mount).  Two kinds are lost track of: those  *)
(* whose helper was killed after the mount, and a tmpfs whose owner and    *)
(* mode could not be set, for which adjust_tmpfs reports an error.         *)
(***************************************************************************)
Tracked ==
    \A m \in table : m.by = "launcher" =>
       \/ \E o \in Known : o.path = m.path
       \/ helper # Idle /\ helper.pc # "error" /\ helper.e.target = m.path
       \/ m \in ghost.cut \cup ghost.bare

OrderSound ==
    \A a, b \in pass.left, m, n \in table :
       m.path = a.path /\ n.path = b.path /\ Needs(n, m) => owned_mount_teardown_order(b, a)

(***************************************************************************)
(* Mounts that nobody who takes mounts down knows of.  Of the launcher's:  *)
(* the helper was killed after the mount (cut), or left its tmpfs mounted  *)
(* with an error (bare).  Of the bridge's: a failed attach could not take  *)
(* the grant back, or the bridge that had mounted it has ended (stray).    *)
(***************************************************************************)
Loose(m) == m \in ghost.cut \cup ghost.bare \cup ghost.stray

NoOrphans == \A m \in ghost.orphans : Loose(m) \/ m \in ghost.held

(***************************************************************************)
(* The teardown order is sound: what sits on a mount of the launcher or    *)
(* takes its files from it, staging mounts included, is taken down before  *)
(* it, by the names and depths of the paths alone; and a mount loses the   *)
(* one below it, by force, only if its own unmount was tried before and    *)
(* failed, or if it is loose.  A grant whose bridge is the one that        *)
(* answers RemoveSandbox never does, however often its unmount fails.      *)
(***************************************************************************)
TeardownSound == OrderSound /\ NoOrphans

(***************************************************************************)
(* Loose mounts apart, the root is removed, and what is mounted below it   *)
(* emptied, only when nothing is mounted there, the run record only after  *)
(* it, and the generated trees only when no mount shows them.  Loose ones  *)
(* may stay behind: reachable, they keep the root and the record for the   *)
(* recovery of a later command; grants forced off their ground do not.     *)
(***************************************************************************)
RemovedLast ==
    /\ pc = "remove" /\ RemoveAllowed => \A m \in table : Loose(m)
    /\ ~ exists.root => \A m \in table : Loose(m) /\ m \in ghost.orphans
    /\ ~ exists.record => ~ exists.root
    /\ ~ exists.generated => \A m \in table : IsPrefix(Generated, m.source) => Loose(m)

(***************************************************************************)
(* A directory that a file was mounted in belongs to its owner again, and  *)
(* can be written, once no helper is at work in it.  The exceptions: the   *)
(* restoration itself failed or its helper was killed, or two helpers were *)
(* at work in it at once, so that one saved what the other had set.        *)
(***************************************************************************)
ParentsRestored ==
    ~ HelperLocks /\ ~ PeerLocks =>
       \A d \in FileParents : d \in ghost.stuck \/ ghost.overlap \/ attrs[d] = Caller
===============================================================================
