-------------------------- MODULE CheckoutActivation --------------------------
(***************************************************************************)
(* src/ostree/checkout_activation.rs: the journalled transaction that      *)
(* replaces the checkouts of one deployment list, and its recovery, which  *)
(* every Storage::open runs under the flock of `.storage.lock`.            *)
(*                                                                         *)
(* A step of the model is one file-system call that can be seen after a    *)
(* crash: a directory removal is two steps (Erode), so that a crash may    *)
(* leave half of it.  The lists of the code are sets: the model handles    *)
(* the entries of a transaction in any order, the code in one of them.     *)
(***************************************************************************)
EXTENDS Naturals, FiniteSets

CONSTANTS Process,     \* CLI processes that open the storage
          Dest,        \* destination directories
          Commit,      \* commit checksums
          Absent,      \* content of a path that does not exist
          Broken,      \* content of an incomplete checkout
          Plans,       \* the deployment lists a command may ask for
          Free,        \* the flock has no holder
          MaxAborts    \* bound on the errors and crashes of a behaviour

Activation == [dest : Dest, commit : Commit]

Contents == Commit \cup {Absent, Broken}

ASSUME ContentAssumption ==
    Absent \notin Commit /\ Broken \notin Commit /\ Absent # Broken

\* The destinations of one list are different directories: an application,
\* its runtime, and one directory for each extension.
ASSUME PlanAssumption ==
    /\ Plans \subseteq SUBSET Activation
    /\ \A plan \in Plans : \A a, b \in plan : a.dest = b.dest => a = b

ASSUME PathAssumption == Dest # {} /\ Commit # {}

ASSUME ProcessAssumption == Free \notin Process

ASSUME BoundAssumption == MaxAborts \in Nat

VARIABLES lock,      \* holder of the flock
          journal,   \* `.storage-transaction`; {} when there is no such file
          dest,      \* content of each destination
          staging,   \* content of `.{name}.ostree-{commit}.staging`
          backup,    \* content of `.{name}.ostree-previous`
          pc,        \* where each process is in Storage::open or deploy
          mode,      \* whether it is recovering a journal or deploying
          plan,      \* the deployment list it was asked for
          work,      \* the activations of its transaction
          todo,      \* those the current loop still has to visit
          cur,       \* the one it is visiting
          aborts     \* errors and crashes so far

files == <<journal, dest, staging, backup>>
locals == <<pc, mode, plan, work, todo, cur>>
vars == <<lock, files, locals, aborts>>

PCs == {"idle", "ready", "stage", "unstage", "checkout", "seal", "next",
        "drop", "preserve", "activate", "clean", "deployed"}

\* Value of cur outside the loops.
AnyActivation == CHOOSE a \in Activation : TRUE

Matches(a) == dest[a.dest] = a.commit

\* One step of remove_dir_all: entries go first, the directory last.
Erode(content) == IF content \in Commit THEN Broken ELSE Absent

SetStaging(a, content) ==
    staging' = [staging EXCEPT ![a.dest] = [@ EXCEPT ![a.commit] = content]]

Goto(p, label) == pc' = [pc EXCEPT ![p] = label]

\* The Storage of p is dropped: its lock and its local state are gone.
Leave(p) ==
    /\ lock' = Free
    /\ Goto(p, "idle")
    /\ plan' = [plan EXCEPT ![p] = {}]
    /\ work' = [work EXCEPT ![p] = {}]
    /\ todo' = [todo EXCEPT ![p] = {}]
    /\ mode' = [mode EXCEPT ![p] = "deploy"]
    /\ cur' = [cur EXCEPT ![p] = AnyActivation]

Init ==
    /\ lock = Free
    /\ journal = {}
    /\ dest \in [Dest -> Contents]
    /\ staging \in [Dest -> [Commit -> {Absent}]]
    /\ backup \in [Dest -> {Absent}]
    /\ pc = [p \in Process |-> "idle"]
    /\ mode = [p \in Process |-> "deploy"]
    /\ plan = [p \in Process |-> {}]
    /\ work = [p \in Process |-> {}]
    /\ todo = [p \in Process |-> {}]
    /\ cur = [p \in Process |-> AnyActivation]
    /\ aborts = 0

-------------------------------------------------------------------------------
(***************************************************************************)
(* Plausible mistakes in the code, each of which a property below excludes *)
(***************************************************************************)

\* The journal is published before the last checkout is complete.
PublishEarly(p) ==
    /\ pc[p] = "stage"
    /\ journal' = work[p]
    /\ todo' = [todo EXCEPT ![p] = work[p]]
    /\ Goto(p, "next")
    /\ UNCHANGED <<lock, dest, staging, backup, mode, plan, work, cur, aborts>>

\* The fields of an entry are written to the journal in the wrong order.
PublishSwapped(p) ==
    /\ pc[p] = "stage"
    /\ todo[p] = {}
    /\ journal' = {[dest |-> a.commit, commit |-> a.dest] : a \in work[p]}
    /\ todo' = [todo EXCEPT ![p] = work[p]]
    /\ Goto(p, "next")
    /\ UNCHANGED <<lock, dest, staging, backup, mode, plan, work, cur, aborts>>

\* Recovery takes an absent staging directory for a completed activation and
\* does not look for leftovers: the backups are not removed.
EntriesDoneNoClean(p) ==
    /\ pc[p] = "next"
    /\ todo[p] = {}
    /\ todo' = [todo EXCEPT ![p] = IF mode[p] = "recover" THEN {} ELSE work[p]]
    /\ Goto(p, "clean")
    /\ UNCHANGED <<lock, files, mode, plan, work, cur, aborts>>

\* stage_checkout returns without validating the checkout.
SealUnchecked(p) ==
    /\ pc[p] = "seal"
    /\ \E content \in {Broken, cur[p].commit} : SetStaging(cur[p], content)
    /\ todo' = [todo EXCEPT ![p] = @ \ {cur[p]}]
    /\ Goto(p, "stage")
    /\ UNCHANGED <<lock, journal, dest, backup, mode, plan, work, cur, aborts>>

\* deploy renames into place without the journal.
PublishNothing(p) ==
    /\ pc[p] = "stage"
    /\ todo[p] = {}
    /\ todo' = [todo EXCEPT ![p] = work[p]]
    /\ Goto(p, "next")
    /\ UNCHANGED <<lock, files, mode, plan, work, cur, aborts>>

\* Recovery renames the staging directory without looking at the destination.
RecoverStagedBlindly(p, a) ==
    /\ staging[a.dest][a.commit] # Absent
    /\ cur' = [cur EXCEPT ![p] = a]
    /\ Goto(p, "activate")
    /\ UNCHANGED <<lock, files, mode, plan, work, todo, aborts>>

\* Recovery returns early when nothing is left to rename.
CompleteKeepsJournal(p) ==
    /\ pc[p] = "clean"
    /\ todo[p] = {}
    /\ journal' = IF mode[p] = "recover" THEN journal ELSE {}
    /\ work' = [work EXCEPT ![p] = {}]
    /\ Goto(p, IF mode[p] = "recover" THEN "ready" ELSE "deployed")
    /\ UNCHANGED <<lock, dest, staging, backup, mode, plan, todo, cur, aborts>>

-------------------------------------------------------------------------------
(***************************************************************************)
(* Storage::open                                                           *)
(***************************************************************************)
Open(p) ==
    /\ pc[p] = "idle"
    /\ lock = Free
    /\ lock' = p
    /\ mode' = [mode EXCEPT ![p] = "recover"]
    /\ work' = [work EXCEPT ![p] = journal]
    /\ todo' = [todo EXCEPT ![p] = journal]
    /\ Goto(p, IF journal = {} THEN "ready" ELSE "next")
    /\ UNCHANGED <<files, plan, cur, aborts>>

\* The entry still has its staging directory: resume it.
RecoverStaged(p, a) ==
    /\ staging[a.dest][a.commit] # Absent
    /\ cur' = [cur EXCEPT ![p] = a]
    /\ Goto(p, IF dest[a.dest] # Absent THEN "drop" ELSE "activate")
    /\ UNCHANGED <<lock, files, mode, plan, work, todo, aborts>>

\* The entry was activated before the interruption.
RecoverActivated(p, a) ==
    /\ staging[a.dest][a.commit] = Absent
    /\ dest[a.dest] # Absent
    /\ todo' = [todo EXCEPT ![p] = @ \ {a}]
    /\ UNCHANGED <<lock, files, pc, mode, plan, work, cur, aborts>>

\* Only the previous deployment is left: put it back, and fail.
RecoverRestored(p, a) ==
    /\ staging[a.dest][a.commit] = Absent
    /\ dest[a.dest] = Absent
    /\ backup[a.dest] # Absent
    /\ dest' = [dest EXCEPT ![a.dest] = backup[a.dest]]
    /\ backup' = [backup EXCEPT ![a.dest] = Absent]
    /\ Leave(p)
    /\ UNCHANGED <<journal, staging, aborts>>

\* Nothing is left of the entry: fail, and leave the journal where it is.
RecoverLost(p, a) ==
    /\ staging[a.dest][a.commit] = Absent
    /\ dest[a.dest] = Absent
    /\ backup[a.dest] = Absent
    /\ Leave(p)
    /\ UNCHANGED <<files, aborts>>

RecoverEntry(p) ==
    /\ pc[p] = "next"
    /\ mode[p] = "recover"
    /\ \E a \in todo[p] : \/ RecoverStaged(p, a)
                          \/ RecoverActivated(p, a)
                          \/ RecoverRestored(p, a)
                          \/ RecoverLost(p, a)

-------------------------------------------------------------------------------
(***************************************************************************)
(* Storage::deploy_from_sources_with_reuse_output                          *)
(***************************************************************************)

\* Keep the deployments that are forced or do not match, and pull their
\* commits into the repository.
BeginPlan(p, asked, forced) ==
    LET pending == {a \in asked : a \in forced \/ ~Matches(a)} IN
    /\ pc[p] = "ready"
    /\ plan' = [plan EXCEPT ![p] = asked]
    /\ work' = [work EXCEPT ![p] = pending]
    /\ todo' = [todo EXCEPT ![p] = pending]
    /\ Goto(p, IF pending = {} THEN "deployed" ELSE "stage")
    /\ mode' = [mode EXCEPT ![p] = "deploy"]
    /\ UNCHANGED <<lock, files, cur, aborts>>

Begin(p) == \E asked \in Plans : \E forced \in SUBSET asked :
                BeginPlan(p, asked, forced)

\* stage_checkout begins with an entry's staging directory.
Stage(p) ==
    /\ pc[p] = "stage"
    /\ \E a \in todo[p] : cur' = [cur EXCEPT ![p] = a]
    /\ Goto(p, "unstage")
    /\ UNCHANGED <<lock, files, mode, plan, work, todo, aborts>>

\* Remove what an earlier transaction left in the staging directory.
Unstage(p) ==
    LET a == cur[p] IN
    /\ pc[p] = "unstage"
    /\ SetStaging(a, Erode(staging[a.dest][a.commit]))
    /\ IF staging[a.dest][a.commit] = Absent THEN Goto(p, "checkout")
                                             ELSE UNCHANGED pc
    /\ UNCHANGED <<lock, journal, dest, backup, mode, plan, work, todo, cur,
                   aborts>>

\* checkout_at has written a part of the tree.
Checkout(p) ==
    /\ pc[p] = "checkout"
    /\ SetStaging(cur[p], Broken)
    /\ Goto(p, "seal")
    /\ UNCHANGED <<lock, journal, dest, backup, mode, plan, work, todo, cur,
                   aborts>>

\* The tree is complete and valid, its marker is on disk.
Seal(p) ==
    /\ pc[p] = "seal"
    /\ SetStaging(cur[p], cur[p].commit)
    /\ todo' = [todo EXCEPT ![p] = @ \ {cur[p]}]
    /\ Goto(p, "stage")
    /\ UNCHANGED <<lock, journal, dest, backup, mode, plan, work, cur, aborts>>

\* checkout_at fails: the staging directory is removed.
CheckoutFails(p) ==
    /\ pc[p] = "seal"
    /\ SetStaging(cur[p], Absent)
    /\ Leave(p)
    /\ UNCHANGED <<journal, dest, backup, aborts>>

\* write_transaction: the rename that publishes the journal.
Publish(p) ==
    /\ pc[p] = "stage"
    /\ todo[p] = {}
    /\ journal' = work[p]
    /\ todo' = [todo EXCEPT ![p] = work[p]]
    /\ Goto(p, "next")
    /\ UNCHANGED <<lock, dest, staging, backup, mode, plan, work, cur, aborts>>

\* finish_activation turns to an entry.
ActivateEntry(p) ==
    /\ pc[p] = "next"
    /\ mode[p] = "deploy"
    /\ \E a \in todo[p] : cur' = [cur EXCEPT ![p] = a]
    /\ Goto(p, "drop")
    /\ UNCHANGED <<lock, files, mode, plan, work, todo, aborts>>

\* Remove an older backup, to make room for the new one.
DropBackup(p) ==
    LET d == cur[p].dest IN
    /\ pc[p] = "drop"
    /\ backup' = [backup EXCEPT ![d] = Erode(@)]
    /\ IF backup[d] = Absent THEN Goto(p, "preserve") ELSE UNCHANGED pc
    /\ UNCHANGED <<lock, journal, dest, staging, mode, plan, work, todo, cur,
                   aborts>>

\* Rename the destination, if there is one, to the backup.
Preserve(p) ==
    LET d == cur[p].dest IN
    /\ pc[p] = "preserve"
    /\ backup' = [backup EXCEPT ![d] = IF dest[d] = Absent THEN @ ELSE dest[d]]
    /\ dest' = [dest EXCEPT ![d] = Absent]
    /\ Goto(p, "activate")
    /\ UNCHANGED <<lock, journal, staging, mode, plan, work, todo, cur, aborts>>

\* Rename the staging directory to the destination.
RenameStaging(p) ==
    LET a == cur[p] IN
    /\ dest' = [dest EXCEPT ![a.dest] = staging[a.dest][a.commit]]
    /\ SetStaging(a, Absent)
    /\ todo' = [todo EXCEPT ![p] = @ \ {a}]
    /\ Goto(p, "next")
    /\ UNCHANGED <<lock, journal, backup, mode, plan, work, cur, aborts>>

\* The rename of an entry fails when its staging directory has vanished: in
\* Deployments another command, which holds no lock, may sweep it away.
Activate(p) ==
    /\ pc[p] = "activate"
    /\ IF staging[cur[p].dest][cur[p].commit] = Absent
          THEN Leave(p) /\ UNCHANGED <<files, aborts>>
          ELSE RenameStaging(p)

EntriesDone(p) ==
    /\ pc[p] = "next"
    /\ todo[p] = {}
    /\ todo' = [todo EXCEPT ![p] = work[p]]
    /\ Goto(p, "clean")
    /\ UNCHANGED <<lock, files, mode, plan, work, cur, aborts>>

\* The loop that removes the backups, in deploy and in recovery.
CleanBackup(p) ==
    /\ pc[p] = "clean"
    /\ \E a \in todo[p] :
          /\ backup' = [backup EXCEPT ![a.dest] = Erode(@)]
          /\ todo' = [todo EXCEPT ![p] =
                        IF backup[a.dest] = Absent THEN @ \ {a} ELSE @]
    /\ UNCHANGED <<lock, journal, dest, staging, pc, mode, plan, work, cur,
                   aborts>>

\* Remove the journal: the transaction is over.
Complete(p) ==
    /\ pc[p] = "clean"
    /\ todo[p] = {}
    /\ journal' = {}
    /\ work' = [work EXCEPT ![p] = {}]
    /\ Goto(p, IF mode[p] = "recover" THEN "ready" ELSE "deployed")
    /\ UNCHANGED <<lock, dest, staging, backup, mode, plan, todo, cur, aborts>>

\* The command drops the Storage, having deployed or only recovered.
Close(p) ==
    /\ pc[p] \in {"ready", "deployed"}
    /\ Leave(p)
    /\ UNCHANGED <<files, aborts>>

\* An I/O error, a failed pull or a killed process, anywhere.
Abort(p) ==
    /\ pc[p] # "idle"
    /\ aborts < MaxAborts
    /\ aborts' = aborts + 1
    /\ Leave(p)
    /\ UNCHANGED files

-------------------------------------------------------------------------------
\* The steps of recovery and of deploy, up to their return.
Work(p) ==
    \/ RecoverEntry(p)
    \/ Stage(p) \/ Unstage(p) \/ Checkout(p) \/ Seal(p) \/ CheckoutFails(p)
    \/ Publish(p)
    \/ ActivateEntry(p) \/ DropBackup(p) \/ Preserve(p)
    \/ Activate(p)
    \/ EntriesDone(p) \/ CleanBackup(p) \/ Complete(p)

\* What the holder of the lock does by itself.
Progress(p) == Work(p) \/ Close(p)

Step(p) == Open(p) \/ Begin(p) \/ Progress(p) \/ Abort(p)

Next == \E p \in Process : Step(p)

Spec == Init /\ [][Next]_vars

\* A process that holds the lock runs on, and a free lock is taken again: the
\* user runs another command, and every command but ps and kill opens storage.
Fairness == /\ \A p \in Process : WF_vars(Progress(p))
            /\ WF_vars(\E p \in Process : Open(p))

FairSpec == Spec /\ Fairness

-------------------------------------------------------------------------------
(***************************************************************************)
(* Properties                                                              *)
(***************************************************************************)
TypeOK ==
    /\ lock \in Process \cup {Free}
    /\ journal \in SUBSET Activation
    /\ dest \in [Dest -> Contents]
    /\ staging \in [Dest -> [Commit -> Contents]]
    /\ backup \in [Dest -> Contents]
    /\ pc \in [Process -> PCs]
    /\ mode \in [Process -> {"recover", "deploy"}]
    /\ plan \in [Process -> SUBSET Activation]
    /\ work \in [Process -> SUBSET Activation]
    /\ todo \in [Process -> SUBSET Activation]
    /\ cur \in [Process -> Activation]
    /\ aborts \in 0..MaxAborts

(***************************************************************************)
(* Whatever is on disk when a process dies, recover_activation_file can    *)
(* finish: each entry of the journal is activated, or its checkout is      *)
(* complete in its staging directory.  So the bail!s of lines 307 and 309  *)
(* are never reached.                                                      *)
(***************************************************************************)
JournalRecoverable ==
    \A a \in journal :
        /\ staging[a.dest][a.commit] \in {a.commit, Absent}
        /\ staging[a.dest][a.commit] = a.commit \/ Matches(a)

(***************************************************************************)
(* No backup outlives its transaction: finish_activation and recovery      *)
(* remove the journal only after every backup, also those that an earlier, *)
(* interrupted attempt made.                                               *)
(***************************************************************************)
NoOrphanBackup ==
    \A d \in Dest : backup[d] # Absent => \E a \in journal : a.dest = d

(***************************************************************************)
(* No rename meets a directory in its way (it would fail with ENOTEMPTY,   *)
(* and the recovery of the journal would fail there again and again), in   *)
(* the deployment or in the recovery of one interrupted anywhere.          *)
(***************************************************************************)
RenameTargetFree ==
    \A p \in Process :
        /\ pc[p] = "preserve" => backup[cur[p].dest] = Absent
        /\ pc[p] = "activate" => dest[cur[p].dest] = Absent

(***************************************************************************)
(* No step of a deployment or of a recovery puts an incomplete checkout at *)
(* a destination, though interrupted checkouts and removals leave them in  *)
(* staging directories and backups.                                        *)
(***************************************************************************)
NeverActivatesPartial ==
    [][\A d \in Dest : dest'[d] = Broken => dest[d] = Broken]_dest

(***************************************************************************)
(* deploy is atomic: publishing the journal is the one step that decides,  *)
(* for all destinations of the list together, what a restarted             *)
(* installation holds.                                                     *)
(***************************************************************************)
AfterRestart == [d \in Dest |-> IF \E a \in journal : a.dest = d
                                THEN (CHOOSE a \in journal : a.dest = d).commit
                                ELSE dest[d]]

Atomic == INSTANCE AtomicActivation WITH installed <- AfterRestart

ActivationIsAtomic == Atomic!Spec

(***************************************************************************)
(* An interrupted transaction does not stay: the next commands finish it,  *)
(* whatever they were interrupted at themselves.                           *)
(***************************************************************************)
JournalCleared == (journal # {}) ~> (journal = {})

===============================================================================
