----------------------- MODULE CheckoutActivationProofs -----------------------
(***************************************************************************)
(* Proofs about CheckoutActivation, for any sets of processes, directories *)
(* and commits, any deployment lists and any number of crashes.            *)
(***************************************************************************)
EXTENDS CheckoutActivation, TLAPS

Staging == {"stage", "unstage", "checkout", "seal"}
Moving == {"next", "drop", "preserve", "activate"}
Visiting == {"unstage", "checkout", "seal", "drop", "preserve", "activate"}

Distinct(S) == \A a, b \in S : a.dest = b.dest => a = b

Staged(a) == staging[a.dest][a.commit] = a.commit

\* Only the holder of the flock is inside Storage.
HolderInv == \A p \in Process : pc[p] # "idle" => lock = p

\* The journal is the transaction of the process that works on it.
JournalInv ==
    /\ Distinct(journal)
    /\ \A p \in Process :
          /\ pc[p] \in Staging \cup {"ready", "deployed"} => journal = {}
          /\ pc[p] \in Moving \cup {"clean"} => journal = work[p]

\* The loops visit the entries of the transaction.
WorkInv ==
    \A p \in Process :
        /\ Distinct(work[p])
        /\ todo[p] \subseteq work[p]
        /\ pc[p] \in Visiting => cur[p] \in todo[p]

\* What has been staged before the journal is published, and which entries of
\* the list the transaction leaves out.
StageInv ==
    \A p \in Process : pc[p] \in Staging =>
        /\ \A a \in work[p] \ todo[p] : Staged(a)
        /\ plan[p] \in Plans
        /\ work[p] \subseteq plan[p]
        /\ \A a \in plan[p] \ work[p] : Matches(a)

\* What has been activated, and what is still staged.
MoveInv ==
    \A p \in Process :
        /\ pc[p] \in Moving => \A a \in work[p] \ todo[p] : Matches(a)
        /\ pc[p] \in Moving /\ mode[p] = "deploy" =>
               \A a \in todo[p] : Staged(a)
        /\ pc[p] \in {"drop", "preserve", "activate"} => Staged(cur[p])
        /\ pc[p] = "clean" => \A a \in work[p] : Matches(a)

\* What has been cleaned.
CleanInv ==
    \A p \in Process : pc[p] = "clean" =>
        \A a \in work[p] \ todo[p] : backup[a.dest] = Absent

\* In staging mode a process deploys.
ModeInv == \A p \in Process : pc[p] \in Staging => mode[p] = "deploy"

IInv ==
    /\ TypeOK
    /\ HolderInv
    /\ JournalInv
    /\ WorkInv
    /\ StageInv
    /\ MoveInv
    /\ CleanInv
    /\ ModeInv
    /\ JournalRecoverable
    /\ NoOrphanBackup
    /\ RenameTargetFree

USE DEF Staging, Moving, Visiting, PCs, files, locals

-------------------------------------------------------------------------------
(***************************************************************************)
(* Lemmas about the vocabulary of the model                                *)
(***************************************************************************)

\* A step of a removal leaves a content.
LEMMA ErodeType == \A content : Erode(content) \in Contents
  BY DEF Erode, Contents

\* SetStaging changes the staging directory of its activation and no other.
LEMMA SetStagingFrame ==
    ASSUME TypeOK, NEW a \in Activation, NEW content \in Contents,
           SetStaging(a, content)
    PROVE  /\ staging' \in [Dest -> [Commit -> Contents]]
           /\ staging'[a.dest][a.commit] = content
           /\ \A b \in Activation \ {a} :
                 staging'[b.dest][b.commit] = staging[b.dest][b.commit]
<1>1. /\ a.dest \in Dest /\ a.commit \in Commit
      /\ a = [dest |-> a.dest, commit |-> a.commit]
  BY DEF Activation
<1>2. staging' \in [Dest -> [Commit -> Contents]]
  BY <1>1 DEF TypeOK, SetStaging
<1>3. staging'[a.dest][a.commit] = content
  BY <1>1 DEF TypeOK, SetStaging
<1>4. ASSUME NEW b \in Activation \ {a}
      PROVE  staging'[b.dest][b.commit] = staging[b.dest][b.commit]
  <2>1. /\ b.dest \in Dest /\ b.commit \in Commit
        /\ b.dest # a.dest \/ b.commit # a.commit
    BY <1>1 DEF Activation
  <2> QED  BY <1>1, <2>1 DEF SetStaging
<1> QED  BY <1>2, <1>3, <1>4

\* The process inside Storage is alone there.
LEMMA OthersIdle ==
    ASSUME HolderInv, NEW p \in Process, pc[p] # "idle"
    PROVE  \A q \in Process \ {p} : pc[q] = "idle"
  BY DEF HolderInv

\* Two entries of a transaction have different destinations.
LEMMA OtherDest ==
    ASSUME WorkInv, NEW p \in Process, pc[p] \in Visiting
    PROVE  \A a \in work[p] \ {cur[p]} : a.dest # cur[p].dest
  BY DEF WorkInv, Distinct

-------------------------------------------------------------------------------
(***************************************************************************)
(* Each action preserves the inductive invariant                           *)
(***************************************************************************)

LEMMA OpenStep ==
    ASSUME IInv, NEW p \in Process, Open(p)
    PROVE  IInv'
<1>1. HolderInv'
  BY ProcessAssumption DEF IInv, HolderInv, Open, Goto
<1>2. JournalInv'
  BY DEF IInv, TypeOK, JournalInv, Open, Goto
<1>3. WorkInv'
  BY PlanAssumption DEF IInv, TypeOK, JournalInv, WorkInv, Open, Goto
<1>4. MoveInv'
  BY ContentAssumption DEF IInv, TypeOK, JournalInv, StageInv, MoveInv,
     Staged, Matches, Open, Goto
<1>5. /\ TypeOK' /\ StageInv' /\ CleanInv' /\ ModeInv'
      /\ JournalRecoverable' /\ NoOrphanBackup' /\ RenameTargetFree'
  BY ContentAssumption, BoundAssumption, PathAssumption, PlanAssumption DEF
     IInv, TypeOK, StageInv, Staged, Matches, CleanInv, ModeInv, JournalInv,
     JournalRecoverable, NoOrphanBackup, RenameTargetFree, AnyActivation,
     Open, Goto
<1> QED  BY <1>1, <1>2, <1>3, <1>4, <1>5 DEF IInv

LEMMA BeginStep ==
    ASSUME IInv, NEW p \in Process, Begin(p)
    PROVE  IInv'
<1>1. \A q \in Process \ {p} : pc[q] = "idle"
  BY OthersIdle DEF IInv, Begin, BeginPlan
<1>2. TypeOK'
  BY <1>1, ContentAssumption, BoundAssumption, PathAssumption, PlanAssumption
     DEF IInv, TypeOK, AnyActivation, Begin, BeginPlan, Goto, Matches
<1>3. WorkInv'
  BY <1>1, PlanAssumption DEF IInv, TypeOK, JournalInv, WorkInv, Distinct,
     Begin, BeginPlan, Goto, Matches
<1>4. StageInv'
  BY <1>1, PlanAssumption DEF IInv, TypeOK, StageInv, Staged, Matches, Begin, BeginPlan,
     Goto
<1>5. /\ HolderInv' /\ JournalInv' /\ MoveInv' /\ CleanInv'
      /\ ModeInv' /\ JournalRecoverable' /\ NoOrphanBackup' /\ RenameTargetFree'
  BY <1>1, ContentAssumption DEF IInv, TypeOK, HolderInv, JournalInv,
     StageInv, MoveInv, Staged, Matches, CleanInv, ModeInv,
     JournalRecoverable, NoOrphanBackup, RenameTargetFree, Begin, BeginPlan, Goto
<1> QED  BY <1>2, <1>3, <1>4, <1>5 DEF IInv

LEMMA StageStep ==
    ASSUME IInv, NEW p \in Process, Stage(p)
    PROVE  IInv'
<1>1. \A q \in Process \ {p} : pc[q] = "idle"
  BY OthersIdle DEF IInv, Stage
<1>2. WorkInv'
  BY <1>1, PlanAssumption DEF IInv, TypeOK, JournalInv, WorkInv, Stage, Goto
<1>3. /\ TypeOK' /\ HolderInv' /\ JournalInv' /\ StageInv'
      /\ MoveInv' /\ CleanInv' /\ ModeInv' /\ JournalRecoverable'
      /\ NoOrphanBackup' /\ RenameTargetFree'
  BY <1>1, ContentAssumption, BoundAssumption, PathAssumption, PlanAssumption
     DEF IInv, TypeOK, HolderInv, JournalInv, StageInv, Staged, Matches,
     MoveInv, CleanInv, ModeInv, JournalRecoverable, NoOrphanBackup,
     RenameTargetFree, AnyActivation, Stage, Goto
<1> QED  BY <1>2, <1>3 DEF IInv

LEMMA UnstageStep ==
    ASSUME IInv, NEW p \in Process, Unstage(p)
    PROVE  IInv'
<1>1. \A q \in Process \ {p} : pc[q] = "idle"
  BY OthersIdle DEF IInv, Unstage
<1>2. /\ cur[p] \in todo[p] /\ cur[p] \in work[p] /\ cur[p] \in Activation
      /\ cur[p].dest \in Dest /\ cur[p].commit \in Commit
  BY DEF IInv, TypeOK, WorkInv, Activation, Unstage
<1>3. \A a \in work[p] \ {cur[p]} : a.dest # cur[p].dest
  BY OtherDest DEF IInv, Unstage
<1>4. /\ staging' \in [Dest -> [Commit -> Contents]]
      /\ staging'[cur[p].dest][cur[p].commit] = Erode(staging[cur[p].dest][cur[p].commit])
      /\ \A b \in Activation \ {cur[p]} :
            staging'[b.dest][b.commit] = staging[b.dest][b.commit]
  BY <1>2, SetStagingFrame, ErodeType DEF IInv, Unstage
<1>5. TypeOK'
  BY <1>1, <1>2, <1>3, <1>4, ContentAssumption, BoundAssumption,
     PathAssumption DEF IInv, TypeOK, AnyActivation, Unstage, Goto
<1>6. StageInv'
  BY <1>1, <1>2, <1>3, <1>4, PlanAssumption DEF IInv, TypeOK, StageInv,
     Staged, Matches, Unstage, Goto
<1>7. MoveInv'
  BY <1>1, <1>2, <1>3, <1>4, ContentAssumption DEF IInv, TypeOK, JournalInv,
     StageInv, MoveInv, Staged, Matches, Unstage, Goto
<1>8. WorkInv'
  BY <1>1, <1>2, <1>3, <1>4, PlanAssumption DEF IInv, TypeOK, JournalInv,
     WorkInv, Unstage, Goto
<1>9. JournalInv'
  BY <1>1, <1>2, <1>3, <1>4 DEF IInv, TypeOK, JournalInv, Unstage, Goto
<1>10. JournalRecoverable'
  BY <1>1, <1>2, <1>3, <1>4, ContentAssumption DEF IInv, JournalInv,
     JournalRecoverable, Matches, Unstage
<1>11. /\ HolderInv' /\ CleanInv' /\ ModeInv' /\ NoOrphanBackup'
      /\ RenameTargetFree'
  BY <1>1, <1>2, <1>3, <1>4, ContentAssumption DEF IInv, TypeOK, HolderInv,
     CleanInv, ModeInv, JournalInv, NoOrphanBackup, RenameTargetFree, Unstage,
     Goto
<1> QED  BY <1>5, <1>6, <1>7, <1>8, <1>9, <1>10, <1>11 DEF IInv

LEMMA CheckoutStep ==
    ASSUME IInv, NEW p \in Process, Checkout(p)
    PROVE  IInv'
<1>1. \A q \in Process \ {p} : pc[q] = "idle"
  BY OthersIdle DEF IInv, Checkout
<1>2. /\ cur[p] \in todo[p] /\ cur[p] \in work[p] /\ cur[p] \in Activation
      /\ cur[p].dest \in Dest /\ cur[p].commit \in Commit
  BY DEF IInv, TypeOK, WorkInv, Activation, Checkout
<1>3. \A a \in work[p] \ {cur[p]} : a.dest # cur[p].dest
  BY OtherDest DEF IInv, Checkout
<1>4. /\ staging' \in [Dest -> [Commit -> Contents]]
      /\ staging'[cur[p].dest][cur[p].commit] = Broken
      /\ \A b \in Activation \ {cur[p]} :
            staging'[b.dest][b.commit] = staging[b.dest][b.commit]
  BY <1>2, SetStagingFrame, ErodeType DEF IInv, Checkout, Contents
<1>5. StageInv'
  BY <1>1, <1>2, <1>3, <1>4, PlanAssumption DEF IInv, StageInv, Staged,
     Matches, Checkout, Goto
<1>6. /\ TypeOK' /\ HolderInv' /\ JournalInv' /\ WorkInv'
      /\ MoveInv' /\ CleanInv' /\ ModeInv' /\ JournalRecoverable'
      /\ NoOrphanBackup' /\ RenameTargetFree'
  BY <1>1, <1>2, <1>3, <1>4, ContentAssumption, BoundAssumption,
     PathAssumption, PlanAssumption DEF IInv, TypeOK, HolderInv, JournalInv,
     WorkInv, StageInv, MoveInv, Staged, Matches, CleanInv, ModeInv,
     JournalRecoverable, NoOrphanBackup, RenameTargetFree, AnyActivation,
     Checkout, Goto
<1> QED  BY <1>5, <1>6 DEF IInv

LEMMA SealStep ==
    ASSUME IInv, NEW p \in Process, Seal(p)
    PROVE  IInv'
<1>1. \A q \in Process \ {p} : pc[q] = "idle"
  BY OthersIdle DEF IInv, Seal
<1>2. /\ cur[p] \in todo[p] /\ cur[p] \in work[p] /\ cur[p] \in Activation
      /\ cur[p].dest \in Dest /\ cur[p].commit \in Commit
  BY DEF IInv, TypeOK, WorkInv, Activation, Seal
<1>3. \A a \in work[p] \ {cur[p]} : a.dest # cur[p].dest
  BY OtherDest DEF IInv, Seal
<1>4. /\ staging' \in [Dest -> [Commit -> Contents]]
      /\ staging'[cur[p].dest][cur[p].commit] = cur[p].commit
      /\ \A b \in Activation \ {cur[p]} :
            staging'[b.dest][b.commit] = staging[b.dest][b.commit]
  BY <1>2, SetStagingFrame, ErodeType DEF IInv, Seal, Contents
<1>5. StageInv'
  BY <1>1, <1>2, <1>3, <1>4, PlanAssumption DEF IInv, StageInv, Staged,
     Matches, Seal, Goto
<1>6. /\ TypeOK' /\ HolderInv' /\ JournalInv' /\ WorkInv'
      /\ MoveInv' /\ CleanInv' /\ ModeInv' /\ JournalRecoverable'
      /\ NoOrphanBackup' /\ RenameTargetFree'
  BY <1>1, <1>2, <1>3, <1>4, ContentAssumption, BoundAssumption,
     PathAssumption, PlanAssumption DEF IInv, TypeOK, HolderInv, JournalInv,
     WorkInv, StageInv, MoveInv, Staged, Matches, CleanInv, ModeInv,
     JournalRecoverable, NoOrphanBackup, RenameTargetFree, AnyActivation,
     Seal, Goto
<1> QED  BY <1>5, <1>6 DEF IInv

LEMMA CheckoutFailsStep ==
    ASSUME IInv, NEW p \in Process, CheckoutFails(p)
    PROVE  IInv'
<1>1. \A q \in Process \ {p} : pc[q] = "idle"
  BY OthersIdle DEF IInv, CheckoutFails
<1>2. /\ cur[p] \in todo[p] /\ cur[p] \in work[p] /\ cur[p] \in Activation
      /\ cur[p].dest \in Dest /\ cur[p].commit \in Commit
  BY DEF IInv, TypeOK, WorkInv, Activation, CheckoutFails
<1>3. \A a \in work[p] \ {cur[p]} : a.dest # cur[p].dest
  BY OtherDest DEF IInv, CheckoutFails
<1>4. /\ staging' \in [Dest -> [Commit -> Contents]]
      /\ staging'[cur[p].dest][cur[p].commit] = Absent
      /\ \A b \in Activation \ {cur[p]} :
            staging'[b.dest][b.commit] = staging[b.dest][b.commit]
  BY <1>2, SetStagingFrame, ErodeType DEF IInv, CheckoutFails, Contents
<1>5. TypeOK'
  BY <1>1, <1>2, <1>3, <1>4, ContentAssumption, BoundAssumption,
     PathAssumption DEF IInv, TypeOK, AnyActivation, CheckoutFails, Leave,
     Goto
<1>6. StageInv'
  BY <1>1, <1>2, <1>3, <1>4, PlanAssumption DEF IInv, TypeOK, StageInv,
     Staged, Matches, CheckoutFails, Leave, Goto
<1>7. /\ HolderInv' /\ JournalInv' /\ WorkInv' /\ MoveInv'
      /\ CleanInv' /\ ModeInv' /\ JournalRecoverable' /\ NoOrphanBackup'
      /\ RenameTargetFree'
  BY <1>1, <1>2, <1>3, <1>4, PlanAssumption, ContentAssumption DEF IInv,
     TypeOK, HolderInv, JournalInv, WorkInv, Distinct, StageInv, MoveInv,
     Staged, Matches, CleanInv, ModeInv, JournalRecoverable, NoOrphanBackup,
     RenameTargetFree, CheckoutFails, Leave, Goto
<1> QED  BY <1>5, <1>6, <1>7 DEF IInv

LEMMA PublishStep ==
    ASSUME IInv, NEW p \in Process, Publish(p)
    PROVE  IInv'
<1>1. \A q \in Process \ {p} : pc[q] = "idle"
  BY OthersIdle DEF IInv, Publish
<1>2. JournalInv'
  BY <1>1 DEF IInv, TypeOK, JournalInv, WorkInv, Publish, Goto
<1>3. MoveInv'
  BY <1>1, ContentAssumption DEF IInv, TypeOK, JournalInv, StageInv, MoveInv,
     Staged, Matches, Publish, Goto
<1>4. JournalRecoverable'
  BY <1>1, ContentAssumption DEF IInv, JournalInv, JournalRecoverable,
     Matches, StageInv, Staged, Publish
<1>5. /\ TypeOK' /\ HolderInv' /\ WorkInv' /\ StageInv'
      /\ CleanInv' /\ ModeInv' /\ NoOrphanBackup' /\ RenameTargetFree'
  BY <1>1, ContentAssumption, BoundAssumption, PathAssumption, PlanAssumption
     DEF IInv, TypeOK, HolderInv, JournalInv, WorkInv, StageInv, Staged,
     Matches, CleanInv, ModeInv, NoOrphanBackup, RenameTargetFree,
     AnyActivation, Publish, Goto
<1> QED  BY <1>2, <1>3, <1>4, <1>5 DEF IInv

LEMMA ActivateEntryStep ==
    ASSUME IInv, NEW p \in Process, ActivateEntry(p)
    PROVE  IInv'
<1>1. \A q \in Process \ {p} : pc[q] = "idle"
  BY OthersIdle DEF IInv, ActivateEntry
<1>2. WorkInv'
  BY <1>1, PlanAssumption DEF IInv, TypeOK, JournalInv, WorkInv,
     ActivateEntry, Goto
<1>3. MoveInv'
  BY <1>1, ContentAssumption DEF IInv, TypeOK, JournalInv, StageInv, MoveInv,
     Staged, Matches, ActivateEntry, Goto
<1>4. /\ TypeOK' /\ HolderInv' /\ JournalInv' /\ StageInv'
      /\ CleanInv' /\ ModeInv' /\ JournalRecoverable' /\ NoOrphanBackup'
      /\ RenameTargetFree'
  BY <1>1, ContentAssumption, BoundAssumption, PathAssumption, PlanAssumption
     DEF IInv, TypeOK, HolderInv, JournalInv, StageInv, Staged, Matches,
     CleanInv, ModeInv, JournalRecoverable, NoOrphanBackup, RenameTargetFree,
     AnyActivation, ActivateEntry, Goto
<1> QED  BY <1>2, <1>3, <1>4 DEF IInv

LEMMA DropBackupStep ==
    ASSUME IInv, NEW p \in Process, DropBackup(p)
    PROVE  IInv'
<1>1. \A q \in Process \ {p} : pc[q] = "idle"
  BY OthersIdle DEF IInv, DropBackup
<1>2. /\ cur[p] \in todo[p] /\ cur[p] \in work[p] /\ cur[p] \in Activation
      /\ cur[p].dest \in Dest /\ cur[p].commit \in Commit
  BY DEF IInv, TypeOK, WorkInv, Activation, DropBackup
<1>3. \A a \in work[p] \ {cur[p]} : a.dest # cur[p].dest
  BY OtherDest DEF IInv, DropBackup
<1>4. TypeOK'
  BY <1>1, <1>2, <1>3, ContentAssumption, BoundAssumption, PathAssumption DEF
     IInv, TypeOK, Contents, AnyActivation, Erode, DropBackup, Goto
<1>5. WorkInv'
  BY <1>1, <1>2, <1>3, PlanAssumption DEF IInv, TypeOK, JournalInv, WorkInv,
     DropBackup, Goto
<1>6. MoveInv'
  BY <1>1, <1>2, <1>3, ContentAssumption DEF IInv, TypeOK, JournalInv,
     StageInv, MoveInv, Staged, Matches, DropBackup, Goto
<1>7. NoOrphanBackup'
  BY <1>1, <1>2, <1>3, ContentAssumption DEF IInv, JournalInv, CleanInv,
     NoOrphanBackup, DropBackup
<1>8. RenameTargetFree'
  BY <1>1, <1>2, <1>3, ContentAssumption DEF IInv, TypeOK, JournalInv,
     RenameTargetFree, Erode, DropBackup, Goto
<1>9. /\ HolderInv' /\ JournalInv' /\ StageInv' /\ CleanInv'
      /\ ModeInv' /\ JournalRecoverable'
  BY <1>1, <1>2, <1>3, PlanAssumption, ContentAssumption DEF IInv, TypeOK,
     HolderInv, JournalInv, StageInv, Staged, Matches, CleanInv, ModeInv,
     JournalRecoverable, DropBackup, Goto
<1> QED  BY <1>4, <1>5, <1>6, <1>7, <1>8, <1>9 DEF IInv

LEMMA PreserveStep ==
    ASSUME IInv, NEW p \in Process, Preserve(p)
    PROVE  IInv'
<1>1. \A q \in Process \ {p} : pc[q] = "idle"
  BY OthersIdle DEF IInv, Preserve
<1>2. /\ cur[p] \in todo[p] /\ cur[p] \in work[p] /\ cur[p] \in Activation
      /\ cur[p].dest \in Dest /\ cur[p].commit \in Commit
  BY DEF IInv, TypeOK, WorkInv, Activation, Preserve
<1>3. \A a \in work[p] \ {cur[p]} : a.dest # cur[p].dest
  BY OtherDest DEF IInv, Preserve
<1>4. MoveInv'
  BY <1>1, <1>2, <1>3, ContentAssumption DEF IInv, JournalInv, StageInv,
     MoveInv, Staged, Matches, Preserve, Goto
<1>5. JournalRecoverable'
  BY <1>1, <1>2, <1>3, ContentAssumption DEF IInv, JournalInv,
     JournalRecoverable, Matches, MoveInv, Staged, Preserve
<1>6. NoOrphanBackup'
  BY <1>1, <1>2, <1>3, ContentAssumption DEF IInv, JournalInv, CleanInv,
     NoOrphanBackup, Preserve
<1>7. RenameTargetFree'
  BY <1>1, <1>2, <1>3 DEF IInv, TypeOK, JournalInv, RenameTargetFree,
     Preserve, Goto
<1>8. /\ TypeOK' /\ HolderInv' /\ JournalInv' /\ WorkInv'
      /\ StageInv' /\ CleanInv' /\ ModeInv'
  BY <1>1, <1>2, <1>3, ContentAssumption, BoundAssumption, PathAssumption,
     PlanAssumption DEF IInv, TypeOK, HolderInv, JournalInv, WorkInv,
     StageInv, Staged, Matches, CleanInv, ModeInv, Contents, AnyActivation,
     Preserve, Goto
<1> QED  BY <1>4, <1>5, <1>6, <1>7, <1>8 DEF IInv

\* The staging directory is still there, so the rename does not fail.
LEMMA ActivateRenames ==
    ASSUME IInv, NEW p \in Process, Activate(p)
    PROVE  pc[p] = "activate" /\ RenameStaging(p)
<1>1. /\ Staged(cur[p])
      /\ cur[p].commit # Absent
  BY ContentAssumption DEF IInv, TypeOK, MoveInv, Activation, Activate
<1> QED  BY <1>1 DEF Activate, Staged

LEMMA ActivateStep ==
    ASSUME IInv, NEW p \in Process, Activate(p)
    PROVE  IInv'
<1>0. pc[p] = "activate" /\ RenameStaging(p)
  BY ActivateRenames
<1>1. \A q \in Process \ {p} : pc[q] = "idle"
  BY OthersIdle DEF IInv, Activate
<1>2. /\ cur[p] \in todo[p] /\ cur[p] \in work[p] /\ cur[p] \in Activation
      /\ cur[p].dest \in Dest /\ cur[p].commit \in Commit
  BY DEF IInv, TypeOK, WorkInv, Activation, Activate
<1>3. \A a \in work[p] \ {cur[p]} : a.dest # cur[p].dest
  BY OtherDest DEF IInv, Activate
<1>4. /\ staging' \in [Dest -> [Commit -> Contents]]
      /\ staging'[cur[p].dest][cur[p].commit] = Absent
      /\ \A b \in Activation \ {cur[p]} :
            staging'[b.dest][b.commit] = staging[b.dest][b.commit]
  BY <1>0, <1>2, SetStagingFrame, ErodeType DEF IInv, RenameStaging, Contents
<1>5. dest' = [dest EXCEPT ![cur[p].dest] = cur[p].commit]
  BY <1>0 DEF IInv, MoveInv, Staged, RenameStaging
<1>6. TypeOK'
  BY <1>0, <1>1, <1>2, <1>3, <1>4, <1>5, ContentAssumption, BoundAssumption,
     PathAssumption DEF IInv, TypeOK, Contents, AnyActivation,
     RenameStaging, Goto
<1>7. MoveInv'
  BY <1>0, <1>1, <1>2, <1>3, <1>4, <1>5, ContentAssumption DEF IInv, TypeOK,
     JournalInv, StageInv, MoveInv, Staged, Matches, RenameStaging, Goto
<1>8. JournalRecoverable'
  BY <1>0, <1>1, <1>2, <1>3, <1>4, <1>5, ContentAssumption DEF IInv, TypeOK,
     JournalInv, JournalRecoverable, Matches, RenameStaging
<1>9. /\ HolderInv' /\ JournalInv' /\ WorkInv' /\ StageInv'
      /\ CleanInv' /\ ModeInv' /\ NoOrphanBackup' /\ RenameTargetFree'
  BY <1>0, <1>1, <1>2, <1>3, <1>4, <1>5, PlanAssumption, ContentAssumption DEF IInv,
     TypeOK, HolderInv, JournalInv, WorkInv, StageInv, Staged, Matches,
     CleanInv, ModeInv, NoOrphanBackup, RenameTargetFree,
     RenameStaging, Goto
<1> QED  BY <1>6, <1>7, <1>8, <1>9 DEF IInv

LEMMA EntriesDoneStep ==
    ASSUME IInv, NEW p \in Process, EntriesDone(p)
    PROVE  IInv'
<1>1. \A q \in Process \ {p} : pc[q] = "idle"
  BY OthersIdle DEF IInv, EntriesDone
<1>2. MoveInv'
  BY <1>1, ContentAssumption DEF IInv, TypeOK, JournalInv, StageInv, MoveInv,
     Staged, Matches, EntriesDone, Goto
<1>3. CleanInv'
  BY <1>1 DEF IInv, TypeOK, CleanInv, EntriesDone, Goto
<1>4. /\ TypeOK' /\ HolderInv' /\ JournalInv' /\ WorkInv'
      /\ StageInv' /\ ModeInv' /\ JournalRecoverable' /\ NoOrphanBackup'
      /\ RenameTargetFree'
  BY <1>1, ContentAssumption, BoundAssumption, PathAssumption, PlanAssumption
     DEF IInv, TypeOK, HolderInv, JournalInv, WorkInv, StageInv, Staged,
     Matches, ModeInv, JournalRecoverable, CleanInv, NoOrphanBackup,
     RenameTargetFree, AnyActivation, EntriesDone, Goto
<1> QED  BY <1>2, <1>3, <1>4 DEF IInv

LEMMA CleanBackupStep ==
    ASSUME IInv, NEW p \in Process, CleanBackup(p)
    PROVE  IInv'
<1>1. \A q \in Process \ {p} : pc[q] = "idle"
  BY OthersIdle DEF IInv, CleanBackup
<1>2. TypeOK'
  BY <1>1, ContentAssumption, BoundAssumption, PathAssumption DEF IInv,
     TypeOK, Contents, Activation, AnyActivation, Erode, CleanBackup
<1>3. CleanInv'
  BY <1>1, ContentAssumption DEF IInv, CleanInv, Erode, CleanBackup
<1>4. NoOrphanBackup'
  BY <1>1, ContentAssumption DEF IInv, JournalInv, WorkInv, CleanInv,
     NoOrphanBackup, CleanBackup
<1>5. /\ HolderInv' /\ JournalInv' /\ WorkInv' /\ StageInv'
      /\ MoveInv' /\ ModeInv' /\ JournalRecoverable' /\ RenameTargetFree'
  BY <1>1, PlanAssumption, ContentAssumption DEF IInv, HolderInv, JournalInv,
     WorkInv, StageInv, Staged, Matches, MoveInv, ModeInv, JournalRecoverable,
     RenameTargetFree, CleanBackup
<1> QED  BY <1>2, <1>3, <1>4, <1>5 DEF IInv

LEMMA CompleteStep ==
    ASSUME IInv, NEW p \in Process, Complete(p)
    PROVE  IInv'
<1>1. \A q \in Process \ {p} : pc[q] = "idle"
  BY OthersIdle DEF IInv, Complete
<1>2. JournalInv'
  BY <1>1 DEF IInv, TypeOK, JournalInv, Distinct, Complete, Goto
<1>3. NoOrphanBackup'
  BY <1>1, ContentAssumption DEF IInv, JournalInv, CleanInv, NoOrphanBackup,
     Complete
<1>4. /\ TypeOK' /\ HolderInv' /\ WorkInv' /\ StageInv'
      /\ MoveInv' /\ CleanInv' /\ ModeInv' /\ JournalRecoverable'
      /\ RenameTargetFree'
  BY <1>1, ContentAssumption, BoundAssumption, PathAssumption, PlanAssumption
     DEF IInv, TypeOK, HolderInv, JournalInv, WorkInv, Distinct, StageInv,
     Staged, Matches, MoveInv, CleanInv, ModeInv, JournalRecoverable,
     RenameTargetFree, AnyActivation, Complete, Goto
<1> QED  BY <1>2, <1>3, <1>4 DEF IInv

LEMMA CloseStep ==
    ASSUME IInv, NEW p \in Process, Close(p)
    PROVE  IInv'
<1>1. \A q \in Process \ {p} : pc[q] = "idle"
  BY OthersIdle DEF IInv, Close
<1>2. TypeOK'
  BY <1>1, ContentAssumption, BoundAssumption, PathAssumption DEF IInv,
     TypeOK, AnyActivation, Close, Leave, Goto
<1>3. /\ HolderInv' /\ JournalInv' /\ WorkInv' /\ StageInv'
      /\ MoveInv' /\ CleanInv' /\ ModeInv' /\ JournalRecoverable'
      /\ NoOrphanBackup' /\ RenameTargetFree'
  BY <1>1, PlanAssumption, ContentAssumption DEF IInv, TypeOK, HolderInv,
     JournalInv, WorkInv, Distinct, StageInv, Staged, Matches, MoveInv,
     CleanInv, ModeInv, JournalRecoverable, NoOrphanBackup, RenameTargetFree,
     Close, Leave, Goto
<1> QED  BY <1>2, <1>3 DEF IInv

LEMMA AbortStep ==
    ASSUME IInv, NEW p \in Process, Abort(p)
    PROVE  IInv'
<1>1. \A q \in Process \ {p} : pc[q] = "idle"
  BY OthersIdle DEF IInv, Abort
<1>2. TypeOK'
  BY <1>1, ContentAssumption, BoundAssumption, PathAssumption DEF IInv,
     TypeOK, AnyActivation, Abort, Leave, Goto
<1>3. /\ HolderInv' /\ JournalInv' /\ WorkInv' /\ StageInv'
      /\ MoveInv' /\ CleanInv' /\ ModeInv' /\ JournalRecoverable'
      /\ NoOrphanBackup' /\ RenameTargetFree'
  BY <1>1, PlanAssumption, ContentAssumption DEF IInv, TypeOK, HolderInv,
     JournalInv, WorkInv, Distinct, StageInv, Staged, Matches, MoveInv,
     CleanInv, ModeInv, JournalRecoverable, NoOrphanBackup, RenameTargetFree,
     Abort, Leave, Goto
<1> QED  BY <1>2, <1>3 DEF IInv

LEMMA RecoverStagedStep ==
    ASSUME IInv, NEW p \in Process, pc[p] = "next", mode[p] = "recover",
           NEW a \in todo[p], RecoverStaged(p, a)
    PROVE  IInv'
<1>1. \A q \in Process \ {p} : pc[q] = "idle"
  BY OthersIdle DEF IInv, RecoverStaged
<1>2. WorkInv'
  BY <1>1, PlanAssumption DEF IInv, TypeOK, JournalInv, WorkInv,
     RecoverStaged, Goto
<1>3. MoveInv'
  BY <1>1, ContentAssumption DEF IInv, TypeOK, JournalInv, WorkInv, StageInv,
     MoveInv, Staged, Matches, JournalRecoverable, RecoverStaged, Goto
<1>4. RenameTargetFree'
  BY <1>1 DEF IInv, TypeOK, JournalInv, RenameTargetFree, RecoverStaged, Goto
<1>5. /\ TypeOK' /\ HolderInv' /\ JournalInv' /\ StageInv'
      /\ CleanInv' /\ ModeInv' /\ JournalRecoverable' /\ NoOrphanBackup'
  BY <1>1, ContentAssumption, BoundAssumption, PathAssumption, PlanAssumption
     DEF IInv, TypeOK, HolderInv, JournalInv, StageInv, Staged, Matches,
     CleanInv, ModeInv, JournalRecoverable, NoOrphanBackup, AnyActivation,
     RecoverStaged, Goto
<1> QED  BY <1>2, <1>3, <1>4, <1>5 DEF IInv

LEMMA RecoverActivatedStep ==
    ASSUME IInv, NEW p \in Process, pc[p] = "next", mode[p] = "recover",
           NEW a \in todo[p], RecoverActivated(p, a)
    PROVE  IInv'
<1>1. \A q \in Process \ {p} : pc[q] = "idle"
  BY OthersIdle DEF IInv, RecoverActivated
<1>2. MoveInv'
  BY <1>1, ContentAssumption DEF IInv, TypeOK, JournalInv, StageInv, MoveInv,
     Staged, Matches, JournalRecoverable, Activation, RecoverActivated
<1>3. /\ TypeOK' /\ HolderInv' /\ JournalInv' /\ WorkInv'
      /\ StageInv' /\ CleanInv' /\ ModeInv' /\ JournalRecoverable'
      /\ NoOrphanBackup' /\ RenameTargetFree'
  BY <1>1, ContentAssumption, BoundAssumption, PathAssumption, PlanAssumption
     DEF IInv, TypeOK, HolderInv, JournalInv, WorkInv, StageInv, Staged,
     Matches, CleanInv, ModeInv, JournalRecoverable, NoOrphanBackup,
     RenameTargetFree, AnyActivation, RecoverActivated
<1> QED  BY <1>2, <1>3 DEF IInv


\* Nothing is lost, so recovery never takes its two failing branches.
LEMMA RecoverEntryStep ==
    ASSUME IInv, NEW p \in Process, RecoverEntry(p)
    PROVE  IInv'
<1>1. PICK a \in todo[p] :
         RecoverStaged(p, a) \/ RecoverActivated(p, a)
            \/ RecoverRestored(p, a) \/ RecoverLost(p, a)
  BY DEF RecoverEntry
<1>2. /\ a \in journal
      /\ a.commit # Absent
  BY <1>1, ContentAssumption DEF IInv, TypeOK, JournalInv, WorkInv,
     RecoverEntry, Activation
<1>3. ~RecoverRestored(p, a) /\ ~RecoverLost(p, a)
  BY <1>2 DEF IInv, JournalRecoverable, Matches, RecoverRestored, RecoverLost
<1>4. CASE RecoverStaged(p, a)
  BY <1>4, RecoverStagedStep DEF RecoverEntry
<1>5. CASE RecoverActivated(p, a)
  BY <1>5, RecoverActivatedStep DEF RecoverEntry
<1> QED  BY <1>1, <1>3, <1>4, <1>5

LEMMA RecoveryKeepsDest ==
    ASSUME IInv, NEW p \in Process, RecoverEntry(p)
    PROVE  UNCHANGED <<journal, dest>>
<1>1. PICK a \in todo[p] :
         RecoverStaged(p, a) \/ RecoverActivated(p, a)
            \/ RecoverRestored(p, a) \/ RecoverLost(p, a)
  BY DEF RecoverEntry
<1>2. a \in journal /\ a.commit # Absent
  BY <1>1, ContentAssumption DEF IInv, TypeOK, JournalInv, WorkInv,
     RecoverEntry, Activation
<1>3. ~RecoverRestored(p, a)
  BY <1>2 DEF IInv, JournalRecoverable, Matches, RecoverRestored
<1> QED  BY <1>1, <1>3 DEF RecoverStaged, RecoverActivated, RecoverLost

LEMMA InitInv == Init => IInv
<1> SUFFICES ASSUME Init PROVE IInv
  OBVIOUS
<1>1. AnyActivation \in Activation
  <2>1. PICK d \in Dest, c \in Commit : TRUE
    BY PathAssumption
  <2>2. [dest |-> d, commit |-> c] \in Activation
    BY DEF Activation
  <2> QED  BY <2>2 DEF AnyActivation
<1>2. TypeOK
  BY <1>1, BoundAssumption DEF Init, TypeOK, Contents
<1> QED
  BY <1>2 DEF Init, IInv, HolderInv, JournalInv, WorkInv, StageInv, MoveInv,
     CleanInv, ModeInv, JournalRecoverable, NoOrphanBackup, RenameTargetFree,
     Distinct

LEMMA NextInv == IInv /\ [Next]_vars => IInv'
<1> SUFFICES ASSUME IInv, [Next]_vars PROVE IInv'
  OBVIOUS
<1>1. CASE UNCHANGED vars
  BY <1>1 DEF vars, IInv, TypeOK, HolderInv, JournalInv, WorkInv, StageInv,
     MoveInv, CleanInv, ModeInv, JournalRecoverable, NoOrphanBackup,
     RenameTargetFree, Staged, Matches
<1>2. ASSUME NEW p \in Process, Step(p) PROVE IInv'
  BY <1>2, OpenStep, BeginStep, StageStep, UnstageStep, CheckoutStep,
     SealStep, CheckoutFailsStep, PublishStep, ActivateEntryStep,
     DropBackupStep, PreserveStep, ActivateStep,
     EntriesDoneStep, CleanBackupStep, CompleteStep, CloseStep, AbortStep,
     RecoverEntryStep DEF Step, Progress, Work
<1> QED  BY <1>1, <1>2 DEF Next

(***************************************************************************)
(* The inductive invariant holds in every behaviour.                       *)
(***************************************************************************)
THEOREM Invariance == Spec => []IInv
<1> QED  BY InitInv, NextInv, PTL DEF Spec

-------------------------------------------------------------------------------
(***************************************************************************)
(* The theorems                                                            *)
(***************************************************************************)

(***************************************************************************)
(* Every variable of the storage keeps its type.                           *)
(***************************************************************************)
THEOREM TypeCorrect == Spec => []TypeOK
<1>1. IInv => TypeOK
  BY DEF IInv
<1> QED  BY <1>1, Invariance, PTL

(***************************************************************************)
(* recover_activation_file can finish any journal that a crash leaves,     *)
(* whatever the crash interrupted.                                         *)
(***************************************************************************)
THEOREM AlwaysRecoverable == Spec => []JournalRecoverable
<1>1. IInv => JournalRecoverable
  BY DEF IInv
<1> QED  BY <1>1, Invariance, PTL

(***************************************************************************)
(* A backup directory exists only while a journal names its destination.   *)
(***************************************************************************)
THEOREM NoBackupLeaks == Spec => []NoOrphanBackup
<1>1. IInv => NoOrphanBackup
  BY DEF IInv
<1> QED  BY <1>1, Invariance, PTL

(***************************************************************************)
(* The renames of finish_activation and of recovery find their target free *)
(***************************************************************************)
THEOREM RenamesSucceed == Spec => []RenameTargetFree
<1>1. IInv => RenameTargetFree
  BY DEF IInv
<1> QED  BY <1>1, Invariance, PTL

(***************************************************************************)
(* No deployment and no recovery, interrupted or not, puts an incomplete   *)
(* checkout at a destination.                                              *)
(***************************************************************************)
THEOREM OnlyCompleteCheckouts == Spec => NeverActivatesPartial
<1>1. ASSUME IInv, [Next]_vars
      PROVE  [\A d \in Dest : dest'[d] = Broken => dest[d] = Broken]_dest
  <2>1. CASE dest' = dest
    BY <2>1
  <2>2. ASSUME NEW p \in Process, Step(p), dest' # dest
        PROVE  \A d \in Dest : dest'[d] = Broken => dest[d] = Broken
    <3>1. CASE Preserve(p)
      BY <1>1, <3>1, ContentAssumption DEF IInv, Preserve
    <3>2. CASE Activate(p)
      <4>1. cur[p].commit # Broken
        BY <1>1, ContentAssumption DEF IInv, TypeOK, Activation
      <4>2. dest' = [dest EXCEPT ![cur[p].dest] = cur[p].commit]
        BY <1>1, <3>2, ActivateRenames DEF IInv, MoveInv, Staged, RenameStaging
      <4> QED  BY <1>1, <4>1, <4>2 DEF IInv
    <3>3. CASE RecoverEntry(p)
      BY <1>1, <2>2, <3>3, RecoveryKeepsDest
    <3> QED
      BY <2>2, <3>1, <3>2, <3>3 DEF Step, Progress, Work, Open, Begin, BeginPlan, Stage,
         Unstage, Checkout, Seal, CheckoutFails, Publish, ActivateEntry,
         DropBackup, EntriesDone, CleanBackup, Complete, Close,
         Abort
  <2> QED  BY <1>1, <2>2 DEF Next, vars
<1> QED  BY <1>1, Invariance, PTL DEF Spec, NeverActivatesPartial

-------------------------------------------------------------------------------
(***************************************************************************)
(* Refinement of AtomicActivation                                          *)
(***************************************************************************)

\* Publishing the journal is the step that installs the list.
LEMMA PublishInstalls ==
    ASSUME IInv, NEW p \in Process, Publish(p)
    PROVE  Atomic!Next
<1>1. /\ journal = {} /\ journal' = work[p] /\ dest' = dest
      /\ plan[p] \in Plans /\ work[p] \subseteq plan[p]
      /\ \A a \in plan[p] \ work[p] : Matches(a)
  BY DEF IInv, JournalInv, StageInv, Publish
<1>2. ASSUME NEW d \in Dest
      PROVE  AfterRestart'[d] = Atomic!Activated(AfterRestart, plan[p])[d]
  <2>1. AfterRestart[d] = dest[d]
    BY <1>1 DEF AfterRestart
  <2>2. CASE \E a \in work[p] : a.dest = d
    <3>1. PICK a \in work[p] : a.dest = d
      BY <2>2
    <3>2. /\ \A b \in plan[p] : b.dest = d => b = a
          /\ \A b \in work[p] : b.dest = d => b = a
          /\ a \in plan[p]
      BY <1>1, <3>1, PlanAssumption
    <3>3. (CHOOSE b \in work[p] : b.dest = d) = a
      BY <3>1, <3>2
    <3>4. (CHOOSE b \in plan[p] : b.dest = d) = a
      BY <3>1, <3>2
    <3> QED  BY <1>1, <3>1, <3>2, <3>3, <3>4 DEF AfterRestart,
       Atomic!Activated
  <2>3. CASE ~\E a \in work[p] : a.dest = d
    <3>1. AfterRestart'[d] = dest[d]
      BY <1>1, <2>3 DEF AfterRestart
    <3>2. CASE \E a \in plan[p] : a.dest = d
      <4>1. (CHOOSE b \in plan[p] : b.dest = d).commit = dest[d]
        BY <1>1, <2>3, <3>2 DEF Matches
      <4> QED  BY <3>1, <3>2, <4>1 DEF Atomic!Activated
    <3>3. CASE ~\E a \in plan[p] : a.dest = d
      BY <2>1, <3>1, <3>3 DEF Atomic!Activated
    <3> QED  BY <3>2, <3>3
  <2> QED  BY <2>2, <2>3
<1>3. AfterRestart' = Atomic!Activated(AfterRestart, plan[p])
  BY <1>2 DEF AfterRestart, Atomic!Activated
<1> QED  BY <1>1, <1>3 DEF Atomic!Next, Atomic!Deploy

\* Removing the journal changes nothing that a restart would see.
LEMMA CompleteStutters ==
    ASSUME IInv, NEW p \in Process, Complete(p)
    PROVE  UNCHANGED AfterRestart
<1>1. /\ journal = work[p] /\ journal' = {} /\ dest' = dest
      /\ \A a \in journal : Matches(a)
  BY DEF IInv, JournalInv, MoveInv, Complete
<1>2. ASSUME NEW d \in Dest PROVE AfterRestart'[d] = AfterRestart[d]
  BY <1>1 DEF AfterRestart, Matches
<1> QED  BY <1>2 DEF AfterRestart

\* A change at a destination that the journal names is not seen either.
LEMMA JournalHidesMoves ==
    ASSUME IInv, NEW p \in Process, Preserve(p) \/ Activate(p)
    PROVE  UNCHANGED AfterRestart
<1>1. /\ journal' = journal
      /\ cur[p] \in journal
      /\ \A d \in Dest : d # cur[p].dest => dest'[d] = dest[d]
  BY ActivateRenames DEF IInv, TypeOK, JournalInv, WorkInv, Preserve,
     Activate, RenameStaging
<1>2. ASSUME NEW d \in Dest PROVE AfterRestart'[d] = AfterRestart[d]
  BY <1>1 DEF AfterRestart
<1> QED  BY <1>2 DEF AfterRestart

(***************************************************************************)
(* The journalled transaction, with crashes and recoveries anywhere,       *)
(* implements the atomic one: publishing the journal is the one step that  *)
(* decides what a restarted installation holds, for all destinations of    *)
(* the list together.                                                      *)
(***************************************************************************)
THEOREM Refinement == Spec => ActivationIsAtomic
<1>1. Init => Atomic!Init
  BY DEF Init, AfterRestart, Atomic!Init, Contents, Atomic!Contents
<1>2. ASSUME IInv, [Next]_vars
      PROVE  Atomic!Next \/ UNCHANGED AfterRestart
  <2>1. CASE UNCHANGED <<journal, dest>>
    BY <2>1 DEF AfterRestart
  <2>2. ASSUME NEW p \in Process, Step(p), ~UNCHANGED <<journal, dest>>
        PROVE  Atomic!Next \/ UNCHANGED AfterRestart
    <3>1. CASE RecoverEntry(p)
      BY <1>2, <2>2, <3>1, RecoveryKeepsDest
    <3> QED
      BY <2>2, <3>1, PublishInstalls, CompleteStutters, JournalHidesMoves,
         <1>2 DEF Step, Progress, Work, Open, Begin, BeginPlan, Stage, Unstage, Checkout, Seal,
         CheckoutFails, ActivateEntry, DropBackup, EntriesDone,
         CleanBackup, Close, Abort
  <2> QED  BY <1>2, <2>1, <2>2 DEF Next, vars
<1> QED  BY <1>1, <1>2, Invariance, PTL DEF Spec, ActivationIsAtomic, Atomic!Spec
===============================================================================
