--------------------------- MODULE AtomicActivation ---------------------------
(***************************************************************************)
(* What Storage::deploy promises: the checkouts of one transaction appear  *)
(* together, in one step, and nothing else ever changes a destination.     *)
(***************************************************************************)
CONSTANTS Dest,      \* destination directories
          Commit,    \* commit checksums
          Absent,    \* content of a path that does not exist
          Broken,    \* content of an incomplete checkout
          Plans      \* the deployment lists a command may ask for

VARIABLE installed   \* what a restarted installation will hold at each path

Activation == [dest : Dest, commit : Commit]

Contents == Commit \cup {Absent, Broken}

\* What the paths hold once every activation of S is in place over f.
Activated(f, S) ==
    [d \in Dest |-> IF \E a \in S : a.dest = d
                    THEN (CHOOSE a \in S : a.dest = d).commit
                    ELSE f[d]]

Init == installed \in [Dest -> Contents]

Deploy(plan) == installed' = Activated(installed, plan)

Next == \E plan \in Plans : Deploy(plan)

Spec == Init /\ [][Next]_installed
===============================================================================
