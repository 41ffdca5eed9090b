----------------------------- MODULE MCDeployments -----------------------------
(***************************************************************************)
(* An application with two versions, and a second id that may replace it;  *)
(* a runtime with two versions, and another runtime.  A configuration may  *)
(* leave out the second id, the second runtime or the repair directory.    *)
(***************************************************************************)
EXTENDS Deployments, TLC

CONSTANTS p1, p2, p3, c1, c2, app, successor, platform, sdk,
          app1, app2, app2repair, next2, platform1, platform2,
          platform2repair, sdk2

MCAppOf == [d \in Dest \cap {app1, app2, app2repair, next2} |->
              IF d = next2 THEN successor ELSE app]

MCRefOf == [d \in Dest \cap {platform1, platform2, platform2repair, sdk2} |->
              IF d = sdk2 THEN sdk ELSE platform]

MCCommitOf == [d \in Dest |-> IF d \in {app1, platform1} THEN c1 ELSE c2]

MCOffers ==
    {o \in {[app |-> app, commit |-> c1, ref |-> platform, rcommit |-> c1],
            [app |-> app, commit |-> c2, ref |-> platform, rcommit |-> c2],
            [app |-> app, commit |-> c2, ref |-> sdk, rcommit |-> c2],
            [app |-> successor, commit |-> c2, ref |-> platform, rcommit |-> c2]} :
       o.app \in App /\ o.ref \in Runtime}

MCRenames == {<<app, successor>>}

Symmetry == Permutations(Process)
===============================================================================
