---------------------------- MODULE MCNestedLaunch ----------------------------
(***************************************************************************)
(* Descriptors 0 to 9, of which two arrive with the request.  The targets  *)
(* swap the numbers of the sources, replace a standard descriptor, hit the *)
(* lifecycle socket's number, and leave no number for a duplicate.         *)
(***************************************************************************)
EXTENDS NestedLaunch

MCSourceFds == <<3, 5>>

MCTargets == {<<>>, <<5, 3>>, <<0, 4>>, <<4, 6>>, <<7>>, <<9>>}

MCRequests ==
    [mode : {"nested"}, good : {TRUE}, targets : MCTargets]
        \cup [mode : {"nested", "direct"}, good : BOOLEAN, targets : {<<>>}]
===============================================================================
