---------------------------- MODULE MCSharedPortal ----------------------------
(* Two launches of an application and the commands that recover its portal. *)
EXTENDS SharedPortal

CONSTANTS l1, l2
===============================================================================
