---------------------------- MODULE MCRecordStorage ----------------------------
(***************************************************************************)
(* Two processes and two records, each with an old and a new content.      *)
(***************************************************************************)
EXTENDS RecordStorage

CONSTANTS p1, p2, k1, k2, v1, v2
===============================================================================
