--------------------------- MODULE MCSandboxRecovery ---------------------------
(***************************************************************************)
(* A launch that spawns a nested sandbox, beside starting commands.        *)
(***************************************************************************)
EXTENDS SandboxRecovery

CONSTANTS first, nested, q1, q2

MCParent == [r \in Root |-> IF r = nested THEN first ELSE None]
===============================================================================
