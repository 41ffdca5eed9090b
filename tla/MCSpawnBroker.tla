----------------------------- MODULE MCSpawnBroker -----------------------------
(***************************************************************************)
(* Two connections: one asks for a command, in a nested sandbox and with a *)
(* report of its start, or tied to the bus of its caller; the other only   *)
(* probes the broker.  Two descriptor numbers, so that one is used again.  *)
(***************************************************************************)
EXTENDS SpawnBroker

CONSTANTS c1, c2

MCSends == [c \in Conn |->
              IF c = c1 THEN {[kind |-> "spawn", flags |-> {"notify", "nested"}],
                              [kind |-> "spawn", flags |-> {"watch"}]}
                        ELSE {[kind |-> "probe", flags |-> {}]}]
===============================================================================
