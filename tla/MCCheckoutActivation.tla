------------------------- MODULE MCCheckoutActivation -------------------------
(***************************************************************************)
(* Two processes, an application and a runtime directory, an old and a new *)
(* commit; a transaction of both, and one of the runtime alone.            *)
(***************************************************************************)
EXTENDS CheckoutActivation

CONSTANTS p1, p2, app, runtime, c1, c2

MCPlans ==
    {{[dest |-> app, commit |-> c2], [dest |-> runtime, commit |-> c2]},
     {[dest |-> runtime, commit |-> c1]}}
===============================================================================
