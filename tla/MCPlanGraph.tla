--------------------------- MODULE MCPlanGraph ---------------------------
(* A declaration of two tasks, and graphs over three. *)
EXTENDS PlanGraph, TLC

CONSTANTS t1, t2, t3

\* t2 follows t1; a graph may add t3.
Chain == t1 :> {} @@ t2 :> {t1}
=============================================================================
