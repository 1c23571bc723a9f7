--------------------------- MODULE MCOrchestrator ---------------------------
(* Values for the constants of Orchestrator on small instances. *)
EXTENDS OrchestratorProperties

CONSTANTS t1, t2, t3

TwoTasks == {t1, t2}
ThreeTasks == {t1, t2, t3}

DeclaredOrder == [t \in Task |-> CASE t = t1 -> 1 [] t = t2 -> 2 [] OTHER -> 3]

\* t2 follows t1; t3, where it exists, is independent.
Chain == [t \in Task |-> IF t = t2 THEN {t1} ELSE {}]

\* The last task needs the first one; t2 is independent.
LastNeedsFirst == [t \in Task |-> IF t = t3 THEN {t1} ELSE {}]

SingleScopes == {{t} : t \in Task}
ScopesWithUnknown == {{t} : t \in Task} \cup {{}}

AllScopes == SUBSET Task

AllVerdicts == Verdict

\* The verdicts that keep the work going.
WorkingVerdicts == {"APPROVED", "REQUIRES_PATCH", "PLAN_TASK_DEFECT", "SCOPED"}
Approving == {"APPROVED"}
=============================================================================
