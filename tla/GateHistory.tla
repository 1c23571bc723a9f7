----------------------------- MODULE GateHistory -----------------------------
(***************************************************************************)
(* Orchestrator with a history variable that remembers the group approval  *)
(* of a task until approve gives it: whether a gate was passed cannot be   *)
(* told from the record, which forgets the gate when something else takes  *)
(* the stage over.  Only TLC looks at it, on the small instances of        *)
(* MCOrchestrator.                                                         *)
(***************************************************************************)
EXTENDS MCOrchestrator

VARIABLE owed    \* the task whose group approval is owed, or Null

RememberGate ==
  owed' = IF state'.stage = "HUMAN_GROUP_APPROVAL" THEN state'.task
          ELSE IF Approve THEN Null ELSE owed

HistorySpec ==
  Init /\ owed = Null /\ [][Next /\ RememberGate]_<<vars, owed>>

\* While the group approval of a completed task is owed by the human, no
\* Agent works on a task and no final verification is made, whatever took
\* the stage over meanwhile.  A task that an authority change reopened is
\* not owed an approval any more.
GroupApprovalHolds ==
  /\ invoking /\ state.stage \in TaskStages \cup {"FINAL_VERIFICATION"}
  /\ owed # Null
  => state.items[owed] # "COMPLETED"

=============================================================================
