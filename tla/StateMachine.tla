---------------------------- MODULE StateMachine ----------------------------
(***************************************************************************)
(* state_machine.py: the deterministic transition a validated outcome      *)
(* selects, and the two operator transitions approve and stop.             *)
(***************************************************************************)
EXTENDS WorkflowState

Successors(t) == {u \in Task : Rank[u] > Rank[t]}

\* The next task of the declared order; the first one when none is current.
NextTask(t) ==
  LET rest == IF t = Null THEN Task ELSE Successors(t)
  IN IF rest = {} THEN Null
     ELSE CHOOSE u \in rest : \A v \in rest : Rank[u] <= Rank[v]

\* _update of a normal transition: the invocation is over.
MoveTo(s, stage) ==
  [s EXCEPT !.stage = stage, !.run = FALSE, !.attempt = 0,
            !.runnerFailure = FALSE]

\* _enter_hard_stop keeps run_id, so that the evidence stays reachable.
EnterHardStop(s, code) ==
  [s EXCEPT !.stage = "HARD_STOP", !.status = "HARD_STOPPED", !.gate = Null,
            !.code = code, !.blocked = s.stage, !.recoverable = FALSE]

WaitAtGate(s, gate) ==
  [MoveTo(s, gate) EXCEPT !.gate = gate, !.status = "WAITING_HUMAN"]

AfterReviewApproved(s) ==
  IF Mode = "gated" THEN WaitAtGate(s, "HUMAN_GROUP_APPROVAL")
  ELSE IF NextTask(s.task) = Null THEN MoveTo(s, "FINAL_VERIFICATION")
  ELSE [MoveTo(s, "TASK_EXECUTION") EXCEPT !.task = NextTask(s.task)]

AfterReview(s, verdict) ==
  CASE verdict = "REQUIRES_PATCH" /\ AutoPatch -> MoveTo(s, "TASK_PATCH")
    [] verdict = "REQUIRES_PATCH" /\ ~AutoPatch ->
         EnterHardStop(s, "AUTO_PATCH_DISABLED")
    [] verdict = "PLAN_TASK_DEFECT" /\ AutoPlanDefectResolution ->
         MoveTo(s, "PLAN_DEFECT_RESOLUTION")
    [] verdict = "PLAN_TASK_DEFECT" /\ ~AutoPlanDefectResolution ->
         EnterHardStop(s, "PLAN_DEFECT_RESOLUTION_DISABLED")
    [] verdict = "APPROVED" -> AfterReviewApproved(s)
    [] OTHER -> EnterHardStop(s, "UNSUPPORTED_VERDICT")

AfterPlanReview(s, verdict) ==
  CASE verdict = "REQUIRES_PATCH" /\ AutoPlanRevisionReview ->
         MoveTo(s, "PLAN_DEFECT_RESOLUTION")
    [] verdict = "REQUIRES_PATCH" /\ ~AutoPlanRevisionReview ->
         EnterHardStop(s, "PLAN_REVIEW_PATCH_DISABLED")
    [] verdict = "APPROVED" -> WaitAtGate(s, "HUMAN_PLAN_FREEZE")
    [] OTHER -> EnterHardStop(s, "UNSUPPORTED_VERDICT")

AfterFinal(s, verdict) ==
  CASE verdict \in {"APPROVED", "COMPLETED"} /\ Mode = "gated" ->
         WaitAtGate(s, "HUMAN_FINAL_ACCEPTANCE")
    [] verdict \in {"APPROVED", "COMPLETED"} /\ Mode = "autonomous" ->
         [MoveTo(s, "COMPLETED") EXCEPT !.status = "COMPLETED"]
    [] OTHER -> EnterHardStop(s, "UNSUPPORTED_VERDICT")

\* transition_after_outcome for the verdicts its callers pass: a scoped
\* verdict never reaches it, and AUTHORITY_CHANGE_ANALYSIS only through it
\* when a late outcome is reconciled, which that stage is excluded from.
TransitionAfterOutcome(s, verdict) ==
  CASE verdict = "BLOCKING" -> EnterHardStop(s, "BLOCKING_VERDICT")
    [] verdict # "BLOCKING" /\ s.stage = "TASK_INDEPENDENT_REVIEW" ->
         AfterReview(s, verdict)
    [] verdict # "BLOCKING" /\ s.stage = "PLAN_REVISION_REVIEW" ->
         AfterPlanReview(s, verdict)
    [] verdict # "BLOCKING" /\ s.stage = "FINAL_VERIFICATION" ->
         AfterFinal(s, verdict)
    [] verdict = "APPROVED" /\ s.stage \in ProjectMutatingStages ->
         MoveTo(s, "TASK_INDEPENDENT_REVIEW")
    [] verdict = "APPROVED" /\ s.stage = "PLAN_DEFECT_RESOLUTION" ->
         MoveTo(s, "PLAN_REVISION_REVIEW")
    [] OTHER -> EnterHardStop(s, "UNSUPPORTED_VERDICT")

-----------------------------------------------------------------------------
(* Operator transitions *)

\* approve refuses unless the stage is the gate that is pending.
Approvable(s) == s.stage \in HumanGates /\ s.gate = s.stage

PassGate(s, stage) ==
  [s EXCEPT !.stage = stage, !.gate = Null, !.run = FALSE, !.attempt = 0,
            !.status = IF stage = "COMPLETED" THEN "COMPLETED" ELSE "RUNNING"]

ApproveGate(s) ==
  CASE s.stage = "HUMAN_GROUP_APPROVAL" /\ NextTask(s.task) # Null ->
         [PassGate(s, "TASK_EXECUTION") EXCEPT !.task = NextTask(s.task)]
    [] s.stage = "HUMAN_GROUP_APPROVAL" /\ NextTask(s.task) = Null ->
         PassGate(s, "FINAL_VERIFICATION")
    [] s.stage = "HUMAN_PLAN_FREEZE" -> PassGate(s, "TASK_EXECUTION")
    [] s.stage = "HUMAN_FINAL_ACCEPTANCE" -> PassGate(s, "COMPLETED")

StopRecord(s) == [s EXCEPT !.status = "STOPPED", !.gate = Null]

=============================================================================
