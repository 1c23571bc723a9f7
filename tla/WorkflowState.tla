--------------------------- MODULE WorkflowState ---------------------------
(***************************************************************************)
(* The vocabulary of the control plane: stages, verdict classes, work-item *)
(* statuses, and the record kept in state.json.  It follows models.py and  *)
(* the stage sets of state_machine.py and scheduler.py.                    *)
(*                                                                         *)
(* A configuration without a typed artifact pipeline is described, so the  *)
(* artifact stages and fields are absent.                                  *)
(***************************************************************************)
EXTENDS Integers, FiniteSets

CONSTANTS
  Task,                       \* task ids of the workflow or plan graph
  Rank,                       \* position of a task in the declared order
  Dependencies,               \* direct dependencies of each task
  Question,                   \* decision ids an Agent may raise
  Change,                     \* authority change ids
  Null,                       \* the value None
  Mode,                       \* "gated" or "autonomous"
  AutoPatch,                  \* policy.auto_patch
  AutoPlanDefectResolution,   \* policy.auto_plan_defect_resolution
  AutoPlanRevisionReview,     \* policy.auto_plan_revision_review
  MaxAttempts                 \* policy.max_attempts_per_stage

ASSUME TaskAssumption ==
  /\ IsFiniteSet(Task)
  /\ Rank \in [Task -> Nat]
  /\ \A t, u \in Task : Rank[t] = Rank[u] => t = u
  /\ Dependencies \in [Task -> SUBSET Task]
  /\ Null \notin Task

\* The declared tasks may depend on each other in a cycle: only a plan graph
\* built by propagation is checked for one, so nothing is assumed here.
ASSUME DecisionAssumption ==
  /\ Question \cap Change = {}
  /\ Null \notin Change

ASSUME PolicyAssumption ==
  /\ Mode \in {"gated", "autonomous"}
  /\ AutoPatch \in BOOLEAN
  /\ AutoPlanDefectResolution \in BOOLEAN
  /\ AutoPlanRevisionReview \in BOOLEAN
  /\ MaxAttempts \in Nat \ {0}

-----------------------------------------------------------------------------
(* Stages *)

\* Stages whose work is done on a bounded task.
TaskStages == {"TASK_EXECUTION", "TASK_INDEPENDENT_REVIEW", "TASK_PATCH",
               "PLAN_DEFECT_RESOLUTION"}

\* Stages that carry an authority change through Contract, Plan and tasks.
PropagationStages ==
  {"CHANGE_PROPAGATION_PLANNING", "CONTRACT_REVISION",
   "CONTRACT_REVISION_REVIEW", "PLAN_REVISION", "PLAN_REVISION_REVIEW",
   "PLAN_GRAPH_BUILD", "TASK_REBASE_ANALYSIS"}

AgentStages ==
  TaskStages \cup PropagationStages
    \cup {"FINAL_VERIFICATION", "AUTHORITY_CHANGE_ANALYSIS"}

HumanGates ==
  {"HUMAN_GROUP_APPROVAL", "HUMAN_PLAN_FREEZE", "HUMAN_FINAL_ACCEPTANCE"}

Stage ==
  AgentStages \cup HumanGates
    \cup {"INITIALIZING", "READY", "WAITING_FOR_HUMAN",
          "WAITING_FOR_AUTHORITY_CHANGE", "COMPLETED", "HARD_STOP"}

\* Stages whose validated diff is committed to the real project.
ProjectMutatingStages == {"TASK_EXECUTION", "TASK_PATCH"}

\* Stages a late or failed outcome may be reconciled for.
ReadOnlyRecoveryStages ==
  {"TASK_INDEPENDENT_REVIEW", "PLAN_REVISION_REVIEW", "FINAL_VERIFICATION"}

Status ==
  {"RUNNING", "WAITING_HUMAN", "WAITING_AUTHORITY_CHANGE", "HARD_STOPPED",
   "COMPLETED", "STOPPED"}

\* Statuses the authority gate treats as terminal for the run.
TerminalStatus == {"HARD_STOPPED", "STOPPED", "COMPLETED"}

StopCode ==
  {"BLOCKING_VERDICT", "AUTO_PATCH_DISABLED",
   "PLAN_DEFECT_RESOLUTION_DISABLED", "PLAN_REVIEW_PATCH_DISABLED",
   "UNSUPPORTED_VERDICT", "DEPENDENCY_BLOCKED", "RETRY_EXHAUSTED",
   "RECOVERY_UNCERTAIN", "WORKFLOW_DIGEST_CHANGED", "MAX_TOTAL_STEPS",
   "UNEXPECTED_UNRELATED_CHANGE", "AUDIT_BLOCKED", "WORKSPACE_REJECTED"}

\* The verdicts grouped by what the code distinguishes: SCOPED stands for
\* the two scoped-decision verdicts, BLOCKING for the five blocking ones,
\* OTHER for the verdicts no stage accepts.
Verdict ==
  {"APPROVED", "COMPLETED", "REQUIRES_PATCH", "PLAN_TASK_DEFECT", "SCOPED",
   "BLOCKING", "OTHER"}

\* None is none of the values it stands in for.
ASSUME NullAssumption == Null \notin Stage \cup StopCode

ItemStatus ==
  {"READY", "RUNNING", "COMPLETED", "REQUIRES_PATCH",
   "BLOCKED_BY_HUMAN_DECISION", "BLOCKED_BY_AUTHORITY_CHANGE",
   "TASK_REBASE_REQUIRED", "WAITING_DEPENDENCY"}

-----------------------------------------------------------------------------
(* The persisted record *)

\* A change names its own promotion decision (ADR-AUTHORITY-PROMOTION-<id>).
Decision == Question \cup Change

DecisionRecord ==
  [status : {"NONE", "PENDING", "RESOLVED"},
   direct : SUBSET Task,            \* directly_blocked_items
   source : Stage,                  \* source_stage
   change : Change \cup {Null}]     \* source_change

\* required_propagation, reduced to what propagation_steps reads of it.
Need == {"CONTRACT", "PLAN", "REBASE"}

ChangeRecord ==
  [status   : {"NONE", "CHANGE_PENDING", "PROPAGATING", "ACCEPTED",
               "PROMOTED"},
   analyzed : BOOLEAN,              \* classification is not None
   direct   : SUBSET Task,          \* directly_affected_tasks
   needs    : SUBSET Need,
   ready    : BOOLEAN]              \* propagation_ready

PropagationRecord ==
  [status : {"NONE", "RUNNING", "WAITING_DECISION", "WAITING_PROMOTION",
             "PROMOTED"},
   steps  : SUBSET PropagationStages,
   next   : PropagationStages \cup {Null}]

WorkflowRecord ==
  [stage         : Stage,
   status        : Status,
   task          : Task \cup {Null},          \* current_task
   run           : BOOLEAN,                   \* run_id is not None
   attempt       : Nat,
   gate          : HumanGates \cup {Null},    \* pending_human_gate
   code          : StopCode \cup {Null},      \* stop_code
   blocked       : Stage \cup {Null},         \* blocked_stage
   recoverable   : BOOLEAN,
   runnerFailure : BOOLEAN,    \* last_outcome.summary names a runner failure
   items         : [Task -> ItemStatus],
   decisions     : [Decision -> DecisionRecord],
   changes       : [Change -> ChangeRecord],
   propagation   : [Change -> PropagationRecord],
   change        : Change \cup {Null},        \* current_authority_change_id
   graph         : BOOLEAN]                   \* plan_graph is not None

NoDecision == [status |-> "NONE", direct |-> {}, source |-> "READY",
               change |-> Null]

NoChange == [status |-> "NONE", analyzed |-> FALSE, direct |-> {},
             needs |-> {}, ready |-> FALSE]

NoPropagation == [status |-> "NONE", steps |-> {}, next |-> Null]

=============================================================================
