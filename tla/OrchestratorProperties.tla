----------------------- MODULE OrchestratorProperties -----------------------
(***************************************************************************)
(* What the control plane has to guarantee, stated on Orchestrator.        *)
(***************************************************************************)
EXTENDS Orchestrator

Invocation ==
  [stage   : AgentStages \cup {Null},
   status  : {"none", "running", "completed", "failed"},
   ok      : BOOLEAN,
   outcome : {"none", "agent", "failure", "malformed"}]

\* Every variable keeps to its set of values.
TypeOK ==
  /\ state \in WorkflowRecord
  /\ running \in BOOLEAN /\ left \in 0 .. MaxTotalSteps
  /\ invoking \in BOOLEAN
  /\ latest \in Invocation /\ orphans \in BOOLEAN
  /\ candidate \in Change \cup {Null}
  /\ tree \in {"clean", "edited", "blocked"}
  /\ digestMatches \in BOOLEAN

-----------------------------------------------------------------------------
(* Bounds *)

\* No stage is tried more often than policy.max_attempts_per_stage, whatever
\* retries, stops, recoveries and restarts come between the attempts.
AttemptsBounded == state.attempt <= MaxAttempts

\* What the bound rests on: a stage whose Agent is to be started has an
\* attempt left.
AttemptsLeft(s) ==
  /\ s.attempt <= MaxAttempts
  /\ s.stage \in AgentStages /\ ~s.run => s.attempt < MaxAttempts

\* A stop names the stage it stopped, for recover to go back to.
StopNamesStage(s) == s.code # Null => s.blocked # Null

\* The inductive invariant behind TypeOK and AttemptsBounded: an Agent is
\* waited for only within the budget of the run.
Inductive ==
  /\ TypeOK
  /\ AttemptsLeft(state) /\ StopNamesStage(state)
  /\ invoking => left > 0

-----------------------------------------------------------------------------
(* Order of the work *)

\* An Agent executes a task only when every task it depends on is completed.
ExecutesInDependencyOrder ==
  invoking /\ state.stage = "TASK_EXECUTION" /\ state.task # Null
    => DependenciesCompleted(state.items, state.task)

\* No Agent works on a task, or downstream of a task, that an authority
\* change not yet promoted affects.
NoWorkUnderOpenChange ==
  invoking /\ state.stage \in TaskStages /\ state.task # Null
    => state.task \notin AuthorityDirect(state) \cup AuthorityDependent(state)

\* No Agent is started while an earlier invocation is still recorded as
\* running, so its end could still be taken for the end of this one. The code
\* retries at once only the invocation that left a malformed outcome.
NoOverlap == [][orphans' => orphans \/ latest.outcome = "malformed"]_vars

\* The review of an ordinary plan defect, which has a current task, is not
\* taken for the review of a propagated plan revision.
PlanReviewKeepsOwner == invoking /\ OwnsStage(state) => state.task = Null

\* The workflow is verified, accepted and completed as a whole only when
\* every task is completed.
FinishesOnlyWhenDone ==
  state.stage \in {"FINAL_VERIFICATION", "HUMAN_FINAL_ACCEPTANCE", "COMPLETED"}
    => \A t \in Task : state.items[t] = "COMPLETED"

\* A completed task is taken back only by an open authority change that
\* affects it directly.
CompletedIsFinal ==
  [][\A t \in Task :
       state.items[t] = "COMPLETED" /\ state'.items[t] # "COMPLETED"
         => t \in AuthorityDirect(state')]_vars

-----------------------------------------------------------------------------
(* Stops *)

\* The human is asked to wait only when a decision is pending and no task
\* could run meanwhile.
WaitsOnlyWithoutWork ==
  state.status = "WAITING_HUMAN" /\ state.stage \notin HumanGates
    => PendingDecisions(state) # {} /\ ReadyWork(state) = {}

\* A task that nothing blocks: its dependencies are completed, and neither a
\* pending decision nor an open change affects it or a task upstream of it.
Unblocked(t) ==
  /\ state.items[t] # "COMPLETED"
  /\ DependenciesCompleted(state.items, t)
  /\ t \notin UNION {DecisionDirect(state), DecisionDependent(state),
                     AuthorityDirect(state), AuthorityDependent(state)}

\* The workflow is declared dependency-blocked only when no task is left
\* that could be worked on.
DependencyBlockIsReal ==
  state.code = "DEPENDENCY_BLOCKED" /\ state.stage = "HARD_STOP"
    => \A t \in Task : ~Unblocked(t)

\* The record waits for a group approval, or is stopped in front of one.
AwaitsApproval(s) ==
  "HUMAN_GROUP_APPROVAL" = IF s.stage = "HARD_STOP" THEN s.blocked ELSE s.stage

\* A group approval is given by approve and by nothing else: stops in front
\* of the gate, and whatever recovers from them, come back to it.  Only a
\* second stop on top of such a stop forgets what it stopped.
OnlyApproveGivesApproval ==
  [][AwaitsApproval(state) /\ ~AwaitsApproval(state') =>
       Approve \/ state'.blocked = "HARD_STOP"]_vars

-----------------------------------------------------------------------------
(* Progress *)

\* The steps of a run and the end of an Agent (its timeout at the latest)
\* are not put off for ever; nothing is assumed of the human.
Fairness == WF_vars(Step) /\ WF_vars(AgentEnd)
FairSpec == Spec /\ Fairness

\* A run returns.
RunReturns == running ~> ~running

-----------------------------------------------------------------------------
(* The abstract specification *)

WorkedOn == IF state.stage \in TaskStages THEN state.task ELSE Null

Ledger == INSTANCE TaskLedger WITH
  None <- Null,
  done <- {t \in Task : state.items[t] = "COMPLETED"},
  active <- WorkedOn

\* The workflow carries out its tasks as the ledger allows.
ImplementsLedger == Ledger!Spec

=============================================================================
