---------------------------- MODULE Orchestrator ----------------------------
(***************************************************************************)
(* orchestrator.py as a state machine: the commands of the command line    *)
(* work on the persisted record, one at a time; run takes bounded steps;   *)
(* a step may invoke an Agent, whose end is a separate action so that the  *)
(* process can die in between.                                             *)
(*                                                                         *)
(* The record is what state.json holds at every moment another process     *)
(* could read it.  The writes of one step that precede its save of the     *)
(* record are not split here.                                              *)
(***************************************************************************)
EXTENDS Authority, StateMachine

CONSTANTS
  MaxTotalSteps,    \* policy.max_total_steps, the bound of one run
  Verdicts,         \* bound: the verdicts Agents return
  Scopes,           \* bound: the task sets Agents report as affected
  Disturbances      \* bound: what the environment may do to the project

ASSUME OrchestratorAssumption ==
  /\ MaxTotalSteps \in Nat \ {0}
  /\ Verdicts \subseteq Verdict
  /\ Scopes \subseteq SUBSET Task
  /\ Disturbances \subseteq {"interrupt", "invalid", "runner", "reject",
                             "late", "edit", "digest", "stop", "malformed"}

VARIABLES
  state,        \* state.json
  running,      \* a run command is in progress
  left,         \* the steps it has left
  invoking,     \* it is waiting for an Agent
  latest,       \* metadata.json and outcome.json of the latest invocation
  orphans,      \* an earlier invocation is still recorded as running
  candidate,    \* the submitted authority revision the remote shows
  tree,         \* the working tree: clean, edited by a human, or blocked
  digestMatches \* the record was made with the workflow.yaml of today

vars == <<state, running, left, invoking, latest, orphans, candidate, tree,
          digestMatches>>

command == <<running, left, invoking>>
evidence == <<latest, orphans>>
project == <<candidate, tree, digestMatches>>

NoInvocation ==
  [stage |-> Null, status |-> "none", ok |-> FALSE, outcome |-> "none"]

-----------------------------------------------------------------------------
(* Loading the record *)

DigestStop(s) ==
  [s EXCEPT !.stage = "HARD_STOP", !.status = "HARD_STOPPED", !.gate = Null,
            !.code = "WORKFLOW_DIGEST_CHANGED",
            !.blocked = IF @ # Null THEN @ ELSE s.stage,
            !.recoverable = FALSE]

Load(s) == IF digestMatches THEN Recompute(s) ELSE DigestStop(s)

Fresh ==
  [stage |-> "INITIALIZING", status |-> "RUNNING", task |-> Null,
   run |-> FALSE, attempt |-> 0, gate |-> Null, code |-> Null,
   blocked |-> Null, recoverable |-> FALSE, runnerFailure |-> FALSE,
   items |-> [t \in Task |-> IF Dependencies[t] = {} THEN "READY"
                                                     ELSE "WAITING_DEPENDENCY"],
   decisions |-> [d \in Decision |-> NoDecision],
   changes |-> [c \in Change |-> NoChange],
   propagation |-> [c \in Change |-> NoPropagation],
   change |-> Null, graph |-> FALSE]

Init ==
  /\ state = Fresh
  /\ running = FALSE /\ left = 0 /\ invoking = FALSE
  /\ latest = NoInvocation /\ orphans = FALSE
  /\ candidate = Null /\ tree = "clean" /\ digestMatches = TRUE

-----------------------------------------------------------------------------
(* The gates of a step *)

\* Scanned changes the record has no analysis of.
Unanalyzed(s) == {c \in Change : c = candidate /\ ~s.changes[c].analyzed}

Detects(s) == /\ s.status \notin TerminalStatus
              /\ Unanalyzed(s) # {}
              /\ s.stage # "AUTHORITY_CHANGE_ANALYSIS"

\* A step that neither detects a change nor has to wait for a human.
Proceeds(s) == /\ ~Detects(s)
               /\ s.status \notin {"COMPLETED", "STOPPED"}
               /\ s.stage \notin HumanGates

\* Stops whose recovery takes the dirty files of now as the baseline.
PreInvocationRecovery(s) ==
  \/ /\ s.stage = "HARD_STOP" /\ s.code = "WORKFLOW_DIGEST_CHANGED"
     /\ ~s.run /\ s.blocked \notin ProjectMutatingStages
  \/ /\ s.stage = "HARD_STOP" /\ s.code = "UNEXPECTED_UNRELATED_CHANGE"
     /\ s.run
  \/ s.code \in {"RETRY_EXHAUSTED", "RECOVERY_UNCERTAIN"} /\ s.run

ActiveInvocation(s) ==
  s.run /\ s.stage \in AgentStages /\ latest.status # "running"

\* With no baseline every unrelated file in the working tree is a finding.
NoBaseline(s) ==
  \/ ActiveInvocation(s)
  \/ s.stage = "HARD_STOP" /\ ~PreInvocationRecovery(s)

AuditBlocks(s) ==
  tree = "blocked" \/ (tree = "edited" /\ NoBaseline(s))

AuditStop(s) ==
  LET unrelated == tree = "edited"
  IN [s EXCEPT !.stage = "HARD_STOP", !.status = "HARD_STOPPED",
               !.gate = Null, !.blocked = s.stage,
               !.code = IF unrelated THEN "UNEXPECTED_UNRELATED_CHANGE"
                                     ELSE "AUDIT_BLOCKED",
               !.recoverable = unrelated]

\* _workspace_stop, and the stop of a step that finds a dead invocation.
InvocationStop(s, code) ==
  [s EXCEPT !.stage = "HARD_STOP", !.status = "HARD_STOPPED", !.gate = Null,
            !.blocked = s.stage, !.code = code, !.recoverable = FALSE]

\* _invalid_or_failed: retry the stage, or stop when attempts are used up.
InvalidOrFailed(s, runnerFailed) ==
  IF s.attempt >= MaxAttempts
    THEN [InvocationStop(s, "RETRY_EXHAUSTED")
            EXCEPT !.recoverable = runnerFailed]
    ELSE [s EXCEPT !.run = FALSE, !.status = "RUNNING",
                   !.runnerFailure = runnerFailed]

-----------------------------------------------------------------------------
(* Steps of run *)

\* Faulty variant: the steps of a run are not counted.
ReturnUncounted(s) ==
  /\ state' = s
  /\ invoking' = FALSE
  /\ IF s.status = "RUNNING" /\ s.stage \notin HumanGates
       THEN running' = TRUE /\ left' = left
       ELSE running' = FALSE /\ left' = 0

\* A step returned s: run goes on while the status is RUNNING.
Return(s) ==
  /\ state' = s
  /\ invoking' = FALSE
  /\ IF s.status = "RUNNING" /\ s.stage \notin HumanGates
       THEN running' = TRUE /\ left' = left - 1
       ELSE running' = FALSE /\ left' = 0

\* Faulty variant: the loop does not end with its budget.
StepEnabledUnbounded == running /\ ~invoking

StepEnabled == running /\ left > 0 /\ ~invoking

StartRun ==
  /\ ~running
  /\ running' = TRUE /\ left' = MaxTotalSteps
  /\ UNCHANGED <<state, invoking, evidence, project>>

StepDetectsChange ==
  LET s == Load(state) IN
  /\ StepEnabled /\ Detects(s)
  /\ \E c \in Unanalyzed(s) : Return(DetectChange(s, c))
  /\ UNCHANGED <<evidence, project>>

\* Nothing to do: finished, stopped, waiting at a gate, or hard-stopped.
StepWaits ==
  LET s == Load(state) IN
  /\ StepEnabled /\ ~Detects(s)
  /\ \/ ~Proceeds(s)
     \/ s.stage \in {"HARD_STOP", "COMPLETED"} /\ ~AuditBlocks(s)
  /\ Return(s)
  /\ UNCHANGED <<evidence, project>>

StepAuditStops ==
  LET s == Load(state) IN
  /\ StepEnabled /\ Proceeds(s) /\ s.stage # "WAITING_FOR_HUMAN"
  /\ AuditBlocks(s)
  /\ Return(AuditStop(s))
  /\ UNCHANGED <<evidence, project>>

StepSchedules ==
  LET s == Load(state) IN
  /\ StepEnabled /\ Proceeds(s)
  /\ \/ s.stage = "WAITING_FOR_HUMAN"
     \/ /\ s.stage \in {"INITIALIZING", "READY",
                        "WAITING_FOR_AUTHORITY_CHANGE"}
        /\ ~AuditBlocks(s)
  /\ Return(Schedule(s))
  /\ UNCHANGED <<evidence, project>>

\* The record names the invocation before the Agent is started.
Invoke(s) ==
  LET started == [s EXCEPT !.run = TRUE, !.attempt = @ + 1]
  IN IF s.task = Null THEN started
     ELSE [started EXCEPT !.items[s.task] =
             IF s.stage = "TASK_PATCH" THEN "REQUIRES_PATCH" ELSE "RUNNING"]

StepInvokesAgent ==
  LET s == Load(state) IN
  /\ StepEnabled /\ Proceeds(s) /\ ~AuditBlocks(s)
  /\ s.stage \in AgentStages /\ ~s.run
  /\ state' = Invoke(s)
  /\ invoking' = TRUE
  /\ latest' = [stage |-> s.stage, status |-> "running", ok |-> FALSE,
                outcome |-> "none"]
  /\ orphans' = (orphans \/ latest.status = "running")
  /\ UNCHANGED <<running, left, project>>

\* A step of a new process finds an invocation that never completed. One that
\* left a malformed outcome is retried, though its Agent may still be alive.
StepFindsDeadInvocation ==
  LET s == Load(state) IN
  /\ StepEnabled /\ Proceeds(s) /\ ~AuditBlocks(s)
  /\ s.stage \in AgentStages /\ s.run /\ latest.status = "running"
  /\ Return(IF latest.outcome = "malformed" THEN InvalidOrFailed(s, FALSE)
              ELSE InvocationStop(s, "RECOVERY_UNCERTAIN"))
  /\ UNCHANGED <<evidence, project>>

\* The loop of run ends with the status still RUNNING.
BudgetStop ==
  LET s == Load(state) IN
  /\ running /\ left = 0
  /\ running' = FALSE
  /\ state' = IF s.status # "RUNNING" THEN s
              ELSE [s EXCEPT !.stage = "HARD_STOP",
                             !.status = "HARD_STOPPED",
                             !.code = "MAX_TOTAL_STEPS",
                             !.blocked = s.stage, !.recoverable = TRUE]
  /\ UNCHANGED <<left, invoking, evidence, project>>

-----------------------------------------------------------------------------
(* The end of an invocation *)

Completed(ok, outcome) ==
  /\ latest' = [latest EXCEPT !.status = "completed", !.ok = ok,
                              !.outcome = outcome]
  /\ UNCHANGED <<orphans, project>>

\* Faulty variant: the transition table's next task is kept.
CompleteReviewedInOrder(s, reviewed) ==
  [s EXCEPT !.items[reviewed] = "COMPLETED"]

\* The approved review of a task completes it and, in autonomous mode, the
\* scheduler rather than the transition table picks what is next.
CompleteReviewed(s, reviewed) ==
  LET done == [s EXCEPT !.items[reviewed] = "COMPLETED"]
  IN IF Mode = "gated" THEN done
     ELSE Schedule([done EXCEPT !.stage = "READY", !.task = Null,
                                !.gate = Null, !.status = "RUNNING"])

\* Faulty variant: an approved outcome of any task stage completes the task.
ApplyVerdictCompletesEarly(s, verdict) ==
  LET moved == TransitionAfterOutcome(s, verdict)
  IN Recompute(IF verdict = "APPROVED" /\ s.task # Null
                 THEN CompleteReviewed(moved, s.task) ELSE moved)

ApplyVerdict(s, verdict) ==
  LET moved == TransitionAfterOutcome(s, verdict)
      reviewed == /\ s.stage = "TASK_INDEPENDENT_REVIEW"
                  /\ verdict = "APPROVED" /\ s.task # Null
  IN Recompute(IF reviewed THEN CompleteReviewed(moved, s.task) ELSE moved)

\* A scoped verdict whose questions are all answered counts as APPROVED in
\* the transition, but the reviewed task is completed only by an APPROVED.
ApplyScoped(s, Q, direct) ==
  LET request == Request(s, direct, s.stage, Null)
      recorded == RecordDecisions(s, Q, request)
  IN IF Unresolved(s, Q, request) # {} THEN Schedule(Reset(recorded))
     ELSE Recompute(TransitionAfterOutcome(s, "APPROVED"))

AgentEnds == running /\ invoking

OrdinaryStage(s) == s.stage # "AUTHORITY_CHANGE_ANALYSIS" /\ ~OwnsStage(s)

FinishWithVerdict ==
  /\ AgentEnds /\ OrdinaryStage(state)
  /\ \E verdict \in Verdicts \ {"SCOPED"} :
       Return(ApplyVerdict(state, verdict))
  /\ Completed(TRUE, "agent")

FinishWithQuestions ==
  /\ AgentEnds /\ OrdinaryStage(state) /\ "SCOPED" \in Verdicts
  /\ \E Q \in (SUBSET Question) \ {{}}, direct \in Scopes :
       Return(ApplyScoped(state, Q, direct))
  /\ Completed(TRUE, "agent")

FinishAnalysis ==
  /\ AgentEnds /\ state.stage = "AUTHORITY_CHANGE_ANALYSIS"
  /\ \E c \in Unanalyzed(state), a \in Analysis(Scopes, Question) :
       AnalysisValid(a) /\ Return(ApplyAnalysis(state, c, a))
  /\ Completed(TRUE, "agent")

\* A propagation stage owned by the active record, by verdict.
FinishPropagation ==
  /\ AgentEnds /\ OwnsStage(state) /\ PropagationActive(state)
  /\ \/ "APPROVED" \in Verdicts /\ Return(AdvancePropagation(state))
     \/ /\ "REQUIRES_PATCH" \in Verdicts
        /\ state.stage \in DOMAIN RevisionOf
        /\ Return(ReviseAgain(state))
     \/ /\ "SCOPED" \in Verdicts
        /\ \E Q \in (SUBSET Question) \ {{}}, direct \in Scopes :
             Return(SuspendPropagation(state, Q, direct))
  /\ Completed(TRUE, "agent")

\* The handler has no active propagation, or no change, to apply it to.
NothingToApplyTo(s) ==
  \/ OwnsStage(s) /\ ~PropagationActive(s)
  \/ s.stage = "AUTHORITY_CHANGE_ANALYSIS" /\ Unanalyzed(s) = {}

\* A schema-valid outcome the analysis or propagation handler refuses: a
\* part of it is malformed, or the handler has no use for its verdict.
FinishRefused ==
  /\ AgentEnds /\ ~OrdinaryStage(state)
  /\ "invalid" \in Disturbances \/ NothingToApplyTo(state)
  /\ Return(InvalidOrFailed(state, FALSE))
  /\ Completed(TRUE, "agent")

\* A missing or malformed outcome of a process that ended normally.
FinishWithoutOutcome ==
  /\ AgentEnds /\ "invalid" \in Disturbances
  /\ Return(InvalidOrFailed(state, FALSE))
  /\ Completed(TRUE, "failure")

\* The process failed or ran into its timeout.
RunnerFails ==
  /\ AgentEnds /\ "runner" \in Disturbances
  /\ Return(InvalidOrFailed(state, TRUE))
  /\ Completed(FALSE, "failure")

\* The project drifted, or the Agent changed what its stage may not change.
FinishRejected ==
  /\ AgentEnds /\ "reject" \in Disturbances
  /\ Return(InvocationStop(state, "WORKSPACE_REJECTED"))
  /\ Completed(TRUE, "failure")

-----------------------------------------------------------------------------
(* The other commands *)

Idle(s) == /\ state' = s
           /\ UNCHANGED <<command, project>>

\* status, decisions, and every command that is refused after the load.
Inspect == /\ ~running
           /\ Idle(Load(state)) /\ UNCHANGED evidence

\* Faulty variant: the group approval keeps the declared order's next task.
ApprovedInOrder(s) == Recompute(ApproveGate(s))

\* After a group approval the scheduler picks the next task, whatever the
\* transition table says.
Approved(s) ==
  IF s.stage = "HUMAN_GROUP_APPROVAL"
    THEN Schedule([ApproveGate(s) EXCEPT !.stage = "READY", !.task = Null,
                                         !.gate = Null, !.status = "RUNNING"])
    ELSE Recompute(ApproveGate(s))

Approve ==
  LET s == Load(state) IN
  /\ ~running /\ Approvable(s)
  /\ Idle(Approved(s))
  /\ UNCHANGED evidence

Stop ==
  /\ ~running /\ "stop" \in Disturbances
  /\ Idle(StopRecord(Load(state))) /\ UNCHANGED evidence

\* Any answer to a question; for a promotion decision, "defer".
Decide ==
  LET s == Load(state) IN
  /\ ~running
  /\ \E d \in PendingDecisions(s) : Idle(ResolveDecision(s, d))
  /\ UNCHANGED evidence

\* "promote", refused unless the candidate is the one that was propagated.
Promote ==
  LET s == Load(state) IN
  /\ ~running
  /\ \E c \in PendingDecisions(s) \cap Change :
       /\ s.propagation[c].status = "WAITING_PROMOTION"
       /\ candidate = c /\ s.changes[c].status # "ACCEPTED"
       /\ \E first \in PromotedFirst(s, c) : Idle(ResolvePromotion(s, c, first))
  /\ UNCHANGED evidence

-----------------------------------------------------------------------------
(* recover *)

\* A running invocation whose process is gone and that left no outcome.
Orphaned(s) == /\ s.stage \in AgentStages /\ s.run
               /\ latest.status = "running" /\ latest.outcome = "none"

OrphanStop(s) ==
  IF Orphaned(s)
    THEN [s EXCEPT !.stage = "HARD_STOP", !.status = "HARD_STOPPED",
                   !.blocked = s.stage, !.code = "RECOVERY_UNCERTAIN",
                   !.recoverable = TRUE]
    ELSE s

\* Faulty variants: the attempts used up are kept; a stage that is no Agent's
\* is scheduled anew.
RestoredWithAttempts(s) ==
  [s EXCEPT !.stage = s.blocked, !.status = "RUNNING", !.gate = Null,
            !.run = FALSE, !.code = Null, !.blocked = Null,
            !.recoverable = FALSE]

RestoredToReady(s) ==
  [s EXCEPT !.stage = IF s.blocked \in AgentStages THEN s.blocked ELSE "READY",
            !.status = "RUNNING", !.gate = Null, !.run = FALSE, !.attempt = 0,
            !.code = Null, !.blocked = Null, !.recoverable = FALSE]

Restored(s) ==
  [s EXCEPT !.stage = s.blocked, !.status = "RUNNING", !.gate = Null,
            !.run = FALSE, !.attempt = 0, !.code = Null, !.blocked = Null,
            !.recoverable = FALSE]

NoneRunning == latest.status # "running" /\ ~orphans

DigestRecoverable(s) ==
  /\ s.stage = "HARD_STOP" /\ s.code = "WORKFLOW_DIGEST_CHANGED" /\ ~s.run
  /\ ~AuditBlocks(s) /\ NoneRunning

BudgetRecoverable(s) ==
  /\ s.stage = "HARD_STOP" /\ s.code = "MAX_TOTAL_STEPS"
  /\ s.blocked \notin {Null, "HARD_STOP"} /\ ~s.run
  /\ ~AuditBlocks(s)

RetryExhausted(s) == s.stage = "HARD_STOP" /\ s.code = "RETRY_EXHAUSTED"

\* The last failure noted is the runner's, and so is the latest invocation.
RunnerRecoverable(s) ==
  /\ RetryExhausted(s) /\ s.runnerFailure
  /\ latest.stage = s.blocked /\ latest.status = "completed" /\ ~latest.ok
  /\ NoneRunning /\ ~AuditBlocks(s)

InterruptedRecoverable(s) ==
  /\ s.stage = "HARD_STOP" /\ s.code = "RECOVERY_UNCERTAIN"
  /\ s.blocked \in AgentStages /\ s.run
  /\ latest.status \in {"running", "failed"}

\* An outcome is present after the retries were used up for other reasons.
ReadOnlyRecoverable(s) ==
  /\ RetryExhausted(s) /\ ~s.runnerFailure /\ s.run
  /\ s.blocked \in ReadOnlyRecoveryStages
  /\ latest.stage = s.blocked /\ latest.status = "completed"
  /\ NoneRunning /\ ~AuditBlocks(s)

CanonicalRecoverable(s) ==
  ReadOnlyRecoverable(s) /\ latest.outcome = "failure"

LateRecoverable(s) ==
  ReadOnlyRecoverable(s) /\ latest.outcome = "agent" /\ latest.ok

RecoverDigest ==
  LET s == OrphanStop(Load(state)) IN
  /\ ~running /\ DigestRecoverable(s)
  /\ state' = Restored(s)
  /\ digestMatches' = TRUE
  /\ UNCHANGED <<command, evidence, candidate, tree>>

\* MAX_TOTAL_STEPS and a failed runner reopen the blocked stage.
RecoverStage ==
  LET s == OrphanStop(Load(state)) IN
  /\ ~running /\ (BudgetRecoverable(s) \/ RunnerRecoverable(s))
  /\ Idle(Restored(s)) /\ UNCHANGED evidence

\* Faulty variant: the dead invocation stays recorded as running.
StillRunning(invocation) == invocation

MarkedFailed(invocation) ==
  [invocation EXCEPT !.status = "failed", !.ok = FALSE]

\* The dead invocation is marked failed first; a blocked audit then leaves
\* the stop in place.
RecoverInterrupted ==
  LET s == OrphanStop(Load(state)) IN
  /\ ~running /\ InterruptedRecoverable(s)
  /\ latest' = MarkedFailed(latest)
  /\ Idle(IF AuditBlocks(s) THEN s ELSE Restored(s))
  /\ UNCHANGED orphans

RecoverCanonicalFailure ==
  LET s == OrphanStop(Load(state)) IN
  /\ ~running /\ CanonicalRecoverable(s)
  /\ Idle([Restored(s) EXCEPT !.runnerFailure = FALSE])
  /\ UNCHANGED evidence

\* A scoped verdict goes through the handler of its stage, late or not.
ApplyLateQuestions(s, Q, direct) ==
  IF ~OwnsStage(s) THEN ApplyScoped(s, Q, direct)
  ELSE IF PropagationActive(s) THEN SuspendPropagation(s, Q, direct)
  ELSE InvalidOrFailed(s, FALSE)

\* The late outcome selects the transition of the stage it was written for.
RecoverLateOutcome ==
  LET s == OrphanStop(Load(state))
      reopened == [Restored(s) EXCEPT !.run = TRUE, !.attempt = s.attempt]
  IN
  /\ ~running /\ LateRecoverable(s)
  /\ \/ \E verdict \in Verdicts \ {"SCOPED"} :
          Idle(TransitionAfterOutcome(reopened, verdict))
     \/ /\ "SCOPED" \in Verdicts
        /\ \E Q \in (SUBSET Question) \ {{}}, direct \in Scopes :
             Idle(ApplyLateQuestions(reopened, Q, direct))
  /\ UNCHANGED evidence

-----------------------------------------------------------------------------
(* The environment *)

\* What a dying process leaves of the outcome its Agent was to write.
LeftOutcomes ==
  {"none", "agent"}
    \cup (IF "malformed" \in Disturbances THEN {"malformed"} ELSE {})

\* The process dies; the Agent may have written its outcome before.
Interrupt ==
  /\ running /\ "interrupt" \in Disturbances
  /\ running' = FALSE /\ left' = 0 /\ invoking' = FALSE
  /\ \E outcome \in LeftOutcomes :
       latest' = IF invoking THEN [latest EXCEPT !.outcome = outcome]
                             ELSE latest
  /\ UNCHANGED <<state, orphans, project>>

\* A child of the ended Agent process writes its outcome after all.
LateOutcome ==
  /\ "late" \in Disturbances
  /\ ~invoking /\ latest.status = "completed" /\ latest.outcome = "failure"
  /\ latest' = [latest EXCEPT !.outcome = "agent"]
  /\ UNCHANGED <<state, command, orphans, project>>

\* Bound: a revision is submitted only when the previous one was accepted.
SubmitAuthority ==
  /\ \A c \in Change :
       c = candidate => state.changes[c].status \in {"ACCEPTED", "PROMOTED"}
  /\ \E c \in Change :
       /\ state.changes[c].status = "NONE" /\ c # candidate
       /\ candidate' = c
  /\ UNCHANGED <<state, command, evidence, tree, digestMatches>>

EditTree ==
  /\ "edit" \in Disturbances
  /\ tree' \in {"clean", "edited", "blocked"} \ {tree}
  /\ UNCHANGED <<state, command, evidence, candidate, digestMatches>>

\* A change of workflow.yaml is seen by the next command.
EditWorkflow ==
  /\ "digest" \in Disturbances /\ ~running
  /\ digestMatches' = ~digestMatches
  /\ UNCHANGED <<state, command, evidence, candidate, tree>>

-----------------------------------------------------------------------------
Step == \/ StepDetectsChange \/ StepWaits \/ StepAuditStops \/ StepSchedules
        \/ StepInvokesAgent \/ StepFindsDeadInvocation \/ BudgetStop

AgentEnd == \/ FinishWithVerdict \/ FinishWithQuestions \/ FinishAnalysis
            \/ FinishPropagation \/ FinishRefused \/ FinishWithoutOutcome
            \/ RunnerFails \/ FinishRejected

Recover == \/ RecoverDigest \/ RecoverStage \/ RecoverInterrupted
           \/ RecoverCanonicalFailure \/ RecoverLateOutcome

Operator == \/ StartRun \/ Inspect \/ Approve \/ Stop \/ Decide \/ Promote
            \/ Recover

Environment == \/ Interrupt \/ LateOutcome \/ SubmitAuthority \/ EditTree
               \/ EditWorkflow

Next == Step \/ AgentEnd \/ Operator \/ Environment

Spec == Init /\ [][Next]_vars

=============================================================================
