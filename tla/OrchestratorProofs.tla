------------------------- MODULE OrchestratorProofs -------------------------
(***************************************************************************)
(* Proofs about Orchestrator for every value of its constants.             *)
(***************************************************************************)
EXTENDS OrchestratorProperties, WellFoundedInduction, TLAPS

-----------------------------------------------------------------------------
(* Least members *)

\* A nonempty set has a member where a function to the naturals is least.
LEMMA Least ==
  ASSUME NEW S, S # {}, NEW f, \A x \in S : f[x] \in Nat
  PROVE  \E x \in S : \A y \in S : f[x] <= f[y]
<1> DEFINE R    == {f[x] : x \in S}
           Less == {ss \in Nat \X Nat : ss[1] < ss[2]}
<1>1. R \subseteq Nat /\ R # {}
  OBVIOUS
<1>2. IsWellFoundedOn(Less, Nat)
  BY NatLessThanWellFounded, Zenon DEF OpToRel
<1>3. \A i, j \in Nat : i < j => <<i, j>> \in Less
  OBVIOUS
<1>4. PICK n \in R : \A m \in R : ~(<<m, n>> \in Less)
  <2> HIDE DEF R, Less
  <2> QED BY <1>1, <1>2, WFMin
<1>5. ASSUME NEW m \in R PROVE n <= m
  <2>1. m \in Nat /\ n \in Nat
    BY <1>1
  <2>2. <<m, n>> \notin Less
    BY <1>4
  <2>3. ~(m < n)
    <3> HIDE DEF Less
    <3> QED BY <1>3, <2>1, <2>2
  <2> QED BY <2>1, <2>3
<1> QED BY <1>5

\* The task the scheduler picks from ready work is one of it.
LEMMA FirstInOrderIsMember ==
  ASSUME NEW S \in SUBSET Task, S # {}
  PROVE  FirstInOrder(S) \in S
<1>1. \E t \in S : \A u \in S : Rank[t] <= Rank[u]
  BY Least, TaskAssumption
<1> QED BY <1>1 DEF FirstInOrder

\* The next task of the declared order is a task, or there is none.
LEMMA NextTaskIsTask ==
  ASSUME NEW t \in Task \cup {Null}
  PROVE  NextTask(t) \in Task \cup {Null}
<1> DEFINE rest == IF t = Null THEN Task ELSE Successors(t)
<1>1. rest \in SUBSET Task
  BY DEF Successors
<1>2. CASE rest = {}
  BY <1>2 DEF NextTask
<1>3. CASE rest # {}
  <2>1. \E u \in rest : \A v \in rest : Rank[u] <= Rank[v]
    BY <1>1, <1>3, Least, TaskAssumption
  <2> QED BY <1>1, <1>3, <2>1 DEF NextTask
<1> QED BY <1>2, <1>3

\* The stage that follows in a propagation plan is a stage of the plan.
LEMMA StepAfterIsStep ==
  ASSUME NEW steps \in SUBSET PropagationStages, NEW stage,
         LaterSteps(steps, stage) # {}
  PROVE  StepAfter(steps, stage) \in PropagationStages
<1> DEFINE later == LaterSteps(steps, stage)
<1>1. later \subseteq PropagationStages
  BY DEF LaterSteps
<1>2. \A x \in PropagationStages : Position[x] \in Nat
  BY DEF Position, PropagationStages
<1>3. \E x \in later : \A y \in later : Position[x] <= Position[y]
  BY <1>1, <1>2, Least
<1> QED BY <1>1, <1>3 DEF StepAfter

-----------------------------------------------------------------------------
(* The operators on the record keep it well formed *)

WellFormed(s) ==
  s \in WorkflowRecord /\ AttemptsLeft(s) /\ StopNamesStage(s)

\* A record with its attempts reset is well formed if its stop is.
LEMMA FreshAttempts ==
  ASSUME NEW s \in WorkflowRecord, s.attempt = 0, StopNamesStage(s)
  PROVE  WellFormed(s)
BY PolicyAssumption DEF WellFormed, AttemptsLeft

\* A record at a stage that runs no Agent is well formed whatever its run.
LEMMA NoAgentStage ==
  ASSUME NEW s \in WorkflowRecord, s.attempt <= MaxAttempts,
         s.stage \notin AgentStages, StopNamesStage(s)
  PROVE  WellFormed(s)
BY DEF WellFormed, AttemptsLeft

LEMMA ReleasedWellFormed ==
  ASSUME NEW s \in WorkflowRecord, StopNamesStage(s),
         NEW stage \in Stage, NEW status \in Status
  PROVE  /\ WellFormed(Released(s, stage, status))
         /\ WellFormed([Released(s, stage, status) EXCEPT !.gate = Null])
<1> DEFINE r == Released(s, stage, status)
<1>1. r \in WorkflowRecord /\ r.attempt = 0 /\ StopNamesStage(r)
  BY DEF Released, WorkflowRecord, StopNamesStage
<1> DEFINE q == [r EXCEPT !.gate = Null]
<1>2. q \in WorkflowRecord /\ q.attempt = 0 /\ StopNamesStage(q)
  BY <1>1 DEF WorkflowRecord, StopNamesStage
<1> HIDE DEF r, q
<1>3. WellFormed(r) /\ WellFormed(q)
  BY <1>1, <1>2, FreshAttempts
<1> QED BY <1>3 DEF r, q

LEMMA RecomputeWellFormed ==
  ASSUME NEW s, WellFormed(s)
  PROVE  WellFormed(Recompute(s))
<1>1. ASSUME NEW t \in Task PROVE RecomputedStatus(s, t) \in ItemStatus
  BY DEF RecomputedStatus, AffectedStatus, UnfinishedStatus, ItemStatus,
         WellFormed, WorkflowRecord
<1> QED
  BY <1>1
  DEF Recompute, WellFormed, AttemptsLeft, StopNamesStage, WorkflowRecord

LEMMA StartTaskWellFormed ==
  ASSUME NEW s, WellFormed(s), NEW t \in Task
  PROVE  WellFormed(StartTask(s, t))
<1> DEFINE r == StartTask(s, t)
<1>1. r \in WorkflowRecord /\ r.attempt = 0 /\ StopNamesStage(r)
  <2>1. "TASK_EXECUTION" \in Stage
    BY DEF Stage, AgentStages, TaskStages
  <2>2. r \in WorkflowRecord
    BY <2>1 DEF StartTask, WellFormed, WorkflowRecord, Status, ItemStatus
  <2>3. r.attempt = 0 /\ r.code = s.code /\ r.blocked = s.blocked
    BY DEF StartTask, WellFormed, WorkflowRecord
  <2> QED BY <2>2, <2>3 DEF WellFormed, StopNamesStage
<1> QED BY <1>1, FreshAttempts

LEMMA DependencyBlockedWellFormed ==
  ASSUME NEW s, WellFormed(s)
  PROVE  WellFormed(DependencyBlocked(s))
<1> DEFINE r == DependencyBlocked(s)
<1>1. r \in WorkflowRecord
  <2>1. /\ "HARD_STOP" \in Stage /\ "HARD_STOPPED" \in Status
        /\ "DEPENDENCY_BLOCKED" \in StopCode
    BY DEF Stage, Status, StopCode
  <2> QED BY <2>1 DEF DependencyBlocked, WellFormed, WorkflowRecord
<1>2. /\ r.stage = "HARD_STOP" /\ r.attempt = s.attempt /\ r.blocked = s.stage
  BY DEF DependencyBlocked, WellFormed, WorkflowRecord
<1>3. s.stage # Null /\ "HARD_STOP" \notin AgentStages
  BY NullAssumption
  DEF WellFormed, WorkflowRecord, AgentStages, TaskStages, PropagationStages
<1> QED BY <1>1, <1>2, <1>3 DEF WellFormed, AttemptsLeft, StopNamesStage

\* The branches of schedule.
LEMMA SelectWithoutTaskWellFormed ==
  ASSUME NEW s, WellFormed(s)
  PROVE  WellFormed(SelectWithoutTask(s))
<1>1. CASE PendingDecisions(s) # {}
  BY <1>1, ReleasedWellFormed DEF SelectWithoutTask, WellFormed, Stage, Status
<1>2. CASE PendingDecisions(s) = {} /\ RunnablePropagation(s) # {}
  <2>1. NextPropagation(s) \in RunnablePropagation(s)
    BY <1>2 DEF NextPropagation
  <2>2. s.propagation[NextPropagation(s)].next \in Stage
    BY <2>1
    DEF RunnablePropagation, WellFormed, WorkflowRecord, PropagationRecord,
        Stage, AgentStages
  <2> QED
    BY <1>2, <2>2, ReleasedWellFormed DEF SelectWithoutTask, WellFormed, Status
<1>3. CASE PendingDecisions(s) = {} /\ RunnablePropagation(s) = {}
  <2>1. \A x \in {"WAITING_FOR_AUTHORITY_CHANGE", "FINAL_VERIFICATION"} :
           x \in Stage
    BY DEF Stage, AgentStages
  <2> QED
    BY <1>3, <2>1, ReleasedWellFormed, DependencyBlockedWellFormed
    DEF SelectWithoutTask, WellFormed, Status
<1> QED BY <1>1, <1>2, <1>3

LEMMA SelectWorkWellFormed ==
  ASSUME NEW s, WellFormed(s)
  PROVE  WellFormed(SelectWork(s))
<1>1. CASE ReadyWork(s) # {}
  <2>1. ReadyWork(s) \subseteq Task
    BY DEF ReadyWork, ReadyTasks
  <2>2. FirstInOrder(ReadyWork(s)) \in Task
    BY <1>1, <2>1, FirstInOrderIsMember
  <2> QED BY <1>1, <2>2, StartTaskWellFormed DEF SelectWork
<1>2. CASE ReadyWork(s) = {}
  BY <1>2, SelectWithoutTaskWellFormed DEF SelectWork
<1> QED BY <1>1, <1>2

LEMMA ScheduleWellFormed ==
  ASSUME NEW s, WellFormed(s)
  PROVE  WellFormed(Schedule(s))
BY RecomputeWellFormed, SelectWorkWellFormed DEF Schedule

-----------------------------------------------------------------------------
(* The transition table *)

LEMMA MoveToWellFormed ==
  ASSUME NEW s, WellFormed(s), NEW stage \in Stage
  PROVE  /\ WellFormed(MoveTo(s, stage))
         /\ MoveTo(s, stage).attempt = 0
         /\ MoveTo(s, stage).stage = stage
<1> DEFINE r == MoveTo(s, stage)
<1>1. /\ r \in WorkflowRecord /\ r.attempt = 0 /\ r.stage = stage
      /\ StopNamesStage(r)
  BY DEF MoveTo, WellFormed, WorkflowRecord, StopNamesStage
<1> QED BY <1>1, FreshAttempts

LEMMA EnterHardStopWellFormed ==
  ASSUME NEW s, WellFormed(s), NEW code \in StopCode
  PROVE  WellFormed(EnterHardStop(s, code))
<1> DEFINE r == EnterHardStop(s, code)
<1>1. r \in WorkflowRecord
  <2>1. "HARD_STOP" \in Stage /\ "HARD_STOPPED" \in Status
    BY DEF Stage, Status
  <2> QED BY <2>1 DEF EnterHardStop, WellFormed, WorkflowRecord
<1>2. /\ r.stage = "HARD_STOP" /\ r.attempt = s.attempt /\ r.blocked = s.stage
  BY DEF EnterHardStop, WellFormed, WorkflowRecord
<1>3. s.stage # Null /\ "HARD_STOP" \notin AgentStages
  BY NullAssumption
  DEF WellFormed, WorkflowRecord, AgentStages, TaskStages, PropagationStages
<1> QED BY <1>1, <1>2, <1>3 DEF WellFormed, AttemptsLeft, StopNamesStage

LEMMA WaitAtGateWellFormed ==
  ASSUME NEW s, WellFormed(s), NEW gate \in HumanGates
  PROVE  WellFormed(WaitAtGate(s, gate))
<1> DEFINE m == MoveTo(s, gate)
           r == WaitAtGate(s, gate)
<1>1. WellFormed(m) /\ m.attempt = 0
  BY MoveToWellFormed DEF Stage
<1>2. r = [m EXCEPT !.gate = gate, !.status = "WAITING_HUMAN"]
  BY DEF WaitAtGate
<1> HIDE DEF m, r
<1>3. r \in WorkflowRecord /\ r.attempt = 0 /\ StopNamesStage(r)
  BY <1>1, <1>2 DEF WellFormed, WorkflowRecord, StopNamesStage, Status
<1> QED BY <1>3, FreshAttempts DEF r

LEMMA PassGateWellFormed ==
  ASSUME NEW s, WellFormed(s), NEW stage \in Stage
  PROVE  WellFormed(PassGate(s, stage))
<1> DEFINE status == IF stage = "COMPLETED" THEN "COMPLETED" ELSE "RUNNING"
           m == [s EXCEPT !.stage = stage, !.run = FALSE, !.attempt = 0]
           r == PassGate(s, stage)
<1>1. status \in Status
  BY DEF Status
<1>2. r \in WorkflowRecord
  <2>1. m \in WorkflowRecord
    BY DEF WellFormed, WorkflowRecord
  <2>2. r = [m EXCEPT !.gate = Null, !.status = status]
    BY DEF PassGate, WellFormed, WorkflowRecord
  <2> HIDE DEF m, r, status
  <2> QED BY <1>1, <2>1, <2>2 DEF WorkflowRecord
<1>3. r.attempt = 0 /\ r.code = s.code /\ r.blocked = s.blocked
  BY DEF PassGate, WellFormed, WorkflowRecord
<1>4. StopNamesStage(r)
  BY <1>3 DEF WellFormed, StopNamesStage
<1> QED BY <1>2, <1>3, <1>4, FreshAttempts

\* Choosing another current task changes nothing the invariant reads.
LEMMA TaskWellFormed ==
  ASSUME NEW s, WellFormed(s), NEW t \in Task \cup {Null}
  PROVE  WellFormed([s EXCEPT !.task = t])
BY DEF WellFormed, WorkflowRecord, AttemptsLeft, StopNamesStage

LEMMA AfterReviewWellFormed ==
  ASSUME NEW s, WellFormed(s), NEW verdict
  PROVE  WellFormed(AfterReview(s, verdict))
<1>1. WellFormed(AfterReviewApproved(s))
  <2> DEFINE m == MoveTo(s, "TASK_EXECUTION")
  <2>1. "TASK_EXECUTION" \in Stage /\ "FINAL_VERIFICATION" \in Stage
    BY DEF Stage, AgentStages, TaskStages
  <2>2. WellFormed(m)
    BY <2>1, MoveToWellFormed
  <2>3. NextTask(s.task) \in Task \cup {Null}
    BY NextTaskIsTask DEF WellFormed, WorkflowRecord
  <2>4. WellFormed([m EXCEPT !.task = NextTask(s.task)])
    <3> HIDE DEF m
    <3> QED BY <2>2, <2>3, TaskWellFormed
  <2> QED
    BY <2>1, <2>4, MoveToWellFormed, WaitAtGateWellFormed
    DEF AfterReviewApproved, HumanGates
<1>2. /\ "TASK_PATCH" \in Stage /\ "PLAN_DEFECT_RESOLUTION" \in Stage
      /\ \A code \in {"AUTO_PATCH_DISABLED", "UNSUPPORTED_VERDICT",
                      "PLAN_DEFECT_RESOLUTION_DISABLED"} : code \in StopCode
  BY DEF Stage, AgentStages, TaskStages, StopCode
<1> QED
  BY <1>1, <1>2, MoveToWellFormed, EnterHardStopWellFormed DEF AfterReview

LEMMA AfterPlanReviewWellFormed ==
  ASSUME NEW s, WellFormed(s), NEW verdict
  PROVE  WellFormed(AfterPlanReview(s, verdict))
<1>1. /\ "PLAN_DEFECT_RESOLUTION" \in Stage /\ "HUMAN_PLAN_FREEZE" \in HumanGates
      /\ \A code \in {"PLAN_REVIEW_PATCH_DISABLED", "UNSUPPORTED_VERDICT"} :
           code \in StopCode
  BY DEF Stage, AgentStages, TaskStages, StopCode, HumanGates
<1> QED
  BY <1>1, MoveToWellFormed, EnterHardStopWellFormed, WaitAtGateWellFormed
  DEF AfterPlanReview

LEMMA AfterFinalWellFormed ==
  ASSUME NEW s, WellFormed(s), NEW verdict
  PROVE  WellFormed(AfterFinal(s, verdict))
<1> DEFINE m == MoveTo(s, "COMPLETED")
           r == [m EXCEPT !.status = "COMPLETED"]
<1>1. WellFormed(m)
  BY MoveToWellFormed DEF Stage
<1>2. WellFormed(r)
  <2> HIDE DEF m
  <2> QED
    BY <1>1
    DEF WellFormed, WorkflowRecord, AttemptsLeft, StopNamesStage, Status
<1>3. "HUMAN_FINAL_ACCEPTANCE" \in HumanGates /\ "UNSUPPORTED_VERDICT" \in StopCode
  BY DEF HumanGates, StopCode
<1> QED
  BY <1>2, <1>3, EnterHardStopWellFormed, WaitAtGateWellFormed DEF AfterFinal

LEMMA TransitionWellFormed ==
  ASSUME NEW s, WellFormed(s), NEW verdict
  PROVE  WellFormed(TransitionAfterOutcome(s, verdict))
<1>1. /\ "TASK_INDEPENDENT_REVIEW" \in Stage /\ "PLAN_REVISION_REVIEW" \in Stage
      /\ "BLOCKING_VERDICT" \in StopCode /\ "UNSUPPORTED_VERDICT" \in StopCode
  BY DEF Stage, AgentStages, TaskStages, PropagationStages, StopCode
<1> QED
  BY <1>1, MoveToWellFormed, EnterHardStopWellFormed, AfterReviewWellFormed,
     AfterPlanReviewWellFormed, AfterFinalWellFormed
  DEF TransitionAfterOutcome

LEMMA ApproveGateWellFormed ==
  ASSUME NEW s, WellFormed(s), s.stage \in HumanGates
  PROVE  WellFormed(ApproveGate(s))
<1> DEFINE p == PassGate(s, "TASK_EXECUTION")
<1>1. \A x \in {"TASK_EXECUTION", "FINAL_VERIFICATION", "COMPLETED"} :
        x \in Stage
  BY DEF Stage, AgentStages, TaskStages
<1>2. WellFormed(p)
  BY <1>1, PassGateWellFormed
<1>3. NextTask(s.task) \in Task \cup {Null}
  BY NextTaskIsTask DEF WellFormed, WorkflowRecord
<1>4. WellFormed([p EXCEPT !.task = NextTask(s.task)])
  <2> HIDE DEF p
  <2> QED BY <1>2, <1>3, TaskWellFormed
<1> QED
  BY <1>1, <1>2, <1>4, PassGateWellFormed DEF ApproveGate, HumanGates

LEMMA StopRecordWellFormed ==
  ASSUME NEW s, WellFormed(s)
  PROVE  WellFormed(StopRecord(s))
<1> DEFINE r == StopRecord(s)
<1>1. "STOPPED" \in Status
  BY DEF Status
<1>2. r \in WorkflowRecord
  BY <1>1 DEF StopRecord, WellFormed, WorkflowRecord
<1>3. /\ r.stage = s.stage /\ r.attempt = s.attempt /\ r.run = s.run
      /\ r.code = s.code /\ r.blocked = s.blocked
  BY DEF StopRecord, WellFormed, WorkflowRecord
<1> HIDE DEF r
<1>4. WellFormed(r)
  BY <1>2, <1>3 DEF WellFormed, AttemptsLeft, StopNamesStage
<1> QED BY <1>4 DEF r

-----------------------------------------------------------------------------
(* Decisions and authority changes *)

LEMMA RequestIsDecision ==
  ASSUME NEW s, WellFormed(s), NEW direct \in SUBSET Task,
         NEW source \in Stage, NEW change \in Change \cup {Null}
  PROVE  Request(s, direct, source, change) \in DecisionRecord
<1>1. ScopeOf(s, direct) \in SUBSET Task
  BY DEF ScopeOf
<1> QED BY <1>1 DEF Request, DecisionRecord

LEMMA RecordDecisionsWellFormed ==
  ASSUME NEW s, WellFormed(s), NEW Q, NEW request \in DecisionRecord
  PROVE  WellFormed(RecordDecisions(s, Q, request))
<1> DEFINE f == [d \in Decision |->
                   IF /\ d \in Unresolved(s, Q, request)
                      /\ s.decisions[d].status # "PENDING"
                     THEN request ELSE s.decisions[d]]
<1>1. f \in [Decision -> DecisionRecord]
  BY DEF WellFormed, WorkflowRecord
<1> HIDE DEF f
<1>2. WellFormed([s EXCEPT !.decisions = f])
  BY <1>1 DEF WellFormed, WorkflowRecord, AttemptsLeft, StopNamesStage
<1> QED BY <1>2 DEF RecordDecisions, f

LEMMA ResetWellFormed ==
  ASSUME NEW s, WellFormed(s)
  PROVE  /\ WellFormed(Reset(s))
         /\ Reset(s).attempt = 0
         /\ Reset(s).changes = s.changes
         /\ Reset(s).propagation = s.propagation
         /\ Reset(s).change = s.change
<1> DEFINE r == Reset(s)
<1>1. r \in WorkflowRecord
  <2>1. "READY" \in Stage /\ "RUNNING" \in Status
    BY DEF Stage, Status
  <2> QED BY <2>1 DEF Reset, Released, WellFormed, WorkflowRecord
<1>2. r.attempt = 0 /\ r.code = s.code /\ r.blocked = s.blocked
  BY DEF Reset, Released, WellFormed, WorkflowRecord
<1>3. /\ r.changes = s.changes /\ r.propagation = s.propagation
      /\ r.change = s.change
  BY DEF Reset, Released, WellFormed, WorkflowRecord
<1>4. StopNamesStage(r)
  BY <1>2 DEF WellFormed, StopNamesStage
<1> QED BY <1>1, <1>2, <1>3, <1>4, FreshAttempts

LEMMA DetectChangeWellFormed ==
  ASSUME NEW s, WellFormed(s), NEW c \in Change
  PROVE  WellFormed(DetectChange(s, c))
<1> DEFINE r == Released(s, "AUTHORITY_CHANGE_ANALYSIS", "RUNNING")
           items == [t \in Task |->
                       IF s.items[t] \in {"RUNNING", "REQUIRES_PATCH"}
                         THEN "READY" ELSE s.items[t]]
           q == [r EXCEPT !.gate = Null, !.code = Null, !.blocked = Null,
                          !.recoverable = FALSE, !.change = c,
                          !.changes[c].status = "CHANGE_PENDING",
                          !.items = items]
<1>1. r \in WorkflowRecord /\ r.attempt = 0
  <2>1. "AUTHORITY_CHANGE_ANALYSIS" \in Stage /\ "RUNNING" \in Status
    BY DEF Stage, AgentStages, Status
  <2>2. r \in WorkflowRecord
    BY <2>1 DEF Released, WellFormed, WorkflowRecord
  <2>3. r.attempt = 0
    BY DEF Released, WellFormed, WorkflowRecord
  <2> QED BY <2>2, <2>3
<1>2. items \in [Task -> ItemStatus]
  BY DEF WellFormed, WorkflowRecord, ItemStatus
<1> HIDE DEF r, items
<1>3. r.changes[c] \in ChangeRecord
  BY <1>1 DEF WorkflowRecord
<1>4. [r.changes[c] EXCEPT !.status = "CHANGE_PENDING"] \in ChangeRecord
  BY <1>3 DEF ChangeRecord
<1>5. q \in WorkflowRecord
  BY <1>1, <1>2, <1>4 DEF WorkflowRecord
<1>6. q.attempt = 0 /\ q.code = Null
  BY <1>1 DEF WorkflowRecord
<1> HIDE DEF q
<1>7. WellFormed(q)
  BY <1>5, <1>6, FreshAttempts DEF StopNamesStage
<1> QED BY <1>7 DEF q, r, items, DetectChange

LEMMA NewPropagationIsRecord ==
  ASSUME NEW change
  PROVE  NewPropagation(change) \in PropagationRecord
<1>1. PropagationSteps(change.needs, change.direct) \subseteq PropagationStages
  BY DEF PropagationSteps, PropagationStages
<1> QED BY <1>1 DEF NewPropagation, PropagationRecord, PropagationStages

LEMMA AnalyzedChangeIsChange ==
  ASSUME NEW a \in Analysis(Scopes, Question)
  PROVE  AnalyzedChange(a) \in ChangeRecord
BY OrchestratorAssumption DEF Analysis, AnalyzedChange, ChangeRecord

\* A record that differs in its changes and propagation only.
LEMMA ChangesWellFormed ==
  ASSUME NEW s, WellFormed(s), NEW f \in [Change -> ChangeRecord]
  PROVE  WellFormed([s EXCEPT !.changes = f])
BY DEF WellFormed, WorkflowRecord, AttemptsLeft, StopNamesStage

LEMMA PropagationWellFormed ==
  ASSUME NEW s, WellFormed(s), NEW f \in [Change -> PropagationRecord],
         NEW c \in Change \cup {Null}
  PROVE  /\ WellFormed([s EXCEPT !.propagation = f])
         /\ WellFormed([s EXCEPT !.propagation = f, !.change = c])
<1>1. WellFormed([s EXCEPT !.propagation = f])
  BY DEF WellFormed, WorkflowRecord, AttemptsLeft, StopNamesStage
<1> DEFINE r == [s EXCEPT !.propagation = f]
           q == [r EXCEPT !.change = c]
<1>2. q = [s EXCEPT !.propagation = f, !.change = c]
  BY DEF WellFormed, WorkflowRecord
<1> HIDE DEF r
<1>3. q \in WorkflowRecord
  BY <1>1 DEF r, WellFormed, WorkflowRecord
<1>4. /\ q.stage = r.stage /\ q.attempt = r.attempt /\ q.run = r.run
      /\ q.code = r.code /\ q.blocked = r.blocked
  BY <1>1 DEF r, WellFormed, WorkflowRecord
<1> HIDE DEF q
<1>5. WellFormed(q)
  BY <1>1, <1>3, <1>4 DEF r, WellFormed, AttemptsLeft, StopNamesStage
<1> QED BY <1>1, <1>2, <1>5

LEMMA ApplyAnalysisWellFormed ==
  ASSUME NEW s, WellFormed(s), NEW c \in Change,
         NEW a \in Analysis(Scopes, Question)
  PROVE  WellFormed(ApplyAnalysis(s, c, a))
<1> DEFINE change == AnalyzedChange(a)
           propagates == change.status = "PROPAGATING"
           r == Reset(s)
           p == IF propagates THEN NewPropagation(change) ELSE r.propagation[c]
           changes == [r.changes EXCEPT ![c] = change]
           propagation == [r.propagation EXCEPT ![c] = p]
           current == IF propagates THEN c ELSE Null
           recorded == [r EXCEPT
             !.code = Null, !.blocked = Null, !.recoverable = FALSE,
             !.changes[c] = change,
             !.change = IF propagates THEN c ELSE Null,
             !.propagation[c] = IF propagates THEN NewPropagation(change)
                                              ELSE @]
           request == Request(recorded, a.direct, "AUTHORITY_CHANGE_ANALYSIS", c)
           asked == RecordDecisions(recorded, a.questions, request)
<1>1. WellFormed(r) /\ r.attempt = 0
  BY ResetWellFormed
<1> HIDE DEF r
<1>2. change \in ChangeRecord /\ p \in PropagationRecord
  BY <1>1, AnalyzedChangeIsChange, NewPropagationIsRecord
  DEF WellFormed, WorkflowRecord
<1>3. WellFormed(recorded)
  <2>1. /\ changes \in [Change -> ChangeRecord]
        /\ propagation \in [Change -> PropagationRecord]
        /\ current \in Change \cup {Null}
    BY <1>1, <1>2 DEF WellFormed, WorkflowRecord
  <2>2. recorded = [r EXCEPT
             !.code = Null, !.blocked = Null, !.recoverable = FALSE,
             !.changes = changes, !.change = current,
             !.propagation = propagation]
    BY <1>1 DEF WellFormed, WorkflowRecord
  <2> HIDE DEF changes, propagation, current, recorded
  <2>3. recorded \in WorkflowRecord
    BY <1>1, <2>1, <2>2 DEF WellFormed, WorkflowRecord
  <2>4. recorded.attempt = 0 /\ recorded.code = Null
    BY <1>1, <2>2 DEF WellFormed, WorkflowRecord
  <2> QED BY <2>3, <2>4, FreshAttempts DEF StopNamesStage
<1>4. WellFormed(asked)
  <2> HIDE DEF recorded
  <2>1. a.direct \in SUBSET Task
    BY OrchestratorAssumption DEF Analysis
  <2>2. request \in DecisionRecord
    BY <1>3, <2>1, RequestIsDecision DEF Stage, AgentStages
  <2> QED BY <1>3, <2>2, RecordDecisionsWellFormed
<1> HIDE DEF asked
<1>5. WellFormed(Schedule(Recompute(asked)))
  BY <1>4, RecomputeWellFormed, ScheduleWellFormed
<1> QED BY <1>5 DEF asked, r, ApplyAnalysis

\* The stage is given up and the record handed to the scheduler.
LEMMA ParkedWellFormed ==
  ASSUME NEW s, WellFormed(s)
  PROVE  WellFormed([s EXCEPT !.stage = "READY", !.task = Null, !.run = FALSE,
                              !.status = "RUNNING", !.runnerFailure = FALSE])
<1> DEFINE q == [s EXCEPT !.stage = "READY", !.task = Null, !.run = FALSE,
                          !.status = "RUNNING", !.runnerFailure = FALSE]
<1>1. q \in WorkflowRecord
  <2>1. "READY" \in Stage /\ "RUNNING" \in Status
    BY DEF Stage, Status
  <2> QED BY <2>1 DEF WellFormed, WorkflowRecord
<1>2. /\ q.stage = "READY" /\ q.attempt = s.attempt
      /\ q.code = s.code /\ q.blocked = s.blocked
  BY DEF WellFormed, WorkflowRecord
<1>3. "READY" \notin AgentStages
  BY DEF AgentStages, TaskStages, PropagationStages
<1> QED
  BY <1>1, <1>2, <1>3 DEF WellFormed, AttemptsLeft, StopNamesStage

LEMMA SuspendPropagationWellFormed ==
  ASSUME NEW s, WellFormed(s), s.change \in Change,
         s.stage \in PropagationStages, NEW Q, NEW direct \in SUBSET Task
  PROVE  WellFormed(SuspendPropagation(s, Q, direct))
<1> DEFINE c == s.change
           blocked == IF direct # {} THEN direct ELSE s.changes[c].direct
           request == Request(s, blocked, s.stage, Null)
           recorded == RecordDecisions(s, Q, request)
           f == [recorded.propagation EXCEPT ![c].status = "WAITING_DECISION",
                                             ![c].next = s.stage]
           suspended == [recorded EXCEPT !.propagation = f]
           parked == [suspended EXCEPT
                        !.stage = "READY", !.task = Null, !.run = FALSE,
                        !.status = "RUNNING", !.runnerFailure = FALSE]
<1>1. request \in DecisionRecord
  <2>1. blocked \in SUBSET Task
    BY DEF WellFormed, WorkflowRecord, ChangeRecord
  <2>2. s.stage \in Stage
    BY DEF WellFormed, WorkflowRecord
  <2> QED BY <2>1, <2>2, RequestIsDecision
<1>2. WellFormed(recorded)
  BY <1>1, RecordDecisionsWellFormed
<1> HIDE DEF recorded
<1>3. f \in [Change -> PropagationRecord]
  <2>1. recorded.propagation \in [Change -> PropagationRecord]
    BY <1>2 DEF WellFormed, WorkflowRecord
  <2>2. [recorded.propagation[c] EXCEPT !.status = "WAITING_DECISION",
                                        !.next = s.stage] \in PropagationRecord
    BY <2>1 DEF PropagationRecord
  <2> QED BY <2>1, <2>2
<1> HIDE DEF f
<1>4. WellFormed(suspended)
  BY <1>2, <1>3, PropagationWellFormed
<1>5. [recorded EXCEPT
         !.propagation[c].status = "WAITING_DECISION",
         !.propagation[c].next = s.stage,
         !.stage = "READY", !.task = Null, !.run = FALSE,
         !.status = "RUNNING", !.runnerFailure = FALSE] = parked
  BY <1>2 DEF f, WellFormed, WorkflowRecord
<1> HIDE DEF suspended
<1>6. WellFormed(Schedule(parked))
  BY <1>4, ParkedWellFormed, ScheduleWellFormed
<1> QED BY <1>5, <1>6 DEF recorded, SuspendPropagation

\* The propagation of a change names another stage to run next.
LEMMA NextStageWellFormed ==
  ASSUME NEW s, WellFormed(s), NEW c \in Change,
         NEW stage \in PropagationStages
  PROVE  WellFormed([s EXCEPT !.propagation[c].next = stage])
<1> DEFINE f == [s.propagation EXCEPT ![c].next = stage]
<1>1. f \in [Change -> PropagationRecord]
  <2>1. s.propagation \in [Change -> PropagationRecord]
    BY DEF WellFormed, WorkflowRecord
  <2>2. [s.propagation[c] EXCEPT !.next = stage] \in PropagationRecord
    BY <2>1 DEF PropagationRecord
  <2> QED BY <2>1, <2>2
<1>2. [s EXCEPT !.propagation[c].next = stage] = [s EXCEPT !.propagation = f]
  BY DEF WellFormed, WorkflowRecord
<1> HIDE DEF f
<1> QED BY <1>1, <1>2, PropagationWellFormed

LEMMA ReviseAgainWellFormed ==
  ASSUME NEW s, WellFormed(s), s.change \in Change,
         s.stage \in DOMAIN RevisionOf
  PROVE  WellFormed(ReviseAgain(s))
<1>1. RevisionOf[s.stage] \in PropagationStages
  BY DEF RevisionOf, PropagationStages
<1>2. WellFormed(Reset(s))
  BY ResetWellFormed
<1>3. WellFormed([Reset(s) EXCEPT !.propagation[s.change].next =
                                    RevisionOf[s.stage]])
  BY <1>1, <1>2, NextStageWellFormed
<1> QED BY <1>3, ScheduleWellFormed DEF ReviseAgain

\* A field of the analysis of a change is set.
LEMMA ReadyWellFormed ==
  ASSUME NEW s, WellFormed(s), NEW c \in Change, NEW ready \in BOOLEAN
  PROVE  WellFormed([s EXCEPT !.changes[c].ready = ready])
<1> DEFINE f == [s.changes EXCEPT ![c].ready = ready]
<1>1. f \in [Change -> ChangeRecord]
  <2>1. s.changes \in [Change -> ChangeRecord]
    BY DEF WellFormed, WorkflowRecord
  <2>2. [s.changes[c] EXCEPT !.ready = ready] \in ChangeRecord
    BY <2>1 DEF ChangeRecord
  <2> QED BY <2>1, <2>2
<1>2. [s EXCEPT !.changes[c].ready = ready] = [s EXCEPT !.changes = f]
  BY DEF WellFormed, WorkflowRecord
<1> HIDE DEF f
<1> QED BY <1>1, <1>2, ChangesWellFormed

LEMMA GraphBuiltWellFormed ==
  ASSUME NEW s, WellFormed(s), s.change \in Change
  PROVE  WellFormed(GraphBuilt(s))
<1> DEFINE g == [s EXCEPT !.graph = TRUE]
<1>1. WellFormed(g) /\ g.changes = s.changes
  BY DEF WellFormed, WorkflowRecord, AttemptsLeft, StopNamesStage
<1>2. [s EXCEPT !.graph = TRUE, !.changes[s.change].ready = TRUE]
        = [g EXCEPT !.changes[s.change].ready = TRUE]
  BY DEF WellFormed, WorkflowRecord
<1> HIDE DEF g
<1>3. WellFormed([g EXCEPT !.changes[s.change].ready = TRUE])
  BY <1>1, ReadyWellFormed
<1> QED BY <1>2, <1>3 DEF GraphBuilt

LEMMA AdvancePropagationWellFormed ==
  ASSUME NEW s, WellFormed(s), s.change \in Change
  PROVE  WellFormed(AdvancePropagation(s))
<1> DEFINE c == s.change
           built == GraphBuilt(s)
           ready == [built EXCEPT !.changes[c].ready = TRUE]
           f == [ready.propagation EXCEPT ![c].status = "WAITING_PROMOTION",
                                          ![c].next = Null]
           waiting == [ready EXCEPT !.propagation = f]
           request == Request(s, s.changes[c].direct, "TASK_REBASE_ANALYSIS", c)
           requested == RecordDecisions(waiting, {c}, request)
<1>1. WellFormed(built)
  BY GraphBuiltWellFormed
<1>2. WellFormed(ready)
  BY <1>1, ReadyWellFormed
<1>3. WellFormed(waiting)
  <2>1. ready.propagation \in [Change -> PropagationRecord]
    BY <1>2 DEF WellFormed, WorkflowRecord
  <2>2. [ready.propagation[c] EXCEPT !.status = "WAITING_PROMOTION",
                                     !.next = Null] \in PropagationRecord
    BY <2>1 DEF PropagationRecord
  <2>3. f \in [Change -> PropagationRecord]
    BY <2>1, <2>2
  <2> HIDE DEF f, ready
  <2> QED BY <1>2, <2>3, PropagationWellFormed
<1>4. request \in DecisionRecord
  <2>1. s.changes[c].direct \in SUBSET Task
    BY DEF WellFormed, WorkflowRecord, ChangeRecord
  <2>2. "TASK_REBASE_ANALYSIS" \in Stage
    BY DEF Stage, AgentStages, PropagationStages
  <2> QED BY <2>1, <2>2, RequestIsDecision
<1>5. WellFormed(requested)
  <2> HIDE DEF waiting, request
  <2> QED BY <1>3, <1>4, RecordDecisionsWellFormed
<1>6. waiting = [built EXCEPT !.changes[c].ready = TRUE,
                              !.propagation[c].status = "WAITING_PROMOTION",
                              !.propagation[c].next = Null]
  BY <1>1 DEF WellFormed, WorkflowRecord
<1>7. CASE CompletesPropagation(s)
  <2> HIDE DEF requested, waiting
  <2>1. WellFormed(Schedule([requested EXCEPT
              !.stage = "READY", !.task = Null, !.run = FALSE,
              !.status = "RUNNING", !.runnerFailure = FALSE]))
    BY <1>5, ParkedWellFormed, ScheduleWellFormed
  <2> QED BY <1>6, <1>7, <2>1 DEF AdvancePropagation, requested
<1>8. CASE ~CompletesPropagation(s)
  <2>1. s.propagation[c].steps \in SUBSET PropagationStages
    BY DEF WellFormed, WorkflowRecord, PropagationRecord
  <2>2. StepAfter(s.propagation[c].steps, s.stage) \in PropagationStages
    BY <1>8, <2>1, StepAfterIsStep DEF CompletesPropagation
  <2>3. WellFormed([Reset(built) EXCEPT !.propagation[c].next =
                      StepAfter(s.propagation[c].steps, s.stage)])
    BY <1>1, <2>2, ResetWellFormed, NextStageWellFormed
  <2> QED BY <1>8, <2>3, ScheduleWellFormed DEF AdvancePropagation
<1> QED BY <1>7, <1>8

LEMMA PromoteChangeWellFormed ==
  ASSUME NEW s, WellFormed(s), NEW c \in Change, NEW first \in Task \cup {Null}
  PROVE  WellFormed(PromoteChange(s, c, first))
<1> DEFINE stage == IF first = Null THEN "READY" ELSE "TASK_PATCH"
           r == Released(s, stage, "RUNNING")
           changes == [r.changes EXCEPT ![c].status = "PROMOTED"]
           propagation == [r.propagation EXCEPT ![c].status = "PROMOTED"]
           q == [r EXCEPT !.task = first, !.change = Null,
                          !.changes = changes, !.propagation = propagation]
<1>1. WellFormed(r) /\ r.attempt = 0
  <2>1. stage \in Stage /\ "RUNNING" \in Status
    BY DEF Stage, AgentStages, TaskStages, Status
  <2>2. r.attempt = 0
    BY DEF Released, WellFormed, WorkflowRecord
  <2> HIDE DEF stage
  <2> QED BY <2>1, <2>2, ReleasedWellFormed DEF WellFormed
<1> HIDE DEF r
<1>2. changes \in [Change -> ChangeRecord]
  <2>1. r.changes \in [Change -> ChangeRecord]
    BY <1>1 DEF WellFormed, WorkflowRecord
  <2>2. [r.changes[c] EXCEPT !.status = "PROMOTED"] \in ChangeRecord
    BY <2>1 DEF ChangeRecord
  <2> QED BY <2>1, <2>2
<1>3. propagation \in [Change -> PropagationRecord]
  <2>1. r.propagation \in [Change -> PropagationRecord]
    BY <1>1 DEF WellFormed, WorkflowRecord
  <2>2. [r.propagation[c] EXCEPT !.status = "PROMOTED"] \in PropagationRecord
    BY <2>1 DEF PropagationRecord
  <2> QED BY <2>1, <2>2
<1>4. q = [r EXCEPT !.task = first, !.change = Null,
                    !.changes[c].status = "PROMOTED",
                    !.propagation[c].status = "PROMOTED"]
  BY <1>1 DEF WellFormed, WorkflowRecord
<1> HIDE DEF changes, propagation
<1>5. q \in WorkflowRecord
  BY <1>1, <1>2, <1>3 DEF WellFormed, WorkflowRecord
<1>6. q.attempt = 0 /\ q.code = r.code /\ q.blocked = r.blocked
  BY <1>1 DEF WellFormed, WorkflowRecord
<1> HIDE DEF q
<1>7. WellFormed(q)
  BY <1>1, <1>5, <1>6, FreshAttempts DEF WellFormed, StopNamesStage
<1> QED BY <1>4, <1>7 DEF PromoteChange, r

LEMMA ResolvedWellFormed ==
  ASSUME NEW s, WellFormed(s), NEW d \in Decision
  PROVE  WellFormed([s EXCEPT !.decisions[d].status = "RESOLVED"])
<1> DEFINE f == [s.decisions EXCEPT ![d].status = "RESOLVED"]
<1>1. f \in [Decision -> DecisionRecord]
  <2>1. s.decisions \in [Decision -> DecisionRecord]
    BY DEF WellFormed, WorkflowRecord
  <2>2. [s.decisions[d] EXCEPT !.status = "RESOLVED"] \in DecisionRecord
    BY <2>1 DEF DecisionRecord
  <2> QED BY <2>1, <2>2
<1>2. [s EXCEPT !.decisions[d].status = "RESOLVED"] = [s EXCEPT !.decisions = f]
  BY DEF WellFormed, WorkflowRecord
<1> HIDE DEF f
<1>3. WellFormed([s EXCEPT !.decisions = f])
  BY <1>1 DEF WellFormed, WorkflowRecord, AttemptsLeft, StopNamesStage
<1> QED BY <1>2, <1>3

\* A question without a change resumes no propagation: nothing is stored for
\* the change None.
LEMMA ResumePropagationWellFormed ==
  ASSUME NEW s, WellFormed(s), NEW c \in Change \cup {Null}
  PROVE  WellFormed(ResumePropagation(s, c))
<1> DEFINE p == s.propagation[c]
           resumed == IF p.status = "NONE" THEN NewPropagation(s.changes[c])
                      ELSE [p EXCEPT !.status = "RUNNING",
                              !.next = IF @ # Null THEN @
                                       ELSE "CHANGE_PROPAGATION_PLANNING"]
           f == [s.propagation EXCEPT ![c] = resumed]
<1>1. f \in [Change -> PropagationRecord]
  <2>1. CASE c \in Change
    <3>1. s.propagation \in [Change -> PropagationRecord]
      BY DEF WellFormed, WorkflowRecord
    <3>2. p \in PropagationRecord
      BY <2>1, <3>1
    <3>3. [p EXCEPT !.status = "RUNNING",
                    !.next = IF @ # Null THEN @
                             ELSE "CHANGE_PROPAGATION_PLANNING"]
             \in PropagationRecord
      BY <3>2 DEF PropagationRecord, PropagationStages
    <3>4. resumed \in PropagationRecord
      BY <3>3, NewPropagationIsRecord
    <3> HIDE DEF resumed
    <3> QED BY <3>1, <3>4
  <2>2. CASE c = Null
    <3>1. c \notin Change
      BY <2>2, DecisionAssumption
    <3>2. s.propagation \in [Change -> PropagationRecord]
      BY DEF WellFormed, WorkflowRecord
    <3> HIDE DEF resumed
    <3> QED BY <3>1, <3>2
  <2> QED BY <2>1, <2>2
<1>2. [s EXCEPT !.propagation[c] = resumed, !.change = c]
        = [s EXCEPT !.propagation = f, !.change = c]
  <2> HIDE DEF resumed
  <2> QED BY DEF WellFormed, WorkflowRecord
<1> HIDE DEF f
<1>3. WellFormed([s EXCEPT !.propagation = f, !.change = c])
  BY <1>1, PropagationWellFormed
<1> QED BY <1>2, <1>3 DEF ResumePropagation

LEMMA ResolveDecisionWellFormed ==
  ASSUME NEW s, WellFormed(s), NEW d \in Decision
  PROVE  WellFormed(ResolveDecision(s, d))
<1> DEFINE r == Released(s, "READY", "RUNNING")
           freed == [r EXCEPT !.decisions[d].status = "RESOLVED"]
<1>1. WellFormed(r)
  BY ReleasedWellFormed DEF WellFormed, Stage, Status
<1>2. WellFormed(freed)
  <2> HIDE DEF r
  <2> QED BY <1>1, ResolvedWellFormed
<1>3. s.decisions[d].change \in Change \cup {Null}
  BY DEF WellFormed, WorkflowRecord, DecisionRecord
<1> HIDE DEF freed
<1>4. WellFormed(ResumePropagation(freed, s.decisions[d].change))
  BY <1>2, <1>3, ResumePropagationWellFormed
<1> QED
  BY <1>2, <1>4, ScheduleWellFormed DEF ResolveDecision, freed, r

LEMMA ResolvePromotionWellFormed ==
  ASSUME NEW s, WellFormed(s), NEW c \in Change, NEW first \in Task \cup {Null}
  PROVE  WellFormed(ResolvePromotion(s, c, first))
<1> DEFINE resolved == [s EXCEPT !.decisions[c].status = "RESOLVED"]
<1>1. WellFormed(resolved)
  BY ResolvedWellFormed DEF Decision
<1> HIDE DEF resolved
<1>2. WellFormed(PromoteChange(resolved, c, first))
  BY <1>1, PromoteChangeWellFormed
<1> QED
  BY <1>2, ScheduleWellFormed DEF ResolvePromotion, resolved

-----------------------------------------------------------------------------
(* The steps of the orchestrator *)

LEMMA LoadWellFormed ==
  ASSUME NEW s, WellFormed(s)
  PROVE  WellFormed(Load(s))
<1> DEFINE stage == IF s.blocked # Null THEN s.blocked ELSE s.stage
           q == DigestStop(s)
<1>1. stage \in Stage /\ stage # Null
  BY NullAssumption DEF WellFormed, WorkflowRecord
<1>2. q = [s EXCEPT !.stage = "HARD_STOP", !.status = "HARD_STOPPED",
                    !.gate = Null, !.code = "WORKFLOW_DIGEST_CHANGED",
                    !.blocked = stage, !.recoverable = FALSE]
  BY DEF DigestStop, WellFormed, WorkflowRecord
<1> DEFINE m == [s EXCEPT !.stage = "HARD_STOP", !.status = "HARD_STOPPED",
                          !.blocked = stage]
<1> HIDE DEF stage, q
<1>3. q \in WorkflowRecord
  <2>1. /\ "HARD_STOP" \in Stage /\ "HARD_STOPPED" \in Status
        /\ "WORKFLOW_DIGEST_CHANGED" \in StopCode
    BY DEF Stage, Status, StopCode
  <2>2. m \in WorkflowRecord
    BY <1>1, <2>1 DEF WellFormed, WorkflowRecord
  <2>3. q = [m EXCEPT !.gate = Null, !.code = "WORKFLOW_DIGEST_CHANGED",
                      !.recoverable = FALSE]
    BY <1>2 DEF WellFormed, WorkflowRecord
  <2> HIDE DEF m
  <2> QED BY <2>1, <2>2, <2>3 DEF WorkflowRecord
<1>4. q.stage = "HARD_STOP" /\ q.attempt = s.attempt /\ q.blocked = stage
  BY <1>2 DEF WellFormed, WorkflowRecord
<1>5. "HARD_STOP" \notin AgentStages
  BY DEF AgentStages, TaskStages, PropagationStages
<1>6. WellFormed(q)
  BY <1>1, <1>3, <1>4, <1>5 DEF WellFormed, AttemptsLeft, StopNamesStage
<1> QED BY <1>6, RecomputeWellFormed DEF Load, q

\* Every stop of the orchestrator names the stage it was made at.
LEMMA StoppedWellFormed ==
  ASSUME NEW s, WellFormed(s), NEW code \in StopCode, NEW gate \in {s.gate, Null},
         NEW recoverable \in BOOLEAN
  PROVE  WellFormed([s EXCEPT !.stage = "HARD_STOP", !.status = "HARD_STOPPED",
                              !.gate = gate, !.blocked = s.stage,
                              !.code = code, !.recoverable = recoverable])
<1> DEFINE q == [s EXCEPT !.stage = "HARD_STOP", !.status = "HARD_STOPPED",
                          !.gate = gate, !.blocked = s.stage,
                          !.code = code, !.recoverable = recoverable]
           m == [s EXCEPT !.stage = "HARD_STOP", !.status = "HARD_STOPPED",
                          !.blocked = s.stage]
<1>1. q \in WorkflowRecord
  <2>1. "HARD_STOP" \in Stage /\ "HARD_STOPPED" \in Status
    BY DEF Stage, Status
  <2>2. m \in WorkflowRecord
    BY <2>1 DEF WellFormed, WorkflowRecord
  <2>3. q = [m EXCEPT !.gate = gate, !.code = code, !.recoverable = recoverable]
    BY DEF WellFormed, WorkflowRecord
  <2>4. gate \in HumanGates \cup {Null}
    BY DEF WellFormed, WorkflowRecord
  <2> HIDE DEF m, q
  <2> QED BY <2>2, <2>3, <2>4 DEF WorkflowRecord
<1>2. q.stage = "HARD_STOP" /\ q.attempt = s.attempt /\ q.blocked = s.stage
  BY DEF WellFormed, WorkflowRecord
<1>3. s.stage # Null /\ "HARD_STOP" \notin AgentStages
  BY NullAssumption
  DEF WellFormed, WorkflowRecord, AgentStages, TaskStages, PropagationStages
<1> QED BY <1>1, <1>2, <1>3 DEF WellFormed, AttemptsLeft, StopNamesStage

LEMMA InvocationStopWellFormed ==
  ASSUME NEW s, WellFormed(s), NEW code \in StopCode
  PROVE  WellFormed(InvocationStop(s, code))
BY StoppedWellFormed DEF InvocationStop

LEMMA AuditStopWellFormed ==
  ASSUME NEW s, WellFormed(s)
  PROVE  WellFormed(AuditStop(s))
<1> DEFINE stop(code, recoverable) ==
             [s EXCEPT !.stage = "HARD_STOP", !.status = "HARD_STOPPED",
                       !.gate = Null, !.blocked = s.stage, !.code = code,
                       !.recoverable = recoverable]
<1>1. "UNEXPECTED_UNRELATED_CHANGE" \in StopCode /\ "AUDIT_BLOCKED" \in StopCode
  BY DEF StopCode
<1>2. CASE tree = "edited"
  <2>1. AuditStop(s) = stop("UNEXPECTED_UNRELATED_CHANGE", TRUE)
    BY <1>2 DEF AuditStop
  <2>2. WellFormed(stop("UNEXPECTED_UNRELATED_CHANGE", TRUE))
    BY <1>1, StoppedWellFormed
  <2> QED BY <2>1, <2>2
<1>3. CASE tree # "edited"
  <2>1. AuditStop(s) = stop("AUDIT_BLOCKED", FALSE)
    BY <1>3 DEF AuditStop
  <2>2. WellFormed(stop("AUDIT_BLOCKED", FALSE))
    BY <1>1, StoppedWellFormed
  <2> QED BY <2>1, <2>2
<1> QED BY <1>2, <1>3

LEMMA OrphanStopWellFormed ==
  ASSUME NEW s, WellFormed(s)
  PROVE  WellFormed(OrphanStop(s))
<1>1. "RECOVERY_UNCERTAIN" \in StopCode
  BY DEF StopCode
<1>2. [s EXCEPT !.stage = "HARD_STOP", !.status = "HARD_STOPPED",
                !.blocked = s.stage, !.code = "RECOVERY_UNCERTAIN",
                !.recoverable = TRUE]
        = [s EXCEPT !.stage = "HARD_STOP", !.status = "HARD_STOPPED",
                    !.gate = s.gate, !.blocked = s.stage,
                    !.code = "RECOVERY_UNCERTAIN", !.recoverable = TRUE]
  BY DEF WellFormed, WorkflowRecord
<1> QED BY <1>1, <1>2, StoppedWellFormed DEF OrphanStop

\* The stage that was stopped is entered again, with its attempts reset.
LEMMA RestoredWellFormed ==
  ASSUME NEW s, WellFormed(s), s.blocked # Null
  PROVE  /\ WellFormed(Restored(s))
         /\ Restored(s).attempt = 0
<1> DEFINE q == Restored(s)
<1>1. q \in WorkflowRecord
  BY DEF Restored, WellFormed, WorkflowRecord, Status
<1>2. q.attempt = 0 /\ q.code = Null
  BY DEF Restored, WellFormed, WorkflowRecord
<1> QED BY <1>1, <1>2, FreshAttempts DEF StopNamesStage

\* The attempt that is made is one that was left.
LEMMA InvokeWellFormed ==
  ASSUME NEW s, WellFormed(s), s.stage \in AgentStages, ~s.run
  PROVE  WellFormed(Invoke(s))
<1> DEFINE started == [s EXCEPT !.run = TRUE, !.attempt = @ + 1]
<1>1. started \in WorkflowRecord
  <2>1. s \in WorkflowRecord /\ s.attempt + 1 \in Nat
    BY DEF WellFormed, WorkflowRecord
  <2> QED BY <2>1 DEF WorkflowRecord
<1>2. /\ started.attempt = s.attempt + 1 /\ started.run
      /\ started.code = s.code /\ started.blocked = s.blocked
      /\ started.task = s.task /\ started.stage = s.stage
  BY DEF WellFormed, WorkflowRecord
<1>3. s.attempt + 1 <= MaxAttempts
  BY PolicyAssumption DEF WellFormed, WorkflowRecord, AttemptsLeft
<1> HIDE DEF started
<1>4. WellFormed(started)
  BY <1>1, <1>2, <1>3 DEF WellFormed, AttemptsLeft, StopNamesStage
<1>5. ASSUME NEW t \in Task, NEW status \in ItemStatus
      PROVE  WellFormed([started EXCEPT !.items[t] = status])
  BY <1>4 DEF WellFormed, WorkflowRecord, AttemptsLeft, StopNamesStage
<1>6. s.task \in Task \cup {Null}
  BY DEF WellFormed, WorkflowRecord
<1> QED BY <1>4, <1>5, <1>6 DEF Invoke, started, ItemStatus

LEMMA InvalidOrFailedWellFormed ==
  ASSUME NEW s, WellFormed(s), NEW runnerFailed \in BOOLEAN
  PROVE  WellFormed(InvalidOrFailed(s, runnerFailed))
<1>1. CASE s.attempt >= MaxAttempts
  <2> DEFINE stop == InvocationStop(s, "RETRY_EXHAUSTED")
  <2>1. WellFormed(stop)
    BY InvocationStopWellFormed DEF StopCode
  <2> HIDE DEF stop
  <2>2. WellFormed([stop EXCEPT !.recoverable = runnerFailed])
    BY <2>1 DEF WellFormed, WorkflowRecord, AttemptsLeft, StopNamesStage
  <2> QED BY <1>1, <2>2 DEF InvalidOrFailed, stop
<1>2. CASE ~(s.attempt >= MaxAttempts)
  <2> DEFINE q == [s EXCEPT !.run = FALSE, !.status = "RUNNING",
                            !.runnerFailure = runnerFailed]
  <2>1. q \in WorkflowRecord
    BY DEF WellFormed, WorkflowRecord, Status
  <2>2. q.attempt = s.attempt /\ q.code = s.code /\ q.blocked = s.blocked
    BY DEF WellFormed, WorkflowRecord
  <2>3. s.attempt < MaxAttempts
    BY <1>2, PolicyAssumption DEF WellFormed, WorkflowRecord
  <2> HIDE DEF q
  <2>4. WellFormed(q)
    BY <2>1, <2>2, <2>3, PolicyAssumption
    DEF WellFormed, AttemptsLeft, StopNamesStage
  <2> QED BY <1>2, <2>4 DEF InvalidOrFailed, q
<1> QED BY <1>1, <1>2

\* A record that is to be scheduled after work was approved.
LEMMA ToScheduleWellFormed ==
  ASSUME NEW s, WellFormed(s)
  PROVE  WellFormed([s EXCEPT !.stage = "READY", !.task = Null, !.gate = Null,
                              !.status = "RUNNING"])
<1> DEFINE q == [s EXCEPT !.stage = "READY", !.task = Null, !.gate = Null,
                          !.status = "RUNNING"]
<1>1. "READY" \in Stage /\ "RUNNING" \in Status
  BY DEF Stage, Status
<1>2. q \in WorkflowRecord
  BY <1>1 DEF WellFormed, WorkflowRecord
<1>3. /\ q.stage = "READY" /\ q.attempt = s.attempt
      /\ q.code = s.code /\ q.blocked = s.blocked
  BY DEF WellFormed, WorkflowRecord
<1>4. "READY" \notin AgentStages
  BY DEF AgentStages, TaskStages, PropagationStages
<1> QED
  BY <1>2, <1>3, <1>4 DEF WellFormed, AttemptsLeft, StopNamesStage

LEMMA ApplyVerdictWellFormed ==
  ASSUME NEW s, WellFormed(s), NEW verdict
  PROVE  WellFormed(ApplyVerdict(s, verdict))
<1> DEFINE moved == TransitionAfterOutcome(s, verdict)
           done == [moved EXCEPT !.items[s.task] = "COMPLETED"]
           next == [done EXCEPT !.stage = "READY", !.task = Null,
                                !.gate = Null, !.status = "RUNNING"]
           reviewed == /\ s.stage = "TASK_INDEPENDENT_REVIEW"
                       /\ verdict = "APPROVED" /\ s.task # Null
<1>1. WellFormed(moved)
  BY TransitionWellFormed
<1>2. ASSUME reviewed PROVE WellFormed(CompleteReviewed(moved, s.task))
  <2> HIDE DEF moved
  <2>1. s.task \in Task
    BY <1>2 DEF WellFormed, WorkflowRecord
  <2>2. WellFormed(done)
    BY <1>1, <2>1
    DEF WellFormed, WorkflowRecord, AttemptsLeft, StopNamesStage, ItemStatus
  <2> HIDE DEF done
  <2>3. WellFormed(next)
    BY <2>2, ToScheduleWellFormed
  <2> HIDE DEF next
  <2> QED
    BY <2>2, <2>3, ScheduleWellFormed DEF CompleteReviewed, done, next
<1> HIDE DEF moved
<1>3. WellFormed(IF reviewed THEN CompleteReviewed(moved, s.task) ELSE moved)
  BY <1>1, <1>2
<1> QED BY <1>3, RecomputeWellFormed DEF ApplyVerdict, moved

LEMMA ApplyScopedWellFormed ==
  ASSUME NEW s, WellFormed(s), NEW Q, NEW direct \in SUBSET Task
  PROVE  WellFormed(ApplyScoped(s, Q, direct))
<1> DEFINE request == Request(s, direct, s.stage, Null)
           recorded == RecordDecisions(s, Q, request)
<1>1. s.stage \in Stage
  BY DEF WellFormed, WorkflowRecord
<1>2. WellFormed(recorded)
  BY <1>1, RequestIsDecision, RecordDecisionsWellFormed
<1> HIDE DEF recorded
<1>3. WellFormed(Schedule(Reset(recorded)))
  BY <1>2, ResetWellFormed, ScheduleWellFormed
<1>4. WellFormed(Recompute(TransitionAfterOutcome(s, "APPROVED")))
  BY TransitionWellFormed, RecomputeWellFormed
<1> QED BY <1>3, <1>4 DEF ApplyScoped, recorded

LEMMA ApprovedWellFormed ==
  ASSUME NEW s, WellFormed(s), s.stage \in HumanGates
  PROVE  WellFormed(Approved(s))
<1> DEFINE a == ApproveGate(s)
           q == [a EXCEPT !.stage = "READY", !.task = Null, !.gate = Null,
                          !.status = "RUNNING"]
<1>1. WellFormed(a)
  BY ApproveGateWellFormed
<1> HIDE DEF a
<1>2. WellFormed(q)
  BY <1>1, ToScheduleWellFormed
<1> HIDE DEF q
<1> QED
  BY <1>1, <1>2, ScheduleWellFormed, RecomputeWellFormed DEF Approved, a, q

-----------------------------------------------------------------------------
(* Every action preserves the inductive invariant *)

\* The part of Inductive that speaks of the record and of the command.
RecordOK ==
  /\ WellFormed(state)
  /\ running \in BOOLEAN /\ left \in 0 .. MaxTotalSteps /\ invoking \in BOOLEAN
  /\ invoking => left > 0

EvidenceOK == latest \in Invocation /\ orphans \in BOOLEAN

ProjectOK ==
  /\ candidate \in Change \cup {Null}
  /\ tree \in {"clean", "edited", "blocked"}
  /\ digestMatches \in BOOLEAN

LEMMA InductiveParts ==
  /\ Inductive <=> RecordOK /\ EvidenceOK /\ ProjectOK
  /\ Inductive' <=> RecordOK' /\ EvidenceOK' /\ ProjectOK'
<1>1. Inductive <=> RecordOK /\ EvidenceOK /\ ProjectOK
  BY DEF Inductive, TypeOK, RecordOK, EvidenceOK, ProjectOK, WellFormed
<1>2. Inductive' <=> RecordOK' /\ EvidenceOK' /\ ProjectOK'
  BY DEF Inductive, TypeOK, RecordOK, EvidenceOK, ProjectOK, WellFormed
<1> QED BY <1>1, <1>2

LEMMA InitInductive == Init => Inductive
<1> SUFFICES ASSUME Init PROVE Inductive
  OBVIOUS
<1>1. Fresh \in WorkflowRecord
  <2>1. [t \in Task |-> IF Dependencies[t] = {} THEN "READY"
                                               ELSE "WAITING_DEPENDENCY"]
          \in [Task -> ItemStatus]
    BY DEF ItemStatus
  <2>2. NoDecision \in DecisionRecord
    BY DEF NoDecision, DecisionRecord, Stage
  <2>3. NoChange \in ChangeRecord
    BY DEF NoChange, ChangeRecord
  <2>4. NoPropagation \in PropagationRecord
    BY DEF NoPropagation, PropagationRecord
  <2>5. "INITIALIZING" \in Stage /\ "RUNNING" \in Status
    BY DEF Stage, Status
  <2> QED BY <2>1, <2>2, <2>3, <2>4, <2>5 DEF Fresh, WorkflowRecord
<1>2. Fresh.attempt = 0 /\ Fresh.code = Null
  BY DEF Fresh
<1>3. WellFormed(Fresh)
  BY <1>1, <1>2, FreshAttempts DEF StopNamesStage
<1>4. RecordOK
  <2>1. state = Fresh /\ running = FALSE /\ left = 0 /\ invoking = FALSE
    BY DEF Init
  <2>2. 0 \in 0 .. MaxTotalSteps
    BY OrchestratorAssumption
  <2> QED BY <1>3, <2>1, <2>2 DEF RecordOK
<1>5. EvidenceOK
  <2>1. NoInvocation \in Invocation
    BY DEF NoInvocation, Invocation
  <2> QED BY <2>1 DEF Init, EvidenceOK
<1>6. ProjectOK
  BY DEF Init, ProjectOK
<1> QED BY <1>4, <1>5, <1>6, InductiveParts

\* The end of a step.
LEMMA ReturnPreserves ==
  ASSUME RecordOK, left > 0, NEW s, WellFormed(s), Return(s)
  PROVE  RecordOK'
<1>1. WellFormed(state)'
  <2>1. state' = s
    BY DEF Return
  <2> QED BY <2>1 DEF WellFormed, AttemptsLeft, StopNamesStage
<1>2. invoking' = FALSE /\ running' \in BOOLEAN
  BY DEF Return
<1>3. left' \in 0 .. MaxTotalSteps
  BY OrchestratorAssumption DEF Return, RecordOK
<1> QED BY <1>1, <1>2, <1>3 DEF RecordOK

\* A command that is over at once.
LEMMA IdlePreserves ==
  ASSUME RecordOK, NEW s, WellFormed(s), state' = s, UNCHANGED command
  PROVE  RecordOK'
<1>1. WellFormed(state)'
  BY DEF WellFormed, AttemptsLeft, StopNamesStage
<1> QED BY <1>1 DEF RecordOK, command

LEMMA ProjectPreserved == ProjectOK /\ UNCHANGED project => ProjectOK'
BY DEF ProjectOK, project

LEMMA EvidencePreserved == EvidenceOK /\ UNCHANGED evidence => EvidenceOK'
BY DEF EvidenceOK, evidence

LEMMA CompletedPreserves ==
  ASSUME EvidenceOK, NEW ok \in BOOLEAN, NEW outcome \in {"agent", "failure"},
         Completed(ok, outcome)
  PROVE  EvidenceOK' /\ UNCHANGED project
<1>1. latest' \in Invocation
  BY DEF EvidenceOK, Completed, Invocation
<1> QED BY <1>1 DEF EvidenceOK, Completed

\* What the invariant says of the record a command works on.
LEMMA LoadedRecord ==
  RecordOK => WellFormed(Load(state)) /\ WellFormed(OrphanStop(Load(state)))
BY LoadWellFormed, OrphanStopWellFormed DEF RecordOK

LEMMA StepPreserves ==
  ASSUME Inductive, Step
  PROVE  Inductive'
<1> DEFINE s == Load(state)
<1>1. RecordOK /\ EvidenceOK /\ ProjectOK
  BY InductiveParts
<1>2. WellFormed(s)
  BY <1>1, LoadedRecord
<1> HIDE DEF s
<1>3. CASE StepDetectsChange
  <2>1. PICK c \in Unanalyzed(s) : Return(DetectChange(s, c))
    BY <1>3 DEF StepDetectsChange, s
  <2>2. left > 0
    BY <1>3 DEF StepDetectsChange, StepEnabled
  <2>3. WellFormed(DetectChange(s, c))
    BY <1>2, DetectChangeWellFormed DEF Unanalyzed
  <2>4. RecordOK'
    BY <1>1, <2>1, <2>2, <2>3, ReturnPreserves
  <2> QED
    BY <1>1, <1>3, <2>4, ProjectPreserved, EvidencePreserved, InductiveParts
    DEF StepDetectsChange
<1>4. CASE StepWaits
  <2>1. Return(s) /\ left > 0
    BY <1>4 DEF StepWaits, StepEnabled, s
  <2>2. RecordOK'
    BY <1>1, <1>2, <2>1, ReturnPreserves
  <2> QED
    BY <1>1, <1>4, <2>2, ProjectPreserved, EvidencePreserved, InductiveParts
    DEF StepWaits
<1>5. CASE StepAuditStops
  <2>1. Return(AuditStop(s)) /\ left > 0
    BY <1>5 DEF StepAuditStops, StepEnabled, s
  <2>2. RecordOK'
    BY <1>1, <1>2, <2>1, AuditStopWellFormed, ReturnPreserves
  <2> QED
    BY <1>1, <1>5, <2>2, ProjectPreserved, EvidencePreserved, InductiveParts
    DEF StepAuditStops
<1>6. CASE StepSchedules
  <2>1. Return(Schedule(s)) /\ left > 0
    BY <1>6 DEF StepSchedules, StepEnabled, s
  <2>2. RecordOK'
    BY <1>1, <1>2, <2>1, ScheduleWellFormed, ReturnPreserves
  <2> QED
    BY <1>1, <1>6, <2>2, ProjectPreserved, EvidencePreserved, InductiveParts
    DEF StepSchedules
<1>7. CASE StepInvokesAgent
  <2>1. s.stage \in AgentStages /\ ~s.run /\ state' = Invoke(s) /\ left > 0
    BY <1>7 DEF StepInvokesAgent, StepEnabled, s
  <2>2. WellFormed(state)'
    <3>1. WellFormed(Invoke(s))
      BY <1>2, <2>1, InvokeWellFormed
    <3> QED BY <2>1, <3>1 DEF WellFormed, AttemptsLeft, StopNamesStage
  <2>3. RecordOK'
    BY <1>1, <1>7, <2>1, <2>2 DEF StepInvokesAgent, RecordOK
  <2>4. latest' \in Invocation
    BY <1>7, <2>1 DEF StepInvokesAgent, Invocation, s
  <2>5. EvidenceOK'
    BY <1>1, <1>7, <2>4 DEF StepInvokesAgent, EvidenceOK, s
  <2> QED
    BY <1>1, <1>7, <2>3, <2>5, ProjectPreserved, InductiveParts
    DEF StepInvokesAgent
<1>8. CASE StepFindsDeadInvocation
  <2> DEFINE r == IF latest.outcome = "malformed" THEN InvalidOrFailed(s, FALSE)
                  ELSE InvocationStop(s, "RECOVERY_UNCERTAIN")
  <2>1. Return(r) /\ left > 0
    BY <1>8 DEF StepFindsDeadInvocation, StepEnabled, s
  <2>2. WellFormed(r)
    BY <1>2, InvocationStopWellFormed, InvalidOrFailedWellFormed DEF StopCode
  <2> HIDE DEF r
  <2>3. RecordOK'
    BY <1>1, <2>1, <2>2, ReturnPreserves
  <2> QED
    BY <1>1, <1>8, <2>3, ProjectPreserved, EvidencePreserved, InductiveParts
    DEF StepFindsDeadInvocation
<1>9. CASE BudgetStop
  <2> DEFINE stop == [s EXCEPT !.stage = "HARD_STOP", !.status = "HARD_STOPPED",
                               !.code = "MAX_TOTAL_STEPS", !.blocked = s.stage,
                               !.recoverable = TRUE]
  <2>1. stop = [s EXCEPT !.stage = "HARD_STOP", !.status = "HARD_STOPPED",
                         !.gate = s.gate, !.blocked = s.stage,
                         !.code = "MAX_TOTAL_STEPS", !.recoverable = TRUE]
    BY <1>2 DEF WellFormed, WorkflowRecord
  <2>2. WellFormed(stop)
    BY <1>2, <2>1, StoppedWellFormed DEF StopCode
  <2>3. state' = IF s.status # "RUNNING" THEN s ELSE stop
    BY <1>9 DEF BudgetStop, s
  <2> HIDE DEF stop
  <2>4. WellFormed(state)'
    BY <1>2, <2>2, <2>3 DEF WellFormed, AttemptsLeft, StopNamesStage
  <2>5. RecordOK'
    BY <1>1, <1>9, <2>4 DEF BudgetStop, RecordOK
  <2> QED
    BY <1>1, <1>9, <2>5, ProjectPreserved, EvidencePreserved, InductiveParts
    DEF BudgetStop
<1> QED
  BY <1>3, <1>4, <1>5, <1>6, <1>7, <1>8, <1>9 DEF Step

\* The end of an Agent, whatever it makes of the record.
LEMMA FinishPreserves ==
  ASSUME Inductive, AgentEnds, NEW s, WellFormed(s), Return(s),
         NEW ok \in BOOLEAN, NEW outcome \in {"agent", "failure"},
         Completed(ok, outcome)
  PROVE  Inductive'
<1>1. RecordOK /\ EvidenceOK /\ ProjectOK /\ left > 0
  BY InductiveParts DEF RecordOK, AgentEnds
<1>2. RecordOK'
  BY <1>1, ReturnPreserves
<1>3. EvidenceOK' /\ UNCHANGED project
  BY <1>1, CompletedPreserves
<1> QED BY <1>1, <1>2, <1>3, ProjectPreserved, InductiveParts

LEMMA AgentEndPreserves ==
  ASSUME Inductive, AgentEnd
  PROVE  Inductive'
<1>1. WellFormed(state)
  BY InductiveParts DEF RecordOK
<1>2. \A direct \in Scopes : direct \in SUBSET Task
  BY OrchestratorAssumption
<1>3. CASE FinishWithVerdict
  <2>1. PICK verdict \in Verdicts : Return(ApplyVerdict(state, verdict))
    BY <1>3 DEF FinishWithVerdict
  <2>2. WellFormed(ApplyVerdict(state, verdict))
    BY <1>1, ApplyVerdictWellFormed
  <2> QED BY <1>3, <2>1, <2>2, FinishPreserves DEF FinishWithVerdict
<1>4. CASE FinishWithQuestions
  <2>1. PICK Q \in SUBSET Question, direct \in Scopes :
          Return(ApplyScoped(state, Q, direct))
    BY <1>4 DEF FinishWithQuestions
  <2>2. WellFormed(ApplyScoped(state, Q, direct))
    BY <1>1, <1>2, ApplyScopedWellFormed
  <2> QED BY <1>4, <2>1, <2>2, FinishPreserves DEF FinishWithQuestions
<1>5. CASE FinishAnalysis
  <2>1. PICK c \in Unanalyzed(state), a \in Analysis(Scopes, Question) :
          Return(ApplyAnalysis(state, c, a))
    BY <1>5 DEF FinishAnalysis
  <2>2. WellFormed(ApplyAnalysis(state, c, a))
    BY <1>1, ApplyAnalysisWellFormed DEF Unanalyzed
  <2> QED BY <1>5, <2>1, <2>2, FinishPreserves DEF FinishAnalysis
<1>6. CASE FinishPropagation
  <2>1. state.change \in Change /\ state.stage \in PropagationStages
    BY <1>1, <1>6
    DEF FinishPropagation, PropagationActive, OwnsStage, WellFormed,
        WorkflowRecord
  <2>2. PICK s : Return(s) /\ WellFormed(s)
    <3>1. CASE Return(AdvancePropagation(state))
      BY <1>1, <2>1, <3>1, AdvancePropagationWellFormed
    <3>2. CASE state.stage \in DOMAIN RevisionOf /\ Return(ReviseAgain(state))
      BY <1>1, <2>1, <3>2, ReviseAgainWellFormed
    <3>3. CASE \E Q \in SUBSET Question, direct \in Scopes :
                 Return(SuspendPropagation(state, Q, direct))
      <4>1. PICK Q \in SUBSET Question, direct \in Scopes :
              Return(SuspendPropagation(state, Q, direct))
        BY <3>3
      <4>2. WellFormed(SuspendPropagation(state, Q, direct))
        BY <1>1, <1>2, <2>1, SuspendPropagationWellFormed
      <4> QED BY <4>1, <4>2
    <3> QED BY <1>6, <3>1, <3>2, <3>3 DEF FinishPropagation
  <2> QED BY <1>6, <2>2, FinishPreserves DEF FinishPropagation
<1>7. CASE FinishRefused
  <2>1. WellFormed(InvalidOrFailed(state, FALSE))
    BY <1>1, InvalidOrFailedWellFormed
  <2> QED BY <1>7, <2>1, FinishPreserves DEF FinishRefused
<1>8. CASE FinishWithoutOutcome
  <2>1. WellFormed(InvalidOrFailed(state, FALSE))
    BY <1>1, InvalidOrFailedWellFormed
  <2> QED BY <1>8, <2>1, FinishPreserves DEF FinishWithoutOutcome
<1>9. CASE RunnerFails
  <2>1. WellFormed(InvalidOrFailed(state, TRUE))
    BY <1>1, InvalidOrFailedWellFormed
  <2> QED BY <1>9, <2>1, FinishPreserves DEF RunnerFails
<1>10. CASE FinishRejected
  <2>1. WellFormed(InvocationStop(state, "WORKSPACE_REJECTED"))
    BY <1>1, InvocationStopWellFormed DEF StopCode
  <2> QED BY <1>10, <2>1, FinishPreserves DEF FinishRejected
<1> QED
  BY <1>3, <1>4, <1>5, <1>6, <1>7, <1>8, <1>9, <1>10 DEF AgentEnd

\* A command that is over at once and leaves the evidence alone.
LEMMA CommandPreserves ==
  ASSUME Inductive, NEW s, WellFormed(s), Idle(s), UNCHANGED evidence
  PROVE  Inductive'
<1>1. RecordOK /\ EvidenceOK /\ ProjectOK
  BY InductiveParts
<1>2. RecordOK'
  BY <1>1, IdlePreserves DEF Idle
<1> QED
  BY <1>1, <1>2, EvidencePreserved, ProjectPreserved, InductiveParts DEF Idle

LEMMA RecoverPreserves ==
  ASSUME Inductive, Recover
  PROVE  Inductive'
<1> DEFINE s == OrphanStop(Load(state))
<1>1. RecordOK /\ EvidenceOK /\ ProjectOK
  BY InductiveParts
<1>2. WellFormed(s)
  BY <1>1, LoadedRecord
<1> HIDE DEF s
<1>3. ASSUME s.blocked # Null PROVE WellFormed(Restored(s))
  BY <1>2, <1>3, RestoredWellFormed
<1>4. s.code # Null => s.blocked # Null
  BY <1>2 DEF WellFormed, StopNamesStage
<1>5. \A code \in StopCode : code # Null
  BY NullAssumption
<1>6. CASE RecoverDigest
  <2>1. s.code = "WORKFLOW_DIGEST_CHANGED" /\ state' = Restored(s)
    BY <1>6 DEF RecoverDigest, DigestRecoverable, s
  <2>2. WellFormed(Restored(s))
    BY <1>3, <1>4, <1>5, <2>1 DEF StopCode
  <2>3. RecordOK'
    BY <1>1, <1>6, <2>1, <2>2, IdlePreserves DEF RecoverDigest
  <2>4. ProjectOK'
    BY <1>1, <1>6 DEF RecoverDigest, ProjectOK
  <2> QED
    BY <1>1, <1>6, <2>3, <2>4, EvidencePreserved, InductiveParts
    DEF RecoverDigest
<1>7. CASE RecoverStage
  <2>1. s.code \in {"MAX_TOTAL_STEPS", "RETRY_EXHAUSTED"} /\ Idle(Restored(s))
    BY <1>7 DEF RecoverStage, BudgetRecoverable, RunnerRecoverable,
                RetryExhausted, s
  <2>2. WellFormed(Restored(s))
    BY <1>3, <1>4, <1>5, <2>1 DEF StopCode
  <2> QED BY <1>7, <2>1, <2>2, CommandPreserves DEF RecoverStage
<1>8. CASE RecoverInterrupted
  <2>1. s.code = "RECOVERY_UNCERTAIN"
        /\ Idle(IF AuditBlocks(s) THEN s ELSE Restored(s))
    BY <1>8 DEF RecoverInterrupted, InterruptedRecoverable, s
  <2>2. WellFormed(IF AuditBlocks(s) THEN s ELSE Restored(s))
    BY <1>2, <1>3, <1>4, <1>5, <2>1 DEF StopCode
  <2>3. RecordOK' /\ ProjectOK'
    BY <1>1, <2>1, <2>2, IdlePreserves, ProjectPreserved DEF Idle
  <2>4. EvidenceOK'
    BY <1>1, <1>8 DEF RecoverInterrupted, MarkedFailed, EvidenceOK, Invocation
  <2> QED BY <2>3, <2>4, InductiveParts
<1>9. CASE RecoverCanonicalFailure
  <2> DEFINE r == Restored(s)
  <2>1. s.code = "RETRY_EXHAUSTED"
    BY <1>9 DEF RecoverCanonicalFailure, CanonicalRecoverable,
                ReadOnlyRecoverable, RetryExhausted, s
  <2>2. WellFormed(r)
    BY <1>3, <1>4, <1>5, <2>1 DEF StopCode
  <2>3. Idle([r EXCEPT !.runnerFailure = FALSE])
    BY <1>9 DEF RecoverCanonicalFailure, s
  <2> HIDE DEF r
  <2>4. WellFormed([r EXCEPT !.runnerFailure = FALSE])
    BY <2>2 DEF WellFormed, WorkflowRecord, AttemptsLeft, StopNamesStage
  <2> QED BY <1>9, <2>3, <2>4, CommandPreserves DEF RecoverCanonicalFailure
<1>10. CASE RecoverLateOutcome
  <2> DEFINE r == Restored(s)
             reopened == [r EXCEPT !.run = TRUE, !.attempt = s.attempt]
  <2>1. s.code = "RETRY_EXHAUSTED"
    BY <1>10 DEF RecoverLateOutcome, LateRecoverable, ReadOnlyRecoverable,
                 RetryExhausted, s
  <2>2. WellFormed(r)
    BY <1>3, <1>4, <1>5, <2>1 DEF StopCode
  <2>3. /\ \/ \E verdict \in Verdicts :
              Idle(TransitionAfterOutcome(reopened, verdict))
           \/ \E Q \in SUBSET Question, direct \in Scopes :
                Idle(ApplyLateQuestions(reopened, Q, direct))
        /\ UNCHANGED evidence
    BY <1>10 DEF RecoverLateOutcome, s
  <2>4. WellFormed(reopened)
    <3>1. s.attempt \in Nat /\ s.attempt <= MaxAttempts
      BY <1>2 DEF WellFormed, WorkflowRecord, AttemptsLeft
    <3> HIDE DEF r
    <3>2. reopened \in WorkflowRecord
      BY <2>2, <3>1 DEF WellFormed, WorkflowRecord
    <3>3. /\ reopened.run /\ reopened.attempt = s.attempt
          /\ reopened.code = r.code /\ reopened.blocked = r.blocked
      BY <2>2 DEF WellFormed, WorkflowRecord
    <3> QED
      BY <2>2, <3>1, <3>2, <3>3 DEF WellFormed, AttemptsLeft, StopNamesStage
  <2> HIDE DEF reopened
  <2>5. CASE \E verdict \in Verdicts :
               Idle(TransitionAfterOutcome(reopened, verdict))
    BY <2>3, <2>4, <2>5, TransitionWellFormed, CommandPreserves
  <2>6. CASE \E Q \in SUBSET Question, direct \in Scopes :
               Idle(ApplyLateQuestions(reopened, Q, direct))
    <3>1. PICK Q \in SUBSET Question, direct \in Scopes :
            Idle(ApplyLateQuestions(reopened, Q, direct))
      BY <2>6
    <3>2. /\ WellFormed(ApplyScoped(reopened, Q, direct))
          /\ WellFormed(InvalidOrFailed(reopened, FALSE))
      BY <2>4, OrchestratorAssumption, ApplyScopedWellFormed,
         InvalidOrFailedWellFormed
    <3>3. ASSUME OwnsStage(reopened), PropagationActive(reopened)
          PROVE  WellFormed(SuspendPropagation(reopened, Q, direct))
      <4>1. /\ reopened.change \in Change
            /\ reopened.stage \in PropagationStages
        BY <2>4, <3>3 DEF OwnsStage, PropagationActive, WellFormed, WorkflowRecord
      <4> QED BY <2>4, <4>1, OrchestratorAssumption, SuspendPropagationWellFormed
    <3>4. WellFormed(ApplyLateQuestions(reopened, Q, direct))
      BY <3>2, <3>3 DEF ApplyLateQuestions
    <3> QED BY <2>3, <3>1, <3>4, CommandPreserves
  <2> QED BY <2>3, <2>5, <2>6
<1> QED BY <1>6, <1>7, <1>8, <1>9, <1>10 DEF Recover

LEMMA OperatorPreserves ==
  ASSUME Inductive, Operator
  PROVE  Inductive'
<1> DEFINE s == Load(state)
<1>1. RecordOK /\ EvidenceOK /\ ProjectOK
  BY InductiveParts
<1>2. WellFormed(s)
  BY <1>1, LoadedRecord
<1> HIDE DEF s
<1>3. CASE StartRun
  <2>1. RecordOK'
    <3>1. WellFormed(state)'
      BY <1>1, <1>3
      DEF StartRun, RecordOK, WellFormed, AttemptsLeft, StopNamesStage
    <3>2. /\ running' = TRUE /\ left' = MaxTotalSteps /\ invoking' = invoking
      BY <1>3 DEF StartRun
    <3> QED BY <1>1, <3>1, <3>2, OrchestratorAssumption DEF RecordOK
  <2> QED
    BY <1>1, <1>3, <2>1, EvidencePreserved, ProjectPreserved, InductiveParts
    DEF StartRun
<1>4. CASE Inspect
  BY <1>2, <1>4, CommandPreserves DEF Inspect, s
<1>5. CASE Approve
  <2>1. s.stage \in HumanGates /\ Idle(Approved(s)) /\ UNCHANGED evidence
    BY <1>5 DEF Approve, Approvable, s
  <2> QED BY <1>2, <2>1, ApprovedWellFormed, CommandPreserves
<1>6. CASE Stop
  <2>1. Idle(StopRecord(s)) /\ UNCHANGED evidence
    BY <1>6 DEF Stop, s
  <2> QED BY <1>2, <2>1, StopRecordWellFormed, CommandPreserves
<1>7. CASE Decide
  <2>1. PICK d \in PendingDecisions(s) : Idle(ResolveDecision(s, d))
    BY <1>7 DEF Decide, s
  <2>2. WellFormed(ResolveDecision(s, d))
    BY <1>2, ResolveDecisionWellFormed DEF PendingDecisions
  <2> QED BY <1>7, <2>1, <2>2, CommandPreserves DEF Decide
<1>8. CASE Promote
  <2>1. PICK c \in Change : \E first \in PromotedFirst(s, c) :
          Idle(ResolvePromotion(s, c, first))
    BY <1>8 DEF Promote, s
  <2>2. PICK first \in PromotedFirst(s, c) : Idle(ResolvePromotion(s, c, first))
    BY <2>1
  <2>3. first \in Task \cup {Null}
    BY <1>2
    DEF PromotedFirst, WellFormed, WorkflowRecord, ChangeRecord
  <2>4. WellFormed(ResolvePromotion(s, c, first))
    BY <1>2, <2>3, ResolvePromotionWellFormed
  <2> QED BY <1>8, <2>2, <2>4, CommandPreserves DEF Promote
<1>9. CASE Recover
  BY <1>9, RecoverPreserves
<1> QED
  BY <1>3, <1>4, <1>5, <1>6, <1>7, <1>8, <1>9 DEF Operator

LEMMA EnvironmentPreserves ==
  ASSUME Inductive, Environment
  PROVE  Inductive'
<1>1. RecordOK /\ EvidenceOK /\ ProjectOK
  BY InductiveParts
<1>2. ASSUME state' = state, command' = command PROVE RecordOK'
  BY <1>1, <1>2
  DEF RecordOK, WellFormed, AttemptsLeft, StopNamesStage, command
<1>3. CASE Interrupt
  <2>1. WellFormed(state)'
    BY <1>1, <1>3
    DEF Interrupt, RecordOK, WellFormed, AttemptsLeft, StopNamesStage
  <2>2. RecordOK'
    <3>1. running' = FALSE /\ left' = 0 /\ invoking' = FALSE
      BY <1>3 DEF Interrupt
    <3>2. 0 \in 0 .. MaxTotalSteps
      BY OrchestratorAssumption
    <3> QED BY <2>1, <3>1, <3>2 DEF RecordOK
  <2>3. EvidenceOK'
    <3>1. PICK outcome \in LeftOutcomes :
            latest' = IF invoking THEN [latest EXCEPT !.outcome = outcome]
                                  ELSE latest
      BY <1>3 DEF Interrupt
    <3>2. latest' \in Invocation
      BY <1>1, <3>1 DEF EvidenceOK, Invocation, LeftOutcomes
    <3> QED BY <1>1, <1>3, <3>2 DEF Interrupt, EvidenceOK
  <2> QED
    BY <1>1, <1>3, <2>2, <2>3, ProjectPreserved, InductiveParts DEF Interrupt
<1>4. CASE LateOutcome
  <2>1. EvidenceOK'
    BY <1>1, <1>4 DEF LateOutcome, EvidenceOK, Invocation
  <2> QED
    BY <1>1, <1>2, <1>4, <2>1, ProjectPreserved, InductiveParts DEF LateOutcome
<1>5. CASE SubmitAuthority
  <2>1. ProjectOK'
    BY <1>1, <1>5 DEF SubmitAuthority, ProjectOK
  <2> QED
    BY <1>1, <1>2, <1>5, <2>1, EvidencePreserved, InductiveParts
    DEF SubmitAuthority
<1>6. CASE EditTree
  <2>1. ProjectOK'
    BY <1>1, <1>6 DEF EditTree, ProjectOK
  <2> QED
    BY <1>1, <1>2, <1>6, <2>1, EvidencePreserved, InductiveParts DEF EditTree
<1>7. CASE EditWorkflow
  <2>1. ProjectOK'
    BY <1>1, <1>7 DEF EditWorkflow, ProjectOK
  <2> QED
    BY <1>1, <1>2, <1>7, <2>1, EvidencePreserved, InductiveParts
    DEF EditWorkflow
<1> QED BY <1>3, <1>4, <1>5, <1>6, <1>7 DEF Environment

LEMMA StutterPreserves ==
  ASSUME Inductive, UNCHANGED vars
  PROVE  Inductive'
<1>1. RecordOK /\ EvidenceOK /\ ProjectOK
  BY InductiveParts
<1>2. RecordOK'
  BY <1>1 DEF vars, RecordOK, WellFormed, AttemptsLeft, StopNamesStage
<1>3. EvidenceOK' /\ ProjectOK'
  BY <1>1 DEF vars, EvidenceOK, ProjectOK
<1> QED BY <1>2, <1>3, InductiveParts

-----------------------------------------------------------------------------
(* The theorems *)

\* The inductive invariant holds of every behaviour.
THEOREM InductiveInvariant == Spec => []Inductive
<1>1. Init => Inductive
  BY InitInductive
<1>2. Inductive /\ [Next]_vars => Inductive'
  BY StepPreserves, AgentEndPreserves, OperatorPreserves,
     EnvironmentPreserves, StutterPreserves
  DEF Next
<1> QED BY <1>1, <1>2, PTL DEF Spec

\* Every variable keeps to its set of values, whatever the tasks, decisions,
\* changes, verdicts and disturbances are.
THEOREM TypeCorrect == Spec => []TypeOK
<1>1. Inductive => TypeOK
  BY DEF Inductive
<1> QED BY <1>1, InductiveInvariant, PTL

\* No stage is tried more often than the policy allows, through every retry,
\* hard stop, recovery and restart.
THEOREM AttemptsAreBounded == Spec => []AttemptsBounded
<1>1. Inductive => AttemptsBounded
  BY DEF Inductive, AttemptsLeft, AttemptsBounded
<1> QED BY <1>1, InductiveInvariant, PTL

-----------------------------------------------------------------------------
(* One invocation at a time *)

\* The record still names an invocation, so that no Agent is started.
Held(s) == s.run /\ s.stage \in AgentStages \cup {"HARD_STOP"}

\* The latest invocation left a malformed outcome and no Agent is waited for.
Malformed == latest.outcome = "malformed" /\ ~invoking

\* An invocation recorded as running is held, or left a malformed outcome.
OneInvocation == latest.status = "running" => Held(state) \/ Malformed

\* Neither loading the record nor a stop lets go of an invocation.
LEMMA LoadHolds ==
  ASSUME NEW s, WellFormed(s), Held(s)
  PROVE  Held(Load(s)) /\ Held(OrphanStop(Load(s)))
<1>1. Held(Load(s))
  BY DEF Load, DigestStop, Recompute, Held, WellFormed, WorkflowRecord
<1>2. Load(s) \in WorkflowRecord
  BY LoadWellFormed DEF WellFormed
<1> QED BY <1>1, <1>2 DEF OrphanStop, Held, WorkflowRecord

LEMMA StopHolds ==
  ASSUME NEW s, WellFormed(s), Held(s), NEW code
  PROVE  /\ Held(AuditStop(s)) /\ Held(InvocationStop(s, code))
         /\ Held(StopRecord(s))
BY DEF AuditStop, InvocationStop, StopRecord, Held, WellFormed, WorkflowRecord

\* Without questions and changes no decision is pending, none is detected.
LEMMA NothingPending ==
  ASSUME Question = {}, Change = {}, NEW s
  PROVE  PendingDecisions(s) = {} /\ Unanalyzed(s) = {}
BY DEF PendingDecisions, Decision, Unanalyzed

LEMMA StagesDisjoint ==
  /\ "HARD_STOP" \notin AgentStages \cup HumanGates
  /\ AgentStages \cap HumanGates = {}
  /\ {"WAITING_FOR_HUMAN", "INITIALIZING", "READY",
      "WAITING_FOR_AUTHORITY_CHANGE"} \cap (AgentStages \cup HumanGates) = {}
BY DEF AgentStages, TaskStages, PropagationStages, HumanGates

LEMMA StepKeepsOne ==
  ASSUME Question = {}, Change = {}, Inductive, OneInvocation, Step
  PROVE  OneInvocation' /\ (orphans' => orphans \/ latest.outcome = "malformed")
<1> DEFINE s == Load(state)
<1>1. WellFormed(state) /\ WellFormed(s)
  BY InductiveParts, LoadedRecord DEF RecordOK
<1>2. latest.status = "running" => Held(s) \/ Malformed
  BY <1>1, LoadHolds DEF OneInvocation
<1>3. CASE StepDetectsChange
  BY <1>3, NothingPending DEF StepDetectsChange, Detects
<1>4. CASE StepInvokesAgent
  <2>1. s.stage \in AgentStages /\ ~s.run
    BY <1>4 DEF StepInvokesAgent
  <2>2. latest.status = "running" => latest.outcome = "malformed"
    BY <1>2, <2>1 DEF Held, Malformed
  <2>3. Held(Invoke(s))
    BY <1>1, <2>1 DEF Invoke, Held, WellFormed, WorkflowRecord
  <2>4. state' = Invoke(s) /\ orphans' = (orphans \/ latest.status = "running")
    BY <1>4 DEF StepInvokesAgent
  <2> QED BY <2>2, <2>3, <2>4 DEF OneInvocation
<1>5. CASE StepSchedules
  <2>1. ~Held(s)
    BY <1>5, StagesDisjoint DEF StepSchedules, Held
  <2>2. invoking' = FALSE /\ UNCHANGED evidence
    BY <1>5 DEF StepSchedules, Return
  <2> QED BY <1>2, <2>1, <2>2 DEF OneInvocation, Malformed, evidence
<1>6. CASE StepWaits \/ StepAuditStops \/ StepFindsDeadInvocation
  <2>1. \/ state' \in {s, AuditStop(s),
                       InvocationStop(s, "RECOVERY_UNCERTAIN")}
        \/ latest.outcome = "malformed"
    BY <1>6 DEF StepWaits, StepAuditStops, StepFindsDeadInvocation, Return
  <2>2. invoking' = FALSE /\ UNCHANGED evidence
    BY <1>6 DEF StepWaits, StepAuditStops, StepFindsDeadInvocation, Return
  <2> QED
    BY <1>1, <1>2, <2>1, <2>2, StopHolds DEF OneInvocation, Malformed, evidence
<1>7. CASE BudgetStop
  <2> DEFINE r == [s EXCEPT !.stage = "HARD_STOP",
                            !.status = "HARD_STOPPED",
                            !.code = "MAX_TOTAL_STEPS",
                            !.blocked = s.stage, !.recoverable = TRUE]
  <2>1. state' \in {s, r}
    BY <1>7 DEF BudgetStop
  <2> HIDE DEF s
  <2>2. r.run = s.run /\ r.stage = "HARD_STOP"
    BY <1>1 DEF WellFormed, WorkflowRecord
  <2> HIDE DEF r
  <2>3. latest.status = "running" => Held(state') \/ Malformed
    BY <1>2, <2>1, <2>2 DEF Held
  <2> QED BY <1>7, <2>3 DEF BudgetStop, OneInvocation, Malformed, evidence
<1> QED BY <1>3, <1>4, <1>5, <1>6, <1>7 DEF Step

LEMMA AgentEndKeepsOne ==
  ASSUME Inductive, OneInvocation, AgentEnd
  PROVE  OneInvocation' /\ orphans' = orphans
<1>1. \E ok, outcome : Completed(ok, outcome)
  BY DEF AgentEnd, FinishWithVerdict, FinishWithQuestions, FinishAnalysis,
         FinishPropagation, FinishRefused, FinishWithoutOutcome, RunnerFails,
         FinishRejected
<1>2. latest'.status = "completed" /\ orphans' = orphans
  BY <1>1, InductiveParts DEF Completed, EvidenceOK, Invocation
<1> QED BY <1>2 DEF OneInvocation

\* recover reopens a stage only when no invocation is recorded as running or
\* the one that is left a malformed outcome, and marks the one it finds
\* interrupted as failed.
LEMMA RecoverKeepsOne ==
  ASSUME Inductive, OneInvocation, Recover
  PROVE  OneInvocation' /\ orphans' = orphans
<1> DEFINE s == OrphanStop(Load(state))
<1>1. WellFormed(state)
  BY InductiveParts DEF RecordOK
<1>2. latest.status = "running" => s.run \/ Malformed
  BY <1>1, LoadHolds DEF OneInvocation, Held
<1>3. CASE RecoverDigest
  BY <1>3 DEF RecoverDigest, DigestRecoverable, NoneRunning, OneInvocation,
              evidence
<1>4. CASE RecoverStage
  <2>1. latest.status = "running" => Malformed
    BY <1>2, <1>4
    DEF RecoverStage, BudgetRecoverable, RunnerRecoverable, NoneRunning
  <2> QED
    BY <1>4, <2>1
    DEF RecoverStage, Idle, command, OneInvocation, Malformed, evidence
<1>5. CASE RecoverInterrupted
  <2>1. latest'.status = "failed" /\ orphans' = orphans
    BY <1>5, InductiveParts
    DEF RecoverInterrupted, MarkedFailed, EvidenceOK, Invocation
  <2> QED BY <2>1 DEF OneInvocation
<1>6. CASE RecoverCanonicalFailure \/ RecoverLateOutcome
  <2>1. latest.status # "running" /\ UNCHANGED evidence
    BY <1>6
    DEF RecoverCanonicalFailure, RecoverLateOutcome, CanonicalRecoverable,
        LateRecoverable, ReadOnlyRecoverable, NoneRunning
  <2> QED BY <2>1 DEF OneInvocation, evidence
<1> QED BY <1>3, <1>4, <1>5, <1>6 DEF Recover

LEMMA OperatorKeepsOne ==
  ASSUME Question = {}, Change = {}, Inductive, OneInvocation, Operator
  PROVE  OneInvocation' /\ orphans' = orphans
<1> DEFINE s == Load(state)
<1>1. WellFormed(state) /\ WellFormed(s)
  BY InductiveParts, LoadedRecord DEF RecordOK
<1>2. latest.status = "running" => Held(s) \/ Malformed
  BY <1>1, LoadHolds DEF OneInvocation
<1>3. CASE StartRun
  BY <1>3 DEF StartRun, OneInvocation, Malformed, evidence
<1>4. CASE Inspect \/ Stop
  <2>1. state' \in {s, StopRecord(s)} /\ UNCHANGED <<invoking, evidence>>
    BY <1>4 DEF Inspect, Stop, Idle, command
  <2> QED
    BY <1>1, <1>2, <2>1, StopHolds DEF OneInvocation, Malformed, evidence
<1>5. CASE Approve
  <2>1. ~Held(s) /\ UNCHANGED <<invoking, evidence>>
    BY <1>5, StagesDisjoint DEF Approve, Approvable, Held, Idle, command
  <2> QED BY <1>2, <2>1 DEF OneInvocation, Malformed, evidence
<1>6. CASE Decide \/ Promote
  BY <1>6, NothingPending DEF Decide, Promote
<1> QED BY <1>3, <1>4, <1>5, <1>6, RecoverKeepsOne DEF Operator

LEMMA EnvironmentKeepsOne ==
  ASSUME Inductive, OneInvocation, Environment
  PROVE  OneInvocation' /\ orphans' = orphans
<1>1. CASE Interrupt
  <2>1. latest'.status = latest.status /\ UNCHANGED <<state, orphans>>
    BY <1>1, InductiveParts DEF Interrupt, EvidenceOK, Invocation
  <2>2. Malformed => Malformed'
    BY <1>1 DEF Interrupt, Malformed
  <2> QED BY <2>1, <2>2 DEF OneInvocation
<1>2. CASE LateOutcome
  <2>1. latest'.status # "running" /\ UNCHANGED orphans
    BY <1>2, InductiveParts DEF LateOutcome, EvidenceOK, Invocation
  <2> QED BY <2>1 DEF OneInvocation
<1>3. CASE SubmitAuthority \/ EditTree \/ EditWorkflow
  <2>1. UNCHANGED <<state, latest, orphans, invoking>>
    BY <1>3 DEF SubmitAuthority, EditTree, EditWorkflow, evidence, command
  <2> QED BY <2>1 DEF OneInvocation, Malformed
<1> QED BY <1>1, <1>2, <1>3 DEF Environment

\* Without questions and authority changes, which take the stage over, no
\* Agent is started beside an invocation still recorded as running unless that
\* left a malformed outcome: it is settled by its end or by recover first.
THEOREM InvocationsDoNotOverlap ==
  ASSUME Question = {}, Change = {}
  PROVE  Spec => NoOverlap
<1>1. Init => OneInvocation
  BY DEF Init, NoInvocation, OneInvocation
<1>2. Inductive /\ OneInvocation /\ [Next]_vars
        => OneInvocation' /\ (orphans' => orphans \/ latest.outcome = "malformed")
  <2>1. CASE UNCHANGED vars
    BY <2>1 DEF vars, OneInvocation, Malformed
  <2> QED
    BY <2>1, StepKeepsOne, AgentEndKeepsOne, OperatorKeepsOne,
       EnvironmentKeepsOne DEF Next
<1> QED BY <1>1, <1>2, InductiveInvariant, PTL DEF Spec, NoOverlap

=============================================================================
