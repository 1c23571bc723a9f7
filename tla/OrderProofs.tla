---------------------------- MODULE OrderProofs ----------------------------
(***************************************************************************)
(* Proofs about the order of the work in Orchestrator.  They speak of a    *)
(* gated workflow in which neither questions nor authority changes come    *)
(* up, whatever stops, crashes, retries and recoveries do; with them the   *)
(* facts proved here are refuted by the runs the README names.             *)
(***************************************************************************)
EXTENDS OrchestratorProofs

-----------------------------------------------------------------------------
(* The invariant on the record *)

\* The stage the work is at, or was at when it was stopped.
Place(s) == IF s.stage = "HARD_STOP" THEN s.blocked ELSE s.stage

\* The stages from which an Agent works on the current task.
Working == AgentStages \cup {"HUMAN_PLAN_FREEZE"}
Finishing == {"FINAL_VERIFICATION", "HUMAN_FINAL_ACCEPTANCE", "COMPLETED"}

Done(s) == {t \in Task : s.items[t] = "COMPLETED"}

\* Only a stop names a stopped stage; the current task may be worked on and
\* is not finished where it will be worked on; the whole is finished task by
\* task; and a task that needs itself is never done.
InOrder(s) ==
  /\ s.blocked # Null => s.stage = "HARD_STOP"
  /\ s.task # Null => Dependencies[s.task] \subseteq Done(s)
  /\ s.task # Null /\ Place(s) \in Working => s.task \notin Done(s)
  /\ Place(s) \in Finishing => Task \subseteq Done(s)
  /\ \A t \in Done(s) : t \notin Dependencies[t]

\* What an operator makes of a record in order: all goes on as it was, or
\* the current task is completed by its review and left.
Continues(s, r) == InOrder(r) /\ Done(r) = Done(s)
Completes(s, r) ==
  /\ InOrder(r) /\ Done(r) = Done(s) \cup {s.task}
  /\ s.stage = "TASK_INDEPENDENT_REVIEW" /\ s.task # Null
  /\ r.stage \notin TaskStages

LEMMA Names ==
  /\ "HARD_STOP" \notin Working \cup Finishing
  /\ {"READY", "INITIALIZING", "WAITING_FOR_HUMAN", "HUMAN_GROUP_APPROVAL",
      "WAITING_FOR_AUTHORITY_CHANGE"} \cap (Working \cup Finishing) = {}
  /\ Null \notin Working \cup Finishing
  /\ ProjectMutatingStages \cup ReadOnlyRecoveryStages \subseteq AgentStages
  /\ "HARD_STOP" \notin AgentStages /\ AgentStages \subseteq Working
  /\ "PLAN_DEFECT_RESOLUTION" \in AgentStages
  /\ \A x \in {"TASK_INDEPENDENT_REVIEW", "TASK_EXECUTION", "TASK_PATCH",
               "PLAN_DEFECT_RESOLUTION", "PLAN_REVISION_REVIEW",
               "HUMAN_PLAN_FREEZE", "HUMAN_GROUP_APPROVAL"} : x \notin Finishing
BY NullAssumption
DEF Working, Finishing, AgentStages, TaskStages, PropagationStages, Stage,
    HumanGates, ProjectMutatingStages, ReadOnlyRecoveryStages

\* A record that keeps the items and the current task of one in order is in
\* order, if it comes to a place of work or of finishing only from one.
LEMMA SameItems ==
  ASSUME NEW s, InOrder(s), NEW r, r.items = s.items, r.task = s.task,
         r.blocked # Null => r.stage = "HARD_STOP",
         Place(r) \in Working => Place(s) \in Working,
         Place(r) \in Finishing => Place(s) \in Finishing
  PROVE  Continues(s, r)
<1>1. Done(r) = Done(s)
  BY DEF Done
<1> QED BY <1>1 DEF Continues, InOrder

\* A record without a current task is in order away from the finish.
LEMMA NoTask ==
  ASSUME NEW s, InOrder(s), NEW r, Done(r) = Done(s), r.task = Null,
         r.blocked # Null => r.stage = "HARD_STOP",
         Place(r) \in Finishing => Task \subseteq Done(s)
  PROVE  Continues(s, r)
BY DEF Continues, InOrder

LEMMA ContinuesFurther ==
  ASSUME NEW s, NEW r, NEW q, Continues(s, r), Continues(r, q)
  PROVE  Continues(s, q)
BY DEF Continues

-----------------------------------------------------------------------------
(* Scheduling *)

LEMMA NoBlockers ==
  ASSUME Question = {}, Change = {}, NEW s
  PROVE  /\ PendingDecisions(s) = {} /\ OpenChanges(s) = {}
         /\ RunnablePropagation(s) = {} /\ AuthorityDirect(s) = {}
         /\ Unanalyzed(s) = {}
BY DEF PendingDecisions, Decision, OpenChanges, RunnablePropagation,
       AuthorityDirect, Unanalyzed

\* Recomputing the items completes none of them and takes none back.
LEMMA RecomputeDone ==
  ASSUME Question = {}, Change = {}, NEW s, WellFormed(s)
  PROVE  /\ Done(Recompute(s)) = Done(s)
         /\ Recompute(s).task = s.task /\ Recompute(s).stage = s.stage
         /\ Recompute(s).blocked = s.blocked
<1>1. \A t \in Task : Recompute(s).items[t] = RecomputedStatus(s, t)
  BY DEF Recompute, WellFormed, WorkflowRecord
<1>2. ASSUME NEW t \in Task
      PROVE  RecomputedStatus(s, t) = "COMPLETED" <=> s.items[t] = "COMPLETED"
  BY NoBlockers DEF RecomputedStatus, UnfinishedStatus
<1>3. Done(Recompute(s)) = Done(s)
  BY <1>1, <1>2 DEF Done
<1> QED BY <1>3 DEF Recompute, WellFormed, WorkflowRecord

LEMMA RecomputeContinues ==
  ASSUME Question = {}, Change = {}, NEW s, WellFormed(s), InOrder(s)
  PROVE  Continues(s, Recompute(s))
<1>1. Place(Recompute(s)) = Place(s)
  BY RecomputeDone DEF Place
<1> QED BY <1>1, RecomputeDone DEF Continues, InOrder

\* The task picked has its dependencies completed and is not itself done.
LEMMA StartTaskContinues ==
  ASSUME NEW s, WellFormed(s), InOrder(s), s.blocked = Null,
         NEW t \in Task, s.items[t] # "COMPLETED",
         Dependencies[t] \subseteq Done(s)
  PROVE  Continues(s, StartTask(s, t))
<1> DEFINE r == StartTask(s, t)
<1>1. /\ r.task = t /\ r.stage = "TASK_EXECUTION" /\ r.blocked = Null
      /\ \A u \in Task : r.items[u] = IF u = t THEN "RUNNING" ELSE s.items[u]
  BY DEF StartTask, WellFormed, WorkflowRecord
<1> HIDE DEF r
<1>2. Done(r) = Done(s)
  BY <1>1 DEF Done
<1>3. t \notin Done(s) /\ Place(r) \notin Finishing
  BY <1>1, Names DEF Done, Place
<1> QED BY <1>1, <1>2, <1>3 DEF Continues, InOrder, r

LEMMA SelectWorkContinues ==
  ASSUME Question = {}, Change = {}, NEW s, WellFormed(s), InOrder(s),
         s.blocked = Null
  PROVE  Continues(s, SelectWork(s))
<1>1. CASE ReadyWork(s) # {}
  <2> DEFINE t == FirstInOrder(ReadyWork(s))
  <2>1. t \in ReadyWork(s) /\ t \in Task
    <3>1. ReadyWork(s) \in SUBSET Task
      BY DEF ReadyWork, ReadyTasks
    <3> QED BY <1>1, <3>1, FirstInOrderIsMember
  <2>2. Recompute(s).items[t] = "READY" /\ Dependencies[t] \subseteq Done(s)
    <3>1. /\ Recompute(s).items[t] = "READY"
          /\ \A u \in Dependencies[t] : Recompute(s).items[u] = "COMPLETED"
      BY <2>1 DEF ReadyWork, ReadyTasks, DependenciesCompleted
    <3>2. Dependencies[t] \subseteq Done(Recompute(s))
      BY <2>1, <3>1, TaskAssumption DEF Done
    <3> QED BY <3>1, <3>2, RecomputeDone
  <2>3. s.items[t] # "COMPLETED"
    BY <2>1, <2>2, RecomputeDone DEF Done
  <2> QED BY <1>1, <2>1, <2>2, <2>3, StartTaskContinues DEF SelectWork
<1>2. CASE ReadyWork(s) = {} /\ \A t \in Task : s.items[t] = "COMPLETED"
  <2>1. SelectWork(s) \in {Released(s, "FINAL_VERIFICATION", "RUNNING"),
                           DependencyBlocked(s)}
    BY <1>2, NoBlockers DEF SelectWork, SelectWithoutTask
  <2>2. Task \subseteq Done(s)
    BY <1>2 DEF Done
  <2>3. Continues(s, Released(s, "FINAL_VERIFICATION", "RUNNING"))
    <3> DEFINE r == Released(s, "FINAL_VERIFICATION", "RUNNING")
    <3>1. r.task = Null /\ r.items = s.items /\ r.blocked = Null
      BY DEF Released, WellFormed, WorkflowRecord
    <3>2. Done(r) = Done(s)
      BY <3>1 DEF Done
    <3> QED BY <2>2, <3>1, <3>2, NoTask
  <2>4. Continues(s, DependencyBlocked(s))
    <3> DEFINE r == DependencyBlocked(s)
    <3>1. /\ r.task = s.task /\ r.items = s.items /\ r.stage = "HARD_STOP"
          /\ r.blocked = s.stage
      BY DEF DependencyBlocked, WellFormed, WorkflowRecord
    <3>2. Place(r) \in Working \cup Finishing => Place(r) = Place(s)
      BY <3>1, Names DEF Place
    <3> HIDE DEF r
    <3> QED BY <3>1, <3>2, SameItems DEF r
  <2> QED BY <2>1, <2>3, <2>4
<1>3. CASE ReadyWork(s) = {} /\ ~\A t \in Task : s.items[t] = "COMPLETED"
  <2> DEFINE r == DependencyBlocked(s)
  <2>1. SelectWork(s) = r
    BY <1>3, NoBlockers DEF SelectWork, SelectWithoutTask
  <2>2. /\ r.task = s.task /\ r.items = s.items /\ r.stage = "HARD_STOP"
        /\ r.blocked = s.stage
    BY DEF DependencyBlocked, WellFormed, WorkflowRecord
  <2>3. Place(r) \in Working \cup Finishing => Place(r) = Place(s)
    BY <2>2, Names DEF Place
  <2> HIDE DEF r
  <2> QED BY <2>1, <2>2, <2>3, SameItems
<1> QED BY <1>1, <1>2, <1>3

LEMMA ScheduleContinues ==
  ASSUME Question = {}, Change = {}, NEW s, WellFormed(s), InOrder(s),
         s.blocked = Null
  PROVE  Continues(s, Schedule(s))
<1> DEFINE r == Recompute(s)
<1>1. Continues(s, r) /\ WellFormed(r) /\ r.blocked = Null
  BY RecomputeContinues, RecomputeWellFormed, RecomputeDone
<1>2. Continues(r, r) /\ Continues(r, SelectWork(r))
  <2> HIDE DEF r
  <2> QED BY <1>1, SelectWorkContinues DEF Continues
<1>3. Schedule(s) \in {r, SelectWork(r)}
  BY DEF Schedule
<1> QED BY <1>1, <1>2, <1>3, ContinuesFurther

-----------------------------------------------------------------------------
(* Stops and transitions *)

\* A stop keeps the work and names the stage it was at.
LEMMA StopContinues ==
  ASSUME NEW s, InOrder(s), NEW r, r.items = s.items, r.task = s.task,
         r.stage = "HARD_STOP", r.blocked = s.stage
  PROVE  Continues(s, r)
<1>1. Place(r) \in Working \cup Finishing => Place(r) = Place(s)
  BY Names DEF Place
<1> QED BY <1>1, SameItems

\* An Agent's stage gives way to any stage but, before the end, a final one.
LEMMA MoveContinues ==
  ASSUME NEW s, InOrder(s), s.stage \in AgentStages,
         NEW r, r.items = s.items, r.task = s.task, r.blocked = s.blocked,
         r.stage # "HARD_STOP",
         r.stage \in Finishing => s.stage = "FINAL_VERIFICATION"
  PROVE  Continues(s, r)
<1>1. s.stage # "HARD_STOP" /\ s.blocked = Null
  BY Names DEF InOrder
<1>2. Place(s) = s.stage /\ Place(r) = r.stage
  BY <1>1 DEF Place
<1>3. Place(s) \in Working /\ (Place(r) \in Finishing => Place(s) \in Finishing)
  BY <1>2, Names DEF Finishing
<1> QED BY <1>1, <1>3, SameItems

LEMMA EnterHardStopContinues ==
  ASSUME NEW s, WellFormed(s), InOrder(s), NEW code
  PROVE  Continues(s, EnterHardStop(s, code))
<1> DEFINE r == EnterHardStop(s, code)
<1>1. /\ r.items = s.items /\ r.task = s.task
      /\ r.stage = "HARD_STOP" /\ r.blocked = s.stage
  BY DEF EnterHardStop, WellFormed, WorkflowRecord
<1> HIDE DEF r
<1> QED BY <1>1, StopContinues DEF r

LEMMA MoveToContinues ==
  ASSUME NEW s, WellFormed(s), InOrder(s), s.stage \in AgentStages,
         NEW stage, stage # "HARD_STOP",
         stage \in Finishing => s.stage = "FINAL_VERIFICATION",
         NEW gate, NEW status
  PROVE  /\ Continues(s, MoveTo(s, stage))
         /\ Continues(s, [MoveTo(s, stage) EXCEPT !.status = status])
         /\ Continues(s, [MoveTo(s, stage) EXCEPT !.gate = gate,
                                                 !.status = status])
<1> DEFINE r == MoveTo(s, stage)
           q == [r EXCEPT !.status = status]
           p == [r EXCEPT !.gate = gate, !.status = status]
<1>1. \A x \in {r, q, p} :
        /\ x.items = s.items /\ x.task = s.task /\ x.blocked = s.blocked
        /\ x.stage = stage
  <2>1. /\ r.items = s.items /\ r.task = s.task /\ r.blocked = s.blocked
        /\ r.stage = stage
    BY DEF MoveTo, WellFormed, WorkflowRecord
  <2>2. /\ q.items = s.items /\ q.task = s.task /\ q.blocked = s.blocked
        /\ q.stage = stage
    BY DEF MoveTo, WellFormed, WorkflowRecord
  <2>3. /\ p.items = s.items /\ p.task = s.task /\ p.blocked = s.blocked
        /\ p.stage = stage
    BY DEF MoveTo, WellFormed, WorkflowRecord
  <2> HIDE DEF r, q, p
  <2> QED BY <2>1, <2>2, <2>3
<1> HIDE DEF r, q, p
<1>2. Continues(s, r) /\ Continues(s, q) /\ Continues(s, p)
  BY <1>1, MoveContinues
<1> QED BY <1>2 DEF r, q, p

LEMMA TransitionContinues ==
  ASSUME Mode = "gated", NEW s, WellFormed(s), InOrder(s), NEW verdict
  PROVE  Continues(s, TransitionAfterOutcome(s, verdict))
<1> DEFINE r == TransitionAfterOutcome(s, verdict)
<1>1. \A code : Continues(s, EnterHardStop(s, code))
  BY EnterHardStopContinues
<1>2. CASE verdict # "BLOCKING" /\ s.stage = "TASK_INDEPENDENT_REVIEW"
  <2>1. s.stage \in AgentStages
    BY <1>2 DEF AgentStages, TaskStages
  <2>2. \A x \in {"TASK_PATCH", "PLAN_DEFECT_RESOLUTION"} :
          Continues(s, MoveTo(s, x))
    BY <2>1, Names, MoveToContinues
  <2>3. Continues(s, WaitAtGate(s, "HUMAN_GROUP_APPROVAL"))
    BY <2>1, Names, MoveToContinues DEF WaitAtGate
  <2>4. Continues(s, AfterReview(s, verdict))
    BY <1>1, <2>2, <2>3 DEF AfterReview, AfterReviewApproved
  <2> QED
    BY <1>2, <2>4 DEF TransitionAfterOutcome, ProjectMutatingStages
<1>3. CASE verdict # "BLOCKING" /\ s.stage = "PLAN_REVISION_REVIEW"
  <2>1. s.stage \in AgentStages
    BY <1>3 DEF AgentStages, PropagationStages
  <2>2. Continues(s, MoveTo(s, "PLAN_DEFECT_RESOLUTION"))
    BY <2>1, Names, MoveToContinues
  <2>3. Continues(s, WaitAtGate(s, "HUMAN_PLAN_FREEZE"))
    BY <2>1, Names, MoveToContinues DEF WaitAtGate
  <2>4. Continues(s, AfterPlanReview(s, verdict))
    BY <1>1, <2>2, <2>3 DEF AfterPlanReview
  <2> QED
    BY <1>3, <2>4 DEF TransitionAfterOutcome, ProjectMutatingStages
<1>4. CASE verdict # "BLOCKING" /\ s.stage = "FINAL_VERIFICATION"
  <2>1. s.stage \in AgentStages
    BY <1>4 DEF AgentStages
  <2>2. Continues(s, WaitAtGate(s, "HUMAN_FINAL_ACCEPTANCE"))
    BY <1>4, <2>1, MoveToContinues DEF WaitAtGate
  <2>3. Continues(s, AfterFinal(s, verdict))
    BY <1>1, <2>2 DEF AfterFinal
  <2> QED
    BY <1>4, <2>3 DEF TransitionAfterOutcome, ProjectMutatingStages
<1>5. CASE /\ verdict = "APPROVED"
           /\ s.stage \in ProjectMutatingStages \cup {"PLAN_DEFECT_RESOLUTION"}
  <2>1. s.stage \in AgentStages
    BY <1>5, Names
  <2>2. /\ Continues(s, MoveTo(s, "TASK_INDEPENDENT_REVIEW"))
        /\ Continues(s, MoveTo(s, "PLAN_REVISION_REVIEW"))
    BY <2>1, Names, MoveToContinues
  <2> QED BY <1>5, <2>2 DEF TransitionAfterOutcome, ProjectMutatingStages
<1>6. CASE \/ verdict = "BLOCKING"
           \/ /\ s.stage \notin {"TASK_INDEPENDENT_REVIEW",
                                 "PLAN_REVISION_REVIEW", "FINAL_VERIFICATION"}
              /\ ~(/\ verdict = "APPROVED"
                   /\ s.stage \in ProjectMutatingStages
                        \cup {"PLAN_DEFECT_RESOLUTION"})
  BY <1>1, <1>6 DEF TransitionAfterOutcome, ProjectMutatingStages
<1> QED BY <1>2, <1>3, <1>4, <1>5, <1>6

-----------------------------------------------------------------------------
(* The steps of the orchestrator *)

LEMMA ReviewCompletes ==
  ASSUME Mode = "gated", NEW s, WellFormed(s), InOrder(s),
         s.stage = "TASK_INDEPENDENT_REVIEW", s.task # Null
  PROVE  Completes(s, [TransitionAfterOutcome(s, "APPROVED")
                         EXCEPT !.items[s.task] = "COMPLETED"])
<1> DEFINE m == WaitAtGate(s, "HUMAN_GROUP_APPROVAL")
           r == [m EXCEPT !.items[s.task] = "COMPLETED"]
<1>1. TransitionAfterOutcome(s, "APPROVED") = m
  BY DEF TransitionAfterOutcome, AfterReview, AfterReviewApproved,
         ProjectMutatingStages
<1>2. s.stage # "HARD_STOP" /\ s.blocked = Null /\ s.task \in Task
  BY DEF InOrder, WellFormed, WorkflowRecord
<1>3. /\ r.task = s.task /\ r.stage = "HUMAN_GROUP_APPROVAL"
      /\ r.blocked = Null
      /\ \A t \in Task : r.items[t] = IF t = s.task THEN "COMPLETED"
                                                    ELSE s.items[t]
  BY <1>2 DEF WaitAtGate, MoveTo, WellFormed, WorkflowRecord
<1> HIDE DEF r
<1>4. Done(r) = Done(s) \cup {s.task}
  BY <1>2, <1>3 DEF Done
<1>5. Place(r) \notin Working \cup Finishing
  BY <1>3, Names DEF Place
<1>6. s.task \notin Dependencies[s.task]
  <2>1. Place(s) \in Working
    BY <1>2, Names DEF Place, AgentStages, TaskStages
  <2> QED BY <1>2, <2>1 DEF InOrder
<1>7. InOrder(r)
  BY <1>2, <1>3, <1>4, <1>5, <1>6 DEF InOrder
<1>8. r.stage \notin TaskStages
  BY <1>3 DEF TaskStages
<1> QED BY <1>1, <1>4, <1>7, <1>8 DEF Completes, r

LEMMA ApplyVerdictContinues ==
  ASSUME Question = {}, Change = {}, Mode = "gated",
         NEW s, WellFormed(s), InOrder(s), NEW verdict
  PROVE  \/ Continues(s, ApplyVerdict(s, verdict))
         \/ Completes(s, ApplyVerdict(s, verdict))
<1> DEFINE moved == TransitionAfterOutcome(s, verdict)
           done == [moved EXCEPT !.items[s.task] = "COMPLETED"]
           reviewed == /\ s.stage = "TASK_INDEPENDENT_REVIEW"
                       /\ verdict = "APPROVED" /\ s.task # Null
           r == IF reviewed THEN done ELSE moved
<1>1. ApplyVerdict(s, verdict) = Recompute(r)
  BY DEF ApplyVerdict, CompleteReviewed
<1>2. WellFormed(moved) /\ (s.task # Null => s.task \in Task)
  BY TransitionWellFormed DEF WellFormed, WorkflowRecord
<1>3. s.task # Null => WellFormed(done)
  <2> HIDE DEF moved
  <2> QED
    BY <1>2
    DEF WellFormed, WorkflowRecord, AttemptsLeft, StopNamesStage, ItemStatus
<1>4. (Continues(s, r) \/ Completes(s, r)) /\ WellFormed(r)
  BY <1>2, <1>3, ReviewCompletes, TransitionContinues
<1> HIDE DEF r
<1>5. Continues(r, Recompute(r)) /\ Recompute(r).stage = r.stage
  BY <1>4, RecomputeContinues, RecomputeDone DEF Continues, Completes
<1> QED BY <1>1, <1>4, <1>5 DEF Continues, Completes

LEMMA ApprovedContinues ==
  ASSUME Question = {}, Change = {}, NEW s, WellFormed(s), InOrder(s),
         s.stage \in HumanGates
  PROVE  Continues(s, Approved(s))
<1>1. s.stage # "HARD_STOP" /\ s.blocked = Null /\ Place(s) = s.stage
  BY DEF HumanGates, InOrder, Place
<1>2. CASE s.stage = "HUMAN_GROUP_APPROVAL"
  <2> DEFINE a == ApproveGate(s)
             r == [a EXCEPT !.stage = "READY", !.task = Null, !.gate = Null,
                            !.status = "RUNNING"]
  <2>1. WellFormed(a)
    BY ApproveGateWellFormed
  <2>2. a.items = s.items /\ a.blocked = Null
    BY <1>1, <1>2 DEF ApproveGate, PassGate, WellFormed, WorkflowRecord
  <2> HIDE DEF a
  <2>3. /\ WellFormed(r) /\ r.items = s.items /\ r.blocked = Null
        /\ r.task = Null /\ r.stage = "READY"
    <3>1. WellFormed(r)
      BY <2>1, ToScheduleWellFormed
    <3>2. /\ r.items = a.items /\ r.blocked = a.blocked
          /\ r.task = Null /\ r.stage = "READY"
      BY <2>1 DEF WellFormed, WorkflowRecord
    <3> QED BY <2>2, <3>1, <3>2
  <2>4. Approved(s) = Schedule(r)
    BY <1>2 DEF Approved, a
  <2> HIDE DEF r
  <2>5. Done(r) = Done(s) /\ Place(r) \notin Finishing
    BY <2>3, Names DEF Done, Place
  <2>6. Continues(s, r)
    BY <2>3, <2>5, NoTask
  <2>7. Continues(r, Schedule(r))
    BY <2>3, <2>6, ScheduleContinues DEF Continues
  <2> QED BY <2>4, <2>6, <2>7, ContinuesFurther
<1>3. CASE s.stage # "HUMAN_GROUP_APPROVAL"
  <2> DEFINE r == ApproveGate(s)
  <2>1. WellFormed(r) /\ Approved(s) = Recompute(r)
    BY <1>3, ApproveGateWellFormed DEF Approved
  <2>2. r = PassGate(s, IF s.stage = "HUMAN_PLAN_FREEZE" THEN "TASK_EXECUTION"
                                                         ELSE "COMPLETED")
    BY <1>3 DEF ApproveGate, HumanGates
  <2>3. /\ r.items = s.items /\ r.task = s.task /\ r.blocked = Null
        /\ r.stage = IF s.stage = "HUMAN_PLAN_FREEZE" THEN "TASK_EXECUTION"
                                                      ELSE "COMPLETED"
    BY <1>1, <2>2 DEF PassGate, WellFormed, WorkflowRecord
  <2>4. /\ Place(r) \in Working => Place(s) \in Working
        /\ Place(r) \in Finishing => Place(s) \in Finishing
    BY <1>1, <1>3, <2>3
    DEF Place, Working, Finishing, HumanGates, AgentStages, TaskStages,
        PropagationStages
  <2> HIDE DEF r
  <2>5. Continues(s, r)
    BY <2>3, <2>4, SameItems
  <2>6. Continues(r, Recompute(r))
    BY <2>1, <2>5, RecomputeContinues DEF Continues
  <2> QED BY <2>1, <2>5, <2>6, ContinuesFurther
<1> QED BY <1>2, <1>3

LEMMA LoadContinues ==
  ASSUME Question = {}, Change = {}, NEW s, WellFormed(s), InOrder(s)
  PROVE  Continues(s, Load(s)) /\ Continues(s, OrphanStop(Load(s)))
<1>1. Continues(s, DigestStop(s))
  <2> DEFINE r == DigestStop(s)
  <2>1. /\ r.items = s.items /\ r.task = s.task /\ r.stage = "HARD_STOP"
        /\ r.blocked = IF s.blocked # Null THEN s.blocked ELSE s.stage
    BY DEF DigestStop, WellFormed, WorkflowRecord
  <2>2. Place(r) \in Working \cup Finishing => Place(r) = Place(s)
    BY <2>1, Names DEF Place, InOrder
  <2> HIDE DEF r
  <2> QED BY <2>1, <2>2, SameItems DEF r
<1>2. Continues(s, Load(s))
  BY <1>1, RecomputeContinues DEF Load
<1> DEFINE q == Load(s)
           r == [q EXCEPT !.stage = "HARD_STOP", !.status = "HARD_STOPPED",
                          !.blocked = q.stage, !.code = "RECOVERY_UNCERTAIN",
                          !.recoverable = TRUE]
<1>3. WellFormed(q) /\ InOrder(q)
  BY <1>2, LoadWellFormed DEF Continues
<1>4. OrphanStop(q) \in {q, r}
  BY DEF OrphanStop
<1> HIDE DEF q
<1>5. /\ r.items = q.items /\ r.task = q.task
      /\ r.stage = "HARD_STOP" /\ r.blocked = q.stage
  BY <1>3 DEF WellFormed, WorkflowRecord
<1> HIDE DEF r
<1>6. Continues(q, r)
  BY <1>3, <1>5, StopContinues
<1>7. Continues(s, OrphanStop(q))
  BY <1>2, <1>4, <1>6, ContinuesFurther DEF q
<1> QED BY <1>2, <1>7 DEF q

LEMMA StopsContinue ==
  ASSUME NEW s, WellFormed(s), InOrder(s), NEW code
  PROVE  /\ Continues(s, AuditStop(s)) /\ Continues(s, InvocationStop(s, code))
         /\ Continues(s, [s EXCEPT !.stage = "HARD_STOP",
                                  !.status = "HARD_STOPPED", !.code = code,
                                  !.blocked = s.stage, !.recoverable = TRUE])
         /\ Continues(s, StopRecord(s))
<1> DEFINE a == AuditStop(s)
           b == InvocationStop(s, code)
           c == [s EXCEPT !.stage = "HARD_STOP", !.status = "HARD_STOPPED",
                          !.code = code, !.blocked = s.stage,
                          !.recoverable = TRUE]
           d == StopRecord(s)
<1>1. \A r \in {a, b, c} : /\ r.items = s.items /\ r.task = s.task
                           /\ r.stage = "HARD_STOP" /\ r.blocked = s.stage
  <2>1. /\ a.items = s.items /\ a.task = s.task
        /\ a.stage = "HARD_STOP" /\ a.blocked = s.stage
    BY DEF AuditStop, WellFormed, WorkflowRecord
  <2>2. /\ b.items = s.items /\ b.task = s.task
        /\ b.stage = "HARD_STOP" /\ b.blocked = s.stage
    BY DEF InvocationStop, WellFormed, WorkflowRecord
  <2>3. /\ c.items = s.items /\ c.task = s.task
        /\ c.stage = "HARD_STOP" /\ c.blocked = s.stage
    BY DEF WellFormed, WorkflowRecord
  <2> HIDE DEF a, b, c
  <2> QED BY <2>1, <2>2, <2>3
<1>2. /\ d.items = s.items /\ d.task = s.task /\ d.stage = s.stage
      /\ d.blocked = s.blocked
  BY DEF StopRecord, WellFormed, WorkflowRecord
<1> HIDE DEF a, b, c, d
<1>3. Continues(s, a) /\ Continues(s, b) /\ Continues(s, c)
  BY <1>1, StopContinues
<1>4. Continues(s, d)
  <2>1. Place(d) = Place(s)
    BY <1>2 DEF Place
  <2> QED BY <1>2, <2>1, SameItems DEF InOrder
<1> QED BY <1>3, <1>4 DEF a, b, c, d

LEMMA InvalidOrFailedContinues ==
  ASSUME NEW s, WellFormed(s), InOrder(s), NEW runnerFailed
  PROVE  Continues(s, InvalidOrFailed(s, runnerFailed))
<1> DEFINE a == [InvocationStop(s, "RETRY_EXHAUSTED")
                   EXCEPT !.recoverable = runnerFailed]
           b == [s EXCEPT !.run = FALSE, !.status = "RUNNING",
                          !.runnerFailure = runnerFailed]
<1>1. /\ a.items = s.items /\ a.task = s.task
      /\ a.stage = "HARD_STOP" /\ a.blocked = s.stage
  BY DEF InvocationStop, WellFormed, WorkflowRecord
<1>2. /\ b.items = s.items /\ b.task = s.task /\ b.stage = s.stage
      /\ b.blocked = s.blocked
  BY DEF WellFormed, WorkflowRecord
<1>3. InvalidOrFailed(s, runnerFailed) \in {a, b}
  BY DEF InvalidOrFailed
<1> HIDE DEF a, b
<1>4. Continues(s, a)
  BY <1>1, StopContinues
<1>5. Continues(s, b)
  <2>1. Place(b) = Place(s)
    BY <1>2 DEF Place
  <2> QED BY <1>2, <2>1, SameItems DEF InOrder
<1> QED BY <1>3, <1>4, <1>5

\* Starting an Agent marks its task, which is not done.
LEMMA InvokeContinues ==
  ASSUME NEW s, WellFormed(s), InOrder(s), s.stage \in AgentStages
  PROVE  Continues(s, Invoke(s))
<1> DEFINE r == Invoke(s)
<1>1. Place(s) = s.stage /\ s.stage \in Working /\ s.blocked = Null
  BY Names DEF Place, InOrder
<1>2. r.task = s.task /\ r.stage = s.stage /\ r.blocked = s.blocked
  BY DEF Invoke, WellFormed, WorkflowRecord
<1>3. \A t \in Task : \/ r.items[t] = s.items[t]
                      \/ /\ t = s.task
                         /\ r.items[t] \in {"REQUIRES_PATCH", "RUNNING"}
  BY DEF Invoke, WellFormed, WorkflowRecord
<1> HIDE DEF r
<1>4. Done(r) = Done(s)
  <2>1. s.task \notin Done(s)
    BY <1>1, NullAssumption, TaskAssumption DEF InOrder, Done
  <2> QED BY <1>3, <2>1 DEF Done
<1>5. Place(r) = Place(s)
  BY <1>2 DEF Place
<1> QED BY <1>2, <1>4, <1>5 DEF Continues, InOrder, r

\* Recovery goes back to the place of the work.
LEMMA RestoredContinues ==
  ASSUME NEW s, WellFormed(s), InOrder(s), s.stage = "HARD_STOP", NEW attempt
  PROVE  /\ Continues(s, Restored(s))
         /\ Continues(s, [Restored(s) EXCEPT !.runnerFailure = FALSE])
         /\ Continues(s, [Restored(s) EXCEPT !.run = TRUE, !.attempt = attempt])
<1> DEFINE a == Restored(s)
           b == [a EXCEPT !.runnerFailure = FALSE]
           c == [a EXCEPT !.run = TRUE, !.attempt = attempt]
<1>1. \A r \in {a, b, c} : /\ r.items = s.items /\ r.task = s.task
                           /\ r.stage = s.blocked /\ r.blocked = Null
  <2>1. /\ a.items = s.items /\ a.task = s.task
        /\ a.stage = s.blocked /\ a.blocked = Null
    BY DEF Restored, WellFormed, WorkflowRecord
  <2>2. /\ b.items = s.items /\ b.task = s.task
        /\ b.stage = s.blocked /\ b.blocked = Null
    BY DEF Restored, WellFormed, WorkflowRecord
  <2>3. /\ c.items = s.items /\ c.task = s.task
        /\ c.stage = s.blocked /\ c.blocked = Null
    BY DEF Restored, WellFormed, WorkflowRecord
  <2> HIDE DEF a, b, c
  <2> QED BY <2>1, <2>2, <2>3
<1> HIDE DEF a, b, c
<1>2. \A r \in {a, b, c} :
         Place(r) \in Working \cup Finishing => Place(r) = Place(s)
  BY <1>1, Names DEF Place
<1>3. Continues(s, a) /\ Continues(s, b) /\ Continues(s, c)
  BY <1>1, <1>2, SameItems
<1> QED BY <1>3 DEF a, b, c

-----------------------------------------------------------------------------
(* Every action keeps the order or completes the task under review *)

LEMMA StepContinues ==
  ASSUME Question = {}, Change = {}, Inductive, InOrder(state), Step
  PROVE  Continues(state, state')
<1> DEFINE s == Load(state)
<1>1. WellFormed(state) /\ WellFormed(s)
  BY InductiveParts, LoadedRecord DEF RecordOK
<1>2. Continues(state, s) /\ InOrder(s)
  BY <1>1, LoadContinues DEF Continues
<1>3. CASE StepDetectsChange
  BY <1>3, NoBlockers DEF StepDetectsChange, Detects
<1>4. CASE StepWaits
  BY <1>2, <1>4 DEF StepWaits, Return
<1>5. CASE StepAuditStops \/ StepFindsDeadInvocation
  <2>1. \/ state' = AuditStop(s)
        \/ state' = InvocationStop(s, "RECOVERY_UNCERTAIN")
        \/ state' = InvalidOrFailed(s, FALSE)
    BY <1>5 DEF StepAuditStops, StepFindsDeadInvocation, Return
  <2> HIDE DEF s
  <2>2. /\ Continues(s, AuditStop(s))
        /\ Continues(s, InvocationStop(s, "RECOVERY_UNCERTAIN"))
    BY <1>1, <1>2, StopsContinue
  <2>3. Continues(s, InvalidOrFailed(s, FALSE))
    BY <1>1, <1>2, InvalidOrFailedContinues
  <2>4. Continues(s, state')
    BY <2>1, <2>2, <2>3
  <2> QED BY <1>2, <2>4, ContinuesFurther
<1>6. CASE StepSchedules
  <2>1. state' = Schedule(s) /\ s.stage # "HARD_STOP"
    BY <1>6 DEF StepSchedules, Return
  <2> HIDE DEF s
  <2>2. Continues(s, state')
    BY <1>1, <1>2, <2>1, ScheduleContinues DEF InOrder
  <2> QED BY <1>2, <2>2, ContinuesFurther
<1>7. CASE StepInvokesAgent
  <2>1. state' = Invoke(s) /\ s.stage \in AgentStages
    BY <1>7 DEF StepInvokesAgent
  <2> HIDE DEF s
  <2>2. Continues(s, state')
    BY <1>1, <1>2, <2>1, InvokeContinues
  <2> QED BY <1>2, <2>2, ContinuesFurther
<1>8. CASE BudgetStop
  <2> DEFINE r == [s EXCEPT !.stage = "HARD_STOP", !.status = "HARD_STOPPED",
                            !.code = "MAX_TOTAL_STEPS", !.blocked = s.stage,
                            !.recoverable = TRUE]
  <2>1. state' \in {s, r}
    BY <1>8 DEF BudgetStop
  <2> HIDE DEF s
  <2>2. Continues(s, r)
    BY <1>1, <1>2, StopsContinue
  <2> HIDE DEF r
  <2> QED BY <1>2, <2>1, <2>2, ContinuesFurther
<1> QED BY <1>3, <1>4, <1>5, <1>6, <1>7, <1>8 DEF Step

LEMMA AgentEndContinues ==
  ASSUME Question = {}, Change = {}, Mode = "gated",
         Inductive, InOrder(state), AgentEnd
  PROVE  Continues(state, state') \/ Completes(state, state')
<1>1. WellFormed(state)
  BY InductiveParts DEF RecordOK
<1>2. CASE FinishWithVerdict
  BY <1>1, <1>2, ApplyVerdictContinues DEF FinishWithVerdict, Return
<1>3. CASE FinishWithQuestions
  BY <1>3 DEF FinishWithQuestions
<1>4. CASE FinishAnalysis
  BY <1>4, NoBlockers DEF FinishAnalysis
<1>5. CASE FinishPropagation
  BY <1>1, <1>5
  DEF FinishPropagation, PropagationActive, WellFormed, WorkflowRecord
<1>6. CASE FinishRefused \/ FinishWithoutOutcome \/ RunnerFails
  BY <1>1, <1>6, InvalidOrFailedContinues
  DEF FinishRefused, FinishWithoutOutcome, RunnerFails, Return
<1>7. CASE FinishRejected
  BY <1>1, <1>7, StopsContinue DEF FinishRejected, Return
<1> QED BY <1>2, <1>3, <1>4, <1>5, <1>6, <1>7 DEF AgentEnd

LEMMA RecoverContinues ==
  ASSUME Question = {}, Change = {}, Mode = "gated",
         Inductive, InOrder(state), Recover
  PROVE  Continues(state, state')
<1> DEFINE s == OrphanStop(Load(state))
<1>1. WellFormed(state) /\ WellFormed(s)
  BY InductiveParts, LoadedRecord DEF RecordOK
<1>2. Continues(state, s) /\ InOrder(s)
  BY <1>1, LoadContinues DEF Continues
<1>3. s.stage = "HARD_STOP"
  BY DEF Recover, RecoverDigest, DigestRecoverable, RecoverStage,
         BudgetRecoverable, RunnerRecoverable, RetryExhausted,
         RecoverInterrupted, InterruptedRecoverable,
         RecoverCanonicalFailure, CanonicalRecoverable,
         RecoverLateOutcome, LateRecoverable, ReadOnlyRecoverable
<1>4. CASE \/ RecoverDigest \/ RecoverStage \/ RecoverInterrupted
           \/ RecoverCanonicalFailure
  <2>1. state' \in {s, Restored(s),
                    [Restored(s) EXCEPT !.runnerFailure = FALSE]}
    BY <1>4 DEF RecoverDigest, RecoverStage, RecoverInterrupted,
                RecoverCanonicalFailure, Idle
  <2> HIDE DEF s
  <2>2. state' = s \/ Continues(s, state')
    BY <1>1, <1>2, <1>3, <2>1, RestoredContinues
  <2> QED BY <1>2, <2>2, ContinuesFurther
<1>5. CASE RecoverLateOutcome
  <2> DEFINE r == [Restored(s) EXCEPT !.run = TRUE, !.attempt = s.attempt]
  <2>1. PICK verdict : state' = TransitionAfterOutcome(r, verdict)
    <3>1. (SUBSET Question) \ {{}} = {}
      OBVIOUS
    <3> QED BY <1>5, <3>1 DEF RecoverLateOutcome, Idle
  <2>2. s.blocked \in ReadOnlyRecoveryStages
    BY <1>5 DEF RecoverLateOutcome, LateRecoverable, ReadOnlyRecoverable
  <2> HIDE DEF s
  <2>3. WellFormed(r)
    <3>1. s.blocked # Null
      BY <2>2, Names DEF Working
    <3> DEFINE a == Restored(s)
    <3>2. a.code = Null
      BY <1>1 DEF Restored, WellFormed, WorkflowRecord
    <3> HIDE DEF a
    <3>3. WellFormed(a)
      BY <1>1, <3>1, RestoredWellFormed DEF a
    <3>4. a \in WorkflowRecord /\ s.attempt \in Nat
      BY <1>1, <3>3 DEF WellFormed, WorkflowRecord
    <3>5. r = [a EXCEPT !.run = TRUE, !.attempt = s.attempt]
      BY DEF a
    <3> HIDE DEF r
    <3>6. r \in WorkflowRecord
      BY <3>4, <3>5 DEF WorkflowRecord
    <3>7. r.run /\ r.attempt = s.attempt /\ r.code = Null
      BY <3>2, <3>4, <3>5 DEF WorkflowRecord
    <3> QED BY <1>1, <3>6, <3>7 DEF WellFormed, AttemptsLeft, StopNamesStage
  <2>4. Continues(s, r)
    BY <1>1, <1>2, <1>3, RestoredContinues
  <2> HIDE DEF r
  <2>5. Continues(r, state')
    BY <2>1, <2>3, <2>4, TransitionContinues DEF Continues
  <2> QED BY <1>2, <2>4, <2>5, ContinuesFurther
<1> QED BY <1>4, <1>5 DEF Recover

LEMMA OperatorContinues ==
  ASSUME Question = {}, Change = {}, Mode = "gated",
         Inductive, InOrder(state), Operator
  PROVE  Continues(state, state')
<1> DEFINE s == Load(state)
<1>1. WellFormed(state) /\ WellFormed(s)
  BY InductiveParts, LoadedRecord DEF RecordOK
<1>2. Continues(state, s) /\ InOrder(s)
  BY <1>1, LoadContinues DEF Continues
<1>3. CASE StartRun
  BY <1>3 DEF StartRun, Continues
<1>4. CASE Inspect
  BY <1>2, <1>4 DEF Inspect, Idle
<1>5. CASE Stop \/ Approve
  <2>1. \/ state' = StopRecord(s)
        \/ state' = Approved(s) /\ s.stage \in HumanGates
    BY <1>5 DEF Stop, Approve, Approvable, Idle
  <2> HIDE DEF s
  <2>2. Continues(s, state')
    BY <1>1, <1>2, <2>1, StopsContinue, ApprovedContinues
  <2> QED BY <1>2, <2>2, ContinuesFurther
<1>6. CASE Decide \/ Promote
  BY <1>6, NoBlockers DEF Decide, Promote
<1> QED BY <1>3, <1>4, <1>5, <1>6, RecoverContinues DEF Operator

LEMMA EveryStepContinues ==
  ASSUME Question = {}, Change = {}, Mode = "gated",
         Inductive, InOrder(state), [Next]_vars
  PROVE  Continues(state, state') \/ Completes(state, state')
<1>1. CASE Environment \/ UNCHANGED vars
  <2>1. state' = state
    BY <1>1 DEF Environment, Interrupt, LateOutcome, SubmitAuthority, EditTree,
                EditWorkflow, vars
  <2> QED BY <2>1 DEF Continues
<1> QED
  BY <1>1, StepContinues, AgentEndContinues, OperatorContinues DEF Next

LEMMA FreshInOrder == Init => InOrder(state)
<1> SUFFICES ASSUME Init PROVE InOrder(state)
  OBVIOUS
<1>1. /\ state.blocked = Null /\ state.task = Null
      /\ state.stage = "INITIALIZING"
      /\ \A t \in Task : state.items[t] \in {"READY", "WAITING_DEPENDENCY"}
  BY DEF Init, Fresh
<1>2. Done(state) = {} /\ Place(state) \notin Finishing
  BY <1>1, Names DEF Done, Place
<1> QED BY <1>1, <1>2 DEF InOrder

-----------------------------------------------------------------------------
(* The theorems *)

\* In a gated workflow without questions and changes the work stays in order.
LEMMA AlwaysInOrder ==
  ASSUME Question = {}, Change = {}, Mode = "gated"
  PROVE  Spec => [](Inductive /\ InOrder(state))
<1>1. Inductive /\ InOrder(state) /\ [Next]_vars => InOrder(state)'
  BY EveryStepContinues DEF Continues, Completes, InOrder, Place, Done
<1> QED BY <1>1, FreshInOrder, InductiveInvariant, PTL DEF Spec

\* An Agent executes a task only when every task it depends on is completed,
\* whatever the declared order and the dependencies are.
THEOREM TasksFollowDependencies ==
  ASSUME Question = {}, Change = {}, Mode = "gated"
  PROVE  Spec => []ExecutesInDependencyOrder
<1>1. InOrder(state) => ExecutesInDependencyOrder
  BY DEF InOrder, Done, ExecutesInDependencyOrder, DependenciesCompleted
<1> QED BY <1>1, AlwaysInOrder, PTL

\* The workflow is verified, accepted and completed only task by task.
THEOREM FinishedTaskByTask ==
  ASSUME Question = {}, Change = {}, Mode = "gated"
  PROVE  Spec => []FinishesOnlyWhenDone
<1>1. InOrder(state) => FinishesOnlyWhenDone
  BY DEF InOrder, Place, Finishing, Done, FinishesOnlyWhenDone
<1> QED BY <1>1, AlwaysInOrder, PTL

\* No stop, crash, retry or recovery takes back a task once it is completed.
THEOREM CompletedWorkStays ==
  ASSUME Question = {}, Change = {}, Mode = "gated"
  PROVE  Spec => CompletedIsFinal
<1>1. Inductive /\ InOrder(state) /\ [Next]_vars =>
        [\A t \in Task :
           state.items[t] = "COMPLETED" /\ state'.items[t] # "COMPLETED"
             => t \in AuthorityDirect(state')]_vars
  BY EveryStepContinues DEF Continues, Completes, Done
<1> QED BY <1>1, AlwaysInOrder, PTL DEF Spec, CompletedIsFinal

\* The task an Agent is at, where the work is in order, may be begun.
LEMMA WorkedOnMayBegin ==
  ASSUME NEW s, InOrder(s), s.stage \in TaskStages, s.task # Null
  PROVE  Dependencies[s.task] \subseteq Done(s) /\ s.task \notin Done(s)
<1>1. Place(s) \in Working
  BY DEF Place, Working, AgentStages, TaskStages
<1> QED BY <1>1 DEF InOrder

\* A step that leaves the completed tasks alone begins a task or suspends the
\* one it was at.
LEMMA ContinuingIsAllowed ==
  ASSUME Inductive, Inductive', Continues(state, state')
  PROVE  Ledger!Next
<1>1. {t \in Task : state.items[t] = "COMPLETED"}' = Done(state')
      /\ {t \in Task : state.items[t] = "COMPLETED"} = Done(state)
  BY DEF Done
<1>2. CASE state'.stage \in TaskStages /\ state'.task # Null
  <2>1. state'.task \in Task
    BY <1>2 DEF Inductive, TypeOK, WorkflowRecord
  <2>2. /\ Dependencies[state'.task] \subseteq Done(state')
        /\ state'.task \notin Done(state')
    BY <1>2, WorkedOnMayBegin DEF Continues
  <2>3. Ledger!Begin(state'.task)
    BY <1>1, <1>2, <2>2 DEF Ledger!Begin, WorkedOn, Continues
  <2> QED BY <2>1, <2>3 DEF Ledger!Next
<1>3. CASE ~(state'.stage \in TaskStages /\ state'.task # Null)
  <2>1. Ledger!Suspend
    BY <1>1, <1>3 DEF Ledger!Suspend, WorkedOn, Continues
  <2> QED BY <2>1 DEF Ledger!Next
<1> QED BY <1>2, <1>3

\* An approved review completes the task that was worked on.
LEMMA CompletingIsAllowed ==
  ASSUME Inductive, Completes(state, state')
  PROVE  Ledger!Next
<1>1. /\ {t \in Task : state.items[t] = "COMPLETED"}' = Done(state')
      /\ {t \in Task : state.items[t] = "COMPLETED"} = Done(state)
  BY DEF Done
<1>2. /\ WorkedOn = state.task /\ WorkedOn' = Null
      /\ state.task \in Task
  BY DEF WorkedOn, Completes, TaskStages, Inductive, TypeOK, WorkflowRecord
<1>3. \E t \in Task : Ledger!Complete(t)
  BY <1>1, <1>2 DEF Ledger!Complete, Completes
<1> QED BY <1>3 DEF Ledger!Next

\* A gated workflow carries out its tasks as the ledger allows: one at a time,
\* after those it depends on, and to the end.
THEOREM CarriesOutTheLedger ==
  ASSUME Question = {}, Change = {}, Mode = "gated"
  PROVE  Spec => ImplementsLedger
<1>1. Init => Ledger!Init
  <2>1. Init => /\ state.stage = "INITIALIZING"
                /\ \A t \in Task : state.items[t] # "COMPLETED"
    BY DEF Init, Fresh
  <2> QED BY <2>1 DEF Ledger!Init, WorkedOn, TaskStages
<1>2. Inductive /\ Inductive' /\ InOrder(state) /\ [Next]_vars
        => [Ledger!Next]_(Ledger!vars)
  BY EveryStepContinues, ContinuingIsAllowed, CompletingIsAllowed
<1> QED
  BY <1>1, <1>2, AlwaysInOrder, PTL DEF Spec, ImplementsLedger, Ledger!Spec

-----------------------------------------------------------------------------
(* The approval of a group *)

\* Where an Agent is waited for, a run goes on and the record is at its stage.
AtItsStage == invoking => running /\ state.stage \in AgentStages

LEMMA AgentAtItsStage ==
  ASSUME Inductive, AtItsStage, [Next]_vars
  PROVE  AtItsStage'
<1>1. CASE Step
  <2>1. CASE StepInvokesAgent
    <3> DEFINE s == Load(state)
    <3>1. /\ state' = Invoke(s) /\ s.stage \in AgentStages
          /\ running /\ running' = running
      BY <2>1 DEF StepInvokesAgent, StepEnabled
    <3>2. WellFormed(s)
      BY InductiveParts, LoadedRecord
    <3> HIDE DEF s
    <3>3. Invoke(s).stage = s.stage
      BY <3>2 DEF Invoke, WellFormed, WorkflowRecord
    <3> QED BY <3>1, <3>3 DEF AtItsStage
  <2>2. CASE BudgetStop
    <3>1. left = 0 /\ invoking' = invoking
      BY <2>2 DEF BudgetStop
    <3>2. ~invoking
      BY <3>1 DEF Inductive
    <3> QED BY <3>1, <3>2 DEF AtItsStage
  <2>3. CASE \/ StepDetectsChange \/ StepWaits \/ StepAuditStops
             \/ StepSchedules \/ StepFindsDeadInvocation
    <3>1. ~invoking'
      BY <2>3 DEF StepDetectsChange, StepWaits, StepAuditStops, StepSchedules,
                  StepFindsDeadInvocation, Return
    <3> QED BY <3>1 DEF AtItsStage
  <2> QED BY <1>1, <2>1, <2>2, <2>3 DEF Step
<1>2. CASE AgentEnd
  <2>1. ~invoking'
    BY <1>2 DEF AgentEnd, FinishWithVerdict, FinishWithQuestions,
                FinishAnalysis, FinishPropagation, FinishRefused,
                FinishWithoutOutcome, RunnerFails, FinishRejected, Return
  <2> QED BY <2>1 DEF AtItsStage
<1>3. CASE Operator
  <2>1. ~running /\ invoking' = invoking
    BY <1>3
    DEF Operator, StartRun, Inspect, Approve, Stop, Decide, Promote, Recover,
        RecoverDigest, RecoverStage, RecoverInterrupted,
        RecoverCanonicalFailure, RecoverLateOutcome, Idle, command
  <2> QED BY <2>1 DEF AtItsStage
<1>4. CASE Environment \/ UNCHANGED vars
  <2>1. \/ ~invoking'
        \/ UNCHANGED <<state, running, invoking>>
    BY <1>4 DEF Environment, Interrupt, LateOutcome, SubmitAuthority, EditTree,
                EditWorkflow, command, vars
  <2> QED BY <2>1 DEF AtItsStage
<1> QED BY <1>1, <1>2, <1>3, <1>4 DEF Next

\* The gate is no stage of an Agent and none the scheduler works from.
LEMMA GateNames ==
  /\ "HUMAN_GROUP_APPROVAL" \in HumanGates
  /\ {"HUMAN_GROUP_APPROVAL", "HARD_STOP"} \cap
       (AgentStages \cup {"WAITING_FOR_HUMAN", "INITIALIZING", "READY",
                          "WAITING_FOR_AUTHORITY_CHANGE"}) = {}
  /\ "HUMAN_GROUP_APPROVAL" \notin ReadOnlyRecoveryStages
  /\ "HUMAN_GROUP_APPROVAL" # Null
BY StagesDisjoint, Names, NullAssumption DEF HumanGates, Stage

\* Loading the record, whether workflow.yaml changed or not, comes to no
\* other place than the gate it waits at or was stopped in front of.
LEMMA LoadAwaits ==
  ASSUME Question = {}, Change = {}, NEW s, WellFormed(s), InOrder(s),
         AwaitsApproval(s)
  PROVE  AwaitsApproval(Load(s)) /\ OrphanStop(Load(s)) = Load(s)
<1>1. AwaitsApproval(DigestStop(s))
  <2> DEFINE r == DigestStop(s)
  <2>1. /\ r.stage = "HARD_STOP"
        /\ r.blocked = IF s.blocked # Null THEN s.blocked ELSE s.stage
    BY DEF DigestStop, WellFormed, WorkflowRecord
  <2> HIDE DEF r
  <2>2. r.blocked = "HUMAN_GROUP_APPROVAL"
    BY <2>1, GateNames DEF AwaitsApproval, InOrder
  <2> QED BY <2>1, <2>2 DEF AwaitsApproval, r
<1>2. AwaitsApproval(Recompute(s))
  BY RecomputeDone DEF AwaitsApproval
<1>3. AwaitsApproval(Load(s))
  BY <1>1, <1>2 DEF Load
<1>4. Load(s).stage \notin AgentStages
  BY <1>3, GateNames DEF AwaitsApproval
<1> QED BY <1>3, <1>4 DEF OrphanStop, Orphaned

LEMMA StepAwaits ==
  ASSUME Question = {}, Change = {}, Inductive, InOrder(state),
         AwaitsApproval(state), Step
  PROVE  AwaitsApproval(state') \/ state'.blocked = "HARD_STOP"
<1> DEFINE s == Load(state)
<1>1. WellFormed(state) /\ WellFormed(s)
  BY InductiveParts, LoadedRecord DEF RecordOK
<1>2. AwaitsApproval(s)
  BY <1>1, LoadAwaits
<1>3. s.stage \in {"HUMAN_GROUP_APPROVAL", "HARD_STOP"}
  BY <1>2 DEF AwaitsApproval
<1>4. CASE StepDetectsChange
  BY <1>4, NoBlockers DEF StepDetectsChange, Detects
<1>5. CASE StepWaits
  BY <1>2, <1>5 DEF StepWaits, Return
<1>6. CASE StepSchedules \/ StepInvokesAgent \/ StepFindsDeadInvocation
  <2>1. s.stage \in AgentStages \cup {"WAITING_FOR_HUMAN", "INITIALIZING",
                                      "READY", "WAITING_FOR_AUTHORITY_CHANGE"}
    BY <1>6 DEF StepSchedules, StepInvokesAgent, StepFindsDeadInvocation
  <2> HIDE DEF s
  <2> QED BY <1>3, <2>1, GateNames
<1>7. CASE StepAuditStops
  <2>1. state' = AuditStop(s) /\ s.stage \notin HumanGates
    BY <1>7 DEF StepAuditStops, Return, Proceeds
  <2> HIDE DEF s
  <2>2. AuditStop(s).blocked = s.stage /\ s.stage = "HARD_STOP"
    BY <1>1, <1>3, <2>1, GateNames DEF AuditStop, WellFormed, WorkflowRecord
  <2> QED BY <2>1, <2>2
<1>8. CASE BudgetStop
  <2> DEFINE r == [s EXCEPT !.stage = "HARD_STOP", !.status = "HARD_STOPPED",
                            !.code = "MAX_TOTAL_STEPS", !.blocked = s.stage,
                            !.recoverable = TRUE]
  <2>1. state' \in {s, r}
    BY <1>8 DEF BudgetStop
  <2> HIDE DEF s
  <2>2. r.stage = "HARD_STOP" /\ r.blocked = s.stage
    BY <1>1 DEF WellFormed, WorkflowRecord
  <2> HIDE DEF r
  <2> QED BY <1>2, <1>3, <2>1, <2>2 DEF AwaitsApproval
<1> QED BY <1>4, <1>5, <1>6, <1>7, <1>8 DEF Step

LEMMA RecoverAwaits ==
  ASSUME Question = {}, Change = {}, Inductive, InOrder(state),
         AwaitsApproval(state), Recover
  PROVE  AwaitsApproval(state')
<1> DEFINE s == OrphanStop(Load(state))
<1>1. WellFormed(state) /\ WellFormed(s)
  BY InductiveParts, LoadedRecord DEF RecordOK
<1>2. AwaitsApproval(s)
  BY <1>1, LoadAwaits
<1>3. s.stage = "HARD_STOP" => s.blocked = "HUMAN_GROUP_APPROVAL"
  BY <1>2 DEF AwaitsApproval
<1>4. CASE RecoverDigest \/ RecoverStage \/ RecoverInterrupted
  <2>1. /\ state' \in {s, Restored(s)}
        /\ s.stage = "HARD_STOP"
    BY <1>4 DEF RecoverDigest, DigestRecoverable, RecoverStage,
                BudgetRecoverable, RunnerRecoverable, RetryExhausted,
                RecoverInterrupted, InterruptedRecoverable, Idle
  <2> HIDE DEF s
  <2>2. Restored(s).stage = s.blocked
    BY <1>1 DEF Restored, WellFormed, WorkflowRecord
  <2> QED BY <1>2, <1>3, <2>1, <2>2 DEF AwaitsApproval
<1>5. CASE RecoverCanonicalFailure \/ RecoverLateOutcome
  <2>1. s.blocked \in ReadOnlyRecoveryStages /\ s.stage = "HARD_STOP"
    BY <1>5 DEF RecoverCanonicalFailure, CanonicalRecoverable, RetryExhausted,
                RecoverLateOutcome, LateRecoverable, ReadOnlyRecoverable
  <2> HIDE DEF s
  <2> QED BY <1>3, <2>1, GateNames
<1> QED BY <1>4, <1>5 DEF Recover

LEMMA OperatorAwaits ==
  ASSUME Question = {}, Change = {}, Inductive, InOrder(state),
         AwaitsApproval(state), Operator, ~Approve
  PROVE  AwaitsApproval(state')
<1> DEFINE s == Load(state)
<1>1. WellFormed(state) /\ WellFormed(s)
  BY InductiveParts, LoadedRecord DEF RecordOK
<1>2. AwaitsApproval(s)
  BY <1>1, LoadAwaits
<1>3. CASE StartRun \/ Inspect
  <2>1. state' \in {state, s}
    BY <1>3 DEF StartRun, Inspect, Idle
  <2> HIDE DEF s
  <2> QED BY <1>2, <2>1
<1>4. CASE Stop
  <2>1. state' = StopRecord(s)
    BY <1>4 DEF Stop, Idle
  <2> HIDE DEF s
  <2>2. /\ StopRecord(s).stage = s.stage
        /\ StopRecord(s).blocked = s.blocked
    BY <1>1 DEF StopRecord, WellFormed, WorkflowRecord
  <2> QED BY <1>2, <2>1, <2>2 DEF AwaitsApproval
<1>5. CASE Decide \/ Promote
  BY <1>5, NoBlockers DEF Decide, Promote
<1> QED BY <1>3, <1>4, <1>5, RecoverAwaits DEF Operator

\* Of all steps, stops, crashes and recoveries, only approve goes past the
\* gate of a group, unless a stop is itself stopped.
THEOREM ApprovedByApproveOnly ==
  ASSUME Question = {}, Change = {}, Mode = "gated"
  PROVE  Spec => OnlyApproveGivesApproval
<1>1. Init => AtItsStage
  BY DEF Init, AtItsStage
<1>2. Inductive /\ AtItsStage /\ [Next]_vars => AtItsStage'
  BY AgentAtItsStage
<1>3. Inductive /\ InOrder(state) /\ AtItsStage /\ [Next]_vars =>
        [AwaitsApproval(state) /\ ~AwaitsApproval(state') =>
           Approve \/ state'.blocked = "HARD_STOP"]_vars
  <2> SUFFICES ASSUME Inductive, InOrder(state), AtItsStage, Next,
                      AwaitsApproval(state), ~AwaitsApproval(state'), ~Approve
               PROVE  state'.blocked = "HARD_STOP"
    OBVIOUS
  <2>1. CASE Step
    BY <2>1, StepAwaits
  <2>2. CASE AgentEnd
    <3>1. invoking
      BY <2>2 DEF AgentEnd, FinishWithVerdict, FinishWithQuestions,
                  FinishAnalysis, FinishPropagation, FinishRefused,
                  FinishWithoutOutcome, RunnerFails, FinishRejected, AgentEnds
    <3> QED BY <3>1, GateNames DEF AtItsStage, AwaitsApproval
  <2>3. CASE Operator
    BY <2>3, OperatorAwaits
  <2>4. CASE Environment
    <3>1. state' = state
      BY <2>4 DEF Environment, Interrupt, LateOutcome, SubmitAuthority,
                  EditTree, EditWorkflow
    <3> QED BY <3>1
  <2> QED BY <2>1, <2>2, <2>3, <2>4 DEF Next
<1> QED
  BY <1>1, <1>2, <1>3, InductiveInvariant, AlwaysInOrder, PTL
  DEF Spec, OnlyApproveGivesApproval

=============================================================================
