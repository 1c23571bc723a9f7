----------------------------- MODULE Scheduler -----------------------------
(***************************************************************************)
(* scheduler.py: the status of every work item is recomputed from pending  *)
(* decisions, open authority changes and dependencies, and one READY item  *)
(* is handed out at a time.  All operators are pure functions of the       *)
(* persisted record; the orchestrator saves what they return.              *)
(***************************************************************************)
EXTENDS WorkflowState

\* A set of tasks that holds every task depending on a member of it.
ClosedDownstream(S) ==
  \A t \in Task : Dependencies[t] \cap S # {} => t \in S

\* The tasks downstream of each set of roots, the roots left out.
Descendants ==
  [roots \in SUBSET Task |->
     {t \in Task \ roots :
        \A S \in SUBSET Task :
          roots \subseteq S /\ ClosedDownstream(S) => t \in S}]

-----------------------------------------------------------------------------
(* Blockers *)

PendingDecisions(s) == {d \in Decision : s.decisions[d].status = "PENDING"}

OpenChanges(s) ==
  {c \in Change : s.changes[c].status \in {"CHANGE_PENDING", "PROPAGATING"}}

\* Tasks a pending decision blocks directly, and those downstream of one.
DecisionDirect(s) ==
  UNION {s.decisions[d].direct : d \in PendingDecisions(s)}
DecisionDependent(s) ==
  UNION {Descendants[s.decisions[d].direct] : d \in PendingDecisions(s)}

AuthorityDirect(s) == UNION {s.changes[c].direct : c \in OpenChanges(s)}
AuthorityDependent(s) ==
  UNION {Descendants[s.changes[c].direct] : c \in OpenChanges(s)}

\* A propagated candidate is ready for the task to be rebased on.
RebaseReady(s, t) ==
  \E c \in Change : t \in s.changes[c].direct /\ s.changes[c].ready

DependenciesCompleted(items, t) ==
  \A u \in Dependencies[t] : items[u] = "COMPLETED"

\* Statuses that return to READY once nothing blocks the task any more.
Resumable == {"BLOCKED_BY_HUMAN_DECISION", "BLOCKED_BY_AUTHORITY_CHANGE",
              "TASK_REBASE_REQUIRED", "WAITING_DEPENDENCY", "READY"}

IsActiveTask(s, t) == t = s.task /\ s.stage \in AgentStages

\* The tests of recompute after those for an open change and for completion.
UnfinishedStatus(s, t) ==
  IF IsActiveTask(s, t)
    THEN IF s.stage = "TASK_PATCH" THEN "REQUIRES_PATCH" ELSE "RUNNING"
  ELSE IF t \in DecisionDirect(s) THEN "BLOCKED_BY_HUMAN_DECISION"
  ELSE IF \/ t \in AuthorityDependent(s) \cup DecisionDependent(s)
          \/ ~DependenciesCompleted(s.items, t)
    THEN "WAITING_DEPENDENCY"
  ELSE IF s.items[t] \in Resumable THEN "READY"
  ELSE s.items[t]

AffectedStatus(s, t) ==
  IF RebaseReady(s, t) THEN "TASK_REBASE_REQUIRED"
                       ELSE "BLOCKED_BY_AUTHORITY_CHANGE"

\* Faulty variant: a pending decision is looked at before completion.
DecisionBeforeCompleted(s, t) ==
  IF t \in AuthorityDirect(s) THEN AffectedStatus(s, t)
  ELSE IF t \in DecisionDirect(s) THEN "BLOCKED_BY_HUMAN_DECISION"
  ELSE IF s.items[t] = "COMPLETED" THEN "COMPLETED"
  ELSE UnfinishedStatus(s, t)

\* Faulty variant: affected work is scheduled while its change is open.
RebaseReadyIsReady(s, t) ==
  IF t \in AuthorityDirect(s)
    THEN IF RebaseReady(s, t) THEN "READY" ELSE "BLOCKED_BY_AUTHORITY_CHANGE"
  ELSE IF s.items[t] = "COMPLETED" THEN "COMPLETED"
  ELSE UnfinishedStatus(s, t)

\* The chain of tests of recompute, in their order: the first that holds
\* decides the status.
RecomputedStatus(s, t) ==
  IF t \in AuthorityDirect(s) THEN AffectedStatus(s, t)
  ELSE IF s.items[t] = "COMPLETED" THEN "COMPLETED"
  ELSE UnfinishedStatus(s, t)

Recompute(s) == [s EXCEPT !.items = [t \in Task |-> RecomputedStatus(s, t)]]

-----------------------------------------------------------------------------
(* Selection *)

ReadyTasks(items) ==
  {t \in Task : items[t] = "READY" /\ DependenciesCompleted(items, t)}

ReadyWork(s) == ReadyTasks(Recompute(s).items)

FirstInOrder(S) == CHOOSE t \in S : \A u \in S : Rank[t] <= Rank[u]

\* Every branch of schedule that selects a stage forgets the current task
\* and invocation.
Released(s, stage, status) ==
  [s EXCEPT !.stage = stage, !.status = status, !.task = Null,
            !.run = FALSE, !.attempt = 0]

StartTask(s, t) ==
  [s EXCEPT !.items[t] = "RUNNING", !.stage = "TASK_EXECUTION",
            !.status = "RUNNING", !.task = t, !.run = FALSE, !.attempt = 0,
            !.gate = Null]

\* Propagation records that name the stage to run next.
RunnablePropagation(s) ==
  {c \in Change : /\ s.propagation[c].status = "RUNNING"
                  /\ s.propagation[c].next # Null}

DependencyBlocked(s) ==
  [s EXCEPT !.stage = "HARD_STOP", !.status = "HARD_STOPPED",
            !.code = "DEPENDENCY_BLOCKED", !.blocked = s.stage,
            !.recoverable = FALSE]

\* The record that was propagated first; an instance has at most one.
NextPropagation(s) == CHOOSE c \in RunnablePropagation(s) : TRUE

\* What schedule selects when no task is ready, by priority.
SelectWithoutTask(s) ==
  IF PendingDecisions(s) # {}
    THEN [Released(s, "WAITING_FOR_HUMAN", "WAITING_HUMAN")
            EXCEPT !.gate = Null]
  ELSE IF RunnablePropagation(s) # {}
    THEN [Released(s, s.propagation[NextPropagation(s)].next, "RUNNING")
            EXCEPT !.gate = Null]
  ELSE IF OpenChanges(s) # {}
    THEN [Released(s, "WAITING_FOR_AUTHORITY_CHANGE",
                   "WAITING_AUTHORITY_CHANGE") EXCEPT !.gate = Null]
  ELSE IF Task # {} /\ \A t \in Task : s.items[t] = "COMPLETED"
    THEN Released(s, "FINAL_VERIFICATION", "RUNNING")
  ELSE DependencyBlocked(s)

\* Faulty variant: pending decisions are looked at before ready work.
SelectDecisionsFirst(s) ==
  IF PendingDecisions(s) = {} /\ ReadyWork(s) # {}
    THEN StartTask(s, FirstInOrder(ReadyWork(s)))
    ELSE SelectWithoutTask(s)

SelectWork(s) ==
  IF ReadyWork(s) # {} THEN StartTask(s, FirstInOrder(ReadyWork(s)))
                       ELSE SelectWithoutTask(s)

\* An invocation that schedule must not disturb.
IsInvoked(s) == s.stage \in AgentStages /\ s.task # Null /\ s.run

Schedule(s) ==
  LET r == Recompute(s)
  IN IF r.stage \in HumanGates \/ IsInvoked(r) THEN r ELSE SelectWork(r)

=============================================================================
