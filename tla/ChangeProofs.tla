---------------------------- MODULE ChangeProofs ----------------------------
(***************************************************************************)
(* Proofs about what the scheduler does with questions and authority       *)
(* changes: what it picks, when it waits for a human, that an open change  *)
(* takes back the work it affects and nothing else, and that a workflow is *)
(* blocked only when nothing can be done.                                  *)
(***************************************************************************)
EXTENDS OrderProofs

-----------------------------------------------------------------------------
(* What the scheduler may pick *)

\* Tasks a pending decision or an open change affects.
HeldBack(s) ==
  UNION {DecisionDirect(s), DecisionDependent(s),
         AuthorityDirect(s), AuthorityDependent(s)}

\* Completed work that no open change takes back.
Kept(s) == Done(s) \ AuthorityDirect(s)

\* The tests that make a task ready, on the record before it is recomputed.
MayStart(s, t) ==
  /\ ~IsActiveTask(s, t) /\ t \notin HeldBack(s)
  /\ s.items[t] \in Resumable
  /\ Dependencies[t] \subseteq Kept(s)

\* Records with the same decisions and changes hold back the same tasks.
LEMMA SameBlockers ==
  ASSUME NEW s, NEW r, r.decisions = s.decisions, r.changes = s.changes
  PROVE  /\ PendingDecisions(r) = PendingDecisions(s)
         /\ OpenChanges(r) = OpenChanges(s)
         /\ AuthorityDirect(r) = AuthorityDirect(s)
         /\ AuthorityDependent(r) = AuthorityDependent(s)
         /\ HeldBack(r) = HeldBack(s)
<1>1. /\ PendingDecisions(r) = PendingDecisions(s)
      /\ OpenChanges(r) = OpenChanges(s)
  BY DEF PendingDecisions, OpenChanges
<1>2. /\ AuthorityDirect(r) = AuthorityDirect(s)
      /\ AuthorityDependent(r) = AuthorityDependent(s)
  BY <1>1 DEF AuthorityDirect, AuthorityDependent
<1>3. /\ DecisionDirect(r) = DecisionDirect(s)
      /\ DecisionDependent(r) = DecisionDependent(s)
  BY <1>1 DEF DecisionDirect, DecisionDependent
<1> QED BY <1>1, <1>2, <1>3 DEF HeldBack

\* Recomputing touches the items only.
LEMMA RecomputeFields ==
  ASSUME NEW s, WellFormed(s)
  PROVE  LET r == Recompute(s) IN
         /\ \A t \in Task : r.items[t] = RecomputedStatus(s, t)
         /\ r.stage = s.stage /\ r.status = s.status /\ r.task = s.task
         /\ r.run = s.run /\ r.gate = s.gate /\ r.code = s.code
         /\ r.blocked = s.blocked /\ r.decisions = s.decisions
         /\ r.changes = s.changes /\ r.propagation = s.propagation
         /\ r.change = s.change /\ r.graph = s.graph
BY DEF Recompute, WellFormed, WorkflowRecord

LEMMA RecomputeKeeps ==
  ASSUME NEW s, WellFormed(s)
  PROVE  Done(Recompute(s)) = Kept(s)
<1>1. ASSUME NEW t \in Task
      PROVE  RecomputedStatus(s, t) = "COMPLETED"
               <=> s.items[t] = "COMPLETED" /\ t \notin AuthorityDirect(s)
  <2>1. AffectedStatus(s, t) # "COMPLETED"
    BY DEF AffectedStatus
  <2>2. s.items[t] # "COMPLETED" => UnfinishedStatus(s, t) # "COMPLETED"
    BY DEF UnfinishedStatus
  <2> QED BY <2>1, <2>2 DEF RecomputedStatus
<1> QED BY <1>1, RecomputeFields DEF Done, Kept

\* schedule offers exactly the tasks that pass the tests.
LEMMA ReadyWorkIs ==
  ASSUME NEW s, WellFormed(s)
  PROVE  ReadyWork(s) = {t \in Task : MayStart(s, t)}
<1> DEFINE r == Recompute(s)
<1>1. \A t \in Task : r.items[t] = RecomputedStatus(s, t)
  BY RecomputeFields
<1>2. Done(r) = Kept(s)
  BY RecomputeKeeps
<1> HIDE DEF r
<1>3. ASSUME NEW t \in Task
      PROVE  RecomputedStatus(s, t) = "READY" /\ Dependencies[t] \subseteq Kept(s)
               <=> MayStart(s, t)
  <2>1. Dependencies[t] \subseteq Kept(s) => DependenciesCompleted(s.items, t)
    BY DEF Kept, Done, DependenciesCompleted
  <2>2. AffectedStatus(s, t) # "READY"
    BY DEF AffectedStatus
  <2>3. ~DependenciesCompleted(s.items, t) => UnfinishedStatus(s, t) # "READY"
    BY DEF UnfinishedStatus
  <2>4. ASSUME DependenciesCompleted(s.items, t), t \notin AuthorityDirect(s),
               s.items[t] # "COMPLETED"
        PROVE  UnfinishedStatus(s, t) = "READY"
                 <=> /\ ~IsActiveTask(s, t) /\ t \notin HeldBack(s)
                     /\ s.items[t] \in Resumable
    BY <2>4 DEF UnfinishedStatus, HeldBack, Resumable
  <2>5. t \in AuthorityDirect(s) => t \in HeldBack(s)
    BY DEF HeldBack
  <2>6. "COMPLETED" \notin Resumable
    BY DEF Resumable
  <2> QED
    BY <2>1, <2>2, <2>3, <2>4, <2>5, <2>6 DEF RecomputedStatus, MayStart
<1>4. ASSUME NEW t \in Task
      PROVE  DependenciesCompleted(r.items, t)
               <=> Dependencies[t] \subseteq Kept(s)
  <2>1. DependenciesCompleted(r.items, t) <=> Dependencies[t] \subseteq Done(r)
    BY TaskAssumption DEF DependenciesCompleted, Done
  <2> QED BY <1>2, <2>1
<1> QED BY <1>1, <1>3, <1>4 DEF ReadyWork, ReadyTasks, r

\* Recomputing again makes no task ready that was not: what it was told is
\* active or affected stays so.
LEMMA RecomputeStartsNoMore ==
  ASSUME NEW s, WellFormed(s), NEW t \in Task,
         t \notin HeldBack(s), Recompute(s).items[t] \in Resumable,
         Dependencies[t] \subseteq Kept(Recompute(s))
  PROVE  MayStart(s, t)
<1> DEFINE r == Recompute(s)
<1>1. r.items[t] = RecomputedStatus(s, t) /\ Done(r) = Kept(s)
  BY RecomputeFields, RecomputeKeeps
<1>2. AuthorityDirect(r) = AuthorityDirect(s)
  BY RecomputeFields, SameBlockers
<1>3. Dependencies[t] \subseteq Kept(s)
  BY <1>1, <1>2 DEF Kept
<1>4. t \notin AuthorityDirect(s)
  BY DEF HeldBack
<1>5. ~IsActiveTask(s, t) /\ s.items[t] \in Resumable
  <2>1. UnfinishedStatus(s, t) \in Resumable /\ s.items[t] # "COMPLETED"
    BY <1>1, <1>4 DEF RecomputedStatus, Resumable
  <2>2. ~IsActiveTask(s, t)
    BY <2>1 DEF UnfinishedStatus, Resumable
  <2>3. DependenciesCompleted(s.items, t)
    BY <1>3 DEF Kept, Done, DependenciesCompleted
  <2> QED BY <2>1, <2>2, <2>3 DEF UnfinishedStatus, HeldBack
<1> QED BY <1>3, <1>5 DEF MayStart

-----------------------------------------------------------------------------
(* What the handlers hand to the scheduler *)

\* A record handed over for the next work to be selected.
Handed(x) == /\ WellFormed(x)
             /\ x.stage = "READY" /\ x.status = "RUNNING" /\ x.task = Null

\* x asks some of the questions of Q and leaves the other decisions alone.
Asks(s, x, Q, source, change) ==
  \A d \in Decision :
    \/ x.decisions[d] = s.decisions[d]
    \/ /\ d \in Q /\ s.decisions[d].status # "PENDING"
       /\ x.decisions[d].status = "PENDING"
       /\ x.decisions[d].source = source /\ x.decisions[d].change = change

LEMMA RecordDecisionsAsks ==
  ASSUME NEW s, WellFormed(s), NEW Q, NEW direct, NEW source, NEW change,
         NEW u
  PROVE  LET r == RecordDecisions(s, Q, Request(u, direct, source, change)) IN
         /\ Asks(s, r, Q, source, change)
         /\ r.stage = s.stage /\ r.status = s.status /\ r.task = s.task
         /\ r.run = s.run /\ r.gate = s.gate /\ r.code = s.code
         /\ r.blocked = s.blocked /\ r.items = s.items
         /\ r.changes = s.changes /\ r.propagation = s.propagation
         /\ r.change = s.change /\ r.graph = s.graph
<1> DEFINE request == Request(u, direct, source, change)
           f == [d \in Decision |->
                   IF /\ d \in Unresolved(s, Q, request)
                      /\ s.decisions[d].status # "PENDING"
                     THEN request ELSE s.decisions[d]]
           r == RecordDecisions(s, Q, request)
<1>1. /\ request.status = "PENDING" /\ request.source = source
      /\ request.change = change
  BY DEF Request
<1> HIDE DEF request
<1>2. /\ r.decisions = f
      /\ r.stage = s.stage /\ r.status = s.status /\ r.task = s.task
      /\ r.run = s.run /\ r.gate = s.gate /\ r.code = s.code
      /\ r.blocked = s.blocked /\ r.items = s.items
      /\ r.changes = s.changes /\ r.propagation = s.propagation
      /\ r.change = s.change /\ r.graph = s.graph
  BY DEF RecordDecisions, WellFormed, WorkflowRecord
<1>3. \A d \in Decision :
        \/ f[d] = s.decisions[d]
        \/ f[d] = request /\ d \in Q /\ s.decisions[d].status # "PENDING"
  BY DEF Unresolved
<1> HIDE DEF f, r
<1>4. Asks(s, r, Q, source, change)
  BY <1>1, <1>2, <1>3 DEF Asks
<1> QED BY <1>2, <1>4 DEF r, request

LEMMA ResetFields ==
  ASSUME NEW s, WellFormed(s)
  PROVE  LET r == Reset(s) IN
         /\ Handed(r)
         /\ r.code = s.code /\ r.blocked = s.blocked /\ r.items = s.items
         /\ r.decisions = s.decisions /\ r.changes = s.changes
         /\ r.propagation = s.propagation /\ r.change = s.change
         /\ r.graph = s.graph
<1> DEFINE r == Reset(s)
<1>1. WellFormed(r)
  BY ResetWellFormed
<1>2. /\ r.stage = "READY" /\ r.status = "RUNNING" /\ r.task = Null
      /\ r.code = s.code /\ r.blocked = s.blocked /\ r.items = s.items
      /\ r.decisions = s.decisions /\ r.changes = s.changes
      /\ r.propagation = s.propagation /\ r.change = s.change
      /\ r.graph = s.graph
  BY DEF Reset, Released, WellFormed, WorkflowRecord
<1> HIDE DEF r
<1> QED BY <1>1, <1>2 DEF Handed, r

\* The change is recorded as the analysis found it, its propagation is
\* planned unless a question is to be answered first, and nothing is stopped.
Analyzed(s, c, a, x) ==
  LET change == AnalyzedChange(a)
      propagates == change.status = "PROPAGATING" IN
  /\ Handed(x)
  /\ x.items = s.items /\ x.code = Null /\ x.blocked = Null
  /\ x.changes = [s.changes EXCEPT ![c] = change]
  /\ x.propagation =
       [s.propagation EXCEPT
          ![c] = IF propagates THEN NewPropagation(change) ELSE @]
  /\ x.change = IF propagates THEN c ELSE Null
  /\ Asks(s, x, a.questions, "AUTHORITY_CHANGE_ANALYSIS", c)

LEMMA AnalysisHandsOver ==
  ASSUME NEW s, WellFormed(s), NEW c \in Change,
         NEW a \in Analysis(Scopes, Question)
  PROVE  \E x : /\ Analyzed(s, c, a, x)
                /\ ApplyAnalysis(s, c, a) = Schedule(Recompute(x))
<1> DEFINE change == AnalyzedChange(a)
           propagates == change.status = "PROPAGATING"
           r == Reset(s)
           p == IF propagates THEN NewPropagation(change) ELSE s.propagation[c]
           changes == [s.changes EXCEPT ![c] = change]
           propagation == [s.propagation EXCEPT ![c] = p]
           current == IF propagates THEN c ELSE Null
           recorded == [r EXCEPT
             !.code = Null, !.blocked = Null, !.recoverable = FALSE,
             !.changes[c] = change,
             !.change = IF propagates THEN c ELSE Null,
             !.propagation[c] = IF propagates THEN NewPropagation(change)
                                              ELSE @]
           request == Request(recorded, a.direct, "AUTHORITY_CHANGE_ANALYSIS", c)
           x == RecordDecisions(recorded, a.questions, request)
<1>1. /\ Handed(r) /\ r.attempt = 0 /\ r.items = s.items
      /\ r.changes = s.changes /\ r.propagation = s.propagation
      /\ r.decisions = s.decisions
  BY ResetFields, ResetWellFormed
<1> HIDE DEF r
<1>2. change \in ChangeRecord /\ p \in PropagationRecord
  BY AnalyzedChangeIsChange, NewPropagationIsRecord
  DEF WellFormed, WorkflowRecord
<1>3. /\ changes \in [Change -> ChangeRecord]
      /\ propagation \in [Change -> PropagationRecord]
      /\ current \in Change \cup {Null}
  BY <1>1, <1>2 DEF WellFormed, WorkflowRecord
<1>4. recorded = [r EXCEPT
           !.code = Null, !.blocked = Null, !.recoverable = FALSE,
           !.changes = changes, !.change = current,
           !.propagation = propagation]
  BY <1>1 DEF Handed, WellFormed, WorkflowRecord
<1> HIDE DEF changes, propagation, current, recorded
<1>5. recorded \in WorkflowRecord
  <2>1. r \in WorkflowRecord
    BY <1>1 DEF Handed, WellFormed
  <2> QED BY <1>3, <1>4, <2>1 DEF WorkflowRecord
<1>6. /\ recorded.attempt = 0 /\ recorded.code = Null
      /\ recorded.blocked = Null /\ recorded.stage = "READY"
      /\ recorded.status = "RUNNING" /\ recorded.task = Null
      /\ recorded.items = s.items /\ recorded.decisions = s.decisions
      /\ recorded.changes = changes /\ recorded.propagation = propagation
      /\ recorded.change = current
  BY <1>1, <1>4 DEF Handed, WellFormed, WorkflowRecord
<1>7. WellFormed(recorded)
  BY <1>5, <1>6, FreshAttempts DEF StopNamesStage
<1>8. WellFormed(x)
  <2>1. a.direct \in SUBSET Task
    BY OrchestratorAssumption DEF Analysis
  <2>2. request \in DecisionRecord
    BY <1>7, <2>1, RequestIsDecision DEF Stage, AgentStages
  <2> QED BY <1>7, <2>2, RecordDecisionsWellFormed
<1>9. /\ x.stage = "READY" /\ x.status = "RUNNING" /\ x.task = Null
      /\ x.items = s.items /\ x.code = Null /\ x.blocked = Null
      /\ x.changes = changes /\ x.propagation = propagation
      /\ x.change = current
      /\ Asks(recorded, x, a.questions, "AUTHORITY_CHANGE_ANALYSIS", c)
  BY <1>6, <1>7, RecordDecisionsAsks
<1>10. ApplyAnalysis(s, c, a) = Schedule(Recompute(x))
  BY DEF ApplyAnalysis, recorded, r
<1> HIDE DEF x
<1>11. Asks(s, x, a.questions, "AUTHORITY_CHANGE_ANALYSIS", c)
  BY <1>6, <1>9 DEF Asks
<1>12. Handed(x)
  BY <1>8, <1>9 DEF Handed
<1>13. Analyzed(s, c, a, x)
  BY <1>9, <1>11, <1>12 DEF Analyzed, changes, propagation, current
<1> QED BY <1>10, <1>13

\* Parking the record gives up its stage and task and nothing else.
LEMMA ParkedFields ==
  ASSUME NEW s, WellFormed(s)
  PROVE  LET x == [s EXCEPT !.stage = "READY", !.task = Null, !.run = FALSE,
                            !.status = "RUNNING", !.runnerFailure = FALSE] IN
         /\ Handed(x)
         /\ x.code = s.code /\ x.blocked = s.blocked /\ x.items = s.items
         /\ x.decisions = s.decisions /\ x.changes = s.changes
         /\ x.propagation = s.propagation /\ x.change = s.change
         /\ x.graph = s.graph
<1> DEFINE x == [s EXCEPT !.stage = "READY", !.task = Null, !.run = FALSE,
                          !.status = "RUNNING", !.runnerFailure = FALSE]
<1>1. WellFormed(x)
  BY ParkedWellFormed
<1>2. /\ x.stage = "READY" /\ x.status = "RUNNING" /\ x.task = Null
      /\ x.code = s.code /\ x.blocked = s.blocked /\ x.items = s.items
      /\ x.decisions = s.decisions /\ x.changes = s.changes
      /\ x.propagation = s.propagation /\ x.change = s.change
      /\ x.graph = s.graph
  BY DEF WellFormed, WorkflowRecord
<1> HIDE DEF x
<1> QED BY <1>1, <1>2 DEF Handed, x

\* The propagation waits at its stage for the answers.
Suspended(s, Q, x) ==
  /\ Handed(x)
  /\ x.items = s.items /\ x.code = s.code /\ x.blocked = s.blocked
  /\ x.changes = s.changes
  /\ x.propagation = [s.propagation EXCEPT
                        ![s.change].status = "WAITING_DECISION",
                        ![s.change].next = s.stage]
  /\ x.change = s.change
  /\ Asks(s, x, Q, s.stage, Null)

LEMMA SuspensionHandsOver ==
  ASSUME NEW s, WellFormed(s), s.change \in Change,
         s.stage \in PropagationStages, NEW Q, NEW direct \in SUBSET Task
  PROVE  \E x : /\ Suspended(s, Q, x)
                /\ SuspendPropagation(s, Q, direct) = Schedule(x)
<1> DEFINE c == s.change
           blocked == IF direct # {} THEN direct ELSE s.changes[c].direct
           request == Request(s, blocked, s.stage, Null)
           recorded == RecordDecisions(s, Q, request)
           f == [recorded.propagation EXCEPT ![c].status = "WAITING_DECISION",
                                             ![c].next = s.stage]
           suspended == [recorded EXCEPT !.propagation = f]
           x == [suspended EXCEPT
                   !.stage = "READY", !.task = Null, !.run = FALSE,
                   !.status = "RUNNING", !.runnerFailure = FALSE]
<1>1. request \in DecisionRecord
  <2>1. blocked \in SUBSET Task
    BY DEF WellFormed, WorkflowRecord, ChangeRecord
  <2>2. s.stage \in Stage
    BY DEF WellFormed, WorkflowRecord
  <2> QED BY <2>1, <2>2, RequestIsDecision
<1>2. WellFormed(recorded)
  BY <1>1, RecordDecisionsWellFormed
<1>3. /\ Asks(s, recorded, Q, s.stage, Null)
      /\ recorded.items = s.items /\ recorded.code = s.code
      /\ recorded.blocked = s.blocked /\ recorded.changes = s.changes
      /\ recorded.propagation = s.propagation /\ recorded.change = s.change
  BY RecordDecisionsAsks
<1> HIDE DEF recorded
<1>4. f \in [Change -> PropagationRecord]
  <2>1. recorded.propagation \in [Change -> PropagationRecord]
    BY <1>2 DEF WellFormed, WorkflowRecord
  <2>2. [recorded.propagation[c] EXCEPT !.status = "WAITING_DECISION",
                                        !.next = s.stage] \in PropagationRecord
    BY <2>1 DEF PropagationRecord
  <2> QED BY <2>1, <2>2
<1> HIDE DEF f
<1>5. WellFormed(suspended)
  BY <1>2, <1>4, PropagationWellFormed
<1>6. /\ suspended.items = recorded.items /\ suspended.code = recorded.code
      /\ suspended.blocked = recorded.blocked /\ suspended.propagation = f
      /\ suspended.changes = recorded.changes
      /\ suspended.change = recorded.change
      /\ suspended.decisions = recorded.decisions
  BY <1>2 DEF WellFormed, WorkflowRecord
<1>7. [recorded EXCEPT
         !.propagation[c].status = "WAITING_DECISION",
         !.propagation[c].next = s.stage,
         !.stage = "READY", !.task = Null, !.run = FALSE,
         !.status = "RUNNING", !.runnerFailure = FALSE] = x
  BY <1>2 DEF f, WellFormed, WorkflowRecord
<1> HIDE DEF suspended
<1>8. /\ Handed(x) /\ x.code = suspended.code
      /\ x.blocked = suspended.blocked /\ x.items = suspended.items
      /\ x.decisions = suspended.decisions /\ x.changes = suspended.changes
      /\ x.propagation = suspended.propagation /\ x.change = suspended.change
  BY <1>5, ParkedFields
<1>9. SuspendPropagation(s, Q, direct) = Schedule(x)
  BY <1>7 DEF recorded, SuspendPropagation
<1> HIDE DEF x
<1>10. Asks(s, x, Q, s.stage, Null)
  BY <1>3, <1>6, <1>8 DEF Asks
<1>11. f = [s.propagation EXCEPT ![c].status = "WAITING_DECISION",
                                 ![c].next = s.stage]
  BY <1>3 DEF f
<1>12. Suspended(s, Q, x)
  BY <1>3, <1>6, <1>8, <1>10, <1>11 DEF Suspended
<1> QED BY <1>9, <1>12

\* The next stage of a propagation is named and the record handed over.
LEMMA NextStageHandsOver ==
  ASSUME NEW s, WellFormed(s), NEW c \in Change,
         NEW stage \in PropagationStages
  PROVE  LET x == [Reset(s) EXCEPT !.propagation[c].next = stage] IN
         /\ Handed(x) /\ x.items = s.items /\ x.code = s.code
         /\ x.blocked = s.blocked /\ x.changes = s.changes
         /\ x.propagation = [s.propagation EXCEPT ![c].next = stage]
         /\ x.change = s.change /\ x.decisions = s.decisions
<1> DEFINE r == Reset(s)
           x == [r EXCEPT !.propagation[c].next = stage]
<1>1. /\ Handed(r) /\ r.code = s.code /\ r.blocked = s.blocked
      /\ r.items = s.items /\ r.decisions = s.decisions
      /\ r.changes = s.changes /\ r.propagation = s.propagation
      /\ r.change = s.change
  BY ResetFields
<1> HIDE DEF r
<1>2. WellFormed(r) /\ WellFormed(x)
  BY <1>1, NextStageWellFormed DEF Handed
<1>3. /\ x.stage = r.stage /\ x.status = r.status /\ x.task = r.task
      /\ x.code = r.code /\ x.blocked = r.blocked /\ x.items = r.items
      /\ x.decisions = r.decisions /\ x.changes = r.changes
      /\ x.propagation = [r.propagation EXCEPT ![c].next = stage]
      /\ x.change = r.change
  BY <1>2 DEF WellFormed, WorkflowRecord
<1> HIDE DEF x
<1> QED BY <1>1, <1>2, <1>3 DEF Handed, x, r

\* The revision is named as the next stage of the propagation.
SentBack(s, x) ==
  /\ Handed(x)
  /\ x.items = s.items /\ x.code = s.code /\ x.blocked = s.blocked
  /\ x.changes = s.changes
  /\ x.propagation = [s.propagation EXCEPT
                        ![s.change].next = RevisionOf[s.stage]]
  /\ x.change = s.change /\ x.decisions = s.decisions

LEMMA RevisionHandsOver ==
  ASSUME NEW s, WellFormed(s), s.change \in Change,
         s.stage \in DOMAIN RevisionOf
  PROVE  \E x : SentBack(s, x) /\ ReviseAgain(s) = Schedule(x)
<1>1. RevisionOf[s.stage] \in PropagationStages
  BY DEF RevisionOf, PropagationStages
<1> DEFINE x == [Reset(s) EXCEPT !.propagation[s.change].next =
                                   RevisionOf[s.stage]]
<1>2. /\ Handed(x) /\ x.items = s.items /\ x.code = s.code
      /\ x.blocked = s.blocked /\ x.changes = s.changes
      /\ x.propagation = [s.propagation EXCEPT
                            ![s.change].next = RevisionOf[s.stage]]
      /\ x.change = s.change /\ x.decisions = s.decisions
  BY <1>1, NextStageHandsOver
<1>3. ReviseAgain(s) = Schedule(x)
  BY DEF ReviseAgain
<1> HIDE DEF x
<1>4. SentBack(s, x)
  BY <1>2 DEF SentBack
<1> QED BY <1>3, <1>4

\* x says the same of every change but whether it is ready to be rebased on.
SameScope(s, x) ==
  \A c \in Change : /\ x.changes[c].status = s.changes[c].status
                    /\ x.changes[c].analyzed = s.changes[c].analyzed
                    /\ x.changes[c].direct = s.changes[c].direct

LEMMA ReadyKeepsScope ==
  ASSUME NEW s, WellFormed(s), NEW c \in Change
  PROVE  LET r == [s EXCEPT !.changes[c].ready = TRUE] IN
         /\ WellFormed(r) /\ SameScope(s, r)
         /\ r.code = s.code /\ r.blocked = s.blocked /\ r.items = s.items
         /\ r.decisions = s.decisions /\ r.propagation = s.propagation
         /\ r.change = s.change
<1> DEFINE f == [s.changes EXCEPT ![c].ready = TRUE]
           r == [s EXCEPT !.changes[c].ready = TRUE]
<1>1. WellFormed(r)
  BY ReadyWellFormed
<1>2. s.changes \in [Change -> ChangeRecord]
  BY DEF WellFormed, WorkflowRecord
<1>3. \A d \in Change : /\ f[d].status = s.changes[d].status
                        /\ f[d].analyzed = s.changes[d].analyzed
                        /\ f[d].direct = s.changes[d].direct
  BY <1>2 DEF ChangeRecord
<1>4. /\ r.changes = f
      /\ r.code = s.code /\ r.blocked = s.blocked /\ r.items = s.items
      /\ r.decisions = s.decisions /\ r.propagation = s.propagation
      /\ r.change = s.change
  BY DEF WellFormed, WorkflowRecord
<1> HIDE DEF f, r
<1>5. SameScope(s, r)
  BY <1>3, <1>4 DEF SameScope
<1> QED BY <1>1, <1>4, <1>5 DEF r

LEMMA GraphBuiltKeepsScope ==
  ASSUME NEW s, WellFormed(s), s.change \in Change
  PROVE  LET r == GraphBuilt(s) IN
         /\ WellFormed(r) /\ SameScope(s, r)
         /\ r.code = s.code /\ r.blocked = s.blocked /\ r.items = s.items
         /\ r.decisions = s.decisions /\ r.propagation = s.propagation
         /\ r.change = s.change
<1> DEFINE g == [s EXCEPT !.graph = TRUE]
           r == [g EXCEPT !.changes[s.change].ready = TRUE]
<1>1. /\ WellFormed(g)
      /\ g.code = s.code /\ g.blocked = s.blocked /\ g.items = s.items
      /\ g.decisions = s.decisions /\ g.propagation = s.propagation
      /\ g.change = s.change /\ g.changes = s.changes
  BY DEF WellFormed, WorkflowRecord, AttemptsLeft, StopNamesStage
<1>2. [s EXCEPT !.graph = TRUE, !.changes[s.change].ready = TRUE] = r
  BY DEF WellFormed, WorkflowRecord
<1> HIDE DEF g
<1>3. /\ WellFormed(r) /\ SameScope(g, r)
      /\ r.code = g.code /\ r.blocked = g.blocked /\ r.items = g.items
      /\ r.decisions = g.decisions /\ r.propagation = g.propagation
      /\ r.change = g.change
  BY <1>1, ReadyKeepsScope
<1> HIDE DEF r
<1>4. SameScope(s, r)
  BY <1>1, <1>3 DEF SameScope
<1>5. CASE s.stage = "PLAN_GRAPH_BUILD"
  BY <1>1, <1>2, <1>3, <1>4, <1>5 DEF GraphBuilt
<1>6. CASE s.stage # "PLAN_GRAPH_BUILD"
  BY <1>6 DEF GraphBuilt, SameScope
<1> QED BY <1>5, <1>6

\* The last stage of a propagation asks for its promotion.
Propagated(s, x) ==
  /\ Handed(x)
  /\ x.items = s.items /\ x.code = s.code /\ x.blocked = s.blocked
  /\ SameScope(s, x)
  /\ x.propagation = [s.propagation EXCEPT
                        ![s.change].status = "WAITING_PROMOTION",
                        ![s.change].next = Null]
  /\ x.change = s.change
  /\ Asks(s, x, {s.change}, "TASK_REBASE_ANALYSIS", s.change)

LEMMA CompletionHandsOver ==
  ASSUME NEW s, WellFormed(s), s.change \in Change, CompletesPropagation(s)
  PROVE  \E x : Propagated(s, x) /\ AdvancePropagation(s) = Schedule(x)
<1> DEFINE c == s.change
           built == GraphBuilt(s)
           ready == [built EXCEPT !.changes[c].ready = TRUE]
           f == [ready.propagation EXCEPT ![c].status = "WAITING_PROMOTION",
                                          ![c].next = Null]
           waiting == [ready EXCEPT !.propagation = f]
           request == Request(s, s.changes[c].direct, "TASK_REBASE_ANALYSIS", c)
           requested == RecordDecisions(waiting, {c}, request)
           x == [requested EXCEPT
                   !.stage = "READY", !.task = Null, !.run = FALSE,
                   !.status = "RUNNING", !.runnerFailure = FALSE]
<1>1. /\ WellFormed(built) /\ SameScope(s, built)
      /\ built.code = s.code /\ built.blocked = s.blocked
      /\ built.items = s.items /\ built.decisions = s.decisions
      /\ built.propagation = s.propagation /\ built.change = s.change
  BY GraphBuiltKeepsScope
<1>2. waiting = [built EXCEPT !.changes[c].ready = TRUE,
                              !.propagation[c].status = "WAITING_PROMOTION",
                              !.propagation[c].next = Null]
  BY <1>1 DEF WellFormed, WorkflowRecord
<1> HIDE DEF built
<1>3. /\ WellFormed(ready) /\ SameScope(built, ready)
      /\ ready.code = built.code /\ ready.blocked = built.blocked
      /\ ready.items = built.items /\ ready.decisions = built.decisions
      /\ ready.propagation = built.propagation /\ ready.change = built.change
  BY <1>1, ReadyKeepsScope
<1> HIDE DEF ready
<1>4. f \in [Change -> PropagationRecord]
  <2>1. ready.propagation \in [Change -> PropagationRecord]
    BY <1>3 DEF WellFormed, WorkflowRecord
  <2>2. [ready.propagation[c] EXCEPT !.status = "WAITING_PROMOTION",
                                     !.next = Null] \in PropagationRecord
    BY <2>1 DEF PropagationRecord
  <2> QED BY <2>1, <2>2
<1>5. f = [s.propagation EXCEPT ![c].status = "WAITING_PROMOTION",
                                ![c].next = Null]
  BY <1>1, <1>3
<1> HIDE DEF f
<1>6. WellFormed(waiting)
  BY <1>3, <1>4, PropagationWellFormed
<1>7. /\ waiting.changes = ready.changes /\ waiting.propagation = f
      /\ waiting.code = s.code /\ waiting.blocked = s.blocked
      /\ waiting.items = s.items /\ waiting.decisions = s.decisions
      /\ waiting.change = c
  BY <1>1, <1>3 DEF WellFormed, WorkflowRecord
<1> HIDE DEF waiting
<1>8. WellFormed(requested)
  <2>1. s.changes[c].direct \in SUBSET Task
    BY DEF WellFormed, WorkflowRecord, ChangeRecord
  <2>2. "TASK_REBASE_ANALYSIS" \in Stage
    BY DEF Stage, AgentStages, PropagationStages
  <2>3. request \in DecisionRecord
    BY <2>1, <2>2, RequestIsDecision
  <2> QED BY <1>6, <2>3, RecordDecisionsWellFormed
<1>9. /\ Asks(waiting, requested, {c}, "TASK_REBASE_ANALYSIS", c)
      /\ requested.items = waiting.items /\ requested.code = waiting.code
      /\ requested.blocked = waiting.blocked
      /\ requested.changes = waiting.changes
      /\ requested.propagation = waiting.propagation
      /\ requested.change = waiting.change
  BY <1>6, RecordDecisionsAsks
<1>10. AdvancePropagation(s) = Schedule(x)
  BY <1>2 DEF AdvancePropagation, built
<1> HIDE DEF requested
<1>11. /\ Handed(x) /\ x.code = requested.code
       /\ x.blocked = requested.blocked /\ x.items = requested.items
       /\ x.decisions = requested.decisions /\ x.changes = requested.changes
       /\ x.propagation = requested.propagation
       /\ x.change = requested.change
  BY <1>8, ParkedFields
<1> HIDE DEF x
<1>12. SameScope(s, x)
  BY <1>1, <1>3, <1>7, <1>9, <1>11 DEF SameScope
<1>13. Asks(s, x, {c}, "TASK_REBASE_ANALYSIS", c)
  BY <1>7, <1>9, <1>11 DEF Asks
<1>14. Propagated(s, x)
  BY <1>5, <1>7, <1>9, <1>11, <1>12, <1>13 DEF Propagated
<1> QED BY <1>10, <1>14

\* Every other stage names the next one.
Advanced(s, x) ==
  /\ Handed(x)
  /\ x.items = s.items /\ x.code = s.code /\ x.blocked = s.blocked
  /\ SameScope(s, x)
  /\ x.propagation =
       [s.propagation EXCEPT
          ![s.change].next = StepAfter(s.propagation[s.change].steps, s.stage)]
  /\ x.change = s.change /\ x.decisions = s.decisions

LEMMA AdvanceHandsOver ==
  ASSUME NEW s, WellFormed(s), s.change \in Change, ~CompletesPropagation(s)
  PROVE  \E x : Advanced(s, x) /\ AdvancePropagation(s) = Schedule(x)
<1> DEFINE c == s.change
           built == GraphBuilt(s)
           stage == StepAfter(s.propagation[c].steps, s.stage)
           x == [Reset(built) EXCEPT !.propagation[c].next = stage]
<1>1. /\ WellFormed(built) /\ SameScope(s, built)
      /\ built.code = s.code /\ built.blocked = s.blocked
      /\ built.items = s.items /\ built.decisions = s.decisions
      /\ built.propagation = s.propagation /\ built.change = s.change
  BY GraphBuiltKeepsScope
<1>2. stage \in PropagationStages
  <2>1. s.propagation[c].steps \in SUBSET PropagationStages
    BY DEF WellFormed, WorkflowRecord, PropagationRecord
  <2> QED BY <2>1, StepAfterIsStep DEF CompletesPropagation
<1>3. AdvancePropagation(s) = Schedule(x)
  BY DEF AdvancePropagation
<1> HIDE DEF built, stage
<1>4. /\ Handed(x) /\ x.items = built.items /\ x.code = built.code
      /\ x.blocked = built.blocked /\ x.changes = built.changes
      /\ x.propagation = [built.propagation EXCEPT ![c].next = stage]
      /\ x.change = built.change /\ x.decisions = built.decisions
  BY <1>1, <1>2, NextStageHandsOver
<1> HIDE DEF x
<1>5. SameScope(s, x)
  BY <1>1, <1>4 DEF SameScope
<1>6. Advanced(s, x)
  BY <1>1, <1>4, <1>5 DEF Advanced, stage
<1> QED BY <1>3, <1>6

\* What an answered question of the analysis makes of the propagation of c.
Resumed(s, c) ==
  LET p == s.propagation[c] IN
  IF p.status = "NONE" THEN NewPropagation(s.changes[c])
  ELSE [p EXCEPT !.status = "RUNNING",
          !.next = IF @ # Null THEN @ ELSE "CHANGE_PROPAGATION_PLANNING"]

LEMMA DecisionResolved ==
  ASSUME NEW s, WellFormed(s), NEW d \in Decision
  PROVE  LET x == [s EXCEPT !.decisions[d].status = "RESOLVED"] IN
         /\ WellFormed(x)
         /\ x.decisions = [s.decisions EXCEPT ![d].status = "RESOLVED"]
         /\ x.stage = s.stage /\ x.status = s.status /\ x.task = s.task
         /\ x.code = s.code /\ x.blocked = s.blocked /\ x.items = s.items
         /\ x.changes = s.changes /\ x.propagation = s.propagation
         /\ x.change = s.change /\ x.graph = s.graph
<1> DEFINE x == [s EXCEPT !.decisions[d].status = "RESOLVED"]
<1>1. WellFormed(x)
  BY ResolvedWellFormed
<1>2. /\ x.decisions = [s.decisions EXCEPT ![d].status = "RESOLVED"]
      /\ x.stage = s.stage /\ x.status = s.status /\ x.task = s.task
      /\ x.code = s.code /\ x.blocked = s.blocked /\ x.items = s.items
      /\ x.changes = s.changes /\ x.propagation = s.propagation
      /\ x.change = s.change /\ x.graph = s.graph
  BY DEF WellFormed, WorkflowRecord
<1> HIDE DEF x
<1> QED BY <1>1, <1>2 DEF x

\* The decision is resolved, and an answer to the analysis resumes the
\* propagation of its change.
DecidedOn(s, d, x) ==
  LET c == s.decisions[d].change
      resumes == s.decisions[d].source = "AUTHORITY_CHANGE_ANALYSIS" IN
  /\ Handed(x)
  /\ x.items = s.items /\ x.code = s.code /\ x.blocked = s.blocked
  /\ x.changes = s.changes
  /\ x.decisions = [s.decisions EXCEPT ![d].status = "RESOLVED"]
  /\ x.propagation = IF resumes
                       THEN [s.propagation EXCEPT ![c] = Resumed(s, c)]
                       ELSE s.propagation
  /\ x.change = IF resumes THEN c ELSE s.change

LEMMA AnswerHandsOver ==
  ASSUME NEW s, WellFormed(s), NEW d \in Decision
  PROVE  \E x : DecidedOn(s, d, x) /\ ResolveDecision(s, d) = Schedule(x)
<1> DEFINE c == s.decisions[d].change
           r == Released(s, "READY", "RUNNING")
           freed == [r EXCEPT !.decisions[d].status = "RESOLVED"]
           x == ResumePropagation(freed, c)
<1>1. /\ WellFormed(r) /\ r.stage = "READY" /\ r.status = "RUNNING"
      /\ r.task = Null /\ r.items = s.items /\ r.code = s.code
      /\ r.blocked = s.blocked /\ r.changes = s.changes
      /\ r.decisions = s.decisions /\ r.propagation = s.propagation
      /\ r.change = s.change
  <2>1. WellFormed(r)
    BY ReleasedWellFormed DEF WellFormed, Stage, Status
  <2> QED BY <2>1 DEF Released, WellFormed, WorkflowRecord
<1>2. c \in Change \cup {Null}
  BY DEF WellFormed, WorkflowRecord, DecisionRecord
<1> HIDE DEF r
<1>3. /\ WellFormed(freed)
      /\ freed.decisions = [r.decisions EXCEPT ![d].status = "RESOLVED"]
      /\ freed.stage = r.stage /\ freed.status = r.status
      /\ freed.task = r.task /\ freed.code = r.code
      /\ freed.blocked = r.blocked /\ freed.items = r.items
      /\ freed.changes = r.changes /\ freed.propagation = r.propagation
      /\ freed.change = r.change
  BY <1>1, DecisionResolved
<1>4. ResolveDecision(s, d)
        = IF s.decisions[d].source = "AUTHORITY_CHANGE_ANALYSIS"
            THEN Schedule(x) ELSE Schedule(freed)
  BY DEF ResolveDecision, r
<1> HIDE DEF freed
<1>5. Handed(freed)
  BY <1>1, <1>3 DEF Handed
<1>6. WellFormed(x)
  BY <1>2, <1>3, ResumePropagationWellFormed
<1>7. /\ x.propagation = [freed.propagation EXCEPT ![c] = Resumed(freed, c)]
      /\ x.change = c
      /\ x.stage = freed.stage /\ x.status = freed.status
      /\ x.task = freed.task /\ x.code = freed.code
      /\ x.blocked = freed.blocked /\ x.items = freed.items
      /\ x.changes = freed.changes /\ x.decisions = freed.decisions
  <2> DEFINE p == Resumed(freed, c)
  <2>1. x = [freed EXCEPT !.propagation[c] = p, !.change = c]
    BY DEF ResumePropagation, Resumed
  <2> HIDE DEF p, x
  <2>2. /\ x.propagation = [freed.propagation EXCEPT ![c] = p]
        /\ x.change = c
        /\ x.stage = freed.stage /\ x.status = freed.status
        /\ x.task = freed.task /\ x.code = freed.code
        /\ x.blocked = freed.blocked /\ x.items = freed.items
        /\ x.changes = freed.changes /\ x.decisions = freed.decisions
    BY <1>3, <2>1 DEF WellFormed, WorkflowRecord
  <2> QED BY <2>2 DEF p
<1>8. Resumed(freed, c) = Resumed(s, c)
  BY <1>1, <1>3 DEF Resumed
<1> HIDE DEF x
<1>9. Handed(x)
  BY <1>1, <1>3, <1>6, <1>7 DEF Handed
<1>10. CASE s.decisions[d].source = "AUTHORITY_CHANGE_ANALYSIS"
  <2>1. DecidedOn(s, d, x)
    BY <1>1, <1>3, <1>7, <1>8, <1>9, <1>10 DEF DecidedOn
  <2> QED BY <1>4, <1>10, <2>1
<1>11. CASE s.decisions[d].source # "AUTHORITY_CHANGE_ANALYSIS"
  <2>1. DecidedOn(s, d, freed)
    BY <1>1, <1>3, <1>5, <1>11 DEF DecidedOn
  <2> QED BY <1>4, <1>11, <2>1
<1> QED BY <1>10, <1>11

\* Promotion closes the change and hands its first task, if any, to an Agent.
Promoted(s, c, first, x) ==
  /\ WellFormed(x)
  /\ first = Null => Handed(x)
  /\ first # Null => x.stage = "TASK_PATCH"
  /\ x.status = "RUNNING" /\ x.task = first
  /\ x.items = s.items /\ x.code = s.code /\ x.blocked = s.blocked
  /\ x.changes = [s.changes EXCEPT ![c].status = "PROMOTED"]
  /\ x.propagation = [s.propagation EXCEPT ![c].status = "PROMOTED"]
  /\ x.decisions = [s.decisions EXCEPT ![c].status = "RESOLVED"]
  /\ x.change = Null

LEMMA PromotionFields ==
  ASSUME NEW s, WellFormed(s), NEW c \in Change, NEW first \in Task \cup {Null}
  PROVE  \E x : /\ Promoted(s, c, first, x)
                /\ ResolvePromotion(s, c, first)
                     = IF first = Null THEN Schedule(x) ELSE x
<1> DEFINE resolved == [s EXCEPT !.decisions[c].status = "RESOLVED"]
           x == PromoteChange(resolved, c, first)
           stage == IF first = Null THEN "READY" ELSE "TASK_PATCH"
           r == Released(resolved, stage, "RUNNING")
<1>1. /\ WellFormed(resolved)
      /\ resolved.decisions = [s.decisions EXCEPT ![c].status = "RESOLVED"]
      /\ resolved.code = s.code /\ resolved.blocked = s.blocked
      /\ resolved.items = s.items /\ resolved.changes = s.changes
      /\ resolved.propagation = s.propagation
  BY DecisionResolved DEF Decision
<1>2. ResolvePromotion(s, c, first) = IF first = Null THEN Schedule(x) ELSE x
  BY DEF ResolvePromotion
<1> HIDE DEF resolved
<1>3. WellFormed(x)
  BY <1>1, PromoteChangeWellFormed
<1>4. /\ WellFormed(r) /\ r.stage = stage /\ r.status = "RUNNING"
      /\ r.items = s.items /\ r.code = s.code /\ r.blocked = s.blocked
      /\ r.changes = s.changes /\ r.propagation = s.propagation
      /\ r.decisions = resolved.decisions
  <2>1. stage \in Stage /\ "RUNNING" \in Status
    BY DEF Stage, AgentStages, TaskStages, Status
  <2> HIDE DEF stage
  <2>2. WellFormed(r)
    BY <1>1, <2>1, ReleasedWellFormed DEF WellFormed
  <2>3. WellFormed(resolved)
    BY <1>1
  <2>4. /\ r.stage = stage /\ r.status = "RUNNING"
        /\ r.items = resolved.items /\ r.code = resolved.code
        /\ r.blocked = resolved.blocked /\ r.changes = resolved.changes
        /\ r.propagation = resolved.propagation
        /\ r.decisions = resolved.decisions
    BY <2>3 DEF Released, WellFormed, WorkflowRecord
  <2> HIDE DEF r
  <2> QED BY <1>1, <2>2, <2>4
<1>5. x = [r EXCEPT !.task = first, !.change = Null,
                    !.changes[c].status = "PROMOTED",
                    !.propagation[c].status = "PROMOTED"]
  BY DEF PromoteChange
<1> HIDE DEF r, x, stage
<1>6. /\ x.stage = stage /\ x.status = "RUNNING" /\ x.task = first
      /\ x.items = s.items /\ x.code = s.code /\ x.blocked = s.blocked
      /\ x.changes = [s.changes EXCEPT ![c].status = "PROMOTED"]
      /\ x.propagation = [s.propagation EXCEPT ![c].status = "PROMOTED"]
      /\ x.decisions = resolved.decisions /\ x.change = Null
  BY <1>4, <1>5 DEF WellFormed, WorkflowRecord
<1>7. /\ first = Null => x.stage = "READY"
      /\ first # Null => x.stage = "TASK_PATCH"
  BY <1>6 DEF stage
<1>8. first = Null => Handed(x)
  BY <1>3, <1>6, <1>7 DEF Handed
<1>9. Promoted(s, c, first, x)
  BY <1>1, <1>3, <1>6, <1>7, <1>8 DEF Promoted
<1> QED BY <1>2, <1>9

-----------------------------------------------------------------------------
(* What the transition table makes of a record *)

\* The table leaves the work and what is known of questions and changes alone.
SameWork(s, r) ==
  /\ r.items = s.items /\ r.decisions = s.decisions
  /\ r.changes = s.changes /\ r.propagation = s.propagation
  /\ r.change = s.change

\* Only schedule and the load of the record stop with these.
ElsewhereStops == {"DEPENDENCY_BLOCKED", "WORKFLOW_DIGEST_CHANGED"}

\* It stops, goes to the next stage of a task, waits at a gate, or, of its
\* own accord only in an autonomous workflow, comes to the end.
StopsAt(s, r) ==
  /\ r.stage = "HARD_STOP" /\ r.status = "HARD_STOPPED" /\ r.task = s.task
  /\ r.blocked = s.stage /\ r.code \notin ElsewhereStops
GoesOn(s, r) ==
  /\ s.stage \in AgentStages
  /\ r.stage \in TaskStages \cup {"PLAN_REVISION_REVIEW"}
  /\ r.status = s.status /\ r.blocked = s.blocked /\ r.code = s.code
  /\ Mode = "gated" => r.task = s.task
WaitsAt(s, r) ==
  /\ s.stage \in AgentStages /\ r.stage \in HumanGates
  /\ r.stage = "HUMAN_FINAL_ACCEPTANCE" => s.stage = "FINAL_VERIFICATION"
  /\ r.stage = "HUMAN_GROUP_APPROVAL" => s.stage = "TASK_INDEPENDENT_REVIEW"
  /\ r.status = "WAITING_HUMAN" /\ r.task = s.task
  /\ r.blocked = s.blocked /\ r.code = s.code
ComesToEnd(s, r) ==
  /\ Mode = "autonomous" /\ s.stage \in AgentStages
  /\ \/ /\ r.stage = "FINAL_VERIFICATION" /\ r.status = s.status
        /\ s.stage = "TASK_INDEPENDENT_REVIEW"
     \/ /\ r.stage = "COMPLETED" /\ r.status = "COMPLETED"
        /\ s.stage = "FINAL_VERIFICATION"
  /\ r.task = s.task /\ r.blocked = s.blocked /\ r.code = s.code

Moved(s, r) ==
  /\ SameWork(s, r)
  /\ StopsAt(s, r) \/ GoesOn(s, r) \/ WaitsAt(s, r) \/ ComesToEnd(s, r)

LEMMA MoveToFields ==
  ASSUME NEW s, WellFormed(s), NEW stage
  PROVE  LET r == MoveTo(s, stage) IN
         /\ SameWork(s, r) /\ r.stage = stage /\ r.status = s.status
         /\ r.task = s.task /\ r.blocked = s.blocked /\ r.code = s.code
BY DEF MoveTo, SameWork, WellFormed, WorkflowRecord

LEMMA WaitAtGateFields ==
  ASSUME NEW s, WellFormed(s), NEW gate
  PROVE  LET r == WaitAtGate(s, gate) IN
         /\ SameWork(s, r) /\ r.stage = gate /\ r.status = "WAITING_HUMAN"
         /\ r.task = s.task /\ r.blocked = s.blocked /\ r.code = s.code
BY DEF WaitAtGate, MoveTo, SameWork, WellFormed, WorkflowRecord

LEMMA EnterHardStopMoves ==
  ASSUME NEW s, WellFormed(s), NEW code, code \notin ElsewhereStops
  PROVE  Moved(s, EnterHardStop(s, code))
<1> DEFINE r == EnterHardStop(s, code)
<1>1. /\ SameWork(s, r) /\ r.stage = "HARD_STOP" /\ r.status = "HARD_STOPPED"
      /\ r.task = s.task /\ r.blocked = s.stage /\ r.code = code
  BY DEF EnterHardStop, SameWork, WellFormed, WorkflowRecord
<1> HIDE DEF r
<1>2. Moved(s, r)
  BY <1>1 DEF Moved, StopsAt
<1> QED BY <1>2 DEF r

LEMMA AfterReviewMoves ==
  ASSUME NEW s, WellFormed(s), NEW verdict, s.stage = "TASK_INDEPENDENT_REVIEW"
  PROVE  Moved(s, AfterReview(s, verdict))
<1>1. s.stage \in AgentStages
  BY DEF AgentStages, TaskStages
<1>2. \A stage \in TaskStages : Moved(s, MoveTo(s, stage))
  <2> SUFFICES ASSUME NEW stage \in TaskStages
               PROVE  Moved(s, MoveTo(s, stage))
    OBVIOUS
  <2> DEFINE r == MoveTo(s, stage)
  <2>1. /\ SameWork(s, r) /\ r.stage = stage /\ r.status = s.status
        /\ r.task = s.task /\ r.blocked = s.blocked /\ r.code = s.code
    BY MoveToFields
  <2> HIDE DEF r
  <2>2. Moved(s, r)
    BY <1>1, <2>1 DEF Moved, GoesOn
  <2> QED BY <2>2 DEF r
<1>3. Moved(s, AfterReviewApproved(s))
  <2>1. CASE Mode = "gated"
    <3> DEFINE r == WaitAtGate(s, "HUMAN_GROUP_APPROVAL")
    <3>1. /\ SameWork(s, r) /\ r.stage = "HUMAN_GROUP_APPROVAL"
          /\ r.status = "WAITING_HUMAN" /\ r.task = s.task
          /\ r.blocked = s.blocked /\ r.code = s.code
      BY WaitAtGateFields
    <3>2. AfterReviewApproved(s) = r
      BY <2>1 DEF AfterReviewApproved
    <3> HIDE DEF r
    <3> QED BY <1>1, <3>1, <3>2 DEF Moved, WaitsAt, HumanGates
  <2>2. CASE Mode # "gated" /\ NextTask(s.task) = Null
    <3> DEFINE r == MoveTo(s, "FINAL_VERIFICATION")
    <3>1. /\ SameWork(s, r) /\ r.stage = "FINAL_VERIFICATION"
          /\ r.status = s.status /\ r.task = s.task
          /\ r.blocked = s.blocked /\ r.code = s.code
      BY MoveToFields
    <3>2. AfterReviewApproved(s) = r
      BY <2>2 DEF AfterReviewApproved
    <3> HIDE DEF r
    <3> QED
      BY <1>1, <2>2, <3>1, <3>2, PolicyAssumption DEF Moved, ComesToEnd
  <2>3. CASE Mode # "gated" /\ NextTask(s.task) # Null
    <3> DEFINE m == MoveTo(s, "TASK_EXECUTION")
               r == [m EXCEPT !.task = NextTask(s.task)]
    <3>1. WellFormed(m)
      BY MoveToWellFormed DEF Stage, AgentStages, TaskStages
    <3>2. /\ SameWork(s, m) /\ m.stage = "TASK_EXECUTION"
          /\ m.status = s.status /\ m.blocked = s.blocked /\ m.code = s.code
      BY MoveToFields
    <3>3. AfterReviewApproved(s) = r
      BY <2>3 DEF AfterReviewApproved
    <3> HIDE DEF m
    <3>4. /\ SameWork(m, r) /\ r.stage = m.stage /\ r.status = m.status
          /\ r.blocked = m.blocked /\ r.code = m.code
      BY <3>1 DEF SameWork, WellFormed, WorkflowRecord
    <3> HIDE DEF r
    <3> QED
      BY <1>1, <2>3, <3>2, <3>3, <3>4
      DEF Moved, GoesOn, SameWork, TaskStages
  <2> QED BY <2>1, <2>2, <2>3
<1>4. /\ Moved(s, EnterHardStop(s, "AUTO_PATCH_DISABLED"))
      /\ Moved(s, EnterHardStop(s, "PLAN_DEFECT_RESOLUTION_DISABLED"))
      /\ Moved(s, EnterHardStop(s, "UNSUPPORTED_VERDICT"))
  BY EnterHardStopMoves DEF ElsewhereStops
<1>5. Moved(s, MoveTo(s, "TASK_PATCH"))
      /\ Moved(s, MoveTo(s, "PLAN_DEFECT_RESOLUTION"))
  BY <1>2 DEF TaskStages
<1> QED BY <1>3, <1>4, <1>5 DEF AfterReview

LEMMA AfterPlanReviewMoves ==
  ASSUME NEW s, WellFormed(s), NEW verdict, s.stage = "PLAN_REVISION_REVIEW"
  PROVE  Moved(s, AfterPlanReview(s, verdict))
<1>1. s.stage \in AgentStages
  BY DEF AgentStages, PropagationStages
<1>2. Moved(s, MoveTo(s, "PLAN_DEFECT_RESOLUTION"))
  <2> DEFINE r == MoveTo(s, "PLAN_DEFECT_RESOLUTION")
  <2>1. /\ SameWork(s, r) /\ r.stage = "PLAN_DEFECT_RESOLUTION"
        /\ r.status = s.status /\ r.task = s.task
        /\ r.blocked = s.blocked /\ r.code = s.code
    BY MoveToFields
  <2> HIDE DEF r
  <2>2. Moved(s, r)
    BY <1>1, <2>1 DEF Moved, GoesOn, TaskStages
  <2> QED BY <2>2 DEF r
<1>3. Moved(s, WaitAtGate(s, "HUMAN_PLAN_FREEZE"))
  <2> DEFINE r == WaitAtGate(s, "HUMAN_PLAN_FREEZE")
  <2>1. /\ SameWork(s, r) /\ r.stage = "HUMAN_PLAN_FREEZE"
        /\ r.status = "WAITING_HUMAN" /\ r.task = s.task
        /\ r.blocked = s.blocked /\ r.code = s.code
    BY WaitAtGateFields
  <2> HIDE DEF r
  <2>2. Moved(s, r)
    BY <1>1, <2>1 DEF Moved, WaitsAt, HumanGates
  <2> QED BY <2>2 DEF r
<1>4. /\ Moved(s, EnterHardStop(s, "PLAN_REVIEW_PATCH_DISABLED"))
      /\ Moved(s, EnterHardStop(s, "UNSUPPORTED_VERDICT"))
  BY EnterHardStopMoves DEF ElsewhereStops
<1> QED BY <1>2, <1>3, <1>4 DEF AfterPlanReview

LEMMA AfterFinalMoves ==
  ASSUME NEW s, WellFormed(s), NEW verdict, s.stage = "FINAL_VERIFICATION"
  PROVE  Moved(s, AfterFinal(s, verdict))
<1>1. s.stage \in AgentStages
  BY DEF AgentStages
<1>2. Moved(s, WaitAtGate(s, "HUMAN_FINAL_ACCEPTANCE"))
  <2> DEFINE r == WaitAtGate(s, "HUMAN_FINAL_ACCEPTANCE")
  <2>1. /\ SameWork(s, r) /\ r.stage = "HUMAN_FINAL_ACCEPTANCE"
        /\ r.status = "WAITING_HUMAN" /\ r.task = s.task
        /\ r.blocked = s.blocked /\ r.code = s.code
    BY WaitAtGateFields
  <2> HIDE DEF r
  <2>2. Moved(s, r)
    BY <1>1, <2>1 DEF Moved, WaitsAt, HumanGates
  <2> QED BY <2>2 DEF r
<1>3. ASSUME Mode = "autonomous"
      PROVE  Moved(s, [MoveTo(s, "COMPLETED") EXCEPT !.status = "COMPLETED"])
  <2> DEFINE m == MoveTo(s, "COMPLETED")
             r == [m EXCEPT !.status = "COMPLETED"]
  <2>1. WellFormed(m)
    BY MoveToWellFormed DEF Stage
  <2>2. /\ SameWork(s, m) /\ m.stage = "COMPLETED" /\ m.task = s.task
        /\ m.blocked = s.blocked /\ m.code = s.code
    BY MoveToFields
  <2> HIDE DEF m
  <2>3. /\ SameWork(m, r) /\ r.stage = m.stage /\ r.status = "COMPLETED"
        /\ r.blocked = m.blocked /\ r.code = m.code /\ r.task = m.task
    BY <2>1 DEF SameWork, WellFormed, WorkflowRecord
  <2> HIDE DEF r
  <2>4. Moved(s, r)
    BY <1>1, <1>3, <2>2, <2>3 DEF Moved, ComesToEnd, SameWork
  <2> QED BY <2>4 DEF r, m
<1>4. Moved(s, EnterHardStop(s, "UNSUPPORTED_VERDICT"))
  BY EnterHardStopMoves DEF ElsewhereStops
<1> QED BY <1>2, <1>3, <1>4 DEF AfterFinal

LEMMA TransitionMoves ==
  ASSUME NEW s, WellFormed(s), NEW verdict
  PROVE  Moved(s, TransitionAfterOutcome(s, verdict))
<1>1. /\ Moved(s, EnterHardStop(s, "BLOCKING_VERDICT"))
      /\ Moved(s, EnterHardStop(s, "UNSUPPORTED_VERDICT"))
  BY EnterHardStopMoves DEF ElsewhereStops
<1>2. ASSUME s.stage \in ProjectMutatingStages \cup {"PLAN_DEFECT_RESOLUTION"},
             NEW stage \in {"TASK_INDEPENDENT_REVIEW", "PLAN_REVISION_REVIEW"}
      PROVE  Moved(s, MoveTo(s, stage))
  <2> DEFINE r == MoveTo(s, stage)
  <2>1. /\ SameWork(s, r) /\ r.stage = stage /\ r.status = s.status
        /\ r.task = s.task /\ r.blocked = s.blocked /\ r.code = s.code
    BY MoveToFields
  <2>2. s.stage \in AgentStages
    BY <1>2, Names
  <2> HIDE DEF r
  <2>3. Moved(s, r)
    BY <2>1, <2>2 DEF Moved, GoesOn, TaskStages
  <2> QED BY <2>3 DEF r
<1>3. s.stage \in ProjectMutatingStages =>
        Moved(s, MoveTo(s, "TASK_INDEPENDENT_REVIEW"))
  BY <1>2
<1>4. s.stage = "PLAN_DEFECT_RESOLUTION" =>
        Moved(s, MoveTo(s, "PLAN_REVISION_REVIEW"))
  BY <1>2
<1>5. /\ s.stage = "TASK_INDEPENDENT_REVIEW" => Moved(s, AfterReview(s, verdict))
      /\ s.stage = "PLAN_REVISION_REVIEW" => Moved(s, AfterPlanReview(s, verdict))
      /\ s.stage = "FINAL_VERIFICATION" => Moved(s, AfterFinal(s, verdict))
  BY AfterReviewMoves, AfterPlanReviewMoves, AfterFinalMoves
<1> QED BY <1>1, <1>3, <1>4, <1>5 DEF TransitionAfterOutcome

\* The task is recorded as completed and nothing else of the work changes.
Reviewed(s, r) ==
  /\ s.stage = "TASK_INDEPENDENT_REVIEW" /\ s.task # Null
  /\ r.items = [s.items EXCEPT ![s.task] = "COMPLETED"]
  /\ r.decisions = s.decisions /\ r.changes = s.changes
  /\ r.propagation = s.propagation /\ r.change = s.change
  /\ r.blocked = s.blocked /\ r.code = s.code

\* A verdict moves the work on; an approved review completes its task first,
\* and then waits for the group approval or hands over to the scheduler.
LEMMA VerdictOutcome ==
  ASSUME NEW s, WellFormed(s), NEW verdict
  PROVE  \/ \E r : /\ WellFormed(r) /\ Moved(s, r)
                   /\ r = TransitionAfterOutcome(s, verdict)
                   /\ ~(/\ s.stage = "TASK_INDEPENDENT_REVIEW"
                        /\ verdict = "APPROVED" /\ s.task # Null)
                   /\ ApplyVerdict(s, verdict) = Recompute(r)
         \/ \E r : /\ WellFormed(r) /\ Reviewed(s, r) /\ Mode = "gated"
                   /\ r.stage = "HUMAN_GROUP_APPROVAL" /\ r.task = s.task
                   /\ r.status = "WAITING_HUMAN"
                   /\ ApplyVerdict(s, verdict) = Recompute(r)
         \/ \E x : /\ Handed(x) /\ Reviewed(s, x) /\ Mode = "autonomous"
                   /\ ApplyVerdict(s, verdict) = Recompute(Schedule(x))
<1> DEFINE m == TransitionAfterOutcome(s, verdict)
           done == [m EXCEPT !.items[s.task] = "COMPLETED"]
           x == [done EXCEPT !.stage = "READY", !.task = Null,
                             !.gate = Null, !.status = "RUNNING"]
           reviewed == /\ s.stage = "TASK_INDEPENDENT_REVIEW"
                       /\ verdict = "APPROVED" /\ s.task # Null
<1>1. WellFormed(m) /\ Moved(s, m)
  BY TransitionWellFormed, TransitionMoves
<1>2. ASSUME ~reviewed PROVE ApplyVerdict(s, verdict) = Recompute(m)
  BY <1>2 DEF ApplyVerdict
<1>3. ASSUME reviewed
      PROVE  /\ m = AfterReviewApproved(s) /\ m.stage # "HARD_STOP"
             /\ m.blocked = s.blocked /\ m.code = s.code
  <2>1. m = AfterReviewApproved(s)
    BY <1>3 DEF TransitionAfterOutcome, AfterReview, ProjectMutatingStages
  <2>2. m.stage # "HARD_STOP"
    BY <2>1 DEF AfterReviewApproved, MoveTo, WaitAtGate, WellFormed,
                WorkflowRecord
  <2> HIDE DEF m
  <2> QED
    BY <1>1, <2>1, <2>2 DEF Moved, StopsAt, GoesOn, WaitsAt, ComesToEnd
<1>4. ASSUME reviewed
      PROVE  ApplyVerdict(s, verdict)
               = IF Mode = "gated" THEN Recompute(done)
                                   ELSE Recompute(Schedule(x))
  BY <1>4 DEF ApplyVerdict, CompleteReviewed
<1>5. ASSUME reviewed, Mode = "gated"
      PROVE  m.stage = "HUMAN_GROUP_APPROVAL" /\ m.status = "WAITING_HUMAN"
             /\ m.task = s.task
  <2>1. m = WaitAtGate(s, "HUMAN_GROUP_APPROVAL")
    BY <1>3, <1>5 DEF AfterReviewApproved
  <2> HIDE DEF m
  <2> QED BY <2>1, WaitAtGateFields
<1> HIDE DEF m
<1>6. ASSUME reviewed
      PROVE  /\ WellFormed(done) /\ Reviewed(s, done)
             /\ done.stage = m.stage /\ done.status = m.status
             /\ done.task = m.task
  <2>1. s.task \in Task
    BY <1>6 DEF WellFormed, WorkflowRecord
  <2>2. WellFormed(done)
    BY <1>1, <2>1
    DEF WellFormed, WorkflowRecord, AttemptsLeft, StopNamesStage, ItemStatus
  <2>3. /\ done.items = [m.items EXCEPT ![s.task] = "COMPLETED"]
        /\ done.decisions = m.decisions /\ done.changes = m.changes
        /\ done.propagation = m.propagation /\ done.change = m.change
        /\ done.blocked = m.blocked /\ done.code = m.code
        /\ done.stage = m.stage /\ done.status = m.status
        /\ done.task = m.task
    BY <1>1 DEF WellFormed, WorkflowRecord
  <2> HIDE DEF done
  <2>4. Reviewed(s, done)
    BY <1>1, <1>3, <1>6, <2>3 DEF Reviewed, Moved, SameWork
  <2> QED BY <2>2, <2>3, <2>4
<1> HIDE DEF done
<1>7. ASSUME reviewed PROVE Handed(x) /\ Reviewed(s, x)
  <2>1. WellFormed(done) /\ WellFormed(x)
    BY <1>6, <1>7, ToScheduleWellFormed
  <2>2. /\ x.stage = "READY" /\ x.status = "RUNNING" /\ x.task = Null
        /\ x.items = done.items /\ x.decisions = done.decisions
        /\ x.changes = done.changes /\ x.propagation = done.propagation
        /\ x.change = done.change /\ x.blocked = done.blocked
        /\ x.code = done.code
    BY <2>1 DEF WellFormed, WorkflowRecord
  <2> HIDE DEF x
  <2> QED BY <1>6, <1>7, <2>1, <2>2 DEF Handed, Reviewed
<1> HIDE DEF x
<1>8. CASE ~reviewed
  BY <1>1, <1>2, <1>8 DEF m
<1>9. CASE reviewed /\ Mode = "gated"
  BY <1>4, <1>5, <1>6, <1>9
<1>10. CASE reviewed /\ Mode # "gated"
  BY <1>4, <1>7, <1>10, PolicyAssumption
<1> QED BY <1>8, <1>9, <1>10

\* A question left open parks the work; one already answered lets it go on.
LEMMA ScopedOutcome ==
  ASSUME NEW s, WellFormed(s), NEW Q, NEW direct \in SUBSET Task
  PROVE  \/ \E x : /\ Handed(x) /\ ApplyScoped(s, Q, direct) = Schedule(x)
                   /\ x.items = s.items /\ x.code = s.code
                   /\ x.blocked = s.blocked /\ x.changes = s.changes
                   /\ x.propagation = s.propagation /\ x.change = s.change
                   /\ Asks(s, x, Q, s.stage, Null)
         \/ \E r : /\ WellFormed(r) /\ Moved(s, r)
                   /\ ApplyScoped(s, Q, direct) = Recompute(r)
<1> DEFINE request == Request(s, direct, s.stage, Null)
           recorded == RecordDecisions(s, Q, request)
           x == Reset(recorded)
           m == TransitionAfterOutcome(s, "APPROVED")
<1>1. WellFormed(recorded)
  <2>1. s.stage \in Stage
    BY DEF WellFormed, WorkflowRecord
  <2> QED BY <2>1, RequestIsDecision, RecordDecisionsWellFormed
<1>2. /\ Asks(s, recorded, Q, s.stage, Null)
      /\ recorded.items = s.items /\ recorded.code = s.code
      /\ recorded.blocked = s.blocked /\ recorded.changes = s.changes
      /\ recorded.propagation = s.propagation /\ recorded.change = s.change
  BY RecordDecisionsAsks
<1>3. ApplyScoped(s, Q, direct) \in {Schedule(x), Recompute(m)}
  BY DEF ApplyScoped
<1> HIDE DEF recorded
<1>4. /\ Handed(x) /\ x.code = recorded.code /\ x.blocked = recorded.blocked
      /\ x.items = recorded.items /\ x.decisions = recorded.decisions
      /\ x.changes = recorded.changes /\ x.change = recorded.change
      /\ x.propagation = recorded.propagation
  BY <1>1, ResetFields
<1>5. WellFormed(m) /\ Moved(s, m)
  BY TransitionWellFormed, TransitionMoves
<1> HIDE DEF x, m
<1>6. Asks(s, x, Q, s.stage, Null)
  BY <1>2, <1>4 DEF Asks
<1> QED BY <1>2, <1>3, <1>4, <1>5, <1>6

\* What an approved gate makes of a record.
PassedGate(s, r) ==
  /\ SameWork(s, r) /\ r.task = s.task
  /\ r.blocked = s.blocked /\ r.code = s.code
  /\ \/ /\ s.stage = "HUMAN_PLAN_FREEZE" /\ r.stage = "TASK_EXECUTION"
        /\ r.status = "RUNNING"
     \/ /\ s.stage = "HUMAN_FINAL_ACCEPTANCE" /\ r.stage = "COMPLETED"
        /\ r.status = "COMPLETED"

\* The approval of a group hands over to the scheduler; the other two gates
\* open onto their stage.
LEMMA ApprovalOutcome ==
  ASSUME NEW s, WellFormed(s), s.stage \in HumanGates
  PROVE  \/ \E x : /\ Handed(x) /\ Approved(s) = Schedule(x)
                   /\ s.stage = "HUMAN_GROUP_APPROVAL"
                   /\ SameWork(s, x) /\ x.blocked = s.blocked
                   /\ x.code = s.code
         \/ \E r : /\ WellFormed(r) /\ PassedGate(s, r)
                   /\ Approved(s) = Recompute(r)
<1> DEFINE a == ApproveGate(s)
           x == [a EXCEPT !.stage = "READY", !.task = Null, !.gate = Null,
                          !.status = "RUNNING"]
<1>1. WellFormed(a)
  BY ApproveGateWellFormed
<1>2. ASSUME NEW stage
      PROVE  LET p == PassGate(s, stage) IN
             /\ SameWork(s, p) /\ p.stage = stage /\ p.task = s.task
             /\ p.blocked = s.blocked /\ p.code = s.code
             /\ p.status = IF stage = "COMPLETED" THEN "COMPLETED" ELSE "RUNNING"
  BY DEF PassGate, SameWork, WellFormed, WorkflowRecord
<1>3. CASE s.stage = "HUMAN_GROUP_APPROVAL"
  <2>1. SameWork(s, a) /\ a.blocked = s.blocked /\ a.code = s.code
    <3>1. CASE NextTask(s.task) = Null
      <4>1. a = PassGate(s, "FINAL_VERIFICATION")
        BY <1>3, <3>1 DEF ApproveGate
      <4> QED BY <1>2, <4>1
    <3>2. CASE NextTask(s.task) # Null
      <4> DEFINE p == PassGate(s, "TASK_EXECUTION")
                 q == [p EXCEPT !.task = NextTask(s.task)]
      <4>1. a = q
        BY <1>3, <3>2 DEF ApproveGate
      <4>2. SameWork(s, p) /\ p.blocked = s.blocked /\ p.code = s.code
        BY <1>2
      <4>3. WellFormed(p)
        BY PassGateWellFormed DEF Stage, AgentStages, TaskStages
      <4> HIDE DEF p
      <4>4. SameWork(p, q) /\ q.blocked = p.blocked /\ q.code = p.code
        BY <4>3 DEF SameWork, WellFormed, WorkflowRecord
      <4> HIDE DEF q
      <4> QED BY <4>1, <4>2, <4>4 DEF SameWork
    <3> QED BY <3>1, <3>2
  <2>2. Approved(s) = Schedule(x)
    BY <1>3 DEF Approved
  <2> HIDE DEF a
  <2>3. WellFormed(x)
    BY <1>1, ToScheduleWellFormed
  <2>4. /\ x.stage = "READY" /\ x.status = "RUNNING" /\ x.task = Null
        /\ SameWork(a, x) /\ x.blocked = a.blocked /\ x.code = a.code
    BY <1>1 DEF SameWork, WellFormed, WorkflowRecord
  <2> HIDE DEF x
  <2> QED BY <1>3, <2>1, <2>2, <2>3, <2>4 DEF SameWork, Handed
<1>4. CASE s.stage = "HUMAN_PLAN_FREEZE"
  <2>1. a = PassGate(s, "TASK_EXECUTION") /\ Approved(s) = Recompute(a)
    BY <1>4 DEF ApproveGate, Approved
  <2>2. PassedGate(s, a)
    BY <1>2, <1>4, <2>1 DEF PassedGate
  <2> HIDE DEF a
  <2> QED BY <1>1, <2>1, <2>2
<1>5. CASE s.stage = "HUMAN_FINAL_ACCEPTANCE"
  <2>1. a = PassGate(s, "COMPLETED") /\ Approved(s) = Recompute(a)
    BY <1>5 DEF ApproveGate, Approved
  <2>2. PassedGate(s, a)
    BY <1>2, <1>5, <2>1 DEF PassedGate
  <2> HIDE DEF a
  <2> QED BY <1>1, <2>1, <2>2
<1> QED BY <1>3, <1>4, <1>5 DEF HumanGates

-----------------------------------------------------------------------------
(* What a step makes of the record *)

\* A stop keeps the work and names the stage it was at.
Stopped(s, r) == WellFormed(r) /\ SameWork(s, r) /\ StopsAt(s, r)

\* The record as it was, with the invocation and its budget updated.
SamePlace(s, r) ==
  /\ WellFormed(r) /\ SameWork(s, r)
  /\ r.task = s.task /\ r.blocked = s.blocked /\ r.code = s.code

\* A stopped stage is opened again.
Reopened(s, r) ==
  /\ WellFormed(r) /\ SameWork(s, r) /\ r.task = s.task
  /\ s.stage = "HARD_STOP" /\ r.stage = s.blocked
  /\ r.blocked = Null /\ r.code = Null /\ r.status = "RUNNING"

LEMMA StoppedIs ==
  ASSUME NEW s, WellFormed(s), NEW code \in StopCode \ ElsewhereStops
  PROVE  /\ Stopped(s, AuditStop(s))
         /\ Stopped(s, InvocationStop(s, code))
         /\ Stopped(s, [InvocationStop(s, code) EXCEPT !.recoverable = TRUE])
         /\ Stopped(s, [s EXCEPT !.stage = "HARD_STOP",
                                 !.status = "HARD_STOPPED", !.code = code,
                                 !.blocked = s.stage, !.recoverable = TRUE])
         /\ OrphanStop(s) = s \/ /\ s.stage \in AgentStages
                                 /\ Stopped(s, OrphanStop(s))
<1> DEFINE stop(g, k, rec) ==
             [s EXCEPT !.stage = "HARD_STOP", !.status = "HARD_STOPPED",
                       !.gate = g, !.blocked = s.stage,
                       !.code = k, !.recoverable = rec]
<1>1. ASSUME NEW g \in {s.gate, Null}, NEW k \in StopCode,
             k \notin ElsewhereStops, NEW rec \in BOOLEAN
      PROVE  Stopped(s, stop(g, k, rec))
  <2> DEFINE r == stop(g, k, rec)
  <2>1. WellFormed(r)
    BY StoppedWellFormed
  <2>2. /\ SameWork(s, r) /\ r.stage = "HARD_STOP"
        /\ r.status = "HARD_STOPPED" /\ r.task = s.task
        /\ r.blocked = s.stage /\ r.code = k
    BY DEF SameWork, WellFormed, WorkflowRecord
  <2> HIDE DEF r
  <2>3. Stopped(s, r)
    BY <1>1, <2>1, <2>2 DEF Stopped, StopsAt
  <2> QED BY <2>3 DEF r
<1>2. /\ InvocationStop(s, code) = stop(Null, code, FALSE)
      /\ [InvocationStop(s, code) EXCEPT !.recoverable = TRUE]
           = stop(Null, code, TRUE)
      /\ AuditStop(s) \in {stop(Null, "UNEXPECTED_UNRELATED_CHANGE", TRUE),
                           stop(Null, "AUDIT_BLOCKED", FALSE)}
      /\ [s EXCEPT !.stage = "HARD_STOP", !.status = "HARD_STOPPED",
                   !.code = code, !.blocked = s.stage, !.recoverable = TRUE]
           = stop(s.gate, code, TRUE)
      /\ Orphaned(s) => OrphanStop(s) = stop(s.gate, "RECOVERY_UNCERTAIN", TRUE)
      /\ ~Orphaned(s) => OrphanStop(s) = s
      /\ Orphaned(s) => s.stage \in AgentStages
  BY DEF InvocationStop, AuditStop, OrphanStop, Orphaned, WellFormed,
         WorkflowRecord
<1>3. {"UNEXPECTED_UNRELATED_CHANGE", "AUDIT_BLOCKED", "RECOVERY_UNCERTAIN"}
        \subseteq StopCode \ ElsewhereStops
  BY DEF StopCode, ElsewhereStops
<1> HIDE DEF stop
<1> QED BY <1>1, <1>2, <1>3

\* A failed or refused invocation stops the stage or leaves it to be retried.
LEMMA InvalidOrFailedIs ==
  ASSUME NEW s, WellFormed(s), NEW runnerFailed \in BOOLEAN
  PROVE  LET r == InvalidOrFailed(s, runnerFailed) IN
         \/ Stopped(s, r)
         \/ SamePlace(s, r) /\ r.stage = s.stage /\ r.status = "RUNNING"
<1> DEFINE r == InvalidOrFailed(s, runnerFailed)
           stop == InvocationStop(s, "RETRY_EXHAUSTED")
           again == [s EXCEPT !.run = FALSE, !.status = "RUNNING",
                              !.runnerFailure = runnerFailed]
<1>1. WellFormed(r)
  BY InvalidOrFailedWellFormed
<1>2. CASE s.attempt >= MaxAttempts
  <2>1. r = [stop EXCEPT !.recoverable = runnerFailed]
    BY <1>2 DEF InvalidOrFailed
  <2>2. Stopped(s, stop)
    BY StoppedIs DEF StopCode, ElsewhereStops
  <2> HIDE DEF stop, r
  <2>3. /\ SameWork(stop, r) /\ r.stage = stop.stage
        /\ r.status = stop.status /\ r.task = stop.task
        /\ r.blocked = stop.blocked /\ r.code = stop.code
    BY <2>1, <2>2 DEF Stopped, SameWork, WellFormed, WorkflowRecord
  <2>4. Stopped(s, r)
    BY <1>1, <2>2, <2>3 DEF Stopped, StopsAt, SameWork, r
  <2> QED BY <2>4 DEF r
<1>3. CASE ~(s.attempt >= MaxAttempts)
  <2>1. r = again
    BY <1>3 DEF InvalidOrFailed
  <2>2. /\ SameWork(s, again) /\ again.stage = s.stage
        /\ again.status = "RUNNING" /\ again.task = s.task
        /\ again.blocked = s.blocked /\ again.code = s.code
    BY DEF SameWork, WellFormed, WorkflowRecord
  <2> HIDE DEF again, r
  <2>3. SamePlace(s, r) /\ r.stage = s.stage /\ r.status = "RUNNING"
    BY <1>1, <2>1, <2>2 DEF SamePlace, r
  <2> QED BY <2>3 DEF r
<1> QED BY <1>2, <1>3

\* A step of a run keeps the record it loads, stops, leaves a malformed outcome
\* to be retried, hands over to the scheduler, starts an Agent or detects a
\* change.
LEMMA StepIs ==
  ASSUME Inductive, Step
  PROVE  LET s == Load(state) IN
         \/ state' = s
         \/ Stopped(s, state') /\ s.stage \notin HumanGates
         \/ Stopped(s, state') /\ s.status = "RUNNING"
         \/ /\ SamePlace(s, state') /\ state'.stage = s.stage
            /\ state'.status = "RUNNING"
         \/ /\ state' = Schedule(s)
            /\ s.stage \in {"WAITING_FOR_HUMAN", "INITIALIZING", "READY",
                            "WAITING_FOR_AUTHORITY_CHANGE"}
         \/ /\ state' = Invoke(s) /\ s.stage \in AgentStages /\ ~s.run
            /\ Proceeds(s)
         \/ \E c \in Unanalyzed(s) :
              state' = DetectChange(s, c) /\ Detects(s)
<1> DEFINE s == Load(state)
<1>1. WellFormed(s)
  BY InductiveParts, LoadedRecord
<1> HIDE DEF s
<1>2. \A code \in StopCode \ ElsewhereStops :
        /\ Stopped(s, AuditStop(s))
        /\ Stopped(s, InvocationStop(s, code))
        /\ Stopped(s, [s EXCEPT !.stage = "HARD_STOP",
                                !.status = "HARD_STOPPED", !.code = code,
                                !.blocked = s.stage, !.recoverable = TRUE])
  BY <1>1, StoppedIs
<1>3. {"MAX_TOTAL_STEPS", "RECOVERY_UNCERTAIN"}
        \subseteq StopCode \ ElsewhereStops
  BY DEF StopCode, ElsewhereStops
<1>4. CASE StepDetectsChange
  BY <1>4 DEF StepDetectsChange, Return, s
<1>5. CASE StepWaits
  BY <1>5 DEF StepWaits, Return, s
<1>6. CASE StepAuditStops
  BY <1>2, <1>3, <1>6 DEF StepAuditStops, Return, Proceeds, s
<1>7. CASE StepSchedules
  BY <1>7 DEF StepSchedules, Return, s
<1>8. CASE StepInvokesAgent
  BY <1>8 DEF StepInvokesAgent, s
<1>9. CASE StepFindsDeadInvocation
  <2>1. /\ \/ state' = InvocationStop(s, "RECOVERY_UNCERTAIN")
           \/ state' = InvalidOrFailed(s, FALSE)
        /\ s.stage \notin HumanGates
    BY <1>9 DEF StepFindsDeadInvocation, Return, Proceeds, s
  <2>2. Stopped(s, InvocationStop(s, "RECOVERY_UNCERTAIN"))
    BY <1>2, <1>3
  <2> QED BY <1>1, <2>1, <2>2, InvalidOrFailedIs DEF s
<1>10. CASE BudgetStop
  BY <1>2, <1>3, <1>10 DEF BudgetStop, s
<1> QED
  BY <1>4, <1>5, <1>6, <1>7, <1>8, <1>9, <1>10 DEF Step, s

LEMMA InvokeFields ==
  ASSUME NEW s, WellFormed(s), s.stage \in AgentStages, ~s.run
  PROVE  LET r == Invoke(s) IN
         /\ WellFormed(r) /\ r.stage = s.stage /\ r.status = s.status
         /\ r.task = s.task /\ r.blocked = s.blocked /\ r.code = s.code
         /\ r.decisions = s.decisions /\ r.changes = s.changes
         /\ r.propagation = s.propagation /\ r.change = s.change
         /\ \A t \in Task :
              r.items[t] = IF t = s.task
                             THEN IF s.stage = "TASK_PATCH" THEN "REQUIRES_PATCH"
                                                            ELSE "RUNNING"
                             ELSE s.items[t]
<1> DEFINE r == Invoke(s)
<1>1. WellFormed(r)
  BY InvokeWellFormed
<1>2. /\ r.stage = s.stage /\ r.status = s.status
      /\ r.task = s.task /\ r.blocked = s.blocked /\ r.code = s.code
      /\ r.decisions = s.decisions /\ r.changes = s.changes
      /\ r.propagation = s.propagation /\ r.change = s.change
  BY DEF Invoke, WellFormed, WorkflowRecord
<1>3. CASE s.task = Null
  <2>1. r.items = s.items
    BY <1>3 DEF Invoke, WellFormed, WorkflowRecord
  <2> QED BY <1>1, <1>2, <1>3, <2>1, TaskAssumption
<1>4. CASE s.task # Null
  <2>1. r.items = [s.items EXCEPT ![s.task] =
                     IF s.stage = "TASK_PATCH" THEN "REQUIRES_PATCH"
                                               ELSE "RUNNING"]
    BY <1>4 DEF Invoke, WellFormed, WorkflowRecord
  <2>2. s.items \in [Task -> ItemStatus]
    BY DEF WellFormed, WorkflowRecord
  <2> HIDE DEF r
  <2>3. \A t \in Task :
          r.items[t] = IF t = s.task
                         THEN IF s.stage = "TASK_PATCH" THEN "REQUIRES_PATCH"
                                                        ELSE "RUNNING"
                         ELSE s.items[t]
    BY <2>1, <2>2
  <2> QED BY <1>1, <1>2, <2>3 DEF r
<1> QED BY <1>3, <1>4

\* The end of an Agent applies its outcome, stops the stage or retries it.
LEMMA AgentEndIs ==
  ASSUME Inductive, AgentEnd
  PROVE  \/ OrdinaryStage(state)
              /\ \E verdict : state' = ApplyVerdict(state, verdict)
         \/ OrdinaryStage(state)
              /\ \E Q \in SUBSET Question, direct \in SUBSET Task :
                   state' = ApplyScoped(state, Q, direct)
         \/ state.stage = "AUTHORITY_CHANGE_ANALYSIS"
              /\ \E c \in Unanalyzed(state), a \in Analysis(Scopes, Question) :
                   AnalysisValid(a) /\ state' = ApplyAnalysis(state, c, a)
         \/ /\ OwnsStage(state) /\ PropagationActive(state)
            /\ \/ state' = AdvancePropagation(state)
               \/ /\ state.stage \in DOMAIN RevisionOf
                  /\ state' = ReviseAgain(state)
               \/ \E Q \in SUBSET Question, direct \in SUBSET Task :
                    state' = SuspendPropagation(state, Q, direct)
         \/ Stopped(state, state')
         \/ /\ SamePlace(state, state') /\ state'.stage = state.stage
            /\ state'.status = "RUNNING"
<1>1. WellFormed(state)
  BY InductiveParts DEF RecordOK
<1>2. Scopes \subseteq SUBSET Task
  BY OrchestratorAssumption
<1>3. CASE FinishWithVerdict
  BY <1>3 DEF FinishWithVerdict, Return
<1>4. CASE FinishWithQuestions
  BY <1>2, <1>4 DEF FinishWithQuestions, Return
<1>5. CASE FinishAnalysis
  BY <1>5 DEF FinishAnalysis, Return
<1>6. CASE FinishPropagation
  BY <1>2, <1>6 DEF FinishPropagation, Return
<1>7. CASE FinishRefused \/ FinishWithoutOutcome \/ RunnerFails
  <2>1. \/ state' = InvalidOrFailed(state, FALSE)
        \/ state' = InvalidOrFailed(state, TRUE)
    BY <1>7 DEF FinishRefused, FinishWithoutOutcome, RunnerFails, Return
  <2>2. \A b \in BOOLEAN :
          \/ Stopped(state, InvalidOrFailed(state, b))
          \/ /\ SamePlace(state, InvalidOrFailed(state, b))
             /\ InvalidOrFailed(state, b).stage = state.stage
             /\ InvalidOrFailed(state, b).status = "RUNNING"
    BY <1>1, InvalidOrFailedIs
  <2> QED BY <2>1, <2>2
<1>8. CASE FinishRejected
  <2>1. Stopped(state, InvocationStop(state, "WORKSPACE_REJECTED"))
    BY <1>1, StoppedIs DEF StopCode, ElsewhereStops
  <2> QED BY <1>8, <2>1 DEF FinishRejected, Return
<1> QED BY <1>3, <1>4, <1>5, <1>6, <1>7, <1>8 DEF AgentEnd

LEMMA RestoredReopens ==
  ASSUME NEW s, WellFormed(s), s.stage = "HARD_STOP", s.code # Null
  PROVE  /\ Reopened(s, Restored(s))
         /\ Reopened(s, [Restored(s) EXCEPT !.runnerFailure = FALSE])
         /\ Reopened(s, [Restored(s) EXCEPT !.run = TRUE,
                                            !.attempt = s.attempt])
<1> DEFINE r == Restored(s)
           p == [r EXCEPT !.runnerFailure = FALSE]
           q == [r EXCEPT !.run = TRUE, !.attempt = s.attempt]
<1>1. WellFormed(r)
  BY RestoredWellFormed DEF WellFormed, StopNamesStage
<1>2. /\ SameWork(s, r) /\ r.task = s.task /\ r.stage = s.blocked
      /\ r.blocked = Null /\ r.code = Null /\ r.status = "RUNNING"
  BY DEF Restored, SameWork, WellFormed, WorkflowRecord
<1> HIDE DEF r
<1>3. Reopened(s, r)
  BY <1>1, <1>2 DEF Reopened
<1>4. Reopened(s, p)
  <2>1. p \in WorkflowRecord
    BY <1>1 DEF WellFormed, WorkflowRecord
  <2>2. /\ SameWork(r, p) /\ p.task = r.task /\ p.stage = r.stage
        /\ p.blocked = r.blocked /\ p.code = r.code /\ p.status = r.status
        /\ p.attempt = r.attempt /\ p.run = r.run
    BY <1>1 DEF SameWork, WellFormed, WorkflowRecord
  <2> HIDE DEF p
  <2>3. WellFormed(p)
    BY <1>1, <2>1, <2>2 DEF WellFormed, AttemptsLeft, StopNamesStage
  <2> QED BY <1>2, <2>2, <2>3 DEF Reopened, SameWork
<1>5. Reopened(s, q)
  <2>1. s.attempt \in Nat /\ s.attempt <= MaxAttempts
    BY DEF WellFormed, WorkflowRecord, AttemptsLeft
  <2>2. /\ SameWork(r, q) /\ q.task = r.task /\ q.stage = r.stage
        /\ q.blocked = r.blocked /\ q.code = r.code /\ q.status = r.status
        /\ q.run /\ q.attempt = s.attempt
    BY <1>1 DEF SameWork, WellFormed, WorkflowRecord
  <2>3. q \in WorkflowRecord
    BY <1>1, <2>1 DEF WellFormed, WorkflowRecord
  <2> HIDE DEF q
  <2>4. WellFormed(q)
    BY <1>1, <1>2, <2>1, <2>2, <2>3 DEF WellFormed, AttemptsLeft, StopNamesStage
  <2> QED BY <1>2, <2>2, <2>4 DEF Reopened, SameWork
<1> QED BY <1>3, <1>4, <1>5 DEF r

\* recover opens the stopped stage again, or applies to it the outcome that
\* came late to a stage of review.
LEMMA RecoverIs ==
  ASSUME Inductive, Recover
  PROVE  LET s == OrphanStop(Load(state)) IN
         \/ state' = s
         \/ Reopened(s, state')
         \/ /\ s.blocked \in ReadOnlyRecoveryStages
            /\ \E q : /\ Reopened(s, q)
                      /\ \/ \E verdict :
                              state' = TransitionAfterOutcome(q, verdict)
                         \/ /\ OrdinaryStage(q)
                            /\ \E Q \in SUBSET Question,
                                  direct \in SUBSET Task :
                                 state' = ApplyScoped(q, Q, direct)
                         \/ \E Q \in SUBSET Question : \E x :
                              Suspended(q, Q, x) /\ state' = Schedule(x)
                         \/ \/ Stopped(q, state')
                            \/ SamePlace(q, state') /\ state'.stage = q.stage
                                 /\ state'.status = "RUNNING"
<1> DEFINE s == OrphanStop(Load(state))
           q == [Restored(s) EXCEPT !.run = TRUE, !.attempt = s.attempt]
<1>1. WellFormed(s)
  BY InductiveParts, LoadedRecord
<1> HIDE DEF s
<1>2. \A code \in StopCode : code # Null
  BY NullAssumption
<1>3. ASSUME s.stage = "HARD_STOP", s.code \in StopCode
      PROVE  /\ Reopened(s, Restored(s)) /\ Reopened(s, q)
             /\ Reopened(s, [Restored(s) EXCEPT !.runnerFailure = FALSE])
  BY <1>1, <1>2, <1>3, RestoredReopens
<1>4. {"WORKFLOW_DIGEST_CHANGED", "MAX_TOTAL_STEPS", "RETRY_EXHAUSTED",
       "RECOVERY_UNCERTAIN"} \subseteq StopCode
  BY DEF StopCode
<1>5. CASE RecoverDigest
  BY <1>3, <1>4, <1>5 DEF RecoverDigest, DigestRecoverable, s
<1>6. CASE RecoverStage
  BY <1>3, <1>4, <1>6
  DEF RecoverStage, BudgetRecoverable, RunnerRecoverable, RetryExhausted,
      Idle, s
<1>7. CASE RecoverInterrupted
  BY <1>3, <1>4, <1>7
  DEF RecoverInterrupted, InterruptedRecoverable, Idle, s
<1>8. CASE RecoverCanonicalFailure
  BY <1>3, <1>4, <1>8
  DEF RecoverCanonicalFailure, CanonicalRecoverable, ReadOnlyRecoverable,
      RetryExhausted, Idle, s
<1>9. CASE RecoverLateOutcome
  <2>1. /\ s.stage = "HARD_STOP" /\ s.code = "RETRY_EXHAUSTED"
        /\ s.blocked \in ReadOnlyRecoveryStages
    BY <1>9 DEF RecoverLateOutcome, LateRecoverable, ReadOnlyRecoverable,
                RetryExhausted, s
  <2>2. \/ \E verdict : state' = TransitionAfterOutcome(q, verdict)
        \/ \E Q \in SUBSET Question, direct \in SUBSET Task :
             state' = ApplyLateQuestions(q, Q, direct)
    BY <1>9, OrchestratorAssumption DEF RecoverLateOutcome, Idle, s
  <2>3. Reopened(s, q)
    BY <1>3, <1>4, <2>1
  <2> HIDE DEF q
  <2>4. ASSUME NEW Q \in SUBSET Question, NEW direct \in SUBSET Task,
               state' = ApplyLateQuestions(q, Q, direct)
        PROVE  \/ OrdinaryStage(q) /\ state' = ApplyScoped(q, Q, direct)
               \/ \E x : Suspended(q, Q, x) /\ state' = Schedule(x)
               \/ Stopped(q, state')
               \/ SamePlace(q, state') /\ state'.stage = q.stage
                    /\ state'.status = "RUNNING"
    <3>1. WellFormed(q) /\ q.stage # "AUTHORITY_CHANGE_ANALYSIS"
      BY <2>1, <2>3 DEF Reopened, ReadOnlyRecoveryStages
    <3>2. CASE ~OwnsStage(q)
      BY <2>4, <3>1, <3>2 DEF ApplyLateQuestions, OrdinaryStage
    <3>3. CASE OwnsStage(q) /\ PropagationActive(q)
      <4>1. q.change \in Change /\ q.stage \in PropagationStages
        BY <3>1, <3>3 DEF OwnsStage, PropagationActive, WellFormed, WorkflowRecord
      <4>2. state' = SuspendPropagation(q, Q, direct)
        BY <2>4, <3>3 DEF ApplyLateQuestions
      <4> QED BY <3>1, <4>1, <4>2, SuspensionHandsOver
    <3>4. CASE OwnsStage(q) /\ ~PropagationActive(q)
      <4>1. state' = InvalidOrFailed(q, FALSE)
        BY <2>4, <3>4 DEF ApplyLateQuestions
      <4> QED BY <3>1, <4>1, InvalidOrFailedIs
    <3> QED BY <3>2, <3>3, <3>4
  <2> QED BY <2>1, <2>2, <2>3, <2>4 DEF s
<1> QED BY <1>5, <1>6, <1>7, <1>8, <1>9 DEF Recover, s

\* The commands of the operator.
LEMMA OperatorIs ==
  ASSUME Inductive, Operator
  PROVE  LET s == Load(state) IN
         \/ state' \in {state, s, StopRecord(s)}
         \/ state' = Approved(s) /\ s.stage \in HumanGates
         \/ \E d \in PendingDecisions(s) : state' = ResolveDecision(s, d)
         \/ \E c \in PendingDecisions(s) \cap Change :
              /\ s.propagation[c].status = "WAITING_PROMOTION"
              /\ candidate = c /\ s.changes[c].status # "ACCEPTED"
              /\ \E first \in PromotedFirst(s, c) :
                   state' = ResolvePromotion(s, c, first)
         \/ Recover
<1>1. CASE StartRun \/ Inspect \/ Stop
  BY <1>1 DEF StartRun, Inspect, Stop, Idle
<1>2. CASE Approve
  BY <1>2 DEF Approve, Approvable, Idle
<1>3. CASE Decide
  BY <1>3 DEF Decide, Idle
<1>4. CASE Promote
  BY <1>4 DEF Promote, Idle
<1> QED BY <1>1, <1>2, <1>3, <1>4 DEF Operator

LEMMA StopRecordFields ==
  ASSUME NEW s, WellFormed(s)
  PROVE  LET r == StopRecord(s) IN
         SamePlace(s, r) /\ r.stage = s.stage /\ r.status = "STOPPED"
<1> DEFINE r == StopRecord(s)
<1>1. WellFormed(r)
  BY StopRecordWellFormed
<1>2. /\ SameWork(s, r) /\ r.task = s.task /\ r.blocked = s.blocked
      /\ r.code = s.code /\ r.stage = s.stage /\ r.status = "STOPPED"
  BY DEF StopRecord, SameWork, WellFormed, WorkflowRecord
<1> HIDE DEF r
<1> QED BY <1>1, <1>2 DEF SamePlace, r

\* The environment does not write the record.
LEMMA EnvironmentIs == Environment \/ UNCHANGED vars => state' = state
BY DEF Environment, Interrupt, LateOutcome, SubmitAuthority, EditTree,
       EditWorkflow, vars

-----------------------------------------------------------------------------
(* What schedule makes of a record *)

\* Scheduling answers no question and settles no change.
SameCauses(s, x) ==
  /\ x.decisions = s.decisions /\ x.changes = s.changes
  /\ x.propagation = s.propagation /\ x.change = s.change

\* The items are those of a recomputation, so that what is finished is what
\* was and is not taken back.
Recomputed(s, x) ==
  /\ \A t \in Task : x.items[t] = RecomputedStatus(s, t)
  /\ Done(x) = Kept(s)

\* schedule starts a task that passes the tests, or finds none and waits,
\* goes on with a propagation, finishes, or stops.
Starts(s, x) ==
  /\ x.task \in Task /\ MayStart(s, x.task)
  /\ x.stage = "TASK_EXECUTION" /\ x.status = "RUNNING"
  /\ x.blocked = s.blocked /\ x.code = s.code
  /\ Done(x) = Kept(s)
  /\ \A t \in Task \ {x.task} : x.items[t] = RecomputedStatus(s, t)
  /\ x.items[x.task] = "RUNNING"
Leaves(s, x) ==
  /\ Recomputed(s, x) /\ ReadyWork(x) = {}
  /\ x.task = Null /\ x.blocked = s.blocked /\ x.code = s.code
  /\ \/ /\ x.stage = "WAITING_FOR_HUMAN" /\ x.status = "WAITING_HUMAN"
        /\ PendingDecisions(s) # {}
     \/ /\ \E c \in RunnablePropagation(s) : x.stage = s.propagation[c].next
        /\ x.status = "RUNNING" /\ PendingDecisions(s) = {}
     \/ /\ x.stage = "WAITING_FOR_AUTHORITY_CHANGE"
        /\ x.status = "WAITING_AUTHORITY_CHANGE"
        /\ PendingDecisions(s) = {} /\ RunnablePropagation(s) = {}
        /\ OpenChanges(s) # {}
     \/ /\ x.stage = "FINAL_VERIFICATION" /\ x.status = "RUNNING"
        /\ PendingDecisions(s) = {} /\ OpenChanges(s) = {}
        /\ Task \subseteq Done(x)
Blocks(s, x) ==
  /\ Recomputed(s, x) /\ ReadyWork(Recompute(s)) = {}
  /\ x.task = s.task /\ x.stage = "HARD_STOP" /\ x.status = "HARD_STOPPED"
  /\ x.blocked = s.stage /\ x.code = "DEPENDENCY_BLOCKED"
  /\ PendingDecisions(s) = {} /\ OpenChanges(s) = {}
  /\ RunnablePropagation(s) = {} /\ ~(Task # {} /\ Task \subseteq Done(x))

\* Records with the recomputed items of s have no more work ready than it.
LEMMA NothingReadyLater ==
  ASSUME NEW s, WellFormed(s), ReadyWork(Recompute(s)) = {},
         NEW x, WellFormed(x), x.items = Recompute(s).items,
         x.decisions = s.decisions, x.changes = s.changes
  PROVE  ReadyWork(x) = {}
<1> DEFINE r == Recompute(s)
<1>1. /\ WellFormed(r) /\ r.decisions = s.decisions /\ r.changes = s.changes
      /\ r.task = s.task /\ r.stage = s.stage
  BY RecomputeWellFormed, RecomputeFields
<1>2. /\ HeldBack(r) = HeldBack(s) /\ HeldBack(x) = HeldBack(s)
      /\ AuthorityDirect(r) = AuthorityDirect(s)
      /\ AuthorityDirect(x) = AuthorityDirect(s)
  <2> HIDE DEF r
  <2> QED BY <1>1, SameBlockers
<1>3. Kept(x) = Kept(r)
  BY <1>2 DEF Kept, Done
<1>4. ASSUME NEW t \in Task, MayStart(x, t) PROVE FALSE
  <2>1. /\ t \notin HeldBack(s) /\ r.items[t] \in Resumable
        /\ Dependencies[t] \subseteq Kept(r)
    BY <1>2, <1>3, <1>4 DEF MayStart
  <2>2. MayStart(s, t)
    BY <2>1, RecomputeStartsNoMore
  <2>3. MayStart(r, t)
    <3> HIDE DEF r
    <3> QED BY <1>1, <1>2, <2>1, <2>2 DEF MayStart, IsActiveTask
  <2>4. t \in ReadyWork(r)
    <3> HIDE DEF r
    <3> QED BY <1>1, <2>3, ReadyWorkIs
  <2> QED BY <2>4
<1>5. ReadyWork(x) = {t \in Task : MayStart(x, t)}
  BY ReadyWorkIs
<1> QED BY <1>4, <1>5

\* Releasing the current task changes the place only.
LEMMA ReleasedFields ==
  ASSUME NEW s, WellFormed(s), NEW stage \in Stage, NEW status \in Status
  PROVE  LET x == Released(s, stage, status) IN
         /\ WellFormed(x) /\ x.stage = stage /\ x.status = status
         /\ x.task = Null /\ x.items = s.items /\ SameCauses(s, x)
         /\ x.blocked = s.blocked /\ x.code = s.code
<1> DEFINE x == Released(s, stage, status)
<1>1. WellFormed(x)
  BY ReleasedWellFormed DEF WellFormed
<1>2. /\ x.stage = stage /\ x.status = status
      /\ x.task = Null /\ x.items = s.items /\ SameCauses(s, x)
      /\ x.blocked = s.blocked /\ x.code = s.code
  BY DEF Released, SameCauses, WellFormed, WorkflowRecord
<1> HIDE DEF x
<1> QED BY <1>1, <1>2 DEF x

LEMMA ReleasedWithoutGate ==
  ASSUME NEW s, WellFormed(s), NEW stage \in Stage, NEW status \in Status
  PROVE  LET x == [Released(s, stage, status) EXCEPT !.gate = Null] IN
         /\ WellFormed(x) /\ x.stage = stage /\ x.status = status
         /\ x.task = Null /\ x.items = s.items /\ SameCauses(s, x)
         /\ x.blocked = s.blocked /\ x.code = s.code
<1> DEFINE r == Released(s, stage, status)
           x == [r EXCEPT !.gate = Null]
<1>1. WellFormed(x)
  BY ReleasedWellFormed DEF WellFormed
<1>2. /\ WellFormed(r) /\ r.stage = stage /\ r.status = status
      /\ r.task = Null /\ r.items = s.items /\ SameCauses(s, r)
      /\ r.blocked = s.blocked /\ r.code = s.code
  BY ReleasedFields
<1> HIDE DEF r
<1>3. /\ x.stage = r.stage /\ x.status = r.status
      /\ x.task = r.task /\ x.items = r.items /\ SameCauses(r, x)
      /\ x.blocked = r.blocked /\ x.code = r.code
  BY <1>2 DEF SameCauses, WellFormed, WorkflowRecord
<1> HIDE DEF x
<1>4. SameCauses(s, x)
  BY <1>2, <1>3 DEF SameCauses
<1> QED BY <1>1, <1>2, <1>3, <1>4 DEF x, r

LEMMA StartTaskFields ==
  ASSUME NEW s, WellFormed(s), NEW t \in Task
  PROVE  LET x == StartTask(s, t) IN
         /\ WellFormed(x) /\ x.items = [s.items EXCEPT ![t] = "RUNNING"]
         /\ x.stage = "TASK_EXECUTION" /\ x.status = "RUNNING" /\ x.task = t
         /\ x.blocked = s.blocked /\ x.code = s.code /\ SameCauses(s, x)
<1> DEFINE x == StartTask(s, t)
<1>1. WellFormed(x)
  BY StartTaskWellFormed
<1>2. /\ x.items = [s.items EXCEPT ![t] = "RUNNING"]
      /\ x.stage = "TASK_EXECUTION" /\ x.status = "RUNNING" /\ x.task = t
      /\ x.blocked = s.blocked /\ x.code = s.code /\ SameCauses(s, x)
  BY DEF StartTask, SameCauses, WellFormed, WorkflowRecord
<1> HIDE DEF x
<1> QED BY <1>1, <1>2 DEF x

LEMMA ScheduleStarts ==
  ASSUME NEW s, WellFormed(s), ReadyWork(Recompute(s)) # {}
  PROVE  LET x == SelectWork(Recompute(s)) IN
         WellFormed(x) /\ SameCauses(s, x) /\ Starts(s, x)
<1> DEFINE r == Recompute(s)
           t == FirstInOrder(ReadyWork(r))
           x == StartTask(r, t)
<1>1. /\ WellFormed(r) /\ r.decisions = s.decisions /\ r.changes = s.changes
      /\ r.blocked = s.blocked /\ r.code = s.code /\ SameCauses(s, r)
      /\ \A u \in Task : r.items[u] = RecomputedStatus(s, u)
  BY RecomputeWellFormed, RecomputeFields DEF SameCauses
<1>2. Done(r) = Kept(s)
  BY RecomputeKeeps
<1>3. x = SelectWork(r)
  BY DEF SelectWork
<1> HIDE DEF r
<1>4. t \in Task /\ MayStart(r, t)
  <2>1. ReadyWork(r) = {u \in Task : MayStart(r, u)}
    BY <1>1, ReadyWorkIs
  <2>2. t \in ReadyWork(r)
    BY <2>1, FirstInOrderIsMember DEF r
  <2> QED BY <2>1, <2>2
<1> HIDE DEF t
<1>5. HeldBack(r) = HeldBack(s)
  BY <1>1, SameBlockers
<1>6. MayStart(s, t)
  <2>1. /\ t \notin HeldBack(s) /\ Recompute(s).items[t] \in Resumable
        /\ Dependencies[t] \subseteq Kept(Recompute(s))
    BY <1>4, <1>5 DEF MayStart, r
  <2> QED BY <1>4, <2>1, RecomputeStartsNoMore
<1>7. /\ WellFormed(x) /\ x.items = [r.items EXCEPT ![t] = "RUNNING"]
      /\ x.stage = "TASK_EXECUTION" /\ x.status = "RUNNING" /\ x.task = t
      /\ x.blocked = r.blocked /\ x.code = r.code /\ SameCauses(r, x)
  BY <1>1, <1>4, StartTaskFields
<1>8. r.items \in [Task -> ItemStatus]
  BY <1>1 DEF WellFormed, WorkflowRecord
<1> HIDE DEF x
<1>9. r.items[t] # "COMPLETED"
  BY <1>4 DEF MayStart, Resumable
<1>10. /\ \A u \in Task \ {t} : x.items[u] = r.items[u]
       /\ x.items[t] = "RUNNING"
  BY <1>4, <1>7, <1>8
<1>11. Done(x) = Done(r)
  BY <1>9, <1>10 DEF Done
<1>12. Starts(s, x)
  BY <1>1, <1>2, <1>4, <1>6, <1>7, <1>10, <1>11 DEF Starts
<1>13. SameCauses(s, x)
  BY <1>1, <1>7 DEF SameCauses
<1> QED BY <1>3, <1>7, <1>12, <1>13 DEF r

LEMMA ScheduleFindsNone ==
  ASSUME NEW s, WellFormed(s), ReadyWork(Recompute(s)) = {}
  PROVE  LET x == SelectWork(Recompute(s)) IN
         WellFormed(x) /\ SameCauses(s, x) /\ (Leaves(s, x) \/ Blocks(s, x))
<1> DEFINE r == Recompute(s)
           x == SelectWork(r)
<1>1. /\ WellFormed(r) /\ r.decisions = s.decisions /\ r.changes = s.changes
      /\ r.propagation = s.propagation /\ r.stage = s.stage
      /\ r.task = s.task /\ r.blocked = s.blocked /\ r.code = s.code
      /\ SameCauses(s, r)
      /\ \A u \in Task : r.items[u] = RecomputedStatus(s, u)
  BY RecomputeWellFormed, RecomputeFields DEF SameCauses
<1>2. Done(r) = Kept(s)
  BY RecomputeKeeps
<1>3. x = SelectWithoutTask(r)
  BY DEF SelectWork
<1>4. ASSUME NEW y, WellFormed(y), y.items = r.items, y.decisions = s.decisions,
             y.changes = s.changes
      PROVE  ReadyWork(y) = {}
  BY <1>4, NothingReadyLater
<1>5. WellFormed(x)
  <2> HIDE DEF r
  <2> QED BY <1>1, SelectWorkWellFormed
<1> HIDE DEF r, x
<1> SUFFICES /\ WellFormed(x) /\ SameCauses(s, x)
             /\ Leaves(s, x) \/ Blocks(s, x)
  BY DEF x, r
<1>6. /\ PendingDecisions(r) = PendingDecisions(s)
      /\ OpenChanges(r) = OpenChanges(s)
  BY <1>1, SameBlockers
<1>7. RunnablePropagation(r) = RunnablePropagation(s)
  BY <1>1 DEF RunnablePropagation
<1>8. ASSUME NEW y, y.items = r.items PROVE Recomputed(s, y)
  BY <1>1, <1>2, <1>8 DEF Recomputed, Done
<1>9. ASSUME NEW y, WellFormed(y), y.items = r.items, SameCauses(r, y)
      PROVE  /\ SameCauses(s, y) /\ Recomputed(s, y) /\ ReadyWork(y) = {}
  <2>1. SameCauses(s, y)
    BY <1>1, <1>9 DEF SameCauses
  <2>2. ReadyWork(y) = {}
    BY <1>4, <1>9, <2>1 DEF SameCauses
  <2> QED BY <1>8, <1>9, <2>1, <2>2
<1>10. CASE PendingDecisions(s) # {}
  <2>1. x = [Released(r, "WAITING_FOR_HUMAN", "WAITING_HUMAN")
               EXCEPT !.gate = Null]
    BY <1>3, <1>6, <1>10 DEF SelectWithoutTask
  <2>2. "WAITING_FOR_HUMAN" \in Stage /\ "WAITING_HUMAN" \in Status
    BY DEF Stage, Status
  <2>3. /\ WellFormed(x) /\ x.stage = "WAITING_FOR_HUMAN"
        /\ x.status = "WAITING_HUMAN" /\ x.task = Null /\ x.items = r.items
        /\ SameCauses(r, x) /\ x.blocked = r.blocked /\ x.code = r.code
    BY <1>1, <2>1, <2>2, ReleasedWithoutGate
  <2> QED BY <1>1, <1>9, <1>10, <2>3 DEF Leaves
<1>11. CASE PendingDecisions(s) = {} /\ RunnablePropagation(s) # {}
  <2> DEFINE c == NextPropagation(r)
             stage == r.propagation[c].next
  <2>1. c \in RunnablePropagation(s)
    BY <1>7, <1>11 DEF NextPropagation
  <2> HIDE DEF c
  <2>2. stage \in Stage /\ "RUNNING" \in Status
    <3>1. c \in Change /\ stage \in PropagationStages
      BY <1>1, <2>1
      DEF RunnablePropagation, WellFormed, WorkflowRecord, PropagationRecord
    <3> QED BY <3>1 DEF Stage, AgentStages, Status
  <2>3. x = [Released(r, stage, "RUNNING") EXCEPT !.gate = Null]
    BY <1>3, <1>6, <1>7, <1>11 DEF SelectWithoutTask, c
  <2>4. stage = s.propagation[c].next
    BY <1>1
  <2> HIDE DEF stage
  <2>5. /\ WellFormed(x) /\ x.stage = stage /\ x.status = "RUNNING"
        /\ x.task = Null /\ x.items = r.items
        /\ SameCauses(r, x) /\ x.blocked = r.blocked /\ x.code = r.code
    BY <1>1, <2>2, <2>3, ReleasedWithoutGate
  <2> QED BY <1>1, <1>9, <1>11, <2>1, <2>4, <2>5 DEF Leaves
<1>12. CASE /\ PendingDecisions(s) = {} /\ RunnablePropagation(s) = {}
            /\ OpenChanges(s) # {}
  <2>1. x = [Released(r, "WAITING_FOR_AUTHORITY_CHANGE",
                      "WAITING_AUTHORITY_CHANGE") EXCEPT !.gate = Null]
    BY <1>3, <1>6, <1>7, <1>12 DEF SelectWithoutTask
  <2>2. /\ "WAITING_FOR_AUTHORITY_CHANGE" \in Stage
        /\ "WAITING_AUTHORITY_CHANGE" \in Status
    BY DEF Stage, Status
  <2>3. /\ WellFormed(x) /\ x.stage = "WAITING_FOR_AUTHORITY_CHANGE"
        /\ x.status = "WAITING_AUTHORITY_CHANGE" /\ x.task = Null
        /\ x.items = r.items
        /\ SameCauses(r, x) /\ x.blocked = r.blocked /\ x.code = r.code
    BY <1>1, <2>1, <2>2, ReleasedWithoutGate
  <2> QED BY <1>1, <1>9, <1>12, <2>3 DEF Leaves
<1>13. CASE /\ PendingDecisions(s) = {} /\ RunnablePropagation(s) = {}
            /\ OpenChanges(s) = {} /\ Task # {} /\ Task \subseteq Done(r)
  <2>1. x = Released(r, "FINAL_VERIFICATION", "RUNNING")
    BY <1>3, <1>6, <1>7, <1>13 DEF SelectWithoutTask, Done
  <2>2. "FINAL_VERIFICATION" \in Stage /\ "RUNNING" \in Status
    BY DEF Stage, AgentStages, Status
  <2>3. /\ WellFormed(x) /\ x.stage = "FINAL_VERIFICATION"
        /\ x.status = "RUNNING" /\ x.task = Null /\ x.items = r.items
        /\ SameCauses(r, x) /\ x.blocked = r.blocked /\ x.code = r.code
    BY <1>1, <2>1, <2>2, ReleasedFields
  <2>4. Task \subseteq Done(x)
    BY <1>13, <2>3 DEF Done
  <2> QED BY <1>1, <1>9, <1>13, <2>3, <2>4 DEF Leaves
<1>14. CASE /\ PendingDecisions(s) = {} /\ RunnablePropagation(s) = {}
            /\ OpenChanges(s) = {} /\ ~(Task # {} /\ Task \subseteq Done(r))
  <2>1. x = DependencyBlocked(r)
    BY <1>3, <1>6, <1>7, <1>14 DEF SelectWithoutTask, Done
  <2>2. /\ x.stage = "HARD_STOP" /\ x.status = "HARD_STOPPED"
        /\ x.task = r.task /\ x.items = r.items /\ x.blocked = r.stage
        /\ x.code = "DEPENDENCY_BLOCKED" /\ SameCauses(r, x)
    BY <1>1, <2>1 DEF DependencyBlocked, SameCauses, WellFormed, WorkflowRecord
  <2>3. ~(Task # {} /\ Task \subseteq Done(x))
    BY <1>14, <2>2 DEF Done
  <2>4. SameCauses(s, x) /\ Recomputed(s, x)
    BY <1>5, <1>9, <2>2
  <2> QED BY <1>1, <1>5, <1>14, <2>2, <2>3, <2>4 DEF Blocks, r
<1> QED BY <1>10, <1>11, <1>12, <1>13, <1>14

LEMMA ScheduleOutcome ==
  ASSUME NEW s, WellFormed(s)
  PROVE  LET x == Schedule(s) IN
         /\ WellFormed(x) /\ SameCauses(s, x)
         /\ \/ /\ x = Recompute(s)
               /\ \/ s.stage \in HumanGates
                  \/ s.stage \in AgentStages /\ s.task # Null /\ s.run
            \/ Starts(s, x) \/ Leaves(s, x) \/ Blocks(s, x)
<1> DEFINE r == Recompute(s)
<1>1. r.stage = s.stage /\ r.task = s.task /\ r.run = s.run /\ SameCauses(s, r)
  BY RecomputeFields DEF SameCauses
<1>2. WellFormed(r)
  BY RecomputeWellFormed
<1>3. /\ WellFormed(SelectWork(r)) /\ SameCauses(s, SelectWork(r))
      /\ \/ Starts(s, SelectWork(r)) \/ Leaves(s, SelectWork(r))
         \/ Blocks(s, SelectWork(r))
  BY ScheduleStarts, ScheduleFindsNone
<1>4. Schedule(s) = IF r.stage \in HumanGates \/ IsInvoked(r)
                      THEN r ELSE SelectWork(r)
  BY DEF Schedule
<1> HIDE DEF r
<1> QED BY <1>1, <1>2, <1>3, <1>4 DEF IsInvoked, r

\* A detected change takes over the stage and puts running work back.
Detected(s, c, x) ==
  /\ WellFormed(x)
  /\ x.stage = "AUTHORITY_CHANGE_ANALYSIS" /\ x.status = "RUNNING"
  /\ x.task = Null /\ x.blocked = Null /\ x.code = Null
  /\ x.decisions = s.decisions /\ x.propagation = s.propagation
  /\ x.change = c
  /\ x.changes = [s.changes EXCEPT ![c].status = "CHANGE_PENDING"]
  /\ Done(x) = Done(s)

LEMMA DetectFields ==
  ASSUME NEW s, WellFormed(s), NEW c \in Change
  PROVE  Detected(s, c, DetectChange(s, c))
<1> DEFINE x == DetectChange(s, c)
           r == Released(s, "AUTHORITY_CHANGE_ANALYSIS", "RUNNING")
           f == [t \in Task |->
                   IF s.items[t] \in {"RUNNING", "REQUIRES_PATCH"}
                     THEN "READY" ELSE s.items[t]]
<1>1. WellFormed(x)
  BY DetectChangeWellFormed
<1>2. /\ WellFormed(r) /\ r.stage = "AUTHORITY_CHANGE_ANALYSIS"
      /\ r.status = "RUNNING" /\ r.task = Null /\ SameCauses(s, r)
  <2>1. "AUTHORITY_CHANGE_ANALYSIS" \in Stage /\ "RUNNING" \in Status
    BY DEF Stage, AgentStages, Status
  <2> HIDE DEF r
  <2> QED BY <2>1, ReleasedFields DEF r
<1>3. x = [r EXCEPT !.gate = Null, !.code = Null, !.blocked = Null,
                    !.recoverable = FALSE, !.change = c,
                    !.changes[c].status = "CHANGE_PENDING", !.items = f]
  BY DEF DetectChange
<1>4. \A t \in Task : f[t] = "COMPLETED" <=> s.items[t] = "COMPLETED"
  OBVIOUS
<1> HIDE DEF r, x, f
<1>5. /\ x.stage = r.stage /\ x.status = r.status /\ x.task = r.task
      /\ x.blocked = Null /\ x.code = Null
      /\ x.decisions = r.decisions /\ x.propagation = r.propagation
      /\ x.change = c /\ x.items = f
      /\ x.changes = [r.changes EXCEPT ![c].status = "CHANGE_PENDING"]
  BY <1>2, <1>3 DEF WellFormed, WorkflowRecord
<1>6. Done(x) = Done(s)
  BY <1>4, <1>5 DEF Done
<1>7. Detected(s, c, x)
  BY <1>1, <1>2, <1>5, <1>6 DEF SameCauses, Detected
<1> QED BY <1>7 DEF x

\* Each of these handlers hands its record over to the scheduler.
LEMMA HandlersHandOver ==
  ASSUME NEW s, NEW x
  PROVE  /\ \A c, a : Analyzed(s, c, a, x) => Handed(x)
         /\ \A Q : Suspended(s, Q, x) => Handed(x)
         /\ SentBack(s, x) \/ Propagated(s, x) \/ Advanced(s, x) => Handed(x)
         /\ \A d : DecidedOn(s, d, x) => Handed(x)
         /\ \A c : Promoted(s, c, Null, x) => Handed(x)
BY DEF Analyzed, Suspended, SentBack, Propagated, Advanced, DecidedOn, Promoted

LEMMA OrphanIs ==
  ASSUME NEW s, WellFormed(s)
  PROVE  \/ OrphanStop(s) = s
         \/ s.stage \in AgentStages /\ Stopped(s, OrphanStop(s))
<1>1. "AUDIT_BLOCKED" \in StopCode \ ElsewhereStops
  BY DEF StopCode, ElsewhereStops
<1> QED BY <1>1, StoppedIs

-----------------------------------------------------------------------------
(* Waiting for a human *)

\* A record that waits for a human waits at a gate, or for a decision while
\* no task is ready.
Waits(s) ==
  s.status = "WAITING_HUMAN" =>
    \/ s.stage \in HumanGates
    \/ /\ s.stage = "WAITING_FOR_HUMAN"
       /\ PendingDecisions(s) # {} /\ ReadyWork(s) = {}

LEMMA WaitingStages ==
  /\ AgentStages \cap (HumanGates \cup {"WAITING_FOR_HUMAN"}) = {}
  /\ "WAITING_FOR_HUMAN" \notin HumanGates
BY DEF AgentStages, TaskStages, PropagationStages, HumanGates

LEMMA RecomputeWaits ==
  ASSUME NEW s, WellFormed(s), Waits(s)
  PROVE  Waits(Recompute(s))
<1> DEFINE r == Recompute(s)
<1>1. /\ WellFormed(r) /\ r.decisions = s.decisions /\ r.changes = s.changes
      /\ r.stage = s.stage /\ r.status = s.status
  BY RecomputeWellFormed, RecomputeFields
<1>2. ASSUME NEW t \in Task, MayStart(r, t) PROVE MayStart(s, t)
  <2>1. HeldBack(r) = HeldBack(s)
    <3> HIDE DEF r
    <3> QED BY <1>1, SameBlockers
  <2>2. /\ t \notin HeldBack(s) /\ r.items[t] \in Resumable
        /\ Dependencies[t] \subseteq Kept(r)
    BY <1>2, <2>1 DEF MayStart
  <2> QED BY <2>2, RecomputeStartsNoMore
<1> HIDE DEF r
<1>3. PendingDecisions(r) = PendingDecisions(s)
  BY <1>1, SameBlockers
<1>4. /\ ReadyWork(r) = {t \in Task : MayStart(r, t)}
      /\ ReadyWork(s) = {t \in Task : MayStart(s, t)}
  BY <1>1, ReadyWorkIs
<1>5. Waits(r)
  BY <1>1, <1>2, <1>3, <1>4 DEF Waits
<1> QED BY <1>5 DEF r

LEMMA ScheduleWaits ==
  ASSUME NEW s, WellFormed(s), Waits(s)
  PROVE  Waits(Schedule(s))
<1> DEFINE x == Schedule(s)
<1>1. /\ SameCauses(s, x)
      /\ \/ x = Recompute(s) \/ Starts(s, x) \/ Leaves(s, x) \/ Blocks(s, x)
  BY ScheduleOutcome
<1>2. Waits(Recompute(s))
  BY RecomputeWaits
<1> HIDE DEF x
<1>3. PendingDecisions(x) = PendingDecisions(s)
  BY <1>1, SameBlockers DEF SameCauses
<1>4. Waits(x)
  BY <1>1, <1>2, <1>3 DEF Waits, Starts, Leaves, Blocks
<1> QED BY <1>4 DEF x

LEMMA HandedWaits ==
  ASSUME NEW x, Handed(x)
  PROVE  Waits(Schedule(x))
<1>1. WellFormed(x) /\ Waits(x)
  BY DEF Handed, Waits
<1> QED BY <1>1, ScheduleWaits

LEMMA LoadWaits ==
  ASSUME NEW s, WellFormed(s), Waits(s)
  PROVE  Waits(Load(s)) /\ Waits(OrphanStop(Load(s)))
<1> DEFINE r == Load(s)
<1>1. WellFormed(r)
  BY LoadWellFormed
<1>2. Waits(r)
  <2>1. DigestStop(s).status = "HARD_STOPPED"
    BY DEF DigestStop, WellFormed, WorkflowRecord
  <2>2. Waits(DigestStop(s))
    BY <2>1 DEF Waits
  <2>3. Waits(Recompute(s))
    BY RecomputeWaits
  <2> QED BY <2>2, <2>3 DEF Load
<1> HIDE DEF r
<1>3. OrphanStop(r) = r \/ Stopped(r, OrphanStop(r))
  BY <1>1, OrphanIs
<1>4. Stopped(r, OrphanStop(r)) => Waits(OrphanStop(r))
  BY DEF Stopped, StopsAt, Waits
<1> QED BY <1>2, <1>3, <1>4 DEF r

LEMMA MovedWaits ==
  ASSUME NEW s, Waits(s), NEW r, Moved(s, r)
  PROVE  Waits(r)
BY WaitingStages DEF Moved, StopsAt, GoesOn, WaitsAt, ComesToEnd, Waits

LEMMA ApplyVerdictWaits ==
  ASSUME NEW s, WellFormed(s), Waits(s), NEW verdict
  PROVE  Waits(ApplyVerdict(s, verdict))
<1>1. ASSUME NEW r, WellFormed(r), Moved(s, r) PROVE Waits(Recompute(r))
  BY <1>1, MovedWaits, RecomputeWaits
<1>2. ASSUME NEW r, WellFormed(r), r.stage = "HUMAN_GROUP_APPROVAL"
      PROVE  Waits(Recompute(r))
  <2>1. Waits(r)
    BY <1>2 DEF Waits, HumanGates
  <2> QED BY <1>2, <2>1, RecomputeWaits
<1>3. ASSUME NEW x, Handed(x) PROVE Waits(Recompute(Schedule(x)))
  <2>1. WellFormed(Schedule(x)) /\ Waits(Schedule(x))
    BY <1>3, HandedWaits, ScheduleWellFormed DEF Handed
  <2> QED BY <2>1, RecomputeWaits
<1> QED BY <1>1, <1>2, <1>3, VerdictOutcome

LEMMA ApplyScopedWaits ==
  ASSUME NEW s, WellFormed(s), Waits(s), NEW Q, NEW direct \in SUBSET Task
  PROVE  Waits(ApplyScoped(s, Q, direct))
<1>1. ASSUME NEW r, WellFormed(r), Moved(s, r) PROVE Waits(Recompute(r))
  BY <1>1, MovedWaits, RecomputeWaits
<1>2. \A x : Handed(x) => Waits(Schedule(x))
  BY HandedWaits
<1>3. \/ \E x : Handed(x) /\ ApplyScoped(s, Q, direct) = Schedule(x)
      \/ \E r : /\ WellFormed(r) /\ Moved(s, r)
                /\ ApplyScoped(s, Q, direct) = Recompute(r)
  BY ScopedOutcome
<1> QED BY <1>1, <1>2, <1>3

LEMMA StepKeepsWaiting ==
  ASSUME Inductive, Waits(state), Step
  PROVE  Waits(state')
<1> DEFINE s == Load(state)
<1>1. WellFormed(s)
  BY InductiveParts, LoadedRecord
<1>2. Waits(s)
  BY InductiveParts, LoadWaits DEF RecordOK
<1>3. \/ state' = s \/ Stopped(s, state') \/ state' = Schedule(s)
      \/ /\ SamePlace(s, state') /\ state'.stage = s.stage
         /\ state'.status = "RUNNING"
      \/ state' = Invoke(s) /\ s.stage \in AgentStages /\ ~s.run
      \/ \E c \in Unanalyzed(s) : state' = DetectChange(s, c)
  BY StepIs
<1> HIDE DEF s
<1>4. CASE state' = s \/ state' = Schedule(s)
  BY <1>1, <1>2, <1>4, ScheduleWaits
<1>5. CASE \/ Stopped(s, state')
           \/ SamePlace(s, state') /\ state'.status = "RUNNING"
  BY <1>5 DEF Stopped, StopsAt, Waits
<1>6. CASE state' = Invoke(s) /\ s.stage \in AgentStages /\ ~s.run
  <2>1. state'.status = s.status
    BY <1>1, <1>6, InvokeFields
  <2> QED BY <1>2, <1>6, <2>1, WaitingStages DEF Waits
<1>7. CASE \E c \in Unanalyzed(s) : state' = DetectChange(s, c)
  <2>1. PICK c \in Unanalyzed(s) : state' = DetectChange(s, c)
    BY <1>7
  <2>2. Detected(s, c, state')
    BY <1>1, <2>1, DetectFields DEF Unanalyzed
  <2> QED BY <2>2 DEF Waits, Detected
<1> QED BY <1>3, <1>4, <1>5, <1>6, <1>7

LEMMA AgentEndKeepsWaiting ==
  ASSUME Inductive, Waits(state), AgentEnd
  PROVE  Waits(state')
<1>1. WellFormed(state)
  BY InductiveParts DEF RecordOK
<1>2. \A x : Handed(x) => Waits(Schedule(x))
  BY HandedWaits
<1>3. CASE \E verdict : state' = ApplyVerdict(state, verdict)
  BY <1>1, <1>3, ApplyVerdictWaits
<1>4. CASE \E Q \in SUBSET Question, direct \in SUBSET Task :
             state' = ApplyScoped(state, Q, direct)
  BY <1>1, <1>4, ApplyScopedWaits
<1>5. CASE \E c \in Unanalyzed(state), a \in Analysis(Scopes, Question) :
             state' = ApplyAnalysis(state, c, a)
  <2>1. PICK c \in Unanalyzed(state), a \in Analysis(Scopes, Question) :
             state' = ApplyAnalysis(state, c, a)
    BY <1>5
  <2>2. PICK x : Analyzed(state, c, a, x) /\ state' = Schedule(Recompute(x))
    BY <1>1, <2>1, AnalysisHandsOver DEF Unanalyzed
  <2>3. Handed(x)
    BY <2>2, HandlersHandOver
  <2>4. WellFormed(Recompute(x)) /\ Waits(Recompute(x))
    <3>1. WellFormed(x) /\ Waits(x)
      BY <2>3 DEF Handed, Waits
    <3> QED BY <3>1, RecomputeWellFormed, RecomputeWaits
  <2> QED BY <2>2, <2>4, ScheduleWaits
<1>6. CASE /\ OwnsStage(state) /\ PropagationActive(state)
           /\ \/ state' = AdvancePropagation(state)
              \/ /\ state.stage \in DOMAIN RevisionOf
                 /\ state' = ReviseAgain(state)
              \/ \E Q \in SUBSET Question, direct \in SUBSET Task :
                   state' = SuspendPropagation(state, Q, direct)
  <2>1. state.change \in Change /\ state.stage \in PropagationStages
    BY <1>1, <1>6
    DEF OwnsStage, PropagationActive, WellFormed, WorkflowRecord
  <2>2. \E x : Handed(x) /\ AdvancePropagation(state) = Schedule(x)
    BY <1>1, <2>1, CompletionHandsOver, AdvanceHandsOver, HandlersHandOver
  <2>3. state.stage \in DOMAIN RevisionOf =>
          \E x : Handed(x) /\ ReviseAgain(state) = Schedule(x)
    BY <1>1, <2>1, RevisionHandsOver, HandlersHandOver
  <2>4. \A Q \in SUBSET Question, direct \in SUBSET Task :
          \E x : /\ Handed(x)
                 /\ SuspendPropagation(state, Q, direct) = Schedule(x)
    BY <1>1, <2>1, SuspensionHandsOver, HandlersHandOver
  <2> QED BY <1>2, <1>6, <2>2, <2>3, <2>4
<1>7. CASE \/ Stopped(state, state')
           \/ /\ SamePlace(state, state') /\ state'.stage = state.stage
              /\ state'.status = "RUNNING"
  BY <1>7 DEF Stopped, StopsAt, Waits
<1> QED BY <1>3, <1>4, <1>5, <1>6, <1>7, AgentEndIs

LEMMA RecoverKeepsWaiting ==
  ASSUME Inductive, Waits(state), Recover
  PROVE  Waits(state')
<1> DEFINE s == OrphanStop(Load(state))
<1>1. Waits(s)
  BY InductiveParts, LoadWaits DEF RecordOK
<1>2. \/ state' = s
      \/ Reopened(s, state')
      \/ \E q : /\ Reopened(s, q)
                /\ \/ \E verdict :
                        state' = TransitionAfterOutcome(q, verdict)
                   \/ \E Q \in SUBSET Question, direct \in SUBSET Task :
                        state' = ApplyScoped(q, Q, direct)
                   \/ \E Q, x : Suspended(q, Q, x) /\ state' = Schedule(x)
                   \/ Stopped(q, state')
                   \/ SamePlace(q, state') /\ state'.stage = q.stage
                        /\ state'.status = "RUNNING"
  BY RecoverIs
<1> HIDE DEF s
<1>3. \A q : Reopened(s, q) => WellFormed(q) /\ Waits(q)
  BY DEF Reopened, Waits
<1>4. \A q, verdict : WellFormed(q) /\ Waits(q) =>
        Waits(TransitionAfterOutcome(q, verdict))
  BY TransitionMoves, MovedWaits
<1>5. \A q, Q, x : Suspended(q, Q, x) => Waits(Schedule(x))
  BY HandlersHandOver, HandedWaits
<1>6. \A q, x : \/ Stopped(q, x)
                \/ SamePlace(q, x) /\ x.stage = q.stage /\ x.status = "RUNNING"
        => Waits(x)
  BY DEF Stopped, StopsAt, Waits
<1> QED BY <1>1, <1>2, <1>3, <1>4, <1>5, <1>6, ApplyScopedWaits

LEMMA OperatorKeepsWaiting ==
  ASSUME Inductive, Waits(state), Operator
  PROVE  Waits(state')
<1> DEFINE s == Load(state)
<1>1. WellFormed(s) /\ Waits(s)
  BY InductiveParts, LoadedRecord, LoadWaits DEF RecordOK
<1>2. \/ state' \in {state, s, StopRecord(s)}
      \/ state' = Approved(s) /\ s.stage \in HumanGates
      \/ \E d \in PendingDecisions(s) : state' = ResolveDecision(s, d)
      \/ \E c \in PendingDecisions(s) \cap Change :
           \E first \in PromotedFirst(s, c) :
             state' = ResolvePromotion(s, c, first)
      \/ Recover
  BY OperatorIs
<1> HIDE DEF s
<1>3. \A x : Handed(x) => Waits(Schedule(x))
  BY HandedWaits
<1>4. Waits(StopRecord(s))
  BY <1>1, StopRecordFields DEF Waits
<1>5. ASSUME s.stage \in HumanGates PROVE Waits(Approved(s))
  <2>1. ASSUME NEW r, WellFormed(r), PassedGate(s, r)
        PROVE  Waits(Recompute(r))
    <3>1. Waits(r)
      BY <2>1 DEF PassedGate, Waits
    <3> QED BY <2>1, <3>1, RecomputeWaits
  <2> QED BY <1>1, <1>3, <1>5, <2>1, ApprovalOutcome
<1>6. ASSUME NEW d \in PendingDecisions(s) PROVE Waits(ResolveDecision(s, d))
  <2>1. d \in Decision
    BY DEF PendingDecisions
  <2>2. PICK x : DecidedOn(s, d, x) /\ ResolveDecision(s, d) = Schedule(x)
    BY <1>1, <2>1, AnswerHandsOver
  <2> QED BY <1>3, <2>2, HandlersHandOver
<1>7. ASSUME NEW c \in Change, NEW first \in PromotedFirst(s, c)
      PROVE  Waits(ResolvePromotion(s, c, first))
  <2>1. first \in Task \cup {Null}
    BY <1>1, <1>7
    DEF PromotedFirst, WellFormed, WorkflowRecord, ChangeRecord
  <2>2. PICK x : /\ Promoted(s, c, first, x)
                 /\ ResolvePromotion(s, c, first)
                      = IF first = Null THEN Schedule(x) ELSE x
    BY <1>1, <2>1, PromotionFields
  <2>3. (first = Null => Handed(x)) /\ Waits(x)
    BY <2>2 DEF Promoted, Waits
  <2> QED BY <1>3, <2>2, <2>3
<1> QED
  BY <1>1, <1>2, <1>4, <1>5, <1>6, <1>7, RecoverKeepsWaiting

\* The human is kept waiting only while a decision is pending and no task is
\* ready: nothing that happens meanwhile, to the record or around it, makes
\* work ready without the scheduler being told.
THEOREM HumanWaitsOnlyWithoutWork == Spec => []WaitsOnlyWithoutWork
<1>1. Init => Waits(state)
  BY DEF Init, Fresh, Waits
<1>2. Inductive /\ Waits(state) /\ [Next]_vars => Waits(state)'
  <2> SUFFICES ASSUME Inductive, Waits(state), [Next]_vars
               PROVE  Waits(state')
    OBVIOUS
  <2>1. CASE Environment \/ UNCHANGED vars
    BY <2>1, EnvironmentIs
  <2> QED
    BY <2>1, StepKeepsWaiting, AgentEndKeepsWaiting, OperatorKeepsWaiting
    DEF Next
<1>3. Waits(state) => WaitsOnlyWithoutWork
  BY DEF Waits, WaitsOnlyWithoutWork
<1> QED BY <1>1, <1>2, <1>3, InductiveInvariant, PTL DEF Spec

-----------------------------------------------------------------------------
(* No work under an open change *)

\* The current task is affected by no open change, and the only change that
\* is open is the candidate.
Tame(s) ==
  /\ s.task # Null => s.task \notin AuthorityDirect(s) \cup AuthorityDependent(s)
  /\ OpenChanges(s) \subseteq {candidate}

LEMMA SameScopeOpen ==
  ASSUME NEW s, NEW x, SameScope(s, x)
  PROVE  /\ OpenChanges(x) = OpenChanges(s)
         /\ AuthorityDirect(x) = AuthorityDirect(s)
         /\ AuthorityDependent(x) = AuthorityDependent(s)
<1>1. OpenChanges(x) = OpenChanges(s)
  BY DEF SameScope, OpenChanges
<1>2. \A c \in OpenChanges(s) : x.changes[c].direct = s.changes[c].direct
  BY DEF SameScope, OpenChanges
<1>3. AuthorityDirect(x) = AuthorityDirect(s)
  BY <1>1, <1>2 DEF AuthorityDirect
<1>4. AuthorityDependent(x) = AuthorityDependent(s)
  BY <1>1, <1>2 DEF AuthorityDependent
<1> QED BY <1>1, <1>3, <1>4

\* Whatever keeps the current task, or gives it up, and the changes.
LEMMA TameKept ==
  ASSUME NEW s, Tame(s), NEW x, x.task \in {s.task, Null}, SameScope(s, x)
  PROVE  Tame(x)
BY SameScopeOpen DEF Tame

LEMMA SameChanges ==
  ASSUME NEW s, NEW x, x.changes = s.changes
  PROVE  SameScope(s, x)
BY DEF SameScope

LEMMA ScheduleTame ==
  ASSUME NEW s, WellFormed(s), Tame(s)
  PROVE  /\ WellFormed(Schedule(s)) /\ Tame(Schedule(s))
         /\ WellFormed(Recompute(s)) /\ Tame(Recompute(s))
<1>1. WellFormed(Recompute(s)) /\ Tame(Recompute(s))
  <2> DEFINE r == Recompute(s)
  <2>1. r.task = s.task /\ r.changes = s.changes
    BY RecomputeFields
  <2> HIDE DEF r
  <2>2. Tame(r)
    BY <2>1, TameKept, SameChanges
  <2> QED BY <2>2, RecomputeWellFormed DEF r
<1> DEFINE x == Schedule(s)
<1>2. /\ WellFormed(x) /\ SameCauses(s, x)
      /\ \/ x = Recompute(s) \/ Starts(s, x) \/ Leaves(s, x) \/ Blocks(s, x)
  BY ScheduleOutcome
<1> HIDE DEF x
<1>3. SameScope(s, x)
  BY <1>2 DEF SameCauses, SameScope
<1>4. CASE Starts(s, x)
  <2>1. x.task \notin AuthorityDirect(s) \cup AuthorityDependent(s)
    BY <1>4 DEF Starts, MayStart, HeldBack
  <2> QED BY <1>1, <1>2, <1>3, <2>1, SameScopeOpen DEF Tame, x
<1>5. CASE Leaves(s, x) \/ Blocks(s, x)
  <2>1. x.task \in {s.task, Null}
    BY <1>5 DEF Leaves, Blocks
  <2>2. Tame(x)
    BY <1>3, <2>1, TameKept
  <2> QED BY <1>1, <1>2, <2>2 DEF x
<1> QED BY <1>1, <1>2, <1>4, <1>5 DEF x

LEMMA HandedTame ==
  ASSUME NEW s, Tame(s), NEW x, Handed(x), SameScope(s, x)
  PROVE  Tame(Schedule(x)) /\ Tame(Recompute(Schedule(x)))
<1>1. WellFormed(x) /\ Tame(x)
  BY TameKept DEF Handed
<1> QED BY <1>1, ScheduleTame

LEMMA MovedTame ==
  ASSUME Mode = "gated", NEW s, Tame(s), NEW r, Moved(s, r)
  PROVE  Tame(r)
<1>1. r.task = s.task /\ r.changes = s.changes
  BY DEF Moved, SameWork, StopsAt, GoesOn, WaitsAt, ComesToEnd
<1> QED BY <1>1, TameKept, SameChanges

LEMMA VerdictTame ==
  ASSUME Mode = "gated", NEW s, WellFormed(s), Tame(s), NEW verdict
  PROVE  Tame(ApplyVerdict(s, verdict))
<1>1. ASSUME NEW r, WellFormed(r), Moved(s, r) PROVE Tame(Recompute(r))
  BY <1>1, MovedTame, ScheduleTame
<1>2. ASSUME NEW r, WellFormed(r), Reviewed(s, r), r.task = s.task
      PROVE  Tame(Recompute(r))
  <2>1. Tame(r)
    BY <1>2, TameKept, SameChanges DEF Reviewed
  <2> QED BY <1>2, <2>1, ScheduleTame
<1> QED BY <1>1, <1>2, VerdictOutcome

LEMMA ScopedTame ==
  ASSUME Mode = "gated", NEW s, WellFormed(s), Tame(s),
         NEW Q, NEW direct \in SUBSET Task
  PROVE  Tame(ApplyScoped(s, Q, direct))
<1>1. ASSUME NEW r, WellFormed(r), Moved(s, r) PROVE Tame(Recompute(r))
  BY <1>1, MovedTame, ScheduleTame
<1>2. ASSUME NEW x, Handed(x), x.changes = s.changes PROVE Tame(Schedule(x))
  BY <1>2, HandedTame, SameChanges
<1>3. \/ \E x : /\ Handed(x) /\ x.changes = s.changes
                /\ ApplyScoped(s, Q, direct) = Schedule(x)
      \/ \E r : /\ WellFormed(r) /\ Moved(s, r)
                /\ ApplyScoped(s, Q, direct) = Recompute(r)
  BY ScopedOutcome
<1> QED BY <1>1, <1>2, <1>3

\* A change that is analysed or detected is the candidate.
LEMMA OpenedTame ==
  ASSUME NEW s, WellFormed(s), Tame(s), NEW c \in Unanalyzed(s)
  PROVE  /\ \A a, x : Analyzed(s, c, a, x) => Tame(x)
         /\ \A x : Detected(s, c, x) => Tame(x)
<1>1. c = candidate /\ c \in Change
  BY DEF Unanalyzed
<1>2. s.changes \in [Change -> ChangeRecord]
  BY DEF WellFormed, WorkflowRecord
<1>3. ASSUME NEW x, x.task = Null,
             \A b \in Change \ {c} : x.changes[b] = s.changes[b]
      PROVE  Tame(x)
  BY <1>1, <1>3 DEF Tame, OpenChanges
<1>4. ASSUME NEW a, NEW x, Analyzed(s, c, a, x) PROVE Tame(x)
  <2>1. x.task = Null /\ x.changes = [s.changes EXCEPT ![c] = AnalyzedChange(a)]
    BY <1>4 DEF Analyzed, Handed
  <2> QED BY <1>2, <1>3, <2>1
<1>5. ASSUME NEW x, Detected(s, c, x) PROVE Tame(x)
  <2>1. /\ x.task = Null
        /\ x.changes = [s.changes EXCEPT ![c].status = "CHANGE_PENDING"]
    BY <1>5 DEF Detected
  <2> QED BY <1>2, <1>3, <2>1
<1> QED BY <1>4, <1>5

\* Promotion closes the candidate, so that no change is open any more.
LEMMA PromotedTame ==
  ASSUME NEW s, WellFormed(s), Tame(s), NEW c \in Change, c = candidate,
         NEW first, NEW x, Promoted(s, c, first, x)
  PROVE  Tame(x) /\ OpenChanges(x) = {}
<1>1. s.changes \in [Change -> ChangeRecord]
  BY DEF WellFormed, WorkflowRecord
<1>2. x.changes = [s.changes EXCEPT ![c].status = "PROMOTED"]
  BY DEF Promoted
<1>3. /\ x.changes[c].status = "PROMOTED"
      /\ \A b \in Change \ {c} : x.changes[b] = s.changes[b]
  BY <1>1, <1>2 DEF ChangeRecord
<1>4. OpenChanges(x) = {}
  BY <1>3 DEF Tame, OpenChanges
<1> QED BY <1>4 DEF Tame, AuthorityDirect, AuthorityDependent

LEMMA LoadTame ==
  ASSUME NEW s, WellFormed(s), Tame(s)
  PROVE  Tame(Load(s)) /\ Tame(OrphanStop(Load(s)))
<1> DEFINE r == Load(s)
<1>1. WellFormed(r)
  BY LoadWellFormed
<1>2. Tame(r)
  <2>1. DigestStop(s).task = s.task /\ DigestStop(s).changes = s.changes
    BY DEF DigestStop, WellFormed, WorkflowRecord
  <2>2. Tame(DigestStop(s))
    BY <2>1, TameKept, SameChanges
  <2> QED BY <2>2, ScheduleTame DEF Load
<1> HIDE DEF r
<1>3. OrphanStop(r) = r \/ Stopped(r, OrphanStop(r))
  BY <1>1, OrphanIs
<1>4. OrphanStop(r).task = r.task /\ OrphanStop(r).changes = r.changes
  BY <1>3 DEF Stopped, StopsAt, SameWork
<1>5. Tame(OrphanStop(r))
  BY <1>2, <1>4, TameKept, SameChanges
<1> QED BY <1>2, <1>5 DEF r

LEMMA StepTame ==
  ASSUME Inductive, Tame(state), Step
  PROVE  Tame(state')
<1> DEFINE s == Load(state)
<1>1. WellFormed(s) /\ Tame(s)
  BY InductiveParts, LoadedRecord, LoadTame DEF RecordOK
<1>2. \/ state' = s \/ Stopped(s, state') \/ state' = Schedule(s)
      \/ SamePlace(s, state')
      \/ state' = Invoke(s) /\ s.stage \in AgentStages /\ ~s.run
      \/ \E c \in Unanalyzed(s) : state' = DetectChange(s, c)
  BY StepIs
<1> HIDE DEF s
<1>3. CASE state' = s \/ state' = Schedule(s)
  BY <1>1, <1>3, ScheduleTame
<1>4. CASE Stopped(s, state') \/ SamePlace(s, state')
  BY <1>1, <1>4, TameKept, SameChanges
  DEF Stopped, StopsAt, SamePlace, SameWork
<1>5. CASE state' = Invoke(s) /\ s.stage \in AgentStages /\ ~s.run
  <2>1. state'.task = s.task /\ state'.changes = s.changes
    BY <1>1, <1>5, InvokeFields
  <2> QED BY <1>1, <2>1, TameKept, SameChanges
<1>6. CASE \E c \in Unanalyzed(s) : state' = DetectChange(s, c)
  <2>1. PICK c \in Unanalyzed(s) : state' = DetectChange(s, c)
    BY <1>6
  <2>2. Detected(s, c, state')
    BY <1>1, <2>1, DetectFields DEF Unanalyzed
  <2> QED BY <1>1, <2>2, OpenedTame
<1> QED BY <1>2, <1>3, <1>4, <1>5, <1>6

\* Handing over to the scheduler within a propagation opens no change.
LEMMA PropagationKeepsScope ==
  ASSUME Inductive, OwnsStage(state), PropagationActive(state),
         \/ state' = AdvancePropagation(state)
         \/ state.stage \in DOMAIN RevisionOf /\ state' = ReviseAgain(state)
         \/ \E Q \in SUBSET Question, direct \in SUBSET Task :
              state' = SuspendPropagation(state, Q, direct)
  PROVE  \E x : /\ Handed(x) /\ SameScope(state, x) /\ x.code = state.code
                /\ x.blocked = state.blocked /\ state' = Schedule(x)
<1>1. WellFormed(state)
  BY InductiveParts DEF RecordOK
<1>2. state.change \in Change /\ state.stage \in PropagationStages
  BY <1>1 DEF OwnsStage, PropagationActive, WellFormed, WorkflowRecord
<1>3. ASSUME NEW x, \/ SentBack(state, x) \/ Propagated(state, x)
                    \/ Advanced(state, x) \/ \E Q : Suspended(state, Q, x)
      PROVE  /\ Handed(x) /\ SameScope(state, x) /\ x.code = state.code
             /\ x.blocked = state.blocked
  BY <1>3 DEF SentBack, Propagated, Advanced, Suspended, SameScope
<1>4. \E x : /\ Propagated(state, x) \/ Advanced(state, x)
             /\ AdvancePropagation(state) = Schedule(x)
  BY <1>1, <1>2, CompletionHandsOver, AdvanceHandsOver
<1>5. state.stage \in DOMAIN RevisionOf =>
        \E x : SentBack(state, x) /\ ReviseAgain(state) = Schedule(x)
  BY <1>1, <1>2, RevisionHandsOver
<1>6. \A Q \in SUBSET Question, direct \in SUBSET Task :
        \E x : /\ Suspended(state, Q, x)
               /\ SuspendPropagation(state, Q, direct) = Schedule(x)
  BY <1>1, <1>2, SuspensionHandsOver
<1> QED BY <1>3, <1>4, <1>5, <1>6

LEMMA AgentEndTame ==
  ASSUME Mode = "gated", Inductive, Tame(state), AgentEnd
  PROVE  Tame(state')
<1>1. WellFormed(state)
  BY InductiveParts DEF RecordOK
<1>2. CASE \E verdict : state' = ApplyVerdict(state, verdict)
  BY <1>1, <1>2, VerdictTame
<1>3. CASE \E Q \in SUBSET Question, direct \in SUBSET Task :
             state' = ApplyScoped(state, Q, direct)
  BY <1>1, <1>3, ScopedTame
<1>4. CASE \E c \in Unanalyzed(state), a \in Analysis(Scopes, Question) :
             state' = ApplyAnalysis(state, c, a)
  <2>1. PICK c \in Unanalyzed(state), a \in Analysis(Scopes, Question) :
             state' = ApplyAnalysis(state, c, a)
    BY <1>4
  <2>2. PICK x : Analyzed(state, c, a, x) /\ state' = Schedule(Recompute(x))
    BY <1>1, <2>1, AnalysisHandsOver DEF Unanalyzed
  <2>3. WellFormed(x) /\ Tame(x)
    BY <1>1, <2>2, OpenedTame, HandlersHandOver DEF Handed
  <2> QED BY <2>2, <2>3, ScheduleTame
<1>5. CASE /\ OwnsStage(state) /\ PropagationActive(state)
           /\ \/ state' = AdvancePropagation(state)
              \/ /\ state.stage \in DOMAIN RevisionOf
                 /\ state' = ReviseAgain(state)
              \/ \E Q \in SUBSET Question, direct \in SUBSET Task :
                   state' = SuspendPropagation(state, Q, direct)
  BY <1>5, PropagationKeepsScope, HandedTame
<1>6. CASE Stopped(state, state') \/ SamePlace(state, state')
  BY <1>6, TameKept, SameChanges DEF Stopped, StopsAt, SamePlace, SameWork
<1> QED BY <1>2, <1>3, <1>4, <1>5, <1>6, AgentEndIs

LEMMA RecoverTame ==
  ASSUME Mode = "gated", Inductive, Tame(state), Recover
  PROVE  Tame(state')
<1> DEFINE s == OrphanStop(Load(state))
<1>1. Tame(s)
  BY InductiveParts, LoadTame DEF RecordOK
<1>2. \/ state' = s
      \/ Reopened(s, state')
      \/ \E q : /\ Reopened(s, q)
                /\ \/ \E verdict :
                        state' = TransitionAfterOutcome(q, verdict)
                   \/ \E Q \in SUBSET Question, direct \in SUBSET Task :
                        state' = ApplyScoped(q, Q, direct)
                   \/ \E Q, x : Suspended(q, Q, x) /\ state' = Schedule(x)
                   \/ Stopped(q, state')
                   \/ SamePlace(q, state') /\ state'.stage = q.stage
                        /\ state'.status = "RUNNING"
  BY RecoverIs
<1> HIDE DEF s
<1>3. \A q : Reopened(s, q) => WellFormed(q) /\ Tame(q)
  BY <1>1, TameKept, SameChanges DEF Reopened, SameWork
<1>4. \A q, verdict : WellFormed(q) /\ Tame(q) =>
        Tame(TransitionAfterOutcome(q, verdict))
  BY TransitionMoves, MovedTame
<1>5. \A q, Q, x : Tame(q) /\ Suspended(q, Q, x) => Tame(Schedule(x))
  BY HandlersHandOver, HandedTame, SameChanges DEF Suspended
<1>6. \A q, x : Tame(q) /\ (Stopped(q, x) \/ SamePlace(q, x)) => Tame(x)
  BY TameKept, SameChanges DEF Stopped, StopsAt, SamePlace, SameWork
<1> QED BY <1>1, <1>2, <1>3, <1>4, <1>5, <1>6, ScopedTame

LEMMA OperatorTame ==
  ASSUME Mode = "gated", Inductive, Tame(state), Operator
  PROVE  Tame(state')
<1> DEFINE s == Load(state)
<1>1. WellFormed(s) /\ Tame(s)
  BY InductiveParts, LoadedRecord, LoadTame DEF RecordOK
<1>2. \/ state' \in {state, s, StopRecord(s)}
      \/ state' = Approved(s) /\ s.stage \in HumanGates
      \/ \E d \in PendingDecisions(s) : state' = ResolveDecision(s, d)
      \/ \E c \in PendingDecisions(s) \cap Change :
           /\ candidate = c
           /\ \E first \in PromotedFirst(s, c) :
                state' = ResolvePromotion(s, c, first)
      \/ Recover
  BY OperatorIs
<1> HIDE DEF s
<1>3. Tame(StopRecord(s))
  BY <1>1, StopRecordFields, TameKept, SameChanges DEF SamePlace, SameWork
<1>4. ASSUME s.stage \in HumanGates PROVE Tame(Approved(s))
  <2>1. ASSUME NEW r, WellFormed(r), PassedGate(s, r)
        PROVE  Tame(Recompute(r))
    <3>1. Tame(r)
      BY <1>1, <2>1, TameKept, SameChanges DEF PassedGate, SameWork
    <3> QED BY <2>1, <3>1, ScheduleTame
  <2>2. ASSUME NEW x, Handed(x), SameWork(s, x) PROVE Tame(Schedule(x))
    BY <1>1, <2>2, HandedTame, SameChanges DEF SameWork
  <2> QED BY <1>1, <1>4, <2>1, <2>2, ApprovalOutcome
<1>5. ASSUME NEW d \in PendingDecisions(s) PROVE Tame(ResolveDecision(s, d))
  <2>1. d \in Decision
    BY DEF PendingDecisions
  <2>2. PICK x : DecidedOn(s, d, x) /\ ResolveDecision(s, d) = Schedule(x)
    BY <1>1, <2>1, AnswerHandsOver
  <2>3. Handed(x) /\ x.changes = s.changes
    BY <2>2 DEF DecidedOn
  <2> QED BY <1>1, <2>2, <2>3, HandedTame, SameChanges
<1>6. ASSUME NEW c \in Change, candidate = c, NEW first \in PromotedFirst(s, c)
      PROVE  Tame(ResolvePromotion(s, c, first))
  <2>1. first \in Task \cup {Null}
    BY <1>1, <1>6
    DEF PromotedFirst, WellFormed, WorkflowRecord, ChangeRecord
  <2>2. PICK x : /\ Promoted(s, c, first, x)
                 /\ ResolvePromotion(s, c, first)
                      = IF first = Null THEN Schedule(x) ELSE x
    BY <1>1, <2>1, PromotionFields
  <2>3. Tame(x) /\ WellFormed(x)
    BY <1>1, <1>6, <2>2, PromotedTame DEF Promoted
  <2> QED BY <2>2, <2>3, ScheduleTame
<1> QED
  BY <1>1, <1>2, <1>3, <1>4, <1>5, <1>6, RecoverTame

\* A revision is submitted only when the one before is closed.
LEMMA SubmittedTame ==
  ASSUME Inductive, Tame(state), SubmitAuthority
  PROVE  Tame(state)'
<1>1. state' = state
  BY DEF SubmitAuthority
<1>2. candidate \in Change =>
        state.changes[candidate].status \in {"ACCEPTED", "PROMOTED"}
  BY DEF SubmitAuthority
<1>3. OpenChanges(state) = {}
  BY <1>2 DEF Tame, OpenChanges
<1> QED BY <1>1, <1>3 DEF Tame

LEMMA EveryStepTame ==
  Mode = "gated" /\ Inductive /\ Tame(state) /\ [Next]_vars => Tame(state)'
<1> SUFFICES ASSUME Mode = "gated", Inductive, Tame(state), [Next]_vars
             PROVE  Tame(state)'
  OBVIOUS
<1>1. CASE SubmitAuthority
  BY <1>1, SubmittedTame
<1>2. CASE Step \/ AgentEnd \/ Operator
  <2>1. candidate' = candidate
    BY <1>2
    DEF Step, StepDetectsChange, StepWaits, StepAuditStops, StepSchedules,
        StepInvokesAgent, StepFindsDeadInvocation, BudgetStop, AgentEnd,
        FinishWithVerdict, FinishWithQuestions, FinishAnalysis,
        FinishPropagation, FinishRefused, FinishWithoutOutcome, RunnerFails,
        FinishRejected, Completed, Operator, StartRun, Inspect, Approve, Stop,
        Decide, Promote, Recover, RecoverDigest, RecoverStage,
        RecoverInterrupted, RecoverCanonicalFailure, RecoverLateOutcome, Idle,
        project
  <2>2. Tame(state')
    BY <1>2, StepTame, AgentEndTame, OperatorTame
  <2> QED BY <2>1, <2>2 DEF Tame
<1>3. CASE Interrupt \/ LateOutcome \/ EditTree \/ EditWorkflow
           \/ UNCHANGED vars
  <2>1. candidate' = candidate /\ state' = state
    BY <1>3
    DEF Interrupt, LateOutcome, EditTree, EditWorkflow, project, vars
  <2> QED BY <2>1 DEF Tame
<1> QED BY <1>1, <1>2, <1>3 DEF Next, Environment

LEMMA AlwaysTame ==
  ASSUME Mode = "gated"
  PROVE  Spec => []Tame(state)
<1>1. Init => Tame(state)
  BY DEF Init, Fresh, NoChange, Tame, OpenChanges
<1>2. Mode = "gated"
  OBVIOUS
<1> QED BY <1>1, <1>2, EveryStepTame, InductiveInvariant, PTL DEF Spec

\* In a gated workflow no Agent works on a task an open change affects,
\* directly or through what the task depends on, whatever questions, changes,
\* stops and recoveries come between: a task handed back by a promotion is
\* free of changes because the promoted one was the only one open.
THEOREM WorksOutsideOpenChanges ==
  ASSUME Mode = "gated"
  PROVE  Spec => []NoWorkUnderOpenChange
<1>1. Tame(state) => NoWorkUnderOpenChange
  BY DEF Tame, NoWorkUnderOpenChange
<1> QED BY <1>1, AlwaysTame, PTL

-----------------------------------------------------------------------------
(* A workflow is blocked only when nothing can be done *)

\* Tasks recorded as being worked on.
Marked(s) == {t \in Task : s.items[t] \in {"RUNNING", "REQUIRES_PATCH"}}

\* Where a task is current, and the stages the scheduler is called from.
WorkPlaces == TaskStages \cup {"PLAN_REVISION_REVIEW", "HUMAN_PLAN_FREEZE"}
Between == {"WAITING_FOR_HUMAN", "INITIALIZING", "READY",
            "WAITING_FOR_AUTHORITY_CHANGE"}

\* Nothing is worked on and nothing could be.
Rests(s) == s.task = Null /\ ReadyWork(s) = {}

Blocking(s) == s.stage = "HARD_STOP" /\ s.code = "DEPENDENCY_BLOCKED"

\* Only the current task is marked, its mark is gone at the gate of the group,
\* and it is current only where it is worked on.
MarksCurrent(s) ==
  /\ Marked(s) \subseteq {s.task}
  /\ Place(s) = "HUMAN_GROUP_APPROVAL" => Marked(s) = {}
  /\ s.task # Null => Place(s) \in WorkPlaces
                                    \cup {"HUMAN_GROUP_APPROVAL", "HARD_STOP"}
  /\ Place(s) \in TaskStages \cup {"HUMAN_PLAN_FREEZE"} => s.task # Null

\* The only open change is the candidate; a propagation that runs is that of
\* the change in progress, and one that is offered for promotion is over.
CarriesChange(s) ==
  /\ OpenChanges(s) \subseteq {candidate}
  /\ \A c \in Change :
       /\ s.propagation[c].next # Null => s.propagation[c].status = "RUNNING"
       /\ s.propagation[c].status = "RUNNING" =>
            s.change = c /\ c \in OpenChanges(s) /\ s.changes[c].analyzed
  /\ \A d \in PendingDecisions(s) :
       /\ d \in OpenChanges(s) /\ s.changes[d].analyzed
       /\ s.decisions[d].source = "TASK_REBASE_ANALYSIS"
       /\ s.propagation[d].status = "WAITING_PROMOTION"

\* A propagation is worked on, and what it leads to is offered, only when
\* nothing else can be done; a plan review without a task is its own.
ChangeComesLast(s) ==
  /\ s.task = Null /\ Place(s) = "PLAN_REVISION_REVIEW" =>
       s.change # Null /\ s.propagation[s.change].next = "PLAN_REVISION_REVIEW"
  /\ s.task = Null /\ Place(s) \in PropagationStages => ReadyWork(s) = {}
  /\ \A c \in Change :
       s.propagation[c].next \notin {Null, "CHANGE_PROPAGATION_PLANNING"}
         => Rests(s)
  /\ PendingDecisions(s) # {} => Rests(s)

\* A workflow that is blocked has no task left to work on.
BlockedForGood(s) ==
  /\ Blocking(s) =>
       /\ OpenChanges(s) = {}
       /\ \A t \in Task \ Done(s) : ~(Dependencies[t] \subseteq Done(s))
  /\ s.code # "WORKFLOW_DIGEST_CHANGED"

Accounted(s) == /\ MarksCurrent(s) /\ CarriesChange(s)
                /\ ChangeComesLast(s) /\ BlockedForGood(s)

LEMMA PlaceNames ==
  /\ {"HARD_STOP", "HUMAN_GROUP_APPROVAL", "FINAL_VERIFICATION", "COMPLETED",
      "HUMAN_FINAL_ACCEPTANCE", "AUTHORITY_CHANGE_ANALYSIS"}
       \cap (WorkPlaces \cup Between \cup PropagationStages) = {}
  /\ Between \cap (WorkPlaces \cup AgentStages \cup PropagationStages
                     \cup HumanGates) = {}
  /\ WorkPlaces \cap PropagationStages = {"PLAN_REVISION_REVIEW"}
  /\ PropagationStages \cap (TaskStages \cup {"HUMAN_PLAN_FREEZE"}) = {}
  /\ PropagationStages \cup TaskStages \subseteq AgentStages
  /\ Null \notin WorkPlaces \cup Between \cup PropagationStages
                   \cup {"HARD_STOP", "HUMAN_GROUP_APPROVAL"}
BY NullAssumption
DEF WorkPlaces, Between, TaskStages, PropagationStages, AgentStages, HumanGates,
    Stage

\* With the same items, no task current and as much held back, no more is ready.
LEMMA NoMoreReady ==
  ASSUME NEW s, WellFormed(s), Rests(s), NEW x, WellFormed(x), x.task = Null,
         x.items = s.items, HeldBack(s) \subseteq HeldBack(x),
         AuthorityDirect(x) = AuthorityDirect(s)
  PROVE  Rests(x)
<1>1. /\ ReadyWork(s) = {t \in Task : MayStart(s, t)}
      /\ ReadyWork(x) = {t \in Task : MayStart(x, t)}
  BY ReadyWorkIs
<1>2. Kept(x) = Kept(s)
  BY DEF Kept, Done
<1>3. ASSUME NEW t \in Task, MayStart(x, t) PROVE MayStart(s, t)
  BY <1>2, <1>3, TaskAssumption DEF MayStart, IsActiveTask, Rests
<1> QED BY <1>1, <1>3 DEF Rests

LEMMA RecomputeReadies ==
  ASSUME NEW s, WellFormed(s), ReadyWork(s) = {}
  PROVE  ReadyWork(Recompute(s)) = {}
<1> DEFINE r == Recompute(s)
<1>1. WellFormed(r) /\ HeldBack(r) = HeldBack(s)
  BY RecomputeWellFormed, RecomputeFields, SameBlockers
<1>2. ReadyWork(r) = {t \in Task : MayStart(r, t)}
  BY <1>1, ReadyWorkIs
<1>3. ReadyWork(s) = {t \in Task : MayStart(s, t)}
  BY ReadyWorkIs
<1>4. ASSUME NEW t \in Task, MayStart(r, t) PROVE MayStart(s, t)
  <2>1. /\ t \notin HeldBack(s) /\ r.items[t] \in Resumable
        /\ Dependencies[t] \subseteq Kept(r)
    BY <1>1, <1>4 DEF MayStart
  <2> QED BY <2>1, RecomputeStartsNoMore
<1> QED BY <1>2, <1>3, <1>4

\* The status computed for a task is one of work only for the current task or
\* one marked before.
LEMMA RecomputedMarks ==
  ASSUME NEW s, WellFormed(s), NEW t \in Task,
         RecomputedStatus(s, t) \in {"RUNNING", "REQUIRES_PATCH"}
  PROVE  IsActiveTask(s, t) \/ t \in Marked(s)
BY DEF RecomputedStatus, AffectedStatus, UnfinishedStatus, Marked, Resumable

LEMMA RecomputeAccounted ==
  ASSUME NEW s, WellFormed(s), Accounted(s)
  PROVE  WellFormed(Recompute(s)) /\ Accounted(Recompute(s))
<1> DEFINE r == Recompute(s)
<1>1. /\ WellFormed(r) /\ r.stage = s.stage /\ r.task = s.task
      /\ r.code = s.code /\ r.blocked = s.blocked
      /\ r.decisions = s.decisions /\ r.changes = s.changes
      /\ r.propagation = s.propagation /\ r.change = s.change
      /\ \A t \in Task : r.items[t] = RecomputedStatus(s, t)
  BY RecomputeWellFormed, RecomputeFields
<1>2. Done(r) = Kept(s) /\ (ReadyWork(s) = {} => ReadyWork(r) = {})
  BY RecomputeKeeps, RecomputeReadies
<1> HIDE DEF r
<1>3. Place(r) = Place(s)
  BY <1>1 DEF Place
<1>4. /\ PendingDecisions(r) = PendingDecisions(s)
      /\ OpenChanges(r) = OpenChanges(s)
  BY <1>1, SameBlockers
<1>5. MarksCurrent(r)
  <2>1. \A t \in Marked(r) : IsActiveTask(s, t) \/ t \in Marked(s)
    BY <1>1, RecomputedMarks DEF Marked
  <2>2. Marked(r) \subseteq {r.task}
    BY <1>1, <2>1 DEF Accounted, MarksCurrent, IsActiveTask
  <2>3. ASSUME Place(r) = "HUMAN_GROUP_APPROVAL" PROVE Marked(r) = {}
    <3>1. s.stage \notin AgentStages
      BY <1>3, <2>3, GateNames DEF Place
    <3> QED BY <1>3, <2>1, <2>3, <3>1 DEF Accounted, MarksCurrent, IsActiveTask
  <2> QED BY <1>1, <1>3, <2>2, <2>3 DEF Accounted, MarksCurrent
<1>6. CarriesChange(r)
  BY <1>1, <1>4 DEF Accounted, CarriesChange
<1>7. ChangeComesLast(r)
  BY <1>1, <1>2, <1>3, <1>4 DEF Accounted, ChangeComesLast, Rests
<1>8. BlockedForGood(r)
  <2>1. Blocking(r) => Done(r) = Done(s)
    BY <1>1, <1>2
    DEF Accounted, BlockedForGood, Blocking, Kept, AuthorityDirect
  <2> QED BY <1>1, <1>4, <2>1 DEF Accounted, BlockedForGood, Blocking
<1> QED BY <1>1, <1>5, <1>6, <1>7, <1>8 DEF Accounted, r

\* A record at the same place, or stopped there, with the same work is
\* accounted for.
LEMMA PlaceAccounted ==
  ASSUME NEW s, WellFormed(s), Accounted(s), NEW r, WellFormed(r),
         SameWork(s, r), r.task = s.task, Place(r) \in {Place(s), "HARD_STOP"},
         Blocking(r) => Blocking(s), r.code # "WORKFLOW_DIGEST_CHANGED"
  PROVE  Accounted(r)
<1>1. /\ Marked(r) = Marked(s) /\ Done(r) = Done(s)
      /\ PendingDecisions(r) = PendingDecisions(s)
      /\ OpenChanges(r) = OpenChanges(s)
  BY SameBlockers DEF SameWork, Marked, Done
<1>2. Rests(s) => Rests(r)
  BY SameBlockers, NoMoreReady DEF SameWork, Rests
<1>3. MarksCurrent(r)
  BY <1>1, PlaceNames, GateNames DEF Accounted, MarksCurrent
<1>4. CarriesChange(r)
  BY <1>1 DEF Accounted, CarriesChange, SameWork
<1>5. ChangeComesLast(r)
  BY <1>1, <1>2, PlaceNames DEF Accounted, ChangeComesLast, SameWork, Rests
<1>6. BlockedForGood(r)
  BY <1>1 DEF Accounted, BlockedForGood
<1> QED BY <1>3, <1>4, <1>5, <1>6 DEF Accounted

LEMMA StoppedAccounted ==
  ASSUME NEW s, WellFormed(s), Accounted(s), NEW r, Stopped(s, r)
  PROVE  Accounted(r)
<1>1. /\ WellFormed(r) /\ SameWork(s, r) /\ r.task = s.task
      /\ ~Blocking(r) /\ r.code # "WORKFLOW_DIGEST_CHANGED"
  BY DEF Stopped, StopsAt, Blocking, ElsewhereStops
<1>2. Place(r) \in {Place(s), "HARD_STOP"}
  BY DEF Stopped, StopsAt, Place
<1> QED BY <1>1, <1>2, PlaceAccounted

LEMMA SamePlaceAccounted ==
  ASSUME NEW s, WellFormed(s), Accounted(s), NEW r, SamePlace(s, r),
         r.stage = s.stage
  PROVE  Accounted(r)
<1>1. /\ WellFormed(r) /\ SameWork(s, r) /\ r.task = s.task
      /\ r.code = s.code /\ Place(r) = Place(s)
  BY DEF SamePlace, Place
<1>2. /\ Blocking(r) => Blocking(s)
      /\ r.code # "WORKFLOW_DIGEST_CHANGED"
  BY <1>1 DEF Accounted, BlockedForGood, Blocking
<1> QED BY <1>1, <1>2, PlaceAccounted

LEMMA ReopenedAccounted ==
  ASSUME NEW s, WellFormed(s), Accounted(s), NEW r, Reopened(s, r),
         s.blocked # "HARD_STOP"
  PROVE  Accounted(r)
<1>1. /\ WellFormed(r) /\ SameWork(s, r) /\ r.task = s.task /\ r.code = Null
      /\ Place(r) = Place(s) /\ ~Blocking(r)
  BY DEF Reopened, Place, Blocking
<1>2. r.code # "WORKFLOW_DIGEST_CHANGED"
  BY <1>1, NullAssumption DEF StopCode
<1> QED BY <1>1, <1>2, PlaceAccounted

\* Where the scheduler is called from no task is current.
LEMMA BetweenIsFree ==
  ASSUME NEW s, Accounted(s), s.stage \in Between
  PROVE  s.task = Null /\ Marked(s) = {} /\ Place(s) = s.stage
<1>1. Place(s) = s.stage
  BY PlaceNames DEF Place
<1>2. s.task = Null
  BY <1>1, PlaceNames DEF Accounted, MarksCurrent
<1> QED BY <1>1, <1>2, TaskAssumption DEF Accounted, MarksCurrent, Marked

\* schedule selects again what it selected, and keeps the peace.
LEMMA ScheduleRests ==
  ASSUME NEW s, WellFormed(s), Rests(s), s.stage \in Between
  PROVE  Rests(Schedule(s))
<1> DEFINE x == Schedule(s)
<1>1. /\ WellFormed(x) /\ SameCauses(s, x)
      /\ \/ x = Recompute(s) /\ \/ s.stage \in HumanGates
                                \/ s.stage \in AgentStages
         \/ Starts(s, x) \/ Leaves(s, x) \/ Blocks(s, x)
  BY ScheduleOutcome
<1> HIDE DEF x
<1>2. ~Starts(s, x)
  BY ReadyWorkIs DEF Starts, Rests
<1>3. ASSUME Blocks(s, x) PROVE Rests(x)
  <2>1. x.items = Recompute(s).items
    BY <1>1, <1>3, RecomputeWellFormed, RecomputeFields
    DEF Blocks, Recomputed, WellFormed, WorkflowRecord
  <2>2. ReadyWork(Recompute(s)) = {} /\ x.task = Null
    BY <1>3 DEF Blocks, Rests
  <2>3. x.decisions = s.decisions /\ x.changes = s.changes
    BY <1>1 DEF SameCauses
  <2> QED BY <1>1, <2>1, <2>2, <2>3, NothingReadyLater DEF Rests
<1>4. ASSUME Leaves(s, x) PROVE Rests(x)
  BY <1>4 DEF Leaves, Rests
<1> QED BY <1>1, <1>2, <1>3, <1>4, PlaceNames DEF x

LEMMA StartsAccounted ==
  ASSUME NEW s, WellFormed(s), Accounted(s), s.stage \in Between,
         NEW x, WellFormed(x), SameCauses(s, x), Starts(s, x)
  PROVE  Accounted(x)
<1>1. /\ s.task = Null /\ Marked(s) = {}
  BY BetweenIsFree
<1>2. /\ x.task \in Task /\ MayStart(s, x.task) /\ x.stage = "TASK_EXECUTION"
      /\ x.code = s.code
      /\ \A t \in Task \ {x.task} : x.items[t] = RecomputedStatus(s, t)
  BY DEF Starts
<1>3. /\ PendingDecisions(x) = PendingDecisions(s)
      /\ OpenChanges(x) = OpenChanges(s)
  BY SameBlockers DEF SameCauses
<1>4. ~Rests(s)
  BY <1>2, ReadyWorkIs DEF Rests
<1>5. Place(x) = "TASK_EXECUTION" /\ "TASK_EXECUTION" \in TaskStages /\ ~Blocking(x)
  BY <1>2 DEF Place, TaskStages, Blocking
<1>6. Marked(x) \subseteq {x.task}
  <2> SUFFICES ASSUME NEW t \in Marked(x), t # x.task PROVE FALSE
    OBVIOUS
  <2>1. t \in Task /\ RecomputedStatus(s, t) \in {"RUNNING", "REQUIRES_PATCH"}
    BY <1>2 DEF Marked
  <2>2. IsActiveTask(s, t) \/ t \in Marked(s)
    BY <2>1, RecomputedMarks
  <2> QED BY <1>1, <2>1, <2>2, TaskAssumption DEF IsActiveTask
<1>7. MarksCurrent(x)
  BY <1>2, <1>5, <1>6, TaskAssumption DEF MarksCurrent, WorkPlaces
<1>8. CarriesChange(x)
  BY <1>3 DEF Accounted, CarriesChange, SameCauses
<1>9. ChangeComesLast(x)
  BY <1>2, <1>3, <1>4, TaskAssumption DEF Accounted, ChangeComesLast, SameCauses
<1>10. BlockedForGood(x)
  BY <1>2, <1>5 DEF Accounted, BlockedForGood
<1> QED BY <1>7, <1>8, <1>9, <1>10 DEF Accounted

\* Recomputing marks nothing where nothing is current or marked.
LEMMA RecomputedIsUnmarked ==
  ASSUME NEW s, WellFormed(s), s.task = Null, Marked(s) = {},
         NEW x, Recomputed(s, x)
  PROVE  Marked(x) = {}
<1> SUFFICES ASSUME NEW t \in Marked(x) PROVE FALSE
  OBVIOUS
<1>1. t \in Task /\ RecomputedStatus(s, t) \in {"RUNNING", "REQUIRES_PATCH"}
  BY DEF Marked, Recomputed
<1>2. IsActiveTask(s, t) \/ t \in Marked(s)
  BY <1>1, RecomputedMarks
<1> QED BY <1>1, <1>2, TaskAssumption DEF IsActiveTask

LEMMA LeavesAccounted ==
  ASSUME NEW s, WellFormed(s), Accounted(s), s.stage \in Between,
         NEW x, WellFormed(x), SameCauses(s, x), Leaves(s, x)
  PROVE  Accounted(x)
<1>1. s.task = Null /\ Marked(s) = {}
  BY BetweenIsFree
<1>2. /\ Recomputed(s, x) /\ Rests(x) /\ x.code = s.code
      /\ \/ x.stage \in {"WAITING_FOR_HUMAN", "WAITING_FOR_AUTHORITY_CHANGE",
                         "FINAL_VERIFICATION"}
         \/ \E c \in RunnablePropagation(s) : x.stage = s.propagation[c].next
  BY DEF Leaves, Rests
<1>3. /\ PendingDecisions(x) = PendingDecisions(s)
      /\ OpenChanges(x) = OpenChanges(s)
  BY SameBlockers DEF SameCauses
<1>4. Marked(x) = {}
  BY <1>1, <1>2, RecomputedIsUnmarked
<1>5. /\ x.stage \in Between \cup PropagationStages \cup {"FINAL_VERIFICATION"}
      /\ x.stage = "PLAN_REVISION_REVIEW" =>
           /\ s.change # Null
           /\ s.propagation[s.change].next = "PLAN_REVISION_REVIEW"
  <2>1. CASE x.stage \in {"WAITING_FOR_HUMAN", "WAITING_FOR_AUTHORITY_CHANGE",
                          "FINAL_VERIFICATION"}
    BY <2>1 DEF Between
  <2>2. CASE \E c \in RunnablePropagation(s) : x.stage = s.propagation[c].next
    <3>1. PICK c \in RunnablePropagation(s) : x.stage = s.propagation[c].next
      BY <2>2
    <3>2. c \in Change /\ s.propagation[c].status = "RUNNING"
          /\ x.stage \in PropagationStages
      BY <3>1
      DEF RunnablePropagation, WellFormed, WorkflowRecord, PropagationRecord
    <3>3. s.change = c
      BY <3>2 DEF Accounted, CarriesChange
    <3> QED BY <3>1, <3>2, <3>3, DecisionAssumption
  <2> QED BY <1>2, <2>1, <2>2
<1>6. Place(x) = x.stage /\ x.stage # "HARD_STOP" /\ ~Blocking(x)
  BY <1>5, PlaceNames DEF Place, Blocking
<1>7. MarksCurrent(x)
  BY <1>2, <1>4, <1>5, <1>6, PlaceNames
  DEF MarksCurrent, Rests, Between, TaskStages
<1>8. CarriesChange(x)
  BY <1>3 DEF Accounted, CarriesChange, SameCauses
<1>9. ChangeComesLast(x)
  BY <1>2, <1>5, <1>6 DEF ChangeComesLast, Rests, SameCauses
<1>10. BlockedForGood(x)
  BY <1>2, <1>6 DEF Accounted, BlockedForGood
<1> QED BY <1>7, <1>8, <1>9, <1>10 DEF Accounted

\* When schedule declares the workflow blocked, every task that is not done
\* waits for one it depends on: no mark of an Agent hides it.
LEMMA BlocksAccounted ==
  ASSUME NEW s, WellFormed(s), Accounted(s), s.stage \in Between,
         NEW x, WellFormed(x), SameCauses(s, x), Blocks(s, x)
  PROVE  Accounted(x)
<1> DEFINE r == Recompute(s)
<1>1. s.task = Null /\ Marked(s) = {}
  BY BetweenIsFree
<1>2. /\ Recomputed(s, x) /\ ReadyWork(r) = {} /\ x.task = s.task
      /\ x.stage = "HARD_STOP" /\ x.blocked = s.stage
      /\ x.code = "DEPENDENCY_BLOCKED"
      /\ PendingDecisions(s) = {} /\ OpenChanges(s) = {}
      /\ RunnablePropagation(s) = {}
  BY DEF Blocks
<1>3. /\ PendingDecisions(x) = PendingDecisions(s)
      /\ OpenChanges(x) = OpenChanges(s)
  BY SameBlockers DEF SameCauses
<1>4. Marked(x) = {}
  BY <1>1, <1>2, RecomputedIsUnmarked
<1>5. Place(x) \in Between
  BY <1>2 DEF Place
<1>6. \A c \in Change : s.propagation[c].next = Null
  BY <1>2 DEF Accounted, CarriesChange, RunnablePropagation
<1>7. MarksCurrent(x)
  BY <1>1, <1>2, <1>4, <1>5, PlaceNames DEF MarksCurrent, WorkPlaces
<1>8. CarriesChange(x)
  BY <1>3 DEF Accounted, CarriesChange, SameCauses
<1>9. ChangeComesLast(x)
  BY <1>2, <1>3, <1>5, <1>6, PlaceNames DEF ChangeComesLast, SameCauses
<1>10. ASSUME NEW t \in Task \ Done(x), Dependencies[t] \subseteq Done(x)
       PROVE  FALSE
  <2>1. /\ WellFormed(r) /\ r.stage = s.stage /\ HeldBack(r) = HeldBack(s)
        /\ OpenChanges(r) = OpenChanges(s)
        /\ r.items[t] = RecomputedStatus(s, t)
    BY RecomputeWellFormed, RecomputeFields, SameBlockers
  <2>2. Done(r) = Kept(s) /\ Done(x) = Kept(s)
        /\ x.items[t] = RecomputedStatus(s, t)
    BY <1>2, <1>10, RecomputeKeeps DEF Recomputed
  <2>3. ReadyWork(r) = {u \in Task : MayStart(r, u)}
    BY <2>1, ReadyWorkIs
  <2> HIDE DEF r
  <2>4. HeldBack(s) = {} /\ AuthorityDirect(s) = {}
    BY <1>2
    DEF HeldBack, DecisionDirect, DecisionDependent, AuthorityDirect,
        AuthorityDependent
  <2>5. r.items[t] \in Resumable
    <3>1. r.items[t] # "COMPLETED"
      BY <1>10, <2>1, <2>2 DEF Done
    <3>2. r.items[t] \notin {"RUNNING", "REQUIRES_PATCH"}
      BY <1>4, <1>10, <2>1, <2>2 DEF Marked
    <3>3. r.items[t] \in ItemStatus
      BY <1>10, <2>1 DEF WellFormed, WorkflowRecord
    <3> QED BY <3>1, <3>2, <3>3 DEF ItemStatus, Resumable
  <2>6. Kept(r) = Done(r)
    BY <1>2, <2>1 DEF Kept, AuthorityDirect
  <2>7. MayStart(r, t)
    BY <1>10, <2>1, <2>2, <2>4, <2>5, <2>6, PlaceNames
    DEF MayStart, IsActiveTask
  <2> QED BY <1>2, <1>10, <2>3, <2>7
<1>11. BlockedForGood(x)
  BY <1>2, <1>3, <1>10 DEF BlockedForGood
<1> QED BY <1>7, <1>8, <1>9, <1>11 DEF Accounted

LEMMA ScheduleAccounted ==
  ASSUME NEW s, WellFormed(s), Accounted(s), s.stage \in Between
  PROVE  /\ WellFormed(Schedule(s)) /\ Accounted(Schedule(s))
         /\ Accounted(Recompute(Schedule(s)))
<1> DEFINE x == Schedule(s)
<1>1. /\ WellFormed(x) /\ SameCauses(s, x)
      /\ \/ x = Recompute(s) /\ \/ s.stage \in HumanGates
                                \/ s.stage \in AgentStages
         \/ Starts(s, x) \/ Leaves(s, x) \/ Blocks(s, x)
  BY ScheduleOutcome
<1> HIDE DEF x
<1>2. Starts(s, x) \/ Leaves(s, x) \/ Blocks(s, x)
  BY <1>1, PlaceNames
<1>3. Accounted(x)
  BY <1>1, <1>2, StartsAccounted, LeavesAccounted, BlocksAccounted
<1> QED BY <1>1, <1>3, RecomputeAccounted DEF x

\* An Agent is started at its stage on the current task, which is marked.
LEMMA InvokeAccounted ==
  ASSUME NEW s, WellFormed(s), Accounted(s), s.stage \in AgentStages, ~s.run
  PROVE  Accounted(Invoke(s))
<1> DEFINE r == Invoke(s)
<1>1. /\ WellFormed(r) /\ r.stage = s.stage /\ r.task = s.task
      /\ r.blocked = s.blocked /\ r.code = s.code
      /\ r.decisions = s.decisions /\ r.changes = s.changes
      /\ r.propagation = s.propagation /\ r.change = s.change
      /\ \A t \in Task : t # s.task => r.items[t] = s.items[t]
  BY InvokeFields
<1> HIDE DEF r
<1>2. Place(r) = s.stage /\ Place(s) = s.stage /\ ~Blocking(r)
  BY <1>1, StagesDisjoint DEF Place, Blocking
<1>3. /\ PendingDecisions(r) = PendingDecisions(s)
      /\ OpenChanges(r) = OpenChanges(s)
  BY <1>1, SameBlockers
<1>4. /\ Rests(s) => Rests(r)
      /\ s.task = Null /\ ReadyWork(s) = {} => ReadyWork(r) = {}
  <2> SUFFICES ASSUME Rests(s) PROVE Rests(r)
    BY DEF Rests
  <2>1. r.items = s.items
    BY <1>1, TaskAssumption DEF Rests, WellFormed, WorkflowRecord
  <2> QED BY <1>1, <2>1, SameBlockers, NoMoreReady DEF Rests
<1>5. MarksCurrent(r)
  <2>1. Marked(r) \subseteq {r.task}
    BY <1>1 DEF Accounted, MarksCurrent, Marked
  <2>2. Place(r) # "HUMAN_GROUP_APPROVAL"
    BY <1>2, GateNames
  <2> QED BY <1>1, <1>2, <2>1, <2>2 DEF Accounted, MarksCurrent
<1>6. CarriesChange(r)
  BY <1>1, <1>3 DEF Accounted, CarriesChange
<1>7. ChangeComesLast(r)
  BY <1>1, <1>2, <1>3, <1>4 DEF Accounted, ChangeComesLast
<1>8. BlockedForGood(r)
  BY <1>1, <1>2 DEF Accounted, BlockedForGood
<1> QED BY <1>5, <1>6, <1>7, <1>8 DEF Accounted, r

\* A change that is not analysed carries no propagation, and nothing else does.
LEMMA NothingCarried ==
  ASSUME NEW s, WellFormed(s), Accounted(s), NEW c \in Unanalyzed(s)
  PROVE  /\ c \in Change /\ c = candidate /\ PendingDecisions(s) = {}
         /\ \A b \in Change : /\ s.propagation[b].next = Null
                              /\ s.propagation[b].status # "RUNNING"
BY DEF Unanalyzed, Accounted, CarriesChange

LEMMA DetectedAccounted ==
  ASSUME NEW s, WellFormed(s), Accounted(s), NEW c \in Unanalyzed(s), NEW x,
         Detected(s, c, x), Marked(x) = {}
  PROVE  Accounted(x)
<1>1. /\ c \in Change /\ c = candidate /\ PendingDecisions(s) = {}
      /\ \A b \in Change : /\ s.propagation[b].next = Null
                           /\ s.propagation[b].status # "RUNNING"
  BY NothingCarried
<1>2. /\ x.stage = "AUTHORITY_CHANGE_ANALYSIS" /\ x.task = Null /\ x.code = Null
      /\ x.decisions = s.decisions /\ x.propagation = s.propagation
      /\ x.changes = [s.changes EXCEPT ![c].status = "CHANGE_PENDING"]
  BY DEF Detected
<1>3. PendingDecisions(x) = {}
  BY <1>1, <1>2 DEF PendingDecisions
<1>4. OpenChanges(x) \subseteq {candidate}
  <2>1. s.changes \in [Change -> ChangeRecord]
    BY DEF WellFormed, WorkflowRecord
  <2>2. \A b \in Change \ {c} : x.changes[b] = s.changes[b]
    BY <1>2, <2>1
  <2> QED BY <1>1, <2>2 DEF Accounted, CarriesChange, OpenChanges
<1>5. Place(x) = "AUTHORITY_CHANGE_ANALYSIS" /\ ~Blocking(x)
  BY <1>2 DEF Place, Blocking
<1>6. MarksCurrent(x)
  BY <1>2, <1>5, PlaceNames DEF MarksCurrent, WorkPlaces
<1>7. CarriesChange(x)
  BY <1>1, <1>2, <1>3, <1>4 DEF CarriesChange
<1>8. ChangeComesLast(x)
  BY <1>1, <1>2, <1>3, <1>5, PlaceNames DEF ChangeComesLast
<1>9. BlockedForGood(x)
  BY <1>2, <1>5, NullAssumption DEF BlockedForGood, StopCode
<1> QED BY <1>6, <1>7, <1>8, <1>9 DEF Accounted

\* What a record that is handed over has to be accounted for.
LEMMA HandedAccounted ==
  ASSUME NEW x, Handed(x), Marked(x) = {}, CarriesChange(x),
         \A c \in Change :
           x.propagation[c].next \notin {Null, "CHANGE_PROPAGATION_PLANNING"}
             => Rests(x),
         PendingDecisions(x) # {} => Rests(x),
         x.code # "WORKFLOW_DIGEST_CHANGED"
  PROVE  /\ WellFormed(x) /\ Accounted(x) /\ x.stage \in Between
         /\ Accounted(Schedule(x)) /\ Accounted(Recompute(Schedule(x)))
<1>1. /\ WellFormed(x) /\ x.stage = "READY" /\ x.task = Null
      /\ Place(x) = "READY" /\ ~Blocking(x) /\ "READY" \in Between
  BY DEF Handed, Place, Blocking, Between
<1>2. MarksCurrent(x)
  BY <1>1, PlaceNames DEF MarksCurrent, WorkPlaces
<1>3. ChangeComesLast(x)
  BY <1>1, PlaceNames DEF ChangeComesLast
<1>4. BlockedForGood(x)
  BY <1>1 DEF BlockedForGood
<1>5. Accounted(x)
  BY <1>2, <1>3, <1>4 DEF Accounted
<1> QED BY <1>1, <1>5, ScheduleAccounted

LEMMA AnalyzedAccounted ==
  ASSUME Question = {}, NEW s, WellFormed(s), Accounted(s),
         s.stage = "AUTHORITY_CHANGE_ANALYSIS", NEW c \in Unanalyzed(s),
         NEW a \in Analysis(Scopes, Question)
  PROVE  Accounted(ApplyAnalysis(s, c, a))
<1>1. /\ c \in Change /\ c = candidate /\ PendingDecisions(s) = {}
      /\ \A b \in Change : /\ s.propagation[b].next = Null
                           /\ s.propagation[b].status # "RUNNING"
  BY NothingCarried
<1>2. PICK x : /\ Analyzed(s, c, a, x)
               /\ ApplyAnalysis(s, c, a) = Schedule(Recompute(x))
  BY <1>1, AnalysisHandsOver
<1>3. /\ Handed(x) /\ x.items = s.items /\ x.code = Null
      /\ x.changes = [s.changes EXCEPT ![c] = AnalyzedChange(a)]
  BY <1>2 DEF Analyzed
<1>4. Marked(x) = {}
  <2>1. Place(s) = "AUTHORITY_CHANGE_ANALYSIS"
    BY DEF Place
  <2>2. Marked(s) = {}
    BY <2>1, PlaceNames, TaskAssumption DEF Accounted, MarksCurrent, Marked
  <2> QED BY <1>3, <2>2 DEF Marked
<1>5. PendingDecisions(x) = {}
  <2>1. a.questions = {}
    BY DEF Analysis
  <2>2. \A d \in Decision : x.decisions[d] = s.decisions[d]
    BY <1>2, <2>1 DEF Analyzed, Asks
  <2> QED BY <1>1, <2>2 DEF PendingDecisions
<1>6. /\ \A b \in Change \ {c} : /\ x.changes[b] = s.changes[b]
                                 /\ x.propagation[b] = s.propagation[b]
      /\ x.changes[c] = AnalyzedChange(a)
  <2>1. /\ s.changes \in [Change -> ChangeRecord]
        /\ s.propagation \in [Change -> PropagationRecord]
    BY DEF WellFormed, WorkflowRecord
  <2> QED BY <1>1, <1>2, <2>1 DEF Analyzed
<1>7. \/ /\ x.propagation[c].next = "CHANGE_PROPAGATION_PLANNING"
         /\ x.propagation[c].status = "RUNNING" /\ x.change = c
         /\ x.changes[c].status = "PROPAGATING"
      \/ x.propagation[c] = s.propagation[c]
  <2>1. s.propagation \in [Change -> PropagationRecord]
    BY DEF WellFormed, WorkflowRecord
  <2>2. CASE AnalyzedChange(a).status = "PROPAGATING"
    <3>1. /\ x.propagation[c] = NewPropagation(AnalyzedChange(a))
          /\ x.change = c
      BY <1>1, <1>2, <2>1, <2>2 DEF Analyzed
    <3> QED BY <1>6, <2>2, <3>1 DEF NewPropagation
  <2>3. CASE AnalyzedChange(a).status # "PROPAGATING"
    BY <1>1, <1>2, <2>1, <2>3 DEF Analyzed
  <2> QED BY <2>2, <2>3
<1>8. OpenChanges(x) \subseteq {candidate}
  BY <1>1, <1>6 DEF Accounted, CarriesChange, OpenChanges
<1>9. x.changes[c].analyzed
  BY <1>6 DEF AnalyzedChange
<1>10. CarriesChange(x)
  BY <1>1, <1>5, <1>6, <1>7, <1>8, <1>9 DEF CarriesChange, OpenChanges
<1>11. \A b \in Change :
         x.propagation[b].next \in {Null, "CHANGE_PROPAGATION_PLANNING"}
  BY <1>1, <1>6, <1>7
<1>12. x.code # "WORKFLOW_DIGEST_CHANGED"
  BY <1>3, NullAssumption DEF StopCode
<1>13. /\ WellFormed(x) /\ Accounted(x) /\ x.stage \in Between
  BY <1>3, <1>4, <1>5, <1>10, <1>11, <1>12, HandedAccounted
<1>14. /\ WellFormed(Recompute(x)) /\ Accounted(Recompute(x))
       /\ Recompute(x).stage \in Between
  BY <1>13, RecomputeAccounted, RecomputeFields
<1> QED BY <1>2, <1>14, ScheduleAccounted

\* A stage of a propagation is worked on without a task and with nothing ready,
\* for the open change, of which nothing is offered yet.
LEMMA OwnedAtRest ==
  ASSUME NEW s, WellFormed(s), Accounted(s), OwnsStage(s), PropagationActive(s)
  PROVE  /\ Rests(s) /\ Marked(s) = {} /\ PendingDecisions(s) = {}
         /\ s.change \in Change /\ s.stage \in PropagationStages
         /\ s.propagation[s.change].status = "RUNNING"
         /\ s.change \in OpenChanges(s) /\ s.changes[s.change].analyzed
         /\ \A b \in Change \ {s.change} :
              /\ s.propagation[b].next = Null
              /\ s.propagation[b].status # "RUNNING"
<1>1. /\ s.change \in Change /\ s.stage \in PropagationStages
      /\ s.propagation[s.change].status = "RUNNING"
  BY DEF OwnsStage, PropagationActive, WellFormed, WorkflowRecord
<1>2. Place(s) = s.stage
  BY <1>1, PlaceNames DEF Place
<1>3. s.task = Null
  <2> SUFFICES ASSUME s.task # Null PROVE FALSE
    OBVIOUS
  <2>1. s.stage = "PLAN_REVISION_REVIEW"
    BY <1>1, <1>2, PlaceNames DEF Accounted, MarksCurrent
  <2>2. s.propagation[s.change].next = "PLAN_REVISION_REVIEW"
    BY <2>1 DEF OwnsStage
  <2>3. Rests(s)
    BY <1>1, <1>2, <2>1, <2>2, PlaceNames DEF Accounted, ChangeComesLast
  <2> QED BY <2>3 DEF Rests
<1>4. Rests(s)
  BY <1>1, <1>2, <1>3 DEF Accounted, ChangeComesLast, Rests
<1>5. Marked(s) = {}
  BY <1>3, TaskAssumption DEF Accounted, MarksCurrent, Marked
<1>6. /\ s.change \in OpenChanges(s) /\ s.changes[s.change].analyzed
      /\ OpenChanges(s) = {s.change}
  BY <1>1 DEF Accounted, CarriesChange
<1>7. /\ PendingDecisions(s) = {}
      /\ \A b \in Change \ {s.change} : /\ s.propagation[b].next = Null
                                        /\ s.propagation[b].status # "RUNNING"
  BY <1>1, <1>6 DEF Accounted, CarriesChange
<1> QED BY <1>1, <1>4, <1>5, <1>6, <1>7

\* What the handlers of a propagation hand over: its next stage, or the offer.
LEMMA CarriedOn ==
  ASSUME NEW s, WellFormed(s), Accounted(s), OwnsStage(s), PropagationActive(s),
         NEW x, Handed(x), x.items = s.items, x.code = s.code, SameScope(s, x),
         x.change = s.change,
         \A b \in Change \ {s.change} : x.propagation[b] = s.propagation[b],
         \/ /\ x.propagation[s.change].status = "RUNNING"
            /\ PendingDecisions(x) = {}
         \/ /\ x.propagation[s.change].status = "WAITING_PROMOTION"
            /\ x.propagation[s.change].next = Null
            /\ \A d \in PendingDecisions(x) :
                 /\ d = s.change
                 /\ x.decisions[d].source = "TASK_REBASE_ANALYSIS"
  PROVE  Accounted(Schedule(x))
<1>1. /\ Rests(s) /\ Marked(s) = {} /\ PendingDecisions(s) = {}
      /\ s.change \in Change
      /\ s.change \in OpenChanges(s) /\ s.changes[s.change].analyzed
      /\ \A b \in Change \ {s.change} : /\ s.propagation[b].next = Null
                                        /\ s.propagation[b].status # "RUNNING"
  BY OwnedAtRest
<1>2. /\ OpenChanges(x) = OpenChanges(s)
      /\ AuthorityDirect(x) = AuthorityDirect(s)
      /\ AuthorityDependent(x) = AuthorityDependent(s)
      /\ x.changes[s.change].analyzed
  BY <1>1, SameScopeOpen DEF SameScope
<1>3. Rests(x)
  <2>1. HeldBack(s) \subseteq HeldBack(x)
    BY <1>1, <1>2 DEF HeldBack, DecisionDirect, DecisionDependent
  <2> QED BY <1>1, <1>2, <2>1, NoMoreReady DEF Handed
<1>4. CarriesChange(x)
  BY <1>1, <1>2 DEF Accounted, CarriesChange
<1>5. Marked(x) = {}
  BY <1>1 DEF Marked
<1>6. x.code # "WORKFLOW_DIGEST_CHANGED"
  BY DEF Accounted, BlockedForGood
<1> QED BY <1>3, <1>4, <1>5, <1>6, HandedAccounted

LEMMA PropagationAccounted ==
  ASSUME NEW s, WellFormed(s), Accounted(s), OwnsStage(s), PropagationActive(s)
  PROVE  /\ Accounted(AdvancePropagation(s))
         /\ s.stage \in DOMAIN RevisionOf => Accounted(ReviseAgain(s))
<1>1. /\ PendingDecisions(s) = {} /\ s.change \in Change
      /\ s.propagation[s.change].status = "RUNNING"
  BY OwnedAtRest
<1>2. s.propagation \in [Change -> PropagationRecord]
  BY DEF WellFormed, WorkflowRecord
<1>3. ASSUME NEW x, NEW stage, Handed(x), x.items = s.items, x.code = s.code,
             SameScope(s, x), x.change = s.change, x.decisions = s.decisions,
             x.propagation = [s.propagation EXCEPT ![s.change].next = stage]
      PROVE  Accounted(Schedule(x))
  <2>1. /\ x.propagation[s.change].status = "RUNNING"
        /\ \A b \in Change \ {s.change} : x.propagation[b] = s.propagation[b]
    BY <1>1, <1>2, <1>3 DEF PropagationRecord
  <2>2. PendingDecisions(x) = {}
    BY <1>1, <1>3 DEF PendingDecisions
  <2> QED BY <1>3, <2>1, <2>2, CarriedOn
<1>4. ASSUME NEW x, Propagated(s, x)
      PROVE  Accounted(Schedule(x))
  <2>1. /\ Handed(x) /\ x.items = s.items /\ x.code = s.code /\ SameScope(s, x)
        /\ x.change = s.change
        /\ x.propagation = [s.propagation EXCEPT
                              ![s.change].status = "WAITING_PROMOTION",
                              ![s.change].next = Null]
    BY <1>4 DEF Propagated
  <2>2. /\ x.propagation[s.change].status = "WAITING_PROMOTION"
        /\ x.propagation[s.change].next = Null
        /\ \A b \in Change \ {s.change} : x.propagation[b] = s.propagation[b]
    BY <1>1, <1>2, <2>1 DEF PropagationRecord
  <2>3. ASSUME NEW d \in PendingDecisions(x)
        PROVE  d = s.change /\ x.decisions[d].source = "TASK_REBASE_ANALYSIS"
    BY <1>1, <1>4, <2>3 DEF Propagated, Asks, PendingDecisions
  <2> QED BY <2>1, <2>2, <2>3, CarriedOn
<1>5. Accounted(AdvancePropagation(s))
  <2>1. CASE CompletesPropagation(s)
    <3>1. PICK x : Propagated(s, x) /\ AdvancePropagation(s) = Schedule(x)
      BY <1>1, <2>1, CompletionHandsOver
    <3> QED BY <1>4, <3>1
  <2>2. CASE ~CompletesPropagation(s)
    <3>1. PICK x : Advanced(s, x) /\ AdvancePropagation(s) = Schedule(x)
      BY <1>1, <2>2, AdvanceHandsOver
    <3> QED BY <1>3, <3>1 DEF Advanced
  <2> QED BY <2>1, <2>2
<1>6. ASSUME s.stage \in DOMAIN RevisionOf PROVE Accounted(ReviseAgain(s))
  <2>1. PICK x : SentBack(s, x) /\ ReviseAgain(s) = Schedule(x)
    BY <1>1, <1>6, RevisionHandsOver
  <2>2. SameScope(s, x)
    BY <2>1, SameChanges DEF SentBack
  <2> QED BY <1>3, <2>1, <2>2 DEF SentBack
<1> QED BY <1>5, <1>6

\* An answer, or a promotion, settles the one decision that was pending.
LEMMA PendingIsOffered ==
  ASSUME NEW s, WellFormed(s), Accounted(s), NEW d \in PendingDecisions(s)
  PROVE  /\ Rests(s) /\ Marked(s) = {} /\ d \in Change /\ d = candidate
         /\ PendingDecisions(s) = {d} /\ OpenChanges(s) = {d}
         /\ s.decisions[d].source = "TASK_REBASE_ANALYSIS"
         /\ s.propagation[d].status = "WAITING_PROMOTION"
         /\ \A b \in Change : /\ s.propagation[b].next = Null
                              /\ s.propagation[b].status # "RUNNING"
<1>1. /\ Rests(s) /\ d \in OpenChanges(s)
      /\ s.decisions[d].source = "TASK_REBASE_ANALYSIS"
      /\ s.propagation[d].status = "WAITING_PROMOTION"
  BY DEF Accounted, CarriesChange, ChangeComesLast
<1>2. d \in Change /\ d = candidate /\ OpenChanges(s) = {d}
  BY <1>1 DEF Accounted, CarriesChange, OpenChanges
<1>3. /\ PendingDecisions(s) = {d}
      /\ \A b \in Change : /\ s.propagation[b].next = Null
                           /\ s.propagation[b].status # "RUNNING"
  BY <1>1, <1>2 DEF Accounted, CarriesChange
<1>4. Marked(s) = {}
  BY <1>1, TaskAssumption DEF Accounted, MarksCurrent, Marked, Rests
<1> QED BY <1>1, <1>2, <1>3, <1>4

LEMMA DecidedAccounted ==
  ASSUME NEW s, WellFormed(s), Accounted(s), NEW d \in PendingDecisions(s)
  PROVE  Accounted(ResolveDecision(s, d))
<1>1. /\ Rests(s) /\ Marked(s) = {} /\ d \in Change
      /\ PendingDecisions(s) = {d}
      /\ s.decisions[d].source = "TASK_REBASE_ANALYSIS"
      /\ \A b \in Change : /\ s.propagation[b].next = Null
                           /\ s.propagation[b].status # "RUNNING"
  BY PendingIsOffered
<1>2. PICK x : DecidedOn(s, d, x) /\ ResolveDecision(s, d) = Schedule(x)
  BY AnswerHandsOver DEF PendingDecisions
<1>3. /\ Handed(x) /\ x.items = s.items /\ x.code = s.code
      /\ x.changes = s.changes /\ x.propagation = s.propagation
      /\ x.decisions = [s.decisions EXCEPT ![d].status = "RESOLVED"]
  BY <1>1, <1>2 DEF DecidedOn
<1>4. PendingDecisions(x) = {}
  <2>1. s.decisions \in [Decision -> DecisionRecord]
    BY DEF WellFormed, WorkflowRecord
  <2>2. /\ \A e \in Decision \ {d} : x.decisions[e] = s.decisions[e]
        /\ x.decisions[d].status = "RESOLVED"
    BY <1>1, <1>3, <2>1 DEF Decision, DecisionRecord
  <2> QED BY <1>1, <2>2 DEF PendingDecisions
<1>5. CarriesChange(x)
  BY <1>1, <1>3, <1>4 DEF Accounted, CarriesChange, OpenChanges
<1>6. Marked(x) = {} /\ x.code # "WORKFLOW_DIGEST_CHANGED"
  BY <1>1, <1>3 DEF Marked, Accounted, BlockedForGood
<1> QED BY <1>1, <1>2, <1>3, <1>4, <1>5, <1>6, HandedAccounted

LEMMA PromotedAccounted ==
  ASSUME NEW s, WellFormed(s), Accounted(s),
         NEW c \in PendingDecisions(s) \cap Change,
         NEW first \in Task \cup {Null}
  PROVE  Accounted(ResolvePromotion(s, c, first))
<1>1. /\ Marked(s) = {} /\ c = candidate
      /\ PendingDecisions(s) = {c} /\ OpenChanges(s) = {c}
      /\ \A b \in Change : /\ s.propagation[b].next = Null
                           /\ s.propagation[b].status # "RUNNING"
  BY PendingIsOffered
<1>2. PICK x : /\ Promoted(s, c, first, x)
               /\ ResolvePromotion(s, c, first)
                    = IF first = Null THEN Schedule(x) ELSE x
  BY PromotionFields
<1>3. /\ WellFormed(x) /\ x.task = first /\ x.items = s.items /\ x.code = s.code
      /\ first = Null => Handed(x)
      /\ first # Null => x.stage = "TASK_PATCH"
      /\ x.changes = [s.changes EXCEPT ![c].status = "PROMOTED"]
      /\ x.propagation = [s.propagation EXCEPT ![c].status = "PROMOTED"]
      /\ x.decisions = [s.decisions EXCEPT ![c].status = "RESOLVED"]
  BY <1>2 DEF Promoted
<1>4. PendingDecisions(x) = {}
  <2>1. s.decisions \in [Decision -> DecisionRecord]
    BY DEF WellFormed, WorkflowRecord
  <2>2. /\ \A e \in Decision \ {c} : x.decisions[e] = s.decisions[e]
        /\ x.decisions[c].status = "RESOLVED"
    BY <1>3, <2>1 DEF Decision, DecisionRecord
  <2> QED BY <1>1, <2>2 DEF PendingDecisions
<1>5. OpenChanges(x) = {}
  <2>1. s.changes \in [Change -> ChangeRecord]
    BY DEF WellFormed, WorkflowRecord
  <2>2. /\ \A b \in Change \ {c} : x.changes[b] = s.changes[b]
        /\ x.changes[c].status = "PROMOTED"
    BY <1>3, <2>1 DEF ChangeRecord
  <2> QED BY <1>1, <2>2 DEF OpenChanges
<1>6. \A b \in Change : /\ x.propagation[b].next = Null
                        /\ x.propagation[b].status # "RUNNING"
  <2>1. s.propagation \in [Change -> PropagationRecord]
    BY DEF WellFormed, WorkflowRecord
  <2> QED BY <1>1, <1>3, <2>1 DEF PropagationRecord
<1>7. CarriesChange(x)
  BY <1>4, <1>5, <1>6 DEF CarriesChange
<1>8. Marked(x) = {} /\ x.code # "WORKFLOW_DIGEST_CHANGED"
  BY <1>1, <1>3 DEF Marked, Accounted, BlockedForGood
<1>9. CASE first = Null
  <2>1. Handed(x) /\ ResolvePromotion(s, c, first) = Schedule(x)
    BY <1>2, <1>3, <1>9
  <2>2. Accounted(Schedule(x))
    BY <1>4, <1>6, <1>7, <1>8, <2>1, HandedAccounted
  <2> QED BY <2>1, <2>2
<1>10. CASE first # Null
  <2>1. Place(x) = "TASK_PATCH" /\ ~Blocking(x)
    BY <1>3, <1>10 DEF Place, Blocking
  <2>2. MarksCurrent(x)
    BY <1>3, <1>8, <1>10, <2>1 DEF MarksCurrent, WorkPlaces, TaskStages
  <2>3. ChangeComesLast(x)
    BY <1>3, <1>4, <1>6, <1>10 DEF ChangeComesLast
  <2>4. BlockedForGood(x)
    BY <1>8, <2>1 DEF BlockedForGood
  <2> QED BY <1>2, <1>7, <1>10, <2>2, <2>3, <2>4 DEF Accounted
<1> QED BY <1>9, <1>10

\* Where the transition table goes from a stage, but for an approved review.
Follows(s, r) ==
  /\ r.task = s.task
  /\ \/ StopsAt(s, r) /\ r.code # "RETRY_EXHAUSTED"
     \/ /\ s.stage \in TaskStages \cup {"PLAN_REVISION_REVIEW"}
        /\ r.stage \in WorkPlaces /\ r.code = s.code
     \/ /\ s.stage = "FINAL_VERIFICATION"
        /\ r.stage \in {"HUMAN_FINAL_ACCEPTANCE", "COMPLETED"}
        /\ r.code = s.code

LEMMA TransitionFollows ==
  ASSUME NEW s, WellFormed(s), NEW verdict,
         s.stage = "TASK_INDEPENDENT_REVIEW" => verdict # "APPROVED"
  PROVE  Follows(s, TransitionAfterOutcome(s, verdict))
<1>1. ASSUME NEW code, code \notin ElsewhereStops \cup {"RETRY_EXHAUSTED"}
      PROVE  Follows(s, EnterHardStop(s, code))
  <2> DEFINE r == EnterHardStop(s, code)
  <2>1. /\ r.stage = "HARD_STOP" /\ r.status = "HARD_STOPPED"
        /\ r.task = s.task /\ r.blocked = s.stage /\ r.code = code
    BY DEF EnterHardStop, WellFormed, WorkflowRecord
  <2> HIDE DEF r
  <2>2. Follows(s, r)
    BY <1>1, <2>1 DEF Follows, StopsAt
  <2> QED BY <2>2 DEF r
<1>2. ASSUME s.stage \in TaskStages \cup {"PLAN_REVISION_REVIEW"},
             NEW stage \in WorkPlaces
      PROVE  Follows(s, MoveTo(s, stage)) /\ Follows(s, WaitAtGate(s, stage))
  <2> DEFINE m == MoveTo(s, stage)
             g == WaitAtGate(s, stage)
  <2>1. /\ m.stage = stage /\ m.task = s.task /\ m.code = s.code
        /\ g.stage = stage /\ g.task = s.task /\ g.code = s.code
    BY MoveToFields, WaitAtGateFields
  <2> HIDE DEF m, g
  <2>2. Follows(s, m) /\ Follows(s, g)
    BY <1>2, <2>1 DEF Follows
  <2> QED BY <2>2 DEF m, g
<1>3. ASSUME s.stage = "FINAL_VERIFICATION"
      PROVE  /\ Follows(s, WaitAtGate(s, "HUMAN_FINAL_ACCEPTANCE"))
             /\ Follows(s, [MoveTo(s, "COMPLETED") EXCEPT !.status = "COMPLETED"])
  <2> DEFINE g == WaitAtGate(s, "HUMAN_FINAL_ACCEPTANCE")
             m == [MoveTo(s, "COMPLETED") EXCEPT !.status = "COMPLETED"]
  <2>1. /\ g.stage = "HUMAN_FINAL_ACCEPTANCE" /\ g.task = s.task
        /\ g.code = s.code
    BY WaitAtGateFields
  <2>2. m.stage = "COMPLETED" /\ m.task = s.task /\ m.code = s.code
    BY DEF MoveTo, WellFormed, WorkflowRecord
  <2> HIDE DEF g, m
  <2>3. Follows(s, g) /\ Follows(s, m)
    BY <1>3, <2>1, <2>2 DEF Follows
  <2> QED BY <2>3 DEF g, m
<1>4. {"TASK_INDEPENDENT_REVIEW", "TASK_PATCH", "PLAN_DEFECT_RESOLUTION",
       "PLAN_REVISION_REVIEW", "HUMAN_PLAN_FREEZE"} \subseteq WorkPlaces
  BY DEF WorkPlaces, TaskStages
<1>5. {"BLOCKING_VERDICT", "UNSUPPORTED_VERDICT", "AUTO_PATCH_DISABLED",
       "PLAN_DEFECT_RESOLUTION_DISABLED", "PLAN_REVIEW_PATCH_DISABLED"}
        \cap (ElsewhereStops \cup {"RETRY_EXHAUSTED"}) = {}
  BY DEF ElsewhereStops
<1>6. /\ Follows(s, EnterHardStop(s, "BLOCKING_VERDICT"))
      /\ Follows(s, EnterHardStop(s, "UNSUPPORTED_VERDICT"))
      /\ Follows(s, EnterHardStop(s, "AUTO_PATCH_DISABLED"))
      /\ Follows(s, EnterHardStop(s, "PLAN_DEFECT_RESOLUTION_DISABLED"))
      /\ Follows(s, EnterHardStop(s, "PLAN_REVIEW_PATCH_DISABLED"))
  BY <1>1, <1>5
<1>7. s.stage \in TaskStages \cup {"PLAN_REVISION_REVIEW"} =>
        /\ Follows(s, MoveTo(s, "TASK_INDEPENDENT_REVIEW"))
        /\ Follows(s, MoveTo(s, "TASK_PATCH"))
        /\ Follows(s, MoveTo(s, "PLAN_DEFECT_RESOLUTION"))
        /\ Follows(s, MoveTo(s, "PLAN_REVISION_REVIEW"))
        /\ Follows(s, WaitAtGate(s, "HUMAN_PLAN_FREEZE"))
  BY <1>2, <1>4
<1>8. ProjectMutatingStages \cup {"TASK_INDEPENDENT_REVIEW",
                                  "PLAN_DEFECT_RESOLUTION"} \subseteq TaskStages
  BY DEF ProjectMutatingStages, TaskStages
<1>9. s.stage = "TASK_INDEPENDENT_REVIEW" => Follows(s, AfterReview(s, verdict))
  BY <1>6, <1>7, <1>8 DEF AfterReview
<1>10. s.stage = "PLAN_REVISION_REVIEW" => Follows(s, AfterPlanReview(s, verdict))
  BY <1>6, <1>7 DEF AfterPlanReview
<1>11. s.stage = "FINAL_VERIFICATION" => Follows(s, AfterFinal(s, verdict))
  BY <1>3, <1>6 DEF AfterFinal
<1>12. /\ s.stage \in ProjectMutatingStages =>
            Follows(s, MoveTo(s, "TASK_INDEPENDENT_REVIEW"))
       /\ s.stage = "PLAN_DEFECT_RESOLUTION" =>
            Follows(s, MoveTo(s, "PLAN_REVISION_REVIEW"))
  BY <1>7, <1>8
<1> QED
  BY <1>6, <1>9, <1>10, <1>11, <1>12 DEF TransitionAfterOutcome

\* Work goes on with its task from place to place, and ends without one.
LEMMA MovedOnAccounted ==
  ASSUME NEW s, WellFormed(s), Accounted(s), NEW r, WellFormed(r),
         SameWork(s, r), r.task = s.task, r.code = s.code,
         \/ s.task # Null /\ r.stage \in WorkPlaces
         \/ /\ s.task = Null
            /\ r.stage \in {"HUMAN_FINAL_ACCEPTANCE", "COMPLETED"}
  PROVE  Accounted(r)
<1>1. /\ Marked(r) = Marked(s)
      /\ PendingDecisions(r) = PendingDecisions(s)
      /\ OpenChanges(r) = OpenChanges(s)
  BY SameBlockers DEF SameWork, Marked
<1>2. Rests(s) => Rests(r)
  BY SameBlockers, NoMoreReady DEF SameWork, Rests
<1>3. Place(r) = r.stage /\ ~Blocking(r)
  BY PlaceNames DEF Place, Blocking
<1>4. MarksCurrent(r)
  <2>1. Place(r) # "HUMAN_GROUP_APPROVAL"
    BY <1>3, PlaceNames
  <2>2. Place(r) \in TaskStages \cup {"HUMAN_PLAN_FREEZE"} => r.task # Null
    BY <1>3, PlaceNames DEF WorkPlaces
  <2> QED BY <1>1, <1>3, <2>1, <2>2 DEF Accounted, MarksCurrent
<1>5. CarriesChange(r)
  BY <1>1 DEF Accounted, CarriesChange, SameWork
<1>6. ChangeComesLast(r)
  BY <1>1, <1>2, <1>3, PlaceNames DEF Accounted, ChangeComesLast, SameWork
<1>7. BlockedForGood(r)
  BY <1>3 DEF Accounted, BlockedForGood
<1> QED BY <1>4, <1>5, <1>6, <1>7 DEF Accounted

\* An ordinary outcome is that of the current task, or the final verdict.
LEMMA OrdinaryPlaces ==
  ASSUME NEW s, Accounted(s), s.stage \in AgentStages, OrdinaryStage(s)
  PROVE  /\ s.task # Null => s.stage \in TaskStages \cup {"PLAN_REVISION_REVIEW"}
         /\ s.task = Null => s.stage = "FINAL_VERIFICATION"
<1>1. Place(s) = s.stage
  BY StagesDisjoint DEF Place
<1>2. ASSUME s.task # Null
      PROVE  s.stage \in TaskStages \cup {"PLAN_REVISION_REVIEW"}
  <2>1. /\ s.stage \in WorkPlaces \cup {"HUMAN_GROUP_APPROVAL", "HARD_STOP"}
    BY <1>1, <1>2 DEF Accounted, MarksCurrent
  <2>2. s.stage \notin {"HUMAN_GROUP_APPROVAL", "HARD_STOP", "HUMAN_PLAN_FREEZE"}
    BY StagesDisjoint DEF HumanGates
  <2> QED BY <2>1, <2>2 DEF WorkPlaces
<1>3. ASSUME s.task = Null PROVE s.stage = "FINAL_VERIFICATION"
  <2>1. s.stage \notin TaskStages
    BY <1>1, <1>3 DEF Accounted, MarksCurrent
  <2>2. s.stage \notin PropagationStages
    BY <1>1, <1>3 DEF Accounted, ChangeComesLast, OrdinaryStage, OwnsStage
  <2> QED BY <2>1, <2>2 DEF OrdinaryStage, AgentStages
<1> QED BY <1>2, <1>3

\* An approved review leaves no mark behind.
LEMMA ReviewedAccounted ==
  ASSUME NEW s, WellFormed(s), Accounted(s), NEW r, WellFormed(r),
         Reviewed(s, r)
  PROVE  /\ r.stage = "HUMAN_GROUP_APPROVAL" /\ r.task = s.task => Accounted(r)
         /\ Handed(r) => Accounted(Recompute(Schedule(r)))
<1>1. /\ s.task # Null /\ r.code = s.code
      /\ r.items = [s.items EXCEPT ![s.task] = "COMPLETED"]
      /\ r.decisions = s.decisions /\ r.changes = s.changes
      /\ r.propagation = s.propagation /\ r.change = s.change
  BY DEF Reviewed
<1>2. /\ PendingDecisions(r) = PendingDecisions(s)
      /\ OpenChanges(r) = OpenChanges(s)
  BY <1>1, SameBlockers
<1>3. Marked(r) = {}
  <2>1. s.items \in [Task -> ItemStatus]
    BY DEF WellFormed, WorkflowRecord
  <2> QED BY <1>1, <2>1 DEF Accounted, MarksCurrent, Marked
<1>4. /\ PendingDecisions(r) = {}
      /\ \A c \in Change :
           r.propagation[c].next \in {Null, "CHANGE_PROPAGATION_PLANNING"}
  BY <1>1, <1>2 DEF Accounted, ChangeComesLast, Rests
<1>5. CarriesChange(r)
  BY <1>1, <1>2 DEF Accounted, CarriesChange
<1>6. r.code # "WORKFLOW_DIGEST_CHANGED"
  BY <1>1 DEF Accounted, BlockedForGood
<1>7. ASSUME r.stage = "HUMAN_GROUP_APPROVAL", r.task = s.task
      PROVE  Accounted(r)
  <2>1. Place(r) = "HUMAN_GROUP_APPROVAL" /\ ~Blocking(r)
    BY <1>7 DEF Place, Blocking
  <2>2. MarksCurrent(r)
    BY <1>1, <1>3, <1>7, <2>1 DEF MarksCurrent
  <2>3. ChangeComesLast(r)
    BY <1>1, <1>4, <1>7 DEF ChangeComesLast
  <2>4. BlockedForGood(r)
    BY <1>6, <2>1 DEF BlockedForGood
  <2> QED BY <1>5, <2>2, <2>3, <2>4 DEF Accounted
<1>8. Handed(r) => Accounted(Recompute(Schedule(r)))
  BY <1>3, <1>4, <1>5, <1>6, HandedAccounted
<1> QED BY <1>7, <1>8

\* The stop whose recovery looks at the latest outcome.
Exhausted(s) == s.stage = "HARD_STOP" /\ s.code = "RETRY_EXHAUSTED"

LEMMA ScheduleNeverExhausts ==
  ASSUME NEW s, WellFormed(s)
  PROVE  ~Exhausted(Schedule(s)) /\ ~Exhausted(Recompute(Schedule(s)))
<1> DEFINE x == Schedule(s)
<1>1. /\ WellFormed(x)
      /\ \/ x = Recompute(s) /\ \/ s.stage \in HumanGates
                                \/ s.stage \in AgentStages
         \/ Starts(s, x) \/ Leaves(s, x) \/ Blocks(s, x)
  BY ScheduleOutcome
<1> HIDE DEF x
<1>2. ~Exhausted(x)
  <2>1. CASE x = Recompute(s) /\ \/ s.stage \in HumanGates
                                 \/ s.stage \in AgentStages
    BY <2>1, RecomputeFields, StagesDisjoint DEF Exhausted
  <2>2. CASE Starts(s, x) \/ Blocks(s, x)
    BY <2>2 DEF Starts, Blocks, Exhausted
  <2>3. CASE Leaves(s, x)
    <3>1. \A c \in RunnablePropagation(s) :
            s.propagation[c].next \in PropagationStages
      BY DEF RunnablePropagation, WellFormed, WorkflowRecord, PropagationRecord
    <3> QED BY <2>3, <3>1, PlaceNames DEF Leaves, Exhausted
  <2> QED BY <1>1, <2>1, <2>2, <2>3
<1> QED BY <1>1, <1>2, RecomputeFields DEF Exhausted, x

LEMMA VerdictAccounted ==
  ASSUME NEW s, WellFormed(s), Accounted(s), s.stage \in AgentStages,
         OrdinaryStage(s), NEW verdict
  PROVE  /\ Accounted(ApplyVerdict(s, verdict))
         /\ ~Exhausted(ApplyVerdict(s, verdict))
<1>1. /\ s.task # Null => s.stage \in TaskStages \cup {"PLAN_REVISION_REVIEW"}
      /\ s.task = Null => s.stage = "FINAL_VERIFICATION"
  BY OrdinaryPlaces
<1>2. ASSUME NEW r, WellFormed(r), Moved(s, r),
             r = TransitionAfterOutcome(s, verdict),
             ~(/\ s.stage = "TASK_INDEPENDENT_REVIEW"
               /\ verdict = "APPROVED" /\ s.task # Null)
      PROVE  Accounted(Recompute(r)) /\ ~Exhausted(Recompute(r))
  <2>1. Follows(s, r)
    BY <1>1, <1>2, TransitionFollows
  <2>2. SameWork(s, r)
    BY <1>2 DEF Moved
  <2> USE DEF Follows
  <2>3. CASE StopsAt(s, r) /\ r.code # "RETRY_EXHAUSTED"
    BY <1>2, <2>2, <2>3, StoppedAccounted, RecomputeAccounted, RecomputeFields
    DEF Stopped, Exhausted
  <2>4. CASE /\ s.stage \in TaskStages \cup {"PLAN_REVISION_REVIEW"}
             /\ r.stage \in WorkPlaces /\ r.code = s.code
    <3>1. s.task # Null
      BY <1>1, <2>4, PlaceNames DEF WorkPlaces
    <3>2. Accounted(r)
      BY <1>2, <2>1, <2>2, <2>4, <3>1, MovedOnAccounted
    <3> QED BY <1>2, <2>4, <3>2, RecomputeAccounted, RecomputeFields, PlaceNames
            DEF Exhausted
  <2>5. CASE /\ s.stage = "FINAL_VERIFICATION"
             /\ r.stage \in {"HUMAN_FINAL_ACCEPTANCE", "COMPLETED"}
             /\ r.code = s.code
    <3>1. s.task = Null
      BY <1>1, <2>5, PlaceNames DEF WorkPlaces
    <3>2. Accounted(r)
      BY <1>2, <2>1, <2>2, <2>5, <3>1, MovedOnAccounted
    <3> QED BY <1>2, <2>5, <3>2, RecomputeAccounted, RecomputeFields
            DEF Exhausted
  <2> QED BY <2>1, <2>3, <2>4, <2>5
<1>3. ASSUME NEW r, WellFormed(r), Reviewed(s, r),
             r.stage = "HUMAN_GROUP_APPROVAL", r.task = s.task
      PROVE  Accounted(Recompute(r)) /\ ~Exhausted(Recompute(r))
  <2>1. Accounted(r)
    BY <1>3, ReviewedAccounted
  <2> QED BY <1>3, <2>1, RecomputeAccounted, RecomputeFields DEF Exhausted
<1>4. ASSUME NEW x, Handed(x), Reviewed(s, x)
      PROVE  /\ Accounted(Recompute(Schedule(x)))
             /\ ~Exhausted(Recompute(Schedule(x)))
  BY <1>4, ReviewedAccounted, ScheduleNeverExhausts DEF Handed
<1> QED BY <1>2, <1>3, <1>4, VerdictOutcome

LEMMA ApprovedAccounted ==
  ASSUME NEW s, WellFormed(s), Accounted(s), s.stage \in HumanGates
  PROVE  Accounted(Approved(s)) /\ ~Exhausted(Approved(s))
<1>1. Place(s) = s.stage
  BY StagesDisjoint DEF Place
<1>2. ASSUME NEW x, Handed(x), s.stage = "HUMAN_GROUP_APPROVAL",
             SameWork(s, x), x.code = s.code
      PROVE  Accounted(Schedule(x)) /\ ~Exhausted(Schedule(x))
  <2>1. /\ Marked(x) = Marked(s) /\ PendingDecisions(x) = PendingDecisions(s)
        /\ OpenChanges(x) = OpenChanges(s)
    BY <1>2, SameBlockers DEF SameWork, Marked
  <2>2. Rests(s) => Rests(x)
    BY <1>2, SameBlockers, NoMoreReady DEF SameWork, Handed
  <2>3. Marked(x) = {}
    BY <1>1, <1>2, <2>1 DEF Accounted, MarksCurrent
  <2>4. CarriesChange(x)
    BY <1>2, <2>1 DEF Accounted, CarriesChange, SameWork
  <2>5. /\ \A c \in Change :
             x.propagation[c].next \notin {Null, "CHANGE_PROPAGATION_PLANNING"}
               => Rests(x)
        /\ PendingDecisions(x) # {} => Rests(x)
        /\ x.code # "WORKFLOW_DIGEST_CHANGED"
    BY <1>2, <2>1, <2>2
    DEF Accounted, ChangeComesLast, BlockedForGood, SameWork
  <2> QED BY <1>2, <2>3, <2>4, <2>5, HandedAccounted, ScheduleNeverExhausts
          DEF Handed
<1>3. ASSUME NEW r, WellFormed(r), PassedGate(s, r)
      PROVE  Accounted(Recompute(r)) /\ ~Exhausted(Recompute(r))
  <2>1. SameWork(s, r) /\ r.task = s.task /\ r.code = s.code
    BY <1>3 DEF PassedGate
  <2>2. \/ s.task # Null /\ r.stage \in WorkPlaces
        \/ s.task = Null /\ r.stage \in {"HUMAN_FINAL_ACCEPTANCE", "COMPLETED"}
    <3>1. CASE s.stage = "HUMAN_PLAN_FREEZE" /\ r.stage = "TASK_EXECUTION"
      BY <1>1, <3>1 DEF Accounted, MarksCurrent, WorkPlaces, TaskStages
    <3>2. CASE s.stage = "HUMAN_FINAL_ACCEPTANCE" /\ r.stage = "COMPLETED"
      BY <1>1, <3>2, PlaceNames DEF Accounted, MarksCurrent
    <3> QED BY <1>3, <3>1, <3>2 DEF PassedGate
  <2>3. Accounted(r) /\ r.stage # "HARD_STOP"
    BY <1>3, <2>1, <2>2, MovedOnAccounted, PlaceNames
  <2> QED BY <1>3, <2>3, RecomputeAccounted, RecomputeFields DEF Exhausted
<1>4. \/ \E x : /\ Handed(x) /\ Approved(s) = Schedule(x)
                /\ s.stage = "HUMAN_GROUP_APPROVAL"
                /\ SameWork(s, x) /\ x.code = s.code
      \/ \E r : /\ WellFormed(r) /\ PassedGate(s, r)
                /\ Approved(s) = Recompute(r)
  BY ApprovalOutcome
<1> QED BY <1>2, <1>3, <1>4

LEMMA LoadAccounted ==
  ASSUME digestMatches, NEW s, WellFormed(s), Accounted(s)
  PROVE  LET r == Load(s) q == OrphanStop(r) IN
         /\ WellFormed(r) /\ Accounted(r) /\ WellFormed(q) /\ Accounted(q)
         /\ r.stage = s.stage /\ r.code = s.code /\ r.blocked = s.blocked
         /\ Exhausted(q) => Exhausted(s) /\ q.blocked = s.blocked
<1> DEFINE r == Load(s)
           q == OrphanStop(r)
<1>1. /\ r = Recompute(s) /\ WellFormed(r) /\ Accounted(r)
      /\ r.stage = s.stage /\ r.code = s.code /\ r.blocked = s.blocked
  BY RecomputeAccounted, RecomputeFields DEF Load
<1> HIDE DEF r
<1>2. WellFormed(q) /\ (q = r \/ Stopped(r, q))
  BY <1>1, OrphanIs, OrphanStopWellFormed
<1>3. Accounted(q)
  BY <1>1, <1>2, StoppedAccounted
<1>4. q = r \/ q.code = "RECOVERY_UNCERTAIN"
  BY <1>1 DEF OrphanStop, WellFormed, WorkflowRecord
<1> HIDE DEF q
<1> QED BY <1>1, <1>2, <1>3, <1>4 DEF Exhausted, q, r

LEMMA DetectUnmarks ==
  ASSUME NEW s, WellFormed(s), NEW c \in Change
  PROVE  Marked(DetectChange(s, c)) = {}
<1> DEFINE x == DetectChange(s, c)
<1>1. \A t \in Task :
        x.items[t] = IF s.items[t] \in {"RUNNING", "REQUIRES_PATCH"}
                       THEN "READY" ELSE s.items[t]
  BY DEF DetectChange, Released, WellFormed, WorkflowRecord
<1> HIDE DEF x
<1>2. Marked(x) = {}
  BY <1>1 DEF Marked
<1> QED BY <1>2 DEF x

\* A step comes to the stop of an exhausted stage from that stop only.
SameExhaustion ==
  Exhausted(state') => Exhausted(state) /\ state'.blocked = state.blocked

LEMMA InvalidOrFailedAccounted ==
  ASSUME NEW s, WellFormed(s), Accounted(s), s.stage \in AgentStages,
         NEW runnerFailed \in BOOLEAN
  PROVE  LET r == InvalidOrFailed(s, runnerFailed) IN
         Accounted(r) /\ (Exhausted(r) => r.blocked = s.stage)
<1> DEFINE r == InvalidOrFailed(s, runnerFailed)
<1>1. \/ Stopped(s, r)
      \/ SamePlace(s, r) /\ r.stage = s.stage
  BY InvalidOrFailedIs
<1> HIDE DEF r
<1>2. Accounted(r)
  BY <1>1, StoppedAccounted, SamePlaceAccounted
<1>3. Exhausted(r) => r.blocked = s.stage
  BY <1>1, StagesDisjoint DEF Stopped, StopsAt, Exhausted
<1> QED BY <1>2, <1>3 DEF r

LEMMA StepAccounted ==
  ASSUME Inductive, digestMatches, Accounted(state), Step
  PROVE  Accounted(state') /\ (SameExhaustion \/ latest.status = "running")
<1> DEFINE s == Load(state)
<1>1. /\ WellFormed(s) /\ Accounted(s)
      /\ s.stage = state.stage /\ s.code = state.code
      /\ s.blocked = state.blocked
  BY InductiveParts, LoadAccounted DEF RecordOK
<1> HIDE DEF s
<1>2. ASSUME NEW r, Stopped(s, r), r.code # "RETRY_EXHAUSTED"
      PROVE  Accounted(r) /\ ~Exhausted(r)
  BY <1>1, <1>2, StoppedAccounted DEF Exhausted
<1>3. CASE StepDetectsChange
  <2>1. PICK c \in Unanalyzed(s) : state' = DetectChange(s, c)
    BY <1>3 DEF StepDetectsChange, Return, s
  <2>2. Detected(s, c, state') /\ Marked(state') = {}
    BY <1>1, <2>1, DetectFields, DetectUnmarks DEF Unanalyzed
  <2>3. Accounted(state')
    BY <1>1, <2>2, DetectedAccounted
  <2> QED BY <2>2, <2>3 DEF Detected, SameExhaustion, Exhausted
<1>4. CASE StepWaits
  <2>1. state' = s
    BY <1>4 DEF StepWaits, Return, s
  <2> QED BY <1>1, <2>1 DEF SameExhaustion, Exhausted
<1>5. CASE StepAuditStops
  <2>3. "AUDIT_BLOCKED" \in StopCode \ ElsewhereStops
    BY DEF StopCode, ElsewhereStops
  <2>1. Stopped(s, AuditStop(s))
    BY <1>1, <2>3, StoppedIs
  <2>2. AuditStop(s).code # "RETRY_EXHAUSTED"
    BY <1>1 DEF AuditStop, WellFormed, WorkflowRecord
  <2> QED BY <1>2, <1>5, <2>1, <2>2
          DEF StepAuditStops, Return, SameExhaustion, s
<1>6. CASE StepSchedules
  <2>1. state' = Schedule(s) /\ s.stage \in Between
    BY <1>6 DEF StepSchedules, Return, Between, s
  <2> QED BY <1>1, <2>1, ScheduleAccounted, ScheduleNeverExhausts
          DEF SameExhaustion
<1>7. CASE StepInvokesAgent
  <2>1. state' = Invoke(s) /\ s.stage \in AgentStages /\ ~s.run
    BY <1>7 DEF StepInvokesAgent, s
  <2>2. state'.stage = s.stage
    BY <1>1, <2>1, InvokeFields
  <2> QED BY <1>1, <2>1, <2>2, InvokeAccounted, StagesDisjoint
          DEF SameExhaustion, Exhausted
<1>8. CASE StepFindsDeadInvocation /\ latest.outcome = "malformed"
  <2>1. state' = InvalidOrFailed(s, FALSE) /\ s.stage \in AgentStages
    BY <1>8 DEF StepFindsDeadInvocation, Return, s
  <2>2. latest.status = "running"
    BY <1>8 DEF StepFindsDeadInvocation
  <2> QED BY <1>1, <2>1, <2>2, InvalidOrFailedAccounted
<1>10. CASE StepFindsDeadInvocation /\ latest.outcome # "malformed"
  <2>1. state' = InvocationStop(s, "RECOVERY_UNCERTAIN")
    BY <1>10 DEF StepFindsDeadInvocation, Return, s
  <2>2. Stopped(s, InvocationStop(s, "RECOVERY_UNCERTAIN"))
    BY <1>1, StoppedIs DEF StopCode, ElsewhereStops
  <2>3. InvocationStop(s, "RECOVERY_UNCERTAIN").code # "RETRY_EXHAUSTED"
    BY <1>1 DEF InvocationStop, WellFormed, WorkflowRecord
  <2> QED BY <1>2, <2>1, <2>2, <2>3 DEF SameExhaustion
<1>9. CASE BudgetStop
  <2> DEFINE r == [s EXCEPT !.stage = "HARD_STOP", !.status = "HARD_STOPPED",
                            !.code = "MAX_TOTAL_STEPS", !.blocked = s.stage,
                            !.recoverable = TRUE]
  <2>1. state' \in {s, r}
    BY <1>9 DEF BudgetStop, s
  <2>2. Stopped(s, r)
    BY <1>1, StoppedIs DEF StopCode, ElsewhereStops
  <2>3. r.code # "RETRY_EXHAUSTED"
    BY <1>1 DEF WellFormed, WorkflowRecord
  <2> HIDE DEF r
  <2> QED BY <1>1, <1>2, <2>1, <2>2, <2>3 DEF SameExhaustion, Exhausted
<1> QED
  BY <1>3, <1>4, <1>5, <1>6, <1>7, <1>8, <1>9, <1>10 DEF Step

\* A stop for which a late outcome of the latest review would be adopted.
Adopts == /\ Exhausted(state) /\ state.blocked \in ReadOnlyRecoveryStages
          /\ latest.status = "completed" /\ latest.ok

\* A handler that has nothing to apply an outcome to is at no stage of review.
LEMMA NothingAtReview ==
  ASSUME NEW s, WellFormed(s), Accounted(s), ~OrdinaryStage(s),
         NothingToApplyTo(s)
  PROVE  s.stage \notin ReadOnlyRecoveryStages
<1>1. CASE s.stage = "PLAN_REVISION_REVIEW"
  <2>1. /\ OwnsStage(s) /\ ~PropagationActive(s)
    BY <1>1 DEF NothingToApplyTo
  <2>2. /\ s.change \in Change
        /\ s.propagation[s.change].next = "PLAN_REVISION_REVIEW"
    BY <1>1, <2>1 DEF OwnsStage, WellFormed, WorkflowRecord
  <2>3. s.propagation[s.change].status = "RUNNING"
    BY <2>2, PlaceNames DEF Accounted, CarriesChange, WorkPlaces
  <2> QED BY <2>1, <2>2, <2>3, DecisionAssumption DEF PropagationActive
<1>2. CASE s.stage # "PLAN_REVISION_REVIEW"
  <2>1. /\ "TASK_INDEPENDENT_REVIEW" \notin PropagationStages
        /\ "FINAL_VERIFICATION" \notin PropagationStages
    BY DEF PropagationStages
  <2> QED BY <1>2, <2>1 DEF ReadOnlyRecoveryStages, OrdinaryStage, OwnsStage
<1> QED BY <1>1, <1>2

LEMMA AgentEndAccounted ==
  ASSUME Question = {}, "invalid" \notin Disturbances, Inductive, AtItsStage,
         Accounted(state), AgentEnd
  PROVE  Accounted(state') /\ ~Adopts'
<1>1. WellFormed(state) /\ latest \in Invocation
  BY InductiveParts DEF RecordOK, EvidenceOK
<1>2. state.stage \in AgentStages
  BY DEF AtItsStage, AgentEnd, AgentEnds, FinishWithVerdict,
         FinishWithQuestions, FinishAnalysis, FinishPropagation, FinishRefused,
         FinishWithoutOutcome, RunnerFails, FinishRejected
<1>3. (SUBSET Question) \ {{}} = {}
  OBVIOUS
<1>4. CASE FinishWithVerdict
  <2>1. PICK verdict : state' = ApplyVerdict(state, verdict)
    BY <1>4 DEF FinishWithVerdict, Return
  <2>2. OrdinaryStage(state)
    BY <1>4 DEF FinishWithVerdict
  <2>3. Accounted(state') /\ ~Exhausted(state')
    BY <1>1, <1>2, <2>1, <2>2, VerdictAccounted
  <2> QED BY <2>3 DEF Adopts, Exhausted
<1>5. CASE FinishAnalysis
  <2>1. PICK c \in Unanalyzed(state), a \in Analysis(Scopes, Question) :
             state' = ApplyAnalysis(state, c, a)
    BY <1>5 DEF FinishAnalysis, Return
  <2>2. state.stage = "AUTHORITY_CHANGE_ANALYSIS"
    BY <1>5 DEF FinishAnalysis
  <2>3. Accounted(state')
    BY <1>1, <2>1, <2>2, AnalyzedAccounted
  <2>4. PICK x : Analyzed(state, c, a, x) /\ state' = Schedule(Recompute(x))
    BY <1>1, <2>1, AnalysisHandsOver DEF Unanalyzed
  <2>5. WellFormed(Recompute(x))
    BY <2>4, HandlersHandOver, RecomputeWellFormed DEF Handed
  <2>6. ~Exhausted(state')
    BY <2>4, <2>5, ScheduleNeverExhausts
  <2> QED BY <2>3, <2>6 DEF Adopts, Exhausted
<1>6. CASE FinishPropagation
  <2>1. /\ OwnsStage(state) /\ PropagationActive(state)
        /\ \/ state' = AdvancePropagation(state)
           \/ state.stage \in DOMAIN RevisionOf /\ state' = ReviseAgain(state)
    BY <1>3, <1>6 DEF FinishPropagation, Return
  <2>2. Accounted(state')
    BY <1>1, <2>1, PropagationAccounted
  <2>3. PICK x : Handed(x) /\ state' = Schedule(x)
    BY <2>1, PropagationKeepsScope
  <2>4. ~Exhausted(state')
    BY <2>3, ScheduleNeverExhausts DEF Handed
  <2> QED BY <2>2, <2>4 DEF Adopts, Exhausted
<1>7. CASE FinishRefused
  <2>1. /\ ~OrdinaryStage(state) /\ NothingToApplyTo(state)
        /\ state' = InvalidOrFailed(state, FALSE)
    BY <1>7 DEF FinishRefused, Return
  <2>2. /\ Accounted(state')
        /\ Exhausted(state') => state'.blocked = state.stage
    BY <1>1, <1>2, <2>1, InvalidOrFailedAccounted
  <2>3. state.stage \notin ReadOnlyRecoveryStages
    BY <1>1, <2>1, NothingAtReview
  <2> QED BY <2>2, <2>3 DEF Adopts, Exhausted
<1>8. CASE RunnerFails
  <2>1. state' = InvalidOrFailed(state, TRUE) /\ ~latest'.ok
    BY <1>1, <1>8 DEF RunnerFails, Return, Completed, Invocation
  <2>2. Accounted(state')
    BY <1>1, <1>2, <2>1, InvalidOrFailedAccounted
  <2> QED BY <2>1, <2>2 DEF Adopts
<1>10. CASE FinishRejected
  <2>1. "WORKSPACE_REJECTED" \in StopCode \ ElsewhereStops
    BY DEF StopCode, ElsewhereStops
  <2>2. /\ Stopped(state, InvocationStop(state, "WORKSPACE_REJECTED"))
        /\ state' = InvocationStop(state, "WORKSPACE_REJECTED")
    BY <1>1, <1>10, <2>1, StoppedIs DEF FinishRejected, Return
  <2>3. Accounted(state')
    BY <1>1, <2>2, StoppedAccounted
  <2>4. InvocationStop(state, "WORKSPACE_REJECTED").code = "WORKSPACE_REJECTED"
    BY <1>1 DEF InvocationStop, WellFormed, WorkflowRecord
  <2> QED BY <2>2, <2>3, <2>4 DEF Adopts, Exhausted
<1>9. ~FinishWithQuestions /\ ~FinishWithoutOutcome
  BY <1>3 DEF FinishWithQuestions, FinishWithoutOutcome
<1> QED BY <1>4, <1>5, <1>6, <1>7, <1>8, <1>9, <1>10 DEF AgentEnd

\* recover opens the stage that was stopped; where no late outcome of a review
\* may be adopted it applies none.
LEMMA RecoverAccounted ==
  ASSUME Inductive, digestMatches, ~Adopts, Accounted(state), Recover
  PROVE  /\ Accounted(state') /\ digestMatches'
         /\ SameExhaustion
         /\ latest' = latest \/ latest'.status = "failed"
<1> DEFINE s == OrphanStop(Load(state))
<1>1. /\ WellFormed(s) /\ Accounted(s)
      /\ Exhausted(s) => Exhausted(state) /\ s.blocked = state.blocked
  BY InductiveParts, LoadAccounted DEF RecordOK
<1>2. latest \in Invocation
  BY InductiveParts DEF EvidenceOK
<1> HIDE DEF s
<1>3. s.code # "WORKFLOW_DIGEST_CHANGED"
  BY <1>1 DEF Accounted, BlockedForGood
<1>4. "HARD_STOP" \notin AgentStages \cup {Null}
  <2>1. "HARD_STOP" # Null
    BY NullAssumption DEF Stage
  <2> QED BY <2>1, StagesDisjoint
<1>5. ReadOnlyRecoveryStages \subseteq AgentStages
  BY DEF ReadOnlyRecoveryStages, AgentStages, TaskStages, PropagationStages
<1>9. \A code \in {"MAX_TOTAL_STEPS", "RETRY_EXHAUSTED", "RECOVERY_UNCERTAIN"} :
        code # Null
  BY NullAssumption DEF StopCode
<1>6. /\ digestMatches'
      /\ latest' = latest \/ latest'.status = "failed"
      /\ \/ state' = s
         \/ /\ s.stage = "HARD_STOP" /\ s.code # Null /\ s.blocked # "HARD_STOP"
            /\ \/ state' = Restored(s)
               \/ state' = [Restored(s) EXCEPT !.runnerFailure = FALSE]
  <2>1. ~RecoverDigest
    BY <1>3 DEF RecoverDigest, DigestRecoverable, s
  <2>2. CASE RecoverStage
    BY <1>2, <1>4, <2>2, <1>9
    DEF RecoverStage, BudgetRecoverable, RunnerRecoverable, RetryExhausted,
        Idle, evidence, project, Invocation, s
  <2>3. CASE RecoverInterrupted
    BY <1>2, <1>4, <2>3, <1>9
    DEF RecoverInterrupted, InterruptedRecoverable, MarkedFailed, Idle, project,
        Invocation, s
  <2>4. CASE RecoverCanonicalFailure
    BY <1>4, <1>5, <2>4, <1>9
    DEF RecoverCanonicalFailure, CanonicalRecoverable, ReadOnlyRecoverable,
        RetryExhausted, Idle, evidence, project, s
  <2>5. ~RecoverLateOutcome
    BY <1>1 DEF RecoverLateOutcome, LateRecoverable, ReadOnlyRecoverable,
                RetryExhausted, Exhausted, Adopts, s
  <2> QED BY <2>1, <2>2, <2>3, <2>4, <2>5 DEF Recover
<1>7. CASE state' = s
  BY <1>1, <1>6, <1>7 DEF SameExhaustion
<1>8. CASE /\ s.stage = "HARD_STOP" /\ s.code # Null /\ s.blocked # "HARD_STOP"
           /\ \/ state' = Restored(s)
              \/ state' = [Restored(s) EXCEPT !.runnerFailure = FALSE]
  <2>1. Reopened(s, state')
    BY <1>1, <1>8, RestoredReopens
  <2>2. Accounted(state')
    BY <1>1, <1>8, <2>1, ReopenedAccounted
  <2>3. ~Exhausted(state')
    BY <1>8, <2>1 DEF Reopened, Exhausted
  <2> QED BY <1>6, <2>2, <2>3 DEF SameExhaustion
<1> QED BY <1>6, <1>7, <1>8

LEMMA OperatorAccounted ==
  ASSUME Inductive, digestMatches, ~Adopts, Accounted(state), Operator
  PROVE  /\ Accounted(state') /\ digestMatches'
         /\ SameExhaustion
         /\ latest' = latest \/ latest'.status = "failed"
<1> DEFINE s == Load(state)
<1>1. /\ WellFormed(s) /\ Accounted(s)
      /\ s.stage = state.stage /\ s.code = state.code
      /\ s.blocked = state.blocked
  BY InductiveParts, LoadAccounted DEF RecordOK
<1>2. \/ state' \in {state, s, StopRecord(s)}
      \/ state' = Approved(s) /\ s.stage \in HumanGates
      \/ \E d \in PendingDecisions(s) : state' = ResolveDecision(s, d)
      \/ \E c \in PendingDecisions(s) \cap Change :
           \E first \in PromotedFirst(s, c) :
             state' = ResolvePromotion(s, c, first)
      \/ Recover
  BY OperatorIs
<1> HIDE DEF s
<1>3. ASSUME state' \in {state, s, StopRecord(s)}
      PROVE  Accounted(state') /\ SameExhaustion
  <2>1. SamePlace(s, StopRecord(s)) /\ StopRecord(s).stage = s.stage
    BY <1>1, StopRecordFields
  <2>2. Accounted(StopRecord(s))
    BY <1>1, <2>1, SamePlaceAccounted
  <2>3. /\ StopRecord(s).code = s.code /\ StopRecord(s).blocked = s.blocked
    BY <2>1 DEF SamePlace
  <2> QED BY <1>1, <1>3, <2>1, <2>2, <2>3 DEF SameExhaustion, Exhausted
<1>4. ASSUME state' = Approved(s) /\ s.stage \in HumanGates
      PROVE  Accounted(state') /\ SameExhaustion
  BY <1>1, <1>4, ApprovedAccounted DEF SameExhaustion
<1>5. ASSUME \E d \in PendingDecisions(s) : state' = ResolveDecision(s, d)
      PROVE  Accounted(state') /\ SameExhaustion
  <2>1. PICK d \in PendingDecisions(s) : state' = ResolveDecision(s, d)
    BY <1>5
  <2>2. Accounted(state')
    BY <1>1, <2>1, DecidedAccounted
  <2>3. PICK x : DecidedOn(s, d, x) /\ state' = Schedule(x)
    BY <1>1, <2>1, AnswerHandsOver DEF PendingDecisions
  <2>4. ~Exhausted(state')
    BY <2>3, HandlersHandOver, ScheduleNeverExhausts DEF Handed
  <2> QED BY <2>2, <2>4 DEF SameExhaustion
<1>6. ASSUME \E c \in PendingDecisions(s) \cap Change :
               \E first \in PromotedFirst(s, c) :
                 state' = ResolvePromotion(s, c, first)
      PROVE  Accounted(state') /\ SameExhaustion
  <2>1. PICK c \in PendingDecisions(s) \cap Change :
               \E first \in PromotedFirst(s, c) :
                 state' = ResolvePromotion(s, c, first)
    BY <1>6
  <2>7. PICK first \in PromotedFirst(s, c) :
               state' = ResolvePromotion(s, c, first)
    BY <2>1
  <2>2. first \in Task \cup {Null}
    BY <1>1, <2>7
    DEF PromotedFirst, WellFormed, WorkflowRecord, ChangeRecord
  <2>3. Accounted(state')
    BY <1>1, <2>7, <2>2, PromotedAccounted
  <2>4. PICK x : /\ Promoted(s, c, first, x)
                 /\ state' = IF first = Null THEN Schedule(x) ELSE x
    BY <1>1, <2>7, <2>2, PromotionFields
  <2>5. WellFormed(x) /\ x.stage # "HARD_STOP"
    BY <2>4 DEF Promoted, Handed
  <2>6. ~Exhausted(state')
    BY <2>4, <2>5, ScheduleNeverExhausts DEF Exhausted
  <2> QED BY <2>3, <2>6 DEF SameExhaustion
<1>7. CASE Recover
  BY <1>7, RecoverAccounted
<1>8. ~Recover => digestMatches' = digestMatches /\ latest' = latest
  <2> SUFFICES ASSUME ~Recover
               PROVE  digestMatches' = digestMatches /\ latest' = latest
    OBVIOUS
  <2> QED BY DEF Operator, StartRun, Inspect, Approve, Stop, Decide, Promote,
                 Idle, evidence, project
<1> QED BY <1>2, <1>3, <1>4, <1>5, <1>6, <1>7, <1>8

-----------------------------------------------------------------------------
(* The workflow is blocked only without work *)

Settled == digestMatches /\ AtItsStage /\ ~Adopts /\ Accounted(state)

\* No question is put, no outcome is invalid and workflow.yaml is left alone.
Undisturbed == Question = {} /\ Disturbances \cap {"digest", "invalid"} = {}

LEMMA EveryStepSettled ==
  Undisturbed /\ Inductive /\ Settled /\ [Next]_vars => Settled'
<1> SUFFICES ASSUME Undisturbed, Inductive, Settled, [Next]_vars PROVE Settled'
  OBVIOUS
<1>1. AtItsStage'
  BY AgentAtItsStage DEF Settled
<1>2. /\ Question = {}
      /\ "digest" \notin Disturbances /\ "invalid" \notin Disturbances
      /\ digestMatches /\ AtItsStage /\ ~Adopts /\ Accounted(state)
  BY DEF Undisturbed, Settled
<1>3. candidate' = candidate /\ Accounted(state') => Accounted(state)'
  BY DEF Accounted, MarksCurrent, CarriesChange, ChangeComesLast, BlockedForGood
<1>4. latest' = latest /\ SameExhaustion => ~Adopts'
  BY <1>2 DEF SameExhaustion, Adopts, Exhausted
<1>5. CASE Step
  <2>1. candidate' = candidate /\ digestMatches' = digestMatches
    BY <1>5
    DEF Step, StepDetectsChange, StepWaits, StepAuditStops, StepSchedules,
        StepInvokesAgent, StepFindsDeadInvocation, BudgetStop, project
  <2>2. Accounted(state') /\ (SameExhaustion \/ latest.status = "running")
    BY <1>2, <1>5, StepAccounted
  <2>3. CASE StepInvokesAgent
    <3>1. invoking'
      BY <2>3 DEF StepInvokesAgent
    <3>2. state'.stage \in AgentStages
      BY <1>1, <3>1 DEF AtItsStage
    <3>3. ~Adopts'
      BY <3>2, StagesDisjoint DEF Adopts, Exhausted
    <3> QED BY <1>1, <1>2, <1>3, <2>1, <2>2, <3>3 DEF Settled
  <2>4. CASE ~StepInvokesAgent
    <3>1. latest' = latest
      BY <1>5, <2>4
      DEF Step, StepDetectsChange, StepWaits, StepAuditStops, StepSchedules,
          StepFindsDeadInvocation, BudgetStop, evidence
    <3>2. ~Adopts'
      BY <1>4, <2>2, <3>1 DEF Adopts
    <3> QED BY <1>1, <1>2, <1>3, <2>1, <2>2, <3>1, <3>2 DEF Settled
  <2> QED BY <2>3, <2>4
<1>6. CASE AgentEnd
  <2>1. candidate' = candidate /\ digestMatches' = digestMatches
    BY <1>6
    DEF AgentEnd, FinishWithVerdict, FinishWithQuestions, FinishAnalysis,
        FinishPropagation, FinishRefused, FinishWithoutOutcome, RunnerFails,
        FinishRejected, Completed, project
  <2>2. Accounted(state') /\ ~Adopts'
    BY <1>2, <1>6, AgentEndAccounted
  <2> QED BY <1>1, <1>2, <1>3, <2>1, <2>2 DEF Settled
<1>7. CASE Operator
  <2>1. candidate' = candidate
    BY <1>7
    DEF Operator, StartRun, Inspect, Approve, Stop, Decide, Promote, Recover,
        RecoverDigest, RecoverStage, RecoverInterrupted,
        RecoverCanonicalFailure, RecoverLateOutcome, Idle, project
  <2>2. /\ Accounted(state') /\ digestMatches' /\ SameExhaustion
        /\ latest' = latest \/ latest'.status = "failed"
    BY <1>2, <1>7, OperatorAccounted
  <2>3. ~Adopts'
    BY <1>4, <2>2 DEF Adopts
  <2> QED BY <1>1, <1>3, <2>1, <2>2, <2>3 DEF Settled
<1>8. CASE SubmitAuthority
  <2>1. state' = state /\ latest' = latest /\ digestMatches' = digestMatches
    BY <1>8 DEF SubmitAuthority, evidence
  <2>2. candidate \in Change =>
          state.changes[candidate].status \in {"ACCEPTED", "PROMOTED"}
    BY <1>8 DEF SubmitAuthority
  <2>3. OpenChanges(state) = {}
    BY <1>2, <2>2 DEF Accounted, CarriesChange, OpenChanges
  <2>4. Accounted(state)'
    BY <1>2, <2>1, <2>3
    DEF Accounted, MarksCurrent, CarriesChange, ChangeComesLast, BlockedForGood
  <2>5. ~Adopts'
    BY <1>2, <2>1 DEF Adopts
  <2> QED BY <1>1, <1>2, <2>1, <2>4, <2>5 DEF Settled
<1>9. CASE Interrupt
  <2>1. /\ state' = state /\ candidate' = candidate
        /\ digestMatches' = digestMatches
        /\ ~invoking => latest' = latest
    BY <1>9 DEF Interrupt, project
  <2>2. ~Adopts'
    <3>1. CASE invoking
      <4>1. state'.stage \in AgentStages
        BY <1>2, <2>1, <3>1 DEF AtItsStage
      <4> QED BY <4>1, StagesDisjoint DEF Adopts, Exhausted
    <3>2. CASE ~invoking
      BY <1>2, <2>1, <3>2 DEF Adopts
    <3> QED BY <3>1, <3>2
  <2> QED BY <1>1, <1>2, <1>3, <2>1, <2>2 DEF Settled
<1>10. CASE EditTree \/ UNCHANGED vars
  <2>1. /\ state' = state /\ candidate' = candidate
        /\ digestMatches' = digestMatches /\ latest' = latest
    BY <1>10 DEF EditTree, evidence, vars, project
  <2>2. ~Adopts'
    BY <1>2, <2>1 DEF Adopts
  <2> QED BY <1>1, <1>2, <1>3, <2>1, <2>2 DEF Settled
<1>11. CASE LateOutcome
  <2>1. /\ state' = state /\ candidate' = candidate
        /\ digestMatches' = digestMatches
        /\ latest'.ok = latest.ok /\ latest'.status = latest.status
    BY <1>11, InductiveParts DEF LateOutcome, project, EvidenceOK, Invocation
  <2>2. ~Adopts'
    BY <1>2, <2>1 DEF Adopts
  <2> QED BY <1>1, <1>2, <1>3, <2>1, <2>2 DEF Settled
<1>12. ~EditWorkflow
  BY <1>2 DEF EditWorkflow
<1> QED
  BY <1>5, <1>6, <1>7, <1>8, <1>9, <1>10, <1>11, <1>12 DEF Next, Environment

LEMMA InitSettled == Init => Settled
<1> SUFFICES ASSUME Init PROVE Settled
  OBVIOUS
<1>1. /\ state.stage = "INITIALIZING" /\ state.task = Null /\ state.code = Null
      /\ \A t \in Task : state.items[t] \in {"READY", "WAITING_DEPENDENCY"}
      /\ \A d \in Decision : state.decisions[d] = NoDecision
      /\ \A c \in Change : /\ state.changes[c] = NoChange
                           /\ state.propagation[c] = NoPropagation
  BY DEF Init, Fresh
<1>2. Place(state) = "INITIALIZING"
  BY <1>1 DEF Place
<1>3. "INITIALIZING" \notin WorkPlaces \cup PropagationStages
  BY PlaceNames DEF Between
<1>4. "WORKFLOW_DIGEST_CHANGED" # Null
  BY NullAssumption DEF StopCode
<1>5. PendingDecisions(state) = {} /\ OpenChanges(state) = {}
  BY <1>1 DEF PendingDecisions, OpenChanges, NoDecision, NoChange
<1>6. MarksCurrent(state)
  BY <1>1, <1>2, <1>3 DEF MarksCurrent, Marked, WorkPlaces
<1>7. CarriesChange(state)
  BY <1>1, <1>5 DEF CarriesChange, NoPropagation
<1>8. ChangeComesLast(state)
  BY <1>1, <1>2, <1>3, <1>5 DEF ChangeComesLast, NoPropagation, WorkPlaces
<1>9. BlockedForGood(state)
  BY <1>1, <1>4 DEF BlockedForGood, Blocking
<1>10. digestMatches /\ AtItsStage /\ ~Adopts
  BY <1>1 DEF Init, AtItsStage, Adopts, Exhausted
<1> QED BY <1>6, <1>7, <1>8, <1>9, <1>10 DEF Settled, Accounted

\* While no question is put, no outcome is invalid and workflow.yaml is left
\* alone, a workflow is declared dependency-blocked only when no task is left
\* that could be worked on, whatever changes, failures, interruptions, stops and
\* recoveries come before: a change takes the mark of the task it interrupts off
\* the record, and a propagation is worked on only while no task is ready.
THEOREM BlockedOnlyWithoutWork ==
  ASSUME Undisturbed
  PROVE  Spec => []DependencyBlockIsReal
<1>1. Init => Settled
  BY InitSettled
<1>2. Inductive /\ Settled /\ [Next]_vars => Settled'
  BY EveryStepSettled
<1>3. Settled => DependencyBlockIsReal
  <2>1. ASSUME NEW t \in Task, Unblocked(t)
        PROVE  t \in Task \ Done(state) /\ Dependencies[t] \subseteq Done(state)
    BY <2>1, TaskAssumption DEF Unblocked, DependenciesCompleted, Done
  <2> QED BY <2>1 DEF Settled, Accounted, BlockedForGood, Blocking,
                      DependencyBlockIsReal
<1> QED BY <1>1, <1>2, <1>3, InductiveInvariant, PTL DEF Spec

=============================================================================
