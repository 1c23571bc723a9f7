----------------------------- MODULE Authority -----------------------------
(***************************************************************************)
(* The parts of orchestrator.py that record human decisions and carry an   *)
(* authority change through analysis, propagation and promotion, with      *)
(* propagation.py's choice of stages.  Pure functions of the record.       *)
(***************************************************************************)
EXTENDS Scheduler

-----------------------------------------------------------------------------
(* Decisions *)

\* direct is what a request says it blocks, of the known tasks; one that says
\* nothing is about the current task, as if it had named it.  With no known
\* task left, a request blocks all unfinished ones.
ScopeOf(s, direct) ==
  IF direct # {} THEN direct
                 ELSE {t \in Task : s.items[t] # "COMPLETED"}

Request(s, direct, source, change) ==
  [status |-> "PENDING", direct |-> ScopeOf(s, direct), source |-> source,
   change |-> change]

\* _matching_resolved_adr: the same question, asked at the same place about
\* the same work, has been answered.  A decision id stands for its question.
Answered(s, q, request) ==
  s.decisions[q] = [request EXCEPT !.status = "RESOLVED"]

Unresolved(s, Q, request) == {q \in Q : ~Answered(s, q, request)}

\* _record_decisions: a pending decision is kept, an answered one reused.
RecordDecisions(s, Q, request) ==
  [s EXCEPT !.decisions =
     [d \in Decision |->
        IF /\ d \in Unresolved(s, Q, request)
           /\ s.decisions[d].status # "PENDING"
          THEN request ELSE s.decisions[d]]]

\* The record goes back to READY with nothing current, to be scheduled.
Reset(s) == [Released(s, "READY", "RUNNING") EXCEPT !.runnerFailure = FALSE]

-----------------------------------------------------------------------------
(* Detection and analysis *)

\* _authority_gate: running work is put back and the stage is taken over.
DetectChange(s, c) ==
  [Released(s, "AUTHORITY_CHANGE_ANALYSIS", "RUNNING")
     EXCEPT !.gate = Null, !.code = Null, !.blocked = Null,
            !.recoverable = FALSE, !.change = c,
            !.changes[c].status = "CHANGE_PENDING",
            !.items = [t \in Task |->
               IF s.items[t] \in {"RUNNING", "REQUIRES_PATCH"} THEN "READY"
                                                               ELSE s.items[t]]]

\* The stages a change needs, from required_propagation and its tasks.
PropagationSteps(needs, direct) ==
  {"CHANGE_PROPAGATION_PLANNING", "PLAN_GRAPH_BUILD"}
    \cup (IF "CONTRACT" \in needs
            THEN {"CONTRACT_REVISION", "CONTRACT_REVISION_REVIEW"} ELSE {})
    \cup (IF needs \cap {"CONTRACT", "PLAN"} # {}
            THEN {"PLAN_REVISION", "PLAN_REVISION_REVIEW"} ELSE {})
    \cup (IF "REBASE" \in needs \/ direct # {}
            THEN {"TASK_REBASE_ANALYSIS"} ELSE {})

NewPropagation(change) ==
  [status |-> "RUNNING",
   steps  |-> PropagationSteps(change.needs, change.direct),
   next   |-> "CHANGE_PROPAGATION_PLANNING"]

Position ==
  [CHANGE_PROPAGATION_PLANNING |-> 1, CONTRACT_REVISION |-> 2,
   CONTRACT_REVISION_REVIEW |-> 3, PLAN_REVISION |-> 4,
   PLAN_REVISION_REVIEW |-> 5, PLAN_GRAPH_BUILD |-> 6,
   TASK_REBASE_ANALYSIS |-> 7]

LaterSteps(steps, stage) == {x \in steps : Position[x] > Position[stage]}

StepAfter(steps, stage) ==
  CHOOSE x \in LaterSteps(steps, stage) :
    \A y \in LaterSteps(steps, stage) : Position[x] <= Position[y]

\* An analysis validate_analysis lets through: a non-semantic one (C0/C1)
\* affects no task, and asking the human needs at least one question.
Analysis(scopes, questions) ==
  [semantic : BOOLEAN, direct : scopes, needs : SUBSET Need,
   questions : SUBSET questions]

AnalysisValid(a) == ~a.semantic => a.direct = {}

AnalyzedChange(a) ==
  [status   |-> IF ~a.semantic THEN "ACCEPTED"
                ELSE IF a.questions # {} THEN "CHANGE_PENDING"
                ELSE "PROPAGATING",
   analyzed |-> TRUE, direct |-> a.direct, needs |-> a.needs,
   ready    |-> FALSE]

\* _apply_authority_analysis for change c.
ApplyAnalysis(s, c, a) ==
  LET change     == AnalyzedChange(a)
      propagates == change.status = "PROPAGATING"
      recorded   ==
        [Reset(s) EXCEPT
           !.code = Null, !.blocked = Null, !.recoverable = FALSE,
           !.changes[c] = change,
           !.change = IF propagates THEN c ELSE Null,
           !.propagation[c] = IF propagates THEN NewPropagation(change) ELSE @]
      asked ==
        RecordDecisions(recorded, a.questions,
          Request(recorded, a.direct, "AUTHORITY_CHANGE_ANALYSIS", c))
  IN Schedule(Recompute(asked))

-----------------------------------------------------------------------------
(* Propagation *)

\* The stage belongs to an active propagation; PLAN_REVISION_REVIEW is also
\* the review of an ordinary plan defect.
OwnsStage(s) ==
  /\ s.stage \in PropagationStages
  /\ \/ s.stage # "PLAN_REVISION_REVIEW"
     \/ s.change # Null /\ s.propagation[s.change].next = s.stage

PropagationActive(s) ==
  s.change # Null /\ s.propagation[s.change].status = "RUNNING"

\* A scoped verdict parks the propagation; its decision names the stage.
SuspendPropagation(s, Q, direct) ==
  LET c == s.change
      request == Request(s, IF direct # {} THEN direct ELSE s.changes[c].direct,
                         s.stage, Null)
      recorded == RecordDecisions(s, Q, request)
  IN Schedule([recorded EXCEPT
       !.propagation[c].status = "WAITING_DECISION",
       !.propagation[c].next = s.stage,
       !.stage = "READY", !.task = Null, !.run = FALSE,
       !.status = "RUNNING", !.runnerFailure = FALSE])

\* A review sends the revision it rejects back.
RevisionOf ==
  [CONTRACT_REVISION_REVIEW |-> "CONTRACT_REVISION",
   PLAN_REVISION_REVIEW |-> "PLAN_REVISION"]

ReviseAgain(s) ==
  Schedule([Reset(s) EXCEPT
              !.propagation[s.change].next = RevisionOf[s.stage]])

\* Reconciling the plan graph makes the change ready for its tasks.
GraphBuilt(s) ==
  IF s.stage = "PLAN_GRAPH_BUILD"
    THEN [s EXCEPT !.graph = TRUE, !.changes[s.change].ready = TRUE]
    ELSE s

CompletesPropagation(s) ==
  LaterSteps(s.propagation[s.change].steps, s.stage) = {}

\* The next stage of the plan, or the request to promote the result.
AdvancePropagation(s) ==
  LET c == s.change
      built == GraphBuilt(s)
      request == Request(s, s.changes[c].direct, "TASK_REBASE_ANALYSIS", c)
      requested ==
        RecordDecisions([built EXCEPT !.changes[c].ready = TRUE,
                                      !.propagation[c].status = "WAITING_PROMOTION",
                                      !.propagation[c].next = Null],
                        {c}, request)
  IN IF CompletesPropagation(s)
       THEN Schedule([requested EXCEPT
              !.stage = "READY", !.task = Null, !.run = FALSE,
              !.status = "RUNNING", !.runnerFailure = FALSE])
       ELSE Schedule([Reset(built) EXCEPT
              !.propagation[c].next =
                 StepAfter(s.propagation[c].steps, s.stage)])

-----------------------------------------------------------------------------
(* Answers *)

\* Promotion accepts the change and hands its first task back at TASK_PATCH;
\* first is the head of the Agent's list of directly affected tasks.
PromoteChange(s, c, first) ==
  [Released(s, IF first = Null THEN "READY" ELSE "TASK_PATCH", "RUNNING")
     EXCEPT !.task = first, !.change = Null,
            !.changes[c].status = "PROMOTED",
            !.propagation[c].status = "PROMOTED"]

\* The tasks promotion may hand back first.
PromotedFirst(s, c) ==
  IF s.graph /\ s.changes[c].direct # {} THEN s.changes[c].direct ELSE {Null}

\* An answer to a question of the analysis starts or resumes propagation.
ResumePropagation(s, c) ==
  LET p == s.propagation[c]
      resumed == IF p.status = "NONE" THEN NewPropagation(s.changes[c])
                 ELSE [p EXCEPT !.status = "RUNNING",
                         !.next = IF @ # Null THEN @
                                  ELSE "CHANGE_PROPAGATION_PLANNING"]
  IN [s EXCEPT !.propagation[c] = resumed, !.change = c]

\* decide with any answer but a promotion.
ResolveDecision(s, d) ==
  LET freed == [Released(s, "READY", "RUNNING")
                  EXCEPT !.decisions[d].status = "RESOLVED"]
  IN IF s.decisions[d].source = "AUTHORITY_CHANGE_ANALYSIS"
       THEN Schedule(ResumePropagation(freed, s.decisions[d].change))
       ELSE Schedule(freed)

\* Faulty variant: the task handed back is scheduled away at once.
ResolvePromotionSchedules(s, c, first) ==
  Schedule(PromoteChange([s EXCEPT !.decisions[c].status = "RESOLVED"],
                         c, first))

\* decide with "promote": saved as it is when a task was handed back.
ResolvePromotion(s, c, first) ==
  LET promoted == PromoteChange([s EXCEPT !.decisions[c].status = "RESOLVED"],
                                c, first)
  IN IF first = Null THEN Schedule(promoted) ELSE promoted

=============================================================================
