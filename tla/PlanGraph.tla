----------------------------- MODULE PlanGraph -----------------------------
(***************************************************************************)
(* Task graphs that change while they are worked on.  workflow.yaml        *)
(* declares the tasks a workflow starts with; the propagation of an        *)
(* authority change builds a plan graph, which adds and drops tasks and    *)
(* rewires the others, and takes the place of the declaration in           *)
(* scheduler.py.  Orchestrator keeps one graph and models the handlers in  *)
(* full; here the graph is a part of the record, and of the handlers there *)
(* is what concerns the graph.                                             *)
(***************************************************************************)
EXTENDS Integers, FiniteSets

CONSTANTS
  Task,         \* every task id that a declaration or a graph may name
  Declared,     \* the tasks of workflow.yaml: id -> ids it depends on
  Change,       \* authority changes; bound: this many, one after the other
  Null,
  Disturbances  \* what graphs and changes may do: "return", "silent", "regroup"

\* A graph maps the ids of its tasks to the ids they depend on.
Graph == UNION {[ids -> SUBSET Task] : ids \in (SUBSET Task) \ {{}}}

ItemStatus ==
  {"NEW", "READY", "RUNNING", "WAITING_DEPENDENCY",
   "BLOCKED_BY_HUMAN_DECISION", "BLOCKED_BY_AUTHORITY_CHANGE",
   "TASK_REBASE_REQUIRED", "REQUIRES_PATCH", "COMPLETED", "SUPERSEDED"}

TaskStages == {"TASK_EXECUTION", "TASK_INDEPENDENT_REVIEW", "TASK_PATCH"}
PropagationStages == {"PLAN_GRAPH_BUILD", "TASK_REBASE_ANALYSIS"}
AgentStages ==
  TaskStages \cup PropagationStages
    \cup {"AUTHORITY_CHANGE_ANALYSIS", "FINAL_VERIFICATION"}
Stage ==
  AgentStages \cup {"READY", "WAITING_FOR_HUMAN",
                    "WAITING_FOR_AUTHORITY_CHANGE", "HARD_STOP", "COMPLETED"}

StopCode == {"DEPENDENCY_BLOCKED", "UNAUTHORIZED_WORKSPACE_MUTATION"}

\* "return": a graph takes up a task that an earlier one has dropped;
\* "silent": a change names no affected task;
\* "regroup": a graph puts a task of workflow.yaml into another group.
ASSUME GraphAssumption ==
  /\ Declared \in Graph
  /\ \A t \in DOMAIN Declared : Declared[t] \subseteq DOMAIN Declared
  /\ Null \notin Task \cup Change \cup ItemStatus \cup Stage \cup StopCode
  /\ Disturbances \subseteq {"return", "silent", "regroup"}

NoChange == [status |-> "NONE", direct |-> {}, ready |-> FALSE]
NoOffer == [status |-> "NONE", blocks |-> {}]

Changes ==
  [Change -> [status : {"NONE", "CHANGE_PENDING", "PROPAGATING", "ACCEPTED",
                        "PROMOTED"},
              direct : SUBSET Task, ready : BOOLEAN]]
Offers ==
  [Change -> [status : {"NONE", "PENDING", "RESOLVED"}, blocks : SUBSET Task]]

\* projected: a plan graph has been built, and stands in for workflow.yaml;
\* grouped: current_group is not other than workflow.yaml's for the task.
Record ==
  [stage : Stage, task : Task \cup {Null},
   code : StopCode \cup {Null},
   graph : Graph, projected : BOOLEAN, grouped : BOOLEAN,
   items : [Task -> ItemStatus \cup {Null}],
   change : Change \cup {Null}, changes : Changes,
   next : [Change -> PropagationStages \cup {Null}], offers : Offers]

VARIABLES
  state,    \* the record: what state.json says of tasks and changes
  dropped   \* history: tasks that an earlier graph had and the current has not

vars == <<state, dropped>>

-----------------------------------------------------------------------------
(* validate_plan_graph *)

\* Faulty variant: a task is queued with the first of its dependencies.
VisitedByAny(g) ==
  LET after[n \in Nat] ==
        IF n = 0 THEN {}
        ELSE {t \in DOMAIN g : g[t] = {} \/ g[t] \cap after[n - 1] # {}}
  IN after[Cardinality(DOMAIN g)]

\* The tasks the search for a cycle has visited after n rounds: a task is
\* queued when the last of its dependencies has been visited.
Visited(g) ==
  LET after[n \in Nat] ==
        IF n = 0 THEN {}
                 ELSE {t \in DOMAIN g : g[t] \cap DOMAIN g \subseteq after[n - 1]}
  IN after[Cardinality(DOMAIN g)]

\* Every dependency is a task of the graph, and the search visits them all.
IsPlanGraph(g) ==
  /\ \A t \in DOMAIN g : g[t] \subseteq DOMAIN g
  /\ Visited(g) = DOMAIN g

PlanGraphs == {g \in Graph : IsPlanGraph(g)}

-----------------------------------------------------------------------------
(* scheduler.py over the graph of the record *)

Tasks(s) == DOMAIN s.graph

\* The tasks of a graph downstream of a set of them, that set left out.
Downstream(g, roots) ==
  {t \in DOMAIN g \ roots :
     \A S \in SUBSET DOMAIN g :
       roots \subseteq S /\ (\A u \in DOMAIN g : g[u] \cap S # {} => u \in S)
         => t \in S}

PendingOffers(s) == {c \in Change : s.offers[c].status = "PENDING"}
OpenChanges(s) ==
  {c \in Change : s.changes[c].status \in {"CHANGE_PENDING", "PROPAGATING"}}

DecisionDirect(s) ==
  UNION {s.offers[c].blocks : c \in PendingOffers(s)} \cap Tasks(s)
AuthorityDirect(s) ==
  UNION {s.changes[c].direct : c \in OpenChanges(s)} \cap Tasks(s)

\* What waits for a blocked task.
Dependent(s) ==
  UNION {Downstream(s.graph, s.offers[c].blocks \cap Tasks(s)) :
           c \in PendingOffers(s)}
    \cup UNION {Downstream(s.graph, s.changes[c].direct \cap Tasks(s)) :
                  c \in OpenChanges(s)}

RebaseReady(s, t) ==
  \E c \in Change : t \in s.changes[c].direct /\ s.changes[c].ready

DependenciesCompleted(s, t) == \A u \in s.graph[t] : s.items[u] = "COMPLETED"

\* Faulty variant: a task without an item stays without one.
StatusBeforeOfItem(s, t) == s.items[t]

\* A task that the graph adds has no item yet.
StatusBefore(s, t) == IF s.items[t] = Null THEN "NEW" ELSE s.items[t]

Resumable ==
  {"BLOCKED_BY_HUMAN_DECISION", "BLOCKED_BY_AUTHORITY_CHANGE",
   "TASK_REBASE_REQUIRED", "WAITING_DEPENDENCY", "READY", "NEW"}

\* The chain of tests of recompute for a task of the graph.
StatusInGraph(s, t) ==
  IF t \in AuthorityDirect(s)
    THEN IF RebaseReady(s, t) THEN "TASK_REBASE_REQUIRED"
                              ELSE "BLOCKED_BY_AUTHORITY_CHANGE"
  ELSE IF s.items[t] = "COMPLETED" THEN "COMPLETED"
  ELSE IF t = s.task /\ s.stage \in AgentStages
    THEN IF s.stage = "TASK_PATCH" THEN "REQUIRES_PATCH" ELSE "RUNNING"
  ELSE IF t \in DecisionDirect(s) THEN "BLOCKED_BY_HUMAN_DECISION"
  ELSE IF t \in Dependent(s) \/ ~DependenciesCompleted(s, t)
    THEN "WAITING_DEPENDENCY"
  ELSE IF StatusBefore(s, t) \in Resumable THEN "READY"
  ELSE s.items[t]

\* Faulty variant: tasks that a graph adds get no item.
ItemStatusOfKnown(s, t) ==
  IF s.items[t] = Null THEN Null
  ELSE IF t \in Tasks(s) THEN StatusInGraph(s, t) ELSE "SUPERSEDED"

\* An item that is not in the graph any more is superseded.
ItemStatusOf(s, t) ==
  IF t \in Tasks(s) THEN StatusInGraph(s, t)
  ELSE IF s.items[t] = Null THEN Null ELSE "SUPERSEDED"

Recompute(s) == [s EXCEPT !.items = [t \in Task |-> ItemStatusOf(s, t)]]

ReadyWork(s) ==
  LET r == Recompute(s)
  IN {t \in Tasks(s) : r.items[t] = "READY" /\ DependenciesCompleted(r, t)}

\* An item keeps the group it had first, which is what schedule takes.
Released(s, stage) ==
  [s EXCEPT !.stage = stage, !.task = Null, !.grouped = TRUE]

Runnable(s) == {c \in Change : s.next[c] # Null}

\* What schedule selects.  The order of a graph is the Agent's, so that any
\* ready task may be the first.
Selection(s) ==
  IF ReadyWork(s) # {}
    THEN {[s EXCEPT !.stage = "TASK_EXECUTION", !.task = t,
                    !.items[t] = "RUNNING"] : t \in ReadyWork(s)}
  ELSE IF PendingOffers(s) # {} THEN {Released(s, "WAITING_FOR_HUMAN")}
  ELSE IF Runnable(s) # {}
    THEN {Released(s, s.next[c]) : c \in Runnable(s)}
  ELSE IF OpenChanges(s) # {}
    THEN {Released(s, "WAITING_FOR_AUTHORITY_CHANGE")}
  ELSE IF \A t \in Task : s.items[t] \in {Null, "COMPLETED", "SUPERSEDED"}
    THEN {Released(s, "FINAL_VERIFICATION")}
  ELSE {[s EXCEPT !.stage = "HARD_STOP", !.code = "DEPENDENCY_BLOCKED"]}

Schedule(s) == Selection(Recompute(s))

\* Every command and every step recomputes the items when it loads them.
Loaded == Recompute(state)

Goes(s) == state' \in Schedule(s)

-----------------------------------------------------------------------------
(* Changes *)

\* The items of a new record: tasks that depend on nothing are ready.
Fresh(graph) ==
  [t \in Task |-> IF t \notin DOMAIN graph THEN Null
                  ELSE IF graph[t] = {} THEN "READY" ELSE "WAITING_DEPENDENCY"]

Init ==
  /\ state = [stage |-> "READY", task |-> Null, code |-> Null,
              graph |-> Declared, projected |-> FALSE, grouped |-> TRUE,
              items |-> Fresh(Declared),
              change |-> Null, changes |-> [c \in Change |-> NoChange],
              next |-> [c \in Change |-> Null],
              offers |-> [c \in Change |-> NoOffer]]
  /\ dropped = {}

StepProceeds == state.stage \notin {"HARD_STOP", "COMPLETED"}

\* _authority_gate, for changes that come one after the other: running work
\* is put back and the analysis takes the stage over.
Detect(c) ==
  LET s == Loaded IN
  /\ StepProceeds /\ OpenChanges(s) = {} /\ s.changes[c].status = "NONE"
  /\ state' = [Released(s, "AUTHORITY_CHANGE_ANALYSIS") EXCEPT
                 !.change = c, !.changes[c].status = "CHANGE_PENDING",
                 !.items = [t \in Task |->
                    IF s.items[t] \in {"RUNNING", "REQUIRES_PATCH"}
                      THEN "READY" ELSE s.items[t]]]

\* _known_task_ids: a dropped task that workflow.yaml declares is known.
KnownTasks(s) == Tasks(s) \cup DOMAIN Declared

AffectedChoices(s) ==
  IF "silent" \in Disturbances THEN SUBSET KnownTasks(s)
                               ELSE (SUBSET KnownTasks(s)) \ {{}}

\* _apply_authority_analysis: the stages before PLAN_GRAPH_BUILD do not
\* concern the graph, and are taken with it.
Analyse ==
  LET s == Loaded  c == s.change IN
  /\ s.stage = "AUTHORITY_CHANGE_ANALYSIS"
  /\ \/ Goes([Released(s, "READY") EXCEPT
                !.change = Null, !.changes[c].status = "ACCEPTED"])
     \/ \E direct \in AffectedChoices(s) :
          Goes([Released(s, "READY") EXCEPT
                  !.changes[c] = [status |-> "PROPAGATING", direct |-> direct,
                                  ready |-> FALSE],
                  !.next[c] = "PLAN_GRAPH_BUILD"])

\* reconcile_plan_graph: the tasks it calls affected, because the change
\* names them, they are downstream of one it names, or they are not what they
\* were in the graph before.  There is none before the first.
Affected(s, g) ==
  LET direct == s.changes[s.change].direct
      closed == direct \cup Downstream(g, direct \cap DOMAIN g)
  IN closed \cup {t \in Tasks(s) \cap DOMAIN g :
                    s.projected /\ s.graph[t] # g[t]}

\* The graphs an Agent may build; only "return" takes up dropped tasks.
NextGraphs ==
  {g \in PlanGraphs :
     "return" \in Disturbances \/ DOMAIN g \cap dropped = {}}

\* _record_decisions: a request without a task of the graph blocks what
\* workflow.yaml declares and is not completed.
Blocks(s, direct) ==
  IF direct \cap Tasks(s) # {} THEN direct \cap Tasks(s)
  ELSE {t \in DOMAIN Declared : s.items[t] \notin {Null, "COMPLETED"}}

\* The request to promote the change, when no stage is left.
Requested(s, c) ==
  [s EXCEPT !.changes[c].ready = TRUE, !.next[c] = Null,
            !.offers[c] = [status |-> "PENDING",
                           blocks |-> Blocks(s, s.changes[c].direct)]]

\* Faulty variant: the items of the graph start anew.
RebuiltAfresh(s, g) ==
  [s EXCEPT !.graph = g, !.projected = TRUE, !.changes[s.change].ready = TRUE,
            !.items = Fresh(g)]

\* The new graph takes the place of the one before.
Rebuilt(s, g) ==
  [s EXCEPT !.graph = g, !.projected = TRUE, !.changes[s.change].ready = TRUE]

\* PLAN_GRAPH_BUILD is approved; tasks that are affected, and whatever else
\* the analysis asks for, are rebased next.
BuildGraph ==
  LET s == Loaded IN
  /\ s.stage = "PLAN_GRAPH_BUILD"
  /\ \E g \in NextGraphs, rebase \in BOOLEAN :
       LET built == Released(Rebuilt(s, g), "READY") IN
       /\ IF rebase \/ s.changes[s.change].direct # {}
            THEN Goes([built EXCEPT !.next[s.change] = "TASK_REBASE_ANALYSIS"])
            ELSE Goes(Requested(built, s.change))
       /\ dropped' = (dropped \cup Tasks(s)) \ DOMAIN g

Rebase ==
  LET s == Loaded IN
  /\ s.stage = "TASK_REBASE_ANALYSIS"
  /\ Goes(Released(Requested(s, s.change), "READY"))

\* decide with "defer": the change stays as it is.
Defer(c) ==
  LET s == Loaded IN
  /\ s.offers[c].status = "PENDING"
  /\ Goes([Released(s, "READY") EXCEPT !.offers[c].status = "RESOLVED"])

\* A task handed back has the group the graph says, and none if the graph has
\* dropped it.
HandedGroups(s, t) ==
  IF t \notin Tasks(s) THEN {FALSE}
  ELSE IF "regroup" \in Disturbances THEN BOOLEAN ELSE {TRUE}

\* decide with "promote": the first affected task in the Agent's list, also
\* one the graph has dropped, is handed back at TASK_PATCH, or else the
\* record is scheduled.
Promote(c) ==
  LET s == Loaded
      promoted == [Released(s, "READY") EXCEPT
                     !.offers[c].status = "RESOLVED", !.change = Null,
                     !.changes[c].status = "PROMOTED"]
  IN /\ s.offers[c].status = "PENDING"
     /\ IF s.changes[c].direct = {} THEN Goes(promoted)
        ELSE \E first \in s.changes[c].direct :
               \E grouped \in HandedGroups(s, first) :
                 state' = [promoted EXCEPT !.stage = "TASK_PATCH", !.task = first,
                                           !.grouped = grouped]

-----------------------------------------------------------------------------
(* Work *)

\* A step at a stage that selects work.
Select ==
  /\ state.stage \in {"READY", "WAITING_FOR_HUMAN", "WAITING_FOR_AUTHORITY_CHANGE"}
  /\ Goes(Loaded)

\* The diff of a task is committed within the paths workflow.yaml declares
\* for it in its group; a task it does not declare there has no bounds.
Bounded(s) == s.task \in DOMAIN Declared /\ s.grouped

\* An approved TASK_EXECUTION or TASK_PATCH, which may have changed nothing.
WorkApproved ==
  LET s == Loaded IN
  /\ s.stage \in {"TASK_EXECUTION", "TASK_PATCH"}
  /\ \E changes \in BOOLEAN :
       state' = IF changes /\ ~Bounded(s)
                  THEN [s EXCEPT !.stage = "HARD_STOP",
                                 !.code = "UNAUTHORIZED_WORKSPACE_MUTATION"]
                  ELSE Recompute([s EXCEPT !.stage = "TASK_INDEPENDENT_REVIEW"])

ReviewRequiresPatch ==
  LET s == Loaded IN
  /\ s.stage = "TASK_INDEPENDENT_REVIEW"
  /\ state' = Recompute([s EXCEPT !.stage = "TASK_PATCH"])

\* An approved review completes the item, if there is one, and the next work
\* is selected.
ReviewApproved ==
  LET s == Loaded IN
  /\ s.stage = "TASK_INDEPENDENT_REVIEW"
  /\ Goes([Released(s, "READY") EXCEPT
             !.items[s.task] = IF @ = Null THEN Null ELSE "COMPLETED"])

FinalApproved ==
  /\ state.stage = "FINAL_VERIFICATION"
  /\ state' = [Loaded EXCEPT !.stage = "COMPLETED"]

Next ==
  \/ BuildGraph
  \/ /\ \/ \E c \in Change : Detect(c) \/ Defer(c) \/ Promote(c)
        \/ Analyse \/ Rebase \/ Select
        \/ WorkApproved \/ ReviewRequiresPatch \/ ReviewApproved
        \/ FinalApproved
     /\ UNCHANGED dropped

Spec == Init /\ [][Next]_vars

-----------------------------------------------------------------------------
(* Properties *)

\* The record keeps to its types, and a task of the graph has an item.
TypeOK ==
  /\ state \in Record /\ dropped \subseteq Task
  /\ \A t \in Tasks(state) : state.items[t] # Null

\* Completed work is taken back only by an open change that affects it
\* directly, whatever graph replaces the one it was completed under.
CompletedSurvivesGraphs ==
  [][\A t \in Tasks(state) \cap Tasks(state') :
       state.items[t] = "COMPLETED" /\ state'.items[t] # "COMPLETED"
         => t \in AuthorityDirect(state')]_vars

\* The active graph supplies the complete task set: the project is verified
\* and completed only when every task of it has been completed.
FinishesTheGraph ==
  state.stage \in {"FINAL_VERIFICATION", "COMPLETED"}
    => \A t \in Tasks(state) : state.items[t] = "COMPLETED"

\* Whatever graphs follow each other, they never leave the workflow with
\* work to do and nothing that can be scheduled.
NeverBlocked == state.code # "DEPENDENCY_BLOCKED"

\* The work on a task that the active graph supplies is not refused for not
\* being a task of the workflow.
GraphTasksAreBounded ==
  state.code = "UNAUTHORIZED_WORKSPACE_MUTATION" => state.task \notin Tasks(state)

\* Work that is superseded is over: no Agent is sent to it again.
SupersededIsTerminal ==
  state.stage \in TaskStages => state.task \in Tasks(state)

\* What reconciliation calls affected, because its task has changed or is
\* downstream of an affected one, is scheduled again.
AffectedIsReopened ==
  [][BuildGraph =>
       \A t \in Affected(Loaded, state'.graph) \cap DOMAIN state'.graph :
         state'.items[t] # "COMPLETED"]_vars

=============================================================================
