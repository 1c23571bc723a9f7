-------------------------- MODULE PlanGraphProofs --------------------------
(***************************************************************************)
(* Proofs about PlanGraph, for any ids, any declaration and any number of  *)
(* changes.                                                                *)
(***************************************************************************)
EXTENDS PlanGraph, WellFoundedInduction, FiniteSetTheorems, TLAPS

-----------------------------------------------------------------------------
(* The inductive invariant *)

\* What is superseded is dropped, and what is neither in the graph nor
\* dropped has never been in a graph.
ItemsOK(s, gone) ==
  \A t \in Task : /\ s.items[t] = "SUPERSEDED" => t \in gone
                  /\ s.items[t] # Null => t \in Tasks(s) \cup gone

\* Every task of the graph has an item, and none that an open change affects
\* counts as completed.
Settled(s) ==
  \A t \in Tasks(s) : /\ s.items[t] # Null
                      /\ t \in AuthorityDirect(s) => s.items[t] # "COMPLETED"

\* One change is open at a time and it is the current one; it has a stage to
\* run next or an offer, and never both.
ChangesOK(s) ==
  \A c \in Change :
    /\ s.changes[c].status = "NONE" => s.changes[c].direct = {}
    /\ c \in OpenChanges(s) => c = s.change
    /\ s.next[c] # Null =>
         s.changes[c].status = "PROPAGATING" /\ s.offers[c].status # "PENDING"
    /\ s.offers[c].status = "PENDING" => s.changes[c].status = "PROPAGATING"

\* A stage of a change belongs to the current change.
StageOK(s) ==
  /\ s.stage = "AUTHORITY_CHANGE_ANALYSIS" =>
       s.change \in Change /\ s.changes[s.change].status = "CHANGE_PENDING"
  /\ s.stage \in PropagationStages =>
       s.change \in Change /\ s.next[s.change] = s.stage

\* The project is verified when nothing is left to do.
Finished(s) ==
  s.stage \in {"FINAL_VERIFICATION", "COMPLETED"} =>
    \A t \in Tasks(s) : s.items[t] = "COMPLETED"

Sound(s) == s \in Record /\ ChangesOK(s)
Placed(s, gone) == gone \subseteq Task /\ gone \cap Tasks(s) = {} /\ ItemsOK(s, gone)

\* The part that holds whatever graphs take up again.
Steady(s) == Sound(s) /\ Settled(s) /\ StageOK(s)
Inductive == Steady(state) /\ dropped \subseteq Task

-----------------------------------------------------------------------------
(* Graphs and items *)

LEMMA TasksTyped ==
  ASSUME NEW s \in Record
  PROVE  /\ Tasks(s) \in SUBSET Task
         /\ s.graph \in [Tasks(s) -> SUBSET Task]
BY DEF Record, Graph, Tasks

\* The chain of tests gives a status; only what is superseded already stays
\* superseded, and completion is taken back by an affecting change alone.
LEMMA StatusTyped ==
  ASSUME NEW s \in Record, NEW t \in Tasks(s)
  PROVE  /\ StatusInGraph(s, t) \in ItemStatus \cup {Null}
         /\ s.items[t] # Null => StatusInGraph(s, t) # Null
         /\ StatusInGraph(s, t) = "SUPERSEDED" => s.items[t] = "SUPERSEDED"
         /\ t \in AuthorityDirect(s) => StatusInGraph(s, t) # "COMPLETED"
         /\ s.items[t] = "COMPLETED" /\ t \notin AuthorityDirect(s)
              => StatusInGraph(s, t) = "COMPLETED"
         /\ s.items[t] = Null => StatusInGraph(s, t) # Null
<1>1. t \in Task /\ s.items[t] \in ItemStatus \cup {Null}
  BY TasksTyped DEF Record
<1> QED
  BY <1>1, GraphAssumption DEF StatusInGraph, StatusBefore, Resumable, ItemStatus

\* Two records that say the same of the graph and of the changes.
Same(r, s) ==
  /\ r.graph = s.graph /\ r.change = s.change /\ r.changes = s.changes
  /\ r.next = s.next /\ r.offers = s.offers

LEMMA SameMeaning ==
  ASSUME NEW r, NEW s, Same(r, s)
  PROVE  /\ Tasks(r) = Tasks(s) /\ AuthorityDirect(r) = AuthorityDirect(s)
         /\ OpenChanges(r) = OpenChanges(s) /\ PendingOffers(r) = PendingOffers(s)
         /\ ChangesOK(s) => ChangesOK(r)
<1>1. /\ Tasks(r) = Tasks(s) /\ OpenChanges(r) = OpenChanges(s)
      /\ PendingOffers(r) = PendingOffers(s)
  BY DEF Same, Tasks, OpenChanges, PendingOffers
<1>2. AuthorityDirect(r) = AuthorityDirect(s)
  BY <1>1 DEF Same, AuthorityDirect
<1>3. ChangesOK(s) => ChangesOK(r)
  BY <1>1 DEF Same, ChangesOK
<1> QED BY <1>1, <1>2, <1>3

\* What recompute makes of the items.
LEMMA Recomputed ==
  ASSUME NEW s, Sound(s)
  PROVE  /\ Sound(Recompute(s)) /\ Settled(Recompute(s)) /\ Same(Recompute(s), s)
         /\ Recompute(s).stage = s.stage /\ Recompute(s).task = s.task
         /\ \A t \in Tasks(s) :
              s.items[t] = "COMPLETED" /\ t \notin AuthorityDirect(s)
                => Recompute(s).items[t] = "COMPLETED"
         /\ \A t \in Task :
              /\ Recompute(s).items[t] = "SUPERSEDED" =>
                   s.items[t] = "SUPERSEDED" \/ (t \notin Tasks(s) /\ s.items[t] # Null)
              /\ Recompute(s).items[t] # Null => t \in Tasks(s) \/ s.items[t] # Null
<1> DEFINE r == Recompute(s)
<1>1. s \in Record
  BY DEF Sound
<1>2. \A t \in Task : ItemStatusOf(s, t) \in ItemStatus \cup {Null}
  BY <1>1, StatusTyped DEF ItemStatusOf, ItemStatus
<1>3. /\ r \in Record /\ Same(r, s) /\ r.stage = s.stage /\ r.task = s.task
      /\ \A t \in Task : r.items[t] = ItemStatusOf(s, t)
  BY <1>1, <1>2 DEF Recompute, Record, Same
<1>4. Tasks(s) \subseteq Task
  BY <1>1, TasksTyped
<1>5. \A t \in Tasks(s) : r.items[t] = StatusInGraph(s, t)
  BY <1>3, <1>4 DEF ItemStatusOf
<1>6. Sound(r)
  BY <1>3, SameMeaning DEF Sound
<1>7. Settled(r)
  BY <1>1, <1>3, <1>5, StatusTyped, SameMeaning DEF Settled
<1>8. \A t \in Tasks(s) :
        s.items[t] = "COMPLETED" /\ t \notin AuthorityDirect(s)
          => r.items[t] = "COMPLETED"
  BY <1>1, <1>5, StatusTyped
<1>9. ASSUME NEW t \in Task
      PROVE  /\ r.items[t] = "SUPERSEDED" =>
                  s.items[t] = "SUPERSEDED" \/ (t \notin Tasks(s) /\ s.items[t] # Null)
             /\ r.items[t] # Null => t \in Tasks(s) \/ s.items[t] # Null
  <2>1. CASE t \in Tasks(s)
    BY <1>1, <1>5, <2>1, StatusTyped
  <2>2. CASE t \notin Tasks(s)
    BY <1>3, <2>2, GraphAssumption DEF ItemStatusOf, ItemStatus
  <2> QED BY <2>1, <2>2
<1> QED BY <1>3, <1>6, <1>7, <1>8, <1>9

\* The place of the items in and out of the graph survives recompute.
LEMMA RecomputedPlaced ==
  ASSUME NEW s, NEW gone, Sound(s), Placed(s, gone)
  PROVE  Placed(Recompute(s), gone)
BY Recomputed, SameMeaning, TasksTyped DEF Placed, ItemsOK, Sound

-----------------------------------------------------------------------------
(* schedule *)

\* What a step says of a change keeps the changes typed.
LEMMA ChangedTyped ==
  ASSUME NEW all \in Changes, NEW c \in Change,
         NEW status \in {"NONE", "CHANGE_PENDING", "PROPAGATING", "ACCEPTED", "PROMOTED"}
  PROVE  /\ [all EXCEPT ![c].status = status] \in Changes
         /\ [all EXCEPT ![c].ready = TRUE] \in Changes
<1>1. [all EXCEPT ![c].status = status] \in Changes
  BY DEF Changes
<1>2. [all EXCEPT ![c].ready = TRUE] \in Changes
  BY DEF Changes
<1> QED BY <1>1, <1>2

LEMMA ReleasedOK ==
  ASSUME NEW s \in Record, NEW stage \in Stage
  PROVE  /\ Released(s, stage) \in Record /\ Same(Released(s, stage), s)
         /\ Released(s, stage).stage = stage /\ Released(s, stage).items = s.items
BY DEF Released, Record, Same

\* Whatever schedule selects is sound, at a stage that suits it, and takes no
\* completed work back that it is not asked to.
LEMMA Selected ==
  ASSUME NEW s, NEW r, Sound(s), Settled(s), r \in Selection(s)
  PROVE  /\ Steady(r) /\ Same(r, s)
         /\ r.stage \in {"FINAL_VERIFICATION", "COMPLETED"} =>
              \A t \in Task : r.items[t] \in {Null, "COMPLETED", "SUPERSEDED"}
         /\ \A t \in Task : /\ s.items[t] = "COMPLETED" => r.items[t] = "COMPLETED"
                            /\ r.items[t] = "SUPERSEDED" => s.items[t] = "SUPERSEDED"
                            /\ r.items[t] # Null => s.items[t] # Null
<1>1. s \in Record /\ ChangesOK(s) /\ Tasks(s) \subseteq Task
  BY TasksTyped DEF Sound
<1>2. CASE ReadyWork(s) # {}
  <2>1. PICK t \in ReadyWork(s) :
          r = [s EXCEPT !.stage = "TASK_EXECUTION", !.task = t, !.items[t] = "RUNNING"]
    BY <1>2 DEF Selection
  <2>2. t \in Tasks(s) /\ Recompute(s).items[t] = "READY"
    BY <2>1 DEF ReadyWork
  <2>3. s.items[t] # Null /\ s.items[t] # "COMPLETED"
    <3>1. s.items[t] # Null
      BY <2>2 DEF Settled
    <3>2. s.items[t] = "COMPLETED" => t \notin AuthorityDirect(s)
      BY <2>2 DEF Settled
    <3> QED BY <2>2, <3>1, <3>2, Recomputed
  <2>4. /\ r \in Record /\ Same(r, s) /\ r.stage = "TASK_EXECUTION"
        /\ r.items = [s.items EXCEPT ![t] = "RUNNING"]
    BY <1>1, <2>1, <2>2 DEF Record, Same, Stage, AgentStages, TaskStages, ItemStatus
  <2>5. \A u \in Task : r.items[u] = IF u = t THEN "RUNNING" ELSE s.items[u]
    BY <1>1, <2>4 DEF Record
  <2>6. Sound(r) /\ Settled(r)
    BY <1>1, <2>4, <2>5, SameMeaning, GraphAssumption DEF Sound, Settled, ItemStatus
  <2> QED BY <2>3, <2>4, <2>5, <2>6 DEF Steady, StageOK, PropagationStages
<1>3. ASSUME NEW stage \in Stage, r = Released(s, stage), StageOK(r)
      PROVE  Steady(r) /\ Same(r, s) /\ r.items = s.items /\ r.stage = stage
  <2>1. r \in Record /\ Same(r, s) /\ r.items = s.items /\ r.stage = stage
    BY <1>1, <1>3, ReleasedOK
  <2> QED BY <1>1, <1>3, <2>1, SameMeaning DEF Steady, Sound, Settled
<1> USE DEF Stage, AgentStages, TaskStages, PropagationStages
<1>4. CASE r \in {Released(s, "WAITING_FOR_HUMAN"),
                  Released(s, "WAITING_FOR_AUTHORITY_CHANGE")}
  <2>1. PICK stage \in {"WAITING_FOR_HUMAN", "WAITING_FOR_AUTHORITY_CHANGE"} :
          r = Released(s, stage)
    BY <1>4
  <2>2. StageOK(r)
    BY <1>1, <2>1, ReleasedOK DEF StageOK
  <2> QED BY <1>3, <2>1, <2>2
<1>5. CASE \E c \in Runnable(s) : r = Released(s, s.next[c])
  <2>1. PICK c \in Change : s.next[c] # Null /\ r = Released(s, s.next[c])
    BY <1>5 DEF Runnable
  <2>2. s.next[c] \in PropagationStages
    BY <1>1, <2>1 DEF Record
  <2>3. s.change = c
    BY <1>1, <2>1 DEF ChangesOK, OpenChanges
  <2>4. r.change = c /\ r.next = s.next /\ r.stage = s.next[c]
    BY <1>1, <2>1, <2>2, <2>3, ReleasedOK DEF Same
  <2>5. StageOK(r)
    BY <2>2, <2>4 DEF StageOK
  <2> QED BY <1>3, <2>1, <2>2, <2>5
<1>6. CASE /\ r = Released(s, "FINAL_VERIFICATION")
           /\ \A t \in Task : s.items[t] \in {Null, "COMPLETED", "SUPERSEDED"}
  <2>1. StageOK(r)
    BY <1>1, <1>6, ReleasedOK, SameMeaning DEF StageOK
  <2> QED BY <1>3, <1>6, <2>1
<1>7. CASE r = [s EXCEPT !.stage = "HARD_STOP", !.code = "DEPENDENCY_BLOCKED"]
  <2>1. r \in Record /\ Same(r, s) /\ r.items = s.items /\ r.stage = "HARD_STOP"
    BY <1>1, <1>7 DEF Record, Same, StopCode
  <2> QED BY <1>1, <2>1, SameMeaning DEF Steady, Sound, Settled, StageOK
<1>8. CASE ReadyWork(s) = {}
  BY <1>3, <1>4, <1>5, <1>6, <1>7, <1>8 DEF Selection
<1> QED BY <1>2, <1>8

\* Completed work is kept but for what an open change affects.
Keeps(s, r) ==
  \A t \in Tasks(s) \cap Tasks(r) :
    s.items[t] = "COMPLETED" /\ r.items[t] # "COMPLETED" => t \in AuthorityDirect(r)

\* The items of x are those of s, of which some may be completed now.
Follows(x, s) ==
  \A t \in Task : /\ s.items[t] = "COMPLETED" => x.items[t] = "COMPLETED"
                  /\ x.items[t] = "SUPERSEDED" => s.items[t] = "SUPERSEDED"
                  /\ x.items[t] # Null => s.items[t] # Null

\* What a step loads is as sound as what was saved, and no work is lost.
LEMMA LoadedOK ==
  ASSUME Steady(state)
  PROVE  /\ Steady(Loaded) /\ Same(Loaded, state)
         /\ Loaded.stage = state.stage /\ Loaded.task = state.task
         /\ \A t \in Tasks(state) :
              state.items[t] = "COMPLETED" => Loaded.items[t] = "COMPLETED"
         /\ Finished(state) => Finished(Loaded)
         /\ \A gone : Placed(state, gone) => Placed(Loaded, gone)
<1> DEFINE l == Recompute(state)
<1>1. Sound(state) /\ Settled(state) /\ StageOK(state) /\ state \in Record
  BY DEF Steady, Sound
<1>2. /\ Sound(l) /\ Settled(l) /\ Same(l, state)
      /\ l.stage = state.stage /\ l.task = state.task
  BY <1>1, Recomputed
<1>3. \A t \in Tasks(state) :
        state.items[t] = "COMPLETED" => l.items[t] = "COMPLETED"
  BY <1>1, Recomputed DEF Settled
<1>4. StageOK(l)
  BY <1>1, <1>2 DEF StageOK, Same
<1>5. Finished(state) => Finished(l)
  BY <1>2, <1>3, SameMeaning DEF Finished
<1>6. \A gone : Placed(state, gone) => Placed(l, gone)
  BY <1>1, RecomputedPlaced
<1> QED BY <1>2, <1>3, <1>4, <1>5, <1>6 DEF Loaded, Steady

\* A step that has made x of what it loaded and hands it to schedule.
LEMMA GoesOK ==
  ASSUME Steady(state), NEW x, Sound(x), Follows(x, Loaded), Goes(x)
  PROVE  /\ Steady(state') /\ Same(state', x) /\ Keeps(state, state')
         /\ \A gone : Placed(x, gone) => Placed(state', gone) /\ Finished(state')
<1> DEFINE r == Recompute(x)
<1>1. state' \in Selection(r)
  BY DEF Goes, Schedule
<1>2. Sound(r) /\ Settled(r) /\ Same(r, x)
  BY Recomputed
<1>3. /\ Steady(state') /\ Same(state', r)
      /\ state'.stage \in {"FINAL_VERIFICATION", "COMPLETED"} =>
           \A t \in Task : state'.items[t] \in {Null, "COMPLETED", "SUPERSEDED"}
      /\ \A t \in Task :
           /\ r.items[t] = "COMPLETED" => state'.items[t] = "COMPLETED"
           /\ state'.items[t] = "SUPERSEDED" => r.items[t] = "SUPERSEDED"
           /\ state'.items[t] # Null => r.items[t] # Null
  <2> HIDE DEF r
  <2> QED BY <1>1, <1>2, Selected
<1>4. Same(state', x)
  BY <1>2, <1>3 DEF Same
<1>5. /\ Tasks(state') = Tasks(x) /\ AuthorityDirect(state') = AuthorityDirect(x)
      /\ Tasks(r) = Tasks(x) /\ Tasks(x) \subseteq Task
      /\ Tasks(state) \subseteq Task
  BY <1>2, <1>4, SameMeaning, TasksTyped DEF Sound, Steady
<1>6. ASSUME NEW t \in Tasks(state) \cap Tasks(state'),
             state.items[t] = "COMPLETED", t \notin AuthorityDirect(state')
      PROVE  state'.items[t] = "COMPLETED"
  <2>1. t \in Task /\ t \in Tasks(x)
    BY <1>5
  <2>2. x.items[t] = "COMPLETED"
    BY <1>6, <2>1, LoadedOK DEF Follows
  <2>3. r.items[t] = "COMPLETED"
    BY <1>5, <1>6, <2>1, <2>2, Recomputed
  <2> QED BY <1>3, <2>1, <2>3
<1>7. ASSUME NEW gone, Placed(x, gone)
      PROVE  Placed(state', gone) /\ Finished(state')
  <2>1. Placed(r, gone)
    BY <1>7, RecomputedPlaced
  <2>2. Placed(state', gone)
    BY <1>3, <1>5, <2>1 DEF Placed, ItemsOK
  <2>3. Finished(state')
    BY <1>3, <1>5, <2>2 DEF Finished, Placed, ItemsOK, Steady, Settled
  <2> QED BY <2>2, <2>3
<1> QED BY <1>3, <1>4, <1>6, <1>7 DEF Keeps

-----------------------------------------------------------------------------
(* Every step *)

\* What every step does for the invariants.
Good ==
  /\ Steady(state') /\ Keeps(state, state')
  /\ "return" \notin Disturbances /\ Placed(state, dropped) /\ Finished(state)
       => Placed(state', dropped') /\ Finished(state')

\* The three ways in which a step ends: in schedule, in recompute, and with
\* what it has made.
LEMMA EndsInSchedule ==
  ASSUME Steady(state), NEW x, Sound(x), Follows(x, Loaded), Tasks(x) = Tasks(Loaded),
         Goes(x), UNCHANGED dropped
  PROVE  Good
<1>1. Placed(state, dropped) => Placed(x, dropped)
  BY LoadedOK DEF Placed, ItemsOK, Follows
<1> QED BY <1>1, GoesOK DEF Good

LEMMA EndsInRecompute ==
  ASSUME Steady(state), NEW x, Sound(x), Follows(x, Loaded), Tasks(x) = Tasks(Loaded),
         StageOK(x), x.stage \notin {"FINAL_VERIFICATION", "COMPLETED"},
         state' = Recompute(x), UNCHANGED dropped
  PROVE  Good
<1>1. /\ Sound(state') /\ Settled(state') /\ Same(state', x)
      /\ state'.stage = x.stage
      /\ \A t \in Tasks(x) :
           x.items[t] = "COMPLETED" /\ t \notin AuthorityDirect(x)
             => state'.items[t] = "COMPLETED"
  BY Recomputed
<1>2. StageOK(state')
  BY <1>1 DEF StageOK, Same
<1>3. /\ Tasks(state) \subseteq Task /\ Tasks(state') = Tasks(x)
      /\ AuthorityDirect(state') = AuthorityDirect(x)
  BY <1>1, SameMeaning, TasksTyped DEF Steady, Sound
<1>4. Keeps(state, state')
  BY <1>1, <1>3, LoadedOK DEF Keeps, Follows
<1>5. Placed(state, dropped) => Placed(state', dropped)
  <2>1. Placed(state, dropped) => Placed(x, dropped)
    BY LoadedOK DEF Placed, ItemsOK, Follows
  <2> QED BY <2>1, RecomputedPlaced
<1>6. Finished(state')
  BY <1>1 DEF Finished
<1> QED BY <1>1, <1>2, <1>4, <1>5, <1>6 DEF Good, Steady

LEMMA EndsAsMade ==
  ASSUME Steady(state), Steady(state'), Follows(state', Loaded),
         Tasks(state') = Tasks(Loaded), UNCHANGED dropped,
         state'.stage \notin {"FINAL_VERIFICATION", "COMPLETED"}
  PROVE  Good
<1>1. Tasks(state) \subseteq Task
  BY TasksTyped DEF Steady, Sound
<1>2. Keeps(state, state')
  BY <1>1, LoadedOK DEF Keeps, Follows
<1>3. Placed(state, dropped) => Placed(state', dropped)
  BY LoadedOK DEF Placed, ItemsOK, Follows
<1> QED BY <1>2, <1>3 DEF Good, Finished

\* What a step works on.
LEMMA LoadedFacts ==
  ASSUME Steady(state)
  PROVE  /\ Loaded \in Record /\ Sound(Loaded) /\ Settled(Loaded) /\ StageOK(Loaded)
         /\ ChangesOK(Loaded) /\ Loaded.stage = state.stage
BY LoadedOK DEF Steady, Sound

\* What a handler has made of the record when it hands it to schedule.
Handed(x) ==
  /\ Sound(x) /\ Follows(x, Loaded) /\ x.graph = Loaded.graph /\ Goes(x)
  /\ x.stage \notin AgentStages /\ x.code = Loaded.code

LEMMA HandedOK ==
  ASSUME Steady(state), NEW x, Handed(x), UNCHANGED dropped
  PROVE  Good
<1>1. Tasks(x) = Tasks(Loaded)
  BY DEF Handed, Tasks
<1> QED BY <1>1, EndsInSchedule DEF Handed

LEMMA DetectOK ==
  ASSUME Steady(state), NEW c \in Change, Detect(c), UNCHANGED dropped
  PROVE  Good
<1> DEFINE s == Loaded
<1>1. /\ s \in Record /\ Sound(s) /\ Settled(s) /\ ChangesOK(s)
      /\ OpenChanges(s) = {} /\ s.changes[c].status = "NONE"
  BY LoadedFacts DEF Detect
<1>2. /\ state'.stage = "AUTHORITY_CHANGE_ANALYSIS" /\ state'.change = c
      /\ state'.task = Null /\ state'.code = s.code
      /\ state'.changes = [s.changes EXCEPT ![c].status = "CHANGE_PENDING"]
      /\ state'.next = s.next /\ state'.offers = s.offers /\ state'.graph = s.graph
      /\ state'.items = [t \in Task |->
           IF s.items[t] \in {"RUNNING", "REQUIRES_PATCH"} THEN "READY" ELSE s.items[t]]
  BY <1>1 DEF Detect, Released, Record
<1>3. [s.changes EXCEPT ![c].status = "CHANGE_PENDING"] \in Changes
  BY <1>1 DEF Record, Changes
<1>4. state'.items \in [Task -> ItemStatus \cup {Null}]
  BY <1>1, <1>2 DEF Record, ItemStatus
<1>5. state' \in Record
  BY <1>1, <1>2, <1>3, <1>4 DEF Detect, Released, Record, Stage, AgentStages
<1>6. \A d \in Change :
        /\ state'.changes[d].status =
             IF d = c THEN "CHANGE_PENDING" ELSE s.changes[d].status
        /\ state'.changes[d].direct = s.changes[d].direct
  BY <1>1, <1>2 DEF Record, Changes
<1>7. ChangesOK(state')
  BY <1>1, <1>2, <1>6 DEF ChangesOK, OpenChanges
<1>8. OpenChanges(state') = {c} /\ s.changes[c].direct = {}
  BY <1>1, <1>6 DEF OpenChanges, ChangesOK
<1>9. AuthorityDirect(state') = {}
  BY <1>6, <1>8 DEF AuthorityDirect
<1>10. Tasks(state') = Tasks(s) /\ Tasks(s) \subseteq Task
  BY <1>1, <1>2, TasksTyped DEF Tasks
<1>11. Settled(state') /\ Follows(state', s)
  BY <1>1, <1>2, <1>9, <1>10, GraphAssumption DEF Settled, Follows, ItemStatus
<1>12. StageOK(state')
  BY <1>2, <1>6 DEF StageOK, PropagationStages
<1>13. Steady(state')
  BY <1>5, <1>7, <1>11, <1>12 DEF Steady, Sound
<1> QED BY <1>2, <1>10, <1>11, <1>13, EndsAsMade

\* Back to READY with nothing changed but what a change says of itself.
LEMMA ReadyOK ==
  ASSUME Steady(state)
  PROVE  LET x == Released(Loaded, "READY") IN
         /\ x \in Record /\ Same(x, Loaded) /\ x.stage = "READY"
         /\ x.items = Loaded.items /\ Sound(x) /\ Follows(x, Loaded)
         /\ x.graph = Loaded.graph /\ x.code = Loaded.code
<1> DEFINE x == Released(Loaded, "READY")
<1>1. x \in Record /\ Same(x, Loaded) /\ x.stage = "READY" /\ x.items = Loaded.items
  BY LoadedFacts, ReleasedOK DEF Stage
<1>2. x.code = Loaded.code
  BY DEF Released
<1> QED BY <1>1, <1>2, LoadedFacts, SameMeaning DEF Sound, Follows, Same

LEMMA SelectOK ==
  ASSUME Steady(state), Select, UNCHANGED dropped
  PROVE  Good
BY LoadedFacts, EndsInSchedule DEF Select, Follows

LEMMA AnalyseHands ==
  ASSUME Steady(state), Analyse
  PROVE  \E x : /\ Handed(x) /\ x.items = Loaded.items /\ x.offers = Loaded.offers
               /\ \A d \in Change : \/ x.changes[d].status # "PROPAGATING"
                                    \/ x.changes[d] = Loaded.changes[d]
                                    \/ x.changes[d].direct \in AffectedChoices(Loaded)
<1> DEFINE s == Loaded  c == s.change  b == Released(s, "READY")
<1>1. /\ s \in Record /\ ChangesOK(s) /\ c \in Change
      /\ s.changes[c].status = "CHANGE_PENDING"
  BY LoadedFacts DEF Analyse, StageOK
<1>2. s.next[c] = Null /\ s.offers[c].status # "PENDING"
  BY <1>1 DEF ChangesOK
<1>3. /\ b \in Record /\ Same(b, s) /\ b.items = s.items /\ b.graph = s.graph
      /\ b.stage = "READY" /\ b.code = s.code
  BY ReadyOK
<1> DEFINE Hands(x) ==
             /\ Handed(x) /\ x.items = s.items /\ x.offers = s.offers
             /\ \A d \in Change : \/ x.changes[d].status # "PROPAGATING"
                                  \/ x.changes[d] = s.changes[d]
                                  \/ x.changes[d].direct \in AffectedChoices(s)
<1>4. CASE Goes([b EXCEPT !.change = Null, !.changes[c].status = "ACCEPTED"])
  <2> DEFINE x == [b EXCEPT !.change = Null, !.changes[c].status = "ACCEPTED"]
  <2>1. /\ x.change = Null /\ x.items = s.items /\ x.graph = s.graph
        /\ x.next = s.next /\ x.offers = s.offers
        /\ x.stage = "READY" /\ x.code = s.code
        /\ x.changes = [s.changes EXCEPT ![c].status = "ACCEPTED"]
    BY <1>3 DEF Record, Same
  <2>2. x.changes \in Changes
    <3>1. s.changes \in Changes
      BY <1>1 DEF Record
    <3> HIDE DEF x, s, c
    <3> QED BY <1>1, <2>1, <3>1, ChangedTyped
  <2>3. x \in Record
    BY <1>3, <2>2 DEF Record
  <2>4. \A d \in Change :
          /\ x.changes[d].status = IF d = c THEN "ACCEPTED" ELSE s.changes[d].status
          /\ x.changes[d].direct = s.changes[d].direct
          /\ d # c => x.changes[d] = s.changes[d]
    BY <1>1, <2>1 DEF Record, Changes
  <2>5. ChangesOK(x)
    BY <1>1, <1>2, <2>1, <2>4 DEF ChangesOK, OpenChanges
  <2>6. Sound(x) /\ Follows(x, s) /\ x.stage \notin AgentStages
    BY <2>1, <2>3, <2>5 DEF Sound, Follows, AgentStages, TaskStages, PropagationStages
  <2>7. Handed(x)
    BY <1>4, <2>1, <2>6 DEF Handed
  <2> HIDE DEF x
  <2>8. Hands(x)
    BY <2>1, <2>4, <2>7
  <2> QED BY <2>8
<1>5. ASSUME NEW direct \in AffectedChoices(s),
             Goes([b EXCEPT !.changes[c] = [status |-> "PROPAGATING", direct |-> direct,
                                            ready |-> FALSE],
                            !.next[c] = "PLAN_GRAPH_BUILD"])
      PROVE  \E x : Hands(x)
  <2> DEFINE new == [status |-> "PROPAGATING", direct |-> direct, ready |-> FALSE]
             x == [b EXCEPT !.changes[c] = new, !.next[c] = "PLAN_GRAPH_BUILD"]
  <2>1. direct \in SUBSET Task
    BY <1>1, TasksTyped, GraphAssumption DEF AffectedChoices, KnownTasks, Graph
  <2>2. /\ x.change = c /\ x.items = s.items /\ x.graph = s.graph
        /\ x.next = [s.next EXCEPT ![c] = "PLAN_GRAPH_BUILD"] /\ x.offers = s.offers
        /\ x.changes = [s.changes EXCEPT ![c] = new]
        /\ x.stage = "READY" /\ x.code = s.code
    BY <1>3 DEF Record, Same
  <2>3. x.changes \in Changes
    <3> HIDE DEF x
    <3> QED BY <1>1, <2>1, <2>2 DEF Record, Changes
  <2>4. x.next \in [Change -> PropagationStages \cup {Null}]
    <3>1. s.next \in [Change -> PropagationStages \cup {Null}]
      BY <1>1 DEF Record
    <3>2. "PLAN_GRAPH_BUILD" \in PropagationStages
      BY DEF PropagationStages
    <3> HIDE DEF x
    <3> QED BY <2>2, <3>1, <3>2
  <2>5. x \in Record
    BY <1>3, <2>3, <2>4 DEF Record
  <2>6. \A d \in Change :
          /\ x.changes[d] = IF d = c THEN new ELSE s.changes[d]
          /\ x.next[d] = IF d = c THEN "PLAN_GRAPH_BUILD" ELSE s.next[d]
    BY <1>1, <2>2 DEF Record, Changes
  <2>7. ChangesOK(x)
    BY <1>1, <1>2, <2>2, <2>6 DEF ChangesOK, OpenChanges
  <2>8. Sound(x) /\ Follows(x, s) /\ x.stage \notin AgentStages
    BY <2>2, <2>5, <2>7 DEF Sound, Follows, AgentStages, TaskStages, PropagationStages
  <2>9. Handed(x)
    BY <1>5, <2>2, <2>8 DEF Handed
  <2> HIDE DEF x
  <2>10. Hands(x)
    BY <2>2, <2>6, <2>9
  <2> QED BY <2>10
<1>6. \E x : Hands(x)
  BY <1>4, <1>5 DEF Analyse
<1> QED BY <1>6

LEMMA AnalyseOK ==
  ASSUME Steady(state), Analyse, UNCHANGED dropped
  PROVE  Good
BY AnalyseHands, HandedOK

\* The current change has machine work left or an offer, not both.
LEMMA RequestedOK ==
  ASSUME NEW s, Sound(s), NEW c \in Change, s.changes[c].status = "PROPAGATING"
  PROVE  LET x == Requested(s, c) IN
         /\ Sound(x) /\ x.graph = s.graph /\ x.items = s.items
         /\ x.code = s.code /\ x.stage = s.stage
         /\ \A d \in Change : /\ x.changes[d].status = s.changes[d].status
                              /\ x.changes[d].direct = s.changes[d].direct
                              /\ d # c => x.offers[d] = s.offers[d]
<1> DEFINE x     == Requested(s, c)
           offer == [status |-> "PENDING", blocks |-> Blocks(s, s.changes[c].direct)]
<1>1. s \in Record /\ ChangesOK(s)
  BY DEF Sound
<1>2. offer.blocks \in SUBSET Task
  BY <1>1, TasksTyped, GraphAssumption DEF Blocks, Graph
<1>3. /\ x.changes = [s.changes EXCEPT ![c].ready = TRUE]
      /\ x.next = [s.next EXCEPT ![c] = Null]
      /\ x.offers = [s.offers EXCEPT ![c] = offer]
      /\ x.graph = s.graph /\ x.items = s.items /\ x.change = s.change
      /\ x.code = s.code /\ x.stage = s.stage
  BY <1>1 DEF Requested, Record
<1>4. [s.changes EXCEPT ![c].ready = TRUE] \in Changes
  BY <1>1, ChangedTyped DEF Record
<1>5. [s.next EXCEPT ![c] = Null] \in [Change -> PropagationStages \cup {Null}]
  BY <1>1 DEF Record
<1>6. [s.offers EXCEPT ![c] = offer] \in Offers
  BY <1>1, <1>2 DEF Record, Offers
<1>7. x \in Record
  BY <1>1, <1>3, <1>4, <1>5, <1>6 DEF Requested, Record
<1>8. \A d \in Change :
        /\ x.changes[d].status = s.changes[d].status
        /\ x.changes[d].direct = s.changes[d].direct
        /\ x.next[d] = IF d = c THEN Null ELSE s.next[d]
        /\ x.offers[d] = IF d = c THEN offer ELSE s.offers[d]
  <2> HIDE DEF x
  <2> QED BY <1>1, <1>3 DEF Record, Changes, Offers
<1>9. ChangesOK(x)
  <2> HIDE DEF x
  <2> QED BY <1>1, <1>3, <1>8 DEF ChangesOK, OpenChanges
<1> HIDE DEF x
<1> QED BY <1>3, <1>7, <1>8, <1>9 DEF Sound, x

LEMMA RebaseHands ==
  ASSUME Steady(state), Rebase
  PROVE  /\ Loaded.change \in Change
         /\ Loaded.offers[Loaded.change].status # "PENDING"
         /\ \E x : /\ Handed(x) /\ x.items = Loaded.items
                  /\ \A d \in Change :
                       /\ x.changes[d].status = Loaded.changes[d].status
                       /\ x.changes[d].direct = Loaded.changes[d].direct
                       /\ d # Loaded.change => x.offers[d] = Loaded.offers[d]
<1> DEFINE s == Loaded  c == s.change  q == Requested(s, c)  x == Released(q, "READY")
<1>1. /\ Sound(s) /\ c \in Change /\ s.next[c] # Null /\ s \in Record
      /\ s.changes[c].status = "PROPAGATING" /\ s.offers[c].status # "PENDING"
  BY LoadedFacts, GraphAssumption
     DEF Rebase, StageOK, ChangesOK, PropagationStages, Stage, AgentStages
<1>2. /\ Sound(q) /\ q.graph = s.graph /\ q.items = s.items /\ q.code = s.code
      /\ \A d \in Change : /\ q.changes[d].status = s.changes[d].status
                           /\ q.changes[d].direct = s.changes[d].direct
                           /\ d # c => q.offers[d] = s.offers[d]
  BY <1>1, RequestedOK
<1>3. x \in Record /\ Same(x, q) /\ x.items = q.items /\ x.stage = "READY"
  BY <1>2, ReleasedOK DEF Sound, Stage
<1>4. x.code = q.code
  BY DEF Released
<1>5. Sound(x) /\ Follows(x, s) /\ x.graph = s.graph /\ x.stage \notin AgentStages
  <2> HIDE DEF x, q
  <2> QED BY <1>2, <1>3, SameMeaning
          DEF Sound, Follows, Same, AgentStages, TaskStages, PropagationStages
<1>6. Goes(x)
  BY DEF Rebase
<1> HIDE DEF x
<1>7. Handed(x)
  BY <1>2, <1>4, <1>5, <1>6 DEF Handed
<1> HIDE DEF q
<1>8. \A d \in Change : /\ x.changes[d].status = s.changes[d].status
                        /\ x.changes[d].direct = s.changes[d].direct
                        /\ d # c => x.offers[d] = s.offers[d]
  BY <1>2, <1>3 DEF Same
<1> QED BY <1>1, <1>2, <1>3, <1>7, <1>8

LEMMA RebaseOK ==
  ASSUME Steady(state), Rebase, UNCHANGED dropped
  PROVE  Good
BY RebaseHands, HandedOK

LEMMA DeferHands ==
  ASSUME Steady(state), NEW c \in Change, Defer(c)
  PROVE  \E x : /\ Handed(x) /\ x.items = Loaded.items /\ x.changes = Loaded.changes
               /\ PendingOffers(x) \subseteq PendingOffers(Loaded) \ {c}
<1> DEFINE s == Loaded  b == Released(s, "READY")
           x == [b EXCEPT !.offers[c].status = "RESOLVED"]
<1>1. s \in Record /\ ChangesOK(s)
  BY LoadedFacts
<1>2. /\ b \in Record /\ Same(b, s) /\ b.items = s.items
      /\ b.stage = "READY" /\ b.code = s.code
  BY ReadyOK
<1>3. /\ x.offers = [s.offers EXCEPT ![c].status = "RESOLVED"]
      /\ x.changes = s.changes /\ x.next = s.next /\ x.change = s.change
      /\ x.graph = s.graph /\ x.items = s.items
      /\ x.stage = "READY" /\ x.code = s.code
  BY <1>2 DEF Record, Same
<1>4. [s.offers EXCEPT ![c].status = "RESOLVED"] \in Offers
  BY <1>1 DEF Record, Offers
<1>5. x \in Record
  BY <1>2, <1>3, <1>4 DEF Record
<1> HIDE DEF x
<1>6. \A d \in Change : x.offers[d].status = "PENDING" =>
                         d # c /\ s.offers[d].status = "PENDING"
  BY <1>1, <1>3 DEF Record, Offers
<1>7. ChangesOK(x) /\ Follows(x, s)
  BY <1>1, <1>3, <1>6 DEF ChangesOK, OpenChanges, Follows
<1>8. Goes(x)
  BY DEF Defer, x
<1>9. Handed(x)
  BY <1>3, <1>5, <1>7, <1>8
     DEF Handed, Sound, AgentStages, TaskStages, PropagationStages
<1>10. PendingOffers(x) \subseteq PendingOffers(s) \ {c}
  BY <1>6 DEF PendingOffers
<1> QED BY <1>3, <1>9, <1>10

LEMMA DeferOK ==
  ASSUME Steady(state), NEW c \in Change, Defer(c), UNCHANGED dropped
  PROVE  Good
BY DeferHands, HandedOK

LEMMA PromoteOK ==
  ASSUME Steady(state), NEW c \in Change, Promote(c), UNCHANGED dropped
  PROVE  Good
<1> DEFINE s == Loaded  b == Released(s, "READY")
           x == [b EXCEPT !.offers[c].status = "RESOLVED", !.change = Null,
                          !.changes[c].status = "PROMOTED"]
<1>1. s \in Record /\ ChangesOK(s) /\ s.offers[c].status = "PENDING" /\ Settled(s)
  BY LoadedFacts DEF Promote
<1>2. b \in Record /\ Same(b, s) /\ b.items = s.items
  BY ReadyOK
<1>3. /\ x.offers = [s.offers EXCEPT ![c].status = "RESOLVED"]
      /\ x.changes = [s.changes EXCEPT ![c].status = "PROMOTED"]
      /\ x.next = s.next /\ x.change = Null /\ x.graph = s.graph /\ x.items = s.items
  BY <1>2 DEF Record, Same
<1>4. /\ [s.offers EXCEPT ![c].status = "RESOLVED"] \in Offers
      /\ [s.changes EXCEPT ![c].status = "PROMOTED"] \in Changes
  <2>1. s.offers \in Offers /\ s.changes \in Changes
    BY <1>1 DEF Record
  <2> HIDE DEF s, b, x
  <2> QED BY <2>1, ChangedTyped DEF Offers
<1>5. x \in Record
  BY <1>2, <1>3, <1>4 DEF Record
<1>6. \A d \in Change :
        /\ x.offers[d].status = IF d = c THEN "RESOLVED" ELSE s.offers[d].status
        /\ x.changes[d].status = IF d = c THEN "PROMOTED" ELSE s.changes[d].status
        /\ x.changes[d].direct = s.changes[d].direct
  <2> HIDE DEF x
  <2> QED BY <1>1, <1>3 DEF Record, Offers, Changes
<1>7. OpenChanges(x) = {}
  <2> HIDE DEF x
  <2> QED BY <1>1, <1>6 DEF ChangesOK, OpenChanges
<1>8. ChangesOK(x) /\ Follows(x, s) /\ Tasks(x) = Tasks(s)
  <2> HIDE DEF x
  <2> QED BY <1>1, <1>3, <1>6, <1>7 DEF ChangesOK, OpenChanges, Follows, Tasks
<1>9. CASE Goes(x)
  <2> HIDE DEF x
  <2> QED BY <1>5, <1>8, <1>9, EndsInSchedule DEF Sound
<1>10. ASSUME NEW first \in s.changes[c].direct, NEW grouped \in BOOLEAN,
              state' = [x EXCEPT !.stage = "TASK_PATCH", !.task = first,
                                 !.grouped = grouped]
       PROVE  Good
  <2>1. first \in Task
    BY <1>1 DEF Record, Changes
  <2>2. /\ state' \in Record /\ Same(state', x) /\ state'.items = x.items
        /\ state'.stage = "TASK_PATCH"
    <3> HIDE DEF x
    <3> QED BY <1>5, <1>10, <2>1 DEF Record, Same, Stage, AgentStages, TaskStages
  <2> HIDE DEF x
  <2>3. AuthorityDirect(state') = {}
    BY <1>7, <2>2, SameMeaning DEF AuthorityDirect
  <2>4. Steady(state')
    BY <1>1, <1>3, <1>8, <2>2, <2>3, SameMeaning
       DEF Steady, Sound, Settled, StageOK, PropagationStages
  <2>5. Follows(state', s) /\ Tasks(state') = Tasks(s)
    BY <1>8, <2>2, SameMeaning DEF Follows
  <2> QED BY <2>2, <2>4, <2>5, EndsAsMade
<1>11. \A t : HandedGroups(s, t) \subseteq BOOLEAN
  BY DEF HandedGroups
<1> QED BY <1>9, <1>10, <1>11 DEF Promote

\* The record at another stage of work, otherwise as it is.
LEMMA RestagedOK ==
  ASSUME Steady(state), NEW stage \in TaskStages \cup {"HARD_STOP", "COMPLETED"},
         NEW x, x.stage = stage, x \in Record, Same(x, Loaded), x.items = Loaded.items
  PROVE  Steady(x) /\ Follows(x, Loaded) /\ Tasks(x) = Tasks(Loaded)
BY LoadedFacts, SameMeaning
   DEF Steady, Sound, Settled, StageOK, TaskStages, PropagationStages, Follows

LEMMA WorkApprovedOK ==
  ASSUME Steady(state), WorkApproved, UNCHANGED dropped
  PROVE  Good
<1> USE DEF TaskStages
<1>1. Loaded \in Record
  BY LoadedFacts
<1>2. CASE state' = [Loaded EXCEPT !.stage = "HARD_STOP",
                                  !.code = "UNAUTHORIZED_WORKSPACE_MUTATION"]
  <2>1. /\ state' \in Record /\ Same(state', Loaded) /\ state'.stage = "HARD_STOP"
        /\ state'.items = Loaded.items
    BY <1>1, <1>2 DEF Record, Same, Stage, StopCode
  <2> QED BY <2>1, RestagedOK, EndsAsMade
<1>3. CASE state' = Recompute([Loaded EXCEPT !.stage = "TASK_INDEPENDENT_REVIEW"])
  <2> DEFINE x == [Loaded EXCEPT !.stage = "TASK_INDEPENDENT_REVIEW"]
  <2>1. /\ x \in Record /\ Same(x, Loaded) /\ x.stage = "TASK_INDEPENDENT_REVIEW"
        /\ x.items = Loaded.items
    BY <1>1 DEF Record, Same, Stage, AgentStages
  <2> HIDE DEF x
  <2> QED BY <1>3, <2>1, RestagedOK, EndsInRecompute DEF x, Steady
<1> QED BY <1>2, <1>3 DEF WorkApproved

LEMMA ReviewRequiresPatchOK ==
  ASSUME Steady(state), ReviewRequiresPatch, UNCHANGED dropped
  PROVE  Good
<1> DEFINE x == [Loaded EXCEPT !.stage = "TASK_PATCH"]
<1>1. /\ x \in Record /\ Same(x, Loaded) /\ x.stage = "TASK_PATCH"
      /\ x.items = Loaded.items
  BY LoadedFacts DEF Record, Same, Stage, AgentStages, TaskStages
<1>2. state' = Recompute(x)
  BY DEF ReviewRequiresPatch
<1> HIDE DEF x
<1> QED BY <1>1, <1>2, RestagedOK, EndsInRecompute DEF Steady, TaskStages

LEMMA ReviewApprovedHands ==
  ASSUME Steady(state), ReviewApproved
  PROVE  \E x : /\ Handed(x) /\ Same(x, Loaded)
               /\ \A t \in Task :
                    x.items[t] = IF t = Loaded.task /\ Loaded.items[t] # Null
                                   THEN "COMPLETED" ELSE Loaded.items[t]
<1> DEFINE s == Loaded  b == Released(s, "READY")
           x == [b EXCEPT !.items[s.task] = IF @ = Null THEN Null ELSE "COMPLETED"]
<1>1. s \in Record /\ ChangesOK(s)
  BY LoadedFacts
<1>2. /\ b \in Record /\ Same(b, s) /\ b.items = s.items
      /\ b.stage = "READY" /\ b.code = s.code
  BY ReadyOK
<1>3. /\ Same(x, s)
      /\ x.items = [s.items EXCEPT ![s.task] = IF @ = Null THEN Null ELSE "COMPLETED"]
      /\ x.stage = "READY" /\ x.code = s.code
  BY <1>2 DEF Record, Same
<1>4. /\ x.items \in [Task -> ItemStatus \cup {Null}]
      /\ \A t \in Task : x.items[t] = IF t = s.task /\ s.items[t] # Null
                                        THEN "COMPLETED" ELSE s.items[t]
  <2> HIDE DEF x
  <2> QED BY <1>1, <1>3 DEF Record, ItemStatus
<1>5. x \in Record
  BY <1>2, <1>4 DEF Record
<1> HIDE DEF x
<1>6. Sound(x) /\ Follows(x, s) /\ x.graph = s.graph
  BY <1>1, <1>3, <1>4, <1>5, SameMeaning, GraphAssumption
     DEF Sound, Follows, ItemStatus, Same
<1>7. Goes(x)
  BY DEF ReviewApproved, x
<1>8. Handed(x)
  BY <1>3, <1>6, <1>7 DEF Handed, AgentStages, TaskStages, PropagationStages
<1> QED BY <1>3, <1>4, <1>8

LEMMA ReviewApprovedOK ==
  ASSUME Steady(state), ReviewApproved, UNCHANGED dropped
  PROVE  Good
BY ReviewApprovedHands, HandedOK

LEMMA FinalApprovedOK ==
  ASSUME Steady(state), FinalApproved, UNCHANGED dropped
  PROVE  Good
<1>1. /\ state' \in Record /\ Same(state', Loaded) /\ state'.stage = "COMPLETED"
      /\ state'.items = Loaded.items
  BY LoadedFacts DEF FinalApproved, Record, Same, Stage
<1>2. Steady(state') /\ Follows(state', Loaded) /\ Tasks(state') = Tasks(Loaded)
  BY <1>1, RestagedOK
<1>3. Tasks(state) \subseteq Task
  BY TasksTyped DEF Steady, Sound
<1>4. Keeps(state, state')
  BY <1>2, <1>3, LoadedOK DEF Keeps, Follows
<1>5. Placed(state, dropped) => Placed(state', dropped)
  BY <1>2, LoadedOK DEF Placed, ItemsOK, Follows
<1>6. Finished(state) => Finished(state')
  BY <1>1, <1>2, LoadedFacts, LoadedOK DEF FinalApproved, Finished
<1> QED BY <1>2, <1>4, <1>5, <1>6 DEF Good

\* The record with the graph that has been built, before it is scheduled.
LEMMA BuiltOK ==
  ASSUME Steady(state), Loaded.stage = "PLAN_GRAPH_BUILD", NEW g \in PlanGraphs
  PROVE  LET c     == Loaded.change
             built == Released(Rebuilt(Loaded, g), "READY")
         IN /\ c \in Change /\ Sound(built) /\ built.change = c
            /\ built.graph = g /\ built.items = Loaded.items
            /\ built.changes[c].status = "PROPAGATING"
            /\ built.offers[c].status # "PENDING"
            /\ built.stage = "READY" /\ built.code = Loaded.code
            /\ built.offers = Loaded.offers
            /\ \A d \in Change :
                 /\ built.changes[d].status = Loaded.changes[d].status
                 /\ built.changes[d].direct = Loaded.changes[d].direct
<1> DEFINE s == Loaded  c == s.change  r == Rebuilt(s, g)  b == Released(r, "READY")
<1>1. /\ s \in Record /\ ChangesOK(s) /\ c \in Change /\ s.next[c] # Null
      /\ s.changes[c].status = "PROPAGATING" /\ s.offers[c].status # "PENDING"
  BY LoadedFacts, GraphAssumption
     DEF StageOK, ChangesOK, PropagationStages, Stage, AgentStages
<1>2. /\ r.graph = g /\ r.items = s.items /\ r.change = c
      /\ r.changes = [s.changes EXCEPT ![c].ready = TRUE]
      /\ r.next = s.next /\ r.offers = s.offers /\ r.code = s.code
  BY <1>1 DEF Rebuilt, Record
<1>3. [s.changes EXCEPT ![c].ready = TRUE] \in Changes
  <2>1. s.changes \in Changes /\ c \in Change
    BY <1>1 DEF Record
  <2> HIDE DEF s, c
  <2> QED BY <2>1, ChangedTyped
<1>4. r \in Record
  BY <1>1, <1>2, <1>3 DEF Rebuilt, Record, PlanGraphs
<1>5. b \in Record /\ Same(b, r) /\ b.items = r.items /\ b.stage = "READY"
  BY <1>4, ReleasedOK DEF Stage
<1>6. b.code = r.code
  BY DEF Released
<1> HIDE DEF r, b, s, c
<1>7. \A d \in Change : /\ r.changes[d].status = s.changes[d].status
                        /\ r.changes[d].direct = s.changes[d].direct
  BY <1>1, <1>2 DEF Record, Changes
<1>8. ChangesOK(r)
  BY <1>1, <1>2, <1>7 DEF ChangesOK, OpenChanges
<1>9. Sound(b)
  BY <1>5, <1>8, SameMeaning DEF Sound
<1>10. /\ b.graph = g /\ b.items = s.items /\ b.change = c /\ b.offers = s.offers
       /\ b.changes = r.changes /\ b.stage = "READY" /\ b.code = s.code
  BY <1>2, <1>5, <1>6 DEF Same
<1>11. /\ b.changes[c].status = "PROPAGATING" /\ b.offers[c].status # "PENDING"
       /\ \A d \in Change : /\ b.changes[d].status = s.changes[d].status
                            /\ b.changes[d].direct = s.changes[d].direct
  BY <1>1, <1>7, <1>10
<1> QED BY <1>1, <1>9, <1>10, <1>11 DEF b, r, s, c

LEMMA BuildGraphHands ==
  ASSUME Steady(state), BuildGraph
  PROVE  /\ \E g \in NextGraphs : \E x :
              /\ dropped' = (dropped \cup Tasks(Loaded)) \ DOMAIN g
              /\ Sound(x) /\ Goes(x) /\ x.graph = g /\ x.items = Loaded.items
              /\ x.stage = "READY" /\ x.code = Loaded.code
              /\ \A d \in Change : /\ x.changes[d].status = Loaded.changes[d].status
                                   /\ x.changes[d].direct = Loaded.changes[d].direct
              /\ Loaded.changes[Loaded.change].direct # {} => x.offers = Loaded.offers
         /\ Loaded.change \in Change /\ Loaded.stage = "PLAN_GRAPH_BUILD"
         /\ Loaded.changes[Loaded.change].status = "PROPAGATING"
<1> DEFINE s == Loaded  c == s.change
<1>1. PICK g \in NextGraphs, rebase \in BOOLEAN :
        /\ LET built == Released(Rebuilt(s, g), "READY") IN
             \/ Goes([built EXCEPT !.next[s.change] = "TASK_REBASE_ANALYSIS"])
             \/ s.changes[c].direct = {} /\ Goes(Requested(built, s.change))
        /\ dropped' = (dropped \cup Tasks(s)) \ DOMAIN g
        /\ s.stage = "PLAN_GRAPH_BUILD"
  BY DEF BuildGraph
<1> DEFINE b == Released(Rebuilt(s, g), "READY")
           Hands(x) ==
             /\ dropped' = (dropped \cup Tasks(s)) \ DOMAIN g
             /\ Sound(x) /\ Goes(x) /\ x.graph = g /\ x.items = s.items
             /\ x.stage = "READY" /\ x.code = s.code
             /\ \A d \in Change : /\ x.changes[d].status = s.changes[d].status
                                  /\ x.changes[d].direct = s.changes[d].direct
             /\ s.changes[c].direct # {} => x.offers = s.offers
<1>2. g \in PlanGraphs
  BY DEF NextGraphs
<1>3. /\ c \in Change /\ Sound(b) /\ b.change = c
      /\ b.graph = g /\ b.items = s.items
      /\ b.changes[c].status = "PROPAGATING" /\ b.offers[c].status # "PENDING"
      /\ b.stage = "READY" /\ b.code = s.code /\ b.offers = s.offers
      /\ \A d \in Change : /\ b.changes[d].status = s.changes[d].status
                           /\ b.changes[d].direct = s.changes[d].direct
  BY <1>1, <1>2, BuiltOK
<1> HIDE DEF b
<1>4. CASE Goes([b EXCEPT !.next[c] = "TASK_REBASE_ANALYSIS"])
  <2> DEFINE x == [b EXCEPT !.next[c] = "TASK_REBASE_ANALYSIS"]
  <2>1. b \in Record /\ ChangesOK(b)
    BY <1>3 DEF Sound
  <2>2. /\ x.next = [b.next EXCEPT ![c] = "TASK_REBASE_ANALYSIS"]
        /\ x.changes = b.changes /\ x.offers = b.offers /\ x.change = b.change
        /\ x.graph = g /\ x.items = s.items /\ x.stage = "READY" /\ x.code = s.code
    BY <1>3, <2>1 DEF Record
  <2>3. [b.next EXCEPT ![c] = "TASK_REBASE_ANALYSIS"]
          \in [Change -> PropagationStages \cup {Null}]
    BY <1>3, <2>1 DEF Record, PropagationStages
  <2>4. x \in Record
    BY <2>1, <2>2, <2>3 DEF Record
  <2>5. Goes(x)
    BY <1>4
  <2> HIDE DEF x
  <2>6. \A d \in Change : x.next[d] = IF d = c THEN "TASK_REBASE_ANALYSIS" ELSE b.next[d]
    BY <2>1, <2>2 DEF Record
  <2>7. ChangesOK(x)
    BY <1>3, <2>1, <2>2, <2>6 DEF ChangesOK, OpenChanges
  <2>8. Sound(x)
    BY <2>4, <2>7 DEF Sound
  <2>9. Hands(x)
    BY <1>1, <1>3, <2>2, <2>5, <2>8
  <2> QED BY <1>1, <1>3, <2>9
<1>5. CASE s.changes[c].direct = {} /\ Goes(Requested(b, c))
  <2> DEFINE x == Requested(b, c)
  <2>1. /\ Sound(x) /\ x.graph = b.graph /\ x.items = b.items
        /\ x.code = b.code /\ x.stage = b.stage
        /\ \A d \in Change : /\ x.changes[d].status = b.changes[d].status
                             /\ x.changes[d].direct = b.changes[d].direct
    BY <1>3, RequestedOK
  <2>2. Goes(x)
    BY <1>5
  <2> HIDE DEF x
  <2>3. Hands(x)
    BY <1>1, <1>3, <1>5, <2>1, <2>2
  <2> QED BY <1>1, <1>3, <2>3
<1> QED BY <1>1, <1>4, <1>5 DEF b

\* With the graph the tasks move that are in it and that are dropped.
LEMMA BuiltPlaced ==
  ASSUME Steady(state), NEW g \in NextGraphs, NEW x, x.graph = g,
         x.items = Loaded.items, "return" \notin Disturbances, Placed(state, dropped),
         dropped' = (dropped \cup Tasks(Loaded)) \ DOMAIN g
  PROVE  Placed(x, dropped')
<1>1. Placed(Loaded, dropped) /\ Tasks(x) = DOMAIN g
  BY LoadedOK DEF Tasks
<1>2. DOMAIN g \cap dropped = {}
  BY DEF NextGraphs
<1>3. dropped' \subseteq Task
  BY <1>1, LoadedFacts, TasksTyped DEF Placed
<1> QED BY <1>1, <1>2, <1>3 DEF Placed, ItemsOK

LEMMA BuildGraphOK ==
  ASSUME Steady(state), BuildGraph, dropped \subseteq Task
  PROVE  Good /\ dropped' \subseteq Task
<1>1. PICK g \in NextGraphs : \E x :
        /\ dropped' = (dropped \cup Tasks(Loaded)) \ DOMAIN g
        /\ Sound(x) /\ Goes(x) /\ x.graph = g /\ x.items = Loaded.items
  BY BuildGraphHands
<1>2. PICK x :
        /\ dropped' = (dropped \cup Tasks(Loaded)) \ DOMAIN g
        /\ Sound(x) /\ Goes(x) /\ x.graph = g /\ x.items = Loaded.items
  BY <1>1
<1>3. Follows(x, Loaded)
  BY <1>2 DEF Follows
<1>4. "return" \notin Disturbances /\ Placed(state, dropped) => Placed(x, dropped')
  BY <1>2, BuiltPlaced
<1>5. Good
  BY <1>2, <1>3, <1>4, GoesOK DEF Good
<1>6. dropped' \subseteq Task
  BY <1>2, LoadedFacts, TasksTyped
<1> QED BY <1>5, <1>6

-----------------------------------------------------------------------------
(* The specification *)

LEMMA FreshOK ==
  ASSUME Init
  PROVE  Inductive /\ Placed(state, dropped) /\ Finished(state)
<1> DEFINE fresh == Fresh(Declared)
<1>1. Declared \in Graph /\ DOMAIN Declared \subseteq Task
  BY GraphAssumption DEF Graph
<1>2. fresh \in [Task -> ItemStatus \cup {Null}]
  BY <1>1 DEF Fresh, ItemStatus
<1>3. \A t \in Task : /\ fresh[t] # "SUPERSEDED" /\ fresh[t] # "COMPLETED"
                      /\ fresh[t] # Null <=> t \in DOMAIN Declared
  BY <1>1, GraphAssumption DEF Fresh, ItemStatus
<1> HIDE DEF fresh
<1>4. /\ state.stage = "READY" /\ state.task = Null /\ state.code = Null
      /\ state.graph = Declared /\ state.projected = FALSE
      /\ state.items = fresh /\ state.change = Null
      /\ state.changes = [c \in Change |-> NoChange]
      /\ state.next = [c \in Change |-> Null]
      /\ state.offers = [c \in Change |-> NoOffer]
      /\ dropped = {}
  BY DEF Init, fresh
<1>5. state \in Record
  <2>1. [c \in Change |-> NoChange] \in Changes
    BY DEF Changes, NoChange
  <2>2. [c \in Change |-> NoOffer] \in Offers
    BY DEF Offers, NoOffer
  <2>3. [c \in Change |-> Null] \in [Change -> PropagationStages \cup {Null}]
    OBVIOUS
  <2>4. state.stage \in Stage /\ state.projected \in BOOLEAN
    BY <1>4 DEF Stage
  <2> QED BY <1>1, <1>2, <1>4, <2>1, <2>2, <2>3, <2>4 DEF Init, Record, fresh
<1>6. ChangesOK(state)
  BY <1>4 DEF ChangesOK, OpenChanges, NoChange, NoOffer
<1>7. Settled(state) /\ StageOK(state) /\ Finished(state) /\ Placed(state, dropped)
  <2>1. /\ Tasks(state) = DOMAIN Declared /\ Tasks(state) \subseteq Task
        /\ \A t \in Task : /\ state.items[t] # "SUPERSEDED"
                           /\ state.items[t] # "COMPLETED"
                           /\ state.items[t] # Null <=> t \in Tasks(state)
    <3>1. Tasks(state) = DOMAIN Declared
      BY <1>4 DEF Tasks
    <3>2. state.items = fresh
      BY <1>4
    <3> QED BY <1>1, <1>3, <3>1, <3>2
  <2>2. Settled(state)
    BY <2>1 DEF Settled
  <2>3. StageOK(state) /\ Finished(state)
    BY <1>4 DEF StageOK, PropagationStages, Finished
  <2>4. Placed(state, dropped)
    BY <1>4, <2>1 DEF Placed, ItemsOK
  <2> QED BY <2>2, <2>3, <2>4
<1> QED BY <1>4, <1>5, <1>6, <1>7 DEF Inductive, Steady, Sound

LEMMA EveryStep ==
  ASSUME Inductive, [Next]_vars
  PROVE  Inductive' /\ Good
<1> USE DEF Inductive
<1>1. CASE BuildGraph
  BY <1>1, BuildGraphOK DEF Good
<1>2. ASSUME NEW c \in Change, Detect(c) \/ Defer(c) \/ Promote(c), UNCHANGED dropped
      PROVE  Inductive' /\ Good
  BY <1>2, DetectOK, DeferOK, PromoteOK DEF Good
<1>3. CASE (Analyse \/ Rebase \/ Select) /\ UNCHANGED dropped
  BY <1>3, AnalyseOK, RebaseOK, SelectOK DEF Good
<1>4. CASE /\ \/ WorkApproved \/ ReviewRequiresPatch \/ ReviewApproved
              \/ FinalApproved
           /\ UNCHANGED dropped
  BY <1>4, WorkApprovedOK, ReviewRequiresPatchOK, ReviewApprovedOK, FinalApprovedOK
     DEF Good
<1>5. CASE UNCHANGED vars
  BY <1>5 DEF vars, Good, Keeps
<1> QED BY <1>1, <1>2, <1>3, <1>4, <1>5 DEF Next

LEMMA AlwaysInductive == Spec => []Inductive
<1>1. Init => Inductive
  BY FreshOK
<1>2. Inductive /\ [Next]_vars => Inductive'
  BY EveryStep
<1> QED BY <1>1, <1>2, PTL DEF Spec

\* The record keeps to its types, and a task that the active graph names has
\* an item, whatever graphs an Agent builds one after the other.
THEOREM TypeCorrect == Spec => []TypeOK
<1>1. Inductive => TypeOK
  BY DEF Inductive, Steady, Sound, Settled, TypeOK
<1> QED BY <1>1, AlwaysInductive, PTL

\* However the graph is replaced, work that has been completed stays so,
\* unless an open change names its task.
THEOREM CompletedWorkSurvives == Spec => CompletedSurvivesGraphs
<1>1. Inductive /\ [Next]_vars =>
        [\A t \in Tasks(state) \cap Tasks(state') :
           state.items[t] = "COMPLETED" /\ state'.items[t] # "COMPLETED"
             => t \in AuthorityDirect(state')]_vars
  BY EveryStep DEF Good, Keeps
<1> QED BY <1>1, AlwaysInductive, PTL DEF Spec, CompletedSurvivesGraphs

\* If no graph takes up a task that an earlier one has dropped, the project
\* is verified only when every task of the active graph is completed.
THEOREM GraphIsFinished ==
  ASSUME "return" \notin Disturbances
  PROVE  Spec => []FinishesTheGraph
<1> DEFINE Complete == Placed(state, dropped) /\ Finished(state)
<1>1. Init => Complete
  BY FreshOK
<1>2. Inductive /\ Complete /\ [Next]_vars => Complete'
  BY EveryStep DEF Good
<1>3. Complete => FinishesTheGraph
  BY DEF Finished, FinishesTheGraph
<1> HIDE DEF Complete
<1> QED BY <1>1, <1>2, <1>3, AlwaysInductive, PTL DEF Spec
-----------------------------------------------------------------------------
(* The search for a cycle *)

\* Induction over the naturals, of a set of them.
LEMMA AllNaturals ==
  ASSUME NEW S, 0 \in S, \A n \in Nat : n \in S => n + 1 \in S
  PROVE  Nat \subseteq S
<1> DEFINE Less == {ss \in Nat \X Nat : ss[1] < ss[2]}  R == Nat \ S
<1>1. IsWellFoundedOn(Less, Nat)
  BY NatLessThanWellFounded, Zenon DEF OpToRel
<1>2. \A i, j \in Nat : i < j => <<i, j>> \in Less
  OBVIOUS
<1>3. SUFFICES ASSUME R # {} PROVE FALSE
  OBVIOUS
<1>4. PICK n \in R : \A m \in R : ~(<<m, n>> \in Less)
  <2>1. R \subseteq Nat
    OBVIOUS
  <2> HIDE DEF R, Less
  <2> QED BY <1>1, <1>3, <2>1, WFMin
<1>5. n \in Nat /\ n # 0 /\ n \notin S
  OBVIOUS
<1>6. n - 1 \in Nat /\ n - 1 < n /\ (n - 1) + 1 = n
  BY <1>5
<1>7. n - 1 \notin R
  <2> HIDE DEF Less, R
  <2> QED BY <1>2, <1>4, <1>5, <1>6
<1> QED BY <1>5, <1>6, <1>7

\* The tasks visited in one round when those of the round before are X.
Round(g, X) == {t \in DOMAIN g : g[t] \cap DOMAIN g \subseteq X}

\* h holds the tasks visited in the first n rounds.
Rounds(g, h, n) ==
  /\ h \in [Nat -> SUBSET DOMAIN g] /\ h[0] = {}
  /\ \A k \in Nat : k < n => h[k + 1] = Round(g, h[k])

\* The search of validate_plan_graph visits a task only when what it depends
\* on has been visited the round before.
LEMMA VisitedByRounds ==
  ASSUME NEW g, IsFiniteSet(DOMAIN g)
  PROVE  \E n \in Nat : \E f : /\ Visited(g) = f[n] /\ f[0] = {}
                               /\ \A k \in Nat : f[k + 1] = Round(g, f[k])
<1> DEFINE Has == {n \in Nat : \E h : Rounds(g, h, n)}
<1>1. 0 \in Has
  <2>1. Rounds(g, [k \in Nat |-> {}], 0)
    BY DEF Rounds
  <2> QED BY <2>1
<1>2. ASSUME NEW n \in Nat, n \in Has PROVE n + 1 \in Has
  <2>1. PICK h : Rounds(g, h, n)
    BY <1>2
  <2> DEFINE e == [h EXCEPT ![n + 1] = Round(g, h[n])]
  <2>2. h \in [Nat -> SUBSET DOMAIN g] /\ n + 1 \in Nat
    BY <2>1 DEF Rounds
  <2>3. \A k \in Nat : e[k] = IF k = n + 1 THEN Round(g, h[n]) ELSE h[k]
    BY <2>2
  <2>4. e \in [Nat -> SUBSET DOMAIN g]
    BY <2>2 DEF Round
  <2>5. e[0] = {}
    BY <2>1, <2>3 DEF Rounds
  <2>6. ASSUME NEW k \in Nat, k < n + 1 PROVE e[k + 1] = Round(g, e[k])
    <3>1. k # n + 1 /\ (k + 1 = n + 1 <=> k = n) /\ k + 1 \in Nat
      BY <2>6
    <3>2. e[k] = h[k]
      BY <2>3, <3>1
    <3>3. CASE k = n
      BY <2>3, <3>1, <3>2, <3>3
    <3>4. CASE k # n
      <4>1. e[k + 1] = h[k + 1]
        BY <2>3, <3>1, <3>4
      <4>2. k < n
        BY <2>6, <3>4
      <4> QED BY <2>1, <3>2, <4>1, <4>2 DEF Rounds
    <3> QED BY <3>3, <3>4
  <2>7. Rounds(g, e, n + 1)
    <3> HIDE DEF e
    <3> QED BY <2>4, <2>5, <2>6 DEF Rounds
  <2> QED BY <2>2, <2>7
<1>3. \A n \in Nat : \E h : Rounds(g, h, n)
  <2>1. Nat \subseteq Has
    <3> HIDE DEF Has
    <3> QED BY <1>1, <1>2, AllNaturals
  <2> QED BY <2>1
<1> DEFINE H(n) == CHOOSE h : Rounds(g, h, n)
<1>4. \A n \in Nat : Rounds(g, H(n), n)
  BY <1>3
<1> HIDE DEF H
\* Two searches agree on the rounds that both have made.
<1>5. ASSUME NEW n \in Nat, NEW h, NEW i, Rounds(g, h, n), Rounds(g, i, n)
      PROVE  h[n] = i[n]
  <2> DEFINE Agree == {k \in Nat : k <= n => h[k] = i[k]}
  <2>1. 0 \in Agree
    BY <1>5 DEF Rounds
  <2>2. ASSUME NEW k \in Nat, k \in Agree PROVE k + 1 \in Agree
    <3>1. SUFFICES ASSUME k + 1 <= n PROVE h[k + 1] = i[k + 1]
      OBVIOUS
    <3>2. k < n /\ h[k] = i[k]
      BY <2>2, <3>1
    <3> QED BY <1>5, <3>2 DEF Rounds
  <2>3. Nat \subseteq Agree
    <3> HIDE DEF Agree
    <3> QED BY <2>1, <2>2, AllNaturals
  <2>4. n \in Agree
    BY <2>3
  <2> QED BY <2>4
<1> DEFINE f == [n \in Nat |-> H(n)[n]]
<1>6. f[0] = {}
  BY <1>4 DEF Rounds
<1>7. ASSUME NEW n \in Nat PROVE f[n + 1] = Round(g, f[n])
  <2>1. n + 1 \in Nat /\ n < n + 1 /\ Rounds(g, H(n + 1), n + 1)
    BY <1>4
  <2>2. Rounds(g, H(n + 1), n)
    BY <2>1 DEF Rounds
  <2>3. H(n + 1)[n] = H(n)[n]
    BY <1>4, <1>5, <2>2
  <2>4. H(n + 1)[n + 1] = Round(g, H(n + 1)[n])
    BY <2>1 DEF Rounds
  <2> QED BY <2>1, <2>3, <2>4
<1> DEFINE Body(a) == [n \in Nat |-> IF n = 0 THEN {}
                         ELSE {t \in DOMAIN g : g[t] \cap DOMAIN g \subseteq a[n - 1]}]
<1>8. f = Body(f)
  <2>1. f = [n \in Nat |-> f[n]]
    OBVIOUS
  <2> HIDE DEF f
  <2>2. \A n \in Nat : f[n] = IF n = 0 THEN {} ELSE Round(g, f[n - 1])
    <3>1. ASSUME NEW n \in Nat, n # 0 PROVE f[n] = Round(g, f[n - 1])
      <4>1. n - 1 \in Nat /\ (n - 1) + 1 = n
        BY <3>1
      <4> QED BY <1>7, <4>1
    <3> QED BY <1>6, <3>1
  <2>3. Body(f) = [n \in Nat |-> f[n]]
    BY <2>2 DEF Round
  <2> QED BY <2>1, <2>3
<1> DEFINE after == CHOOSE a : a = Body(a)
<1>9. after = Body(after)
  <2> HIDE DEF f, Body
  <2> QED BY <1>8
<1>10. Visited(g) = after[Cardinality(DOMAIN g)]
  BY DEF Visited
<1>11. after[0] = {} /\ \A k \in Nat : after[k + 1] = Round(g, after[k])
  <2> HIDE DEF after
  <2>1. \A n \in Nat : after[n] = IF n = 0 THEN {} ELSE Round(g, after[n - 1])
    <3>1. after = [n \in Nat |-> IF n = 0 THEN {} ELSE Round(g, after[n - 1])]
      BY <1>9 DEF Round
    <3> QED BY <3>1
  <2>2. ASSUME NEW k \in Nat PROVE after[k + 1] = Round(g, after[k])
    <3>1. k + 1 \in Nat /\ k + 1 # 0 /\ (k + 1) - 1 = k
      OBVIOUS
    <3> QED BY <2>1, <3>1
  <2> QED BY <2>1, <2>2
<1>12. Cardinality(DOMAIN g) \in Nat
  BY FS_CardinalityType
<1> HIDE DEF Has, f, Body, after
<1> QED BY <1>10, <1>11, <1>12, Zenon

\* Among any tasks of a plan graph one waits for none of the others.
LEMMA OneIsFirst ==
  ASSUME NEW g, IsFiniteSet(DOMAIN g), IsPlanGraph(g), NEW S \in SUBSET DOMAIN g,
         S # {}
  PROVE  \E t \in S : g[t] \cap S = {}
<1>1. SUFFICES ASSUME \A t \in S : g[t] \cap S # {} PROVE FALSE
  OBVIOUS
<1>2. PICK n \in Nat : \E f : /\ Visited(g) = f[n] /\ f[0] = {}
                             /\ \A k \in Nat : f[k + 1] = Round(g, f[k])
  BY VisitedByRounds
<1>3. PICK f : /\ Visited(g) = f[n] /\ f[0] = {}
               /\ \A k \in Nat : f[k + 1] = Round(g, f[k])
  BY <1>2
<1> DEFINE Avoids == {k \in Nat : f[k] \cap S = {}}
<1>4. 0 \in Avoids
  BY <1>3
<1>5. ASSUME NEW k \in Nat, k \in Avoids PROVE k + 1 \in Avoids
  <2>1. f[k + 1] = Round(g, f[k]) /\ f[k] \cap S = {} /\ k + 1 \in Nat
    BY <1>3, <1>5
  <2>2. Round(g, f[k]) \cap S = {}
    BY <1>1, <2>1 DEF Round
  <2> QED BY <2>1, <2>2
<1>6. Nat \subseteq Avoids
  <2> HIDE DEF Avoids
  <2> QED BY <1>4, <1>5, AllNaturals
<1>7. f[n] \cap S = {}
  BY <1>6
<1> QED BY <1>3, <1>7 DEF IsPlanGraph

-----------------------------------------------------------------------------
(* Work that can go on *)

Working(s) == {t \in Task : s.items[t] \in {"RUNNING", "REQUIRES_PATCH"}}
Done(s) == {t \in Tasks(s) : s.items[t] = "COMPLETED"}
Held(s) == AuthorityDirect(s) \cup DecisionDirect(s) \cup Dependent(s)

\* What may be worked on next, if nothing is.
Free(s) == {t \in Tasks(s) \ (Done(s) \cup Held(s)) : s.graph[t] \subseteq Done(s)}

\* Only the current task is worked on.
Owned(s) ==
  /\ \A t \in Working(s) : t = s.task /\ s.stage \in TaskStages \cup {"HARD_STOP"}
  /\ s.stage \in AgentStages \ TaskStages => s.task = Null

\* An offer is made, and waits, only while nothing can be worked on.
Offered(s) ==
  /\ PendingOffers(s) # {} => s.stage = "WAITING_FOR_HUMAN"
  /\ PendingOffers(s) # {} \/ s.stage = "TASK_REBASE_ANALYSIS" => Free(s) = {}

\* The graph has no cycle, and what is propagated affects a task.
Proper(s) ==
  /\ IsPlanGraph(s.graph)
  /\ \A c \in Change : s.changes[c].status = "PROPAGATING" => s.changes[c].direct # {}

Moving(s) == Owned(s) /\ Offered(s) /\ Proper(s) /\ s.code # "DEPENDENCY_BLOCKED"

\* What can be worked on depends on these parts of the record.
LEMMA FreeIsSame ==
  ASSUME NEW s, NEW r, r.graph = s.graph, r.items = s.items, r.changes = s.changes,
         r.offers = s.offers
  PROVE  /\ Free(r) = Free(s) /\ Working(r) = Working(s)
         /\ PendingOffers(r) = PendingOffers(s) /\ OpenChanges(r) = OpenChanges(s)
BY DEF Free, Working, Done, Held, AuthorityDirect, DecisionDirect, Dependent,
       PendingOffers, OpenChanges, Tasks

LEMMA HeldIsSame ==
  ASSUME NEW s, NEW r, Same(r, s)
  PROVE  Held(r) = Held(s)
BY DEF Same, Held, AuthorityDirect, DecisionDirect, Dependent,
       PendingOffers, OpenChanges, Tasks

\* Recompute gives up no work and begins none but the current task's.
LEMMA RecomputedWork ==
  ASSUME NEW s, Sound(s)
  PROVE  /\ Done(Recompute(s)) = Done(s) \ AuthorityDirect(s)
         /\ \A t \in Working(Recompute(s)) :
              t \in Working(s) \/ (t = s.task /\ s.stage \in AgentStages)
         /\ Recompute(s).code = s.code
<1> DEFINE r == Recompute(s)
<1>1. s \in Record /\ Tasks(s) \subseteq Task /\ Tasks(r) = Tasks(s)
  BY Recomputed, SameMeaning, TasksTyped DEF Sound
<1>2. r.items = [t \in Task |-> ItemStatusOf(s, t)] /\ r.code = s.code
  BY <1>1 DEF Recompute, Record
<1> HIDE DEF r
<1>3. \A t \in Task : r.items[t] = ItemStatusOf(s, t)
  BY <1>2
<1>4. \A t \in Tasks(s) : StatusInGraph(s, t) = "COMPLETED" => s.items[t] = "COMPLETED"
  BY DEF StatusInGraph
<1>5. Done(r) = Done(s) \ AuthorityDirect(s)
  <2>1. \A t \in Tasks(s) : r.items[t] = "COMPLETED" <=>
          s.items[t] = "COMPLETED" /\ t \notin AuthorityDirect(s)
    BY <1>1, <1>3, <1>4, StatusTyped DEF ItemStatusOf
  <2> QED BY <1>1, <2>1 DEF Done
<1>6. ASSUME NEW t \in Working(r)
      PROVE  t \in Working(s) \/ (t = s.task /\ s.stage \in AgentStages)
  <2>1. t \in Task /\ ItemStatusOf(s, t) \in {"RUNNING", "REQUIRES_PATCH"}
    BY <1>3 DEF Working
  <2>2. t \in Tasks(s) /\ StatusInGraph(s, t) \in {"RUNNING", "REQUIRES_PATCH"}
    BY <2>1, GraphAssumption DEF ItemStatusOf, ItemStatus
  <2> QED BY <2>1, <2>2 DEF StatusInGraph, Working
<1> QED BY <1>2, <1>5, <1>6 DEF r

LEMMA RecomputedFree ==
  ASSUME NEW s, Sound(s), Settled(s)
  PROVE  Free(Recompute(s)) = Free(s) /\ Done(Recompute(s)) = Done(s)
<1> DEFINE r == Recompute(s)
<1>1. Same(r, s) /\ Done(r) = Done(s) \ AuthorityDirect(s)
  BY Recomputed, RecomputedWork
<1>2. Done(r) = Done(s)
  BY <1>1 DEF Done, Settled
<1> HIDE DEF r
<1>3. Held(r) = Held(s) /\ Tasks(r) = Tasks(s) /\ r.graph = s.graph
  BY <1>1, HeldIsSame, SameMeaning DEF Same
<1> QED BY <1>2, <1>3 DEF Free, r

\* Without work in progress, ready work is what can be worked on.
LEMMA ReadyIsFree ==
  ASSUME NEW s, Sound(s), Settled(s), Working(s) = {}, s.stage \notin AgentStages,
         IsPlanGraph(s.graph), \A t \in Tasks(s) : s.items[t] # "SUPERSEDED"
  PROVE  ReadyWork(s) = Free(s)
<1> DEFINE r == Recompute(s)
<1>1. /\ s \in Record /\ Tasks(s) \subseteq Task /\ Tasks(r) = Tasks(s)
      /\ r.graph = s.graph
  BY Recomputed, SameMeaning, TasksTyped DEF Sound, Same
<1>2. Done(r) = Done(s)
  BY RecomputedFree
<1>3. r.items = [t \in Task |-> ItemStatusOf(s, t)]
  BY <1>1 DEF Recompute, Record
<1> HIDE DEF r
<1>4. \A t \in Tasks(s) : r.items[t] = StatusInGraph(s, t)
  BY <1>1, <1>3 DEF ItemStatusOf
<1>5. \A t \in Tasks(s) : s.graph[t] \subseteq Tasks(s)
  BY DEF IsPlanGraph, Tasks
<1>6. \A t \in Tasks(s) : /\ DependenciesCompleted(s, t) <=> s.graph[t] \subseteq Done(s)
                          /\ DependenciesCompleted(r, t) <=> s.graph[t] \subseteq Done(s)
  <2>1. \A t \in Tasks(s) : DependenciesCompleted(s, t) <=> s.graph[t] \subseteq Done(s)
    BY <1>5 DEF DependenciesCompleted, Done
  <2>2. \A t \in Tasks(s) : DependenciesCompleted(r, t) <=> s.graph[t] \subseteq Done(r)
    BY <1>1, <1>5 DEF DependenciesCompleted, Done
  <2> QED BY <1>2, <2>1, <2>2
<1>7. \A t \in Tasks(s) : s.items[t] \in Resumable \cup {"COMPLETED"}
  <2>1. \A t \in Tasks(s) : s.items[t] \in ItemStatus /\ t \notin Working(s)
    BY <1>1 DEF Record, Settled
  <2> QED BY <1>1, <2>1 DEF Working, ItemStatus, Resumable
<1>8. ASSUME NEW t \in Tasks(s), s.graph[t] \subseteq Done(s)
      PROVE  StatusInGraph(s, t) = "READY" <=> t \notin Done(s) \cup Held(s)
  <2>1. s.items[t] # "COMPLETED" => s.items[t] \in Resumable /\ StatusBefore(s, t) \in Resumable
    BY <1>7 DEF StatusBefore, Resumable
  <2> QED BY <1>6, <1>8, <2>1 DEF StatusInGraph, Done, Held
<1> QED BY <1>1, <1>4, <1>6, <1>8 DEF ReadyWork, Free, r

\* When nothing holds tasks back and none can be worked on, all are done.
LEMMA NothingFree ==
  ASSUME NEW s, IsFiniteSet(Tasks(s)), IsPlanGraph(s.graph), Held(s) = {}, Free(s) = {}
  PROVE  Done(s) = Tasks(s)
<1> DEFINE left == Tasks(s) \ Done(s)
<1>1. SUFFICES ASSUME left # {} PROVE FALSE
  BY DEF Done
<1>2. left \in SUBSET DOMAIN s.graph
  BY DEF Tasks
<1>3. IsFiniteSet(DOMAIN s.graph)
  BY DEF Tasks
<1>4. \E t \in left : s.graph[t] \cap left = {}
  <2> HIDE DEF left
  <2> QED BY <1>1, <1>2, <1>3, OneIsFirst
<1>5. PICK t \in left : s.graph[t] \cap left = {}
  BY <1>4
<1>6. s.graph[t] \subseteq Tasks(s)
  BY DEF IsPlanGraph, Tasks
<1> QED BY <1>5, <1>6 DEF Free

\* What the next step may not meet when it hands x to schedule: work that
\* nobody does, or an offer while something can be worked on.
Ready(x) ==
  /\ Working(x) = {} /\ Proper(x) /\ x.code # "DEPENDENCY_BLOCKED"
  /\ PendingOffers(x) # {} => Settled(x) /\ Free(x) = {}

\* Schedule finds work, an offer, a change, or everything done.
LEMMA GoesMoves ==
  ASSUME IsFiniteSet(Task), NEW x, Sound(x), Ready(x), x.stage \notin AgentStages,
         NEW gone, Placed(x, gone), Goes(x)
  PROVE  Moving(state')
<1> DEFINE r == Recompute(x)
<1>1. /\ Sound(r) /\ Settled(r) /\ Same(r, x) /\ r.stage = x.stage
      /\ Placed(r, gone) /\ r \in Record
  BY Recomputed, RecomputedPlaced DEF Sound
<1>2. state' \in Selection(r)
  BY DEF Goes, Schedule
<1>3. Working(r) = {} /\ r.code # "DEPENDENCY_BLOCKED"
  BY RecomputedWork DEF Ready
<1>4. \A t \in Task : t \notin Tasks(x) => r.items[t] \in {Null, "SUPERSEDED"}
  <2>1. r.items = [t \in Task |-> ItemStatusOf(x, t)]
    BY DEF Recompute, Sound, Record
  <2> QED BY <2>1 DEF ItemStatusOf
<1>5. PendingOffers(r) # {} => Free(r) = {}
  BY <1>1, SameMeaning, RecomputedFree DEF Ready
<1> HIDE DEF r
<1>6. IsPlanGraph(r.graph) /\ Proper(r)
  BY <1>1 DEF Ready, Proper, Same
<1>7. \A t \in Tasks(r) : r.items[t] # "SUPERSEDED"
  BY <1>1, TasksTyped DEF Placed, ItemsOK
<1>8. ReadyWork(r) = Free(r)
  BY <1>1, <1>3, <1>6, <1>7, ReadyIsFree
<1>9. CASE ReadyWork(r) # {}
  <2>1. PICK t \in ReadyWork(r) :
          state' = [r EXCEPT !.stage = "TASK_EXECUTION", !.task = t, !.items[t] = "RUNNING"]
    BY <1>2, <1>9 DEF Selection
  <2>2. t \in Task
    BY <1>1, TasksTyped DEF ReadyWork
  <2>3. /\ state'.stage = "TASK_EXECUTION" /\ state'.task = t /\ state'.code = r.code
        /\ state'.graph = r.graph /\ state'.changes = r.changes /\ state'.offers = r.offers
        /\ \A u \in Task : state'.items[u] = IF u = t THEN "RUNNING" ELSE r.items[u]
    BY <1>1, <2>1, <2>2 DEF Record
  <2>4. PendingOffers(state') = {}
    BY <1>5, <1>8, <1>9, <2>3 DEF PendingOffers
  <2>5. Owned(state')
    BY <1>3, <2>3 DEF Owned, Working, TaskStages
  <2> QED BY <1>3, <1>6, <2>3, <2>4, <2>5 DEF Moving, Offered, Proper
<1>10. ASSUME NEW stage \in Stage \ TaskStages, state' = Released(r, stage), Free(r) = {},
              PendingOffers(r) # {} => stage = "WAITING_FOR_HUMAN"
       PROVE  Moving(state')
  <2>1. /\ state'.stage = stage /\ state'.task = Null /\ state'.code = r.code
        /\ state'.graph = r.graph /\ state'.changes = r.changes
        /\ state'.offers = r.offers /\ state'.items = r.items
    BY <1>1, <1>10 DEF Released, Record
  <2>2. /\ Free(state') = {} /\ Working(state') = {}
        /\ PendingOffers(state') = PendingOffers(r)
    BY <1>3, <1>10, <2>1, FreeIsSame
  <2> QED BY <1>3, <1>6, <1>10, <2>1, <2>2 DEF Moving, Owned, Offered, Proper
<1>11. CASE ReadyWork(r) = {} /\ PendingOffers(r) # {}
  <2>1. state' = Released(r, "WAITING_FOR_HUMAN")
    BY <1>2, <1>11 DEF Selection
  <2> QED BY <1>8, <1>10, <1>11, <2>1 DEF Stage, TaskStages
<1>12. CASE ReadyWork(r) = {} /\ PendingOffers(r) = {} /\ Runnable(r) # {}
  <2>1. PICK c \in Runnable(r) : state' = Released(r, r.next[c])
    BY <1>2, <1>12 DEF Selection
  <2>2. r.next[c] \in PropagationStages
    BY <1>1, <2>1 DEF Record, Runnable
  <2>3. r.next[c] \in Stage \ TaskStages
    BY <2>2 DEF Stage, TaskStages, AgentStages, PropagationStages
  <2> QED BY <1>8, <1>10, <1>12, <2>1, <2>3
<1>13. CASE /\ ReadyWork(r) = {} /\ PendingOffers(r) = {} /\ Runnable(r) = {}
            /\ OpenChanges(r) # {}
  <2>1. state' = Released(r, "WAITING_FOR_AUTHORITY_CHANGE")
    BY <1>2, <1>13 DEF Selection
  <2> QED BY <1>8, <1>10, <1>13, <2>1 DEF Stage, TaskStages
<1>14. CASE /\ ReadyWork(r) = {} /\ PendingOffers(r) = {} /\ Runnable(r) = {}
            /\ OpenChanges(r) = {}
  <2>1. Held(r) = {}
    BY <1>14 DEF Held, AuthorityDirect, DecisionDirect, Dependent
  <2>2. IsFiniteSet(Tasks(r))
    BY <1>1, TasksTyped, FS_Subset
  <2>3. Done(r) = Tasks(r)
    BY <1>6, <1>8, <1>14, <2>1, <2>2, NothingFree
  <2>4. Tasks(r) = Tasks(x)
    BY <1>1, SameMeaning
  <2>5. \A t \in Task : r.items[t] \in {Null, "COMPLETED", "SUPERSEDED"}
    BY <1>4, <2>3, <2>4 DEF Done
  <2>6. state' = Released(r, "FINAL_VERIFICATION")
    BY <1>2, <1>14, <2>5 DEF Selection
  <2> QED BY <1>8, <1>10, <1>14, <2>6 DEF Stage, TaskStages, AgentStages
<1> QED BY <1>9, <1>11, <1>12, <1>13, <1>14

\* What a step loads, work goes on from as from what was saved.
LEMMA LoadedMoves ==
  ASSUME Steady(state), Moving(state)
  PROVE  /\ Moving(Loaded) /\ Loaded.code = state.code
         /\ Loaded.stage \notin TaskStages \cup {"HARD_STOP"} => Working(Loaded) = {}
<1>1. /\ Same(Loaded, state) /\ Loaded.stage = state.stage /\ Loaded.task = state.task
      /\ Sound(state) /\ Settled(state)
  BY LoadedOK DEF Steady
<1>2. /\ Free(Loaded) = Free(state) /\ Loaded.code = state.code
      /\ \A t \in Working(Loaded) :
           t \in Working(state) \/ (t = state.task /\ state.stage \in AgentStages)
  BY <1>1, RecomputedFree, RecomputedWork DEF Loaded
<1>3. PendingOffers(Loaded) = PendingOffers(state)
  BY <1>1, SameMeaning
<1>4. Working(Loaded) \subseteq Task /\ Null \notin Task
  BY GraphAssumption DEF Working
<1>5. Owned(Loaded)
  BY <1>1, <1>2, <1>4 DEF Owned, Moving
<1>6. Offered(Loaded) /\ Proper(Loaded)
  BY <1>1, <1>2, <1>3 DEF Offered, Proper, Moving, Same
<1>7. Loaded.stage \notin TaskStages \cup {"HARD_STOP"} => Working(Loaded) = {}
  BY <1>5 DEF Owned
<1> QED BY <1>2, <1>5, <1>6, <1>7 DEF Moving

\* An offer is of the current change, so that there is one at most.
LEMMA OneOffer ==
  ASSUME NEW s, ChangesOK(s), NEW c \in PendingOffers(s)
  PROVE  /\ c = s.change /\ PendingOffers(s) = {c}
         /\ s.changes[c].status = "PROPAGATING" /\ c \in OpenChanges(s)
BY DEF ChangesOK, PendingOffers, OpenChanges

\* A handler that hands over what it has loaded with another word about a change.
LEMMA HandedMoves ==
  ASSUME IsFiniteSet(Task), Steady(state), Placed(state, dropped), NEW x, Handed(x),
         Ready(x)
  PROVE  Moving(state')
<1>1. Placed(x, dropped)
  BY LoadedOK DEF Placed, ItemsOK, Follows, Handed, Tasks
<1> QED BY <1>1, GoesMoves DEF Handed

LEMMA DetectMoves ==
  ASSUME Steady(state), Steady(state'), Moving(state), NEW c \in Change, Detect(c)
  PROVE  Moving(state')
<1> DEFINE s == Loaded
<1>1. /\ s \in Record /\ ChangesOK(s) /\ OpenChanges(s) = {}
      /\ Moving(s)
  BY LoadedFacts, LoadedMoves DEF Detect
<1>2. /\ state'.stage = "AUTHORITY_CHANGE_ANALYSIS" /\ state'.task = Null
      /\ state'.code = s.code /\ state'.graph = s.graph /\ state'.offers = s.offers
      /\ state'.changes = [s.changes EXCEPT ![c].status = "CHANGE_PENDING"]
      /\ state'.items = [t \in Task |->
           IF s.items[t] \in {"RUNNING", "REQUIRES_PATCH"} THEN "READY" ELSE s.items[t]]
  BY <1>1 DEF Detect, Released, Record
<1> HIDE DEF s
<1>3. Working(state') = {}
  BY <1>2 DEF Working
<1>4. PendingOffers(s) = {}
  BY <1>1, OneOffer
<1>5. PendingOffers(state') = {}
  BY <1>2, <1>4 DEF PendingOffers
<1>6. \A d \in Change : state'.changes[d].status = "PROPAGATING" =>
                          state'.changes[d] = s.changes[d]
  BY <1>1, <1>2 DEF Record, Changes
<1>7. Proper(state')
  BY <1>1, <1>2, <1>6 DEF Moving, Proper
<1> QED BY <1>1, <1>2, <1>3, <1>5, <1>7 DEF Moving, Owned, Offered

LEMMA SelectMoves ==
  ASSUME IsFiniteSet(Task), Steady(state), Placed(state, dropped), Moving(state), Select
  PROVE  Moving(state')
<1>1. Loaded.stage = state.stage
  BY LoadedOK
<1>2. /\ state.stage \in {"READY", "WAITING_FOR_HUMAN", "WAITING_FOR_AUTHORITY_CHANGE"}
      /\ Goes(Loaded)
  BY DEF Select
<1>3. Handed(Loaded)
  BY <1>1, <1>2, LoadedFacts
     DEF Handed, Follows, AgentStages, TaskStages, PropagationStages
<1>4. Ready(Loaded)
  BY <1>1, <1>2, LoadedFacts, LoadedMoves DEF Ready, Moving, Offered, TaskStages
<1> QED BY <1>3, <1>4, HandedMoves

LEMMA AnalyseMoves ==
  ASSUME IsFiniteSet(Task), Steady(state), Placed(state, dropped), Moving(state), Analyse,
         "silent" \notin Disturbances
  PROVE  Moving(state')
<1>1. PICK x : /\ Handed(x) /\ x.items = Loaded.items /\ x.offers = Loaded.offers
               /\ \A d \in Change : \/ x.changes[d].status # "PROPAGATING"
                                    \/ x.changes[d] = Loaded.changes[d]
                                    \/ x.changes[d].direct \in AffectedChoices(Loaded)
  BY AnalyseHands
<1>2. Loaded.stage = "AUTHORITY_CHANGE_ANALYSIS" /\ Moving(Loaded)
  BY LoadedMoves DEF Analyse
<1>3. Working(x) = {}
  BY <1>1, <1>2, LoadedMoves DEF Working, TaskStages
<1>4. PendingOffers(x) = {}
  BY <1>1, <1>2 DEF Moving, Offered, PendingOffers
<1>5. Proper(x)
  BY <1>1, <1>2 DEF Moving, Proper, AffectedChoices, Handed
<1>6. Ready(x)
  BY <1>1, <1>2, <1>3, <1>4, <1>5 DEF Ready, Handed, Moving
<1> QED BY <1>1, <1>6, HandedMoves

LEMMA BuildGraphMoves ==
  ASSUME IsFiniteSet(Task), "return" \notin Disturbances,
         Steady(state), Placed(state, dropped), Moving(state), BuildGraph
  PROVE  Moving(state')
<1> DEFINE s == Loaded  c == s.change
           Hands(g, x) ==
              /\ dropped' = (dropped \cup Tasks(s)) \ DOMAIN g
              /\ Sound(x) /\ Goes(x) /\ x.graph = g /\ x.items = s.items
              /\ x.stage = "READY" /\ x.code = s.code
              /\ \A d \in Change : /\ x.changes[d].status = s.changes[d].status
                                   /\ x.changes[d].direct = s.changes[d].direct
              /\ s.changes[c].direct # {} => x.offers = s.offers
<1>1. /\ \E g \in NextGraphs : \E x : Hands(g, x)
      /\ c \in Change /\ s.stage = "PLAN_GRAPH_BUILD"
      /\ s.changes[c].status = "PROPAGATING"
  BY BuildGraphHands
<1>2. PICK g \in NextGraphs : \E x : Hands(g, x)
  BY <1>1
<1>3. PICK x : Hands(g, x)
  BY <1>2
<1>4. Moving(s) /\ Working(s) = {}
  BY <1>1, LoadedMoves DEF TaskStages
<1>5. Placed(x, dropped')
  BY <1>3, BuiltPlaced
<1>6. Working(x) = {} /\ x.stage \notin AgentStages
  BY <1>3, <1>4 DEF Working, AgentStages, TaskStages, PropagationStages
<1>7. Proper(x)
  BY <1>3, <1>4 DEF Moving, Proper, NextGraphs, PlanGraphs
<1>8. PendingOffers(x) = {}
  <2>1. s.changes[c].direct # {}
    BY <1>1, <1>4 DEF Moving, Proper
  <2> QED BY <1>1, <1>3, <1>4, <2>1 DEF Moving, Offered, PendingOffers
<1>9. Ready(x)
  BY <1>3, <1>4, <1>6, <1>7, <1>8 DEF Ready, Moving
<1>10. Sound(x) /\ Goes(x)
  BY <1>3
<1> HIDE DEF Hands
<1> QED BY <1>5, <1>6, <1>9, <1>10, GoesMoves

LEMMA RebaseMoves ==
  ASSUME IsFiniteSet(Task), Steady(state), Placed(state, dropped), Moving(state), Rebase
  PROVE  Moving(state')
<1> DEFINE s == Loaded  c == s.change
<1>1. /\ c \in Change /\ s.offers[c].status # "PENDING"
      /\ \E x : /\ Handed(x) /\ x.items = s.items
                /\ \A d \in Change :
                     /\ x.changes[d].status = s.changes[d].status
                     /\ x.changes[d].direct = s.changes[d].direct
                     /\ d # c => x.offers[d] = s.offers[d]
  BY RebaseHands
<1>2. PICK x : /\ Handed(x) /\ x.items = s.items
               /\ \A d \in Change :
                    /\ x.changes[d].status = s.changes[d].status
                    /\ x.changes[d].direct = s.changes[d].direct
                    /\ d # c => x.offers[d] = s.offers[d]
  BY <1>1
<1>3. s.stage = "TASK_REBASE_ANALYSIS" /\ Moving(s) /\ Settled(s)
  BY LoadedMoves, LoadedFacts DEF Rebase
<1>4. Working(s) = {} /\ Free(s) = {} /\ Proper(s) /\ s.code # "DEPENDENCY_BLOCKED"
  BY <1>3, LoadedMoves DEF TaskStages, Moving, Offered
<1> HIDE DEF s
<1>5. x.graph = s.graph /\ Tasks(x) = Tasks(s) /\ x.code = s.code
  BY <1>2 DEF Handed, Tasks, s
<1>6. OpenChanges(x) = OpenChanges(s) /\ AuthorityDirect(x) = AuthorityDirect(s)
  <2>1. OpenChanges(x) = OpenChanges(s)
    BY <1>2 DEF OpenChanges
  <2> QED BY <1>2, <1>5, <2>1 DEF AuthorityDirect, OpenChanges
<1>7. PendingOffers(s) \subseteq PendingOffers(x)
  BY <1>1, <1>2 DEF PendingOffers
<1>8. \A d \in PendingOffers(s) : x.offers[d] = s.offers[d]
  BY <1>1, <1>2 DEF PendingOffers
<1>9. Held(s) \subseteq Held(x)
  <2>1. DecisionDirect(s) \subseteq DecisionDirect(x)
    BY <1>5, <1>7, <1>8 DEF DecisionDirect
  <2>2. Dependent(s) \subseteq Dependent(x)
    <3>1. \A d \in OpenChanges(s) : x.changes[d].direct = s.changes[d].direct
      BY <1>2 DEF OpenChanges
    <3> QED BY <1>5, <1>6, <1>7, <1>8, <3>1 DEF Dependent
  <2> QED BY <1>6, <2>1, <2>2 DEF Held
<1>10. Done(x) = Done(s) /\ Working(x) = {}
  BY <1>2, <1>4, <1>5 DEF Done, Working
<1>11. Free(x) = {}
  BY <1>4, <1>5, <1>9, <1>10 DEF Free
<1>12. Settled(x)
  BY <1>2, <1>3, <1>5, <1>6 DEF Settled
<1>13. Proper(x)
  BY <1>2, <1>4, <1>5 DEF Proper
<1>14. Ready(x)
  BY <1>4, <1>5, <1>10, <1>11, <1>12, <1>13 DEF Ready
<1> QED BY <1>2, <1>14, HandedMoves

LEMMA DeferMoves ==
  ASSUME IsFiniteSet(Task), Steady(state), Placed(state, dropped), Moving(state),
         NEW c \in Change, Defer(c)
  PROVE  Moving(state')
<1>1. PICK x : /\ Handed(x) /\ x.items = Loaded.items /\ x.changes = Loaded.changes
               /\ PendingOffers(x) \subseteq PendingOffers(Loaded) \ {c}
  BY DeferHands
<1>2. c \in PendingOffers(Loaded)
  BY DEF Defer, PendingOffers
<1>3. Moving(Loaded) /\ Loaded.stage = "WAITING_FOR_HUMAN"
  BY <1>2, LoadedMoves DEF Moving, Offered
<1>4. Working(x) = {}
  BY <1>1, <1>3, LoadedMoves DEF Working, TaskStages
<1>5. PendingOffers(x) = {}
  BY <1>1, <1>2, LoadedFacts, OneOffer
<1>6. Ready(x)
  BY <1>1, <1>3, <1>4, <1>5 DEF Ready, Handed, Moving, Proper
<1> QED BY <1>1, <1>6, HandedMoves

LEMMA PromoteMoves ==
  ASSUME Steady(state), Moving(state), NEW c \in Change, Promote(c)
  PROVE  Moving(state')
<1> DEFINE s == Loaded
           x == [Released(s, "READY") EXCEPT
                   !.offers[c].status = "RESOLVED", !.change = Null,
                   !.changes[c].status = "PROMOTED"]
<1>1. c \in PendingOffers(s) /\ s \in Record
  BY LoadedFacts DEF Promote, PendingOffers
<1>2. /\ Moving(s) /\ s.stage = "WAITING_FOR_HUMAN" /\ PendingOffers(s) = {c}
      /\ s.changes[c].status = "PROPAGATING"
  BY <1>1, LoadedMoves, LoadedFacts, OneOffer DEF Moving, Offered
<1>3. Working(s) = {}
  BY <1>2, LoadedMoves DEF TaskStages
<1>4. PICK first \in s.changes[c].direct :
        \E grouped \in HandedGroups(s, first) :
          state' = [x EXCEPT !.stage = "TASK_PATCH", !.task = first,
                             !.grouped = grouped]
  BY <1>2 DEF Promote, Moving, Proper
<1>5. /\ state'.stage = "TASK_PATCH" /\ state'.items = s.items
      /\ state'.graph = s.graph /\ state'.code = s.code
      /\ state'.offers = [s.offers EXCEPT ![c].status = "RESOLVED"]
      /\ state'.changes = [s.changes EXCEPT ![c].status = "PROMOTED"]
  BY <1>1, <1>4 DEF Released, Record
<1> HIDE DEF x, s
<1>6. \A d \in Change :
        /\ state'.offers[d].status = "PENDING" => d \in PendingOffers(s) \ {c}
        /\ state'.changes[d].status = "PROPAGATING" => state'.changes[d] = s.changes[d]
  BY <1>1, <1>5 DEF Record, Offers, Changes, PendingOffers
<1>7. PendingOffers(state') = {}
  BY <1>2, <1>6 DEF PendingOffers
<1>8. Working(state') = {}
  BY <1>3, <1>5 DEF Working
<1>9. Proper(state')
  BY <1>2, <1>5, <1>6 DEF Moving, Proper
<1> QED BY <1>2, <1>5, <1>7, <1>8, <1>9
        DEF Moving, Owned, Offered, TaskStages

\* The record at another stage of the same task.
LEMMA RestagedMoves ==
  ASSUME NEW s, Moving(s), s.stage \in AgentStages, NEW x,
         x.graph = s.graph, x.items = s.items, x.changes = s.changes,
         x.offers = s.offers, x.task = s.task, x.code # "DEPENDENCY_BLOCKED",
         \/ s.stage \in TaskStages /\ x.stage \in TaskStages \cup {"HARD_STOP"}
         \/ s.stage = "FINAL_VERIFICATION" /\ x.stage = "COMPLETED"
  PROVE  Moving(x)
<1>1. PendingOffers(s) = {}
  BY DEF Moving, Offered, AgentStages, TaskStages, PropagationStages
<1>2. PendingOffers(x) = {} /\ Working(x) = Working(s)
  BY <1>1, FreeIsSame
<1>3. Owned(x) /\ x.stage # "TASK_REBASE_ANALYSIS"
  BY <1>2 DEF Moving, Owned, TaskStages, AgentStages, PropagationStages
<1> QED BY <1>2, <1>3 DEF Moving, Offered, Proper

LEMMA RecomputedMoves ==
  ASSUME NEW x, Sound(x), Settled(x), Moving(x)
  PROVE  Moving(Recompute(x))
<1> DEFINE r == Recompute(x)
<1>1. Same(r, x) /\ r.stage = x.stage /\ r.task = x.task
  BY Recomputed
<1>2. /\ Free(r) = Free(x) /\ r.code = x.code
      /\ \A t \in Working(r) : t \in Working(x) \/ (t = x.task /\ x.stage \in AgentStages)
  BY RecomputedFree, RecomputedWork
<1> HIDE DEF r
<1>3. PendingOffers(r) = PendingOffers(x)
  BY <1>1, SameMeaning
<1>4. Working(r) \subseteq Task /\ Null \notin Task
  BY GraphAssumption DEF Working
<1>5. Owned(r)
  BY <1>1, <1>2, <1>4 DEF Owned, Moving
<1> QED BY <1>1, <1>2, <1>3, <1>5 DEF r, Offered, Proper, Moving, Same

LEMMA WorkMoves ==
  ASSUME Steady(state), Moving(state), WorkApproved \/ ReviewRequiresPatch
  PROVE  Moving(state')
<1> DEFINE s == Loaded
<1>1. /\ s.stage \in TaskStages /\ Moving(s) /\ s \in Record /\ Sound(s) /\ Settled(s)
      /\ ChangesOK(s)
  BY LoadedFacts, LoadedMoves DEF WorkApproved, ReviewRequiresPatch, TaskStages
<1>2. CASE state' = [s EXCEPT !.stage = "HARD_STOP",
                             !.code = "UNAUTHORIZED_WORKSPACE_MUTATION"]
  <2>1. /\ state'.stage = "HARD_STOP" /\ state'.graph = s.graph
        /\ state'.code = "UNAUTHORIZED_WORKSPACE_MUTATION"
        /\ state'.items = s.items /\ state'.changes = s.changes
        /\ state'.offers = s.offers /\ state'.task = s.task
    BY <1>1, <1>2 DEF Record
  <2> HIDE DEF s
  <2> QED BY <1>1, <2>1, RestagedMoves DEF AgentStages
<1>3. ASSUME NEW stage \in TaskStages, state' = Recompute([s EXCEPT !.stage = stage])
      PROVE  Moving(state')
  <2> DEFINE x == [s EXCEPT !.stage = stage]
  <2>1. /\ x.stage = stage /\ x.graph = s.graph /\ x.code = s.code
        /\ x.items = s.items /\ x.changes = s.changes
        /\ x.offers = s.offers /\ x.task = s.task /\ Same(x, s) /\ x \in Record
    BY <1>1 DEF Record, Same, Stage, AgentStages
  <2> HIDE DEF x, s
  <2>2. Moving(x)
    BY <1>1, <2>1, RestagedMoves DEF AgentStages, Moving
  <2>3. Sound(x) /\ Settled(x)
    BY <1>1, <2>1, SameMeaning DEF Sound, Settled
  <2> QED BY <1>3, <2>2, <2>3, RecomputedMoves DEF x
<1> QED BY <1>2, <1>3 DEF WorkApproved, ReviewRequiresPatch, TaskStages

LEMMA ReviewApprovedMoves ==
  ASSUME IsFiniteSet(Task), Steady(state), Placed(state, dropped), Moving(state),
         ReviewApproved
  PROVE  Moving(state')
<1>1. PICK x : /\ Handed(x) /\ Same(x, Loaded)
               /\ \A t \in Task :
                    x.items[t] = IF t = Loaded.task /\ Loaded.items[t] # Null
                                   THEN "COMPLETED" ELSE Loaded.items[t]
  BY ReviewApprovedHands
<1>2. Loaded.stage = "TASK_INDEPENDENT_REVIEW" /\ Moving(Loaded)
  BY LoadedMoves DEF ReviewApproved
<1>3. Working(x) = {}
  BY <1>1, <1>2, GraphAssumption DEF Working, Moving, Owned, ItemStatus
<1>4. PendingOffers(x) = {}
  BY <1>1, <1>2, SameMeaning DEF Moving, Offered
<1>5. Ready(x)
  BY <1>1, <1>2, <1>3, <1>4 DEF Ready, Handed, Moving, Proper, Same
<1> QED BY <1>1, <1>5, HandedMoves

LEMMA FinalApprovedMoves ==
  ASSUME Steady(state), Moving(state), FinalApproved
  PROVE  Moving(state')
<1>1. Loaded \in Record /\ Loaded.stage = "FINAL_VERIFICATION" /\ Moving(Loaded)
  BY LoadedFacts, LoadedMoves DEF FinalApproved
<1>2. /\ state'.stage = "COMPLETED" /\ state'.graph = Loaded.graph
      /\ state'.code = Loaded.code
      /\ state'.items = Loaded.items /\ state'.changes = Loaded.changes
      /\ state'.offers = Loaded.offers /\ state'.task = Loaded.task
  BY <1>1 DEF FinalApproved, Record
<1> QED BY <1>1, <1>2, RestagedMoves DEF AgentStages, Moving

LEMMA EveryStepMoves ==
  ASSUME IsFiniteSet(Task), "return" \notin Disturbances, "silent" \notin Disturbances,
         Inductive, Placed(state, dropped), Finished(state), Moving(state), [Next]_vars
  PROVE  Moving(state')
<1>1. Steady(state) /\ Steady(state')
  BY EveryStep DEF Inductive
<1>2. CASE BuildGraph
  BY <1>1, <1>2, BuildGraphMoves
<1>3. ASSUME NEW c \in Change, Detect(c) \/ Defer(c) \/ Promote(c)
      PROVE  Moving(state')
  BY <1>1, <1>3, DetectMoves, DeferMoves, PromoteMoves
<1>4. CASE Analyse \/ Rebase \/ Select
  BY <1>1, <1>4, AnalyseMoves, RebaseMoves, SelectMoves
<1>5. CASE WorkApproved \/ ReviewRequiresPatch \/ ReviewApproved \/ FinalApproved
  BY <1>1, <1>5, WorkMoves, ReviewApprovedMoves, FinalApprovedMoves
<1>6. CASE UNCHANGED vars
  BY <1>6 DEF vars
<1> QED BY <1>2, <1>3, <1>4, <1>5, <1>6 DEF Next

\* Graphs without a cycle that take up no dropped task, and changes that each
\* affect a task, never leave the workflow with work to do and nothing that
\* can be scheduled, however often the graph is replaced under the work.
THEOREM NothingIsBlocked ==
  ASSUME IsFiniteSet(Task), IsPlanGraph(Declared),
         "return" \notin Disturbances, "silent" \notin Disturbances
  PROVE  Spec => []NeverBlocked
<1> DEFINE GoesOn == Placed(state, dropped) /\ Finished(state) /\ Moving(state)
<1>1. Init => GoesOn
  <2> SUFFICES ASSUME Init PROVE GoesOn
    OBVIOUS
  <2>1. Placed(state, dropped) /\ Finished(state)
    BY FreshOK
  <2>2. /\ state.stage = "READY" /\ state.code = Null /\ state.graph = Declared
        /\ state.items = Fresh(Declared)
        /\ \A c \in Change : state.changes[c].status = "NONE" /\ state.offers[c].status = "NONE"
    BY DEF Init, NoChange, NoOffer
  <2>3. Working(state) = {}
    BY <2>2, GraphAssumption DEF Working, Fresh, ItemStatus
  <2>4. PendingOffers(state) = {}
    BY <2>2 DEF PendingOffers
  <2>5. Owned(state) /\ Offered(state)
    BY <2>2, <2>3, <2>4
       DEF Owned, Offered, AgentStages, TaskStages, PropagationStages
  <2>6. Proper(state) /\ state.code # "DEPENDENCY_BLOCKED"
    BY <2>2, GraphAssumption DEF Proper, StopCode
  <2> QED BY <2>1, <2>5, <2>6 DEF Moving
<1>2. Inductive /\ GoesOn /\ [Next]_vars => GoesOn'
  BY EveryStep, EveryStepMoves DEF Good
<1>3. GoesOn => NeverBlocked
  BY DEF Moving, NeverBlocked
<1> HIDE DEF GoesOn
<1> QED BY <1>1, <1>2, <1>3, AlwaysInductive, PTL DEF Spec

=============================================================================
