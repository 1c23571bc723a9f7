-------------------------- MODULE ArtifactPipeline --------------------------
(***************************************************************************)
(* The typed artifact pipeline: specifications derived one from another    *)
(* are generated, validated, reviewed, patched and promoted in the order   *)
(* of their dependencies, and only then does work on the tasks go on.  At  *)
(* the head of the graph is the Human Guide, an external authority: a new  *)
(* revision of it is analysed and is either accepted as one that changes   *)
(* no meaning, or blocks what it affects until a human has promoted it.    *)
(*                                                                         *)
(* One action is one command or one step of cwo run; an invocation of an   *)
(* Agent is one of them.  Crashes inside an invocation are AgentRun's, in  *)
(* a promotion ArtifactPromotion's, in a scan RemoteAuthority's.  Left out *)
(* as well: revisions of class C0 or C1 that name artifacts, an artifact   *)
(* that is a plan graph, optional artifacts, dependencies among tasks.     *)
(***************************************************************************)
EXTENDS Integers, FiniteSets

CONSTANTS
  Artifact,     \* ids of artifact_pipeline
  Rank,         \* their order in the configuration
  Upstream,     \* dependencies of each
  Guide,        \* the HUMAN_GUIDE, EXTERNAL
  Gated,        \* those with promotion_policy HUMAN_GATE; the rest is AUTO
  Validated,    \* those with a project validator
  Reviewed,     \* those with review_required
  Conformance,  \* the CONFORMANCE_SPEC
  Task,         \* work items
  Content,      \* hashes of candidates
  Change,       \* authority changes; bound: this many revisions of the guide
  None,
  MaxAttempts,  \* policy.max_attempts_per_stage
  Disturbances  \* bound: which outcomes beside approval and patches occur

ASSUME PipelineAssumption ==
  /\ Guide \in Artifact /\ Conformance \in Artifact \ {Guide}
  /\ Upstream \in [Artifact -> SUBSET Artifact] /\ Upstream[Guide] = {}
  /\ \A S \in SUBSET Artifact \ {{}} : \E a \in S : Upstream[a] \cap S = {}
  /\ Rank \in [Artifact -> Nat]
  /\ Gated \subseteq Artifact \ {Guide}
  /\ Validated \subseteq Artifact /\ Reviewed \subseteq Artifact
  /\ None \notin Content \cup Change \cup Artifact
  /\ MaxAttempts \in Nat \ {0}
  /\ Disturbances \subseteq {"invalid", "infra", "question", "repeat", "recover"}

VARIABLES
  stage, current,  \* current_stage, current_artifact_id
  attempt,         \* attempts at the stage that failed
  stopped,         \* stop code and blocked_stage of a HARD_STOP
  artifacts,       \* state.artifacts
  offers,          \* the decision that promotes each artifact
  questions,       \* the last decision a review or patch of it asked for
  changes,         \* authority_changes with their propagation
  change,          \* current_authority_change_id
  done             \* work items COMPLETED

vars == <<stage, current, attempt, stopped, artifacts, offers, questions,
          changes, change, done>>

Dependent == Artifact \ {Guide}
Open == Task \ done
AgentStages == {"AUTHORITY_CHANGE_ANALYSIS", "ARTIFACT_GENERATION",
                "ARTIFACT_REVIEW", "ARTIFACT_PATCH", "FINAL_VERIFICATION"}
Waiting == {"WAITING_FOR_HUMAN", "WAITING_FOR_AUTHORITY_CHANGE"}

NoEvidence == [verdict |-> "NONE", of |-> None]
NoOffer == [status |-> "NONE", of |-> None, change |-> None, blocks |-> {}]
NoQuestion == [status |-> "NONE", blocks |-> {}]
NoChange == [status |-> "NONE", analysed |-> FALSE, content |-> None,
             affected |-> {}, hits |-> {}]
NotStopped == [code |-> "NONE", stage |-> "NONE"]

-----------------------------------------------------------------------------
(* artifacts.py *)

\* dependency_revisions: what the upstream of an artifact is at.
Revision(record) ==
  IF record.status \in {"APPROVED", "PROMOTION_READY"} THEN record.candidate
  ELSE record.accepted

Derivation(arts, a) ==
  [u \in Artifact |-> IF u \in Upstream[a] THEN Revision(arts[u]) ELSE None]

\* _dependencies_satisfied; consume_approved_dependencies never applies, as
\* an APPROVED artifact is PROMOTION_READY within the same step.
UpstreamAccepted(arts, a) == \A u \in Upstream[a] : arts[u].status = "ACCEPTED"

\* Faulty variant: what has been accepted is not compared again.
StaleUnlessAccepted(arts, a) ==
  /\ arts[a].status \notin {"MISSING", "PENDING", "SUPERSEDED", "ACCEPTED"}
  /\ arts[a].derived # Derivation(arts, a)

\* reconcile_artifact_staleness, which sees the revisions before any reset.
Stale(arts, a) ==
  /\ Upstream[a] # {}
  /\ arts[a].status \notin {"MISSING", "PENDING", "SUPERSEDED"}
  /\ arts[a].derived # Derivation(arts, a)

Reset(record, status) ==
  [record EXCEPT !.status = status, !.candidate = None,
                 !.validator = NoEvidence, !.review = None]

Reconciled(arts) ==
  [a \in Artifact |-> IF Stale(arts, a) THEN Reset(arts[a], "PENDING") ELSE arts[a]]

Supersede(decision) ==
  [decision EXCEPT !.status = IF @ = "PENDING" THEN "SUPERSEDED" ELSE @]

\* Pending decisions about a stale artifact are superseded with it.
Withdrawn(arts, decisions) ==
  [a \in Artifact |-> IF Stale(arts, a) THEN Supersede(decisions[a]) ELSE decisions[a]]

\* artifact_descendants.
ClosedDownstream(S) == \A a \in Artifact : Upstream[a] \cap S # {} => a \in S

Descendants(a) ==
  {b \in Artifact \ {a} :
     \A S \in SUBSET Artifact : a \in S /\ ClosedDownstream(S) => b \in S}

\* next_artifact takes the first of these in the order of the configuration.
Runnable(arts) ==
  {a \in Artifact : /\ arts[a].status \in {"MISSING", "PENDING", "CANDIDATE",
                                           "REVIEW_REQUIRED", "REQUIRES_PATCH"}
                    /\ UpstreamAccepted(arts, a)}

First(S) == CHOOSE a \in S : \A b \in S : Rank[a] <= Rank[b]

-----------------------------------------------------------------------------
(* scheduler.py *)

Pending(decisions) == {a \in Artifact : decisions[a].status = "PENDING"}

\* An open change takes completed work back.
OpenChange(chg) == {c \in Change : chg[c].status \in {"CHANGE_PENDING", "PROPAGATING"}}
Hit(chg) == UNION {chg[c].hits : c \in OpenChange(chg)}

Ready(off, ques, chg, finished) ==
  Task \ UNION ({finished, Hit(chg)} \cup {off[a].blocks : a \in Pending(off)}
                                     \cup {ques[a].blocks : a \in Pending(ques)})

StageOf(record) ==
  IF record.status = "REVIEW_REQUIRED" THEN "ARTIFACT_REVIEW"
  ELSE IF record.status = "REQUIRES_PATCH" THEN "ARTIFACT_PATCH"
  ELSE "ARTIFACT_GENERATION"

\* The order in which schedule looks for something to do.  A typed
\* propagation is RUNNING, with ARTIFACT_GENERATION as its next stage, from
\* the promotion of the guide on: nothing ends it.
Selected(arts, off, ques, chg, finished) ==
  IF Runnable(arts) # {} THEN StageOf(arts[First(Runnable(arts))])
  ELSE IF Ready(off, ques, chg, finished) # {} THEN "TASK_EXECUTION"
  ELSE IF Pending(off) \cup Pending(ques) # {} THEN "WAITING_FOR_HUMAN"
  ELSE IF arts[Guide].status = "PROMOTION_READY" THEN "WAITING_FOR_AUTHORITY_CHANGE"
  ELSE IF \E c \in Change : chg[c].status = "PROPAGATING" THEN "ARTIFACT_GENERATION"
  ELSE IF OpenChange(chg) # {} THEN "WAITING_FOR_AUTHORITY_CHANGE"
  ELSE IF finished = Task THEN "FINAL_VERIFICATION"
  ELSE "HARD_STOP"

\* recompute, the reset of stale artifacts, and the selection.
Schedule(arts, artifact, off, ques, chg, finished) ==
  LET settled == Reconciled(arts)
      offered == Withdrawn(arts, off)
      asked   == Withdrawn(arts, ques)
      kept    == finished \ Hit(chg)
  IN /\ artifacts' = settled /\ offers' = offered /\ questions' = asked
     /\ changes' = chg /\ done' = kept
     /\ stage' = Selected(settled, offered, asked, chg, kept)
     /\ current' = IF Runnable(settled) # {} THEN First(Runnable(settled)) ELSE artifact
     /\ attempt' = 0
     /\ stopped' = IF stage' = "HARD_STOP"
                     THEN [code |-> "DEPENDENCY_BLOCKED", stage |-> "NONE"]
                     ELSE NotStopped

-----------------------------------------------------------------------------
(* Promotion *)

Decided == Pending(offers) \cup Pending(questions)

\* Faulty variant: the revisions of the upstream are not compared again.
RefusedIgnoringUpstream(arts, a, pending) ==
  \/ a \in Reviewed /\ arts[a].review = None
  \/ a \in Validated /\ arts[a].validator # [verdict |-> "PASS", of |-> arts[a].candidate]
  \/ pending # {}

\* validate_artifact_promotion of a PROMOTION_READY artifact, of what the
\* state decides; the files are ArtifactPromotion's.
Refused(arts, a, pending) ==
  \/ arts[a].candidate = None
  \/ a \in Reviewed /\ arts[a].review = None
  \/ a \in Validated /\ arts[a].validator # [verdict |-> "PASS", of |-> arts[a].candidate]
  \/ ~UpstreamAccepted(arts, a)
  \/ Upstream[a] # {} /\ arts[a].derived # Derivation(arts, a)
  \/ pending # {}

\* _promote_artifact and _finalize_artifact_acceptance.
Promoted(arts, a) ==
  [arts EXCEPT ![a].status = "ACCEPTED", ![a].accepted = arts[a].candidate,
               ![a].recorded = TRUE]

\* The request of a promotion decision, matched against the one answered.
Offer(record) == [status |-> "PENDING", of |-> record.candidate,
                  change |-> change, blocks |-> Open]

AnsweredAlready(a, offer) ==
  /\ offers[a].status = "RESOLVED"
  /\ offers[a].change = offer.change /\ offers[a].blocks = offer.blocks

\* _prepare_artifact_promotion.  A refusal is saved as a retry of a stage
\* that is READY by now: the artifact stays PROMOTION_READY.
Prepare(arts, a) ==
  LET ready == [arts EXCEPT ![a].status = "PROMOTION_READY"]
      offer == Offer(arts[a])
  IN IF Refused(ready, a, Decided)
       THEN /\ artifacts' = ready /\ stage' = "READY" /\ current' = None
            /\ attempt' = 0
            /\ UNCHANGED <<offers, questions, changes, done, stopped>>
       ELSE IF a \in Gated
       THEN Schedule(ready, None,
                     IF AnsweredAlready(a, offer) THEN offers
                     ELSE [offers EXCEPT ![a] = offer],
                     questions, changes, done)
       ELSE Schedule(Promoted(ready, a), None, offers, questions, changes, done)

-----------------------------------------------------------------------------
(* The steps of artifact stages; current is what the outcome names *)

Record == artifacts[current]

Unanalysed == {c \in OpenChange(changes) : ~changes[c].analysed}

\* step does the work of its stage after _authority_gate has let it pass.
At(stages) ==
  /\ stage \in stages
  /\ stage = "AUTHORITY_CHANGE_ANALYSIS" \/ Unanalysed = {}

Init ==
  /\ stage = "READY" /\ current = None /\ attempt = 0 /\ stopped = NotStopped
  /\ \E there \in SUBSET Dependent, first \in Content :
       LET Accepted(a) == IF a \in there \cup {Guide} THEN first ELSE None IN
       artifacts = [a \in Artifact |->
         [status    |-> IF a \in there \cup {Guide} THEN "ACCEPTED" ELSE "MISSING",
          accepted  |-> Accepted(a), candidate |-> None,
          derived   |-> [u \in Artifact |->
                           IF u \in Upstream[a] THEN Accepted(u) ELSE None],
          validator |-> NoEvidence, review |-> None, tries |-> 0,
          change    |-> None, recorded |-> FALSE]]
  /\ offers = [a \in Artifact |-> NoOffer]
  /\ questions = [a \in Artifact |-> NoQuestion]
  /\ changes = [c \in Change |-> NoChange] /\ change = None
  /\ done = {}

\* step at READY, WAITING_FOR_HUMAN and WAITING_FOR_AUTHORITY_CHANGE.
Reschedule ==
  /\ At({"READY"} \cup Waiting)
  /\ Schedule(artifacts, current, offers, questions, changes, done)
  /\ UNCHANGED change

\* A candidate starts without evidence, bound to the upstream of now.
Candidate(content, status) ==
  [artifacts EXCEPT ![current].status = status, ![current].candidate = content,
                    ![current].derived = Derivation(artifacts, current),
                    ![current].change = change,
                    ![current].validator = NoEvidence, ![current].review = None]

\* A candidate goes to its validator, to review, or to its promotion.
Adopt(content) ==
  IF current \in Validated
    THEN /\ artifacts' = Candidate(content, "CANDIDATE")
         /\ stage' = "ARTIFACT_VALIDATION" /\ attempt' = 0
         /\ UNCHANGED <<current, stopped, offers, questions, changes, done>>
  ELSE IF current \in Reviewed
    THEN Schedule(Candidate(content, "REVIEW_REQUIRED"), None,
                  offers, questions, changes, done)
    ELSE Prepare(Candidate(content, "APPROVED"), current)

\* _apply_artifact_outcome at ARTIFACT_GENERATION.
Generate ==
  /\ At({"ARTIFACT_GENERATION"}) /\ current # None
  /\ \E content \in Content : Adopt(content)
  /\ UNCHANGED change

\* PATCH_APPLIED has to change the candidate.
ApplyPatch ==
  /\ At({"ARTIFACT_PATCH"})
  /\ \E content \in Content \ {Record.candidate} : Adopt(content)
  /\ UNCHANGED change

\* NO_PATCH_NEEDED: back to review with the evidence there is.
RejectPatch ==
  /\ At({"ARTIFACT_PATCH"})
  /\ Schedule([artifacts EXCEPT ![current].status = "REVIEW_REQUIRED"], None,
              offers, questions, changes, done)
  /\ UNCHANGED change

\* The verdicts of execute_project_validator.
Validator(verdict) == [verdict |-> verdict, of |-> Record.candidate]

ValidationPasses ==
  /\ At({"ARTIFACT_VALIDATION"})
  /\ LET passed == [artifacts EXCEPT ![current].validator = Validator("PASS"),
                                     ![current].tries = 0]
     IN IF current \in Reviewed
          THEN /\ artifacts' = [passed EXCEPT ![current].status = "REVIEW_REQUIRED"]
               /\ stage' = "ARTIFACT_REVIEW" /\ attempt' = 0
               /\ UNCHANGED <<current, stopped, offers, questions, changes, done>>
          ELSE Prepare([passed EXCEPT ![current].status = "APPROVED"], current)
  /\ UNCHANGED change

ValidationFails ==
  /\ At({"ARTIFACT_VALIDATION"})
  /\ artifacts' = [artifacts EXCEPT ![current].validator = Validator("FAIL"),
                                    ![current].status = "REQUIRES_PATCH"]
  /\ stage' = "ARTIFACT_PATCH" /\ attempt' = 0
  /\ UNCHANGED <<current, stopped, offers, questions, changes, change, done>>

\* INFRA_FAIL; the count survives the candidate, only a pass resets it.
ValidatorBreaks ==
  /\ "infra" \in Disturbances /\ At({"ARTIFACT_VALIDATION"})
  /\ LET tries == IF Record.tries < MaxAttempts THEN Record.tries + 1 ELSE MaxAttempts
     IN /\ artifacts' = [artifacts EXCEPT ![current].validator = Validator("INFRA"),
                                          ![current].tries = tries]
        /\ IF tries = MaxAttempts
             THEN /\ stage' = "HARD_STOP"
                  /\ stopped' = [code |-> "PROJECT_VALIDATOR_EXECUTION_FAILED",
                                 stage |-> stage]
             ELSE UNCHANGED <<stage, stopped>>
  /\ UNCHANGED <<current, attempt, offers, questions, changes, change, done>>

ReviewApproves ==
  /\ At({"ARTIFACT_REVIEW"})
  /\ Prepare([artifacts EXCEPT ![current].status = "APPROVED",
                               ![current].review = Record.candidate], current)
  /\ UNCHANGED change

ReviewRequiresPatch ==
  /\ At({"ARTIFACT_REVIEW"})
  /\ Schedule([artifacts EXCEPT ![current].status = "REQUIRES_PATCH",
                                ![current].review = None], None,
              offers, questions, changes, done)
  /\ UNCHANGED change

\* A scoped verdict of the review, or PATCH_BLOCKED.  _record_decisions drops
\* a request that an answered decision matches, and the artifact is BLOCKED
\* all the same.  Bound: one open question about each artifact.
Ask ==
  /\ "question" \in Disturbances
  /\ At({"ARTIFACT_REVIEW", "ARTIFACT_PATCH"})
  /\ questions[current].status # "PENDING"
  /\ \E blocks \in IF Open = {} THEN {{}} ELSE SUBSET Open \ {{}},
        asked \in IF "repeat" \in Disturbances THEN BOOLEAN ELSE {FALSE} :
       LET answered == /\ questions[current].status = "RESOLVED"
                       /\ questions[current].blocks = blocks
       IN /\ asked => answered
          /\ Schedule([artifacts EXCEPT ![current].status = "BLOCKED",
                                        ![current].review = None], None, offers,
                      IF asked THEN questions
                      ELSE [questions EXCEPT
                              ![current] = [status |-> "PENDING", blocks |-> blocks]],
                      changes, done)
  /\ UNCHANGED change

\* Faulty variant: the conformance specification need not be there.
ConformsUnchecked == TRUE

\* validate_final_conformance.
Conforms == artifacts[Conformance].status \in {"APPROVED", "ACCEPTED"}

\* Faulty variant: one attempt too many.
ExhaustedLate == attempt = MaxAttempts

Exhausted == attempt + 1 = MaxAttempts

\* An outcome that is refused, or none: _invalid_or_failed.
InvalidOutcome ==
  /\ At(AgentStages)
  /\ \/ "invalid" \in Disturbances
     \/ stage = "ARTIFACT_GENERATION" /\ current = None
     \/ stage = "FINAL_VERIFICATION" /\ ~Conforms
  /\ IF Exhausted
       THEN /\ stage' = "HARD_STOP" /\ UNCHANGED attempt
            /\ stopped' = [code |-> "RETRY_EXHAUSTED", stage |-> stage]
       ELSE attempt' = attempt + 1 /\ UNCHANGED <<stage, stopped>>
  /\ UNCHANGED <<current, artifacts, offers, questions, changes, change, done>>

-----------------------------------------------------------------------------
(* Tasks *)

\* A task from its execution to its approved review.  Bound: which of the
\* ready tasks is first does not matter here.
CompleteTask ==
  /\ At({"TASK_EXECUTION"})
  /\ \E t \in Ready(offers, questions, changes, done) :
       Schedule(artifacts, current, offers, questions, changes, done \cup {t})
  /\ UNCHANGED change

FinishProject ==
  /\ At({"FINAL_VERIFICATION"}) /\ Conforms
  /\ stage' = "COMPLETED"
  /\ UNCHANGED <<current, attempt, stopped, artifacts, offers, questions,
                 changes, change, done>>

-----------------------------------------------------------------------------
(* Revisions of the guide *)

\* _authority_gate: the new revision becomes the candidate of the guide
\* (hydrate_external_artifacts), and its change is analysed next.
Detect ==
  /\ stage \notin {"HARD_STOP", "COMPLETED", "AUTHORITY_CHANGE_ANALYSIS"}
  /\ artifacts[Guide].status = "ACCEPTED"
  /\ \E c \in {c \in Change : changes[c].status = "NONE"},
        content \in Content \ {artifacts[Guide].accepted} :
       /\ artifacts' = [artifacts EXCEPT ![Guide].status = "PROMOTION_READY",
                                         ![Guide].candidate = content,
                                         ![Guide].change = c]
       /\ changes' = [changes EXCEPT ![c].status = "CHANGE_PENDING",
                                     ![c].content = content]
       /\ change' = c
  /\ stage' = "AUTHORITY_CHANGE_ANALYSIS" /\ attempt' = 0 /\ stopped' = NotStopped
  /\ UNCHANGED <<current, offers, questions, done>>

\* The gate again, after a decision has led away from the analysis.
DetectAgain ==
  /\ stage \notin {"HARD_STOP", "COMPLETED", "AUTHORITY_CHANGE_ANALYSIS"}
  /\ \E c \in Unanalysed : change' = c
  /\ stage' = "AUTHORITY_CHANGE_ANALYSIS" /\ attempt' = 0 /\ stopped' = NotStopped
  /\ UNCHANGED <<current, artifacts, offers, questions, changes, done>>

Analysing == At({"AUTHORITY_CHANGE_ANALYSIS"}) /\ ~changes[change].analysed

\* _resume_after_nonsemantic_typed_authority: what was derived from the last
\* revision of the guide counts as derived from this one.
Rebased ==
  LET revised == artifacts[Guide] IN
  [a \in Artifact |->
     IF a = Guide
       THEN [revised EXCEPT !.status = "ACCEPTED", !.accepted = revised.candidate,
                          !.candidate = None]
     ELSE IF Guide \in Upstream[a] /\ artifacts[a].derived[Guide] = revised.accepted
       THEN [artifacts[a] EXCEPT !.derived[Guide] = revised.candidate]
       ELSE artifacts[a]]

Interrupted ==
  /\ current # None
  /\ artifacts[current].status \in {"CANDIDATE", "REVIEW_REQUIRED", "REQUIRES_PATCH"}

\* Faulty variant: the interrupted stage is taken from the last outcome.
ResumedStageFixed(record) == "ARTIFACT_REVIEW"

ResumedStage(record) ==
  IF record.status = "CANDIDATE" THEN "ARTIFACT_VALIDATION" ELSE StageOf(record)

\* C0 or C1 that affects nothing.
AcceptRevision ==
  /\ Analysing
  /\ LET chg == [changes EXCEPT ![change].status = "ACCEPTED", ![change].analysed = TRUE]
     IN IF Interrupted
          THEN /\ artifacts' = Rebased /\ changes' = chg
               /\ stage' = ResumedStage(artifacts[current])
               /\ attempt' = 0 /\ stopped' = NotStopped
               /\ done' = done \ Hit(chg)
               /\ UNCHANGED <<current, offers, questions>>
          ELSE Schedule(Rebased, None, offers, questions, chg, done)
  /\ change' = IF current # None THEN artifacts[current].change ELSE None

\* _start_typed_authority_propagation: what a semantic revision affects, with
\* all that depends on it, waits for the promotion of the guide.
BlockAffected ==
  /\ Analysing
  /\ \E affected \in SUBSET Dependent, hits \in SUBSET Task :
       /\ ClosedDownstream(affected)
       /\ artifacts' = [a \in Artifact |->
            IF a \in affected
              THEN [Reset(artifacts[a], "BLOCKED") EXCEPT !.change = change]
              ELSE artifacts[a]]
       /\ changes' = [changes EXCEPT ![change].analysed = TRUE,
                                     ![change].affected = affected,
                                     ![change].hits = hits]
       /\ offers' = [offers EXCEPT ![Guide] =
            [status |-> "PENDING", of |-> changes[change].content,
             change |-> change, blocks |-> hits]]
       /\ done' = done \ Hit(changes')
  /\ stage' = "WAITING_FOR_HUMAN" /\ attempt' = 0
  /\ UNCHANGED <<current, stopped, questions, change>>

-----------------------------------------------------------------------------
(* decide; a refused answer leaves everything as it was *)

\* Bound: not while a task is being worked on, which is Orchestrator's.
MayDecide == stage # "TASK_EXECUTION"

Resolve(decisions, a) == [decisions EXCEPT ![a].status = "RESOLVED"]

\* What was blocked starts anew from the promoted guide.
Released(c) ==
  [a \in Artifact |->
     IF a = Guide
       THEN [artifacts[a] EXCEPT !.status = "ACCEPTED", !.candidate = None,
                                 !.accepted = changes[c].content, !.change = c]
     ELSE IF a \in changes[c].affected
       THEN [Reset(artifacts[a], "PENDING") EXCEPT
               !.derived = Derivation(artifacts, a), !.change = c]
       ELSE artifacts[a]]

\* _promote_typed_human_guide.
DecideGuide ==
  /\ MayDecide /\ offers[Guide].status = "PENDING"
  /\ LET c == offers[Guide].change
     IN /\ Schedule(Released(c), current, Resolve(offers, Guide), questions,
                    [changes EXCEPT ![c].status = "PROPAGATING"], done)
        /\ change' = c

\* _promote_artifact: a committed record of the candidate is final.
CommittedAlready(a) ==
  artifacts[a].recorded /\ artifacts[a].candidate = artifacts[a].accepted

DecidePromotion ==
  /\ MayDecide
  /\ \E a \in Gated :
       LET off == Resolve(offers, a) IN
       /\ offers[a].status = "PENDING" /\ artifacts[a].candidate # None
       /\ \/ CommittedAlready(a)
          \/ /\ artifacts[a].status = "PROMOTION_READY"
             /\ ~Refused(artifacts, a, Pending(off) \cup Pending(questions))
       /\ Schedule(Promoted(artifacts, a), current, off, questions, changes, done)
  /\ UNCHANGED change

\* The answer sends a BLOCKED artifact back to review or generation.
DecideQuestion ==
  /\ MayDecide
  /\ \E a \in Pending(questions) :
       LET again == IF artifacts[a].candidate = None THEN "PENDING"
                    ELSE "REVIEW_REQUIRED"
       IN Schedule([artifacts EXCEPT ![a].status = IF @ = "BLOCKED" THEN again ELSE @],
                   current, offers, Resolve(questions, a), changes, done)
  /\ UNCHANGED change

-----------------------------------------------------------------------------
(* recover *)

\* _candidate_validation_recovery: the chain of the candidate still stands.
ChainStands(a) ==
  /\ \A u \in Upstream[a] : /\ artifacts[u].status = "ACCEPTED"
                            /\ artifacts[u].accepted = artifacts[a].derived[u]
  /\ \A b \in Descendants(a) : artifacts[b].status # "ACCEPTED"

\* A validator stop is recovered in place, and so is a stop of the retries:
\* refused outcomes in the stages that write nothing, a failing runner in any.
Recover ==
  /\ "recover" \in Disturbances /\ stage = "HARD_STOP"
  /\ \/ /\ stopped.code = "PROJECT_VALIDATOR_EXECUTION_FAILED"
        /\ Record.status = "CANDIDATE" /\ ChainStands(current)
     \/ stopped.code = "RETRY_EXHAUSTED"
  /\ stage' = stopped.stage /\ attempt' = 0 /\ stopped' = NotStopped
  /\ UNCHANGED <<current, artifacts, offers, questions, changes, change, done>>

-----------------------------------------------------------------------------
Work == \/ Reschedule \/ CompleteTask \/ FinishProject \/ InvalidOutcome
        \/ Generate \/ ApplyPatch \/ RejectPatch \/ Ask
        \/ ValidationPasses \/ ValidationFails \/ ValidatorBreaks
        \/ ReviewApproves \/ ReviewRequiresPatch
        \/ AcceptRevision \/ BlockAffected

Step == Detect \/ DetectAgain \/ Work

Decide == DecideGuide \/ DecidePromotion \/ DecideQuestion

Next == Step \/ Decide \/ Recover

Spec == Init /\ [][Next]_vars

-----------------------------------------------------------------------------
(* Properties *)

Status == {"MISSING", "PENDING", "CANDIDATE", "REVIEW_REQUIRED", "REQUIRES_PATCH",
           "APPROVED", "PROMOTION_READY", "ACCEPTED", "BLOCKED", "SUPERSEDED"}
DecisionStatus == {"NONE", "PENDING", "RESOLVED", "SUPERSEDED"}
Maybe(S) == S \cup {None}

ArtifactRecord ==
  [status : Status, accepted : Maybe(Content), candidate : Maybe(Content),
   derived : [Artifact -> Maybe(Content)],
   validator : [verdict : {"NONE", "PASS", "FAIL", "INFRA"}, of : Maybe(Content)],
   review : Maybe(Content), tries : 0 .. MaxAttempts,
   change : Maybe(Change), recorded : BOOLEAN]

\* Every variable keeps to its set of values.
TypeOK ==
  /\ stage \in AgentStages \cup Waiting \cup
       {"READY", "ARTIFACT_VALIDATION", "TASK_EXECUTION", "COMPLETED", "HARD_STOP"}
  /\ current \in Maybe(Artifact) /\ attempt \in 0 .. MaxAttempts - 1
  /\ stopped \in [code : {"NONE", "DEPENDENCY_BLOCKED", "RETRY_EXHAUSTED",
                          "PROJECT_VALIDATOR_EXECUTION_FAILED"},
                  stage : AgentStages \cup {"NONE", "ARTIFACT_VALIDATION"}]
  /\ artifacts \in [Artifact -> ArtifactRecord]
  /\ offers \in [Artifact -> [status : DecisionStatus, of : Maybe(Content),
                              change : Maybe(Change), blocks : SUBSET Task]]
  /\ questions \in [Artifact -> [status : DecisionStatus, blocks : SUBSET Task]]
  /\ changes \in [Change -> [status : {"NONE", "CHANGE_PENDING", "PROPAGATING", "ACCEPTED"},
                             analysed : BOOLEAN, content : Maybe(Content),
                             affected : SUBSET Artifact, hits : SUBSET Task]]
  /\ change \in Maybe(Change) /\ done \subseteq Task

\* An artifact is accepted only in the bytes its validator passed and its
\* reviewer approved, derived from what its upstream has accepted: neither a
\* patch, a new revision of the guide nor a question in between lets evidence
\* about something else count.
AcceptsWhatWasChecked ==
  [][\A a \in Dependent :
       artifacts'[a].accepted # artifacts[a].accepted =>
         /\ a \in Validated => artifacts'[a].validator =
                                 [verdict |-> "PASS", of |-> artifacts'[a].accepted]
         /\ a \in Reviewed => artifacts'[a].review = artifacts'[a].accepted
         /\ \A u \in Upstream[a] : /\ artifacts[u].status = "ACCEPTED"
                                   /\ artifacts'[a].derived[u] = artifacts[u].accepted]_vars

\* A stage that works on a candidate has one, in the status of that stage and
\* derived from the revisions its upstream has accepted, also after the stage was
\* interrupted by a revision of the guide and resumed, or stopped and recovered.
StageMatchesArtifact ==
  stage \in {"ARTIFACT_VALIDATION", "ARTIFACT_REVIEW", "ARTIFACT_PATCH"} =>
    /\ current # None
    /\ Record.candidate # None
    /\ stage = "ARTIFACT_VALIDATION" => Record.status = "CANDIDATE"
    /\ stage = "ARTIFACT_REVIEW"     => Record.status = "REVIEW_REQUIRED"
    /\ stage = "ARTIFACT_PATCH"      => Record.status = "REQUIRES_PATCH"
    /\ \A u \in Upstream[current] : Record.derived[u] = artifacts[u].accepted

\* While tasks are worked on or the project is verified, every accepted
\* artifact is derived from the revisions its upstream is at.
WorksFromCurrentChain ==
  stage \in {"TASK_EXECUTION", "FINAL_VERIFICATION", "COMPLETED"} =>
    \A a \in Dependent : artifacts[a].status = "ACCEPTED" =>
      artifacts[a].derived = Derivation(artifacts, a)

\* What completion passes over: a promotion that was refused while something
\* else was to be decided, and an artifact whose question was asked again after
\* it was answered.
LeftBehind ==
  {a \in Dependent : \/ artifacts[a].status = "PROMOTION_READY"
                     \/ /\ artifacts[a].status = "BLOCKED"
                        /\ questions[a].status = "RESOLVED"}

\* The project completes only on an accepted conformance specification.  Every
\* artifact is accepted then, and derived from the one revision its upstream
\* has, except for what is left behind and what depends on that.
CompletesOnAcceptedChain ==
  stage = "COMPLETED" =>
    /\ artifacts[Conformance].status = "ACCEPTED"
    /\ \A a \in Artifact :
         IF artifacts[a].status = "ACCEPTED"
           THEN \A u \in Upstream[a] : /\ artifacts[a].derived[u] = artifacts[u].accepted
                                       /\ Revision(artifacts[u]) = artifacts[u].accepted
           ELSE \E b \in LeftBehind : a = b \/ a \in Descendants(b)

-----------------------------------------------------------------------------
(* What the documentation says and these instances refute *)

\* README.md: promotion follows hash and decision checks.  The answer to a
\* promotion decision accepts the candidate it was asked about.
PromotesWhatWasOffered ==
  [][\A a \in Artifact :
       offers[a].status = "PENDING" /\ offers'[a].status = "RESOLVED" =>
         artifacts'[a].accepted = offers[a].of]_vars

\* docs/state-machine.md: after review an artifact is promoted, or a decision
\* asks for it; the project does not complete past one that passed.
PassedIsPromoted ==
  stage = "COMPLETED" =>
    \A a \in Dependent : artifacts[a].status = "PROMOTION_READY" =>
      artifacts[a].candidate = artifacts[a].accepted \/ offers[a].status = "PENDING"

\* docs/state-machine.md: at WAITING_FOR_HUMAN, cwo decide and cwo resume go on.
WaitIsAnswerable ==
  stage = "WAITING_FOR_HUMAN" =>
    \/ offers[Guide].status = "PENDING" \/ Pending(questions) # {}
    \/ \E a \in Pending(offers) : ~Refused(artifacts, a, Decided \ {a})
                                  \/ CommittedAlready(a)

\* docs/state-machine.md: the generic stages carry current_artifact_id.
GenerationCarriesArtifact ==
  stage = "ARTIFACT_GENERATION" =>
    current # None /\ artifacts[current].status \in {"MISSING", "PENDING", "CANDIDATE"}

\* docs/state-machine.md: the pipeline schedules only artifacts whose dependencies
\* are ACCEPTED.
WorksOnAcceptedUpstream ==
  stage \in {"ARTIFACT_VALIDATION", "ARTIFACT_REVIEW", "ARTIFACT_PATCH"} =>
    UpstreamAccepted(artifacts, current)

\* README.md: only a passing validator leads to semantic review.
ReviewsOnlyValidated ==
  stage = "ARTIFACT_REVIEW" /\ current \in Validated =>
    Record.validator = [verdict |-> "PASS", of |-> Record.candidate]

=============================================================================
