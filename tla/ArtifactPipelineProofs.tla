----------------------- MODULE ArtifactPipelineProofs -----------------------
(***************************************************************************)
(* Proofs about ArtifactPipeline, for any graph of artifacts, any number   *)
(* of revisions of the guide and of attempts: that it keeps its types;     *)
(* that only what was checked is accepted (Inductive); that the chain of   *)
(* derivations is whole wherever a stage counts on it (ChainOK); and what  *)
(* the project completes on (EndOK).                                       *)
(***************************************************************************)
EXTENDS ArtifactPipeline, WellFoundedInduction, TLAPS

-----------------------------------------------------------------------------
(* The inductive invariant: the types, and what they rest on *)

Offers == [Artifact -> [status : DecisionStatus, of : Maybe(Content),
                        change : Maybe(Change), blocks : SUBSET Task]]
Questions == [Artifact -> [status : DecisionStatus, blocks : SUBSET Task]]
Changes == [Change -> [status : {"NONE", "CHANGE_PENDING", "PROPAGATING", "ACCEPTED"},
                       analysed : BOOLEAN, content : Maybe(Content),
                       affected : SUBSET Artifact, hits : SUBSET Task]]

\* An approval is of the candidate there is: whatever replaces a candidate
\* takes the approval of the last one away.
ArtifactsOK(arts) ==
  /\ arts \in [Artifact -> ArtifactRecord]
  /\ \A a \in Dependent : arts[a].review \in {None, arts[a].candidate}

\* The decision about the guide names the revision it is about.
OffersOK(off) ==
  off \in Offers /\ (off[Guide].status = "PENDING" => off[Guide].change \in Change)

\* An analysis has its change, also one that a stop interrupts, and what can
\* be recovered has a stage to return to.
StageOK ==
  /\ stage = "AUTHORITY_CHANGE_ANALYSIS" => change \in Change
  /\ stopped.stage = "AUTHORITY_CHANGE_ANALYSIS" => change \in Change
  /\ stopped.code \in {"RETRY_EXHAUSTED", "PROJECT_VALIDATOR_EXECUTION_FAILED"} =>
       stopped.stage # "NONE"

Inductive == TypeOK /\ ArtifactsOK(artifacts) /\ OffersOK(offers) /\ StageOK

-----------------------------------------------------------------------------
(* The next artifact *)

\* A nonempty set of artifacts has one that is first in the configuration.
LEMMA FirstIsMember ==
  ASSUME NEW S \in SUBSET Artifact, S # {}
  PROVE  First(S) \in S
<1> DEFINE R    == {Rank[a] : a \in S}
           Less == {ss \in Nat \X Nat : ss[1] < ss[2]}
<1>1. R \subseteq Nat /\ R # {}
  BY PipelineAssumption
<1>2. IsWellFoundedOn(Less, Nat)
  BY NatLessThanWellFounded, Zenon DEF OpToRel
<1>3. \A i, j \in Nat : i < j => <<i, j>> \in Less
  OBVIOUS
<1>4. PICK n \in R : \A m \in R : ~(<<m, n>> \in Less)
  <2> HIDE DEF R, Less
  <2> QED BY <1>1, <1>2, WFMin
<1>5. ASSUME NEW m \in R PROVE n <= m
  <2>1. m \in Nat /\ n \in Nat
    BY <1>1
  <2>2. <<m, n>> \notin Less
    BY <1>4
  <2>3. ~(m < n)
    <3> HIDE DEF Less
    <3> QED BY <1>3, <2>1, <2>2
  <2> QED BY <2>1, <2>3
<1>6. \E a \in S : \A b \in S : Rank[a] <= Rank[b]
  BY <1>4, <1>5
<1> QED BY <1>6 DEF First

-----------------------------------------------------------------------------
(* What the reset of stale artifacts keeps *)

\* The revisions an artifact is derived from are revisions.
LEMMA DerivationTyped ==
  ASSUME NEW arts \in [Artifact -> ArtifactRecord], NEW a \in Artifact
  PROVE  Derivation(arts, a) \in [Artifact -> Maybe(Content)]
BY PipelineAssumption DEF Derivation, Revision, ArtifactRecord, Maybe

\* A reset artifact has neither a candidate nor an approval.
LEMMA ResetTyped ==
  ASSUME NEW record \in ArtifactRecord, NEW status \in Status
  PROVE  /\ Reset(record, status) \in ArtifactRecord
         /\ Reset(record, status).review = None
         /\ Reset(record, status).accepted = record.accepted
BY DEF Reset, ArtifactRecord, NoEvidence, Maybe

\* The reset keeps types and approvals, and what is accepted.
LEMMA ReconciledOK ==
  ASSUME NEW arts, ArtifactsOK(arts)
  PROVE  /\ ArtifactsOK(Reconciled(arts))
         /\ \A a \in Artifact : Reconciled(arts)[a].accepted = arts[a].accepted
<1>1. \A a \in Artifact : arts[a] \in ArtifactRecord
  BY DEF ArtifactsOK
<1>2. "PENDING" \in Status
  BY DEF Status
<1>3. \A a \in Artifact : /\ Reconciled(arts)[a] \in ArtifactRecord
                          /\ Reconciled(arts)[a].accepted = arts[a].accepted
                          /\ \/ Reconciled(arts)[a].review = None
                             \/ Reconciled(arts)[a] = arts[a]
  BY <1>1, <1>2, ResetTyped DEF Reconciled
<1> QED BY <1>3 DEF ArtifactsOK, Reconciled, Dependent

\* Withdrawing the decisions about stale artifacts keeps their types.
LEMMA WithdrawnOK ==
  ASSUME NEW arts, NEW off, OffersOK(off), NEW ques \in Questions
  PROVE  OffersOK(Withdrawn(arts, off)) /\ Withdrawn(arts, ques) \in Questions
<1> USE DEF Withdrawn, Supersede, DecisionStatus
<1>1. Withdrawn(arts, off) \in Offers
  BY DEF OffersOK, Offers
<1>2. Withdrawn(arts, ques) \in Questions
  BY DEF Questions
<1>3. Withdrawn(arts, off)[Guide].status = "PENDING" =>
        Withdrawn(arts, off)[Guide].change \in Change
  BY PipelineAssumption DEF OffersOK, Offers
<1> QED BY <1>1, <1>2, <1>3 DEF OffersOK

\* schedule never selects the analysis of a change.
LEMMA SelectedTyped ==
  ASSUME NEW arts, NEW off, NEW ques, NEW chg, NEW finished
  PROVE  Selected(arts, off, ques, chg, finished) \in
           {"ARTIFACT_GENERATION", "ARTIFACT_REVIEW", "ARTIFACT_PATCH", "TASK_EXECUTION",
            "FINAL_VERIFICATION", "HARD_STOP"} \cup Waiting
BY DEF Selected, StageOf, Waiting

-----------------------------------------------------------------------------
(* Scheduling and promotion *)

\* Scheduling typed values ends in a state of the inductive invariant.
LEMMA ScheduleOK ==
  ASSUME NEW arts, ArtifactsOK(arts), NEW artifact \in Maybe(Artifact),
         NEW off, OffersOK(off), NEW ques \in Questions, NEW chg \in Changes,
         NEW finished \in SUBSET Task,
         Schedule(arts, artifact, off, ques, chg, finished), change' \in Maybe(Change)
  PROVE  /\ Inductive'
         /\ artifacts' = Reconciled(arts)
<1> USE PipelineAssumption
<1>1. artifacts' = Reconciled(arts) /\ ArtifactsOK(artifacts')
  BY ReconciledOK DEF Schedule
<1>2. OffersOK(offers') /\ questions' \in Questions
  BY WithdrawnOK DEF Schedule
<1>3. changes' \in Changes /\ done' \subseteq Task /\ attempt' = 0
  BY DEF Schedule
<1>4. stage' \in {"ARTIFACT_GENERATION", "ARTIFACT_REVIEW", "ARTIFACT_PATCH", "TASK_EXECUTION",
                  "FINAL_VERIFICATION", "HARD_STOP"} \cup Waiting
  BY SelectedTyped DEF Schedule
<1>5. stopped' \in {[code |-> "DEPENDENCY_BLOCKED", stage |-> "NONE"], NotStopped}
  BY DEF Schedule
<1>6. current' \in Maybe(Artifact)
  <2>1. Runnable(Reconciled(arts)) \in SUBSET Artifact
    BY DEF Runnable
  <2>2. current' = IF Runnable(Reconciled(arts)) # {}
                     THEN First(Runnable(Reconciled(arts))) ELSE artifact
    BY DEF Schedule
  <2> QED BY <2>1, <2>2, FirstIsMember DEF Maybe
<1>7. StageOK'
  BY <1>4, <1>5 DEF StageOK, NotStopped, Waiting
<1>8. TypeOK'
  BY <1>1, <1>2, <1>3, <1>4, <1>5, <1>6
     DEF TypeOK, ArtifactsOK, OffersOK, Offers, Questions, Changes, NotStopped, AgentStages,
         Waiting
<1> QED BY <1>1, <1>2, <1>7, <1>8 DEF Inductive

\* A new status that is no approval keeps types and approvals.
LEMMA StatusOK ==
  ASSUME NEW arts, ArtifactsOK(arts), NEW a, NEW status \in Status
  PROVE  ArtifactsOK([arts EXCEPT ![a].status = status])
<1> DEFINE new == [arts EXCEPT ![a].status = status]
<1>1. \A b \in Artifact : arts[b] \in ArtifactRecord
  BY DEF ArtifactsOK
<1>2. \A b \in Artifact : new[b] = IF b = a THEN [arts[b] EXCEPT !.status = status] ELSE arts[b]
  BY DEF ArtifactsOK
<1>3. \A b \in Artifact : /\ new[b] \in ArtifactRecord
                          /\ new[b].review = arts[b].review
                          /\ new[b].candidate = arts[b].candidate
  BY <1>1, <1>2 DEF ArtifactRecord
<1>4. new = [b \in Artifact |-> new[b]]
  BY DEF ArtifactsOK
<1>5. ArtifactsOK(new)
  <2> HIDE DEF new
  <2> QED BY <1>3, <1>4 DEF ArtifactsOK, Dependent
<1> QED BY <1>5

\* Acceptance takes over the candidate with its evidence.
LEMMA PromotedOK ==
  ASSUME NEW arts, ArtifactsOK(arts), NEW a
  PROVE  ArtifactsOK(Promoted(arts, a))
<1>1. \A b \in Artifact : arts[b] \in ArtifactRecord
  BY DEF ArtifactsOK
<1>2. \A b \in Artifact : Promoted(arts, a)[b] =
        IF b = a THEN [arts[b] EXCEPT !.status = "ACCEPTED", !.accepted = arts[b].candidate,
                                      !.recorded = TRUE]
        ELSE arts[b]
  BY DEF ArtifactsOK, Promoted
<1>3. \A b \in Artifact : /\ Promoted(arts, a)[b] \in ArtifactRecord
                          /\ Promoted(arts, a)[b].review = arts[b].review
                          /\ Promoted(arts, a)[b].candidate = arts[b].candidate
  <2> TAKE b \in Artifact
  <2>1. arts[b] \in ArtifactRecord
    BY <1>1
  <2>2. CASE b = a
    <3>1. Promoted(arts, a)[b] =
            [arts[b] EXCEPT !.status = "ACCEPTED", !.accepted = arts[b].candidate,
                            !.recorded = TRUE]
      BY <1>2, <2>2
    <3> QED BY <2>1, <3>1 DEF ArtifactRecord, Status
  <2>3. CASE b # a
    BY <1>2, <2>1, <2>3
  <2> QED BY <2>2, <2>3
<1>4. Promoted(arts, a) = [b \in Artifact |-> Promoted(arts, a)[b]]
  BY DEF ArtifactsOK, Promoted
<1> QED BY <1>3, <1>4 DEF ArtifactsOK, Dependent

\* The promotion of a candidate, or the decision about it, keeps the invariant.
LEMMA PrepareOK ==
  ASSUME Inductive, NEW arts, ArtifactsOK(arts), NEW a, Prepare(arts, a), UNCHANGED change
  PROVE  Inductive'
<1> USE PipelineAssumption
<1> DEFINE ready == [arts EXCEPT ![a].status = "PROMOTION_READY"]
<1>1. ArtifactsOK(ready)
  BY StatusOK DEF Status
<1>2. /\ change' \in Maybe(Change) /\ None \in Maybe(Artifact)
      /\ questions \in Questions /\ changes \in Changes /\ done \in SUBSET Task
      /\ OffersOK(offers)
  BY DEF Inductive, TypeOK, Maybe, Questions, Changes
<1>3. CASE Refused(ready, a, Decided)
  <2>1. /\ artifacts' = ready /\ stage' = "READY" /\ current' = None /\ attempt' = 0
        /\ UNCHANGED <<offers, questions, changes, done, stopped>>
    BY <1>3 DEF Prepare
  <2> QED BY <1>1, <2>1 DEF Inductive, TypeOK, StageOK, ArtifactsOK, OffersOK, Offers, Maybe
<1>4. CASE ~Refused(ready, a, Decided) /\ a \in Gated
  <2> DEFINE off == IF AnsweredAlready(a, Offer(arts[a])) THEN offers
                    ELSE [offers EXCEPT ![a] = Offer(arts[a])]
  <2>1. Schedule(ready, None, off, questions, changes, done)
    BY <1>4 DEF Prepare
  <2>2. Offer(arts[a]) \in [status : DecisionStatus, of : Maybe(Content),
                            change : Maybe(Change), blocks : SUBSET Task]
    BY <1>2, <1>4 DEF Offer, Open, ArtifactsOK, ArtifactRecord, DecisionStatus
  <2>3. OffersOK(off)
    BY <1>2, <1>4, <2>2 DEF OffersOK, Offers
  <2> HIDE DEF ready, off
  <2> QED BY <1>1, <1>2, <2>1, <2>3, ScheduleOK
<1>5. CASE ~Refused(ready, a, Decided) /\ a \notin Gated
  <2>1. Schedule(Promoted(ready, a), None, offers, questions, changes, done)
    BY <1>5 DEF Prepare
  <2>2. ArtifactsOK(Promoted(ready, a))
    <3> HIDE DEF ready
    <3> QED BY <1>1, PromotedOK
  <2> HIDE DEF ready
  <2> QED BY <1>2, <2>1, <2>2, ScheduleOK
<1> QED BY <1>3, <1>4, <1>5

-----------------------------------------------------------------------------
(* The steps of artifact stages *)

\* Changing one artifact keeps types and approvals when its record does; the
\* name of none changes nothing.
LEMMA ChangeOK ==
  ASSUME NEW arts, ArtifactsOK(arts), NEW a, NEW new,
         new = [b \in Artifact |-> new[b]],
         \A b \in Artifact \ {a} : new[b] = arts[b],
         a \in Artifact => /\ new[a] \in ArtifactRecord
                           /\ new[a].review \in {None, new[a].candidate}
  PROVE  ArtifactsOK(new)
<1>1. \A b \in Artifact : new[b] \in ArtifactRecord
  BY DEF ArtifactsOK
<1>2. \A b \in Dependent : new[b].review \in {None, new[b].candidate}
  BY DEF ArtifactsOK, Dependent
<1> QED BY <1>1, <1>2 DEF ArtifactsOK

\* What the invariant says of the variables other than artifacts.
LEMMA Others ==
  ASSUME Inductive
  PROVE  /\ ArtifactsOK(artifacts) /\ OffersOK(offers) /\ questions \in Questions
         /\ changes \in Changes /\ done \in SUBSET Task
         /\ change \in Maybe(Change) /\ current \in Maybe(Artifact)
         /\ None \in Maybe(Artifact) /\ None \in Maybe(Change)
BY DEF Inductive, TypeOK, Questions, Changes, Maybe

\* A candidate starts without an approval.
LEMMA CandidateOK ==
  ASSUME Inductive, NEW content \in Content, NEW status \in Status
  PROVE  ArtifactsOK(Candidate(content, status))
<1> DEFINE new == Candidate(content, status)
<1>1. new = [b \in Artifact |-> new[b]] /\ \A b \in Artifact \ {current} : new[b] = artifacts[b]
  BY Others DEF Candidate, ArtifactsOK
<1>2. ASSUME current \in Artifact
      PROVE  new[current] \in ArtifactRecord /\ new[current].review = None
  <2>1. new[current] = [artifacts[current] EXCEPT
          !.status = status, !.candidate = content, !.derived = Derivation(artifacts, current),
          !.change = change, !.validator = NoEvidence, !.review = None]
    BY <1>2, Others DEF Candidate, ArtifactsOK
  <2>2. artifacts[current] \in ArtifactRecord
    BY <1>2, Others DEF ArtifactsOK
  <2>3. Derivation(artifacts, current) \in [Artifact -> Maybe(Content)]
    BY <1>2, Others, DerivationTyped DEF ArtifactsOK
  <2>4. new[current] = [status |-> status, accepted |-> artifacts[current].accepted,
                        candidate |-> content, derived |-> Derivation(artifacts, current),
                        validator |-> NoEvidence, review |-> None,
                        tries |-> artifacts[current].tries, change |-> change,
                        recorded |-> artifacts[current].recorded]
    <3> HIDE DEF new
    <3> QED BY <2>1, <2>2 DEF ArtifactRecord
  <2>5. /\ artifacts[current].accepted \in Maybe(Content)
        /\ artifacts[current].tries \in 0 .. MaxAttempts
        /\ artifacts[current].recorded \in BOOLEAN
        /\ change \in Maybe(Change) /\ content \in Maybe(Content) /\ None \in Maybe(Content)
    BY <2>2, Others DEF ArtifactRecord, Maybe
  <2>6. NoEvidence \in [verdict : {"NONE", "PASS", "FAIL", "INFRA"}, of : Maybe(Content)]
    BY DEF NoEvidence, Maybe
  <2> HIDE DEF new
  <2> QED BY <2>3, <2>4, <2>5, <2>6 DEF ArtifactRecord
<1> HIDE DEF new
<1>3. ArtifactsOK(new)
  BY <1>1, <1>2, ChangeOK, Others
<1> QED BY <1>3 DEF new

\* A candidate of a generation or a patch on its way keeps the invariant.
LEMMA AdoptOK ==
  ASSUME Inductive, NEW content \in Content, Adopt(content), UNCHANGED change
  PROVE  Inductive'
<1> USE Others
<1>1. CASE current \in Validated
  <2>1. /\ artifacts' = Candidate(content, "CANDIDATE")
        /\ stage' = "ARTIFACT_VALIDATION" /\ attempt' = 0
        /\ UNCHANGED <<current, stopped, offers, questions, changes, done>>
    BY <1>1 DEF Adopt
  <2>2. ArtifactsOK(artifacts')
    BY <2>1, CandidateOK DEF Status
  <2>3. TypeOK'
    BY <2>1, <2>2, PipelineAssumption DEF Inductive, TypeOK, ArtifactsOK
  <2> QED BY <2>1, <2>2, <2>3 DEF Inductive, StageOK
<1>2. CASE current \notin Validated /\ current \in Reviewed
  <2>1. Schedule(Candidate(content, "REVIEW_REQUIRED"), None, offers, questions, changes, done)
    BY <1>2 DEF Adopt
  <2>2. ArtifactsOK(Candidate(content, "REVIEW_REQUIRED"))
    BY CandidateOK DEF Status
  <2> QED BY <2>1, <2>2, ScheduleOK
<1>3. CASE current \notin Validated /\ current \notin Reviewed
  <2>1. Prepare(Candidate(content, "APPROVED"), current)
    BY <1>3 DEF Adopt
  <2>2. ArtifactsOK(Candidate(content, "APPROVED"))
    BY CandidateOK DEF Status
  <2> QED BY <2>1, <2>2, PrepareOK
<1> QED BY <1>1, <1>2, <1>3

\* Generations and patches keep the invariant.
LEMMA CandidatesKeepInductive ==
  ASSUME Inductive, Generate \/ ApplyPatch \/ RejectPatch
  PROVE  Inductive'
<1>1. CASE Generate
  BY <1>1, AdoptOK DEF Generate
<1>2. CASE ApplyPatch
  BY <1>2, AdoptOK DEF ApplyPatch
<1>3. CASE RejectPatch
  <2>1. /\ Schedule([artifacts EXCEPT ![current].status = "REVIEW_REQUIRED"], None,
                    offers, questions, changes, done)
        /\ UNCHANGED change
    BY <1>3 DEF RejectPatch
  <2>2. ArtifactsOK([artifacts EXCEPT ![current].status = "REVIEW_REQUIRED"])
    BY StatusOK, Others DEF Status
  <2> QED BY <2>1, <2>2, ScheduleOK, Others
<1> QED BY <1>1, <1>2, <1>3

\* A verdict of the validator keeps types and approvals.
LEMMA VerdictOK ==
  ASSUME Inductive, NEW verdict \in {"PASS", "FAIL", "INFRA"}, NEW status \in Status,
         NEW tries \in 0 .. MaxAttempts
  PROVE  LET judged == [artifacts EXCEPT ![current].validator = Validator(verdict)] IN
         /\ ArtifactsOK([judged EXCEPT ![current].status = status])
         /\ ArtifactsOK([judged EXCEPT ![current].tries = tries])
         /\ ArtifactsOK([[judged EXCEPT ![current].tries = tries] EXCEPT
                           ![current].status = status])
<1> DEFINE judged == [artifacts EXCEPT ![current].validator = Validator(verdict)]
           counted == [judged EXCEPT ![current].tries = tries]
<1>1. ArtifactsOK(judged)
  <2>1. judged = [b \in Artifact |-> judged[b]]
        /\ \A b \in Artifact \ {current} : judged[b] = artifacts[b]
    BY Others DEF ArtifactsOK
  <2>2. ASSUME current \in Artifact
        PROVE  judged[current] \in ArtifactRecord
               /\ judged[current].review = artifacts[current].review
               /\ judged[current].candidate = artifacts[current].candidate
    <3>1. artifacts[current] \in ArtifactRecord
      BY <2>2, Others DEF ArtifactsOK
    <3>2. judged[current] = [artifacts[current] EXCEPT !.validator = Validator(verdict)]
      BY <2>2, Others DEF ArtifactsOK
    <3>3. Validator(verdict) \in [verdict : {"NONE", "PASS", "FAIL", "INFRA"},
                                 of : Maybe(Content)]
      BY <3>1 DEF ArtifactRecord, Validator, Record
    <3> HIDE DEF judged
    <3> QED BY <3>1, <3>2, <3>3 DEF ArtifactRecord
  <2> HIDE DEF judged
  <2>3. \A b \in Artifact : judged[b] \in ArtifactRecord
    BY <2>1, <2>2, Others DEF ArtifactsOK
  <2>4. \A b \in Artifact : judged[b].review = artifacts[b].review
                            /\ judged[b].candidate = artifacts[b].candidate
    BY <2>1, <2>2
  <2> QED BY <2>1, <2>3, <2>4, Others DEF ArtifactsOK, Dependent
<1>2. ArtifactsOK(counted)
  <2> HIDE DEF judged
  <2>1. \A b \in Artifact : judged[b] \in ArtifactRecord
    BY <1>1 DEF ArtifactsOK
  <2>2. counted = [b \in Artifact |-> counted[b]]
        /\ \A b \in Artifact :
             counted[b] = IF b = current THEN [judged[b] EXCEPT !.tries = tries] ELSE judged[b]
    BY <1>1 DEF ArtifactsOK
  <2> HIDE DEF counted
  <2>3. \A b \in Artifact : /\ counted[b] \in ArtifactRecord
                            /\ counted[b].review = judged[b].review
                            /\ counted[b].candidate = judged[b].candidate
    BY <2>1, <2>2 DEF ArtifactRecord
  <2> QED BY <1>1, <2>2, <2>3 DEF ArtifactsOK, Dependent
<1> HIDE DEF judged, counted
<1>3. ArtifactsOK([judged EXCEPT ![current].status = status])
      /\ ArtifactsOK([counted EXCEPT ![current].status = status])
  BY <1>1, <1>2, StatusOK
<1> QED BY <1>1, <1>2, <1>3 DEF judged, counted

\* Validation keeps the invariant.
LEMMA ValidationKeepsInductive ==
  ASSUME Inductive, ValidationPasses \/ ValidationFails \/ ValidatorBreaks
  PROVE  Inductive'
<1> USE Others
<1>1. CASE ValidationPasses
  <2> DEFINE passed == [artifacts EXCEPT ![current].validator = Validator("PASS"),
                                         ![current].tries = 0]
  <2>1. ASSUME NEW status \in Status
        PROVE  ArtifactsOK([passed EXCEPT ![current].status = status])
    <3>1. "PASS" \in {"PASS", "FAIL", "INFRA"} /\ 0 \in 0 .. MaxAttempts
      BY PipelineAssumption
    <3>2. passed = [[artifacts EXCEPT ![current].validator = Validator("PASS")]
                      EXCEPT ![current].tries = 0]
      OBVIOUS
    <3> HIDE DEF passed
    <3> QED BY <3>1, <3>2, VerdictOK
  <2>2. CASE current \in Reviewed
    <3>1. /\ artifacts' = [passed EXCEPT ![current].status = "REVIEW_REQUIRED"]
          /\ stage' = "ARTIFACT_REVIEW" /\ attempt' = 0
          /\ UNCHANGED <<current, stopped, offers, questions, changes, done, change>>
      BY <1>1, <2>2 DEF ValidationPasses
    <3>2. ArtifactsOK(artifacts')
      BY <2>1, <3>1 DEF Status
    <3> HIDE DEF passed
    <3>3. TypeOK'
      BY <3>1, <3>2, PipelineAssumption DEF Inductive, TypeOK, ArtifactsOK, AgentStages
    <3> QED BY <3>1, <3>2, <3>3 DEF Inductive, StageOK
  <2>3. CASE current \notin Reviewed
    <3>1. Prepare([passed EXCEPT ![current].status = "APPROVED"], current) /\ UNCHANGED change
      BY <1>1, <2>3 DEF ValidationPasses
    <3>2. ArtifactsOK([passed EXCEPT ![current].status = "APPROVED"])
      BY <2>1 DEF Status
    <3> HIDE DEF passed
    <3> QED BY <3>1, <3>2, PrepareOK
  <2> QED BY <2>2, <2>3
<1>2. CASE ValidationFails
  <2>1. artifacts' = [artifacts EXCEPT ![current].validator = Validator("FAIL"),
                                       ![current].status = "REQUIRES_PATCH"]
        /\ stage' = "ARTIFACT_PATCH" /\ attempt' = 0
        /\ UNCHANGED <<current, stopped, offers, questions, changes, change, done>>
    BY <1>2 DEF ValidationFails
  <2>2. ArtifactsOK(artifacts')
    <3>1. 0 \in 0 .. MaxAttempts /\ "REQUIRES_PATCH" \in Status
      BY PipelineAssumption DEF Status
    <3> QED BY <2>1, <3>1, VerdictOK
  <2>3. TypeOK'
    BY <2>1, <2>2, PipelineAssumption DEF Inductive, TypeOK, ArtifactsOK, AgentStages
  <2> QED BY <2>1, <2>2, <2>3 DEF Inductive, StageOK
<1>3. CASE ValidatorBreaks
  <2> DEFINE tries == IF Record.tries < MaxAttempts THEN Record.tries + 1 ELSE MaxAttempts
  <2>1. /\ artifacts' = [artifacts EXCEPT ![current].validator = Validator("INFRA"),
                                          ![current].tries = tries]
        /\ \/ /\ stage' = "HARD_STOP"
              /\ stopped' = [code |-> "PROJECT_VALIDATOR_EXECUTION_FAILED", stage |-> stage]
           \/ UNCHANGED <<stage, stopped>>
        /\ stage = "ARTIFACT_VALIDATION"
        /\ UNCHANGED <<current, attempt, offers, questions, changes, change, done>>
    BY <1>3 DEF ValidatorBreaks, At
  <2>2. ArtifactsOK(artifacts')
    <3>1. CASE current \in Artifact
      <4>1. Record.tries \in 0 .. MaxAttempts
        BY <3>1 DEF Record, ArtifactsOK, ArtifactRecord
      <4>2. tries \in 0 .. MaxAttempts /\ "PENDING" \in Status
        BY <4>1, PipelineAssumption DEF Status
      <4> HIDE DEF tries
      <4> QED BY <2>1, <4>2, VerdictOK
    <3>2. CASE current \notin Artifact
      <4>1. artifacts' = artifacts
        BY <2>1, <3>2 DEF ArtifactsOK
      <4> QED BY <4>1
    <3> QED BY <3>1, <3>2
  <2>3. TypeOK'
    BY <2>1, <2>2 DEF Inductive, TypeOK, ArtifactsOK, AgentStages
  <2>4. StageOK'
    BY <2>1 DEF Inductive, StageOK
  <2> QED BY <2>1, <2>2, <2>3, <2>4 DEF Inductive
<1> QED BY <1>1, <1>2, <1>3

\* An approval is of the candidate under review.
LEMMA ReviewedOK ==
  ASSUME Inductive, NEW status \in Status,
         NEW review \in IF current \in Artifact THEN {None, Record.candidate} ELSE {None}
  PROVE  ArtifactsOK([artifacts EXCEPT ![current].status = status,
                                       ![current].review = review])
<1> DEFINE new == [artifacts EXCEPT ![current].status = status, ![current].review = review]
<1>1. new = [b \in Artifact |-> new[b]] /\ \A b \in Artifact \ {current} : new[b] = artifacts[b]
  BY Others DEF ArtifactsOK
<1>2. ASSUME current \in Artifact
      PROVE  new[current] \in ArtifactRecord
             /\ new[current].review \in {None, new[current].candidate}
  <2>1. new[current] = [artifacts[current] EXCEPT !.status = status, !.review = review]
    BY <1>2, Others DEF ArtifactsOK
  <2>2. artifacts[current] \in ArtifactRecord
    BY <1>2, Others DEF ArtifactsOK
  <2>3. review \in Maybe(Content) /\ review \in {None, artifacts[current].candidate}
    BY <1>2, <2>2 DEF ArtifactRecord, Record, Maybe
  <2> HIDE DEF new
  <2> QED BY <2>1, <2>2, <2>3 DEF ArtifactRecord
<1> HIDE DEF new
<1>3. ArtifactsOK(new)
  BY <1>1, <1>2, ChangeOK, Others
<1> QED BY <1>3 DEF new

\* Reviews, and the questions they and patches ask, keep the invariant.
LEMMA ReviewKeepsInductive ==
  ASSUME Inductive, ReviewApproves \/ ReviewRequiresPatch \/ Ask
  PROVE  Inductive'
<1> USE Others
<1>1. CASE ReviewApproves
  <2>1. Prepare([artifacts EXCEPT ![current].status = "APPROVED",
                                  ![current].review = Record.candidate], current)
        /\ UNCHANGED change
    BY <1>1 DEF ReviewApproves
  <2>2. ArtifactsOK([artifacts EXCEPT ![current].status = "APPROVED",
                                      ![current].review = Record.candidate])
    <3>1. CASE current \in Artifact
      BY <3>1, ReviewedOK DEF Status
    <3>2. CASE current \notin Artifact
      <4>1. [artifacts EXCEPT ![current].status = "APPROVED",
                              ![current].review = Record.candidate] = artifacts
        BY <3>2 DEF ArtifactsOK
      <4> QED BY <4>1
    <3> QED BY <3>1, <3>2
  <2> QED BY <2>1, <2>2, PrepareOK
<1>2. CASE ReviewRequiresPatch
  <2> DEFINE arts == [artifacts EXCEPT ![current].status = "REQUIRES_PATCH",
                                       ![current].review = None]
  <2>1. Schedule(arts, None, offers, questions, changes, done) /\ UNCHANGED change
    BY <1>2 DEF ReviewRequiresPatch
  <2>2. ArtifactsOK(arts)
    BY ReviewedOK DEF Status
  <2> HIDE DEF arts
  <2> QED BY <2>1, <2>2, ScheduleOK
<1>3. CASE Ask
  <2> DEFINE arts == [artifacts EXCEPT ![current].status = "BLOCKED",
                                       ![current].review = None]
  <2>1. PICK blocks, ques :
          /\ blocks \in SUBSET Task
          /\ Schedule(arts, None, offers, ques, changes, done) /\ UNCHANGED change
          /\ ques \in {questions, [questions EXCEPT
                         ![current] = [status |-> "PENDING", blocks |-> blocks]]}
    <3>1. PICK blocks \in IF Open = {} THEN {{}} ELSE SUBSET Open \ {{}},
               asked \in IF "repeat" \in Disturbances THEN BOOLEAN ELSE {FALSE} :
            Schedule(arts, None, offers,
                     IF asked THEN questions
                     ELSE [questions EXCEPT
                             ![current] = [status |-> "PENDING", blocks |-> blocks]],
                     changes, done)
      BY <1>3 DEF Ask
    <3>2. blocks \in SUBSET Task /\ UNCHANGED change
      BY <1>3, <3>1 DEF Open, Ask
    <3> QED BY <3>1, <3>2
  <2>2. ArtifactsOK(arts)
    BY ReviewedOK DEF Status
  <2>3. ques \in Questions
    <3>1. [status |-> "PENDING", blocks |-> blocks] \in
            [status : DecisionStatus, blocks : SUBSET Task]
      BY <2>1 DEF DecisionStatus
    <3> QED BY <2>1, <3>1 DEF Questions
  <2> HIDE DEF arts
  <2> QED BY <2>1, <2>2, <2>3, ScheduleOK
<1> QED BY <1>1, <1>2, <1>3

-----------------------------------------------------------------------------
(* Scheduling, retries and tasks *)

\* Refused outcomes and recovery keep the invariant: a stop remembers a stage.
LEMMA RetriesKeepInductive ==
  ASSUME Inductive, InvalidOutcome \/ Recover
  PROVE  Inductive'
<1> USE Others
<1>1. CASE InvalidOutcome
  <2>1. /\ stage \in AgentStages
        /\ UNCHANGED <<current, artifacts, offers, questions, changes, change, done>>
        /\ \/ /\ stage' = "HARD_STOP" /\ UNCHANGED attempt
              /\ stopped' = [code |-> "RETRY_EXHAUSTED", stage |-> stage]
           \/ /\ attempt + 1 # MaxAttempts /\ attempt' = attempt + 1
              /\ UNCHANGED <<stage, stopped>>
    BY <1>1 DEF InvalidOutcome, At, Exhausted
  <2>2. attempt' \in 0 .. MaxAttempts - 1
    BY <2>1, PipelineAssumption DEF Inductive, TypeOK
  <2>3. TypeOK'
    BY <2>1, <2>2 DEF Inductive, TypeOK
  <2>4. StageOK'
    BY <2>1 DEF Inductive, StageOK, AgentStages
  <2> QED BY <2>1, <2>3, <2>4 DEF Inductive
<1>2. CASE Recover
  <2>1. /\ stopped.code \in {"RETRY_EXHAUSTED", "PROJECT_VALIDATOR_EXECUTION_FAILED"}
        /\ stage' = stopped.stage /\ attempt' = 0 /\ stopped' = NotStopped
        /\ UNCHANGED <<current, artifacts, offers, questions, changes, change, done>>
    BY <1>2 DEF Recover
  <2>2. stage' \in AgentStages \cup {"ARTIFACT_VALIDATION"}
    BY <2>1 DEF Inductive, TypeOK, StageOK
  <2>3. TypeOK'
    BY <2>1, <2>2, PipelineAssumption DEF Inductive, TypeOK, NotStopped
  <2>4. StageOK'
    BY <2>1 DEF Inductive, StageOK, NotStopped
  <2> QED BY <2>1, <2>3, <2>4 DEF Inductive
<1> QED BY <1>1, <1>2

\* Scheduling and work on the tasks keep the invariant.
LEMMA TasksKeepInductive ==
  ASSUME Inductive, Reschedule \/ CompleteTask \/ FinishProject
  PROVE  Inductive'
<1> USE Others
<1>1. CASE Reschedule
  BY <1>1, ScheduleOK DEF Reschedule
<1>2. CASE CompleteTask
  <2>1. PICK t \in Task : Schedule(artifacts, current, offers, questions, changes, done \cup {t})
    BY <1>2 DEF CompleteTask, Ready
  <2>2. done \cup {t} \in SUBSET Task /\ UNCHANGED change
    BY <1>2 DEF CompleteTask
  <2> QED BY <2>1, <2>2, ScheduleOK
<1>3. CASE FinishProject
  <2>1. stage' = "COMPLETED" /\ UNCHANGED <<current, attempt, stopped, artifacts, offers,
                                           questions, changes, change, done>>
    BY <1>3 DEF FinishProject
  <2> QED BY <2>1 DEF Inductive, TypeOK, StageOK
<1> QED BY <1>1, <1>2, <1>3

-----------------------------------------------------------------------------
(* Revisions of the guide *)

\* The guide has no approval to keep.
LEMMA GuideOK ==
  ASSUME NEW arts, ArtifactsOK(arts), NEW new,
         new = [a \in Artifact |-> new[a]],
         \A a \in Dependent : new[a] = arts[a],
         new[Guide] \in ArtifactRecord
  PROVE  ArtifactsOK(new)
<1>1. \A a \in Artifact : new[a] \in ArtifactRecord
  BY DEF ArtifactsOK, Dependent
<1> QED BY <1>1 DEF ArtifactsOK, Dependent

\* The record of a change that is found.
LEMMA DetectedChange ==
  ASSUME NEW chg \in Changes, NEW c \in Change, NEW content \in Content
  PROVE  [chg EXCEPT ![c].status = "CHANGE_PENDING", ![c].content = content] \in Changes
<1> DEFINE new == [[chg[c] EXCEPT !.status = "CHANGE_PENDING"] EXCEPT !.content = content]
<1>1. [chg EXCEPT ![c].status = "CHANGE_PENDING", ![c].content = content]
        = [chg EXCEPT ![c] = new]
  BY DEF Changes
<1>2. new \in [status : {"NONE", "CHANGE_PENDING", "PROPAGATING", "ACCEPTED"},
              analysed : BOOLEAN, content : Maybe(Content),
              affected : SUBSET Artifact, hits : SUBSET Task]
  BY DEF Changes, Maybe
<1> HIDE DEF new
<1> QED BY <1>1, <1>2 DEF Changes

\* A revision that is found is analysed under its change.
LEMMA DetectionKeepsInductive ==
  ASSUME Inductive, Detect \/ DetectAgain
  PROVE  Inductive'
<1> USE Others
<1>1. CASE Detect
  <2>1. PICK c \in Change, content \in Content :
          /\ artifacts' = [artifacts EXCEPT ![Guide].status = "PROMOTION_READY",
                                            ![Guide].candidate = content,
                                            ![Guide].change = c]
          /\ changes' = [changes EXCEPT ![c].status = "CHANGE_PENDING",
                                        ![c].content = content]
          /\ change' = c
    BY <1>1 DEF Detect
  <2>2. /\ stage' = "AUTHORITY_CHANGE_ANALYSIS" /\ attempt' = 0 /\ stopped' = NotStopped
        /\ UNCHANGED <<current, offers, questions, done>>
    BY <1>1 DEF Detect
  <2>3. ArtifactsOK(artifacts')
    <3>1. artifacts[Guide] \in ArtifactRecord
      BY PipelineAssumption DEF ArtifactsOK
    <3>2. artifacts'[Guide] = [artifacts[Guide] EXCEPT !.status = "PROMOTION_READY",
                                                       !.candidate = content, !.change = c]
      BY <2>1, PipelineAssumption DEF ArtifactsOK
    <3>3. artifacts'[Guide] \in ArtifactRecord
      <4>1. /\ "PROMOTION_READY" \in Status
            /\ content \in Maybe(Content) /\ c \in Maybe(Change)
        BY DEF Status, Maybe
      <4> QED BY <3>1, <3>2, <4>1 DEF ArtifactRecord
    <3>4. artifacts' = [a \in Artifact |-> artifacts'[a]]
          /\ \A a \in Dependent : artifacts'[a] = artifacts[a]
      BY <2>1 DEF ArtifactsOK, Dependent
    <3> QED BY <3>3, <3>4, GuideOK
  <2>4. changes' \in Changes
    <3>1. changes' = [changes EXCEPT ![c].status = "CHANGE_PENDING",
                                     ![c].content = content]
      BY <2>1
    <3> QED BY <3>1, DetectedChange
  <2>5. TypeOK'
    <3>1. /\ stage' \in AgentStages /\ attempt' \in 0 .. MaxAttempts - 1
          /\ change' \in Maybe(Change)
      BY <2>1, <2>2, PipelineAssumption DEF AgentStages, Maybe
    <3>2. stopped' \in [code : {"NONE", "DEPENDENCY_BLOCKED", "RETRY_EXHAUSTED",
                               "PROJECT_VALIDATOR_EXECUTION_FAILED"},
                       stage : AgentStages \cup {"NONE", "ARTIFACT_VALIDATION"}]
      BY <2>2 DEF NotStopped
    <3>3. artifacts' \in [Artifact -> ArtifactRecord]
      BY <2>3 DEF ArtifactsOK
    <3> QED BY <2>2, <2>4, <3>1, <3>2, <3>3 DEF Inductive, TypeOK, Changes
  <2> QED BY <2>1, <2>2, <2>3, <2>5 DEF Inductive, StageOK, NotStopped
<1>2. CASE DetectAgain
  <2>1. /\ change' \in Change
        /\ stage' = "AUTHORITY_CHANGE_ANALYSIS" /\ attempt' = 0 /\ stopped' = NotStopped
        /\ UNCHANGED <<current, artifacts, offers, questions, changes, done>>
    BY <1>2 DEF DetectAgain, Unanalysed, OpenChange
  <2>2. TypeOK'
    BY <2>1, PipelineAssumption DEF Inductive, TypeOK, NotStopped, AgentStages, Maybe
  <2> QED BY <2>1, <2>2 DEF Inductive, StageOK, NotStopped
<1> QED BY <1>1, <1>2

\* Rebasing what is derived from the guide keeps types and approvals.
LEMMA RebasedOK ==
  ASSUME Inductive
  PROVE  /\ ArtifactsOK(Rebased)
         /\ \A a \in Dependent : Rebased[a].accepted = artifacts[a].accepted
<1>1. \A a \in Artifact : artifacts[a] \in ArtifactRecord
  BY Others DEF ArtifactsOK
<1>2. Rebased = [a \in Artifact |-> Rebased[a]]
  BY DEF Rebased
<1>3. Rebased[Guide] \in ArtifactRecord
  <2>1. Rebased[Guide] = [artifacts[Guide] EXCEPT !.status = "ACCEPTED",
                            !.accepted = artifacts[Guide].candidate, !.candidate = None]
    BY PipelineAssumption DEF Rebased
  <2> QED BY <1>1, <2>1, PipelineAssumption DEF ArtifactRecord, Status, Maybe
<1>4. ASSUME NEW a \in Dependent
      PROVE  /\ Rebased[a] \in ArtifactRecord
             /\ Rebased[a].accepted = artifacts[a].accepted
             /\ Rebased[a].review = artifacts[a].review
             /\ Rebased[a].candidate = artifacts[a].candidate
  <2> DEFINE content == artifacts[Guide].candidate
  <2>1. \/ Rebased[a] = artifacts[a]
        \/ Rebased[a] = [artifacts[a] EXCEPT !.derived[Guide] = content]
    BY DEF Rebased, Dependent
  <2>2. artifacts[a] \in ArtifactRecord /\ content \in Maybe(Content)
    BY <1>1, PipelineAssumption DEF ArtifactRecord, Dependent
  <2> HIDE DEF content
  <2> QED BY <2>1, <2>2 DEF ArtifactRecord
<1>5. \A a \in Artifact : Rebased[a] \in ArtifactRecord
  BY <1>3, <1>4 DEF Dependent
<1> QED BY <1>2, <1>4, <1>5, Others DEF ArtifactsOK

\* A revision that changes no meaning leaves the invariant as it was.
LEMMA AcceptanceKeepsInductive ==
  ASSUME Inductive, AcceptRevision
  PROVE  Inductive'
<1> USE Others
<1> DEFINE chg == [changes EXCEPT ![change].status = "ACCEPTED", ![change].analysed = TRUE]
<1>1. chg \in Changes
  BY DEF Changes
<1>2. change' \in Maybe(Change)
  BY DEF AcceptRevision, ArtifactsOK, ArtifactRecord, Maybe
<1>3. CASE Interrupted
  <2>1. /\ artifacts' = Rebased /\ changes' = chg
        /\ stage' = ResumedStage(artifacts[current]) /\ attempt' = 0 /\ stopped' = NotStopped
        /\ done' \subseteq done
        /\ UNCHANGED <<current, offers, questions>>
    BY <1>3 DEF AcceptRevision
  <2>2. ArtifactsOK(artifacts')
    BY <2>1, RebasedOK
  <2>3. stage' \in {"ARTIFACT_VALIDATION", "ARTIFACT_GENERATION", "ARTIFACT_REVIEW",
                    "ARTIFACT_PATCH"}
    BY <2>1 DEF ResumedStage, StageOf
  <2> HIDE DEF chg
  <2>4. TypeOK'
    BY <1>1, <1>2, <2>1, <2>2, <2>3, PipelineAssumption
       DEF Inductive, TypeOK, ArtifactsOK, Changes, NotStopped, AgentStages
  <2> QED BY <2>1, <2>2, <2>3, <2>4 DEF Inductive, StageOK, NotStopped
<1>4. CASE ~Interrupted
  <2>1. Schedule(Rebased, None, offers, questions, chg, done)
    BY <1>4 DEF AcceptRevision
  <2> HIDE DEF chg
  <2> QED BY <1>1, <1>2, <2>1, RebasedOK, ScheduleOK
<1> QED BY <1>3, <1>4

\* What a semantic revision blocks has neither a candidate nor an approval.
LEMMA BlockingKeepsInductive ==
  ASSUME Inductive, BlockAffected
  PROVE  Inductive'
<1> USE Others
<1>1. PICK affected \in SUBSET Dependent, hits \in SUBSET Task :
        /\ artifacts' = [a \in Artifact |->
             IF a \in affected
               THEN [Reset(artifacts[a], "BLOCKED") EXCEPT !.change = change]
               ELSE artifacts[a]]
        /\ changes' = [changes EXCEPT ![change].analysed = TRUE,
                                      ![change].affected = affected,
                                      ![change].hits = hits]
        /\ offers' = [offers EXCEPT ![Guide] =
             [status |-> "PENDING", of |-> changes[change].content,
              change |-> change, blocks |-> hits]]
        /\ done' = done \ Hit(changes')
  BY DEF BlockAffected
<1>2. /\ stage' = "WAITING_FOR_HUMAN" /\ attempt' = 0
      /\ UNCHANGED <<current, stopped, questions, change>>
  BY DEF BlockAffected
<1>3. change \in Change
  BY DEF BlockAffected, Analysing, At, Inductive, StageOK
<1>4. ArtifactsOK(artifacts')
  <2>1. ASSUME NEW a \in Artifact
        PROVE  /\ artifacts'[a] \in ArtifactRecord
               /\ artifacts'[a] = artifacts[a] \/ artifacts'[a].review = None
    <3> DEFINE blocked == Reset(artifacts[a], "BLOCKED")
    <3>1. blocked \in ArtifactRecord /\ blocked.review = None
      BY ResetTyped DEF ArtifactsOK, Status
    <3>2. artifacts'[a] \in {artifacts[a], [blocked EXCEPT !.change = change]}
      BY <1>1
    <3>3. artifacts[a] \in ArtifactRecord
      BY DEF ArtifactsOK
    <3> HIDE DEF blocked
    <3> QED BY <3>1, <3>2, <3>3 DEF ArtifactRecord
  <2>2. artifacts' = [a \in Artifact |-> artifacts'[a]]
    BY <1>1
  <2> QED BY <2>1, <2>2 DEF ArtifactsOK, Dependent
<1>5. changes' \in Changes
  <2>1. affected \in SUBSET Artifact
    BY DEF Dependent
  <2>2. changes' = [changes EXCEPT ![change] =
          [changes[change] EXCEPT !.analysed = TRUE, !.affected = affected, !.hits = hits]]
    BY <1>1, <1>3 DEF Changes
  <2>3. changes[change] \in [status : {"NONE", "CHANGE_PENDING", "PROPAGATING", "ACCEPTED"},
                             analysed : BOOLEAN, content : Maybe(Content),
                             affected : SUBSET Artifact, hits : SUBSET Task]
    BY <1>3 DEF Changes
  <2> QED BY <2>1, <2>2, <2>3 DEF Changes
<1>6. OffersOK(offers')
  <2>1. [status |-> "PENDING", of |-> changes[change].content,
         change |-> change, blocks |-> hits] \in
          [status : DecisionStatus, of : Maybe(Content),
           change : Maybe(Change), blocks : SUBSET Task]
    BY <1>3 DEF Changes, DecisionStatus
  <2> QED BY <1>1, <1>3, <2>1, PipelineAssumption DEF OffersOK, Offers
<1>7. TypeOK'
  BY <1>1, <1>2, <1>4, <1>5, <1>6, PipelineAssumption
     DEF Inductive, TypeOK, ArtifactsOK, Changes, OffersOK, Offers, Waiting
<1> QED BY <1>2, <1>4, <1>6, <1>7 DEF Inductive, StageOK

-----------------------------------------------------------------------------
(* Decisions *)

\* An answered decision keeps the types.
LEMMA ResolveOK ==
  ASSUME Inductive, NEW a
  PROVE  OffersOK(Resolve(offers, a)) /\ Resolve(questions, a) \in Questions
<1> USE Others
<1>1. Resolve(offers, a) \in Offers
  BY DEF Resolve, OffersOK, Offers, DecisionStatus
<1>2. Resolve(offers, a)[Guide].status = "PENDING" =>
        Resolve(offers, a)[Guide].change \in Change
  BY PipelineAssumption DEF Resolve, OffersOK, Offers
<1>3. Resolve(questions, a) \in Questions
  BY DEF Resolve, Questions, DecisionStatus
<1> QED BY <1>1, <1>2, <1>3 DEF OffersOK

\* Taking up new revisions under a change keeps what else a record holds.
LEMMA RebasedRecord ==
  ASSUME NEW record \in ArtifactRecord, NEW c \in Maybe(Change),
         NEW revisions \in [Artifact -> Maybe(Content)]
  PROVE  LET rebased == [record EXCEPT !.derived = revisions, !.change = c]
         IN /\ rebased \in ArtifactRecord
            /\ rebased.review = record.review
            /\ rebased.accepted = record.accepted
BY DEF ArtifactRecord

\* The accepted guide is a record.
LEMMA AcceptedRecord ==
  ASSUME NEW record \in ArtifactRecord, NEW content \in Maybe(Content),
         NEW c \in Maybe(Change)
  PROVE  [record EXCEPT !.status = "ACCEPTED", !.candidate = None,
                        !.accepted = content, !.change = c] \in ArtifactRecord
<1>1. "ACCEPTED" \in Status /\ None \in Maybe(Content)
  BY DEF Status, Maybe
<1> QED BY <1>1 DEF ArtifactRecord

\* What the promotion of the guide releases starts anew, and is not accepted
\* in anything else than before.
LEMMA ReleasedOK ==
  ASSUME Inductive, NEW c \in Change
  PROVE  /\ ArtifactsOK(Released(c))
         /\ \A a \in Dependent : Released(c)[a].accepted = artifacts[a].accepted
<1> USE Others
<1>1. \A a \in Artifact : artifacts[a] \in ArtifactRecord
  BY DEF ArtifactsOK
<1>2. c \in Maybe(Change) /\ changes[c].content \in Maybe(Content) /\ None \in Maybe(Content)
  BY DEF Changes, Maybe
<1>3. Released(c)[Guide] \in ArtifactRecord
  <2>1. Released(c)[Guide] = [artifacts[Guide] EXCEPT !.status = "ACCEPTED", !.candidate = None,
                                !.accepted = changes[c].content, !.change = c]
    BY PipelineAssumption DEF Released
  <2>2. artifacts[Guide] \in ArtifactRecord /\ "ACCEPTED" \in Status
    BY <1>1, PipelineAssumption DEF Status
  <2>3. [artifacts[Guide] EXCEPT !.status = "ACCEPTED", !.candidate = None,
                                 !.accepted = changes[c].content, !.change = c]
          \in ArtifactRecord
    BY <1>2, <2>2, AcceptedRecord
  <2> QED BY <2>1, <2>3
<1>4. ASSUME NEW a \in Dependent
      PROVE  /\ Released(c)[a] \in ArtifactRecord
             /\ Released(c)[a].accepted = artifacts[a].accepted
             /\ Released(c)[a] = artifacts[a] \/ Released(c)[a].review = None
  <2> DEFINE reset == Reset(artifacts[a], "PENDING")
             revisions == Derivation(artifacts, a)
  <2>1. Released(c)[a] \in {artifacts[a],
                            [reset EXCEPT !.derived = revisions, !.change = c]}
    BY DEF Dependent, Released
  <2>2. /\ artifacts[a] \in ArtifactRecord /\ reset \in ArtifactRecord
        /\ reset.review = None /\ reset.accepted = artifacts[a].accepted
    BY <1>1, ResetTyped DEF Dependent, Status
  <2>3. revisions \in [Artifact -> Maybe(Content)]
    BY DerivationTyped DEF Dependent, ArtifactsOK
  <2> HIDE DEF reset, revisions
  <2> DEFINE rebased == [reset EXCEPT !.derived = revisions, !.change = c]
  <2>4. /\ rebased \in ArtifactRecord /\ rebased.review = reset.review
        /\ rebased.accepted = reset.accepted
    BY <1>2, <2>2, <2>3, RebasedRecord
  <2>5. Released(c)[a] \in {artifacts[a], rebased}
    BY <2>1
  <2> HIDE DEF rebased
  <2> QED BY <2>2, <2>4, <2>5
<1>5. \A a \in Artifact : Released(c)[a] \in ArtifactRecord
  BY <1>3, <1>4 DEF Dependent
<1>6. \A a \in Dependent : Released(c)[a].review \in {None, Released(c)[a].candidate}
  BY <1>4 DEF ArtifactsOK
<1>7. Released(c) = [a \in Artifact |-> Released(c)[a]]
  BY DEF Released
<1> QED BY <1>4, <1>5, <1>6, <1>7 DEF ArtifactsOK

\* The answers of the human keep the invariant.
LEMMA DecisionsKeepInductive ==
  ASSUME Inductive, Decide
  PROVE  Inductive'
<1> USE Others
<1>1. CASE DecideGuide
  <2> DEFINE c == offers[Guide].change
             chg == [changes EXCEPT ![c].status = "PROPAGATING"]
  <2>1. /\ Schedule(Released(c), current, Resolve(offers, Guide), questions, chg, done)
        /\ change' = c
    BY <1>1 DEF DecideGuide
  <2>2. c \in Change
    BY <1>1 DEF DecideGuide, OffersOK
  <2>3. ArtifactsOK(Released(c))
    BY <2>2, ReleasedOK
  <2>4. chg \in Changes /\ c \in Maybe(Change)
    <3> HIDE DEF c
    <3> QED BY <2>2 DEF Changes, Maybe
  <2>5. OffersOK(Resolve(offers, Guide))
    BY ResolveOK
  <2> HIDE DEF c, chg
  <2> QED BY <2>1, <2>3, <2>4, <2>5, ScheduleOK
<1>2. CASE DecidePromotion
  <2>1. PICK a : Schedule(Promoted(artifacts, a), current, Resolve(offers, a),
                          questions, changes, done)
    BY <1>2 DEF DecidePromotion
  <2>2. UNCHANGED change
    BY <1>2 DEF DecidePromotion
  <2> QED BY <2>1, <2>2, PromotedOK, ResolveOK, ScheduleOK
<1>3. CASE DecideQuestion
  <2>1. PICK a :
          LET again == IF artifacts[a].candidate = None THEN "PENDING"
                       ELSE "REVIEW_REQUIRED"
          IN Schedule([artifacts EXCEPT ![a].status = IF @ = "BLOCKED" THEN again ELSE @],
                      current, offers, Resolve(questions, a), changes, done)
    BY <1>3 DEF DecideQuestion
  <2> DEFINE again == IF artifacts[a].candidate = None THEN "PENDING" ELSE "REVIEW_REQUIRED"
             arts == [artifacts EXCEPT ![a].status = IF @ = "BLOCKED" THEN again ELSE @]
  <2>2. ArtifactsOK(arts)
    <3>1. arts = [b \in Artifact |-> arts[b]]
          /\ \A b \in Artifact : arts[b] \in
               {artifacts[b], [artifacts[b] EXCEPT !.status = again]}
      BY DEF ArtifactsOK, ArtifactRecord
    <3>2. again \in Status
      BY DEF Status
    <3>3. \A b \in Artifact : artifacts[b] \in ArtifactRecord
      BY DEF ArtifactsOK
    <3> HIDE DEF arts, again
    <3>4. ASSUME NEW b \in Artifact
          PROVE  /\ arts[b] \in ArtifactRecord
                 /\ arts[b].review = artifacts[b].review
                 /\ arts[b].candidate = artifacts[b].candidate
      <4>1. CASE arts[b] = [artifacts[b] EXCEPT !.status = again]
        BY <3>2, <3>3, <4>1 DEF ArtifactRecord
      <4> QED BY <3>1, <3>3, <4>1
    <3> QED BY <3>1, <3>4 DEF ArtifactsOK, Dependent
  <2>3. UNCHANGED change
    BY <1>3 DEF DecideQuestion
  <2>4. Schedule(arts, current, offers, Resolve(questions, a), changes, done)
    BY <2>1
  <2> HIDE DEF arts
  <2> QED BY <2>2, <2>3, <2>4, ResolveOK, ScheduleOK
<1> QED BY <1>1, <1>2, <1>3 DEF Decide

-----------------------------------------------------------------------------
(* Types *)

\* Every run starts typed, with no change, no question and no approval.
LEMMA InitInductive == Init => Inductive
<1> SUFFICES ASSUME Init PROVE Inductive
  OBVIOUS
<1> USE PipelineAssumption DEF Init
<1>1. ArtifactsOK(artifacts)
  <2>1. PICK there \in SUBSET Dependent, first \in Content :
          LET Accepted(a) == IF a \in there \cup {Guide} THEN first ELSE None IN
          artifacts = [a \in Artifact |->
            [status    |-> IF a \in there \cup {Guide} THEN "ACCEPTED" ELSE "MISSING",
             accepted  |-> Accepted(a), candidate |-> None,
             derived   |-> [u \in Artifact |->
                              IF u \in Upstream[a] THEN Accepted(u) ELSE None],
             validator |-> NoEvidence, review |-> None, tries |-> 0,
             change    |-> None, recorded |-> FALSE]]
    OBVIOUS
  <2>2. ASSUME NEW a \in Artifact
        PROVE  artifacts[a] \in ArtifactRecord /\ artifacts[a].review = None
    <3> DEFINE accepted == IF a \in there \cup {Guide} THEN first ELSE None
               derived  == [u \in Artifact |->
                              IF u \in Upstream[a]
                                THEN IF u \in there \cup {Guide} THEN first ELSE None
                                ELSE None]
               status   == IF a \in there \cup {Guide} THEN "ACCEPTED" ELSE "MISSING"
    <3>1. artifacts[a] =
            [status |-> status, accepted |-> accepted, candidate |-> None, derived |-> derived,
             validator |-> NoEvidence, review |-> None, tries |-> 0,
             change |-> None, recorded |-> FALSE]
      BY <2>1
    <3>2. /\ accepted \in Maybe(Content) /\ derived \in [Artifact -> Maybe(Content)]
          /\ None \in Maybe(Content) /\ None \in Maybe(Change)
      BY DEF Maybe
    <3>3. /\ status \in Status /\ 0 \in 0 .. MaxAttempts
          /\ NoEvidence \in [verdict : {"NONE", "PASS", "FAIL", "INFRA"}, of : Maybe(Content)]
      BY DEF Status, NoEvidence, Maybe
    <3> HIDE DEF accepted, derived, status, Init
    <3> QED BY <3>1, <3>2, <3>3 DEF ArtifactRecord
  <2> QED BY <2>1, <2>2 DEF ArtifactsOK, Dependent
<1>2. OffersOK(offers) /\ questions \in Questions
  BY DEF OffersOK, Offers, Questions, NoOffer, NoQuestion, DecisionStatus, Maybe
<1>3. changes \in Changes /\ change \in Maybe(Change)
  BY DEF Changes, NoChange, Maybe
<1>4. TypeOK
  BY <1>1, <1>2, <1>3
     DEF TypeOK, ArtifactsOK, OffersOK, Offers, Questions, Changes, NotStopped, Maybe
<1> QED BY <1>1, <1>2, <1>4 DEF Inductive, StageOK, NotStopped

\* Every step keeps the invariant.
LEMMA NextInductive == Inductive /\ [Next]_vars => Inductive'
<1> SUFFICES ASSUME Inductive, [Next]_vars PROVE Inductive'
  OBVIOUS
<1>1. CASE Generate \/ ApplyPatch \/ RejectPatch
  BY <1>1, CandidatesKeepInductive
<1>2. CASE ValidationPasses \/ ValidationFails \/ ValidatorBreaks
  BY <1>2, ValidationKeepsInductive
<1>3. CASE ReviewApproves \/ ReviewRequiresPatch \/ Ask
  BY <1>3, ReviewKeepsInductive
<1>4. CASE InvalidOutcome \/ Recover
  BY <1>4, RetriesKeepInductive
<1>5. CASE Reschedule \/ CompleteTask \/ FinishProject
  BY <1>5, TasksKeepInductive
<1>6. CASE Detect \/ DetectAgain
  BY <1>6, DetectionKeepsInductive
<1>7. CASE AcceptRevision
  BY <1>7, AcceptanceKeepsInductive
<1>8. CASE BlockAffected
  BY <1>8, BlockingKeepsInductive
<1>9. CASE Decide
  BY <1>9, DecisionsKeepInductive
<1>10. CASE UNCHANGED vars
  BY <1>10 DEF vars, Inductive, TypeOK, ArtifactsOK, OffersOK, StageOK
<1> QED BY <1>1, <1>2, <1>3, <1>4, <1>5, <1>6, <1>7, <1>8, <1>9, <1>10 DEF Next, Step, Work

\* Every variable keeps to its set of values, whatever revisions, questions,
\* refusals and stops cross.
THEOREM TypesHold == Spec => []TypeOK
<1>1. Inductive => TypeOK
  BY DEF Inductive
<1> QED BY <1>1, InitInductive, NextInductive, PTL DEF Spec

-----------------------------------------------------------------------------
(* Acceptance *)

\* What changes of acceptance in a step is backed by evidence.
Backed(a) ==
  artifacts'[a].accepted # artifacts[a].accepted =>
    /\ a \in Validated => artifacts'[a].validator =
                            [verdict |-> "PASS", of |-> artifacts'[a].accepted]
    /\ a \in Reviewed => artifacts'[a].review = artifacts'[a].accepted
    /\ \A u \in Upstream[a] : /\ artifacts[u].status = "ACCEPTED"
                              /\ artifacts'[a].derived[u] = artifacts[u].accepted

\* Scheduling accepts nothing of its own.
LEMMA ScheduleAccepts ==
  ASSUME NEW arts, ArtifactsOK(arts), NEW artifact, NEW off, NEW ques, NEW chg, NEW finished,
         Schedule(arts, artifact, off, ques, chg, finished)
  PROVE  \A a \in Artifact : artifacts'[a].accepted = arts[a].accepted
BY ReconciledOK DEF Schedule

\* A promotion that is not refused is backed, and the reset of stale artifacts
\* which comes with it spares what has just been promoted.
LEMMA PromotionIsBacked ==
  ASSUME NEW arts, ArtifactsOK(arts), NEW a \in Dependent, NEW pending,
         ~Refused(arts, a, pending),
         \A u \in Artifact \ {a} : artifacts[u] = arts[u],
         artifacts' = Reconciled(Promoted(arts, a))
  PROVE  Backed(a)
<1> USE PipelineAssumption
<1> DEFINE new == Promoted(arts, a)
<1>1. /\ arts[a].candidate # None
      /\ a \in Reviewed => arts[a].review # None
      /\ a \in Validated => arts[a].validator = [verdict |-> "PASS", of |-> arts[a].candidate]
      /\ \A u \in Upstream[a] : arts[u].status = "ACCEPTED"
      /\ Upstream[a] # {} => arts[a].derived = Derivation(arts, a)
  BY DEF Refused, UpstreamAccepted
<1>2. /\ arts \in [Artifact -> ArtifactRecord] /\ a \in Artifact /\ Upstream[a] \subseteq Artifact
      /\ arts[a].review \in {None, arts[a].candidate}
  BY DEF ArtifactsOK, Dependent
<1>3. /\ \A u \in Artifact \ {a} : new[u] = arts[u]
      /\ new[a].accepted = arts[a].candidate /\ new[a].validator = arts[a].validator
      /\ new[a].review = arts[a].review /\ new[a].derived = arts[a].derived
  BY <1>2 DEF Promoted, ArtifactRecord
<1>4. Derivation(new, a) = Derivation(arts, a)
  BY <1>2, <1>3 DEF Derivation
<1>5. ~Stale(new, a)
  BY <1>1, <1>3, <1>4 DEF Stale
<1>6. artifacts'[a] = new[a]
  BY <1>2, <1>5 DEF Reconciled
<1>7. ASSUME NEW u \in Upstream[a]
      PROVE  /\ artifacts[u].status = "ACCEPTED"
             /\ artifacts'[a].derived[u] = artifacts[u].accepted
  <2>1. u \in Artifact \ {a}
    BY <1>2
  <2>2. artifacts[u] = arts[u] /\ arts[u].status = "ACCEPTED"
    BY <1>1, <2>1
  <2>3. arts[a].derived[u] = Revision(arts[u])
    BY <1>1, <2>1 DEF Derivation
  <2> QED BY <1>3, <1>6, <2>2, <2>3 DEF Revision
<1> QED BY <1>1, <1>2, <1>3, <1>6, <1>7 DEF Backed

\* Whatever prepares a promotion has changed the artifact alone, and accepts
\* it only with its evidence.
LEMMA PrepareIsBacked ==
  ASSUME Inductive, NEW arts, ArtifactsOK(arts), NEW b, Prepare(arts, b),
         \A u \in Artifact \ {b} : artifacts[u] = arts[u],
         b \in Artifact => arts[b].accepted = artifacts[b].accepted
  PROVE  \A a \in Dependent : Backed(a)
<1> USE PipelineAssumption
<1> DEFINE ready == [arts EXCEPT ![b].status = "PROMOTION_READY"]
<1>1. ArtifactsOK(ready)
  BY StatusOK DEF Status
<1>2. \A u \in Artifact : ready[u].accepted = artifacts[u].accepted
  BY DEF ArtifactsOK, ArtifactRecord
<1>3. \A u \in Artifact \ {b} : ready[u] = artifacts[u]
  BY DEF ArtifactsOK
<1>4. CASE ~Refused(ready, b, Decided) /\ b \notin Gated
  <2>1. Schedule(Promoted(ready, b), None, offers, questions, changes, done)
    BY <1>4 DEF Prepare
  <2>2. artifacts' = Reconciled(Promoted(ready, b))
    BY <2>1 DEF Schedule
  <2> HIDE DEF ready
  <2>3. ArtifactsOK(Promoted(ready, b))
    BY <1>1, PromotedOK
  <2>4. ASSUME NEW a \in Dependent, a = b PROVE Backed(a)
    BY <1>1, <1>3, <1>4, <2>2, <2>4, PromotionIsBacked
  <2>5. ASSUME NEW a \in Dependent, a # b PROVE Backed(a)
    <3>1. Promoted(ready, b)[a].accepted = artifacts[a].accepted
      BY <1>1, <1>3, <2>5 DEF Promoted, ArtifactsOK, Dependent
    <3> QED BY <2>1, <2>3, <3>1, ScheduleAccepts DEF Backed, Dependent
  <2> QED BY <2>4, <2>5
<1>5. CASE Refused(ready, b, Decided) \/ b \in Gated
  <2>1. \A a \in Artifact : artifacts'[a].accepted = ready[a].accepted
    <3>1. artifacts' = ready \/ artifacts' = Reconciled(ready)
      BY <1>5 DEF Prepare, Schedule
    <3> HIDE DEF ready
    <3> QED BY <1>1, <3>1, ReconciledOK
  <2> HIDE DEF ready
  <2> QED BY <1>2, <2>1 DEF Backed, Dependent
<1> QED BY <1>4, <1>5

\* A decision promotes on the same terms, or what is accepted already.
LEMMA DecisionIsBacked ==
  ASSUME Inductive, DecidePromotion
  PROVE  \A a \in Dependent : Backed(a)
<1> USE PipelineAssumption, Others
<1>1. PICK b \in Gated :
        /\ \/ CommittedAlready(b)
           \/ ~Refused(artifacts, b, Pending(Resolve(offers, b)) \cup Pending(questions))
        /\ Schedule(Promoted(artifacts, b), current, Resolve(offers, b),
                    questions, changes, done)
  BY DEF DecidePromotion
<1>2. artifacts' = Reconciled(Promoted(artifacts, b)) /\ ArtifactsOK(Promoted(artifacts, b))
  BY <1>1, PromotedOK DEF Schedule
<1>3. \A a \in Artifact : artifacts'[a].accepted = Promoted(artifacts, b)[a].accepted
  BY <1>2, ReconciledOK
<1>4. ASSUME NEW a \in Dependent, a # b PROVE Backed(a)
  <2>1. Promoted(artifacts, b)[a] = artifacts[a]
    BY <1>4 DEF Promoted, ArtifactsOK, Dependent
  <2> QED BY <1>3, <2>1 DEF Backed, Dependent
<1>5. CASE CommittedAlready(b)
  <2>1. Promoted(artifacts, b)[b].accepted = artifacts[b].accepted
    BY <1>5 DEF CommittedAlready, Promoted, ArtifactsOK, ArtifactRecord
  <2>2. Backed(b)
    BY <1>3, <2>1 DEF Backed
  <2> QED BY <1>4, <2>2
<1>6. CASE ~Refused(artifacts, b, Pending(Resolve(offers, b)) \cup Pending(questions))
  <2>1. b \in Dependent
    BY DEF Dependent
  <2>2. Backed(b)
    BY <1>2, <1>6, <2>1, PromotionIsBacked
  <2> QED BY <1>4, <2>2
<1> QED BY <1>1, <1>5, <1>6

\* What changes of one artifact besides what is accepted.
LEMMA ChangedElsewhere ==
  ASSUME NEW arts \in [Artifact -> ArtifactRecord], NEW a, NEW status, NEW review
  PROVE  /\ \A u \in Artifact : [arts EXCEPT ![a].status = status][u].accepted
                                 = arts[u].accepted
         /\ \A u \in Artifact : [arts EXCEPT ![a].status = status,
                                             ![a].review = review][u].accepted
                                 = arts[u].accepted
         /\ \A u \in Artifact \ {a} : arts[u] = [arts EXCEPT ![a].status = status,
                                                           ![a].review = review][u]
<1>1. ASSUME NEW u \in Artifact
      PROVE  /\ [arts EXCEPT ![a].status = status][u].accepted = arts[u].accepted
             /\ [arts EXCEPT ![a].status = status,
                             ![a].review = review][u].accepted = arts[u].accepted
  <2>1. arts[u] \in ArtifactRecord
    OBVIOUS
  <2> QED BY <2>1 DEF ArtifactRecord
<1> QED BY <1>1

LEMMA PassedKeepsAccepted ==
  ASSUME NEW arts \in [Artifact -> ArtifactRecord], NEW a, NEW evidence, NEW status
  PROVE  LET passed == [arts EXCEPT ![a].validator = evidence, ![a].tries = 0]
             new    == [passed EXCEPT ![a].status = status]
         IN /\ \A u \in Artifact \ {a} : new[u] = arts[u]
            /\ \A u \in Artifact : new[u].accepted = arts[u].accepted
<1> DEFINE passed == [arts EXCEPT ![a].validator = evidence, ![a].tries = 0]
           new    == [passed EXCEPT ![a].status = status]
<1>1. ASSUME NEW u \in Artifact
      PROVE  new[u].accepted = arts[u].accepted
  <2>1. arts[u] \in ArtifactRecord
    OBVIOUS
  <2>2. CASE u = a
    <3> DEFINE with == [[arts[a] EXCEPT !.validator = evidence] EXCEPT !.tries = 0]
    <3>1. new[a] = [with EXCEPT !.status = status]
      BY <2>2
    <3>2. [with EXCEPT !.status = status].accepted = arts[a].accepted
      BY <2>1, <2>2 DEF ArtifactRecord
    <3> QED BY <2>2, <3>1, <3>2
  <2>3. CASE u # a
    BY <2>3
  <2> QED BY <2>2, <2>3
<1>2. \A u \in Artifact \ {a} : new[u] = arts[u]
  OBVIOUS
<1> HIDE DEF passed, new
<1> QED BY <1>1, <1>2 DEF passed, new

LEMMA FailedKeepsAccepted ==
  ASSUME NEW arts \in [Artifact -> ArtifactRecord], NEW a, NEW evidence, NEW status,
         NEW tries
  PROVE  /\ \A u \in Artifact :
              [arts EXCEPT ![a].validator = evidence, ![a].status = status][u].accepted
              = arts[u].accepted
         /\ \A u \in Artifact :
              [arts EXCEPT ![a].validator = evidence, ![a].tries = tries][u].accepted
              = arts[u].accepted
<1>1. ASSUME NEW u \in Artifact
      PROVE  /\ [arts EXCEPT ![a].validator = evidence,
                             ![a].status = status][u].accepted = arts[u].accepted
             /\ [arts EXCEPT ![a].validator = evidence,
                             ![a].tries = tries][u].accepted = arts[u].accepted
  <2>1. arts[u] \in ArtifactRecord
    OBVIOUS
  <2> QED BY <2>1 DEF ArtifactRecord
<1> QED BY <1>1

\* Every step of the pipeline backs what it accepts.
LEMMA StepIsBacked ==
  ASSUME Inductive, Next
  PROVE  \A a \in Dependent : Backed(a)
<1> USE Others
<1>1. ASSUME NEW content \in Content, Adopt(content) PROVE \A a \in Dependent : Backed(a)
  <2>1. ASSUME NEW status \in Status
        PROVE  /\ ArtifactsOK(Candidate(content, status))
               /\ \A u \in Artifact \ {current} : artifacts[u] = Candidate(content, status)[u]
               /\ \A u \in Artifact :
                    Candidate(content, status)[u].accepted = artifacts[u].accepted
    <3>1. ArtifactsOK(Candidate(content, status))
      BY CandidateOK
    <3>2. \A u \in Artifact :
            Candidate(content, status)[u] =
              IF u = current
                THEN [artifacts[u] EXCEPT
                        !.status = status, !.candidate = content,
                        !.derived = Derivation(artifacts, u), !.change = change,
                        !.validator = NoEvidence, !.review = None]
                ELSE artifacts[u]
      BY DEF Candidate, ArtifactsOK
    <3>3. \A u \in Artifact : artifacts[u] \in ArtifactRecord
      BY DEF ArtifactsOK
    <3>4. \A u \in Artifact : Candidate(content, status)[u].accepted = artifacts[u].accepted
      BY <3>2, <3>3 DEF ArtifactRecord
    <3>5. \A u \in Artifact \ {current} : artifacts[u] = Candidate(content, status)[u]
      BY <3>2
    <3> QED BY <3>1, <3>4, <3>5
  <2>2. {"CANDIDATE", "REVIEW_REQUIRED", "APPROVED"} \subseteq Status
    BY DEF Status
  <2>3. CASE current \in Validated
    BY <1>1, <2>1, <2>2, <2>3 DEF Adopt, Backed, Dependent
  <2>4. CASE current \notin Validated /\ current \in Reviewed
    <3>1. Schedule(Candidate(content, "REVIEW_REQUIRED"), None, offers, questions, changes, done)
      BY <1>1, <2>4 DEF Adopt
    <3> QED BY <2>1, <2>2, <3>1, ScheduleAccepts DEF Backed, Dependent
  <2>5. CASE current \notin Validated /\ current \notin Reviewed
    <3>1. Prepare(Candidate(content, "APPROVED"), current)
      BY <1>1, <2>5 DEF Adopt
    <3> QED BY <2>1, <2>2, <3>1, PrepareIsBacked
  <2> QED BY <2>3, <2>4, <2>5
<1>2. CASE Generate \/ ApplyPatch
  BY <1>1, <1>2 DEF Generate, ApplyPatch
<1>3. CASE RejectPatch \/ ReviewRequiresPatch \/ Ask
  <2>1. PICK arts, ques :
          /\ Schedule(arts, None, offers, ques, changes, done)
          /\ ArtifactsOK(arts)
          /\ \A a \in Artifact : arts[a].accepted = artifacts[a].accepted
    <3>1. ASSUME NEW status \in Status
          PROVE  LET arts == [artifacts EXCEPT ![current].status = status] IN
                 ArtifactsOK(arts) /\ \A a \in Artifact : arts[a].accepted = artifacts[a].accepted
      <4> DEFINE arts == [artifacts EXCEPT ![current].status = status]
      <4>1. ArtifactsOK(arts)
        BY StatusOK
      <4>2. \A a \in Artifact : arts[a].accepted = artifacts[a].accepted
        <5>1. artifacts \in [Artifact -> ArtifactRecord]
          BY DEF ArtifactsOK
        <5> QED BY <5>1, ChangedElsewhere
      <4> HIDE DEF arts
      <4>3. ArtifactsOK(arts) /\ \A a \in Artifact : arts[a].accepted = artifacts[a].accepted
        BY <4>1, <4>2
      <4> QED BY <4>3 DEF arts
    <3>2. ASSUME NEW status \in Status
          PROVE  LET arts == [artifacts EXCEPT ![current].status = status,
                                               ![current].review = None] IN
                 ArtifactsOK(arts) /\ \A a \in Artifact : arts[a].accepted = artifacts[a].accepted
      <4> DEFINE arts == [artifacts EXCEPT ![current].status = status,
                                             ![current].review = None]
      <4>1. ArtifactsOK(arts)
        BY ReviewedOK
      <4>2. \A a \in Artifact : arts[a].accepted = artifacts[a].accepted
        <5>1. artifacts \in [Artifact -> ArtifactRecord]
          BY DEF ArtifactsOK
        <5> QED BY <5>1, ChangedElsewhere
      <4> HIDE DEF arts
      <4>3. ArtifactsOK(arts) /\ \A a \in Artifact : arts[a].accepted = artifacts[a].accepted
        BY <4>1, <4>2
      <4> QED BY <4>3 DEF arts
    <3>3. {"REVIEW_REQUIRED", "REQUIRES_PATCH", "BLOCKED"} \subseteq Status
      BY DEF Status
    <3>4. CASE RejectPatch
      <4> DEFINE again == [artifacts EXCEPT ![current].status = "REVIEW_REQUIRED"]
      <4>1. Schedule(again, None, offers, questions, changes, done)
        BY <3>4 DEF RejectPatch
      <4>2. /\ ArtifactsOK(again)
            /\ \A a \in Artifact : again[a].accepted = artifacts[a].accepted
        BY <3>1, <3>3
      <4> HIDE DEF again
      <4> QED BY <4>1, <4>2
    <3>5. CASE ReviewRequiresPatch
      <4> DEFINE again == [artifacts EXCEPT ![current].status = "REQUIRES_PATCH",
                                            ![current].review = None]
      <4>1. Schedule(again, None, offers, questions, changes, done)
        BY <3>5 DEF ReviewRequiresPatch
      <4>2. /\ ArtifactsOK(again)
            /\ \A a \in Artifact : again[a].accepted = artifacts[a].accepted
        BY <3>2, <3>3
      <4> HIDE DEF again
      <4> QED BY <4>1, <4>2
    <3>6. CASE Ask
      <4> DEFINE blocked == [artifacts EXCEPT ![current].status = "BLOCKED",
                                              ![current].review = None]
      <4>1. PICK ques : Schedule(blocked, None, offers, ques, changes, done)
        BY <3>6 DEF Ask
      <4>2. /\ ArtifactsOK(blocked)
            /\ \A a \in Artifact : blocked[a].accepted = artifacts[a].accepted
        BY <3>2, <3>3
      <4> HIDE DEF blocked
      <4> QED BY <4>1, <4>2
    <3> QED BY <1>3, <3>4, <3>5, <3>6
  <2> QED BY <2>1, ScheduleAccepts DEF Backed, Dependent
<1>4. CASE ReviewApproves
  <2> DEFINE arts == [artifacts EXCEPT ![current].status = "APPROVED",
                                       ![current].review = Record.candidate]
  <2>1. Prepare(arts, current)
    BY <1>4 DEF ReviewApproves
  <2>2. ArtifactsOK(arts)
    <3>1. CASE current \in Artifact
      BY <3>1, ReviewedOK DEF Status
    <3>2. CASE current \notin Artifact
      <4>1. arts = artifacts
        BY <3>2 DEF ArtifactsOK
      <4> QED BY <4>1
    <3> QED BY <3>1, <3>2
  <2>3. /\ \A u \in Artifact \ {current} : artifacts[u] = arts[u]
        /\ \A u \in Artifact : arts[u].accepted = artifacts[u].accepted
    <3>1. artifacts \in [Artifact -> ArtifactRecord]
      BY DEF ArtifactsOK
    <3> QED BY <3>1, ChangedElsewhere
  <2> HIDE DEF arts
  <2> QED BY <2>1, <2>2, <2>3, PrepareIsBacked
<1>5. CASE ValidationPasses
  <2> DEFINE passed == [artifacts EXCEPT ![current].validator = Validator("PASS"),
                                         ![current].tries = 0]
             arts   == [passed EXCEPT ![current].status = "APPROVED"]
  <2>1. /\ \A u \in Artifact \ {current} : artifacts[u] = arts[u]
        /\ \A u \in Artifact : arts[u].accepted = artifacts[u].accepted
    <3>1. artifacts \in [Artifact -> ArtifactRecord]
      BY DEF ArtifactsOK
    <3>2. /\ \A u \in Artifact \ {current} : arts[u] = artifacts[u]
          /\ \A u \in Artifact : arts[u].accepted = artifacts[u].accepted
      BY <3>1, PassedKeepsAccepted
    <3> HIDE DEF arts
    <3> QED BY <3>2
  <2>2. CASE current \in Reviewed
    <3>1. artifacts' = [passed EXCEPT ![current].status = "REVIEW_REQUIRED"]
      BY <1>5, <2>2 DEF ValidationPasses
    <3>2. artifacts \in [Artifact -> ArtifactRecord]
      BY DEF ArtifactsOK
    <3>3. \A u \in Artifact : artifacts'[u].accepted = artifacts[u].accepted
      BY <3>1, <3>2, PassedKeepsAccepted
    <3> QED BY <3>3 DEF Backed, Dependent
  <2>3. CASE current \notin Reviewed
    <3>1. Prepare(arts, current)
      BY <1>5, <2>3 DEF ValidationPasses
    <3>2. ArtifactsOK(arts)
      <4>1. "PASS" \in {"PASS", "FAIL", "INFRA"} /\ 0 \in 0 .. MaxAttempts
            /\ "APPROVED" \in Status
        BY PipelineAssumption DEF Status
      <4>2. passed = [[artifacts EXCEPT ![current].validator = Validator("PASS")]
                        EXCEPT ![current].tries = 0]
        OBVIOUS
      <4> HIDE DEF passed
      <4> QED BY <4>1, <4>2, VerdictOK
    <3> HIDE DEF passed, arts
    <3> QED BY <2>1, <3>1, <3>2, PrepareIsBacked
  <2> QED BY <2>2, <2>3
<1>6. CASE ValidationFails \/ ValidatorBreaks
  <2>1. artifacts \in [Artifact -> ArtifactRecord]
    BY DEF ArtifactsOK
  <2>2. ASSUME ValidationFails
        PROVE  \A u \in Artifact : artifacts'[u].accepted = artifacts[u].accepted
    BY <2>1, <2>2, FailedKeepsAccepted DEF ValidationFails
  <2>3. ASSUME ValidatorBreaks
        PROVE  \A u \in Artifact : artifacts'[u].accepted = artifacts[u].accepted
    BY <2>1, <2>3, FailedKeepsAccepted DEF ValidatorBreaks
  <2>4. \A u \in Artifact : artifacts'[u].accepted = artifacts[u].accepted
    BY <1>6, <2>2, <2>3
  <2> QED BY <2>4 DEF Backed, Dependent
<1>7. CASE InvalidOutcome \/ Recover \/ FinishProject \/ DetectAgain
  BY <1>7 DEF InvalidOutcome, Recover, FinishProject, DetectAgain, Backed
<1>8. CASE Reschedule \/ CompleteTask
  <2>1. PICK finished : Schedule(artifacts, current, offers, questions, changes, finished)
    BY <1>8 DEF Reschedule, CompleteTask
  <2> QED BY <2>1, ScheduleAccepts DEF Backed, Dependent
<1>9. CASE Detect
  <2>1. \A a \in Dependent : artifacts'[a] = artifacts[a]
    BY <1>9 DEF Detect, ArtifactsOK, Dependent
  <2> QED BY <2>1 DEF Backed
<1>10. CASE AcceptRevision
  <2>1. artifacts' \in {Rebased, Reconciled(Rebased)}
    BY <1>10 DEF AcceptRevision, Schedule
  <2> QED BY <2>1, RebasedOK, ReconciledOK DEF Backed, Dependent
<1>11. CASE BlockAffected
  <2>1. PICK affected \in SUBSET Dependent :
          artifacts' = [a \in Artifact |->
            IF a \in affected
              THEN [Reset(artifacts[a], "BLOCKED") EXCEPT !.change = change]
              ELSE artifacts[a]]
    BY <1>11 DEF BlockAffected
  <2>2. ASSUME NEW a \in Dependent
        PROVE  artifacts'[a].accepted = artifacts[a].accepted
    <3>1. artifacts[a] \in ArtifactRecord
      BY DEF ArtifactsOK, Dependent
    <3>2. artifacts'[a] \in {artifacts[a],
                            [Reset(artifacts[a], "BLOCKED") EXCEPT !.change = change]}
      BY <2>1 DEF Dependent
    <3> QED BY <3>1, <3>2 DEF Reset, ArtifactRecord
  <2> QED BY <2>2 DEF Backed
<1>12. CASE DecideGuide
  <2>1. artifacts' = Reconciled(Released(offers[Guide].change))
    BY <1>12 DEF DecideGuide, Schedule
  <2>2. offers[Guide].change \in Change
    BY <1>12 DEF DecideGuide, OffersOK
  <2> QED BY <2>1, <2>2, ReleasedOK, ReconciledOK DEF Backed, Dependent
<1>13. CASE DecidePromotion
  BY <1>13, DecisionIsBacked
<1>14. CASE DecideQuestion
  <2>1. PICK a, status :
          artifacts' = Reconciled([artifacts EXCEPT ![a].status = status])
    BY <1>14 DEF DecideQuestion, Schedule
  <2> DEFINE arts == [artifacts EXCEPT ![a].status = status]
  <2>2. ASSUME NEW b \in Artifact
        PROVE  artifacts'[b].accepted = artifacts[b].accepted
    <3>1. /\ artifacts \in [Artifact -> ArtifactRecord]
          /\ artifacts[b] \in ArtifactRecord
      BY DEF ArtifactsOK
    <3>2. arts[b] \in {artifacts[b], [artifacts[b] EXCEPT !.status = status]}
      BY <3>1
    <3>3. artifacts'[b] \in {arts[b], Reset(arts[b], "PENDING")}
      BY <2>1 DEF Reconciled
    <3> HIDE DEF arts
    <3>4. /\ arts[b].accepted = artifacts[b].accepted
          /\ Reset(arts[b], "PENDING").accepted = artifacts[b].accepted
      BY <3>1, <3>2 DEF Reset, ArtifactRecord
    <3> QED BY <3>3, <3>4
  <2> QED BY <2>2 DEF Backed, Dependent
<1> QED BY <1>2, <1>3, <1>4, <1>5, <1>6, <1>7, <1>8, <1>9, <1>10, <1>11, <1>12, <1>13, <1>14
        DEF Next, Step, Work, Decide

\* An artifact is accepted only in the bytes its validator passed and its
\* reviewer approved, derived from what its upstream has accepted.
THEOREM OnlyCheckedArtifactsAreAccepted == Spec => AcceptsWhatWasChecked
<1>1. Inductive /\ [Next]_vars => [\A a \in Dependent : Backed(a)]_vars
  BY StepIsBacked
<1>2. [][\A a \in Dependent : Backed(a)]_vars <=> AcceptsWhatWasChecked
  BY PTL DEF Backed, AcceptsWhatWasChecked
<1> QED BY <1>1, <1>2, InitInductive, NextInductive, PTL DEF Spec

-----------------------------------------------------------------------------
(* The chain of derivations *)

\* A candidate on its way to acceptance.
Candidacy == {"CANDIDATE", "REVIEW_REQUIRED", "REQUIRES_PATCH", "PROMOTION_READY"}

\* What counts on the revisions it is derived from: a candidate, what has been
\* accepted, and what a question has stopped in between.
Held(record) ==
  \/ record.status \in Candidacy \cup {"ACCEPTED"}
  \/ record.status = "BLOCKED" /\ record.candidate # None

\* A dependent artifact has a candidate where its status says so, and is
\* derived from nothing but its upstream.
Fits(arts, a) ==
  /\ arts[a].status \notin {"APPROVED", "SUPERSEDED"}
  /\ arts[a].status \in {"MISSING", "PENDING"} => arts[a].candidate = None
  /\ arts[a].status \in Candidacy => arts[a].candidate # None
  /\ \A u \in Artifact \ Upstream[a] : arts[a].derived[u] = None

GuideThere(arts) == arts[Guide].status \in {"ACCEPTED", "PROMOTION_READY"}

\* What is held is derived from what its upstream has accepted.
Chained(arts) ==
  /\ GuideThere(arts)
  /\ \A a \in Dependent :
       /\ Fits(arts, a)
       /\ Held(arts[a]) => \A u \in Upstream[a] : arts[a].derived[u] = arts[u].accepted

\* The same where something has been accepted that makes others stale, which
\* are not reset yet.
Linked(arts) ==
  /\ GuideThere(arts)
  /\ \A a \in Dependent :
       /\ Fits(arts, a)
       /\ Held(arts[a]) => \A u \in Upstream[a] :
            arts[u].status = "ACCEPTED" \/ arts[a].derived[u] = arts[u].accepted

\* What is accepted is derived from the revisions its upstream is at.
Fresh(arts) ==
  \A a \in Dependent : arts[a].status = "ACCEPTED" => arts[a].derived = Derivation(arts, a)

\* Upstream of an artifact nothing but the guide waits for its promotion.
Quiet(arts, a) ==
  /\ a # Guide
  /\ \A u \in Upstream[a] \ {Guide} : arts[u].status # "PROMOTION_READY"

\* The stage, or the one that recovery returns to.
Place == IF stage = "HARD_STOP" THEN stopped.stage ELSE stage

Worked == {"ARTIFACT_VALIDATION", "ARTIFACT_REVIEW", "ARTIFACT_PATCH"}
Verified == {"TASK_EXECUTION", "FINAL_VERIFICATION", "COMPLETED"}

Matches(place, status) ==
  /\ place = "ARTIFACT_VALIDATION" => status = "CANDIDATE"
  /\ place = "ARTIFACT_REVIEW"     => status = "REVIEW_REQUIRED"
  /\ place = "ARTIFACT_PATCH"      => status = "REQUIRES_PATCH"

\* A stage of artifacts can take the revisions of the upstream for accepted.
Settled(place, a, arts) ==
  /\ Matches(place, arts[a].status)
  /\ Quiet(arts, a)
  /\ place \in Worked \cup {"ARTIFACT_GENERATION"} /\ Guide \in Upstream[a] =>
       arts[Guide].status = "ACCEPTED"

Placed(place, a, arts) ==
  /\ place \in Verified => Fresh(arts)
  /\ place \in Worked => a # None
  /\ a # None => Settled(place, a, arts)

\* The invariant: between two steps the chain is whole, and the stage may
\* count on it.
ChainOK == Chained(artifacts) /\ Placed(Place, current, artifacts)

-----------------------------------------------------------------------------
(* The reset of stale artifacts mends the chain *)

\* What the reset does to one artifact.
LEMMA ReconciledRecord ==
  ASSUME NEW arts, ArtifactsOK(arts), NEW a \in Artifact
  PROVE  /\ Reconciled(arts)[a].accepted = arts[a].accepted
         /\ Reconciled(arts)[a].derived = arts[a].derived
         /\ ~Stale(arts, a) => Reconciled(arts)[a] = arts[a]
         /\ Stale(arts, a) => /\ Reconciled(arts)[a].status = "PENDING"
                              /\ Reconciled(arts)[a].candidate = None
<1>1. arts[a] \in ArtifactRecord
  BY DEF ArtifactsOK
<1>2. CASE Stale(arts, a)
  <2>1. Reconciled(arts)[a] = Reset(arts[a], "PENDING")
    BY <1>2 DEF Reconciled
  <2> QED BY <1>1, <1>2, <2>1 DEF Reset, ArtifactRecord
<1>3. CASE ~Stale(arts, a)
  BY <1>3 DEF Reconciled
<1> QED BY <1>2, <1>3

\* The guide is derived from nothing: the reset leaves it alone.
LEMMA GuideNeverStale ==
  ASSUME NEW arts
  PROVE  Reconciled(arts)[Guide] = arts[Guide]
BY PipelineAssumption DEF Reconciled, Stale

\* Every upstream of what is held and not stale is at what it has accepted.
LEMMA HeldIsDerived ==
  ASSUME NEW arts, ArtifactsOK(arts), Linked(arts), NEW a \in Dependent, NEW u \in Upstream[a],
         ~Stale(arts, a), Held(arts[a])
  PROVE  arts[a].derived[u] = arts[u].accepted
<1> USE PipelineAssumption
<1>1. a \in Artifact /\ u \in Artifact
  BY DEF Dependent
<1>2. CASE arts[u].status = "ACCEPTED"
  <2>1. arts[a].status \notin {"MISSING", "PENDING", "SUPERSEDED"}
    BY DEF Held, Candidacy
  <2>2. arts[a].derived = Derivation(arts, a)
    BY <2>1 DEF Stale
  <2>3. Derivation(arts, a)[u] = arts[u].accepted
    BY <1>1, <1>2 DEF Derivation, Revision
  <2> QED BY <2>2, <2>3
<1>3. CASE arts[u].status # "ACCEPTED"
  BY <1>3 DEF Linked
<1> QED BY <1>2, <1>3

\* After the reset the chain is whole.
LEMMA ReconciledChains ==
  ASSUME NEW arts, ArtifactsOK(arts), Linked(arts)
  PROVE  Chained(Reconciled(arts))
<1> DEFINE settled == Reconciled(arts)
<1>1. GuideThere(settled)
  BY GuideNeverStale DEF GuideThere, Linked
<1>2. ASSUME NEW a \in Dependent
      PROVE  /\ Fits(settled, a)
             /\ Held(settled[a]) =>
                  \A u \in Upstream[a] : settled[a].derived[u] = settled[u].accepted
  <2>1. a \in Artifact /\ Upstream[a] \subseteq Artifact
    BY PipelineAssumption DEF Dependent
  <2>2. \A u \in Artifact : settled[u].accepted = arts[u].accepted
    BY ReconciledRecord
  <2>3. Fits(arts, a)
    BY DEF Linked
  <2>4. CASE Stale(arts, a)
    <3>1. /\ settled[a].status = "PENDING" /\ settled[a].candidate = None
          /\ settled[a].derived = arts[a].derived
      BY <2>1, <2>4, ReconciledRecord
    <3> HIDE DEF settled
    <3>2. ~Held(settled[a])
      BY <3>1 DEF Held, Candidacy
    <3> QED BY <2>3, <3>1, <3>2 DEF Fits, Candidacy
  <2>5. CASE ~Stale(arts, a)
    <3>1. settled[a] = arts[a]
      BY <2>1, <2>5, ReconciledRecord
    <3> HIDE DEF settled
    <3>2. Held(arts[a]) => \A u \in Upstream[a] : arts[a].derived[u] = arts[u].accepted
      BY <2>5, HeldIsDerived
    <3> QED BY <2>1, <2>2, <2>3, <3>1, <3>2 DEF Fits
  <2> QED BY <2>4, <2>5
<1> HIDE DEF settled
<1>3. Chained(settled)
  BY <1>1, <1>2 DEF Chained
<1> QED BY <1>3 DEF settled

\* After the reset what is accepted is derived from the revisions of now.
LEMMA ReconciledFresh ==
  ASSUME NEW arts, ArtifactsOK(arts), Linked(arts)
  PROVE  Fresh(Reconciled(arts))
<1> DEFINE settled == Reconciled(arts)
<1>1. SUFFICES ASSUME NEW a \in Dependent, settled[a].status = "ACCEPTED"
               PROVE  settled[a].derived = Derivation(settled, a)
  BY DEF Fresh
<1>2. a \in Artifact /\ Upstream[a] \subseteq Artifact
  BY PipelineAssumption DEF Dependent
<1>3. ~Stale(arts, a) /\ settled[a] = arts[a]
  BY <1>1, <1>2, ReconciledRecord
<1>4. /\ arts[a].derived \in [Artifact -> Maybe(Content)]
      /\ \A u \in Artifact \ Upstream[a] : arts[a].derived[u] = None
  BY <1>2 DEF ArtifactsOK, ArtifactRecord, Linked, Fits
<1>5. ASSUME NEW u \in Upstream[a]
      PROVE  arts[a].derived[u] = Revision(settled[u])
  <2>1. Held(arts[a])
    BY <1>1, <1>3 DEF Held
  <2>2. arts[a].derived[u] = arts[u].accepted
    BY <1>3, <2>1, HeldIsDerived
  <2>3. CASE Stale(arts, u)
    <3>1. settled[u].accepted = arts[u].accepted /\ settled[u].status = "PENDING"
      BY <1>2, <2>3, ReconciledRecord
    <3> HIDE DEF settled
    <3> QED BY <2>2, <3>1 DEF Revision
  <2>4. CASE ~Stale(arts, u)
    <3>1. settled[u] = arts[u]
      BY <1>2, <2>4, ReconciledRecord
    <3>2. arts[a].derived = Derivation(arts, a)
      BY <1>1, <1>3 DEF Stale
    <3>3. Derivation(arts, a)[u] = Revision(arts[u])
      BY <1>2 DEF Derivation
    <3> QED BY <3>1, <3>2, <3>3
  <2> QED BY <2>3, <2>4
<1> HIDE DEF settled
<1>6. arts[a].derived = Derivation(settled, a)
  BY <1>4, <1>5 DEF Derivation
<1> QED BY <1>3, <1>6

\* Scheduling ends in a state where the chain is whole and the stage chosen
\* may count on it.
LEMMA ScheduleChains ==
  ASSUME NEW arts, ArtifactsOK(arts), Linked(arts), NEW artifact \in Maybe(Artifact),
         artifact # None => Quiet(arts, artifact),
         NEW off, NEW ques, NEW chg, NEW finished,
         Schedule(arts, artifact, off, ques, chg, finished)
  PROVE  ChainOK'
<1> DEFINE settled == Reconciled(arts)
           offered == Withdrawn(arts, off)
           asked   == Withdrawn(arts, ques)
           kept    == finished \ Hit(chg)
           chosen  == Selected(settled, offered, asked, chg, kept)
<1>1. Chained(settled) /\ Fresh(settled) /\ GuideThere(settled)
  BY ReconciledChains, ReconciledFresh DEF Chained
<1>2. /\ artifacts' = settled /\ stage' = chosen
      /\ current' = IF Runnable(settled) # {} THEN First(Runnable(settled)) ELSE artifact
      /\ stage' = "HARD_STOP" => stopped'.stage = "NONE"
  BY DEF Schedule
<1>3. artifact # None => artifact \in Artifact /\ artifact # Guide
        /\ \A u \in Upstream[artifact] \ {Guide} : settled[u].status # "PROMOTION_READY"
  <2>1. SUFFICES ASSUME artifact # None, NEW u \in Upstream[artifact] \ {Guide}
                 PROVE  settled[u].status # "PROMOTION_READY"
    BY DEF Maybe, Quiet
  <2>2. u \in Artifact /\ arts[u].status # "PROMOTION_READY"
    BY <2>1, PipelineAssumption DEF Maybe, Quiet
  <2> QED BY <2>2, ReconciledRecord
<1> HIDE DEF settled, offered, asked, kept
<1>4. CASE Runnable(settled) # {}
  <2> DEFINE a == First(Runnable(settled))
  <2>1. a \in Runnable(settled)
    BY <1>4, FirstIsMember DEF Runnable
  <2>2. chosen = StageOf(settled[a])
    BY <1>4 DEF Selected
  <2> HIDE DEF a
  <2>3. /\ a \in Artifact
        /\ settled[a].status \in {"MISSING", "PENDING", "CANDIDATE", "REVIEW_REQUIRED",
                                  "REQUIRES_PATCH"}
        /\ \A u \in Upstream[a] : settled[u].status = "ACCEPTED"
    BY <2>1 DEF Runnable, UpstreamAccepted
  <2>4. a # Guide /\ a # None
    BY <1>1, <2>3, PipelineAssumption DEF GuideThere
  <2>5. /\ chosen \in {"ARTIFACT_GENERATION", "ARTIFACT_REVIEW", "ARTIFACT_PATCH"}
        /\ Matches(chosen, settled[a].status)
    BY <2>2, <2>3 DEF StageOf, Matches
  <2> HIDE DEF chosen
  <2>6. Settled(chosen, a, settled)
    BY <2>3, <2>4, <2>5 DEF Settled, Quiet
  <2>7. Placed(chosen, a, settled)
    BY <2>4, <2>5, <2>6 DEF Placed, Verified
  <2>8. current' = a /\ Place' = chosen
    BY <1>2, <1>4, <2>5 DEF Place, a
  <2> QED BY <1>1, <1>2, <2>7, <2>8 DEF ChainOK
<1>5. CASE Runnable(settled) = {}
  <2>1. /\ chosen \in {"TASK_EXECUTION", "ARTIFACT_GENERATION", "FINAL_VERIFICATION",
                       "HARD_STOP"} \cup Waiting
        /\ chosen = "ARTIFACT_GENERATION" => settled[Guide].status # "PROMOTION_READY"
    BY <1>5 DEF Selected, Waiting
  <2> HIDE DEF chosen
  <2>2. \/ Place' = "NONE"
        \/ Place' \in Verified \cup Waiting
        \/ Place' = "ARTIFACT_GENERATION" /\ settled[Guide].status = "ACCEPTED"
    BY <1>1, <1>2, <2>1 DEF Place, Verified, GuideThere
  <2>3. PICK place : place = Place'
    OBVIOUS
  <2>4. place \notin Worked
    BY <2>2, <2>3 DEF Worked, Verified, Waiting
  <2>5. artifact # None => Settled(place, artifact, settled)
    BY <1>3, <2>2, <2>3, <2>4 DEF Settled, Quiet, Matches, Worked, Verified, Waiting
  <2>6. Placed(place, artifact, settled)
    BY <1>1, <2>4, <2>5 DEF Placed
  <2> QED BY <1>1, <1>2, <1>5, <2>3, <2>6 DEF ChainOK
<1> QED BY <1>4, <1>5

LEMMA ChainedIsLinked ==
  ASSUME NEW arts, Chained(arts)
  PROVE  Linked(arts)
BY DEF Chained, Linked

-----------------------------------------------------------------------------
(* Steps on one artifact *)

\* A chain in which one artifact changes stays whole, when what it is
\* accepted in does not change and its new record fits.
LEMMA ChangeChains ==
  ASSUME NEW arts, Chained(arts), NEW a \in Dependent, NEW new,
         \A b \in Artifact \ {a} : new[b] = arts[b],
         new[a].accepted = arts[a].accepted,
         Fits(new, a),
         Held(new[a]) => \A u \in Upstream[a] : new[a].derived[u] = arts[u].accepted
  PROVE  Chained(new)
<1> USE PipelineAssumption
<1>1. GuideThere(new)
  BY DEF Chained, GuideThere, Dependent
<1>2. \A u \in Artifact : new[u].accepted = arts[u].accepted
  OBVIOUS
<1>3. ASSUME NEW b \in Dependent
      PROVE  /\ Fits(new, b)
             /\ Held(new[b]) => \A u \in Upstream[b] : new[b].derived[u] = new[u].accepted
  <2>1. b \in Artifact /\ Upstream[b] \subseteq Artifact
    BY DEF Dependent
  <2>2. CASE b = a
    BY <1>2, <2>1, <2>2
  <2>3. CASE b # a
    <3>1. new[b] = arts[b]
      BY <2>1, <2>3
    <3> QED BY <1>2, <2>1, <3>1 DEF Chained, Fits
  <2> QED BY <2>2, <2>3
<1> QED BY <1>1, <1>3 DEF Chained

\* A candidate that moves on keeps what it is derived from.
LEMMA MoveChains ==
  ASSUME NEW arts, Chained(arts), NEW a \in Dependent, Held(arts[a]), arts[a].candidate # None,
         NEW new, \A b \in Artifact \ {a} : new[b] = arts[b],
         new[a].status \in Candidacy \cup {"BLOCKED"},
         new[a].accepted = arts[a].accepted,
         new[a].candidate = arts[a].candidate,
         new[a].derived = arts[a].derived
  PROVE  Chained(new)
<1>1. Fits(new, a)
  BY DEF Chained, Fits, Candidacy
<1>2. \A u \in Upstream[a] : new[a].derived[u] = arts[u].accepted
  BY DEF Chained
<1> QED BY <1>1, <1>2, ChangeChains

\* The stages that work on a candidate have one, of an artifact that is held.
LEMMA WorkedHasCandidate ==
  ASSUME Inductive, ChainOK, stage \in Worked
  PROVE  /\ current \in Dependent /\ current \in Artifact /\ current # None
         /\ Matches(stage, Record.status) /\ Record.status \in Candidacy
         /\ Held(Record) /\ Record.candidate # None
         /\ Quiet(artifacts, current)
         /\ Guide \in Upstream[current] => artifacts[Guide].status = "ACCEPTED"
<1>1. Place = stage /\ current # None
  BY DEF ChainOK, Place, Placed, Worked
<1>2. current \in Artifact
  BY <1>1, Others DEF Maybe
<1>3. Settled(stage, current, artifacts)
  BY <1>1 DEF ChainOK, Placed
<1>4. current \in Dependent
  BY <1>2, <1>3 DEF Settled, Quiet, Dependent
<1>5. Record.status \in Candidacy
  BY <1>3 DEF Settled, Matches, Record, Worked, Candidacy
<1>6. Held(Record)
  BY <1>5 DEF Held
<1>7. Record.candidate # None
  BY <1>4, <1>5 DEF ChainOK, Chained, Fits, Record
<1> QED BY <1>1, <1>2, <1>3, <1>4, <1>5, <1>6, <1>7 DEF Settled, Record

\* Promotion links what depends on the artifact to its new revision.
LEMMA PromotedLinks ==
  ASSUME NEW arts, ArtifactsOK(arts), Chained(arts), NEW a \in Dependent, Held(arts[a])
  PROVE  Linked(Promoted(arts, a))
<1> USE PipelineAssumption
<1> DEFINE new == Promoted(arts, a)
<1>1. a \in Artifact /\ arts[a] \in ArtifactRecord
  BY DEF Dependent, ArtifactsOK
<1>2. new[a] = [arts[a] EXCEPT !.status = "ACCEPTED", !.accepted = arts[a].candidate,
                               !.recorded = TRUE]
  BY <1>1 DEF Promoted, ArtifactsOK
<1>3. \A b \in Artifact \ {a} : new[b] = arts[b]
  BY DEF Promoted, ArtifactsOK
<1>4. new[a].status = "ACCEPTED" /\ new[a].derived = arts[a].derived
  <2> HIDE DEF new
  <2> QED BY <1>1, <1>2 DEF ArtifactRecord
<1> HIDE DEF new
<1>5. GuideThere(new)
  BY <1>3 DEF Chained, GuideThere, Dependent
<1>6. ASSUME NEW b \in Dependent
      PROVE  /\ Fits(new, b)
             /\ Held(new[b]) => \A u \in Upstream[b] :
                  new[u].status = "ACCEPTED" \/ new[b].derived[u] = new[u].accepted
  <2>1. b \in Artifact /\ Upstream[b] \subseteq Artifact /\ b \notin Upstream[b]
    BY DEF Dependent
  <2>2. CASE b = a
    <3>1. Fits(new, a)
      BY <1>4 DEF Chained, Fits, Candidacy
    <3>2. \A u \in Upstream[a] : new[a].derived[u] = new[u].accepted
      BY <1>3, <1>4, <2>1, <2>2 DEF Chained
    <3> QED BY <2>2, <3>1, <3>2
  <2>3. CASE b # a
    <3>1. new[b] = arts[b]
      BY <1>3, <2>1, <2>3
    <3>2. Fits(new, b)
      BY <3>1 DEF Chained, Fits
    <3>3. Held(new[b]) => \A u \in Upstream[b] : new[b].derived[u] = arts[u].accepted
      BY <3>1 DEF Chained
    <3> QED BY <1>3, <1>4, <2>1, <3>2, <3>3
  <2> QED BY <2>2, <2>3
<1>7. Linked(new)
  BY <1>5, <1>6 DEF Linked
<1> QED BY <1>7 DEF new

\* The promotion of a candidate, or the decision about it, keeps the chain.
LEMMA PrepareChains ==
  ASSUME Inductive, NEW arts, ArtifactsOK(arts), NEW a \in Dependent,
         Chained([arts EXCEPT ![a].status = "PROMOTION_READY"]),
         Prepare(arts, a)
  PROVE  ChainOK'
<1> DEFINE ready == [arts EXCEPT ![a].status = "PROMOTION_READY"]
<1>1. ArtifactsOK(ready)
  BY StatusOK DEF Status
<1>2. Chained(ready) /\ Linked(ready)
  BY ChainedIsLinked
<1>3. Held(ready[a])
  <2>1. a \in Artifact /\ arts[a] \in ArtifactRecord /\ arts \in [Artifact -> ArtifactRecord]
    BY DEF Dependent, ArtifactsOK
  <2>2. ready[a].status = "PROMOTION_READY"
    BY <2>1 DEF ArtifactRecord
  <2> QED BY <2>2 DEF Held, Candidacy
<1>4. None \in Maybe(Artifact)
  BY DEF Maybe
<1>5. CASE Refused(ready, a, Decided)
  <2>1. artifacts' = ready /\ stage' = "READY" /\ current' = None
    BY <1>5 DEF Prepare
  <2>2. Place' = "READY"
    BY <2>1 DEF Place
  <2>3. PICK place : place = Place'
    OBVIOUS
  <2> HIDE DEF ready
  <2>4. Placed(place, None, ready)
    BY <2>2, <2>3 DEF Placed, Verified, Worked
  <2> QED BY <1>2, <2>1, <2>3, <2>4 DEF ChainOK
<1>6. CASE ~Refused(ready, a, Decided) /\ a \in Gated
  <2>1. PICK off : Schedule(ready, None, off, questions, changes, done)
    BY <1>6 DEF Prepare
  <2> HIDE DEF ready
  <2> QED BY <1>1, <1>2, <1>4, <2>1, ScheduleChains
<1>7. CASE ~Refused(ready, a, Decided) /\ a \notin Gated
  <2>1. Schedule(Promoted(ready, a), None, offers, questions, changes, done)
    BY <1>7 DEF Prepare
  <2> HIDE DEF ready
  <2>2. ArtifactsOK(Promoted(ready, a)) /\ Linked(Promoted(ready, a))
    BY <1>1, <1>2, <1>3, PromotedOK, PromotedLinks
  <2> QED BY <1>4, <2>1, <2>2, ScheduleChains
<1> QED BY <1>5, <1>6, <1>7

-----------------------------------------------------------------------------
(* The steps of artifact stages keep the chain *)

\* What a new candidate is derived from is what its upstream has accepted:
\* the stage is reached when no revision of the upstream waits, and left when
\* one of the guide comes in.
LEMMA DerivesFromAccepted ==
  ASSUME Inductive, ChainOK, stage \in {"ARTIFACT_GENERATION", "ARTIFACT_PATCH"},
         current # None, NEW u \in Upstream[current]
  PROVE  Derivation(artifacts, current)[u] = artifacts[u].accepted
<1> USE PipelineAssumption
<1>1. current \in Artifact /\ u \in Artifact
  BY Others DEF Maybe
<1>2. Settled(stage, current, artifacts)
  BY DEF ChainOK, Placed, Place
<1>3. CASE u = Guide
  <2>1. artifacts[Guide].status = "ACCEPTED"
    BY <1>2, <1>3 DEF Settled, Worked
  <2> QED BY <1>1, <1>3, <2>1 DEF Derivation, Revision
<1>4. CASE u # Guide
  <2>1. artifacts[u].status # "PROMOTION_READY"
    BY <1>2, <1>4 DEF Settled, Quiet
  <2>2. artifacts[u].status # "APPROVED"
    BY <1>1, <1>4 DEF ChainOK, Chained, Fits, Dependent
  <2> QED BY <1>1, <2>1, <2>2 DEF Derivation, Revision
<1> QED BY <1>3, <1>4

\* The fields of a new candidate.
LEMMA CandidateRecord ==
  ASSUME Inductive, current \in Artifact, NEW content, NEW status
  PROVE  LET new == Candidate(content, status) IN
         /\ \A b \in Artifact \ {current} : new[b] = artifacts[b]
         /\ new[current].status = status
         /\ new[current].candidate = content
         /\ new[current].accepted = artifacts[current].accepted
         /\ new[current].derived = Derivation(artifacts, current)
<1> USE Others
<1> DEFINE new == Candidate(content, status)
<1>1. \A b \in Artifact \ {current} : new[b] = artifacts[b]
  BY DEF Candidate, ArtifactsOK
<1>2. new[current] = [artifacts[current] EXCEPT
        !.status = status, !.candidate = content, !.derived = Derivation(artifacts, current),
        !.change = change, !.validator = NoEvidence, !.review = None]
  BY DEF Candidate, ArtifactsOK
<1>3. artifacts[current] \in ArtifactRecord
  BY DEF ArtifactsOK
<1> HIDE DEF new
<1>4. /\ new[current].status = status
      /\ new[current].candidate = content
      /\ new[current].accepted = artifacts[current].accepted
      /\ new[current].derived = Derivation(artifacts, current)
  BY <1>2, <1>3 DEF ArtifactRecord
<1> QED BY <1>1, <1>4 DEF new

\* A chain with a new candidate in it is whole.
LEMMA CandidateChains ==
  ASSUME Inductive, ChainOK, stage \in {"ARTIFACT_GENERATION", "ARTIFACT_PATCH"},
         current # None, NEW content \in Content, NEW status \in Candidacy,
         NEW new, \A b \in Artifact \ {current} : new[b] = artifacts[b],
         new[current].status = status,
         new[current].candidate = content,
         new[current].accepted = artifacts[current].accepted,
         new[current].derived = Derivation(artifacts, current)
  PROVE  Chained(new)
<1> USE PipelineAssumption
<1>1. current \in Dependent /\ current \in Artifact
  BY Others DEF ChainOK, Placed, Settled, Quiet, Dependent, Maybe
<1>2. content # None
  OBVIOUS
<1>3. \A u \in Artifact \ Upstream[current] : new[current].derived[u] = None
  BY DEF Derivation
<1>4. Fits(new, current)
  BY <1>2, <1>3 DEF Fits, Candidacy
<1>5. \A u \in Upstream[current] : new[current].derived[u] = artifacts[u].accepted
  BY DerivesFromAccepted
<1>6. Chained(artifacts)
  BY DEF ChainOK
<1> QED BY <1>1, <1>4, <1>5, <1>6, ChangeChains

LEMMA AdoptChains ==
  ASSUME Inductive, ChainOK, stage \in {"ARTIFACT_GENERATION", "ARTIFACT_PATCH"},
         current # None, NEW content \in Content, Adopt(content)
  PROVE  ChainOK'
<1> USE PipelineAssumption
<1>1. current \in Dependent /\ current \in Artifact
  BY Others DEF ChainOK, Placed, Settled, Quiet, Dependent, Maybe
<1>2. ASSUME NEW status \in Candidacy
      PROVE  Chained(Candidate(content, status))
  <2> DEFINE new == Candidate(content, status)
  <2>1. /\ \A b \in Artifact \ {current} : new[b] = artifacts[b]
        /\ new[current].status = status
        /\ new[current].candidate = content
        /\ new[current].accepted = artifacts[current].accepted
        /\ new[current].derived = Derivation(artifacts, current)
    BY <1>1, CandidateRecord
  <2> HIDE DEF new
  <2>2. Chained(new)
    BY <2>1, CandidateChains
  <2> QED BY <2>2 DEF new
<1>3. CASE current \in Validated
  <2> DEFINE new == Candidate(content, "CANDIDATE")
  <2>1. artifacts' = new /\ stage' = "ARTIFACT_VALIDATION" /\ UNCHANGED current
    BY <1>3 DEF Adopt
  <2>2. /\ \A b \in Artifact \ {current} : new[b] = artifacts[b]
        /\ new[current].status = "CANDIDATE"
    BY <1>1, CandidateRecord
  <2>3. Chained(new)
    BY <1>2 DEF Candidacy
  <2> HIDE DEF new
  <2>4. Settled(stage, current, artifacts) /\ stage \in Worked \cup {"ARTIFACT_GENERATION"}
    BY DEF ChainOK, Placed, Place, Worked
  <2>5. Settled("ARTIFACT_VALIDATION", current, new)
    BY <1>1, <2>2, <2>4 DEF Settled, Matches, Quiet, Dependent
  <2>6. Placed("ARTIFACT_VALIDATION", current, new)
    BY <2>5 DEF Placed, Verified
  <2>7. Place' = "ARTIFACT_VALIDATION"
    BY <2>1 DEF Place
  <2> QED BY <2>1, <2>3, <2>6, <2>7 DEF ChainOK
<1>4. CASE current \notin Validated /\ current \in Reviewed
  <2> DEFINE new == Candidate(content, "REVIEW_REQUIRED")
  <2>1. Schedule(new, None, offers, questions, changes, done)
    BY <1>4 DEF Adopt
  <2>2. ArtifactsOK(new)
    BY CandidateOK DEF Status
  <2>3. Linked(new)
    BY <1>2, ChainedIsLinked DEF Candidacy
  <2> HIDE DEF new
  <2> QED BY <2>1, <2>2, <2>3, ScheduleChains DEF Maybe
<1>5. CASE current \notin Validated /\ current \notin Reviewed
  <2> DEFINE new   == Candidate(content, "APPROVED")
             ready == [new EXCEPT ![current].status = "PROMOTION_READY"]
  <2>1. Prepare(new, current)
    BY <1>5 DEF Adopt
  <2>2. ArtifactsOK(new)
    BY CandidateOK DEF Status
  <2>3. /\ \A b \in Artifact \ {current} : new[b] = artifacts[b]
        /\ new[current].candidate = content
        /\ new[current].accepted = artifacts[current].accepted
        /\ new[current].derived = Derivation(artifacts, current)
    BY <1>1, CandidateRecord
  <2> HIDE DEF new
  <2>4. new \in [Artifact -> ArtifactRecord] /\ new[current] \in ArtifactRecord
    BY <1>1, <2>2 DEF ArtifactsOK
  <2>5. /\ \A b \in Artifact \ {current} : ready[b] = artifacts[b]
        /\ ready[current] = [new[current] EXCEPT !.status = "PROMOTION_READY"]
    BY <1>1, <2>3, <2>4
  <2> HIDE DEF ready
  <2>6. /\ ready[current].status = "PROMOTION_READY"
        /\ ready[current].candidate = content
        /\ ready[current].accepted = artifacts[current].accepted
        /\ ready[current].derived = Derivation(artifacts, current)
    BY <2>3, <2>4, <2>5 DEF ArtifactRecord
  <2>7. Chained(ready)
    BY <2>5, <2>6, CandidateChains DEF Candidacy
  <2> QED BY <1>1, <2>1, <2>2, <2>7, PrepareChains DEF ready
<1> QED BY <1>3, <1>4, <1>5

\* The fields that a change of status or of evidence leaves alone.
LEMMA StatusRecord ==
  ASSUME NEW arts, ArtifactsOK(arts), NEW a \in Artifact, NEW status
  PROVE  LET new == [arts EXCEPT ![a].status = status] IN
         /\ \A b \in Artifact \ {a} : new[b] = arts[b]
         /\ new[a].status = status
         /\ new[a].accepted = arts[a].accepted
         /\ new[a].candidate = arts[a].candidate
         /\ new[a].derived = arts[a].derived
<1> DEFINE new == [arts EXCEPT ![a].status = status]
<1>1. arts[a] \in ArtifactRecord /\ arts \in [Artifact -> ArtifactRecord]
  BY DEF ArtifactsOK
<1>2. /\ \A b \in Artifact \ {a} : new[b] = arts[b]
      /\ new[a] = [arts[a] EXCEPT !.status = status]
  BY <1>1
<1> HIDE DEF new
<1>3. /\ new[a].status = status
      /\ new[a].accepted = arts[a].accepted
      /\ new[a].candidate = arts[a].candidate
      /\ new[a].derived = arts[a].derived
  BY <1>1, <1>2 DEF ArtifactRecord
<1> QED BY <1>2, <1>3 DEF new

LEMMA CandidateStepsChain ==
  ASSUME Inductive, ChainOK, Generate \/ ApplyPatch \/ RejectPatch
  PROVE  ChainOK'
<1>1. CASE Generate
  BY <1>1, AdoptChains DEF Generate, At
<1>2. CASE ApplyPatch
  <2>1. stage = "ARTIFACT_PATCH" /\ \E content \in Content : Adopt(content)
    BY <1>2 DEF ApplyPatch, At
  <2>2. current # None
    BY <2>1, WorkedHasCandidate DEF Worked
  <2> QED BY <2>1, <2>2, AdoptChains
<1>3. CASE RejectPatch
  <2> DEFINE new == [artifacts EXCEPT ![current].status = "REVIEW_REQUIRED"]
  <2>1. /\ stage = "ARTIFACT_PATCH"
        /\ Schedule(new, None, offers, questions, changes, done)
    BY <1>3 DEF RejectPatch, At
  <2>2. /\ current \in Dependent /\ current \in Artifact
        /\ Held(artifacts[current]) /\ artifacts[current].candidate # None
    BY <2>1, WorkedHasCandidate DEF Worked, Record
  <2>3. ArtifactsOK(artifacts) /\ ArtifactsOK(new)
    BY Others, StatusOK DEF Status
  <2>4. /\ \A b \in Artifact \ {current} : new[b] = artifacts[b]
        /\ new[current].status = "REVIEW_REQUIRED"
        /\ new[current].accepted = artifacts[current].accepted
        /\ new[current].candidate = artifacts[current].candidate
        /\ new[current].derived = artifacts[current].derived
    BY <2>2, <2>3, StatusRecord
  <2> HIDE DEF new
  <2>5. Linked(new)
    <3>1. Chained(artifacts)
      BY DEF ChainOK
    <3> QED BY <2>2, <2>4, <3>1, MoveChains, ChainedIsLinked DEF Candidacy
  <2> QED BY <2>1, <2>3, <2>5, ScheduleChains DEF Maybe
<1> QED BY <1>1, <1>2, <1>3

LEMMA ValidationChains ==
  ASSUME Inductive, ChainOK, ValidationPasses \/ ValidationFails \/ ValidatorBreaks
  PROVE  ChainOK'
<1>1. stage = "ARTIFACT_VALIDATION"
  BY DEF ValidationPasses, ValidationFails, ValidatorBreaks, At
<1>2. /\ current \in Dependent /\ current \in Artifact /\ current # None
      /\ Matches(stage, artifacts[current].status)
      /\ Held(artifacts[current]) /\ artifacts[current].candidate # None
      /\ Quiet(artifacts, current)
      /\ Guide \in Upstream[current] => artifacts[Guide].status = "ACCEPTED"
  BY <1>1, WorkedHasCandidate DEF Worked, Record
<1>3. ArtifactsOK(artifacts) /\ artifacts[current] \in ArtifactRecord
      /\ artifacts \in [Artifact -> ArtifactRecord] /\ Chained(artifacts)
  BY <1>2, Others DEF ArtifactsOK, ChainOK
\* Records that differ in the evidence and the status of the current artifact.
<1>4. ASSUME NEW new, NEW status \in Candidacy,
             \A b \in Artifact \ {current} : new[b] = artifacts[b],
             new[current].status = status,
             new[current].accepted = artifacts[current].accepted,
             new[current].candidate = artifacts[current].candidate,
             new[current].derived = artifacts[current].derived
      PROVE  /\ Chained(new)
             /\ \A place \in Worked : Matches(place, status) => Placed(place, current, new)
  <2>1. Chained(new)
    BY <1>2, <1>3, <1>4, MoveChains
  <2>2. ASSUME NEW place \in Worked, Matches(place, status)
        PROVE  Placed(place, current, new)
    <3>1. current \notin Upstream[current] /\ Upstream[current] \subseteq Artifact
          /\ Guide \in Artifact
      BY <1>2, PipelineAssumption
    <3>2. \A u \in Upstream[current] : new[u] = artifacts[u]
      BY <1>4, <3>1
    <3>3. Settled(place, current, new)
      BY <1>2, <1>4, <2>2, <3>2 DEF Settled, Quiet
    <3> QED BY <1>2, <2>2, <3>3 DEF Placed, Worked, Verified
  <2> QED BY <2>1, <2>2
<1>5. CASE ValidationPasses
  <2> DEFINE passed == [artifacts EXCEPT ![current].validator = Validator("PASS"),
                                         ![current].tries = 0]
  <2>1. ArtifactsOK(passed)
    <3>1. "PASS" \in {"PASS", "FAIL", "INFRA"} /\ 0 \in 0 .. MaxAttempts
          /\ "APPROVED" \in Status
      BY PipelineAssumption DEF Status
    <3>2. passed = [[artifacts EXCEPT ![current].validator = Validator("PASS")]
                      EXCEPT ![current].tries = 0]
      OBVIOUS
    <3> HIDE DEF passed
    <3> QED BY <3>1, <3>2, VerdictOK
  <2>2. /\ \A b \in Artifact \ {current} : passed[b] = artifacts[b]
        /\ passed[current].status = artifacts[current].status
        /\ passed[current].accepted = artifacts[current].accepted
        /\ passed[current].candidate = artifacts[current].candidate
        /\ passed[current].derived = artifacts[current].derived
    <3>1. /\ \A b \in Artifact \ {current} : passed[b] = artifacts[b]
          /\ passed[current] = [artifacts[current] EXCEPT !.validator = Validator("PASS"),
                                                          !.tries = 0]
      BY <1>2, <1>3
    <3> HIDE DEF passed
    <3> QED BY <1>3, <3>1 DEF ArtifactRecord
  <2> HIDE DEF passed
  <2>3. CASE current \in Reviewed
    <3> DEFINE new == [passed EXCEPT ![current].status = "REVIEW_REQUIRED"]
    <3>1. artifacts' = new /\ stage' = "ARTIFACT_REVIEW" /\ UNCHANGED current
      BY <1>5, <2>3 DEF ValidationPasses, passed
    <3>2. /\ \A b \in Artifact \ {current} : new[b] = passed[b]
          /\ new[current].status = "REVIEW_REQUIRED"
          /\ new[current].accepted = passed[current].accepted
          /\ new[current].candidate = passed[current].candidate
          /\ new[current].derived = passed[current].derived
      BY <1>2, <2>1, StatusRecord
    <3> HIDE DEF new
    <3>3. /\ Chained(new)
          /\ \A place \in Worked : Matches(place, "REVIEW_REQUIRED") =>
               Placed(place, current, new)
      BY <1>4, <2>2, <3>2 DEF Candidacy
    <3>4. Placed("ARTIFACT_REVIEW", current, new)
      BY <3>3 DEF Worked, Matches
    <3>5. Place' = "ARTIFACT_REVIEW"
      BY <3>1 DEF Place
    <3> QED BY <3>1, <3>3, <3>4, <3>5 DEF ChainOK
  <2>4. CASE current \notin Reviewed
    <3> DEFINE new   == [passed EXCEPT ![current].status = "APPROVED"]
               ready == [new EXCEPT ![current].status = "PROMOTION_READY"]
    <3>1. Prepare(new, current)
      BY <1>5, <2>4 DEF ValidationPasses, passed
    <3>2. ArtifactsOK(new)
      BY <2>1, StatusOK DEF Status
    <3>3. /\ \A b \in Artifact \ {current} : new[b] = passed[b]
          /\ new[current].accepted = passed[current].accepted
          /\ new[current].candidate = passed[current].candidate
          /\ new[current].derived = passed[current].derived
      BY <1>2, <2>1, StatusRecord
    <3> HIDE DEF new
    <3>4. /\ \A b \in Artifact \ {current} : ready[b] = new[b]
          /\ ready[current].status = "PROMOTION_READY"
          /\ ready[current].accepted = new[current].accepted
          /\ ready[current].candidate = new[current].candidate
          /\ ready[current].derived = new[current].derived
      BY <1>2, <3>2, StatusRecord
    <3> HIDE DEF ready
    <3>5. Chained(ready)
      BY <1>4, <2>2, <3>3, <3>4 DEF Candidacy
    <3> QED BY <1>2, <3>1, <3>2, <3>5, PrepareChains DEF ready
  <2> QED BY <2>3, <2>4
<1>6. CASE ValidationFails
  <2>1. /\ artifacts' = [artifacts EXCEPT ![current].validator = Validator("FAIL"),
                                          ![current].status = "REQUIRES_PATCH"]
        /\ stage' = "ARTIFACT_PATCH" /\ UNCHANGED current
    BY <1>6 DEF ValidationFails
  <2>2. PICK new : new = artifacts'
    OBVIOUS
  <2>3. /\ \A b \in Artifact \ {current} : new[b] = artifacts[b]
        /\ new[current] = [artifacts[current] EXCEPT !.validator = Validator("FAIL"),
                                                     !.status = "REQUIRES_PATCH"]
    BY <1>2, <1>3, <2>1, <2>2
  <2>4. /\ new[current].status = "REQUIRES_PATCH"
        /\ new[current].accepted = artifacts[current].accepted
        /\ new[current].candidate = artifacts[current].candidate
        /\ new[current].derived = artifacts[current].derived
    BY <1>3, <2>3 DEF ArtifactRecord
  <2>5. /\ Chained(new)
        /\ \A place \in Worked : Matches(place, "REQUIRES_PATCH") =>
             Placed(place, current, new)
    BY <1>4, <2>3, <2>4 DEF Candidacy
  <2>6. Placed("ARTIFACT_PATCH", current, new)
    BY <2>5 DEF Worked, Matches
  <2>7. Place' = "ARTIFACT_PATCH"
    BY <2>1 DEF Place
  <2> QED BY <2>1, <2>2, <2>5, <2>6, <2>7 DEF ChainOK
<1>7. CASE ValidatorBreaks
  <2> DEFINE tries == IF Record.tries < MaxAttempts THEN Record.tries + 1 ELSE MaxAttempts
  <2>1. /\ artifacts' = [artifacts EXCEPT ![current].validator = Validator("INFRA"),
                                          ![current].tries = tries]
        /\ \/ stage' = "HARD_STOP" /\ stopped'.stage = stage
           \/ UNCHANGED stage
        /\ UNCHANGED current
    BY <1>7 DEF ValidatorBreaks
  <2> HIDE DEF tries
  <2>2. PICK new : new = artifacts'
    OBVIOUS
  <2>3. /\ \A b \in Artifact \ {current} : new[b] = artifacts[b]
        /\ new[current] = [artifacts[current] EXCEPT !.validator = Validator("INFRA"),
                                                     !.tries = tries]
    BY <1>2, <1>3, <2>1, <2>2
  <2>4. artifacts[current].status = "CANDIDATE"
    BY <1>1, <1>2 DEF Matches
  <2>5. /\ new[current].status = "CANDIDATE"
        /\ new[current].accepted = artifacts[current].accepted
        /\ new[current].candidate = artifacts[current].candidate
        /\ new[current].derived = artifacts[current].derived
    BY <1>3, <2>3, <2>4 DEF ArtifactRecord
  <2>6. /\ Chained(new)
        /\ \A place \in Worked : Matches(place, "CANDIDATE") => Placed(place, current, new)
    BY <1>4, <2>3, <2>5 DEF Candidacy
  <2>7. Placed("ARTIFACT_VALIDATION", current, new)
    BY <2>6 DEF Worked, Matches
  <2>8. Place' = "ARTIFACT_VALIDATION"
    BY <1>1, <2>1 DEF Place
  <2> QED BY <2>1, <2>2, <2>6, <2>7, <2>8 DEF ChainOK
<1> QED BY <1>5, <1>6, <1>7

LEMMA ReviewChains ==
  ASSUME Inductive, ChainOK, ReviewApproves \/ ReviewRequiresPatch \/ Ask
  PROVE  ChainOK'
<1>1. stage \in Worked
  BY DEF ReviewApproves, ReviewRequiresPatch, Ask, At, Worked
<1>2. /\ current \in Dependent /\ current \in Artifact
      /\ Held(artifacts[current]) /\ artifacts[current].candidate # None
  BY <1>1, WorkedHasCandidate DEF Record
<1>3. /\ ArtifactsOK(artifacts) /\ artifacts[current] \in ArtifactRecord
      /\ Chained(artifacts) /\ None \in Maybe(Artifact)
  BY <1>2, Others DEF ChainOK, ArtifactsOK
<1>4. CASE ReviewApproves
  <2> DEFINE new   == [artifacts EXCEPT ![current].status = "APPROVED",
                                        ![current].review = Record.candidate]
             ready == [new EXCEPT ![current].status = "PROMOTION_READY"]
  <2>1. Prepare(new, current)
    BY <1>4 DEF ReviewApproves
  <2>2. ArtifactsOK(new)
    BY <1>2, ReviewedOK DEF Status
  <2>3. /\ \A b \in Artifact \ {current} : new[b] = artifacts[b]
        /\ new[current] = [artifacts[current] EXCEPT !.status = "APPROVED",
                                                     !.review = Record.candidate]
    BY <1>2, <1>3 DEF ArtifactsOK
  <2> HIDE DEF new
  <2>4. /\ \A b \in Artifact \ {current} : new[b] = artifacts[b]
        /\ new[current].accepted = artifacts[current].accepted
        /\ new[current].candidate = artifacts[current].candidate
        /\ new[current].derived = artifacts[current].derived
    BY <1>3, <2>3 DEF ArtifactRecord
  <2>5. /\ \A b \in Artifact \ {current} : ready[b] = new[b]
        /\ ready[current].status = "PROMOTION_READY"
        /\ ready[current].accepted = new[current].accepted
        /\ ready[current].candidate = new[current].candidate
        /\ ready[current].derived = new[current].derived
    BY <1>2, <2>2, StatusRecord
  <2> HIDE DEF ready
  <2>6. Chained(ready)
    BY <1>2, <1>3, <2>4, <2>5, MoveChains DEF Candidacy
  <2> QED BY <1>2, <2>1, <2>2, <2>6, PrepareChains DEF ready
<1>5. ASSUME NEW status \in {"REQUIRES_PATCH", "BLOCKED"}, NEW ques,
             Schedule([artifacts EXCEPT ![current].status = status,
                                        ![current].review = None],
                      None, offers, ques, changes, done)
      PROVE  ChainOK'
  <2> DEFINE new == [artifacts EXCEPT ![current].status = status, ![current].review = None]
  <2>1. ArtifactsOK(new)
    BY <1>2, ReviewedOK DEF Status
  <2>2. Schedule(new, None, offers, ques, changes, done)
    BY <1>5
  <2>3. /\ \A b \in Artifact \ {current} : new[b] = artifacts[b]
        /\ new[current] = [artifacts[current] EXCEPT !.status = status, !.review = None]
    BY <1>2, <1>3 DEF ArtifactsOK
  <2> HIDE DEF new
  <2>4. /\ \A b \in Artifact \ {current} : new[b] = artifacts[b]
        /\ new[current].status = status
        /\ new[current].accepted = artifacts[current].accepted
        /\ new[current].candidate = artifacts[current].candidate
        /\ new[current].derived = artifacts[current].derived
    BY <1>3, <2>3 DEF ArtifactRecord
  <2>5. Chained(new)
    BY <1>2, <1>3, <2>4, MoveChains DEF Candidacy
  <2> QED BY <1>3, <2>1, <2>2, <2>5, ChainedIsLinked, ScheduleChains
<1>6. CASE ReviewRequiresPatch
  BY <1>5, <1>6 DEF ReviewRequiresPatch
<1>7. CASE Ask
  <2>1. PICK ques : Schedule([artifacts EXCEPT ![current].status = "BLOCKED",
                                               ![current].review = None],
                             None, offers, ques, changes, done)
    BY <1>7 DEF Ask
  <2> QED BY <1>5, <2>1
<1> QED BY <1>4, <1>6, <1>7

\* Refused outcomes, recovery and work on the tasks change no artifact, and
\* leave the stage or schedule anew.
LEMMA OtherWorkChains ==
  ASSUME Inductive, ChainOK,
         InvalidOutcome \/ Recover \/ Reschedule \/ CompleteTask \/ FinishProject
  PROVE  ChainOK'
<1>1. CASE InvalidOutcome
  <2>1. /\ UNCHANGED <<artifacts, current>> /\ stage # "HARD_STOP"
        /\ \/ stage' = "HARD_STOP" /\ stopped'.stage = stage
           \/ UNCHANGED stage
    BY <1>1 DEF InvalidOutcome, At, AgentStages
  <2>2. Place' = Place
    BY <2>1 DEF Place
  <2> QED BY <2>1, <2>2 DEF ChainOK
<1>2. CASE Recover
  <2>1. /\ UNCHANGED <<artifacts, current>> /\ stage = "HARD_STOP" /\ stage' = stopped.stage
        /\ stopped.code \in {"RETRY_EXHAUSTED", "PROJECT_VALIDATOR_EXECUTION_FAILED"}
    BY <1>2 DEF Recover
  <2>2. stopped.stage # "HARD_STOP"
    BY <2>1 DEF Inductive, TypeOK, AgentStages
  <2>3. Place' = Place
    BY <2>1, <2>2 DEF Place
  <2> QED BY <2>1, <2>3 DEF ChainOK
<1>3. CASE Reschedule \/ CompleteTask
  <2>1. PICK finished : Schedule(artifacts, current, offers, questions, changes, finished)
    BY <1>3 DEF Reschedule, CompleteTask
  <2>2. /\ ArtifactsOK(artifacts) /\ Linked(artifacts) /\ current \in Maybe(Artifact)
        /\ current # None => Quiet(artifacts, current)
    BY Others, ChainedIsLinked DEF ChainOK, Placed, Settled
  <2> QED BY <2>1, <2>2, ScheduleChains
<1>4. CASE FinishProject
  <2>1. /\ UNCHANGED <<artifacts, current>> /\ stage = "FINAL_VERIFICATION"
        /\ stage' = "COMPLETED"
    BY <1>4 DEF FinishProject, At
  <2>2. Chained(artifacts) /\ Placed("FINAL_VERIFICATION", current, artifacts)
    BY <2>1 DEF ChainOK, Place
  <2>3. Placed("COMPLETED", current, artifacts)
    BY <2>2 DEF Placed, Settled, Verified, Worked, Matches
  <2>4. Place' = "COMPLETED"
    BY <2>1 DEF Place
  <2> QED BY <2>1, <2>2, <2>3, <2>4 DEF ChainOK
<1> QED BY <1>1, <1>2, <1>3, <1>4

-----------------------------------------------------------------------------
(* Revisions of the guide keep the chain *)

\* A revision that comes in is a candidate of the guide: nothing is derived
\* from it, and the stage that might have been is left.
LEMMA DetectionChains ==
  ASSUME Inductive, ChainOK, Detect \/ DetectAgain
  PROVE  ChainOK'
<1> USE PipelineAssumption
<1>1. /\ stage' = "AUTHORITY_CHANGE_ANALYSIS" /\ UNCHANGED current
      /\ Place' = "AUTHORITY_CHANGE_ANALYSIS"
  BY DEF Detect, DetectAgain, Place
<1>2. PICK new : new = artifacts'
  OBVIOUS
<1>3. /\ \A b \in Dependent : new[b] = artifacts[b]
      /\ new[Guide].accepted = artifacts[Guide].accepted
      /\ new[Guide].status \in {artifacts[Guide].status, "PROMOTION_READY"}
  <2>1. CASE Detect
    <3>1. PICK content, c :
            artifacts' = [artifacts EXCEPT ![Guide].status = "PROMOTION_READY",
                                           ![Guide].candidate = content,
                                           ![Guide].change = c]
      BY <2>1 DEF Detect
    <3>2. artifacts \in [Artifact -> ArtifactRecord] /\ artifacts[Guide] \in ArtifactRecord
      BY Others DEF ArtifactsOK
    <3>3. /\ \A b \in Dependent : new[b] = artifacts[b]
          /\ new[Guide] = [artifacts[Guide] EXCEPT !.status = "PROMOTION_READY",
                                                   !.candidate = content, !.change = c]
      BY <1>2, <3>1, <3>2 DEF Dependent
    <3> QED BY <3>2, <3>3 DEF ArtifactRecord
  <2>2. CASE DetectAgain
    BY <1>2, <2>2 DEF DetectAgain
  <2> QED BY <2>1, <2>2
<1>4. \A u \in Artifact : new[u].accepted = artifacts[u].accepted
  BY <1>3 DEF Dependent
<1>5. Chained(new)
  <2>1. GuideThere(new)
    BY <1>3 DEF ChainOK, Chained, GuideThere
  <2>2. ASSUME NEW b \in Dependent
        PROVE  /\ Fits(new, b)
               /\ Held(new[b]) => \A u \in Upstream[b] : new[b].derived[u] = new[u].accepted
    <3>1. new[b] = artifacts[b] /\ Upstream[b] \subseteq Artifact
      BY <1>3 DEF Dependent
    <3> QED BY <1>4, <3>1 DEF ChainOK, Chained, Fits
  <2> QED BY <2>1, <2>2 DEF Chained
<1>6. Placed("AUTHORITY_CHANGE_ANALYSIS", current, new)
  <2>1. ASSUME current # None
        PROVE  Quiet(artifacts, current) /\ Upstream[current] \subseteq Artifact
    BY <2>1, Others DEF ChainOK, Placed, Settled, Maybe
  <2>2. current # None => Quiet(new, current)
    BY <1>3, <2>1 DEF Quiet, Dependent
  <2> QED BY <2>2 DEF Placed, Settled, Matches, Verified, Worked
<1> QED BY <1>1, <1>2, <1>5, <1>6 DEF ChainOK

\* What the rebase does to each artifact.
LEMMA RebasedFields ==
  ASSUME Inductive
  PROVE  /\ Rebased[Guide].status = "ACCEPTED"
         /\ Rebased[Guide].accepted = artifacts[Guide].candidate
         /\ \A a \in Dependent :
              /\ Rebased[a].status = artifacts[a].status
              /\ Rebased[a].candidate = artifacts[a].candidate
              /\ Rebased[a].accepted = artifacts[a].accepted
              /\ \A u \in Artifact \ {Guide} : Rebased[a].derived[u] = artifacts[a].derived[u]
              /\ Guide \in Upstream[a] /\ artifacts[a].derived[Guide] = artifacts[Guide].accepted
                   => Rebased[a].derived[Guide] = artifacts[Guide].candidate
              /\ Guide \notin Upstream[a] =>
                   Rebased[a].derived[Guide] = artifacts[a].derived[Guide]
<1> USE PipelineAssumption
<1>1. \A a \in Artifact : artifacts[a] \in ArtifactRecord
  BY Others DEF ArtifactsOK
<1>2. Rebased[Guide].status = "ACCEPTED" /\ Rebased[Guide].accepted = artifacts[Guide].candidate
  <2>1. Rebased[Guide] = [artifacts[Guide] EXCEPT !.status = "ACCEPTED",
                            !.accepted = artifacts[Guide].candidate, !.candidate = None]
    BY DEF Rebased
  <2> QED BY <1>1, <2>1 DEF ArtifactRecord
<1>3. ASSUME NEW a \in Dependent
      PROVE  /\ Rebased[a].status = artifacts[a].status
             /\ Rebased[a].candidate = artifacts[a].candidate
             /\ Rebased[a].accepted = artifacts[a].accepted
             /\ \A u \in Artifact \ {Guide} : Rebased[a].derived[u] = artifacts[a].derived[u]
             /\ Guide \in Upstream[a] /\ artifacts[a].derived[Guide] = artifacts[Guide].accepted
                  => Rebased[a].derived[Guide] = artifacts[Guide].candidate
             /\ Guide \notin Upstream[a] =>
                  Rebased[a].derived[Guide] = artifacts[a].derived[Guide]
  <2> DEFINE content == artifacts[Guide].candidate
  <2>1. artifacts[a] \in ArtifactRecord /\ artifacts[a].derived \in [Artifact -> Maybe(Content)]
    BY <1>1 DEF Dependent, ArtifactRecord
  <2>2. CASE Guide \in Upstream[a] /\ artifacts[a].derived[Guide] = artifacts[Guide].accepted
    <3>1. Rebased[a] = [artifacts[a] EXCEPT !.derived[Guide] = content]
      BY <2>2 DEF Rebased, Dependent
    <3> HIDE DEF content
    <3>2. /\ Rebased[a].status = artifacts[a].status
          /\ Rebased[a].candidate = artifacts[a].candidate
          /\ Rebased[a].accepted = artifacts[a].accepted
          /\ Rebased[a].derived = [artifacts[a].derived EXCEPT ![Guide] = content]
      BY <2>1, <3>1 DEF ArtifactRecord
    <3>3. /\ \A u \in Artifact \ {Guide} : Rebased[a].derived[u] = artifacts[a].derived[u]
          /\ Rebased[a].derived[Guide] = content
      BY <2>1, <3>2
    <3> QED BY <2>2, <3>2, <3>3 DEF content
  <2>3. CASE ~(Guide \in Upstream[a] /\ artifacts[a].derived[Guide] = artifacts[Guide].accepted)
    <3>1. Rebased[a] = artifacts[a]
      BY <2>3 DEF Rebased, Dependent
    <3> QED BY <2>3, <3>1
  <2> QED BY <2>2, <2>3
<1> QED BY <1>2, <1>3

\* A revision that changes no meaning is accepted together with what was
\* derived from the last one.
LEMMA RebasedChains ==
  ASSUME Inductive, Chained(artifacts)
  PROVE  Chained(Rebased)
<1> USE PipelineAssumption
<1>1. PICK new : new = Rebased
  OBVIOUS
<1>2. GuideThere(new)
  BY <1>1, RebasedFields DEF GuideThere
<1>3. ASSUME NEW a \in Dependent
      PROVE  /\ Fits(new, a)
             /\ Held(new[a]) => \A u \in Upstream[a] : new[a].derived[u] = new[u].accepted
  <2>1. /\ new[a].status = artifacts[a].status
        /\ new[a].candidate = artifacts[a].candidate
        /\ \A u \in Artifact \ {Guide} : new[a].derived[u] = artifacts[a].derived[u]
        /\ Guide \in Upstream[a] /\ artifacts[a].derived[Guide] = artifacts[Guide].accepted
             => new[a].derived[Guide] = new[Guide].accepted
        /\ Guide \notin Upstream[a] => new[a].derived[Guide] = artifacts[a].derived[Guide]
    BY <1>1, RebasedFields
  <2>2. Upstream[a] \subseteq Artifact
    BY DEF Dependent
  <2>3. Fits(artifacts, a)
    BY DEF Chained
  <2>4. \A u \in Artifact \ Upstream[a] : new[a].derived[u] = None
    BY <2>1, <2>3 DEF Fits
  <2>5. Fits(new, a)
    BY <2>1, <2>3, <2>4 DEF Fits
  <2>6. ASSUME Held(new[a]), NEW u \in Upstream[a]
        PROVE  new[a].derived[u] = new[u].accepted
    <3>1. Held(artifacts[a])
      BY <2>1, <2>6 DEF Held
    <3>2. artifacts[a].derived[u] = artifacts[u].accepted
      BY <3>1 DEF Chained
    <3>3. CASE u = Guide
      BY <2>1, <3>2, <3>3
    <3>4. CASE u # Guide
      <4>1. new[u].accepted = artifacts[u].accepted
        BY <1>1, <2>2, <3>4, RebasedFields DEF Dependent
      <4> QED BY <2>1, <2>2, <3>2, <3>4, <4>1
    <3> QED BY <3>3, <3>4
  <2> QED BY <2>5, <2>6
<1>4. Chained(new)
  BY <1>2, <1>3 DEF Chained
<1> QED BY <1>1, <1>4

\* The interrupted stage is resumed on a candidate whose chain still holds.
LEMMA AcceptanceChains ==
  ASSUME Inductive, ChainOK, AcceptRevision
  PROVE  ChainOK'
<1> USE PipelineAssumption
<1>1. Chained(Rebased) /\ ArtifactsOK(Rebased) /\ None \in Maybe(Artifact)
  BY RebasedChains, RebasedOK, Others DEF ChainOK
<1>2. CASE Interrupted
  <2>1. /\ artifacts' = Rebased /\ stage' = ResumedStage(artifacts[current])
        /\ UNCHANGED current
    BY <1>2 DEF AcceptRevision
  <2>2. /\ current # None /\ current \in Artifact
        /\ artifacts[current].status \in {"CANDIDATE", "REVIEW_REQUIRED", "REQUIRES_PATCH"}
    BY <1>2, Others DEF Interrupted, Maybe
  <2>3. Quiet(artifacts, current)
    BY <2>2 DEF ChainOK, Placed, Settled
  <2>4. current \in Dependent
    BY <2>2, <2>3 DEF Quiet, Dependent
  <2>5. PICK place : place = ResumedStage(artifacts[current])
    OBVIOUS
  <2>6. place \in Worked /\ Matches(place, artifacts[current].status)
    BY <2>2, <2>5 DEF ResumedStage, StageOf, Worked, Matches
  <2>7. PICK new : new = Rebased
    OBVIOUS
  <2>8. /\ new[Guide].status = "ACCEPTED"
        /\ \A a \in Dependent : new[a].status = artifacts[a].status
    BY <2>7, RebasedFields
  <2>9. Settled(place, current, new)
    <3>1. Upstream[current] \subseteq Artifact
      BY <2>2
    <3> QED BY <2>3, <2>4, <2>6, <2>8, <3>1 DEF Settled, Quiet, Dependent
  <2>10. Placed(place, current, new)
    BY <2>2, <2>6, <2>9 DEF Placed, Worked, Verified
  <2>11. Place' = place
    BY <2>1, <2>5, <2>6 DEF Place, Worked
  <2> QED BY <1>1, <2>1, <2>7, <2>10, <2>11 DEF ChainOK
<1>3. CASE ~Interrupted
  <2>1. PICK chg : Schedule(Rebased, None, offers, questions, chg, done)
    BY <1>3 DEF AcceptRevision
  <2> QED BY <1>1, <2>1, ChainedIsLinked, ScheduleChains
<1> QED BY <1>2, <1>3

\* What a semantic revision blocks counts on nothing.
LEMMA BlockingChains ==
  ASSUME Inductive, ChainOK, BlockAffected
  PROVE  ChainOK'
<1> USE PipelineAssumption
<1>1. stage' = "WAITING_FOR_HUMAN" /\ UNCHANGED current
  BY DEF BlockAffected
<1>2. PICK new : new = artifacts'
  OBVIOUS
<1>3. PICK affected \in SUBSET Dependent :
        new = [a \in Artifact |->
          IF a \in affected
            THEN [Reset(artifacts[a], "BLOCKED") EXCEPT !.change = change]
            ELSE artifacts[a]]
  BY <1>2 DEF BlockAffected
<1>4. \A a \in Artifact : artifacts[a] \in ArtifactRecord
  BY Others DEF ArtifactsOK
<1>5. ASSUME NEW a \in Artifact
      PROVE  /\ new[a].accepted = artifacts[a].accepted
             /\ new[a].derived = artifacts[a].derived
             /\ \/ new[a] = artifacts[a]
                \/ a # Guide /\ new[a].status = "BLOCKED" /\ new[a].candidate = None
  <2>1. CASE a \in affected
    <3>1. new[a] = [Reset(artifacts[a], "BLOCKED") EXCEPT !.change = change]
      BY <1>3, <2>1
    <3>2. a # Guide
      BY <2>1 DEF Dependent
    <3> QED BY <1>4, <3>1, <3>2 DEF Reset, ArtifactRecord
  <2>2. CASE a \notin affected
    BY <1>3, <2>2
  <2> QED BY <2>1, <2>2
<1>6. Chained(new)
  <2>1. GuideThere(new)
    BY <1>5 DEF ChainOK, Chained, GuideThere
  <2>2. ASSUME NEW b \in Dependent
        PROVE  /\ Fits(new, b)
               /\ Held(new[b]) => \A u \in Upstream[b] : new[b].derived[u] = new[u].accepted
    <3>1. b \in Artifact /\ Upstream[b] \subseteq Artifact
      BY DEF Dependent
    <3>2. CASE new[b] = artifacts[b]
      BY <1>5, <3>1, <3>2 DEF ChainOK, Chained, Fits
    <3>3. CASE new[b].status = "BLOCKED" /\ new[b].candidate = None
      <4>1. ~Held(new[b])
        BY <3>3 DEF Held, Candidacy
      <4>2. Fits(new, b)
        BY <1>5, <3>1, <3>3 DEF ChainOK, Chained, Fits, Candidacy
      <4> QED BY <4>1, <4>2
    <3> QED BY <1>5, <3>1, <3>2, <3>3
  <2> QED BY <2>1, <2>2 DEF Chained
<1>7. Placed("WAITING_FOR_HUMAN", current, new)
  <2>1. ASSUME current # None
        PROVE  Quiet(artifacts, current) /\ Upstream[current] \subseteq Artifact
    BY <2>1, Others DEF ChainOK, Placed, Settled, Maybe
  <2>2. \A a \in Artifact : new[a].status = "PROMOTION_READY" =>
          artifacts[a].status = "PROMOTION_READY"
    BY <1>5
  <2>3. current # None => Quiet(new, current)
    BY <2>1, <2>2 DEF Quiet
  <2> QED BY <2>3 DEF Placed, Settled, Matches, Verified, Worked
<1>8. Place' = "WAITING_FOR_HUMAN"
  BY <1>1 DEF Place
<1> QED BY <1>1, <1>2, <1>6, <1>7, <1>8 DEF ChainOK

-----------------------------------------------------------------------------
(* Decisions keep the chain *)

\* What the promotion of the guide does to each artifact.
LEMMA ReleasedFields ==
  ASSUME Inductive, NEW c
  PROVE  /\ Released(c)[Guide].status = "ACCEPTED"
         /\ \A a \in Dependent :
              /\ Released(c)[a].accepted = artifacts[a].accepted
              /\ \/ Released(c)[a] = artifacts[a]
                 \/ /\ Released(c)[a].status = "PENDING" /\ Released(c)[a].candidate = None
                    /\ Released(c)[a].derived = Derivation(artifacts, a)
<1> USE PipelineAssumption
<1>1. \A a \in Artifact : artifacts[a] \in ArtifactRecord
  BY Others DEF ArtifactsOK
<1>2. Released(c)[Guide].status = "ACCEPTED"
  <2>1. Released(c)[Guide] = [artifacts[Guide] EXCEPT !.status = "ACCEPTED", !.candidate = None,
                                !.accepted = changes[c].content, !.change = c]
    BY DEF Released
  <2> QED BY <1>1, <2>1 DEF ArtifactRecord
<1>3. ASSUME NEW a \in Dependent
      PROVE  /\ Released(c)[a].accepted = artifacts[a].accepted
             /\ \/ Released(c)[a] = artifacts[a]
                \/ /\ Released(c)[a].status = "PENDING" /\ Released(c)[a].candidate = None
                   /\ Released(c)[a].derived = Derivation(artifacts, a)
  <2> DEFINE reset == Reset(artifacts[a], "PENDING")
             revisions == Derivation(artifacts, a)
  <2>1. CASE a \in changes[c].affected
    <3>1. Released(c)[a] = [reset EXCEPT !.derived = revisions, !.change = c]
      BY <2>1 DEF Dependent, Released
    <3>2. /\ reset \in ArtifactRecord /\ reset.accepted = artifacts[a].accepted
          /\ reset.status = "PENDING" /\ reset.candidate = None
      <4>1. artifacts[a] \in ArtifactRecord /\ "PENDING" \in Status
        BY <1>1 DEF Dependent, Status
      <4>2. reset \in ArtifactRecord /\ reset.accepted = artifacts[a].accepted
        BY <4>1, ResetTyped
      <4>3. reset.status = "PENDING" /\ reset.candidate = None
        BY <4>1 DEF Reset, ArtifactRecord
      <4> QED BY <4>2, <4>3
    <3> HIDE DEF reset, revisions
    <3>3. /\ Released(c)[a].accepted = reset.accepted
          /\ Released(c)[a].status = reset.status
          /\ Released(c)[a].candidate = reset.candidate
          /\ Released(c)[a].derived = revisions
      BY <3>1, <3>2 DEF ArtifactRecord
    <3> QED BY <3>2, <3>3 DEF revisions
  <2>2. CASE a \notin changes[c].affected
    BY <2>2 DEF Dependent, Released
  <2> QED BY <2>1, <2>2
<1> QED BY <1>2, <1>3

\* The promotion of the guide links what is derived from it to its new
\* revision; what it affects starts anew.
LEMMA ReleasedLinks ==
  ASSUME Inductive, Chained(artifacts), NEW released,
         released[Guide].status = "ACCEPTED",
         \A a \in Dependent :
           /\ released[a].accepted = artifacts[a].accepted
           /\ \/ released[a] = artifacts[a]
              \/ /\ released[a].status = "PENDING" /\ released[a].candidate = None
                 /\ released[a].derived = Derivation(artifacts, a)
  PROVE  /\ Linked(released)
         /\ \A a \in Artifact : released[a].status = "PROMOTION_READY" =>
              artifacts[a].status = "PROMOTION_READY"
<1> USE PipelineAssumption
<1>1. ASSUME NEW a \in Dependent
      PROVE  /\ Fits(released, a)
             /\ Held(released[a]) => \A u \in Upstream[a] :
                  released[u].status = "ACCEPTED" \/ released[a].derived[u] = released[u].accepted
  <2>1. a \in Artifact /\ Upstream[a] \subseteq Artifact
    BY DEF Dependent
  <2>2. CASE released[a] = artifacts[a]
    <3>1. Fits(released, a)
      BY <2>2 DEF Chained, Fits
    <3>2. ASSUME Held(released[a]), NEW u \in Upstream[a]
          PROVE  released[u].status = "ACCEPTED" \/ released[a].derived[u] = released[u].accepted
      <4>1. artifacts[a].derived[u] = artifacts[u].accepted
        BY <2>2, <3>2 DEF Chained
      <4>2. CASE u = Guide
        BY <4>2
      <4>3. CASE u # Guide
        <5>1. released[u].accepted = artifacts[u].accepted
          BY <2>1, <4>3 DEF Dependent
        <5> QED BY <2>2, <4>1, <5>1
      <4> QED BY <4>2, <4>3
    <3> QED BY <3>1, <3>2
  <2>3. CASE /\ released[a].status = "PENDING" /\ released[a].candidate = None
             /\ released[a].derived = Derivation(artifacts, a)
    <3>1. \A u \in Artifact \ Upstream[a] : released[a].derived[u] = None
      BY <2>3 DEF Derivation
    <3>2. ~Held(released[a])
      BY <2>3 DEF Held, Candidacy
    <3> QED BY <2>3, <3>1, <3>2 DEF Fits, Candidacy
  <2> QED BY <2>2, <2>3
<1>2. Linked(released)
  BY <1>1 DEF Linked, GuideThere
<1>3. ASSUME NEW a \in Artifact, released[a].status = "PROMOTION_READY"
      PROVE  artifacts[a].status = "PROMOTION_READY"
  BY <1>3 DEF Dependent
<1> QED BY <1>2, <1>3

\* The artifact that is current stays as quiet as it was when none comes to
\* wait for its promotion.
LEMMA StaysQuiet ==
  ASSUME Inductive, ChainOK, NEW new,
         \A a \in Artifact : new[a].status = "PROMOTION_READY" =>
           artifacts[a].status = "PROMOTION_READY"
  PROVE  current # None => Quiet(new, current)
<1>1. current # None => Quiet(artifacts, current) /\ current \in Artifact
  BY Others DEF ChainOK, Placed, Settled, Maybe
<1> QED BY <1>1, PipelineAssumption DEF Quiet

LEMMA DecisionChains ==
  ASSUME Inductive, ChainOK, Decide
  PROVE  ChainOK'
<1> USE PipelineAssumption
<1>1. /\ ArtifactsOK(artifacts) /\ artifacts \in [Artifact -> ArtifactRecord]
      /\ Chained(artifacts) /\ current \in Maybe(Artifact)
  BY Others DEF ChainOK, ArtifactsOK
<1>2. CASE DecideGuide
  <2> DEFINE new == Released(offers[Guide].change)
  <2>1. PICK chg : Schedule(new, current, Resolve(offers, Guide), questions, chg, done)
    BY <1>2 DEF DecideGuide
  <2>2. offers[Guide].change \in Change
    BY <1>2, Others DEF DecideGuide, OffersOK
  <2>3. ArtifactsOK(new)
    BY <2>2, ReleasedOK
  <2>4. /\ new[Guide].status = "ACCEPTED"
        /\ \A a \in Dependent :
             /\ new[a].accepted = artifacts[a].accepted
             /\ \/ new[a] = artifacts[a]
                \/ /\ new[a].status = "PENDING" /\ new[a].candidate = None
                   /\ new[a].derived = Derivation(artifacts, a)
    BY ReleasedFields
  <2> HIDE DEF new
  <2>5. /\ Linked(new)
        /\ \A a \in Artifact : new[a].status = "PROMOTION_READY" =>
             artifacts[a].status = "PROMOTION_READY"
    BY <1>1, <2>4, ReleasedLinks
  <2> QED BY <1>1, <2>1, <2>3, <2>5, StaysQuiet, ScheduleChains
<1>3. CASE DecidePromotion
  <2>1. PICK a \in Gated :
          /\ artifacts[a].candidate # None
          /\ CommittedAlready(a) \/ artifacts[a].status = "PROMOTION_READY"
          /\ Schedule(Promoted(artifacts, a), current, Resolve(offers, a),
                      questions, changes, done)
    BY <1>3 DEF DecidePromotion
  <2>2. a \in Dependent /\ a \in Artifact
    BY DEF Dependent
  <2>3. artifacts[a] \in ArtifactRecord
    BY <1>1, <2>2
  <2>4. Held(artifacts[a])
    BY <1>1, <2>1, <2>2, <2>3 DEF Chained, Fits, Held, Candidacy, ArtifactRecord, Status
  <2>5. ArtifactsOK(Promoted(artifacts, a)) /\ Linked(Promoted(artifacts, a))
    BY <1>1, <2>2, <2>4, PromotedOK, PromotedLinks
  <2>6. \A b \in Artifact : Promoted(artifacts, a)[b].status = "PROMOTION_READY" =>
          artifacts[b].status = "PROMOTION_READY"
    <3>1. /\ \A b \in Artifact \ {a} : Promoted(artifacts, a)[b] = artifacts[b]
          /\ Promoted(artifacts, a)[a] =
               [artifacts[a] EXCEPT !.status = "ACCEPTED", !.accepted = artifacts[a].candidate,
                                    !.recorded = TRUE]
      BY <1>1, <2>2 DEF Promoted
    <3>2. Promoted(artifacts, a)[a].status = "ACCEPTED"
      BY <2>3, <3>1 DEF ArtifactRecord
    <3> QED BY <3>1, <3>2
  <2> QED BY <1>1, <2>1, <2>5, <2>6, StaysQuiet, ScheduleChains
<1>4. CASE DecideQuestion
  <2>1. PICK a \in Artifact :
          LET again == IF artifacts[a].candidate = None THEN "PENDING"
                       ELSE "REVIEW_REQUIRED"
          IN Schedule([artifacts EXCEPT ![a].status = IF @ = "BLOCKED" THEN again ELSE @],
                      current, offers, Resolve(questions, a), changes, done)
    BY <1>4 DEF DecideQuestion, Pending
  <2> DEFINE again  == IF artifacts[a].candidate = None THEN "PENDING" ELSE "REVIEW_REQUIRED"
             status == IF artifacts[a].status = "BLOCKED" THEN again ELSE artifacts[a].status
             new    == [artifacts EXCEPT ![a].status = status]
  <2>2. Schedule(new, current, offers, Resolve(questions, a), changes, done)
    BY <2>1
  <2>3. artifacts[a] \in ArtifactRecord
    BY <1>1
  <2>4. ArtifactsOK(new)
    <3>1. status \in Status
      BY <2>3 DEF ArtifactRecord, Status
    <3> HIDE DEF status
    <3> QED BY <1>1, <3>1, StatusOK
  <2>5. /\ \A b \in Artifact \ {a} : new[b] = artifacts[b]
        /\ new[a].status = status
        /\ new[a].accepted = artifacts[a].accepted
        /\ new[a].candidate = artifacts[a].candidate
        /\ new[a].derived = artifacts[a].derived
    <3> HIDE DEF status
    <3> QED BY <1>1, StatusRecord
  <2> HIDE DEF new
  <2>6. Chained(new)
    <3>1. CASE a \in Dependent
      <4>1. Fits(new, a)
        BY <1>1, <2>5, <3>1 DEF Chained, Fits, Candidacy
      <4>2. Held(new[a]) => Held(artifacts[a])
        BY <2>5 DEF Held, Candidacy
      <4>3. Held(artifacts[a]) =>
              \A u \in Upstream[a] : artifacts[a].derived[u] = artifacts[u].accepted
        BY <1>1, <3>1 DEF Chained
      <4> QED BY <1>1, <2>5, <3>1, <4>1, <4>2, <4>3, ChangeChains
    <3>2. CASE a = Guide
      <4>1. new[a].status = artifacts[a].status
        BY <1>1, <2>5, <3>2 DEF Chained, GuideThere
      <4>2. \A b \in Artifact : new[b].accepted = artifacts[b].accepted
        BY <2>5
      <4>3. \A b \in Dependent : new[b] = artifacts[b] /\ Upstream[b] \subseteq Artifact
        BY <2>5, <3>2 DEF Dependent
      <4> QED BY <1>1, <3>2, <4>1, <4>2, <4>3 DEF Chained, GuideThere, Fits
    <3> QED BY <3>1, <3>2 DEF Dependent
  <2>7. \A b \in Artifact : new[b].status = "PROMOTION_READY" =>
          artifacts[b].status = "PROMOTION_READY"
    BY <2>5
  <2> QED BY <1>1, <2>2, <2>4, <2>6, <2>7, ChainedIsLinked, StaysQuiet, ScheduleChains
<1> QED BY <1>2, <1>3, <1>4 DEF Decide

-----------------------------------------------------------------------------
(* What the chain gives *)

LEMMA InitChains == Init => ChainOK
<1> SUFFICES ASSUME Init PROVE ChainOK
  OBVIOUS
<1> USE PipelineAssumption
<1>1. PICK there \in SUBSET Dependent, first \in Content :
        LET Accepted(a) == IF a \in there \cup {Guide} THEN first ELSE None IN
        artifacts = [a \in Artifact |->
          [status    |-> IF a \in there \cup {Guide} THEN "ACCEPTED" ELSE "MISSING",
           accepted  |-> Accepted(a), candidate |-> None,
           derived   |-> [u \in Artifact |->
                            IF u \in Upstream[a] THEN Accepted(u) ELSE None],
           validator |-> NoEvidence, review |-> None, tries |-> 0,
           change    |-> None, recorded |-> FALSE]]
  BY DEF Init
<1>2. ASSUME NEW a \in Artifact
      PROVE  /\ artifacts[a].status = IF a \in there \cup {Guide} THEN "ACCEPTED" ELSE "MISSING"
             /\ artifacts[a].accepted = IF a \in there \cup {Guide} THEN first ELSE None
             /\ artifacts[a].candidate = None
             /\ \A u \in Artifact : artifacts[a].derived[u] =
                  IF u \in Upstream[a]
                    THEN IF u \in there \cup {Guide} THEN first ELSE None
                    ELSE None
  BY <1>1
<1>3. GuideThere(artifacts)
  BY <1>2 DEF GuideThere
<1>4. ASSUME NEW a \in Dependent
      PROVE  /\ Fits(artifacts, a)
             /\ \A u \in Upstream[a] : artifacts[a].derived[u] = artifacts[u].accepted
  <2>1. a \in Artifact /\ Upstream[a] \subseteq Artifact
    BY DEF Dependent
  <2> QED BY <1>2, <2>1 DEF Fits, Candidacy
<1>5. stage = "READY" /\ current = None
  BY DEF Init
<1> QED BY <1>3, <1>4, <1>5 DEF ChainOK, Chained, Placed, Place, Verified, Worked

LEMMA NextChains == Inductive /\ ChainOK /\ [Next]_vars => ChainOK'
<1> SUFFICES ASSUME Inductive, ChainOK, [Next]_vars PROVE ChainOK'
  OBVIOUS
<1>1. CASE Generate \/ ApplyPatch \/ RejectPatch
  BY <1>1, CandidateStepsChain
<1>2. CASE ValidationPasses \/ ValidationFails \/ ValidatorBreaks
  BY <1>2, ValidationChains
<1>3. CASE ReviewApproves \/ ReviewRequiresPatch \/ Ask
  BY <1>3, ReviewChains
<1>4. CASE InvalidOutcome \/ Recover \/ Reschedule \/ CompleteTask \/ FinishProject
  BY <1>4, OtherWorkChains
<1>5. CASE Detect \/ DetectAgain
  BY <1>5, DetectionChains
<1>6. CASE AcceptRevision
  BY <1>6, AcceptanceChains
<1>7. CASE BlockAffected
  BY <1>7, BlockingChains
<1>8. CASE Decide
  BY <1>8, DecisionChains
<1>9. CASE UNCHANGED vars
  BY <1>9 DEF vars, ChainOK, Place
<1> QED BY <1>1, <1>2, <1>3, <1>4, <1>5, <1>6, <1>7, <1>8, <1>9 DEF Next, Step, Work

\* At every state of every run the chain is whole.
LEMMA AlwaysChained == Spec => [](Inductive /\ ChainOK)
BY InitInductive, NextInductive, InitChains, NextChains, PTL DEF Spec

\* A stage that works on a candidate has one, in the status of that stage and
\* derived from what its upstream has accepted, also after it was interrupted
\* by a revision of the guide and resumed, or stopped and recovered.
THEOREM StagesMatchTheirArtifact == Spec => []StageMatchesArtifact
<1>1. Inductive /\ ChainOK => StageMatchesArtifact
  <2> SUFFICES ASSUME Inductive, ChainOK, stage \in Worked
               PROVE  StageMatchesArtifact
    BY DEF StageMatchesArtifact, Worked
  <2>1. /\ current \in Dependent /\ current # None /\ Matches(stage, Record.status)
        /\ Held(Record) /\ Record.candidate # None
    BY WorkedHasCandidate
  <2>2. \A u \in Upstream[current] : Record.derived[u] = artifacts[u].accepted
    BY <2>1 DEF ChainOK, Chained, Record
  <2> QED BY <2>1, <2>2 DEF StageMatchesArtifact, Matches
<1> QED BY <1>1, AlwaysChained, PTL

\* While tasks are worked on or the project is verified, every accepted
\* artifact is derived from the revisions its upstream is at.
THEOREM WorkRestsOnCurrentChain == Spec => []WorksFromCurrentChain
<1>1. ChainOK => WorksFromCurrentChain
  BY DEF ChainOK, Placed, Place, Fresh, Verified, WorksFromCurrentChain
<1> QED BY <1>1, AlwaysChained, PTL

-----------------------------------------------------------------------------
(* What verification and completion rest on *)

\* What is blocked waits for the answer to its question or for the promotion of
\* the guide, or its question was answered before it was asked again.
Explained(arts, ques, chg) ==
  \A a \in Artifact : arts[a].status = "BLOCKED" =>
    \/ ques[a].status \in {"PENDING", "RESOLVED"}
    \/ \E c \in Change : chg[c].status = "CHANGE_PENDING" /\ a \in chg[c].affected

\* What an analysis has not reached affects nothing, and is not promoted.
Unreached(chg) ==
  \A c \in Change : ~chg[c].analysed => chg[c].affected = {} /\ chg[c].status # "PROPAGATING"

\* The human is asked about a revision of the guide that has been analysed.
AsksAnalysed(off, chg) == off[Guide].status = "PENDING" => chg[off[Guide].change].analysed

\* What completion passes over, in these artifacts with these questions.
PassedOver(arts, ques) ==
  {a \in Dependent : \/ arts[a].status = "PROMOTION_READY"
                     \/ arts[a].status = "BLOCKED" /\ ques[a].status = "RESOLVED"}

\* All is accepted but what is passed over, and what depends on that.
RestsOnAccepted(arts, ques) ==
  \A a \in Artifact :
    \/ arts[a].status = "ACCEPTED"
    \/ \E b \in PassedOver(arts, ques) : a = b \/ a \in Descendants(b)

\* The invariant that completion needs.
EndOK ==
  /\ Explained(artifacts, questions, changes)
  /\ Unreached(changes)
  /\ AsksAnalysed(offers, changes)
  /\ Place = "AUTHORITY_CHANGE_ANALYSIS" =>
       changes[change].analysed \/ changes[change].status = "CHANGE_PENDING"
  /\ Place \in {"FINAL_VERIFICATION", "COMPLETED"} => RestsOnAccepted(artifacts, questions)
  /\ Place = "COMPLETED" => artifacts[Conformance].status = "ACCEPTED"

\* A set of artifacts with all that depends on them: nothing outside it has an
\* upstream inside.
LEMMA DescendantsAreClosed ==
  ASSUME NEW S \in SUBSET Artifact
  PROVE  ClosedDownstream(S \cup UNION {Descendants(b) : b \in S})
<1> DEFINE D == S \cup UNION {Descendants(b) : b \in S}
<1>1. SUFFICES ASSUME NEW a \in Artifact, NEW u \in Upstream[a] \cap D
               PROVE  a \in D
  BY DEF ClosedDownstream
<1>2. PICK b \in S : u = b \/ u \in Descendants(b)
  BY <1>1
<1>3. CASE a = b
  BY <1>2, <1>3
<1>4. CASE a # b
  <2>1. SUFFICES ASSUME NEW T \in SUBSET Artifact, b \in T, ClosedDownstream(T)
                 PROVE  a \in T
    BY <1>2, <1>4 DEF Descendants
  <2>2. u \in T
    BY <1>2, <2>1 DEF Descendants
  <2> QED BY <1>1, <2>1, <2>2 DEF ClosedDownstream
<1> QED BY <1>3, <1>4

\* Final verification is scheduled when nothing is left to do.  An artifact that
\* is not accepted then has nothing but accepted upstream, and so is passed
\* over, or some of its upstream is not accepted either; the graph has no
\* cycles, and the second cannot be the case all the way up.
LEMMA FinalRestsOnAccepted ==
  ASSUME NEW arts, ArtifactsOK(arts), Chained(arts), NEW off, NEW ques, NEW chg,
         NEW finished,
         Explained(arts, ques, chg),
         Selected(arts, off, ques, chg, finished) = "FINAL_VERIFICATION"
  PROVE  RestsOnAccepted(arts, ques)
<1> USE PipelineAssumption
<1> DEFINE left == PassedOver(arts, ques)
           D    == left \cup UNION {Descendants(b) : b \in left}
           bad  == {a \in Artifact \ D : arts[a].status # "ACCEPTED"}
<1>1. /\ Runnable(arts) = {} /\ Pending(off) \cup Pending(ques) = {}
      /\ arts[Guide].status # "PROMOTION_READY" /\ OpenChange(chg) = {}
  BY DEF Selected, StageOf
<1>2. arts[Guide].status = "ACCEPTED"
  BY <1>1 DEF Chained, GuideThere
<1>3. ClosedDownstream(D)
  <2>1. left \in SUBSET Artifact
    BY DEF PassedOver, Dependent
  <2> HIDE DEF left
  <2> QED BY <2>1, DescendantsAreClosed
<1>4. bad = {}
  <2>1. SUFFICES ASSUME bad # {} PROVE FALSE
    OBVIOUS
  <2>2. PICK a \in bad : Upstream[a] \cap bad = {}
    <3>1. bad \in SUBSET Artifact \ {{}}
      BY <2>1
    <3> HIDE DEF bad
    <3> QED BY <3>1
  <2>3. a \in Dependent /\ a \in Artifact /\ arts[a].status # "ACCEPTED" /\ a \notin D
    BY <1>2 DEF Dependent
  <2>4. Upstream[a] \cap D = {} /\ Upstream[a] \subseteq Artifact
    <3> HIDE DEF D
    <3> QED BY <1>3, <2>3 DEF ClosedDownstream
  <2>5. UpstreamAccepted(arts, a)
    <3> HIDE DEF D
    <3> QED BY <2>2, <2>4 DEF UpstreamAccepted
  <2>6. arts[a].status \notin {"MISSING", "PENDING", "CANDIDATE", "REVIEW_REQUIRED",
                              "REQUIRES_PATCH"}
    <3> HIDE DEF bad, D
    <3> QED BY <1>1, <2>3, <2>5 DEF Runnable
  <2>7. arts[a].status \notin {"APPROVED", "SUPERSEDED"}
    <3> HIDE DEF bad, D
    <3> QED BY <2>3 DEF Chained, Fits
  <2>8. a \notin left
    BY <2>3
  <2>9. arts[a].status \notin {"PROMOTION_READY", "BLOCKED"}
    <3> HIDE DEF bad, D
    <3> QED BY <1>1, <2>3, <2>8 DEF Explained, PassedOver, Pending, OpenChange
  <2>10. arts[a].status \in Status
    BY <2>3 DEF ArtifactsOK, ArtifactRecord
  <2> HIDE DEF bad, D, left
  <2> QED BY <2>3, <2>6, <2>7, <2>9, <2>10 DEF Status
<1>5. SUFFICES ASSUME NEW a \in Artifact, arts[a].status # "ACCEPTED"
               PROVE  \E b \in left : a = b \/ a \in Descendants(b)
  BY DEF RestsOnAccepted
<1>6. a \in D
  BY <1>4, <1>5
<1> HIDE DEF left
<1> QED BY <1>6

\* Scheduling explains what stays blocked, and goes on to verification only
\* when everything rests on what is accepted.
LEMMA ScheduleEnds ==
  ASSUME ChainOK', NEW arts, ArtifactsOK(arts), NEW artifact, NEW off, NEW ques,
         NEW chg, NEW finished, Schedule(arts, artifact, off, ques, chg, finished),
         Explained(arts, ques, chg), Unreached(chg), AsksAnalysed(off, chg)
  PROVE  EndOK'
<1> USE PipelineAssumption
<1> DEFINE settled == Reconciled(arts)
           asked   == Withdrawn(arts, ques)
           offered == Withdrawn(arts, off)
           chosen  == Selected(settled, offered, asked, chg, finished \ Hit(chg))
<1>1. /\ artifacts' = settled /\ questions' = asked /\ offers' = offered /\ changes' = chg
      /\ stage' = chosen
      /\ stage' = "HARD_STOP" => stopped'.stage = "NONE"
  BY DEF Schedule
<1>2. Chained(settled) /\ ArtifactsOK(settled)
  BY <1>1, ReconciledOK DEF ChainOK
<1>3. Explained(settled, asked, chg)
  <2>1. SUFFICES ASSUME NEW a \in Artifact, settled[a].status = "BLOCKED"
                 PROVE  \/ asked[a].status \in {"PENDING", "RESOLVED"}
                        \/ \E c \in Change : /\ chg[c].status = "CHANGE_PENDING"
                                             /\ a \in chg[c].affected
    BY DEF Explained
  <2>2. ~Stale(arts, a) /\ settled[a] = arts[a]
    BY <2>1, ReconciledRecord
  <2>3. asked[a] = ques[a]
    BY <2>2 DEF Withdrawn
  <2> HIDE DEF settled, asked
  <2> QED BY <2>1, <2>2, <2>3 DEF Explained
<1>4. offered[Guide] = off[Guide]
  BY DEF Withdrawn, Stale
<1>5. AsksAnalysed(offered, chg)
  <2> HIDE DEF offered
  <2> QED BY <1>4 DEF AsksAnalysed
<1>6. chosen \in {"ARTIFACT_GENERATION", "ARTIFACT_REVIEW", "ARTIFACT_PATCH", "TASK_EXECUTION",
                  "FINAL_VERIFICATION", "HARD_STOP"} \cup Waiting
  BY SelectedTyped
<1>7. Place' \notin {"AUTHORITY_CHANGE_ANALYSIS", "COMPLETED"}
  <2> HIDE DEF chosen
  <2> QED BY <1>1, <1>6 DEF Place, Waiting
<1>8. Place' = "FINAL_VERIFICATION" => chosen = "FINAL_VERIFICATION"
  <2> HIDE DEF chosen
  <2> QED BY <1>1 DEF Place
<1>9. chosen = "FINAL_VERIFICATION" => RestsOnAccepted(settled, asked)
  <2> HIDE DEF settled, offered, asked
  <2> QED BY <1>2, <1>3, FinalRestsOnAccepted
<1> HIDE DEF settled, asked, offered, chosen
<1> QED BY <1>1, <1>3, <1>5, <1>7, <1>8, <1>9 DEF EndOK

\* A step that blocks nothing and leaves questions, changes and the decision
\* about the guide alone, and schedules.
LEMMA SchedulingEnds ==
  ASSUME EndOK, ChainOK', NEW arts, ArtifactsOK(arts), NEW artifact,
         NEW off, off[Guide] = offers[Guide], NEW finished,
         \A a \in Artifact : arts[a].status = "BLOCKED" => artifacts[a].status = "BLOCKED",
         Schedule(arts, artifact, off, questions, changes, finished)
  PROVE  EndOK'
<1>1. Explained(arts, questions, changes)
  BY DEF EndOK, Explained
<1>2. Unreached(changes) /\ AsksAnalysed(off, changes)
  BY DEF EndOK, AsksAnalysed
<1> QED BY <1>1, <1>2, ScheduleEnds

\* The same for a step that goes to another stage of artifacts.
LEMMA StayingEnds ==
  ASSUME EndOK, UNCHANGED <<offers, questions, changes>>,
         \A a \in Artifact : artifacts'[a].status = "BLOCKED" => artifacts[a].status = "BLOCKED",
         Place' \notin {"AUTHORITY_CHANGE_ANALYSIS", "FINAL_VERIFICATION", "COMPLETED"}
  PROVE  EndOK'
BY DEF EndOK, Explained, Unreached, AsksAnalysed

LEMMA PrepareEnds ==
  ASSUME Inductive, EndOK, ChainOK', NEW arts, ArtifactsOK(arts), NEW a \in Dependent,
         \A b \in Artifact \ {a} : arts[b] = artifacts[b], Prepare(arts, a)
  PROVE  EndOK'
<1> USE PipelineAssumption
<1> DEFINE ready == [arts EXCEPT ![a].status = "PROMOTION_READY"]
<1>1. a \in Artifact /\ a # Guide
  BY DEF Dependent
<1>2. ArtifactsOK(ready)
  BY StatusOK DEF Status
<1>3. ready[a].status = "PROMOTION_READY" /\ \A b \in Artifact \ {a} : ready[b] = artifacts[b]
  BY <1>1, StatusRecord
<1> HIDE DEF ready
<1>4. \A b \in Artifact : ready[b].status = "BLOCKED" => artifacts[b].status = "BLOCKED"
  BY <1>3
<1>5. CASE Refused(ready, a, Decided)
  <2>1. /\ artifacts' = ready /\ stage' = "READY"
        /\ UNCHANGED <<offers, questions, changes>>
    BY <1>5 DEF Prepare, ready
  <2>2. Place' = "READY"
    BY <2>1 DEF Place
  <2> QED BY <1>4, <2>1, <2>2, StayingEnds
<1>6. CASE ~Refused(ready, a, Decided) /\ a \in Gated
  <2> DEFINE off == IF AnsweredAlready(a, Offer(arts[a])) THEN offers
                    ELSE [offers EXCEPT ![a] = Offer(arts[a])]
  <2>1. Schedule(ready, None, off, questions, changes, done)
    BY <1>6 DEF Prepare, ready
  <2>2. off[Guide] = offers[Guide]
    BY <1>1, Others DEF OffersOK, Offers
  <2> HIDE DEF off
  <2> QED BY <1>2, <1>4, <2>1, <2>2, SchedulingEnds
<1>7. CASE ~Refused(ready, a, Decided) /\ a \notin Gated
  <2>1. Schedule(Promoted(ready, a), None, offers, questions, changes, done)
    BY <1>7 DEF Prepare, ready
  <2>2. ArtifactsOK(Promoted(ready, a))
    BY <1>2, PromotedOK
  <2>3. \A b \in Artifact : Promoted(ready, a)[b].status = "BLOCKED" =>
          artifacts[b].status = "BLOCKED"
    <3>1. ready \in [Artifact -> ArtifactRecord] /\ ready[a] \in ArtifactRecord
      BY <1>1, <1>2 DEF ArtifactsOK
    <3>2. /\ \A b \in Artifact \ {a} : Promoted(ready, a)[b] = ready[b]
          /\ Promoted(ready, a)[a] =
               [ready[a] EXCEPT !.status = "ACCEPTED", !.accepted = ready[a].candidate,
                                !.recorded = TRUE]
      BY <1>1, <3>1 DEF Promoted
    <3>3. Promoted(ready, a)[a].status = "ACCEPTED"
      BY <3>1, <3>2 DEF ArtifactRecord
    <3> QED BY <1>4, <3>2, <3>3
  <2> QED BY <2>1, <2>2, <2>3, SchedulingEnds
<1> QED BY <1>5, <1>6, <1>7

LEMMA AdoptEnds ==
  ASSUME Inductive, ChainOK, EndOK, ChainOK', current # None,
         NEW content \in Content, Adopt(content)
  PROVE  EndOK'
<1>1. current \in Dependent /\ current \in Artifact
  BY Others DEF ChainOK, Placed, Settled, Quiet, Dependent, Maybe
<1>2. ASSUME NEW status \in {"CANDIDATE", "REVIEW_REQUIRED", "APPROVED"}
      PROVE  /\ ArtifactsOK(Candidate(content, status))
             /\ \A b \in Artifact \ {current} : Candidate(content, status)[b] = artifacts[b]
             /\ \A b \in Artifact : Candidate(content, status)[b].status = "BLOCKED" =>
                  artifacts[b].status = "BLOCKED"
  <2> DEFINE new == Candidate(content, status)
  <2>1. ArtifactsOK(new)
    BY CandidateOK DEF Status
  <2>2. /\ \A b \in Artifact \ {current} : new[b] = artifacts[b]
        /\ new[current].status = status
    BY <1>1, CandidateRecord
  <2> HIDE DEF new
  <2>3. \A b \in Artifact : new[b].status = "BLOCKED" => artifacts[b].status = "BLOCKED"
    BY <2>2
  <2> QED BY <2>1, <2>2, <2>3 DEF new
<1>3. CASE current \in Validated
  <2>1. /\ artifacts' = Candidate(content, "CANDIDATE") /\ stage' = "ARTIFACT_VALIDATION"
        /\ UNCHANGED <<offers, questions, changes>>
    BY <1>3 DEF Adopt
  <2>2. Place' = "ARTIFACT_VALIDATION"
    BY <2>1 DEF Place
  <2> QED BY <1>2, <2>1, <2>2, StayingEnds
<1>4. CASE current \notin Validated /\ current \in Reviewed
  <2>1. Schedule(Candidate(content, "REVIEW_REQUIRED"), None, offers, questions, changes, done)
    BY <1>4 DEF Adopt
  <2> QED BY <1>2, <2>1, SchedulingEnds
<1>5. CASE current \notin Validated /\ current \notin Reviewed
  <2>1. Prepare(Candidate(content, "APPROVED"), current)
    BY <1>5 DEF Adopt
  <2> QED BY <1>1, <1>2, <2>1, PrepareEnds
<1> QED BY <1>3, <1>4, <1>5

LEMMA CandidateStepsEnd ==
  ASSUME Inductive, ChainOK, EndOK, ChainOK', Generate \/ ApplyPatch \/ RejectPatch
  PROVE  EndOK'
<1>1. CASE Generate
  BY <1>1, AdoptEnds DEF Generate
<1>2. CASE ApplyPatch
  <2>1. stage = "ARTIFACT_PATCH" /\ \E content \in Content : Adopt(content)
    BY <1>2 DEF ApplyPatch, At
  <2>2. current # None
    BY <2>1, WorkedHasCandidate DEF Worked
  <2> QED BY <2>1, <2>2, AdoptEnds
<1>3. CASE RejectPatch
  <2> DEFINE new == [artifacts EXCEPT ![current].status = "REVIEW_REQUIRED"]
  <2>1. /\ stage = "ARTIFACT_PATCH"
        /\ Schedule(new, None, offers, questions, changes, done)
    BY <1>3 DEF RejectPatch, At
  <2>2. current \in Artifact
    BY <2>1, WorkedHasCandidate DEF Worked
  <2>3. ArtifactsOK(artifacts) /\ ArtifactsOK(new)
    BY Others, StatusOK DEF Status
  <2>4. /\ \A b \in Artifact \ {current} : new[b] = artifacts[b]
        /\ new[current].status = "REVIEW_REQUIRED"
    BY <2>2, <2>3, StatusRecord
  <2> HIDE DEF new
  <2>5. \A b \in Artifact : new[b].status = "BLOCKED" => artifacts[b].status = "BLOCKED"
    BY <2>4
  <2> QED BY <2>1, <2>3, <2>5, SchedulingEnds
<1> QED BY <1>1, <1>2, <1>3

LEMMA ValidationEnds ==
  ASSUME Inductive, ChainOK, EndOK, ChainOK',
         ValidationPasses \/ ValidationFails \/ ValidatorBreaks
  PROVE  EndOK'
<1>1. stage = "ARTIFACT_VALIDATION"
  BY DEF ValidationPasses, ValidationFails, ValidatorBreaks, At
<1>2. /\ current \in Dependent /\ current \in Artifact
      /\ artifacts[current].status = "CANDIDATE"
  BY <1>1, WorkedHasCandidate DEF Worked, Record, Matches
<1>3. ArtifactsOK(artifacts) /\ artifacts[current] \in ArtifactRecord
      /\ artifacts \in [Artifact -> ArtifactRecord]
  BY <1>2, Others DEF ArtifactsOK
<1>4. CASE ValidationPasses
  <2> DEFINE passed == [artifacts EXCEPT ![current].validator = Validator("PASS"),
                                         ![current].tries = 0]
  <2>1. ArtifactsOK(passed)
    <3>1. "PASS" \in {"PASS", "FAIL", "INFRA"} /\ 0 \in 0 .. MaxAttempts
          /\ "APPROVED" \in Status
      BY PipelineAssumption DEF Status
    <3>2. passed = [[artifacts EXCEPT ![current].validator = Validator("PASS")]
                      EXCEPT ![current].tries = 0]
      OBVIOUS
    <3> HIDE DEF passed
    <3> QED BY <3>1, <3>2, VerdictOK
  <2>2. \A b \in Artifact \ {current} : passed[b] = artifacts[b]
    BY <1>3
  <2> HIDE DEF passed
  <2>3. CASE current \in Reviewed
    <3> DEFINE new == [passed EXCEPT ![current].status = "REVIEW_REQUIRED"]
    <3>1. /\ artifacts' = new /\ stage' = "ARTIFACT_REVIEW"
          /\ UNCHANGED <<offers, questions, changes>>
      BY <1>4, <2>3 DEF ValidationPasses, passed
    <3>2. /\ \A b \in Artifact \ {current} : new[b] = passed[b]
          /\ new[current].status = "REVIEW_REQUIRED"
      BY <1>2, <2>1, StatusRecord
    <3> HIDE DEF new
    <3>3. \A b \in Artifact : new[b].status = "BLOCKED" => artifacts[b].status = "BLOCKED"
      BY <2>2, <3>2
    <3>4. Place' = "ARTIFACT_REVIEW"
      BY <3>1 DEF Place
    <3> QED BY <3>1, <3>3, <3>4, StayingEnds
  <2>4. CASE current \notin Reviewed
    <3> DEFINE new == [passed EXCEPT ![current].status = "APPROVED"]
    <3>1. Prepare(new, current)
      BY <1>4, <2>4 DEF ValidationPasses, passed
    <3>2. ArtifactsOK(new)
      BY <2>1, StatusOK DEF Status
    <3>3. \A b \in Artifact \ {current} : new[b] = passed[b]
      BY <1>2, <2>1, StatusRecord
    <3> HIDE DEF new
    <3>4. \A b \in Artifact \ {current} : new[b] = artifacts[b]
      BY <2>2, <3>3
    <3> QED BY <1>2, <3>1, <3>2, <3>4, PrepareEnds
  <2> QED BY <2>3, <2>4
<1>5. CASE ValidationFails
  <2>1. /\ artifacts' = [artifacts EXCEPT ![current].validator = Validator("FAIL"),
                                          ![current].status = "REQUIRES_PATCH"]
        /\ stage' = "ARTIFACT_PATCH" /\ UNCHANGED <<offers, questions, changes>>
    BY <1>5 DEF ValidationFails
  <2>2. PICK new : new = artifacts'
    OBVIOUS
  <2>3. /\ \A b \in Artifact \ {current} : new[b] = artifacts[b]
        /\ new[current] = [artifacts[current] EXCEPT !.validator = Validator("FAIL"),
                                                     !.status = "REQUIRES_PATCH"]
    BY <1>2, <1>3, <2>1, <2>2
  <2>4. new[current].status = "REQUIRES_PATCH"
    BY <1>3, <2>3 DEF ArtifactRecord
  <2>5. \A b \in Artifact : new[b].status = "BLOCKED" => artifacts[b].status = "BLOCKED"
    BY <2>3, <2>4
  <2>6. Place' = "ARTIFACT_PATCH"
    BY <2>1 DEF Place
  <2> QED BY <2>1, <2>2, <2>5, <2>6, StayingEnds
<1>6. CASE ValidatorBreaks
  <2> DEFINE tries == IF Record.tries < MaxAttempts THEN Record.tries + 1 ELSE MaxAttempts
  <2>1. /\ artifacts' = [artifacts EXCEPT ![current].validator = Validator("INFRA"),
                                          ![current].tries = tries]
        /\ \/ stage' = "HARD_STOP" /\ stopped'.stage = stage
           \/ UNCHANGED stage
        /\ UNCHANGED <<offers, questions, changes>>
    BY <1>6 DEF ValidatorBreaks
  <2> HIDE DEF tries
  <2>2. PICK new : new = artifacts'
    OBVIOUS
  <2>3. /\ \A b \in Artifact \ {current} : new[b] = artifacts[b]
        /\ new[current] = [artifacts[current] EXCEPT !.validator = Validator("INFRA"),
                                                     !.tries = tries]
    BY <1>2, <1>3, <2>1, <2>2
  <2>4. new[current].status = artifacts[current].status
    BY <1>3, <2>3 DEF ArtifactRecord
  <2>5. \A b \in Artifact : new[b].status = "BLOCKED" => artifacts[b].status = "BLOCKED"
    BY <2>3, <2>4
  <2>6. Place' = "ARTIFACT_VALIDATION"
    BY <1>1, <2>1 DEF Place
  <2> QED BY <2>1, <2>2, <2>5, <2>6, StayingEnds
<1> QED BY <1>4, <1>5, <1>6

\* A question that is asked explains what it blocks.
LEMMA ReviewEnds ==
  ASSUME Inductive, ChainOK, EndOK, ChainOK',
         ReviewApproves \/ ReviewRequiresPatch \/ Ask
  PROVE  EndOK'
<1>1. stage \in Worked
  BY DEF ReviewApproves, ReviewRequiresPatch, Ask, At, Worked
<1>2. current \in Dependent /\ current \in Artifact
  BY <1>1, WorkedHasCandidate
<1>3. ArtifactsOK(artifacts) /\ artifacts[current] \in ArtifactRecord
  BY <1>2, Others DEF ArtifactsOK
<1>4. CASE ReviewApproves
  <2> DEFINE new == [artifacts EXCEPT ![current].status = "APPROVED",
                                      ![current].review = Record.candidate]
  <2>1. Prepare(new, current)
    BY <1>4 DEF ReviewApproves
  <2>2. ArtifactsOK(new)
    BY <1>2, ReviewedOK DEF Status
  <2>3. \A b \in Artifact \ {current} : new[b] = artifacts[b]
    BY <1>3 DEF ArtifactsOK
  <2> HIDE DEF new
  <2> QED BY <1>2, <2>1, <2>2, <2>3, PrepareEnds
<1>5. ASSUME NEW status \in {"REQUIRES_PATCH", "BLOCKED"}
      PROVE  LET new == [artifacts EXCEPT ![current].status = status, ![current].review = None]
             IN /\ ArtifactsOK(new)
                /\ \A b \in Artifact \ {current} : new[b] = artifacts[b]
                /\ new[current].status = status
  <2> DEFINE new == [artifacts EXCEPT ![current].status = status, ![current].review = None]
  <2>1. ArtifactsOK(new)
    BY <1>2, ReviewedOK DEF Status
  <2>2. /\ \A b \in Artifact \ {current} : new[b] = artifacts[b]
        /\ new[current] = [artifacts[current] EXCEPT !.status = status, !.review = None]
    BY <1>2, <1>3 DEF ArtifactsOK
  <2> HIDE DEF new
  <2>3. new[current].status = status
    BY <1>3, <2>2 DEF ArtifactRecord
  <2> QED BY <2>1, <2>2, <2>3 DEF new
<1>6. CASE ReviewRequiresPatch
  <2> DEFINE new == [artifacts EXCEPT ![current].status = "REQUIRES_PATCH",
                                      ![current].review = None]
  <2>1. Schedule(new, None, offers, questions, changes, done)
    BY <1>6 DEF ReviewRequiresPatch
  <2>2. /\ ArtifactsOK(new)
        /\ \A b \in Artifact \ {current} : new[b] = artifacts[b]
        /\ new[current].status = "REQUIRES_PATCH"
    BY <1>5
  <2> HIDE DEF new
  <2>3. \A b \in Artifact : new[b].status = "BLOCKED" => artifacts[b].status = "BLOCKED"
    BY <2>2
  <2> QED BY <2>1, <2>2, <2>3, SchedulingEnds
<1>7. CASE Ask
  <2> DEFINE new == [artifacts EXCEPT ![current].status = "BLOCKED",
                                      ![current].review = None]
  <2>1. PICK blocks \in IF Open = {} THEN {{}} ELSE SUBSET Open \ {{}},
             asked \in IF "repeat" \in Disturbances THEN BOOLEAN ELSE {FALSE} :
          /\ asked => questions[current].status = "RESOLVED"
          /\ Schedule(new, None, offers,
                      IF asked THEN questions
                      ELSE [questions EXCEPT ![current] = [status |-> "PENDING",
                                                           blocks |-> blocks]],
                      changes, done)
    BY <1>7 DEF Ask
  <2> DEFINE ques == IF asked THEN questions
                     ELSE [questions EXCEPT ![current] = [status |-> "PENDING",
                                                          blocks |-> blocks]]
  <2>2. /\ ArtifactsOK(new)
        /\ \A b \in Artifact \ {current} : new[b] = artifacts[b]
    BY <1>5
  <2>3. /\ ques[current].status \in {"PENDING", "RESOLVED"}
        /\ \A b \in Artifact \ {current} : ques[b] = questions[b]
    BY <1>2, <2>1, Others DEF Questions
  <2> HIDE DEF new
  <2>4. Schedule(new, None, offers, ques, changes, done)
    BY <2>1
  <2> HIDE DEF ques
  <2>5. Explained(new, ques, changes)
    BY <2>2, <2>3 DEF EndOK, Explained
  <2> QED BY <2>2, <2>4, <2>5, ScheduleEnds DEF EndOK
<1> QED BY <1>4, <1>6, <1>7

LEMMA OtherWorkEnds ==
  ASSUME Inductive, ChainOK, EndOK, ChainOK',
         InvalidOutcome \/ Recover \/ Reschedule \/ CompleteTask \/ FinishProject
  PROVE  EndOK'
<1>1. CASE InvalidOutcome
  <2>1. /\ UNCHANGED <<artifacts, offers, questions, changes, change>> /\ stage # "HARD_STOP"
        /\ \/ stage' = "HARD_STOP" /\ stopped'.stage = stage
           \/ UNCHANGED stage
    BY <1>1 DEF InvalidOutcome, At, AgentStages
  <2>2. Place' = Place
    BY <2>1 DEF Place
  <2> QED BY <2>1, <2>2 DEF EndOK
<1>2. CASE Recover
  <2>1. /\ UNCHANGED <<artifacts, offers, questions, changes, change>>
        /\ stage = "HARD_STOP" /\ stage' = stopped.stage
        /\ stopped.code \in {"RETRY_EXHAUSTED", "PROJECT_VALIDATOR_EXECUTION_FAILED"}
    BY <1>2 DEF Recover
  <2>2. stopped.stage # "HARD_STOP"
    BY <2>1 DEF Inductive, TypeOK, AgentStages
  <2>3. Place' = Place
    BY <2>1, <2>2 DEF Place
  <2> QED BY <2>1, <2>3 DEF EndOK
<1>3. CASE Reschedule \/ CompleteTask
  <2>1. PICK finished : Schedule(artifacts, current, offers, questions, changes, finished)
    BY <1>3 DEF Reschedule, CompleteTask
  <2> QED BY <2>1, Others, SchedulingEnds
<1>4. CASE FinishProject
  <2>1. /\ UNCHANGED <<artifacts, offers, questions, changes>> /\ stage = "FINAL_VERIFICATION"
        /\ stage' = "COMPLETED" /\ artifacts[Conformance].status \in {"APPROVED", "ACCEPTED"}
    BY <1>4 DEF FinishProject, At, Conforms
  <2>2. artifacts[Conformance].status = "ACCEPTED"
    BY <2>1, PipelineAssumption DEF ChainOK, Chained, Fits, Dependent
  <2>3. Place = "FINAL_VERIFICATION" /\ Place' = "COMPLETED"
    BY <2>1 DEF Place
  <2> QED BY <2>1, <2>2, <2>3 DEF EndOK
<1> QED BY <1>1, <1>2, <1>3, <1>4

-----------------------------------------------------------------------------
(* Revisions of the guide and decisions *)

\* A change under analysis is open for its first analysis.
LEMMA AnalysedChange ==
  ASSUME Inductive, EndOK, Analysing
  PROVE  /\ change \in Change /\ ~changes[change].analysed
         /\ changes[change].affected = {} /\ changes[change].status = "CHANGE_PENDING"
<1>1. stage = "AUTHORITY_CHANGE_ANALYSIS" /\ ~changes[change].analysed
  BY DEF Analysing, At
<1>2. change \in Change
  BY <1>1 DEF Inductive, StageOK
<1> QED BY <1>1, <1>2 DEF EndOK, Unreached, Place

LEMMA DetectionEnds ==
  ASSUME Inductive, EndOK, Detect \/ DetectAgain
  PROVE  EndOK'
<1>1. stage' = "AUTHORITY_CHANGE_ANALYSIS" /\ UNCHANGED <<offers, questions>>
      /\ Place' = "AUTHORITY_CHANGE_ANALYSIS"
  BY DEF Detect, DetectAgain, Place
<1>2. CASE Detect
  <2>1. PICK c \in Change, content \in Content :
          /\ artifacts' = [artifacts EXCEPT ![Guide].status = "PROMOTION_READY",
                                            ![Guide].candidate = content,
                                            ![Guide].change = c]
          /\ changes' = [changes EXCEPT ![c].status = "CHANGE_PENDING",
                                        ![c].content = content]
          /\ change' = c
    BY <1>2 DEF Detect
  <2>2. PICK arts, chg : arts = artifacts' /\ chg = changes'
    OBVIOUS
  <2>3. \A a \in Artifact : arts[a].status = "BLOCKED" => artifacts[a].status = "BLOCKED"
    <3>1. artifacts \in [Artifact -> ArtifactRecord] /\ artifacts[Guide] \in ArtifactRecord
      BY Others, PipelineAssumption DEF ArtifactsOK
    <3>2. /\ \A a \in Dependent : arts[a] = artifacts[a]
          /\ arts[Guide] = [artifacts[Guide] EXCEPT !.status = "PROMOTION_READY",
                                                    !.candidate = content, !.change = c]
      BY <2>1, <2>2, <3>1, PipelineAssumption DEF Dependent
    <3>3. arts[Guide].status = "PROMOTION_READY"
      BY <3>1, <3>2 DEF ArtifactRecord
    <3> QED BY <3>2, <3>3 DEF Dependent
  <2>4. /\ \A d \in Change : /\ chg[d].analysed = changes[d].analysed
                             /\ chg[d].affected = changes[d].affected
                             /\ d # c => chg[d].status = changes[d].status
        /\ chg[c].status = "CHANGE_PENDING"
    <3>1. /\ \A d \in Change \ {c} : chg[d] = changes[d]
          /\ chg[c] = [changes[c] EXCEPT !.status = "CHANGE_PENDING", !.content = content]
      BY <2>1, <2>2, Others DEF Changes
    <3>2. changes[c] \in [status : {"NONE", "CHANGE_PENDING", "PROPAGATING", "ACCEPTED"},
                          analysed : BOOLEAN, content : Maybe(Content),
                          affected : SUBSET Artifact, hits : SUBSET Task]
      BY Others DEF Changes
    <3>3. /\ chg[c].analysed = changes[c].analysed /\ chg[c].affected = changes[c].affected
          /\ chg[c].status = "CHANGE_PENDING"
      BY <3>1, <3>2
    <3> QED BY <3>1, <3>3
  <2>5. Explained(arts, questions, chg)
    BY <2>3, <2>4 DEF EndOK, Explained
  <2>6. Unreached(chg)
    BY <2>4 DEF EndOK, Unreached
  <2>7. AsksAnalysed(offers, chg)
    BY <2>4, Others DEF EndOK, AsksAnalysed, OffersOK
  <2> QED BY <1>1, <2>1, <2>2, <2>4, <2>5, <2>6, <2>7 DEF EndOK
<1>3. CASE DetectAgain
  <2>1. /\ change' \in Unanalysed /\ UNCHANGED <<artifacts, changes>>
    BY <1>3 DEF DetectAgain
  <2>2. PICK c \in Change : c = change' /\ changes[c].status = "CHANGE_PENDING"
    BY <2>1 DEF EndOK, Unreached, Unanalysed, OpenChange
  <2> QED BY <1>1, <2>1, <2>2 DEF EndOK
<1> QED BY <1>2, <1>3

\* A revision that is accepted explains nothing that is blocked: its change has
\* affected nothing.
LEMMA AcceptanceEnds ==
  ASSUME Inductive, EndOK, ChainOK', AcceptRevision
  PROVE  EndOK'
<1> USE PipelineAssumption
<1> DEFINE accepted == [changes EXCEPT ![change].status = "ACCEPTED", ![change].analysed = TRUE]
<1>1. /\ change \in Change /\ ~changes[change].analysed
      /\ changes[change].affected = {}
  BY AnalysedChange DEF AcceptRevision
<1>2. /\ \A c \in Change \ {change} : accepted[c] = changes[c]
      /\ accepted[change].analysed /\ accepted[change].status = "ACCEPTED"
  <2>1. changes \in Changes /\ changes[change] \in
          [status : {"NONE", "CHANGE_PENDING", "PROPAGATING", "ACCEPTED"},
           analysed : BOOLEAN, content : Maybe(Content),
           affected : SUBSET Artifact, hits : SUBSET Task]
    BY <1>1, Others DEF Changes
  <2>2. /\ \A c \in Change \ {change} : accepted[c] = changes[c]
        /\ accepted[change] = [changes[change] EXCEPT !.status = "ACCEPTED", !.analysed = TRUE]
    BY <1>1, <2>1 DEF Changes
  <2> HIDE DEF accepted
  <2>3. accepted[change].analysed /\ accepted[change].status = "ACCEPTED"
    BY <2>1, <2>2
  <2> QED BY <2>2, <2>3
<1>3. PICK chg : chg = accepted
  OBVIOUS
<1>4. \/ /\ Interrupted /\ artifacts' = Rebased /\ changes' = chg
         /\ stage' = ResumedStage(artifacts[current])
         /\ UNCHANGED <<offers, questions>>
      \/ Schedule(Rebased, None, offers, questions, chg, done)
  BY <1>3 DEF AcceptRevision
<1> HIDE DEF accepted
<1>5. Explained(Rebased, questions, chg)
  <2>1. SUFFICES ASSUME NEW a \in Artifact, Rebased[a].status = "BLOCKED"
                 PROVE  \/ questions[a].status \in {"PENDING", "RESOLVED"}
                        \/ \E c \in Change : /\ chg[c].status = "CHANGE_PENDING"
                                             /\ a \in chg[c].affected
    BY DEF Explained
  <2>2. artifacts[a].status = "BLOCKED"
    BY <2>1, RebasedFields DEF Dependent
  <2> QED BY <1>1, <1>2, <1>3, <2>2 DEF EndOK, Explained
<1>6. Unreached(chg)
  BY <1>2, <1>3 DEF EndOK, Unreached
<1>7. AsksAnalysed(offers, chg)
  <2>1. offers[Guide].status = "PENDING" => offers[Guide].change \in Change
    BY Others DEF OffersOK
  <2> QED BY <1>2, <1>3, <2>1 DEF EndOK, AsksAnalysed
<1>8. CASE Interrupted /\ artifacts' = Rebased /\ changes' = chg
           /\ stage' = ResumedStage(artifacts[current]) /\ UNCHANGED <<offers, questions>>
  <2>1. ResumedStage(artifacts[current]) \in Worked
    BY <1>8 DEF Interrupted, ResumedStage, StageOf, Worked
  <2>2. stage' \in Worked
    BY <1>8, <2>1
  <2>3. Place' \in Worked
    BY <2>2 DEF Place, Worked
  <2>4. Place' \notin {"AUTHORITY_CHANGE_ANALYSIS", "FINAL_VERIFICATION", "COMPLETED"}
    BY <2>3 DEF Worked
  <2> QED BY <1>5, <1>6, <1>7, <1>8, <2>4 DEF EndOK
<1>9. CASE Schedule(Rebased, None, offers, questions, chg, done)
  BY <1>5, <1>6, <1>7, <1>9, Others, RebasedOK, ScheduleEnds
<1> QED BY <1>4, <1>8, <1>9

\* What a semantic revision blocks, its change explains.
LEMMA BlockingEnds ==
  ASSUME Inductive, EndOK, BlockAffected
  PROVE  EndOK'
<1> USE PipelineAssumption
<1>1. /\ change \in Change /\ changes[change].affected = {}
      /\ changes[change].status = "CHANGE_PENDING"
  BY AnalysedChange DEF BlockAffected
<1>2. PICK arts, chg, off : arts = artifacts' /\ chg = changes' /\ off = offers'
  OBVIOUS
<1>3. PICK affected \in SUBSET Dependent, hits \in SUBSET Task :
        /\ arts = [a \in Artifact |->
             IF a \in affected
               THEN [Reset(artifacts[a], "BLOCKED") EXCEPT !.change = change]
               ELSE artifacts[a]]
        /\ chg = [changes EXCEPT ![change].analysed = TRUE, ![change].affected = affected,
                                 ![change].hits = hits]
        /\ off = [offers EXCEPT ![Guide] =
             [status |-> "PENDING", of |-> changes[change].content,
              change |-> change, blocks |-> hits]]
  BY <1>2 DEF BlockAffected
<1>4. /\ \A c \in Change \ {change} : chg[c] = changes[c]
      /\ chg[change].analysed /\ chg[change].status = "CHANGE_PENDING"
      /\ chg[change].affected = affected
  <2>1. changes \in Changes /\ changes[change] \in
          [status : {"NONE", "CHANGE_PENDING", "PROPAGATING", "ACCEPTED"},
           analysed : BOOLEAN, content : Maybe(Content),
           affected : SUBSET Artifact, hits : SUBSET Task]
    BY <1>1, Others DEF Changes
  <2>2. /\ \A c \in Change \ {change} : chg[c] = changes[c]
        /\ chg[change] = [changes[change] EXCEPT !.analysed = TRUE, !.affected = affected,
                                                 !.hits = hits]
    BY <1>1, <1>3, <2>1 DEF Changes
  <2>3. /\ chg[change].analysed /\ chg[change].status = changes[change].status
        /\ chg[change].affected = affected
    BY <2>1, <2>2
  <2> QED BY <1>1, <2>2, <2>3
<1>5. Explained(arts, questions, chg)
  <2>1. SUFFICES ASSUME NEW a \in Artifact, arts[a].status = "BLOCKED"
                 PROVE  \/ questions[a].status \in {"PENDING", "RESOLVED"}
                        \/ \E c \in Change : /\ chg[c].status = "CHANGE_PENDING"
                                             /\ a \in chg[c].affected
    BY DEF Explained
  <2>2. CASE a \in affected
    BY <1>1, <1>4, <2>2
  <2>3. CASE a \notin affected
    <3>1. artifacts[a].status = "BLOCKED"
      BY <1>3, <2>1, <2>3
    <3> QED BY <1>1, <1>4, <3>1 DEF EndOK, Explained
  <2> QED BY <2>2, <2>3
<1>6. Unreached(chg)
  BY <1>4 DEF EndOK, Unreached
<1>7. AsksAnalysed(off, chg)
  <2>1. off[Guide].change = change
    BY <1>3, Others DEF OffersOK, Offers
  <2> QED BY <1>4, <2>1 DEF AsksAnalysed
<1>8. UNCHANGED questions /\ Place' = "WAITING_FOR_HUMAN"
  BY DEF BlockAffected, Place
<1> QED BY <1>2, <1>5, <1>6, <1>7, <1>8 DEF EndOK

\* The promotion of the guide releases all that only its change explained.
LEMMA GuideDecisionEnds ==
  ASSUME Inductive, EndOK, ChainOK', DecideGuide
  PROVE  EndOK'
<1> USE PipelineAssumption
<1>1. PICK c : c = offers[Guide].change
  OBVIOUS
<1>2. PICK chg, off, new : /\ chg = [changes EXCEPT ![c].status = "PROPAGATING"]
                           /\ off = Resolve(offers, Guide) /\ new = Released(c)
  OBVIOUS
<1>3. offers[Guide].status = "PENDING" /\ Schedule(new, current, off, questions, chg, done)
  BY <1>1, <1>2 DEF DecideGuide
<1>4. c \in Change /\ changes[c].analysed
  BY <1>1, <1>3, Others DEF EndOK, AsksAnalysed, OffersOK
<1>5. /\ \A d \in Change \ {c} : chg[d] = changes[d]
      /\ chg[c].analysed = changes[c].analysed
  <2>1. /\ changes \in Changes
        /\ changes[c] \in [status : {"NONE", "CHANGE_PENDING", "PROPAGATING", "ACCEPTED"},
                           analysed : BOOLEAN, content : Maybe(Content),
                           affected : SUBSET Artifact, hits : SUBSET Task]
    BY <1>4, Others DEF Changes
  <2>2. /\ \A d \in Change \ {c} : chg[d] = changes[d]
        /\ chg[c] = [changes[c] EXCEPT !.status = "PROPAGATING"]
    BY <1>2, <1>4, <2>1 DEF Changes
  <2>3. chg[c].analysed = changes[c].analysed
    BY <2>1, <2>2
  <2> QED BY <2>2, <2>3
<1>6. off[Guide].status = "RESOLVED"
  BY <1>2, Others DEF Resolve, OffersOK, Offers
<1>7. ASSUME NEW a \in Artifact, new[a].status = "BLOCKED"
      PROVE  artifacts[a].status = "BLOCKED" /\ a \notin changes[c].affected
  <2>1. a \in Dependent
    BY <1>2, <1>7, ReleasedFields DEF Dependent
  <2>2. new[a] = artifacts[a]
    BY <1>2, <1>7, <2>1, ReleasedFields
  <2>3. ASSUME a \in changes[c].affected PROVE FALSE
    <3>1. new[a] = [Reset(artifacts[a], "PENDING") EXCEPT
                      !.derived = Derivation(artifacts, a), !.change = c]
      BY <1>2, <2>1, <2>3 DEF Released, Dependent
    <3>2. Reset(artifacts[a], "PENDING") \in ArtifactRecord
          /\ Reset(artifacts[a], "PENDING").status = "PENDING"
      <4>1. artifacts[a] \in ArtifactRecord /\ "PENDING" \in Status
        BY Others DEF ArtifactsOK, Status
      <4>2. Reset(artifacts[a], "PENDING") \in ArtifactRecord
        BY <4>1, ResetTyped
      <4> QED BY <4>1, <4>2 DEF Reset, ArtifactRecord
    <3>3. new[a].status = "PENDING"
      BY <3>1, <3>2 DEF ArtifactRecord
    <3> QED BY <1>7, <3>3
  <2> QED BY <1>7, <2>2, <2>3
<1>8. Explained(new, questions, chg)
  BY <1>5, <1>7 DEF EndOK, Explained
<1>9. Unreached(chg)
  BY <1>4, <1>5 DEF EndOK, Unreached
<1>10. AsksAnalysed(off, chg)
  BY <1>6 DEF AsksAnalysed
<1>11. ArtifactsOK(new)
  BY <1>2, <1>4, ReleasedOK
<1> QED BY <1>3, <1>8, <1>9, <1>10, <1>11, ScheduleEnds

LEMMA DecisionEnds ==
  ASSUME Inductive, ChainOK, EndOK, ChainOK', Decide
  PROVE  EndOK'
<1> USE PipelineAssumption
<1>1. ArtifactsOK(artifacts) /\ artifacts \in [Artifact -> ArtifactRecord]
  BY Others DEF ArtifactsOK
<1>2. CASE DecideGuide
  BY <1>2, GuideDecisionEnds
<1>3. CASE DecidePromotion
  <2>1. PICK a \in Gated : Schedule(Promoted(artifacts, a), current, Resolve(offers, a),
                                    questions, changes, done)
    BY <1>3 DEF DecidePromotion
  <2>2. a \in Artifact /\ a # Guide /\ artifacts[a] \in ArtifactRecord
    BY <1>1
  <2>3. Resolve(offers, a)[Guide] = offers[Guide]
    BY <2>2, Others DEF Resolve, OffersOK, Offers
  <2>4. /\ \A b \in Artifact \ {a} : Promoted(artifacts, a)[b] = artifacts[b]
        /\ Promoted(artifacts, a)[a] =
             [artifacts[a] EXCEPT !.status = "ACCEPTED", !.accepted = artifacts[a].candidate,
                                  !.recorded = TRUE]
    BY <1>1, <2>2 DEF Promoted
  <2>5. Promoted(artifacts, a)[a].status = "ACCEPTED"
    BY <2>2, <2>4 DEF ArtifactRecord
  <2>6. \A b \in Artifact : Promoted(artifacts, a)[b].status = "BLOCKED" =>
          artifacts[b].status = "BLOCKED"
    BY <2>4, <2>5
  <2>7. ArtifactsOK(Promoted(artifacts, a))
    BY <1>1, PromotedOK
  <2> QED BY <2>1, <2>3, <2>6, <2>7, SchedulingEnds
<1>4. CASE DecideQuestion
  <2>1. PICK a \in Pending(questions) :
          LET again == IF artifacts[a].candidate = None THEN "PENDING"
                       ELSE "REVIEW_REQUIRED"
          IN Schedule([artifacts EXCEPT ![a].status = IF @ = "BLOCKED" THEN again ELSE @],
                      current, offers, Resolve(questions, a), changes, done)
    BY <1>4 DEF DecideQuestion
  <2> DEFINE again  == IF artifacts[a].candidate = None THEN "PENDING" ELSE "REVIEW_REQUIRED"
             status == IF artifacts[a].status = "BLOCKED" THEN again ELSE artifacts[a].status
             new    == [artifacts EXCEPT ![a].status = status]
             ques   == Resolve(questions, a)
  <2>2. Schedule(new, current, offers, ques, changes, done)
    BY <2>1
  <2>3. a \in Artifact /\ artifacts[a] \in ArtifactRecord
    BY <1>1 DEF Pending
  <2>4. status # "BLOCKED" /\ status \in Status
    BY <2>3 DEF ArtifactRecord, Status
  <2> HIDE DEF status
  <2>5. ArtifactsOK(new)
    BY <1>1, <2>4, StatusOK
  <2>6. new[a].status = status /\ \A b \in Artifact \ {a} : new[b] = artifacts[b]
    BY <1>1, <2>3, StatusRecord
  <2>7. \A b \in Artifact \ {a} : ques[b] = questions[b]
    BY Others DEF Resolve, Questions
  <2> HIDE DEF new, ques
  <2>8. Explained(new, ques, changes)
    BY <2>4, <2>6, <2>7 DEF EndOK, Explained
  <2> QED BY <2>2, <2>5, <2>8, ScheduleEnds DEF EndOK
<1> QED BY <1>2, <1>3, <1>4 DEF Decide

-----------------------------------------------------------------------------
(* What the project completes on *)

LEMMA InitEnds == Init => EndOK
<1> SUFFICES ASSUME Init PROVE EndOK
  OBVIOUS
<1> USE PipelineAssumption
<1>1. \A a \in Artifact : artifacts[a].status # "BLOCKED"
  BY DEF Init
<1>2. \A c \in Change : changes[c].affected = {} /\ changes[c].status = "NONE"
  BY DEF Init, NoChange
<1>3. offers[Guide].status = "NONE" /\ stage = "READY"
  BY DEF Init, NoOffer
<1> QED BY <1>1, <1>2, <1>3 DEF EndOK, Explained, Unreached, AsksAnalysed, Place

LEMMA NextEnds == Inductive /\ ChainOK /\ ChainOK' /\ EndOK /\ [Next]_vars => EndOK'
<1> SUFFICES ASSUME Inductive, ChainOK, ChainOK', EndOK, [Next]_vars PROVE EndOK'
  OBVIOUS
<1>1. CASE Generate \/ ApplyPatch \/ RejectPatch
  BY <1>1, CandidateStepsEnd
<1>2. CASE ValidationPasses \/ ValidationFails \/ ValidatorBreaks
  BY <1>2, ValidationEnds
<1>3. CASE ReviewApproves \/ ReviewRequiresPatch \/ Ask
  BY <1>3, ReviewEnds
<1>4. CASE InvalidOutcome \/ Recover \/ Reschedule \/ CompleteTask \/ FinishProject
  BY <1>4, OtherWorkEnds
<1>5. CASE Detect \/ DetectAgain
  BY <1>5, DetectionEnds
<1>6. CASE AcceptRevision
  BY <1>6, AcceptanceEnds
<1>7. CASE BlockAffected
  BY <1>7, BlockingEnds
<1>8. CASE Decide
  BY <1>8, DecisionEnds
<1>9. CASE UNCHANGED vars
  BY <1>9 DEF vars, EndOK, Place
<1> QED BY <1>1, <1>2, <1>3, <1>4, <1>5, <1>6, <1>7, <1>8, <1>9 DEF Next, Step, Work

\* The project completes only on an accepted conformance specification; all
\* other artifacts are accepted then, each derived from the one revision its
\* upstream has, except for a promotion that was parked, for an artifact whose
\* answered question was asked again, and for what depends on one of those.
THEOREM CompletesOnlyOnAcceptedChain == Spec => []CompletesOnAcceptedChain
<1>1. Inductive /\ ChainOK /\ EndOK => CompletesOnAcceptedChain
  <2> SUFFICES ASSUME Inductive, ChainOK, EndOK, stage = "COMPLETED"
               PROVE  CompletesOnAcceptedChain
    BY DEF CompletesOnAcceptedChain
  <2>1. Place = "COMPLETED"
    BY DEF Place
  <2>2. artifacts[Conformance].status = "ACCEPTED"
    BY <2>1 DEF EndOK
  <2>3. ASSUME NEW a \in Artifact, artifacts[a].status = "ACCEPTED", NEW u \in Upstream[a]
        PROVE  /\ artifacts[a].derived[u] = artifacts[u].accepted
               /\ Revision(artifacts[u]) = artifacts[u].accepted
    <3>1. a \in Dependent /\ u \in Artifact
      BY <2>3, PipelineAssumption DEF Dependent
    <3>2. artifacts[a].derived[u] = artifacts[u].accepted
      BY <2>3, <3>1 DEF ChainOK, Chained, Held
    <3>3. artifacts[a].derived = Derivation(artifacts, a)
      BY <2>1, <2>3, <3>1 DEF ChainOK, Placed, Verified, Fresh
    <3>4. Derivation(artifacts, a)[u] = Revision(artifacts[u])
      BY <3>1 DEF Derivation
    <3> QED BY <3>2, <3>3, <3>4
  <2>4. ASSUME NEW a \in Artifact, artifacts[a].status # "ACCEPTED"
        PROVE  \E b \in LeftBehind : a = b \/ a \in Descendants(b)
    BY <2>1, <2>4 DEF EndOK, RestsOnAccepted, PassedOver, LeftBehind
  <2> QED BY <2>2, <2>3, <2>4 DEF CompletesOnAcceptedChain
<1>2. Init => EndOK
  BY InitEnds
<1>3. Inductive /\ ChainOK /\ ChainOK' /\ EndOK /\ [Next]_vars => EndOK'
  BY NextEnds
<1> QED BY <1>1, <1>2, <1>3, AlwaysChained, PTL DEF Spec

=============================================================================
