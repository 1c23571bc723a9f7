----------------------- MODULE ArtifactPromotionProofs -----------------------
(***************************************************************************)
(* Proofs about ArtifactPromotion, for any set of files and any number of  *)
(* candidates.                                                             *)
(***************************************************************************)
EXTENDS ArtifactPromotion, TLAPS

\* The initial states are typed, and nothing is accepted or recorded yet.
LEMMA InitInductive == Init => Inductive
<1> SUFFICES ASSUME Init PROVE Inductive
  OBVIOUS
<1> USE PromotionAssumption DEF Init, NoRecord, Revision, Content
<1>1. TypeOK
  <2>1. 0 \in Revision
    OBVIOUS
  <2>2. files \in [Target -> Content] /\ [t \in Target |-> 0] \in [Target -> Content]
    BY <2>1
  <2> QED BY <2>1, <2>2 DEF TypeOK
<1>2. CandidateIsApproved /\ VisitedIsInPlace /\ AcceptedIsInPlace
  BY DEF CandidateIsApproved, VisitedIsInPlace, AcceptedIsInPlace
<1>3. RecordHoldsBaseline /\ ProjectedIsRecorded
  BY DEF RecordHoldsBaseline, ProjectedIsRecorded, Recorded, Baseline
<1> QED BY <1>1, <1>2, <1>3 DEF Inductive

\* A new candidate, a stale one and a decision change the artifact only.
LEMMA LifeCycleKeepsInductive ==
  ASSUME Inductive, Derive \/ Stale \/ Prepare \/ Decide
  PROVE  Inductive'
<1> USE PromotionAssumption DEF Inductive, TypeOK, Revision, Content, Foreign, Goto
<1>1. CASE Derive
  <2>1. TypeOK'
    <3>1. artifact.candidate + 1 \in Revision
      BY <1>1 DEF Derive
    <3> QED BY <1>1, <3>1 DEF Derive
  <2>2. CandidateIsApproved'
    BY <1>1, <2>1 DEF Derive, CandidateIsApproved
  <2>3. ~Recorded("PREPARED")'
    BY <1>1 DEF Derive, CandidateIsApproved, Recorded
  <2> QED BY <1>1, <2>1, <2>2, <2>3
          DEF Derive, VisitedIsInPlace, RecordHoldsBaseline, AcceptedIsInPlace,
              ProjectedIsRecorded
<1>2. CASE Stale
  BY <1>2 DEF Stale, CandidateIsApproved, VisitedIsInPlace, RecordHoldsBaseline,
              AcceptedIsInPlace, ProjectedIsRecorded, Recorded, Baseline
<1>3. CASE Prepare
  BY <1>3 DEF Prepare, CandidateIsApproved, VisitedIsInPlace, RecordHoldsBaseline,
              AcceptedIsInPlace, ProjectedIsRecorded, Recorded, Baseline
<1>4. CASE Decide
  BY <1>4 DEF Decide, CandidateIsApproved, VisitedIsInPlace, RecordHoldsBaseline,
              AcceptedIsInPlace, ProjectedIsRecorded, Recorded, Baseline
<1> QED BY <1>1, <1>2, <1>3, <1>4

\* An error leaves everything but the process as it is.
LEMMA RaiseKeepsInductive ==
  ASSUME Inductive, Raise
  PROVE  Inductive'
BY DEF Inductive, Raise, TypeOK, CandidateIsApproved, VisitedIsInPlace,
       RecordHoldsBaseline, AcceptedIsInPlace, ProjectedIsRecorded, Recorded, Baseline

\* What validation has let through is the baseline, or the candidate already.
LEMMA ValidateKeepsInductive ==
  ASSUME Inductive, Validate
  PROVE  Inductive'
<1> USE PromotionAssumption DEF Inductive, TypeOK, Revision, Content, Foreign, Goto
<1>1. CASE Raise
  BY <1>1, RaiseKeepsInductive
<1>2. CASE Recorded("COMMITTED") /\ AllCommitted /\ ~Raise
  BY <1>2 DEF Validate, AllCommitted, CandidateIsApproved, VisitedIsInPlace,
              RecordHoldsBaseline, AcceptedIsInPlace, ProjectedIsRecorded,
              Recorded, Baseline
<1>3. CASE ~Recorded("COMMITTED") /\ ~Refused(AcceptedNow) /\ ~Raise
  <2>1. \A t \in Target : files[t] \in {artifact.candidate, Baseline(t)}
    BY <1>3 DEF Refused, PrimaryDrift, LinkedDrift, AcceptedNow, Baseline
  <2>2. promotion.status # "PREPARED" => files[Primary] <= artifact.accepted
    BY <1>3 DEF Refused, PrimaryDrift, AcceptedNow
  <2> QED BY <1>3, <2>1, <2>2
          DEF Validate, CandidateIsApproved, VisitedIsInPlace,
              RecordHoldsBaseline, AcceptedIsInPlace, ProjectedIsRecorded,
              Recorded, Baseline
<1> QED BY <1>1, <1>2, <1>3 DEF Validate

\* A fresh record holds the baseline, a resumed one held it already.
LEMMA RecordKeepsInductive ==
  ASSUME Inductive, Record
  PROVE  Inductive'
<1> USE PromotionAssumption DEF Inductive, TypeOK, Revision, Content, Foreign
<1>1. CASE Raise
  BY <1>1, RaiseKeepsInductive
<1>2. CASE promotion.status = "PREPARED" /\ ~Raise
  BY <1>2 DEF Record, Resumable, CandidateIsApproved, VisitedIsInPlace,
              RecordHoldsBaseline, AcceptedIsInPlace, ProjectedIsRecorded,
              Recorded, Baseline
<1>3. CASE promotion.status # "PREPARED" /\ ~Raise
  <2>1. TypeOK' /\ CandidateIsApproved'
    BY <1>3 DEF Record, CandidateIsApproved
  <2>2. VisitedIsInPlace' /\ AcceptedIsInPlace'
    BY <1>3 DEF Record, VisitedIsInPlace, AcceptedIsInPlace, Recorded,
                CandidateIsApproved
  <2>3. RecordHoldsBaseline' /\ ProjectedIsRecorded'
    BY <1>3 DEF Record, RecordHoldsBaseline, ProjectedIsRecorded, Recorded, Baseline
  <2> QED BY <2>1, <2>2, <2>3
<1> QED BY <1>1, <1>2, <1>3

\* Every target the loop leaves behind is at the candidate.
LEMMA WriteKeepsInductive ==
  ASSUME Inductive, WriteTarget
  PROVE  Inductive'
<1> USE PromotionAssumption DEF Inductive, TypeOK, Revision, Content, Foreign
<1>1. CASE Raise
  BY <1>1, RaiseKeepsInductive
<1>2. CASE ~Raise
  <2>1. PICK t \in todo :
          /\ files' = [files EXCEPT ![t] = artifact.candidate]
          /\ todo' = todo \ {t}
          /\ UNCHANGED <<artifact, policy, promotion, decision, pending, pc, raced>>
    BY <1>2 DEF WriteTarget, NextTargets
  <2>2. pc = "write" /\ Recorded("PREPARED")
    BY DEF WriteTarget, VisitedIsInPlace
  <2>3. TypeOK' /\ CandidateIsApproved'
    BY <2>1, <2>2 DEF CandidateIsApproved
  <2>4. VisitedIsInPlace' /\ AcceptedIsInPlace'
    BY <2>1, <2>2 DEF VisitedIsInPlace, AcceptedIsInPlace, Recorded,
                      CandidateIsApproved
  <2>5. RecordHoldsBaseline' /\ ProjectedIsRecorded'
    BY <2>1, <2>2 DEF RecordHoldsBaseline, ProjectedIsRecorded, Recorded, Baseline
  <2> QED BY <2>3, <2>4, <2>5
<1> QED BY <1>1, <1>2

\* The record is closed, and the artifact accepted, once the loop is through.
LEMMA CommitKeepsInductive ==
  ASSUME Inductive, CommitRecord \/ Finalize
  PROVE  Inductive'
<1> USE PromotionAssumption DEF Inductive, TypeOK, Revision, Content, Foreign, Goto
<1>1. CASE CommitRecord
  BY <1>1 DEF CommitRecord, CandidateIsApproved, VisitedIsInPlace,
              RecordHoldsBaseline, AcceptedIsInPlace, ProjectedIsRecorded,
              Recorded, Baseline
<1>2. CASE Finalize
  <2>1. TypeOK'
    BY <1>2 DEF Finalize
  <2>2. CandidateIsApproved'
    BY <1>2 DEF Finalize, CandidateIsApproved, VisitedIsInPlace, Recorded
  <2>3. VisitedIsInPlace' /\ AcceptedIsInPlace'
    BY <1>2 DEF Finalize, VisitedIsInPlace, AcceptedIsInPlace
  <2>4. RecordHoldsBaseline' /\ ProjectedIsRecorded'
    BY <1>2 DEF Finalize, VisitedIsInPlace, CandidateIsApproved,
                RecordHoldsBaseline, ProjectedIsRecorded, Recorded
  <2> QED BY <2>1, <2>2, <2>3, <2>4
<1> QED BY <1>1, <1>2

\* A human's edit is met by a later check, or goes into the history.
LEMMA EnvironmentKeepsInductive ==
  ASSUME Inductive, Crash \/ HumanEdits \/ OtherDecision
  PROVE  Inductive'
<1> USE PromotionAssumption DEF Inductive, TypeOK, Revision, Content, Foreign
<1>1. CASE Crash
  BY <1>1, RaiseKeepsInductive DEF Crash
<1>2. CASE HumanEdits
  <2>1. PICK t \in Target, content \in {Foreign, artifact.accepted} :
          /\ files' = [files EXCEPT ![t] = content]
          /\ raced' = IF CheckIsAhead(t) THEN raced ELSE raced \cup {t}
          /\ UNCHANGED <<artifact, policy, promotion, decision, pending, todo, pc>>
    BY <1>2 DEF HumanEdits
  <2>2. TypeOK' /\ CandidateIsApproved'
    BY <2>1 DEF CandidateIsApproved
  <2>3. VisitedIsInPlace' /\ AcceptedIsInPlace'
    BY <2>1 DEF VisitedIsInPlace, AcceptedIsInPlace, Recorded, CheckIsAhead,
                CandidateIsApproved
  <2>4. RecordHoldsBaseline' /\ ProjectedIsRecorded'
    BY <2>1 DEF RecordHoldsBaseline, ProjectedIsRecorded, Recorded, Baseline,
                CheckIsAhead
  <2> QED BY <2>2, <2>3, <2>4
<1>3. CASE OtherDecision
  BY <1>3 DEF OtherDecision, CandidateIsApproved, VisitedIsInPlace,
              RecordHoldsBaseline, AcceptedIsInPlace, ProjectedIsRecorded,
              Recorded, Baseline
<1> QED BY <1>1, <1>2, <1>3

\* Every step keeps the invariant.
LEMMA StepInductive == Inductive /\ [Next]_vars => Inductive'
<1>1. ASSUME Inductive, UNCHANGED vars PROVE Inductive'
  BY <1>1 DEF vars, Inductive, TypeOK, CandidateIsApproved, VisitedIsInPlace,
              RecordHoldsBaseline, AcceptedIsInPlace, ProjectedIsRecorded,
              Recorded, Baseline
<1> QED BY <1>1, LifeCycleKeepsInductive, ValidateKeepsInductive,
           RecordKeepsInductive, WriteKeepsInductive, CommitKeepsInductive,
           EnvironmentKeepsInductive DEF Next, Process

\* Inductive is an invariant of the specification.
THEOREM InductiveInvariant == Spec => []Inductive
BY InitInductive, StepInductive, PTL DEF Spec

\* Every variable keeps to its set of values.
THEOREM TypeCorrect == Spec => []TypeOK
<1>1. Inductive => TypeOK
  BY DEF Inductive
<1> QED BY <1>1, InductiveInvariant, PTL

\* Whatever crashes, resumed records and superseded candidates come between,
\* an accepted artifact has its whole projection in the project.
THEOREM AcceptedProjectionIsWhole == Spec => []AcceptedIsInPlace
<1>1. Inductive => AcceptedIsInPlace
  BY DEF Inductive
<1> QED BY <1>1, InductiveInvariant, PTL

\* A revision that is not accepted is in the primary file only under a record.
THEOREM ProjectionIsRecorded == Spec => []ProjectedIsRecorded
<1>1. Inductive => ProjectedIsRecorded
  BY DEF Inductive
<1> QED BY <1>1, InductiveInvariant, PTL

\* A promotion writes over the baseline of its candidate and nothing else.
THEOREM OnlyBaselineIsOverwritten == Spec => OverwritesOnlyBaseline
<1> DEFINE Overwrites ==
      \A t \in Target \ raced :
        pc = "write" /\ files'[t] = artifact.candidate /\ files[t] # files'[t]
          => files[t] = Baseline(t)
<1>1. ASSUME Inductive, Next PROVE Overwrites
  <2> SUFFICES ASSUME pc = "write", NEW t \in Target \ raced,
                      files'[t] = artifact.candidate, files[t] # files'[t]
               PROVE  files[t] = Baseline(t)
    OBVIOUS
  <2> USE PromotionAssumption DEF Inductive, TypeOK, Revision, Content, Foreign
  <2>1. promotion.before[t] \in {artifact.candidate, Baseline(t)}
    BY <1>1 DEF VisitedIsInPlace, RecordHoldsBaseline
  <2>2. CASE WriteTarget
    <3>1. PICK u \in todo : /\ files[u] \in {artifact.candidate, promotion.before[u]}
                            /\ files' = [files EXCEPT ![u] = artifact.candidate]
      BY <2>2 DEF WriteTarget, NextTargets, Raise
    <3> QED BY <2>1, <3>1
  <2>3. CASE HumanEdits
    <3>1. files'[t] \in {Foreign, artifact.accepted}
      BY <1>1, <2>3 DEF HumanEdits
    <3>2. artifact.accepted < artifact.candidate
      BY <1>1 DEF CandidateIsApproved
    <3> QED BY <1>1, <3>1, <3>2
  <2>4. CASE ~WriteTarget /\ ~HumanEdits
    BY <1>1, <2>4 DEF Next, Process, Derive, Stale, Prepare, Decide, Validate,
                      Record, CommitRecord, Finalize, Crash, OtherDecision,
                      Goto, Raise
  <2> QED BY <2>2, <2>3, <2>4
<1>2. ASSUME UNCHANGED vars PROVE Overwrites
  BY <1>2 DEF vars
<1>3. Inductive /\ [Next]_vars => [Overwrites]_vars
  BY <1>1, <1>2
<1> QED BY <1>3, InductiveInvariant, PTL DEF Spec, OverwritesOnlyBaseline

\* What is accepted is what its committed record says.
THEOREM AcceptedAsRecorded == Spec => AcceptsWhatWasRecorded
<1> DEFINE Accepts ==
      artifact'.accepted # artifact.accepted =>
        promotion.status = "COMMITTED" /\ promotion.candidate = artifact'.accepted
<1>1. ASSUME Inductive, Next PROVE Accepts
  <2>1. CASE Finalize
    BY <1>1, <2>1 DEF Inductive, TypeOK, VisitedIsInPlace, Recorded, Finalize
  <2>2. CASE ~Finalize
    BY <1>1, <2>2 DEF Inductive, TypeOK, Next, Process, Derive, Stale, Prepare,
                      Decide, Validate, Record, WriteTarget, CommitRecord,
                      Crash, HumanEdits, OtherDecision, Goto, Raise
  <2> QED BY <2>1, <2>2
<1>2. ASSUME UNCHANGED vars PROVE Accepts
  BY <1>2 DEF vars
<1>3. Inductive /\ [Next]_vars => [Accepts]_vars
  BY <1>1, <1>2
<1> QED BY <1>3, InductiveInvariant, PTL DEF Spec, AcceptsWhatWasRecorded

=============================================================================
