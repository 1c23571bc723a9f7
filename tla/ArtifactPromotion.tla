-------------------------- MODULE ArtifactPromotion --------------------------
(***************************************************************************)
(* The promotion of one typed artifact: its approved candidate replaces    *)
(* the accepted revision in the files of its projection, a primary file    *)
(* and the files linked to it, one after the other, under a record that    *)
(* says PREPARED before the first write and COMMITTED after the last.  The *)
(* process can die between any two writes, a human may edit the files, and *)
(* the candidate may be superseded before the promotion is taken up again. *)
(*                                                                         *)
(* A file's content is the number of the revision it belongs to, 0 being   *)
(* what was accepted at first (or its absence), or something foreign that  *)
(* a human wrote.  What leads to an approved candidate (generation,        *)
(* validators, review) is one step; the gates of a step are Orchestrator's.*)
(***************************************************************************)
EXTENDS Integers

CONSTANTS
  Target,       \* files of the artifact's projection
  Primary,      \* the one at accepted_path
  MaxRevision,  \* bound: candidates derived
  Disturbances  \* bound: what happens beside the promotion

ASSUME PromotionAssumption ==
  /\ Primary \in Target /\ MaxRevision \in Nat
  /\ Disturbances \subseteq {"edit", "decision", "stale"}

VARIABLES
  files,      \* content of each target
  artifact,   \* state.json: the artifact, with the baselines it declares
  policy,     \* promotion_policy of the artifact
  promotion,  \* its promotion record
  decision,   \* the human decision to promote it
  pending,    \* another decision of the workflow is pending
  todo,       \* the targets the loop has still to visit
  pc,         \* what the process does next; "idle" when there is none
  raced       \* history: targets edited when no check was ahead of them

vars == <<files, artifact, policy, promotion, decision, pending, todo, pc, raced>>

Foreign == -1
Revision == 0 .. MaxRevision
Content == Revision \cup {Foreign}
NoRecord == [status |-> "NONE", candidate |-> 0, before |-> [t \in Target |-> 0]]

\* An accepted artifact that an accepted upstream revision has made stale.
Init ==
  /\ files = [t \in Target |-> 0]
  /\ artifact = [status |-> "PENDING", accepted |-> 0, candidate |-> 0,
                 linked |-> files]
  /\ policy \in {"AUTO", "HUMAN_GATE"}
  /\ promotion = NoRecord
  /\ decision = "NONE" /\ pending = FALSE
  /\ todo = {} /\ pc = "idle" /\ raced = {}

Goto(phase) == pc' = phase /\ UNCHANGED <<files, policy, pending, todo>>

-----------------------------------------------------------------------------
(* Preconditions *)

\* What a target has to be when the candidate replaces it: the accepted
\* revision for the primary file, the declared baseline for a linked one.
Baseline(t) == IF t = Primary THEN artifact.accepted ELSE artifact.linked[t]

\* projection_target_errors; a linked target may be at the candidate already.
LinkedDrift ==
  \E t \in Target \ {Primary} :
    files[t] \notin {artifact.candidate, artifact.linked[t]}

PrimaryDrift(accepted) == files[Primary] # accepted

\* validate_artifact_promotion, of what can change after the approval.
Refused(accepted) == pending \/ PrimaryDrift(accepted) \/ LinkedDrift

AllCommitted == \A t \in Target : files[t] = artifact.candidate

Recorded(status) ==
  promotion.status = status /\ promotion.candidate = artifact.candidate

-----------------------------------------------------------------------------
(* Before the promotion *)

\* The Agent pins the linked targets it saw; validators and review approve.
\* "APPROVED" is an approval that the next step carries out: state.json says
\* so in its stage, the artifact itself only after that step.
Derive ==
  /\ pc = "idle" /\ artifact.status = "PENDING"
  /\ artifact.candidate < MaxRevision
  /\ artifact' = [artifact EXCEPT !.status = "APPROVED", !.candidate = @ + 1,
                                  !.linked = files]
  /\ Goto("idle") /\ UNCHANGED <<promotion, decision, raced>>

\* reconcile_artifact_staleness, once an upstream revision has changed.
Stale ==
  /\ "stale" \in Disturbances
  /\ pc = "idle" /\ artifact.status # "PENDING"
  /\ artifact.candidate < MaxRevision
  /\ artifact' = [artifact EXCEPT !.status = "PENDING"]
  /\ decision' = IF decision = "PENDING" THEN "SUPERSEDED" ELSE decision
  /\ Goto("idle") /\ UNCHANGED <<promotion, raced>>

\* _prepare_artifact_promotion.  A refusal is saved as a retry of a stage
\* that is READY by now; next_artifact passes over PROMOTION_READY.
Prepare ==
  /\ pc = "idle" /\ artifact.status = "APPROVED"
  /\ IF policy = "AUTO" /\ ~Refused(artifact.accepted)
       THEN Goto("validate") /\ UNCHANGED <<artifact, decision>>
       ELSE /\ artifact' = [artifact EXCEPT !.status = "PROMOTION_READY"]
            /\ decision' = IF Refused(artifact.accepted) THEN decision ELSE "PENDING"
            /\ Goto("idle")
  /\ UNCHANGED <<promotion, raced>>

\* decide with the option promote; nothing is saved before the promotion.
Decide ==
  /\ pc = "idle" /\ decision = "PENDING"
  /\ Goto("validate")
  /\ UNCHANGED <<artifact, promotion, decision, raced>>

-----------------------------------------------------------------------------
(* _promote_artifact *)

\* An OrchestratorError: state.json stays as it was, the record too.
Raise == pc' = "idle" /\ todo' = {}
         /\ UNCHANGED <<files, artifact, policy, promotion, decision, pending, raced>>

\* The revision an interrupted promotion has put in place counts as accepted.
AcceptedNow ==
  IF promotion.status = "PREPARED" /\ files[Primary] = artifact.candidate
    THEN artifact.candidate ELSE artifact.accepted

\* Faulty variant: whose record it is does not matter.
ResumableOfAnyCandidate ==
  \A t \in Target : files[t] \in {promotion.before[t], artifact.candidate}

\* What a PREPARED record has to agree with.
Resumable ==
  /\ promotion.candidate = artifact.candidate
  /\ \A t \in Target : files[t] \in {promotion.before[t], artifact.candidate}

\* Faulty variant: a committed record is believed without a look at the files.
ValidateBelievesRecord ==
  /\ pc = "validate"
  /\ \/ /\ Recorded("COMMITTED")
        /\ Goto("finalize") /\ raced' = {}
        /\ UNCHANGED <<artifact, promotion, decision>>
     \/ ~Recorded("COMMITTED") /\ Refused(AcceptedNow) /\ Raise
     \/ /\ ~Recorded("COMMITTED") /\ ~Refused(AcceptedNow)
        /\ Goto("record")
        /\ raced' = IF promotion.status = "PREPARED" THEN raced ELSE {}
        /\ UNCHANGED <<artifact, promotion, decision>>

Validate ==
  /\ pc = "validate"
  /\ \/ /\ Recorded("COMMITTED") /\ AllCommitted
        /\ Goto("finalize") /\ raced' = {}
        /\ UNCHANGED <<artifact, promotion, decision>>
     \/ Recorded("COMMITTED") /\ ~AllCommitted /\ Raise
     \/ ~Recorded("COMMITTED") /\ Refused(AcceptedNow) /\ Raise
     \/ /\ ~Recorded("COMMITTED") /\ ~Refused(AcceptedNow)
        /\ Goto("record")
        /\ raced' = IF promotion.status = "PREPARED" THEN raced ELSE {}
        /\ UNCHANGED <<artifact, promotion, decision>>

\* The hashes of before are those of now, and no longer those validated.
Record ==
  /\ pc = "record"
  /\ IF promotion.status = "PREPARED" /\ ~Resumable THEN Raise
     ELSE /\ promotion' = IF promotion.status = "PREPARED" THEN promotion
                          ELSE [status    |-> "PREPARED",
                                candidate |-> artifact.candidate,
                                before    |-> files]
          /\ pc' = "write" /\ todo' = Target
          /\ UNCHANGED <<files, artifact, policy, decision, pending, raced>>

\* The primary file is the first of the projection.
NextTargets == IF Primary \in todo THEN {Primary} ELSE todo

\* Faulty variant: a file is replaced whatever it holds.
WriteAnything ==
  /\ pc = "write"
  /\ \E t \in NextTargets :
       /\ files' = [files EXCEPT ![t] = artifact.candidate]
       /\ todo' = todo \ {t}
  /\ UNCHANGED <<artifact, policy, promotion, decision, pending, pc, raced>>

\* Bound: a file is compared and replaced in one step.
WriteTarget ==
  /\ pc = "write"
  /\ \E t \in NextTargets :
       IF files[t] \in {artifact.candidate, promotion.before[t]}
         THEN /\ files' = [files EXCEPT ![t] = artifact.candidate]
              /\ todo' = todo \ {t}
              /\ UNCHANGED <<artifact, policy, promotion, decision, pending, pc, raced>>
         ELSE Raise

CommitRecord ==
  /\ pc = "write" /\ todo = {}
  /\ promotion' = [promotion EXCEPT !.status = "COMMITTED"]
  /\ Goto("finalize")
  /\ UNCHANGED <<artifact, decision, raced>>

\* Faulty variant: the accepted revision is read back from the file.
FinalizeReadsBack ==
  /\ pc = "finalize"
  /\ artifact' = [artifact EXCEPT !.status = "ACCEPTED", !.accepted = files[Primary]]
  /\ decision' = IF policy = "HUMAN_GATE" THEN "RESOLVED" ELSE decision
  /\ Goto("idle")
  /\ UNCHANGED <<promotion, raced>>

\* _finalize_artifact_acceptance and the save of the step, or of decide.
Finalize ==
  /\ pc = "finalize"
  /\ artifact' = [artifact EXCEPT !.status = "ACCEPTED", !.accepted = artifact.candidate]
  /\ decision' = IF policy = "HUMAN_GATE" THEN "RESOLVED" ELSE decision
  /\ Goto("idle")
  /\ UNCHANGED <<promotion, raced>>

-----------------------------------------------------------------------------
(* The environment *)

\* The process dies, or a write fails and ends it.
Crash == pc # "idle" /\ Raise

CheckIsAhead(t) == \/ pc = "idle" /\ artifact.status # "ACCEPTED"
                   \/ pc = "validate"
                   \/ pc = "write" /\ t \in todo

HumanEdits ==
  /\ "edit" \in Disturbances
  /\ \E t \in Target : \E content \in {Foreign, artifact.accepted} \ {files[t]} :
       /\ files' = [files EXCEPT ![t] = content]
       /\ raced' = IF CheckIsAhead(t) THEN raced ELSE raced \cup {t}
  /\ UNCHANGED <<artifact, policy, promotion, decision, pending, todo, pc>>

\* A decision about something else is asked for, or answered.
OtherDecision ==
  /\ "decision" \in Disturbances /\ pc = "idle"
  /\ pending' = ~pending
  /\ UNCHANGED <<files, artifact, policy, promotion, decision, todo, pc, raced>>

Process == Validate \/ Record \/ WriteTarget \/ CommitRecord \/ Finalize

Next == \/ Derive \/ Stale \/ Prepare \/ Decide \/ Process
        \/ Crash \/ HumanEdits \/ OtherDecision

Spec == Init /\ [][Next]_vars

-----------------------------------------------------------------------------
(* Properties *)

\* Every variable keeps to its set of values.
TypeOK ==
  /\ files \in [Target -> Content]
  /\ artifact \in [status : {"PENDING", "APPROVED", "PROMOTION_READY", "ACCEPTED"},
                   accepted : Revision, candidate : Revision,
                   linked : [Target -> Content]]
  /\ policy \in {"AUTO", "HUMAN_GATE"}
  /\ promotion \in [status : {"NONE", "PREPARED", "COMMITTED"},
                    candidate : Revision, before : [Target -> Content]]
  /\ decision \in {"NONE", "PENDING", "RESOLVED", "SUPERSEDED"}
  /\ pending \in BOOLEAN /\ todo \subseteq Target /\ raced \subseteq Target
  /\ pc \in {"idle", "validate", "record", "write", "finalize"}

\* An artifact is accepted only with its whole projection in the project,
\* but for what a human changed behind the last check: no crash, resumed
\* record or superseded candidate leaves half of a revision accepted.
AcceptedIsInPlace ==
  artifact.status = "ACCEPTED" =>
    \A t \in Target \ raced : files[t] = artifact.accepted

\* A candidate replaces nothing but the revision it was derived from: what a
\* human wrote before the last check stops the promotion, also when it is
\* taken up from its record.
OverwritesOnlyBaseline ==
  [][\A t \in Target \ raced :
       pc = "write" /\ files'[t] = artifact.candidate /\ files[t] # files'[t]
         => files[t] = Baseline(t)]_vars

\* The primary file holds a revision that is not accepted only as long as
\* the record of its promotion is there to go on from.
ProjectedIsRecorded ==
  files[Primary] > artifact.accepted =>
    promotion.candidate = files[Primary] /\ promotion.status # "NONE"

\* An accepted revision is the one whose record was committed last: a
\* decision on, or a record of, an earlier candidate accepts nothing.
AcceptsWhatWasRecorded ==
  [][artifact'.accepted # artifact.accepted =>
       /\ promotion.status = "COMMITTED"
       /\ promotion.candidate = artifact'.accepted]_vars

\* A promotion that was begun is taken up again: as long as its candidate is
\* the current one, a later step or a pending decision leads back to it.
InterruptedIsTakenUp ==
  artifact.status = "PROMOTION_READY" /\ Recorded("PREPARED")
    => decision = "PENDING"

-----------------------------------------------------------------------------
(* The inductive invariant behind them *)

\* Only an approved candidate is promoted, and only a candidate can have been.
CandidateIsApproved ==
  /\ promotion.candidate <= artifact.candidate
  /\ artifact.accepted <= artifact.candidate
  /\ \A t \in Target : files[t] <= artifact.candidate
  /\ decision = "PENDING" =>
       policy = "HUMAN_GATE" /\ artifact.status = "PROMOTION_READY"
  /\ pc # "idle" => artifact.status \in {"APPROVED", "PROMOTION_READY"}
  /\ artifact.status \in {"APPROVED", "PROMOTION_READY"} =>
       artifact.accepted < artifact.candidate
  /\ artifact.status = "ACCEPTED" => artifact.accepted = artifact.candidate

\* The loop has put in place what it has visited.
VisitedIsInPlace ==
  /\ pc = "write" =>
       /\ Recorded("PREPARED")
       /\ \A t \in Target \ (todo \cup raced) : files[t] = artifact.candidate
  /\ pc = "finalize" =>
       /\ Recorded("COMMITTED")
       /\ \A t \in Target \ raced : files[t] = artifact.candidate

\* What may be overwritten is what the candidate was derived from.
RecordHoldsBaseline ==
  /\ Recorded("PREPARED") =>
       \A t \in Target \ raced :
         promotion.before[t] \in {artifact.candidate, Baseline(t)}
  /\ pc = "record" /\ promotion.status # "PREPARED" =>
       /\ \A t \in Target \ raced : files[t] \in {artifact.candidate, Baseline(t)}
       /\ files[Primary] <= artifact.accepted

Inductive ==
  /\ TypeOK
  /\ CandidateIsApproved
  /\ VisitedIsInPlace
  /\ RecordHoldsBaseline
  /\ AcceptedIsInPlace
  /\ ProjectedIsRecorded

=============================================================================
