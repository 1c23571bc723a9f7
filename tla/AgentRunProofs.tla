---------------------------- MODULE AgentRunProofs ----------------------------
(***************************************************************************)
(* The safety properties of AgentRun, for any finite set of files, any     *)
(* scope, and any number of attempts, crashes and recoveries.              *)
(***************************************************************************)
EXTENDS AgentRun, TLAPS

-----------------------------------------------------------------------------
(* The inductive invariant *)

\* While the process does something, the record names the run; its metadata
\* say completed once the runner has returned, or its failure is recorded, and
\* then no Agent is alive; a run without a workspace has no outcome; an attempt
\* is left for a run that is to be started.
RunIsRecorded ==
  /\ pc # "idle" => record.stage = "ready" /\ record.run
  /\ record.stage = "ready" /\ ~record.run => record.attempt < MaxAttempts
  /\ record.code # "none" => record.stage = "stopped"
  /\ pc \notin {"fail", "close"} => ending = "none"
  /\ pc = "prepare" => metadata.status = "none"
  /\ pc = "agent" => exists /\ metadata.status = "running"
  /\ pc \notin {"idle", "prepare", "unmade", "agent", "fail"} =>
       metadata.status = "completed"
  /\ pc = "unmade" => metadata.status = "failed"
  /\ pc = "fail" =>
       \/ metadata.status = "completed"
       \/ metadata.status = "running" /\ ending = "RETRY" /\ ~alive
  /\ alive => metadata.status = "running"
  /\ metadata.status = "none" => outcome = "none"
  /\ metadata.status = "failed" /\ record.stage = "ready" /\ record.run =>
       outcome = "none"
  /\ record.stage = "review" => metadata.status = "completed"

\* A diff is written for an approved outcome, out of its workspace and into
\* the scope of the task; a recorded failure has replaced the outcome.
CommitIsJustified ==
  /\ pc \in CommitPhases \cup {"commit"} => outcome = "approved" /\ exists
  /\ pc \in CommitPhases => diff \subseteq Allowed
  /\ pc = "close" => outcome = "failure"

\* A file that neither the Agent nor a human changed in the project, or that
\* only the human did.
Untouched(f) ==
  /\ project[f] # "agent"
  /\ edited[f] = "none" => project[f] = baseline[f]

NoTrace == \A f \in File : Untouched(f)

\* Only a run that was approved at first can have left traces, and they keep
\* it from every way back to a fresh invocation.
TracesAreKnown ==
  /\ \A f \in File : baseline[f] # "agent"
  /\ \A f \in File \ Allowed : Untouched(f)
  /\ \/ NoTrace
     \/ /\ metadata.status = "completed" /\ outcome \in {"approved", "failure"}
        /\ record.stage = "ready" => record.run
        /\ record.code # "UNAUTHORIZED_WORKSPACE_MUTATION"
        /\ ending \notin {"RETRY", "UNAUTHORIZED_WORKSPACE_MUTATION"}
        /\ pc \notin {"prepare", "agent", "check", "commit", "backup", "refused"}

\* The backups of a transaction undo all of it.
BackupsUndo ==
  /\ pc \in {"write", "restore", "unwind"} =>
       /\ todo \subseteq diff
       /\ \A f \in diff : /\ backup[f] # "agent"
                          /\ edited[f] = "none" => backup[f] = baseline[f]
       /\ \A f \in File \ diff : Untouched(f)
  /\ pc \in {"restore", "unwind"} => \A f \in diff \ todo : Untouched(f)

InPlace == \A f \in diff : edited[f] = "none" => project[f] = "agent"

\* An approved outcome is applied, and its workspace given up, when the diff
\* is in place.
ApprovedIsInPlace ==
  /\ pc \in {"discard", "apply"} /\ outcome = "approved" => InPlace
  /\ metadata.status = "completed" /\ outcome = "approved" /\ ~exists => InPlace
  /\ record.stage = "review" => InPlace

\* An edit the checks can see differs from the baseline, so that it is not in
\* a diff that is being written.
EditsAreSeen ==
  /\ \A f \in File : edited[f] = "seen" =>
       project[f] \in HumanContent /\ project[f] # baseline[f]
  /\ pc \in CommitPhases => \A f \in diff : edited[f] # "seen"

Inductive ==
  /\ TypeOK
  /\ RunIsRecorded
  /\ CommitIsJustified
  /\ TracesAreKnown
  /\ BackupsUndo
  /\ ApprovedIsInPlace
  /\ EditsAreSeen

-----------------------------------------------------------------------------
(* The record *)

\* What Stopped changes of the record.
LEMMA StoppedFields ==
  ASSUME record \in RunRecord, NEW code
  PROVE  /\ Stopped(code).stage = "stopped" /\ Stopped(code).code = code
         /\ Stopped(code).run = record.run
         /\ Stopped(code).attempt = record.attempt
  BY DEF Stopped, RunRecord

\* Stopped keeps the record well-formed.
LEMMA StoppedType ==
  ASSUME record \in RunRecord, NEW code \in StopCode \cup {"none"}
  PROVE  Stopped(code) \in RunRecord
  BY DEF Stopped, RunRecord

\* Retried keeps the record well-formed.
LEMMA RetriedType ==
  ASSUME record \in RunRecord
  PROVE  Retried \in RunRecord
  BY StoppedType DEF Retried, RunRecord, StopCode

\* A retried run is stopped, or goes back to a start with an attempt left.
LEMMA RetriedFields ==
  ASSUME record \in RunRecord, record.stage # "stopped" => record.code = "none"
  PROVE  /\ Retried.stage = record.stage \/ Retried.stage = "stopped"
         /\ Retried.stage = record.stage /\ record.stage # "stopped" =>
              /\ Retried.attempt < MaxAttempts
              /\ ~Retried.run /\ Retried.code = "none"
  BY AttemptsAssumption, StoppedFields DEF Retried, RunRecord

-----------------------------------------------------------------------------
(* The steps *)

\* The initial state satisfies the invariant.
LEMMA InitInductive == Init => Inductive
<1> SUFFICES ASSUME Init PROVE Inductive
  OBVIOUS
<1>1. TypeOK
  <2>1. record \in RunRecord /\ metadata \in RunMetadata
    BY AttemptsAssumption DEF Init, RunRecord, RunMetadata
  <2>2. edited \in [File -> Edit] /\ project \in [File -> Content]
    BY DEF Init, Edit, Content
  <2> QED BY <2>1, <2>2 DEF Init, TypeOK, Outcome
<1>2. NoTrace
  BY DEF Init, NoTrace, Untouched
<1>3. RunIsRecorded /\ CommitIsJustified /\ BackupsUndo
  BY AttemptsAssumption
  DEF Init, RunIsRecorded, CommitIsJustified, CommitPhases, BackupsUndo
<1>4. TracesAreKnown /\ ApprovedIsInPlace /\ EditsAreSeen
  BY <1>2
  DEF Init, TracesAreKnown, NoTrace, ApprovedIsInPlace, EditsAreSeen,
      CommitPhases
<1> QED BY <1>1, <1>3, <1>4 DEF Inductive

\* Every step keeps every variable to its set of values.
LEMMA StepKeepsTypes ==
  ASSUME Inductive, Next
  PROVE  TypeOK'
<1> USE StoppedType, RetriedType, AttemptsAssumption DEF Inductive, TypeOK,
  StopCode, Goto, CommitPhases
<1>1. CASE PersistFailure
  BY <1>1 DEF PersistFailure, RunMetadata, Outcome
<1>2. CASE CloseFailed
  BY <1>2 DEF CloseFailed
<1>3. CASE StartInvocation
  <2>1. record.attempt + 1 \in 0 .. MaxAttempts
    BY <1>3 DEF StartInvocation, RunRecord, RunIsRecorded
  <2>2. record' \in RunRecord
    BY <1>3, <2>1 DEF StartInvocation, RunRecord
  <2>3. metadata' \in RunMetadata
    BY <1>3 DEF StartInvocation, RunMetadata
  <2> QED BY <1>3, <2>2, <2>3 DEF StartInvocation, Outcome
<1>4. CASE MakeWorkspace
  <2>1. metadata' \in RunMetadata
    BY <1>4 DEF MakeWorkspace, RunMetadata
  <2>2. edited' \in [File -> Edit]
    BY <1>4 DEF MakeWorkspace, Edit
  <2> QED BY <1>4, <2>1, <2>2 DEF MakeWorkspace
<1>5. CASE MakeWorkspaceFails \/ StopUnmade
  BY <1>5 DEF MakeWorkspaceFails, StopUnmade, RunMetadata
<1>6. CASE AgentDies
  BY <1>6 DEF AgentDies, commitVars
<1>7. CASE AgentChanges
  BY <1>7 DEF AgentChanges, runVars
<1>8. CASE AgentReports
  <2>1. outcome' \in Outcome
    BY <1>8 DEF AgentReports, Outcome
  <2> QED BY <1>8, <2>1 DEF AgentReports, commitVars
<1>9. CASE RunnerReturns \/ RunnerRaises
  <2>1. metadata' \in RunMetadata
    BY <1>9 DEF RunnerReturns, RunnerRaises, RunMetadata
  <2> QED BY <1>9, <2>1 DEF RunnerReturns, RunnerRaises
<1>10. CASE Discard
  BY <1>10 DEF Discard
<1>11. CASE ApplyOutcome
  <2>1. record' \in RunRecord
    BY <1>11 DEF ApplyOutcome, RunRecord
  <2> QED BY <1>11, <2>1 DEF ApplyOutcome
<1>12. CASE ResumeStops
  BY <1>12 DEF ResumeStops, StopRun
<1>13. CASE ResumeRetries
  BY <1>13 DEF ResumeRetries
<1>14. CASE Recover
  <2>1. record' \in RunRecord
    BY <1>14 DEF Recover, RunRecord
  <2>2. metadata' \in RunMetadata
    BY <1>14 DEF Recover, RunMetadata
  <2> QED BY <1>14, <2>1, <2>2 DEF Recover
<1>15. CASE Crash
  BY <1>15 DEF Crash
<1>16. CASE CheckInvocation \/ CommitRefused \/ Finalize \/ ResumeFinalizes
    BY <1>16 DEF CheckInvocation, CommitRefused, Finalize, ResumeFinalizes,
      Resumes, runVars, Fail
<1>17. CASE Commit /\ UNCHANGED runVars
  <2>1. CASE EnterCommit \/ TakeBackups \/ CheckWritten \/ Restored \/
    WriteFails
    BY <1>17, <2>1 DEF EnterCommit, TakeBackups, CheckWritten, Restored,
      WriteFails, Raise, runVars
  <2>2. CASE WriteFile
    BY <1>17, <2>2 DEF WriteFile, Content, runVars
  <2>3. CASE RestoreFile
    BY <1>17, <2>3 DEF RestoreFile, runVars
  <2> QED BY <1>17, <2>1, <2>2, <2>3 DEF Commit
<1>18. CASE HumanEdits /\ UNCHANGED runVars
  BY <1>18, FileAssumption DEF HumanEdits, runVars, Content, HumanContent,
    Edit
<1> QED BY <1>1, <1>2, <1>3, <1>4, <1>5, <1>6, <1>7, <1>8, <1>9, <1>10,
  <1>11, <1>12, <1>13, <1>14, <1>15,
   <1>16, <1>17, <1>18 DEF Next, Process, Command, Agent

\* A failure is recorded: the outcome is replaced, then the record follows.
LEMMA FailureKeepsInductive ==
  ASSUME Inductive, PersistFailure \/ CloseFailed
  PROVE  Inductive'
<1>1. TypeOK'  BY StepKeepsTypes DEF Next, Process
<1>2. CASE PersistFailure
  <2>1. RunIsRecorded' /\ CommitIsJustified' /\ TracesAreKnown' /\
       BackupsUndo' /\ ApprovedIsInPlace' /\ EditsAreSeen'
    BY <1>2 DEF Inductive, PersistFailure, Goto, RunIsRecorded, CommitPhases,
      CommitIsJustified, TracesAreKnown, NoTrace, Untouched, BackupsUndo,
      ApprovedIsInPlace, InPlace, HumanContent, EditsAreSeen
  <2> QED BY <1>1, <2>1 DEF Inductive
<1>3. CASE CloseFailed
  <2>1. RunIsRecorded'
    <3>1. /\ record \in RunRecord
          /\ record.stage # "stopped" => record.code = "none"
      BY DEF Inductive, TypeOK, RunIsRecorded
    <3> QED BY <1>3, <3>1, StoppedFields, RetriedFields DEF Inductive,
        CloseFailed, Goto, RunIsRecorded
  <2>2. ApprovedIsInPlace'
    BY <1>3 DEF Inductive, CloseFailed, Goto, Retried, Stopped,
      ApprovedIsInPlace, InPlace, CommitIsJustified
  <2>3. CommitIsJustified' /\ TracesAreKnown' /\ BackupsUndo' /\ EditsAreSeen'
    BY <1>3 DEF Inductive, CloseFailed, Goto, Retried, Stopped, CommitPhases,
      CommitIsJustified, TracesAreKnown, NoTrace, Untouched, BackupsUndo,
      HumanContent, EditsAreSeen
  <2> QED BY <1>1, <2>1, <2>2, <2>3 DEF Inductive
<1> QED BY <1>2, <1>3

\* A fresh invocation starts where nothing was left behind.
LEMMA StartKeepsInductive ==
  ASSUME Inductive, StartInvocation \/ MakeWorkspace \/ MakeWorkspaceFails
         \/ StopUnmade
  PROVE  Inductive'
<1>1. TypeOK'  BY StepKeepsTypes DEF Next, Process, Command
<1>2. CASE StartInvocation
  <2>1. RunIsRecorded' /\ CommitIsJustified' /\ TracesAreKnown' /\
       BackupsUndo' /\ ApprovedIsInPlace' /\ EditsAreSeen'
    BY <1>2 DEF Inductive, StartInvocation, Goto, RunIsRecorded, CommitPhases,
      CommitIsJustified, TracesAreKnown, NoTrace, Untouched, BackupsUndo,
      ApprovedIsInPlace, InPlace, HumanContent, EditsAreSeen
  <2> QED BY <1>1, <2>1 DEF Inductive
<1>3. CASE MakeWorkspace
  <2>1. RunIsRecorded' /\ CommitIsJustified' /\ TracesAreKnown' /\
       BackupsUndo' /\ ApprovedIsInPlace' /\ EditsAreSeen'
    BY <1>3 DEF Inductive, MakeWorkspace, RunIsRecorded, CommitPhases,
      CommitIsJustified, TracesAreKnown, NoTrace, Untouched, BackupsUndo,
      ApprovedIsInPlace, InPlace, HumanContent, EditsAreSeen
  <2> QED BY <1>1, <2>1 DEF Inductive
<1>4. CASE MakeWorkspaceFails
  <2>1. RunIsRecorded'
    <3>1. metadata \in RunMetadata
      BY DEF Inductive, TypeOK
    <3> QED BY <1>4, <3>1 DEF Inductive, MakeWorkspaceFails, Goto, RunIsRecorded,
        RunMetadata
  <2>2. CommitIsJustified' /\ TracesAreKnown' /\ BackupsUndo' /\
       ApprovedIsInPlace' /\ EditsAreSeen'
    BY <1>4 DEF Inductive, MakeWorkspaceFails, Goto, CommitPhases, RunIsRecorded,
      CommitIsJustified, TracesAreKnown, NoTrace, Untouched, BackupsUndo,
      ApprovedIsInPlace, InPlace, HumanContent, EditsAreSeen
  <2> QED BY <1>1, <2>1, <2>2 DEF Inductive
<1>5. CASE StopUnmade
  <2>1. RunIsRecorded'
    <3>1. record \in RunRecord
      BY DEF Inductive, TypeOK
    <3> QED BY <1>5, <3>1, StoppedFields DEF Inductive, StopUnmade, Goto, RunIsRecorded
  <2>2. CommitIsJustified' /\ TracesAreKnown' /\ BackupsUndo' /\
       ApprovedIsInPlace' /\ EditsAreSeen'
    BY <1>5 DEF Inductive, StopUnmade, Goto, Stopped, CommitPhases, RunIsRecorded,
      CommitIsJustified, TracesAreKnown, NoTrace, Untouched, BackupsUndo,
      ApprovedIsInPlace, InPlace, HumanContent, EditsAreSeen
  <2> QED BY <1>1, <2>1, <2>2 DEF Inductive
<1> QED BY <1>2, <1>3, <1>4, <1>5

\* The Agent changes the diff and the outcome while its run is on only.
LEMMA AgentKeepsInductive ==
  ASSUME Inductive, AgentChanges \/ AgentReports \/ AgentDies \/ RunnerReturns
         \/ RunnerRaises
  PROVE  Inductive'
<1>1. TypeOK'  BY StepKeepsTypes DEF Next, Process, Agent
<1>2. CASE AgentChanges
  <2>1. CommitIsJustified'
    BY <1>2 DEF Inductive, AgentChanges, runVars, CommitPhases,
      CommitIsJustified, RunIsRecorded
  <2>2. BackupsUndo'
    BY <1>2 DEF Inductive, AgentChanges, runVars, CommitPhases, BackupsUndo,
      Untouched, RunIsRecorded
  <2>3. ApprovedIsInPlace'
    BY <1>2 DEF Inductive, AgentChanges, runVars, ApprovedIsInPlace, InPlace,
      RunIsRecorded
  <2>4. EditsAreSeen'
    BY <1>2 DEF Inductive, AgentChanges, runVars, CommitPhases, HumanContent,
      EditsAreSeen, RunIsRecorded
  <2>5. RunIsRecorded' /\ TracesAreKnown'
    BY <1>2 DEF Inductive, AgentChanges, runVars, RunIsRecorded, CommitPhases,
      TracesAreKnown, NoTrace, Untouched
  <2> QED BY <1>1, <2>1, <2>2, <2>3, <2>4, <2>5 DEF Inductive
<1>3. CASE AgentReports
  <2>1. ApprovedIsInPlace'
    BY <1>3 DEF Inductive, AgentReports, commitVars, ApprovedIsInPlace,
      InPlace, RunIsRecorded
  <2>2. RunIsRecorded' /\ CommitIsJustified' /\ TracesAreKnown' /\
       BackupsUndo' /\ EditsAreSeen'
    BY <1>3 DEF Inductive, AgentReports, commitVars, RunIsRecorded,
      CommitPhases, CommitIsJustified, TracesAreKnown, NoTrace, Untouched,
      BackupsUndo, HumanContent, EditsAreSeen
  <2> QED BY <1>1, <2>1, <2>2 DEF Inductive
<1>4. CASE AgentDies
  <2>1. RunIsRecorded' /\ CommitIsJustified' /\ TracesAreKnown' /\
       BackupsUndo' /\ ApprovedIsInPlace' /\ EditsAreSeen'
    BY <1>4 DEF Inductive, AgentDies, commitVars, RunIsRecorded, CommitPhases,
      CommitIsJustified, TracesAreKnown, NoTrace, Untouched, BackupsUndo,
      ApprovedIsInPlace, InPlace, HumanContent, EditsAreSeen
  <2> QED BY <1>1, <2>1 DEF Inductive
<1>5. CASE RunnerReturns
  <2>1. ApprovedIsInPlace'
    BY <1>5 DEF Inductive, RunnerReturns, Goto, ApprovedIsInPlace, InPlace,
      RunIsRecorded
  <2>2. RunIsRecorded' /\ CommitIsJustified' /\ TracesAreKnown' /\
       BackupsUndo' /\ EditsAreSeen'
    BY <1>5 DEF Inductive, RunnerReturns, Goto, RunIsRecorded, CommitPhases,
      CommitIsJustified, TracesAreKnown, NoTrace, Untouched, BackupsUndo,
      HumanContent, EditsAreSeen
  <2> QED BY <1>1, <2>1, <2>2 DEF Inductive
<1>6. CASE RunnerRaises
  <2>1. RunIsRecorded'
    BY <1>6 DEF Inductive, RunnerRaises, Goto, RunIsRecorded, CommitPhases
  <2>2. CommitIsJustified' /\ TracesAreKnown' /\ BackupsUndo' /\
       ApprovedIsInPlace' /\ EditsAreSeen'
    BY <1>6 DEF Inductive, RunnerRaises, Goto, RunIsRecorded, CommitPhases,
      CommitIsJustified, TracesAreKnown, NoTrace, Untouched, BackupsUndo,
      ApprovedIsInPlace, InPlace, HumanContent, EditsAreSeen
  <2> QED BY <1>1, <2>1, <2>2 DEF Inductive
<1> QED BY <1>2, <1>3, <1>4, <1>5, <1>6

\* What is applied is in place; what is retried has left no trace.
LEMMA FinalizeKeepsInductive ==
  ASSUME Inductive, CheckInvocation \/ Finalize \/ CommitRefused \/ Discard \/
         ApplyOutcome
  PROVE  Inductive'
<1>1. TypeOK'  BY StepKeepsTypes DEF Next, Process
<1>2. CASE CheckInvocation
  <2>1. RunIsRecorded'
    <3>1. /\ pc = "check" /\ UNCHANGED <<record, metadata, outcome, exists, alive>>
          /\ \/ pc' = "fail"
             \/ pc' = "finalize" /\ UNCHANGED ending
      BY <1>2 DEF CheckInvocation, Fail, Goto, runVars
    <3>2. metadata.status = "completed" /\ ending = "none"
      BY <3>1 DEF Inductive, RunIsRecorded
    <3> QED BY <3>1, <3>2 DEF Inductive, RunIsRecorded
  <2>2. CommitIsJustified' /\ TracesAreKnown' /\ BackupsUndo' /\
       ApprovedIsInPlace' /\ EditsAreSeen'
    BY <1>2 DEF Inductive, CheckInvocation, Fail, Goto, runVars,
      RunIsRecorded, CommitPhases, CommitIsJustified, TracesAreKnown, NoTrace,
      Untouched, BackupsUndo, ApprovedIsInPlace, InPlace, HumanContent,
      EditsAreSeen
  <2> QED BY <1>1, <2>1, <2>2 DEF Inductive
<1>3. CASE Finalize
  <2>1. ApprovedIsInPlace'
    BY <1>3 DEF Inductive, Finalize, Fail, Goto, runVars, CurrentTargetDrift,
      HasChanges, ApprovedIsInPlace, InPlace, RunIsRecorded
  <2>2. RunIsRecorded' /\ CommitIsJustified' /\ TracesAreKnown' /\
       BackupsUndo' /\ EditsAreSeen'
    BY <1>3 DEF Inductive, Finalize, Fail, Goto, runVars, CurrentTargetDrift,
      HasChanges, RunIsRecorded, CommitPhases, CommitIsJustified,
      TracesAreKnown, NoTrace, Untouched, BackupsUndo, HumanContent,
      EditsAreSeen
  <2> QED BY <1>1, <2>1, <2>2 DEF Inductive
<1>4. CASE CommitRefused
  <2>1. RunIsRecorded' /\ CommitIsJustified' /\ TracesAreKnown' /\
       BackupsUndo' /\ ApprovedIsInPlace' /\ EditsAreSeen'
    BY <1>4 DEF Inductive, CommitRefused, Fail, Goto, Passes, TargetDrift,
      InScope, RunIsRecorded, CommitPhases, CommitIsJustified, TracesAreKnown,
      NoTrace, Untouched, BackupsUndo, ApprovedIsInPlace, InPlace,
      HumanContent, EditsAreSeen
  <2> QED BY <1>1, <2>1 DEF Inductive
<1>5. CASE Discard
  <2>1. RunIsRecorded' /\ CommitIsJustified' /\ TracesAreKnown' /\
       BackupsUndo' /\ ApprovedIsInPlace' /\ EditsAreSeen'
    BY <1>5 DEF Inductive, Discard, Goto, RunIsRecorded, CommitPhases,
      CommitIsJustified, TracesAreKnown, NoTrace, Untouched, BackupsUndo,
      ApprovedIsInPlace, InPlace, HumanContent, EditsAreSeen
  <2> QED BY <1>1, <2>1 DEF Inductive
<1>6. CASE ApplyOutcome
  <2>1. RunIsRecorded' /\ CommitIsJustified' /\ TracesAreKnown' /\
       BackupsUndo' /\ ApprovedIsInPlace' /\ EditsAreSeen'
    BY <1>6 DEF Inductive, ApplyOutcome, Goto, Stopped, RunIsRecorded,
      CommitPhases, CommitIsJustified, TracesAreKnown, NoTrace, Untouched,
      BackupsUndo, ApprovedIsInPlace, InPlace, HumanContent, EditsAreSeen
  <2> QED BY <1>1, <2>1 DEF Inductive
<1> QED BY <1>2, <1>3, <1>4, <1>5, <1>6

\* The transaction writes the diff as a whole or takes it back.
LEMMA CommitKeepsInductive ==
  ASSUME Inductive, (EnterCommit \/ TakeBackups \/ WriteFile \/ WriteFails \/
         CheckWritten \/ RestoreFile \/ Restored) /\ UNCHANGED runVars
  PROVE  Inductive'
<1>1. TypeOK'  BY StepKeepsTypes DEF Next, Process, Commit
<1> USE DEF runVars
<1>2. CASE EnterCommit
  <2>1. EditsAreSeen'
    BY <1>2 DEF Inductive, EnterCommit, Passes, TargetDrift, InScope,
      CommitPhases, RunRecord, RunMetadata, StopCode, HumanContent,
      EditsAreSeen, RunIsRecorded, TypeOK
  <2>2. RunIsRecorded' /\ CommitIsJustified' /\ TracesAreKnown' /\
       BackupsUndo' /\ ApprovedIsInPlace'
    BY <1>2 DEF Inductive, EnterCommit, Passes, TargetDrift, InScope,
      CommitPhases, RunIsRecorded, CommitIsJustified, TracesAreKnown, NoTrace,
      Untouched, BackupsUndo, ApprovedIsInPlace, InPlace
  <2> QED BY <1>1, <2>1, <2>2 DEF Inductive
<1>3. CASE TakeBackups
  <2>1. BackupsUndo'
    BY <1>3 DEF Inductive, TakeBackups, CommitPhases, RunRecord, RunMetadata,
      StopCode, BackupsUndo, Untouched, RunIsRecorded, TracesAreKnown,
      NoTrace, TypeOK
  <2>2. RunIsRecorded' /\ CommitIsJustified' /\ TracesAreKnown' /\
       ApprovedIsInPlace' /\ EditsAreSeen'
    BY <1>3 DEF Inductive, TakeBackups, CommitPhases, RunIsRecorded,
      CommitIsJustified, TracesAreKnown, NoTrace, Untouched,
      ApprovedIsInPlace, InPlace, HumanContent, EditsAreSeen
  <2> QED BY <1>1, <2>1, <2>2 DEF Inductive
<1>4. CASE WriteFile
  <2>1. TracesAreKnown'
    BY <1>4 DEF Inductive, WriteFile, CommitPhases, TracesAreKnown, NoTrace,
      Untouched, RunIsRecorded, CommitIsJustified, BackupsUndo
  <2>2. EditsAreSeen'
    BY <1>4 DEF Inductive, WriteFile, CommitPhases, HumanContent,
      EditsAreSeen, CommitIsJustified, BackupsUndo, Untouched
  <2>3. RunIsRecorded' /\ CommitIsJustified' /\ BackupsUndo' /\
       ApprovedIsInPlace'
    BY <1>4 DEF Inductive, WriteFile, CommitPhases, RunIsRecorded,
      CommitIsJustified, BackupsUndo, Untouched, ApprovedIsInPlace, InPlace
  <2> QED BY <1>1, <2>1, <2>2, <2>3 DEF Inductive
<1>5. CASE WriteFails
  <2>1. RunIsRecorded' /\ CommitIsJustified' /\ TracesAreKnown' /\
       BackupsUndo' /\ ApprovedIsInPlace' /\ EditsAreSeen'
    BY <1>5 DEF Inductive, WriteFails, Raise, CommitPhases, RunIsRecorded,
      CommitIsJustified, TracesAreKnown, NoTrace, Untouched, BackupsUndo,
      ApprovedIsInPlace, InPlace, HumanContent, EditsAreSeen
  <2> QED BY <1>1, <2>1 DEF Inductive
<1>6. CASE CheckWritten
  <2>1. RunIsRecorded' /\ CommitIsJustified' /\ TracesAreKnown' /\
       BackupsUndo' /\ ApprovedIsInPlace' /\ EditsAreSeen'
    BY <1>6 DEF Inductive, CheckWritten, Raise, CommitPhases, RunIsRecorded,
      CommitIsJustified, TracesAreKnown, NoTrace, Untouched, BackupsUndo,
      ApprovedIsInPlace, InPlace, HumanContent, EditsAreSeen
  <2> QED BY <1>1, <2>1 DEF Inductive
<1>7. CASE RestoreFile
  <2>1. TracesAreKnown'
    BY <1>7 DEF Inductive, RestoreFile, CommitPhases, TracesAreKnown, NoTrace,
      Untouched, RunIsRecorded, CommitIsJustified, BackupsUndo
  <2>2. BackupsUndo'
    BY <1>7 DEF Inductive, RestoreFile, CommitPhases, RunRecord, RunMetadata,
      StopCode, BackupsUndo, Untouched, RunIsRecorded, TypeOK
  <2>3. ApprovedIsInPlace'
    BY <1>7 DEF Inductive, RestoreFile, CommitPhases, ApprovedIsInPlace,
      InPlace, RunIsRecorded, CommitIsJustified
  <2>4. EditsAreSeen'
    BY <1>7 DEF Inductive, RestoreFile, CommitPhases, HumanContent,
      EditsAreSeen, BackupsUndo, Untouched
  <2>5. RunIsRecorded' /\ CommitIsJustified'
    BY <1>7 DEF Inductive, RestoreFile, CommitPhases, RunIsRecorded,
      CommitIsJustified
  <2> QED BY <1>1, <2>1, <2>2, <2>3, <2>4, <2>5 DEF Inductive
<1>8. CASE Restored
  <2>1. TracesAreKnown'
    BY <1>8 DEF Inductive, Restored, CommitPhases, TracesAreKnown, NoTrace,
      Untouched, BackupsUndo
  <2>2. RunIsRecorded' /\ CommitIsJustified' /\ BackupsUndo' /\
       ApprovedIsInPlace' /\ EditsAreSeen'
    BY <1>8 DEF Inductive, Restored, CommitPhases, RunIsRecorded,
      CommitIsJustified, BackupsUndo, Untouched, ApprovedIsInPlace, InPlace,
      HumanContent, EditsAreSeen
  <2> QED BY <1>1, <2>1, <2>2 DEF Inductive
<1> QED BY <1>2, <1>3, <1>4, <1>5, <1>6, <1>7, <1>8

\* A run that is taken up again is over, and leads nowhere else.
LEMMA ResumeKeepsInductive ==
  ASSUME Inductive, ResumeFinalizes \/ ResumeStops \/ ResumeRetries \/ Recover
         \/ Crash
  PROVE  Inductive'
<1>1. TypeOK'  BY StepKeepsTypes DEF Next, Command
<1>2. CASE ResumeFinalizes
  <2>1. RunIsRecorded'
    BY <1>2 DEF Inductive, ResumeFinalizes, Resumes, Goto, runVars,
      ValidOutcome, RunRecord, RunMetadata, StopCode, RunIsRecorded, TypeOK
  <2>2. CommitIsJustified' /\ TracesAreKnown' /\ BackupsUndo' /\
       ApprovedIsInPlace' /\ EditsAreSeen'
    BY <1>2 DEF Inductive, ResumeFinalizes, Resumes, Goto, runVars,
      ValidOutcome, CommitPhases, CommitIsJustified, TracesAreKnown, NoTrace,
      Untouched, BackupsUndo, ApprovedIsInPlace, InPlace, HumanContent,
      EditsAreSeen
  <2> QED BY <1>1, <2>1, <2>2 DEF Inductive
<1>3. CASE ResumeStops
  <2>1. RunIsRecorded'
    <3>1. record'.stage = "stopped"
      BY <1>3, StoppedFields DEF Inductive, TypeOK, ResumeStops, StopRun
    <3> QED BY <1>3, <3>1 DEF Inductive, ResumeStops, StopRun, Resumes, Goto,
        RunIsRecorded
  <2>2. ApprovedIsInPlace'
    <3>1. record \in RunRecord /\ metadata \in RunMetadata
      BY DEF Inductive, TypeOK
    <3> QED BY <1>3, <3>1, StoppedFields DEF Inductive, ResumeStops, Resumes,
        StopRun, Goto, ApprovedIsInPlace, InPlace, RunIsRecorded
  <2>3. CommitIsJustified' /\ TracesAreKnown' /\ BackupsUndo' /\ EditsAreSeen'
    BY <1>3 DEF Inductive, ResumeStops, Resumes, StopRun, Stopped, Goto,
      CommitPhases, CommitIsJustified, TracesAreKnown, NoTrace, Untouched,
      BackupsUndo, HumanContent, EditsAreSeen
  <2> QED BY <1>1, <2>1, <2>2, <2>3 DEF Inductive
<1>4. CASE ResumeRetries
  <2>1. RunIsRecorded'
    <3>1. /\ record \in RunRecord
          /\ record.stage # "stopped" => record.code = "none"
      BY DEF Inductive, TypeOK, RunIsRecorded
    <3> QED BY <1>4, <3>1, StoppedFields, RetriedFields DEF Inductive,
        ResumeRetries, Resumes, Goto, ValidOutcome, RunIsRecorded
  <2>2. CommitIsJustified' /\ TracesAreKnown' /\ BackupsUndo' /\
       ApprovedIsInPlace' /\ EditsAreSeen'
    BY <1>4 DEF Inductive, ResumeRetries, Resumes, Retried, Stopped, Goto,
      ValidOutcome, CommitPhases, CommitIsJustified, TracesAreKnown, NoTrace,
      Untouched, BackupsUndo, ApprovedIsInPlace, InPlace, HumanContent,
      EditsAreSeen
  <2> QED BY <1>1, <2>1, <2>2 DEF Inductive
<1>5. CASE Recover
  <2>1. RunIsRecorded'
    BY <1>5, AttemptsAssumption DEF Inductive, Recover, Interrupted, Goto,
      RunIsRecorded
  <2>2. CommitIsJustified' /\ TracesAreKnown' /\ BackupsUndo' /\
       ApprovedIsInPlace' /\ EditsAreSeen'
    BY <1>5 DEF Inductive, Recover, Interrupted, Goto, CommitPhases,
      CommitIsJustified, TracesAreKnown, NoTrace, Untouched, BackupsUndo,
      ApprovedIsInPlace, InPlace, HumanContent, EditsAreSeen
  <2> QED BY <1>1, <2>1, <2>2 DEF Inductive
<1>6. CASE Crash
  <2>1. RunIsRecorded'
    <3>1. alive' => alive
      BY <1>6 DEF Inductive, TypeOK, Crash
    <3> QED BY <1>6, <3>1 DEF Inductive, Crash, Goto, RunIsRecorded
  <2>2. CommitIsJustified' /\ TracesAreKnown' /\ BackupsUndo' /\
       ApprovedIsInPlace' /\ EditsAreSeen'
    BY <1>6 DEF Inductive, Crash, Goto, CommitPhases, CommitIsJustified,
      TracesAreKnown, NoTrace, Untouched, BackupsUndo, ApprovedIsInPlace,
      InPlace, HumanContent, EditsAreSeen
  <2> QED BY <1>1, <2>1, <2>2 DEF Inductive
<1> QED BY <1>2, <1>3, <1>4, <1>5, <1>6

\* The edits of a human are remembered as what they are.
LEMMA HumanKeepsInductive ==
  ASSUME Inductive, HumanEdits /\ UNCHANGED runVars
  PROVE  Inductive'
<1>1. TypeOK'  BY StepKeepsTypes DEF Next
<1> USE DEF runVars
<1>2. CASE HumanEdits
  <2>1. TracesAreKnown'
    BY <1>2 DEF Inductive, HumanEdits, HumanContent, CommitPhases, RunRecord,
      RunMetadata, StopCode, TracesAreKnown, NoTrace, Untouched,
      RunIsRecorded, TypeOK
  <2>2. BackupsUndo'
    BY <1>2 DEF Inductive, HumanEdits, HumanContent, CommitPhases, RunRecord,
      RunMetadata, StopCode, BackupsUndo, Untouched, RunIsRecorded, TypeOK
  <2>3. ApprovedIsInPlace'
    BY <1>2 DEF Inductive, HumanEdits, HumanContent, CommitPhases, RunRecord,
      RunMetadata, StopCode, ApprovedIsInPlace, InPlace, RunIsRecorded, TypeOK
  <2>4. EditsAreSeen'
    BY <1>2 DEF Inductive, HumanEdits, HumanContent, CommitPhases, RunRecord,
      RunMetadata, StopCode, EditsAreSeen, RunIsRecorded, TypeOK
  <2>5. RunIsRecorded' /\ CommitIsJustified'
    BY <1>2 DEF Inductive, HumanEdits, HumanContent, CommitPhases,
      RunIsRecorded, CommitIsJustified
  <2> QED BY <1>1, <2>1, <2>2, <2>3, <2>4, <2>5 DEF Inductive
<1> QED BY <1>2

-----------------------------------------------------------------------------
(* The theorems *)

\* Every step, and every stuttering one, keeps the invariant.
LEMMA StepInductive == Inductive /\ [Next]_vars => Inductive'
<1> SUFFICES ASSUME Inductive, [Next]_vars PROVE Inductive'
  OBVIOUS
<1>1. CASE UNCHANGED vars
  BY <1>1 DEF vars, commitVars, runVars, Inductive, TypeOK, RunIsRecorded,
      CommitIsJustified, TracesAreKnown, NoTrace, Untouched, BackupsUndo,
      ApprovedIsInPlace, InPlace, EditsAreSeen
<1>2. CASE Next
  BY <1>2, FailureKeepsInductive, StartKeepsInductive, AgentKeepsInductive,
     FinalizeKeepsInductive, CommitKeepsInductive, ResumeKeepsInductive,
     HumanKeepsInductive
  DEF Next, Process, Command, Agent, Commit
<1> QED BY <1>1, <1>2

\* The invariant holds in every reachable state: what is recorded of a run
\* accounts for every trace it has left in the project.
THEOREM InductiveInvariant == Spec => []Inductive
  BY InitInductive, StepInductive, PTL DEF Spec

\* Every variable keeps to its set of values, for any files and attempts.
THEOREM TypeCorrect == Spec => []TypeOK
<1>1. Inductive => TypeOK  BY DEF Inductive
<1> QED BY <1>1, InductiveInvariant, PTL

\* Work goes to its review only with its whole diff in the project.
THEOREM ReviewedIsInPlace == Spec => []ReviewedWorkIsInPlace
<1>1. Inductive => ReviewedWorkIsInPlace
  BY DEF Inductive, ApprovedIsInPlace, InPlace, ReviewedWorkIsInPlace
<1> QED BY <1>1, InductiveInvariant, PTL

\* A diff that commit-back refused has left no trace.
THEOREM RefusedIsUndone == Spec => []RefusedDiffLeavesNoTrace
<1>1. Inductive => RefusedDiffLeavesNoTrace
  BY DEF Inductive, TracesAreKnown, NoTrace, Untouched, RefusedDiffLeavesNoTrace
<1> QED BY <1>1, InductiveInvariant, PTL

\* No Agent is shown a part of the diff of an earlier invocation.
THEOREM StartIsClean == Spec => []StartsWithoutTraces
<1>1. Inductive => StartsWithoutTraces
  BY DEF Inductive, TracesAreKnown, StartsWithoutTraces
<1> QED BY <1>1, InductiveInvariant, PTL

\* The edit of a human that a check can still see is never written over.
THEOREM EditSurvives == Spec => []SeenEditSurvives
<1>1. Inductive => SeenEditSurvives
  BY DEF Inductive, EditsAreSeen, SeenEditSurvives
<1> QED BY <1>1, InductiveInvariant, PTL

\* Nothing outside the scope of the task is ever written.
THEOREM ScopeIsKept == Spec => []OutsideScopeUntouched
<1>1. Inductive => OutsideScopeUntouched
  BY DEF Inductive, TracesAreKnown, Untouched, OutsideScopeUntouched
<1> QED BY <1>1, InductiveInvariant, PTL

\* Only an invocation that is over and approved is written into the project.
THEOREM CommitsAreFinished == Spec => []UnfinishedNeverCommits
<1>1. Inductive => UnfinishedNeverCommits
  BY DEF Inductive, RunIsRecorded, CommitIsJustified, CommitPhases,
      UnfinishedNeverCommits
<1> QED BY <1>1, InductiveInvariant, PTL

=============================================================================
