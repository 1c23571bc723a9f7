------------------------------ MODULE AgentRun ------------------------------
(***************************************************************************)
(* One task's project-mutating stage, from the first invocation of an      *)
(* Agent to the transition its outcome selects: _agent_step,               *)
(* _persist_execution_failure and _finalize_agent_outcome write by write.  *)
(* The process can die between any two of them; the next step takes up     *)
(* what it finds in state.json, metadata.json and outcome.json.            *)
(*                                                                         *)
(* Orchestrator has the same invocation as two steps; what the gates of a  *)
(* step and the other commands do to it is there and not here.             *)
(***************************************************************************)
EXTENDS CommitBack

CONSTANT MaxAttempts    \* policy.max_attempts_per_stage

ASSUME AttemptsAssumption == MaxAttempts \in Nat \ {0}

VARIABLES
  record,    \* state.json: stage, run_id, attempt, stop_code
  metadata,  \* metadata.json of the run: status, and a zero exit code
  outcome,   \* outcome.json of the run
  exists,    \* the workspace of the run is there
  alive,     \* the Agent of the run is
  ending     \* what a failed invocation ends in: a stop code, or "RETRY"

runVars == <<record, metadata, outcome, exists, alive, ending>>
vars == <<commitVars, runVars>>

StopCode == {"TARGET_DRIFT", "UNAUTHORIZED_WORKSPACE_MUTATION",
             "REAL_PROJECT_CHANGED_DURING_RUN", "WORKSPACE_SETUP_FAILED",
             "RECOVERY_UNCERTAIN", "RETRY_EXHAUSTED", "UNSUPPORTED_VERDICT"}

\* "failure" is the canonical INVALID_OUTCOME that CWO itself writes, "other"
\* any valid outcome of the Agent that does not select the review.
Outcome == {"none", "approved", "other", "malformed", "failure"}
ValidOutcome == {"approved", "other", "failure"}

Init ==
  /\ project = [f \in File |-> "base"] /\ baseline = project
  /\ backup = project /\ edited = [f \in File |-> "none"]
  /\ diff = {} /\ todo = {} /\ pc = "idle"
  /\ record = [stage |-> "ready", run |-> FALSE, attempt |-> 0, code |-> "none"]
  /\ metadata = [status |-> "none", ok |-> FALSE]
  /\ outcome = "none" /\ exists = FALSE /\ alive = FALSE /\ ending = "none"

Goto(phase) ==
  /\ pc' = phase
  /\ UNCHANGED <<project, edited, baseline, diff, backup, todo>>

-----------------------------------------------------------------------------
(* The end of a step: what it saves in state.json *)

Stopped(code) == [record EXCEPT !.stage = "stopped", !.code = code]

\* Faulty variant: the attempts are not counted against their bound.
RetriedForever == [record EXCEPT !.run = FALSE]

\* _invalid_or_failed
Retried ==
  IF record.attempt >= MaxAttempts THEN Stopped("RETRY_EXHAUSTED")
                                   ELSE [record EXCEPT !.run = FALSE]

\* _workspace_stop of an invocation that is not touched further.
StopRun(code) ==
  /\ record' = Stopped(code) /\ exists' = FALSE
  /\ Goto("idle")
  /\ UNCHANGED <<metadata, outcome, alive, ending>>

\* The canonical failure is written first, under the name of the outcome.
Fail(end) ==
  /\ ending' = end
  /\ Goto("fail")
  /\ UNCHANGED <<record, metadata, outcome, exists, alive>>

PersistFailure ==
  /\ pc = "fail"
  /\ outcome' = "failure"
  /\ metadata' = [metadata EXCEPT !.status = "completed"]
  /\ Goto("close")
  /\ UNCHANGED <<record, exists, alive, ending>>

\* The workspace is discarded, then the stop or the retry is saved.
CloseFailed ==
  /\ pc = "close"
  /\ exists' = FALSE
  /\ record' = IF ending = "RETRY" THEN Retried ELSE Stopped(ending)
  /\ ending' = "none"
  /\ Goto("idle")
  /\ UNCHANGED <<metadata, outcome, alive>>

-----------------------------------------------------------------------------
(* A fresh invocation *)

\* The record names the run before anything of it exists; an earlier run's
\* files, and its Agent if that still lives, are not this run's.
StartInvocation ==
  /\ pc = "idle" /\ record.stage = "ready" /\ ~record.run
  /\ record' = [record EXCEPT !.run = TRUE, !.attempt = @ + 1]
  /\ metadata' = [status |-> "none", ok |-> FALSE] /\ outcome' = "none"
  /\ exists' = FALSE /\ alive' = FALSE
  /\ Goto("prepare")
  /\ UNCHANGED ending

\* A stable snapshot is copied and its fingerprints go into the metadata.
MakeWorkspace ==
  /\ pc = "prepare"
  /\ baseline' = project /\ edited' = [f \in File |-> "none"]
  /\ diff' = {} /\ exists' = TRUE /\ alive' = TRUE
  /\ metadata' = [metadata EXCEPT !.status = "running"]
  /\ pc' = "agent"
  /\ UNCHANGED <<project, backup, todo, record, outcome, ending>>

\* The failure goes into the metadata first, then into the record.
MakeWorkspaceFails ==
  /\ pc = "prepare"
  /\ metadata' = [metadata EXCEPT !.status = "failed"]
  /\ Goto("unmade")
  /\ UNCHANGED <<record, outcome, exists, alive, ending>>

StopUnmade ==
  /\ pc = "unmade"
  /\ record' = Stopped("WORKSPACE_SETUP_FAILED")
  /\ Goto("idle")
  /\ UNCHANGED <<metadata, outcome, exists, alive, ending>>

\* The Agent works in its workspace, also when the process that started it
\* has died, and may write an outcome whatever becomes of it.
AgentChanges ==
  /\ alive /\ exists
  /\ \E f \in File \ diff : diff' = diff \cup {f}
  /\ UNCHANGED <<project, edited, baseline, backup, todo, pc, runVars>>

AgentReports ==
  /\ alive /\ outcome = "none"
  /\ outcome' \in {"approved", "other", "malformed"}
  /\ UNCHANGED <<commitVars, record, metadata, exists, alive, ending>>

AgentDies ==
  /\ alive /\ pc # "agent"
  /\ alive' = FALSE
  /\ UNCHANGED <<commitVars, record, metadata, outcome, exists, ending>>

\* The runner returns; a timeout or a failure shows in the exit code.
RunnerReturns ==
  /\ pc = "agent"
  /\ alive' = FALSE
  /\ \E ok \in BOOLEAN : metadata' = [status |-> "completed", ok |-> ok]
  /\ Goto("check")
  /\ UNCHANGED <<record, outcome, exists, ending>>

\* The runner raises instead: the failure is recorded, and retried, without a
\* look at the project.
RunnerRaises ==
  /\ pc = "agent"
  /\ alive' = FALSE
  /\ ending' = "RETRY"
  /\ Goto("fail")
  /\ UNCHANGED <<record, metadata, outcome, exists>>

\* Drift of the current targets stops the run whatever the Agent reports; a
\* failed process or an unusable outcome is retried.
CheckInvocation ==
  /\ pc = "check"
  /\ \/ CurrentTargetDrift /\ Fail("REAL_PROJECT_CHANGED_DURING_RUN")
     \/ /\ ~CurrentTargetDrift
        /\ ~metadata.ok \/ outcome \notin ValidOutcome
        /\ Fail("RETRY")
     \/ /\ ~CurrentTargetDrift /\ metadata.ok /\ outcome \in ValidOutcome
        /\ Goto("finalize")
        /\ UNCHANGED runVars

-----------------------------------------------------------------------------
(* _finalize_agent_outcome *)

\* No workspace, no changes.
HasChanges == exists /\ diff # {}

\* Faulty variants: the outcome is applied without the diff; a drift is
\* retried like any other failure.
FinalizeApplies ==
  /\ pc = "finalize"
  /\ \/ CurrentTargetDrift /\ Fail("TARGET_DRIFT")
     \/ ~CurrentTargetDrift /\ Goto("discard") /\ UNCHANGED runVars

FinalizeRetriesDrift ==
  /\ pc = "finalize"
  /\ \/ CurrentTargetDrift /\ Fail("RETRY")
     \/ /\ ~CurrentTargetDrift
        /\ Goto(IF outcome = "approved" /\ HasChanges THEN "commit"
                                                      ELSE "discard")
        /\ UNCHANGED runVars

Finalize ==
  /\ pc = "finalize"
  /\ \/ CurrentTargetDrift /\ Fail("TARGET_DRIFT")
     \/ /\ ~CurrentTargetDrift
        /\ Goto(IF outcome = "approved" /\ HasChanges THEN "commit"
                                                      ELSE "discard")
        /\ UNCHANGED runVars

\* apply_validated_diff refused, before or after it wrote anything.
CommitRefused ==
  \/ /\ pc = "commit" /\ ~Passes
     /\ Fail(IF TargetDrift THEN "TARGET_DRIFT"
                            ELSE "UNAUTHORIZED_WORKSPACE_MUTATION")
  \/ pc = "refused" /\ Fail("UNAUTHORIZED_WORKSPACE_MUTATION")

Discard ==
  /\ pc = "discard"
  /\ exists' = FALSE
  /\ Goto("apply")
  /\ UNCHANGED <<record, metadata, outcome, alive, ending>>

\* _apply_outcome: the transition of Orchestrator, cut down to whether the
\* work goes to its review.
ApplyOutcome ==
  /\ pc = "apply"
  /\ record' = IF outcome = "approved"
                 THEN [record EXCEPT !.stage = "review", !.run = FALSE]
                 ELSE Stopped("UNSUPPORTED_VERDICT")
  /\ Goto("idle")
  /\ UNCHANGED <<metadata, outcome, exists, alive, ending>>

-----------------------------------------------------------------------------
(* A step that finds an invocation in the record *)

Resumes == pc = "idle" /\ record.stage = "ready" /\ record.run

\* Faulty variant: a running invocation's outcome is good enough.
ResumeFinalizesRunning ==
  /\ Resumes /\ outcome \in ValidOutcome
  /\ Goto("finalize") /\ UNCHANGED runVars

ResumeFinalizes ==
  /\ Resumes /\ outcome \in ValidOutcome /\ metadata.status # "running"
  /\ Goto("finalize") /\ UNCHANGED runVars

\* The workspace of a run without an outcome is kept for recover.
ResumeStops ==
  /\ Resumes /\ metadata.status = "running"
  /\ \/ outcome \in ValidOutcome /\ StopRun("RECOVERY_UNCERTAIN")
     \/ /\ outcome = "none"
        /\ record' = Stopped("RECOVERY_UNCERTAIN") /\ Goto("idle")
        /\ UNCHANGED <<metadata, outcome, exists, alive, ending>>

ResumeRetries ==
  /\ Resumes /\ outcome \notin ValidOutcome
  /\ metadata.status # "running" \/ outcome = "malformed"
  /\ record' = Retried /\ Goto("idle")
  /\ UNCHANGED <<metadata, outcome, exists, alive, ending>>

\* Stopped by a step, or left as it was by the process that died.
Interrupted ==
  \/ record.code = "RECOVERY_UNCERTAIN"
  \/ Resumes /\ metadata.status = "running" /\ outcome = "none"

\* recover of an interrupted invocation, refused while its Agent lives or
\* when a target is not what it was.
Recover ==
  /\ pc = "idle" /\ Interrupted /\ ~alive
  /\ metadata.status \in {"running", "failed"}
  /\ metadata.status = "running" => ~CurrentTargetDrift
  /\ metadata' = [status |-> "failed", ok |-> FALSE] /\ exists' = FALSE
  /\ record' = [stage |-> "ready", run |-> FALSE, attempt |-> 0,
                code |-> "none"]
  /\ Goto("idle")
  /\ UNCHANGED <<outcome, alive, ending>>

-----------------------------------------------------------------------------
(* The process *)

\* The process dies.  An Agent it was waiting for may live on.
Crash ==
  /\ pc # "idle"
  /\ Goto("idle")
  /\ alive' \in {alive, FALSE}
  /\ ending' = "none"
  /\ UNCHANGED <<record, metadata, outcome, exists>>

Process == \/ PersistFailure \/ CloseFailed \/ MakeWorkspace
           \/ MakeWorkspaceFails \/ StopUnmade \/ RunnerReturns
           \/ RunnerRaises \/ CheckInvocation \/ Finalize \/ CommitRefused \/ Discard \/ ApplyOutcome
           \/ Commit /\ UNCHANGED runVars

Command == \/ StartInvocation \/ ResumeFinalizes \/ ResumeStops
           \/ ResumeRetries \/ Recover

Agent == AgentChanges \/ AgentReports \/ AgentDies

Next == \/ Process \/ Command \/ Agent \/ Crash
        \/ HumanEdits /\ UNCHANGED runVars

Spec == Init /\ [][Next]_vars

-----------------------------------------------------------------------------
(* Properties *)

RunRecord ==
  [stage : {"ready", "review", "stopped"}, run : BOOLEAN,
   attempt : 0 .. MaxAttempts, code : StopCode \cup {"none"}]

RunMetadata ==
  [status : {"none", "running", "completed", "failed"}, ok : BOOLEAN]

\* Every variable keeps to its set of values.
TypeOK ==
  /\ project \in [File -> Content] /\ baseline \in [File -> Content]
  /\ backup \in [File -> Content] /\ edited \in [File -> Edit]
  /\ diff \subseteq File /\ todo \subseteq File
  /\ pc \in CommitPhases \cup
       {"idle", "prepare", "unmade", "agent", "check", "finalize", "commit",
        "refused", "discard", "apply", "fail", "close"}
  /\ record \in RunRecord /\ metadata \in RunMetadata
  /\ outcome \in Outcome /\ exists \in BOOLEAN /\ alive \in BOOLEAN
  /\ ending \in StopCode \cup {"none", "RETRY"}

\* The work goes to its review only with the whole diff in the real project,
\* but for what a human changed meanwhile: a half-written diff, or one lost
\* with its workspace, is never passed over.
ReviewedWorkIsInPlace ==
  record.stage = "review" =>
    \A f \in diff : edited[f] = "none" => project[f] = "agent"

\* A diff that commit-back refused has left no trace in the project.
RefusedDiffLeavesNoTrace ==
  record.code = "UNAUTHORIZED_WORKSPACE_MUTATION" =>
    \A f \in File : edited[f] = "none" => project[f] = baseline[f]

\* No Agent starts from a project that holds a part of the diff of an earlier
\* invocation of the stage, whatever crashes and recoveries came between.
StartsWithoutTraces == pc = "agent" => \A f \in File : baseline[f] # "agent"

\* What a human saves while there are still checks ahead of it is kept.
SeenEditSurvives == \A f \in File : edited[f] = "seen" => project[f] \in HumanContent

\* A file outside the task's scope is never written.
OutsideScopeUntouched == \A f \in File \ Allowed : project[f] # "agent"

\* A diff is written only for an invocation that is over and reported its
\* approval: never for one still recorded as running.
UnfinishedNeverCommits ==
  pc \in CommitPhases => metadata.status = "completed" /\ outcome = "approved"

\* The diff of an invocation that failed or ran into its timeout is never
\* adopted.
FailedInvocationNotAdopted == record.stage = "review" => metadata.ok

\* The commands of the operator and the end of the Agent are waited for; the
\* process itself goes on.
Fairness == WF_vars(Process)
FairSpec == Spec /\ Fairness

\* A step of the process ends.
StepReturns == pc # "idle" ~> pc = "idle"

=============================================================================
