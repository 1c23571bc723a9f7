# Verification of the Contract Workflow Orchestrator

`cwo` is a control plane for coding Agents: it decides which stage of a workflow runs next, starts one Agent
invocation for it in a throw-away workspace, judges the Agent's `outcome.json`, commits a validated diff into the
project, asks the human for what it may not decide itself, and keeps all of this in a `state.json` from which it
resumes after any interruption. The modules of this directory model that control plane, TLC checks them on small
instances, and TLAPS proves theorems about them for every value of the constants.

Paths below are relative to `src/src/contract_workflow/`; `docs/` means `src/docs/`.

* [Inventory](#inventory): the parts of the system, their state, and what makes each correct
* [Modules](#modules): how the state and the actions correspond to the code
* [Runs](#runs): what each run asks, its bounds, and why they are enough
* [What the runs found](#what-the-runs-found): where the code and its documents disagree
* [Fairness](#fairness)
* [Proofs](#proofs)
* [Abstractions](#abstractions): what the modules leave out
* [Plan](#plan): what comes next

## Inventory

| Part | Code | State it keeps | Operations | What makes it correct |
|---|---|---|---|---|
| Workflow record | `models.py`, `state_store.py` | `state.json`, written atomically after each step | load, save, copies into decision, ADR and ledger files | the record alone is enough to resume from |
| Scheduler | `scheduler.py` | status of every work item (derived from decisions, changes, dependencies) | `recompute`, `select_next`, `schedule`, `start` | work in dependency order; nothing blocked runs; waits and stops only without work |
| Stage transitions | `state_machine.py` | stage, attempt, pending gate | `transition_after_outcome`, `approve`, `stop` | human gates are passed by `approve` only; completion means everything is completed |
| Human decisions | `orchestrator.py` (`decide`, `_record_decisions`) | decision records, ADRs | raise, reuse, answer | an answer releases exactly what waits for it |
| Authority changes | `authority.py`, `propagation.py`, `orchestrator.py` | change ledger, propagation records | detect, analyse, propagate stage by stage, promote | affected work is reopened and rests until the change is promoted |
| Step and run loop | `orchestrator.py` | the above, the latest `metadata.json` | `step`, `run`, gates, `approve`, `stop`, `recover` | no stage is tried too often, a run returns, recovery repeats nothing and skips nothing |
| Agent invocation | `orchestrator.py` (`_execute_stage`, `_finalize_invocation`), `runners/` | `runs/<id>/` with `metadata.json` and `outcome.json` | invoke, finalize, resume, record a failure | an outcome is adopted once, for the invocation it belongs to, when that is over |
| Commit-back | `workspace.py` | the workspace, the project's files, backups | materialise, diff, apply, restore | all or nothing; in scope; never over a human's edit |
| Artifact promotion | `orchestrator.py` (`_prepare_artifact_promotion`, `_promote_artifact`) | artifact, promotion record, the projected files | prepare, record, write, commit, accept | an accepted revision is in place as a whole; only its baseline is overwritten |
| Artifact pipeline | `artifacts.py`, `orchestrator.py` | artifacts, their candidates and accepted revisions, evidence, decisions | generate, validate, review, patch, promote, mark stale, block | only checked bytes are accepted, nothing accepted derives from a superseded revision, the project completes on an accepted chain |
| Remote authority | `remote.py`, `authority_set.py`, `candidate_projection.py` | ledger, change files, decision files, the record | scan, open a change, roll a candidate over, accept | decisions belong to the candidate they were made for; the newest submission is taken up; the files agree |
| Local authority scan | `authority.py` | accepted hashes | scan, register | as the remote one |
| Plan graph | `plan_graph.py`, `scheduler.py`, `orchestrator.py` | the active graph in place of the declaration | validate, replace, reconcile | completed work survives the graph, every task of it is carried out, the workflow is never stuck |
| Project validators | `project_validator.py` | evidence files | run a command in a workspace | evidence belongs to the exact candidate |
| Review findings | `review_evidence.py` | register of findings | record, close | bookkeeping |
| Configuration | `config.py` | `workflow.yaml` and its digest | load, check | a changed digest stops the workflow |
| Prompts, event log | `prompt_builder.py`, `logging.py` | append-only output | render, append | read by nothing |

**How they interact.** One process of `cwo` at a time is the intended use: each command loads the record, works, and
saves it. `run` calls `step` until something stops it. A step passes the gates in a fixed order (digest of
`workflow.yaml`, terminal status, authority change, human gate, git audit), lets the scheduler pick work when the stage
is `READY`, and otherwise starts an Agent and waits for it. The Agent is a subprocess writing files in its workspace and an
`outcome.json`; it is a process of its own that can outlive its parent. The human edits the same project
concurrently, answers decisions, approves gates, stops and recovers.

**What is hard.** (1) Several owners of one variable: `current_stage` is set by the transition table, the scheduler,
the authority gate, propagation, promotion, `approve`, `decide`, `stop` and the several kinds of `recover`, each relying on
what the others left. (2) Derived statuses: a chain of tests turns decisions, changes and dependencies into item
statuses, but `RUNNING` and `REQUIRES_PATCH` are sticky. (3) Crashes: `state.json`, `metadata.json`, `outcome.json` and the
project's files are written one after the other, and each prefix has to be understood by the next step or by
`recover`. (4) Concurrency with the human and with an Agent that is still alive. (5) Bounds that must survive all that:
attempts of a stage, steps of a run. (6) Revisions that arrive while something rests on the old one: a submission while its
predecessor is analysed or offered, a guide while artifacts derived from it are reviewed, a graph while its tasks are
worked on. `hazards` in PROJECT.json lists these at their lines.

## Modules

| Module | Models | Code |
|---|---|---|
| `WorkflowState` | vocabulary, constants with their assumptions, the record | `models.py`, stage sets of `state_machine.py`, `scheduler.py` |
| `Scheduler` | `recompute`, ready work, selection, `schedule` as operators record -> record | `scheduler.py` |
| `StateMachine` | transition after an outcome, `approve`, hard stop | `state_machine.py` |
| `Authority` | decisions; detection, analysis, propagation and promotion of changes | `orchestrator.py`, `authority.py`, `propagation.py` |
| `Orchestrator` | step, run, the end of an Agent, all commands, recoveries, the environment | `orchestrator.py`, `cli.py` |
| `OrchestratorProperties` | what `Orchestrator` has to guarantee, its inductive invariant, its refinement | |
| `TaskLedger` | abstract specification: which tasks are done, which one is worked on | |
| `GateHistory` | `Orchestrator` with a history variable for owed approvals, on the instances of `MCOrchestrator` | |
| `CommitBack` | the transaction that writes a diff, as actions | `workspace.py` |
| `AgentRun` | one invocation write by write, with crashes; uses `CommitBack` | `orchestrator.py` |
| `ArtifactPromotion` | promotion of one artifact file by file, with crashes | `orchestrator.py` |
| `ArtifactPipeline` | the life cycle of a graph of artifacts from the guide to the tasks | `artifacts.py`, `orchestrator.py`, `project_validator.py` |
| `RemoteAuthority` | submissions, scans, rollovers and acceptance write by write, two processes | `remote.py`, `orchestrator.py`, `authority.py` |
| `PlanGraph` | graphs that replace each other under work in progress | `plan_graph.py`, `scheduler.py`, `orchestrator.py` |
| `OrchestratorProofs`, `OrderProofs`, `ChangeProofs`, `AgentRunProofs`, `ArtifactPromotionProofs`, `ArtifactPipelineProofs`, `RemoteAuthorityProofs`, `PlanGraphProofs` | the proofs | |
| `MCOrchestrator`, `MCAgentRun`, `MCArtifactPromotion`, `MCArtifactPipeline`, `MCRemoteAuthority`, `MCPlanGraph` | instances for TLC | |

The control plane is modelled at two grains. `Orchestrator` looks at it from one record to the next: `state` is the content
of `state.json`, one action is one `step`, one end of an invocation, or one command, and an operator such as
`Schedule(s)` is a function of the code from record to record. `AgentRun` and
`ArtifactPromotion` look inside the two steps that write more than the record: every file write is an action and the
process can die between any two. `ArtifactPipeline` and `PlanGraph` are at the grain of `Orchestrator` and turn to the
two structures it keeps fixed, the artifacts and the task graph; `RemoteAuthority` is at the grain of single writes.

**Orchestrator.** `state` is the record; `running`, `left` and `invoking` say that a `run` is in progress, how many
of its steps are left and whether it waits for an Agent; `latest` is the newest invocation's `metadata.json` and `outcome.json`;
`orphans` that older ones are still recorded as running; `candidate` is a submitted authority source not registered yet; `tree` and
`digestMatches` are what git and `workflow.yaml` look like. `Step*` actions are the branches of `step`
(change detected, nothing to do, audit stop, scheduling, invocation, a dead invocation found); `Finish*` and
`RunnerFails` are the branches after the Agent's end; `Recover*` those of `recover`; `Interrupt`, `LateOutcome`,
`SubmitAuthority`, `EditTree` and `EditWorkflow` are the environment. Every command starts with `Load`, because the
code recomputes item statuses and checks the digest whenever it loads the record.

**AgentRun / CommitBack.** `pc` is the place in `_execute_stage`, `_finalize_invocation` and
`commit_diff`; `record`, `metadata` and `outcome` are the three files; `project`, `baseline`, `backup` hold for each file
who wrote it last; `edited` remembers a human's edit and whether a check was still ahead of it (`seen`) or it fell
between check and write (`raced`). `exists` says that the workspace is there, `alive` that the Agent is.

**ArtifactPromotion.** `artifact` and `promotion` are parts of the record, `files` the projected files by revision number;
`Validate`, `Record`, `WriteTarget`, `CommitRecord` and `Finalize` are the phases of `_prepare_artifact_promotion` and
`_promote_artifact` between two writes.

**ArtifactPipeline.** `artifacts` are the `EngineeringArtifact` records (status, candidate and accepted hash, what they were
derived from, evidence of validator and review with the candidate it is about); `offers` are the promotion decisions and
`questions` what reviews asked; `changes` the revisions of the guide. Stages are the generic artifact stages, with
`current` for `current_artifact_id`; `done` stands for the items of the tasks. `Refused` is the preflight of a promotion
(`promotion_error`), `Stale` and `Reconciled` the detection and the reset of a derivation that has been overtaken, `BlockAffected` and
`Released` what a revision of the guide and its promotion do to what it affects. One action is one step of `run` or one command.

**RemoteAuthority.** `ledger`, `files`, `notes` and `record` are the four kinds of file; `branch` is the submitted content. `Scan`,
`Rollover`, `Newer` and `NewChange` are functions of `check_remote_authority`, `Gate`, `Analyse` and `Decide` the
handlers of the orchestrator that scan. A handler computes what it will write and leaves it in `writes`; `Write` carries out one
file write, `Crash` forgets the rest. `mem` is the record as the process loaded it, which is what a later save writes back.
A step scans twice: `Gate` is `_authority_gate`, `Audit` is `_audit_gate()` (`orchestrator.py:767` and `:590`), which scans once
more, over a record it loads itself. What that scan changes in the record is not in `mem`, and `Work`, the step of the stage, saves
`mem` over it. `Onward` says where a step goes behind its gate: to the audit, to the stage without one, or to its end.

**PlanGraph.** `state` is the part of the record that concerns tasks and changes, with the active graph in it; `dropped`
is a history variable. `StatusInGraph` is the chain of tests of `recompute` and `Schedule` the set of records the scheduler may leave
behind: a set, since the graph's order is the Agent's. `grouped` says whether the current task is in the group `workflow.yaml` gives it.
`Visited` is the search of `validate_plan_graph` as a recursive function.

**TaskLedger** says what the control plane promises about tasks and nothing else: one is worked on at a time, it is
begun when its dependencies are completed, it is completed by the work on it, and reopened only while nothing
is worked on. `ImplementsLedger` is the refinement: `done` are the items marked `COMPLETED`, `active` is
the current task while the stage is one of task work.

## Runs

All cfgs of `MCOrchestrator` share the constants `Task`, `Rank`, `Dependencies` (the graph), `Question` and `Change` (what can be
asked, what can change), the policy, and the bounds: `MaxTotalSteps` is both the policy's value and the number of steps
of one run (any number of runs may follow), `Verdicts` the verdicts Agents give, `Scopes` the sets of tasks a
question or change may name, and `Disturbances` what may go wrong:
`interrupt` (the process dies), `invalid` (an outcome refused), `runner` (the runner fails), `reject` (the diff is refused), `late` (an
outcome appears after the failure), `malformed` (the process dies and its Agent leaves an outcome that cannot be read, which the next step
retries at once, with the metadata still saying `running`), `edit` (unrelated changes in the tree), `digest`, `stop` (the operator).

| Run | Question | Instance | States |
|---|---|---|---|
| `AuthorityChange` | Is a dependency block declared only when nothing can run? Does the whole keep the ledger of tasks? | 3 tasks; autonomous; one change from detection to promotion | 15,447 |
| `Recovery` | Do stops and recoveries keep the bounds, the gates and the order? Does every run return? | 2 tasks in a chain; gated; 2 attempts; all disturbances | 159,708 |
| `Replanning` | Do questions, changes, patches and plan defects get in each other's way? | 2 tasks in a chain; gated; one question and one change; invalid outcomes | 310,327 |
| `AgentRun` | Is a diff reviewed only as a whole, and never left behind, adopted early or written over an edit? | 2 files in scope, one out of it; 2 attempts; crashes without bound | 790,345 |
| `ArtifactPromotion` | Is an accepted revision whole? Is only the baseline overwritten? | a primary and two linked files; 2 candidates; both policies; crashes without bound, edits, other decisions, stale upstreams | 2,515,952 |
| `ArtifactPipeline` | Is only what was checked accepted, and does the project complete only on an accepted chain? | the canonical chain: guide, specification, contract, conformance specification; 2 contents; the specification validated and reviewed, the contract reviewed, the conformance specification gated; one revision of the guide; one task; 2 attempts; invalid outcomes, failing validators, questions, also repeated ones, recoveries | 649,839 |
| `RemoteAuthority` | Do decisions stay with their candidate, and is the newest submission taken up? | 3 contents, 2 changes, 3 submissions, one crash between any two writes; both scans of a step; one process at a time | 657,177 |
| `PlanGraph` | Does completed work survive a new graph, and is all of the graph carried out? | 2 declared tasks in a chain; every acyclic graph over 3 tasks; 2 changes one after the other; tasks handed back in another group | 67,307 |

*Why these bounds.* Three tasks are the fewest in which one depends on another and a third does not, which
is what tells blocked, waiting and independent work apart; where the subject is the interplay of handlers and not
the graph, two in a chain do. Two attempts tell a first failure, a retry and exhaustion apart. One question and one
change reach every handler of either and every interleaving of the two;
a second change of the one source would be a rollover of the first, which is `RemoteAuthority`'s. Three steps per run
let a run end by its budget in front of and behind every stage, and since the number of runs is not bounded no workflow is cut
short. Two writable files give every proper prefix of a transaction; the third promotion target
distinguishes the loop's first write (always the primary file), a middle and the last. Two candidates let a
superseded one leave a record behind. In `ArtifactPipeline` the graph is the canonical one of
`docs/CWO_当前架构状态.md:164` and `artifacts.py:392`, where the conformance specification is three derivations away from the guide, so that
staleness and what is left behind cross two edges; a chain that goes on through the design (3,029,171 states) was checked outside the runs
with no error. Two contents let a candidate differ from the
accepted revision, come back to it, and differ from what a decision was about. The proofs carry the properties to every graph, with
the exceptions that they name. In `RemoteAuthority` three contents and three
submissions allow a rollover of a rollover and a branch that moves back to what was accepted; the second change follows an accepted
one. In `PlanGraph` a graph can add the third task, drop a declared one and rewire the rest, and the second change does so to
a graph that is no longer the declaration. A promotion may hand a declared task back in the group a graph puts it into (`grouped`), whose diff is refused
like that of a task only the graph has (`models.py:355`): with it `GraphTasksAreBounded` fails for a declared task too.

The properties, by run:

* `AuthorityChange`: `DependencyBlockIsReal` (no item may stay marked as worked on without being the current one) and
  `ImplementsLedger`, the refinement.
* `Recovery`: `AttemptsBounded`, over every kind of stop and recovery; `NoOverlap`: no invocation is left behind that is recorded as
  running, but for the one whose outcome is malformed; `ExecutesInDependencyOrder`, also when the
  group approval and not the transition table picks the next task; `OnlyApproveGivesApproval`: stops and recoveries in front of a
  group approval come back to it. (A second stop on top of a stop overwrites `blocked_stage` with `HARD_STOP`; the
  property excepts it.) `RunReturns`: the budget ends every run.
* `Replanning`: `FinishesOnlyWhenDone`, `WaitsOnlyWithoutWork`, `NoWorkUnderOpenChange`, `CompletedIsFinal`: the workflow is not
  finished before its tasks, waits only when nothing can run, leaves alone what a change affects, and takes a completed task back
  only for an open change.
* `AgentRun`: `ReviewedWorkIsInPlace`, `RefusedDiffLeavesNoTrace`, `StartsWithoutTraces`, `SeenEditSurvives`,
  `OutsideScopeUntouched`, `UnfinishedNeverCommits`, `StepReturns`: the transaction and the invocation around it.
* `ArtifactPromotion`: `AcceptedIsInPlace`, `ProjectedIsRecorded`, `OverwritesOnlyBaseline`, `AcceptsWhatWasRecorded`.
* `ArtifactPipeline`: `AcceptsWhatWasChecked` (evidence is of the exact candidate, derived from what the upstream has accepted),
  `StageMatchesArtifact` (an interrupted, stopped or recovered stage is the one its artifact is in, and the artifact is derived from
  what its upstream has accepted), `WorksFromCurrentChain` (tasks rest on accepted revisions only) and
  `CompletesOnAcceptedChain`: a completed project has an accepted conformance specification, and every artifact is accepted and derived from the one
  revision its upstream has, except for what is `LeftBehind` and what depends on that. Left behind is a promotion that was refused
  while something else was to be decided, and an artifact whose question was asked again after its answer.
* `RemoteAuthority`: `AcceptsOnlyApproved`, `OfferIsCurrent` and `FilesAgree` say what holds as long as nothing crashes: the files
  agree, except that the record may be behind a candidate that is not analysed yet, and a decision that is open and is answered is about the
  current candidate, except for one that is withdrawn in its file and not in the record (`WithdrawnOnFile`). Both exceptions come from
  the second scan of a step. `AcceptedIsOnFile` what holds in spite of them, `NewestIsRegistered` that a submission left alone is taken up.
* `PlanGraph`: `CompletedSurvivesGraphs`, `FinishesTheGraph`, `NeverBlocked`.

Each property has a mutant in PROJECT.json: an operator beside the original (`ResumableOfAnyCandidate`,
`RestoreForgets`, `ApplyVerdictCompletesEarly`...) that stands for a plausible mistake, and under which TLC finds the property
violated.

Some properties are checked where they hold and refuted where they do not. `DependencyBlockIsReal` holds for changes
and fails for scoped questions (`DependencyBlock.cfg`); the proof of `ChangeProofs` says what else it needs. `ExecutesInDependencyOrder` holds in gated mode, also with a
question (881,025 states), and fails after a late review (`LateReview.cfg`) and among plan defects. `OnlyApproveGivesApproval`
holds without questions and fails with one (`DecisionAtGate.cfg`).
`NoOverlap` holds without questions and changes and fails with a change (`UnsettledInvocation.cfg`); that a malformed outcome is retried
whatever the metadata say (`orchestrator.py:860`) is the exception it names; `CompletedIsFinal` fails when an
answer and an edited workflow file come together (`StaleStop.cfg`). `FinishesTheGraph` holds until a graph takes up a dropped
task (`ReturnedTask.cfg`), `NeverBlocked` until a change names no task (`MarkedTask.cfg`).
`CompletesOnAcceptedChain` holds for every graph with the exception `LeftBehind`; that a project completes past no promotion that was refused
(`PassedIsPromoted`) does not (`ParkedPromotion.cfg`).
That a stage works on a derivation from what its upstream has accepted holds; that its upstream is `ACCEPTED` does not
(`ResumedUpstream.cfg`). `AcceptsOnlyApproved`, `FilesAgree`
and `OfferIsCurrent` hold without a crash, with one process at a time, and up to `WithdrawnOnFile`, which `SkippedRevision.cfg` leads to. For the same reasons `ImplementsLedger` is checked without a
question next to a change, and `FinishesOnlyWhenDone` with late outcomes only in gated mode, where the group approval
reschedules.

## What the runs found

Four runs check a sentence of the repository and TLC refutes it; PROJECT.json quotes the lines.

* `GateBypass`: an authority change detected at `HUMAN_GROUP_APPROVAL` takes the stage over and clears the gate;
  after the analysis the scheduler goes on with the next task. `docs/state-machine.md` says gates cannot be bypassed.
  `GateHistory` is there for this property: the record itself forgets the gate.
* `AbandonedPromotion`: an AUTO promotion interrupted after its first write is refused by the next step as a drifted
  target and parked; the project keeps half of a revision.
* `HistoricalDecision`: a rollover that dies between the decision file and the record leaves the decision about the old
  candidate open in the record; the repeated rollover passes it over, and its answer accepts the new candidate. With a fourth content TLC finds the same without a crash (`MaxCrashes = 0`):
the rollover in the second scan of a step leaves the decision open in the same way, because the step saves its older record.
* `GraphTask`: a task only the plan graph supplies is executed, and its diff is refused because `task_at` looks
  at `workflow.yaml`.

**Further counterexamples.** Each of these cfgs makes TLC print one; they are kept beside the runs
because they show what the properties above have to except. `src/README.md` is the repository's.

| Cfg (module) | What happens | Against |
|---|---|---|
| `DecisionAtGate` (`MCOrchestrator`) | a question answered while a group approval is pending sends the record to `READY`; the approval is not asked again | `docs/state-machine.md:43` |
| `UnsettledInvocation` (`MCOrchestrator`) | an authority change detected after an interrupted invocation clears `run_id` and takes the stage over; a new Agent is started beside one that is still recorded as running | `docs/architecture.md:22` |
| `StaleStop` (`MCOrchestrator`) | `decide` schedules on from a stop without clearing `blocked_stage`; a later digest stop at a group approval keeps that stage (`blocked_stage or current_stage`), and `recover` executes the completed task once more instead of coming back to the gate | `docs/state-machine.md:43` |
| `DependencyBlock` (`MCOrchestrator`) | a scoped verdict that blocks other tasks than the current one leaves its item `RUNNING` without a current task; the scheduler hard-stops | `docs/state-machine.md:53` |
| `LateReview` (`MCOrchestrator`) | `recover` reconciles a late review without completing the item; in autonomous mode the next task is executed although it depends on it | `src/README.md:3` |
| `PlanReviewOwner` (`MCOrchestrator`) | a parked propagation claims the review of an ordinary plan defect: `active_propagation` does not look at the status | comment at `orchestrator.py:1512` |
| `FailedAdopted` (`MCAgentRun`) | a crash between `metadata.json` and the replaced `outcome.json` lets the next step adopt the failed invocation's outcome | `docs/CWO_当前架构状态.md:128` |
| `StaleOffer` (`MCArtifactPipeline`) | a revision of the guide resets a candidate whose promotion is offered; the answer meets another candidate or none | `src/README.md:51` |
| `ParkedPromotion` (`MCArtifactPipeline`) | in the canonical chain a revision of the guide is submitted while a question of the conformance specification is open: the specification, which has passed its review, is refused its promotion because something else is to be decided, and stays in `PROMOTION_READY`; the contract stays `PENDING`, the conformance specification is promoted, and the project completes | `docs/state-machine.md:49` |
| `UnanswerableWait` (`MCArtifactPipeline`) | the workflow waits for a decision whose answer is refused | `docs/state-machine.md:53` |
| `ResumedUpstream` (`MCArtifactPipeline`) | a revision of the guide interrupts a review; a promotion answered before its analysis ends resets the upstream, which the revision makes stale; when the revision is accepted the review goes on, although the upstream is `PENDING` | `docs/state-machine.md:47` |
| `FalseAnswer` (`MCRemoteAuthority`) | a promotion refused by its scan leaves an ADR of a decision that is not resolved | comment at `orchestrator.py:2434` |
| `UnreconciledAnalysis` (`MCRemoteAuthority`) | a crash behind the ledger's write leaves an analysis of a change that is accepted; it is repeated and refused | `docs/architecture.md:22` |
| `SkippedRevision` (`MCRemoteAuthority`) | a submission between the two scans of a step is rolled over by the second one, and the step saves its older record over that; the gate looks only at the classification in the record (`orchestrator.py:738`), so that the new revision is never analysed and the old decision stays open. It takes neither a crash nor a second process; when the branch moves back, the answer is accepted although its file says `SUPERSEDED` | `docs/adr/ADR-006-candidate-revision-rollover.md:20` |
| `LostAcceptance` (`MCRemoteAuthority`, two processes) | the ledger write of a `check` that scanned before takes an acceptance back | nothing locks the store |
| `ReturnedTask` (`MCPlanGraph`) | `SUPERSEDED` is sticky: a task that is taken up again is never run, and the project completes | `src/README.md:41` |
| `SupersededTask` (`MCPlanGraph`) | promotion hands back the first affected task of the change although the graph has dropped it | `src/README.md:41` |
| `MarkedTask` (`MCPlanGraph`) | a change without affected tasks is promoted past a task that stays marked; the workflow ends in `DEPENDENCY_BLOCKED` | `src/README.md:3` |

Three more are found by TLC when they are put into the place of the invariant of one of these. The acceptance of an artifact leaves
`ARTIFACT_GENERATION` as the stage without a `current_artifact_id` (`GenerationCarriesArtifact` in `UnanswerableWait.cfg`, against
`docs/state-machine.md:47`). After a failed validation a patch that finds nothing to patch (`NO_PATCH_NEEDED`) goes on to the review, with
evidence that says `FAIL` (`ReviewsOnlyValidated` in `UnanswerableWait.cfg`, against `src/README.md:45`). What
`reconcile_plan_graph` calls affected stays completed, because its result is only recorded (`AffectedIsReopened`, an action property, in
`SupersededTask.cfg`, against `src/README.md:41`).

Three more disagreements were met in the code and are outside the modules: `consume_approved_dependencies`
(`artifacts.py:340`) never has an effect, because no step leaves an artifact in `APPROVED`; the answer `defer` about a
typed propagation, whose list of stages is empty, fails in `decide` (`orchestrator.py:2432`); and a C0 or C1 revision that names
artifacts leaves the guide unpromoted.

## Fairness

`RunReturns` assumes `WF_vars(Step) /\ WF_vars(AgentEnd)`, `StepReturns` assumes `WF_vars(Process)`,
`NewestIsRegistered` assumes weak fairness of `Start` (a `watch` or a run polls again), of `Go` and of each process's
`Progress` (what was started is carried on). The run loop
is a single thread that takes its next step whenever it can, and the Agent's subprocess is killed by the runner's
timeout at the latest, so that its end is never put off for ever. Nothing is assumed of the human, of a submission, of
a crash or of a recovery: the properties hold if they never come and if they come all the time. No strong fairness
is used.

## Proofs

**`OrchestratorProofs`** proves `Spec => []TypeOK` and `Spec => []AttemptsBounded` for every graph (cyclic ones
included), policy, question, change and bound. `AttemptsBounded` is not inductive: the handler of a failed outcome adds
one to `attempt`, which needs `attempt < MaxAttempts` when an Agent is *started*. So `Inductive` adds

* `AttemptsLeft`: in a stage of an Agent with no run yet, an attempt is left. Every handler that moves to such a stage
  resets `attempt` or keeps it below the bound; a stop at the bound leaves the stage.
* `StopNamesStage`: a record with a stop code names the stage it stopped. `recover` goes back to it, and without this conjunct
  the stage it restores is not of its type.
* `invoking => left > 0`: an Agent is waited for within the budget, without which `left - 1` leaves its type.

The layout follows the code: one lemma per operator from record to record ("well-formed in, well-formed out", with
`AttemptsLeft` and `StopNamesStage`), from the scheduler up to `recover`; then one lemma per group of actions; then
`Spec => []Inductive` by PTL.

It also proves `Spec => NoOverlap`, an action property, when there are no questions and no changes (`Question = {}`, `Change = {}`), which is where the run
checks it. `OneInvocation` says that an invocation recorded as running is held (the record has its `run_id`, at the Agent's stage or at a stop) or is
`Malformed`. An Agent is started only from a record without one or in the place of a malformed outcome, and every recovery either needs the
invocation to be settled or marks it failed.

**`OrderProofs`** proves for every graph of tasks, every declared order and every disturbance that a gated workflow keeps the order of
the work, as long as neither questions nor changes come up: `ExecutesInDependencyOrder`, `FinishesOnlyWhenDone`, `CompletedIsFinal`,
`OnlyApproveGivesApproval` and the refinement `ImplementsLedger`. The assumptions are needed: in autonomous mode `LateReview.cfg` refutes the first, and `StaleStop.cfg` shows what the
`blocked_stage` that a decision leaves behind does to a later stop. The invariant `InOrder` speaks of the *place* of the work, the stage or, at
a stop, the stage that was stopped:

* the current task has its dependencies completed, and is not completed itself at a place from which an Agent works on it;
* at a place of the finish every task is completed;
* only a stop has a stopped stage, so that `recover` comes back to the place and to nothing older;
* a task that depends on itself is never completed, which is what makes completing a task keep the rest (cyclic graphs are not excluded).

Every operator from record to record `Continues` (same completed tasks, still in order), except that an approved review
`Completes` its task. That is also the refinement: the first begins or suspends a task of the ledger, the second completes one.
`OnlyApproveGivesApproval` rests on the third part (a stop in front of the gate keeps the gate as its place, also when the workflow
file is edited) and on `AtItsStage`: where an Agent is waited for, the record is at an Agent's stage, so that no outcome is
applied at the gate or at a stop in front of it.

**`ChangeProofs`** goes on to workflows with questions and authority changes, which take the stage over in the middle of the work. It proves
`WaitsOnlyWithoutWork` without any assumption, `NoWorkUnderOpenChange` for gated workflows, both for every graph, policy, change and
disturbance, and `DependencyBlockIsReal` for `Undisturbed` workflows of either mode. The layout is one lemma per operator from record to record that names its *outcome* (where a stop, a gate, a recorded decision,
an ended invocation, the scheduler leave the record), so that a step of the system is a composition of outcomes:

* `Waits`: a record that waits for a human is at a gate, or has a pending decision and no ready work. It is kept because `schedule` is the only
  operator that parks a record at a decision, because it tests for ready work itself, and because no operator that keeps the
  record parked makes a task ready: `recompute` after a load keeps the set of ready tasks.
* `Tame`: no open change affects the current task, at a stop neither, and only the submitted candidate is an open change. The analysis that
  gives a change its affected tasks leaves no current task, and `schedule` selects none of those.
  It needs the gated mode: in autonomous mode the transition after an approved review takes the next task in the declared order, and the
  check of what is affected is the scheduler's.
* `Accounted` (for `DependencyBlockIsReal`) has four parts, each of which needs the others. `MarksCurrent`: only the current task is marked as worked on, and
  it is current only at its places, at the gate of its group unmarked. `CarriesChange`: a propagation that runs is that of the change in
  progress, and a decision that is pending offers one that is over. `ChangeComesLast`: a propagation past its planning, and the offer it leads to, exist only
  while no task is current or ready, and a plan review without a task is the propagation's. `BlockedForGood`: at a declared block every task not completed
  waits for one it depends on, because a task that neither waits nor is held back would be ready or marked, and no task is marked where the scheduler is called.
  `Settled` adds what the commands need: no stop has a late outcome of a review to adopt.

`Undisturbed` asks for no scoped questions, no outcome that is refused as invalid, and `workflow.yaml` left alone; runner failures, rejected diffs, late outcomes,
interruptions, stops and edits of the tree are all allowed. Each of the three is needed: with a question the run `DependencyBlock` refutes the property; with
`invalid` or `digest` added to `AuthorityChange.cfg` TLC refutes it as well. A review of a propagated plan that is refused until its attempts are used up is
taken by `recover` for a late one and goes to the plan freeze of no task, from where the work starts beside the propagation. A promotion on a record
that its own load has just stopped for an edited workflow file hands a task back but leaves the code and the blocked stage of the stop in place; after another
edit `recover` takes the record to the stage from before the promotion, and the mark of the task is left over.

**`ArtifactPromotionProofs`** proves for any finite or infinite set of files and any number of candidates the four properties of
the run: `AcceptedIsInPlace` and `ProjectedIsRecorded` as invariants, `OverwritesOnlyBaseline` and
`AcceptsWhatWasRecorded` as action properties. The argument is the invariant

* `CandidateIsApproved`: in the phases of a promotion the artifact is approved and its record is of its candidate,
* `VisitedIsInPlace`: a target the loop has visited holds the candidate or was edited behind the last check,
* `RecordHoldsBaseline`: a record in use holds as `before` the baselines the artifact declares, which is why a
  comparison with the record is one with the baseline,

together with the two invariants themselves. The step that needs all of it is `CommitRecord`: the record may say
`COMMITTED` because no target is left to visit, and acceptance may trust it because the candidate has not moved since.

**`AgentRunProofs`** proves all safety properties of the run `AgentRun`, for any finite set of files, any scope and any number of attempts,
crashes and recoveries. Its invariant says what the files on disk account for:

* `RunIsRecorded`: while the process is inside a step the record names the run; behind the runner's return the metadata say
  `completed`, and then no Agent is alive to change the diff or the outcome. This is what makes it safe to look at both more than once.
* `TracesAreKnown`: either the project holds no trace of the Agent, or the run was approved, and then no way leads back to a
  fresh start: a retry or a recovery would make a half-written diff the next baseline.
* `CommitIsJustified`, `BackupsUndo`: a diff being written is approved and in scope, and its backups undo all of it.
* `ApprovedIsInPlace`: an approved outcome whose workspace is gone has its diff in place, which is why a step resumed after the discard may
  apply the outcome without a diff.
* `EditsAreSeen`: an edit a check can see differs from the baseline, so that it is not in a diff being written.

The invariant was found from the properties: `StartsWithoutTraces` needs to know where traces can come from, that needs to know that
a restored diff is restored wholly, and that needs the order of metadata, outcome and discard.

**`ArtifactPipelineProofs`** proves `Spec => []TypeOK` and `Spec => AcceptsWhatWasChecked` for any graph of artifacts without
cycles (`PipelineAssumption`: in every set of artifacts that is not empty one has no upstream in the set; `artifacts.py:50` looks for cycles when the
configuration is loaded), any sets of contents, changes and tasks. Its invariant adds to the types

* `ArtifactsOK`: an approval of a reviewer is of the candidate there is,
* `OffersOK`: a pending decision about the guide names the change that submitted it, so that its answer finds a revision,
* `StageOK`: an analysis, also one that was stopped, has its change; a stop that can be recovered names its stage.

It goes on to `StageMatchesArtifact` and `WorksFromCurrentChain`, also for any graph, and to `CompletesOnAcceptedChain`.
The proof of `AcceptsWhatWasChecked` shows that every change of `accepted` but the guide's goes through `Refused`, and that nothing between
that test and the acceptance moves the candidate, its evidence or the upstream.

The other three rest on `ChainOK`, the invariant that says where the chain of derivations is whole:

* `Chained`: whatever counts on its derivation (a candidate on its way, what is accepted, what a question has stopped) is derived from what
  its upstream has *accepted*. Acceptance breaks this, because it gives the upstream of others a new revision. What holds in the middle of
  a step is the weaker `Linked`, where an accepted upstream is exempt: those derivations are the ones `Reconciled` finds stale and
  resets before the step ends, so that `Linked` before the reset gives `Chained` and `Fresh` after it (`ReconciledChains`, `ReconciledFresh`).
* `Placed`: at a stage that works on a candidate the current artifact has the status of that stage; from the execution of tasks on
  what is accepted is `Fresh`, derived from the revisions the upstream is at. The stage is that of the stop when there is one, which
  is why recovery may return to it.
* `Quiet`, a part of `Placed`: no upstream of the current artifact but the guide waits for its promotion. Without it a candidate would be
  bound to a revision that is not accepted yet, since `dependency_revisions` takes the candidate of a `PROMOTION_READY` upstream.

`EndOK` adds why the chain is complete at the end, for every graph and every disturbance:

* `Explained`: what is blocked waits for the answer to its question or for an open change, or its question was answered before it was asked
  again (`_record_decisions` drops such a request, and the artifact is blocked all the same).
* `RestsOnAccepted`, at final verification and after it: everything is accepted but what is `PassedOver` and what depends on that. Final verification
  is selected only when nothing is open and nothing can be run. Suppose something outside the passed over and their descendants were not
  accepted (`FinalRestsOnAccepted`). That set is closed (`DescendantsAreClosed`), so that the first of these artifacts, which exists because there are no
  cycles, has all its upstream accepted. It is not blocked, which `Explained` and the lack of anything open exclude, so it could be run.

Up to the completion, whatever leaves the verification goes back through the scheduler, and what is accepted stays `Fresh` by `Placed`.

**`RemoteAuthorityProofs`** proves all safety properties of the run `RemoteAuthority` for any sets of contents, changes and submissions, any
number of crashes, and a crash between any two writes: `TypeOK` without an assumption, the others under
`Exclusive = TRUE`, one process at a time, without which `LostAcceptance.cfg` shows an acceptance undone. What makes them hard is that every
handler leaves its writes as a plan that a crash may cut anywhere. The invariant `Sound` looks forward along the plan:

* `Leads(free, asked, d, w, e)`: from the disk `d` the writes `w` lead to the disk `e`; on every disk in between what the ledger accepts is
  on file (so that a crash does no harm), and a write that changes the accepted revision accepts only what is approved on the disk it finds
  (asked of a plan without a crash, `free`).
* `Planned`: the plan of the process at work leads to a disk whose files agree (`Agrees`), where a decision that is `WithdrawnOnFile` counts
  for none. `Remembers` relates that disk to the record the process has in memory: elsewhere they are the same, but at `work`, behind the
  second scan, the memory may be older, and what is kept is that the files agree with it as well, so that saving it does no harm.
  `Alone` says that only one process is at work. When no process is, the disk itself agrees.

Each handler is a lemma of two halves: what it computes from the disk (`ScanLeads`, `RolloverLeads`, `NewChangeLeads`,
`MinorLeads`, `OfferLeads`, `PromotedLeads`; `AuditSound` is the second scan), as sequences built with `Append` one write after the other, and that what they lead to agrees
(`RolloverAgrees`, `NewChangeAgrees`, `MinorAgrees`, `OfferAgrees`, `PromotedAgrees`). `Write` then only moves along the plan, and `Crash` forgets the rest of it.

**`PlanGraphProofs`** proves `Spec => []TypeOK` and `Spec => CompletedSurvivesGraphs` for any ids, declaration and number of
changes, and `Spec => []FinishesTheGraph` under the assumption that no graph takes up a dropped task, without which
`ReturnedTask.cfg` refutes it. `Steady` says that one change is open at a time, that it is the current one and has either a stage to
run next or an offer, and that every task of the graph has an item, which an open change that affects it keeps from being
completed. `Placed` says where superseded items are: with the dropped tasks and never in the graph; it is what turns the scheduler's
test "completed or superseded" into "completed" for the tasks of the graph. The layout follows the code: what `recompute` keeps
(`Recomputed`), what `schedule` selects (`Selected`), the three ways in which a handler ends, one lemma per handler.

`NeverBlocked`, that the scheduler never runs out of work on an acyclic graph, is proved for a finite number of tasks. Two halves meet in it.
The first is about the search for a cycle that the code makes when it accepts a graph (`plan_graph.py:102`): `Visited` is a recursive
function, and that its equation has a solution at all is shown first (`Rounds`, `VisitedByRounds`: the least number at which it has none is contradicted by
one more round); then that in any set of its tasks that is not empty an accepted graph has one that waits for no other of the set
(`OneIsFirst`). The second is the invariant `Moving`: only the current task is worked on (`Owned`), an offer is made, and waits, only while no work is
free (`Offered`), the graph is one that the search accepted and what is propagated affects a task (`Proper`). So where no change
holds a task up and one is not completed, the first of what is not completed is free (`NothingFree`). The theorem assumes that the declaration in
`workflow.yaml` has no cycle, because the code looks for one only in the graphs that an Agent delivers, and excludes, as the run
does, the graphs that take a dropped task up again and the analyses that name no task.

Assumptions are those declared with the constants (`TaskAssumption`, `DecisionAssumption`, `PolicyAssumption`,
`NullAssumption`, the bounds of `Orchestrator`, `FileAssumption`, `AttemptsAssumption`, `PromotionAssumption`,
`PipelineAssumption`, `RemoteAssumption`, `GraphAssumption`); TLC evaluates them in every run.

**Only model-checked:** liveness (`RunReturns`, `StepReturns`, `NewestIsRegistered`), which TLAPS does not reach under fairness;
the refinement `ImplementsLedger` and the order of the work (`ExecutesInDependencyOrder`, `FinishesOnlyWhenDone`, `CompletedIsFinal`,
`OnlyApproveGivesApproval`) where questions and authority changes take the stage over and reopen tasks.

## Abstractions

*Orchestrator.* The authority is remote and has one source, one open change at a time, without rollover or revert
(hence `authority_change_registered`, the step that puts a second change into the queue, has nothing to do). A propagated plan graph keeps the set of tasks. There is no artifact pipeline. `recover`'s
comparison of real drift, the recovery of legacy records and the partial outcome of a killed Agent are
left out. `cwo step` is `StartRun`, one step and `Interrupt`. Commands are issued one at a time: nothing in the code
locks the store, so this is an assumption about its users, and lifting it is planned. `invalid` also stands for
verdicts that a handler refuses. Crashes inside a step are those of `AgentRun`.

*AgentRun, CommitBack.* One stage of one task. A file's content is who wrote it last. The comparison of all targets is atomic,
and so are the backups; discarding the workspace and saving are merged on failure paths; a failing restore, which the
code swallows, is left out. The Agent's own children and torn JSON are left out. `alive` and `exists` concern the run
named in the record. The checks of other stage kinds, protected paths and the git audit are
`FinishRejected` in `Orchestrator`. A human's edit between the comparison and the write is not protected by the
code; `edited = "raced"` keeps it apart.

*ArtifactPromotion.* One artifact with an accepted path, under `AUTO` or `HUMAN_GATE` (`EXTERNAL` is not promoted by
CWO). Derivation, validation and review of a candidate are one step. Comparing and replacing one file is one step. The
audit gate is Orchestrator's. What follows the acceptance of a plan graph is left out. Each revision has its own promotion
decision, so that the reuse of an answered one is not reached.

*ArtifactPipeline.* An invocation of an Agent is one action; so is a promotion. Several changes of the guide come one after the
other, as the scan hands them over. The recovery of a stop returns to the stopped stage. Left out: optional artifacts, revisions of
class C0 or C1 that name artifacts, what follows the acceptance of a plan graph, dependencies among tasks, materialising and running
a validator, and a validator that changes the project, which stops at once.

*RemoteAuthority.* One guide with an observed baseline and a remote that can be reached; no Authority Sets and none of their
repairs. Only a scan reads the branch, so that submissions happen between scans. Fetching is part of the scan. `recover` (3087, 3116, 3267, 3295, 3359) and `doctor` (2861, 3891)
call `_audit_gate()` too and scan as `CheckBranch` and `Audit` do; they are not actions of their own. The retries of
refused outcomes and the artifacts are left to the other modules. `Exclusive` is the assumption that a `check` or `watch` does not run
beside a step; nothing enforces it, and `LostAcceptance.cfg` shows what happens without it.

*PlanGraph.* Of a task its id, its dependencies, and of the current one whether its group is the declared one; anchors, paths and digests are data. The stages before
`PLAN_GRAPH_BUILD` are taken with the analysis, since they do not touch the graph; attempts, gates, stops and analysis questions are
`Orchestrator`'s. The order of a graph is any order. Changes come one after the other.

*Not modelled:* local authority scan (its result enters the gates as the remote one's does; the rest is string matching),
review findings (gate nothing in the stages modelled), parsing of the configuration, prompts and logs (output).

## Plan

1. **Core** (done): `WorkflowState`, `Scheduler`, `StateMachine`, `Authority`, `Orchestrator`, `TaskLedger`; type
   correctness, the bound of attempts, the order of the work and the refinement of the ledger proved.
2. **Crash grain** (done): `CommitBack`, `AgentRun`, `ArtifactPromotion`; their safety properties proved.
3. **Artifacts** (done): `ArtifactPipeline`; its safety properties proved.
4. **Submissions** (done): `RemoteAuthority`; its safety properties proved.
5. **Graphs** (done): `PlanGraph`; completed work and completion of the graph proved.
6. **A second Agent**: a malformed outcome of an Agent that still lives is retried at once. `Orchestrator` has the retry; `AgentRun` keeps one Agent and
   has to keep two to say what they do to the files.
7. **`CliProcesses`**: two processes of `cwo` on one store without a lock: lost `stop`, `decide` and `approve`; `RemoteAuthority` shows
   the method for two of its commands.
8. More theorems about `Orchestrator`: the order of the work with questions and changes and in autonomous mode
   without late outcomes. `WaitsOnlyWithoutWork`, `NoWorkUnderOpenChange` and `DependencyBlockIsReal` are proved.

No module of the project declares a recursive operator (`Visited` is a recursive function), so that each of them can be
proved about.
