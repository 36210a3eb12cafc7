# A verification of the orchestration framework

This directory holds TLA+ models of the orchestration framework in `src/orchestration`,
TLC configurations that check them on small instances, and proofs checked by TLAPS.
The models are translated from the code; where a document or a docstring says
something else, a run shows the disagreement (see *Disagreements*).

    tlc -workers 2 -config GraphScheduler_oneshot.cfg MCGraphScheduler.tla
    tlapm GraphSchedulerProofs.tla

## The system

A task description becomes a `TaskSpec`, a planner turns it into a graph of nodes, and
a scheduler executes the nodes one at a time through registered executors (language
model agents, a terminal, external agents). Failures are retried, moved to another
executor, or answered by a new graph. Independent validators judge the result; what
they find is repaired by reopening parts of the graph. A review and a report follow.
A dashboard, in another process, watches the run directory and may inject faults.

| component | state | operations | what makes it correct |
|---|---|---|---|
| Task graph `graph/task_graph.py` | nodes, edges, node statuses, attempts, graph version | validation, `ready_nodes`, `block_failed_dependencies`, `mark_*`, `reset_for_retry`, `reopen_subgraph` | dependencies are completed before a node starts; blocking is transitive and has a cause; reopening reaches everything downstream and nothing else |
| Scheduler `graph/graph_scheduler.py` | the node at work, pinned executors, window targets | `run`, one attempt, recovery, replan, window check, outcome | completed work is final; the run ends; outcome and snapshots tell the truth |
| Recovery controller `graph/recovery_controller.py` | attempt history per node, replans used | `record_attempt`, `decide_after_failure`, `begin_replan`, merge of a replacement graph | budgets hold, and no promised attempt is refused |
| Injections `execution/runtime_injections.py` | status of each injection (in `RunState`) | poll, fault, requirement change, recovery | a fault is recovered by its own node only; faults do not distort recovery |
| Mailbox `utils/runtime_injection_queue.py` | queued requests, a closed flag, in files | enqueue, claim, acknowledge, close | no request is lost or answered twice |
| Registry and scoring `execution/capability_registry.py`, `executor_scoring.py` | executor table, learned statistics | `find_candidates`, `select_executor` | selects only what is eligible |
| Run state `core/run_state.py` | mirror of the graph, stages, artifacts, issues, repair ledger | one recorder per event, save batches | the mirror never disagrees with the graph; nothing deferred is lost |
| Repair loop `graph/repair_loop.py` | round, previous issues, no-progress streak | `run` | only what is at fault and downstream is redone; the ledger follows; it ends |
| Validation `validation/` | validators, verdicts, acceptance ledger | `validate`, acceptance criteria | a verdict has a reason |
| Horizon loop `core/workflow.py` | epoch, save batch, checkpoint files | open a window, checkpoint, flush, expand, resume | a resumed run redoes nothing that a checkpoint has; a crash costs one batch of records; what was deferred reaches the disk |
| Requirement staging `planning/staged_expansion.py`, `requirement_progress.py` | progress ledger, stage, the growing graph | select, plan and join a stage, append the governance chain | no requirement is skipped, and each is produced after what it depends on |
| Workflow `core/workflow.py`, `main.py` | stages, failure record, verdict | prepare, understand, plan, execute, validate, repair, review, report, final validation | a success is earned, a failure is explained |
| Hierarchical planner `planning/`, `graph/graph_planner.py`, `graph_compiler.py` | the plan, revision rounds | propose, normalise, validate, revise one node, flatten, compile, fall back | what the plan orders stays ordered; a revision disconnects nothing else; rounds are bounded |
| Executors `execution/default_executors.py`, `integrations/`, `core/model_calls.py` | one run directory, records in `RunState` | tools, analysis, code pipeline, terminal, verifier, artifact validation | what is delivered is what was measured; nested retries end |
| Communication `communication/context_builder.py` | results delivered, by receiver and by run | inline, external file, reference | a node is shown each result once in full |
| Memory `memory/` | capsules by graph version | record, invalidate | no stale capsule reaches a prompt |
| Dashboard `utils/dashboard_server.py` | jobs and their processes | admit, launch, refresh, cancel, request a fault | one job at a time; a job shown as a success was delivered |

`PROJECT.json` lists the rest (agents, intake, output, plugins, demonstrations,
packaging); see *Not modelled*.

How they interact. The workflow calls the scheduler, once or window by window; the
scheduler calls the registry to choose an executor, the recovery controller after every
failure, the planner through a callback, and writes every transition to `RunState` and
`task_graph.json`. The workflow then calls the repair loop, which calls back into the
workflow to validate and to replay the graph with a new scheduler. The dashboard reads
`run_state.json` and writes requests into the mailbox, which the scheduler polls between
two nodes.

What is hard here. There is one coroutine, so nodes never run in parallel; but the graph
changes under decisions already taken (window targets, pinned executors, armed
injections, amended nodes, routed issues), failures take four ways out that share
budgets, state is kept twice (graph and `RunState`, memory and disk), executors may damage
each other's files, requests arrive from another process, and a run is interrupted and
resumed. `PROJECT.json` lists these hazards line by line.

## The modules

**`TaskGraph`** (`task_graph.py`, and the merge in `recovery_controller.py`). A *plan* is
what a planner owns of a graph: its nodes and dependencies. Statuses are a separate
function. The loops of the code are given by what they compute: `Acyclic` says that every
set of nodes has a source in it, `BlockedByFailure` is the least set closed under the
blocking rule, `DescendantsOf` the least one closed under dependents. These need no
recursion, so proofs can use them.

**`Recovery`** (`recovery_controller.py`). A node's attempts are reduced to the four things
decisions read. Candidates are a set: the code ranks them with statistics that change
during the run, so any untried candidate may be the first one.

**`RuntimeInjections`** (`runtime_injections.py`). Which requests are accepted, which
injection applies to which node, and when it is over.

**`GraphScheduler`** (`graph_scheduler.py`, with the recorders of `run_state.py` it calls).
`pc` is the place in `run`:

| action | code |
|---|---|
| `RunToEnd`, `OpenWindow` | entry of `run`, without and with `stop_after_node_ids`; the horizon loop marks ready nodes before a window |
| `LoopEnds`, `BeginIteration` | the loop condition; poll of the mailbox and blocking |
| `ApplyRequirementChange`, `NoRequirementChange` | the requirement change between blocking and selection |
| `SelectReady` | ready nodes, the window's filter and the ways out when nothing is usable, exceptions included |
| `CapabilityUnavailable`, `StartAttempt` | executor selection and `record_attempt` |
| `ExecutorCompletes`, `ExecutorBlocks`, `ExecutorFails` | what an attempt may end in; the last one continues with `Recover` (retry, switch, replan or give up) |
| `InjectFault`, `InjectionRaises` | an injected fault in place of the execution |
| `ReplanAccepted`, `ReplanRejected` | `_try_full_replan` |
| `CheckWindow`, `Finish` | the end of a window, the end of the run |
| `Enqueue` | the dashboard's request, at any time |

Each action is what happens between two points where something else may interfere (an
executor or planner call, a poll of the mailbox) or where the code may take another way;
the calls it makes to `RunState` and `task_graph.json` are part of it. `amended` says which
nodes carry the criterion of a requirement change, `damaged` which files no longer match
their digests, `rsFailure` the one failure record of the run, into which an executor may write
too (`Report`).

**`DagExecution`** is what a scheduler promises, in four actions: start a node on finished
dependencies, stop it, exchange the graph for one that keeps finished work, conclude.
`GraphScheduler` instantiates it as `Dag`; `ImplementsDag` is the refinement.

**`RepairLoop`** (`repair_loop.py`, with the repair ledger of `run_state.py` and the callbacks
of `workflow.py`) extends `GraphScheduler`: `phase` says whether the graph is run,
validated, reopened or replayed (`ValidateFirst`, `Reopen`, `Scheduling`, `Revalidate`; `Unroutable`
and `ReplayFails` are the returns of a round that cannot go on). A validation may find any
issues that its verdict allows and that can be routed in the current graph.

**`RequirementStages`** (`requirement_progress.py`, `staged_expansion.py`, the closure check of
`requirement_compiler.py`) holds operators only: a contract (items, tree, execution order), the
ledger, the selection of a batch, the joining of a stage to the graph and the governance chain.
A stage's own graph is the planner's: any valid graph over the identifiers with the stage's prefix
(`StageAnswers` of `HorizonLoop`).

**`HorizonLoop`** (`_execute_graph_in_horizons` of `workflow.py`, with the batches and the resumption
of `run_state.py`) works on the plans of `TaskGraph` and reduces one `GraphScheduler.run` to what
the loop sees of it:

| action | code |
|---|---|
| `FirstStage`, `ExpandStage`, `AppendGovernance`, `RequirementsDeadlock`, `StopExpanding` | `plan_requirement_stage`, `expand_requirement_frontier` and its ways out |
| `OpenWindow` | the targets of an epoch, `begin_save_batch` |
| `RunNode`, `RunNodeAndReplan`, `CloseWindow`, `WindowRaises` | the scheduler in a window |
| `WriteCheckpoint`, `RecordEpoch` | the checkpoint file, then `record_horizon_epoch` and the end of the batch: two steps, because a crash fits between them |
| `Return`, `Crash`, `Resume`, `GiveUp` | the end, the loss of memory, `load_horizon_checkpoint` with `load_existing` |

`state` is `RunState` in memory and `disk` is `run_state.json`; `state.nodes` is the copy of the node
states, which `record_task_graph` sets and the recorders of single nodes extend.

**`InjectionMailbox`** (`runtime_injection_queue.py`) and **`DashboardJobs`** (`dashboard_server.py`) are
the two ends of the dashboard: each locked change of the file is a step and reading it takes no
lock; a refresh or a cancellation is a step under `jobs_lock`, and an admitted handler holds
`launch_lock` (`cleared`) until it has registered its job. A refresh asks `audit_run` about a dead
process, which raises (`NoAudit`) when that process never wrote `run_state.json`.

**`RunLifecycle`** (`run_explicit_workflow` of `workflow.py`, `main.py`, the gates of `run_state.py`,
`review_artifacts.py`, `run_audit.py`) extends both. `pc` is the stage; the scheduler is a line
of nodes that complete or fail; retries, replans and staging are in their own modules:

| action | code |
|---|---|
| `OpenRun` | `main` outside its `try`: naming the directory, reading the input, making `run_state.json` |
| `Prepare`, `Understand`, `RefineContract`, `PlanGraph`, `BlockPlanning` | everything before the graph; `_finish_planning_blocked` |
| `PollRequests`, `RejectRequest`, `ArmInjection`, `AcceptRequest`, `BlockDependents`, `RunNode`, `FinishExecution` | `GraphScheduler.run` and `poll_requests` between two nodes |
| `Validate`, `Replay`, `EndRepair` | the validation and the repair loop |
| `CheckQuality`, `CloseRun`, `Review`, `WriteReport`, `AcceptDelivery`, `FinalValidate` | the gates, in the order of the code |
| `Raise`, `ProcessEnds`, `Killed` | an exception that reaches `main`; the end of the process |
| `StartJob`, `AskAdmission`, `LookAtJob`, `Cancel`, `CheckInjection`, `Enqueue` | the dashboard's handlers, at any time |

`run` is what `RunState` knows of the run; its `failure` is the one failure record, written and
cleared by almost every stage.

**`PlanHierarchy`** (`plan_validator.py`, `plan_flattener.py`, `plan_format_adapter.py`, and the merge and
the normalisations of `hierarchical_planner.py`) holds operators only. A plan is its primitive and
compound nodes, their containers, dependencies, inputs and edges. Containers may be unknown
(`Orphaned`) or circular (not `Nested`): nothing refuses such an answer before the validator does.

**`HierarchicalPlanning`** (`hierarchical_planner.py`, `graph_planner.py`, `graph_compiler.py`) is the way
from the first answer of a model to the graph: `Draft`, `Refine` (one revision of one node), `Accept`
(flatten and compile), the ways out (`DraftUnreadable`, `AcceptedInVain`, `RefinedInVain`), then
`LegacyPlan`, `LegacyRefused`, `FixedGraph`, `NoFixedGraph`. The prompt asks for a patch of one node and
what is inside it (`Local`), but neither the adapter nor the merge checks that: `Refine` takes patches
for any target, that answer for any nodes, name any containers and any dependencies. `patched` is a
history variable: what the last revision answered for, the containers it named, and whether it was
`Local` and left an executable in the revised node.

**`NodeMessages`** (`context_builder.py`) says in what form a node is shown a result.

**`NodeWork`** (`default_executors.py`, `code_agents.py`, `terminal_executor.py`,
`external_agent_executors.py`, `evidence_verifier.py`, `model_calls.py`) is the work of the six nodes of a code task in one run
directory. `call` is the executor call in progress:

| action | code |
|---|---|
| `Begin`, `ContextRefused`, `BlockDependents`, `Reopen` | the scheduler around a call, a replay of the repair loop |
| `TransportRetry`, `Gather`, `Analyse` | model calls, tools, analysis |
| `RepairByPlugin`, `ReadStageContext`, `PromptTooLong`, `GenerationRejected`, `ProgramFailed`, `ProgramRan`, `Attribute`, `LastResort`, `GiveUp` | `CodePipelineNodeExecutor`, from a replay's fallback to the last resort |
| `Terminal`, `Verify`, `VerifierFails`, `Validate` | the terminal's second run, which may rewrite the artifacts and the program, the verifier, the artifact validation |

Contents of files are who wrote them: `outputs[o]` is the program that wrote artifact `o`, `Missing` or
`Broken`. `NodeWork` justifies what `GraphScheduler` lets an executor do: report a failure of its own
(`Report`) and spoil files of other nodes (`Damage`).

The modules named **`MC...`** give values to the constants. **`GraphSchedulerProofs`**,
**`GraphSchedulerRefinement`**, **`GraphSchedulerOutcomes`**, **`RepairLoopProofs`**,
**`HorizonLoopProofs`**, **`RunLifecycleProofs`**, **`NodeWorkProofs`** and
**`HierarchicalPlanningProofs`** hold the proofs.

Definitions marked "Mutant" are mistakes one could make in the definition after them;
each property is known to fail with one of them in place (`PROJECT.json`, "mutants").

### What is left out, and why it does not matter

* Text: descriptions, prompts, contexts, metrics, routing statistics, memory capsules.
  The scheduler does not read them back. A context that cannot be built appears as a failure
  that is not recoverable, one that does not fit as a blocked node.
* The status `skipped`: no code assigns it.
* The availability of executors does not change during a run, nor does the code change it.
* The static gates a graph passes before it runs (`validate_graph`,
  `validate_planned_graph`) are taken to have accepted it.
* When several nodes qualify for a requirement change and none is ready, the code takes the
  first in graph order; the model takes any of them.
* A verifier that is blocked, and an artifact check that fails, yield no issue; neither
  do they in the code.
* The run that skips the repair loop because a staged plan is incomplete.
* `GraphScheduler` may open another window after one that closes because a replan removed its
  targets; `HorizonLoop` has the loop's no-progress stop.
* The progress ledger's acceptance marks, written after the loop and read by nobody.
* `RunLifecycle`: traces, memory curation, the derivation of policies. A report that is not sound
  stands for every check of its content.
* Two nodes of one id in a planning answer: the validator and the flattener refuse them.
* `HierarchicalPlanning`: wording, outputs, capabilities, acceptance and coverage of a plan. A
  validator may refuse any plan for them, so what they judge is an outcome.
* `NodeWork`: the compaction of a fan-in, memory capsules, executor statistics, prompts.

### Not modelled, and why

* Runtime and workflow memory: its capsules reach prompts only.
* Run directory and output: file names and writing. Two of the files, `task_graph.json` and
  `run_state.json`, are variables of the models.
* Task plugins: solvers and validators over the numbers of particular tasks.
* The long-horizon demonstrations: scripts that drive the loop with stub executors.
* Parts of components marked "partly": ranking and statistics of executors (any eligible one may be
  chosen); the checks inside a validator, how a criterion is compiled and evaluated, extraction and
  parsing of task texts and plans (arithmetic and text processing without control of their own, so
  their verdicts are free); compression of contexts; pages and browser code of the dashboard;
  scripts that audit finished runs.

## The runs

| run | instance | what it checks |
|---|---|---|
| `scheduler_oneshot` | every acyclic graph over 3 nodes, 2 executors, 1 retry, 1 switch, 1 replan to any graph over the same identifiers; one node produces files | `TypeOK`, `DependencyOrder`, `AttemptsAccounted`, `RunStateMirrors`, `SnapshotCurrent`, `OutcomeTruthful`, `NoDeadlockError`, `CompletedIsFinal`, `ImplementsDag`, `Termination` |
| `scheduler_window` | the same in windows of 2 nodes | `BudgetsRespected`, `PinnedRunsNext`, `Termination` |
| `scheduler_inject` | a chain of 3; a data anomaly requested at any moment, a requirement change armed by the task; one queue slot | `FaultRecovery` |
| `repair` | a producer, its consumer and a verifier; three issues (a business issue of the consumer, one that nobody owns, one the verifier raises against the producer); replans inside replays; 3 rounds | `RepairTypeOK`, `DependencyOrder`, `OnlyCompletedWorkIsRepaired`, `BlockersAreCurrent`, `LedgerFollowsLoop`, `RepairedIsEarned`, `RepairScope`, `RepairTermination` |
| `horizon` | four contracts of 4 requirements in stages of 2; two graphs of 5 nodes in windows of 2, one replan, a flush every 2 epochs, 2 crashes, names that sort up to epoch 3 | `NothingSkipped`, `StageOrder`, `CrashLosesOneBatch`, `ReturnedMeansSaved`, `CopyFollowsGraph`, `NoRedo`, `HorizonTermination` |
| `lifecycle` | 2 nodes, 2 jobs, 2 handler threads, 1 request, 2 understanding attempts, 2 refinement rounds, 1 replay | `SuccessIsEarned`, `FailureIsExplained`, `RequestsAccounted`, `OneProcess`, `SuccessShownIsDelivered`, `RunEnds` |
| `planning` | first answers of up to 2 nodes with 1 dependency or containment and any unknown containers, patches of up to 2 nodes with 1 dependency, 2 revision rounds | `OrderKept`, `ShapeRepaired`, `BoundaryKept` |
| `nodework` | 2 artifacts, 1 retry of the program, 2 transport attempts, 1 replay, a fallback plugin | `DeliveryIsEvidenced`, `WorkEnds` |

Every passing run is exhaustive. The other runs show disagreements.

Why the bounds are enough. Three nodes give a chain, a fork, a join, and unrelated nodes
next to a failing one; a node with a smaller identifier can become ready while another one
awaits its retry; a replan can insert, drop or rewire. Two executors with one retry and one
switch give every order of retry and switch, one node's own limit is narrower (a code
node), one node has a candidate that its resources refuse. One replan gives the change of a
graph with the budget used and unused. Windows of two differ both from one node and from
the whole graph. Three repair rounds make the no-progress stop (two rounds) differ from the
last round.

In `horizon`, the contracts have a goal with parts and a successor, a goal planned together with one
of its parts, two code requirements, and a knot of the resolved order; two crashes are one that
loses a batch and one that happens to the run resumed after it; a name limit of 3 makes five epochs
go past it; two identifiers for each of the first two stages let a stage be a pair in order, a pair
side by side or a single node, the third has one. In `lifecycle`, two nodes are one that writes code and one that may spoil its files; a second
job and a second handler are what admission can confuse; a single request reaches every place where
it can be late. In `planning`, two nodes and a patch of two, with two rounds, already contain a compound
emptied by a collapse, a plan whose order runs through the revised node, a patch that repeats a node
outside its target or names an unknown container, nodes that contain each other, and a second
revision of the result of a first. Two-node drafts leave little around the revised node; nine larger
plans of five and six nodes, with containers two deep and order that enters, leaves and crosses them,
were checked against `BoundaryKept` once, one revision each, before it was proved. In `nodework`, one retry of each kind shows each counter both spent and unspent,
and the nesting is that of the code; three transport attempts and a second wording were checked once
and change nothing.

No counter is bounded by the model but these: `MaxCrashes`, and in `planning` the size of an answer
(`MaxLinks`, for dependencies and containments together; `MaxPatchLinks`; `MaxPatch`, which counts a
patch's nodes and everything it says that it was not asked for, and shrinks by one with each round).
The code's own budgets bound the others.

Deadlock is checked in the scheduler's, the repair loop's and the lifecycle's runs: a stopped system
stutters explicitly or still has a dashboard, so a state without a successor would be a place where
the code cannot go on. `HorizonLoop`, `HierarchicalPlanning` and `NodeWork` end with their last
state; where they may end is what `HorizonTermination` and `WorkEnds` say.

Fairness. `FairSpec` is weakly fair on the scheduler's own steps, `RepairFairSpec` on
those of the scheduler and of the loop, together: one coroutine runs them and nothing
else in the process competes with it; each model call has a timeout
(`MODEL_CALL_TIMEOUT_SECONDS`) after which the attempt fails; the validators are ordinary calls.
Likewise `HorizonLoop` is fair to every step but a crash: after a crash somebody resumes the run
or finds that there is nothing to resume. `RunLifecycle` is fair to the workflow and to the end of
a process whose `main` has returned, `NodeWork` to its executors, whose calls and programs all run
under timeouts.
Nothing is assumed of the dashboard or its users, of the answers of executors, planner and
validators, or of the choice between actions. `Termination` is the end of the run, in an
outcome or in an exception; which exceptions cannot happen are separate properties.

## What is proved

The proofs hold for every set of node identifiers (naturals, whose order is that of
`sorted`), every graph, budget, executor table, window size and set of injections, contract,
routing of issues, number of rounds, crashes, requests, jobs and handler threads, under
the named assumptions of the modules. Most only give the constants their types:
`NodeIdsAssumption`, `RecoveryAssumption`, `InjectionsAssumption`, `MailboxAssumption`,
`JobsAssumption`, `LifecycleAssumption`, `StagesAssumption`, `NodeWorkAssumption`,
`NobodyAssumption`. The others add what the code checks or ensures before: an executor that may
be selected is a candidate (`SchedulerAssumption`), an issue is routed to an ordinary node or to
none (`RepairAssumption`), a contract passed its structural check and the framework's own
identifiers are distinct and have no stage's prefix (`HorizonAssumption`), a planning model has
finitely many ids to use, none of them one of the framework's (`PlanningAssumption`).

The scheduler (`GraphSchedulerProofs`, `GraphSchedulerRefinement`, `GraphSchedulerOutcomes`):

* `TypeCorrect`, `OrderInvariant`, `OrderIsKept`: `OrderInv` is `TypeOK`, `Control` and
  `DependencyOrder`. `DependencyOrder` alone is not inductive: that a node may be
  marked running rests on its being ready, which `Control` knows at the control point
  "attempt", and that a replan happens under no running node, which it knows at "replan". A
  replan keeps the order because a replacement keeps the dependencies of each completed node
  (`CanReplace`) and starts the others over.
* `CompletedStays` follows step by step: each action writes the status of `node`, which is
  not completed, or of unstarted nodes, or replaces the plan under `CanReplace`.
* `MirrorIsKept`: the same split, for `RunState`.
* `BudgetsHold`: `BudgetInv` says what a pinned executor means: `Promised` records that the
  pinned executor is either the last one with a retry left or an untried one with a
  switch left. Between the promise and the attempt the loop runs through its head, a
  window check and perhaps a replan, which clears the pins; `record_attempt` then finds what was promised.
* `PinsAreHonoured`: after a retry was decided, the pinned node is the smallest usable one
  (`PinInv`). It was the smallest when it was picked; nothing becomes ready by its failing, and
  blocking does not change the ready nodes (`ReadyIsStable`).
* `NeverStuck`: without windows, or without a planner, `GraphDeadlockError` is not raised. After
  blocking, an unstarted node has no dead dependency (`BlockingIsComplete`); an acyclic graph
  without a running node, with an unfinished one, then has a ready node
  (`ProgressExists`); in a window, that a ready node is a target needs that the graph stays as it was.
  The restriction is needed: see `scheduler_window_deadlock`.
* `SchedulerRefinesDag`: `StepRefines` maps each action to a step of `DagExecution` or to a
  stutter. That a run called successful has finished every node needs `EndInv`: at "finish"
  nothing is ready, or a target is dead.
* `SnapshotIsCurrent` is stated for runs that persist transitions; without that nothing is written.
* `OutcomeIsTrue`: `OutcomeInv`. Every completed node has a manifest, whether recorded or kept by a
  replan, so the integrity check covers all that was produced; `EndInv` gives the rest of the verdict.
* `AttemptsAreCounted`: `AttemptsInv` is sharper than the property. A node has used at most its first
  attempt and its recorded retries and switches (`Paid`); one more only if it is dead, which is
  how an attempt that found no executor ends.
* `FaultsAreRecovered`: only `ExecutorCompletes` completes a node (`CompletedStep`), and it recovers the
  node's faults in the same step.

The repair loop (`RepairLoopProofs`), on top of the scheduler's lemmas. `RepairInv` holds the
scheduler's `OrderInv`, `Rounds` (between rounds the scheduler is done, the issues name nodes of
its graph, and no ordinary node is dead) and `FinishInv` (without windows, a scheduler that is done
has finished its graph):

* `TypesSurviveRepairs`: reopening is the one step of the loop that touches the graph. It keeps
  `OrderInv` because the reopened set is closed under dependents (`ReopenKeepsOrder`), so no
  completed node is left on a pending one. The scheduler's step lemmas then apply to every replay.
* `NoBlockerIsStale`: `_resolve_absent` followed by `_record_issues` gives exactly the new issues
  only if the blockers were exactly the previous ones, which is the invariant itself.
* `LedgerIsTrue` needs that a round begins only within the bound and after a round that is
  "retryable".
* `ReplayNeedsCompletedWork`, `RepairIsEarned`: both need `FinishInv`, and so hold without windows;
  a run in windows may stop with an unfinished graph, and then skips the loop. `RepairIsEarned`
  also rests on a failed verifier always raising an issue (`FoundFacts`).
* `RepairsStayInScope`: the scheduler's `FinalStep` and `AttemptsOfCompleted`, and that a reopening
  changes descendants only.

The horizon loop (`HorizonLoopProofs`), crashes and resumptions included:

* `NothingIsRedone`: `RedoInv` orders the sound checkpoints by epoch: a later one has completed all
  that an earlier one has, and the graph of a living run is behind none of them. It speaks of
  names that sort (`NameLimit`), as does `NoRedo`: past it the code picks an older file.
* `NothingStaysDeferred`: a batch is open only inside a window or on an exception's way out.
* `CopyIsCurrent`: a step that changes statuses is one that `RunState` hears of, and a stage adds
  only pending nodes, which the copy takes for absent. It speaks of the time before the first crash.
* `NoRequirementSkipped`: `LedgerInv`. `Backed` says that a produced requirement has producers and
  that all of them are completed in the graph; it survives a joining stage, which keeps nodes.
  Replans and crashes concern the runs that are not staged.
* `StagesAreOrdered`: a joining stage is put behind the sinks of the graph, so that its nodes wait for
  all of it rests on every node having a sink downstream. `Linked` says so: it holds in a finite
  acyclic graph (the stage's own, which its validation accepted) and survives the joining and each link of
  the governance chain. `StageInv` adds that a stage's identifiers are new (its number is one that no
  node has), that the graph holds its own dependencies, and that a pending requirement has no producer.
* `CrashCostsOneBatch`: `BatchInv` places the epoch of `RunState` in memory by the place in the loop, says
  that no epoch due for a flush lies between the one on disk and the one in memory, and that what a
  sound checkpoint shows completed is in the manifest of the disk if its epoch is. `FlushIsNear` is
  the arithmetic: an interval without a multiple of `PersistEvery` is shorter than it.

The lifecycle (`RunLifecycleProofs`):

* `NeverTwoProcesses`: `Exclusive`: at most one handler is admitted, none is while a job's process is
  at work, and a job is known by its process. Admission and registration are two steps, between
  which `launch_lock` is held.
* `LifeInvariant` is the inductive invariant of the rest. `FailureMeans` says what each value of the
  one failure record accuses, and that it is still wrong, though many stages write it and several
  clear it. `LateIsBlocked` says that from the closing of the mailbox on, all it still held is a blocker.
  `ProcessFollows` ties the job's process to the stage of its run.
* `SuccessNeedsEverything`, `FailureHasReason`, `NoRequestLost` and `ShownIsDelivered` follow from it.

The work of nodes (`NodeWorkProofs`):

* `DeliveryStandsOnEvidence`: `DeliveryInv`. A node at work is pending on completed ones
  (`CallInv`, `UpstreamDone`), so whatever it writes, all that rests on it is still to be done or done
  again. `CodeKept` says which program a completed code node stands for, `EvidenceKept` what the
  verifier read, `QualityKept` which files were measured; the terminal, which runs the program again,
  is over before the verifier reads. Up to the terminal the program is the one on record; after it,
  that one or what its own second run made of it, which nobody compares.

Planning (`HierarchicalPlanningProofs`), for any number of ids and rounds and any size of an answer:

* What the proofs use of `Paths` is that it is the least transitive relation with the given edges
  (`PathInduction`, `PathsTransitive`, `PathsLeast`); a relation is acyclic as part of a transitive one
  without loops (`AcyclicBy`); and in a finite acyclic relation every member is, or leads to, one that
  leads nowhere (`EndReached`). The last one and all inductions below go by a minimal member of a
  family of finite sets (`MinimalMember`).
* `ShapeIsRepaired`: `PlanInv`. Every plan before the validator is in `Tidy` (its fields have their
  types, and no input runs along its containers) and in `InOrder` (no edge does, and nothing is left to
  collapse). Both are what `Normalised` makes of any tidy plan (`NormalisedFacts`), whatever its
  containers; `MergedMade` says that a merge gives such a plan for any patch. Only the first answer
  has its missing containers restored (`WithParentsFacts`), and no collapse makes another one missing, for
  what is contained afterwards was contained before (`CollapseKeeps`). `Collapsed` is a recursive function over the
  naturals, which TLAPS sees as a choice: `Iteration` shows that there is such a function,
  `CollapsedKeeps` that what a collapse keeps is kept to the end.
* `OrderReachesScheduler`: `EdgeOrders` follows an edge between two containers down to the executables. Along
  the edges between executables inside the source every leaf of it is, or comes before, an exit; every
  leaf of the target is, or comes after, an entry; and flattening joins exits with entries, which differ
  because a plan that passes the validator has no edge inside one line of containers. `OrderLifts`
  then takes a path of the plan to a path of the graph: the nodes all of whose leaves come before all
  leaves of another form a transitive relation, since the flattener refuses a container without leaves.
  `CompiledKeeps` adds the terminal, the evidence and the artifact nodes without closing a cycle.
* `RevisionStaysLocal` is about one step, a merge and then any number of collapses, and so needs an
  invariant of the collapses. `InPlace` says that a node stands in the revised node's place, and holds
  an executable: the node itself, or the child that took its place when it collapsed. The nodes outside
  have the parents they had, and each edge between them and the revised node or what was inside it is
  now one with that place. `MergedOutside` and `TargetMerged` give it for the merge; `CollapseKeepsPlace` keeps it,
  since a compound outside that was full stays full while something stands in the place
  (`FullOutside`), so what collapses is the place itself, inside it or new. `SamePlace` gives the same
  containers from the same parents, and `OrderInPlace` follows a path of the old order through the
  place. All this is of patches that are `Local`, in plans that have their containers (`LocalFacts`): the
  replacements stand under the target and the rest stands beside both (`Grafted`, `ReplacementFacts`,
  `OutsideFacts`). That no executable outside the patch is lost holds of every patch, and that no
  container goes but one the patch names holds of every plan without circular containers
  (`MergedContainers`).

Model-checked only: `Termination`, `RepairTermination`, `HorizonTermination`, `RunEnds` and `WorkEnds`:
liveness is not in the prover's reach. Every invariant and every other action property of the passing
runs is stated by a theorem.

## Disagreements

Each is a run with one property that TLC violates.

* `scheduler_window_deadlock`: a replan inside a window may put a new prerequisite in front of a
  target. It is ready, is not a target, is filtered out, and `GraphDeadlockError` ends the run
  although its docstring speaks of a graph with "no executable or blockable node".
* `scheduler_inject_lost`: a replan drops the criterion a requirement change added, after the
  change was reported as recovered.
* `repair_replans`: every replay has a scheduler, and so a replan budget, of its own, while
  limits are described as those of one run.
* `nodework_reworded`: the verifier's retry is shown references in place of the results it was shown
  in full before (`context_builder.py:400`), so its input fingerprint differs although nothing
  changed, and a pass closes the blocker of its first verdict, which the docstring of the fingerprint
  (`evidence_verifier.py:30`) excludes.

Seen while modelling, without a run of their own. In the scheduler and the repair loop: a fault
accepted while a node awaits its retry hits the retry and spends the budget of a real failure
(`runtime_injections.py:249`, "first-attempt"); `get_node` raises `KeyError` when a replan dropped a
target (`graph_scheduler.py:407`, the state `missing_target_error`); a window all of whose targets
were dropped counts as done (`graph_scheduler.py:627`, `WindowDone`); `validate_current_business`
validates against the graph before a replan made in a replay (`workflow.py:1531`); a run has one
failure record, which a passed verdict clears (`run_state.py:1009`), so a run whose verifier still
contradicts it may leave the repair loop failed and without a failure on record.

In the horizon loop: a crash between a checkpoint and the flush loses the artifact records of the
batch, so the resumed run ends as `artifact_integrity_failure` (`CrashLosesOneBatch` bounds the loss);
a scheduler that raises leaves the batch open, and then the run's end never reaches the disk; an inner
requirement planned together with its part may get no node and then stays "planned"; an order that
is acyclic among the items may be cyclic once it is resolved (`RequirementsDeadlock`); a second code
stage is always refused; the outcome on disk says "success" between two stages.

In the lifecycle: a refresh that sees the dying process forgets that the job was cancelled;
cancelling a finished success shows it as cancelled; with optional validation an unverified run is a
success whose job the audit shows as failed; the exit for blocked planning never closes the mailbox;
inputs that could not be normalised always end in a failure, after the whole run; a success may carry the
failure record of a damaged artifact (`SuccessIsEarned`). A process that dies before it wrote
`run_state.json` stays "running" on the dashboard, whose every refresh of it raises
(`run_audit.py:31`), and no job is admitted until it is cancelled.

In planning and in the work of nodes: a patch that repeats a node outside its target moves that node's
edges to the target (`hierarchical_planner.py:410`), so the nodes around it lose their order, although
the comment there promises not to disconnect the rest (`BoundaryKept` says what such a patch still
owes, and all that a patch within its target does); an unknown container named by a patch is not
restored as it would be in a first answer (line 993) and costs a round; a patch whose root omits its container moves the node out of
it; such a patch, or one that leaves the node empty, also loses the order that ran through the
node's containers, once these are left with fewer than two children (`KeepsTheRest` says what a revision
owes the rest all the same; the smallest plans where more would be false have six nodes); a cycle that
appears only between executables passes the validator and costs the whole plan
(`AcceptedInVain`); the terminal's check runs the program again, which may rewrite artifacts whose digests
were recorded, and also its own entrypoint, which only the code node's run compares with what it
was (`code_agents.py:193`), so the program delivered need not be the one that was executed, unless the
plan declares it as an artifact and the scheduler compares digests at the end; artifact checks inside the code executor accept outputs of an earlier attempt of
the same call.

## Plan

Modelled and proved about: the scheduler, the repair loop, the horizon loop with staging, the lifecycle
with the mailbox and the dashboard, planning, the work of nodes. Next, in this order:

1. That `HorizonLoop`'s window is what `GraphScheduler` in windows promises: a refinement of the loop
   by the composition of both.
2. Pure algorithms against reference definitions over bounded inputs: executor scoring
   (`executor_scoring.py`), the merge of acceptance ledgers (`acceptance_runner.py`), context budgets
   (`communication_models.py`), memory invalidation (`runtime_memory.py`).
