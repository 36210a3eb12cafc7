--------------------------- MODULE GraphScheduler ----------------------------
(***************************************************************************)
(* GraphScheduler.run of orchestration/graph/graph_scheduler.py, with the  *)
(* RecoveryController and the RuntimeInjectionController it owns and the   *)
(* part of RunState it writes.                                             *)
(*                                                                         *)
(* The scheduler is one coroutine: it executes one node at a time and only *)
(* lets go of the event loop while an executor or the planner works.  pc   *)
(* says where it is.  The dashboard is another process, so a request may   *)
(* be queued between any two steps.                                        *)
(*                                                                         *)
(* The caller either runs the graph to the end or opens one execution      *)
(* window after another (Windowed): each window allows the first MaxActive *)
(* ready nodes only.                                                       *)
(*                                                                         *)
(* Left out: artifact contents (a node's files either match the digests    *)
(* bound to it or are damaged), communication metrics, routing statistics  *)
(* and memory capsules, none of which the scheduler reads back.            *)
(***************************************************************************)
EXTENDS RuntimeInjections, Recovery

CONSTANTS
  InitialPlans,       \* plans a run may start with
  Replacements,       \* plans the planner may answer with
  Candidates,         \* [NodeIds -> SUBSET Executors]: find_candidates
  Allowed,            \* [NodeIds -> SUBSET Executors]: those select_executor accepts
  NodeRetryLimit,     \* [NodeIds -> Nat]: TaskNode.max_retries
  Producers,          \* nodes that declare output artifacts
  HasPlanner,         \* a replan callback was given
  PersistTransitions, \* persist_graph_transitions: keep task_graph.json current
  Windowed, MaxActive,
  MailboxLimit        \* requests that may be queued at once (3 in the code)

ASSUME SchedulerAssumption ==
  /\ InitialPlans \subseteq Plans
  /\ Replacements \subseteq Plans
  /\ Candidates \in [NodeIds -> SUBSET Executors]
  /\ Allowed \in [NodeIds -> SUBSET Executors]
  /\ \A n \in NodeIds : Allowed[n] \subseteq Candidates[n]
  /\ NodeRetryLimit \in [NodeIds -> Nat]
  /\ Producers \subseteq NodeIds
  /\ HasPlanner \in BOOLEAN
  /\ PersistTransitions \in BOOLEAN /\ Windowed \in BOOLEAN
  /\ MaxActive \in Nat \ {0} /\ MailboxLimit \in Nat

VARIABLES
  \* the graph
  plan, version, status, attempts,
  amended,            \* nodes that carry the criterion of a requirement change
  \* one call of run
  pc, node, executor, \* the node being handled and its executor
  targets,            \* stop_after_node_ids; {} without a window
  forced,             \* executor the next attempt of a node must use
  \* RecoveryController, which outlives a call
  history, replans,
  \* RunState
  rsNodes, rsVersion, rsOutcome, rsFailure,
  manifest,           \* completed nodes whose artifact digests were recorded
  inj,
  \* the run directory
  damaged,            \* nodes whose files no longer match the recorded digests
  saved               \* task_graph.json: version and statuses

graphVars    == <<plan, version, status, attempts, amended>>
controlVars  == <<pc, node, executor, targets, forced>>
recoveryVars == <<history, replans>>
runStateVars == <<rsNodes, rsVersion, rsOutcome, rsFailure, manifest>>
vars == <<graphVars, controlVars, recoveryVars, runStateVars, inj, damaged, saved>>

Errors == {"deadlock_error", "missing_target_error", "attempt_limit_error", "no_input_error"}

PCs == {"caller", "loop", "amend", "select", "attempt", "execute", "replan",
        "window_check", "finish", "done"} \cup Errors

\* What RunState holds as its failure: what run sets, what an executor reports
\* of itself, and what the validation of the result sets (RepairLoop).
ExecuteFailures ==
  {"artifact_integrity_failure", "graph_node_failure", "executor_failure"}
Failures == ExecuteFailures \cup {"none", "business_validation_failure"}

-----------------------------------------------------------------------------
(* Helpers                                                                 *)

Completed == NodesIn(plan, status, {"completed"})

IntegrityIssues == {n \in Completed \cap Producers : n \notin manifest \/ n \in damaged}

\* Mutant: the nodes are updated, those of the previous graph stay.
RecordOverOld(p, v, st) ==
  /\ rsNodes' = [n \in NodeIds |-> IF n \in p.nodes THEN st[n] ELSE rsNodes[n]]
  /\ rsVersion' = v
  /\ rsOutcome' = "running"
  /\ manifest' = {n \in manifest \cap p.nodes : st[n] = "completed"}
  /\ UNCHANGED rsFailure

\* RunState.record_task_graph: everything it held about nodes is replaced, but
\* the manifests of completed nodes are kept.
RecordGraph(p, v, st) ==
  /\ rsNodes' = [n \in NodeIds |-> IF n \in p.nodes THEN st[n] ELSE "absent"]
  /\ rsVersion' = v
  /\ rsOutcome' = "running"
  /\ manifest' = {n \in manifest \cap p.nodes : st[n] = "completed"}
  /\ UNCHANGED rsFailure

\* Mutant: the graph is written before the transition instead of after it.
SaveBefore(v, st) ==
  saved' = IF PersistTransitions THEN [version |-> version, status |-> status] ELSE saved

\* _save_graph
SaveGraph(v, st) ==
  saved' = IF PersistTransitions THEN [version |-> v, status |-> st] ELSE saved

\* The candidates for one attempt: only the forced executor if there is one.
Selectable(n) ==
  IF forced[n] = NoExecutor THEN Allowed[n] ELSE Allowed[n] \cap {forced[n]}

\* sorted(...)[0], and sorted(...)[:k].
First(S) == {n \in S : \A m \in S : n <= m}
FirstK(S, k) == {n \in S : Cardinality({m \in S : m < n}) < k}

-----------------------------------------------------------------------------
Init ==
  /\ plan \in InitialPlans
  /\ version = 1
  /\ status = [n \in NodeIds |-> "pending"]
  /\ attempts = [n \in NodeIds |-> 0]
  /\ amended = {}
  /\ pc = "caller" /\ node = NoNode /\ executor = NoExecutor
  /\ targets = {}
  /\ forced = [n \in NodeIds |-> NoExecutor]
  /\ history = [n \in NodeIds |-> NoHistory]
  /\ replans = 0
  /\ rsNodes = [n \in NodeIds |-> "absent"]
  /\ rsVersion = 0 /\ rsOutcome = "pending" /\ rsFailure = "none"
  /\ manifest = {}
  /\ inj = InitialInjections
  /\ damaged = {}
  /\ saved = [version |-> 0, status |-> status]

(* Entering run ----------------------------------------------------------*)

\* The graph is recorded unless RunState already has it (same graph_id).
Enter(st, window) ==
  /\ targets' = window
  /\ forced' = [n \in NodeIds |-> NoExecutor]
  /\ status' = st
  /\ IF rsVersion = 0 THEN RecordGraph(plan, version, st) ELSE UNCHANGED runStateVars
  /\ SaveGraph(version, st)
  /\ pc' = "loop"
  /\ UNCHANGED <<plan, version, attempts, amended, node, executor, recoveryVars, inj, damaged>>

RunToEnd ==
  /\ pc = "caller" /\ ~Windowed
  /\ Enter(status, {})

\* The horizon loop marks the ready nodes itself before it opens a window.
OpenWindow ==
  /\ pc = "caller" /\ Windowed
  /\ ReadyNodes(plan, status) # {}
  /\ Enter(AfterReady(plan, status), FirstK(ReadyNodes(plan, status), MaxActive))

(* The head of the loop --------------------------------------------------*)

LoopEnds ==
  /\ pc = "loop" /\ IsFinished(plan, status)
  /\ pc' = "finish"
  /\ UNCHANGED <<graphVars, node, executor, targets, forced, recoveryVars,
                 runStateVars, inj, damaged, saved>>

\* poll_requests, then block_failed_dependencies, told to RunState.
BeginIteration ==
  /\ pc = "loop" /\ ~IsFinished(plan, status)
  /\ inj' = AfterPoll(inj, plan, status)
  /\ status' = AfterBlocking(plan, status)
  /\ rsNodes' = [n \in NodeIds |->
       IF n \in BlockedByFailure(plan, status) THEN "blocked" ELSE rsNodes[n]]
  /\ IF BlockedByFailure(plan, status) # {}
     THEN SaveGraph(version, status')
     ELSE UNCHANGED saved
  /\ pc' = "amend"
  /\ UNCHANGED <<plan, version, attempts, amended, node, executor, targets, forced,
                 recoveryVars, rsVersion, rsOutcome, rsFailure, manifest, damaged>>

EligibleNodes(i) == {n \in plan.nodes : Eligible(inj, i, plan, status, n)}

\* The node a requirement change amends: the first ready one if any is eligible.
AmendTargets(i) ==
  LET ready == EligibleNodes(i) \cap ReadyNodes(plan, status)
  IN  IF ready # {} THEN First(ready) ELSE EligibleNodes(i)

ApplyRequirementChange ==
  /\ pc = "amend"
  /\ \E i \in Changes : \E n \in AmendTargets(i) :
       /\ inj' = Amended(inj, i, n)
       /\ amended' = amended \cup {n}
  /\ status' = AfterReady(plan, status)
  /\ version' = version + 1
  /\ RecordGraph(plan, version', status')
  /\ SaveGraph(version', status')
  /\ pc' = "select"
  /\ UNCHANGED <<plan, attempts, node, executor, targets, forced, recoveryVars, damaged>>

NoRequirementChange ==
  /\ pc = "amend"
  /\ \A i \in Changes : EligibleNodes(i) = {}
  /\ pc' = "select"
  /\ UNCHANGED <<graphVars, node, executor, targets, forced, recoveryVars,
                 runStateVars, inj, damaged, saved>>

\* The ready nodes the window allows.
Usable ==
  {n \in ReadyNodes(plan, status) : targets # {} => n \in targets}

\* Mark the ready nodes and take the first usable one; without any, the run is
\* over, the window is, or an exception says that neither is true.
SelectReady ==
  /\ pc = "select"
  /\ status' = AfterReady(plan, status)
  /\ IF Usable # {}
     THEN pc' = "attempt" /\ node' \in First(Usable)
     ELSE /\ pc' = IF ReadyNodes(plan, status) = {}
                   THEN IF IsFinished(plan, status) THEN "finish" ELSE "deadlock_error"
                   ELSE IF ~ targets \subseteq plan.nodes THEN "missing_target_error"
                   ELSE IF targets \subseteq Completed THEN "window_check"
                   ELSE IF \E n \in targets : status[n] \in Dead THEN "finish"
                   ELSE "deadlock_error"
          /\ UNCHANGED node
  /\ UNCHANGED <<plan, version, attempts, amended, executor, targets, forced,
                 recoveryVars, runStateVars, inj, damaged, saved>>

(* One attempt -----------------------------------------------------------*)

\* Mutant: the pinned executor is read but not popped.
KeepForced(n) == UNCHANGED forced

Unforce(n) == forced' = [forced EXCEPT ![n] = NoExecutor]

\* No executor can be selected: the node fails as "unavailable" without an
\* attempt being recorded, and goes straight to the planner if there is one.
CapabilityUnavailable ==
  /\ pc = "attempt" /\ Selectable(node) = {}
  /\ Unforce(node)
  /\ executor' = NoExecutor
  /\ attempts' = [attempts EXCEPT ![node] = @ + 1]
  /\ status' = [status EXCEPT ![node] = "failed"]
  /\ rsNodes' = [rsNodes EXCEPT ![node] = "failed"]
  /\ IF MayReplan(replans, HasPlanner)
     THEN pc' = "replan" /\ UNCHANGED saved
     ELSE pc' = "loop" /\ SaveGraph(version, status')
  /\ UNCHANGED <<plan, version, amended, node, targets, recoveryVars,
                 rsVersion, rsOutcome, rsFailure, manifest, inj, damaged>>

\* record_attempt raises out of run when the attempt exceeds a budget.
StartAttempt ==
  /\ pc = "attempt"
  /\ \E e \in Selectable(node) :
       /\ Unforce(node)
       /\ executor' = e
       /\ IF AttemptAllowed(history[node], e)
          THEN /\ history' = [history EXCEPT ![node] = AfterAttempt(@, e)]
               /\ attempts' = [attempts EXCEPT ![node] = @ + 1]
               /\ status' = [status EXCEPT ![node] = "running"]
               /\ rsNodes' = [rsNodes EXCEPT ![node] = "running"]
               /\ SaveGraph(version, status')
               /\ pc' = "execute"
          ELSE /\ pc' = "attempt_limit_error"
               /\ UNCHANGED <<history, attempts, status, rsNodes, saved>>
  /\ UNCHANGED <<plan, version, amended, node, targets, replans,
                 rsVersion, rsOutcome, rsFailure, manifest, inj, damaged>>

\* The node's result is stored in the graph and in RunState alike.
Settle(result) ==
  /\ status' = [status EXCEPT ![node] = result]
  /\ rsNodes' = [rsNodes EXCEPT ![node] = result]

\* While it runs, an executor may overwrite files other nodes produced.
Damage == \E d \in SUBSET ((manifest \cap Producers) \ {node}) : damaged' = damaged \cup d

\* It may record a failure of its own (a script that failed, an artifact that
\* does not fit) and, when a later try of its own works, take that one back.
Report ==
  rsFailure' \in {rsFailure, "executor_failure"}
                   \cup (IF rsFailure = "executor_failure" THEN {"none"} ELSE {})

NothingInjected == FaultsFor(inj, plan, status, node) = {}

ExecutorCompletes ==
  /\ pc = "execute" /\ NothingInjected
  /\ Settle("completed")
  /\ \E d \in SUBSET ((manifest \cap Producers) \ {node}) :
       damaged' = (damaged \ {node}) \cup d
  /\ manifest' = manifest \cup {node}
  /\ inj' = AfterCompletion(inj, node)
  /\ Report
  /\ SaveGraph(version, status')
  /\ pc' = "window_check"
  /\ UNCHANGED <<plan, version, attempts, amended, node, executor, targets, forced,
                 recoveryVars, rsVersion, rsOutcome>>

\* A context that does not fit blocks the node; no recovery is tried.
ExecutorBlocks ==
  /\ pc = "execute" /\ NothingInjected
  /\ Settle("blocked")
  /\ Damage /\ Report
  /\ SaveGraph(version, status')
  /\ pc' = "window_check"
  /\ UNCHANGED <<plan, version, attempts, amended, node, executor, targets, forced,
                 recoveryVars, rsVersion, rsOutcome, manifest, inj>>

(* Recovery after a failed attempt ---------------------------------------*)

\* reset_for_retry: the next attempt is pinned to executor e.
TryAgainOn(e) ==
  /\ Settle("pending")
  /\ forced' = [forced EXCEPT ![node] = e]
  /\ SaveGraph(version, status')
  /\ pc' = "window_check"

Retriable(recoverable)  == MayRetry(history[node], NodeRetryLimit[node], recoverable)
Switchable(recoverable) ==
  ~ Retriable(recoverable) /\ MaySwitch(history[node], Candidates[node], recoverable)
Replannable(recoverable) ==
  /\ ~ Retriable(recoverable) /\ ~ Switchable(recoverable)
  /\ MayReplan(replans, HasPlanner)

\* Planning starts before the failed node is saved.
Recover(recoverable) ==
  /\ \/ Retriable(recoverable) /\ TryAgainOn(executor)
     \/ /\ Switchable(recoverable)
        /\ \E e \in Candidates[node] \ history[node].tried : TryAgainOn(e)
     \/ /\ Replannable(recoverable)
        /\ Settle("failed")
        /\ pc' = "replan"
        /\ UNCHANGED <<forced, saved>>
     \/ /\ ~ Retriable(recoverable) /\ ~ Switchable(recoverable) /\ ~ Replannable(recoverable)
        /\ Settle("failed")
        /\ SaveGraph(version, status')
        /\ pc' = "window_check"
        /\ UNCHANGED forced
  /\ UNCHANGED <<plan, version, attempts, amended, node, executor, targets,
                 recoveryVars, rsVersion, rsOutcome, manifest>>

\* The executor raised, reported a failure or its result was refused; a
\* failure to build the node's context is not recoverable on a node level.
ExecutorFails ==
  /\ pc = "execute" /\ NothingInjected
  /\ \E recoverable \in BOOLEAN : Recover(recoverable)
  /\ Damage /\ Report
  /\ UNCHANGED inj

\* An injected fault replaces the execution.
InjectFault ==
  /\ pc = "execute"
  /\ \E i \in FaultsFor(inj, plan, status, node) : inj' = Fired(inj, i, node)
  /\ Recover(TRUE)
  /\ UNCHANGED <<damaged, rsFailure>>

\* A data anomaly that finds no input file to corrupt (none was given, or the
\* executors left none under 4 MB) raises out of run.
InjectionRaises ==
  /\ pc = "execute"
  /\ \E i \in FaultsFor(inj, plan, status, node) : InjectionType[i] = "data_anomaly"
  /\ pc' = "no_input_error"
  /\ UNCHANGED <<graphVars, node, executor, targets, forced, recoveryVars,
                 runStateVars, inj, damaged, saved>>

(* Replanning ------------------------------------------------------------*)

AfterReplan == pc' = IF executor = NoExecutor THEN "loop" ELSE "window_check"

\* Nodes that are not completed start over: attempts, history, amendments
\* (unless the planner happens to write the same criterion again).
ReplanAccepted ==
  /\ pc = "replan" /\ IntegrityIssues = {}
  /\ \E q \in Replacements :
       /\ CanReplace(plan, status, q)
       /\ plan' = q
       /\ history' = [n \in NodeIds |->
            IF n \in q.nodes \ Completed THEN NoHistory ELSE history[n]]
       /\ RecordGraph(q, version + 1, AfterReplacement(plan, status))
  /\ version' = version + 1
  /\ status' = AfterReplacement(plan, status)
  /\ attempts' = [n \in NodeIds |-> IF n \in Completed THEN attempts[n] ELSE 0]
  /\ amended' \in {amended, amended \cap Completed}
  /\ forced' = [n \in NodeIds |-> NoExecutor]
  /\ replans' = replans + 1
  /\ SaveGraph(version', status')
  /\ AfterReplan
  /\ UNCHANGED <<node, executor, targets, inj, damaged>>

\* Mutant: the planner is asked until its answer is accepted.
AskAgain == pc = "replan" /\ UNCHANGED vars

\* No answer, an invalid graph or damaged artifacts: the budget is spent.
ReplanRejected ==
  /\ pc = "replan"
  /\ replans' = replans + 1
  /\ SaveGraph(version, status)
  /\ AfterReplan
  /\ UNCHANGED <<graphVars, node, executor, targets, forced, history,
                 runStateVars, inj, damaged>>

(* Leaving run -----------------------------------------------------------*)

\* Mutant: the window waits for the whole graph.
WindowDoneAtEnd == targets # {} /\ IsFinished(plan, status)

\* Targets that a replan removed do not keep the window open.
WindowDone ==
  targets # {} /\ \A n \in targets \cap plan.nodes : status[n] = "completed"

CheckWindow ==
  /\ pc = "window_check"
  /\ IF WindowDone /\ ~ IsFinished(plan, status)
     THEN pc' = "caller" /\ SaveGraph(version, status)
     ELSE pc' = (IF WindowDone THEN "finish" ELSE "loop") /\ UNCHANGED saved
  /\ UNCHANGED <<graphVars, node, executor, targets, forced, recoveryVars,
                 runStateVars, inj, damaged>>

\* Mutant: blocked nodes are forgotten.
OutcomeWithoutBlocked ==
  IF HasFailed(plan, status) \/ IntegrityIssues # {} THEN "failed" ELSE "success"

GraphOutcome ==
  CASE HasFailed(plan, status) \/ IntegrityIssues # {} -> "failed"
    [] ~ HasFailed(plan, status) /\ IntegrityIssues = {} /\ HasBlocked(plan, status) -> "blocked"
    [] OTHER -> "success"

Finish ==
  /\ pc = "finish"
  /\ rsOutcome' = GraphOutcome
  /\ rsFailure' =
       CASE IntegrityIssues # {} -> "artifact_integrity_failure"
         [] IntegrityIssues = {} /\ GraphOutcome = "success" /\ rsFailure \in ExecuteFailures
              -> "none"
         [] IntegrityIssues = {} /\ GraphOutcome = "failed" /\ rsFailure = "none"
              -> "graph_node_failure"
         [] OTHER -> rsFailure
  /\ SaveGraph(version, status)
  /\ pc' = "done"
  /\ UNCHANGED <<graphVars, node, executor, targets, forced, recoveryVars,
                 rsNodes, rsVersion, manifest, inj, damaged>>

(* The dashboard ---------------------------------------------------------*)

\* POST /injections, until the workflow closes the mailbox behind the run.
Enqueue ==
  /\ pc \notin Errors \cup {"done"}
  /\ Cardinality({i \in Injections : inj[i].status = "queued"}) < MailboxLimit
  /\ \E i \in Injections, t \in NodeIds \cup {NoNode} :
       /\ inj[i].status = "unsent"
       /\ inj' = [inj EXCEPT ![i] = [status |-> "queued", target |-> t]]
  /\ UNCHANGED <<graphVars, controlVars, recoveryVars, runStateVars, damaged, saved>>

-----------------------------------------------------------------------------
Stopped == pc \in Errors \cup {"done"}

Iterate == LoopEnds \/ BeginIteration \/ ApplyRequirementChange
             \/ NoRequirementChange \/ SelectReady
Attempt == CapabilityUnavailable \/ StartAttempt \/ ExecutorCompletes \/ ExecutorBlocks
             \/ ExecutorFails \/ InjectFault \/ InjectionRaises
Replan  == ReplanAccepted \/ ReplanRejected
Leave   == CheckWindow \/ Finish

Run  == RunToEnd \/ OpenWindow \/ Iterate \/ Attempt \/ Replan \/ Leave
Next == Run \/ Enqueue \/ (Stopped /\ UNCHANGED vars)

Spec == Init /\ [][Next]_vars

\* The coroutine is never starved, executors and planner answer or time out.
FairSpec == Spec /\ WF_vars(Run)

-----------------------------------------------------------------------------
(* Properties                                                              *)

\* Every variable holds what the code can put there.
TypeOK ==
  /\ plan \in Plans
  /\ version \in Nat
  /\ status \in [NodeIds -> Statuses]
  /\ attempts \in [NodeIds -> Nat]
  /\ amended \subseteq NodeIds
  /\ pc \in PCs
  /\ node \in NodeIds \cup {NoNode}
  /\ executor \in Executors \cup {NoExecutor}
  /\ targets \subseteq NodeIds
  /\ forced \in [NodeIds -> Executors \cup {NoExecutor}]
  /\ history \in [NodeIds -> Histories]
  /\ replans \in Nat
  /\ rsNodes \in [NodeIds -> Statuses \cup {"absent"}]
  /\ rsVersion \in Nat
  /\ rsOutcome \in {"pending", "running", "success", "blocked", "failed"}
  /\ rsFailure \in Failures
  /\ manifest \subseteq NodeIds
  /\ inj \in [Injections -> InjectionStates]
  /\ damaged \subseteq NodeIds
  /\ saved \in [version : Nat, status : [NodeIds -> Statuses]]

\* A node is made ready, executed, failed or completed only on top of completed
\* dependencies, and that stays so when the planner rewires the graph around it.
DependencyOrder ==
  \A n \in plan.nodes :
    status[n] \in {"ready", "running", "completed", "failed"} =>
      \A d \in plan.deps[n] : status[d] = "completed"

\* A retry or a switch that was decided is what runs next: no other node is
\* picked while an executor is pinned.
PinnedRunsNext ==
  pc = "attempt" => \A n \in NodeIds : forced[n] # NoExecutor => n = node

\* What decide_after_failure promised, record_attempt accepts: no node exceeds
\* its retries or switches, not even its own narrower limit, and the refusal
\* (an exception that would abort the run) never happens.
BudgetsRespected ==
  /\ \A n \in NodeIds :
       /\ history[n].retries <= MaxNodeRetries
       /\ history[n].retries <= NodeRetryLimit[n]
       /\ history[n].switches <= MaxExecutorSwitches
  /\ replans <= MaxReplans
  /\ pc # "attempt_limit_error"

\* Attempts are not free: those of the current plan are covered by recorded
\* ones, except one that found no executor.
AttemptsAccounted ==
  \A n \in plan.nodes :
    attempts[n] <= 2 + history[n].retries + history[n].switches

Normal(s) == IF s = "ready" THEN "pending" ELSE s

\* RunState, which the dashboard and the review read, never disagrees with the
\* graph the scheduler works on, once the graph was recorded.
RunStateMirrors ==
  rsVersion # 0 =>
    /\ rsVersion = version
    /\ \A n \in plan.nodes : rsNodes[n] = Normal(status[n]) \/ rsNodes[n] = status[n]
    /\ \A n \in NodeIds \ plan.nodes : rsNodes[n] = "absent"

\* task_graph.json on disk is the graph in memory whenever an executor works
\* and once the run has ended.
SnapshotCurrent ==
  pc \in {"execute", "caller", "done"} /\ rsVersion # 0 =>
    saved = [version |-> version, status |-> status]

\* The recorded outcome says what happened to the nodes and to their files.
OutcomeTruthful ==
  pc = "done" =>
    /\ rsOutcome = "success" <=>
         (\A n \in plan.nodes : status[n] = "completed") /\ damaged \cap Producers \cap plan.nodes = {}
    /\ rsOutcome = "success" => rsFailure = "none"
    /\ rsOutcome = "failed" => rsFailure # "none"

\* A fault counts as recovered only once its node really completed, and one
\* that is still recovering has a node that has not.
FaultRecovery ==
  \A i \in Faults :
    /\ inj[i].status = "recovered" => inj[i].target \in Completed
    /\ inj[i].status = "recovering" => inj[i].target \notin Completed

\* The run never stops on an unfinished graph for lack of a node to execute.
NoDeadlockError == pc # "deadlock_error"

\* GraphDeadlockError says what its docstring says: nothing is executable.
DeadlockMeansStuck == pc = "deadlock_error" => ReadyNodes(plan, status) = {}

\* A requirement change that was reported as recovered binds the node it
\* amended until that node is done.
ChangeIsEnforced ==
  \A i \in Changes :
    inj[i].status = "recovered" /\ inj[i].target \in Completed => inj[i].target \in amended

\* Completed work is immutable: neither recovery, nor a requirement change,
\* nor a replan takes a completed node away, rewires it or runs it again.
CompletedIsFinal ==
  [][\A n \in Completed :
       /\ n \in plan'.nodes /\ plan'.deps[n] = plan.deps[n]
       /\ status'[n] = "completed" /\ attempts'[n] = attempts[n]]_vars

\* Whatever fails, blocks or is replanned, the run ends.
Termination == <>Stopped

-----------------------------------------------------------------------------
(* The scheduler implements DagExecution                                   *)

Dag == INSTANCE DagExecution WITH
  MaxExchanges <- MaxReplans,
  dag       <- plan,
  finished  <- Completed,
  running   <- NodesIn(plan, status, {"running"}),
  exchanges <- replans,
  verdict   <- CASE pc # "done" -> "open"
                 [] pc = "done" /\ rsOutcome = "success" -> "success"
                 [] OTHER -> "incomplete"

\* Every behaviour of the scheduler, with its retries, blocking, injections and
\* replans, is a behaviour of the abstract execution of a graph.
ImplementsDag == Dag!DagSpec

=============================================================================
