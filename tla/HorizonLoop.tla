---------------------------- MODULE HorizonLoop -----------------------------
(***************************************************************************)
(* _execute_graph_in_horizons of core/workflow.py: a long graph is run in  *)
(* windows of a few nodes; after each window a checkpoint is written and   *)
(* RunState is flushed every PersistEvery windows.  With requirement       *)
(* staging the graph is planned stage by stage by                          *)
(* expand_requirement_frontier; without it a process may crash and another *)
(* one resume from a checkpoint, as the resume tooling does.  (The         *)
(* workflow itself rebuilds the ledger from nothing and never resumes a    *)
(* staged run.)                                                            *)
(*                                                                         *)
(* One window is GraphScheduler.run with stop_after_node_ids, reduced to   *)
(* what the loop sees: nodes that complete or fail, a replan, an exception.*)
(* Its retries, routing and injections are in GraphScheduler.              *)
(***************************************************************************)
EXTENDS RequirementStages

CONSTANTS
  Contracts,      \* contracts a staged run may have
  StageOf,        \* [NodeIds -> Nat]: the stage an identifier is prefixed with, or 0
  InitialPlans,   \* plans of a run that is not staged
  Replacements,   \* plans the planner may answer a failed node with
  MaxReplans,
  MaxActive,      \* horizon_policy.max_active_nodes
  PersistEvery,   \* horizon_policy.persist_every_epochs
  NameLimit,      \* the last epoch whose file name sorts after all earlier ones
  MaxCrashes      \* bound on the crashes of a behaviour

ASSUME HorizonAssumption ==
  /\ \A c \in Contracts : ValidContract(c) /\ c.mandatory \subseteq c.items
  /\ StageOf \in [NodeIds -> Nat] /\ StageOf[DeliveryId] = 0
  /\ \A k \in GovernanceKinds :
       /\ StageOf[GovernanceId[k]] = 0 /\ GovernanceId[k] # DeliveryId
       /\ \A j \in GovernanceKinds \ {k} : GovernanceId[j] # GovernanceId[k]
  /\ InitialPlans \subseteq Plans /\ Replacements \subseteq Plans
  /\ MaxReplans \in Nat /\ MaxCrashes \in Nat
  /\ MaxActive \in Nat \ {0} /\ PersistEvery \in Nat \ {0} /\ NameLimit \in Nat \ {0}

VARIABLES
  mode,                          \* staged; live: accept_runtime_injections
  contract, progress, producers, \* the requirement ledger
  stage, governed,               \* stage_counter, governance_attached
  plan, status, codeNodes,       \* the graph
  pc, epoch, targets,
  before,                        \* nodes completed when the window opened
  replans,
  state,                         \* RunState in memory
  deferring,                     \* a save batch is open
  disk,                          \* run_state.json
  checkpoints, torn,             \* files by epoch; those cut short by a crash
  crashes

ledgerVars == <<contract, progress, producers, stage, governed>>
graphVars  == <<plan, status, codeNodes>>
loopVars   == <<mode, epoch, targets, before, replans>>
diskVars   == <<disk, checkpoints, torn>>
vars == <<ledgerVars, graphVars, loopVars, diskVars, pc, state, deferring, crashes>>

Live == {"plan", "top", "open", "window", "checkpoint", "record"}

Completed == NodesIn(plan, status, {"completed"})

NoContract == [items |-> {}, parent |-> [r \in Requirements |-> NoRequirement],
               dependsOn |-> [r \in Requirements |-> {}], mandatory |-> {},
               blocking |-> {}, code |-> {}, codeOutputs |-> FALSE]

NoPlan == [nodes |-> {}, deps |-> [n \in NodeIds |-> {}]]

\* record_task_graph: RunState's copy of the node states, "none" where it has no entry.
Recorded(p, st) == [n \in NodeIds |-> IF n \in p.nodes THEN st[n] ELSE "none"]

NewState(p, st) == [epoch |-> 0, nodes |-> Recorded(p, st), manifest |-> {},
                    outcome |-> "running", finished |-> FALSE]

\* Mutant: only entries that are there already are brought up to date, as
\* record_routing_decision does.
FollowedIfKnown(nodes, old, new) ==
  [n \in NodeIds |-> IF new[n] # old[n] /\ nodes[n] # "none" THEN new[n] ELSE nodes[n]]

\* record_node_result and block_node make the entry of a node that has none.
Followed(nodes, old, new) ==
  [n \in NodeIds |-> IF new[n] # old[n] THEN new[n] ELSE nodes[n]]

\* _save: a batch only remembers that there is something to write.
Save(s) == state' = s /\ disk' = IF deferring THEN disk ELSE s

-----------------------------------------------------------------------------
Init ==
  /\ mode \in [staged : BOOLEAN, live : BOOLEAN]
  /\ contract \in IF mode.staged THEN Contracts ELSE {NoContract}
  /\ plan \in IF mode.staged THEN {NoPlan} ELSE InitialPlans
  /\ pc = IF mode.staged THEN "plan" ELSE "top"
  /\ progress = [r \in Requirements |-> IF r \in Actionable(contract) THEN "pending" ELSE "none"]
  /\ producers = [r \in Requirements |-> {}]
  /\ stage = 0 /\ governed = FALSE
  /\ status = [n \in NodeIds |-> "pending"] /\ codeNodes = {}
  /\ epoch = 0 /\ targets = {} /\ before = {} /\ replans = 0
  /\ state = NewState(plan, status) /\ deferring = FALSE /\ disk = state
  /\ checkpoints = [e \in {} |-> [plan |-> NoPlan, status |-> status]] /\ torn = {}
  /\ crashes = 0

-----------------------------------------------------------------------------
(* Stages                                                                  *)

\* The identifiers of a stage: they begin with its number (_stage_node_id).
Slots(s) == {n \in NodeIds : StageOf[n] = s}

\* What the stage planner may come back with: any valid graph, each requirement
\* made by one node of it or, where the coverage check does not ask for it, by
\* none; exactly one node writes code in a code stage.
StageAnswers(batch, s) ==
  {a \in [nodes : SUBSET Slots(s),
          deps  : {[n \in NodeIds |-> IF n \in Slots(s) THEN D[n] ELSE {}] :
                     D \in [Slots(s) -> SUBSET Slots(s)]},
          made  : [batch -> {{n} : n \in Slots(s)} \cup {{}}],
          code  : {{}} \cup {{n} : n \in Slots(s)}] :
     /\ IsFiniteSet(a.nodes) /\ ValidPlan(a)
     /\ \A r \in batch : a.made[r] \subseteq a.nodes
     /\ \A r \in MustBeCovered(contract, batch) : a.made[r] # {}
     /\ a.code \subseteq a.nodes
     /\ (a.code # {}) <=> (contract.codeOutputs /\ batch \cap contract.code # {})}

\* plan_requirement_stage, on a ledger just refreshed: a second code stage is
\* refused by merge_stage_graph.
PlanStage(ledger, batch, a) ==
  /\ a.code = {} \/ codeNodes = {}
  /\ plan' = MergedStage(plan, a) /\ codeNodes' = codeNodes \cup a.code
  /\ progress' = MarkPlanned(ledger, batch)
  /\ producers' = [r \in Requirements |-> IF r \in batch THEN a.made[r] ELSE producers[r]]

\* The first stage is planned before the loop; without it the run falls back to
\* a plan of another kind or ends.
FirstStage ==
  /\ pc = "plan"
  /\ LET batch == SelectBatch(contract, progress)
     IN \/ /\ \E a \in StageAnswers(batch, 1) : batch # {} /\ PlanStage(progress, batch, a)
           /\ stage' = 1 /\ pc' = "top"
           /\ Save(NewState(plan', status))
        \/ /\ pc' = "unplanned"
           /\ UNCHANGED <<plan, codeNodes, progress, producers, stage, state, disk>>
  /\ UNCHANGED <<contract, governed, status, loopVars, checkpoints, torn, deferring, crashes>>

Expanding == pc = "top" /\ mode.staged /\ IsFinished(plan, status)

\* The ledger after the refresh that begins every expansion.
Refresh == Refreshed(progress, producers, plan, status)

Expandable == \A r \in Requirements : Refresh[r] \notin {"failed", "blocked"}

ExpandStage ==
  /\ Expanding /\ Expandable
  /\ LET batch == SelectBatch(contract, Refresh)
     IN /\ batch # {}
        /\ \/ \E a \in StageAnswers(batch, stage + 1) :
                PlanStage(Refresh, batch, a) /\ pc' = "open"
           \/ \* the planner failed, or its answer broke the stage's contract
              /\ progress' = MarkBlocked(Refresh, batch)
              /\ pc' = "done" /\ UNCHANGED <<plan, codeNodes, producers>>
  /\ stage' = stage + 1
  /\ UNCHANGED <<contract, governed, status, loopVars, diskVars, state, deferring, crashes>>

\* Nothing is ready although something is pending.
RequirementsDeadlock ==
  /\ Expanding /\ Expandable
  /\ PendingIds(Refresh) # {} /\ SelectBatch(contract, Refresh) = {}
  /\ progress' = MarkBlocked(Refresh, PendingIds(Refresh))
  /\ pc' = "done"
  /\ UNCHANGED <<contract, producers, stage, governed, graphVars, loopVars, diskVars,
                 state, deferring, crashes>>

\* The governance chain is appended once, when nothing is pending; without a
\* code node and without artifacts to ask one for, this raises.
AppendGovernance ==
  /\ Expanding /\ Expandable /\ ~governed
  /\ PendingIds(Refresh) = {}
  /\ progress' = Refresh
  /\ IF codeNodes = {} /\ "terminal_execution" \in Governance /\ ~contract.codeOutputs
     THEN pc' = "raised" /\ UNCHANGED <<plan, governed>>
     ELSE /\ plan' = Governed(plan, codeNodes)
          /\ governed' = TRUE
          /\ pc' = IF plan' = plan THEN "done" ELSE "open"
  /\ UNCHANGED <<contract, producers, stage, status, codeNodes, loopVars, diskVars,
                 state, deferring, crashes>>

\* Nothing more to add, or a producer failed.
StopExpanding ==
  /\ pc = "top" /\ IsFinished(plan, status)
  /\ mode.staged => ~Expandable \/ (governed /\ PendingIds(Refresh) = {})
  /\ progress' = IF mode.staged THEN Refresh ELSE progress
  /\ pc' = "done"
  /\ UNCHANGED <<contract, producers, stage, governed, graphVars, loopVars, diskVars,
                 state, deferring, crashes>>

-----------------------------------------------------------------------------
(* Windows                                                                 *)

FirstTargets(S) == {n \in S : Cardinality({m \in S : m < n}) < MaxActive}

\* finish_graph: a completed node whose files were never recorded fails the run.
Outcome(st, s) ==
  IF HasFailed(plan, st) \/ ~(NodesIn(plan, st, {"completed"}) \subseteq s.manifest)
  THEN "failed"
  ELSE IF HasBlocked(plan, st) THEN "blocked" ELSE "success"

\* A graph that is neither finished nor stopped has a ready node, so the way out
\* the code has for the other case is not there.
OpenWindow ==
  /\ pc = "open" \/ (pc = "top" /\ ~IsFinished(plan, status))
  /\ LET st == AfterBlocking(plan, status)
     IN /\ status' = st
        /\ targets' = FirstTargets(ReadyNodes(plan, st)) /\ targets' # {}
        /\ before' = NodesIn(plan, st, {"completed"})
        /\ state' = [state EXCEPT !.nodes = Followed(@, status, st)]
        /\ disk' = IF mode.live THEN state' ELSE disk
  /\ epoch' = epoch + 1
  /\ deferring' = ~mode.live
  /\ pc' = "window"
  /\ UNCHANGED <<ledgerVars, plan, codeNodes, mode, replans, checkpoints, torn, crashes>>

ReadyTargets == ReadyNodes(plan, status) \cap targets

\* Every target that is still in the graph is done; none left counts as done.
TargetsDone(p, st) == \A n \in targets \cap p.nodes : st[n] = "completed"

WindowOver ==
  \/ IsFinished(plan, status)
  \/ TargetsDone(plan, status)
  \/ /\ ReadyTargets = {} /\ targets \subseteq plan.nodes
     /\ \E n \in targets : status[n] \in Dead

RunNode ==
  /\ pc = "window" /\ ~WindowOver
  /\ \E n \in ReadyTargets :
       /\ \A m \in ReadyTargets : n <= m
       /\ \E result \in {"completed", "failed"} :
            /\ status' = AfterBlocking(plan, [status EXCEPT ![n] = result])
            /\ Save([state EXCEPT !.nodes = Followed(@, status, status'),
                                  !.manifest = IF result = "completed" THEN @ \cup {n} ELSE @])
  /\ UNCHANGED <<ledgerVars, plan, codeNodes, loopVars, pc, deferring, checkpoints, torn,
                 crashes>>

\* Mutant: the budget is looked at and never spent.
ReplanUnspent == replans < MaxReplans /\ replans' = replans

SpendReplan == replans < MaxReplans /\ replans' = replans + 1

\* A node failed for good and the planner replaced what is not completed.
RunNodeAndReplan ==
  /\ pc = "window" /\ ~WindowOver /\ ~mode.staged
  /\ ReadyTargets # {} /\ SpendReplan
  /\ Completed \subseteq state.manifest
  /\ plan' \in {q \in Replacements : CanReplace(plan, status, q)}
  /\ status' = AfterReplacement(plan, status)
  /\ Save([state EXCEPT !.nodes = Recorded(plan', status'),
                        !.manifest = @ \cap plan'.nodes, !.outcome = "running"])
  /\ UNCHANGED <<ledgerVars, codeNodes, mode, epoch, targets, before, pc, deferring,
                 checkpoints, torn, crashes>>

CloseWindow ==
  /\ pc = "window" /\ WindowOver
  /\ Save(IF TargetsDone(plan, status) /\ ~IsFinished(plan, status)
          THEN state
          ELSE [state EXCEPT !.outcome = Outcome(status, state)])
  /\ pc' = "checkpoint"
  /\ UNCHANGED <<ledgerVars, graphVars, loopVars, deferring, checkpoints, torn, crashes>>

\* A replan left a target without its graph, or behind a node the window does
\* not allow: the scheduler raises, and the batch stays open.
WindowRaises ==
  /\ pc = "window" /\ ~WindowOver /\ ReadyTargets = {}
  /\ pc' = "raised"
  /\ UNCHANGED <<ledgerVars, graphVars, loopVars, diskVars, state, deferring, crashes>>

WriteCheckpoint ==
  /\ pc = "checkpoint"
  /\ checkpoints' = [e \in DOMAIN checkpoints \cup {epoch} |->
                       IF e = epoch THEN [plan |-> plan, status |-> status] ELSE checkpoints[e]]
  /\ torn' = torn \ {epoch}
  /\ pc' = "record"
  /\ UNCHANGED <<ledgerVars, graphVars, loopVars, disk, state, deferring, crashes>>

Stopped == HasFailed(plan, status) \/ HasBlocked(plan, status)

\* Mutant: the state is written when there is nothing left to run.
FlushAtTheEnd == IsFinished(plan, status) \/ Stopped

FlushDue == epoch % PersistEvery = 0 \/ IsFinished(plan, status) \/ Stopped

\* Mutant: the loop breaks off before it closes the batch.
BatchLeftOpen == deferring' = (deferring /\ Stopped)

CloseBatch == deferring' = FALSE

\* record_horizon_epoch and the end of the batch; the loop stops at a failure
\* and when a window completed nothing.
RecordEpoch ==
  /\ pc = "record"
  /\ LET s == [state EXCEPT !.epoch = epoch]
         stuck == Completed \subseteq before /\ ~IsFinished(plan, status)
     IN /\ state' = s
        /\ disk' = IF mode.live \/ FlushDue \/ stuck THEN s ELSE disk
        /\ pc' = IF Stopped \/ stuck THEN "done" ELSE "top"
  /\ CloseBatch
  /\ targets' = {} /\ before' = {}
  /\ UNCHANGED <<ledgerVars, graphVars, mode, epoch, replans, checkpoints, torn, crashes>>

-----------------------------------------------------------------------------
(* The end of a run, crashes and resumption                                *)

\* The workflow goes on, or main records the failure of a run that raised; a
\* batch left open keeps that from the disk.
Return ==
  /\ pc \in {"done", "raised"}
  /\ Save([state EXCEPT !.finished = TRUE])
  /\ pc' = IF pc = "done" THEN "returned" ELSE "aborted"
  /\ UNCHANGED <<ledgerVars, graphVars, loopVars, deferring, checkpoints, torn, crashes>>

\* Memory is gone; a checkpoint being written may be left half done.
Crash ==
  /\ pc \in Live /\ ~mode.staged
  /\ crashes < MaxCrashes
  /\ crashes' = crashes + 1
  /\ pc' = "down"
  /\ torn' \in {torn, IF pc = "checkpoint" THEN torn \cup {epoch} ELSE torn}
  /\ state' = disk /\ deferring' = FALSE
  /\ epoch' = 0 /\ targets' = {} /\ before' = {} /\ replans' = 0
  /\ UNCHANGED <<ledgerVars, graphVars, mode, disk, checkpoints>>

Sound == DOMAIN checkpoints \ torn

\* Mutant: the first file of the directory.
OldestSound == {e \in Sound : \A f \in Sound : e <= f}

\* sorted(...)[-1]: by name, so that an epoch past NameLimit is never the last.
\* A file that load_horizon_checkpoint refuses is passed over by whoever resumes,
\* who may name another one.
NewestByName ==
  {e \in Sound : e <= NameLimit /\ \A f \in Sound : f <= NameLimit => f <= e}

\* load_existing and load_horizon_checkpoint: the graph is the checkpoint's, the
\* rest of RunState is what the disk has.
Resume ==
  /\ pc = "down"
  /\ \E e \in NewestByName :
       /\ plan' = checkpoints[e].plan /\ status' = checkpoints[e].status
       /\ epoch' = e
  /\ pc' = "top"
  /\ UNCHANGED <<ledgerVars, codeNodes, mode, targets, before, replans, diskVars, state,
                 deferring, crashes>>

\* There is nothing to resume from.
GiveUp ==
  /\ pc = "down" /\ NewestByName = {}
  /\ pc' = "lost"
  /\ UNCHANGED <<ledgerVars, graphVars, loopVars, diskVars, state, deferring, crashes>>

-----------------------------------------------------------------------------
Next ==
  \/ FirstStage \/ ExpandStage \/ RequirementsDeadlock \/ AppendGovernance
  \/ StopExpanding \/ OpenWindow \/ RunNode \/ RunNodeAndReplan \/ CloseWindow
  \/ WindowRaises \/ WriteCheckpoint \/ RecordEpoch \/ Return
  \/ Crash \/ Resume \/ GiveUp

Spec == Init /\ [][Next]_vars

\* The loop is one coroutine that is always scheduled again, and after a crash
\* somebody resumes; nothing makes a crash happen.
Loop == Next /\ pc' # "down"

FairSpec == Spec /\ WF_vars(Loop)

-----------------------------------------------------------------------------
(* Properties                                                              *)

\* A staged run that is over has, for every requirement it does not report as
\* incomplete, nodes that produced it, all of them completed: no requirement is
\* taken for produced because nothing was ever planned for it.
NothingSkipped ==
  pc \in {"done", "returned"} =>
    \A r \in Actionable(contract) \ IncompleteIds(progress) :
      producers[r] # {} /\ producers[r] \subseteq Completed

\* What a requirement depends on, through the tree of requirements if need be,
\* is produced by nodes upstream of all of its own, however the stages between
\* them were planned and joined.
StageOrder ==
  \A r \in Requirements : producers[r] # {} =>
    \A d \in ResolvedDependencies(contract, r) :
      /\ producers[d] # {}
      /\ \A m \in producers[d] : producers[r] \subseteq DescendantsOf(plan, {m})

Ran(n) == pc = "window" /\ status[n] \in Unstarted /\ status'[n] \in {"completed", "failed"}

\* No crash makes the program run a node again that a checkpoint on disk shows
\* completed, as long as the epoch numbers sort by name.
NoRedo ==
  [][\A n \in NodeIds : Ran(n) =>
       \A e \in Sound : e <= NameLimit => checkpoints[e].status[n] # "completed"]_vars

\* What the first crash may cost: the checkpoints run ahead of run_state.json by
\* PersistEvery epochs at most, and the artifact records of all nodes completed
\* up to the epoch RunState knows are there.  (Those of the epochs between are
\* lost, and the resumed run ends as failed because of it.)
CrashLosesOneBatch ==
  crashes = 0 =>
    \A e \in Sound :
      /\ e <= disk.epoch + PersistEvery
      /\ e <= disk.epoch =>
           NodesIn(checkpoints[e].plan, checkpoints[e].status, {"completed"}) \subseteq disk.manifest

\* A stage joins the graph under the graph's identifier, so RunState is not told
\* of its nodes and gets them one by one: until a crash sets its copy back, no
\* node differs from the graph, and one it does not have has not been started.
CopyFollowsGraph ==
  crashes = 0 =>
    /\ \A n \in plan.nodes : \/ state.nodes[n] = status[n]
                             \/ state.nodes[n] = "none" /\ status[n] = "pending"
    /\ \A n \in NodeIds \ plan.nodes : state.nodes[n] = "none"

\* When the loop has returned, every deferred save has reached the disk: each
\* way out of a window closes the batch it opened.  (One that raises does not.)
ReturnedMeansSaved == pc = "returned" => ~deferring /\ disk = state

\* Every run ends: windows, stages, replans and resumptions do not go on for ever.
HorizonTermination == <>(pc \in {"returned", "aborted", "unplanned", "lost"})

=============================================================================
