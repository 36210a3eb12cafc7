------------------------- MODULE HorizonLoopProofs --------------------------
(***************************************************************************)
(* Safety of HorizonLoop for every contract, plan, window size, flush      *)
(* interval and number of crashes.                                         *)
(***************************************************************************)
EXTENDS HorizonLoop, FiniteSetTheorems, TLAPS

Done(st) == {n \in NodeIds : st[n] = "completed"}

Graphs == [NodeIds -> Statuses]

\* A node outside the plan has not been started.
OutsidePending(p, st) == \A n \in NodeIds \ p.nodes : st[n] = "pending"

IsState(s) ==
  s = [epoch |-> s.epoch, nodes |-> s.nodes, manifest |-> s.manifest,
       outcome |-> s.outcome, finished |-> s.finished]

-----------------------------------------------------------------------------
(* Operators                                                               *)

LEMMA BlockingFacts ==
  ASSUME NEW p, NEW st \in Graphs
  PROVE  LET new == AfterBlocking(p, st) IN
         /\ new \in Graphs
         /\ \A n \in NodeIds : new[n] # st[n] => n \in p.nodes /\ st[n] \in Unstarted
         /\ \A n \in NodeIds : new[n] # st[n] => new[n] = "blocked"
BY DEF AfterBlocking, BlockedByFailure, NodesIn, Graphs, Statuses

LEMMA ReplacementFacts ==
  ASSUME NEW p, NEW q, NEW st \in Graphs, CanReplace(p, st, q), OutsidePending(p, st)
  PROVE  LET new == AfterReplacement(p, st) IN
         /\ new \in Graphs
         /\ Done(new) = Done(st)
         /\ OutsidePending(q, new)
BY DEF AfterReplacement, CanReplace, NodesIn, OutsidePending, Graphs, Done, Statuses

\* Governance only adds nodes.
LEMMA GovernanceGrows ==
  ASSUME NEW p, NEW S
  PROVE  /\ p.nodes \subseteq Governed(p, S).nodes
         /\ Governed(p, S).nodes \subseteq p.nodes \cup NodeIds
BY StagesAssumption DEF Governed, WithNode, WithTerminal, GovernanceKinds

\* RunState after a change of its nodes, of its nodes and files, and so on.
WithNodes(s, x)          == [s EXCEPT !.nodes = x]
WithFiles(s, x, y)       == [s EXCEPT !.nodes = x, !.manifest = y]
WithOutcome(s, x, y, z)  == [s EXCEPT !.nodes = x, !.manifest = y, !.outcome = z]

LEMMA FieldFacts ==
  ASSUME NEW s, IsState(s), NEW x
  PROVE  /\ IsState([s EXCEPT !.nodes = x]) /\ [s EXCEPT !.nodes = x].nodes = x
         /\ IsState([s EXCEPT !.manifest = x]) /\ [s EXCEPT !.manifest = x].nodes = s.nodes
         /\ IsState([s EXCEPT !.outcome = x]) /\ [s EXCEPT !.outcome = x].nodes = s.nodes
         /\ IsState([s EXCEPT !.epoch = x]) /\ [s EXCEPT !.epoch = x].nodes = s.nodes
         /\ IsState([s EXCEPT !.finished = x]) /\ [s EXCEPT !.finished = x].nodes = s.nodes
BY DEF IsState

LEMMA StateFacts ==
  ASSUME NEW s, IsState(s), NEW x, NEW y, NEW z
  PROVE  /\ IsState(WithNodes(s, x)) /\ WithNodes(s, x).nodes = x
         /\ IsState(WithFiles(s, x, y)) /\ WithFiles(s, x, y).nodes = x
         /\ IsState(WithOutcome(s, x, y, z)) /\ WithOutcome(s, x, y, z).nodes = x
<1> DEFINE a == [s EXCEPT !.nodes = x]
           b == [a EXCEPT !.manifest = y]
           c == [b EXCEPT !.outcome = z]
<1>1. WithNodes(s, x) = a /\ WithFiles(s, x, y) = b /\ WithOutcome(s, x, y, z) = c
  BY DEF WithNodes, WithFiles, WithOutcome
<1>2. IsState(a) /\ a.nodes = x
  BY FieldFacts
<1> HIDE DEF a
<1>3. IsState(b) /\ b.nodes = a.nodes
  BY <1>2, FieldFacts
<1> HIDE DEF b
<1>4. IsState(c) /\ c.nodes = b.nodes
  BY <1>3, FieldFacts
<1> HIDE DEF c
<1>5. QED
  BY <1>1, <1>2, <1>3, <1>4

LEMMA NewStateFacts ==
  ASSUME NEW p, NEW st
  PROVE  IsState(NewState(p, st)) /\ NewState(p, st).nodes = Recorded(p, st)
BY DEF NewState, IsState

-----------------------------------------------------------------------------
(* The graph                                                               *)

GraphInv ==
  /\ status \in Graphs /\ OutsidePending(plan, status) /\ plan.nodes \subseteq NodeIds
  /\ epoch \in Nat /\ DOMAIN checkpoints \subseteq Nat
  /\ \A e \in DOMAIN checkpoints :
       /\ checkpoints[e].status \in Graphs
       /\ OutsidePending(checkpoints[e].plan, checkpoints[e].status)
       /\ checkpoints[e].plan.nodes \subseteq NodeIds

\* Steps that leave the statuses alone, and at most add nodes to the plan.
OnlyGrows ==
  UNCHANGED status /\ plan.nodes \subseteq plan'.nodes /\ plan'.nodes \subseteq plan.nodes \cup NodeIds

LEMMA AnswerFacts ==
  ASSUME NEW batch, NEW s, NEW a \in StageAnswers(batch, s)
  PROVE  /\ a.nodes \subseteq Slots(s) /\ a.nodes \subseteq NodeIds
         /\ IsFiniteSet(a.nodes) /\ ValidPlan(a)
         /\ \A r \in batch : a.made[r] \subseteq a.nodes
BY DEF StageAnswers, Slots

LEMMA PlanningGrows ==
  ASSUME FirstStage \/ ExpandStage \/ RequirementsDeadlock \/ AppendGovernance \/ StopExpanding
  PROVE  /\ OnlyGrows /\ UNCHANGED <<epoch, checkpoints, torn, crashes>>
         /\ pc \in {"plan", "top"}
<1>1. CASE FirstStage
  BY <1>1, AnswerFacts DEF FirstStage, PlanStage, MergedStage, OnlyGrows, loopVars
<1>2. CASE ExpandStage
  BY <1>2, AnswerFacts DEF ExpandStage, Expanding, PlanStage, MergedStage, OnlyGrows,
    loopVars, diskVars
<1>3. CASE AppendGovernance
  BY <1>3, GovernanceGrows DEF AppendGovernance, Expanding, OnlyGrows, loopVars, diskVars
<1>4. CASE RequirementsDeadlock \/ StopExpanding
  BY <1>4 DEF RequirementsDeadlock, StopExpanding, Expanding, OnlyGrows, graphVars, loopVars,
    diskVars
<1>5. QED
  BY <1>1, <1>2, <1>3, <1>4

\* But for a resumption, no step takes a completed node back.
LEMMA GraphEffect ==
  ASSUME GraphInv, Next, ~Resume
  PROVE  /\ status' \in Graphs /\ OutsidePending(plan', status') /\ plan'.nodes \subseteq NodeIds
         /\ Done(status) \subseteq Done(status')
<1> USE DEF GraphInv, OutsidePending, Done
<1>1. CASE FirstStage \/ ExpandStage \/ RequirementsDeadlock \/ AppendGovernance \/ StopExpanding
  BY <1>1, PlanningGrows DEF OnlyGrows
<1>2. CASE OpenWindow
  BY <1>2, BlockingFacts DEF OpenWindow, Unstarted
<1>3. CASE RunNode
  <2>1. PICK n \in ReadyTargets, result \in {"completed", "failed"} :
          status' = AfterBlocking(plan, [status EXCEPT ![n] = result])
    BY <1>3 DEF RunNode
  <2> DEFINE st == [status EXCEPT ![n] = result]
  <2>2. st \in Graphs /\ n \in plan.nodes /\ status[n] # "completed"
    BY DEF Graphs, Statuses, ReadyTargets, ReadyNodes, NodesIn, Unstarted
  <2>3. Done(status) \subseteq Done(st) /\ OutsidePending(plan, st)
    BY <2>2 DEF Graphs
  <2>4. /\ status' \in Graphs
        /\ \A m \in NodeIds : status'[m] # st[m] => m \in plan.nodes /\ st[m] # "completed"
    <3>1. status' = AfterBlocking(plan, st)
      BY <2>1
    <3> HIDE DEF st
    <3>2. QED
      BY <2>2, <3>1, BlockingFacts DEF Unstarted
  <2>5. plan' = plan
    BY <1>3 DEF RunNode
  <2>6. QED
    BY <2>3, <2>4, <2>5
<1>4. CASE RunNodeAndReplan
  BY <1>4, ReplacementFacts, HorizonAssumption DEF RunNodeAndReplan, Plans
<1>5. CASE CloseWindow \/ WindowRaises \/ WriteCheckpoint \/ RecordEpoch \/ Return \/ Crash \/ GiveUp
  BY <1>5 DEF CloseWindow, WindowRaises, WriteCheckpoint, RecordEpoch, Return, Crash, GiveUp,
    graphVars
<1>6. QED
  BY <1>1, <1>2, <1>3, <1>4, <1>5 DEF Next

\* Checkpoints are written by one action.
LEMMA CheckpointsKept ==
  ASSUME Next, ~WriteCheckpoint
  PROVE  UNCHANGED checkpoints /\ (torn' = torn \/ Crash)
BY DEF Next, FirstStage, ExpandStage, RequirementsDeadlock, AppendGovernance, StopExpanding,
  OpenWindow, RunNode, RunNodeAndReplan, CloseWindow, WindowRaises, RecordEpoch, Return, Crash,
  Resume, GiveUp, diskVars

LEMMA GraphStep ==
  ASSUME GraphInv, [Next]_vars
  PROVE  GraphInv'
<1>1. CASE UNCHANGED vars
  BY <1>1 DEF GraphInv, OutsidePending, vars, graphVars, loopVars, diskVars
<1>2. CASE Resume
  <2>1. PICK e \in NewestByName : plan' = checkpoints[e].plan /\ status' = checkpoints[e].status
                                 /\ epoch' = e
    BY <1>2 DEF Resume
  <2>2. e \in DOMAIN checkpoints
    BY DEF NewestByName, Sound
  <2>3. QED
    BY <1>2, <2>1, <2>2 DEF Resume, GraphInv, OutsidePending, diskVars
<1>3. CASE WriteCheckpoint
  <2>1. /\ DOMAIN checkpoints' = DOMAIN checkpoints \cup {epoch}
        /\ checkpoints'[epoch] = [plan |-> plan, status |-> status]
        /\ \A e \in DOMAIN checkpoints \ {epoch} : checkpoints'[e] = checkpoints[e]
        /\ UNCHANGED <<plan, status, epoch>>
    BY <1>3 DEF WriteCheckpoint, graphVars, loopVars
  <2>2. QED
    BY <2>1 DEF GraphInv, OutsidePending
<1>4. CASE Next /\ ~Resume /\ ~WriteCheckpoint
  <2>1. epoch' \in Nat
    <3>1. CASE FirstStage \/ ExpandStage \/ RequirementsDeadlock \/ AppendGovernance \/ StopExpanding
      BY <3>1, PlanningGrows DEF GraphInv
    <3>2. CASE OpenWindow \/ Crash
      BY <3>2 DEF OpenWindow, Crash, GraphInv
    <3>3. CASE RunNode \/ RunNodeAndReplan \/ CloseWindow \/ WindowRaises \/ RecordEpoch \/ Return
                \/ GiveUp
      BY <3>3 DEF RunNode, RunNodeAndReplan, CloseWindow, WindowRaises, RecordEpoch, Return, GiveUp,
        GraphInv, loopVars
    <3>4. QED
      BY <1>4, <3>1, <3>2, <3>3 DEF Next
  <2>2. QED
    BY <1>4, <2>1, GraphEffect, CheckpointsKept DEF GraphInv, OutsidePending
<1>5. QED
  BY <1>1, <1>2, <1>3, <1>4

LEMMA GraphStart == Init => GraphInv
BY HorizonAssumption DEF Init, NoPlan, GraphInv, Graphs, OutsidePending, Statuses, Plans

-----------------------------------------------------------------------------
(* Crashes                                                                 *)

\* Checkpoints a resumption can find grow with their epochs, and the graph at
\* work is never behind any of them.
RedoInv ==
  /\ \A e, f \in Sound : e <= f /\ f <= NameLimit =>
       Done(checkpoints[e].status) \subseteq Done(checkpoints[f].status)
  /\ pc \notin {"down", "lost"} =>
       \A e \in Sound : e <= NameLimit =>
         e <= epoch /\ Done(checkpoints[e].status) \subseteq Done(status)

LEMMA RedoStep ==
  ASSUME GraphInv, RedoInv, [Next]_vars
  PROVE  RedoInv'
<1>1. CASE UNCHANGED vars
  BY <1>1 DEF RedoInv, Sound, Done, vars, graphVars, loopVars, diskVars
<1>2. CASE Resume
  <2>1. PICK e \in NewestByName : status' = checkpoints[e].status /\ epoch' = e
    BY <1>2 DEF Resume
  <2>2. QED
    BY <1>2, <2>1 DEF Resume, RedoInv, NewestByName, Sound, Done, diskVars
<1>3. CASE WriteCheckpoint
  <2>1. /\ DOMAIN checkpoints' = DOMAIN checkpoints \cup {epoch}
        /\ checkpoints'[epoch].status = status
        /\ \A e \in DOMAIN checkpoints \ {epoch} : checkpoints'[e] = checkpoints[e]
        /\ torn' = torn \ {epoch}
        /\ pc = "checkpoint" /\ UNCHANGED <<status, epoch>>
    BY <1>3 DEF WriteCheckpoint, graphVars, loopVars
  <2>2. /\ Sound' \ {epoch} \subseteq Sound /\ Sound' \subseteq Nat
        /\ epoch \in Nat /\ NameLimit \in Nat
    BY <2>1, HorizonAssumption DEF Sound, GraphInv
  <2>3. \A e \in Sound' : e <= NameLimit =>
          e <= epoch /\ Done(checkpoints'[e].status) \subseteq Done(status)
    BY <2>1, <2>2 DEF RedoInv, GraphInv, Sound
  <2>4. ASSUME NEW e \in Sound', NEW f \in Sound', e <= f, f <= NameLimit
        PROVE  Done(checkpoints'[e].status) \subseteq Done(checkpoints'[f].status)
    <3>1. CASE f = epoch
      BY <2>1, <2>2, <2>3, <2>4, <3>1
    <3>2. CASE f # epoch
      <4>1. f <= epoch /\ e # epoch
        BY <2>2, <2>3, <2>4, <3>2
      <4>2. QED
        BY <2>1, <2>2, <2>4, <3>2, <4>1 DEF RedoInv, Sound
    <3>3. QED
      BY <3>1, <3>2
  <2>5. QED
    BY <2>1, <2>3, <2>4 DEF RedoInv, Done
<1>4. CASE Next /\ ~Resume /\ ~WriteCheckpoint
  <2>1. UNCHANGED checkpoints /\ Sound' \subseteq Sound /\ Done(status) \subseteq Done(status)'
    BY <1>4, CheckpointsKept, GraphEffect DEF Sound, Crash, Done
  <2>2. pc' \in {"down", "lost"} \/ (pc \notin {"down", "lost"} /\ epoch' >= epoch)
    <3>1. epoch \in Nat
      BY DEF GraphInv
    <3>2. CASE FirstStage \/ ExpandStage \/ RequirementsDeadlock \/ AppendGovernance \/ StopExpanding
      BY <3>1, <3>2, PlanningGrows
    <3>3. CASE OpenWindow \/ Crash \/ GiveUp
      BY <3>1, <3>3 DEF OpenWindow, Crash, GiveUp
    <3>4. CASE RunNode \/ RunNodeAndReplan \/ CloseWindow \/ WindowRaises \/ RecordEpoch \/ Return
      <4>1. epoch' = epoch /\ pc \notin {"down", "lost"}
        BY <3>4 DEF RunNode, RunNodeAndReplan, CloseWindow, WindowRaises, RecordEpoch, Return, loopVars
      <4>2. QED
        BY <3>1, <4>1
    <3>5. QED
      BY <1>4, <3>2, <3>3, <3>4 DEF Next
  <2>3. ASSUME NEW e \in Sound', pc' \notin {"down", "lost"}, e <= NameLimit
        PROVE  e <= epoch' /\ Done(checkpoints'[e].status) \subseteq Done(status')
    <3>1. e <= epoch /\ Done(checkpoints[e].status) \subseteq Done(status)
      BY <2>1, <2>2, <2>3 DEF RedoInv
    <3>2. {e, epoch, epoch'} \subseteq Nat
      BY <2>1, GraphStep DEF GraphInv, Sound
    <3>3. QED
      BY <2>1, <2>2, <2>3, <3>1, <3>2 DEF Done
  <2>4. QED
    BY <2>1, <2>3 DEF RedoInv, Done
<1>5. QED
  BY <1>1, <1>2, <1>3, <1>4

LEMMA RedoStart == Init => RedoInv
BY DEF Init, RedoInv, Sound

\* A node that a sound checkpoint shows completed is never run again, whatever
\* the number of crashes and wherever they strike, up to the last epoch whose
\* file name sorts after those before it.
THEOREM NothingIsRedone == Spec => NoRedo
<1>1. Init => GraphInv /\ RedoInv
  BY GraphStart, RedoStart
<1>2. GraphInv /\ RedoInv /\ [Next]_vars => GraphInv' /\ RedoInv'
  BY GraphStep, RedoStep
<1>3. RedoInv => \A n \in NodeIds : Ran(n) =>
                   \A e \in Sound : e <= NameLimit => checkpoints[e].status[n] # "completed"
  BY DEF RedoInv, Ran, Done, Unstarted
<1>4. QED
  BY <1>1, <1>2, <1>3, PTL DEF Spec, NoRedo

-----------------------------------------------------------------------------
(* Deferred saves                                                          *)

\* A batch is open inside a window and after an exception in one.
SaveInv ==
  /\ deferring => pc \in {"window", "checkpoint", "record", "raised", "aborted"}
  /\ ReturnedMeansSaved

LEMMA SaveStep ==
  ASSUME SaveInv, [Next]_vars
  PROVE  SaveInv'
<1> USE DEF SaveInv, ReturnedMeansSaved
<1>1. CASE UNCHANGED vars
  BY <1>1 DEF vars, diskVars
<1>2. CASE FirstStage \/ ExpandStage \/ RequirementsDeadlock \/ AppendGovernance \/ StopExpanding
  <2>1. /\ UNCHANGED deferring /\ pc \in {"plan", "top"}
        /\ pc' \in {"top", "open", "done", "unplanned", "raised"}
    BY <1>2 DEF FirstStage, ExpandStage, RequirementsDeadlock, AppendGovernance, StopExpanding,
      Expanding
  <2>2. QED
    BY <2>1
<1>3. CASE OpenWindow \/ RecordEpoch \/ Crash
  <2>1. pc' # "returned" /\ (deferring' => pc' = "window")
    BY <1>3 DEF OpenWindow, RecordEpoch, CloseBatch, Crash
  <2>2. QED
    BY <2>1
<1>4. CASE RunNode \/ RunNodeAndReplan \/ CloseWindow \/ WindowRaises \/ WriteCheckpoint
  <2>1. UNCHANGED deferring /\ pc' \in {"window", "checkpoint", "record", "raised"}
    BY <1>4 DEF RunNode, RunNodeAndReplan, CloseWindow, WindowRaises, WriteCheckpoint, loopVars
  <2>2. QED
    BY <2>1
<1>5. CASE Return
  BY <1>5 DEF Return, Save
<1>6. CASE Resume \/ GiveUp
  BY <1>6 DEF Resume, GiveUp
<1>7. QED
  BY <1>1, <1>2, <1>3, <1>4, <1>5, <1>6 DEF Next

\* A loop that returns has written all it knows: each way out of a window but an
\* exception closes the batch.
THEOREM NothingStaysDeferred == Spec => []ReturnedMeansSaved
<1>1. Init => SaveInv
  BY DEF Init, SaveInv, ReturnedMeansSaved
<1>2. SaveInv /\ [Next]_vars => SaveInv'
  BY SaveStep
<1>3. SaveInv => ReturnedMeansSaved
  BY DEF SaveInv
<1>4. QED
  BY <1>1, <1>2, <1>3, PTL DEF Spec

-----------------------------------------------------------------------------
(* RunState's copy of the graph                                            *)

CopyInv ==
  /\ crashes \in Nat /\ (pc = "down" => crashes # 0)
  /\ crashes = 0 => IsState(state)
  /\ CopyFollowsGraph

LEMMA CopyStep ==
  ASSUME GraphInv, CopyInv, [Next]_vars
  PROVE  CopyInv'
<1> USE DEF CopyInv
<1>1. GraphInv'
  BY GraphStep
<1>2. CASE UNCHANGED <<plan, status, crashes, pc, state>>
  BY <1>2 DEF CopyFollowsGraph
<1>3. CASE FirstStage
  <2>1. /\ UNCHANGED crashes /\ pc' \in {"top", "unplanned"}
        /\ \/ state' = NewState(plan', status')
           \/ UNCHANGED <<plan, status, state>>
    BY <1>3 DEF FirstStage, Save
  <2>2. CASE state' = NewState(plan', status')
    <3>1. IsState(state') /\ state'.nodes = Recorded(plan', status')
      BY <2>2, NewStateFacts
    <3>2. QED
      BY <1>1, <2>1, <3>1 DEF GraphInv, CopyFollowsGraph, Recorded
  <2>3. CASE UNCHANGED <<plan, status, state>>
    BY <2>1, <2>3 DEF CopyFollowsGraph
  <2>4. QED
    BY <2>1, <2>2, <2>3
<1>4. CASE ExpandStage \/ RequirementsDeadlock \/ AppendGovernance \/ StopExpanding
  <2>1. /\ UNCHANGED <<crashes, state, status>> /\ pc' \in {"open", "done", "raised"}
        /\ plan.nodes \subseteq plan'.nodes
    BY <1>4, PlanningGrows
      DEF OnlyGrows, ExpandStage, RequirementsDeadlock, AppendGovernance, StopExpanding
  <2>2. QED
    BY <1>1, <2>1 DEF GraphInv, OutsidePending, CopyFollowsGraph
<1>5. CASE OpenWindow
  <2>1. /\ UNCHANGED <<plan, crashes>> /\ pc' = "window"
        /\ status' = AfterBlocking(plan, status)
        /\ state' = WithNodes(state, Followed(state.nodes, status, status'))
    BY <1>5 DEF OpenWindow, WithNodes
  <2>2. \A n \in NodeIds : status'[n] # status[n] => n \in plan.nodes
    BY <2>1, BlockingFacts DEF GraphInv
  <2>3. crashes = 0 => IsState(state') /\ state'.nodes = Followed(state.nodes, status, status')
    BY <2>1, StateFacts
  <2>4. QED
    BY <1>1, <2>1, <2>2, <2>3 DEF CopyFollowsGraph, Followed, GraphInv
<1>6. CASE RunNode
  <2>1. PICK n \in ReadyTargets, result \in {"completed", "failed"} :
          /\ status' = AfterBlocking(plan, [status EXCEPT ![n] = result])
          /\ state' = WithFiles(state, Followed(state.nodes, status, status'),
                        IF result = "completed" THEN state.manifest \cup {n} ELSE state.manifest)
    BY <1>6 DEF RunNode, Save, WithFiles
  <2> DEFINE st == [status EXCEPT ![n] = result]
  <2>2. st \in Graphs /\ n \in plan.nodes
    BY DEF GraphInv, Graphs, Statuses, ReadyTargets, ReadyNodes, NodesIn
  <2>3. \A m \in NodeIds : st[m] # status[m] => m \in plan.nodes
    BY <2>2 DEF GraphInv, Graphs
  <2>4. \A m \in NodeIds : status'[m] # status[m] => m \in plan.nodes
    <3>1. status' = AfterBlocking(plan, st)
      BY <2>1
    <3> HIDE DEF st
    <3>2. QED
      BY <2>2, <2>3, <3>1, BlockingFacts
  <2>5. crashes = 0 => IsState(state') /\ state'.nodes = Followed(state.nodes, status, status')
    BY <2>1, StateFacts
  <2>6. UNCHANGED <<plan, crashes, pc>>
    BY <1>6 DEF RunNode
  <2>7. QED
    BY <1>1, <2>4, <2>5, <2>6 DEF CopyFollowsGraph, Followed, GraphInv
<1>7. CASE RunNodeAndReplan
  <2>1. /\ UNCHANGED <<crashes, pc>>
        /\ state' = WithOutcome(state, Recorded(plan', status'), state.manifest \cap plan'.nodes,
                                "running")
    BY <1>7 DEF RunNodeAndReplan, Save, WithOutcome
  <2>2. crashes = 0 => IsState(state') /\ state'.nodes = Recorded(plan', status')
    BY <2>1, StateFacts
  <2>3. QED
    BY <1>1, <2>1, <2>2 DEF GraphInv, CopyFollowsGraph, Recorded
<1>8. CASE CloseWindow \/ RecordEpoch \/ Return
  <2>1. UNCHANGED <<plan, status, crashes>> /\ pc' # "down"
    BY <1>8 DEF CloseWindow, RecordEpoch, Return, graphVars
  <2>2. crashes = 0 => IsState(state') /\ state'.nodes = state.nodes
    <3>1. CASE state' = state
      BY <3>1
    <3>2. CASE state' = [state EXCEPT !.outcome = Outcome(status, state)]
      BY <3>2, FieldFacts
    <3>3. CASE state' = [state EXCEPT !.epoch = epoch]
      BY <3>3, FieldFacts
    <3>4. CASE state' = [state EXCEPT !.finished = TRUE]
      BY <3>4, FieldFacts
    <3>5. QED
      BY <1>8, <3>1, <3>2, <3>3, <3>4 DEF CloseWindow, RecordEpoch, Return, Save
  <2>3. QED
    BY <2>1, <2>2 DEF CopyFollowsGraph
<1>9. CASE WindowRaises \/ WriteCheckpoint
  BY <1>9 DEF WindowRaises, WriteCheckpoint, graphVars, CopyFollowsGraph
<1>10. CASE Crash \/ Resume \/ GiveUp
  <2>1. crashes' \in Nat /\ crashes' # 0
    BY <1>10 DEF Crash, Resume, GiveUp
  <2>2. QED
    BY <2>1 DEF CopyFollowsGraph
<1>11. QED
  BY <1>2, <1>3, <1>4, <1>5, <1>6, <1>7, <1>8, <1>9, <1>10 DEF Next, vars, graphVars

LEMMA CopyStart == Init => CopyInv
<1> SUFFICES ASSUME Init PROVE CopyInv
  OBVIOUS
<1>1. GraphInv
  BY GraphStart
<1>2. IsState(state) /\ state.nodes = Recorded(plan, status)
  BY NewStateFacts DEF Init
<1>3. crashes = 0 /\ pc # "down" /\ \A n \in NodeIds : status[n] = "pending"
  BY DEF Init
<1>4. QED
  BY <1>1, <1>2, <1>3 DEF CopyInv, CopyFollowsGraph, Recorded, GraphInv

\* RunState's copy of the node states never lags behind the graph, although a
\* stage joins the graph without telling it.
THEOREM CopyIsCurrent == Spec => []CopyFollowsGraph
<1>1. Init => GraphInv /\ CopyInv
  BY GraphStart, CopyStart
<1>2. GraphInv /\ CopyInv /\ [Next]_vars => GraphInv' /\ CopyInv'
  BY GraphStep, CopyStep
<1>3. CopyInv => CopyFollowsGraph
  BY DEF CopyInv
<1>4. QED
  BY <1>1, <1>2, <1>3, PTL DEF Spec

-----------------------------------------------------------------------------
(* The requirement ledger                                                  *)

Marks == {"none", "pending", "planned", "produced", "failed", "blocked"}

\* What is produced has its nodes, and they are completed.
Backed(marks, made, p, st) ==
  \A r \in Requirements : marks[r] = "produced" =>
    made[r] # {} /\ \A n \in made[r] : n \in p.nodes /\ st[n] = "completed"

\* A ledger of requirements c follows, their producers in the graph.
LedgerOf(c, marks, made, p) ==
  /\ marks \in [Requirements -> Marks]
  /\ \A r \in Actionable(c) \cap Requirements : marks[r] # "none"
  /\ \A r \in Requirements : made[r] \subseteq p.nodes

LedgerInv ==
  /\ pc \in {"plan", "down"} => (mode.staged <=> pc = "plan")
  /\ mode.staged => contract \in Contracts
  /\ ~mode.staged =>
       contract = NoContract /\ \A r \in Requirements : progress[r] = "none" /\ producers[r] = {}
  /\ LedgerOf(contract, progress, producers, plan)
  /\ Backed(progress, producers, plan, status)

LEMMA RefreshFacts ==
  ASSUME NEW c, NEW marks, NEW made, NEW p, NEW st,
         LedgerOf(c, marks, made, p), Backed(marks, made, p, st)
  PROVE  /\ LedgerOf(c, Refreshed(marks, made, p, st), made, p)
         /\ Backed(Refreshed(marks, made, p, st), made, p, st)
<1> DEFINE new == Refreshed(marks, made, p, st)
<1>1. ASSUME NEW r \in Requirements
      PROVE  /\ new[r] \in {"failed", "blocked", "produced", marks[r]}
             /\ new[r] = "produced" =>
                  made[r] # {} /\ \A n \in made[r] : n \in p.nodes /\ st[n] = "completed"
  BY <1>1 DEF Refreshed, LedgerOf, Backed
<1>2. new = [r \in Requirements |-> new[r]]
  BY DEF Refreshed
<1> HIDE DEF new
<1>3. LedgerOf(c, new, made, p) /\ Backed(new, made, p, st)
  <2>1. \A r \in Requirements : marks[r] \in Marks /\ new[r] \in Marks
    BY <1>1 DEF LedgerOf, Marks
  <2>2. new \in [Requirements -> Marks]
    BY <1>2, <2>1
  <2>3. \A r \in Actionable(c) \cap Requirements : new[r] # "none"
    BY <1>1 DEF LedgerOf
  <2>4. QED
    BY <1>1, <2>2, <2>3 DEF LedgerOf, Backed
<1>4. QED
  BY <1>3 DEF new

LEMMA MarkFacts ==
  ASSUME NEW c, NEW marks, NEW made, NEW p, NEW st, NEW S,
         LedgerOf(c, marks, made, p), Backed(marks, made, p, st)
  PROVE  /\ LedgerOf(c, MarkBlocked(marks, S), made, p)
         /\ Backed(MarkBlocked(marks, S), made, p, st)
         /\ LedgerOf(c, MarkPlanned(marks, S), made, p)
         /\ \A r \in S \cap Requirements : MarkPlanned(marks, S)[r] = "planned"
         /\ \A r \in Requirements \ S : MarkPlanned(marks, S)[r] = marks[r]
BY DEF LedgerOf, Backed, Marks, MarkBlocked, MarkPlanned

\* Planning a stage: what it plans is not produced yet.
LEMMA PlanStageFacts ==
  ASSUME NEW marks, NEW S, NEW s, NEW a \in StageAnswers(S, s), PlanStage(marks, S, a),
         LedgerOf(contract, marks, producers, plan), Backed(marks, producers, plan, status)
  PROVE  /\ LedgerOf(contract, progress', producers', plan')
         /\ Backed(progress', producers', plan', status)
<1>1. /\ progress' = MarkPlanned(marks, S)
      /\ producers' = [r \in Requirements |-> IF r \in S THEN a.made[r] ELSE producers[r]]
      /\ plan'.nodes = plan.nodes \cup a.nodes
  BY DEF PlanStage, MergedStage
<1>2. \A r \in S : a.made[r] \subseteq a.nodes
  BY AnswerFacts
<1>3. LedgerOf(contract, progress', producers, plan)
  BY <1>1, MarkFacts
<1>4. \A r \in Requirements : producers'[r] \subseteq plan'.nodes
  BY <1>1, <1>2 DEF LedgerOf
<1>5. \A r \in Requirements : progress'[r] = "produced" =>
        r \notin S /\ marks[r] = "produced" /\ producers'[r] = producers[r]
  BY <1>1, MarkFacts
<1>6. QED
  BY <1>1, <1>3, <1>4, <1>5 DEF LedgerOf, Backed

LEMMA LedgerStep ==
  ASSUME GraphInv, LedgerInv, [Next]_vars
  PROVE  LedgerInv'
<1> USE DEF LedgerInv
<1>1. CASE UNCHANGED vars
  BY <1>1 DEF LedgerOf, Backed, vars, ledgerVars, graphVars, loopVars
<1>2. CASE FirstStage
  <2>1. mode.staged /\ UNCHANGED <<mode, contract, status>> /\ pc' \in {"top", "unplanned"}
    BY <1>2 DEF FirstStage, loopVars
  <2>2. CASE UNCHANGED <<plan, progress, producers>>
    BY <2>1, <2>2 DEF LedgerOf, Backed
  <2>3. CASE \E a \in StageAnswers(SelectBatch(contract, progress), 1) :
               PlanStage(progress, SelectBatch(contract, progress), a)
    BY <2>1, <2>3, PlanStageFacts
  <2>4. QED
    BY <1>2, <2>2, <2>3 DEF FirstStage
<1>3. CASE ExpandStage \/ RequirementsDeadlock \/ AppendGovernance \/ StopExpanding
  <2>1. /\ UNCHANGED <<mode, contract, status>> /\ pc = "top" /\ pc' \in {"open", "done", "raised"}
        /\ ~mode.staged => UNCHANGED <<plan, progress, producers>>
    BY <1>3 DEF ExpandStage, RequirementsDeadlock, AppendGovernance, StopExpanding, Expanding,
      loopVars, graphVars
  <2>2. LedgerOf(contract, Refresh, producers, plan) /\ Backed(Refresh, producers, plan, status)
    BY RefreshFacts DEF Refresh
  <2>3. CASE ~mode.staged
    BY <2>1, <2>3 DEF LedgerOf, Backed
  <2>4. CASE mode.staged
    <3>1. CASE ExpandStage
      <4>1. CASE \E a \in StageAnswers(SelectBatch(contract, Refresh), stage + 1) :
                   PlanStage(Refresh, SelectBatch(contract, Refresh), a)
        BY <2>1, <2>2, <2>4, <4>1, PlanStageFacts
      <4>2. CASE /\ progress' = MarkBlocked(Refresh, SelectBatch(contract, Refresh))
                 /\ UNCHANGED <<plan, producers>>
        <5>1. /\ LedgerOf(contract, progress', producers, plan)
              /\ Backed(progress', producers, plan, status)
          BY <2>2, <4>2, MarkFacts
        <5>2. QED
          BY <2>1, <2>4, <4>2, <5>1
      <4>3. QED
        BY <3>1, <4>1, <4>2 DEF ExpandStage
    <3>2. CASE RequirementsDeadlock
      <4>1. progress' = MarkBlocked(Refresh, PendingIds(Refresh)) /\ UNCHANGED <<plan, producers>>
        BY <3>2 DEF RequirementsDeadlock, graphVars
      <4>2. QED
        <5>1. /\ LedgerOf(contract, progress', producers, plan)
              /\ Backed(progress', producers, plan, status)
          BY <2>2, <4>1, MarkFacts
        <5>2. QED
          BY <2>1, <2>4, <4>1, <5>1
    <3>3. CASE AppendGovernance \/ StopExpanding
      <4>1. progress' = Refresh /\ UNCHANGED producers /\ plan.nodes \subseteq plan'.nodes
        BY <2>4, <3>3, PlanningGrows DEF OnlyGrows, AppendGovernance, StopExpanding
      <4>2. QED
        BY <2>1, <2>2, <2>4, <4>1 DEF LedgerOf, Backed
    <3>4. QED
      BY <1>3, <3>1, <3>2, <3>3
  <2>5. QED
    BY <2>3, <2>4
<1>4. CASE RunNodeAndReplan \/ Crash \/ Resume \/ GiveUp
  <2>1. UNCHANGED <<mode, contract, progress, producers>> /\ ~mode.staged /\ pc' # "plan"
    BY <1>4 DEF RunNodeAndReplan, Crash, Resume, GiveUp, ledgerVars, loopVars
  <2>2. Actionable(contract) = {}
    BY <2>1 DEF Actionable, NoContract
  <2>3. LedgerOf(contract, progress, producers, plan') /\ Backed(progress, producers, plan', status')
    BY <2>1, <2>2 DEF LedgerOf, Backed
  <2>4. QED
    BY <2>1, <2>3
<1>5. CASE OpenWindow \/ RunNode \/ CloseWindow \/ WindowRaises \/ WriteCheckpoint \/ RecordEpoch
            \/ Return
  <2>1. /\ UNCHANGED <<mode, contract, progress, producers, plan>> /\ pc' \notin {"plan", "down"}
    BY <1>5 DEF OpenWindow, RunNode, CloseWindow, WindowRaises, WriteCheckpoint, RecordEpoch, Return,
      ledgerVars, graphVars, loopVars
  <2>2. Done(status) \subseteq Done(status')
    BY <1>5, GraphEffect DEF Next, Resume, OpenWindow, RunNode, CloseWindow, WindowRaises,
      WriteCheckpoint, RecordEpoch, Return
  <2>3. QED
    BY <2>1, <2>2 DEF LedgerOf, Backed, Done, GraphInv
<1>6. QED
  BY <1>1, <1>2, <1>3, <1>4, <1>5 DEF Next

LEMMA LedgerStart == Init => LedgerInv
BY DEF Init, LedgerInv, LedgerOf, Backed, Marks, Actionable, NoContract

\* No requirement of a staged run is taken for produced without nodes that
\* produced it: whatever is not reported as incomplete has been planned and its
\* nodes are completed, for every contract and every answer of the planner.
THEOREM NoRequirementSkipped == Spec => []NothingSkipped
<1>1. Init => GraphInv /\ LedgerInv
  BY GraphStart, LedgerStart
<1>2. GraphInv /\ LedgerInv /\ [Next]_vars => GraphInv' /\ LedgerInv'
  BY GraphStep, LedgerStep
<1>3. LedgerInv => NothingSkipped
  <2> SUFFICES ASSUME LedgerInv, NEW r \in Actionable(contract) \ IncompleteIds(progress)
               PROVE  producers[r] # {} /\ producers[r] \subseteq Completed
    BY DEF NothingSkipped
  <2>1. r \in Requirements
    BY HorizonAssumption DEF LedgerInv, Actionable, NoContract, ValidContract
  <2>2. progress[r] = "produced"
    BY <2>1 DEF LedgerInv, LedgerOf, Marks, IncompleteIds
  <2>3. QED
    BY <2>1, <2>2 DEF LedgerInv, Backed, Completed, NodesIn
<1>4. QED
  BY <1>1, <1>2, <1>3, PTL DEF Spec

-----------------------------------------------------------------------------
(* What a crash costs                                                      *)

LEMMA EpochAndFiles ==
  ASSUME NEW s, IsState(s), NEW x
  PROVE  /\ [s EXCEPT !.nodes = x].epoch = s.epoch /\ [s EXCEPT !.nodes = x].manifest = s.manifest
         /\ [s EXCEPT !.manifest = x].epoch = s.epoch /\ [s EXCEPT !.manifest = x].manifest = x
         /\ [s EXCEPT !.outcome = x].epoch = s.epoch
         /\ [s EXCEPT !.outcome = x].manifest = s.manifest
         /\ [s EXCEPT !.epoch = x].epoch = x /\ [s EXCEPT !.epoch = x].manifest = s.manifest
         /\ [s EXCEPT !.finished = x].epoch = s.epoch
         /\ [s EXCEPT !.finished = x].manifest = s.manifest
BY DEF IsState

LEMMA EpochAndFilesAfter ==
  ASSUME NEW s, IsState(s), NEW x, NEW y, NEW z
  PROVE  /\ WithNodes(s, x).epoch = s.epoch /\ WithNodes(s, x).manifest = s.manifest
         /\ WithFiles(s, x, y).epoch = s.epoch /\ WithFiles(s, x, y).manifest = y
         /\ WithOutcome(s, x, y, z).epoch = s.epoch /\ WithOutcome(s, x, y, z).manifest = y
<1> DEFINE a == [s EXCEPT !.nodes = x]
           b == [a EXCEPT !.manifest = y]
           c == [b EXCEPT !.outcome = z]
<1>1. WithNodes(s, x) = a /\ WithFiles(s, x, y) = b /\ WithOutcome(s, x, y, z) = c
  BY DEF WithNodes, WithFiles, WithOutcome
<1>2. IsState(a) /\ a.epoch = s.epoch /\ a.manifest = s.manifest
  BY FieldFacts, EpochAndFiles
<1> HIDE DEF a
<1>3. IsState(b)
  BY <1>2, FieldFacts
<1>4. b.epoch = a.epoch /\ b.manifest = y
  BY <1>2, EpochAndFiles
<1> HIDE DEF b
<1>5. c.epoch = b.epoch /\ c.manifest = b.manifest
  BY <1>3, EpochAndFiles
<1> HIDE DEF c
<1>6. QED
  BY <1>1, <1>2, <1>3, <1>4, <1>5

\* No flush was due since the one on disk, which therefore is not far behind.
LEMMA FlushIsNear ==
  ASSUME NEW flushed \in Nat, NEW now \in Nat, flushed <= now,
         \A e \in (flushed + 1)..now : e % PersistEvery # 0
  PROVE  now + 1 <= flushed + PersistEvery
<1> DEFINE q == now \div PersistEvery
           due == q * PersistEvery
<1>1. PersistEvery \in Nat \ {0}
  BY HorizonAssumption
<1>2. q \in Nat /\ now = PersistEvery * q + (now % PersistEvery) /\ now % PersistEvery \in 0..(PersistEvery - 1)
  BY <1>1
<1> HIDE DEF q
<1>3. due \in Nat /\ due % PersistEvery = 0 /\ due = PersistEvery * q
  BY <1>1, <1>2
<1> HIDE DEF due
<1>4. due <= now /\ now < due + PersistEvery
  BY <1>1, <1>2, <1>3
<1>5. due <= flushed
  BY <1>3, <1>4
<1>6. QED
  BY <1>1, <1>3, <1>4, <1>5

InWindow == {"window", "checkpoint", "record"}

\* Before the first crash: RunState knows the artifacts of all that is completed
\* and all epochs but the one at work; the disk has missed no flush that was due,
\* and what it knows of an epoch covers the checkpoint of that epoch.
BatchInv ==
  crashes = 0 =>
    /\ pc \notin {"down", "lost"}
    /\ pc = "plan" => epoch = 0 /\ DOMAIN checkpoints = {} /\ Done(status) = {}
    /\ state.epoch \in Nat /\ disk.epoch \in Nat /\ disk.epoch <= state.epoch
    /\ pc \in {"plan", "top", "open"} => state.epoch = epoch
    /\ pc \in InWindow => state.epoch + 1 = epoch
    /\ \A e \in (disk.epoch + 1)..state.epoch : e % PersistEvery # 0
    /\ Done(status) \subseteq state.manifest
    /\ \A e \in Sound :
         /\ e <= IF pc = "record" THEN epoch ELSE state.epoch
         /\ Done(checkpoints[e].status) \subseteq Done(status)
         /\ e <= disk.epoch => Done(checkpoints[e].status) \subseteq disk.manifest

\* RunState written to the disk, or not: either way nothing is lost that was there.
Written ==
  \/ disk' = state'
  \/ /\ disk' = disk
     /\ \A e \in (state.epoch + 1)..(state'.epoch) : e % PersistEvery # 0

\* A step that writes no checkpoint and lets RunState keep up with the graph.
LEMMA BatchKept ==
  ASSUME GraphInv, BatchInv, Next, ~Resume, UNCHANGED <<checkpoints, torn>>,
         crashes' = 0 => crashes = 0, Written,
         crashes' = 0 =>
           /\ pc' \notin {"plan", "down", "lost"}
           /\ state'.epoch \in Nat /\ state.epoch <= state'.epoch
           /\ pc' \in {"plan", "top", "open"} => state'.epoch = epoch'
           /\ pc' \in InWindow => state'.epoch + 1 = epoch'
           /\ Done(status') \subseteq state'.manifest
           /\ \A e \in Sound : e <= (IF pc = "record" THEN epoch ELSE state.epoch)
                => e <= (IF pc' = "record" THEN epoch' ELSE state'.epoch)
  PROVE  BatchInv'
<1> SUFFICES ASSUME crashes' = 0 PROVE BatchInv'
  BY DEF BatchInv
<1> USE DEF BatchInv
<1>1. Sound' = Sound
  BY DEF Sound
<1>2. Done(status) \subseteq Done(status')
  BY GraphEffect
<1>3. \A e \in Sound : /\ Done(checkpoints[e].status) \subseteq Done(status')
                       /\ Done(checkpoints[e].status) \subseteq state'.manifest
  BY <1>2
<1>4. CASE disk' = state'
  BY <1>1, <1>3, <1>4 DEF Done
<1>5. CASE /\ disk' = disk
           /\ \A e \in (state.epoch + 1)..(state'.epoch) : e % PersistEvery # 0
  <2>1. \A e \in (disk'.epoch + 1)..(state'.epoch) :
          e \in (disk.epoch + 1)..(state.epoch) \/ e \in (state.epoch + 1)..(state'.epoch)
    BY <1>5
  <2>2. QED
    BY <1>1, <1>3, <1>5, <2>1 DEF Done
<1>6. QED
  BY <1>4, <1>5 DEF Written


LEMMA BatchStep ==
  ASSUME GraphInv, CopyInv, BatchInv, [Next]_vars
  PROVE  BatchInv'
<1> SUFFICES ASSUME crashes' = 0 PROVE BatchInv'
  BY DEF BatchInv
<1>1. CASE UNCHANGED vars
  BY <1>1 DEF BatchInv, Sound, Done, vars, graphVars, loopVars, diskVars
<1>2. CASE FirstStage
  <2>1. /\ UNCHANGED <<checkpoints, torn, crashes, epoch, status, deferring>>
        /\ pc = "plan" /\ ~Resume /\ Next
    BY <1>2 DEF FirstStage, loopVars, Resume, Next
  <2>2. CASE pc' = "unplanned" /\ UNCHANGED <<state, disk>>
    BY <2>1, <2>2, BatchKept DEF BatchInv, Written, InWindow
  <2>3. CASE pc' = "top" /\ Save(NewState(plan', status))
    <3>1. state'.epoch = 0 /\ state'.manifest = {}
      BY <2>3 DEF Save, NewState
    <3>2. state.epoch = 0 /\ epoch = 0 /\ Done(status) = {} /\ Sound = {}
      BY <2>1 DEF BatchInv, Sound
    <3>3. disk' = state' \/ disk' = disk
      BY <2>3 DEF Save
    <3>4. QED
      BY <2>1, <2>3, <3>1, <3>2, <3>3, BatchKept DEF Written, InWindow, Done
  <2>4. QED
    BY <1>2, <2>2, <2>3 DEF FirstStage
<1>3. CASE ExpandStage \/ RequirementsDeadlock \/ AppendGovernance \/ StopExpanding
  <2>1. /\ UNCHANGED <<checkpoints, torn, crashes, epoch, status, state, disk>>
        /\ pc = "top" /\ pc' \in {"open", "done", "raised"} /\ ~Resume /\ Next
    BY <1>3 DEF ExpandStage, RequirementsDeadlock, AppendGovernance, StopExpanding, Expanding,
      graphVars, loopVars, diskVars, Resume, Next
  <2>2. QED
    BY <2>1, BatchKept DEF BatchInv, Written, InWindow, Done
<1>4. CASE OpenWindow
  <2>1. /\ UNCHANGED <<checkpoints, torn, crashes, plan>> /\ epoch' = epoch + 1
        /\ pc \in {"top", "open"} /\ pc' = "window" /\ ~Resume /\ Next
        /\ status' = AfterBlocking(plan, status)
        /\ state' = WithNodes(state, Followed(state.nodes, status, status'))
        /\ disk' = state' \/ disk' = disk
    BY <1>4 DEF OpenWindow, WithNodes, Resume, Next
  <2>2. crashes = 0 => state'.epoch = state.epoch /\ state'.manifest = state.manifest
    BY <2>1, EpochAndFilesAfter DEF CopyInv
  <2>3. Done(status') = Done(status)
    BY <2>1, BlockingFacts DEF GraphInv, Done, Unstarted
  <2>4. QED
    BY <2>1, <2>2, <2>3, BatchKept DEF BatchInv, Written, InWindow
<1>5. CASE RunNode
  <2>1. PICK n \in ReadyTargets, result \in {"completed", "failed"} :
          /\ status' = AfterBlocking(plan, [status EXCEPT ![n] = result])
          /\ state' = WithFiles(state, Followed(state.nodes, status, status'),
                        IF result = "completed" THEN state.manifest \cup {n} ELSE state.manifest)
    BY <1>5 DEF RunNode, Save, WithFiles
  <2> DEFINE st == [status EXCEPT ![n] = result]
  <2>2. /\ UNCHANGED <<checkpoints, torn, crashes, plan, epoch, pc>>
        /\ pc = "window" /\ ~Resume /\ Next /\ (disk' = state' \/ disk' = disk)
    BY <1>5 DEF RunNode, Save, loopVars, Resume, Next
  <2>3. crashes = 0 =>
          /\ state'.epoch = state.epoch
          /\ state'.manifest = IF result = "completed" THEN state.manifest \cup {n}
                               ELSE state.manifest
    BY <2>1, EpochAndFilesAfter DEF CopyInv
  <2>4. st \in Graphs /\ Done(st) \subseteq Done(status) \cup (IF result = "completed" THEN {n} ELSE {})
    BY DEF GraphInv, Graphs, Statuses, Done
  <2>5. Done(status') \subseteq Done(st)
    <3>1. status' = AfterBlocking(plan, st)
      BY <2>1
    <3> HIDE DEF st
    <3>2. QED
      BY <2>4, <3>1, BlockingFacts DEF Done
  <2>6. crashes = 0 => Done(status') \subseteq state'.manifest
    BY <2>3, <2>4, <2>5 DEF BatchInv
  <2>7. QED
    BY <2>2, <2>3, <2>6, BatchKept DEF BatchInv, Written, InWindow
<1>6. CASE RunNodeAndReplan
  <2>1. /\ UNCHANGED <<checkpoints, torn, crashes, epoch, pc>>
        /\ pc = "window" /\ ~Resume /\ Next /\ (disk' = state' \/ disk' = disk)
        /\ CanReplace(plan, status, plan') /\ status' = AfterReplacement(plan, status)
        /\ state' = WithOutcome(state, Recorded(plan', status'), state.manifest \cap plan'.nodes,
                                "running")
    BY <1>6 DEF RunNodeAndReplan, Save, WithOutcome, Resume, Next
  <2>2. crashes = 0 => state'.epoch = state.epoch /\ state'.manifest = state.manifest \cap plan'.nodes
    BY <2>1, EpochAndFilesAfter DEF CopyInv
  <2>3. Done(status') = Done(status) /\ OutsidePending(plan', status')
    BY <2>1, ReplacementFacts DEF GraphInv
  <2>4. Done(status') \subseteq plan'.nodes
    BY <2>3 DEF OutsidePending, Done
  <2>5. crashes = 0 => Done(status') \subseteq state'.manifest
    BY <2>2, <2>3, <2>4 DEF BatchInv
  <2>6. crashes = 0 => state'.epoch \in Nat /\ state'.epoch = state.epoch /\ state'.epoch + 1 = epoch'
    BY <2>1, <2>2 DEF BatchInv, InWindow
  <2>7. /\ UNCHANGED <<epoch, pc, checkpoints, torn, crashes>> /\ pc = "window"
        /\ ~Resume /\ Next /\ (disk' = state' \/ disk' = disk)
    BY <2>1
  <2>8. \A e \in (state.epoch + 1)..(state'.epoch) : e % PersistEvery # 0
    BY <2>6, <2>7
  <2>9. Written
    BY <2>7, <2>8 DEF Written
  <2>10. QED
    BY <2>5, <2>6, <2>7, <2>9, BatchKept DEF InWindow
<1>7. CASE CloseWindow \/ Return \/ WindowRaises
  <2>1. /\ UNCHANGED <<checkpoints, torn, crashes, status, epoch>>
        /\ pc \in {"window", "done", "raised"}
        /\ pc' \in {"checkpoint", "returned", "aborted", "raised"}
        /\ pc' = "checkpoint" => pc = "window"
        /\ ~Resume /\ Next /\ (disk' = state' \/ disk' = disk)
    BY <1>7 DEF CloseWindow, Return, WindowRaises, Save, graphVars, loopVars, diskVars, Resume, Next
  <2>2. crashes = 0 => state'.epoch = state.epoch /\ state'.manifest = state.manifest
    <3>1. CASE state' = state
      BY <3>1
    <3>2. CASE state' = [state EXCEPT !.outcome = Outcome(status, state)]
      BY <3>2, EpochAndFiles DEF CopyInv
    <3>3. CASE state' = [state EXCEPT !.finished = TRUE]
      BY <3>3, EpochAndFiles DEF CopyInv
    <3>4. QED
      BY <1>7, <3>1, <3>2, <3>3 DEF CloseWindow, Return, WindowRaises, Save
  <2>3. QED
    BY <2>1, <2>2, BatchKept DEF BatchInv, Written, InWindow, Done
<1>8. CASE WriteCheckpoint
  <2>1. /\ DOMAIN checkpoints' = DOMAIN checkpoints \cup {epoch}
        /\ checkpoints'[epoch].status = status
        /\ \A e \in DOMAIN checkpoints \ {epoch} : checkpoints'[e] = checkpoints[e]
        /\ torn' = torn \ {epoch} /\ pc = "checkpoint" /\ pc' = "record"
        /\ UNCHANGED <<status, epoch, state, disk, crashes>>
    BY <1>8 DEF WriteCheckpoint, graphVars, loopVars
  <2>2. /\ state.epoch \in Nat /\ epoch = state.epoch + 1
        /\ disk.epoch \in Nat /\ disk.epoch <= state.epoch
    BY <2>1 DEF BatchInv, InWindow
  <2>3. Sound' \subseteq Sound \cup {epoch}
    BY <2>1 DEF Sound
  <2>4. ASSUME NEW e \in Sound'
        PROVE  /\ e <= epoch /\ Done(checkpoints'[e].status) \subseteq Done(status)
               /\ e <= disk.epoch => Done(checkpoints'[e].status) \subseteq disk.manifest
    <3>1. CASE e = epoch
      BY <2>1, <2>2, <3>1
    <3>2. CASE e # epoch
      <4>1. e \in Sound /\ checkpoints'[e] = checkpoints[e] /\ e \in Nat
        BY <2>1, <2>3, <3>2 DEF Sound, GraphInv
      <4>2. QED
        BY <2>1, <2>2, <4>1 DEF BatchInv
    <3>3. QED
      BY <3>1, <3>2
  <2>5. QED
    BY <2>1, <2>2, <2>4 DEF BatchInv, InWindow, Done
<1>9. CASE RecordEpoch
  <2>1. /\ UNCHANGED <<checkpoints, torn, crashes, status, epoch>>
        /\ pc = "record" /\ pc' \in {"done", "top"} /\ ~Resume /\ Next
        /\ state' = [state EXCEPT !.epoch = epoch]
        /\ disk' = state' \/ (disk' = disk /\ epoch % PersistEvery # 0)
    BY <1>9 DEF RecordEpoch, FlushDue, graphVars, Resume, Next
  <2>2. crashes = 0 => state'.epoch = epoch /\ state'.manifest = state.manifest
    BY <2>1, EpochAndFiles DEF CopyInv
  <2>3. crashes = 0 => state.epoch \in Nat /\ epoch = state.epoch + 1
    BY <2>1 DEF BatchInv, InWindow
  <2>4. Written
    BY <2>1, <2>2, <2>3 DEF Written
  <2>5. QED
    BY <2>1, <2>2, <2>3, <2>4, BatchKept DEF BatchInv, InWindow, Done
<1>10. CASE Crash \/ Resume \/ GiveUp
  BY <1>10 DEF Crash, Resume, GiveUp, BatchInv, CopyInv
<1>11. QED
  BY <1>1, <1>2, <1>3, <1>4, <1>5, <1>6, <1>7, <1>8, <1>9, <1>10 DEF Next

LEMMA BatchStart == Init => BatchInv
BY DEF Init, BatchInv, NewState, Sound, Done, InWindow

\* The first crash costs PersistEvery epochs at most, and never the record of an
\* artifact made up to the epoch RunState knows, for every flush interval and
\* however the windows, replans and stages before it went.
THEOREM CrashCostsOneBatch == Spec => []CrashLosesOneBatch
<1>1. Init => GraphInv /\ CopyInv /\ BatchInv
  BY GraphStart, CopyStart, BatchStart
<1>2. GraphInv /\ CopyInv /\ BatchInv /\ [Next]_vars => GraphInv' /\ CopyInv' /\ BatchInv'
  BY GraphStep, CopyStep, BatchStep
<1>3. GraphInv /\ BatchInv => CrashLosesOneBatch
  <2> SUFFICES ASSUME GraphInv, BatchInv, crashes = 0, NEW e \in Sound
               PROVE  /\ e <= disk.epoch + PersistEvery
                      /\ e <= disk.epoch =>
                           NodesIn(checkpoints[e].plan, checkpoints[e].status, {"completed"})
                             \subseteq disk.manifest
    BY DEF CrashLosesOneBatch
  <2>1. /\ disk.epoch \in Nat /\ state.epoch \in Nat /\ e \in Nat /\ epoch \in Nat
        /\ disk.epoch <= state.epoch /\ PersistEvery \in Nat
        /\ e <= state.epoch + 1
    BY HorizonAssumption DEF BatchInv, GraphInv, Sound, InWindow
  <2>2. state.epoch + 1 <= disk.epoch + PersistEvery
    BY <2>1, FlushIsNear DEF BatchInv
  <2>3. NodesIn(checkpoints[e].plan, checkpoints[e].status, {"completed"})
          \subseteq Done(checkpoints[e].status)
    BY DEF NodesIn, Done, GraphInv, Sound
  <2>4. QED
    BY <2>1, <2>2, <2>3 DEF BatchInv
<1>4. QED
  BY <1>1, <1>2, <1>3, PTL DEF Spec

-----------------------------------------------------------------------------
(* The order of stages                                                     *)

\* A non-empty family of subsets of a finite set has a minimal member.
LEMMA MinimalMember ==
  ASSUME NEW S, IsFiniteSet(S), NEW F, F \subseteq SUBSET S, F # {}
  PROVE  \E X \in F : \A Y \in F : Y \subseteq X => Y = X
<1>1. IsWellFoundedOn(StrictSubsetOrdering(S), SUBSET S)
  BY FS_StrictSubsetOrderingWellFounded, FS_FiniteSubsetsOfFinite
<1>2. \E X \in F : \A Y \in F : ~ (<<Y, X>> \in StrictSubsetOrdering(S))
  BY <1>1, WFMin
<1>3. QED
  BY <1>2 DEF StrictSubsetOrdering

HasDeps(p) == p.deps = [n \in NodeIds |-> p.deps[n]]

InGraph(p) == \A n \in p.nodes : p.deps[n] \subseteq p.nodes

\* Every node has a sink of the graph downstream, so that what waits for the
\* sinks waits for all.
Linked(p) == \A m \in p.nodes : Sinks(p) \cap DescendantsOf(p, {m}) # {}

\* q has p's nodes, with their dependencies and perhaps more.
Grown(p, q) ==
  /\ p.nodes \subseteq q.nodes
  /\ \A n \in p.nodes : p.deps[n] \subseteq q.deps[n]

LEMMA DescendantsGrow ==
  ASSUME NEW p, NEW q, Grown(p, q), NEW m \in p.nodes
  PROVE  DescendantsOf(p, {m}) \subseteq DescendantsOf(q, {m})
<1> SUFFICES ASSUME NEW n \in DescendantsOf(p, {m}), NEW S \in SUBSET q.nodes,
                    m \in S, DescendantClosed(q, S)
             PROVE  n \in S
  BY DEF DescendantsOf, Grown
<1>1. m \in S \cap p.nodes /\ DescendantClosed(p, S \cap p.nodes)
  BY DEF DescendantClosed, Grown
<1>2. QED
  BY <1>1 DEF DescendantsOf

\* In a finite graph without cycles every node has a sink downstream: the least
\* set that is closed under dependents has one node only.
LEMMA SinkBelow ==
  ASSUME NEW a, ValidPlan(a), IsFiniteSet(a.nodes), NEW m \in a.nodes
  PROVE  Sinks(a) \cap DescendantsOf(a, {m}) # {}
<1> DEFINE D == DescendantsOf(a, {m})
           F == {W \in SUBSET a.nodes : W # {} /\ W \subseteq D /\ DescendantClosed(a, W)}
<1>1. D \in F
  BY DEF DescendantsOf, DescendantClosed
<1>2. PICK W \in F : \A Y \in F : Y \subseteq W => Y = W
  <2>1. F \subseteq SUBSET a.nodes /\ F # {}
    BY <1>1
  <2> HIDE DEF F
  <2>2. QED
    BY <2>1, MinimalMember
<1>3. PICK n \in W : a.deps[n] \cap W = {}
  BY DEF ValidPlan, Acyclic
<1>4. DescendantClosed(a, W \ {n})
  BY <1>3 DEF DescendantClosed
<1>5. W = {n}
  <2>1. W \ {n} # {} => W \ {n} \in F
    BY <1>4
  <2>2. n \in W /\ W \ {n} # W
    BY <1>3
  <2> HIDE DEF F
  <2>3. QED
    BY <1>2, <2>1, <2>2
<1>6. n \in Sinks(a)
  BY <1>3, <1>5 DEF DescendantClosed, Sinks
<1>7. QED
  BY <1>5, <1>6

\* A stage joins the graph: all of it is downstream of all there was.
LEMMA StageJoins ==
  ASSUME NEW p, p.nodes \subseteq NodeIds, InGraph(p), Linked(p),
         NEW a, a.nodes \subseteq NodeIds, ValidPlan(a), IsFiniteSet(a.nodes),
         a.nodes \cap p.nodes = {}
  PROVE  LET q == MergedStage(p, a) IN
         /\ HasDeps(q) /\ InGraph(q) /\ Linked(q) /\ Grown(p, q)
         /\ \A m \in p.nodes : a.nodes \subseteq DescendantsOf(q, {m})
<1> DEFINE q == MergedStage(p, a)
<1>1. /\ q.nodes = p.nodes \cup a.nodes
      /\ q.deps = [n \in NodeIds |->
                     IF n \notin a.nodes THEN p.deps[n]
                     ELSE IF a.deps[n] = {} THEN Sinks(p) ELSE a.deps[n]]
  BY DEF MergedStage
<1>2. \A n \in a.nodes : a.deps[n] \subseteq a.nodes
  BY DEF ValidPlan
<1>3. /\ \A n \in p.nodes : q.deps[n] = p.deps[n]
      /\ \A n \in a.nodes : q.deps[n] = IF a.deps[n] = {} THEN Sinks(p) ELSE a.deps[n]
  BY <1>1
<1>4. Sinks(p) \subseteq p.nodes
  BY DEF Sinks
<1> HIDE DEF q
<1>5. HasDeps(q)
  BY <1>1 DEF HasDeps
<1>6. InGraph(q) /\ Grown(p, q) /\ Grown(a, q)
  BY <1>1, <1>2, <1>3, <1>4 DEF InGraph, Grown
<1>7. ASSUME NEW m \in p.nodes PROVE a.nodes \subseteq DescendantsOf(q, {m})
  <2>1. PICK s \in Sinks(p) : s \in DescendantsOf(q, {m})
    BY <1>6, DescendantsGrow DEF Linked
  <2> SUFFICES ASSUME NEW S \in SUBSET q.nodes, m \in S, DescendantClosed(q, S)
               PROVE  a.nodes \subseteq S
    BY <1>1 DEF DescendantsOf
  <2>2. s \in S
    BY <2>1 DEF DescendantsOf
  <2> SUFFICES ASSUME a.nodes \ S # {} PROVE FALSE
    OBVIOUS
  <2>3. PICK n \in a.nodes \ S : a.deps[n] \cap (a.nodes \ S) = {}
    BY DEF ValidPlan, Acyclic
  <2>4. q.deps[n] \cap S # {}
    BY <1>2, <1>3, <2>2, <2>3
  <2>5. QED
    BY <1>1, <2>3, <2>4 DEF DescendantClosed
<1>8. Sinks(a) \subseteq Sinks(q)
  <2> SUFFICES ASSUME NEW n \in Sinks(a), NEW k \in q.nodes, n \in q.deps[k] PROVE FALSE
    BY <1>1 DEF Sinks
  <2>1. n \in a.nodes
    BY DEF Sinks
  <2>2. CASE k \in p.nodes
    BY <1>3, <2>1, <2>2 DEF InGraph
  <2>3. CASE k \in a.nodes
    BY <1>3, <1>4, <2>1, <2>3 DEF Sinks
  <2>4. QED
    BY <1>1, <2>2, <2>3
<1>9. Linked(q)
  <2> SUFFICES ASSUME NEW m \in q.nodes PROVE Sinks(q) \cap DescendantsOf(q, {m}) # {}
    BY DEF Linked
  <2>1. CASE m \in a.nodes
    BY <1>6, <1>8, <2>1, SinkBelow, DescendantsGrow
  <2>2. CASE m \in p.nodes
    <3>1. PICK k \in a.nodes : TRUE
      BY DEF ValidPlan
    <3>2. Sinks(a) # {} /\ Sinks(a) \subseteq a.nodes
      BY <3>1, SinkBelow DEF Sinks
    <3>3. QED
      BY <1>7, <1>8, <2>2, <3>2
  <2>3. QED
    BY <1>1, <2>1, <2>2
<1>10. QED
  BY <1>5, <1>6, <1>7, <1>9 DEF q

LEMMA GrownTwice ==
  ASSUME NEW p, NEW q, NEW r, Grown(p, q), Grown(q, r)
  PROVE  Grown(p, r)
BY DEF Grown

\* A new node leaves the others as they are.
LEMMA NodeJoins ==
  ASSUME NEW p, HasDeps(p), NEW n \in NodeIds \ p.nodes, NEW D
  PROVE  LET q == WithNode(p, n, D) IN
         HasDeps(q) /\ Grown(p, q) /\ q.nodes = p.nodes \cup {n}
<1> DEFINE q == WithNode(p, n, D)
<1>1. q.nodes = p.nodes \cup {n} /\ q.deps = [p.deps EXCEPT ![n] = D]
  BY DEF WithNode
<1> HIDE DEF q
<1>2. q.deps = [k \in NodeIds |-> IF k = n THEN D ELSE p.deps[k]]
  BY <1>1 DEF HasDeps
<1>3. HasDeps(q)
  BY <1>2 DEF HasDeps
<1>4. QED
  BY <1>1, <1>3 DEF Grown, q

LEMMA TerminalJoins ==
  ASSUME NEW p, p.nodes \subseteq NodeIds, GovernanceId["terminal_execution"] \notin p.nodes, NEW c
  PROVE  LET q == WithTerminal(p, c) IN
         /\ HasDeps(q) /\ Grown(p, q)
         /\ q.nodes = p.nodes \cup {GovernanceId["terminal_execution"]}
BY DEF WithTerminal, HasDeps, Grown

\* The governance chain adds nodes and dependencies, and takes none away.
LEMMA GovernanceJoins ==
  ASSUME NEW p, p.nodes \subseteq NodeIds, HasDeps(p), NEW S,
         DeliveryId \notin p.nodes, \A k \in GovernanceKinds : GovernanceId[k] \notin p.nodes
  PROVE  Grown(p, Governed(p, S))
<1> DEFINE T  == GovernanceId["terminal_execution"]
           E  == GovernanceId["evidence_verification"]
           A  == GovernanceId["artifact_validation"]
           q  == IF "terminal_execution" \in Governance /\ S = {}
                 THEN WithNode(p, DeliveryId, Sinks(p)) ELSE p
           cn == IF S = {} THEN DeliveryId ELSE CHOOSE n \in S : TRUE
           t  == IF "terminal_execution" \in Governance THEN WithTerminal(q, cn) ELSE q
           e  == IF "evidence_verification" \in Governance THEN WithNode(t, E, t.nodes) ELSE t
<1>1. /\ {T, E, A, DeliveryId} \subseteq NodeIds \ p.nodes
      /\ T # E /\ T # A /\ E # A /\ DeliveryId \notin {T, E, A}
  BY StagesAssumption, HorizonAssumption DEF GovernanceKinds
<1>2. Governed(p, S) = IF "artifact_validation" \in Governance
                       THEN WithNode(e, A, IF "evidence_verification" \in Governance
                                           THEN {E} ELSE Sinks(e))
                       ELSE e
  BY DEF Governed
<1> HIDE DEF T, E, A
<1>3. HasDeps(q) /\ Grown(p, q) /\ q.nodes \subseteq p.nodes \cup {DeliveryId}
  BY <1>1, NodeJoins DEF Grown
<1> HIDE DEF q
<1>4. HasDeps(t) /\ Grown(q, t) /\ t.nodes \subseteq q.nodes \cup {T}
  BY <1>1, <1>3, TerminalJoins DEF Grown, T
<1> HIDE DEF t
<1>5. HasDeps(e) /\ Grown(t, e) /\ e.nodes \subseteq t.nodes \cup {E}
  BY <1>1, <1>3, <1>4, NodeJoins DEF Grown
<1> HIDE DEF e
<1>6. Grown(e, Governed(p, S))
  BY <1>1, <1>2, <1>3, <1>4, <1>5, NodeJoins DEF Grown
<1>7. QED
  BY <1>3, <1>4, <1>5, <1>6, GrownTwice

\* Only actionable requirements are waited for, and they are in the contract.
LEMMA DependenciesAreFollowed ==
  ASSUME NEW c, NEW r
  PROVE  ResolvedDependencies(c, r) \subseteq Actionable(c)
BY DEF ResolvedDependencies, ActionableBelow

\* A batch is taken from what is ready.
LEMMA BatchIsReady ==
  ASSUME NEW c, NEW marks
  PROVE  SelectBatch(c, marks) \subseteq ReadyIds(c, marks)
BY DEF SelectBatch

StageInv ==
  /\ pc = "plan" => stage = 0 /\ ~governed /\ plan = NoPlan
  /\ \A r \in Requirements : progress[r] = "pending" => producers[r] = {}
  /\ mode.staged =>
       /\ stage \in Nat
       /\ governed => PendingIds(progress) = {}
       /\ ~governed =>
            /\ HasDeps(plan) /\ InGraph(plan) /\ Linked(plan)
            /\ \A n \in plan.nodes : StageOf[n] \in 1..stage
  /\ StageOrder

\* Planning a stage of what is ready, on identifiers of its own.
LEMMA StagePlanned ==
  ASSUME NEW marks, NEW s, NEW a \in StageAnswers(SelectBatch(contract, marks), s),
         PlanStage(marks, SelectBatch(contract, marks), a), UNCHANGED contract,
         contract \in Contracts,
         LedgerOf(contract, marks, producers, plan), Backed(marks, producers, plan, status),
         \A r \in Requirements : marks[r] = "pending" => producers[r] = {},
         plan.nodes \subseteq NodeIds, InGraph(plan), Linked(plan),
         \A n \in plan.nodes : StageOf[n] # s,
         StageOrder
  PROVE  /\ HasDeps(plan') /\ InGraph(plan') /\ Linked(plan')
         /\ plan'.nodes = plan.nodes \cup a.nodes
         /\ \A r \in Requirements : progress'[r] = "pending" => producers'[r] = {}
         /\ StageOrder'
<1> DEFINE S == SelectBatch(contract, marks)
<1>1. /\ plan' = MergedStage(plan, a) /\ progress' = MarkPlanned(marks, S)
      /\ producers' = [r \in Requirements |-> IF r \in S THEN a.made[r] ELSE producers[r]]
  BY DEF PlanStage
<1>2. S \subseteq ReadyIds(contract, marks)
  BY BatchIsReady
<1> HIDE DEF S
<1>3. /\ a.nodes \subseteq NodeIds /\ ValidPlan(a) /\ IsFiniteSet(a.nodes)
      /\ \A r \in S : a.made[r] \subseteq a.nodes
      /\ a.nodes \cap plan.nodes = {}
  BY AnswerFacts DEF Slots, S
<1>4. /\ HasDeps(plan') /\ InGraph(plan') /\ Linked(plan') /\ Grown(plan, plan')
      /\ \A m \in plan.nodes : a.nodes \subseteq DescendantsOf(plan', {m})
  BY <1>1, <1>3, StageJoins
<1>5. plan'.nodes = plan.nodes \cup a.nodes
  BY <1>1 DEF MergedStage
<1>6. S \subseteq Requirements /\ \A r \in S : marks[r] = "pending"
  BY <1>2 DEF ReadyIds, PendingIds
<1>7. \A r \in Requirements : progress'[r] = "pending" => producers'[r] = {}
  BY <1>1 DEF MarkPlanned
<1>8. StageOrder'
  <2> SUFFICES ASSUME NEW r \in Requirements, producers'[r] # {},
                      NEW d \in ResolvedDependencies(contract, r)
               PROVE  /\ producers'[d] # {}
                      /\ \A m \in producers'[d] : producers'[r] \subseteq DescendantsOf(plan', {m})
    BY DEF StageOrder
  <2>1. d \in Requirements
    BY DependenciesAreFollowed, HorizonAssumption DEF Actionable, ValidContract
  <2>2. CASE r \in S
    <3>1. marks[d] \in {"produced", "passed"} /\ marks[d] \in Marks
      BY <1>2, <2>1, <2>2 DEF ReadyIds, LedgerOf
    <3>2. marks[d] = "produced"
      BY <3>1 DEF Marks
    <3>3. producers[d] # {} /\ producers[d] \subseteq plan.nodes
      BY <2>1, <3>2 DEF Backed
    <3>4. producers'[d] = producers[d] /\ producers'[r] \subseteq a.nodes
      BY <1>1, <1>3, <1>6, <2>1, <2>2, <3>2
    <3>5. QED
      BY <1>4, <3>3, <3>4
  <2>3. CASE r \notin S
    <3>1. producers'[r] = producers[r]
      BY <1>1, <2>3
    <3>2. /\ producers[d] # {}
          /\ \A m \in producers[d] : producers[r] \subseteq DescendantsOf(plan, {m})
      BY <3>1 DEF StageOrder
    <3>3. producers'[d] = producers[d]
      BY <1>1, <1>6, <2>1, <3>2
    <3>4. producers[d] \subseteq plan.nodes
      BY <2>1 DEF LedgerOf
    <3>5. QED
      BY <1>4, <3>1, <3>2, <3>3, <3>4, DescendantsGrow
  <2>4. QED
    BY <2>2, <2>3
<1>9. QED
  BY <1>4, <1>5, <1>7, <1>8

LEMMA StillPending ==
  ASSUME NEW marks, NEW made, NEW p, NEW st, NEW S
  PROVE  /\ PendingIds(Refreshed(marks, made, p, st)) \subseteq PendingIds(marks)
         /\ PendingIds(MarkBlocked(marks, S)) \subseteq PendingIds(marks)
BY DEF PendingIds, Refreshed, MarkBlocked

LEMMA StageStep ==
  ASSUME GraphInv, LedgerInv, StageInv, [Next]_vars
  PROVE  StageInv'
<1> USE DEF StageInv
<1>1. CASE UNCHANGED vars
  BY <1>1 DEF StageOrder, PendingIds, vars, ledgerVars, graphVars, loopVars
<1>2. CASE FirstStage
  <2>1. /\ pc = "plan" /\ mode.staged /\ plan = NoPlan /\ contract \in Contracts
        /\ UNCHANGED <<contract, governed, mode>> /\ pc' # "plan"
    BY <1>2 DEF FirstStage, LedgerInv, loopVars
  <2>2. CASE UNCHANGED <<plan, progress, producers, stage>>
    BY <2>1, <2>2 DEF StageOrder
  <2>3. CASE /\ \E a \in StageAnswers(SelectBatch(contract, progress), 1) :
                  PlanStage(progress, SelectBatch(contract, progress), a)
             /\ stage' = 1
    <3>1. PICK a \in StageAnswers(SelectBatch(contract, progress), 1) :
            PlanStage(progress, SelectBatch(contract, progress), a)
      BY <2>3
    <3>2. plan.nodes = {} /\ InGraph(plan) /\ Linked(plan)
      BY <2>1 DEF NoPlan, InGraph, Linked
    <3>3. /\ HasDeps(plan') /\ InGraph(plan') /\ Linked(plan') /\ plan'.nodes = a.nodes
          /\ \A r \in Requirements : progress'[r] = "pending" => producers'[r] = {}
          /\ StageOrder'
      BY <2>1, <3>1, <3>2, StagePlanned DEF LedgerInv
    <3>4. \A n \in plan'.nodes : StageOf[n] = 1
      BY <3>1, <3>3, AnswerFacts DEF Slots
    <3>5. QED
      BY <2>1, <2>3, <3>3, <3>4
  <2>4. QED
    BY <1>2, <2>2, <2>3 DEF FirstStage
<1>3. CASE ExpandStage \/ RequirementsDeadlock \/ AppendGovernance \/ StopExpanding
  <2>1. /\ UNCHANGED <<contract, mode, status>> /\ pc' # "plan" /\ pc # "plan"
        /\ ~mode.staged => UNCHANGED <<plan, progress, producers>>
    BY <1>3 DEF ExpandStage, RequirementsDeadlock, AppendGovernance, StopExpanding, Expanding,
      loopVars, graphVars
  <2>2. CASE ~mode.staged
    BY <2>1, <2>2 DEF StageOrder
  <2>3. LedgerOf(contract, Refresh, producers, plan) /\ Backed(Refresh, producers, plan, status)
    BY RefreshFacts DEF Refresh, LedgerInv
  <2>4. PendingIds(Refresh) \subseteq PendingIds(progress)
    BY StillPending DEF Refresh
  <2>5. \A r \in Requirements : Refresh[r] = "pending" => producers[r] = {}
    BY <2>4 DEF PendingIds
  <2>6. CASE mode.staged /\ ExpandStage
    <3>1. /\ SelectBatch(contract, Refresh) # {} /\ stage' = stage + 1 /\ UNCHANGED governed
      BY <2>6 DEF ExpandStage
    <3>2. ~governed
      BY <2>4, <2>6, <3>1, BatchIsReady DEF ReadyIds
    <3>3. CASE \E a \in StageAnswers(SelectBatch(contract, Refresh), stage + 1) :
                 PlanStage(Refresh, SelectBatch(contract, Refresh), a)
      <4>1. PICK a \in StageAnswers(SelectBatch(contract, Refresh), stage + 1) :
              PlanStage(Refresh, SelectBatch(contract, Refresh), a)
        BY <3>3
      <4>2. \A n \in plan.nodes : StageOf[n] # stage + 1
        BY <2>6, <3>2
      <4>3. contract \in Contracts /\ plan.nodes \subseteq NodeIds
        BY <2>6 DEF LedgerInv, GraphInv
      <4>4. /\ HasDeps(plan') /\ InGraph(plan') /\ Linked(plan')
            /\ plan'.nodes = plan.nodes \cup a.nodes
            /\ \A r \in Requirements : progress'[r] = "pending" => producers'[r] = {}
            /\ StageOrder'
        BY <2>1, <2>3, <2>5, <2>6, <3>2, <4>1, <4>2, <4>3, StagePlanned
      <4>5. \A n \in a.nodes : StageOf[n] = stage + 1
        BY <4>1, AnswerFacts DEF Slots
      <4>6. \A n \in plan'.nodes : StageOf[n] \in 1..stage'
        BY <2>6, <3>1, <3>2, <4>4, <4>5
      <4>7. QED
        BY <2>1, <2>6, <3>1, <3>2, <4>4, <4>6
    <3>4. CASE /\ progress' = MarkBlocked(Refresh, SelectBatch(contract, Refresh))
               /\ UNCHANGED <<plan, producers>>
      <4>1. \A r \in Requirements : progress'[r] = "pending" => producers[r] = {}
        BY <2>5, <3>4, StillPending DEF PendingIds
      <4>2. \A n \in plan.nodes : StageOf[n] \in 1..stage'
        BY <2>6, <3>1, <3>2
      <4>3. HasDeps(plan') /\ InGraph(plan') /\ Linked(plan') /\ stage' \in Nat
        BY <2>6, <3>1, <3>2, <3>4
      <4>4. \A r \in Requirements : progress'[r] = "pending" => producers'[r] = {}
        BY <3>4, <4>1
      <4>5. \A n \in plan'.nodes : StageOf[n] \in 1..stage'
        BY <3>4, <4>2
      <4>6. ~governed' /\ pc' # "plan"
        BY <2>1, <3>1, <3>2
      <4>7. StageOrder'
        <5>1. UNCHANGED <<contract, producers, plan>> /\ StageOrder
          BY <2>1, <3>4
        <5>2. QED
          BY <5>1 DEF StageOrder
      <4>8. QED
        BY <4>3, <4>4, <4>5, <4>6, <4>7
    <3>5. QED
      BY <2>6, <3>3, <3>4 DEF ExpandStage
  <2>7. CASE mode.staged /\ (RequirementsDeadlock \/ StopExpanding)
    <3>1. /\ progress' = Refresh \/ progress' = MarkBlocked(Refresh, PendingIds(Refresh))
          /\ UNCHANGED <<plan, producers, stage, governed>>
      BY <2>7 DEF RequirementsDeadlock, StopExpanding, graphVars
    <3>2. PendingIds(progress') \subseteq PendingIds(Refresh)
      BY <3>1, StillPending
    <3>3. \A r \in Requirements : progress'[r] = "pending" => producers'[r] = {}
      BY <2>5, <3>1, <3>2 DEF PendingIds
    <3>4. governed' => PendingIds(progress') = {}
      BY <2>4, <2>7, <3>1, <3>2
    <3>5. QED
      BY <2>1, <2>7, <3>1, <3>3, <3>4 DEF StageOrder, PendingIds
  <2>8. CASE mode.staged /\ AppendGovernance
    <3>1. /\ progress' = Refresh /\ UNCHANGED <<producers, stage>> /\ ~governed
          /\ PendingIds(Refresh) = {}
          /\ \/ UNCHANGED <<plan, governed>>
             \/ plan' = Governed(plan, codeNodes) /\ governed' = TRUE
      BY <2>8 DEF AppendGovernance
    <3>2. \A n \in plan.nodes : n \in NodeIds /\ StageOf[n] # 0
      BY <2>8, <3>1 DEF GraphInv
    <3>3. Grown(plan, plan')
      <4>1. Grown(plan, Governed(plan, codeNodes))
        BY <2>8, <3>1, <3>2, GovernanceJoins, HorizonAssumption
      <4>2. QED
        BY <3>1, <4>1 DEF Grown
    <3>4. StageOrder'
      <4> SUFFICES ASSUME NEW r \in Requirements, producers[r] # {},
                          NEW d \in ResolvedDependencies(contract, r)
                   PROVE  /\ producers[d] # {}
                          /\ \A m \in producers[d] : producers[r] \subseteq DescendantsOf(plan', {m})
        BY <2>1, <3>1 DEF StageOrder
      <4>1. d \in Requirements
        BY <2>8, DependenciesAreFollowed, HorizonAssumption DEF Actionable, ValidContract, LedgerInv
      <4>2. producers[d] \subseteq plan.nodes
        BY <4>1 DEF LedgerInv, LedgerOf
      <4>3. QED
        BY <3>3, <4>2, DescendantsGrow DEF StageOrder
    <3>5. PendingIds(progress)' = {}
      BY <3>1 DEF PendingIds
    <3>6. QED
      BY <2>1, <2>5, <2>8, <3>1, <3>4, <3>5
  <2>9. QED
    BY <1>3, <2>2, <2>6, <2>7, <2>8
<1>4. CASE RunNodeAndReplan \/ Crash \/ Resume \/ GiveUp
  <2>1. UNCHANGED <<mode, progress, producers>> /\ ~mode.staged /\ pc' # "plan"
    BY <1>4 DEF RunNodeAndReplan, Crash, Resume, GiveUp, ledgerVars, loopVars, LedgerInv
  <2>2. \A r \in Requirements : producers[r] = {}
    BY <2>1 DEF LedgerInv
  <2>3. QED
    BY <2>1, <2>2 DEF StageOrder
<1>5. CASE OpenWindow \/ RunNode \/ CloseWindow \/ WindowRaises \/ WriteCheckpoint \/ RecordEpoch
            \/ Return
  <2>1. UNCHANGED <<mode, contract, progress, producers, stage, governed, plan>> /\ pc' # "plan"
    BY <1>5 DEF OpenWindow, RunNode, CloseWindow, WindowRaises, WriteCheckpoint, RecordEpoch, Return,
      ledgerVars, graphVars, loopVars
  <2>2. QED
    BY <2>1 DEF StageOrder, PendingIds
<1>6. QED
  BY <1>1, <1>2, <1>3, <1>4, <1>5 DEF Next

LEMMA StageStart == Init => StageInv
BY DEF Init, StageInv, StageOrder, PendingIds, NoPlan, HasDeps, InGraph, Linked

\* What a requirement depends on is produced upstream of all of its own nodes,
\* for every contract, every graph the stage planner answers with, and however
\* many stages join the graph between the two.
THEOREM StagesAreOrdered == Spec => []StageOrder
<1>1. Init => GraphInv /\ LedgerInv /\ StageInv
  BY GraphStart, LedgerStart, StageStart
<1>2. GraphInv /\ LedgerInv /\ StageInv /\ [Next]_vars => GraphInv' /\ LedgerInv' /\ StageInv'
  BY GraphStep, LedgerStep, StageStep
<1>3. StageInv => StageOrder
  BY DEF StageInv
<1>4. QED
  BY <1>1, <1>2, <1>3, PTL DEF Spec
=============================================================================
