---------------------- MODULE GraphSchedulerRefinement -----------------------
(***************************************************************************)
(* GraphScheduler implements DagExecution: under the mapping Dag, its      *)
(* initial states are initial states and each of its steps is a step of    *)
(* the abstract execution or leaves it alone.                              *)
(***************************************************************************)
EXTENDS GraphSchedulerProofs

\* A run only reaches its end when every node is settled or one is dead.
EndInv == pc = "finish" =>
  IsFinished(plan, status) \/ HasFailed(plan, status) \/ HasBlocked(plan, status)

LEMMA EndStep == ASSUME TypeOK, EndInv, [Next]_vars PROVE EndInv'
<1>0. plan.nodes \subseteq NodeIds
  BY PlanFacts DEF TypeOK
<1>1. CASE SelectReady
  <2>1. SUFFICES ASSUME pc' = "finish" PROVE EndInv'
    BY DEF EndInv
  <2>2. UNCHANGED plan /\ status' = AfterReady(plan, status) /\ Usable = {}
    BY <1>1, <2>1 DEF SelectReady
  <2>3. \A n \in plan.nodes : status[n] \in Terminal => status'[n] = status[n]
    BY <1>0, <2>2 DEF AfterReady, ReadyNodes, NodesIn, Unstarted, Terminal
  <2>4. CASE IsFinished(plan, status)
    BY <2>2, <2>3, <2>4 DEF IsFinished, EndInv
  <2>5. CASE targets \subseteq plan.nodes /\ \E n \in targets : status[n] \in Dead
    BY <2>2, <2>3, <2>5 DEF HasFailed, HasBlocked, Dead, Terminal, EndInv
  <2>6. QED BY <1>1, <2>1, <2>2, <2>4, <2>5 DEF SelectReady, Errors
<1>2. CASE CheckWindow \/ LoopEnds
  BY <1>2 DEF CheckWindow, LoopEnds, EndInv, graphVars
<1>3. CASE Enqueue \/ UNCHANGED vars
  BY <1>3 DEF Enqueue, vars, graphVars, controlVars, EndInv
<1>4. CASE Finish \/ Replan \/ Attempt \/ RunToEnd \/ OpenWindow \/ BeginIteration
             \/ ApplyRequirementChange \/ NoRequirementChange
  BY <1>4
  DEF Finish, Replan, ReplanAccepted, ReplanRejected, AfterReplan, Attempt, CapabilityUnavailable,
      StartAttempt, ExecutorCompletes, ExecutorBlocks, ExecutorFails, InjectFault, Recover,
      TryAgainOn, InjectionRaises, RunToEnd, OpenWindow, Enter, BeginIteration,
      ApplyRequirementChange, NoRequirementChange, EndInv
<1>5. QED BY <1>1, <1>2, <1>3, <1>4 DEF Next, Run, Iterate, Leave

-----------------------------------------------------------------------------
(* The mapping                                                             *)

Running == NodesIn(plan, status, {"running"})

Verdict == CASE pc # "done" -> "open"
             [] pc = "done" /\ rsOutcome = "success" -> "success"
             [] OTHER -> "incomplete"

LEMMA SamePlans == Dag!Plans = Plans
BY DEF Dag!Plans, Dag!ValidPlan, Dag!Acyclic, Plans, ValidPlan, Acyclic

LEMMA RunningIsNode ==
  ASSUME Control
  PROVE  /\ pc = "execute" => Running = {node}
         /\ pc \notin {"execute", "no_input_error"} => Running = {}
BY DEF Control, Running, NodesIn

\* A step that leaves the graph, the completed and the running nodes and the
\* end of the run alone is invisible.
LEMMA Stutter ==
  ASSUME UNCHANGED <<plan, replans>>, Completed' = Completed, Running' = Running,
         Verdict' = Verdict
  PROVE  UNCHANGED Dag!dagVars
BY DEF Dag!dagVars, Running, Verdict

LEMMA MarkingInvisible ==
  ASSUME TypeOK, Control, UNCHANGED plan,
         status' \in {status, AfterBlocking(plan, status), AfterReady(plan, status)}
  PROVE  Completed' = Completed /\ Running' = Running
<1>0. plan \in Plans /\ plan.nodes \subseteq NodeIds /\ status \in [NodeIds -> Statuses]
  BY PlanFacts DEF TypeOK
<1>1. \A n \in plan.nodes :
        \/ status'[n] = status[n]
        \/ status[n] \in Unstarted /\ status'[n] \in {"blocked", "ready"}
  BY <1>0, StatusFacts
<1>2. QED BY <1>1 DEF Completed, Running, NodesIn, Unstarted

LEMMA StepRefines ==
  ASSUME OrderInv, BudgetInv, EndInv, [Next]_vars
  PROVE  [Dag!DagNext]_(Dag!dagVars)
<1>0. /\ TypeOK /\ Control /\ DependencyOrder
      /\ plan \in Plans /\ plan.nodes \subseteq NodeIds /\ status \in [NodeIds -> Statuses]
      /\ \A n \in plan.nodes : plan.deps[n] \subseteq plan.nodes
  BY PlanFacts DEF OrderInv, TypeOK
<1>1. CASE RunToEnd \/ OpenWindow \/ Iterate
  <2>1. /\ UNCHANGED <<plan, replans>> /\ pc # "done" /\ pc' # "done"
        /\ status' \in {status, AfterBlocking(plan, status), AfterReady(plan, status)}
    BY <1>1
    DEF RunToEnd, OpenWindow, Enter, Iterate, LoopEnds, BeginIteration, ApplyRequirementChange,
        NoRequirementChange, SelectReady, Errors, graphVars, recoveryVars
  <2>2. Completed' = Completed /\ Running' = Running
    BY <1>0, <2>1, MarkingInvisible
  <2>3. QED BY <2>1, <2>2, Stutter DEF Verdict
<1>2. CASE CapabilityUnavailable
  <2>1. /\ node \in plan.nodes /\ status[node] = "ready" /\ UNCHANGED <<plan, replans>>
        /\ status' = [status EXCEPT ![node] = "failed"] /\ pc # "done" /\ pc' # "done"
    BY <1>0, <1>2 DEF CapabilityUnavailable, Control, recoveryVars
  <2>2. Completed' = Completed /\ Running' = Running
    BY <1>0, <2>1 DEF Completed, Running, NodesIn
  <2>3. QED BY <2>1, <2>2, Stutter DEF Verdict
<1>3. CASE StartAttempt
  <2>1. /\ node \in plan.nodes /\ status[node] = "ready" /\ UNCHANGED <<plan, replans>>
        /\ pc = "attempt" /\ pc' # "done"
        /\ status' \in {status, [status EXCEPT ![node] = "running"]}
    BY <1>0, <1>3 DEF StartAttempt, Control
  <2>2. CASE status' = status
    BY <2>1, <2>2, Stutter DEF Verdict, Completed, Running
  <2>3. CASE status' = [status EXCEPT ![node] = "running"]
    <3>1. Running = {} /\ Running' = {node} /\ Completed' = Completed
      BY <1>0, <2>1, <2>3, RunningIsNode DEF Completed, Running, NodesIn
    <3>2. node \in plan.nodes \ Completed /\ plan.deps[node] \subseteq Completed
      BY <1>0, <2>1 DEF DependencyOrder, Completed, NodesIn
    <3>3. Verdict = "open" /\ Verdict' = "open"
      BY <2>1 DEF Verdict
    <3>4. Dag!Start
      BY <2>1, <3>1, <3>2, <3>3 DEF Dag!Start, Running, Verdict
    <3>5. QED BY <3>4 DEF Dag!DagNext
  <2>4. QED BY <2>1, <2>2, <2>3
<1>4. CASE ExecutorCompletes \/ ExecutorBlocks \/ ExecutorFails \/ InjectFault
  <2>1. /\ pc = "execute" /\ pc' # "done" /\ UNCHANGED <<plan, replans>>
        /\ \E s \in {"completed", "blocked", "pending", "failed"} :
             status' = [status EXCEPT ![node] = s]
    BY <1>4
    DEF ExecutorCompletes, ExecutorBlocks, ExecutorFails, InjectFault, Recover, TryAgainOn, Settle,
        recoveryVars
  <2>2. node \in plan.nodes /\ status[node] = "running" /\ Running = {node}
    BY <1>0, <2>1, RunningIsNode DEF Control
  <2>3. Running' = {} /\ Completed' \in {Completed, Completed \cup {node}}
    BY <1>0, <2>1, <2>2 DEF Running, Completed, NodesIn
  <2>4. Verdict = "open" /\ Verdict' = "open"
    BY <2>1 DEF Verdict
  <2>5. Dag!Stop
    BY <2>1, <2>2, <2>3, <2>4 DEF Dag!Stop, Running, Verdict
  <2>6. QED BY <2>5 DEF Dag!DagNext
<1>5. CASE Replan
  <2>1. /\ pc = "replan" /\ pc' # "done" /\ replans < MaxReplans /\ replans' = replans + 1
        /\ Running = {}
    BY <1>0, <1>5, RunningIsNode
    DEF Replan, ReplanAccepted, ReplanRejected, AfterReplan, BudgetInv
  <2>2. /\ plan' \in Plans /\ Completed \subseteq plan'.nodes
        /\ \A n \in Completed : plan'.deps[n] = plan.deps[n]
        /\ Completed' = Completed /\ Running' = {}
    <3>1. CASE ReplanAccepted
      <4>1. /\ plan' \in Plans /\ CanReplace(plan, status, plan')
            /\ status' = AfterReplacement(plan, status)
        BY <3>1, SchedulerAssumption DEF ReplanAccepted
      <4>2. Completed \subseteq plan'.nodes /\ \A n \in Completed : plan'.deps[n] = plan.deps[n]
        BY <4>1 DEF CanReplace, Completed
      <4>3. \A n \in plan'.nodes : \/ n \in Completed /\ status'[n] = "completed"
                                   \/ n \notin Completed /\ status'[n] = "pending"
        BY <1>0, <4>1, StatusFacts, PlanFacts DEF Completed, NodesIn
      <4>4. QED BY <4>1, <4>2, <4>3 DEF Completed, Running, NodesIn
    <3>2. CASE ReplanRejected
      BY <1>0, <2>1, <3>2 DEF ReplanRejected, graphVars, Completed, Running, NodesIn
    <3>3. QED BY <1>5, <3>1, <3>2 DEF Replan
  <2>3. Verdict = "open" /\ Verdict' = "open"
    BY <2>1 DEF Verdict
  <2>4. Dag!Exchange
    BY <2>1, <2>2, <2>3, SamePlans DEF Dag!Exchange, Running, Verdict
  <2>5. QED BY <2>4 DEF Dag!DagNext
<1>6. CASE Finish
  <2>1. /\ pc = "finish" /\ pc' = "done" /\ UNCHANGED <<plan, status, replans>>
        /\ rsOutcome' = GraphOutcome /\ Running = {}
    BY <1>0, <1>6, RunningIsNode DEF Finish, graphVars, recoveryVars
  <2>2. rsOutcome' = "success" => Completed = plan.nodes
    BY <1>0, <2>1 DEF GraphOutcome, EndInv, HasFailed, HasBlocked, IsFinished, Terminal, Completed, NodesIn
  <2>3. /\ Verdict = "open" /\ Verdict' \in {"success", "incomplete"}
        /\ Verdict' = "success" => Completed = plan.nodes
    BY <2>1, <2>2 DEF Verdict
  <2>4. Completed' = Completed /\ Running' = Running
    BY <2>1 DEF Completed, Running
  <2>5. Dag!Conclude
    BY <2>1, <2>3, <2>4 DEF Dag!Conclude, Running, Verdict
  <2>6. QED BY <2>5 DEF Dag!DagNext
<1>7. CASE InjectionRaises \/ CheckWindow \/ Enqueue \/ UNCHANGED vars
  <2>1. UNCHANGED <<plan, status, replans, rsOutcome>>
    BY <1>7
    DEF InjectionRaises, CheckWindow, Enqueue, vars, graphVars, recoveryVars, runStateVars
  <2>2. pc' = pc \/ (pc # "done" /\ pc' # "done")
    BY <1>7 DEF InjectionRaises, CheckWindow, Enqueue, vars, controlVars
  <2>3. QED BY <2>1, <2>2, Stutter DEF Verdict, Completed, Running
<1>8. QED BY <1>1, <1>2, <1>3, <1>4, <1>5, <1>6, <1>7 DEF Next, Run, Attempt, Leave

LEMMA InitRefines == Init => Dag!DagInit
<1> SUFFICES ASSUME Init PROVE Dag!DagInit
  OBVIOUS
<1>1. plan \in Plans
  BY SchedulerAssumption DEF Init
<1>2. Completed = {} /\ Running = {} /\ Verdict = "open"
  BY <1>1, PlanFacts DEF Init, Completed, Running, NodesIn, Verdict
<1>3. QED BY <1>1, <1>2, SamePlans DEF Init, Dag!DagInit, Running, Verdict

\* With its retries, switches, blocking, injections, windows and replans, the
\* scheduler is one way to execute a graph as DagExecution allows.
THEOREM SchedulerRefinesDag == Spec => ImplementsDag
<1>1. Init => EndInv
  BY DEF Init, EndInv
<1>2. OrderInv /\ EndInv /\ [Next]_vars => EndInv'
  BY EndStep DEF OrderInv
<1>3. OrderInv /\ BudgetInv /\ EndInv /\ [Next]_vars => [Dag!DagNext]_(Dag!dagVars)
  BY StepRefines
<1>4. QED
  BY InitRefines, <1>1, <1>2, <1>3, OrderInvariant, BudgetInvariant, PTL
  DEF Spec, ImplementsDag, Dag!DagSpec

=============================================================================
