------------------------ MODULE GraphSchedulerProofs -------------------------
(***************************************************************************)
(* Proofs about GraphScheduler, for every set of nodes, every graph the    *)
(* planner may answer with and every budget.                               *)
(***************************************************************************)
EXTENDS GraphScheduler, TLAPS

-----------------------------------------------------------------------------
(* Facts about the operators of TaskGraph                                  *)

\* What membership in Plans gives a proof.
LEMMA PlanFacts ==
  ASSUME NEW p \in Plans
  PROVE  /\ p.nodes \subseteq NodeIds /\ p.nodes # {}
         /\ p.deps \in [NodeIds -> SUBSET NodeIds]
         /\ \A n \in p.nodes : p.deps[n] \subseteq p.nodes /\ n \notin p.deps[n]
         /\ Acyclic(p.nodes, p.deps)
BY DEF Plans, ValidPlan

\* Blocking only touches unstarted nodes, and yields statuses.
LEMMA BlockingTypes ==
  ASSUME NEW p \in Plans, NEW st \in [NodeIds -> Statuses]
  PROVE  /\ BlockedByFailure(p, st) \subseteq NodesIn(p, st, Unstarted)
         /\ AfterBlocking(p, st) \in [NodeIds -> Statuses]
         /\ AfterReady(p, st) \in [NodeIds -> Statuses]
         /\ AfterReplacement(p, st) \in [NodeIds -> Statuses]
BY DEF BlockedByFailure, AfterBlocking, AfterReady, AfterReplacement, Statuses

\* The injection operators stay within InjectionStates.
LEMMA InjectionTypes ==
  ASSUME NEW f \in [Injections -> InjectionStates]
  PROVE  /\ \A p, st : AfterPoll(f, p, st) \in [Injections -> InjectionStates]
         /\ \A i \in Injections, n \in NodeIds :
              /\ Fired(f, i, n) \in [Injections -> InjectionStates]
              /\ Amended(f, i, n) \in [Injections -> InjectionStates]
         /\ \A n : AfterCompletion(f, n) \in [Injections -> InjectionStates]
<1>1. \A p, st : AfterPoll(f, p, st) \in [Injections -> InjectionStates]
  BY DEF AfterPoll, InjectionStates
<1>2. \A i \in Injections, n \in NodeIds :
              /\ Fired(f, i, n) \in [Injections -> InjectionStates]
              /\ Amended(f, i, n) \in [Injections -> InjectionStates]
  BY DEF Fired, Amended, InjectionStates
<1>3. \A n : AfterCompletion(f, n) \in [Injections -> InjectionStates]
  BY DEF AfterCompletion, InjectionStates
<1>4. QED BY <1>1, <1>2, <1>3

\* A recorded attempt leaves a history.
LEMMA AttemptTypes ==
  ASSUME NEW h \in Histories, NEW e \in Executors
  PROVE  AfterAttempt(h, e) \in Histories
BY DEF AfterAttempt, Histories, IsRetry, IsSwitch

-----------------------------------------------------------------------------
(* Type correctness                                                        *)

\* Where the scheduler is says which node it handles and in what state that
\* node is; no other node runs.
Control ==
  /\ pc \in {"attempt", "execute", "replan"} => node \in plan.nodes
  /\ pc = "attempt" => status[node] = "ready"
  /\ pc = "execute" => status[node] = "running" /\ executor \in Executors
  /\ pc = "replan" => status[node] = "failed"
  /\ \A n \in plan.nodes :
       status[n] = "running" => n = node /\ pc \in {"execute", "no_input_error"}

LEMMA InitTypes == Init => TypeOK
BY SchedulerAssumption, InjectionsAssumption, RecoveryAssumption
DEF Init, TypeOK, InitialInjections, InjectionStates, NoHistory, Histories, Statuses, PCs,
    Failures

\* The states record_task_graph writes.
LEMMA RecordTypes ==
  ASSUME TypeOK, NEW p \in Plans, NEW v \in Nat, NEW st \in [NodeIds -> Statuses],
         RecordGraph(p, v, st)
  PROVE  /\ rsNodes' \in [NodeIds -> Statuses \cup {"absent"}]
         /\ rsVersion' \in Nat
         /\ rsOutcome' \in {"pending", "running", "success", "blocked", "failed"}
         /\ rsFailure' \in Failures
         /\ manifest' \subseteq NodeIds
BY DEF TypeOK, RecordGraph

LEMMA SaveTypes ==
  ASSUME TypeOK, NEW v \in Nat, NEW st \in [NodeIds -> Statuses], SaveGraph(v, st)
  PROVE  saved' \in [version : Nat, status : [NodeIds -> Statuses]]
BY DEF TypeOK, SaveGraph

LEMMA EnterTypes ==
  ASSUME TypeOK, NEW st \in [NodeIds -> Statuses], NEW w \in SUBSET NodeIds, Enter(st, w)
  PROVE  TypeOK'
<1>1. /\ rsNodes' \in [NodeIds -> Statuses \cup {"absent"}]
      /\ rsVersion' \in Nat
      /\ rsOutcome' \in {"pending", "running", "success", "blocked", "failed"}
      /\ rsFailure' \in Failures
      /\ manifest' \subseteq NodeIds
  <2>1. CASE rsVersion = 0
    BY <2>1, RecordTypes DEF Enter, TypeOK
  <2>2. CASE rsVersion # 0
    BY <2>2 DEF Enter, TypeOK, runStateVars
  <2>3. QED BY <2>1, <2>2
<1>2. saved' \in [version : Nat, status : [NodeIds -> Statuses]]
  BY SaveTypes DEF Enter, TypeOK
<1>3. QED BY <1>1, <1>2 DEF Enter, TypeOK, PCs, recoveryVars

LEMMA IterateTypes == ASSUME TypeOK, Iterate PROVE TypeOK'
<1>1. CASE LoopEnds
  BY <1>1 DEF LoopEnds, TypeOK, PCs, graphVars, recoveryVars, runStateVars
<1>2. CASE BeginIteration
  <2>1. inj' \in [Injections -> InjectionStates]
    BY <1>2, InjectionTypes DEF BeginIteration, TypeOK
  <2>2. status' \in [NodeIds -> Statuses]
    BY <1>2, BlockingTypes DEF BeginIteration, TypeOK
  <2>3. saved' \in [version : Nat, status : [NodeIds -> Statuses]]
    BY <1>2, <2>2, SaveTypes DEF BeginIteration, TypeOK
  <2>4. rsNodes' \in [NodeIds -> Statuses \cup {"absent"}]
    BY <1>2 DEF BeginIteration, TypeOK, Statuses
  <2>5. QED
    BY <1>2, <2>1, <2>2, <2>3, <2>4 DEF BeginIteration, TypeOK, PCs, recoveryVars
<1>3. CASE ApplyRequirementChange
  <2>0. PICK i \in Changes : \E n \in AmendTargets(i) :
          inj' = Amended(inj, i, n) /\ amended' = amended \cup {n}
    BY <1>3 DEF ApplyRequirementChange
  <2>1. PICK n \in AmendTargets(i) :
          inj' = Amended(inj, i, n) /\ amended' = amended \cup {n}
    BY <2>0
  <2>2. n \in NodeIds /\ i \in Injections
    BY PlanFacts DEF AmendTargets, EligibleNodes, First, ReadyNodes, NodesIn, Changes, TypeOK
  <2>3. inj' \in [Injections -> InjectionStates] /\ amended' \subseteq NodeIds
    BY <2>1, <2>2, InjectionTypes DEF TypeOK
  <2>4. status' \in [NodeIds -> Statuses] /\ version' \in Nat
    BY <1>3, BlockingTypes DEF ApplyRequirementChange, TypeOK
  <2>5. saved' \in [version : Nat, status : [NodeIds -> Statuses]]
    BY <1>3, <2>4, SaveTypes DEF ApplyRequirementChange
  <2>6. RecordGraph(plan, version', status')
    BY <1>3 DEF ApplyRequirementChange
  <2>7. QED
    BY <1>3, <2>3, <2>4, <2>5, <2>6, RecordTypes
    DEF ApplyRequirementChange, TypeOK, PCs, recoveryVars
<1>4. CASE NoRequirementChange
  BY <1>4 DEF NoRequirementChange, TypeOK, PCs, graphVars, recoveryVars, runStateVars
<1>5. CASE SelectReady
  <2>1. status' \in [NodeIds -> Statuses]
    BY <1>5, BlockingTypes DEF SelectReady, TypeOK
  <2>2. node' \in NodeIds \cup {NoNode}
    BY <1>5, PlanFacts DEF SelectReady, TypeOK, First, Usable, ReadyNodes, NodesIn
  <2>3. pc' \in PCs
    BY <1>5 DEF SelectReady, PCs, Errors
  <2>4. QED
    BY <1>5, <2>1, <2>2, <2>3 DEF SelectReady, TypeOK, recoveryVars, runStateVars
<1>6. QED BY <1>1, <1>2, <1>3, <1>4, <1>5 DEF Iterate

LEMMA RecoverTypes ==
  ASSUME TypeOK, NEW r \in BOOLEAN, Recover(r), node \in NodeIds, executor \in Executors
  PROVE  /\ status' \in [NodeIds -> Statuses]
         /\ rsNodes' \in [NodeIds -> Statuses \cup {"absent"}]
         /\ forced' \in [NodeIds -> Executors \cup {NoExecutor}]
         /\ saved' \in [version : Nat, status : [NodeIds -> Statuses]]
         /\ pc' \in PCs
<1>1. \A e \in Executors : forced' = [forced EXCEPT ![node] = e]
                             => forced' \in [NodeIds -> Executors \cup {NoExecutor}]
  BY DEF TypeOK
<1>2. Candidates[node] \subseteq Executors
  BY SchedulerAssumption
<1>3. forced' \in [NodeIds -> Executors \cup {NoExecutor}] /\ pc' \in PCs
  BY <1>1, <1>2 DEF Recover, TryAgainOn, PCs, TypeOK
<1>4. status' \in [NodeIds -> Statuses] /\ rsNodes' \in [NodeIds -> Statuses \cup {"absent"}]
  BY DEF Recover, TryAgainOn, Settle, TypeOK, Statuses
<1>5. saved' \in [version : Nat, status : [NodeIds -> Statuses]]
  BY <1>4, SaveTypes DEF Recover, TryAgainOn, TypeOK
<1>6. QED BY <1>3, <1>4, <1>5

LEMMA ReportTypes == ASSUME TypeOK, Report PROVE rsFailure' \in Failures
BY DEF TypeOK, Report, Failures, ExecuteFailures

LEMMA AttemptStepTypes == ASSUME TypeOK, Control, Attempt PROVE TypeOK'
<1>0. node \in NodeIds
  BY PlanFacts DEF Control, TypeOK, Attempt, CapabilityUnavailable, StartAttempt,
     ExecutorCompletes, ExecutorBlocks, ExecutorFails, InjectFault, InjectionRaises
<1>1. CASE CapabilityUnavailable
  <2>1. status' \in [NodeIds -> Statuses] /\ attempts' \in [NodeIds -> Nat]
    BY <1>0, <1>1 DEF CapabilityUnavailable, TypeOK, Statuses
  <2>2. saved' \in [version : Nat, status : [NodeIds -> Statuses]] /\ pc' \in PCs
    BY <1>1, <2>1, SaveTypes DEF CapabilityUnavailable, TypeOK, PCs
  <2>3. forced' \in [NodeIds -> Executors \cup {NoExecutor}]
    BY <1>0, <1>1 DEF CapabilityUnavailable, Unforce, TypeOK
  <2>4. rsNodes' \in [NodeIds -> Statuses \cup {"absent"}]
    BY <1>0, <1>1 DEF CapabilityUnavailable, TypeOK, Statuses
  <2>5. QED
    BY <1>1, <2>1, <2>2, <2>3, <2>4 DEF CapabilityUnavailable, TypeOK, recoveryVars
<1>2. CASE StartAttempt
  <2>1. PICK e \in Selectable(node) :
          /\ Unforce(node) /\ executor' = e
          /\ IF AttemptAllowed(history[node], e)
             THEN /\ history' = [history EXCEPT ![node] = AfterAttempt(@, e)]
                  /\ attempts' = [attempts EXCEPT ![node] = @ + 1]
                  /\ status' = [status EXCEPT ![node] = "running"]
                  /\ rsNodes' = [rsNodes EXCEPT ![node] = "running"]
                  /\ SaveGraph(version, status')
                  /\ pc' = "execute"
             ELSE /\ pc' = "attempt_limit_error"
                  /\ UNCHANGED <<history, attempts, status, rsNodes, saved>>
    BY <1>2 DEF StartAttempt
  <2>2. e \in Executors
    BY <1>0, SchedulerAssumption DEF Selectable
  <2>3. AfterAttempt(history[node], e) \in Histories
    BY <1>0, <2>2, AttemptTypes DEF TypeOK
  <2>4. /\ history' \in [NodeIds -> Histories] /\ attempts' \in [NodeIds -> Nat]
        /\ status' \in [NodeIds -> Statuses] /\ pc' \in PCs
        /\ rsNodes' \in [NodeIds -> Statuses \cup {"absent"}]
    BY <1>0, <2>1, <2>3 DEF TypeOK, Statuses, PCs, Errors
  <2>5. saved' \in [version : Nat, status : [NodeIds -> Statuses]]
    BY <2>1, <2>4, SaveTypes DEF TypeOK
  <2>6. forced' \in [NodeIds -> Executors \cup {NoExecutor}]
    BY <1>0, <2>1 DEF Unforce, TypeOK
  <2>7. QED
    BY <1>2, <2>1, <2>2, <2>4, <2>5, <2>6 DEF StartAttempt, TypeOK
<1>3. CASE ExecutorCompletes
  <2>1. /\ status' \in [NodeIds -> Statuses]
        /\ rsNodes' \in [NodeIds -> Statuses \cup {"absent"}]
    BY <1>0, <1>3 DEF ExecutorCompletes, Settle, TypeOK, Statuses
  <2>2. saved' \in [version : Nat, status : [NodeIds -> Statuses]]
    BY <1>3, <2>1, SaveTypes DEF ExecutorCompletes, TypeOK
  <2>3. inj' \in [Injections -> InjectionStates]
    BY <1>3, InjectionTypes DEF ExecutorCompletes, TypeOK
  <2>4. damaged' \subseteq NodeIds /\ manifest' \subseteq NodeIds
    BY <1>0, <1>3 DEF ExecutorCompletes, TypeOK
  <2>5. rsFailure' \in Failures
    BY <1>3, ReportTypes DEF ExecutorCompletes
  <2>6. QED
    BY <1>3, <2>1, <2>2, <2>3, <2>4, <2>5 DEF ExecutorCompletes, TypeOK, PCs, recoveryVars
<1>4. CASE ExecutorBlocks
  <2>1. /\ status' \in [NodeIds -> Statuses]
        /\ rsNodes' \in [NodeIds -> Statuses \cup {"absent"}]
    BY <1>0, <1>4 DEF ExecutorBlocks, Settle, TypeOK, Statuses
  <2>2. saved' \in [version : Nat, status : [NodeIds -> Statuses]]
    BY <1>4, <2>1, SaveTypes DEF ExecutorBlocks, TypeOK
  <2>3. damaged' \subseteq NodeIds
    BY <1>4 DEF ExecutorBlocks, Damage, TypeOK
  <2>4. rsFailure' \in Failures
    BY <1>4, ReportTypes DEF ExecutorBlocks
  <2>5. QED
    BY <1>4, <2>1, <2>2, <2>3, <2>4 DEF ExecutorBlocks, TypeOK, PCs, recoveryVars
<1>5. CASE ExecutorFails
  <2>1. PICK r \in BOOLEAN : Recover(r)
    BY <1>5 DEF ExecutorFails
  <2>2. executor \in Executors
    BY <1>5 DEF ExecutorFails, Control
  <2>3. damaged' \subseteq NodeIds
    BY <1>5 DEF ExecutorFails, Damage, TypeOK
  <2>4. rsFailure' \in Failures
    BY <1>5, ReportTypes DEF ExecutorFails
  <2>5. QED
    BY <1>0, <1>5, <2>1, <2>2, <2>3, <2>4, RecoverTypes
    DEF ExecutorFails, Recover, TypeOK, recoveryVars
<1>6. CASE InjectFault
  <2>1. PICK i \in FaultsFor(inj, plan, status, node) : inj' = Fired(inj, i, node)
    BY <1>6 DEF InjectFault
  <2>2. inj' \in [Injections -> InjectionStates]
    BY <1>0, <2>1, InjectionTypes DEF FaultsFor, Faults, TypeOK
  <2>3. executor \in Executors
    BY <1>6 DEF InjectFault, Control
  <2>4. QED
    BY <1>0, <1>6, <2>2, <2>3, RecoverTypes
    DEF InjectFault, Recover, TypeOK, recoveryVars
<1>7. CASE InjectionRaises
  BY <1>7 DEF InjectionRaises, TypeOK, PCs, Errors, graphVars, recoveryVars, runStateVars
<1>8. QED
  BY <1>1, <1>2, <1>3, <1>4, <1>5, <1>6, <1>7 DEF Attempt

LEMMA ReplanStepTypes == ASSUME TypeOK, Replan PROVE TypeOK'
<1>1. CASE ReplanAccepted
  <2>1. PICK q \in Replacements :
          /\ plan' = q
          /\ history' = [n \in NodeIds |->
               IF n \in q.nodes \ Completed THEN NoHistory ELSE history[n]]
          /\ RecordGraph(q, version + 1, AfterReplacement(plan, status))
    BY <1>1 DEF ReplanAccepted
  <2>2. q \in Plans
    BY SchedulerAssumption
  <2>3. AfterReplacement(plan, status) \in [NodeIds -> Statuses] /\ version + 1 \in Nat
    BY BlockingTypes DEF TypeOK
  <2>4. history' \in [NodeIds -> Histories]
    BY <2>1, RecoveryAssumption DEF TypeOK, NoHistory, Histories
  <2>5. saved' \in [version : Nat, status : [NodeIds -> Statuses]]
    BY <1>1, <2>3, SaveTypes DEF ReplanAccepted
  <2>6. /\ rsNodes' \in [NodeIds -> Statuses \cup {"absent"}]
        /\ rsVersion' \in Nat
        /\ rsOutcome' \in {"pending", "running", "success", "blocked", "failed"}
        /\ rsFailure' \in Failures
        /\ manifest' \subseteq NodeIds
    BY <2>1, <2>2, <2>3, RecordTypes
  <2>7. attempts' \in [NodeIds -> Nat] /\ amended' \subseteq NodeIds
    BY <1>1 DEF ReplanAccepted, TypeOK
  <2>8. QED
    BY <1>1, <2>1, <2>2, <2>3, <2>4, <2>5, <2>6, <2>7
    DEF ReplanAccepted, AfterReplan, TypeOK, PCs
<1>2. CASE ReplanRejected
  <2>1. saved' \in [version : Nat, status : [NodeIds -> Statuses]]
    BY <1>2, SaveTypes DEF ReplanRejected, TypeOK
  <2>2. QED
    BY <1>2, <2>1 DEF ReplanRejected, AfterReplan, TypeOK, PCs, graphVars, runStateVars
<1>3. QED BY <1>1, <1>2 DEF Replan

LEMMA LeaveTypes == ASSUME TypeOK, Leave PROVE TypeOK'
<1>1. saved' \in [version : Nat, status : [NodeIds -> Statuses]]
  BY SaveTypes DEF Leave, CheckWindow, Finish, TypeOK
<1>2. CASE CheckWindow
  BY <1>1, <1>2 DEF CheckWindow, TypeOK, PCs, graphVars, recoveryVars, runStateVars
<1>3. CASE Finish
  <2>1. rsFailure' \in Failures
    BY <1>3 DEF Finish, TypeOK, Failures, ExecuteFailures
  <2>2. QED
    BY <1>1, <1>3, <2>1 DEF Finish, GraphOutcome, TypeOK, PCs, graphVars, recoveryVars
<1>4. QED BY <1>2, <1>3 DEF Leave

LEMMA EnqueueTypes == ASSUME TypeOK, Enqueue PROVE TypeOK'
<1>1. PICK i \in Injections, t \in NodeIds \cup {NoNode} :
        inj' = [inj EXCEPT ![i] = [status |-> "queued", target |-> t]]
  BY DEF Enqueue
<1>2. inj' \in [Injections -> InjectionStates]
  BY <1>1 DEF TypeOK, InjectionStates
<1>3. QED
  BY <1>2 DEF Enqueue, TypeOK, graphVars, controlVars, recoveryVars, runStateVars

LEMMA TypeStep == ASSUME TypeOK, Control, [Next]_vars PROVE TypeOK'
<1>1. CASE RunToEnd
  BY <1>1, EnterTypes DEF RunToEnd, TypeOK
<1>2. CASE OpenWindow
  <2>1. AfterReady(plan, status) \in [NodeIds -> Statuses]
    BY BlockingTypes DEF TypeOK
  <2>2. FirstK(ReadyNodes(plan, status), MaxActive) \in SUBSET NodeIds
    BY PlanFacts DEF FirstK, ReadyNodes, NodesIn, TypeOK
  <2>3. QED BY <1>2, <2>1, <2>2, EnterTypes DEF OpenWindow
<1>3. CASE UNCHANGED vars
  BY <1>3 DEF vars, graphVars, controlVars, recoveryVars, runStateVars, TypeOK
<1>4. QED
  BY <1>1, <1>2, <1>3, IterateTypes, AttemptStepTypes, ReplanStepTypes, LeaveTypes, EnqueueTypes
  DEF Next, Run

-----------------------------------------------------------------------------
(* Control, and the order of execution                                     *)

\* How the status operators move a node.
LEMMA StatusFacts ==
  ASSUME NEW p \in Plans, NEW st \in [NodeIds -> Statuses], NEW n \in NodeIds
  PROVE  /\ \/ AfterBlocking(p, st)[n] = st[n]
            \/ n \in p.nodes /\ st[n] \in Unstarted /\ AfterBlocking(p, st)[n] = "blocked"
         /\ \/ AfterReady(p, st)[n] = st[n] /\ n \notin ReadyNodes(p, st)
            \/ n \in ReadyNodes(p, st) /\ AfterReady(p, st)[n] = "ready"
         /\ n \in ReadyNodes(p, st) =>
              /\ n \in p.nodes /\ st[n] \in Unstarted
              /\ \A d \in p.deps[n] : st[d] = "completed"
         /\ \/ AfterReplacement(p, st)[n] = "pending" /\ ~(n \in p.nodes /\ st[n] = "completed")
            \/ n \in p.nodes /\ st[n] = "completed" /\ AfterReplacement(p, st)[n] = "completed"
BY DEF AfterBlocking, BlockedByFailure, AfterReady, ReadyNodes, AfterReplacement, NodesIn, Unstarted

LEMMA EnterControl ==
  ASSUME TypeOK, Control, pc = "caller", NEW w,
         \/ Enter(status, w)
         \/ Enter(AfterReady(plan, status), w)
  PROVE  Control'
<1>1. \A n \in plan.nodes : status'[n] # "running"
  BY PlanFacts, StatusFacts DEF Enter, Control, TypeOK
<1>2. QED BY <1>1 DEF Enter, Control

LEMMA IterateControl == ASSUME TypeOK, Control, Iterate PROVE Control'
<1>0. plan \in Plans /\ status \in [NodeIds -> Statuses] /\ plan.nodes \subseteq NodeIds
  BY PlanFacts DEF TypeOK
<1>1. plan' = plan /\ executor' = executor /\ pc \in {"loop", "amend", "select"}
  BY DEF Iterate, LoopEnds, BeginIteration, ApplyRequirementChange, NoRequirementChange,
         SelectReady, graphVars
<1>2. \A n \in plan.nodes : status[n] # "running"
  BY <1>1 DEF Control
<1>3. \A n \in plan.nodes : status'[n] # "running"
  BY <1>0, <1>2, StatusFacts
  DEF Iterate, LoopEnds, BeginIteration, ApplyRequirementChange, NoRequirementChange,
      SelectReady, graphVars, Unstarted
<1>4. pc' = "attempt" => node' \in plan.nodes /\ status'[node'] = "ready"
  <2>1. SUFFICES ASSUME SelectReady, Usable # {}
                 PROVE  node' \in plan.nodes /\ status'[node'] = "ready"
    BY <1>1 DEF Iterate, LoopEnds, BeginIteration, ApplyRequirementChange,
                NoRequirementChange, SelectReady, Errors
  <2>2. node' \in ReadyNodes(plan, status)
    BY <2>1 DEF SelectReady, First, Usable
  <2>3. node' \in NodeIds
    BY <1>0, <2>2 DEF ReadyNodes, NodesIn
  <2>4. QED BY <1>0, <2>1, <2>2, <2>3, StatusFacts DEF SelectReady
<1>5. pc' \notin {"execute", "replan"}
  BY DEF Iterate, LoopEnds, BeginIteration, ApplyRequirementChange,
                NoRequirementChange, SelectReady
<1>6. QED BY <1>1, <1>3, <1>4, <1>5 DEF Control

LEMMA AttemptControl == ASSUME TypeOK, Control, Attempt PROVE Control'
<1>0. /\ plan' = plan /\ node' = node /\ node \in plan.nodes /\ node \in NodeIds
      /\ status \in [NodeIds -> Statuses] /\ plan.nodes \subseteq NodeIds
  BY PlanFacts
  DEF Attempt, CapabilityUnavailable, StartAttempt, ExecutorCompletes, ExecutorBlocks,
      ExecutorFails, InjectFault, Recover, InjectionRaises, graphVars, TypeOK, Control
<1>1. \A n \in plan.nodes : n # node => status'[n] = status[n] /\ status[n] # "running"
  BY <1>0
  DEF Attempt, CapabilityUnavailable, StartAttempt, ExecutorCompletes, ExecutorBlocks,
      ExecutorFails, InjectFault, Recover, TryAgainOn, Settle, InjectionRaises, graphVars, Control
<1>2. CASE CapabilityUnavailable
  BY <1>0, <1>1, <1>2 DEF CapabilityUnavailable, Control
<1>3. CASE StartAttempt
  <2>1. Selectable(node) \subseteq Executors
    BY <1>0, SchedulerAssumption DEF Selectable
  <2>2. QED BY <1>0, <1>1, <1>3, <2>1 DEF StartAttempt, Control
<1>4. CASE ExecutorCompletes \/ ExecutorBlocks
  BY <1>0, <1>1, <1>4 DEF ExecutorCompletes, ExecutorBlocks, Settle, Control
<1>5. CASE ExecutorFails \/ InjectFault
  BY <1>0, <1>1, <1>5 DEF ExecutorFails, InjectFault, Recover, TryAgainOn, Settle, Control
<1>6. CASE InjectionRaises
  BY <1>0, <1>1, <1>6 DEF InjectionRaises, graphVars, Control
<1>7. QED BY <1>2, <1>3, <1>4, <1>5, <1>6 DEF Attempt

LEMMA ControlStep == ASSUME TypeOK, Control, [Next]_vars PROVE Control'
<1>1. CASE RunToEnd \/ OpenWindow
  BY <1>1, EnterControl DEF RunToEnd, OpenWindow
<1>2. CASE Replan
  <2>1. CASE ReplanAccepted
    <3>1. status' = AfterReplacement(plan, status)
      BY <2>1 DEF ReplanAccepted
    <3>2. \A n \in NodeIds : status'[n] # "running"
      BY <3>1, StatusFacts DEF TypeOK
    <3>3. plan'.nodes \subseteq NodeIds
      BY <2>1, PlanFacts, SchedulerAssumption DEF ReplanAccepted
    <3>4. QED BY <2>1, <3>2, <3>3 DEF ReplanAccepted, AfterReplan, Control
  <2>2. CASE ReplanRejected
    BY <2>2 DEF ReplanRejected, AfterReplan, Control, graphVars
  <2>3. QED BY <1>2, <2>1, <2>2 DEF Replan
<1>3. CASE Leave
  BY <1>3 DEF Leave, CheckWindow, Finish, Control, graphVars
<1>4. CASE Enqueue
  BY <1>4 DEF Enqueue, Control, graphVars, controlVars
<1>5. CASE UNCHANGED vars
  BY <1>5 DEF vars, Control, graphVars, controlVars
<1>6. QED
  BY <1>1, <1>2, <1>3, <1>4, <1>5, IterateControl, AttemptControl DEF Next, Run

\* What a step may do to one node, whatever action it is: the graph and its
\* statuses change in one of these five ways.
StatusStep ==
  \/ UNCHANGED <<plan, status>>
  \/ UNCHANGED plan /\ status' = AfterBlocking(plan, status)
  \/ UNCHANGED plan /\ status' = AfterReady(plan, status)
  \/ /\ UNCHANGED plan
     /\ node \in plan.nodes /\ status[node] \in {"ready", "running"}
     /\ \E s \in Statuses : status' = [status EXCEPT ![node] = s]
  \/ /\ plan' \in Plans /\ CanReplace(plan, status, plan')
     /\ status' = AfterReplacement(plan, status)

LEMMA EveryStatusStep == ASSUME TypeOK, Control, [Next]_vars PROVE StatusStep
<1>1. CASE RunToEnd \/ OpenWindow
  BY <1>1 DEF RunToEnd, OpenWindow, Enter, StatusStep
<1>2. CASE Iterate
  BY <1>2
  DEF Iterate, LoopEnds, BeginIteration, ApplyRequirementChange, NoRequirementChange,
      SelectReady, graphVars, StatusStep
<1>3. CASE CapabilityUnavailable \/ StartAttempt
  BY <1>3 DEF CapabilityUnavailable, StartAttempt, StatusStep, Statuses, Control
<1>4. CASE ExecutorCompletes \/ ExecutorBlocks
  BY <1>4 DEF ExecutorCompletes, ExecutorBlocks, Settle, StatusStep, Statuses, Control
<1>5. CASE ExecutorFails \/ InjectFault
  BY <1>5 DEF ExecutorFails, InjectFault, Recover, TryAgainOn, Settle, StatusStep, Statuses, Control
<1>6. CASE InjectionRaises \/ ReplanRejected \/ Leave \/ Enqueue \/ UNCHANGED vars
  BY <1>6
  DEF InjectionRaises, ReplanRejected, Leave, CheckWindow, Finish, Enqueue, vars, graphVars, StatusStep
<1>7. CASE ReplanAccepted
  BY <1>7, SchedulerAssumption DEF ReplanAccepted, StatusStep
<1>8. QED
  BY <1>1, <1>2, <1>3, <1>4, <1>5, <1>6, <1>7 DEF Next, Run, Attempt, Replan

LEMMA OrderStep ==
  ASSUME TypeOK, DependencyOrder, StatusStep PROVE DependencyOrder'
<1>0. /\ plan \in Plans /\ status \in [NodeIds -> Statuses] /\ plan.nodes \subseteq NodeIds
      /\ \A n \in plan.nodes : plan.deps[n] \subseteq plan.nodes
  BY PlanFacts DEF TypeOK
<1>1. CASE UNCHANGED <<plan, status>>
  BY <1>1 DEF DependencyOrder
<1>2. CASE UNCHANGED plan /\ status' = AfterBlocking(plan, status)
  <2>1. \A n \in plan.nodes : status'[n] \in {status[n], "blocked"}
    BY <1>0, <1>2, StatusFacts
  <2>2. \A n \in plan.nodes : status[n] = "completed" => status'[n] = "completed"
    BY <1>0, <1>2, StatusFacts DEF Unstarted
  <2>3. QED BY <1>0, <1>2, <2>1, <2>2 DEF DependencyOrder
<1>3. CASE UNCHANGED plan /\ status' = AfterReady(plan, status)
  <2>1. \A n \in plan.nodes : status[n] = "completed" => status'[n] = "completed"
    BY <1>0, <1>3, StatusFacts DEF Unstarted
  <2>2. ASSUME NEW n \in plan.nodes, status'[n] # status[n]
        PROVE  \A d \in plan.deps[n] : status[d] = "completed"
    BY <1>0, <1>3, <2>2, StatusFacts
  <2>3. QED BY <1>0, <1>3, <2>1, <2>2 DEF DependencyOrder
<1>4. CASE /\ UNCHANGED plan
           /\ node \in plan.nodes /\ status[node] \in {"ready", "running"}
           /\ \E s \in Statuses : status' = [status EXCEPT ![node] = s]
  <2>1. \A d \in plan.deps[node] : status[d] = "completed"
    BY <1>4 DEF DependencyOrder
  <2>2. \A n \in plan.nodes : n # node => status'[n] = status[n]
    BY <1>0, <1>4
  <2>3. \A n \in plan.nodes : status[n] = "completed" => status'[n] = "completed"
    BY <1>4, <2>2
  <2>4. QED BY <1>0, <1>4, <2>1, <2>2, <2>3 DEF DependencyOrder
<1>5. CASE /\ plan' \in Plans /\ CanReplace(plan, status, plan')
           /\ status' = AfterReplacement(plan, status)
  <2>1. SUFFICES ASSUME NEW n \in plan'.nodes,
                        status'[n] \in {"ready", "running", "completed", "failed"},
                        NEW d \in plan'.deps[n]
                 PROVE  status'[d] = "completed"
    BY DEF DependencyOrder
  <2>2. n \in NodeIds
    BY <1>5, PlanFacts
  <2>3. n \in plan.nodes /\ status[n] = "completed"
    BY <1>0, <1>5, <2>1, <2>2, StatusFacts
  <2>4. d \in plan.deps[n]
    BY <1>5, <2>1, <2>3 DEF CanReplace, NodesIn
  <2>5. d \in plan.nodes /\ status[d] = "completed"
    BY <1>0, <2>3, <2>4 DEF DependencyOrder
  <2>6. QED BY <1>0, <1>5, <2>5, StatusFacts
<1>6. QED BY <1>1, <1>2, <1>3, <1>4, <1>5 DEF StatusStep

\* The inductive invariant behind the theorems below.  DependencyOrder alone is
\* not inductive: that only the node being handled changes status, and only out
\* of "ready" or "running", is what Control adds.
OrderInv == TypeOK /\ Control /\ DependencyOrder

LEMMA InitOrder == Init => OrderInv
BY InitTypes DEF Init, OrderInv, Control, DependencyOrder, TypeOK, Plans

THEOREM OrderInvariant == Spec => []OrderInv
<1>1. OrderInv /\ [Next]_vars => OrderInv'
  BY TypeStep, ControlStep, EveryStatusStep, OrderStep DEF OrderInv
<1>2. QED BY InitOrder, <1>1, PTL DEF Spec

\* Every variable of the scheduler always holds what the code can put there.
THEOREM TypeCorrect == Spec => []TypeOK
<1>1. OrderInv => TypeOK
  BY DEF OrderInv
<1>2. QED BY <1>1, OrderInvariant, PTL

\* Nodes always run on top of completed dependencies (mark_running after
\* ready_nodes), also across a replan that rewires the graph.
THEOREM OrderIsKept == Spec => []DependencyOrder
<1>1. OrderInv => DependencyOrder
  BY DEF OrderInv
<1>2. QED BY <1>1, OrderInvariant, PTL

-----------------------------------------------------------------------------
(* Completed work                                                          *)

\* Attempts only grow on the node being handled, and a replan forgets none of
\* a completed node's.
LEMMA AttemptsOfCompleted ==
  ASSUME TypeOK, Control, [Next]_vars, NEW n \in Completed PROVE attempts'[n] = attempts[n]
<1>0. n \in NodeIds /\ n \in plan.nodes /\ status[n] = "completed"
  BY PlanFacts DEF Completed, NodesIn, TypeOK
<1>1. CASE RunToEnd \/ OpenWindow \/ Iterate
  BY <1>1
  DEF RunToEnd, OpenWindow, Enter, Iterate, LoopEnds, BeginIteration, ApplyRequirementChange,
      NoRequirementChange, SelectReady, graphVars
<1>2. CASE CapabilityUnavailable \/ StartAttempt
  <2>1. n # node
    BY <1>0, <1>2 DEF CapabilityUnavailable, StartAttempt, Control
  <2>2. QED BY <1>0, <1>2, <2>1 DEF CapabilityUnavailable, StartAttempt, TypeOK
<1>3. CASE ExecutorCompletes \/ ExecutorBlocks \/ ExecutorFails \/ InjectFault \/ InjectionRaises
  BY <1>3
  DEF ExecutorCompletes, ExecutorBlocks, ExecutorFails, InjectFault, Recover, InjectionRaises,
      graphVars
<1>4. CASE Replan
  BY <1>0, <1>4 DEF Replan, ReplanAccepted, ReplanRejected, graphVars
<1>5. CASE Leave \/ Enqueue \/ UNCHANGED vars
  BY <1>5 DEF Leave, CheckWindow, Finish, Enqueue, vars, graphVars
<1>6. QED BY <1>1, <1>2, <1>3, <1>4, <1>5 DEF Next, Run, Attempt

LEMMA FinalStep ==
  ASSUME TypeOK, StatusStep, NEW n \in Completed
  PROVE  n \in plan'.nodes /\ plan'.deps[n] = plan.deps[n] /\ status'[n] = "completed"
<1>0. /\ n \in NodeIds /\ n \in plan.nodes /\ status[n] = "completed"
      /\ plan \in Plans /\ status \in [NodeIds -> Statuses]
  BY PlanFacts DEF Completed, NodesIn, TypeOK
<1>1. CASE UNCHANGED plan
  BY <1>0, <1>1, StatusFacts DEF StatusStep, Unstarted
<1>2. CASE CanReplace(plan, status, plan') /\ status' = AfterReplacement(plan, status)
  BY <1>0, <1>2, StatusFacts DEF CanReplace, NodesIn
<1>3. QED BY <1>1, <1>2 DEF StatusStep

\* A completed node stays completed, with its dependencies and its attempts,
\* through retries, blocking, requirement changes and replans
\* (merge_full_replacement_graph, block_failed_dependencies).
THEOREM CompletedStays == Spec => CompletedIsFinal
<1>1. OrderInv /\ [Next]_vars =>
        [\A n \in Completed :
           /\ n \in plan'.nodes /\ plan'.deps[n] = plan.deps[n]
           /\ status'[n] = "completed" /\ attempts'[n] = attempts[n]]_vars
  BY EveryStatusStep, FinalStep, AttemptsOfCompleted DEF OrderInv
<1>2. QED BY <1>1, OrderInvariant, PTL DEF Spec, CompletedIsFinal

-----------------------------------------------------------------------------
(* RunState mirrors the graph                                              *)

LEMMA RecordMirrors ==
  ASSUME NEW p, NEW v, NEW st, p.nodes \subseteq NodeIds, RecordGraph(p, v, st)
  PROVE  /\ rsVersion' = v
         /\ \A n \in p.nodes : rsNodes'[n] = st[n]
         /\ \A n \in NodeIds \ p.nodes : rsNodes'[n] = "absent"
BY DEF RecordGraph

LEMMA MirrorStep ==
  ASSUME TypeOK, Control, RunStateMirrors, [Next]_vars PROVE RunStateMirrors'
<1>0. plan \in Plans /\ status \in [NodeIds -> Statuses] /\ plan.nodes \subseteq NodeIds
  BY PlanFacts DEF TypeOK
<1>1. CASE RunToEnd \/ OpenWindow
  <2>1. CASE rsVersion = 0
    BY <1>0, <1>1, <2>1, RecordMirrors DEF RunToEnd, OpenWindow, Enter, RunStateMirrors
  <2>2. CASE rsVersion # 0
    <3>1. \A n \in plan.nodes : Normal(status'[n]) = Normal(status[n])
      BY <1>0, <1>1, StatusFacts DEF RunToEnd, OpenWindow, Enter, Normal, Unstarted
    <3>2. UNCHANGED <<rsNodes, rsVersion, plan, version>>
      BY <1>1, <2>2 DEF RunToEnd, OpenWindow, Enter, runStateVars
    <3>3. \A n \in plan.nodes : rsNodes[n] = Normal(status[n]) \/ rsNodes[n] = status[n]
      BY <2>2 DEF RunStateMirrors
    <3>4. \A n \in plan.nodes : rsNodes[n] = Normal(status'[n]) \/ rsNodes[n] = status'[n]
      BY <1>0, <1>1, <3>1, <3>3, StatusFacts DEF RunToEnd, OpenWindow, Enter, Normal, Unstarted
    <3>5. QED BY <2>2, <3>2, <3>4 DEF RunStateMirrors
  <2>3. QED BY <2>1, <2>2
<1>2. CASE BeginIteration
  <2>1. \A n \in plan.nodes : \/ rsNodes'[n] = rsNodes[n] /\ status'[n] = status[n]
                              \/ rsNodes'[n] = "blocked" /\ status'[n] = "blocked"
    BY <1>0, <1>2 DEF BeginIteration, AfterBlocking
  <2>2. \A n \in NodeIds \ plan.nodes : rsNodes'[n] = rsNodes[n]
    BY <1>2 DEF BeginIteration, BlockedByFailure, NodesIn
  <2>3. QED BY <1>2, <2>1, <2>2 DEF BeginIteration, RunStateMirrors
<1>3. CASE ApplyRequirementChange
  BY <1>0, <1>3, RecordMirrors DEF ApplyRequirementChange, RunStateMirrors
<1>4. CASE SelectReady
  <2>1. \A n \in plan.nodes : \/ status'[n] = status[n]
                              \/ status'[n] = "ready" /\ status[n] \in Unstarted
    BY <1>0, <1>4, StatusFacts DEF SelectReady
  <2>2. \A n \in plan.nodes : rsVersion # 0 =>
           rsNodes[n] = Normal(status'[n]) \/ rsNodes[n] = status'[n]
    BY <2>1 DEF RunStateMirrors, Normal, Unstarted
  <2>3. QED BY <1>4, <2>2 DEF SelectReady, runStateVars, RunStateMirrors
<1>5. CASE ReplanAccepted
  BY <1>5, RecordMirrors, PlanFacts, SchedulerAssumption DEF ReplanAccepted, RunStateMirrors
<1>6. CASE CapabilityUnavailable \/ StartAttempt \/ ExecutorCompletes \/ ExecutorBlocks
             \/ ExecutorFails \/ InjectFault
  <2>0. node \in plan.nodes /\ node \in NodeIds
    BY <1>0, <1>6
    DEF CapabilityUnavailable, StartAttempt, ExecutorCompletes, ExecutorBlocks, ExecutorFails,
        InjectFault, Control
  <2>1. /\ plan' = plan /\ version' = version /\ rsVersion' = rsVersion
        /\ \/ UNCHANGED <<status, rsNodes>>
           \/ \E s \in Statuses : /\ status' = [status EXCEPT ![node] = s]
                                  /\ rsNodes' = [rsNodes EXCEPT ![node] = s]
    BY <1>6
    DEF CapabilityUnavailable, StartAttempt, ExecutorCompletes, ExecutorBlocks, ExecutorFails,
        InjectFault, Recover, TryAgainOn, Settle, Statuses
  <2>2. \A n \in plan.nodes : \/ status'[n] = status[n] /\ rsNodes'[n] = rsNodes[n]
                              \/ status'[n] = rsNodes'[n]
    BY <1>0, <2>0, <2>1 DEF TypeOK
  <2>3. \A n \in NodeIds \ plan.nodes : rsNodes'[n] = rsNodes[n]
    BY <2>0, <2>1 DEF TypeOK
  <2>4. QED BY <2>1, <2>2, <2>3 DEF RunStateMirrors
<1>7. CASE LoopEnds \/ NoRequirementChange \/ InjectionRaises \/ ReplanRejected \/ Leave
             \/ Enqueue \/ UNCHANGED vars
  BY <1>7
  DEF LoopEnds, NoRequirementChange, InjectionRaises, ReplanRejected, Leave, CheckWindow, Finish,
      Enqueue, vars, graphVars, runStateVars, RunStateMirrors
<1>8. QED
  BY <1>1, <1>2, <1>3, <1>4, <1>5, <1>6, <1>7 DEF Next, Run, Iterate, Attempt, Replan

\* Every transition the scheduler makes reaches RunState in the same step
\* (start_node, record_node_result, schedule_node_recovery, block_node,
\* record_task_graph), so both always tell the same story.
THEOREM MirrorIsKept == Spec => []RunStateMirrors
<1>1. Init => RunStateMirrors
  BY DEF Init, RunStateMirrors
<1>2. OrderInv /\ RunStateMirrors /\ [Next]_vars => RunStateMirrors'
  BY MirrorStep DEF OrderInv
<1>3. QED BY <1>1, <1>2, OrderInvariant, PTL DEF Spec

-----------------------------------------------------------------------------
(* Budgets                                                                 *)

WithinBudget(n) ==
  /\ history[n].retries <= MaxNodeRetries
  /\ history[n].retries <= NodeRetryLimit[n]
  /\ history[n].switches <= MaxExecutorSwitches

\* An unstarted node that was attempted before is pinned to an executor that
\* record_attempt will accept, and belongs to the open window.
Promised(n) ==
  /\ forced[n] # NoExecutor
  /\ AttemptAllowed(history[n], forced[n])
  /\ forced[n] = history[n].last => history[n].retries < NodeRetryLimit[n]
  /\ targets # {} => n \in targets

\* BudgetsRespected is not inductive: the decision that grants an attempt and
\* the attempt are several steps apart, and opening a window forgets the pins.
BudgetInv ==
  /\ \A n \in NodeIds : WithinBudget(n)
  /\ \A n \in NodeIds : history[n].last # NoExecutor => history[n].last \in history[n].tried
  /\ replans <= MaxReplans
  /\ pc = "replan" => replans < MaxReplans
  /\ pc # "attempt_limit_error"
  /\ pc = "execute" => history[node].last = executor
  /\ pc \in {"attempt", "execute"} /\ targets # {} => node \in targets
  /\ \A n \in plan.nodes :
       status[n] \in Unstarted /\ history[n].last # NoExecutor => pc # "caller" /\ Promised(n)

LEMMA InitBudget == Init => BudgetInv
BY RecoveryAssumption, SchedulerAssumption
DEF Init, BudgetInv, WithinBudget, NoHistory, Plans

LEMMA EnterBudget ==
  ASSUME TypeOK, BudgetInv, RunToEnd \/ OpenWindow PROVE BudgetInv'
<1>1. /\ pc = "caller" /\ pc' = "loop" /\ UNCHANGED <<plan, history, replans>>
      /\ status' = status \/ status' = AfterReady(plan, status)
  BY DEF RunToEnd, OpenWindow, Enter, recoveryVars
<1>2. \A n \in plan.nodes : status'[n] \in Unstarted => status[n] \in Unstarted
  BY <1>1, PlanFacts, StatusFacts DEF TypeOK
<1>3. QED BY <1>1, <1>2 DEF BudgetInv, WithinBudget

LEMMA IterateBudget == ASSUME TypeOK, BudgetInv, Iterate PROVE BudgetInv'
<1>1. /\ UNCHANGED <<plan, history, replans, forced, targets>>
      /\ pc # "caller" /\ pc' \notin {"caller", "replan", "execute", "attempt_limit_error"}
  BY DEF Iterate, LoopEnds, BeginIteration, ApplyRequirementChange, NoRequirementChange,
         SelectReady, graphVars, recoveryVars
<1>2. \A n \in plan.nodes : status'[n] \in Unstarted => status[n] \in Unstarted
  BY PlanFacts, StatusFacts
  DEF TypeOK, Iterate, LoopEnds, BeginIteration, ApplyRequirementChange, NoRequirementChange,
      SelectReady, graphVars, Unstarted
<1>3. pc' = "attempt" /\ targets # {} => node' \in targets
  BY DEF Iterate, LoopEnds, BeginIteration, ApplyRequirementChange, NoRequirementChange,
         SelectReady, First, Usable, Errors
<1>4. QED BY <1>1, <1>2, <1>3 DEF BudgetInv, WithinBudget, Promised

LEMMA StartBudget == ASSUME TypeOK, Control, BudgetInv, StartAttempt PROVE BudgetInv'
<1>0. /\ node \in plan.nodes /\ node \in NodeIds /\ status[node] = "ready" /\ pc = "attempt"
      /\ plan.nodes \subseteq NodeIds
      /\ UNCHANGED <<plan, node, targets, replans>>
  BY PlanFacts DEF StartAttempt, Control, TypeOK
<1>1. PICK e \in Selectable(node) :
        /\ Unforce(node) /\ executor' = e
        /\ IF AttemptAllowed(history[node], e)
           THEN /\ history' = [history EXCEPT ![node] = AfterAttempt(@, e)]
                /\ status' = [status EXCEPT ![node] = "running"]
                /\ pc' = "execute"
           ELSE pc' = "attempt_limit_error"
  BY DEF StartAttempt
<1>2. e \in Executors /\ e # NoExecutor
  BY <1>0, SchedulerAssumption, RecoveryAssumption DEF Selectable
<1>3. forced[node] # NoExecutor => e = forced[node]
  BY <1>1 DEF Selectable
<1>4. /\ AttemptAllowed(history[node], e)
      /\ IsRetry(history[node], e) => history[node].retries < NodeRetryLimit[node]
  <2>1. CASE history[node].last = NoExecutor
    BY <1>2, <2>1 DEF AttemptAllowed, IsRetry, IsSwitch
  <2>2. CASE history[node].last # NoExecutor
    BY <1>0, <1>3, <2>2 DEF BudgetInv, Promised, Unstarted, IsRetry
  <2>3. QED BY <2>1, <2>2
<1>5. /\ history' = [history EXCEPT ![node] = AfterAttempt(@, e)]
      /\ status' = [status EXCEPT ![node] = "running"] /\ pc' = "execute"
      /\ forced' = [forced EXCEPT ![node] = NoExecutor]
  BY <1>1, <1>4 DEF Unforce
<1>6. WithinBudget(node)' /\ history'[node].last = e /\ e \in history'[node].tried
  <2>1. history'[node] = AfterAttempt(history[node], e) /\ history[node] \in Histories
    BY <1>0, <1>5 DEF TypeOK
  <2>2. history[node].retries \in Nat /\ history[node].switches \in Nat
    BY <2>1 DEF Histories
  <2>3. /\ MaxNodeRetries \in Nat /\ MaxExecutorSwitches \in Nat
        /\ NodeRetryLimit[node] \in Nat
    BY <1>0, RecoveryAssumption, SchedulerAssumption
  <2>4. WithinBudget(node)
    BY <1>0 DEF BudgetInv
  <2>5. QED
    BY <1>0, <1>4, <2>1, <2>2, <2>3, <2>4
    DEF WithinBudget, AfterAttempt, AttemptAllowed, IsRetry, IsSwitch
<1>7. \A n \in NodeIds : n # node =>
        history'[n] = history[n] /\ forced'[n] = forced[n] /\ status'[n] = status[n]
  BY <1>0, <1>5 DEF TypeOK
<1>8. status'[node] = "running"
  BY <1>0, <1>5 DEF TypeOK
<1>9. QED
  BY <1>0, <1>1, <1>5, <1>6, <1>7, <1>8 DEF BudgetInv, WithinBudget, Promised, Unstarted

LEMMA RecoverBudget ==
  ASSUME TypeOK, Control, BudgetInv, pc = "execute", NEW r \in BOOLEAN, Recover(r)
  PROVE  BudgetInv'
<1>0. /\ node \in plan.nodes /\ node \in NodeIds /\ status[node] = "running"
      /\ plan.nodes \subseteq NodeIds /\ executor \in Executors
      /\ history[node].last = executor
      /\ UNCHANGED <<plan, node, targets, history, replans, executor>>
      /\ targets # {} => node \in targets
      /\ executor # NoExecutor
  BY PlanFacts, RecoveryAssumption DEF Recover, Control, TypeOK, BudgetInv, recoveryVars
<1>1. history[node] \in Histories /\ history[node].last \in history[node].tried
  BY <1>0 DEF TypeOK, BudgetInv
<1>2. CASE Retriable(r) /\ TryAgainOn(executor)
  <2>1. /\ AttemptAllowed(history[node], executor)
        /\ history[node].retries < NodeRetryLimit[node]
    BY <1>0, <1>2 DEF Retriable, MayRetry, AttemptAllowed, IsRetry, IsSwitch
  <2>2. /\ status' = [status EXCEPT ![node] = "pending"]
        /\ forced' = [forced EXCEPT ![node] = executor] /\ pc' = "window_check"
    BY <1>2 DEF TryAgainOn, Settle
  <2>3. \A n \in NodeIds : n # node => forced'[n] = forced[n] /\ status'[n] = status[n]
    BY <1>0, <2>2 DEF TypeOK
  <2>4. forced'[node] = executor
    BY <1>0, <2>2 DEF TypeOK
  <2>5. QED BY <1>0, <1>1, <2>1, <2>2, <2>3, <2>4 DEF BudgetInv, WithinBudget, Promised
<1>3. CASE \E e \in Candidates[node] \ history[node].tried : Switchable(r) /\ TryAgainOn(e)
  <2>0. PICK e \in Candidates[node] \ history[node].tried : Switchable(r) /\ TryAgainOn(e)
    BY <1>3
  <2>1. /\ AttemptAllowed(history[node], e) /\ e # history[node].last /\ e # NoExecutor
    BY <1>0, <1>1, <2>0, SchedulerAssumption, RecoveryAssumption
    DEF Switchable, MaySwitch, AttemptAllowed, IsRetry, IsSwitch
  <2>2. /\ status' = [status EXCEPT ![node] = "pending"]
        /\ forced' = [forced EXCEPT ![node] = e] /\ pc' = "window_check"
    BY <2>0 DEF TryAgainOn, Settle
  <2>3. \A n \in NodeIds : n # node => forced'[n] = forced[n] /\ status'[n] = status[n]
    BY <1>0, <2>2 DEF TypeOK
  <2>4. forced'[node] = e
    BY <1>0, <2>2 DEF TypeOK
  <2>5. QED BY <1>0, <1>1, <2>1, <2>2, <2>3, <2>4 DEF BudgetInv, WithinBudget, Promised
<1>4. CASE /\ Settle("failed") /\ UNCHANGED forced
           /\ \/ pc' = "replan" /\ replans < MaxReplans
              \/ pc' = "window_check"
  <2>1. \A n \in NodeIds : n # node => status'[n] = status[n]
    BY <1>0, <1>4 DEF Settle, TypeOK
  <2>2. status'[node] = "failed"
    BY <1>0, <1>4 DEF Settle, TypeOK
  <2>3. QED BY <1>0, <1>4, <2>1, <2>2 DEF BudgetInv, WithinBudget, Promised, Unstarted
<1>5. QED BY <1>2, <1>3, <1>4 DEF Recover, Replannable, MayReplan

LEMMA AttemptBudget == ASSUME TypeOK, Control, BudgetInv, Attempt PROVE BudgetInv'
<1>1. CASE CapabilityUnavailable
  <2>0. /\ node \in plan.nodes /\ node \in NodeIds /\ plan.nodes \subseteq NodeIds
        /\ UNCHANGED <<plan, history, replans, targets, node>>
        /\ \/ pc' = "loop"
           \/ pc' = "replan" /\ replans < MaxReplans
    BY <1>1, PlanFacts DEF CapabilityUnavailable, Control, TypeOK, MayReplan, recoveryVars
  <2>1. \A n \in NodeIds : n # node => status'[n] = status[n] /\ forced'[n] = forced[n]
    BY <1>1, <2>0 DEF CapabilityUnavailable, Unforce, TypeOK
  <2>2. status'[node] = "failed"
    BY <1>1, <2>0 DEF CapabilityUnavailable, TypeOK
  <2>3. QED BY <1>1, <2>0, <2>1, <2>2 DEF CapabilityUnavailable, BudgetInv, WithinBudget, Promised, Unstarted
<1>2. CASE StartAttempt
  BY <1>2, StartBudget
<1>3. CASE ExecutorCompletes \/ ExecutorBlocks
  <2>0. /\ node \in plan.nodes /\ node \in NodeIds /\ plan.nodes \subseteq NodeIds
        /\ UNCHANGED <<plan, history, replans, targets, node, forced>>
        /\ pc' = "window_check" /\ (Settle("completed") \/ Settle("blocked"))
    BY <1>3, PlanFacts DEF ExecutorCompletes, ExecutorBlocks, Control, TypeOK, recoveryVars
  <2>1. \A n \in NodeIds : n # node => status'[n] = status[n]
    BY <2>0 DEF Settle, TypeOK
  <2>2. status'[node] \notin Unstarted
    BY <2>0 DEF Settle, TypeOK, Unstarted
  <2>3. pc # "caller"
    BY <1>3 DEF ExecutorCompletes, ExecutorBlocks
  <2>4. QED BY <2>0, <2>1, <2>2, <2>3 DEF BudgetInv, WithinBudget, Promised
<1>4. CASE ExecutorFails \/ InjectFault
  BY <1>4, RecoverBudget DEF ExecutorFails, InjectFault
<1>5. CASE InjectionRaises
  BY <1>5 DEF InjectionRaises, BudgetInv, WithinBudget, Promised, graphVars, recoveryVars
<1>6. QED BY <1>1, <1>2, <1>3, <1>4, <1>5 DEF Attempt

LEMMA ReplanBudget == ASSUME TypeOK, Control, BudgetInv, Replan PROVE BudgetInv'
<1>0. /\ replans < MaxReplans /\ replans' = replans + 1 /\ replans \in Nat /\ MaxReplans \in Nat
      /\ pc' \in {"loop", "window_check"} /\ pc # "caller"
      /\ UNCHANGED <<node, executor, targets>>
  BY RecoveryAssumption DEF Replan, ReplanAccepted, ReplanRejected, AfterReplan, BudgetInv, TypeOK
<1>1. replans' <= MaxReplans
  BY <1>0
<1>2. CASE ReplanAccepted
  <2>1. /\ plan' \in Plans
        /\ history' = [n \in NodeIds |->
             IF n \in plan'.nodes \ Completed THEN NoHistory ELSE history[n]]
        /\ status' = AfterReplacement(plan, status)
    BY <1>2, SchedulerAssumption DEF ReplanAccepted
  <2>2. \A n \in NodeIds : history'[n] = NoHistory \/ history'[n] = history[n]
    BY <2>1
  <2>3. \A n \in NodeIds : WithinBudget(n)'
    BY <2>2, RecoveryAssumption, SchedulerAssumption DEF BudgetInv, WithinBudget, NoHistory
  <2>4. \A n \in plan'.nodes : status'[n] \in Unstarted => history'[n] = NoHistory
    BY <2>1, PlanFacts, StatusFacts DEF Completed, NodesIn, TypeOK, Unstarted
  <2>5. QED BY <1>0, <1>1, <2>2, <2>3, <2>4 DEF BudgetInv, NoHistory
<1>3. CASE ReplanRejected
  BY <1>0, <1>1, <1>3 DEF ReplanRejected, BudgetInv, WithinBudget, Promised, graphVars
<1>4. QED BY <1>2, <1>3 DEF Replan

LEMMA LeaveBudget == ASSUME TypeOK, Control, BudgetInv, Leave PROVE BudgetInv'
<1>1. CASE CheckWindow
  <2>1. pc' = "caller" => \A n \in plan.nodes : n \in targets => status[n] = "completed"
    BY <1>1 DEF CheckWindow, WindowDone
  <2>2. pc' = "caller" => targets # {}
    BY <1>1 DEF CheckWindow, WindowDone
  <2>3. QED
    BY <1>1, <2>1, <2>2
    DEF CheckWindow, BudgetInv, WithinBudget, Promised, Unstarted, graphVars, recoveryVars
<1>2. CASE Finish
  BY <1>2 DEF Finish, BudgetInv, WithinBudget, Promised, graphVars, recoveryVars
<1>3. QED BY <1>1, <1>2 DEF Leave

LEMMA BudgetStep == ASSUME TypeOK, Control, BudgetInv, [Next]_vars PROVE BudgetInv'
<1>1. CASE Enqueue \/ UNCHANGED vars
  BY <1>1
  DEF Enqueue, vars, BudgetInv, WithinBudget, Promised, graphVars, controlVars, recoveryVars
<1>2. QED
  BY <1>1, EnterBudget, IterateBudget, AttemptBudget, ReplanBudget, LeaveBudget DEF Next, Run

LEMMA BudgetInvariant == Spec => []BudgetInv
<1>1. OrderInv /\ BudgetInv /\ [Next]_vars => BudgetInv'
  BY BudgetStep DEF OrderInv
<1>2. QED BY InitBudget, <1>1, OrderInvariant, PTL DEF Spec

\* Whatever decide_after_failure grants stays inside the run's and the node's
\* budgets, and record_attempt never refuses it, windows and replans included.
THEOREM BudgetsHold == Spec => []BudgetsRespected
<1>1. BudgetInv => BudgetsRespected
  BY DEF BudgetInv, WithinBudget, BudgetsRespected
<1>2. QED BY <1>1, BudgetInvariant, PTL

-----------------------------------------------------------------------------
(* Pinned attempts                                                         *)

\* Blocking and marking leave the ready nodes as they are: a node whose
\* dependencies are completed is in no least blocked set.
LEMMA ReadyIsStable ==
  ASSUME NEW p \in Plans, NEW st \in [NodeIds -> Statuses]
  PROVE  /\ ReadyNodes(p, AfterBlocking(p, st)) = ReadyNodes(p, st)
         /\ ReadyNodes(p, AfterReady(p, st)) = ReadyNodes(p, st)
<1>0. p.nodes \subseteq NodeIds /\ \A n \in p.nodes : p.deps[n] \subseteq p.nodes
  BY PlanFacts
<1>1. ASSUME NEW m \in ReadyNodes(p, st) PROVE m \notin BlockedByFailure(p, st)
  <2>1. m \in NodesIn(p, st, Unstarted) /\ \A d \in p.deps[m] : st[d] = "completed"
    BY <1>1 DEF ReadyNodes
  <2> DEFINE Others == NodesIn(p, st, Unstarted) \ {m}
  <2>2. BlockingClosed(p, st, Others)
    BY <2>1 DEF BlockingClosed, Dead, NodesIn, Unstarted
  <2>3. Others \in SUBSET NodesIn(p, st, Unstarted) /\ m \notin Others
    OBVIOUS
  <2>4. QED BY <2>2, <2>3 DEF BlockedByFailure
<1>2. \A n \in p.nodes : /\ AfterBlocking(p, st)[n] = "completed" <=> st[n] = "completed"
                         /\ AfterReady(p, st)[n] = "completed" <=> st[n] = "completed"
  BY <1>0, StatusFacts DEF Unstarted
<1>3. ReadyNodes(p, AfterBlocking(p, st)) \subseteq ReadyNodes(p, st)
  BY <1>0, <1>2, StatusFacts DEF ReadyNodes, NodesIn, Unstarted
<1>4. ReadyNodes(p, st) \subseteq ReadyNodes(p, AfterBlocking(p, st))
  BY <1>0, <1>1, <1>2 DEF ReadyNodes, NodesIn, AfterBlocking
<1>5. ReadyNodes(p, AfterReady(p, st)) = ReadyNodes(p, st)
  BY <1>0, <1>2, StatusFacts DEF ReadyNodes, NodesIn, Unstarted
<1>6. QED BY <1>3, <1>4, <1>5

\* A pin holds for the smallest usable node, which is the one taken next.
PinInv ==
  /\ \A m \in NodeIds : forced[m] # NoExecutor =>
       /\ m \in First(Usable)
       /\ pc \notin {"execute", "replan"}
       /\ pc = "attempt" => m = node
  /\ pc = "attempt" => node \in First(Usable)
  /\ pc = "execute" => /\ targets # {} => node \in targets
                       /\ \A n \in Usable : node <= n

LEMMA IteratePins == ASSUME TypeOK, PinInv, Iterate PROVE PinInv'
<1>1. /\ UNCHANGED <<plan, forced, targets>> /\ pc \notin {"attempt", "execute"}
      /\ pc' \notin {"execute", "replan"}
      /\ status' \in {status, AfterBlocking(plan, status), AfterReady(plan, status)}
  BY DEF Iterate, LoopEnds, BeginIteration, ApplyRequirementChange, NoRequirementChange,
         SelectReady, graphVars
<1>2. Usable' = Usable
  BY <1>1, ReadyIsStable DEF Usable, TypeOK
<1>3. pc' = "attempt" => node' \in First(Usable)
  BY DEF Iterate, LoopEnds, BeginIteration, ApplyRequirementChange, NoRequirementChange,
         SelectReady, Errors
<1>4. \A m, n \in First(Usable) : m = n
  <2>1. Usable \subseteq Nat
    BY PlanFacts, NodeIdsAssumption DEF Usable, ReadyNodes, NodesIn, TypeOK
  <2>2. QED BY <2>1 DEF First
<1>5. First(Usable)' = First(Usable)
  BY <1>2 DEF First
<1>6. QED BY <1>1, <1>2, <1>3, <1>4, <1>5 DEF PinInv

LEMMA AttemptPins ==
  ASSUME TypeOK, Control, DependencyOrder, PinInv, Attempt PROVE PinInv'
<1>0. /\ plan \in Plans /\ plan.nodes \subseteq NodeIds /\ status \in [NodeIds -> Statuses]
      /\ node \in plan.nodes /\ node \in NodeIds /\ UNCHANGED <<plan, node, targets>>
      /\ pc \in {"attempt", "execute"} /\ NodeIds \subseteq Nat
  BY PlanFacts, NodeIdsAssumption
  DEF Attempt, CapabilityUnavailable, StartAttempt, ExecutorCompletes, ExecutorBlocks,
      ExecutorFails, InjectFault, Recover, InjectionRaises, graphVars, TypeOK, Control
<1>1. CASE CapabilityUnavailable \/ StartAttempt
  <2>1. \A m \in NodeIds : m # node => forced[m] = NoExecutor
    BY <1>1 DEF CapabilityUnavailable, StartAttempt, PinInv
  <2>2. \A m \in NodeIds : forced'[m] = NoExecutor
    BY <1>0, <1>1, <2>1 DEF CapabilityUnavailable, StartAttempt, Unforce, TypeOK
  <2>3. pc' = "execute" => status' = [status EXCEPT ![node] = "running"]
    BY <1>1 DEF CapabilityUnavailable, StartAttempt
  <2>4. status[node] = "ready" /\ node \in First(Usable) /\ pc' # "attempt"
    BY <1>1 DEF CapabilityUnavailable, StartAttempt, Control, PinInv
  <2>5. pc' = "execute" => Usable' \subseteq Usable
    BY <1>0, <2>3, <2>4, PlanFacts DEF Usable, ReadyNodes, NodesIn, Unstarted
  <2>6. QED BY <1>0, <2>2, <2>4, <2>5 DEF PinInv, First, Usable
<1>2. CASE UNCHANGED forced /\ pc = "execute" /\ pc' \notin {"attempt", "execute"}
  BY <1>2 DEF PinInv
<1>3. CASE \E e \in Executors : TryAgainOn(e) /\ pc = "execute"
  <2>1. PICK e \in Executors : TryAgainOn(e) /\ pc = "execute"
    BY <1>3
  <2>2. \A m \in NodeIds : m # node => forced'[m] = NoExecutor
    BY <1>0, <2>1 DEF TryAgainOn, PinInv, TypeOK
  <2>3. status[node] = "running" /\ status' = [status EXCEPT ![node] = "pending"]
    BY <2>1 DEF TryAgainOn, Settle, Control
  <2>4. \A d \in plan.deps[node] : d # node /\ d \in NodeIds /\ status[d] = "completed"
    BY <1>0, <2>3, PlanFacts DEF DependencyOrder
  <2>5. \A d \in plan.deps[node] : status'[d] = "completed"
    BY <1>0, <2>3, <2>4
  <2>6. node \in Usable'
    BY <1>0, <2>1, <2>3, <2>5 DEF Usable, ReadyNodes, NodesIn, Unstarted, PinInv
  <2>7. Usable' \subseteq Usable \cup {node}
    BY <1>0, <2>3, PlanFacts DEF Usable, ReadyNodes, NodesIn, Unstarted
  <2>8. \A n \in Usable' : node <= n
    BY <1>0, <2>1, <2>7 DEF PinInv
  <2>9. QED BY <2>1, <2>2, <2>6, <2>8 DEF PinInv, First, TryAgainOn
<1>4. QED
  BY <1>0, <1>1, <1>2, <1>3, SchedulerAssumption
  DEF Attempt, ExecutorCompletes, ExecutorBlocks, ExecutorFails, InjectFault, InjectionRaises,
      Recover, Control

LEMMA PinStep ==
  ASSUME TypeOK, Control, DependencyOrder, PinInv, [Next]_vars PROVE PinInv'
<1>1. CASE RunToEnd \/ OpenWindow
  BY <1>1 DEF RunToEnd, OpenWindow, Enter, PinInv
<1>2. CASE Replan
  <2>1. \A m \in NodeIds : forced'[m] = NoExecutor
    BY <1>2 DEF Replan, ReplanAccepted, ReplanRejected, PinInv
  <2>2. QED BY <1>2, <2>1 DEF Replan, ReplanAccepted, ReplanRejected, AfterReplan, PinInv
<1>3. CASE Leave \/ Enqueue \/ UNCHANGED vars
  BY <1>3
  DEF Leave, CheckWindow, Finish, Enqueue, vars, graphVars, controlVars, PinInv, Usable, First
<1>4. QED BY <1>1, <1>2, <1>3, IteratePins, AttemptPins DEF Next, Run

\* The node whose retry or switch was decided is the next one executed, on the
\* executor that was decided.
THEOREM PinsAreHonoured == Spec => []PinnedRunsNext
<1>1. Init => PinInv
  BY DEF Init, PinInv
<1>2. OrderInv /\ PinInv /\ [Next]_vars => PinInv'
  BY PinStep DEF OrderInv
<1>3. PinInv => PinnedRunsNext
  BY DEF PinInv, PinnedRunsNext
<1>4. QED BY <1>1, <1>2, <1>3, OrderInvariant, PTL DEF Spec

-----------------------------------------------------------------------------
(* No deadlock                                                             *)

\* The least blocked set is closed, so blocking leaves no unstarted node on top
\* of a dead one.
LEMMA BlockingIsComplete ==
  ASSUME NEW p \in Plans, NEW st \in [NodeIds -> Statuses],
         NEW n \in p.nodes, AfterBlocking(p, st)[n] \in Unstarted, NEW d \in p.deps[n]
  PROVE  AfterBlocking(p, st)[d] \notin Dead
<1>0. n \in NodeIds /\ d \in NodeIds /\ d \in p.nodes
  BY PlanFacts
<1>1. n \in NodesIn(p, st, Unstarted) /\ n \notin BlockedByFailure(p, st)
  BY <1>0, StatusFacts DEF NodesIn, AfterBlocking, Unstarted
<1>2. PICK S \in SUBSET NodesIn(p, st, Unstarted) : BlockingClosed(p, st, S) /\ n \notin S
  BY <1>1 DEF BlockedByFailure
<1>3. st[d] \notin Dead /\ d \notin S
  BY <1>1, <1>2 DEF BlockingClosed
<1>4. d \notin BlockedByFailure(p, st)
  BY <1>2, <1>3 DEF BlockedByFailure
<1>5. QED BY <1>0, <1>3, <1>4 DEF AfterBlocking

\* A graph without a failed dependency and without a running node is finished
\* or has a ready node: some unstarted node has no unstarted dependency.
LEMMA ProgressExists ==
  ASSUME NEW p \in Plans, NEW st \in [NodeIds -> Statuses],
         \A n \in p.nodes : st[n] # "running",
         \A n \in p.nodes : st[n] \in Unstarted => \A d \in p.deps[n] : st[d] \notin Dead
  PROVE  IsFinished(p, st) \/ ReadyNodes(p, st) # {}
<1>0. p.nodes \subseteq NodeIds
  BY PlanFacts
<1> DEFINE U == NodesIn(p, st, Unstarted)
<1>1. SUFFICES ASSUME ~ IsFinished(p, st) PROVE ReadyNodes(p, st) # {}
  OBVIOUS
<1>2. U # {} /\ U \in SUBSET p.nodes
  BY <1>0, <1>1 DEF IsFinished, NodesIn, Terminal, Unstarted, Statuses
<1>3. PICK n \in U : p.deps[n] \cap U = {}
  BY <1>2, PlanFacts DEF Acyclic
<1>4. \A d \in p.deps[n] : st[d] = "completed"
  BY <1>0, <1>2, <1>3, PlanFacts DEF NodesIn, Unstarted, Dead, Statuses
<1>5. QED BY <1>3, <1>4 DEF ReadyNodes

\* What keeps a run that no replan can disturb under an open window going.
ProgressInv ==
  /\ pc # "deadlock_error"
  /\ pc = "replan" => HasPlanner
  /\ HasPlanner => targets = {}
  /\ \A t \in targets : /\ t \in plan.nodes
                        /\ status[t] \in Unstarted =>
                             \A d \in plan.deps[t] : status[d] = "completed"
  /\ pc \in {"amend", "select"} =>
       \A n \in plan.nodes : status[n] \in Unstarted => \A d \in plan.deps[n] : status[d] \notin Dead

LEMMA SelectProgress ==
  ASSUME TypeOK, Control, ProgressInv, SelectReady PROVE pc' # "deadlock_error"
<1>0. plan \in Plans /\ status \in [NodeIds -> Statuses] /\ plan.nodes \subseteq NodeIds
  BY PlanFacts DEF TypeOK
<1>1. IsFinished(plan, status) \/ ReadyNodes(plan, status) # {}
  BY <1>0, ProgressExists DEF SelectReady, Control, ProgressInv
<1>2. ASSUME Usable = {}, ReadyNodes(plan, status) # {}
      PROVE  targets \subseteq Completed \/ \E n \in targets : status[n] \in Dead
  <2>1. targets \cap ReadyNodes(plan, status) = {}
    BY <1>2 DEF Usable
  <2>2. \A t \in targets : status[t] \notin Unstarted
    BY <2>1 DEF ProgressInv, ReadyNodes, NodesIn
  <2>3. \A t \in targets : t \in plan.nodes /\ status[t] # "running"
    BY DEF ProgressInv, Control, SelectReady
  <2>4. \A t \in targets : status[t] = "completed" \/ status[t] \in Dead
    BY <1>0, <2>2, <2>3 DEF Unstarted, Dead, Statuses
  <2>5. QED BY <2>3, <2>4 DEF Completed, NodesIn
<1>3. targets \subseteq plan.nodes
  BY DEF ProgressInv
<1>4. QED BY <1>1, <1>2, <1>3 DEF SelectReady

LEMMA ProgressStep ==
  ASSUME ~Windowed \/ ~HasPlanner, TypeOK, Control, DependencyOrder, ProgressInv, [Next]_vars
  PROVE  ProgressInv'
<1>0. /\ plan \in Plans /\ status \in [NodeIds -> Statuses] /\ plan.nodes \subseteq NodeIds
      /\ \A n \in plan.nodes : plan.deps[n] \subseteq plan.nodes
  BY PlanFacts DEF TypeOK
<1>1. CASE RunToEnd
  BY <1>1 DEF RunToEnd, Enter, ProgressInv
<1>2. CASE OpenWindow
  <2>1. targets' \subseteq ReadyNodes(plan, status)
    BY <1>2 DEF OpenWindow, Enter, FirstK
  <2>2. \A n \in plan.nodes : status[n] = "completed" => status'[n] = "completed"
    BY <1>0, <1>2, StatusFacts DEF OpenWindow, Enter, Unstarted
  <2>3. \A t \in targets' : t \in plan.nodes /\ \A d \in plan.deps[t] : status'[d] = "completed"
    BY <1>0, <2>1, <2>2 DEF ReadyNodes, NodesIn
  <2>4. ~HasPlanner
    BY <1>2 DEF OpenWindow
  <2>5. QED BY <1>2, <2>3, <2>4 DEF OpenWindow, Enter, ProgressInv
<1>3. CASE Iterate
  <2>1. /\ UNCHANGED <<plan, targets>> /\ pc' # "replan"
        /\ status' \in {status, AfterBlocking(plan, status), AfterReady(plan, status)}
    BY <1>3
    DEF Iterate, LoopEnds, BeginIteration, ApplyRequirementChange, NoRequirementChange,
        SelectReady, graphVars
  <2>2. \A n \in plan.nodes : /\ status'[n] \in Unstarted => status[n] \in Unstarted
                              /\ status[n] = "completed" => status'[n] = "completed"
    BY <1>0, <2>1, StatusFacts DEF Unstarted
  <2>3. \A t \in targets : /\ t \in plan.nodes
                           /\ status'[t] \in Unstarted =>
                                \A d \in plan.deps[t] : status'[d] = "completed"
    BY <1>0, <2>2 DEF ProgressInv
  <2>4. pc' \in {"amend", "select"} =>
          \A n \in plan.nodes : status'[n] \in Unstarted =>
             \A d \in plan.deps[n] : status'[d] \notin Dead
    <3>1. CASE BeginIteration
      BY <1>0, <3>1, BlockingIsComplete DEF BeginIteration
    <3>2. CASE ApplyRequirementChange \/ NoRequirementChange
      <4>1. \A n \in plan.nodes : status'[n] \in Dead => status[n] \in Dead
        BY <1>0, <3>2, StatusFacts
        DEF ApplyRequirementChange, NoRequirementChange, graphVars, Dead
      <4>2. QED
        BY <1>0, <2>2, <3>2, <4>1 DEF ApplyRequirementChange, NoRequirementChange, ProgressInv
    <3>3. CASE LoopEnds \/ SelectReady
      BY <3>3 DEF LoopEnds, SelectReady, Errors
    <3>4. QED BY <1>3, <3>1, <3>2, <3>3 DEF Iterate
  <2>5. pc' # "deadlock_error"
    BY <1>3, SelectProgress
    DEF Iterate, LoopEnds, BeginIteration, ApplyRequirementChange, NoRequirementChange
  <2>6. QED BY <2>1, <2>3, <2>4, <2>5 DEF ProgressInv
<1>4. CASE Attempt
  <2>0. /\ UNCHANGED <<plan, targets>>
        /\ pc' \notin {"deadlock_error", "amend", "select"}
        /\ pc' = "replan" => HasPlanner
        /\ node \in plan.nodes /\ status[node] \in {"ready", "running"}
        /\ \/ status' = status
           \/ \E s \in Statuses : status' = [status EXCEPT ![node] = s]
    BY <1>4
    DEF Attempt, CapabilityUnavailable, StartAttempt, ExecutorCompletes, ExecutorBlocks,
        ExecutorFails, InjectFault, Recover, TryAgainOn, Settle, InjectionRaises, graphVars,
        MayReplan, Replannable, Control, Statuses
  <2>1. \A n \in plan.nodes : status[n] = "completed" => status'[n] = "completed"
    BY <1>0, <2>0
  <2>2. \A d \in plan.deps[node] : status[d] = "completed"
    BY <2>0 DEF DependencyOrder
  <2>3. \A n \in plan.nodes : n # node => status'[n] = status[n]
    BY <1>0, <2>0
  <2>4. \A t \in targets : status'[t] \in Unstarted => \A d \in plan.deps[t] : status'[d] = "completed"
    BY <1>0, <2>1, <2>2, <2>3 DEF ProgressInv
  <2>5. QED BY <2>0, <2>4 DEF ProgressInv
<1>5. CASE Replan
  <2>1. targets = {} /\ targets' = targets
    BY <1>5 DEF Replan, ReplanAccepted, ReplanRejected, ProgressInv
  <2>2. QED BY <1>5, <2>1 DEF Replan, ReplanAccepted, ReplanRejected, AfterReplan, ProgressInv
<1>6. CASE Leave \/ Enqueue \/ UNCHANGED vars
  BY <1>6
  DEF Leave, CheckWindow, Finish, Enqueue, vars, graphVars, controlVars, ProgressInv
<1>7. QED BY <1>1, <1>2, <1>3, <1>4, <1>5, <1>6 DEF Next, Run

\* A run to the end, and a windowed run without a planner, never stops with
\* GraphDeadlockError.  (With both, it does: see DeadlockMeansStuck.)
THEOREM NeverStuck == Spec => [](~Windowed \/ ~HasPlanner => NoDeadlockError)
<1> DEFINE Inv == ~Windowed \/ ~HasPlanner => ProgressInv
<1>1. Init => Inv
  BY DEF Init, ProgressInv
<1>2. OrderInv /\ Inv /\ [Next]_vars => Inv'
  BY ProgressStep DEF OrderInv
<1>3. Inv => (~Windowed \/ ~HasPlanner => NoDeadlockError)
  BY DEF ProgressInv, NoDeadlockError
<1> HIDE DEF Inv
<1>4. QED BY <1>1, <1>2, <1>3, OrderInvariant, PTL DEF Spec

=============================================================================
