----------------------- MODULE GraphSchedulerOutcomes ------------------------
(***************************************************************************)
(* Proofs about what GraphScheduler leaves behind: the outcome, the        *)
(* snapshot on disk, the attempts counted and the injections recovered.    *)
(***************************************************************************)
EXTENDS GraphSchedulerRefinement

-----------------------------------------------------------------------------
(* Completed nodes                                                         *)

\* Only an executor completes a node, and no step takes that back.
LEMMA CompletedStep ==
  ASSUME TypeOK, Control, [Next]_vars
  PROVE  /\ Completed \subseteq Completed'
         /\ Completed' # Completed =>
              ExecutorCompletes /\ Completed' \subseteq Completed \cup {node}
<1>0. plan \in Plans /\ plan.nodes \subseteq NodeIds /\ status \in [NodeIds -> Statuses]
  BY PlanFacts DEF TypeOK
<1>1. Completed \subseteq Completed'
  BY EveryStatusStep, FinalStep DEF Completed, NodesIn
<1>2. CASE ExecutorCompletes
  <2>1. plan' = plan /\ status' = [status EXCEPT ![node] = "completed"]
    BY <1>2 DEF ExecutorCompletes, Settle
  <2>2. QED
    BY <1>0, <1>1, <1>2, <2>1 DEF Completed, NodesIn
<1>3. CASE ReplanAccepted
  <2>1. plan' \in Plans /\ status' = AfterReplacement(plan, status)
    BY <1>3, SchedulerAssumption DEF ReplanAccepted
  <2>2. \A n \in plan'.nodes : status'[n] = "completed" => n \in Completed
    BY <1>0, <2>1, PlanFacts, StatusFacts DEF Completed, NodesIn
  <2>3. QED
    BY <1>1, <2>2 DEF Completed, NodesIn
<1>4. CASE CapabilityUnavailable \/ StartAttempt \/ ExecutorBlocks \/ ExecutorFails \/ InjectFault
  <2>1. /\ plan' = plan
        /\ \/ status' = status
           \/ \E s \in {"blocked", "failed", "pending", "running"} :
                status' = [status EXCEPT ![node] = s]
    BY <1>4 DEF CapabilityUnavailable, StartAttempt, ExecutorBlocks, ExecutorFails, InjectFault,
      Recover, TryAgainOn, Settle
  <2>2. \A n \in plan.nodes : status'[n] = "completed" => status[n] = "completed"
    BY <1>0, <2>1
  <2>3. QED
    BY <1>1, <2>1, <2>2 DEF Completed, NodesIn
<1>5. CASE RunToEnd \/ OpenWindow \/ Iterate
  <2>1. plan' = plan /\ status' \in {status, AfterBlocking(plan, status), AfterReady(plan, status)}
    BY <1>5 DEF RunToEnd, OpenWindow, Enter, Iterate, LoopEnds, BeginIteration,
      ApplyRequirementChange, NoRequirementChange, SelectReady, graphVars
  <2>2. \A n \in plan.nodes : status'[n] = "completed" => status[n] = "completed"
    BY <1>0, <2>1, StatusFacts
  <2>3. QED
    BY <1>1, <2>1, <2>2 DEF Completed, NodesIn
<1>6. CASE InjectionRaises \/ ReplanRejected \/ Leave \/ Enqueue \/ UNCHANGED vars
  BY <1>6 DEF InjectionRaises, ReplanRejected, Leave, CheckWindow, Finish, Enqueue, vars, graphVars,
    Completed
<1>7. QED
  BY <1>2, <1>3, <1>4, <1>5, <1>6 DEF Next, Run, Attempt, Replan

-----------------------------------------------------------------------------
(* The snapshot                                                            *)

\* When transitions are written at all, task_graph.json is the graph whenever an
\* executor works, between windows and at the end.
THEOREM SnapshotIsCurrent == Spec => [](PersistTransitions => SnapshotCurrent)
<1> DEFINE Kept == PersistTransitions => SnapshotCurrent
<1>1. Init => Kept
  BY DEF Init, SnapshotCurrent
<1>2. Kept /\ [Next]_vars => Kept'
  <2> SUFFICES ASSUME PersistTransitions, SnapshotCurrent, [Next]_vars PROVE SnapshotCurrent'
    OBVIOUS
  <2>1. CASE StartAttempt \/ CheckWindow \/ Finish
    BY <2>1 DEF StartAttempt, CheckWindow, Finish, SaveGraph, SnapshotCurrent, graphVars, Errors
  <2>2. CASE Enqueue \/ UNCHANGED vars
    BY <2>2 DEF Enqueue, vars, graphVars, controlVars, runStateVars, SnapshotCurrent
  <2>3. CASE RunToEnd \/ OpenWindow \/ Iterate \/ CapabilityUnavailable \/ ExecutorCompletes
               \/ ExecutorBlocks \/ ExecutorFails \/ InjectFault \/ InjectionRaises \/ Replan
    <3>1. pc' \notin {"execute", "caller", "done"}
      BY <2>3 DEF RunToEnd, OpenWindow, Enter, Iterate, LoopEnds, BeginIteration,
        ApplyRequirementChange, NoRequirementChange, SelectReady, Errors, CapabilityUnavailable,
        ExecutorCompletes, ExecutorBlocks, ExecutorFails, InjectFault, InjectionRaises, Recover,
        TryAgainOn, Replan, ReplanAccepted, ReplanRejected, AfterReplan
    <3>2. QED
      BY <3>1 DEF SnapshotCurrent
  <2>4. QED
    BY <2>1, <2>2, <2>3 DEF Next, Run, Attempt, Leave
<1>3. QED
  BY <1>1, <1>2, PTL DEF Spec

-----------------------------------------------------------------------------
(* The outcome                                                             *)

\* What the outcome is computed from: the manifests of all completed nodes, an
\* end that is one, and a failure record no validation has written yet.
OutcomeInv ==
  /\ Completed \subseteq manifest
  /\ EndInv
  /\ rsFailure # "business_validation_failure"
  /\ OutcomeTruthful

LEMMA RecordManifest ==
  ASSUME NEW p, NEW v, NEW st, RecordGraph(p, v, st), Completed \subseteq manifest
  PROVE  \A n \in Completed : n \in p.nodes /\ st[n] = "completed" => n \in manifest'
BY DEF RecordGraph

LEMMA ManifestStep ==
  ASSUME TypeOK, Control, Completed \subseteq manifest, [Next]_vars
  PROVE  Completed' \subseteq manifest'
<1>1. CASE ExecutorCompletes
  BY <1>1, CompletedStep DEF ExecutorCompletes
<1>2. CASE ~ExecutorCompletes
  <2>1. Completed' = Completed
    BY <1>2, CompletedStep
  <2>2. CASE \E v, st : RecordGraph(plan', v, status')
    BY <2>1, <2>2 DEF RecordGraph, Completed, NodesIn
  <2>3. CASE UNCHANGED manifest
    BY <2>1, <2>3
  <2>4. (\E v, st : RecordGraph(plan', v, status')) \/ UNCHANGED manifest
    BY <1>2 DEF Next, Run, RunToEnd, OpenWindow, Enter, Iterate, LoopEnds, BeginIteration,
      ApplyRequirementChange, NoRequirementChange, SelectReady, Attempt, CapabilityUnavailable,
      StartAttempt, ExecutorBlocks, ExecutorFails, InjectFault, InjectionRaises, Recover, Replan,
      ReplanAccepted, ReplanRejected, Leave, CheckWindow, Finish, Enqueue, vars, runStateVars
  <2>5. QED
    BY <2>2, <2>3, <2>4
<1>3. QED
  BY <1>1, <1>2

LEMMA FinishIsTruthful ==
  ASSUME TypeOK, OutcomeInv, Finish
  PROVE  OutcomeTruthful'
<1>1. /\ pc = "finish" /\ rsOutcome' = GraphOutcome /\ UNCHANGED <<plan, status, damaged, manifest>>
  BY DEF Finish, graphVars
<1>2. IntegrityIssues = {} <=> damaged \cap Producers \cap Completed = {}
  BY DEF OutcomeInv, IntegrityIssues
<1>3. GraphOutcome = "success" <=>
        ~HasFailed(plan, status) /\ IntegrityIssues = {} /\ ~HasBlocked(plan, status)
  BY DEF GraphOutcome
<1>4. ~HasFailed(plan, status) /\ ~HasBlocked(plan, status) <=>
        \A n \in plan.nodes : status[n] = "completed"
  BY <1>1 DEF OutcomeInv, EndInv, HasFailed, HasBlocked, IsFinished, Terminal
<1>5. (\A n \in plan.nodes : status[n] = "completed") => Completed = plan.nodes
  BY DEF Completed, NodesIn
<1>6. GraphOutcome = "success" <=>
        (\A n \in plan.nodes : status[n] = "completed") /\ damaged \cap Producers \cap plan.nodes = {}
  BY <1>2, <1>3, <1>4, <1>5
<1>7. rsFailure \in ExecuteFailures \cup {"none"}
  BY DEF OutcomeInv, TypeOK, Failures
<1>8. GraphOutcome = "success" => rsFailure' = "none"
  BY <1>3, <1>7 DEF Finish
<1>9. GraphOutcome = "failed" => rsFailure' # "none"
  BY DEF Finish
<1>10. QED
  BY <1>1, <1>6, <1>8, <1>9 DEF OutcomeTruthful

LEMMA OutcomeStep ==
  ASSUME TypeOK, Control, OutcomeInv, [Next]_vars
  PROVE  OutcomeInv'
<1>1. Completed' \subseteq manifest' /\ EndInv'
  BY ManifestStep, EndStep DEF OutcomeInv
<1>2. rsFailure' # "business_validation_failure"
  <2>1. \/ rsFailure' = rsFailure
        \/ rsFailure' \in ExecuteFailures \cup {"none"}
    BY DEF Next, Run, RunToEnd, OpenWindow, Enter, RecordGraph, Iterate, LoopEnds, BeginIteration,
      ApplyRequirementChange, NoRequirementChange, SelectReady, Attempt, CapabilityUnavailable,
      StartAttempt, ExecutorCompletes, ExecutorBlocks, ExecutorFails, Report, InjectFault,
      InjectionRaises, Replan, ReplanAccepted, ReplanRejected, Leave, CheckWindow, Finish, Enqueue,
      vars, runStateVars, ExecuteFailures
  <2>2. QED
    BY <2>1 DEF OutcomeInv, ExecuteFailures
<1>3. OutcomeTruthful'
  <2>1. CASE Finish
    BY <2>1, FinishIsTruthful
  <2>2. CASE UNCHANGED vars
    BY <2>2 DEF vars, graphVars, controlVars, runStateVars, OutcomeInv, OutcomeTruthful
  <2>3. CASE ~Finish /\ ~UNCHANGED vars
    <3>1. pc' # "done"
      BY <2>3 DEF Next, Run, RunToEnd, OpenWindow, Enter, Iterate, LoopEnds, BeginIteration,
        ApplyRequirementChange, NoRequirementChange, SelectReady, Errors, Attempt,
        CapabilityUnavailable, StartAttempt, ExecutorCompletes, ExecutorBlocks, ExecutorFails,
        InjectFault, InjectionRaises, Recover, TryAgainOn, Replan, ReplanAccepted, ReplanRejected,
        AfterReplan, Leave, CheckWindow, Enqueue, controlVars
    <3>2. QED
      BY <3>1 DEF OutcomeTruthful
  <2>4. QED
    BY <2>1, <2>2, <2>3
<1>4. QED
  BY <1>1, <1>2, <1>3 DEF OutcomeInv

\* The outcome on record is the truth about the graph and its files, and agrees
\* with the failure on record.
THEOREM OutcomeIsTrue == Spec => []OutcomeTruthful
<1>1. Init => OutcomeInv
  BY SchedulerAssumption DEF Init, OutcomeInv, EndInv, OutcomeTruthful, Completed, NodesIn, Plans
<1>2. OrderInv /\ OutcomeInv /\ [Next]_vars => OutcomeInv'
  BY OutcomeStep DEF OrderInv
<1>3. OutcomeInv => OutcomeTruthful
  BY DEF OutcomeInv
<1>4. QED
  BY <1>1, <1>2, <1>3, OrderInvariant, PTL DEF Spec

-----------------------------------------------------------------------------
(* Attempts                                                                *)

\* What pays for an attempt: the first one is free, the others are retries and
\* switches; a node that found no executor is failed, and stays so.
Paid(n) ==
  (IF history[n].last = NoExecutor THEN 0 ELSE 1) + history[n].retries + history[n].switches
    + (IF status[n] \in Dead THEN 1 ELSE 0)

AttemptsInv == \A n \in plan.nodes : attempts[n] <= Paid(n)

LEMMA PaidFacts ==
  ASSUME TypeOK, NEW n \in NodeIds
  PROVE  /\ Paid(n) \in Nat /\ attempts[n] \in Nat
         /\ history[n].retries \in Nat /\ history[n].switches \in Nat
BY DEF TypeOK, Histories, Paid

\* Steps that start nothing: nothing is counted, and who is dead stays dead.
LEMMA NothingStarted ==
  ASSUME TypeOK, AttemptsInv, UNCHANGED <<plan, attempts, history>>,
         \A n \in plan.nodes : status[n] \in Dead => status'[n] \in Dead
  PROVE  AttemptsInv'
<1> SUFFICES ASSUME NEW n \in plan.nodes PROVE attempts[n] <= Paid(n)'
  BY DEF AttemptsInv
<1>1. n \in NodeIds /\ attempts[n] <= Paid(n)
  BY PlanFacts DEF TypeOK, AttemptsInv
<1>2. QED
  BY <1>1, PaidFacts DEF Paid

LEMMA AttemptsStart ==
  ASSUME TypeOK, Control, AttemptsInv, StartAttempt
  PROVE  AttemptsInv'
<1>0. /\ node \in plan.nodes /\ node \in NodeIds /\ status[node] = "ready" /\ plan' = plan
      /\ plan.nodes \subseteq NodeIds /\ node' = node
  BY PlanFacts DEF StartAttempt, Control, TypeOK
<1>1. PICK e \in Selectable(node) :
        \/ UNCHANGED <<history, attempts, status>>
        \/ /\ history' = [history EXCEPT ![node] = AfterAttempt(@, e)]
           /\ attempts' = [attempts EXCEPT ![node] = @ + 1]
           /\ status' = [status EXCEPT ![node] = "running"]
  BY DEF StartAttempt
<1>2. CASE UNCHANGED <<history, attempts, status>>
  BY <1>0, <1>2, NothingStarted
<1>3. CASE /\ history' = [history EXCEPT ![node] = AfterAttempt(@, e)]
           /\ attempts' = [attempts EXCEPT ![node] = @ + 1]
           /\ status' = [status EXCEPT ![node] = "running"]
  <2>1. e \in Executors /\ e # NoExecutor
    BY <1>0, SchedulerAssumption, RecoveryAssumption DEF Selectable
  <2>2. /\ history'[node] = AfterAttempt(history[node], e) /\ attempts'[node] = attempts[node] + 1
        /\ status'[node] = "running"
    BY <1>0, <1>3 DEF TypeOK
  <2>3. \A n \in NodeIds : n # node =>
          history'[n] = history[n] /\ attempts'[n] = attempts[n] /\ status'[n] = status[n]
    BY <1>0, <1>3 DEF TypeOK
  <2>4. attempts[node] <= Paid(node) /\ status[node] \notin Dead
    BY <1>0 DEF AttemptsInv, Dead
  <2>5. attempts'[node] <= Paid(node)'
    BY <1>0, <2>1, <2>2, <2>4, PaidFacts DEF Paid, AfterAttempt, IsRetry, IsSwitch, Dead
  <2>6. \A n \in plan.nodes : n # node => attempts'[n] <= Paid(n)'
    BY <1>0, <2>3 DEF AttemptsInv, Paid
  <2>7. QED
    BY <1>0, <2>5, <2>6 DEF AttemptsInv
<1>4. QED
  BY <1>1, <1>2, <1>3

LEMMA AttemptsStep ==
  ASSUME TypeOK, Control, AttemptsInv, [Next]_vars
  PROVE  AttemptsInv'
<1>0. plan \in Plans /\ plan.nodes \subseteq NodeIds /\ status \in [NodeIds -> Statuses]
  BY PlanFacts DEF TypeOK
<1>1. CASE CapabilityUnavailable
  <2>1. /\ node \in plan.nodes /\ node \in NodeIds /\ status[node] = "ready"
        /\ UNCHANGED <<plan, history, node>>
        /\ attempts' = [attempts EXCEPT ![node] = @ + 1]
        /\ status' = [status EXCEPT ![node] = "failed"]
    BY <1>0, <1>1 DEF CapabilityUnavailable, Control, recoveryVars
  <2>2. attempts'[node] = attempts[node] + 1 /\ status'[node] = "failed"
    BY <2>1 DEF TypeOK
  <2>3. \A n \in NodeIds : n # node => attempts'[n] = attempts[n] /\ status'[n] = status[n]
    BY <2>1 DEF TypeOK
  <2>4. attempts'[node] <= Paid(node)'
    BY <2>1, <2>2, PaidFacts DEF AttemptsInv, Paid, Dead
  <2>5. \A n \in plan.nodes : n # node => attempts'[n] <= Paid(n)'
    BY <1>0, <2>1, <2>3 DEF AttemptsInv, Paid
  <2>6. QED
    BY <2>1, <2>4, <2>5 DEF AttemptsInv
<1>2. CASE StartAttempt
  BY <1>2, AttemptsStart
<1>3. CASE ExecutorCompletes \/ ExecutorBlocks \/ ExecutorFails \/ InjectFault
  <2>1. /\ status[node] = "running" /\ UNCHANGED <<plan, attempts, history>>
        /\ \E s : status' = [status EXCEPT ![node] = s]
    BY <1>3 DEF ExecutorCompletes, ExecutorBlocks, ExecutorFails, InjectFault, Recover, TryAgainOn,
      Settle, Control, recoveryVars
  <2>2. \A n \in plan.nodes : status[n] \in Dead => status'[n] = status[n]
    BY <1>0, <2>1 DEF Dead
  <2>3. QED
    BY <2>1, <2>2, NothingStarted
<1>4. CASE ReplanAccepted
  <2>1. /\ plan' \in Plans
        /\ history' = [n \in NodeIds |->
             IF n \in plan'.nodes \ Completed THEN NoHistory ELSE history[n]]
        /\ attempts' = [n \in NodeIds |-> IF n \in Completed THEN attempts[n] ELSE 0]
        /\ status' = AfterReplacement(plan, status)
    BY <1>4, SchedulerAssumption DEF ReplanAccepted
  <2>2. ASSUME NEW n \in plan'.nodes PROVE attempts'[n] <= Paid(n)'
    <3>1. n \in NodeIds
      BY <2>1, PlanFacts
    <3>2. CASE n \in Completed
      <4>1. /\ attempts'[n] = attempts[n] /\ history'[n] = history[n]
            /\ status[n] = "completed" /\ status'[n] = "completed" /\ n \in plan.nodes
        BY <1>0, <2>1, <3>1, <3>2, StatusFacts DEF Completed, NodesIn
      <4>2. QED
        BY <4>1 DEF AttemptsInv, Paid
    <3>3. CASE n \notin Completed
      <4>1. /\ attempts'[n] = 0 /\ history'[n] = NoHistory
        BY <2>1, <3>1, <3>3
      <4>2. QED
        BY <4>1 DEF Paid, NoHistory
    <3>4. QED
      BY <3>2, <3>3
  <2>3. QED
    BY <2>2 DEF AttemptsInv
<1>5. CASE RunToEnd \/ OpenWindow \/ Iterate
  <2>1. /\ UNCHANGED <<plan, attempts, history>>
        /\ status' \in {status, AfterBlocking(plan, status), AfterReady(plan, status)}
    BY <1>5 DEF RunToEnd, OpenWindow, Enter, Iterate, LoopEnds, BeginIteration,
      ApplyRequirementChange, NoRequirementChange, SelectReady, graphVars, recoveryVars
  <2>2. \A n \in plan.nodes : status[n] \in Dead => status'[n] = status[n]
    BY <1>0, <2>1, StatusFacts DEF Dead, Unstarted
  <2>3. QED
    BY <2>1, <2>2, NothingStarted
<1>6. CASE InjectionRaises \/ ReplanRejected \/ Leave \/ Enqueue \/ UNCHANGED vars
  BY <1>6, NothingStarted DEF InjectionRaises, ReplanRejected, Leave, CheckWindow, Finish, Enqueue,
    vars, graphVars, recoveryVars
<1>7. QED
  BY <1>1, <1>2, <1>3, <1>4, <1>5, <1>6 DEF Next, Run, Attempt, Replan

\* No attempt is free: all but the first, and one that found no executor, were
\* recorded as a retry or a switch.
THEOREM AttemptsAreCounted == Spec => []AttemptsAccounted
<1>1. Init => AttemptsInv
  BY SchedulerAssumption DEF Init, AttemptsInv, Paid, NoHistory, Plans, Dead
<1>2. OrderInv /\ AttemptsInv /\ [Next]_vars => AttemptsInv'
  BY AttemptsStep DEF OrderInv
<1>3. OrderInv /\ AttemptsInv => AttemptsAccounted
  <2> SUFFICES ASSUME OrderInv, AttemptsInv, NEW n \in plan.nodes
               PROVE  attempts[n] <= 2 + history[n].retries + history[n].switches
    BY DEF AttemptsAccounted
  <2>1. TypeOK /\ n \in NodeIds /\ attempts[n] <= Paid(n)
    BY PlanFacts DEF OrderInv, TypeOK, AttemptsInv
  <2>2. QED
    BY <2>1, PaidFacts DEF Paid
<1>4. QED
  BY <1>1, <1>2, <1>3, OrderInvariant, PTL DEF Spec

-----------------------------------------------------------------------------
(* Injected faults                                                         *)

\* What a step does to an injection: a fault fires into the node at work, the
\* completion of a node closes the faults of that node, and nothing else makes
\* or unmakes a fault that is being recovered or is recovered.
LEMMA FaultStep ==
  ASSUME TypeOK, Control, [Next]_vars, NEW i \in Faults
  PROVE  \/ inj'[i] = inj[i] /\ ~ExecutorCompletes
         \/ ExecutorCompletes /\ inj' = AfterCompletion(inj, node)
         \/ ~ExecutorCompletes /\ inj'[i].status \notin {"recovering", "recovered"}
         \/ InjectFault /\ inj'[i] = [status |-> "recovering", target |-> node]
<1>0. /\ inj \in [Injections -> InjectionStates] /\ i \in Injections /\ i \notin Changes
  BY DEF TypeOK, Faults, Changes
<1>1. CASE ExecutorCompletes
  BY <1>1 DEF ExecutorCompletes
<1>2. CASE InjectFault
  <2>1. PICK f \in Injections : inj' = Fired(inj, f, node)
    BY <1>2 DEF InjectFault, FaultsFor, Faults
  <2>2. inj'[i] = inj[i] \/ inj'[i] = [status |-> "recovering", target |-> node]
    BY <1>0, <2>1 DEF Fired
  <2>3. ~ExecutorCompletes
    BY <1>2 DEF InjectFault, ExecutorCompletes, NothingInjected
  <2>4. QED
    BY <1>2, <2>2, <2>3
<1>3. CASE BeginIteration
  <2>1. inj' = AfterPoll(inj, plan, status) /\ ~ExecutorCompletes
    BY <1>3 DEF BeginIteration, ExecutorCompletes
  <2>2. CASE inj[i].status # "queued"
    BY <1>0, <2>1, <2>2 DEF AfterPoll
  <2>3. CASE inj[i].status = "queued"
    <3>1. inj'[i].status \in {"rejected", "armed"}
      BY <1>0, <2>1, <2>3 DEF AfterPoll, InjectionStates
    <3>2. QED
      BY <2>1, <3>1
  <2>4. QED
    BY <2>2, <2>3
<1>4. CASE ApplyRequirementChange
  <2>1. PICK c \in Changes : \E n : inj' = Amended(inj, c, n)
    BY <1>4 DEF ApplyRequirementChange
  <2>2. inj'[i] = inj[i] /\ ~ExecutorCompletes
    BY <1>0, <1>4, <2>1 DEF Amended, Changes, ApplyRequirementChange, ExecutorCompletes
  <2>3. QED
    BY <2>2
<1>5. CASE Enqueue
  <2>1. PICK c \in Injections, t \in NodeIds \cup {NoNode} :
          inj' = [inj EXCEPT ![c] = [status |-> "queued", target |-> t]]
    BY <1>5 DEF Enqueue
  <2>2. inj'[i] = inj[i] \/ inj'[i].status = "queued"
    BY <1>0, <2>1
  <2>3. ~ExecutorCompletes
    BY <1>5 DEF Enqueue, ExecutorCompletes, controlVars
  <2>4. QED
    BY <2>2, <2>3
<1>6. CASE \/ RunToEnd \/ OpenWindow \/ LoopEnds \/ NoRequirementChange \/ SelectReady
           \/ CapabilityUnavailable \/ StartAttempt \/ ExecutorBlocks \/ ExecutorFails
           \/ InjectionRaises \/ Replan \/ Leave \/ UNCHANGED vars
  <2>1. UNCHANGED inj
    BY <1>6 DEF RunToEnd, OpenWindow, Enter, LoopEnds, NoRequirementChange, SelectReady,
      CapabilityUnavailable, StartAttempt, ExecutorBlocks, ExecutorFails, InjectionRaises, Replan,
      ReplanAccepted, ReplanRejected, Leave, CheckWindow, Finish, vars
  <2>2. CASE ExecutorCompletes
    BY <1>1, <2>2
  <2>3. QED
    BY <2>1, <2>2
<1>7. QED
  BY <1>1, <1>2, <1>3, <1>4, <1>5, <1>6 DEF Next, Run, Iterate, Attempt

LEMMA RecoveryStep ==
  ASSUME TypeOK, Control, FaultRecovery, [Next]_vars
  PROVE  FaultRecovery'
<1> SUFFICES ASSUME NEW i \in Faults
             PROVE  /\ inj'[i].status = "recovered" => inj'[i].target \in Completed'
                    /\ inj'[i].status = "recovering" => inj'[i].target \notin Completed'
  BY DEF FaultRecovery
<1>0. /\ inj \in [Injections -> InjectionStates] /\ i \in Injections
      /\ inj[i].status = "recovered" => inj[i].target \in Completed
      /\ inj[i].status = "recovering" => inj[i].target \notin Completed
  BY DEF TypeOK, Faults, FaultRecovery
<1>1. CASE inj'[i] = inj[i] /\ ~ExecutorCompletes
  BY <1>0, <1>1, CompletedStep
<1>2. CASE ExecutorCompletes /\ inj' = AfterCompletion(inj, node)
  <2>1. node \in Completed'
    BY <1>2, PlanFacts DEF ExecutorCompletes, Settle, Control, Completed, NodesIn, TypeOK
  <2>2. Completed \subseteq Completed' /\ Completed' \subseteq Completed \cup {node}
    BY <1>2, CompletedStep
  <2>3. CASE inj[i].status = "recovering" /\ inj[i].target = node
    <3>1. inj'[i].status = "recovered" /\ inj'[i].target = node
      BY <1>0, <1>2, <2>3 DEF AfterCompletion, InjectionStates
    <3>2. QED
      BY <2>1, <3>1
  <2>4. CASE ~(inj[i].status = "recovering" /\ inj[i].target = node)
    <3>1. inj'[i] = inj[i]
      BY <1>0, <1>2, <2>4 DEF AfterCompletion
    <3>2. QED
      BY <1>0, <2>2, <2>4, <3>1
  <2>5. QED
    BY <2>3, <2>4
<1>3. CASE inj'[i].status \notin {"recovering", "recovered"}
  BY <1>3
<1>4. CASE InjectFault /\ inj'[i] = [status |-> "recovering", target |-> node]
  <2>1. /\ node \in NodeIds /\ status[node] = "running"
        /\ ~ExecutorCompletes
    BY <1>4, PlanFacts DEF InjectFault, ExecutorCompletes, NothingInjected, Control, TypeOK
  <2>2. node \notin Completed'
    BY <2>1, CompletedStep DEF Completed, NodesIn
  <2>3. QED
    BY <1>4, <2>2
<1>5. QED
  BY <1>1, <1>2, <1>3, <1>4, FaultStep

\* A fault is recovered exactly by the completion of the node it hit, whatever
\* else is retried, switched, replanned or injected in between.
THEOREM FaultsAreRecovered == Spec => []FaultRecovery
<1>1. Init => FaultRecovery
  BY DEF Init, FaultRecovery, InitialInjections, Faults
<1>2. OrderInv /\ FaultRecovery /\ [Next]_vars => FaultRecovery'
  BY RecoveryStep DEF OrderInv
<1>3. QED
  BY <1>1, <1>2, OrderInvariant, PTL DEF Spec

=============================================================================
