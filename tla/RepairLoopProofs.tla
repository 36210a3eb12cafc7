-------------------------- MODULE RepairLoopProofs --------------------------
(***************************************************************************)
(* Proofs about RepairLoop, for every set of issues, every assignment of   *)
(* them to nodes and every number of rounds, on top of those about the     *)
(* scheduler.                                                              *)
(***************************************************************************)
EXTENDS RepairLoop, GraphSchedulerProofs

-----------------------------------------------------------------------------
(* The scheduler's invariants hold while its graph is reopened             *)

\* What a step of the loop means to the scheduler.
LEMMA LoopLeavesScheduler ==
  ASSUME Loop \/ (RepairStopped /\ UNCHANGED allVars)
  PROVE  \/ UNCHANGED schedulerVars
         \/ Reopen /\ phase' = "replay" /\ CanReopen(plan, status, Targets)
BY DEF Loop, ValidateFirst, Unroutable, Reopen, ReplayFails, Revalidate, allVars, vars, schedulerVars,
  graphVars, controlVars, recoveryVars, runStateVars

\* Reopening takes a node and all that depends on it.
LEMMA DescendantFacts ==
  ASSUME NEW p \in Plans, NEW roots \in SUBSET p.nodes
  PROVE  /\ DescendantsOf(p, roots) \subseteq p.nodes /\ roots \subseteq DescendantsOf(p, roots)
         /\ \A n \in p.nodes : \A d \in p.deps[n] :
              d \in DescendantsOf(p, roots) => n \in DescendantsOf(p, roots)
BY DEF DescendantsOf, DescendantClosed

LEMMA ReopenKeepsOrder ==
  ASSUME OrderInv, Reopen, phase' = "replay", CanReopen(plan, status, Targets),
         pc = "done"
  PROVE  OrderInv'
<1>1. /\ plan \in Plans /\ plan' = plan /\ status \in [NodeIds -> Statuses]
      /\ Targets \subseteq plan.nodes /\ plan.nodes \subseteq NodeIds
  BY PlanFacts DEF OrderInv, TypeOK, Reopen, CanReopen, NodesIn
<1>2. status' = [n \in NodeIds |-> IF n \in DescendantsOf(plan, Targets) THEN "pending" ELSE status[n]]
  BY DEF Reopen, AfterReopening
<1>3. TypeOK'
  BY <1>1, <1>2 DEF OrderInv, TypeOK, Reopen, Statuses, Histories, NoHistory, PCs
<1>4. Control'
  <2>1. \A n \in plan.nodes : status[n] # "running"
    BY DEF OrderInv, Control
  <2>2. QED
    BY <1>1, <1>2, <2>1 DEF Control, Reopen
<1>5. DependencyOrder'
  BY <1>1, <1>2, DescendantFacts, PlanFacts DEF OrderInv, DependencyOrder
<1>6. QED
  BY <1>3, <1>4, <1>5 DEF OrderInv

-----------------------------------------------------------------------------
(* A run without windows ends with a finished graph                        *)

FinishInv ==
  ~Windowed => targets = {} /\ (pc \in {"finish", "done"} => IsFinished(plan, status))

LEMMA FinishStep ==
  ASSUME TypeOK, FinishInv, [Next]_vars
  PROVE  FinishInv'
<1> SUFFICES ASSUME ~Windowed, targets = {}, pc \in {"finish", "done"} => IsFinished(plan, status)
             PROVE  targets' = {} /\ (pc' \in {"finish", "done"} => IsFinished(plan, status)')
  BY DEF FinishInv
<1>1. CASE SelectReady
  <2>1. UNCHANGED <<plan, targets>> /\ status' = AfterReady(plan, status)
    BY <1>1 DEF SelectReady
  <2>2. pc' \in {"finish", "done"} => ReadyNodes(plan, status) = {} /\ IsFinished(plan, status)
    BY <1>1 DEF SelectReady, Usable, Errors
  <2>3. ReadyNodes(plan, status) = {} => status' = status
    BY <2>1 DEF AfterReady, TypeOK
  <2>4. QED
    BY <2>1, <2>2, <2>3
<1>2. CASE LoopEnds \/ CheckWindow \/ Finish
  BY <1>2 DEF LoopEnds, CheckWindow, WindowDone, Finish, IsFinished, graphVars
<1>3. CASE RunToEnd \/ OpenWindow \/ BeginIteration \/ ApplyRequirementChange \/ NoRequirementChange
            \/ Attempt \/ Replan
  BY <1>3
  DEF RunToEnd, OpenWindow, Enter, BeginIteration, ApplyRequirementChange, NoRequirementChange,
      Attempt, CapabilityUnavailable, StartAttempt, ExecutorCompletes, ExecutorBlocks, ExecutorFails,
      InjectFault, Recover, TryAgainOn, InjectionRaises, Replan, ReplanAccepted, ReplanRejected,
      AfterReplan
<1>4. CASE Enqueue \/ UNCHANGED vars
  BY <1>4 DEF Enqueue, vars, graphVars, controlVars, IsFinished
<1>5. QED
  BY <1>1, <1>2, <1>3, <1>4 DEF Next, Run, Iterate, Leave

-----------------------------------------------------------------------------
(* The loop                                                                *)

Ledgers ==
  [used : Nat, active : BOOLEAN,
   last : {"none", "running", "repaired", "retryable", "blocked", "failed"}]

\* Between rounds the scheduler is done, and the issues at hand name nodes of
\* its graph; before the first validation nothing is known.
Rounds ==
  /\ phase \notin {"run", "replay"} => pc = "done"
  /\ phase = "run" => issues = {} /\ round = 1 /\ ledger.used = 0
  /\ phase = "route" =>
       /\ issues \subseteq Routable(plan) /\ NonRepairable(plan, status) = {}
       /\ round <= MaxRounds
       /\ ledger.used > 0 => ledger.last = "retryable"
  /\ result # "none" => phase = "over"

RepairInv ==
  /\ OrderInv /\ RepairTypeOK /\ FinishInv
  /\ Rounds /\ BlockersAreCurrent /\ LedgerFollowsLoop
  /\ ~Windowed => phase # "transition_error" /\ RepairedIsEarned

LEMMA ClosingFacts ==
  ASSUME NEW l \in Ledgers,
         NEW how \in {"none", "running", "repaired", "retryable", "blocked", "failed"}
  PROVE  LET closed == [l EXCEPT !.active = FALSE, !.last = how]
         IN  closed \in Ledgers /\ closed.used = l.used /\ closed.active = FALSE /\ closed.last = how
BY DEF Ledgers

\* What a validation finds can be routed to a node of the graph or to none.
LEMMA FoundFacts ==
  ASSUME NEW verdict, NEW found \in Found(verdict, plan, status)
  PROVE  /\ found \subseteq Routable(plan) /\ found \subseteq Issues
         /\ found = {} => \A n \in Verifiers : n \notin NodesIn(plan, status, {"failed"})
BY DEF Found, Routable, BusinessIssues, EvidenceIssues

LEMMA SchedulingStep ==
  ASSUME RepairInv, Scheduling
  PROVE  RepairInv'
<1>1. [Next]_vars /\ UNCHANGED repairVars /\ phase \in {"run", "replay"}
  BY DEF Scheduling, Next
<1>2. OrderInv'
  BY <1>1, TypeStep, ControlStep, EveryStatusStep, OrderStep DEF RepairInv, OrderInv
<1>3. FinishInv'
  BY <1>1, FinishStep DEF RepairInv, OrderInv
<1>4. QED
  BY <1>1, <1>2, <1>3
    DEF RepairInv, RepairTypeOK, OrderInv, Rounds, BlockersAreCurrent, LedgerFollowsLoop,
        RepairedIsEarned, repairVars

\* The scheduler's part of a step of the loop that leaves it alone.
LEMMA SchedulerRests ==
  ASSUME RepairInv, UNCHANGED schedulerVars, rsFailure' \in Failures
  PROVE  OrderInv' /\ FinishInv'
BY DEF RepairInv, OrderInv, TypeOK, Control, DependencyOrder, FinishInv, IsFinished, schedulerVars,
  graphVars, controlVars, recoveryVars

LEMMA ValidateFirstStep ==
  ASSUME RepairInv, ValidateFirst
  PROVE  RepairInv'
<1>0. PICK verdict \in Verdicts : \E found \in Found(verdict, plan, status) :
        /\ RecordVerdict(verdict)
        /\ issues' = found /\ blockers' = blockers \cup found
        /\ result' = EarlyResult(verdict, found)
  BY DEF ValidateFirst
<1>1. PICK found \in Found(verdict, plan, status) :
        /\ RecordVerdict(verdict)
        /\ issues' = found /\ blockers' = blockers \cup found
        /\ result' = EarlyResult(verdict, found)
  BY <1>0
<1>2. /\ phase = "run" /\ pc = "done" /\ phase' = IF result' = "none" THEN "route" ELSE "over"
      /\ UNCHANGED <<round, streak, earlier, ledger>> /\ UNCHANGED schedulerVars
  BY DEF ValidateFirst
<1>3. rsFailure' \in Failures
  BY <1>1 DEF RecordVerdict, RepairInv, OrderInv, TypeOK, Failures, ExecuteFailures
<1>4. OrderInv' /\ FinishInv'
  BY <1>2, <1>3, SchedulerRests
<1>5. /\ result' \in {"none", "not_needed", "failed", "blocked"}
      /\ result' = "none" => NonRepairable(plan, status) = {} /\ MaxRounds # 0
  BY <1>1 DEF EarlyResult
<1>6. UNCHANGED <<plan, status, pc>>
  BY <1>2 DEF schedulerVars, graphVars, controlVars
<1>7. BlockersAreCurrent'
  BY <1>1, <1>2 DEF RepairInv, Rounds, BlockersAreCurrent
<1>8. RepairTypeOK'
  BY <1>1, <1>2, <1>4, <1>5, FoundFacts DEF OrderInv, RepairInv, RepairTypeOK
<1>9. Rounds'
  BY <1>1, <1>2, <1>5, <1>6, FoundFacts, RepairAssumption
    DEF RepairInv, Rounds, Routable, NonRepairable, NodesIn
<1>10. LedgerFollowsLoop' /\ phase' # "transition_error" /\ RepairedIsEarned'
  BY <1>2, <1>5 DEF RepairInv, Rounds, LedgerFollowsLoop, RepairedIsEarned
<1>11. QED
  BY <1>4, <1>7, <1>8, <1>9, <1>10 DEF RepairInv

LEMMA UnroutableStep ==
  ASSUME RepairInv, Unroutable
  PROVE  RepairInv'
<1>1. /\ phase = "route" /\ result' = "blocked" /\ phase' = "over" /\ UNCHANGED vars
      /\ UNCHANGED <<round, issues, streak, earlier, blockers, ledger>>
  BY DEF Unroutable
<1>2. UNCHANGED schedulerVars /\ UNCHANGED <<plan, status, pc, rsFailure>>
  BY <1>1 DEF vars, schedulerVars, graphVars, controlVars, recoveryVars, runStateVars
<1>3. rsFailure' \in Failures
  BY <1>2 DEF RepairInv, OrderInv, TypeOK
<1>4. OrderInv' /\ FinishInv'
  BY <1>2, <1>3, SchedulerRests
<1>5. RepairTypeOK' /\ Rounds' /\ BlockersAreCurrent' /\ LedgerFollowsLoop'
  BY <1>1, <1>2, <1>4
    DEF RepairInv, OrderInv, RepairTypeOK, Rounds, BlockersAreCurrent, LedgerFollowsLoop
<1>6. QED
  BY <1>1, <1>4, <1>5 DEF RepairInv, RepairedIsEarned

\* A node an issue names is in the graph, and in a finished graph it is over.
LEMMA TargetsCanReopen ==
  ASSUME RepairInv, phase = "route", Targets # {}, ~Windowed
  PROVE  CanReopen(plan, status, Targets)
<1>1. issues \subseteq Routable(plan) /\ IsFinished(plan, status)
  BY DEF RepairInv, Rounds, FinishInv
<1>2. Targets \subseteq plan.nodes
  BY <1>1 DEF Targets, Routable
<1>3. QED
  BY <1>1, <1>2 DEF CanReopen, NodesIn, IsFinished

LEMMA ReopenStep ==
  ASSUME RepairInv, Reopen
  PROVE  RepairInv'
<1>1. /\ phase = "route" /\ Targets # {} /\ pc = "done" /\ issues \subseteq Routable(plan)
      /\ round \in Nat /\ round <= MaxRounds
  BY DEF Reopen, RepairInv, Rounds, RepairTypeOK
<1>2. UNCHANGED <<round, issues, streak, result, blockers>>
  BY DEF Reopen
<1>3. CASE CanReopen(plan, status, Targets)
  <2>1. /\ phase' = "replay" /\ pc' = "caller" /\ replans' = 0 /\ earlier' = earlier + replans
        /\ ledger' = [used |-> round, active |-> TRUE, last |-> "running"]
        /\ targets' = targets
    BY <1>3 DEF Reopen
  <2>2. OrderInv'
    BY <1>1, <1>3, <2>1, ReopenKeepsOrder DEF RepairInv
  <2>3. FinishInv'
    BY <2>1 DEF RepairInv, FinishInv
  <2>4. replans \in Nat /\ earlier \in Nat
    BY DEF RepairInv, RepairTypeOK, TypeOK
  <2>5. RepairTypeOK'
    BY <1>1, <1>2, <2>1, <2>2, <2>4 DEF RepairInv, OrderInv, RepairTypeOK
  <2>6. Rounds' /\ BlockersAreCurrent' /\ LedgerFollowsLoop'
    BY <1>1, <1>2, <2>1 DEF RepairInv, Rounds, BlockersAreCurrent, LedgerFollowsLoop
  <2>7. RepairedIsEarned'
    BY <1>1, <1>2 DEF RepairInv, Rounds, RepairedIsEarned
  <2>8. QED
    BY <2>1, <2>2, <2>3, <2>5, <2>6, <2>7 DEF RepairInv
<1>4. CASE ~CanReopen(plan, status, Targets)
  <2>1. /\ phase' = "transition_error" /\ UNCHANGED <<earlier, ledger>>
        /\ UNCHANGED schedulerVars /\ UNCHANGED <<pc, rsFailure>>
    BY <1>4 DEF Reopen, schedulerVars, graphVars, controlVars, recoveryVars
  <2>2. OrderInv' /\ FinishInv'
    BY <2>1, SchedulerRests DEF RepairInv, OrderInv, TypeOK
  <2>3. Windowed
    BY <1>1, <1>4, TargetsCanReopen
  <2>4. RepairTypeOK' /\ Rounds' /\ BlockersAreCurrent' /\ LedgerFollowsLoop'
    BY <1>1, <1>2, <2>1, <2>2
      DEF RepairInv, OrderInv, RepairTypeOK, Rounds, BlockersAreCurrent, LedgerFollowsLoop
  <2>5. QED
    BY <2>2, <2>3, <2>4 DEF RepairInv
<1>5. QED
  BY <1>3, <1>4

LEMMA ReplayFailsStep ==
  ASSUME RepairInv, ReplayFails
  PROVE  RepairInv'
<1>1. /\ phase = "replay" /\ pc = "done" /\ result' = "failed" /\ phase' = "over" /\ UNCHANGED vars
      /\ UNCHANGED <<round, issues, streak, earlier, blockers>>
      /\ ledger' = [ledger EXCEPT !.active = FALSE, !.last = "failed"]
  BY DEF ReplayFails, CloseRound
<1>2. UNCHANGED schedulerVars /\ UNCHANGED <<plan, status, pc, rsFailure>>
  BY <1>1 DEF vars, schedulerVars, graphVars, controlVars, recoveryVars, runStateVars
<1>3. OrderInv' /\ FinishInv'
  BY <1>2, SchedulerRests DEF RepairInv, OrderInv, TypeOK
<1>4. /\ ledger' \in Ledgers /\ ledger'.used = ledger.used
      /\ ledger'.active = FALSE /\ ledger'.last = "failed"
  BY <1>1, ClosingFacts DEF RepairInv, RepairTypeOK, Ledgers
<1>5. RepairTypeOK' /\ Rounds' /\ BlockersAreCurrent' /\ LedgerFollowsLoop'
  BY <1>1, <1>2, <1>3, <1>4
    DEF RepairInv, OrderInv, RepairTypeOK, Rounds, BlockersAreCurrent, LedgerFollowsLoop, Ledgers
<1>6. QED
  BY <1>1, <1>3, <1>5 DEF RepairInv, RepairedIsEarned

\* A validation that passes with nothing found, after a replay without dead
\* ordinary nodes, leaves no node that is not completed but such checks.
LEMMA PassedIsEarned ==
  ASSUME IsFinished(plan, status), NonRepairable(plan, status) = {},
         NEW verdict, NEW found \in Found(verdict, plan, status), found = {}
  PROVE  \A n \in plan.nodes :
           \/ status[n] = "completed"
           \/ n \in Verifiers /\ status[n] = "blocked"
           \/ n \in Checkers /\ status[n] \in Dead
<1> SUFFICES ASSUME NEW n \in plan.nodes, status[n] # "completed"
             PROVE  \/ n \in Verifiers /\ status[n] = "blocked"
                    \/ n \in Checkers /\ status[n] \in Dead
  OBVIOUS
<1>1. status[n] \in Dead /\ n \in Verifiers \cup Checkers
  BY DEF IsFinished, NonRepairable, NodesIn, Dead, Terminal
<1>2. n \in Verifiers => status[n] # "failed"
  BY FoundFacts DEF NodesIn
<1>3. QED
  BY <1>1, <1>2 DEF Dead

LEMMA RevalidateStep ==
  ASSUME RepairInv, Revalidate
  PROVE  RepairInv'
<1>0. PICK verdict \in Verdicts : \E found \in Found(verdict, plan, status) :
        /\ RecordVerdict(verdict)
        /\ issues' = found /\ blockers' = AfterComparison(found)
        /\ streak' = StreakAfter(found) /\ result' = RoundResult(verdict, found)
  BY DEF Revalidate
<1>1. PICK found \in Found(verdict, plan, status) :
        /\ RecordVerdict(verdict)
        /\ issues' = found /\ blockers' = AfterComparison(found)
        /\ streak' = StreakAfter(found) /\ result' = RoundResult(verdict, found)
  BY <1>0
<1>2. /\ phase = "replay" /\ pc = "done" /\ NonRepairable(plan, status) = {}
      /\ UNCHANGED schedulerVars /\ UNCHANGED <<plan, status, pc>> /\ UNCHANGED earlier
      /\ ledger' = [ledger EXCEPT !.active = FALSE, !.last = RoundStatus(result')]
      /\ result' = "none" => phase' = "route" /\ round' = round + 1
      /\ result' # "none" => phase' = "over" /\ round' = round
  BY DEF Revalidate, CloseRound, schedulerVars, graphVars, controlVars
<1>3. rsFailure' \in Failures
  BY <1>1 DEF RecordVerdict, RepairInv, OrderInv, TypeOK, Failures, ExecuteFailures
<1>4. OrderInv' /\ FinishInv'
  BY <1>2, <1>3, SchedulerRests
<1>5. blockers' = found
  BY <1>1 DEF AfterComparison, RepairInv, BlockersAreCurrent
<1>6. /\ result' \in {"none", "repaired", "exhausted"}
      /\ result' = "none" => ~(round >= MaxRounds)
      /\ result' = "repaired" => found = {}
  BY <1>1 DEF RoundResult, LastRound, Passed
<1>7. /\ ledger' \in Ledgers /\ ledger'.used = ledger.used
      /\ ledger'.active = FALSE /\ ledger'.last = RoundStatus(result')
  <2>1. RoundStatus(result') \in {"none", "running", "repaired", "retryable", "blocked", "failed"}
    BY DEF RoundStatus
  <2>2. QED
    BY <1>2, <2>1, ClosingFacts DEF RepairInv, RepairTypeOK, Ledgers
<1>8. /\ ledger.used = round /\ ledger.used <= MaxRounds /\ round \in Nat /\ MaxRounds \in Nat
      /\ streak \in Nat
  BY <1>2, RepairAssumption DEF RepairInv, LedgerFollowsLoop, RepairTypeOK
<1>9. streak' \in Nat
  BY <1>1, <1>8 DEF StreakAfter
<1>10. found \subseteq Routable(plan) /\ found \subseteq Issues
  BY FoundFacts
<1>11. round' \in Nat /\ phase' \in {"route", "over"}
  BY <1>2, <1>8
<1>12. RepairTypeOK'
  BY <1>1, <1>2, <1>4, <1>5, <1>6, <1>7, <1>9, <1>10, <1>11
    DEF RepairInv, OrderInv, RepairTypeOK, Ledgers
<1>13. Rounds'
  <2>1. phase' = "route" => round' <= MaxRounds
    BY <1>2, <1>6, <1>8
  <2>2. phase' = "route" => ledger'.last = "retryable"
    BY <1>2, <1>6, <1>7 DEF RoundStatus
  <2>3. Routable(plan') = Routable(plan) /\ NonRepairable(plan', status') = {}
    BY <1>2
  <2>4. QED
    BY <1>1, <1>2, <1>10, <1>11, <2>1, <2>2, <2>3 DEF RepairInv, Rounds, Routable, NonRepairable, NodesIn
<1>14. BlockersAreCurrent'
  BY <1>1, <1>5 DEF BlockersAreCurrent
<1>15. LedgerFollowsLoop'
  <2>1. phase' = "route" => ledger'.used = round' - 1
    BY <1>2, <1>6, <1>7, <1>8
  <2>2. QED
    BY <1>2, <1>6, <1>7, <1>8, <1>11, <2>1 DEF LedgerFollowsLoop, RoundStatus, Ledgers
<1>16. ~Windowed => phase' # "transition_error" /\ RepairedIsEarned'
  <2>1. ~Windowed => IsFinished(plan, status)
    BY <1>2 DEF RepairInv, FinishInv
  <2>2. QED
    BY <1>2, <1>5, <1>6, <1>11, <2>1, PassedIsEarned DEF RepairedIsEarned
<1>17. QED
  BY <1>4, <1>12, <1>13, <1>14, <1>15, <1>16 DEF RepairInv

LEMMA RepairInitHolds ==
  ASSUME RepairInit
  PROVE  RepairInv
<1>1. Init
  BY DEF RepairInit
<1>2. OrderInv
  BY <1>1, InitOrder
<1>3. FinishInv
  BY <1>1 DEF FinishInv, Init
<1>4. QED
  BY <1>2, <1>3, RepairAssumption
    DEF RepairInit, RepairInv, RepairTypeOK, OrderInv, Rounds, BlockersAreCurrent, LedgerFollowsLoop,
        RepairedIsEarned

LEMMA RepairStep ==
  ASSUME RepairInv, [RepairNext]_allVars
  PROVE  RepairInv'
<1>1. CASE UNCHANGED allVars
  <2>1. UNCHANGED vars /\ UNCHANGED repairVars
    BY <1>1 DEF allVars
  <2>2. UNCHANGED schedulerVars /\ UNCHANGED <<plan, status, pc, rsFailure>>
    BY <2>1 DEF vars, schedulerVars, graphVars, controlVars, recoveryVars, runStateVars
  <2>3. OrderInv' /\ FinishInv'
    BY <2>2, SchedulerRests DEF RepairInv, OrderInv, TypeOK
  <2>4. QED
    BY <2>1, <2>2, <2>3
      DEF repairVars, RepairInv, RepairTypeOK, OrderInv, Rounds, BlockersAreCurrent,
          LedgerFollowsLoop, RepairedIsEarned
<1>2. QED
  BY <1>1, SchedulingStep, ValidateFirstStep, UnroutableStep, ReopenStep, ReplayFailsStep,
     RevalidateStep DEF RepairNext, Loop

LEMMA RepairInvariant == RepairSpec => []RepairInv
<1>1. RepairInit => RepairInv
  BY RepairInitHolds
<1>2. RepairInv /\ [RepairNext]_allVars => RepairInv'
  BY RepairStep
<1>3. QED
  BY <1>1, <1>2, PTL DEF RepairSpec

\* Types hold while schedulers come and go: what every round leaves is a state
\* the next scheduler can start from, and RunState is given no status it refuses.
THEOREM TypesSurviveRepairs == RepairSpec => []RepairTypeOK
<1>1. RepairInv => RepairTypeOK
  BY DEF RepairInv
<1>2. QED
  BY <1>1, RepairInvariant, PTL

\* The blockers RunState reports are always what the last validation found.
THEOREM NoBlockerIsStale == RepairSpec => []BlockersAreCurrent
<1>1. RepairInv => BlockersAreCurrent
  BY DEF RepairInv
<1>2. QED
  BY <1>1, RepairInvariant, PTL

\* The ledger of rounds in RunState agrees with the loop, for any bound on
\* rounds, and never exceeds that bound.
THEOREM LedgerIsTrue == RepairSpec => []LedgerFollowsLoop
<1>1. RepairInv => LedgerFollowsLoop
  BY DEF RepairInv
<1>2. QED
  BY <1>1, RepairInvariant, PTL

\* A graph that is run to its end is repaired only where everything ordinary is
\* completed, and no round tries to reopen a node that is not over.
THEOREM ReplayNeedsCompletedWork ==
  RepairSpec => [](~Windowed => OnlyCompletedWorkIsRepaired)
<1>1. RepairInv => (~Windowed => OnlyCompletedWorkIsRepaired)
  <2>1. ASSUME RepairInv, ~Windowed, phase = "route", NEW n \in plan.nodes
        PROVE  status[n] = "completed" \/ n \in Verifiers \cup Checkers
    BY <2>1 DEF RepairInv, FinishInv, Rounds, IsFinished, NonRepairable, NodesIn, Dead, Terminal
  <2>2. QED
    BY <2>1 DEF RepairInv, OnlyCompletedWorkIsRepaired
<1>2. QED
  BY <1>1, RepairInvariant, PTL

\* A graph that is run to its end and called repaired has no open issue and no
\* unfinished ordinary node, whatever the validators say in between.
THEOREM RepairIsEarned == RepairSpec => [](~Windowed => RepairedIsEarned)
<1>1. RepairInv => (~Windowed => RepairedIsEarned)
  BY DEF RepairInv
<1>2. QED
  BY <1>1, RepairInvariant, PTL

\* A step of the loop changes completed nodes only by reopening what is at fault
\* and all that depends on it; the scheduler changes none.
THEOREM RepairsStayInScope == RepairSpec => RepairScope
<1> DEFINE Kept ==
      \A n \in Completed :
        \/ n \in plan'.nodes /\ status'[n] = "completed" /\ attempts'[n] = attempts[n]
        \/ phase = "route" /\ n \in DescendantsOf(plan, Targets)
<1>1. RepairInv /\ [RepairNext]_allVars => Kept
  <2>1. ASSUME RepairInv, Scheduling PROVE Kept
    <3>1. [Next]_vars /\ OrderInv
      BY <2>1 DEF Scheduling, Next, RepairInv
    <3>2. QED
      BY <3>1, FinalStep, EveryStatusStep, AttemptsOfCompleted DEF OrderInv
  <2>2. ASSUME RepairInv, UNCHANGED schedulerVars PROVE Kept
    BY <2>2 DEF schedulerVars, graphVars, controlVars, recoveryVars, Completed, NodesIn
  <2>3. ASSUME RepairInv, Reopen, CanReopen(plan, status, Targets) PROVE Kept
    BY <2>3 DEF Reopen, AfterReopening, Completed, NodesIn, RepairInv, OrderInv, TypeOK, Plans
  <2>4. QED
    BY <2>1, <2>2, <2>3, LoopLeavesScheduler
      DEF RepairNext, allVars, vars, schedulerVars, graphVars, controlVars, recoveryVars, runStateVars
<1>2. QED
  BY <1>1, RepairInvariant, PTL DEF RepairSpec, RepairScope

=============================================================================
