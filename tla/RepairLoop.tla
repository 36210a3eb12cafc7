----------------------------- MODULE RepairLoop ------------------------------
(***************************************************************************)
(* BusinessRepairLoop.run of orchestration/graph/repair_loop.py, composed  *)
(* with the scheduler that first runs the graph and then replays it.       *)
(*                                                                         *)
(* Once a run of the graph is over, independent validators judge what it   *)
(* produced.  Their findings are issues with a stable identity, each       *)
(* routed to the node that owns the artifact at fault, or to none.  A      *)
(* round of the loop reopens the nodes at fault with everything            *)
(* downstream, replays the graph with a new scheduler (and so a new        *)
(* RecoveryController), validates again and compares the issues.           *)
(*                                                                         *)
(* What a validator finds is arbitrary; what a verdict implies about the   *)
(* issues, and which nodes an issue may name, is not.  Left out: repair    *)
(* contexts, which only reach prompts, and the run that skips the loop     *)
(* because a staged plan is incomplete.                                    *)
(***************************************************************************)
EXTENDS GraphScheduler

CONSTANTS
  Issues,        \* identities of the issues that may be found
  IssueSource,   \* the evidence_verification node that finds it, or NoNode
  IssueTarget,   \* the node that has to be repaired, or NoNode
  Verifiers,     \* nodes of capability evidence_verification
  Checkers,      \* nodes of capability artifact_validation
  MaxRounds,     \* recovery_policy.max_business_repair_rounds
  Required       \* business_validation.mode is "required"

ASSUME RepairAssumption ==
  /\ IsFiniteSet(Issues)
  /\ IssueSource \in [Issues -> Verifiers \cup {NoNode}]
  /\ IssueTarget \in [Issues -> (NodeIds \ (Verifiers \cup Checkers)) \cup {NoNode}]
  /\ Verifiers \subseteq NodeIds /\ Checkers \subseteq NodeIds
  /\ MaxRounds \in Nat /\ Required \in BOOLEAN

VARIABLES
  phase,      \* what is going on; pc says where the scheduler is
  round,      \* round_number
  issues,     \* previous_ids: what the last validation found
  streak,     \* no_progress_streak
  result,     \* the status of the BusinessRepairOutcome
  earlier,    \* replans of the schedulers before the current one
  \* RunState
  blockers,   \* unresolved blocking issues
  ledger      \* recovery.business_repairs: rounds used, active or not, last status

repairVars == <<phase, round, issues, streak, result, earlier, blockers, ledger>>
allVars == <<vars, repairVars>>

\* All the scheduler has, but for the failure of the run.
schedulerVars == <<graphVars, controlVars, recoveryVars, rsNodes, rsVersion, rsOutcome,
                   manifest, inj, damaged, saved>>

Verdicts == {"passed", "failed", "error", "unverified", "not_applicable"}

-----------------------------------------------------------------------------
(* What a validation may find in graph p with statuses st                  *)

\* Mutant: a blocked node is taken for one the repair may work around.
OnlyFailed(p, st) == NodesIn(p, st, {"failed"}) \ (Verifiers \cup Checkers)

\* Nodes whose own recovery is exhausted: no repair for them.
NonRepairable(p, st) == NodesIn(p, st, Dead) \ (Verifiers \cup Checkers)

Routable(p) == {i \in Issues : IssueTarget[i] \in p.nodes \cup {NoNode}}
BusinessIssues(p) == {i \in Routable(p) : IssueSource[i] = NoNode}
EvidenceIssues(p, st) ==
  {i \in Routable(p) : IssueSource[i] \in NodesIn(p, st, {"failed"})}

\* A failed verdict has a failed check behind it and an unverified one at most
\* validators that do not exist; a failed verifier always reports something.
Found(verdict, p, st) ==
  {f \in SUBSET (BusinessIssues(p) \cup EvidenceIssues(p, st)) :
     /\ \A n \in Verifiers \cap NodesIn(p, st, {"failed"}) : \E i \in f : IssueSource[i] = n
     /\ LET business == f \cap BusinessIssues(p)
        IN  CASE verdict = "failed" -> business # {}
              [] verdict = "unverified" -> \A i \in business : IssueTarget[i] = NoNode
              [] OTHER -> business = {}}

\* record_business_validation: the verdict is the failure of the run, until it
\* passes; it replaces another failure but clears only its own.
RecordVerdict(verdict) ==
  rsFailure' =
    CASE verdict # "passed" /\ Required -> "business_validation_failure"
      [] verdict = "passed" /\ rsFailure = "business_validation_failure" -> "none"
      [] OTHER -> rsFailure

Passed(verdict, found) == verdict = "passed" /\ found = {}

-----------------------------------------------------------------------------
RepairInit ==
  /\ Init
  /\ phase = "run" /\ round = 1 /\ issues = {} /\ streak = 0
  /\ result = "none" /\ earlier = 0 /\ blockers = {}
  /\ ledger = [used |-> 0, active |-> FALSE, last |-> "none"]

\* A scheduler at work, with the injections that reach it.
Scheduling ==
  /\ phase \in {"run", "replay"}
  /\ Run \/ Enqueue
  /\ UNCHANGED repairVars

(* The first validation --------------------------------------------------*)

\* The early returns of run, in their order.
EarlyResult(verdict, found) ==
  IF Passed(verdict, found) THEN "not_needed"
  ELSE IF NonRepairable(plan, status) # {} THEN "failed"
  ELSE IF MaxRounds = 0 THEN "blocked"
  ELSE IF verdict \notin {"failed", "error"} /\ found \cap EvidenceIssues(plan, status) = {}
       THEN "blocked"
  ELSE "none"

ValidateFirst ==
  /\ phase = "run" /\ pc = "done"
  /\ \E verdict \in Verdicts : \E found \in Found(verdict, plan, status) :
       /\ RecordVerdict(verdict)
       /\ issues' = found
       /\ blockers' = blockers \cup found
       /\ result' = EarlyResult(verdict, found)
  /\ phase' = IF result' = "none" THEN "route" ELSE "over"
  /\ UNCHANGED <<schedulerVars, round, streak, earlier, ledger>>

(* One round -------------------------------------------------------------*)

Targets == {IssueTarget[i] : i \in issues} \ {NoNode}

\* Mutant: the loop waits for an owner to show up.
WaitForOwner == phase = "route" /\ Targets = {} /\ UNCHANGED allVars

Unroutable ==
  /\ phase = "route" /\ Targets = {}
  /\ result' = "blocked" /\ phase' = "over"
  /\ UNCHANGED <<vars, round, issues, streak, earlier, blockers, ledger>>

\* reopen_subgraph, begin_business_repair and the new scheduler of the replay;
\* reopening a node that is not over raises.
Reopen ==
  /\ phase = "route" /\ Targets # {}
  /\ IF CanReopen(plan, status, Targets)
     THEN /\ status' = AfterReopening(plan, status, Targets)
          /\ rsNodes' = [n \in NodeIds |->
               IF n \in DescendantsOf(plan, Targets) THEN "pending" ELSE rsNodes[n]]
          /\ history' = [n \in NodeIds |-> NoHistory]
          /\ replans' = 0 /\ earlier' = earlier + replans
          /\ ledger' = [used |-> round, active |-> TRUE, last |-> "running"]
          /\ pc' = "caller" /\ phase' = "replay"
     ELSE /\ phase' = "transition_error"
          /\ UNCHANGED <<status, rsNodes, history, replans, earlier, ledger, pc>>
  /\ UNCHANGED <<plan, version, attempts, amended, node, executor, targets, forced,
                 rsVersion, rsOutcome, rsFailure, manifest, inj, damaged, saved,
                 round, issues, streak, result, blockers>>

\* Mutant: the loop returns without closing the round.
LeaveOpen(how) == UNCHANGED ledger

\* finish_business_repair
CloseRound(how) == ledger' = [ledger EXCEPT !.active = FALSE, !.last = how]

\* The replay ran into an ordinary failure: nothing is validated.
ReplayFails ==
  /\ phase = "replay" /\ pc = "done"
  /\ NonRepairable(plan, status) # {}
  /\ CloseRound("failed")
  /\ result' = "failed" /\ phase' = "over"
  /\ UNCHANGED <<vars, round, issues, streak, earlier, blockers>>

\* Mutant: only what the first validation of the round repeats stays open.
ForgetNewIssues(found) == blockers \cap found

\* _resolve_absent, then _record_issues.
AfterComparison(found) == (blockers \ (issues \ found)) \cup found

StreakAfter(found) ==
  IF issues \ found # {} \/ Cardinality(found) < Cardinality(issues) THEN 0 ELSE streak + 1

LastRound(found) == round >= MaxRounds \/ StreakAfter(found) >= 2

\* Mutant: what the validators say is enough.
VerdictAlone(verdict, found) ==
  IF verdict = "passed" THEN "repaired" ELSE IF LastRound(found) THEN "exhausted" ELSE "none"

RoundResult(verdict, found) ==
  IF Passed(verdict, found) THEN "repaired" ELSE IF LastRound(found) THEN "exhausted" ELSE "none"

\* Mutant: the outcome's own word is stored, which finish_business_repair refuses.
OutcomeAsStatus(outcome) == IF outcome = "none" THEN "retryable" ELSE outcome

RoundStatus(outcome) ==
  CASE outcome = "repaired" -> "repaired"
    [] outcome = "exhausted" -> "blocked"
    [] OTHER -> "retryable"

Revalidate ==
  /\ phase = "replay" /\ pc = "done"
  /\ NonRepairable(plan, status) = {}
  /\ \E verdict \in Verdicts : \E found \in Found(verdict, plan, status) :
       /\ RecordVerdict(verdict)
       /\ issues' = found
       /\ blockers' = AfterComparison(found)
       /\ streak' = StreakAfter(found)
       /\ result' = RoundResult(verdict, found)
  /\ CloseRound(RoundStatus(result'))
  /\ IF result' = "none"
     THEN phase' = "route" /\ round' = round + 1
     ELSE phase' = "over" /\ UNCHANGED round
  /\ UNCHANGED <<schedulerVars, earlier>>

-----------------------------------------------------------------------------
RepairStopped == phase \in {"over", "transition_error"} \/ pc \in Errors

Loop == ValidateFirst \/ Unroutable \/ Reopen \/ ReplayFails \/ Revalidate

RepairNext == Scheduling \/ Loop \/ (RepairStopped /\ UNCHANGED allVars)

RepairSpec == RepairInit /\ [][RepairNext]_allVars

\* As for the scheduler; validators are calls that return.
RepairFairSpec ==
  RepairSpec /\ WF_allVars(phase \in {"run", "replay"} /\ Run /\ UNCHANGED repairVars)
             /\ WF_allVars(Loop)

-----------------------------------------------------------------------------
(* Properties                                                              *)

\* Types, with the statuses finish_business_repair accepts; the scheduler's
\* own variables keep theirs while graphs are reopened.
RepairTypeOK ==
  /\ TypeOK
  /\ phase \in {"run", "route", "replay", "over", "transition_error"}
  /\ round \in Nat /\ streak \in Nat /\ earlier \in Nat
  /\ issues \subseteq Issues /\ blockers \subseteq Issues
  /\ result \in {"none", "not_needed", "repaired", "blocked", "failed", "exhausted"}
  /\ ledger \in [used : Nat, active : BOOLEAN,
                 last : {"none", "running", "repaired", "retryable", "blocked", "failed"}]

\* A repair touches what it has to and nothing else: a node that is completed
\* stays so, unless it is at fault or downstream of a node that is.
RepairScope ==
  [][\A n \in Completed :
       \/ n \in plan'.nodes /\ status'[n] = "completed" /\ attempts'[n] = attempts[n]
       \/ phase = "route" /\ n \in DescendantsOf(plan, Targets)]_allVars

\* Post-validation rounds are no hidden retries: a replay begins only when all
\* ordinary nodes had completed, and it never has to reopen unfinished work.
OnlyCompletedWorkIsRepaired ==
  /\ phase = "route" =>
       \A n \in plan.nodes : status[n] = "completed" \/ n \in Verifiers \cup Checkers
  /\ phase # "transition_error"

\* The blockers a report waits for are what the last validation found: an issue
\* that is gone is closed, one that is new is open, one that returns reopens.
BlockersAreCurrent ==
  blockers = issues

\* RunState's ledger of rounds follows the loop: a round is active exactly while
\* it is replayed (or an exception ended the run), numbers do not skip, and the
\* last entry says how the loop ended.
LedgerFollowsLoop ==
  /\ ledger.active <=> phase = "replay"
  /\ ledger.used <= MaxRounds
  /\ phase = "replay" => ledger.used = round
  /\ phase = "route" => ledger.used = round - 1
  /\ phase = "over" /\ ledger.used > 0 =>
       ledger.last = CASE result = "repaired" -> "repaired"
                       [] result = "exhausted" -> "blocked"
                       [] result = "failed" -> "failed"
                       [] OTHER -> "retryable"

\* A run called repaired has nothing open, and every node of its graph, whatever
\* replans it went through, is completed, but for checks that report no issue.
RepairedIsEarned ==
  result = "repaired" =>
    /\ blockers = {}
    /\ \A n \in plan.nodes :
         \/ status[n] = "completed"
         \/ n \in Verifiers /\ status[n] = "blocked"
         \/ n \in Checkers /\ status[n] \in Dead

\* A run makes at most max_replans full replans, repairs included.
ReplansPerRun == earlier + replans <= MaxReplans

\* The loop ends.
RepairTermination == <>RepairStopped

=============================================================================
