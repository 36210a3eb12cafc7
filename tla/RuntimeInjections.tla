-------------------------- MODULE RuntimeInjections --------------------------
(***************************************************************************)
(* The lifecycle of injected faults and requirement changes, as            *)
(* orchestration/execution/runtime_injections.py drives it: a request      *)
(* queued by the dashboard is accepted or rejected at a node boundary, an  *)
(* armed injection fires once, and a fired fault is recovered when its     *)
(* node completes.                                                         *)
(*                                                                         *)
(* An injection is "triggered" and "detected" within one scheduler step,   *)
(* so those two phases do not show between steps.                          *)
(***************************************************************************)
EXTENDS TaskGraph

CONSTANTS
  Injections,      \* injection identifiers
  InjectionType,   \* [Injections -> {"node_failure", "data_anomaly", "requirement_change"}]
  Preset,          \* the injections the TaskSpec arms before the run starts
  AfterCompleted,  \* [Injections -> Nat]: completed nodes to wait for (0 for a request)
  Governance,      \* nodes of a governance capability
  NoNode           \* "no node"

ASSUME InjectionsAssumption ==
  /\ InjectionType \in [Injections -> {"node_failure", "data_anomaly", "requirement_change"}]
  /\ Preset \subseteq Injections
  /\ AfterCompleted \in [Injections -> Nat]
  /\ Governance \subseteq NodeIds
  /\ NoNode \notin NodeIds

Faults == {i \in Injections : InjectionType[i] \in {"node_failure", "data_anomaly"}}
Changes == {i \in Injections : InjectionType[i] = "requirement_change"}

\* "unsent" and "queued" are the mailbox's; the others are RunState's, except
\* that the mailbox also remembers a rejection.
InjectionStates ==
  [status : {"unsent", "queued", "rejected", "armed", "recovering", "recovered"},
   target : NodeIds \cup {NoNode}]

InitialInjections ==
  [i \in Injections |->
     [status |-> IF i \in Preset THEN "armed" ELSE "unsent", target |-> NoNode]]

-----------------------------------------------------------------------------
(* poll_requests: every queued request is answered                         *)

\* The nodes a request may still reach: unstarted business nodes.
Reachable(p, st, target) ==
  {n \in NodesIn(p, st, Unstarted) \ Governance : target \in {NoNode, n}}

AfterPoll(inj, p, st) ==
  [i \in Injections |->
     IF inj[i].status # "queued" THEN inj[i]
     ELSE [inj[i] EXCEPT !.status =
             IF Reachable(p, st, inj[i].target) = {} THEN "rejected" ELSE "armed"]]

-----------------------------------------------------------------------------
(* _eligible: does armed injection i apply to node n now?                  *)

Eligible(inj, i, p, st, n) ==
  /\ inj[i].status = "armed"
  /\ Cardinality(NodesIn(p, st, {"completed"})) >= AfterCompleted[i]
  /\ IF inj[i].target = NoNode THEN n \notin Governance ELSE n = inj[i].target
  /\ n \in NodesIn(p, st, Unstarted \cup {"running"})

\* The faults failure_for may inject into node n, about to execute: none while
\* an earlier one is still recovering there, and node failures come first.
FaultsFor(inj, p, st, n) ==
  LET eligible == {i \in Faults : Eligible(inj, i, p, st, n)}
      failures == {i \in eligible : InjectionType[i] = "node_failure"}
  IN  IF \E i \in Injections : inj[i].status = "recovering" /\ inj[i].target = n
      THEN {}
      ELSE IF failures # {} THEN failures ELSE eligible

Fired(inj, i, n)   == [inj EXCEPT ![i] = [status |-> "recovering", target |-> n]]
Amended(inj, i, n) == [inj EXCEPT ![i] = [status |-> "recovered", target |-> n]]

\* Mutant: any success closes every fault.
AfterAnyCompletion(inj, n) ==
  [i \in Injections |->
     IF i \in Faults /\ inj[i].status = "recovering"
     THEN [inj[i] EXCEPT !.status = "recovered"] ELSE inj[i]]

\* observe_completed_node: a real success of the node closes its faults.
AfterCompletion(inj, n) ==
  [i \in Injections |->
     IF i \in Faults /\ inj[i].status = "recovering" /\ inj[i].target = n
     THEN [inj[i] EXCEPT !.status = "recovered"] ELSE inj[i]]

=============================================================================
