------------------------------ MODULE Recovery -------------------------------
(***************************************************************************)
(* The node recovery rules of orchestration/graph/recovery_controller.py:  *)
(* which attempts a node may make, and what follows a failed one (retry on *)
(* the same executor, then switch, then replan, then give up).             *)
(*                                                                         *)
(* A node's history is abstracted to what the decisions read: the last     *)
(* executor, the executors tried, and the two budgets used.  Candidates    *)
(* are a set: their ranking changes with the learned statistics, so the    *)
(* "first untried candidate" is any untried one.                           *)
(***************************************************************************)
EXTENDS Naturals

CONSTANTS
  Executors,             \* executor identifiers
  NoExecutor,            \* "no executor": never attempted, nothing forced
  MaxNodeRetries,        \* recovery_policy.max_node_retries
  MaxExecutorSwitches,   \* recovery_policy.max_executor_switches
  MaxReplans             \* recovery_policy.max_replans

ASSUME RecoveryAssumption ==
  /\ NoExecutor \notin Executors
  /\ MaxNodeRetries \in Nat /\ MaxExecutorSwitches \in Nat /\ MaxReplans \in Nat

Histories ==
  [last : Executors \cup {NoExecutor}, tried : SUBSET Executors,
   retries : Nat, switches : Nat]

NoHistory == [last |-> NoExecutor, tried |-> {}, retries |-> 0, switches |-> 0]

-----------------------------------------------------------------------------
(* record_attempt: the first attempt is free, the same executor again      *)
(* costs a retry, another executor costs a switch.                         *)

IsRetry(h, e)  == h.last = e
IsSwitch(h, e) == h.last \notin {NoExecutor, e}

AttemptAllowed(h, e) ==
  /\ IsRetry(h, e) => h.retries < MaxNodeRetries
  /\ IsSwitch(h, e) => h.switches < MaxExecutorSwitches

\* Mutant: a retry is not counted.
AfterUncountedRetry(h, e) ==
  [last     |-> e,
   tried    |-> h.tried \cup {e},
   retries  |-> h.retries,
   switches |-> IF IsSwitch(h, e) THEN h.switches + 1 ELSE h.switches]

AfterAttempt(h, e) ==
  [last     |-> e,
   tried    |-> h.tried \cup {e},
   retries  |-> IF IsRetry(h, e) THEN h.retries + 1 ELSE h.retries,
   switches |-> IF IsSwitch(h, e) THEN h.switches + 1 ELSE h.switches]

-----------------------------------------------------------------------------
(* decide_after_failure: each answer excludes the ones before it.  The     *)
(* node's own limit narrows the retries; recoverable is FALSE for a        *)
(* failure to build the node's context.                                    *)

\* Mutant: the node's own limit is forgotten.
MayRetryAsPolicy(h, nodeLimit, recoverable) == recoverable /\ h.retries < MaxNodeRetries

MayRetry(h, nodeLimit, recoverable) ==
  recoverable /\ h.retries < MaxNodeRetries /\ h.retries < nodeLimit

MaySwitch(h, candidates, recoverable) ==
  recoverable /\ h.switches < MaxExecutorSwitches /\ candidates \ h.tried # {}

MayReplan(used, hasPlanner) == hasPlanner /\ used < MaxReplans

=============================================================================
