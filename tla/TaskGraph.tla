------------------------------ MODULE TaskGraph ------------------------------
(***************************************************************************)
(* The execution graph of orchestration/graph/task_graph.py: what a valid  *)
(* graph is, which of its nodes may run, which are blocked by a failure,   *)
(* and which are reopened by a repair.                                     *)
(*                                                                         *)
(* A plan is the part of a graph its planner owns: the nodes and their     *)
(* dependencies.  Node statuses are a separate function, as the framework  *)
(* owns them.  Descriptions, artifact paths and success criteria are left  *)
(* out; a plan differs from another one by its nodes and edges.  The       *)
(* status "skipped" of the code is left out as well: nothing assigns it.   *)
(*                                                                         *)
(* A definition whose comment begins with "Mutant" is a plausible mistake  *)
(* in the definition that follows it; the checks must notice it.           *)
(***************************************************************************)
EXTENDS Naturals, FiniteSets

CONSTANT NodeIds    \* node identifiers; their order is that of sorted(node_id)

ASSUME NodeIdsAssumption == NodeIds \subseteq Nat

Statuses == {"pending", "ready", "running", "completed", "failed", "blocked"}

Unstarted == {"pending", "ready"}         \* may still be picked or blocked
Dead      == {"failed", "blocked"}        \* block whoever depends on them
Terminal  == {"completed", "failed", "blocked"}

-----------------------------------------------------------------------------
(* Structure                                                               *)

\* A set of nodes with no source of its own carries a cycle: topological_order
\* removes sources until none is left and rejects the graph if nodes remain.
Acyclic(N, D) ==
  \A S \in SUBSET N : S # {} => \E n \in S : D[n] \cap S = {}

ValidPlan(p) ==
  /\ p.nodes # {}
  /\ \A n \in p.nodes : p.deps[n] \subseteq p.nodes \ {n}
  /\ \A n \in NodeIds \ p.nodes : p.deps[n] = {}
  /\ Acyclic(p.nodes, p.deps)

\* Every plan the model_validator of TaskGraph lets through.
Plans ==
  {p \in [nodes : SUBSET NodeIds, deps : [NodeIds -> SUBSET NodeIds]] : ValidPlan(p)}

-----------------------------------------------------------------------------
(* Status queries; st is a function from NodeIds to Statuses               *)

NodesIn(p, st, which) == {n \in p.nodes : st[n] \in which}

IsFinished(p, st) == \A n \in p.nodes : st[n] \in Terminal

HasFailed(p, st)  == \E n \in p.nodes : st[n] = "failed"
HasBlocked(p, st) == \E n \in p.nodes : st[n] = "blocked"

-----------------------------------------------------------------------------
(* Blocking and readiness                                                  *)

\* A set the blocking loop leaves unchanged: an unstarted node that depends on
\* a dead node, or on one of the set, is in the set.
BlockingClosed(p, st, S) ==
  \A n \in NodesIn(p, st, Unstarted) :
    (\E d \in p.deps[n] : st[d] \in Dead \/ d \in S) => n \in S

\* Mutant: one pass over the nodes, without the nodes it just blocked.
BlockedDirectly(p, st) ==
  {n \in NodesIn(p, st, Unstarted) : \E d \in p.deps[n] : st[d] \in Dead}

\* The nodes block_failed_dependencies blocks: the least closed set.
BlockedByFailure(p, st) ==
  {n \in NodesIn(p, st, Unstarted) :
     \A S \in SUBSET NodesIn(p, st, Unstarted) : BlockingClosed(p, st, S) => n \in S}

\* Mutant: the nodes are skipped, a status the scheduler does not expect.
AfterSkipping(p, st) ==
  [n \in NodeIds |-> IF n \in BlockedByFailure(p, st) THEN "skipped" ELSE st[n]]

AfterBlocking(p, st) ==
  [n \in NodeIds |-> IF n \in BlockedByFailure(p, st) THEN "blocked" ELSE st[n]]

ReadyNodes(p, st) ==
  {n \in NodesIn(p, st, Unstarted) : \A d \in p.deps[n] : st[d] = "completed"}

\* ready_nodes marks what it returns.
AfterReady(p, st) ==
  [n \in NodeIds |-> IF n \in ReadyNodes(p, st) THEN "ready" ELSE st[n]]

-----------------------------------------------------------------------------
(* Reopening                                                               *)

DescendantClosed(p, S) == \A n \in p.nodes : p.deps[n] \cap S # {} => n \in S

\* Mutant: what is downstream is kept.
RootsOnly(p, roots) == roots \cap p.nodes

\* descendants_of: the roots and everything downstream of them.
DescendantsOf(p, roots) ==
  {n \in p.nodes :
     \A S \in SUBSET p.nodes : roots \subseteq S /\ DescendantClosed(p, S) => n \in S}

CanReopen(p, st, roots) ==
  roots # {} /\ roots \subseteq NodesIn(p, st, Terminal)

\* Mutant: the whole graph is reopened.
AfterReopeningAll(p, st, roots) == [n \in NodeIds |-> "pending"]

AfterReopening(p, st, roots) ==
  [n \in NodeIds |-> IF n \in DescendantsOf(p, roots) THEN "pending" ELSE st[n]]

-----------------------------------------------------------------------------
(* Replacing the plan: merge_full_replacement_graph                        *)

\* Mutant: the edges of a completed node are not compared.
KeepsNodesOnly(p, st, q) == NodesIn(p, st, {"completed"}) \subseteq q.nodes

\* A replacement keeps every completed node with its definition.
CanReplace(p, st, q) ==
  \A n \in NodesIn(p, st, {"completed"}) : n \in q.nodes /\ q.deps[n] = p.deps[n]

\* Mutant: reset_runtime_state is called on every node.
AfterFullReset(p, st) == [n \in NodeIds |-> "pending"]

\* Mutant: only failed and blocked nodes start over; a ready one stays ready.
AfterPartialReset(p, st) ==
  [n \in NodeIds |-> IF n \in NodesIn(p, st, Dead) THEN "pending" ELSE st[n]]

\* Only completed nodes keep what they did; the rest start over.
AfterReplacement(p, st) ==
  [n \in NodeIds |-> IF n \in NodesIn(p, st, {"completed"}) THEN "completed" ELSE "pending"]

=============================================================================
