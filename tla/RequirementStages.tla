------------------------- MODULE RequirementStages --------------------------
(***************************************************************************)
(* Requirements, the ledger of their progress, and the graph that grows    *)
(* stage by stage to meet them: planning/requirement_progress.py,          *)
(* planning/staged_expansion.py and the closure check of                   *)
(* planning/requirement_compiler.py.                                       *)
(*                                                                         *)
(* A contract is a RequirementSet: its items, the semantic tree over them  *)
(* (parent), the execution order asked for (dependsOn), which items the    *)
(* planner must meet (mandatory: owner "planner" and mandatory), which     *)
(* carry a blocking criterion, which need code, and whether the task       *)
(* declares code artifacts at all (codeOutputs).  Statements, outputs and  *)
(* evidence are left out.                                                  *)
(***************************************************************************)
EXTENDS TaskGraph, FiniteSetsExt

CONSTANTS
  Requirements,     \* requirement identifiers; their order is the ledger's
  NoRequirement,    \* the parent of a root
  Cost,             \* [Requirements -> Nat]: estimated prompt tokens
  MaxPerStage,      \* horizon_policy.max_requirements_per_stage
  MaxPrompt,        \* horizon_policy.max_stage_prompt_tokens
  Governance,       \* governance capabilities the task requires
  GovernanceId,     \* [GovernanceKinds -> NodeIds]: the nodes they become
  DeliveryId        \* the code node the framework adds by itself

GovernanceKinds == {"terminal_execution", "evidence_verification", "artifact_validation"}

ASSUME StagesAssumption ==
  /\ Requirements \subseteq Nat /\ NoRequirement \notin Requirements
  /\ Cost \in [Requirements -> Nat]
  /\ MaxPerStage \in Nat \ {0} /\ MaxPrompt \in Nat
  /\ Governance \subseteq GovernanceKinds
  /\ GovernanceId \in [GovernanceKinds -> NodeIds] /\ DeliveryId \in NodeIds

-----------------------------------------------------------------------------
(* The contract                                                            *)

ParentClosed(c, S) ==
  \A r \in S \cap c.items : c.parent[r] # NoRequirement => c.parent[r] \in S

\* is_ancestor: what is reached from r through parent_id.
AncestorsOf(c, r) ==
  {a \in c.items : c.parent[r] # NoRequirement /\
     \A S \in SUBSET c.items : c.parent[r] \in S /\ ParentClosed(c, S) => a \in S}

\* What validate_requirement_set lets through: a tree, and an order without
\* cycles.  The two are checked one by one.
ValidContract(c) ==
  /\ c.items \subseteq Requirements
  /\ \A r \in c.items : c.parent[r] \in c.items \cup {NoRequirement}
  /\ \A r \in c.items : r \notin AncestorsOf(c, r)
  /\ \A r \in c.items : c.dependsOn[r] \subseteq c.items \ {r}
  /\ Acyclic(c.items, c.dependsOn)

Parents(c) == {c.parent[r] : r \in c.items} \ {NoRequirement}

\* What the ledger follows: mandatory leaves, and inner items that have to be
\* accepted themselves.
Actionable(c) == {r \in c.mandatory : r \in Parents(c) => r \in c.blocking}

\* actionable_descendants: the first actionable item on every path down.
ActionableBelow(c, d) ==
  {r \in Actionable(c) :
     /\ d \in AncestorsOf(c, r)
     /\ \A a \in AncestorsOf(c, r) \cap Actionable(c) : d \notin AncestorsOf(c, a)}

\* resolved_dependencies: only actionable items have an execution state.
ResolvedDependencies(c, r) ==
  UNION {IF d \in Actionable(c) THEN {d}
         ELSE IF d \in AncestorsOf(c, r) THEN {}
         ELSE ActionableBelow(c, d) \ {r} : d \in c.dependsOn[r]}

-----------------------------------------------------------------------------
(* The ledger: progress and producers are functions of Requirements        *)

PendingIds(progress) == {r \in Requirements : progress[r] = "pending"}

\* ready_ids
ReadyIds(c, progress) ==
  {r \in PendingIds(progress) :
     \A d \in ResolvedDependencies(c, r) : progress[d] \in {"produced", "passed"}}

UpTo(S, r) == {q \in S : q <= r}

\* Mutant: what is pending is planned, whatever it waits for.
BatchOfPending(c, progress) == PendingIds(progress)

\* select_requirement_batch: other requirements before code, as many as fit,
\* the first of them always; code requirements all at once.
SelectBatch(c, progress) ==
  LET ready == ReadyIds(c, progress)
      plain == ready \ c.code
      fits(r) ==
        \/ UpTo(plain, r) = {r}
        \/ /\ Cardinality(UpTo(plain, r)) <= MaxPerStage
           /\ MapThenSumSet(LAMBDA q : Cost[q], UpTo(plain, r)) <= MaxPrompt
  IN IF plain = {} THEN ready ELSE {r \in plain : \A q \in UpTo(plain, r) : fits(q)}

\* scoped_requirement_set with the coverage rule of plan_validator: an item
\* whose own descendant is in the batch is a parent there, and parents need no
\* primitive of their own.
MustBeCovered(c, batch) == {r \in batch : \A q \in batch : r \notin AncestorsOf(c, q)}

\* Mutant: all() of no producers holds.
RefreshedOverNothing(progress, producers, p, st) ==
  [r \in Requirements |->
     IF progress[r] = "planned" /\ \A n \in producers[r] : st[n] = "completed"
     THEN "produced" ELSE progress[r]]

\* refresh_from_graph: an item without producers stays as it is.
Refreshed(progress, producers, p, st) ==
  [r \in Requirements |->
     LET made == {st[n] : n \in producers[r] \cap p.nodes}
     IN IF made = {} THEN progress[r]
        ELSE IF "failed" \in made THEN "failed"
        ELSE IF "blocked" \in made THEN "blocked"
        ELSE IF made = {"completed"} THEN "produced"
        ELSE progress[r]]

MarkPlanned(progress, batch) ==
  [r \in Requirements |-> IF r \in batch THEN "planned" ELSE progress[r]]

MarkBlocked(progress, S) ==
  [r \in Requirements |-> IF r \in S THEN "blocked" ELSE progress[r]]

\* What the workflow reports as incomplete when the loop is over.
IncompleteIds(progress) ==
  {r \in Requirements : progress[r] \in {"pending", "planned", "failed", "blocked"}}

-----------------------------------------------------------------------------
(* The graph                                                               *)

Sinks(p) == {n \in p.nodes : \A m \in p.nodes : n \notin p.deps[m]}

WithNode(p, n, D) == [nodes |-> p.nodes \cup {n}, deps |-> [p.deps EXCEPT ![n] = D]]

\* Mutant: the roots of the new stage stay roots.
JoinedStage(p, a) ==
  [nodes |-> p.nodes \cup a.nodes,
   deps  |-> [n \in NodeIds |-> IF n \in a.nodes THEN a.deps[n] ELSE p.deps[n]]]

\* merge_stage_graph: the roots of the new stage wait for every sink so far.
MergedStage(p, a) ==
  [nodes |-> p.nodes \cup a.nodes,
   deps  |-> [n \in NodeIds |->
                IF n \notin a.nodes THEN p.deps[n]
                ELSE IF a.deps[n] = {} THEN Sinks(p) ELSE a.deps[n]]]

\* Whoever uses the code's result waits for its terminal check too.
WithTerminal(p, codeNode) ==
  LET t == GovernanceId["terminal_execution"]
  IN [nodes |-> p.nodes \cup {t},
      deps  |-> [n \in NodeIds |->
                   IF n = t THEN {codeNode}
                   ELSE IF n \in p.nodes /\ codeNode \in p.deps[n] THEN p.deps[n] \cup {t}
                   ELSE p.deps[n]]]

\* append_governance_nodes on a graph whose code node is codeNode, if it has one.
Governed(p, codeNodes) ==
  LET q  == IF "terminal_execution" \in Governance /\ codeNodes = {}
            THEN WithNode(p, DeliveryId, Sinks(p)) ELSE p
      cn == IF codeNodes = {} THEN DeliveryId ELSE CHOOSE n \in codeNodes : TRUE
      t  == IF "terminal_execution" \in Governance THEN WithTerminal(q, cn) ELSE q
      e  == IF "evidence_verification" \in Governance
            THEN WithNode(t, GovernanceId["evidence_verification"], t.nodes) ELSE t
  IN IF "artifact_validation" \in Governance
     THEN WithNode(e, GovernanceId["artifact_validation"],
                   IF "evidence_verification" \in Governance
                   THEN {GovernanceId["evidence_verification"]} ELSE Sinks(e))
     ELSE e

=============================================================================
