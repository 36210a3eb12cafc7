------------------------ MODULE HierarchicalPlanning ------------------------
(***************************************************************************)
(* From the first answer of a planning model to the graph the scheduler    *)
(* receives: build_hierarchical_semantic_graph of                          *)
(* planning/hierarchical_planner.py, compile_semantic_graph of             *)
(* graph/graph_compiler.py, and the choice run_workflow makes between the  *)
(* hierarchical plan, the legacy plan, the fixed graph and giving up.      *)
(*                                                                         *)
(* The model's answers are external: any plan and any patch within the     *)
(* bounds, or an answer that cannot be parsed.  What the validators judge  *)
(* from the wording, outputs, capabilities and requirement coverage of a   *)
(* plan is external too: they may refuse any plan whose structure is       *)
(* sound, never accept one whose structure is not.                         *)
(***************************************************************************)
EXTENDS PlanHierarchy

CONSTANTS Drafted,      \* the ids of a first answer
          MaxLinks,     \* bound: dependencies and containments a first answer states
          MaxPatchLinks,\* bound: dependencies a patch states
          MaxPatch,     \* bound: nodes of a first patch, and what it says beyond
                        \* them; of each later one, one less
          MaxRounds,    \* policy.max_revision_rounds
          Analysis, Code,                 \* the business nodes of the fixed graph
          Terminal, Evidence, Artifacts   \* the framework's own nodes

Own == {Analysis, Code, Terminal, Evidence, Artifacts}

ASSUME PlanningAssumption ==
  /\ IsFiniteSet(NodeIds) /\ Drafted \subseteq NodeIds
  /\ {MaxLinks, MaxPatchLinks, MaxPatch, MaxRounds} \subseteq Nat
  /\ Own \cap (NodeIds \cup {Nobody}) = {} /\ Analysis # Code
  /\ Terminal \notin {Analysis, Code} /\ Evidence \notin {Analysis, Code, Terminal}
  /\ Artifacts \notin {Analysis, Code, Terminal, Evidence}

LegacyAttempts == 2

VARIABLES
  later,     \* whether this is the plan of a later stage
  phase,     \* "draft", "check", "legacy", "scheduled", "blocked", "raised"
  plan,      \* the hierarchical plan
  round,     \* revision rounds, then legacy attempts, spent
  patched,   \* of the last patch: the ids it answered for or removed, the
             \* parents it named, and whether it kept to the node it was for
             \* and left an executable there
  graph      \* the graph recorded for the scheduler and where it comes from

vars == <<later, phase, plan, round, patched, graph>>

-----------------------------------------------------------------------------
(* The model's answers.  The adapter makes a dependency of every edge that *)
(* enters a node of the answer and of every input, and removes containment *)
(* from the edges and the dependencies.  An answer may name as parent any  *)
(* id at all, and may state an order R of any ids: E of it as edges, the   *)
(* rest as dependencies, and one pair, if any, as an input.                *)

Answer(C, P, parent, R, E, inputs) ==
  LET said == [primitive |-> P, compound |-> C, parent |-> parent,
               deps |-> {e \in R : e[2] \in C \cup P}, inputs |-> inputs, edges |-> E]
  IN  [said EXCEPT !.deps = @ \ Declared(said), !.edges = @ \ Declared(said)]

Links(S, k) == {R \in SUBSET (S \X S) : Cardinality(R) <= k}

DraftLinks == Links(Drafted, MaxLinks)
PatchLinks == Links(NodeIds, MaxPatchLinks)

Inputs(R, N) == {I \in SUBSET {e \in R : e[2] \in N} : Cardinality(I) <= 1}

NoPlan == [primitive |-> {}, compound |-> {}, parent |-> <<>>,
           deps |-> {}, inputs |-> {}, edges |-> {}]

NoPatch == [ids |-> {}, named |-> {}, local |-> FALSE]

NoGraph == [from |-> "none", nodes |-> {}, deps |-> {}]

-----------------------------------------------------------------------------
(* Compilation                                                             *)

Terminated(code, D) ==
  D \cup {<<code, Terminal>>} \cup {<<Terminal, e[2]>> : e \in {f \in D : f[1] = code}}

Sinks(N, D) == {n \in N : \A e \in D : e[1] # n}

\* compile_semantic_graph: the framework's own nodes around a business graph.
\* code is its code node, if the task requires terminal_execution.
Compiled(from, N, D, code, evidence) ==
  LET D1 == IF code = Nobody THEN D ELSE Terminated(code, D)
      N1 == N \cup ({Terminal} \ (IF code = Nobody THEN {Terminal} ELSE {}))
      D2 == IF evidence THEN D1 \cup (N1 \X {Evidence}) ELSE D1
      N2 == N1 \cup (IF evidence THEN {Evidence} ELSE {})
  IN  [from |-> from, nodes |-> N2 \cup {Artifacts},
       deps |-> D2 \cup (Sinks(N2, D2) \X {Artifacts})]

\* A stage's graph has no node of the framework's: append_governance_nodes
\* adds them when no stage is left.
Executable(N, D) ==
  IF later THEN {[from |-> "hierarchy", nodes |-> N, deps |-> D]}
  ELSE {Compiled("hierarchy", N, D, code, evidence) :
          code \in N \cup {Nobody}, evidence \in BOOLEAN}

-----------------------------------------------------------------------------
(* Hierarchical planning                                                   *)

Init ==
  /\ later \in BOOLEAN
  /\ phase = "draft" /\ plan = NoPlan /\ round = 0
  /\ patched = NoPatch /\ graph = NoGraph

\* The exception reaches run_workflow, where the task's policy decides
\* whether a legacy plan may do, or the expansion of a later stage.
GiveUpHierarchy ==
  /\ phase' \in IF later THEN {"blocked"} ELSE {"legacy", "blocked"}
  /\ plan' = NoPlan /\ round' = 0 /\ patched' = NoPatch
  /\ UNCHANGED <<later, graph>>

Draft ==
  /\ phase = "draft"
  /\ \E S \in SUBSET Drafted \ {{}} :
       \E C \in SUBSET S, R \in DraftLinks, parent \in [S -> Drafted \cup {Nobody}] :
         /\ Cardinality(R) + Cardinality({n \in S : parent[n] \in S}) <= MaxLinks
         /\ \E I \in Inputs(R, S) :
              plan' \in Normalised(WithParents(Answer(C, S \ C, parent, R, R, I)), later)
  /\ phase' = "check"
  /\ UNCHANGED <<later, round, patched, graph>>

\* An answer that cannot be parsed is not asked for again.
DraftUnreadable == phase = "draft" /\ GiveUpHierarchy

\* The validator passes: the plan is flattened, compiled and validated.
Accept ==
  /\ phase = "check" /\ WellFormed(plan) /\ Flattens(plan)
  /\ graph' \in Executable(plan.primitive, LeafEdges(plan))
  /\ phase' = "scheduled" /\ patched' = NoPatch
  /\ UNCHANGED <<later, plan, round>>

\* The plan passes and is refused by the flattener, by the compiler or by
\* the validation of the compiled graph: no revision follows.
AcceptedInVain == phase = "check" /\ WellFormed(plan) /\ GiveUpHierarchy

Above(p, n) == {m \in Ids(p) : <<m, n>> \in Containment(p)}

\* The ids a patch for target was asked for: the target, what is inside it, and
\* ids the plan does not use.
Region(target) == Below(plan, target) \cup {target} \cup (NodeIds \ Ids(plan))

\* Where it was asked to put them: inside one another, where the target is, or
\* nowhere, which means inside the target.
Places(target) == {Nobody} \cup {plan.parent[n] : n \in Ids(plan) \cap {target}}

\* What the prompt asks of a patch for target, and nothing checks.
Local(target, patch) ==
  LET N == Ids(patch)
  IN  /\ target \in Ids(plan) /\ N \subseteq Region(target)
      /\ \A n \in N : patch.parent[n] \in N \cup Places(target)
      /\ target \in N => patch.parent[target] \notin N
      /\ Nested(patch)
      /\ \A e \in patch.edges \cup patch.deps : e[2] \in N /\ e[1] # e[2]

\* What a patch for target says that it was not asked for: of the nodes N and
\* their parents, and of the order R, of which E are edges.
Astray(target, N, parent) ==
  LET region == Region(target)
      places == Places(target)
  IN  ({target} \ Ids(plan)) \cup (N \ region) \cup
      {n \in N : parent[n] \notin (N \ {n}) \cup places}

Loose(N, R, E) ==
  (R \ E) \cup {e \in R : e[1] = e[2] \/ e[1] \notin Ids(plan) \cup N \/ e[2] \notin N}

\* The patch is merged into the plan.  Parents it names and the plan does not
\* contain stay unknown.
Revise(target, patch) ==
  LET merged == Merged(plan, target, patch)
      above  == Above(plan, target)
  IN  /\ plan' \in Normalised(merged, later)
      /\ patched' = [ids   |-> Ids(patch) \cup Below(plan, target) \cup {target},
                     named |-> {patch.parent[n] : n \in Ids(patch)},
                     local |-> /\ Local(target, patch)
                               /\ \E n \in Leaves(merged, target) : above \subseteq Above(merged, n)]

\* One revision.  The prompt is for one node of the plan; the patch says itself
\* which node it is for, and may answer for any others.
Refine ==
  /\ phase = "check" /\ round < MaxRounds
  /\ \E target \in NodeIds, N \in SUBSET NodeIds \ {{}} :
       /\ target \in Ids(plan) \cup N /\ Cardinality(N) + round <= MaxPatch
       /\ \E parent \in [N -> NodeIds \cup {Nobody}] :
            LET said == Cardinality(N) + Cardinality(Astray(target, N, parent))
            IN  /\ said + round <= MaxPatch
                /\ \E R \in PatchLinks : \E E \in SUBSET R :
                     /\ said + Cardinality(Loose(N, R, E)) + round <= MaxPatch
                     /\ \E C \in SUBSET N, I \in Inputs(R, N) :
                          Revise(target, Answer(C, N \ C, parent, R, E, I))
  /\ round' = round + 1
  /\ UNCHANGED <<later, phase, graph>>

\* No round is left, or the patch and its retry cannot be read or merged.
RefinedInVain == phase = "check" /\ GiveUpHierarchy

-----------------------------------------------------------------------------
(* The legacy plan and the fixed graph                                     *)

LegacyPlan ==
  /\ phase = "legacy" /\ round < LegacyAttempts
  /\ \E S \in SUBSET Drafted \ {{}} : \E D \in Links(S, MaxLinks), evidence \in BOOLEAN :
       \E code \in S \cup {Nobody} :
         /\ Acyclic(D)
         /\ graph' = Compiled("legacy", S, D, code, evidence)
  /\ phase' = "scheduled"
  /\ UNCHANGED <<later, plan, round, patched>>

LegacyRefused ==
  /\ phase = "legacy" /\ round < LegacyAttempts
  /\ round' = round + 1
  /\ UNCHANGED <<later, phase, plan, patched, graph>>

\* build_fallback_graph: analysis, code if there is any, and the checks.
FixedGraph ==
  /\ phase = "legacy" /\ round = LegacyAttempts
  /\ \E evidence \in BOOLEAN :
       graph' \in {Compiled("fixed", {Analysis}, {}, Nobody, evidence)} \cup
                  {Compiled("fixed", {Analysis, Code}, {<<Analysis, Code>>}, code, evidence) :
                     code \in {Code, Nobody}}
  /\ phase' = "scheduled"
  /\ UNCHANGED <<later, plan, round, patched>>

\* A capability the fixed graph needs is not available: run_workflow raises.
NoFixedGraph ==
  /\ phase = "legacy" /\ round = LegacyAttempts
  /\ phase' = "raised"
  /\ UNCHANGED <<later, plan, round, patched, graph>>

Next ==
  \/ Draft \/ DraftUnreadable \/ Accept \/ AcceptedInVain
  \/ Refine \/ RefinedInVain
  \/ LegacyPlan \/ LegacyRefused \/ FixedGraph \/ NoFixedGraph

Spec == Init /\ [][Next]_vars

-----------------------------------------------------------------------------
(* Properties                                                              *)

\* Whatever the plan orders is ordered in the graph the scheduler receives,
\* no executable is lost and nothing waits for itself.  A consumer of code
\* that is verified in a terminal waits for the verification, and in a graph
\* with the framework's nodes everything ends in the artifact check.
OrderKept ==
  phase = "scheduled" =>
    LET before == Paths(graph.deps) IN
    /\ Acyclic(graph.deps)
    /\ graph.from = "hierarchy" =>
         Order(plan) \subseteq before /\ plan.primitive \subseteq graph.nodes
    /\ Artifacts \in graph.nodes =>
         (graph.nodes \ {Artifacts}) \X {Artifacts} \subseteq before
    /\ \A e, f \in graph.deps :
         e[2] = Terminal /\ e[1] = f[1] /\ f[2] # Terminal => <<Terminal, f[2]>> \in before

\* What a revision of one node owes the others.  Whatever the patch, executables
\* it does not answer for stay, and it takes away no node's container (unless
\* nodes contain each other, nothing but a parent it names itself can be missing
\* afterwards that was not before).  A patch that keeps to the node it was asked
\* for, and leaves an executable inside the node and the node's containers, also
\* leaves the others contained and ordered as they were, even where the order
\* ran through the revised node.  (This of a plan whose containers are there; a
\* node that waits for itself has no order to keep, and an empty compound is no
\* place for anything: one outside the patch may go with its last consumer.)
KeepsTheRest ==
  LET kept == Ids(plan) \ patched'.ids
  IN  /\ plan.primitive \cap kept \subseteq plan'.primitive
      /\ Nested(plan) => Orphaned(plan') \subseteq Orphaned(plan) \cup patched'.named
      /\ /\ patched'.local /\ Nested(plan) /\ Orphaned(plan) = {}
         /\ Hollow(plan) \cap kept = {}
         /\ \A e \in plan.edges \cup plan.deps : e[1] # e[2]
         => /\ plan.compound \cap kept \subseteq plan'.compound
            /\ \A n \in kept : plan'.parent[n] = plan.parent[n]
            /\ Within(Order(plan), plan.primitive \cap kept) \subseteq Order(plan')

\* A revision of one node disconnects nothing else (_merge_patch and the
\* normalisation after it).
BoundaryKept == [][phase = "check" /\ phase' = "check" => KeepsTheRest]_vars

\* What the framework repairs by itself never costs a revision: a plan that
\* comes before the validator has no edge between a node and what contains it,
\* and no compound with fewer than two children but one a consumer still
\* expects; before the first revision it also has all its containers.  (After
\* one it may not: the merge of a patch does not restore them.)
ShapeRepaired ==
  phase = "check" =>
    /\ round = 0 => Orphaned(plan) = {}
    /\ (plan.edges \cup plan.deps) \cap Kin(plan) = {}
    /\ Hollow(plan) \subseteq Expected(plan)

=============================================================================
