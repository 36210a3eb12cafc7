---------------------------- MODULE PlanHierarchy ----------------------------
(***************************************************************************)
(* The hierarchical plan (PlanIR) a planning model proposes and what the   *)
(* framework does to it: the normalisations of                             *)
(* planning/hierarchical_planner.py, the structural checks of              *)
(* planning/plan_validator.py, the merge of a local revision, and          *)
(* planning/plan_flattener.py, which turns the plan into a graph of        *)
(* executable leaves.                                                      *)
(*                                                                         *)
(* A plan is a record                                                      *)
(*   primitive, compound   the ids of the executable and the grouping nodes *)
(*   parent                the node each of them is contained in, or Nobody *)
(*   deps                  the pairs <<d, n>> of n's dependencies           *)
(*   inputs                the dependencies n reads its input from         *)
(*   edges                 the pairs of the plan's own edge list           *)
(* Names, objectives, outputs, criteria and capabilities are left out.  A  *)
(* definition whose comment begins with "Mutant" is a plausible mistake in *)
(* the definition that follows it.                                         *)
(***************************************************************************)
EXTENDS Naturals, FiniteSets

CONSTANTS NodeIds,    \* the ids a planning model may use
          Nobody      \* the parent of a top-level node

ASSUME NobodyAssumption == Nobody \notin NodeIds

-----------------------------------------------------------------------------
(* Relations                                                               *)

\* The pairs a path of R joins: the second is in every set that has what follows
\* the first and whatever follows a member.
Paths(R) ==
  LET ends     == {e[2] : e \in R}
      after(a) == {e[2] : e \in {f \in R : f[1] = a}}
      closed   == {S \in SUBSET ends : \A e \in R : e[1] \in S => e[2] \in S}
  IN  {e \in {f[1] : f \in R} \X ends : \A S \in closed : after(e[1]) \subseteq S => e[2] \in S}

Acyclic(R) == \A e \in Paths(R) : e[1] # e[2]

Swapped(R) == {<<e[2], e[1]>> : e \in R}

Within(R, S) == R \cap (S \X S)

-----------------------------------------------------------------------------
(* Containment                                                             *)

Ids(p) == p.primitive \cup p.compound

\* Parents the plan does not contain.
Orphaned(p) == {p.parent[n] : n \in Ids(p)} \ (Ids(p) \cup {Nobody})

\* <<a, n>>: a is an ancestor of n, through parents the plan contains.  Nothing
\* keeps an answer from containing a node in itself.
Containment(p) ==
  Paths({<<p.parent[n], n>> : n \in {m \in Ids(p) : p.parent[m] \in Ids(p)}})

\* No node contains itself.
Nested(p) == \A n \in Ids(p) : <<n, n>> \notin Containment(p)

Kin(p) == LET c == Containment(p) IN c \cup Swapped(c)

Children(p, n) == {m \in Ids(p) : p.parent[m] = n}

\* The nodes inside n, which the plan need not contain itself.
Below(p, n) ==
  LET within == Containment(p)
  IN  {m \in Ids(p) : \E d \in Children(p, n) : m = d \/ <<d, m>> \in within}

\* Pairs of a node of the plan and what it is said to be inside of.
Declared(p) == {e \in NodeIds \X NodeIds : e[2] \in Below(p, e[1]) \/ e[1] \in Below(p, e[2])}

Leaves(p, n) == (Below(p, n) \cup {n}) \cap p.primitive

-----------------------------------------------------------------------------
(* Normalisation                                                           *)

\* _normalize_containment_dependencies
WithoutContainment(p) ==
  LET kin == Kin(p)
  IN  [p EXCEPT !.deps = @ \ kin, !.inputs = @ \ kin, !.edges = (@ \cup p.deps) \ kin]

\* _ensure_parent_compounds: a shell for every parent the answer left out,
\* which takes over its children's dependencies on other nodes.
WithParents(p) ==
  LET missing == Orphaned(p)
      inherited == {e \in NodeIds \X missing :
                      /\ e[1] \notin Children(p, e[2]) \cup {e[2]}
                      /\ \E c \in Children(p, e[2]) : <<e[1], c>> \in p.deps}
  IN  WithoutContainment(
        [p EXCEPT !.compound = @ \cup missing,
                  !.parent = [n \in Ids(p) \cup missing |->
                                IF n \in missing THEN Nobody ELSE p.parent[n]],
                  !.deps = @ \cup inherited])

\* _normalize_external_stage_references, once a stage has been completed.
WithoutOldStages(p) ==
  [p EXCEPT !.deps = Within(@, Ids(p)), !.inputs = Within(@, Ids(p)),
            !.edges = Within(@, Ids(p))]

\* Compound c goes away; whoever depended on it is rewired below, but an
\* input keeps the name of its producer.
Removed(p, c) ==
  [p EXCEPT !.compound = @ \ {c},
            !.parent = [n \in Ids(p) \ {c} |-> p.parent[n]],
            !.inputs = {e \in @ : e[2] # c}]

\* A childless compound: what waited for it waits for what it waited for.
WithoutShell(p, c) ==
  LET before(R) == {d \in NodeIds : <<d, c>> \in R}
      after(R)  == {n \in NodeIds : <<c, n>> \in R}
      rest      == NodeIds \ {c}
      joined    == (before(p.edges) \cup before(p.deps)) \X after(p.edges)
  IN  [Removed(p, c) EXCEPT
         !.deps  = Within(@, rest) \cup (before(p.deps) \X (after(p.deps) \ {c})),
         !.edges = Within(@, rest) \cup {e \in joined : e[1] # e[2]}]

\* A compound that is its own only child: its place goes with it.
WithoutItself(p, c) ==
  [Removed(p, c) EXCEPT !.deps = {e \in @ : e[2] # c}, !.edges = {e \in @ : e[1] # e[2]}]

\* A compound with one child: the child takes its place.
Replaced(p, c) ==
  LET child == CHOOSE n \in NodeIds : n \in Children(p, c)
      sub(n) == IF n = c THEN child ELSE n
  IN  [Removed(p, c) EXCEPT
         !.parent = [@ EXCEPT ![child] = p.parent[c]],
         !.deps = {<<IF e[2] = c THEN e[1] ELSE sub(e[1]), sub(e[2])>> :
                     e \in @ \ {<<c, child>>}},
         !.edges = {e \in {<<sub(f[1]), sub(f[2])>> : f \in @} : e[1] # e[2]}]

\* Childless, but another node names it as the producer of its input.
Expected(p) ==
  {c \in p.compound : Children(p, c) = {} /\ \E e \in p.inputs : e[1] = c /\ e[2] # c}

Hollow(p) == {c \in p.compound : Cardinality(Children(p, c)) < 2}

Collapsing(p) ==
  {CASE Children(p, c) = {}  -> WithoutShell(p, c)
     [] Children(p, c) = {c} -> WithoutItself(p, c)
     [] OTHER                -> Replaced(p, c) : c \in Hollow(p) \ Expected(p)}

\* Mutant: one compound is collapsed, not those its collapse leaves hollow.
CollapsedOnce(p) ==
  {WithoutContainment(q) : q \in IF Collapsing(p) = {} THEN {p} ELSE Collapsing(p)}

\* _collapse_single_child_compounds: until no compound is left to collapse.
\* The code goes through its list of nodes; here any order is taken.
Collapsed(p) ==
  LET after[i \in Nat] ==
        IF i = 0 THEN {p} ELSE UNION {{q} \cup Collapsing(q) : q \in after[i - 1]}
  IN  {WithoutContainment(q) :
         q \in {r \in after[Cardinality(p.compound)] : Collapsing(r) = {}}}

\* _normalize_stage_plan
Normalised(p, laterStage) ==
  LET q == WithoutContainment(p)
  IN  Collapsed(IF laterStage THEN WithoutOldStages(q) ELSE q)

-----------------------------------------------------------------------------
(* Validation                                                              *)

\* The structural checks of validate_plan_ir.
WellFormed(p) ==
  LET all == p.edges \cup p.deps
  IN  /\ all \subseteq Ids(p) \X Ids(p)
      /\ \A e \in p.inputs : e[2] \in p.primitive => e \in p.deps
      /\ all \cap Kin(p) = {}
      /\ Acyclic(all)
      /\ \A n \in Ids(p) : p.parent[n] \in p.compound \cup {Nobody}
      /\ \A c \in p.compound : Cardinality(Children(p, c)) >= 2

-----------------------------------------------------------------------------
(* Local revision                                                          *)

\* A patch is a plan of its own, meant for target and for nodes inside it.
\* If it has no node of the target's id the target stays, as a compound.
Completed(p, target, patch) ==
  IF target \in Ids(patch) THEN patch
  ELSE [patch EXCEPT
          !.compound = @ \cup {target},
          !.parent = [n \in Ids(patch) \cup {target} |->
                        IF n = target THEN p.parent[target] ELSE patch.parent[n]],
          !.deps = @ \cup {e \in p.deps : e[2] = target},
          !.inputs = @ \cup {e \in p.inputs : e[2] = target}]

\* Replacements nobody contains go under the target, if that is a compound.
Contained(target, patch) ==
  IF target \notin patch.compound THEN patch
  ELSE [patch EXCEPT
          !.parent = [n \in Ids(patch) |->
                        IF n # target /\ @[n] = Nobody THEN target ELSE @[n]]]

\* Mutant: only edges between nodes that stay survive a revision.
ForgetBoundary(p, target, gone) == {}

\* What was before or after a replaced node is before or after the target,
\* also if the patch had no reason to replace that node.
Boundary(p, target, gone) ==
  LET old  == p.edges \cup p.deps
      rest == Ids(p) \ gone
  IN  {<<e[1], target>> : e \in old \cap (rest \X gone)} \cup
      {<<target, e[2]>> : e \in old \cap (gone \X rest)}

\* _merge_patch
Merged(p, target, patch) ==
  LET new  == Contained(target, Completed(p, target, patch))
      dead == Below(p, target) \ Ids(new)      \* obsolete_descendants
      gone == Ids(new) \cup dead               \* replaced_ids
      deps == {e \in new.deps : e[1] \notin dead}
      outside == NodeIds \ gone
  IN  [primitive |-> (p.primitive \ gone) \cup new.primitive,
       compound  |-> (p.compound \ gone) \cup new.compound,
       parent    |-> [n \in (Ids(p) \ gone) \cup Ids(new) |->
                        IF n \in Ids(new) THEN new.parent[n] ELSE p.parent[n]],
       deps      |-> {e \in p.deps : e[2] \notin gone} \cup deps,
       inputs    |-> {e \in p.inputs : e[2] \notin gone} \cup new.inputs,
       edges     |-> Within(p.edges \cup p.deps, outside)
                     \cup Boundary(p, target, gone) \cup patch.edges \cup deps]

-----------------------------------------------------------------------------
(* Flattening                                                              *)

\* The edges an execution follows: containment is not one of them.
RawEdges(p) == Within(p.edges \cup p.deps, Ids(p)) \ Kin(p)

\* Edges between two executables inside compound n.
Inner(p, n) == Within(RawEdges(p), Leaves(p, n))

\* Mutant: a compound is over with one of its last executables.
OneExit(p, n) ==
  {CHOOSE m \in Leaves(p, n) : \A e \in Inner(p, n) : e[1] # m}

Entries(p, n) == {m \in Leaves(p, n) : \A e \in Inner(p, n) : e[2] # m}
Exits(p, n)   == {m \in Leaves(p, n) : \A e \in Inner(p, n) : e[1] # m}

\* Each edge of a compound becomes edges from its exits and to its entries.
LeafEdges(p) ==
  {e \in p.primitive \X p.primitive :
     /\ e[1] # e[2]
     /\ \E f \in RawEdges(p) : e[1] \in Exits(p, f[1]) /\ e[2] \in Entries(p, f[2])}

\* The plans flatten_plan_ir_to_semantic_graph does not refuse.
Flattens(p) ==
  /\ Nested(p)
  /\ \A n \in Ids(p) : Entries(p, n) # {} /\ Exits(p, n) # {}
  /\ Acyclic(LeafEdges(p))

\* What the plan says of the order of its executables: whatever an edge
\* leaves comes, with all its parts, before whatever it enters.
Order(p) ==
  LET within == Containment(p)
      parts(n) == {n} \cup {m \in Ids(p) : <<n, m>> \in within}
      edges == Within(p.edges \cup p.deps, Ids(p)) \ (within \cup Swapped(within))
  IN  Within(Paths(UNION {parts(e[1]) \X parts(e[2]) : e \in edges}), p.primitive)

=============================================================================
