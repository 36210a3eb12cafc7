---------------------- MODULE HierarchicalPlanningProofs ----------------------
(***************************************************************************)
(* Three results about HierarchicalPlanning, for any ids and any bounds on *)
(* the answers of the planning model:                                      *)
(*                                                                         *)
(*   ShapeIsRepaired        what comes before the validator has no edge    *)
(*                          between a node and what contains it, nothing   *)
(*                          left to collapse and, before a revision, its   *)
(*                          containers                                     *)
(*   OrderReachesScheduler  the graph the scheduler receives is without    *)
(*                          cycles and keeps the order of the plan         *)
(*   RevisionStaysLocal     no revision loses an executable it does not    *)
(*                          answer for, or a container; one that keeps to  *)
(*                          its node loses no order that ran through it    *)
(*                                                                         *)
(* Paths, defined by closed sets, is the least transitive relation with    *)
(* the given edges: that is all the proofs use of it.  Flattening is       *)
(* followed from an edge between two compounds to an edge between an exit  *)
(* of the one and an entry of the other, which every leaf of the one comes *)
(* before or is, and every leaf of the other after.  The collapse of       *)
(* compounds is an iteration over plans; the relation Containment of the   *)
(* plan before each collapse holds that of the plan after it.  Through a   *)
(* revision, some node stands in the revised node's place: the node        *)
(* itself, or, once it has collapsed, the child that took its place, and   *)
(* every edge between the place and the rest of the plan is there.         *)
(***************************************************************************)
EXTENDS HierarchicalPlanning, FiniteSetTheorems, TLAPS

-----------------------------------------------------------------------------
(* Paths                                                                   *)

IsTransitive(T) == \A x, y, z : <<x, y>> \in T /\ <<y, z>> \in T => <<x, z>> \in T

\* What is reached from a is in every set that has what follows a and whatever
\* follows a member.
LEMMA PathInduction ==
  ASSUME NEW R, NEW a, NEW b, <<a, b>> \in Paths(R), NEW S,
         \A e \in R : e[1] = a => e[2] \in S,
         \A e \in R : e[1] \in S => e[2] \in S
  PROVE  b \in S
<1> DEFINE ends == {e[2] : e \in R}
           T == S \cap ends
<1>1. T \in {U \in SUBSET ends : \A e \in R : e[1] \in U => e[2] \in U}
  OBVIOUS
<1>2. {e[2] : e \in {f \in R : f[1] = a}} \subseteq T
  OBVIOUS
<1>3. QED
  BY <1>1, <1>2 DEF Paths

LEMMA EdgeIsPath ==
  ASSUME NEW R, NEW e \in R
  PROVE  <<e[1], e[2]>> \in Paths(R)
BY DEF Paths

\* One more edge at either end.
LEMMA PathThenEdge ==
  ASSUME NEW R, NEW a, NEW e \in R, <<a, e[1]>> \in Paths(R)
  PROVE  <<a, e[2]>> \in Paths(R)
BY DEF Paths

LEMMA PathEnds ==
  ASSUME NEW R, NEW a, NEW b, <<a, b>> \in Paths(R)
  PROVE  /\ \E e \in R : e[1] = a
         /\ \E e \in R : e[2] = b
BY DEF Paths

LEMMA PathPairs ==
  ASSUME NEW R, NEW e \in Paths(R)
  PROVE  e = <<e[1], e[2]>>
BY DEF Paths

LEMMA PathsTransitive ==
  ASSUME NEW R
  PROVE  IsTransitive(Paths(R))
<1> SUFFICES ASSUME NEW a, NEW b, NEW c, <<a, b>> \in Paths(R), <<b, c>> \in Paths(R)
             PROVE  <<a, c>> \in Paths(R)
  BY DEF IsTransitive
<1> DEFINE S == {x \in {e[2] : e \in R} : <<a, x>> \in Paths(R)}
<1>1. \A e \in R : e[1] = b => e[2] \in S
  BY PathThenEdge
<1>2. \A e \in R : e[1] \in S => e[2] \in S
  BY PathThenEdge
<1> HIDE DEF S
<1>3. c \in S
  BY <1>1, <1>2, PathInduction
<1>4. QED
  BY <1>3 DEF S

\* Paths is the least transitive relation with the edges of R.
LEMMA PathsLeast ==
  ASSUME NEW R, NEW T, IsTransitive(T), \A e \in R : <<e[1], e[2]>> \in T
  PROVE  Paths(R) \subseteq T
<1> SUFFICES ASSUME NEW p \in Paths(R) PROVE p \in T
  OBVIOUS
<1>1. PICK a, b : p = <<a, b>>
  BY PathPairs
<1> DEFINE S == {x \in {e[2] : e \in R} : <<a, x>> \in T}
<1>2. \A e \in R : e[1] = a => e[2] \in S
  OBVIOUS
<1>3. \A e \in R : e[1] \in S => e[2] \in S
  BY DEF IsTransitive
<1> HIDE DEF S
<1>4. b \in S
  BY <1>1, <1>2, <1>3, PathInduction
<1>5. QED
  BY <1>1, <1>4 DEF S

LEMMA PathsGrow ==
  ASSUME NEW R, NEW Q, R \subseteq Q
  PROVE  Paths(R) \subseteq Paths(Q)
BY PathsLeast, PathsTransitive, EdgeIsPath

LEMMA PathsWithin ==
  ASSUME NEW R, NEW A, NEW B, R \subseteq A \X B
  PROVE  Paths(R) \subseteq A \X B
<1> SUFFICES ASSUME NEW p \in Paths(R) PROVE p \in A \X B
  OBVIOUS
<1>1. p = <<p[1], p[2]>>
  BY PathPairs
<1>2. (\E e \in R : e[1] = p[1]) /\ (\E e \in R : e[2] = p[2])
  BY <1>1, PathEnds
<1>3. QED
  BY <1>1, <1>2

\* A path is an edge, or an edge after a path.
LEMMA LastEdge ==
  ASSUME NEW R, NEW a, NEW b, <<a, b>> \in Paths(R)
  PROVE  \E e \in R : e[2] = b /\ (e[1] = a \/ <<a, e[1]>> \in Paths(R))
<1> DEFINE S == {x \in {e[2] : e \in R} :
                   \E e \in R : e[2] = x /\ (e[1] = a \/ <<a, e[1]>> \in Paths(R))}
<1>1. \A e \in R : e[1] = a => e[2] \in S
  OBVIOUS
<1>2. \A e \in R : e[1] \in S => e[2] \in S
  <2> SUFFICES ASSUME NEW e \in R, e[1] \in S PROVE e[2] \in S
    OBVIOUS
  <2>1. PICK f \in R : f[2] = e[1] /\ (f[1] = a \/ <<a, f[1]>> \in Paths(R))
    OBVIOUS
  <2>2. <<a, e[1]>> \in Paths(R)
    BY <2>1, EdgeIsPath, PathThenEdge
  <2>3. QED
    BY <2>2
<1> HIDE DEF S
<1>3. b \in S
  BY <1>1, <1>2, PathInduction
<1>4. QED
  BY <1>3 DEF S

LEMMA SwappedPaths ==
  ASSUME NEW R
  PROVE  \A x, y : <<x, y>> \in Paths(Swapped(R)) <=> <<y, x>> \in Paths(R)
<1>1. ASSUME NEW Q, NEW x, NEW y, <<x, y>> \in Paths(Swapped(Q))
      PROVE  <<y, x>> \in Paths(Q)
  <2> DEFINE T == {<<e[2], e[1]>> : e \in Paths(Q)}
  <2>1. \A u, v : <<u, v>> \in T <=> <<v, u>> \in Paths(Q)
    BY PathPairs
  <2>2. IsTransitive(T)
    <3> HIDE DEF T
    <3>1. QED
      BY <2>1, PathsTransitive DEF IsTransitive
  <2>3. \A e \in Swapped(Q) : <<e[1], e[2]>> \in T
    <3> SUFFICES ASSUME NEW e \in Swapped(Q) PROVE <<e[1], e[2]>> \in T
      OBVIOUS
    <3>1. PICK f \in Q : e = <<f[2], f[1]>>
      BY DEF Swapped
    <3>2. <<f[1], f[2]>> \in Paths(Q) /\ e[1] = f[2] /\ e[2] = f[1]
      BY <3>1, EdgeIsPath
    <3> HIDE DEF T
    <3>3. QED
      BY <2>1, <3>2
  <2>4. QED
    <3> HIDE DEF T
    <3>1. QED
      BY <1>1, <2>1, <2>2, <2>3, PathsLeast
<1>2. \A e \in R : \E f \in Swapped(Swapped(R)) : f[1] = e[1] /\ f[2] = e[2]
  <2> SUFFICES ASSUME NEW e \in R
               PROVE  \E f \in Swapped(Swapped(R)) : f[1] = e[1] /\ f[2] = e[2]
    OBVIOUS
  <2> DEFINE g == <<e[2], e[1]>>
  <2>1. g \in Swapped(R) /\ g[1] = e[2] /\ g[2] = e[1]
    BY DEF Swapped
  <2>2. <<g[2], g[1]>> \in Swapped(Swapped(R))
    BY <2>1 DEF Swapped
  <2>3. QED
    BY <2>1, <2>2
<1>3. Paths(R) \subseteq Paths(Swapped(Swapped(R)))
  <2>1. \A e \in R : <<e[1], e[2]>> \in Paths(Swapped(Swapped(R)))
    BY <1>2, EdgeIsPath
  <2>2. QED
    BY <2>1, PathsTransitive, PathsLeast
<1>4. QED
  BY <1>1, <1>3

\* A relation is acyclic if it is part of a transitive one without loops.
LEMMA AcyclicBy ==
  ASSUME NEW R, NEW T, IsTransitive(T), \A e \in R : <<e[1], e[2]>> \in T,
         \A x : <<x, x>> \notin T
  PROVE  Acyclic(R)
<1>1. Paths(R) \subseteq T
  BY PathsLeast
<1>2. \A e \in Paths(R) : e = <<e[1], e[2]>>
  BY PathPairs
<1>3. QED
  BY <1>1, <1>2 DEF Acyclic

LEMMA AcyclicFacts ==
  ASSUME NEW R, Acyclic(R)
  PROVE  \A x : <<x, x>> \notin Paths(R)
BY DEF Acyclic

LEMMA AcyclicPart ==
  ASSUME NEW R, NEW Q, R \subseteq Q, Acyclic(Q)
  PROVE  Acyclic(R)
BY PathsGrow DEF Acyclic

\* A non-empty family of subsets of a finite set has a minimal member.
LEMMA MinimalMember ==
  ASSUME NEW S, IsFiniteSet(S), NEW F, F \subseteq SUBSET S, F # {}
  PROVE  \E X \in F : \A Y \in F : Y \subseteq X => Y = X
<1>1. IsWellFoundedOn(StrictSubsetOrdering(S), SUBSET S)
  BY FS_StrictSubsetOrderingWellFounded, FS_FiniteSubsetsOfFinite
<1>2. \E X \in F : \A Y \in F : ~ (<<Y, X>> \in StrictSubsetOrdering(S))
  BY <1>1, WFMin
<1>3. QED
  BY <1>2 DEF StrictSubsetOrdering

\* In a finite set without cycles every member is, or leads to, one that leads
\* nowhere.
LEMMA EndReached ==
  ASSUME NEW L, IsFiniteSet(L), NEW R, R \subseteq L \X L, Acyclic(R), NEW m \in L
  PROVE  \E x \in L : (x = m \/ <<m, x>> \in Paths(R)) /\ \A e \in R : e[1] # x
<1> DEFINE from(x) == {y \in L : y = x \/ <<x, y>> \in Paths(R)}
           F == {from(x) : x \in from(m)}
<1>1. F \subseteq SUBSET L /\ F # {}
  OBVIOUS
<1>2. PICK x \in from(m) : \A y \in from(m) : from(y) \subseteq from(x) => from(y) = from(x)
  <2> HIDE DEF from
  <2>1. \E X \in F : \A Y \in F : Y \subseteq X => Y = X
    <3> HIDE DEF F
    <3>1. QED
      BY <1>1, MinimalMember
  <2>2. QED
    BY <2>1
<1>3. ASSUME NEW e \in R, e[1] = x PROVE FALSE
  <2> DEFINE y == e[2]
  <2>1. <<x, y>> \in Paths(R) /\ y \in L
    BY <1>3, EdgeIsPath
  <2>2. y \in from(m) /\ from(y) \subseteq from(x)
    BY <1>2, <2>1, PathsTransitive DEF IsTransitive
  <2>3. x \in from(y)
    BY <1>2, <2>2
  <2>4. <<x, x>> \in Paths(R)
    BY <2>1, <2>3, PathsTransitive DEF IsTransitive
  <2>5. QED
    BY <2>4, AcyclicFacts
<1>4. QED
  BY <1>2, <1>3

\* So it is with what comes before.
LEMMA StartReached ==
  ASSUME NEW L, IsFiniteSet(L), NEW R, R \subseteq L \X L, Acyclic(R), NEW m \in L
  PROVE  \E x \in L : (x = m \/ <<x, m>> \in Paths(R)) /\ \A e \in R : e[2] # x
<1> DEFINE Q == Swapped(R)
<1>1. Q \subseteq L \X L /\ \A e \in R : <<e[2], e[1]>> \in Q
  BY DEF Swapped
<1>2. \A x, y : <<x, y>> \in Paths(Q) <=> <<y, x>> \in Paths(R)
  BY SwappedPaths
<1> HIDE DEF Q
<1>3. Acyclic(Q)
  BY <1>2, PathPairs, AcyclicFacts DEF Acyclic
<1>4. PICK x \in L : (x = m \/ <<m, x>> \in Paths(Q)) /\ \A e \in Q : e[1] # x
  BY <1>1, <1>3, EndReached
<1>5. QED
  BY <1>1, <1>2, <1>4

-----------------------------------------------------------------------------
(* The order of a plan                                                     *)

\* A node is executable or groups others, never both.
Kinds(p) ==
  p.primitive \subseteq NodeIds /\ p.compound \subseteq NodeIds /\ p.primitive \cap p.compound = {}

\* The containments the parents state.
Up(p) == {<<p.parent[n], n>> : n \in {m \in Ids(p) : p.parent[m] \in Ids(p)}}

LEMMA ContainmentFacts ==
  ASSUME NEW p
  PROVE  /\ Containment(p) = Paths(Up(p)) /\ Up(p) \subseteq Ids(p) \X Ids(p)
         /\ \A e \in Up(p) : e[1] = p.parent[e[2]]
         /\ IsTransitive(Containment(p)) /\ Containment(p) \subseteq Ids(p) \X Ids(p)
<1>1. Containment(p) = Paths(Up(p)) /\ Up(p) \subseteq Ids(p) \X Ids(p)
  BY DEF Containment, Up
<1>2. \A e \in Up(p) : e[1] = p.parent[e[2]]
  BY DEF Up
<1>3. IsTransitive(Paths(Up(p))) /\ Paths(Up(p)) \subseteq Ids(p) \X Ids(p)
  BY <1>1, PathsTransitive, PathsWithin
<1>4. QED
  BY <1>1, <1>2, <1>3

LEMMA ParentAbove ==
  ASSUME NEW p, NEW n \in Ids(p), p.parent[n] \in Ids(p)
  PROVE  <<p.parent[n], n>> \in Containment(p)
<1> DEFINE e == <<p.parent[n], n>>
<1>1. e \in Up(p) /\ e[1] = p.parent[n] /\ e[2] = n
  BY DEF Up
<1> HIDE DEF e
<1>2. QED
  BY <1>1, EdgeIsPath, ContainmentFacts

\* What contains the same node is one inside the other.
LEMMA Chain ==
  ASSUME NEW p, NEW a, NEW b, NEW n, <<a, n>> \in Containment(p), <<b, n>> \in Containment(p)
  PROVE  a = b \/ <<a, b>> \in Containment(p) \/ <<b, a>> \in Containment(p)
<1> DEFINE C == Paths(Up(p))
           S == {x \in Ids(p) :
                   /\ <<a, x>> \in C
                   /\ \A c : <<c, x>> \in C => a = c \/ <<a, c>> \in C \/ <<c, a>> \in C}
<1>1. \A c, x : <<c, x>> \in C =>
        \E e \in Up(p) : e[2] = x /\ (e[1] = c \/ <<c, e[1]>> \in C)
  BY LastEdge
<1>2. \A e, f \in Up(p) : e[2] = f[2] => e[1] = f[1]
  BY ContainmentFacts
<1>3. \A e \in Up(p) : e[1] = a => e[2] \in S
  <2> SUFFICES ASSUME NEW e \in Up(p), e[1] = a PROVE e[2] \in S
    OBVIOUS
  <2>1. <<a, e[2]>> \in C /\ e[2] \in Ids(p)
    BY EdgeIsPath, ContainmentFacts
  <2>2. ASSUME NEW c, <<c, e[2]>> \in C PROVE a = c \/ <<c, a>> \in C
    <3>1. PICK f \in Up(p) : f[2] = e[2] /\ (f[1] = c \/ <<c, f[1]>> \in C)
      BY <1>1, <2>2
    <3>2. f[1] = a
      BY <1>2, <3>1
    <3>3. QED
      BY <3>1, <3>2
  <2>3. QED
    BY <2>1, <2>2
<1>4. \A e \in Up(p) : e[1] \in S => e[2] \in S
  <2> SUFFICES ASSUME NEW e \in Up(p), e[1] \in S PROVE e[2] \in S
    OBVIOUS
  <2>1. <<a, e[2]>> \in C /\ e[2] \in Ids(p)
    BY PathThenEdge, ContainmentFacts
  <2>2. ASSUME NEW c, <<c, e[2]>> \in C PROVE e[1] = c \/ <<c, e[1]>> \in C
    <3>1. PICK f \in Up(p) : f[2] = e[2] /\ (f[1] = c \/ <<c, f[1]>> \in C)
      BY <1>1, <2>2
    <3>2. f[1] = e[1]
      BY <1>2, <3>1
    <3>3. QED
      BY <3>1, <3>2
  <2>3. QED
    BY <2>1, <2>2
<1>5. <<a, n>> \in C /\ <<b, n>> \in C
  BY ContainmentFacts
<1>6. n \in S
  <2> HIDE DEF S
  <2>1. QED
    BY <1>3, <1>4, <1>5, PathInduction
<1>7. QED
  BY <1>5, <1>6, ContainmentFacts

\* The edges of a plan that passes the checks.
LEMMA RawFacts ==
  ASSUME NEW p, WellFormed(p), NEW e \in RawEdges(p)
  PROVE  /\ e = <<e[1], e[2]>> /\ e[1] \in Ids(p) /\ e[2] \in Ids(p) /\ e[1] # e[2]
         /\ <<e[1], e[2]>> \notin Containment(p) /\ <<e[2], e[1]>> \notin Containment(p)
<1>1. e \in Ids(p) \X Ids(p) /\ e \in p.edges \cup p.deps /\ e \notin Kin(p)
  BY DEF RawEdges, Within
<1>2. e = <<e[1], e[2]>>
  BY <1>1
<1>3. e[1] # e[2]
  BY <1>1, EdgeIsPath DEF WellFormed, Acyclic
<1>4. e \notin Containment(p)
  BY <1>1 DEF Kin
<1>5. <<e[2], e[1]>> \notin Containment(p)
  <2> SUFFICES ASSUME <<e[2], e[1]>> \in Containment(p) PROVE FALSE
    OBVIOUS
  <2> DEFINE g == <<e[2], e[1]>>
  <2>1. <<g[2], g[1]>> \in Swapped(Containment(p))
    BY DEF Swapped
  <2>2. QED
    BY <1>1, <1>2, <2>1 DEF Kin
<1>6. QED
  BY <1>1, <1>2, <1>3, <1>4, <1>5

LEMMA RawAcyclic ==
  ASSUME NEW p, WellFormed(p)
  PROVE  Acyclic(RawEdges(p))
<1>1. RawEdges(p) \subseteq p.edges \cup p.deps
  BY DEF RawEdges, Within
<1>2. QED
  BY <1>1, AcyclicPart DEF WellFormed

\* A path is an edge, or an edge before a path.
LEMMA FirstEdge ==
  ASSUME NEW R, NEW a, NEW b, <<a, b>> \in Paths(R)
  PROVE  \E e \in R : e[1] = a /\ (e[2] = b \/ <<e[2], b>> \in Paths(R))
<1> DEFINE S == {x \in {e[2] : e \in R} :
                   \E e \in R : e[1] = a /\ (e[2] = x \/ <<e[2], x>> \in Paths(R))}
<1>1. \A e \in R : e[1] = a => e[2] \in S
  OBVIOUS
<1>2. \A e \in R : e[1] \in S => e[2] \in S
  <2> SUFFICES ASSUME NEW e \in R, e[1] \in S PROVE e[2] \in S
    OBVIOUS
  <2>1. PICK f \in R : f[1] = a /\ (f[2] = e[1] \/ <<f[2], e[1]>> \in Paths(R))
    OBVIOUS
  <2>2. <<f[2], e[2]>> \in Paths(R)
    BY <2>1, EdgeIsPath, PathThenEdge
  <2>3. QED
    BY <2>1, <2>2
<1> HIDE DEF S
<1>3. b \in S
  BY <1>1, <1>2, PathInduction
<1>4. QED
  BY <1>3 DEF S

\* What is inside a node of the plan.
LEMMA BelowFacts ==
  ASSUME NEW p, NEW n
  PROVE  /\ Below(p, n) \subseteq Ids(p)
         /\ \A m : <<n, m>> \in Containment(p) => m \in Below(p, n)
         /\ n \in Ids(p) => Below(p, n) = {m \in Ids(p) : <<n, m>> \in Containment(p)}
<1>1. \A e \in Up(p) : e[1] = n => e[2] \in Children(p, n)
  BY ContainmentFacts DEF Children
<1>2. \A m : <<n, m>> \in Containment(p) =>
        m \in Ids(p) /\ \E d \in Children(p, n) : d = m \/ <<d, m>> \in Containment(p)
  <2> SUFFICES ASSUME NEW m, <<n, m>> \in Containment(p)
               PROVE  m \in Ids(p) /\ \E d \in Children(p, n) : d = m \/ <<d, m>> \in Containment(p)
    OBVIOUS
  <2>1. Containment(p) = Paths(Up(p)) /\ m \in Ids(p)
    BY ContainmentFacts
  <2>2. PICK e \in Up(p) : e[1] = n /\ (e[2] = m \/ <<e[2], m>> \in Paths(Up(p)))
    BY <2>1, FirstEdge
  <2>3. QED
    BY <1>1, <2>1, <2>2
<1>3. ASSUME n \in Ids(p), NEW d \in Children(p, n) PROVE <<n, d>> \in Containment(p)
  BY <1>3, ParentAbove DEF Children
<1>4. IsTransitive(Containment(p))
  BY ContainmentFacts
<1>5. ASSUME n \in Ids(p), NEW m \in Below(p, n) PROVE <<n, m>> \in Containment(p)
  BY <1>3, <1>4, <1>5 DEF Below, IsTransitive
<1>6. QED
  BY <1>2, <1>5 DEF Below

LEMMA LeafFacts ==
  ASSUME NEW p, NEW n
  PROVE  /\ Leaves(p, n) \subseteq p.primitive
         /\ n \in Ids(p) => \A x \in Leaves(p, n) : x = n \/ <<n, x>> \in Containment(p)
         /\ \A m : <<n, m>> \in Containment(p) => Leaves(p, m) \subseteq Leaves(p, n)
<1>1. \A m, x : <<n, m>> \in Containment(p) /\ <<m, x>> \in Containment(p) =>
        <<n, x>> \in Containment(p) /\ x \in Ids(p) /\ m \in Ids(p)
  BY ContainmentFacts DEF IsTransitive
<1>2. \A m : <<n, m>> \in Containment(p) => m \in Ids(p) /\ n \in Ids(p)
  BY ContainmentFacts
<1>3. n \in Ids(p) => Below(p, n) = {m \in Ids(p) : <<n, m>> \in Containment(p)}
  BY BelowFacts
<1>4. \A m \in Ids(p) : Below(p, m) = {x \in Ids(p) : <<m, x>> \in Containment(p)}
  BY BelowFacts
<1>5. QED
  BY <1>1, <1>2, <1>3, <1>4 DEF Leaves

\* An executable is its own only leaf.
LEMMA OwnLeaf ==
  ASSUME NEW p, WellFormed(p), Kinds(p), NEW n \in p.primitive
  PROVE  n \in Entries(p, n) /\ n \in Exits(p, n)
<1>1. Below(p, n) = {}
  <2> SUFFICES ASSUME NEW m, <<n, m>> \in Containment(p) PROVE FALSE
    BY BelowFacts DEF Ids
  <2>1. PICK e \in Up(p) : e[1] = n
    BY PathEnds, ContainmentFacts
  <2>2. n = p.parent[e[2]] /\ e[2] \in Ids(p)
    BY <2>1, ContainmentFacts
  <2>3. QED
    BY <2>2, NobodyAssumption DEF WellFormed, Kinds
<1>2. Leaves(p, n) = {n}
  BY <1>1 DEF Leaves
<1>3. Inner(p, n) = {}
  BY <1>2, RawFacts DEF Inner, Within
<1>4. QED
  BY <1>2, <1>3 DEF Entries, Exits

LEMMA InnerFacts ==
  ASSUME NEW p, WellFormed(p), Kinds(p), NEW n
  PROVE  /\ Inner(p, n) \subseteq Leaves(p, n) \X Leaves(p, n)
         /\ Inner(p, n) \subseteq LeafEdges(p) /\ Acyclic(Inner(p, n))
<1>1. Inner(p, n) \subseteq Leaves(p, n) \X Leaves(p, n) /\ Inner(p, n) \subseteq RawEdges(p)
  BY DEF Inner, Within
<1>2. Acyclic(Inner(p, n))
  BY <1>1, RawAcyclic, AcyclicPart
<1>3. ASSUME NEW e \in Inner(p, n) PROVE e \in LeafEdges(p)
  <2>1. e \in p.primitive \X p.primitive /\ e \in RawEdges(p) /\ e[1] # e[2]
    BY <1>1, RawFacts, LeafFacts
  <2>2. e[1] \in Exits(p, e[1]) /\ e[2] \in Entries(p, e[2])
    BY <2>1, OwnLeaf
  <2>3. QED
    BY <2>1, <2>2 DEF LeafEdges
<1>4. QED
  BY <1>1, <1>2, <1>3

\* An edge orders every leaf of its source before every leaf of its target.
LEMMA EdgeOrders ==
  ASSUME NEW p, WellFormed(p), Kinds(p), IsFiniteSet(NodeIds), NEW e \in RawEdges(p),
         NEW a \in Leaves(p, e[1]), NEW b \in Leaves(p, e[2])
  PROVE  <<a, b>> \in Paths(LeafEdges(p))
<1> DEFINE D == LeafEdges(p)
<1>1. IsFiniteSet(Leaves(p, e[1])) /\ IsFiniteSet(Leaves(p, e[2]))
  BY LeafFacts, FS_Subset DEF Kinds
<1>2. PICK x \in Leaves(p, e[1]) : /\ x = a \/ <<a, x>> \in Paths(Inner(p, e[1]))
                                   /\ \A f \in Inner(p, e[1]) : f[1] # x
  BY <1>1, InnerFacts, EndReached
<1>3. PICK y \in Leaves(p, e[2]) : /\ y = b \/ <<y, b>> \in Paths(Inner(p, e[2]))
                                   /\ \A f \in Inner(p, e[2]) : f[2] # y
  BY <1>1, InnerFacts, StartReached
<1>4. x \in Exits(p, e[1]) /\ y \in Entries(p, e[2])
  BY <1>2, <1>3 DEF Exits, Entries
<1>5. x # y
  <2> SUFFICES ASSUME x = y PROVE FALSE
    OBVIOUS
  <2>1. /\ x = e[1] \/ <<e[1], x>> \in Containment(p)
        /\ x = e[2] \/ <<e[2], x>> \in Containment(p)
    BY LeafFacts, RawFacts
  <2>2. e[1] = e[2] \/ <<e[1], e[2]>> \in Containment(p) \/ <<e[2], e[1]>> \in Containment(p)
    BY <2>1, Chain
  <2>3. QED
    BY <2>2, RawFacts
<1>6. <<x, y>> \in Paths(D)
  <2> DEFINE g == <<x, y>>
  <2>1. g \in p.primitive \X p.primitive /\ g[1] = x /\ g[2] = y
    BY LeafFacts
  <2>2. g \in D
    BY <1>4, <1>5, <2>1 DEF LeafEdges
  <2>3. QED
    BY <2>1, <2>2, EdgeIsPath
<1>7. (x = a \/ <<a, x>> \in Paths(D)) /\ (y = b \/ <<y, b>> \in Paths(D))
  BY <1>2, <1>3, InnerFacts, PathsGrow
<1>8. QED
  BY <1>6, <1>7, PathsTransitive DEF IsTransitive

\* Whatever a plan that flattens orders is ordered among its executables.
LEMMA OrderLifts ==
  ASSUME NEW p, WellFormed(p), Flattens(p), Kinds(p), IsFiniteSet(NodeIds)
  PROVE  Order(p) \subseteq Paths(LeafEdges(p))
<1> DEFINE parts(n) == {n} \cup {m \in Ids(p) : <<n, m>> \in Containment(p)}
           X == UNION {parts(e[1]) \X parts(e[2]) : e \in RawEdges(p)}
           T == {e \in Ids(p) \X Ids(p) :
                   \A a \in Leaves(p, e[1]), b \in Leaves(p, e[2]) : <<a, b>> \in Paths(LeafEdges(p))}
<1>1. Order(p) = Within(Paths(X), p.primitive)
  BY DEF Order, RawEdges, Kin
<1>2. \A x, y : <<x, y>> \in T <=>
        /\ x \in Ids(p) /\ y \in Ids(p)
        /\ \A a \in Leaves(p, x), b \in Leaves(p, y) : <<a, b>> \in Paths(LeafEdges(p))
  OBVIOUS
<1>3. \A n \in Ids(p) : Leaves(p, n) # {}
  BY DEF Flattens, Entries
<1>4. IsTransitive(T)
  <2> HIDE DEF T
  <2> SUFFICES ASSUME NEW x, NEW y, NEW z, <<x, y>> \in T, <<y, z>> \in T
               PROVE  <<x, z>> \in T
    BY DEF IsTransitive
  <2>1. PICK m : m \in Leaves(p, y)
    BY <1>2, <1>3
  <2>2. \A a \in Leaves(p, x), b \in Leaves(p, z) :
          <<a, m>> \in Paths(LeafEdges(p)) /\ <<m, b>> \in Paths(LeafEdges(p))
    BY <1>2, <2>1
  <2>3. QED
    BY <1>2, <2>2, PathsTransitive DEF IsTransitive
<1>5. \A e \in X : <<e[1], e[2]>> \in T
  <2> SUFFICES ASSUME NEW e \in X PROVE <<e[1], e[2]>> \in T
    OBVIOUS
  <2>1. PICK f \in RawEdges(p) : e \in parts(f[1]) \X parts(f[2])
    OBVIOUS
  <2>2. f[1] \in Ids(p) /\ f[2] \in Ids(p)
    BY RawFacts
  <2>3. /\ e[1] \in Ids(p) /\ Leaves(p, e[1]) \subseteq Leaves(p, f[1])
        /\ e[2] \in Ids(p) /\ Leaves(p, e[2]) \subseteq Leaves(p, f[2])
    BY <2>1, <2>2, LeafFacts
  <2> HIDE DEF T, X
  <2>4. QED
    BY <1>2, <2>3, EdgeOrders
<1>6. Paths(X) \subseteq T
  <2> HIDE DEF T, X
  <2>1. QED
    BY <1>4, <1>5, PathsLeast
<1>7. ASSUME NEW e \in Order(p) PROVE e \in Paths(LeafEdges(p))
  <2>1. e \in T /\ e \in p.primitive \X p.primitive
    BY <1>1, <1>6 DEF Within
  <2>2. e[1] \in Leaves(p, e[1]) /\ e[2] \in Leaves(p, e[2]) /\ e = <<e[1], e[2]>>
    BY <2>1 DEF Leaves
  <2>3. QED
    BY <2>1, <2>2
<1>8. QED
  BY <1>7

-----------------------------------------------------------------------------
(* Compilation                                                             *)

\* A new last node closes no cycle.
LEMMA LastNode ==
  ASSUME NEW N, NEW R, R \subseteq N \X N, Acyclic(R), NEW z, z \notin N, NEW S, S \subseteq N
  PROVE  /\ Acyclic(R \cup (S \X {z}))
         /\ R \cup (S \X {z}) \subseteq (N \cup {z}) \X (N \cup {z})
<1> DEFINE T == Paths(R) \cup (N \X {z})
<1>1. \A x, y : <<x, y>> \in Paths(R) => x \in N /\ y \in N
  <2>1. Paths(R) \subseteq N \X N
    BY PathsWithin
  <2>2. QED
    BY <2>1
<1>2. IsTransitive(T)
  <2>1. \A x, y : <<x, y>> \in T <=> <<x, y>> \in Paths(R) \/ (x \in N /\ y = z)
    OBVIOUS
  <2>2. IsTransitive(Paths(R))
    BY PathsTransitive
  <2> HIDE DEF T
  <2>3. QED
    BY <1>1, <2>1, <2>2 DEF IsTransitive
<1>3. \A e \in R \cup (S \X {z}) : <<e[1], e[2]>> \in T
  BY EdgeIsPath
<1>4. \A x : <<x, x>> \notin T
  BY AcyclicFacts
<1> HIDE DEF T
<1>5. Acyclic(R \cup (S \X {z}))
  BY <1>2, <1>3, <1>4, AcyclicBy
<1>6. QED
  BY <1>5

\* Nor does the verification of the code node.
LEMMA TerminatedFacts ==
  ASSUME NEW N, NEW D, D \subseteq N \X N, Acyclic(D), Terminal \notin N, NEW code \in N
  PROVE  /\ Acyclic(Terminated(code, D)) /\ D \subseteq Terminated(code, D)
         /\ Terminated(code, D) \subseteq (N \cup {Terminal}) \X (N \cup {Terminal})
<1> DEFINE P == Paths(D)
           above == {x \in N : x = code \/ <<x, code>> \in P}
           below == {y \in N : <<code, y>> \in P}
           T == P \cup (above \X {Terminal}) \cup ({Terminal} \X below)
<1>1. \A x, y : <<x, y>> \in P => x \in N /\ y \in N
  BY PathsWithin
<1>2. IsTransitive(P) /\ \A x : <<x, x>> \notin P
  BY PathsTransitive, AcyclicFacts
<1>3. \A e \in D : <<e[1], e[2]>> \in P /\ e[2] \in N
  BY EdgeIsPath
<1> HIDE DEF P
<1>4. \A x, y : <<x, y>> \in T <=>
        \/ <<x, y>> \in P
        \/ x \in above /\ y = Terminal
        \/ x = Terminal /\ y \in below
  OBVIOUS
<1>5. \A e \in Terminated(code, D) : <<e[1], e[2]>> \in T
  <2> SUFFICES ASSUME NEW e \in Terminated(code, D) PROVE <<e[1], e[2]>> \in T
    OBVIOUS
  <2>1. CASE e \in D
    BY <1>3, <1>4, <2>1
  <2>2. CASE e = <<code, Terminal>>
    BY <1>4, <2>2
  <2>3. CASE \E f \in D : f[1] = code /\ e = <<Terminal, f[2]>>
    BY <1>3, <1>4, <2>3
  <2>4. QED
    BY <2>1, <2>2, <2>3 DEF Terminated
<1>6. \A x, y : /\ x \in above => x # Terminal
                /\ x \in below => x \notin above
                /\ <<x, y>> \in P /\ y \in above => x \in above
                /\ x \in below /\ <<x, y>> \in P => y \in below
                /\ x \in above /\ y \in below => <<x, y>> \in P
  BY <1>1, <1>2 DEF IsTransitive
<1> HIDE DEF above, below, T
<1>7. IsTransitive(T)
  <2> SUFFICES ASSUME NEW x, NEW y, NEW z, <<x, y>> \in T, <<y, z>> \in T
               PROVE  <<x, z>> \in T
    BY DEF IsTransitive
  <2>1. CASE <<x, y>> \in P
    BY <1>1, <1>2, <1>4, <1>6, <2>1 DEF IsTransitive
  <2>2. CASE x \in above /\ y = Terminal
    BY <1>1, <1>4, <1>6, <2>2
  <2>3. CASE x = Terminal /\ y \in below
    BY <1>1, <1>4, <1>6, <2>3 DEF below
  <2>4. QED
    BY <1>4, <2>1, <2>2, <2>3
<1>8. \A x : <<x, x>> \notin T
  BY <1>2, <1>4, <1>6 DEF below
<1>9. Acyclic(Terminated(code, D))
  BY <1>5, <1>7, <1>8, AcyclicBy
<1>10. QED
  BY <1>9 DEF Terminated

\* The compiled graph keeps the order of the business graph, has no cycle, ends
\* in the artifact check and verifies the code before anything that follows it.
Keeps(g, N, D) ==
  /\ Acyclic(g.deps) /\ D \subseteq g.deps /\ N \subseteq g.nodes
  /\ Artifacts \in g.nodes =>
       (g.nodes \ {Artifacts}) \X {Artifacts} \subseteq Paths(g.deps)
  /\ \A e, f \in g.deps :
       e[2] = Terminal /\ e[1] = f[1] /\ f[2] # Terminal => <<Terminal, f[2]>> \in Paths(g.deps)

LEMMA CompiledKeeps ==
  ASSUME NEW from, NEW N, IsFiniteSet(N), NEW D, D \subseteq N \X N, Acyclic(D),
         N \cap {Terminal, Evidence, Artifacts, Nobody} = {},
         NEW code \in N \cup {Nobody}, NEW evidence \in BOOLEAN
  PROVE  /\ Keeps(Compiled(from, N, D, code, evidence), N, D)
         /\ Compiled(from, N, D, code, evidence).from = from
<1> DEFINE D1 == IF code = Nobody THEN D ELSE Terminated(code, D)
           N1 == N \cup ({Terminal} \ (IF code = Nobody THEN {Terminal} ELSE {}))
           D2 == IF evidence THEN D1 \cup (N1 \X {Evidence}) ELSE D1
           N2 == N1 \cup (IF evidence THEN {Evidence} ELSE {})
           D3 == D2 \cup (Sinks(N2, D2) \X {Artifacts})
           g  == [from |-> from, nodes |-> N2 \cup {Artifacts}, deps |-> D3]
<1>1. Compiled(from, N, D, code, evidence) = g
  BY DEF Compiled
<1>2. /\ D1 \subseteq N1 \X N1 /\ Acyclic(D1) /\ D \subseteq D1
      /\ N \subseteq N1 /\ IsFiniteSet(N1) /\ N1 \subseteq N \cup {Terminal}
  <2>1. CASE code = Nobody
    BY <2>1
  <2>2. CASE code # Nobody
    <3>1. D1 = Terminated(code, D) /\ N1 = N \cup {Terminal} /\ code \in N
      BY <2>2
    <3>2. IsFiniteSet(N \cup {Terminal})
      BY FS_AddElement
    <3> HIDE DEF D1, N1
    <3>3. QED
      BY <3>1, <3>2, TerminatedFacts
  <2>3. QED
    BY <2>1, <2>2
<1>3. \A e \in D1 : e[2] = Terminal =>
        /\ e[1] = code /\ Terminal \in N1
        /\ \A f \in D1 : f[1] = code /\ f[2] # Terminal => <<Terminal, f[2]>> \in D1
  BY DEF Terminated
<1>4. Evidence \notin N1 /\ Artifacts \notin N2 /\ Terminal # Artifacts /\ Terminal # Evidence
  BY PlanningAssumption
<1> HIDE DEF D1, N1
<1>5. /\ D2 \subseteq N2 \X N2 /\ Acyclic(D2) /\ D1 \subseteq D2 /\ N1 \subseteq N2 /\ IsFiniteSet(N2)
  <2>1. CASE ~evidence
    BY <1>2, <2>1
  <2>2. CASE evidence
    <3>1. D2 = D1 \cup (N1 \X {Evidence}) /\ N2 = N1 \cup {Evidence}
      BY <2>2
    <3>2. IsFiniteSet(N1 \cup {Evidence})
      BY <1>2, FS_AddElement
    <3>3. Acyclic(D1 \cup (N1 \X {Evidence}))
      BY <1>2, <1>4, LastNode
    <3> HIDE DEF D2, N2
    <3>4. QED
      BY <1>2, <3>1, <3>2, <3>3
  <2>3. QED
    BY <2>1, <2>2
<1>6. \A e \in D2 : e \in D1 \/ (e[2] = Evidence /\ N1 \X {Evidence} \subseteq D2)
  OBVIOUS
<1> HIDE DEF D2, N2
<1>7. Acyclic(D3)
  BY <1>4, <1>5, LastNode DEF Sinks
<1>8. \A n \in N2 : <<n, Artifacts>> \in Paths(D3)
  <2> SUFFICES ASSUME NEW n \in N2 PROVE <<n, Artifacts>> \in Paths(D3)
    OBVIOUS
  <2>1. PICK x \in N2 : (x = n \/ <<n, x>> \in Paths(D2)) /\ \A e \in D2 : e[1] # x
    BY <1>5, EndReached
  <2> DEFINE e == <<x, Artifacts>>
  <2>2. e \in D3 /\ e[1] = x /\ e[2] = Artifacts
    BY <2>1 DEF Sinks
  <2>3. x = n \/ <<n, x>> \in Paths(D3)
    BY <2>1, PathsGrow
  <2> HIDE DEF e, D3
  <2>4. QED
    BY <2>2, <2>3, EdgeIsPath, PathThenEdge
<1>9. ASSUME NEW e \in D3, NEW f \in D3, e[2] = Terminal, e[1] = f[1], f[2] # Terminal
      PROVE  <<Terminal, f[2]>> \in Paths(D3)
  <2>1. e \in D1
    BY <1>4, <1>6, <1>9
  <2>2. e[1] = code /\ Terminal \in N1
    BY <1>3, <1>9, <2>1
  <2>3. CASE f \in D1
    <3> DEFINE h == <<Terminal, f[2]>>
    <3>1. h \in D3 /\ h[1] = Terminal /\ h[2] = f[2]
      BY <1>3, <1>5, <1>9, <2>1, <2>2, <2>3
    <3> HIDE DEF h, D3
    <3>2. QED
      BY <3>1, EdgeIsPath
  <2>4. CASE f[2] = Evidence /\ N1 \X {Evidence} \subseteq D2
    <3> DEFINE h == <<Terminal, Evidence>>
    <3>1. h \in D3 /\ h[1] = Terminal /\ h[2] = f[2]
      BY <2>2, <2>4
    <3> HIDE DEF h, D3
    <3>2. QED
      BY <3>1, EdgeIsPath
  <2>5. CASE f[2] = Artifacts
    BY <1>5, <1>8, <2>2, <2>5
  <2>6. QED
    BY <1>6, <2>3, <2>4, <2>5
<1>10. Keeps(g, N, D) /\ g.from = from
  <2>1. D \subseteq D3 /\ N \subseteq N2 \cup {Artifacts}
    BY <1>2, <1>5
  <2> HIDE DEF D3
  <2>2. QED
    BY <1>7, <1>8, <1>9, <2>1 DEF Keeps
<1>11. QED
  BY <1>1, <1>10

-----------------------------------------------------------------------------
(* Induction and iteration, over sets                                      *)

LEMMA Induction ==
  ASSUME NEW S, 0 \in S, \A n \in Nat : n \in S => n + 1 \in S
  PROVE  Nat \subseteq S
<1> SUFFICES ASSUME NEW k \in Nat, k \notin S PROVE FALSE
  OBVIOUS
<1> DEFINE F == {X \in SUBSET (0..k) : \E i \in (0..k) \ S : X = 0..i}
<1>1. IsFiniteSet(0..k)
  BY FS_Interval
<1>2. F \subseteq SUBSET (0..k) /\ F # {}
  <2>1. 0..k \in F
    OBVIOUS
  <2>2. QED
    BY <2>1
<1>3. PICK X \in F : \A Y \in F : Y \subseteq X => Y = X
  <2> DEFINE I == 0..k
  <2>1. IsFiniteSet(I) /\ F \subseteq SUBSET I /\ F # {}
    BY <1>1, <1>2
  <2> HIDE DEF F, I
  <2>2. QED
    BY <2>1, MinimalMember
<1>4. PICK i \in (0..k) \ S : X = 0..i
  OBVIOUS
<1>5. i # 0 /\ i - 1 \in Nat /\ i - 1 \in 0..k /\ i = (i - 1) + 1
  BY <1>4
<1>6. i - 1 \notin S
  BY <1>4, <1>5
<1>7. 0..(i - 1) \in F /\ 0..(i - 1) \subseteq X
  BY <1>4, <1>5, <1>6
<1>8. 0..(i - 1) = 0..i
  BY <1>3, <1>4, <1>7
<1>9. i \in 0..i /\ i \notin 0..(i - 1)
  BY <1>5
<1>10. QED
  BY <1>8, <1>9

\* A map of a set into itself can be iterated.
LEMMA Iteration ==
  ASSUME NEW V, NEW x \in V, NEW F \in [V -> V]
  PROVE  \E g \in [Nat -> V] : g = [i \in Nat |-> IF i = 0 THEN x ELSE F[g[i - 1]]]
<1> DEFINE Runs(n) == {h \in [0..n -> V] : h[0] = x /\ \A i \in 1..n : h[i] = F[h[i - 1]]}
           A == {n \in Nat : Runs(n) # {}}
           B == {n \in Nat : \A m, k \in Nat : n <= m /\ n <= k =>
                   \A h \in Runs(m), j \in Runs(k) : h[n] = j[n]}
<1>1. Nat \subseteq A
  <2>1. 0 \in A
    <3>1. [i \in 0..0 |-> x] \in Runs(0)
      OBVIOUS
    <3>2. QED
      BY <3>1
  <2>2. ASSUME NEW n \in Nat, n \in A PROVE n + 1 \in A
    <3>1. PICK h \in Runs(n) : TRUE
      BY <2>2
    <3> DEFINE j == [i \in 0..(n + 1) |-> IF i <= n THEN h[i] ELSE F[h[n]]]
    <3>2. j \in [0..(n + 1) -> V]
      OBVIOUS
    <3>3. j[0] = x
      OBVIOUS
    <3>4. \A i \in 1..(n + 1) : j[i] = F[j[i - 1]]
      OBVIOUS
    <3> HIDE DEF j
    <3>5. j \in Runs(n + 1)
      BY <3>2, <3>3, <3>4
    <3>6. QED
      BY <3>5
  <2>3. QED
    <3> HIDE DEF A
    <3>1. QED
      BY <2>1, <2>2, Induction
<1>2. Nat \subseteq B
  <2>1. 0 \in B
    OBVIOUS
  <2>2. ASSUME NEW n \in Nat, n \in B PROVE n + 1 \in B
    <3>1. ASSUME NEW m \in Nat, NEW k \in Nat, n + 1 <= m, n + 1 <= k,
                 NEW h \in Runs(m), NEW j \in Runs(k)
          PROVE  h[n + 1] = j[n + 1]
      <4>1. n <= m /\ n <= k /\ n + 1 \in 1..m /\ n + 1 \in 1..k /\ (n + 1) - 1 = n
        BY <3>1
      <4>2. \A m1, k1 \in Nat : n <= m1 /\ n <= k1 =>
              \A h1 \in Runs(m1), j1 \in Runs(k1) : h1[n] = j1[n]
        BY <2>2
      <4>3. (\A i \in 1..m : h[i] = F[h[i - 1]]) /\ (\A i \in 1..k : j[i] = F[j[i - 1]])
        OBVIOUS
      <4> HIDE DEF Runs, B
      <4>4. h[n] = j[n]
        BY <4>1, <4>2
      <4>5. h[n + 1] = F[h[n]] /\ j[n + 1] = F[j[n]]
        BY <4>1, <4>3
      <4>6. QED
        BY <4>4, <4>5
    <3>2. QED
      <4> HIDE DEF Runs
      <4>1. QED
        BY <3>1
  <2>3. QED
    <3> HIDE DEF B
    <3>1. QED
      BY <2>1, <2>2, Induction
<1> DEFINE run(n) == CHOOSE h \in Runs(n) : TRUE
           g == [n \in Nat |-> run(n)[n]]
<1>3. \A n \in Nat : run(n) \in Runs(n)
  BY <1>1
<1> HIDE DEF run
<1>4. g \in [Nat -> V]
  BY <1>3
<1>5. ASSUME NEW n \in Nat PROVE g[n] = IF n = 0 THEN x ELSE F[g[n - 1]]
  <2>1. CASE n = 0
    BY <1>3, <2>1
  <2>2. CASE n # 0
    <3>1. n - 1 \in Nat /\ n - 1 <= n /\ n \in 1..n
      BY <2>2
    <3>2. run(n)[n] = F[run(n)[n - 1]]
      BY <1>3, <3>1
    <3>3. run(n)[n - 1] = run(n - 1)[n - 1]
      <4>1. \A m, k \in Nat : n - 1 <= m /\ n - 1 <= k =>
              \A h \in Runs(m), j \in Runs(k) : h[n - 1] = j[n - 1]
        <5>1. n - 1 \in B
          <6> HIDE DEF B
          <6>1. QED
            BY <1>2, <3>1
        <5>2. QED
          BY <5>1
      <4>2. run(n) \in Runs(n) /\ run(n - 1) \in Runs(n - 1)
        BY <1>3, <3>1
      <4> HIDE DEF Runs
      <4>3. QED
        BY <3>1, <4>1, <4>2
    <3>4. QED
      BY <2>2, <3>1, <3>2, <3>3
  <2>3. QED
    BY <2>1, <2>2
<1> HIDE DEF g
<1>6. g = [i \in Nat |-> IF i = 0 THEN x ELSE F[g[i - 1]]]
  BY <1>4, <1>5
<1>7. QED
  BY <1>4, <1>6

\* What every collapse keeps, the collapsed plans keep.
LEMMA CollapsedKeeps ==
  ASSUME NEW G, NEW p \in G, \A q \in G : Collapsing(q) \subseteq G, IsFiniteSet(p.compound),
         NEW r \in Collapsed(p)
  PROVE  \E q \in G : Collapsing(q) = {} /\ r = WithoutContainment(q)
<1> DEFINE V == SUBSET G
           F == [S \in V |-> UNION {{q} \cup Collapsing(q) : q \in S}]
           IsAfter(g) == g = [i \in Nat |-> IF i = 0 THEN {p}
                               ELSE UNION {{q} \cup Collapsing(q) : q \in g[i - 1]}]
           after == CHOOSE g : IsAfter(g)
<1>1. F \in [V -> V] /\ {p} \in V
  OBVIOUS
<1>2. \E g : IsAfter(g)
  <2>1. PICK g \in [Nat -> V] : g = [i \in Nat |-> IF i = 0 THEN {p} ELSE F[g[i - 1]]]
    <3>1. \E g \in [Nat -> V] : g = [i \in Nat |-> IF i = 0 THEN {p} ELSE F[g[i - 1]]]
      <4> HIDE DEF V, F
      <4>1. QED
        BY <1>1, Iteration
    <3>2. QED
      BY <3>1
  <2>2. \A i \in Nat : i # 0 => g[i - 1] \in V
    <3>1. \A i \in Nat : i # 0 => i - 1 \in Nat
      OBVIOUS
    <3>2. g \in [Nat -> V]
      OBVIOUS
    <3> HIDE DEF V
    <3>3. QED
      BY <3>1, <3>2
  <2>3. IsAfter(g)
    BY <2>1, <2>2
  <2>4. QED
    BY <2>3
<1>3. IsAfter(after)
  BY <1>2
<1>4. r \in {WithoutContainment(q) :
               q \in {s \in after[Cardinality(p.compound)] : Collapsing(s) = {}}}
  BY DEF Collapsed
<1> HIDE DEF after
<1> DEFINE A == {n \in Nat : after[n] \subseteq G}
<1>5. Nat \subseteq A
  <2>1. 0 \in A
    BY <1>3
  <2>2. ASSUME NEW n \in Nat, n \in A PROVE n + 1 \in A
    <3>1. after[n + 1] = UNION {{q} \cup Collapsing(q) : q \in after[n]}
      BY <1>3
    <3>2. QED
      BY <2>2, <3>1
  <2>3. QED
    <3> HIDE DEF A
    <3>1. QED
      BY <2>1, <2>2, Induction
<1>6. after[Cardinality(p.compound)] \subseteq G
  BY <1>5, FS_CardinalityType
<1>7. QED
  BY <1>4, <1>6

-----------------------------------------------------------------------------
(* Plans                                                                   *)

Pairs == NodeIds \X NodeIds

Parents == UNION {[S -> NodeIds \cup {Nobody}] : S \in SUBSET NodeIds}

PlanIRs ==
  {p \in [primitive : SUBSET NodeIds, compound : SUBSET NodeIds, parent : Parents,
          deps : SUBSET Pairs, inputs : SUBSET Pairs, edges : SUBSET Pairs] :
     Kinds(p) /\ p.parent \in [Ids(p) -> NodeIds \cup {Nobody}]}

\* The plan with these fields.
Made(P, C, f, D, I, E) ==
  [primitive |-> P, compound |-> C, parent |-> f, deps |-> D, inputs |-> I, edges |-> E]

LEMMA PlanIsMade ==
  ASSUME NEW p \in PlanIRs
  PROVE  /\ p = Made(p.primitive, p.compound, p.parent, p.deps, p.inputs, p.edges)
         /\ Kinds(p) /\ Ids(p) \subseteq NodeIds
         /\ p.parent \in [Ids(p) -> NodeIds \cup {Nobody}]
         /\ p.deps \subseteq Pairs /\ p.inputs \subseteq Pairs /\ p.edges \subseteq Pairs
BY DEF PlanIRs, Made, Kinds, Ids

LEMMA MadeIsPlan ==
  ASSUME NEW P, P \subseteq NodeIds, NEW C, C \subseteq NodeIds, P \cap C = {},
         NEW f \in [P \cup C -> NodeIds \cup {Nobody}],
         NEW D, D \subseteq Pairs, NEW I, I \subseteq Pairs, NEW E, E \subseteq Pairs
  PROVE  Made(P, C, f, D, I, E) \in PlanIRs
<1> DEFINE p == Made(P, C, f, D, I, E)
<1>1. f \in Parents
  BY DEF Parents
<1>2. p \in [primitive : SUBSET NodeIds, compound : SUBSET NodeIds, parent : Parents,
             deps : SUBSET Pairs, inputs : SUBSET Pairs, edges : SUBSET Pairs]
  BY <1>1 DEF Made
<1>3. Kinds(p) /\ p.parent \in [Ids(p) -> NodeIds \cup {Nobody}]
  BY DEF Made, Kinds, Ids
<1>4. QED
  BY <1>2, <1>3 DEF PlanIRs

LEMMA MadeFields ==
  ASSUME NEW P, NEW C, NEW f, NEW D, NEW I, NEW E
  PROVE  LET p == Made(P, C, f, D, I, E) IN
         /\ p.primitive = P /\ p.compound = C /\ p.parent = f
         /\ p.deps = D /\ p.inputs = I /\ p.edges = E /\ Ids(p) = P \cup C
BY DEF Made, Ids

\* Plans after a change of some fields.
SetLinks(p, x, y, z)   == [p EXCEPT !.deps = x, !.inputs = y, !.edges = z]
SetOrder(p, x, y)      == [p EXCEPT !.deps = x, !.edges = y]
SetShape(p, x, y, z)   == [p EXCEPT !.compound = x, !.parent = y, !.inputs = z]
SetRoots(p, x, y, z)   == [p EXCEPT !.compound = x, !.parent = y, !.deps = z]
SetTop(p, x, y, z, w)  == [p EXCEPT !.compound = x, !.parent = y, !.deps = z, !.inputs = w]
SetPlace(p, x, y, z)   == [p EXCEPT !.parent = x, !.deps = y, !.edges = z]
SetParent(p, x)        == [p EXCEPT !.parent = x]

LEMMA FieldsChanged ==
  ASSUME NEW P, NEW C, NEW f, NEW D, NEW I, NEW E, NEW x, NEW y, NEW z, NEW w
  PROVE  LET p == Made(P, C, f, D, I, E) IN
         /\ SetLinks(p, x, y, z) = Made(P, C, f, x, y, z)
         /\ SetOrder(p, x, y) = Made(P, C, f, x, I, y)
         /\ SetShape(p, x, y, z) = Made(P, x, y, D, z, E)
         /\ SetRoots(p, x, y, z) = Made(P, x, y, z, I, E)
         /\ SetTop(p, x, y, z, w) = Made(P, x, y, z, w, E)
         /\ SetParent(p, x) = Made(P, C, x, D, I, E)
         /\ SetPlace(p, x, y, z) = Made(P, C, x, y, I, z)
<1> DEFINE p == Made(P, C, f, D, I, E)
<1>1. SetLinks(p, x, y, z) = Made(P, C, f, x, y, z)
  <2>1. [p EXCEPT !.deps = x] = Made(P, C, f, x, I, E)
    BY DEF Made
  <2>2. [Made(P, C, f, x, I, E) EXCEPT !.inputs = y] = Made(P, C, f, x, y, E)
    BY DEF Made
  <2>3. [Made(P, C, f, x, y, E) EXCEPT !.edges = z] = Made(P, C, f, x, y, z)
    BY DEF Made
  <2>4. QED
    BY <2>1, <2>2, <2>3 DEF SetLinks
<1>2. SetOrder(p, x, y) = Made(P, C, f, x, I, y)
  <2>1. [p EXCEPT !.deps = x] = Made(P, C, f, x, I, E)
    BY DEF Made
  <2>2. [Made(P, C, f, x, I, E) EXCEPT !.edges = y] = Made(P, C, f, x, I, y)
    BY DEF Made
  <2>3. QED
    BY <2>1, <2>2 DEF SetOrder
<1>3. [p EXCEPT !.compound = x] = Made(P, x, f, D, I, E)
  BY DEF Made
<1>4. [Made(P, x, f, D, I, E) EXCEPT !.parent = y] = Made(P, x, y, D, I, E)
  BY DEF Made
<1>5. SetShape(p, x, y, z) = Made(P, x, y, D, z, E)
  <2>1. [Made(P, x, y, D, I, E) EXCEPT !.inputs = z] = Made(P, x, y, D, z, E)
    BY DEF Made
  <2>2. QED
    BY <1>3, <1>4, <2>1 DEF SetShape
<1>6. [Made(P, x, y, D, I, E) EXCEPT !.deps = z] = Made(P, x, y, z, I, E)
  BY DEF Made
<1>7. SetRoots(p, x, y, z) = Made(P, x, y, z, I, E)
  BY <1>3, <1>4, <1>6 DEF SetRoots
<1>8. SetTop(p, x, y, z, w) = Made(P, x, y, z, w, E)
  <2>1. [Made(P, x, y, z, I, E) EXCEPT !.inputs = w] = Made(P, x, y, z, w, E)
    BY DEF Made
  <2>2. QED
    BY <1>3, <1>4, <1>6, <2>1 DEF SetTop
<1>9. SetParent(p, x) = Made(P, C, x, D, I, E)
  BY DEF Made, SetParent
<1>10. SetPlace(p, x, y, z) = Made(P, C, x, y, I, z)
  <2>1. [p EXCEPT !.parent = x] = Made(P, C, x, D, I, E)
    BY DEF Made
  <2>2. [Made(P, C, x, D, I, E) EXCEPT !.deps = y] = Made(P, C, x, y, I, E)
    BY DEF Made
  <2>3. [Made(P, C, x, y, I, E) EXCEPT !.edges = z] = Made(P, C, x, y, I, z)
    BY DEF Made
  <2>4. QED
    BY <2>1, <2>2, <2>3 DEF SetPlace
<1>11. QED
  BY <1>1, <1>2, <1>5, <1>7, <1>8, <1>9, <1>10

LEMMA PlanChanged ==
  ASSUME NEW p \in PlanIRs
  PROVE  /\ \A x, y, z :
              /\ SetLinks(p, x, y, z) = Made(p.primitive, p.compound, p.parent, x, y, z)
              /\ SetShape(p, x, y, z) = Made(p.primitive, x, y, p.deps, z, p.edges)
              /\ SetRoots(p, x, y, z) = Made(p.primitive, x, y, z, p.inputs, p.edges)
              /\ SetPlace(p, x, y, z) = Made(p.primitive, p.compound, x, y, p.inputs, z)
         /\ \A x, y :
              SetOrder(p, x, y) = Made(p.primitive, p.compound, p.parent, x, p.inputs, y)
         /\ \A x, y, z, w :
              SetTop(p, x, y, z, w) = Made(p.primitive, x, y, z, w, p.edges)
         /\ \A x :
              SetParent(p, x) = Made(p.primitive, p.compound, x, p.deps, p.inputs, p.edges)
<1> SUFFICES ASSUME NEW x, NEW y, NEW z, NEW w
             PROVE  /\ SetLinks(p, x, y, z) = Made(p.primitive, p.compound, p.parent, x, y, z)
                    /\ SetShape(p, x, y, z) = Made(p.primitive, x, y, p.deps, z, p.edges)
                    /\ SetRoots(p, x, y, z) = Made(p.primitive, x, y, z, p.inputs, p.edges)
                    /\ SetPlace(p, x, y, z) = Made(p.primitive, p.compound, x, y, p.inputs, z)
                    /\ SetOrder(p, x, y) = Made(p.primitive, p.compound, p.parent, x, p.inputs, y)
                    /\ SetTop(p, x, y, z, w) = Made(p.primitive, x, y, z, w, p.edges)
                    /\ SetParent(p, x) =
                         Made(p.primitive, p.compound, x, p.deps, p.inputs, p.edges)
  OBVIOUS
<1> DEFINE P == p.primitive
           C == p.compound
           f == p.parent
           D == p.deps
           I == p.inputs
           E == p.edges
           q == Made(P, C, f, D, I, E)
<1>1. p = q
  BY PlanIsMade
<1> HIDE DEF P, C, f, D, I, E
<1>2. /\ SetLinks(q, x, y, z) = Made(P, C, f, x, y, z)
      /\ SetShape(q, x, y, z) = Made(P, x, y, D, z, E)
      /\ SetRoots(q, x, y, z) = Made(P, x, y, z, I, E)
      /\ SetPlace(q, x, y, z) = Made(P, C, x, y, I, z)
      /\ SetOrder(q, x, y) = Made(P, C, f, x, I, y)
      /\ SetTop(q, x, y, z, w) = Made(P, x, y, z, w, E)
      /\ SetParent(q, x) = Made(P, C, x, D, I, E)
  BY FieldsChanged
<1> HIDE DEF q
<1>3. QED
  BY <1>1, <1>2 DEF P, C, f, D, I, E

LEMMA LinksChanged ==
  ASSUME NEW p \in PlanIRs, NEW x, NEW y, NEW z
  PROVE  SetLinks(p, x, y, z) = Made(p.primitive, p.compound, p.parent, x, y, z)
BY PlanChanged

LEMMA ShapeChanged ==
  ASSUME NEW p \in PlanIRs, NEW x, NEW y, NEW z
  PROVE  SetShape(p, x, y, z) = Made(p.primitive, x, y, p.deps, z, p.edges)
BY PlanChanged

LEMMA RootsChanged ==
  ASSUME NEW p \in PlanIRs, NEW x, NEW y, NEW z
  PROVE  SetRoots(p, x, y, z) = Made(p.primitive, x, y, z, p.inputs, p.edges)
BY PlanChanged

LEMMA PlaceChanged ==
  ASSUME NEW p \in PlanIRs, NEW x, NEW y, NEW z
  PROVE  SetPlace(p, x, y, z) = Made(p.primitive, p.compound, x, y, p.inputs, z)
BY PlanChanged

LEMMA OrderChanged ==
  ASSUME NEW p \in PlanIRs, NEW x, NEW y
  PROVE  SetOrder(p, x, y) = Made(p.primitive, p.compound, p.parent, x, p.inputs, y)
BY PlanChanged

LEMMA TopChanged ==
  ASSUME NEW p \in PlanIRs, NEW x, NEW y, NEW z, NEW w
  PROVE  SetTop(p, x, y, z, w) = Made(p.primitive, x, y, z, w, p.edges)
BY PlanChanged

LEMMA ParentChanged ==
  ASSUME NEW p \in PlanIRs, NEW x
  PROVE  SetParent(p, x) = Made(p.primitive, p.compound, x, p.deps, p.inputs, p.edges)
BY PlanChanged

\* What the definitions do to a plan, field by field.
LEMMA WithoutContainmentMade ==
  ASSUME NEW p \in PlanIRs
  PROVE  WithoutContainment(p) =
           Made(p.primitive, p.compound, p.parent, p.deps \ Kin(p), p.inputs \ Kin(p),
                (p.edges \cup p.deps) \ Kin(p))
<1>1. WithoutContainment(p) =
        SetLinks(p, p.deps \ Kin(p), p.inputs \ Kin(p), (p.edges \cup p.deps) \ Kin(p))
  BY DEF WithoutContainment, SetLinks
<1>2. QED
  BY <1>1, LinksChanged

LEMMA WithoutOldStagesMade ==
  ASSUME NEW p \in PlanIRs
  PROVE  WithoutOldStages(p) =
           Made(p.primitive, p.compound, p.parent, Within(p.deps, Ids(p)),
                Within(p.inputs, Ids(p)), Within(p.edges, Ids(p)))
<1>1. WithoutOldStages(p) =
        SetLinks(p, Within(p.deps, Ids(p)), Within(p.inputs, Ids(p)), Within(p.edges, Ids(p)))
  BY DEF WithoutOldStages, SetLinks
<1>2. QED
  BY <1>1, LinksChanged

LEMMA RemovedMade ==
  ASSUME NEW p \in PlanIRs, NEW c
  PROVE  Removed(p, c) =
           Made(p.primitive, p.compound \ {c}, [n \in Ids(p) \ {c} |-> p.parent[n]], p.deps,
                {e \in p.inputs : e[2] # c}, p.edges)
<1>1. Removed(p, c) =
        SetShape(p, p.compound \ {c}, [n \in Ids(p) \ {c} |-> p.parent[n]],
                 {e \in p.inputs : e[2] # c})
  BY DEF Removed, SetShape
<1>2. QED
  BY <1>1, ShapeChanged

-----------------------------------------------------------------------------
(* Containment and normalisation                                           *)

\* Every parent is a node of the plan, and no node contains itself.
Rooted(p) ==
  (\A n \in Ids(p) : p.parent[n] \in Ids(p) \cup {Nobody}) /\ Acyclic(Up(p))

\* What collapsing compounds keeps, of any plan.
Tidy == {p \in PlanIRs : p.inputs \cap Kin(p) = {}}

Plain == {p \in Tidy : Rooted(p)}

SameShape(p, q) == p.primitive = q.primitive /\ p.compound = q.compound /\ p.parent = q.parent

LEMMA SameShapeFacts ==
  ASSUME NEW p, NEW q, SameShape(p, q)
  PROVE  /\ Ids(p) = Ids(q) /\ Up(p) = Up(q) /\ Containment(p) = Containment(q) /\ Kin(p) = Kin(q)
         /\ \A n : Children(p, n) = Children(q, n)
         /\ Hollow(p) = Hollow(q) /\ (Rooted(p) <=> Rooted(q))
         /\ Orphaned(p) = Orphaned(q)
<1>1. Ids(p) = Ids(q)
  BY DEF SameShape, Ids
<1>2. Up(p) = Up(q) /\ \A n : Children(p, n) = Children(q, n)
  BY <1>1 DEF SameShape, Up, Children
<1>3. Containment(p) = Containment(q)
  BY <1>2, ContainmentFacts
<1>4. QED
  BY <1>1, <1>2, <1>3 DEF Kin, Hollow, Rooted, SameShape, Orphaned

LEMMA KinFacts ==
  ASSUME NEW p
  PROVE  /\ \A x, y : <<x, y>> \in Kin(p) <=> <<x, y>> \in Containment(p) \/ <<y, x>> \in Containment(p)
         /\ \A e \in Kin(p) : e = <<e[1], e[2]>>
<1> DEFINE C == Containment(p)
<1>1. \A e \in C : e = <<e[1], e[2]>>
  BY PathPairs, ContainmentFacts
<1>2. Kin(p) = C \cup {<<e[2], e[1]>> : e \in C}
  BY DEF Kin, Swapped
<1> HIDE DEF C
<1>3. \A x, y : <<x, y>> \in {<<e[2], e[1]>> : e \in C} <=> <<y, x>> \in C
  BY <1>1
<1>4. QED
  BY <1>1, <1>2, <1>3 DEF C

LEMMA KinGrows ==
  ASSUME NEW p, NEW q, Containment(q) \subseteq Containment(p)
  PROVE  Kin(q) \subseteq Kin(p)
<1> SUFFICES ASSUME NEW e \in Kin(q) PROVE e \in Kin(p)
  OBVIOUS
<1>1. e = <<e[1], e[2]>>
  BY KinFacts
<1>2. <<e[1], e[2]>> \in Containment(q) \/ <<e[2], e[1]>> \in Containment(q)
  BY <1>1, KinFacts
<1>3. QED
  BY <1>1, <1>2, KinFacts

LEMMA OtherLinks ==
  ASSUME NEW p \in PlanIRs, NEW D, D \subseteq Pairs, NEW I, I \subseteq Pairs,
         NEW E, E \subseteq Pairs
  PROVE  Made(p.primitive, p.compound, p.parent, D, I, E) \in PlanIRs
<1>1. /\ p.primitive \subseteq NodeIds /\ p.compound \subseteq NodeIds
      /\ p.primitive \cap p.compound = {}
      /\ p.parent \in [p.primitive \cup p.compound -> NodeIds \cup {Nobody}]
  BY PlanIsMade DEF Kinds, Ids
<1>2. QED
  BY <1>1, MadeIsPlan

LEMMA WithoutContainmentFacts ==
  ASSUME NEW p \in PlanIRs
  PROVE  LET r == WithoutContainment(p) IN
         /\ r \in Tidy /\ SameShape(p, r) /\ (r.edges \cup r.deps) \cap Kin(r) = {}
         /\ r.inputs = p.inputs \ Kin(p) /\ (Rooted(p) => r \in Plain)
<1> DEFINE r == WithoutContainment(p)
<1>1. r = Made(p.primitive, p.compound, p.parent, p.deps \ Kin(p), p.inputs \ Kin(p),
               (p.edges \cup p.deps) \ Kin(p))
  BY WithoutContainmentMade
<1>2. r \in PlanIRs
  <2>1. /\ p.deps \ Kin(p) \subseteq Pairs /\ p.inputs \ Kin(p) \subseteq Pairs
        /\ (p.edges \cup p.deps) \ Kin(p) \subseteq Pairs
    BY PlanIsMade
  <2>2. QED
    BY <1>1, <2>1, OtherLinks
<1>3. /\ SameShape(p, r) /\ r.deps = p.deps \ Kin(p) /\ r.inputs = p.inputs \ Kin(p)
      /\ r.edges = (p.edges \cup p.deps) \ Kin(p)
  BY <1>1, MadeFields DEF SameShape
<1> HIDE DEF r
<1>4. (Rooted(p) => Rooted(r)) /\ Kin(r) = Kin(p)
  BY <1>3, SameShapeFacts
<1>5. QED
  BY <1>2, <1>3, <1>4 DEF Plain, Tidy, r

LEMMA WithoutOldStagesFacts ==
  ASSUME NEW p \in Tidy
  PROVE  LET r == WithoutOldStages(p) IN
         r \in Tidy /\ SameShape(p, r) /\ (Rooted(p) => r \in Plain)
<1> DEFINE r == WithoutOldStages(p)
<1>1. p \in PlanIRs
  BY DEF Tidy
<1>2. r = Made(p.primitive, p.compound, p.parent, Within(p.deps, Ids(p)),
               Within(p.inputs, Ids(p)), Within(p.edges, Ids(p)))
  BY <1>1, WithoutOldStagesMade
<1>3. r \in PlanIRs
  <2>1. /\ Within(p.deps, Ids(p)) \subseteq Pairs /\ Within(p.inputs, Ids(p)) \subseteq Pairs
        /\ Within(p.edges, Ids(p)) \subseteq Pairs
    BY <1>1, PlanIsMade DEF Within
  <2>2. QED
    BY <1>1, <1>2, <2>1, OtherLinks
<1>4. SameShape(p, r) /\ r.inputs \subseteq p.inputs
  BY <1>2, MadeFields DEF SameShape, Within
<1> HIDE DEF r
<1>5. (Rooted(p) => Rooted(r)) /\ Kin(r) = Kin(p)
  BY <1>4, SameShapeFacts
<1>6. QED
  BY <1>3, <1>4, <1>5 DEF Plain, Tidy, r

LEMMA RemovedFacts ==
  ASSUME NEW p \in PlanIRs, NEW c \in p.compound
  PROVE  LET q == Removed(p, c) IN
         /\ q \in PlanIRs /\ q.primitive = p.primitive /\ q.compound = p.compound \ {c}
         /\ q.parent = [n \in Ids(p) \ {c} |-> p.parent[n]]
         /\ q.deps = p.deps /\ q.edges = p.edges /\ q.inputs = {e \in p.inputs : e[2] # c}
<1> DEFINE f == [n \in Ids(p) \ {c} |-> p.parent[n]]
           I == {e \in p.inputs : e[2] # c}
           q == Made(p.primitive, p.compound \ {c}, f, p.deps, I, p.edges)
<1>1. Removed(p, c) = q
  BY RemovedMade
<1>2. /\ p.primitive \subseteq NodeIds /\ p.compound \subseteq NodeIds
      /\ p.primitive \cap p.compound = {}
      /\ p.parent \in [p.primitive \cup p.compound -> NodeIds \cup {Nobody}]
      /\ p.deps \subseteq Pairs /\ p.inputs \subseteq Pairs /\ p.edges \subseteq Pairs
  BY PlanIsMade DEF Kinds, Ids
<1>3. f \in [p.primitive \cup (p.compound \ {c}) -> NodeIds \cup {Nobody}] /\ I \subseteq Pairs
  BY <1>2 DEF Ids
<1> HIDE DEF f, I
<1>4. q \in PlanIRs
  BY <1>2, <1>3, MadeIsPlan
<1>5. /\ q.primitive = p.primitive /\ q.compound = p.compound \ {c} /\ q.parent = f
      /\ q.deps = p.deps /\ q.edges = p.edges /\ q.inputs = I
  BY MadeFields
<1> HIDE DEF q
<1>6. QED
  BY <1>1, <1>4, <1>5 DEF f, I

\* Up to one child, there is one at most.
LEMMA OnlyChild ==
  ASSUME NEW p \in PlanIRs, NEW c \in Hollow(p), NEW m \in Children(p, c), NEW n \in Children(p, c)
  PROVE  m = n
<1>1. IsFiniteSet(Children(p, c))
  BY PlanIsMade, PlanningAssumption, FS_Subset DEF Children
<1>2. Cardinality(Children(p, c)) \in Nat /\ Cardinality(Children(p, c)) < 2
  BY <1>1, FS_CardinalityType DEF Hollow
<1>3. Cardinality(Children(p, c) \ {m}) = Cardinality(Children(p, c)) - 1
      /\ IsFiniteSet(Children(p, c) \ {m})
  BY <1>1, FS_RemoveElement
<1>4. Cardinality(Children(p, c) \ {m}) = 0
  BY <1>2, <1>3, FS_CardinalityType
<1>5. Children(p, c) \ {m} = {}
  BY <1>3, <1>4, FS_EmptySet
<1>6. QED
  BY <1>5

\* A parent contains its child and is another node.
LEMMA ParentFacts ==
  ASSUME NEW p, Rooted(p), NEW n \in Ids(p), p.parent[n] # Nobody
  PROVE  p.parent[n] \in Ids(p) /\ <<p.parent[n], n>> \in Containment(p) /\ p.parent[n] # n
<1>1. p.parent[n] \in Ids(p)
  BY DEF Rooted
<1>2. <<p.parent[n], n>> \in Containment(p)
  BY <1>1, ParentAbove
<1>3. p.parent[n] # n
  BY <1>2, ContainmentFacts, AcyclicFacts DEF Rooted
<1>4. QED
  BY <1>1, <1>2, <1>3

\* The parents once compound c is gone.
Lifted(p, c) ==
  [n \in Ids(p) \ {c} |-> IF p.parent[n] = c THEN p.parent[c] ELSE p.parent[n]]

\* Whoever is beside an edge of c keeps it; the edges of c go to its child.
Rewired(p, c, E) ==
  /\ \A e \in p.edges : e[1] # c /\ e[2] # c /\ e[1] # e[2] => e \in E
  /\ \A k \in Children(p, c), e \in p.edges :
       /\ e[1] = c /\ e[2] \notin {c, k} => <<k, e[2]>> \in E
       /\ e[2] = c /\ e[1] \notin {c, k} => <<e[1], k>> \in E

\* The plan without compound c.
Without(p, c, D, E) ==
  Made(p.primitive, p.compound \ {c}, Lifted(p, c), D, {e \in p.inputs : e[2] # c}, E)

LEMMA ShellGone ==
  ASSUME NEW p \in PlanIRs, NEW c \in p.compound, Children(p, c) = {}
  PROVE  \E D \in SUBSET Pairs, E \in SUBSET Pairs :
           WithoutShell(p, c) = Without(p, c, D, E) /\ Rewired(p, c, E)
<1> DEFINE q == Removed(p, c)
           before(R) == {d \in NodeIds : <<d, c>> \in R}
           after(R)  == {n \in NodeIds : <<c, n>> \in R}
           rest == NodeIds \ {c}
           joined == (before(p.edges) \cup before(p.deps)) \X after(p.edges)
           D == Within(q.deps, rest) \cup (before(p.deps) \X (after(p.deps) \ {c}))
           E == Within(q.edges, rest) \cup {e \in joined : e[1] # e[2]}
           I == {e \in p.inputs : e[2] # c}
           f == Lifted(p, c)
<1>1. p.deps \subseteq Pairs /\ p.edges \subseteq Pairs
  BY PlanIsMade
<1>2. /\ q \in PlanIRs /\ q.primitive = p.primitive /\ q.compound = p.compound \ {c}
      /\ q.parent = [n \in Ids(p) \ {c} |-> p.parent[n]]
      /\ q.deps = p.deps /\ q.edges = p.edges /\ q.inputs = I
  BY RemovedFacts
<1>3. D \subseteq Pairs /\ E \subseteq Pairs
  BY <1>1, <1>2 DEF Within, Pairs
<1>4. Rewired(p, c, E)
  BY <1>1, <1>2 DEF Rewired, Within, Pairs
<1>5. q.parent = f
  BY <1>2 DEF Lifted, Children
<1>6. WithoutShell(p, c) = SetOrder(q, D, E)
  BY DEF WithoutShell, SetOrder
<1> HIDE DEF D, E, q, f, I
<1>7. SetOrder(q, D, E) = Made(q.primitive, q.compound, q.parent, D, q.inputs, E)
  BY <1>2, OrderChanged
<1>8. WithoutShell(p, c) = Made(p.primitive, p.compound \ {c}, f, D, I, E)
  BY <1>2, <1>5, <1>6, <1>7
<1>9. WithoutShell(p, c) = Without(p, c, D, E)
  BY <1>8 DEF Without, f, I
<1>10. QED
  BY <1>3, <1>4, <1>9

LEMMA ItselfGone ==
  ASSUME NEW p \in PlanIRs, NEW c \in p.compound, Children(p, c) = {c}
  PROVE  \E D \in SUBSET Pairs, E \in SUBSET Pairs :
           WithoutItself(p, c) = Without(p, c, D, E) /\ Rewired(p, c, E)
<1> DEFINE q == Removed(p, c)
           D == {e \in q.deps : e[2] # c}
           E == {e \in q.edges : e[1] # e[2]}
           I == {e \in p.inputs : e[2] # c}
           f == Lifted(p, c)
<1>1. p.deps \subseteq Pairs /\ p.edges \subseteq Pairs
  BY PlanIsMade
<1>2. /\ q \in PlanIRs /\ q.primitive = p.primitive /\ q.compound = p.compound \ {c}
      /\ q.parent = [n \in Ids(p) \ {c} |-> p.parent[n]]
      /\ q.deps = p.deps /\ q.edges = p.edges /\ q.inputs = I
  BY RemovedFacts
<1>3. D \subseteq Pairs /\ E \subseteq Pairs
  BY <1>1, <1>2
<1>4. Rewired(p, c, E)
  <2>1. \A e \in p.edges : e = <<e[1], e[2]>>
    BY <1>1 DEF Pairs
  <2>2. QED
    BY <1>2, <2>1 DEF Rewired
<1>5. q.parent = f
  BY <1>2 DEF Lifted, Children
<1>6. WithoutItself(p, c) = SetOrder(q, D, E)
  BY DEF WithoutItself, SetOrder
<1> HIDE DEF D, E, q, f, I
<1>7. SetOrder(q, D, E) = Made(q.primitive, q.compound, q.parent, D, q.inputs, E)
  BY <1>2, OrderChanged
<1>8. WithoutItself(p, c) = Made(p.primitive, p.compound \ {c}, f, D, I, E)
  BY <1>2, <1>5, <1>6, <1>7
<1>9. WithoutItself(p, c) = Without(p, c, D, E)
  BY <1>8 DEF Without, f, I
<1>10. QED
  BY <1>3, <1>4, <1>9

LEMMA ChildLifted ==
  ASSUME NEW p \in PlanIRs, NEW c \in Hollow(p), Children(p, c) # {}, Children(p, c) # {c}
  PROVE  \E D \in SUBSET Pairs, E \in SUBSET Pairs :
           Replaced(p, c) = Without(p, c, D, E) /\ Rewired(p, c, E)
<1> DEFINE child == CHOOSE n \in NodeIds : n \in Children(p, c)
           sub(n) == IF n = c THEN child ELSE n
           q == Removed(p, c)
           g == [q.parent EXCEPT ![child] = p.parent[c]]
           D == {<<IF e[2] = c THEN e[1] ELSE sub(e[1]), sub(e[2])>> :
                     e \in q.deps \ {<<c, child>>}}
           E == {e \in {<<sub(f[1]), sub(f[2])>> : f \in q.edges} : e[1] # e[2]}
           I == {e \in p.inputs : e[2] # c}
           f == Lifted(p, c)
<1>1. p.deps \subseteq Pairs /\ p.edges \subseteq Pairs /\ Ids(p) \subseteq NodeIds
  BY PlanIsMade
<1>2. c \in p.compound /\ c \in Ids(p)
  BY DEF Hollow, Ids
<1>3. child \in NodeIds /\ child \in Children(p, c)
  BY <1>1 DEF Children
<1>4. child \in Ids(p) /\ p.parent[child] = c
  BY <1>3 DEF Children
<1>5. \A k \in Children(p, c) : k = child
  BY <1>1, <1>3, OnlyChild
<1> HIDE DEF child
<1>6. /\ q \in PlanIRs /\ q.primitive = p.primitive /\ q.compound = p.compound \ {c}
      /\ q.parent = [n \in Ids(p) \ {c} |-> p.parent[n]]
      /\ q.deps = p.deps /\ q.edges = p.edges /\ q.inputs = I
  BY <1>1, <1>2, RemovedFacts
<1>7. D \subseteq Pairs /\ E \subseteq Pairs
  BY <1>1, <1>2, <1>3, <1>6 DEF Pairs
<1>8. child # c
  BY <1>3, <1>5
<1>9. Rewired(p, c, E)
  <2>1. \A e \in p.edges : sub(e[1]) # sub(e[2]) => <<sub(e[1]), sub(e[2])>> \in E
    BY <1>6
  <2>2. \A e \in p.edges : e = <<e[1], e[2]>>
    BY <1>1 DEF Pairs
  <2> HIDE DEF E
  <2>3. QED
    BY <1>5, <1>8, <2>1, <2>2 DEF Rewired
<1>10. Replaced(p, c) = SetPlace(q, g, D, E)
  BY DEF Replaced, SetPlace, child
<1>11. g = f
  <2>1. g = [n \in Ids(p) \ {c} |-> IF n = child THEN p.parent[c] ELSE p.parent[n]]
    BY <1>4, <1>6, <1>8
  <2>2. \A n \in Ids(p) \ {c} : p.parent[n] = c <=> n = child
    BY <1>4, <1>5 DEF Children
  <2>3. QED
    BY <2>1, <2>2 DEF Lifted
<1> HIDE DEF D, E, q, g, I, f
<1>12. SetPlace(q, g, D, E) = Made(q.primitive, q.compound, g, D, q.inputs, E)
  BY <1>6, PlaceChanged
<1>13. Replaced(p, c) = Made(p.primitive, p.compound \ {c}, f, D, I, E)
  BY <1>6, <1>10, <1>11, <1>12
<1>14. Replaced(p, c) = Without(p, c, D, E)
  BY <1>13 DEF Without, f, I
<1>15. QED
  BY <1>7, <1>9, <1>14

\* One collapse, field by field.
LEMMA CollapseMade ==
  ASSUME NEW p \in PlanIRs, NEW r \in Collapsing(p)
  PROVE  \E c \in Hollow(p) :
           /\ r \in PlanIRs /\ r.primitive = p.primitive /\ r.compound = p.compound \ {c}
           /\ Ids(r) = Ids(p) \ {c} /\ r.parent = Lifted(p, c)
           /\ r.inputs \subseteq p.inputs /\ Rewired(p, c, r.edges)
<1>1. PICK c \in Hollow(p) :
        \/ Children(p, c) = {} /\ r = WithoutShell(p, c)
        \/ Children(p, c) = {c} /\ r = WithoutItself(p, c)
        \/ Children(p, c) # {} /\ Children(p, c) # {c} /\ r = Replaced(p, c)
  BY DEF Collapsing
<1>2. PICK D \in SUBSET Pairs, E \in SUBSET Pairs : r = Without(p, c, D, E) /\ Rewired(p, c, E)
  BY <1>1, ShellGone, ItselfGone, ChildLifted DEF Hollow
<1>3. /\ c \in p.compound /\ Kinds(p) /\ Ids(p) \subseteq NodeIds /\ p.inputs \subseteq Pairs
      /\ p.parent \in [Ids(p) -> NodeIds \cup {Nobody}] /\ c \in Ids(p)
  BY PlanIsMade DEF Hollow, Ids
<1>4. p.primitive \cup (p.compound \ {c}) = Ids(p) \ {c}
  BY <1>3 DEF Kinds, Ids
<1>5. Lifted(p, c) \in [Ids(p) \ {c} -> NodeIds \cup {Nobody}]
  BY <1>3 DEF Lifted
<1>6. r \in PlanIRs
  <2>1. {e \in p.inputs : e[2] # c} \subseteq Pairs
    BY <1>3
  <2>2. QED
    BY <1>2, <1>3, <1>4, <1>5, <2>1, MadeIsPlan DEF Without, Kinds
<1>7. /\ r.primitive = p.primitive /\ r.compound = p.compound \ {c} /\ r.parent = Lifted(p, c)
      /\ r.edges = E /\ Ids(r) = p.primitive \cup (p.compound \ {c})
      /\ r.inputs = {e \in p.inputs : e[2] # c}
  BY <1>2, MadeFields DEF Without
<1>8. QED
  BY <1>2, <1>4, <1>6, <1>7

\* What is contained afterwards was contained before, and every parent that is
\* unknown afterwards was.
LEMMA CollapseKeeps ==
  ASSUME NEW p \in PlanIRs, NEW c \in Hollow(p), NEW r, Ids(r) = Ids(p) \ {c},
         r.parent = Lifted(p, c)
  PROVE  /\ Containment(r) \subseteq Containment(p)
         /\ Orphaned(r) \subseteq Orphaned(p) /\ (Rooted(p) => Rooted(r))
<1>1. /\ c \in Ids(p) /\ Ids(p) \subseteq NodeIds /\ Nobody \notin NodeIds
      /\ \A n \in Ids(p) : p.parent[n] \in NodeIds \cup {Nobody}
  <2>1. c \in Ids(p) /\ Nobody \notin NodeIds
    BY NobodyAssumption DEF Hollow, Ids
  <2>2. Ids(p) \subseteq NodeIds /\ p.parent \in [Ids(p) -> NodeIds \cup {Nobody}]
    BY PlanIsMade
  <2>3. QED
    BY <2>1, <2>2
<1>2. \A n \in Ids(r) : n \in Ids(p) /\ n # c /\
        r.parent[n] = IF p.parent[n] = c THEN p.parent[c] ELSE p.parent[n]
  BY DEF Lifted
<1>3. ASSUME NEW n \in Ids(p), p.parent[n] \in Ids(p)
      PROVE  <<p.parent[n], n>> \in Containment(p)
  BY <1>3, ParentAbove
<1>4. \A e \in Up(r) : <<e[1], e[2]>> \in Containment(p)
  <2> SUFFICES ASSUME NEW n \in Ids(r), r.parent[n] \in Ids(r)
               PROVE  <<r.parent[n], n>> \in Containment(p)
    BY DEF Up
  <2>1. IsTransitive(Containment(p))
    BY ContainmentFacts
  <2>2. QED
    BY <1>1, <1>2, <1>3, <2>1 DEF IsTransitive
<1>5. Containment(r) \subseteq Containment(p)
  BY <1>4, ContainmentFacts, PathsLeast
<1>6. \A n \in Ids(r) : p.parent[n] = c => p.parent[c] # c
  <2>1. \A n \in Ids(r) : p.parent[n] = c /\ p.parent[c] = c =>
          n \in Children(p, c) /\ c \in Children(p, c) /\ n # c
    BY <1>1, <1>2 DEF Children
  <2>2. QED
    BY <2>1, OnlyChild
<1>7. \A n \in Ids(r) : r.parent[n] \notin Ids(r) => r.parent[n] \notin Ids(p)
  BY <1>2, <1>6
<1>8. \A n \in Ids(r) : \E m \in Ids(p) : r.parent[n] = p.parent[m]
  BY <1>1, <1>2
<1>9. Orphaned(r) \subseteq Orphaned(p)
  BY <1>7, <1>8 DEF Orphaned
<1>10. ASSUME Rooted(p) PROVE Rooted(r)
  <2>1. Acyclic(Up(r))
    BY <1>5, <1>10, ContainmentFacts DEF Rooted, Acyclic
  <2>2. \A n \in Ids(r) : r.parent[n] \in Ids(r) \cup {Nobody}
    BY <1>7, <1>8, <1>10 DEF Rooted
  <2>3. QED
    BY <2>1, <2>2 DEF Rooted
<1>11. QED
  BY <1>5, <1>9, <1>10

\* One collapse, of a plan whose containers are there.
LEMMA CollapseFacts ==
  ASSUME NEW p \in Plain, NEW r \in Collapsing(p)
  PROVE  \E c \in Hollow(p) :
           /\ r \in Plain /\ r.primitive = p.primitive /\ r.compound = p.compound \ {c}
           /\ Ids(r) = Ids(p) \ {c} /\ r.parent = Lifted(p, c)
           /\ Rewired(p, c, r.edges)
<1>1. p \in PlanIRs /\ Rooted(p) /\ p.inputs \cap Kin(p) = {}
  BY DEF Plain, Tidy
<1>2. PICK c \in Hollow(p) :
        /\ r \in PlanIRs /\ r.primitive = p.primitive /\ r.compound = p.compound \ {c}
        /\ Ids(r) = Ids(p) \ {c} /\ r.parent = Lifted(p, c)
        /\ r.inputs \subseteq p.inputs /\ Rewired(p, c, r.edges)
  BY <1>1, CollapseMade
<1>3. Containment(r) \subseteq Containment(p) /\ Rooted(r)
  BY <1>1, <1>2, CollapseKeeps
<1>4. r \in Plain
  BY <1>1, <1>2, <1>3, KinGrows DEF Plain, Tidy
<1>5. QED
  BY <1>2, <1>4

\* What leaves the normalisation is in order.
InOrder(p) ==
  /\ (p.edges \cup p.deps) \cap Kin(p) = {}
  /\ Hollow(p) \subseteq Expected(p)

LEMMA NormalisedFacts ==
  ASSUME NEW p \in PlanIRs, NEW laterStage, NEW r \in Normalised(p, laterStage)
  PROVE  /\ r \in Tidy /\ InOrder(r) /\ r.primitive = p.primitive
         /\ Orphaned(r) \subseteq Orphaned(p) /\ (Rooted(p) => r \in Plain)
<1> DEFINE G == {q \in Tidy : /\ q.primitive = p.primitive /\ Orphaned(q) \subseteq Orphaned(p)
                              /\ Rooted(p) => Rooted(q)}
<1>1. PICK q \in G : r \in Collapsed(q)
  <2> DEFINE w == WithoutContainment(p)
  <2>1. w \in Tidy /\ SameShape(p, w)
    BY WithoutContainmentFacts
  <2>2. WithoutOldStages(w) \in Tidy /\ SameShape(w, WithoutOldStages(w))
    BY <2>1, WithoutOldStagesFacts
  <2>3. r \in Collapsed(w) \/ r \in Collapsed(WithoutOldStages(w))
    BY DEF Normalised
  <2> HIDE DEF w
  <2>4. w \in G /\ WithoutOldStages(w) \in G
    BY <2>1, <2>2, SameShapeFacts DEF SameShape
  <2>5. QED
    BY <2>3, <2>4
<1>2. IsFiniteSet(q.compound)
  BY PlanIsMade, PlanningAssumption, FS_Subset DEF Tidy, Kinds
<1>3. ASSUME NEW s \in G PROVE Collapsing(s) \subseteq G
  <2> SUFFICES ASSUME NEW t \in Collapsing(s) PROVE t \in G
    OBVIOUS
  <2>1. s \in PlanIRs /\ s.inputs \cap Kin(s) = {}
    BY DEF Tidy
  <2>2. PICK c \in Hollow(s) :
          /\ t \in PlanIRs /\ t.primitive = s.primitive
          /\ Ids(t) = Ids(s) \ {c} /\ t.parent = Lifted(s, c) /\ t.inputs \subseteq s.inputs
    BY <2>1, CollapseMade
  <2>3. /\ Containment(t) \subseteq Containment(s) /\ Orphaned(t) \subseteq Orphaned(s)
        /\ Rooted(s) => Rooted(t)
    BY <2>1, <2>2, CollapseKeeps
  <2>4. t \in Tidy
    BY <2>1, <2>2, <2>3, KinGrows DEF Tidy
  <2>5. QED
    BY <2>2, <2>3, <2>4
<1>4. PICK s \in G : Collapsing(s) = {} /\ r = WithoutContainment(s)
  <2> HIDE DEF G
  <2>1. QED
    BY <1>1, <1>2, <1>3, CollapsedKeeps
<1>5. s \in PlanIRs /\ s.inputs \cap Kin(s) = {}
  BY DEF Tidy
<1>6. /\ r \in Tidy /\ SameShape(s, r) /\ (r.edges \cup r.deps) \cap Kin(r) = {}
      /\ r.inputs = s.inputs /\ (Rooted(s) => r \in Plain)
  BY <1>4, <1>5, WithoutContainmentFacts
<1>7. Hollow(s) \subseteq Expected(s)
  BY <1>4 DEF Collapsing
<1>8. /\ Hollow(r) = Hollow(s) /\ (\A n : Children(r, n) = Children(s, n))
      /\ Orphaned(r) = Orphaned(s)
  BY <1>6, SameShapeFacts
<1>9. Expected(r) = Expected(s)
  BY <1>6, <1>8 DEF Expected, SameShape
<1>10. QED
  BY <1>6, <1>7, <1>8, <1>9 DEF InOrder, SameShape

-----------------------------------------------------------------------------
(* Answers and revisions                                                   *)

\* A strict order of the members of S.
IsOrder(T, S) == IsTransitive(T) /\ (\A x : <<x, x>> \notin T) /\ T \subseteq S \X S

\* The nodes W under the nodes K, each with an order of its own.
LEMMA Grafted ==
  ASSUME NEW q, NEW K, NEW W, K \cap W = {}, Ids(q) = K \cup W, Nobody \notin Ids(q),
         NEW A, IsOrder(A, K), NEW B, IsOrder(B, W),
         \A n \in K : q.parent[n] = Nobody \/ <<q.parent[n], n>> \in A,
         \A n \in W : q.parent[n] \in K \cup {Nobody} \/ <<q.parent[n], n>> \in B
  PROVE  Rooted(q)
<1> DEFINE T == A \cup B \cup (K \X W)
<1>1. \A x, y : /\ <<x, y>> \in A => x \in K /\ y \in K
                /\ <<x, y>> \in B => x \in W /\ y \in W
  BY DEF IsOrder
<1>2. IsTransitive(T)
  BY <1>1 DEF IsTransitive, IsOrder
<1>3. \A x : <<x, x>> \notin T
  BY DEF IsOrder
<1>4. \A n \in Ids(q) : q.parent[n] \in Ids(q) \cup {Nobody}
  BY <1>1
<1>5. \A e \in Up(q) : <<e[1], e[2]>> \in T
  BY <1>1 DEF Up
<1>6. QED
  BY <1>2, <1>3, <1>4, <1>5, AcyclicBy DEF Rooted

\* The adapter keeps the nodes and the parents of an answer.
LEMMA AnswerFacts ==
  ASSUME NEW N, N \subseteq NodeIds, NEW C, C \subseteq N,
         NEW f \in [N -> NodeIds \cup {Nobody}],
         NEW R, R \subseteq Pairs, NEW E, E \subseteq Pairs, NEW I, I \subseteq Pairs
  PROVE  LET a == Answer(C, N \ C, f, R, E, I) IN
         /\ a \in PlanIRs /\ a.compound = C /\ Ids(a) = N /\ a.parent = f
<1> DEFINE D == {e \in R : e[2] \in C \cup (N \ C)}
           w == Made(N \ C, C, f, D, I, E)
           a == SetOrder(w, w.deps \ Declared(w), w.edges \ Declared(w))
<1>1. Answer(C, N \ C, f, R, E, I) = a
  BY DEF Answer, Made, SetOrder
<1>2. (N \ C) \cup C = N /\ D \subseteq Pairs
  OBVIOUS
<1>3. w \in PlanIRs
  BY <1>2, MadeIsPlan
<1>4. w.primitive = N \ C /\ w.compound = C /\ w.parent = f
  BY MadeFields
<1> HIDE DEF w, a
<1>5. a = Made(w.primitive, w.compound, w.parent, w.deps \ Declared(w), w.inputs,
               w.edges \ Declared(w))
  BY <1>3, OrderChanged DEF a
<1>6. a \in PlanIRs
  <2>1. /\ w.deps \ Declared(w) \subseteq Pairs /\ w.inputs \subseteq Pairs
        /\ w.edges \ Declared(w) \subseteq Pairs
    BY <1>3, PlanIsMade
  <2>2. QED
    BY <1>3, <1>5, <2>1, OtherLinks
<1>7. /\ a.compound = w.compound /\ a.parent = w.parent
      /\ Ids(a) = w.primitive \cup w.compound
  BY <1>5, MadeFields
<1>8. QED
  BY <1>1, <1>2, <1>4, <1>6, <1>7

\* Whatever container an answer left out is there afterwards.
LEMMA WithParentsFacts ==
  ASSUME NEW a \in PlanIRs
  PROVE  WithParents(a) \in PlanIRs /\ Orphaned(WithParents(a)) = {}
<1> DEFINE missing == Orphaned(a)
           inherited == {e \in NodeIds \X missing :
                           /\ e[1] \notin Children(a, e[2]) \cup {e[2]}
                           /\ \E c \in Children(a, e[2]) : <<e[1], c>> \in a.deps}
           f == [n \in Ids(a) \cup missing |-> IF n \in missing THEN Nobody ELSE a.parent[n]]
           D == a.deps \cup inherited
           all == a.compound \cup missing
           w == SetRoots(a, all, f, D)
<1>1. WithParents(a) = WithoutContainment(w)
  BY DEF WithParents, SetRoots
<1>2. /\ Kinds(a) /\ Ids(a) \subseteq NodeIds /\ a.parent \in [Ids(a) -> NodeIds \cup {Nobody}]
      /\ a.deps \subseteq Pairs /\ a.inputs \subseteq Pairs /\ a.edges \subseteq Pairs
  BY PlanIsMade
<1>3. missing \subseteq NodeIds /\ missing \cap Ids(a) = {} /\ Nobody \notin missing
  BY <1>2 DEF Orphaned
<1>4. \A n \in Ids(a) \cup missing : f[n] \in Ids(a) \cup missing \cup {Nobody}
  BY <1>2 DEF Orphaned
<1>5. D \subseteq Pairs
  BY <1>2, <1>3 DEF Pairs
<1>6. a.primitive \cup all = Ids(a) \cup missing /\ a.primitive \cap all = {}
      /\ a.primitive \subseteq NodeIds /\ all \subseteq NodeIds
  BY <1>2, <1>3 DEF Ids, Kinds
<1>7. f \in [a.primitive \cup all -> NodeIds \cup {Nobody}]
  BY <1>2, <1>6
<1> HIDE DEF missing, f, D, all
<1>8. w = Made(a.primitive, all, f, D, a.inputs, a.edges)
  BY RootsChanged
<1>9. w \in PlanIRs
  <2>1. Made(a.primitive, all, f, D, a.inputs, a.edges) \in PlanIRs
    BY <1>2, <1>5, <1>6, <1>7, MadeIsPlan
  <2>2. QED
    BY <1>8, <2>1
<1>10. Ids(w) = Ids(a) \cup missing /\ w.parent = f
  BY <1>6, <1>8, MadeFields
<1> HIDE DEF w
<1>11. Orphaned(w) = {}
  BY <1>4, <1>10 DEF Orphaned
<1>12. WithoutContainment(w) \in PlanIRs /\ SameShape(w, WithoutContainment(w))
  BY <1>9, WithoutContainmentFacts DEF Tidy
<1>13. QED
  BY <1>1, <1>11, <1>12, SameShapeFacts

LEMMA DraftFacts ==
  ASSUME Draft
  PROVE  \E q \in PlanIRs : Orphaned(q) = {} /\ plan' \in Normalised(q, later)
<1>1. PICK S \in SUBSET Drafted :
        \E C \in SUBSET S, R \in DraftLinks, f \in [S -> Drafted \cup {Nobody}] :
          \E I \in Inputs(R, S) :
             plan' \in Normalised(WithParents(Answer(C, S \ C, f, R, R, I)), later)
  BY DEF Draft
<1>2. PICK C \in SUBSET S, R \in DraftLinks, f \in [S -> Drafted \cup {Nobody}] :
        \E I \in Inputs(R, S) :
           plan' \in Normalised(WithParents(Answer(C, S \ C, f, R, R, I)), later)
  BY <1>1
<1>3. PICK I \in Inputs(R, S) :
        plan' \in Normalised(WithParents(Answer(C, S \ C, f, R, R, I)), later)
  BY <1>2
<1> DEFINE a == Answer(C, S \ C, f, R, R, I)
<1>4. Drafted \subseteq NodeIds
  BY PlanningAssumption
<1>5. S \subseteq NodeIds /\ R \subseteq Pairs /\ I \subseteq Pairs
      /\ f \in [S -> NodeIds \cup {Nobody}]
  BY <1>4 DEF DraftLinks, Links, Inputs, Pairs
<1>6. a \in PlanIRs
  BY <1>5, AnswerFacts
<1> HIDE DEF a
<1>7. WithParents(a) \in PlanIRs /\ Orphaned(WithParents(a)) = {}
  BY <1>6, WithParentsFacts
<1>8. QED
  BY <1>3, <1>7 DEF a

\* With or without a node of the target's id, the patch is a plan with one.
LEMMA CompletedFacts ==
  ASSUME NEW p \in PlanIRs, NEW a \in PlanIRs, NEW target \in Ids(p) \cup Ids(a)
  PROVE  LET b == Completed(p, target, a) IN
         /\ b \in PlanIRs /\ Ids(b) = Ids(a) \cup {target}
         /\ \A n \in Ids(a) : b.parent[n] = a.parent[n]
         /\ target \notin Ids(a) => b.parent[target] = p.parent[target]
<1> DEFINE b == Completed(p, target, a)
<1>1. CASE target \in Ids(a)
  <2>1. b = a /\ Ids(a) = Ids(a) \cup {target}
    BY <1>1 DEF Completed
  <2> HIDE DEF b
  <2>2. QED
    BY <1>1, <2>1 DEF b
<1>2. CASE target \notin Ids(a)
  <2> DEFINE all == a.compound \cup {target}
             f == [n \in Ids(a) \cup {target} |->
                     IF n = target THEN p.parent[target] ELSE a.parent[n]]
             D == a.deps \cup {e \in p.deps : e[2] = target}
             I == a.inputs \cup {e \in p.inputs : e[2] = target}
  <2>1. b = SetTop(a, all, f, D, I)
    BY <1>2 DEF Completed, SetTop
  <2>2. /\ Kinds(a) /\ Ids(a) \subseteq NodeIds /\ a.parent \in [Ids(a) -> NodeIds \cup {Nobody}]
        /\ a.deps \subseteq Pairs /\ a.inputs \subseteq Pairs /\ a.edges \subseteq Pairs
    BY PlanIsMade
  <2>3. /\ target \in NodeIds /\ p.parent[target] \in NodeIds \cup {Nobody}
        /\ p.deps \subseteq Pairs /\ p.inputs \subseteq Pairs
    BY <1>2, PlanIsMade
  <2>4. D \subseteq Pairs /\ I \subseteq Pairs
    BY <2>2, <2>3
  <2>5. /\ a.primitive \cup all = Ids(a) \cup {target} /\ a.primitive \cap all = {}
        /\ a.primitive \subseteq NodeIds /\ all \subseteq NodeIds
    BY <1>2, <2>2, <2>3 DEF Ids, Kinds
  <2>6. f \in [a.primitive \cup all -> NodeIds \cup {Nobody}]
    BY <2>2, <2>3, <2>5
  <2>7. (\A n \in Ids(a) : f[n] = a.parent[n]) /\ f[target] = p.parent[target]
    BY <1>2
  <2> HIDE DEF b, all, f, D, I
  <2>8. b = Made(a.primitive, all, f, D, I, a.edges)
    BY <2>1, TopChanged
  <2>9. Made(a.primitive, all, f, D, I, a.edges) \in PlanIRs
    BY <2>2, <2>4, <2>5, <2>6, MadeIsPlan
  <2>10. b.parent = f /\ Ids(b) = a.primitive \cup all
    BY <2>8, MadeFields
  <2>11. QED
    BY <2>5, <2>7, <2>8, <2>9, <2>10 DEF b
<1>3. QED
  BY <1>1, <1>2

LEMMA ContainedFacts ==
  ASSUME NEW b \in PlanIRs, NEW target \in Ids(b)
  PROVE  LET c == Contained(target, b) IN
         /\ c \in PlanIRs /\ Ids(c) = Ids(b) /\ c.parent[target] = b.parent[target]
         /\ \A n \in Ids(b) : c.parent[n] = b.parent[n] \/ (c.parent[n] = target /\ n # target)
<1> DEFINE c == Contained(target, b)
<1>1. CASE target \notin b.compound
  <2>1. c = b
    BY <1>1 DEF Contained
  <2> HIDE DEF c
  <2>2. QED
    BY <2>1 DEF c
<1>2. CASE target \in b.compound
  <2> DEFINE f == [n \in Ids(b) |->
                     IF n # target /\ b.parent[n] = Nobody THEN target ELSE b.parent[n]]
  <2>1. c = SetParent(b, f)
    BY <1>2 DEF Contained, SetParent
  <2>2. /\ Kinds(b) /\ Ids(b) \subseteq NodeIds /\ b.parent \in [Ids(b) -> NodeIds \cup {Nobody}]
        /\ b.deps \subseteq Pairs /\ b.inputs \subseteq Pairs /\ b.edges \subseteq Pairs
    BY PlanIsMade
  <2>3. f \in [b.primitive \cup b.compound -> NodeIds \cup {Nobody}]
    BY <2>2 DEF Ids
  <2>4. /\ f[target] = b.parent[target]
        /\ \A n \in Ids(b) : f[n] = b.parent[n] \/ (f[n] = target /\ n # target)
    OBVIOUS
  <2> HIDE DEF c, f
  <2>5. c = Made(b.primitive, b.compound, f, b.deps, b.inputs, b.edges)
    BY <2>1, ParentChanged
  <2>6. Made(b.primitive, b.compound, f, b.deps, b.inputs, b.edges) \in PlanIRs
    BY <2>2, <2>3, MadeIsPlan DEF Kinds
  <2>7. c.parent = f /\ Ids(c) = Ids(b)
    BY <2>5, MadeFields DEF Ids
  <2>8. QED
    BY <2>4, <2>5, <2>6, <2>7 DEF c
<1>3. QED
  BY <1>1, <1>2

\* What is neither below the target nor the target has its containers there too.
LEMMA OutsideFacts ==
  ASSUME NEW p \in PlanIRs, Rooted(p), NEW target \in Ids(p)
  PROVE  LET K == Ids(p) \ (Below(p, target) \cup {target}) IN
         /\ p.parent[target] \in K \cup {Nobody}
         /\ \A n \in K : p.parent[n] = Nobody \/ <<p.parent[n], n>> \in Within(Containment(p), K)
         /\ IsOrder(Within(Containment(p), K), K)
<1> DEFINE K == Ids(p) \ (Below(p, target) \cup {target})
           T == Containment(p)
<1>1. /\ IsTransitive(T) /\ \A x : <<x, x>> \notin T
      /\ Below(p, target) = {n \in Ids(p) : <<target, n>> \in T}
  BY ContainmentFacts, AcyclicFacts, BelowFacts DEF Rooted
<1>2. \A n \in Ids(p) : p.parent[n] = Nobody \/ (p.parent[n] \in Ids(p) /\ <<p.parent[n], n>> \in T)
  BY ParentFacts
<1> HIDE DEF T
<1>3. p.parent[target] \in K \cup {Nobody}
  BY <1>1, <1>2 DEF IsTransitive
<1>4. \A n \in K : p.parent[n] = Nobody \/ <<p.parent[n], n>> \in Within(T, K)
  <2> SUFFICES ASSUME NEW n \in K, p.parent[n] # Nobody PROVE <<p.parent[n], n>> \in Within(T, K)
    OBVIOUS
  <2>1. p.parent[n] \in Ids(p) /\ <<p.parent[n], n>> \in T
    BY <1>2
  <2>2. p.parent[n] \in K
    BY <1>1, <2>1 DEF IsTransitive
  <2>3. QED
    BY <2>1, <2>2 DEF Within
<1>5. IsOrder(Within(T, K), K)
  BY <1>1 DEF IsOrder, IsTransitive, Within
<1>6. QED
  BY <1>3, <1>4, <1>5 DEF T

\* What a patch for the target may be.
IsPatch(p, target, a) ==
  /\ a \in PlanIRs /\ Acyclic(Up(a))
  /\ Ids(a) \subseteq Below(p, target) \cup {target} \cup (NodeIds \ Ids(p))
  /\ \A n \in Ids(a) : a.parent[n] \in Ids(a) \cup {Nobody, p.parent[target]}
  /\ target \in Ids(a) => a.parent[target] \notin Ids(a)

\* The replacements are ordered by containment, the target above the others.
LEMMA ReplacementFacts ==
  ASSUME NEW p \in PlanIRs, Rooted(p), NEW target \in Ids(p), NEW a, IsPatch(p, target, a)
  PROVE  LET c == Contained(target, Completed(p, target, a))
             K == Ids(p) \ (Below(p, target) \cup {target})
         IN  /\ c \in PlanIRs /\ Ids(c) = Ids(a) \cup {target} /\ K \cap Ids(c) = {}
             /\ \E B : /\ IsOrder(B, Ids(c))
                       /\ \A n \in Ids(c) : \/ c.parent[n] \in K \cup {Nobody}
                                            \/ <<c.parent[n], n>> \in B
<1> DEFINE b == Completed(p, target, a)
           c == Contained(target, b)
           K == Ids(p) \ (Below(p, target) \cup {target})
           T == Paths(Up(a))
           W == Ids(a) \cup {target}
           B == T \cup ({target} \X (W \ {target}))
<1>0. /\ a \in PlanIRs /\ Acyclic(Up(a))
      /\ Ids(a) \subseteq Below(p, target) \cup {target} \cup (NodeIds \ Ids(p))
      /\ \A n \in Ids(a) : a.parent[n] \in Ids(a) \cup {Nobody, p.parent[target]}
      /\ target \in Ids(a) => a.parent[target] \notin Ids(a)
  BY DEF IsPatch
<1>1. /\ b \in PlanIRs /\ Ids(b) = W
      /\ \A n \in Ids(a) : b.parent[n] = a.parent[n]
      /\ target \notin Ids(a) => b.parent[target] = p.parent[target]
  <2>1. target \in Ids(p) \cup Ids(a)
    OBVIOUS
  <2>2. QED
    BY <1>0, <2>1, CompletedFacts
<1> HIDE DEF b
<1>2. /\ c \in PlanIRs /\ Ids(c) = W /\ c.parent[target] = b.parent[target]
      /\ \A n \in W : c.parent[n] = b.parent[n] \/ (c.parent[n] = target /\ n # target)
  BY <1>1, ContainedFacts
<1> HIDE DEF c
<1>3. p.parent[target] \in K \cup {Nobody}
  BY OutsideFacts
<1>4. K \cap W = {}
  BY <1>0
<1> HIDE DEF K
<1>5. /\ IsTransitive(T) /\ (\A x : <<x, x>> \notin T) /\ T \subseteq Ids(a) \X Ids(a)
  BY <1>0, PathsTransitive, AcyclicFacts, ContainmentFacts
<1>6. \A x : <<x, target>> \notin T
  <2> SUFFICES ASSUME NEW x, <<x, target>> \in T PROVE FALSE
    OBVIOUS
  <2>1. PICK e \in Up(a) : e[2] = target
    BY PathEnds
  <2>2. e[1] = a.parent[e[2]] /\ e[1] \in Ids(a) /\ target \in Ids(a)
    BY <2>1, ContainmentFacts
  <2>3. QED
    BY <1>0, <2>1, <2>2
<1>7. \A n \in Ids(a) : a.parent[n] \in Ids(a) => <<a.parent[n], n>> \in T
  <2> SUFFICES ASSUME NEW n \in Ids(a), a.parent[n] \in Ids(a) PROVE <<a.parent[n], n>> \in T
    OBVIOUS
  <2> DEFINE e == <<a.parent[n], n>>
  <2>1. e \in Up(a) /\ e[1] = a.parent[n] /\ e[2] = n
    BY DEF Up
  <2> HIDE DEF e
  <2>2. QED
    BY <2>1, EdgeIsPath
<1> HIDE DEF T
<1>8. IsOrder(B, W)
  <2>1. IsTransitive(B)
    BY <1>5, <1>6 DEF IsTransitive
  <2>2. QED
    BY <1>5, <2>1 DEF IsOrder
<1>9. \A n \in W : c.parent[n] \in K \cup {Nobody} \/ <<c.parent[n], n>> \in B
  <2> SUFFICES ASSUME NEW n \in W PROVE c.parent[n] \in K \cup {Nobody} \/ <<c.parent[n], n>> \in B
    OBVIOUS
  <2>1. CASE n = target
    BY <1>0, <1>1, <1>2, <1>3, <2>1
  <2>2. CASE n # target /\ c.parent[n] = target
    BY <2>2
  <2>3. CASE n # target /\ c.parent[n] # target
    BY <1>0, <1>1, <1>2, <1>3, <1>7, <2>3
  <2>4. QED
    BY <2>1, <2>2, <2>3
<1> HIDE DEF B, W
<1>10. /\ c \in PlanIRs /\ Ids(c) = W /\ K \cap Ids(c) = {}
       /\ \E Q : /\ IsOrder(Q, Ids(c))
                 /\ \A n \in Ids(c) : c.parent[n] \in K \cup {Nobody} \/ <<c.parent[n], n>> \in Q
  BY <1>2, <1>4, <1>8, <1>9
<1>11. QED
  BY <1>10 DEF b, c, K, W

\* What the patch comes to, and what it puts it for.
Replacements(p, target, a) == Contained(target, Completed(p, target, a))

Gone(p, target, a) == Ids(a) \cup {target} \cup Below(p, target)

\* A merged plan is a plan, of what the patch leaves of the old one and of the
\* replacements.
IsMerged(p, target, a, c, q) ==
  LET gone == Gone(p, target, a)
  IN  /\ q \in PlanIRs /\ c \in PlanIRs /\ Ids(c) = Ids(a) \cup {target}
      /\ q.primitive = (p.primitive \ gone) \cup c.primitive
      /\ Ids(q) = (Ids(p) \ gone) \cup Ids(c)
      /\ \A n \in Ids(p) \ gone : q.parent[n] = p.parent[n]
      /\ \A n \in Ids(c) : q.parent[n] = c.parent[n]

LEMMA MergedMade ==
  ASSUME NEW p \in PlanIRs, NEW a \in PlanIRs, NEW target \in Ids(p) \cup Ids(a)
  PROVE  IsMerged(p, target, a, Replacements(p, target, a), Merged(p, target, a))
<1> DEFINE b == Completed(p, target, a)
           c == Contained(target, b)
           dead == Below(p, target) \ Ids(c)
           gone == Ids(c) \cup dead
           D1 == {e \in c.deps : e[1] \notin dead}
           outside == NodeIds \ gone
           P == (p.primitive \ gone) \cup c.primitive
           C == (p.compound \ gone) \cup c.compound
           f == [n \in (Ids(p) \ gone) \cup Ids(c) |->
                   IF n \in Ids(c) THEN c.parent[n] ELSE p.parent[n]]
           D == {e \in p.deps : e[2] \notin gone} \cup D1
           I == {e \in p.inputs : e[2] \notin gone} \cup c.inputs
           E == Within(p.edges \cup p.deps, outside)
                  \cup Boundary(p, target, gone) \cup a.edges \cup D1
           q == Merged(p, target, a)
<1>1. q = Made(P, C, f, D, I, E)
  BY DEF Merged, Made
<1>2. c \in PlanIRs /\ Ids(c) = Ids(a) \cup {target}
  <2>1. b \in PlanIRs /\ Ids(b) = Ids(a) \cup {target}
    BY CompletedFacts
  <2> HIDE DEF b
  <2>2. QED
    BY <2>1, ContainedFacts
<1>3. gone = Gone(p, target, a)
  BY <1>2 DEF Gone
<1> HIDE DEF c
<1>4. /\ Kinds(p) /\ Ids(p) \subseteq NodeIds /\ p.parent \in [Ids(p) -> NodeIds \cup {Nobody}]
      /\ p.deps \subseteq Pairs /\ p.inputs \subseteq Pairs /\ p.edges \subseteq Pairs
  BY PlanIsMade
<1>5. /\ Kinds(c) /\ Ids(c) \subseteq NodeIds /\ c.parent \in [Ids(c) -> NodeIds \cup {Nobody}]
      /\ c.deps \subseteq Pairs /\ c.inputs \subseteq Pairs
  BY <1>2, PlanIsMade
<1>6. a.edges \subseteq Pairs /\ target \in NodeIds
  BY <1>4, PlanIsMade
<1>8. /\ P \cup C = (Ids(p) \ gone) \cup Ids(c) /\ P \cap C = {}
      /\ P \subseteq NodeIds /\ C \subseteq NodeIds
  BY <1>4, <1>5 DEF Kinds, Ids
<1>9. f \in [P \cup C -> NodeIds \cup {Nobody}]
  BY <1>4, <1>5, <1>8
<1>10. D \subseteq Pairs /\ I \subseteq Pairs
  BY <1>4, <1>5
<1>11. E \subseteq Pairs
  <2>1. Boundary(p, target, gone) \subseteq Pairs
    BY <1>4, <1>6 DEF Boundary, Pairs
  <2>2. QED
    BY <1>4, <1>5, <1>6, <2>1 DEF Within
<1>12. /\ \A n \in Ids(p) \ gone : f[n] = p.parent[n]
       /\ \A n \in Ids(c) : f[n] = c.parent[n]
  OBVIOUS
<1> HIDE DEF C, f, D, I, E, q
<1>13. Made(P, C, f, D, I, E) \in PlanIRs
  BY <1>8, <1>9, <1>10, <1>11, MadeIsPlan
<1>14. q.primitive = P /\ q.parent = f /\ Ids(q) = (Ids(p) \ gone) \cup Ids(c)
  BY <1>1, <1>8, MadeFields
<1> HIDE DEF gone, P
<1>15. /\ q \in PlanIRs /\ c \in PlanIRs /\ Ids(c) = Ids(a) \cup {target}
       /\ q.primitive = (p.primitive \ gone) \cup c.primitive
       /\ Ids(q) = (Ids(p) \ gone) \cup Ids(c)
       /\ \A n \in Ids(p) \ gone : q.parent[n] = p.parent[n]
       /\ \A n \in Ids(c) : q.parent[n] = c.parent[n]
  BY <1>1, <1>2, <1>12, <1>13, <1>14 DEF P
<1>16. QED
  BY <1>3, <1>15 DEF c, q, Replacements, IsMerged

\* Unless a node contains itself, no container of a node the patch is silent of
\* goes: it would be inside the target, and so would the node.
LEMMA MergedContainers ==
  ASSUME NEW p \in PlanIRs, NEW a \in PlanIRs, NEW target \in Ids(p) \cup Ids(a), Nested(p)
  PROVE  Orphaned(Merged(p, target, a)) \subseteq Orphaned(p) \cup {a.parent[n] : n \in Ids(a)}
<1> DEFINE b == Completed(p, target, a)
           c == Replacements(p, target, a)
           q == Merged(p, target, a)
           gone == Gone(p, target, a)
<1>1. /\ b \in PlanIRs /\ Ids(b) = Ids(a) \cup {target}
      /\ \A n \in Ids(a) : b.parent[n] = a.parent[n]
      /\ target \notin Ids(a) => b.parent[target] = p.parent[target]
  BY CompletedFacts
<1>2. /\ Ids(c) = Ids(a) \cup {target} /\ Ids(q) = (Ids(p) \ gone) \cup Ids(c)
      /\ \A n \in Ids(p) \ gone : q.parent[n] = p.parent[n]
      /\ \A n \in Ids(c) : q.parent[n] = c.parent[n]
  <2>1. IsMerged(p, target, a, c, q)
    BY MergedMade
  <2> HIDE DEF c, q
  <2>2. QED
    BY <2>1 DEF IsMerged
<1>3. \A n \in Ids(b) : c.parent[n] = b.parent[n] \/ c.parent[n] = target
  <2>1. c = Contained(target, b)
    BY DEF Replacements
  <2> HIDE DEF b, c
  <2>2. QED
    BY <1>1, <2>1, ContainedFacts
<1> HIDE DEF c, b, q
<1>4. \A n \in Ids(p) : p.parent[n] \in Ids(p) => <<p.parent[n], n>> \in Containment(p)
  BY ParentAbove
<1>5. \A m, n : m \in Below(p, target) /\ <<m, n>> \in Containment(p) => n \in Below(p, target)
  <2>1. /\ IsTransitive(Containment(p))
        /\ \A m, n : <<m, n>> \in Containment(p) => n \in Ids(p)
    BY ContainmentFacts
  <2>2. QED
    BY <2>1 DEF Below, IsTransitive
<1>6. target \in Ids(p) => target \notin Below(p, target)
  BY BelowFacts DEF Nested
<1>7. SUFFICES ASSUME NEW n \in Ids(q), q.parent[n] \notin Ids(q) \cup {Nobody}
               PROVE  q.parent[n] \in Orphaned(p) \cup {a.parent[m] : m \in Ids(a)}
  BY DEF Orphaned, q
<1>8. CASE n \in Ids(p) \ gone
  <2>1. q.parent[n] = p.parent[n] /\ n \notin Below(p, target)
    BY <1>2, <1>8 DEF Gone
  <2>2. p.parent[n] \notin Ids(p)
    BY <1>2, <1>4, <1>5, <1>7, <1>8, <2>1 DEF Gone
  <2>3. QED
    BY <1>7, <1>8, <2>1, <2>2 DEF Orphaned
<1>9. CASE n \in Ids(a)
  BY <1>1, <1>2, <1>3, <1>7, <1>9
<1>10. CASE n = target /\ n \notin Ids(a)
  <2>1. q.parent[n] = p.parent[n] /\ n \in Ids(p)
    BY <1>1, <1>2, <1>3, <1>7, <1>10
  <2>2. p.parent[n] \notin Ids(p)
    BY <1>2, <1>4, <1>5, <1>6, <1>7, <1>10, <2>1 DEF Gone
  <2>3. QED
    BY <1>7, <2>1, <2>2 DEF Orphaned
<1>11. QED
  BY <1>2, <1>7, <1>8, <1>9, <1>10

\* A patch that keeps to its target gives the merged plan all its containers.
LEMMA MergedFacts ==
  ASSUME NEW p \in PlanIRs, Rooted(p), NEW target \in Ids(p), NEW a, IsPatch(p, target, a)
  PROVE  Merged(p, target, a) \in PlanIRs /\ Rooted(Merged(p, target, a))
<1> DEFINE c == Replacements(p, target, a)
           K == Ids(p) \ (Below(p, target) \cup {target})
           q == Merged(p, target, a)
<1>1. /\ q \in PlanIRs /\ Ids(q) = (Ids(p) \ Gone(p, target, a)) \cup Ids(c)
      /\ \A n \in Ids(p) \ Gone(p, target, a) : q.parent[n] = p.parent[n]
      /\ \A n \in Ids(c) : q.parent[n] = c.parent[n]
  <2>1. a \in PlanIRs /\ target \in Ids(p) \cup Ids(a)
    BY DEF IsPatch
  <2>2. IsMerged(p, target, a, c, q)
    BY <2>1, MergedMade
  <2> HIDE DEF c, q
  <2>3. QED
    BY <2>2 DEF IsMerged
<1>2. Ids(c) = Ids(a) \cup {target} /\ K \cap Ids(c) = {}
  BY ReplacementFacts DEF Replacements
<1>3. PICK B : /\ IsOrder(B, Ids(c))
               /\ \A n \in Ids(c) : c.parent[n] \in K \cup {Nobody} \/ <<c.parent[n], n>> \in B
  BY ReplacementFacts DEF Replacements
<1> HIDE DEF c, q
<1>4. Ids(p) \ Gone(p, target, a) = K
  BY <1>2 DEF Gone
<1> DEFINE A == Within(Containment(p), K)
<1>5. IsOrder(A, K) /\ \A n \in K : p.parent[n] = Nobody \/ <<p.parent[n], n>> \in A
  BY OutsideFacts
<1> HIDE DEF A
<1>6. /\ \A n \in K : q.parent[n] = Nobody \/ <<q.parent[n], n>> \in A
      /\ \A n \in Ids(c) : q.parent[n] \in K \cup {Nobody} \/ <<q.parent[n], n>> \in B
  BY <1>1, <1>3, <1>4, <1>5
<1>7. Nobody \notin Ids(q) /\ Ids(q) = K \cup Ids(c)
  BY <1>1, <1>4, PlanIsMade, NobodyAssumption
<1> HIDE DEF K
<1>8. Rooted(q)
  BY <1>2, <1>3, <1>5, <1>6, <1>7, Grafted
<1>9. QED
  BY <1>1, <1>8 DEF q

-----------------------------------------------------------------------------
(* The steps of the planner                                                *)

\* A plan before the validator is normalised.
PlanInv ==
  /\ phase = "draft" => round = 0
  /\ phase = "check" => /\ plan \in Tidy /\ InOrder(plan) /\ round \in Nat
                        /\ round = 0 => Orphaned(plan) = {}

LEMMA RefineStep ==
  ASSUME plan \in PlanIRs, Refine
  PROVE  \E a \in PlanIRs : \E target \in Ids(plan) \cup Ids(a) : Revise(target, a)
<1>1. PICK target \in NodeIds, N \in SUBSET NodeIds \ {{}} :
        /\ target \in Ids(plan) \cup N
        /\ \E f \in [N -> NodeIds \cup {Nobody}] :
             \E R \in PatchLinks : \E E \in SUBSET R :
               \E C \in SUBSET N, I \in Inputs(R, N) :
                 Revise(target, Answer(C, N \ C, f, R, E, I))
  BY DEF Refine
<1>2. PICK f \in [N -> NodeIds \cup {Nobody}], R \in PatchLinks :
        \E E \in SUBSET R : \E C \in SUBSET N, I \in Inputs(R, N) :
          Revise(target, Answer(C, N \ C, f, R, E, I))
  BY <1>1
<1>3. PICK E \in SUBSET R, C \in SUBSET N, I \in Inputs(R, N) :
        Revise(target, Answer(C, N \ C, f, R, E, I))
  BY <1>2
<1> DEFINE a == Answer(C, N \ C, f, R, E, I)
<1>4. R \subseteq Pairs /\ E \subseteq Pairs /\ I \subseteq Pairs
  BY DEF PatchLinks, Links, Inputs, Pairs
<1>5. a \in PlanIRs /\ Ids(a) = N
  BY <1>4, AnswerFacts
<1>6. Revise(target, a)
  BY <1>3
<1> HIDE DEF a
<1>7. QED
  BY <1>1, <1>5, <1>6

LEMMA PlanInvInit == Init => PlanInv
BY DEF Init, PlanInv

LEMMA PlanInvStep ==
  ASSUME PlanInv, [Next]_vars
  PROVE  PlanInv'
<1>1. CASE Draft
  <2>1. PICK q \in PlanIRs : Orphaned(q) = {} /\ plan' \in Normalised(q, later)
    BY <1>1, DraftFacts
  <2>2. plan' \in Tidy /\ InOrder(plan') /\ Orphaned(plan') = {}
    BY <2>1, NormalisedFacts
  <2>3. phase' = "check" /\ round' = 0
    BY <1>1 DEF Draft, PlanInv
  <2>4. InOrder(plan)' /\ Orphaned(plan)' = {}
    BY <2>2 DEF InOrder
  <2>5. QED
    BY <2>2, <2>3, <2>4 DEF PlanInv
<1>2. CASE Refine
  <2>1. plan \in PlanIRs /\ phase' = "check" /\ round' \in Nat /\ round' # 0
    BY <1>2 DEF Refine, PlanInv, Tidy
  <2>7. PICK a \in PlanIRs : \E target \in Ids(plan) \cup Ids(a) : Revise(target, a)
    BY <1>2, <2>1, RefineStep
  <2>2. PICK target \in Ids(plan) \cup Ids(a) : Revise(target, a)
    BY <2>7
  <2> DEFINE q == Merged(plan, target, a)
  <2>3. q \in PlanIRs
    BY <2>1, MergedMade DEF IsMerged
  <2>4. plan' \in Normalised(q, later)
    BY <2>2 DEF Revise
  <2> HIDE DEF q
  <2>5. plan' \in Tidy /\ InOrder(plan')
    BY <2>3, <2>4, NormalisedFacts
  <2>6. QED
    BY <2>1, <2>5 DEF PlanInv, InOrder
<1>3. CASE \/ DraftUnreadable \/ AcceptedInVain \/ RefinedInVain \/ Accept
           \/ LegacyPlan \/ LegacyRefused \/ FixedGraph \/ NoFixedGraph
  <2>1. phase' \notin {"check", "draft"}
    BY <1>3 DEF DraftUnreadable, AcceptedInVain, RefinedInVain, GiveUpHierarchy, Accept,
                LegacyPlan, LegacyRefused, FixedGraph, NoFixedGraph
  <2>2. QED
    BY <2>1 DEF PlanInv
<1>4. CASE UNCHANGED vars
  BY <1>4 DEF PlanInv, vars, InOrder
<1>5. QED
  BY <1>1, <1>2, <1>3, <1>4 DEF Next

\* A plan that comes before the validator has no edge between a node and what
\* contains it, no compound with fewer than two children but one a consumer
\* expects, and, before the first revision, all its containers:
\* build_hierarchical_semantic_graph normalises every answer and every merged
\* revision before it validates it, and restores containers in the first answer.
THEOREM ShapeIsRepaired == Spec => []ShapeRepaired
<1>1. PlanInv => ShapeRepaired
  BY DEF PlanInv, InOrder, ShapeRepaired
<1>2. QED
  BY <1>1, PlanInvInit, PlanInvStep, PTL DEF Spec

-----------------------------------------------------------------------------
(* The order the scheduler receives                                        *)

\* The business graph and what is before its compilation.
LEMMA KeptAfter ==
  ASSUME NEW N, NEW D, Keeps(graph', N, D), phase' = "scheduled",
         graph'.from = "hierarchy" => Order(plan)' \subseteq Paths(D) /\ plan'.primitive \subseteq N
  PROVE  OrderKept'
<1>1. Paths(D) \subseteq Paths(graph'.deps)
  BY PathsGrow DEF Keeps
<1>2. QED
  BY <1>1 DEF Keeps, OrderKept

LEMMA AcceptKeepsOrder ==
  ASSUME PlanInv, Accept
  PROVE  OrderKept'
<1> DEFINE N == plan.primitive
           D == LeafEdges(plan)
<1>1. /\ Kinds(plan) /\ WellFormed(plan) /\ Flattens(plan) /\ plan' = plan
      /\ graph' \in Executable(N, D) /\ phase' = "scheduled"
  BY PlanIsMade DEF Accept, PlanInv, Tidy
<1>2. IsFiniteSet(NodeIds) /\ N \subseteq NodeIds /\ IsFiniteSet(N)
  BY <1>1, PlanningAssumption, FS_Subset DEF Kinds
<1>3. D \subseteq N \X N /\ Acyclic(D)
  BY <1>1 DEF LeafEdges, Flattens
<1>4. Order(plan)' \subseteq Paths(D) /\ plan'.primitive \subseteq N
  <2>1. Order(plan) \subseteq Paths(D)
    BY <1>1, <1>2, OrderLifts
  <2>2. Order(plan)' = Order(plan)
    BY <1>1
  <2>3. QED
    BY <1>1, <2>1, <2>2
<1>5. N \cap {Terminal, Evidence, Artifacts, Nobody} = {}
  BY <1>2, PlanningAssumption, NobodyAssumption DEF Own
<1> HIDE DEF N, D
<1>6. CASE later
  <2>1. graph' = [from |-> "hierarchy", nodes |-> N, deps |-> D]
    BY <1>1, <1>6 DEF Executable
  <2>2. graph'.nodes = N /\ graph'.deps = D
    BY <2>1
  <2>3. Keeps(graph', N, D)
    BY <1>3, <1>5, <2>2 DEF Keeps
  <2>4. QED
    BY <1>1, <1>4, <2>3, KeptAfter
<1>7. CASE ~later
  <2>1. PICK code \in N \cup {Nobody}, evidence \in BOOLEAN :
          graph' = Compiled("hierarchy", N, D, code, evidence)
    BY <1>1, <1>7 DEF Executable
  <2>2. Keeps(graph', N, D)
    BY <1>2, <1>3, <1>5, <2>1, CompiledKeeps
  <2>3. QED
    BY <1>1, <1>4, <2>2, KeptAfter
<1>8. QED
  BY <1>6, <1>7

\* A graph that does not come from a hierarchical plan.
LEMMA OtherGraph ==
  ASSUME NEW from, from # "hierarchy", NEW N, IsFiniteSet(N), NEW D, D \subseteq N \X N, Acyclic(D),
         N \cap {Terminal, Evidence, Artifacts, Nobody} = {},
         NEW code \in N \cup {Nobody}, NEW evidence \in BOOLEAN,
         graph' = Compiled(from, N, D, code, evidence), phase' = "scheduled"
  PROVE  OrderKept'
<1>1. Keeps(graph', N, D) /\ graph'.from # "hierarchy"
  BY CompiledKeeps
<1>2. QED
  BY <1>1, KeptAfter

LEMMA LegacyKeepsOrder ==
  ASSUME LegacyPlan
  PROVE  OrderKept'
<1>6. PICK S \in SUBSET Drafted : \E D \in Links(S, MaxLinks), evidence \in BOOLEAN :
        \E code \in S \cup {Nobody} :
          Acyclic(D) /\ graph' = Compiled("legacy", S, D, code, evidence)
  BY DEF LegacyPlan
<1>1. PICK D \in Links(S, MaxLinks), evidence \in BOOLEAN, code \in S \cup {Nobody} :
        Acyclic(D) /\ graph' = Compiled("legacy", S, D, code, evidence)
  BY <1>6
<1>2. D \subseteq S \X S
  BY DEF Links
<1>3. S \subseteq NodeIds /\ IsFiniteSet(S)
  BY PlanningAssumption, FS_Subset
<1>4. S \cap {Terminal, Evidence, Artifacts, Nobody} = {}
  BY <1>3, PlanningAssumption, NobodyAssumption DEF Own
<1>5. QED
  BY <1>1, <1>2, <1>3, <1>4, OtherGraph DEF LegacyPlan

LEMMA FixedKeepsOrder ==
  ASSUME FixedGraph
  PROVE  OrderKept'
<1>1. PICK evidence \in BOOLEAN :
        \/ graph' = Compiled("fixed", {Analysis}, {}, Nobody, evidence)
        \/ \E code \in {Code, Nobody} :
             graph' = Compiled("fixed", {Analysis, Code}, {<<Analysis, Code>>}, code, evidence)
  BY DEF FixedGraph
<1>2. /\ phase' = "scheduled" /\ Analysis # Code
      /\ {Analysis, Code} \cap {Terminal, Evidence, Artifacts, Nobody} = {}
  BY PlanningAssumption DEF FixedGraph, Own
<1>3. CASE graph' = Compiled("fixed", {Analysis}, {}, Nobody, evidence)
  <2> DEFINE N == {Analysis}
             D == {}
  <2>1. IsFiniteSet(N) /\ D \subseteq N \X N
    BY FS_Singleton
  <2>2. Acyclic(D)
    <3>1. IsTransitive(D) /\ (\A e \in D : <<e[1], e[2]>> \in D) /\ \A x : <<x, x>> \notin D
      BY DEF IsTransitive
    <3> HIDE DEF D
    <3>2. QED
      BY <3>1, AcyclicBy
  <2>3. N \cap {Terminal, Evidence, Artifacts, Nobody} = {}
    BY <1>2
  <2>4. graph' = Compiled("fixed", N, D, Nobody, evidence)
    BY <1>3
  <2> HIDE DEF N, D
  <2>5. QED
    BY <1>2, <2>1, <2>2, <2>3, <2>4, OtherGraph
<1>4. CASE \E code \in {Code, Nobody} :
             graph' = Compiled("fixed", {Analysis, Code}, {<<Analysis, Code>>}, code, evidence)
  <2> DEFINE N == {Analysis, Code}
             D == {<<Analysis, Code>>}
  <2>1. IsFiniteSet(N)
    <3>1. IsFiniteSet({Analysis}) /\ IsFiniteSet({Code}) /\ N = {Analysis} \cup {Code}
      BY FS_Singleton
    <3>2. QED
      BY <3>1, FS_Union
  <2>2. Acyclic(D)
    <3>1. IsTransitive(D) /\ (\A e \in D : <<e[1], e[2]>> \in D) /\ \A x : <<x, x>> \notin D
      BY <1>2 DEF IsTransitive
    <3> HIDE DEF D
    <3>2. QED
      BY <3>1, AcyclicBy
  <2>3. N \cap {Terminal, Evidence, Artifacts, Nobody} = {} /\ D \subseteq N \X N
    BY <1>2
  <2>4. PICK code \in N \cup {Nobody} : graph' = Compiled("fixed", N, D, code, evidence)
    BY <1>4
  <2> HIDE DEF N, D
  <2>5. QED
    BY <1>2, <2>1, <2>2, <2>3, <2>4, OtherGraph
<1>5. QED
  BY <1>1, <1>3, <1>4

LEMMA OrderStep ==
  ASSUME PlanInv, OrderKept, [Next]_vars
  PROVE  OrderKept'
<1>1. CASE Accept
  BY <1>1, AcceptKeepsOrder
<1>2. CASE LegacyPlan
  BY <1>2, LegacyKeepsOrder
<1>3. CASE FixedGraph
  BY <1>3, FixedKeepsOrder
<1>4. CASE \/ Draft \/ DraftUnreadable \/ AcceptedInVain \/ Refine \/ RefinedInVain
           \/ LegacyRefused \/ NoFixedGraph
  <2>1. phase' # "scheduled"
    BY <1>4 DEF Draft, DraftUnreadable, AcceptedInVain, Refine, RefinedInVain, GiveUpHierarchy,
                LegacyRefused, NoFixedGraph
  <2>2. QED
    BY <2>1 DEF OrderKept
<1>5. CASE UNCHANGED vars
  BY <1>5 DEF OrderKept, vars
<1>6. QED
  BY <1>1, <1>2, <1>3, <1>4, <1>5 DEF Next

\* The graph recorded for the scheduler has no cycle; it keeps every executable
\* of the hierarchical plan it comes from and all the plan says of their order,
\* through any depth of containers; with the framework's nodes, everything ends
\* in the artifact check and what reads verified code waits for the terminal:
\* flatten_plan_ir_to_semantic_graph and compile_semantic_graph.
THEOREM OrderReachesScheduler == Spec => []OrderKept
<1>1. Init => OrderKept
  BY DEF Init, OrderKept
<1>2. QED
  BY <1>1, PlanInvInit, PlanInvStep, OrderStep, PTL DEF Spec

-----------------------------------------------------------------------------
(* What a revision leaves alone                                            *)

\* What a revision of the target leaves alone.
Outside(p, target) == Ids(p) \ (Below(p, target) \cup {target})

\* Every link of q that normalisation has no reason to remove is in s.
KeepsLinks(q, s) == \A e \in q.edges : e \in Ids(q) \X Ids(q) /\ e \notin Kin(q) => e \in s.edges

\* Without a parent there is nothing above.
LEMMA TopLevel ==
  ASSUME NEW p, Nobody \notin Ids(p), NEW n, p.parent[n] = Nobody
  PROVE  \A a : <<a, n>> \notin Containment(p)
<1> SUFFICES ASSUME NEW a, <<a, n>> \in Containment(p) PROVE FALSE
  OBVIOUS
<1>1. PICK e \in Up(p) : e[2] = n
  BY PathEnds, ContainmentFacts
<1>2. e[1] = Nobody /\ e[1] \in Ids(p)
  BY <1>1, ContainmentFacts
<1>3. QED
  BY <1>2

LEMMA WithoutContainmentKeeps ==
  ASSUME NEW p \in PlanIRs
  PROVE  KeepsLinks(p, WithoutContainment(p))
<1> DEFINE r == WithoutContainment(p)
<1>1. r = Made(p.primitive, p.compound, p.parent, p.deps \ Kin(p), p.inputs \ Kin(p),
               (p.edges \cup p.deps) \ Kin(p))
  BY WithoutContainmentMade
<1>2. r.edges = (p.edges \cup p.deps) \ Kin(p)
  BY <1>1, MadeFields
<1>3. QED
  BY <1>2 DEF KeepsLinks

LEMMA WithoutOldStagesKeeps ==
  ASSUME NEW p \in PlanIRs
  PROVE  KeepsLinks(p, WithoutOldStages(p)) /\ SameShape(p, WithoutOldStages(p))
<1> DEFINE r == WithoutOldStages(p)
<1>1. r = Made(p.primitive, p.compound, p.parent, Within(p.deps, Ids(p)),
               Within(p.inputs, Ids(p)), Within(p.edges, Ids(p)))
  BY WithoutOldStagesMade
<1>2. SameShape(p, r) /\ r.edges = Within(p.edges, Ids(p))
  BY <1>1, MadeFields DEF SameShape
<1>3. QED
  BY <1>2 DEF KeepsLinks, Within

\* What holds of the plan before the collapses, and what every collapse keeps,
\* the plan has before its last link is dropped.
LEMMA NormalisedKeeps ==
  ASSUME NEW q \in PlanIRs, Rooted(q), NEW laterStage, NEW r \in Normalised(q, laterStage),
         NEW G, \A s \in Plain : SameShape(q, s) /\ KeepsLinks(q, s) => s \in G,
         \A s \in G : Collapsing(s) \subseteq G
  PROVE  \E s \in G : r = WithoutContainment(s)
<1> DEFINE w == WithoutContainment(q)
           v == IF laterStage THEN WithoutOldStages(w) ELSE w
<1>1. w \in Plain /\ SameShape(q, w) /\ KeepsLinks(q, w)
  BY WithoutContainmentFacts, WithoutContainmentKeeps DEF Plain
<1>2. w \in PlanIRs
  BY <1>1 DEF Plain, Tidy
<1>3. v \in Plain /\ SameShape(w, v) /\ KeepsLinks(w, v)
  <2>1. CASE laterStage
    <3>1. v = WithoutOldStages(w)
      BY <2>1
    <3> HIDE DEF v, w
    <3>2. QED
      BY <1>1, <1>2, <3>1, WithoutOldStagesFacts, WithoutOldStagesKeeps DEF Plain
  <2>2. CASE ~laterStage
    <3>1. v = w
      BY <2>2
    <3> HIDE DEF v, w
    <3>2. QED
      BY <1>1, <3>1 DEF SameShape, KeepsLinks
  <2>3. QED
    BY <2>1, <2>2
<1>4. r \in Collapsed(v)
  BY DEF Normalised
<1> HIDE DEF v, w
<1>5. Ids(w) = Ids(q) /\ Kin(w) = Kin(q)
  BY <1>1, SameShapeFacts
<1>6. SameShape(q, v) /\ KeepsLinks(q, v)
  BY <1>1, <1>3, <1>5 DEF SameShape, KeepsLinks
<1>7. v \in G
  BY <1>3, <1>6
<1>8. IsFiniteSet(v.compound)
  BY <1>3, PlanIsMade, PlanningAssumption, FS_Subset DEF Plain, Tidy, Kinds
<1>9. QED
  BY <1>4, <1>7, <1>8, CollapsedKeeps

\* Among the nodes that stay, a collapse keeps containment.
LEMMA CollapseKeepsContainment ==
  ASSUME NEW p \in Plain, NEW r \in Plain, NEW c \in Ids(p), Ids(r) = Ids(p) \ {c},
         r.parent = Lifted(p, c)
  PROVE  Within(Containment(p), Ids(r)) \subseteq Containment(r)
<1> DEFINE u == p.parent[c]
           C == Containment(r)
           S == Ids(p)
           T == {e \in S \X S :
                   /\ e[1] # c /\ e[2] # c => <<e[1], e[2]>> \in C
                   /\ e[1] = c /\ e[2] # c => u = Nobody \/ <<u, e[2]>> \in C
                   /\ e[2] = c => e[1] = u \/ <<e[1], u>> \in C}
<1>1. Rooted(p) /\ Nobody \notin S /\ u \in S \cup {Nobody} /\ u # c
  <2>1. Rooted(p) /\ Nobody \notin S
    BY PlanIsMade, NobodyAssumption DEF Plain, Tidy
  <2>2. u \in S \cup {Nobody}
    BY <2>1 DEF Rooted
  <2>3. u # Nobody => u # c
    BY <2>1, ParentFacts
  <2>4. QED
    BY <2>1, <2>2, <2>3
<1>2. /\ IsTransitive(C) /\ (\A x : <<x, x>> \notin C)
      /\ \A x, y : <<x, y>> \in C => x \in S \ {c} /\ y \in S \ {c}
  BY ContainmentFacts, AcyclicFacts DEF Plain, Tidy, Rooted
<1>3. ASSUME NEW n \in S \ {c}
      PROVE  IF p.parent[n] = c THEN u = Nobody \/ <<u, n>> \in C
             ELSE p.parent[n] \in S => <<p.parent[n], n>> \in C
  <2>1. r.parent[n] = IF p.parent[n] = c THEN u ELSE p.parent[n]
    BY DEF Lifted
  <2>2. r.parent[n] \in Ids(r) => <<r.parent[n], n>> \in C
    BY ParentAbove
  <2> HIDE DEF C, u
  <2>3. QED
    BY <1>1, <2>1, <2>2
<1>4. \A x, y : <<x, y>> \in T <=>
        /\ x \in S /\ y \in S
        /\ x # c /\ y # c => <<x, y>> \in C
        /\ x = c /\ y # c => u = Nobody \/ <<u, y>> \in C
        /\ y = c => x = u \/ <<x, u>> \in C
  OBVIOUS
<1>5. \A e \in Up(p) : <<e[1], e[2]>> \in T
  <2> SUFFICES ASSUME NEW e \in Up(p) PROVE <<e[1], e[2]>> \in T
    OBVIOUS
  <2>1. e[1] = p.parent[e[2]] /\ e[1] \in S /\ e[2] \in S
    BY ContainmentFacts
  <2> DEFINE x == e[1]
             y == e[2]
  <2>2. y = c => x = u
    BY <2>1
  <2>3. x = p.parent[y] /\ x \in S /\ y \in S
    BY <2>1
  <2> HIDE DEF T, C, S, x, y
  <2>4. <<x, y>> \in T
    <3> HIDE DEF u
    <3>1. QED
      BY <1>1, <1>3, <1>4, <2>2, <2>3
  <2>5. QED
    BY <2>4 DEF x, y
<1> HIDE DEF T, u, C, S
<1>6. IsTransitive(T)
  <2> SUFFICES ASSUME NEW x, NEW y, NEW z, <<x, y>> \in T, <<y, z>> \in T
               PROVE  <<x, z>> \in T
    BY DEF IsTransitive
  <2>1. CASE y = c
    <3>1. x # c /\ z # c
      BY <1>1, <1>2, <1>4, <2>1
    <3>2. QED
      BY <1>1, <1>2, <1>4, <2>1, <3>1 DEF IsTransitive
  <2>2. CASE y # c /\ z = c
    <3>1. u # Nobody /\ (y = u \/ <<y, u>> \in C)
      BY <1>1, <1>2, <1>4, <2>2
    <3>2. x # c
      BY <1>2, <1>4, <2>2, <3>1 DEF IsTransitive
    <3>3. <<x, y>> \in C
      BY <1>4, <2>2, <3>2
    <3>4. <<x, u>> \in C
      BY <1>2, <3>1, <3>3 DEF IsTransitive
    <3>5. QED
      BY <1>4, <2>2, <3>2, <3>4
  <2>3. CASE y # c /\ z # c
    BY <1>2, <1>4, <2>3 DEF IsTransitive
  <2>4. QED
    BY <2>1, <2>2, <2>3
<1>7. Paths(Up(p)) \subseteq T
  BY <1>5, <1>6, PathsLeast
<1>8. QED
  <2> SUFFICES ASSUME NEW e \in Within(Containment(p), Ids(r)) PROVE e \in Containment(r)
    OBVIOUS
  <2>1. e \in T /\ e \in (S \ {c}) \X (S \ {c})
    BY <1>7, ContainmentFacts DEF Within, S
  <2>2. e = <<e[1], e[2]>> /\ e[1] # c /\ e[2] # c
    BY <2>1
  <2>3. QED
    BY <1>4, <2>1, <2>2 DEF C

\* Nodes with the same parents in two plans have the same containers, and so
\* has one node of each.
LEMMA SamePlace ==
  ASSUME NEW p, NEW r, NEW K, K \subseteq Ids(r), Nobody \notin Ids(p),
         \A n \in K : p.parent[n] = r.parent[n] /\ p.parent[n] \in K \cup {Nobody},
         NEW s, NEW k \in Ids(r), p.parent[s] = r.parent[k], p.parent[s] \in K \cup {Nobody}
  PROVE  \A a : /\ \A n \in K : <<a, n>> \in Containment(p) =>
                                a \in K /\ <<a, n>> \in Containment(r)
                /\ <<a, s>> \in Containment(p) => a \in K /\ <<a, k>> \in Containment(r)
<1> DEFINE S == Ids(p)
           C == Containment(r)
           T == {e \in S \X S : /\ e[2] \in K => e[1] \in K /\ <<e[1], e[2]>> \in C
                                /\ e[2] = s => e[1] \in K /\ <<e[1], k>> \in C}
<1>1. \A x, y : <<x, y>> \in T <=>
        /\ x \in S /\ y \in S
        /\ y \in K => x \in K /\ <<x, y>> \in C
        /\ y = s => x \in K /\ <<x, k>> \in C
  OBVIOUS
<1>2. IsTransitive(C)
  BY ContainmentFacts
<1>3. \A n \in Ids(r) : r.parent[n] \in Ids(r) => <<r.parent[n], n>> \in C
  BY ParentAbove
<1>4. \A e \in Up(p) : <<e[1], e[2]>> \in T
  <2> SUFFICES ASSUME NEW e \in Up(p) PROVE <<e[1], e[2]>> \in T
    OBVIOUS
  <2>1. e[1] = p.parent[e[2]] /\ e[1] \in S /\ e[2] \in S
    BY ContainmentFacts
  <2>2. e[2] \in K => e[1] \in K /\ <<e[1], e[2]>> \in C
    BY <1>3, <2>1
  <2>3. e[2] = s => e[1] \in K /\ <<e[1], k>> \in C
    BY <1>3, <2>1
  <2> HIDE DEF T, C, S
  <2>4. QED
    BY <1>1, <2>1, <2>2, <2>3
<1> HIDE DEF T, C
<1>5. IsTransitive(T)
  BY <1>1, <1>2 DEF IsTransitive
<1>6. Containment(p) \subseteq T
  BY <1>4, <1>5, ContainmentFacts, PathsLeast
<1>7. QED
  BY <1>1, <1>6 DEF C

\* Node k of r stands where the target was in p, with x in it.
Placed(p, target, k, r) ==
  /\ Outside(p, target) \subseteq Ids(r) /\ k \in Ids(r) \ Outside(p, target)
  /\ \A n \in Outside(p, target) : r.parent[n] = p.parent[n]
  /\ r.parent[k] = p.parent[target]

Holds(r, k, x) == x \in r.primitive /\ (k = x \/ <<k, x>> \in Containment(r))

\* Where a node of p is in r.
Image(p, target, k, n) == IF n \in Outside(p, target) THEN n ELSE k

Linked(p, target, k, r) ==
  \A e \in RawEdges(p) :
    e[1] \in Outside(p, target) \/ e[2] \in Outside(p, target) =>
      <<Image(p, target, k, e[1]), Image(p, target, k, e[2])>> \in r.edges

LEMMA OutsideClosed ==
  ASSUME NEW p \in Plain, NEW target \in Ids(p)
  PROVE  LET K == Outside(p, target) IN
         /\ Nobody \notin Ids(p) /\ K \subseteq Ids(p) /\ target \notin K
         /\ p.parent[target] \in K \cup {Nobody}
         /\ \A n \in K : p.parent[n] \in K \cup {Nobody}
         /\ \A n \in Ids(p) \ K : n = target \/ <<target, n>> \in Containment(p)
<1>1. p \in PlanIRs /\ Rooted(p) /\ Nobody \notin Ids(p)
  BY PlanIsMade, NobodyAssumption DEF Plain, Tidy
<1>2. /\ p.parent[target] \in Outside(p, target) \cup {Nobody}
      /\ \A n \in Outside(p, target) :
           p.parent[n] = Nobody \/ <<p.parent[n], n>> \in Within(Containment(p), Outside(p, target))
  BY <1>1, OutsideFacts DEF Outside
<1>3. \A n \in Ids(p) \ Outside(p, target) : n = target \/ <<target, n>> \in Containment(p)
  BY BelowFacts DEF Outside
<1>4. QED
  BY <1>1, <1>2, <1>3 DEF Outside, Within

\* Containment outside the target is as it was, and so it is above it.
LEMMA PlacedFacts ==
  ASSUME NEW p \in Plain, NEW target \in Ids(p), NEW r \in PlanIRs, NEW k, Placed(p, target, k, r)
  PROVE  LET K == Outside(p, target) IN
         \A a : /\ \A n \in K : <<a, n>> \in Containment(p) <=>
                                a \in K /\ <<a, n>> \in Containment(r)
                /\ \A n \in K : <<a, n>> \in Containment(r) => a \in K
                /\ <<a, target>> \in Containment(p) <=> <<a, k>> \in Containment(r)
                /\ <<a, k>> \in Containment(r) => a \in K
<1> DEFINE K == Outside(p, target)
<1>1. /\ Nobody \notin Ids(p) /\ K \subseteq Ids(p)
      /\ p.parent[target] \in K \cup {Nobody} /\ \A n \in K : p.parent[n] \in K \cup {Nobody}
  BY OutsideClosed
<1>2. /\ K \subseteq Ids(r) /\ k \in Ids(r) /\ r.parent[k] = p.parent[target]
      /\ \A n \in K : r.parent[n] = p.parent[n]
  BY DEF Placed
<1>3. Nobody \notin Ids(r)
  BY PlanIsMade, NobodyAssumption
<1> HIDE DEF K
<1>4. \A a : /\ \A n \in K : <<a, n>> \in Containment(p) => a \in K /\ <<a, n>> \in Containment(r)
             /\ <<a, target>> \in Containment(p) => a \in K /\ <<a, k>> \in Containment(r)
  BY <1>1, <1>2, SamePlace
<1>5. \A a : /\ \A n \in K : <<a, n>> \in Containment(r) => a \in K /\ <<a, n>> \in Containment(p)
             /\ <<a, k>> \in Containment(r) => a \in K /\ <<a, target>> \in Containment(p)
  BY <1>1, <1>2, <1>3, SamePlace
<1>6. QED
  BY <1>4, <1>5 DEF K

\* The links are between nodes of which neither contains the other.
LEMMA ImagesNotKin ==
  ASSUME NEW p \in Plain, NEW target \in Ids(p), NEW r \in PlanIRs, NEW k, Placed(p, target, k, r),
         \A e \in RawEdges(p) : e[1] # e[2],
         NEW e \in RawEdges(p), e[1] \in Outside(p, target) \/ e[2] \in Outside(p, target)
  PROVE  LET a == Image(p, target, k, e[1])
             b == Image(p, target, k, e[2])
         IN  a \in Ids(r) /\ b \in Ids(r) /\ a # b /\ <<a, b>> \notin Kin(r)
<1> DEFINE K == Outside(p, target)
           a == Image(p, target, k, e[1])
           b == Image(p, target, k, e[2])
           C == Containment(p)
           Cr == Containment(r)
<1>1. /\ e = <<e[1], e[2]>> /\ e[1] \in Ids(p) /\ e[2] \in Ids(p) /\ e \notin Kin(p)
      /\ e[1] # e[2]
  BY DEF RawEdges, Within
<1>2. <<e[1], e[2]>> \notin C /\ <<e[2], e[1]>> \notin C
  BY <1>1, KinFacts
<1>3. \A n \in Ids(p) \ K : n = target \/ <<target, n>> \in C
  BY OutsideClosed
<1>4. IsTransitive(C)
  BY ContainmentFacts
<1>5. K \subseteq Ids(r) /\ k \in Ids(r) /\ k \notin K
  BY DEF Placed
<1>6. \A x : /\ \A n \in K : <<x, n>> \in C <=> x \in K /\ <<x, n>> \in Cr
             /\ \A n \in K : <<x, n>> \in Cr => x \in K
             /\ <<x, target>> \in C <=> <<x, k>> \in Cr
             /\ <<x, k>> \in Cr => x \in K
  BY PlacedFacts
<1>7. a = (IF e[1] \in K THEN e[1] ELSE k) /\ b = (IF e[2] \in K THEN e[2] ELSE k)
  BY DEF Image
<1>8. a \in Ids(r) /\ b \in Ids(r) /\ a # b
  BY <1>1, <1>5, <1>7
<1>9. \A x, y : <<x, y>> \in Kin(r) <=> <<x, y>> \in Cr \/ <<y, x>> \in Cr
  BY KinFacts
<1>10. e[1] \in K \/ e[2] \in K
  OBVIOUS
<1> HIDE DEF K, C, Cr, a, b
<1>11. <<a, b>> \notin Cr /\ <<b, a>> \notin Cr
  <2>1. CASE e[1] \in K /\ e[2] \in K
    BY <1>2, <1>6, <1>7, <2>1
  <2>2. CASE e[1] \in K /\ e[2] \notin K
    <3>1. a = e[1] /\ b = k /\ (e[2] = target \/ <<target, e[2]>> \in C)
      BY <1>1, <1>3, <1>7, <2>2
    <3>2. <<e[1], target>> \notin C
      BY <1>2, <1>4, <3>1 DEF IsTransitive
    <3>3. QED
      BY <1>5, <1>6, <2>2, <3>1, <3>2
  <2>3. CASE e[1] \notin K /\ e[2] \in K
    <3>1. b = e[2] /\ a = k /\ (e[1] = target \/ <<target, e[1]>> \in C)
      BY <1>1, <1>3, <1>7, <2>3
    <3>2. <<e[2], target>> \notin C
      BY <1>2, <1>4, <3>1 DEF IsTransitive
    <3>3. QED
      BY <1>5, <1>6, <2>3, <3>1, <3>2
  <2>4. QED
    BY <1>10, <2>1, <2>2, <2>3
<1>12. QED
  BY <1>8, <1>9, <1>11 DEF a, b

\* Some node of r, x or a container of x, has the place of the target.
InPlace(p, target, x, r) ==
  \E k \in Ids(r) : Placed(p, target, k, r) /\ Holds(r, k, x) /\ Linked(p, target, k, r)

\* No node waits for itself.
NoLoop(p) == \A e \in RawEdges(p) : e[1] # e[2]

LEMMA TidyingKeepsPlace ==
  ASSUME NEW p \in Plain, NEW target \in Ids(p), NoLoop(p), NEW x,
         NEW r \in PlanIRs, InPlace(p, target, x, r),
         NEW s, SameShape(r, s), KeepsLinks(r, s)
  PROVE  InPlace(p, target, x, s)
<1>1. PICK k \in Ids(r) : Placed(p, target, k, r) /\ Holds(r, k, x) /\ Linked(p, target, k, r)
  BY DEF InPlace
<1>2. Ids(r) = Ids(s) /\ Containment(r) = Containment(s)
  BY SameShapeFacts
<1>3. Placed(p, target, k, s) /\ Holds(s, k, x)
  BY <1>1, <1>2 DEF Placed, Holds, SameShape
<1>4. Linked(p, target, k, s)
  <2> SUFFICES ASSUME NEW e \in RawEdges(p),
                      e[1] \in Outside(p, target) \/ e[2] \in Outside(p, target)
               PROVE  <<Image(p, target, k, e[1]), Image(p, target, k, e[2])>> \in s.edges
    BY DEF Linked
  <2> DEFINE a == Image(p, target, k, e[1])
             b == Image(p, target, k, e[2])
  <2>1. <<a, b>> \in r.edges
    BY <1>1 DEF Linked
  <2>2. a \in Ids(r) /\ b \in Ids(r) /\ <<a, b>> \notin Kin(r)
    BY <1>1, ImagesNotKin DEF NoLoop
  <2> HIDE DEF a, b
  <2>3. <<a, b>> \in s.edges
    BY <2>1, <2>2 DEF KeepsLinks
  <2>4. QED
    BY <2>3 DEF a, b
<1>5. QED
  BY <1>1, <1>2, <1>3, <1>4 DEF InPlace

\* Two different children are enough.
LEMMA TwoChildren ==
  ASSUME NEW p \in PlanIRs, NEW c, NEW m \in Children(p, c), NEW n \in Children(p, c), m # n
  PROVE  c \notin Hollow(p)
BY OnlyChild

\* A compound with two children has two different ones.
LEMMA ChildrenOfFull ==
  ASSUME NEW p \in PlanIRs, NEW c \in p.compound, c \notin Hollow(p)
  PROVE  \E m, n \in Children(p, c) : m # n
<1>1. IsFiniteSet(Children(p, c))
  BY PlanIsMade, PlanningAssumption, FS_Subset DEF Children
<1>2. Cardinality(Children(p, c)) \in Nat /\ ~ (Cardinality(Children(p, c)) < 2)
  BY <1>1, FS_CardinalityType DEF Hollow
<1>3. Children(p, c) # {}
  <2>1. Cardinality({}) = 0
    BY FS_EmptySet
  <2>2. QED
    BY <1>2, <2>1
<1>4. PICK m : m \in Children(p, c)
  BY <1>3
<1>5. Children(p, c) # {m}
  <2>1. Cardinality({m}) = 1
    BY FS_Singleton
  <2>2. QED
    BY <1>2, <2>1
<1>6. QED
  BY <1>4, <1>5

\* Outside the target a compound that was full stays full.
LEMMA FullOutside ==
  ASSUME NEW p \in Plain, NEW target \in Ids(p), NEW r \in Plain, NEW k, Placed(p, target, k, r),
         NEW c \in Outside(p, target), c \notin Hollow(p), c \in p.compound
  PROVE  c \notin Hollow(r)
<1> DEFINE K == Outside(p, target)
           g(n) == IF n \in K THEN n ELSE k
<1>1. p \in PlanIRs /\ r \in PlanIRs /\ Rooted(p) /\ Nobody \notin Ids(p)
  BY PlanIsMade, NobodyAssumption DEF Plain, Tidy
<1>2. PICK m, n \in Children(p, c) : m # n
  BY <1>1, ChildrenOfFull
<1>3. /\ K \subseteq Ids(r) /\ k \in Ids(r) /\ k \notin K /\ r.parent[k] = p.parent[target]
      /\ \A i \in K : r.parent[i] = p.parent[i]
  BY DEF Placed
<1>4. ASSUME NEW i \in Children(p, c), i \notin K PROVE i = target
  <2>1. i \in Ids(p) /\ p.parent[i] = c /\ c \in Ids(p)
    BY <1>4 DEF Children, Outside
  <2>2. i = target \/ <<target, i>> \in Containment(p)
    BY <1>4, <2>1, OutsideClosed
  <2>3. ASSUME <<target, i>> \in Containment(p) PROVE FALSE
    <3>1. PICK e \in Up(p) : e[2] = i /\ (e[1] = target \/ <<target, e[1]>> \in Paths(Up(p)))
      BY <2>3, LastEdge, ContainmentFacts
    <3>2. e[1] = c
      BY <2>1, <3>1, ContainmentFacts
    <3>3. c = target \/ <<target, c>> \in Containment(p)
      BY <3>1, <3>2, ContainmentFacts
    <3>4. QED
      BY <3>3, BelowFacts DEF Outside
  <2>4. QED
    BY <2>2, <2>3
<1>5. ASSUME NEW i \in Children(p, c) PROVE g(i) \in Children(r, c)
  <2>1. CASE i \in K
    BY <1>3, <2>1 DEF Children
  <2>2. CASE i \notin K
    <3>1. i = target /\ p.parent[target] = c
      BY <1>4, <2>2 DEF Children
    <3>2. QED
      BY <1>3, <2>2, <3>1 DEF Children
  <2>3. QED
    BY <2>1, <2>2
<1>6. g(m) # g(n)
  BY <1>2, <1>3, <1>4
<1>7. QED
  BY <1>1, <1>2, <1>5, <1>6, TwoChildren

\* A collapse inside the target leaves a node in its place: the target's last
\* child moves up when it is the target that collapses.
LEMMA CollapseKeepsPlace ==
  ASSUME NEW p \in Plain, NEW target \in Ids(p), NoLoop(p), Hollow(p) \cap Outside(p, target) = {},
         NEW x, NEW r \in Plain, InPlace(p, target, x, r),
         p.primitive \cap Outside(p, target) \subseteq r.primitive,
         NEW s \in Collapsing(r)
  PROVE  InPlace(p, target, x, s)
<1> DEFINE K == Outside(p, target)
<1>1. PICK k \in Ids(r) : Placed(p, target, k, r) /\ Holds(r, k, x) /\ Linked(p, target, k, r)
  BY DEF InPlace
<1>2. PICK c \in Hollow(r) :
        /\ s \in Plain /\ s.primitive = r.primitive /\ s.compound = r.compound \ {c}
        /\ Ids(s) = Ids(r) \ {c} /\ s.parent = Lifted(r, c) /\ Rewired(r, c, s.edges)
  BY CollapseFacts
<1>3. c \in r.compound /\ c \in Ids(r) /\ c \notin r.primitive /\ Nobody \notin Ids(r) /\ Rooted(r)
      /\ Nobody \notin Ids(p)
  BY PlanIsMade, NobodyAssumption DEF Hollow, Ids, Plain, Tidy, Kinds
<1>4. c \notin K
  <2> SUFFICES ASSUME c \in K PROVE FALSE
    OBVIOUS
  <2>1. c \in p.compound
    BY <1>3 DEF Outside, Ids
  <2>2. QED
    BY <1>1, <1>2, <2>1, FullOutside
<1>5. /\ K \subseteq Ids(r) /\ k \in Ids(r) /\ k \notin K /\ r.parent[k] = p.parent[target]
      /\ \A n \in K : r.parent[n] = p.parent[n]
  BY <1>1 DEF Placed
<1>6. /\ p.parent[target] \in K \cup {Nobody} /\ \A n \in K : p.parent[n] \in K \cup {Nobody}
  BY OutsideClosed
<1>7. \A n \in Ids(r) \ {c} :
        s.parent[n] = IF r.parent[n] = c THEN r.parent[c] ELSE r.parent[n]
  BY <1>2 DEF Lifted
<1>8. \A n \in K : s.parent[n] = p.parent[n]
  BY <1>3, <1>4, <1>5, <1>6, <1>7
<1>9. Within(Containment(r), Ids(s)) \subseteq Containment(s)
  BY <1>2, <1>3, CollapseKeepsContainment
<1>10. \A y, z : <<y, z>> \in Containment(r) /\ y # c /\ z # c => <<y, z>> \in Containment(s)
  <2>1. Containment(r) \subseteq Ids(r) \X Ids(r)
    BY ContainmentFacts
  <2>2. \A y, z : <<y, z>> \in Containment(r) /\ y # c /\ z # c =>
                    <<y, z>> \in Within(Containment(r), Ids(s))
    BY <1>2, <2>1 DEF Within
  <2>3. QED
    BY <1>9, <2>2
<1>11. x # c /\ x \in s.primitive
  BY <1>1, <1>2, <1>3 DEF Holds
<1>12. \A e \in RawEdges(p) : e[1] # e[2]
  BY DEF NoLoop
<1>13. r \in PlanIRs
  BY DEF Plain, Tidy
<1>14. CASE c # k
  <2>1. Placed(p, target, k, s)
    BY <1>2, <1>3, <1>4, <1>5, <1>6, <1>7, <1>8, <1>14 DEF Placed
  <2>2. Holds(s, k, x)
    BY <1>1, <1>10, <1>11, <1>14 DEF Holds
  <2>3. Linked(p, target, k, s)
    <3> SUFFICES ASSUME NEW e \in RawEdges(p), e[1] \in K \/ e[2] \in K
                 PROVE  <<Image(p, target, k, e[1]), Image(p, target, k, e[2])>> \in s.edges
      BY DEF Linked
    <3> DEFINE a == Image(p, target, k, e[1])
               b == Image(p, target, k, e[2])
               g == <<a, b>>
    <3>1. g \in r.edges /\ g[1] = a /\ g[2] = b
      BY <1>1 DEF Linked
    <3>2. a # b
      BY <1>1, <1>12, <1>13, ImagesNotKin
    <3>3. a # c /\ b # c
      BY <1>4, <1>14 DEF Image
    <3> HIDE DEF a, b, g, K
    <3>4. g \in s.edges
      BY <1>2, <3>1, <3>2, <3>3 DEF Rewired
    <3>5. QED
      BY <3>4 DEF g, a, b
  <2>4. QED
    BY <1>2, <1>5, <1>14, <2>1, <2>2, <2>3 DEF InPlace
<1>15. CASE c = k
  <2>1. <<c, x>> \in Containment(r)
    BY <1>1, <1>11, <1>15 DEF Holds
  <2>2. PICK j \in Children(r, c) : j = x \/ <<j, x>> \in Containment(r)
    <3> DEFINE S == {y \in Ids(r) : \E j \in Children(r, c) : j = y \/ <<j, y>> \in Containment(r)}
    <3>1. \A e \in Up(r) : e[1] = c => e[2] \in S
      BY ContainmentFacts DEF Children
    <3>2. \A e \in Up(r) : e[1] \in S => e[2] \in S
      <4> SUFFICES ASSUME NEW e \in Up(r), NEW j \in Children(r, c),
                          j = e[1] \/ <<j, e[1]>> \in Containment(r)
                   PROVE  e[2] \in S
        OBVIOUS
      <4>1. <<e[1], e[2]>> \in Containment(r) /\ e[2] \in Ids(r)
        BY EdgeIsPath, ContainmentFacts
      <4>2. <<j, e[2]>> \in Containment(r)
        BY <4>1, ContainmentFacts DEF IsTransitive
      <4>3. QED
        BY <4>1, <4>2
    <3> HIDE DEF S
    <3>3. <<c, x>> \in Paths(Up(r))
      BY <2>1, ContainmentFacts
    <3>4. x \in S
      BY <3>1, <3>2, <3>3, PathInduction
    <3>5. QED
      BY <3>4 DEF S
  <2>3. j \in Ids(r) /\ r.parent[j] = c
    BY DEF Children
  <2>4. j # c
    BY <1>3, <2>3, ParentFacts
  <2>5. j \notin K
    BY <1>3, <1>4, <1>5, <1>6, <2>3
  <2>6. Placed(p, target, j, s)
    BY <1>2, <1>4, <1>5, <1>7, <1>8, <1>15, <2>3, <2>4, <2>5 DEF Placed
  <2>7. Holds(s, j, x)
    BY <1>10, <1>11, <2>2, <2>4 DEF Holds
  <2>8. Linked(p, target, j, s)
    <3> SUFFICES ASSUME NEW e \in RawEdges(p), e[1] \in K \/ e[2] \in K
                 PROVE  <<Image(p, target, j, e[1]), Image(p, target, j, e[2])>> \in s.edges
      BY DEF Linked
    <3> DEFINE a == Image(p, target, k, e[1])
               b == Image(p, target, k, e[2])
               g == <<a, b>>
    <3>1. g \in r.edges /\ g[1] = a /\ g[2] = b
      BY <1>1 DEF Linked
    <3>2. a # b
      BY <1>1, <1>12, <1>13, ImagesNotKin
    <3>3. a = (IF e[1] \in K THEN e[1] ELSE k) /\ b = (IF e[2] \in K THEN e[2] ELSE k)
      BY DEF Image
    <3>4. /\ Image(p, target, j, e[1]) = IF e[1] \in K THEN e[1] ELSE j
          /\ Image(p, target, j, e[2]) = IF e[2] \in K THEN e[2] ELSE j
      BY DEF Image
    <3> HIDE DEF a, b, g, K
    <3>5. CASE e[1] \in K /\ e[2] \in K
      BY <1>2, <1>4, <3>1, <3>2, <3>3, <3>4, <3>5 DEF Rewired, g
    <3>6. CASE e[1] \in K /\ e[2] \notin K
      <4>1. g[2] = c /\ g[1] \notin {c, j} /\ g[1] = e[1]
        BY <1>4, <1>15, <2>5, <3>1, <3>3, <3>6
      <4>2. <<g[1], j>> \in s.edges
        BY <1>2, <3>1, <4>1 DEF Rewired
      <4>3. QED
        BY <3>4, <3>6, <4>1, <4>2
    <3>7. CASE e[1] \notin K /\ e[2] \in K
      <4>1. g[1] = c /\ g[2] \notin {c, j} /\ g[2] = e[2]
        BY <1>4, <1>15, <2>5, <3>1, <3>3, <3>7
      <4>2. <<j, g[2]>> \in s.edges
        BY <1>2, <3>1, <4>1 DEF Rewired
      <4>3. QED
        BY <3>4, <3>7, <4>1, <4>2
    <3>8. QED
      BY <3>5, <3>6, <3>7
  <2>9. j \in Ids(s)
    BY <1>2, <2>3, <2>4
  <2>10. QED
    BY <2>6, <2>7, <2>8, <2>9 DEF InPlace
<1>16. QED
  BY <1>14, <1>15

\* The target comes back under its parent, or on top.
LEMMA TargetMerged ==
  ASSUME NEW p \in PlanIRs, NEW target \in Ids(p), NEW a \in PlanIRs, IsPatch(p, target, a)
  PROVE  LET c == Contained(target, Completed(p, target, a)) IN
         Ids(c) = Ids(a) \cup {target} /\ c.parent[target] \in {Nobody, p.parent[target]}
<1> DEFINE b == Completed(p, target, a)
<1>1. /\ b \in PlanIRs /\ Ids(b) = Ids(a) \cup {target}
      /\ \A n \in Ids(a) : b.parent[n] = a.parent[n]
      /\ target \notin Ids(a) => b.parent[target] = p.parent[target]
  <2>1. target \in Ids(p) \cup Ids(a)
    OBVIOUS
  <2>2. QED
    BY <2>1, CompletedFacts
<1> HIDE DEF b
<1>2. target \in Ids(b)
  BY <1>1
<1>3. Ids(Contained(target, b)) = Ids(b) /\ Contained(target, b).parent[target] = b.parent[target]
  BY <1>1, <1>2, ContainedFacts
<1>4. target \in Ids(a) => a.parent[target] \in {Nobody, p.parent[target]}
  BY DEF IsPatch
<1>5. QED
  BY <1>1, <1>3, <1>4 DEF b

\* What a merged revision is outside the target, and the target's place in it.
LEMMA MergedOutside ==
  ASSUME NEW p \in Plain, NEW target \in Ids(p), NEW a, IsPatch(p, target, a)
  PROVE  LET q == Merged(p, target, a)
             K == Outside(p, target)
         IN  /\ K = Ids(p) \ (Ids(a) \cup Below(p, target) \cup {target})
             /\ K \subseteq Ids(q) /\ target \in Ids(q) \ K
             /\ \A n \in K : q.parent[n] = p.parent[n]
             /\ q.parent[target] \in {Nobody, p.parent[target]}
             /\ q.primitive \cap K = p.primitive \cap K
             /\ Linked(p, target, target, q)
<1> DEFINE c == Contained(target, Completed(p, target, a))
           K == Outside(p, target)
           dead == Below(p, target) \ Ids(c)
           gone == Ids(c) \cup dead
           D1 == {e \in c.deps : e[1] \notin dead}
           outside == NodeIds \ gone
           P == (p.primitive \ gone) \cup c.primitive
           C == (p.compound \ gone) \cup c.compound
           f == [n \in (Ids(p) \ gone) \cup Ids(c) |->
                   IF n \in Ids(c) THEN c.parent[n] ELSE p.parent[n]]
           D == {e \in p.deps : e[2] \notin gone} \cup D1
           I == {e \in p.inputs : e[2] \notin gone} \cup c.inputs
           B == Boundary(p, target, gone)
           E == Within(p.edges \cup p.deps, outside) \cup B \cup a.edges \cup D1
           q == Merged(p, target, a)
<1>1. q = Made(P, C, f, D, I, E)
  BY DEF Merged, Made
<1>2. p \in PlanIRs /\ a \in PlanIRs /\ Rooted(p) /\ Ids(p) \subseteq NodeIds
  BY PlanIsMade DEF Plain, Tidy, IsPatch
<1>3. Ids(c) = Ids(a) \cup {target} /\ c.parent[target] \in {Nobody, p.parent[target]}
  BY <1>2, TargetMerged
<1>4. Ids(a) \subseteq Below(p, target) \cup {target} \cup (NodeIds \ Ids(p))
  BY DEF IsPatch
<1> HIDE DEF c
<1>5. /\ K = Ids(p) \ (Ids(a) \cup Below(p, target) \cup {target})
      /\ K = Ids(p) \ gone /\ K \cap gone = {} /\ Ids(p) \ K \subseteq gone /\ target \in Ids(c)
  BY <1>3, <1>4 DEF Outside
<1>6. P \cup C = K \cup Ids(c)
  BY <1>5 DEF Ids
<1>7. /\ \A n \in K : f[n] = p.parent[n]
      /\ f[target] = c.parent[target]
  BY <1>5
<1>8. P \cap K = p.primitive \cap K
  BY <1>5 DEF Ids
<1>9. \A e \in RawEdges(p) : e[1] \in K \/ e[2] \in K =>
         <<Image(p, target, target, e[1]), Image(p, target, target, e[2])>> \in E
  <2> SUFFICES ASSUME NEW e \in RawEdges(p), e[1] \in K \/ e[2] \in K
               PROVE  <<Image(p, target, target, e[1]), Image(p, target, target, e[2])>> \in E
    OBVIOUS
  <2> DEFINE old == Within(p.edges \cup p.deps, Ids(p))
             M == p.edges \cup p.deps
  <2>1. e \in old /\ e \in M /\ e = <<e[1], e[2]>> /\ e[1] \in Ids(p) /\ e[2] \in Ids(p)
    BY DEF RawEdges, Within
  <2>2. /\ Image(p, target, target, e[1]) = IF e[1] \in K THEN e[1] ELSE target
        /\ Image(p, target, target, e[2]) = IF e[2] \in K THEN e[2] ELSE target
    BY DEF Image
  <2>3. \A g \in old : /\ g[1] \notin gone /\ g[2] \in gone => <<g[1], target>> \in B
                       /\ g[1] \in gone /\ g[2] \notin gone => <<target, g[2]>> \in B
    BY DEF Boundary, Within
  <2>4. Within(M, outside) \subseteq E /\ B \subseteq E
    OBVIOUS
  <2>5. e[1] \in outside /\ e[2] \in outside => e \in Within(M, outside)
    BY <2>1 DEF Within
  <2>6. K \subseteq outside
    BY <1>2, <1>5
  <2> HIDE DEF old, M, E, B, K, gone, outside
  <2>7. CASE e[1] \in K /\ e[2] \in K
    BY <2>1, <2>2, <2>4, <2>5, <2>6, <2>7
  <2>8. CASE e[1] \in K /\ e[2] \notin K
    BY <1>5, <2>1, <2>2, <2>3, <2>4, <2>8
  <2>9. CASE e[1] \notin K /\ e[2] \in K
    BY <1>5, <2>1, <2>2, <2>3, <2>4, <2>9
  <2>10. QED
    BY <2>7, <2>8, <2>9
<1> HIDE DEF P, C, f, D, I, E, q, gone
<1>10. q.primitive = P /\ q.parent = f /\ q.edges = E /\ Ids(q) = K \cup Ids(c)
  BY <1>1, <1>6, MadeFields
<1>11. target \notin K
  BY DEF Outside
<1>12. Linked(p, target, target, q)
  BY <1>9, <1>10 DEF Linked
<1>13. K = Ids(p) \ (Ids(a) \cup Below(p, target) \cup {target})
  BY <1>5
<1>14. K \subseteq Ids(q) /\ target \in Ids(q) \ K
  BY <1>5, <1>10, <1>11
<1>15. /\ \A n \in K : q.parent[n] = p.parent[n]
       /\ q.parent[target] \in {Nobody, p.parent[target]}
       /\ q.primitive \cap K = p.primitive \cap K
  BY <1>3, <1>7, <1>8, <1>10
<1> HIDE DEF K
<1>16. QED
  BY <1>12, <1>13, <1>14, <1>15 DEF q, K

\* What is ordered outside the target is ordered in a plan that has its place.
LEMMA OrderInPlace ==
  ASSUME NEW p \in Plain, NEW target \in Ids(p), NoLoop(p), NEW x,
         NEW r \in PlanIRs, InPlace(p, target, x, r),
         p.primitive \cap Outside(p, target) \subseteq r.primitive
  PROVE  Within(Order(p), Outside(p, target)) \subseteq Order(r)
<1> DEFINE K == Outside(p, target)
           C == Containment(p)
           Cr == Containment(r)
           parts(n) == {n} \cup {m \in Ids(p) : <<n, m>> \in C}
           X == UNION {parts(e[1]) \X parts(e[2]) : e \in RawEdges(p)}
           partsR(n) == {n} \cup {m \in Ids(r) : <<n, m>> \in Cr}
           Y == UNION {partsR(e[1]) \X partsR(e[2]) : e \in RawEdges(r)}
<1>1. Order(p) = Within(Paths(X), p.primitive) /\ Order(r) = Within(Paths(Y), r.primitive)
  BY DEF Order, RawEdges, Kin
<1>2. PICK k \in Ids(r) : Placed(p, target, k, r) /\ Linked(p, target, k, r)
  BY DEF InPlace
<1> DEFINE i(n) == Image(p, target, k, n)
           T == {e \in Ids(p) \X Ids(p) :
                   (e[1] \notin K /\ e[2] \notin K) \/ <<i(e[1]), i(e[2])>> \in Paths(Y)}
<1>3. \A n : i(n) = IF n \in K THEN n ELSE k
  BY DEF Image
<1>4. K \subseteq Ids(r) /\ k \in Ids(r) /\ k \notin K /\ target \notin K
  BY <1>2 DEF Placed, Outside
<1>5. \A y : /\ \A n \in K : <<y, n>> \in C <=> y \in K /\ <<y, n>> \in Cr
             /\ <<y, target>> \in C <=> <<y, k>> \in Cr
             /\ <<y, k>> \in Cr => y \in K
  BY <1>2, PlacedFacts
<1>6. \A n \in Ids(p) \ K : n = target \/ <<target, n>> \in C
  BY OutsideClosed
<1>7. \A e \in RawEdges(p) : e[1] \in Ids(p) /\ e[2] \in Ids(p)
  BY DEF RawEdges, Within
<1>8. \A e \in RawEdges(p) : e[1] \in K \/ e[2] \in K => <<i(e[1]), i(e[2])>> \in RawEdges(r)
  <2> SUFFICES ASSUME NEW e \in RawEdges(p), e[1] \in K \/ e[2] \in K
               PROVE  <<i(e[1]), i(e[2])>> \in RawEdges(r)
    OBVIOUS
  <2>1. <<i(e[1]), i(e[2])>> \in r.edges
    BY <1>2 DEF Linked
  <2>2. i(e[1]) \in Ids(r) /\ i(e[2]) \in Ids(r) /\ <<i(e[1]), i(e[2])>> \notin Kin(r)
    BY <1>2, ImagesNotKin DEF NoLoop
  <2> HIDE DEF i
  <2>3. QED
    BY <2>1, <2>2 DEF RawEdges, Within
\* The parts of a node are, in r, parts of its image.
<1>9. \A n \in Ids(p) : \A m \in parts(n) :
        m \in Ids(p) /\ i(m) \in partsR(i(n)) /\ (m \in K => n \in K)
  <2> SUFFICES ASSUME NEW n \in Ids(p), NEW m \in parts(n)
               PROVE  m \in Ids(p) /\ i(m) \in partsR(i(n)) /\ (m \in K => n \in K)
    OBVIOUS
  <2>1. m \in Ids(p) /\ (m = n \/ <<n, m>> \in C)
    OBVIOUS
  <2>2. IsTransitive(C)
    BY ContainmentFacts
  <2>3. \A y, z : z \in Ids(r) /\ (z = y \/ <<y, z>> \in Cr) => z \in partsR(y)
    OBVIOUS
  <2>4. \A y, z : <<y, z>> \in C => y \in Ids(p)
    BY ContainmentFacts
  <2> HIDE DEF i, parts, partsR, C, Cr, K
  <2>5. CASE m \in K
    <3>1. n \in K /\ i(m) = m /\ i(n) = n /\ (m = n \/ <<n, m>> \in Cr)
      BY <1>3, <1>5, <2>1, <2>5
    <3>2. QED
      BY <1>4, <2>1, <2>3, <2>5, <3>1
  <2>6. CASE m \notin K /\ n \notin K
    BY <1>3, <1>4, <2>1, <2>3, <2>6
  <2>7. CASE m \notin K /\ n \in K
    <3>1. <<n, m>> \in C /\ i(m) = k /\ i(n) = n
      BY <1>3, <2>1, <2>7
    <3>2. <<n, target>> \in C
      <4>1. CASE m = target
        BY <3>1, <4>1
      <4>2. CASE <<target, m>> \in C
        <5>1. n = target \/ <<n, target>> \in C \/ <<target, n>> \in C
          BY <3>1, <4>2, Chain DEF C
        <5>2. <<target, n>> \in C => target \in K
          BY <1>5, <2>7
        <5>3. QED
          BY <1>4, <2>7, <5>1, <5>2
      <4>3. QED
        BY <1>6, <2>1, <2>7, <4>1, <4>2
    <3>3. <<n, k>> \in Cr
      BY <1>5, <3>2
    <3>4. QED
      BY <1>4, <2>1, <2>3, <2>7, <3>1, <3>3
  <2>8. QED
    BY <2>5, <2>6, <2>7
<1>10. \A y, z : <<y, z>> \in T <=>
         /\ y \in Ids(p) /\ z \in Ids(p)
         /\ (y \notin K /\ z \notin K) \/ <<i(y), i(z)>> \in Paths(Y)
  OBVIOUS
<1>11. \A e \in X : <<e[1], e[2]>> \in T
  <2> SUFFICES ASSUME NEW e \in X PROVE <<e[1], e[2]>> \in T
    OBVIOUS
  <2>1. PICK f \in RawEdges(p) : e \in parts(f[1]) \X parts(f[2])
    OBVIOUS
  <2>2. e[1] \in parts(f[1]) /\ e[2] \in parts(f[2]) /\ f[1] \in Ids(p) /\ f[2] \in Ids(p)
    BY <1>7, <2>1
  <2>3. /\ e[1] \in Ids(p) /\ i(e[1]) \in partsR(i(f[1])) /\ (e[1] \in K => f[1] \in K)
        /\ e[2] \in Ids(p) /\ i(e[2]) \in partsR(i(f[2])) /\ (e[2] \in K => f[2] \in K)
    <3> HIDE DEF parts, partsR, i
    <3>1. QED
      BY <1>9, <2>2
  <2>4. CASE f[1] \in K \/ f[2] \in K
    <3> DEFINE g == <<i(f[1]), i(f[2])>>
               h == <<i(e[1]), i(e[2])>>
    <3>1. g \in RawEdges(r) /\ g[1] = i(f[1]) /\ g[2] = i(f[2])
      BY <1>8, <2>4
    <3>2. h \in partsR(g[1]) \X partsR(g[2]) /\ h[1] = i(e[1]) /\ h[2] = i(e[2])
      BY <2>3, <3>1
    <3> HIDE DEF g, h, T, X, parts, partsR, i
    <3>3. h \in Y
      BY <3>1, <3>2
    <3> HIDE DEF Y
    <3>4. <<i(e[1]), i(e[2])>> \in Paths(Y)
      BY <3>2, <3>3, EdgeIsPath
    <3>5. QED
      BY <1>10, <2>3, <3>4
  <2>5. CASE f[1] \notin K /\ f[2] \notin K
    <3> HIDE DEF T, X, Y, i, K
    <3>1. QED
      BY <1>10, <2>3, <2>5
  <2>6. QED
    BY <2>4, <2>5
<1>12. IsTransitive(Paths(Y))
  BY PathsTransitive
<1> HIDE DEF X, Y, T, i
<1>13. IsTransitive(T)
  <2> HIDE DEF K
  <2> SUFFICES ASSUME NEW y, NEW z, NEW w, <<y, z>> \in T, <<z, w>> \in T
               PROVE  <<y, w>> \in T
    BY DEF IsTransitive
  <2>1. CASE y \notin K /\ z \notin K
    <3>1. i(y) = i(z)
      BY <1>3, <2>1
    <3>2. QED
      BY <1>10, <2>1, <3>1
  <2>2. CASE z \notin K /\ w \notin K
    <3>1. i(z) = i(w)
      BY <1>3, <2>2
    <3>2. QED
      BY <1>10, <2>2, <3>1
  <2>3. CASE <<i(y), i(z)>> \in Paths(Y) /\ <<i(z), i(w)>> \in Paths(Y)
    BY <1>10, <1>12, <2>3 DEF IsTransitive
  <2>4. QED
    BY <1>10, <2>1, <2>2, <2>3
<1>14. Paths(X) \subseteq T
  BY <1>11, <1>13, PathsLeast
<1>15. QED
  <2> SUFFICES ASSUME NEW e \in Within(Order(p), K) PROVE e \in Order(r)
    OBVIOUS
  <2>1. /\ e \in Paths(X) /\ e = <<e[1], e[2]>> /\ e[1] \in K /\ e[2] \in K
        /\ e[1] \in p.primitive /\ e[2] \in p.primitive
    BY <1>1 DEF Within
  <2>2. <<i(e[1]), i(e[2])>> \in Paths(Y)
    BY <1>10, <1>14, <2>1
  <2>3. <<e[1], e[2]>> \in Paths(Y)
    BY <1>3, <2>1, <2>2
  <2>4. e[1] \in r.primitive /\ e[2] \in r.primitive
    BY <2>1
  <2>5. <<e[1], e[2]>> \in Within(Paths(Y), r.primitive)
    BY <2>3, <2>4 DEF Within
  <2>6. QED
    BY <1>1, <2>1, <2>5

\* If what is above the target in the plan is above an executable in it once the
\* patch is merged, the target has kept its parent.
LEMMA TargetKeepsParent ==
  ASSUME NEW p \in Plain, NEW target \in Ids(p), NEW a, IsPatch(p, target, a),
         NEW x \in Leaves(Merged(p, target, a), target),
         Above(p, target) \subseteq Above(Merged(p, target, a), x)
  PROVE  Merged(p, target, a).parent[target] = p.parent[target]
<1> DEFINE q == Merged(p, target, a)
           K == Outside(p, target)
           u == p.parent[target]
           C == Containment(q)
<1>1. q \in PlanIRs /\ Rooted(q) /\ Nobody \notin Ids(q)
  <2>1. p \in PlanIRs /\ Rooted(p)
    BY DEF Plain, Tidy
  <2>2. q \in PlanIRs /\ Rooted(q)
    BY <2>1, MergedFacts
  <2> HIDE DEF q
  <2>3. QED
    BY <2>2, PlanIsMade, NobodyAssumption
<1>2. /\ K \subseteq Ids(q) /\ target \in Ids(q) \ K /\ \A n \in K : q.parent[n] = p.parent[n]
      /\ q.parent[target] \in {Nobody, u}
  BY MergedOutside
<1>3. /\ Nobody \notin Ids(p) /\ u \in K \cup {Nobody}
      /\ \A n \in K : p.parent[n] \in K \cup {Nobody}
  BY OutsideClosed
<1>4. x = target \/ <<target, x>> \in C
  BY <1>2, LeafFacts
<1> SUFFICES ASSUME q.parent[target] = Nobody, u # Nobody PROVE FALSE
  BY <1>2
<1>5. <<u, target>> \in Containment(p)
  BY <1>3, ParentAbove DEF Outside
<1>6. <<u, x>> \in C /\ u \in K
  BY <1>3, <1>5 DEF Above, Outside
<1>7. \A c : <<c, target>> \notin C
  <2> HIDE DEF q, u
  <2>1. QED
    BY <1>1, TopLevel
<1>8. <<target, u>> \in C
  <2> HIDE DEF q, u, K
  <2>1. QED
    BY <1>2, <1>4, <1>6, <1>7, Chain
<1>9. \A c : \A n \in K : <<c, n>> \in C => c \in K
  <2>1. \A n \in K : q.parent[n] \in K \cup {Nobody}
    BY <1>2, <1>3
  <2>2. u \in K /\ u \in Ids(q)
    BY <1>2, <1>6
  <2> HIDE DEF q, u, K
  <2>3. QED
    BY <1>1, <1>2, <2>1, <2>2, SamePlace
<1>10. QED
  BY <1>2, <1>6, <1>8, <1>9

\* What a revision that keeps to its target keeps.
LEMMA RevisionKeeps ==
  ASSUME NEW p \in Plain, NEW target \in Ids(p), NEW a, IsPatch(p, target, a),
         NEW laterStage, NEW r \in Normalised(Merged(p, target, a), laterStage)
  PROVE  LET q == Merged(p, target, a)
             kept == Ids(p) \ (Ids(a) \cup Below(p, target) \cup {target})
         IN  /\ p.primitive \cap kept \subseteq r.primitive
             /\ \A x \in Leaves(q, target) :
                  Above(p, target) \subseteq Above(q, x) /\ Hollow(p) \cap kept = {} /\ NoLoop(p)
                  => /\ p.compound \cap kept \subseteq r.compound
                     /\ \A n \in kept : r.parent[n] = p.parent[n]
                     /\ Within(Order(p), p.primitive \cap kept) \subseteq Order(r)
<1> DEFINE q == Merged(p, target, a)
           K == Outside(p, target)
           kept == Ids(p) \ (Ids(a) \cup Below(p, target) \cup {target})
<1>1. q \in PlanIRs /\ Rooted(q)
  BY MergedFacts DEF Plain, Tidy
<1>2. r.primitive = q.primitive
  <2> HIDE DEF q
  <2>1. r \in Normalised(q, laterStage)
    BY DEF q
  <2>2. QED
    BY <1>1, <2>1, NormalisedFacts
<1>3. /\ K = kept /\ K \subseteq Ids(q) /\ target \in Ids(q) \ K
      /\ \A n \in K : q.parent[n] = p.parent[n]
      /\ q.primitive \cap K = p.primitive \cap K
      /\ Linked(p, target, target, q)
  BY MergedOutside
<1> HIDE DEF kept
<1>4. p.primitive \cap K \subseteq r.primitive
  BY <1>2, <1>3
<1>5. ASSUME NEW x \in Leaves(q, target), Above(p, target) \subseteq Above(q, x),
             Hollow(p) \cap K = {}, NoLoop(p)
      PROVE  /\ p.compound \cap K \subseteq r.compound
             /\ \A n \in K : r.parent[n] = p.parent[n]
             /\ Within(Order(p), p.primitive \cap K) \subseteq Order(r)
  <2>1. q.parent[target] = p.parent[target]
    BY <1>5, TargetKeepsParent
  <2>2. InPlace(p, target, x, q)
    <3>1. Placed(p, target, target, q)
      BY <1>3, <2>1 DEF Placed
    <3>2. Holds(q, target, x)
      BY <1>3, LeafFacts DEF Holds
    <3> HIDE DEF q
    <3>3. QED
      BY <1>3, <3>1, <3>2 DEF InPlace
  <2> DEFINE G == {s \in Plain :
                     InPlace(p, target, x, s) /\ p.primitive \cap K \subseteq s.primitive}
  <2>3. \A s \in Plain : SameShape(q, s) /\ KeepsLinks(q, s) => s \in G
    <3> HIDE DEF q
    <3> SUFFICES ASSUME NEW s \in Plain, SameShape(q, s), KeepsLinks(q, s) PROVE s \in G
      OBVIOUS
    <3>1. InPlace(p, target, x, s)
      BY <1>1, <1>5, <2>2, TidyingKeepsPlace
    <3>2. QED
      BY <1>3, <3>1 DEF SameShape
  <2>4. \A s \in G : Collapsing(s) \subseteq G
    <3> SUFFICES ASSUME NEW s \in G, NEW w \in Collapsing(s) PROVE w \in G
      OBVIOUS
    <3>1. w \in Plain /\ w.primitive = s.primitive
      BY CollapseFacts
    <3>2. InPlace(p, target, x, w)
      BY <1>5, CollapseKeepsPlace
    <3>3. QED
      BY <3>1, <3>2
  <2>5. PICK s \in G : r = WithoutContainment(s)
    <3>1. r \in Normalised(q, laterStage)
      OBVIOUS
    <3> HIDE DEF G, q
    <3>2. QED
      BY <1>1, <2>3, <2>4, <3>1, NormalisedKeeps
  <2>6. s \in PlanIRs /\ Rooted(s)
    BY DEF Plain, Tidy
  <2>7. r \in PlanIRs /\ SameShape(s, r) /\ KeepsLinks(s, r)
    BY <2>5, <2>6, WithoutContainmentFacts, WithoutContainmentKeeps DEF Plain, Tidy
  <2>8. InPlace(p, target, x, r)
    <3> HIDE DEF G
    <3>1. InPlace(p, target, x, s)
      BY DEF G
    <3>2. QED
      BY <1>5, <2>6, <2>7, <3>1, TidyingKeepsPlace
  <2>9. K \subseteq Ids(r) /\ \A n \in K : r.parent[n] = p.parent[n]
    BY <2>8 DEF InPlace, Placed
  <2>10. p.compound \cap K \subseteq r.compound
    <3>1. p.primitive \cap p.compound = {}
      BY PlanIsMade DEF Plain, Tidy, Kinds
    <3>2. r.primitive \cap K = p.primitive \cap K
      BY <1>2, <1>3
    <3>3. QED
      BY <2>9, <3>1, <3>2 DEF Ids
  <2>11. Within(Order(p), K) \subseteq Order(r)
    BY <1>4, <1>5, <2>7, <2>8, OrderInPlace
  <2>12. Within(Order(p), p.primitive \cap K) \subseteq Within(Order(p), K)
    BY DEF Within
  <2>13. QED
    BY <2>9, <2>10, <2>11, <2>12
<1>6. QED
  BY <1>3, <1>4, <1>5 DEF kept

\* A patch that keeps to the target, and a plan with all its containers.
LEMMA LocalFacts ==
  ASSUME plan \in Tidy, NEW a \in PlanIRs, NEW target, Local(target, a)
  PROVE  /\ target \in Ids(plan) /\ IsPatch(plan, target, a)
         /\ Nested(plan) /\ Orphaned(plan) = {} => plan \in Plain
<1>1. ASSUME NEW p, Nested(p) PROVE Acyclic(Up(p))
  <2>1. Paths(Up(p)) = Containment(p) /\ \A e \in Containment(p) : e = <<e[1], e[2]>>
    BY ContainmentFacts, PathPairs
  <2>2. \A n : <<n, n>> \notin Containment(p)
    BY <1>1, ContainmentFacts DEF Nested
  <2>3. QED
    BY <2>1, <2>2 DEF Acyclic
<1>2. target \in Ids(plan) /\ Acyclic(Up(a))
  BY <1>1 DEF Local
<1>3. IsPatch(plan, target, a)
  BY <1>2 DEF IsPatch, Local, Region, Places
<1>4. ASSUME Nested(plan), Orphaned(plan) = {} PROVE plan \in Plain
  BY <1>1, <1>4 DEF Plain, Rooted, Orphaned
<1>5. QED
  BY <1>2, <1>3, <1>4

LEMMA RefineKeepsTheRest ==
  ASSUME plan \in Tidy, Refine
  PROVE  KeepsTheRest
<1>1. plan \in PlanIRs
  BY DEF Tidy
<1>2. PICK a \in PlanIRs : \E target \in Ids(plan) \cup Ids(a) : Revise(target, a)
  BY <1>1, RefineStep
<1>3. PICK target \in Ids(plan) \cup Ids(a) : Revise(target, a)
  BY <1>2
<1> DEFINE q == Merged(plan, target, a)
           c == Replacements(plan, target, a)
           kept == Ids(plan) \ (Ids(a) \cup Below(plan, target) \cup {target})
           stays == \E n \in Leaves(q, target) : Above(plan, target) \subseteq Above(q, n)
<1>4. /\ plan' \in Normalised(q, later)
      /\ patched' = [ids   |-> Ids(a) \cup Below(plan, target) \cup {target},
                     named |-> {a.parent[n] : n \in Ids(a)}, local |-> Local(target, a) /\ stays]
  BY <1>3 DEF Revise
<1>5. /\ Ids(plan) \ patched'.ids = kept /\ patched'.named = {a.parent[n] : n \in Ids(a)}
      /\ patched'.local = (Local(target, a) /\ stays)
  BY <1>4
<1>6. IsMerged(plan, target, a, c, q)
  BY <1>1, MergedMade
<1>7. plan'.primitive = q.primitive /\ Orphaned(plan') \subseteq Orphaned(q)
  <2> HIDE DEF q
  <2>1. q \in PlanIRs
    BY <1>6 DEF IsMerged
  <2>2. QED
    BY <1>4, <2>1, NormalisedFacts
<1>8. plan.primitive \cap kept \subseteq plan'.primitive
  <2> HIDE DEF q, c
  <2>1. QED
    BY <1>6, <1>7 DEF IsMerged, Gone
<1>9. Nested(plan) => Orphaned(plan') \subseteq Orphaned(plan) \cup patched'.named
  BY <1>1, <1>5, <1>7, MergedContainers
<1>10. ASSUME patched'.local, Nested(plan), Orphaned(plan) = {}, Hollow(plan) \cap kept = {},
              \A e \in plan.edges \cup plan.deps : e[1] # e[2]
       PROVE  /\ plan.compound \cap kept \subseteq plan'.compound
              /\ \A n \in kept : plan'.parent[n] = plan.parent[n]
              /\ Within(Order(plan), plan.primitive \cap kept) \subseteq Order(plan')
  <2>1. PICK x \in Leaves(q, target) : Above(plan, target) \subseteq Above(q, x)
    BY <1>5, <1>10
  <2>2. target \in Ids(plan) /\ IsPatch(plan, target, a) /\ plan \in Plain
    BY <1>5, <1>10, LocalFacts
  <2>3. NoLoop(plan)
    BY <1>10 DEF NoLoop, RawEdges, Within
  <2>4. QED
    BY <1>4, <1>10, <2>1, <2>2, <2>3, RevisionKeeps
<1> HIDE DEF q, c, kept, stays
<1>11. QED
  BY <1>5, <1>8, <1>9, <1>10 DEF KeepsTheRest

\* Whatever a patch for one node of a plan says, executables it does not answer
\* for stay, and no container goes that the plan had, nodes inside themselves
\* apart.  A patch that keeps to the node it was asked for, and leaves an
\* executable in the node and in the node's containers, disconnects nothing else:
\* the other containers stay with what they contain and the other executables are
\* ordered as they were, whatever chain of compounds the patch makes the
\* normalisation collapse (_merge_patch and _normalize_stage_plan).
THEOREM RevisionStaysLocal == Spec => BoundaryKept
<1>1. PlanInv /\ [Next]_vars => [phase = "check" /\ phase' = "check" => KeepsTheRest]_vars
  <2> SUFFICES ASSUME PlanInv, Next, phase = "check", phase' = "check" PROVE KeepsTheRest
    OBVIOUS
  <2>1. Refine
    BY DEF Next, Draft, DraftUnreadable, AcceptedInVain, RefinedInVain, GiveUpHierarchy, Accept,
           LegacyPlan, LegacyRefused, FixedGraph, NoFixedGraph
  <2>2. QED
    BY <2>1, RefineKeepsTheRest DEF PlanInv
<1>2. QED
  BY <1>1, PlanInvInit, PlanInvStep, PTL DEF Spec, BoundaryKept
=============================================================================
