---------------------------- MODULE MCRepairLoop -----------------------------
(* Instances of RepairLoop for TLC: a producer, its consumer and a verifier. *)
EXTENDS RepairLoop, TLC

CONSTANTS e1, x1, x2, x3

MCNodeIds == {1, 2, 3}

\* 1 feeds 2, which 3 verifies; or 3 verifies both, which stand apart.
Plan(nodes, deps) == [nodes |-> nodes, deps |-> [n \in NodeIds |-> deps[n]]]
Line  == Plan({1, 2, 3}, <<{}, {1}, {2}>>)
Apart == Plan({1, 2, 3}, <<{}, {}, {1, 2}>>)
FirstPlans == {Line}
\* The planner may also give the second node up.
OtherPlans == {Line, Apart, Plan({1, 3}, <<{}, {}, {1}>>)}

OneExecutor == [n \in NodeIds |-> {e1}]
NoRetry == [n \in NodeIds |-> 0]
NoTypes == [i \in {} |-> "node_failure"]
NoDelays == [i \in {} |-> 0]

\* x1: a wrong result of node 2; x2: a validator that does not exist; x3: the
\* verifier contradicts node 1.
Sources == (x1 :> NoNode) @@ (x2 :> NoNode) @@ (x3 :> 3)
TargetsOf == (x1 :> 2) @@ (x2 :> NoNode) @@ (x3 :> 1)
=============================================================================
