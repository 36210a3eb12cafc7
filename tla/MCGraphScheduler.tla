-------------------------- MODULE MCGraphScheduler ---------------------------
(* Instances of GraphScheduler for TLC.                                     *)
EXTENDS GraphScheduler, TLC

CONSTANTS e1, e2, i1, i2

MCNodeIds == {1, 2, 3}

AllPlans == Plans

\* Plans over all three nodes, and those a first planner would write without
\* the third.
FullPlans == {p \in Plans : p.nodes = NodeIds}
Chain == {p \in FullPlans : p.deps = [n \in NodeIds |-> {m \in NodeIds : m = n - 1}]}
SmallPlans == {p \in Plans : p.nodes = {1, 2}}

EveryExecutor == [n \in NodeIds |-> Executors]
\* Node 2 has a candidate its resource requirements refuse.
PartlyAllowed == [n \in NodeIds |-> IF n = 2 THEN Executors \ {e2} ELSE Executors]

\* Node 3 is a code node: the TaskSpec leaves it no scheduler retry.
RetryLimits == [n \in NodeIds |-> IF n = 3 THEN 0 ELSE 1]

NoTypes == [i \in {} |-> "node_failure"]
NoDelays == [i \in {} |-> 0]
AnomalyAndChange == (i1 :> "data_anomaly") @@ (i2 :> "requirement_change")
\* The anomaly is requested from the dashboard, the change is part of the task
\* and waits for a completed node.
ChangeAfterOne == (i1 :> 0) @@ (i2 :> 1)
=============================================================================
