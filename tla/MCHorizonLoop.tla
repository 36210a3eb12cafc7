---------------------------- MODULE MCHorizonLoop ----------------------------
(* Instances of HorizonLoop for TLC: three stages at most, or a small graph. *)
EXTENDS HorizonLoop, TLC

MCNodeIds == 1..9
MCGovernanceId == ("artifact_validation" :> 1) @@ ("evidence_verification" :> 2)
                    @@ ("terminal_execution" :> 9)
MCStageOf == <<0, 0, 0, 1, 1, 2, 2, 3, 0>>
MCCost == [r \in Requirements |-> 2]

Contract(parent, deps, blocking, code, outputs) ==
  [items |-> 1..4, parent |-> parent, dependsOn |-> deps, mandatory |-> 1..4,
   blocking |-> blocking, code |-> code, codeOutputs |-> outputs]

\* 1 is the goal, 2 and 3 its parts; 4 is code and asks for the goal.
Goal  == Contract(<<0, 1, 1, 0>>, <<{}, {}, {2}, {1}>>, {2, 3, 4}, {4}, TRUE)
\* The goal is to be accepted itself: it may be planned with one of its parts.
Inner == Contract(<<0, 1, 1, 0>>, <<{}, {}, {1}, {3}>>, 1..4, {}, FALSE)
\* Two code requirements, one after the other.
Twice == Contract(<<0, 0, 0, 0>>, <<{}, {1}, {2}, {3}>>, 1..4, {1, 3}, TRUE)
\* 2 waits for the goal that 3 belongs to, and 3 for 2.
Knot  == Contract(<<0, 0, 1, 0>>, <<{}, {1}, {2}, {}>>, {2, 3, 4}, {}, FALSE)
MCContracts == {Goal, Inner, Twice, Knot}

Plan(nodes, deps) ==
  [nodes |-> nodes, deps |-> [n \in NodeIds |-> IF n \in nodes THEN deps[n] ELSE {}]]
Row   == Plan(1..5, <<{}, {1}, {2}, {3}, {4}>>)
Broad == Plan(1..5, <<{}, {}, {1}, {1, 2}, {3, 4}>>)
MCInitialPlans == {Row, Broad}
\* A new prerequisite in front of what is left; or the rest given up.
MCReplacements == {Plan(1..6, <<{}, {}, {1}, {1, 2, 6}, {3, 4}, {}>>),
                   Plan({1, 3, 5}, <<{}, {}, {1}, {}, {3}>>)}
=============================================================================
