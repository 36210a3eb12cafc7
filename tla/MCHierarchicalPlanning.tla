----------------------- MODULE MCHierarchicalPlanning -----------------------
(* A small instance of HierarchicalPlanning.                               *)
EXTENDS HierarchicalPlanning, TLC

CONSTANTS d1, d2, f1, f2

\* A first answer has ids of its own; the others are those patches bring.
IdSymmetry == Permutations(Drafted) \cup Permutations(NodeIds \ Drafted)

=============================================================================
