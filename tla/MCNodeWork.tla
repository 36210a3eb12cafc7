----------------------------- MODULE MCNodeWork ------------------------------
(* Instances of NodeWork for TLC.                                           *)
EXTENDS NodeWork

\* The tools' report is short; a code result and a terminal record carry
\* more than sixteen scalars or a long text; the analysis is externalised.
MCBulk == [n \in Nodes |->
             CASE n = "gather" -> "small" [] n = "analysis" -> "large" [] OTHER -> "medium"]
=============================================================================
