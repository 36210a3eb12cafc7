--------------------------- MODULE MCRunLifecycle ---------------------------
(* Constants of the lifecycle run: two jobs, two handler threads, a graph   *)
(* of two nodes, one request.                                               *)
EXTENDS RunLifecycle, TLC

CONSTANTS h1, h2

=============================================================================
