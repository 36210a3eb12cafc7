---------------------------- MODULE DagExecution -----------------------------
(***************************************************************************)
(* What the scheduler promises, without its bookkeeping: nodes of a graph  *)
(* run one at a time, each after its dependencies; finished work is never  *)
(* redone; the graph may be exchanged for another one that keeps what is   *)
(* finished, a bounded number of times and never under a running node; and *)
(* a run declared successful has finished every node.                      *)
(***************************************************************************)
EXTENDS TaskGraph

CONSTANT MaxExchanges    \* a natural number

VARIABLES
  dag,        \* the graph: a plan
  finished,   \* nodes that are done for good
  running,    \* the node at work: {} or a singleton
  exchanges,  \* graphs replaced so far
  verdict     \* "open", or how the run ended

dagVars == <<dag, finished, running, exchanges, verdict>>

DagInit ==
  /\ dag \in Plans
  /\ finished = {} /\ running = {} /\ exchanges = 0 /\ verdict = "open"

Start ==
  /\ running = {} /\ verdict = "open"
  /\ \E n \in dag.nodes \ finished :
       /\ dag.deps[n] \subseteq finished
       /\ running' = {n}
  /\ UNCHANGED <<dag, finished, exchanges, verdict>>

\* The running node is done, or has to be tried again or given up.
Stop ==
  /\ running # {}
  /\ running' = {}
  /\ finished' \in {finished, finished \cup running}
  /\ UNCHANGED <<dag, exchanges, verdict>>

\* An exchange that fails still counts.
Exchange ==
  /\ running = {} /\ verdict = "open"
  /\ exchanges < MaxExchanges
  /\ exchanges' = exchanges + 1
  /\ dag' \in Plans
  /\ finished \subseteq dag'.nodes
  /\ \A n \in finished : dag'.deps[n] = dag.deps[n]
  /\ UNCHANGED <<finished, running, verdict>>

Conclude ==
  /\ running = {} /\ verdict = "open"
  /\ verdict' \in {"success", "incomplete"}
  /\ verdict' = "success" => finished = dag.nodes
  /\ UNCHANGED <<dag, finished, running, exchanges>>

DagNext == Start \/ Stop \/ Exchange \/ Conclude

DagSpec == DagInit /\ [][DagNext]_dagVars

=============================================================================
