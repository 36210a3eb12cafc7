---------------------------- MODULE NodeMessages -----------------------------
(* What a node is shown of the results it depends on                        *)
(* (communication/context_builder.py).  A result is delivered in full once  *)
(* to each receiver; the same result delivered again, or known to the run   *)
(* and short enough for its preview to be complete, is delivered as a       *)
(* reference.  The builder's memory is of one scheduler: a replay starts    *)
(* with an empty one.  Budgets that cannot be met and references that do    *)
(* not resolve raise, and are an outcome of NodeWork's Begin.               *)
CONSTANT
  Bulk   \* of a node's result: "small" (its preview is complete), "medium",
         \* or "large" (the structured part is written to a file)

VARIABLES
  received,   \* <<receiver, result>>: delivered in full to that receiver
  shared      \* the results the run has seen, each with its first receiver

Builder == <<received, shared>>

EmptyBuilder == received = {} /\ shared = {}

Known(p) == \E s \in shared : s.payload = p

ByReference(target, p) ==
  \/ <<target, p>> \in received
  \/ Bulk[p.from] = "small" /\ Known(p)

\* The envelope: a reference names the message that carried the result.
Shown(target, p) ==
  IF <<target, p>> \in received THEN [form |-> "reference", to |-> target]
  ELSE IF ByReference(target, p)
    THEN [form |-> "reference", to |-> (CHOOSE s \in shared : s.payload = p).to]
    ELSE [form |-> IF Bulk[p.from] = "large" THEN "external" ELSE "inline",
          to |-> target]

Build(target, payloads) ==
  /\ received' = received \cup {<<target, p>> : p \in {q \in payloads : ~ByReference(target, q)}}
  /\ shared' = shared \cup {[payload |-> p, to |-> target] : p \in {q \in payloads : ~Known(q)}}
=============================================================================
