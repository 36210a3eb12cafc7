-------------------------- MODULE InjectionMailbox --------------------------
(***************************************************************************)
(* utils/runtime_injection_queue.py: the file through which the dashboard  *)
(* asks a running scheduler for a fault.  Every change of the file is made *)
(* under an exclusive lock, so each operation is one step; reading takes   *)
(* no lock, so what was read may be old when it is used.                   *)
(***************************************************************************)
EXTENDS Naturals, FiniteSets

CONSTANTS
  Requests,     \* identifiers requests are given, in the order of the numbers
  QueueLimit    \* requests that may wait at once

ASSUME MailboxAssumption == Requests \subseteq Nat /\ IsFiniteSet(Requests) /\ QueueLimit \in Nat

VARIABLES
  closed,
  request   \* "unconsumed" is the file's "rejected" with the reason close gives

mailboxVars == <<closed, request>>

MailboxInit == closed = FALSE /\ request = [r \in Requests |-> "none"]

Queued == {r \in Requests : request[r] = "queued"}

Room == ~closed /\ Cardinality(Queued) < QueueLimit

\* enqueue_injection: identifiers are new every time.
EnqueueRequest ==
  /\ Room
  /\ \E r \in Requests :
       /\ request[r] = "none" /\ \A q \in Requests : q < r => request[q] # "none"
       /\ request' = [request EXCEPT ![r] = "queued"]
  /\ UNCHANGED closed

Acknowledge(r, answer) ==
  /\ request' = [request EXCEPT ![r] = answer]
  /\ UNCHANGED closed

CloseMailbox ==
  /\ closed' = TRUE
  /\ request' = [r \in Requests |-> IF request[r] = "queued" THEN "unconsumed" ELSE request[r]]
=============================================================================
