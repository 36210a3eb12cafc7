------------------------------ MODULE NodeWork -------------------------------
(* The work of the nodes of one compiled code task, executor by executor:   *)
(* tools read the inputs, an agent analyses, the code pipeline generates,   *)
(* runs and repairs a program, the terminal runs it again, the verifier     *)
(* judges the evidence and the artifacts are validated, with the            *)
(* scheduler's retries and the business repair's replays around them.       *)
(* All executors work in one run directory and record into one RunState.    *)
(*                                                                          *)
(* Calls of a model and runs of a program answer or time out; what they     *)
(* answer is open.  Executor choice, replans and injected faults belong to  *)
(* GraphScheduler, who asks for a replay to RepairLoop.                     *)
EXTENDS NodeMessages, Naturals

CONSTANTS
  Programs,              \* what the coder may write
  Outputs,               \* the artifacts the TaskSpec declares
  Inputs,                \* the files the tools are to read
  Wordings,              \* the objections a verifier may word
  MaxRetries,            \* code_policy.max_retries
  MaxTransportAttempts,  \* of one model call (3 in the code)
  HasPlugin,             \* the TaskSpec declares code_fallback_plugin
  MaxRounds,             \* replays asked for by the business repair loop
  Plugin, NoProgram, Tampered, Missing, Broken, NoResult, NoRecord

ASSUME NodeWorkAssumption ==
  /\ MaxRetries \in Nat /\ MaxRounds \in Nat
  /\ MaxTransportAttempts \in Nat \ {0}
  /\ HasPlugin \in BOOLEAN

VARIABLES
  status, retries, result,   \* of every node; a result is the round it is of
  call,       \* the executor call in progress
  program,    \* the content of the code entrypoint
  outputs,    \* the content of the declared artifacts
  executed,   \* RunState: the last entry of execution.history
  quality,    \* RunState: artifact_quality.current
  failure,    \* RunState: the failure record
  issues,     \* RunState: the verifier's blocking issues, by wording
  evidence,   \* what evidence_verification.json says was read
  round       \* replays so far

work  == <<status, retries, result>>
disk  == <<program, outputs>>
state == <<executed, quality, failure>>
gate  == <<issues, evidence>>
vars  == <<work, call, disk, state, gate, round, Builder>>

Nodes == {"gather", "analysis", "code", "terminal", "verify", "validate"}

Upstream ==
  [n \in Nodes |->
     CASE n = "gather"   -> {}
       [] n = "analysis" -> {"gather"}
       [] n = "code"     -> {"analysis"}
       [] n = "terminal" -> {"code"}
       [] n = "verify"   -> {"gather", "analysis", "code", "terminal"}
       [] n = "validate" -> {"verify"}]

RetryLimit == [n \in Nodes |-> IF n \in {"code", "terminal", "validate"} THEN 0 ELSE 1]

Reopened == {"code", "terminal", "verify", "validate"}

NoCall == [node |-> "none", at |-> "none"]

Init ==
  /\ status = [n \in Nodes |-> "pending"]
  /\ retries = [n \in Nodes |-> 0]
  /\ result = [n \in Nodes |-> NoResult]
  /\ call = NoCall
  /\ program = NoProgram
  /\ outputs = [o \in Outputs |-> Missing]
  /\ executed = NoRecord
  /\ quality = NoRecord
  /\ failure = "none"
  /\ issues = [w \in Wordings |-> NoRecord]
  /\ evidence = NoRecord
  /\ round = 0
  /\ EmptyBuilder

-----------------------------------------------------------------------------
(* The scheduler around a call. *)

Ready(n) ==
  /\ status[n] = "pending"
  /\ \A m \in Upstream[n] : status[m] = "completed"

Settled == \A n \in Nodes : status[n] \in {"completed", "failed", "blocked"}

Payload(n) == [from |-> n, of |-> result[n]]

\* Where an executor's work starts.
FirstStep(n) ==
  CASE n \in {"analysis", "verify"} -> "ask"
    [] n = "code" -> IF round > 0 /\ HasPlugin THEN "plugin_first" ELSE "stage_context"
    [] OTHER -> "work"

Begin(n) ==
  /\ call = NoCall /\ Ready(n)
  /\ call' = [node |-> n, at |-> FirstStep(n), sent |-> 1, attempts |-> 0, formats |-> 0,
              touched |-> {}, shown |-> [m \in Upstream[n] |-> Shown(n, Payload(m))]]
  /\ Build(n, {Payload(m) : m \in Upstream[n]})
  /\ UNCHANGED <<work, disk, state, gate, round>>

\* The context exceeds its budget, or a content reference is damaged: a
\* failure of the framework, which is not retried.
ContextRefused(n) ==
  /\ call = NoCall /\ Ready(n) /\ Upstream[n] # {}
  /\ status' = [status EXCEPT ![n] = "failed"]
  /\ UNCHANGED <<retries, result, call, disk, state, gate, round, Builder>>

BlockDependents ==
  /\ call = NoCall
  /\ \E n \in Nodes :
       /\ status[n] = "pending"
       /\ \E m \in Upstream[n] : status[m] \in {"failed", "blocked"}
       /\ status' = [status EXCEPT ![n] = "blocked"]
  /\ UNCHANGED <<retries, result, call, disk, state, gate, round, Builder>>

Complete(n) ==
  /\ status' = [status EXCEPT ![n] = "completed"]
  /\ result' = [result EXCEPT ![n] = round]
  /\ call' = NoCall
  /\ UNCHANGED retries

\* A failure whose retry is not counted (a mistake the properties must see).
RetryUncounted(n) ==
  /\ status' = [status EXCEPT ![n] = IF RetryLimit[n] > 0 THEN "pending" ELSE "failed"]
  /\ call' = NoCall
  /\ UNCHANGED <<retries, result>>

Fail(n) ==
  /\ status' = [status EXCEPT ![n] = IF retries[n] < RetryLimit[n] THEN "pending" ELSE "failed"]
  /\ retries' = [retries EXCEPT ![n] = IF @ < RetryLimit[n] THEN @ + 1 ELSE @]
  /\ call' = NoCall
  /\ UNCHANGED result

\* A context the model cannot take is a recoverable block, not a failure.
Block(n) ==
  /\ status' = [status EXCEPT ![n] = "blocked"]
  /\ call' = NoCall
  /\ UNCHANGED <<retries, result>>

\* A business repair reopens the producer and everything downstream, under a
\* scheduler (and a context builder) of its own.
Reopen ==
  /\ call = NoCall /\ Settled
  /\ status["code"] = "completed"
  /\ round < MaxRounds
  /\ round' = round + 1
  /\ status' = [n \in Nodes |-> IF n \in Reopened THEN "pending" ELSE status[n]]
  /\ result' = [n \in Nodes |-> IF n \in Reopened THEN NoResult ELSE result[n]]
  /\ retries' = [n \in Nodes |-> 0]
  /\ received' = {} /\ shared' = {}
  /\ UNCHANGED <<call, disk, state, gate>>

-----------------------------------------------------------------------------
(* Model calls, tools and analysis. *)

At(n, place) == call.node = n /\ call.at = place

\* A transient failure of the provider is tried again inside the call; the
\* last one is the caller's failure, like any other exception.
TransportRetry ==
  /\ call.at \in {"ask", "attribute"}
  /\ call.sent < MaxTransportAttempts
  /\ call' = [call EXCEPT !.sent = @ + 1]
  /\ UNCHANGED <<work, disk, state, gate, round, Builder>>

\* The tools succeed when every file was read; partial results are kept as
\* evidence of a failed node.
Gather ==
  /\ At("gather", "work")
  /\ \E unread \in SUBSET Inputs :
       IF unread = {} /\ Inputs # {} THEN Complete("gather") ELSE Fail("gather")
  /\ UNCHANGED <<disk, state, gate, round, Builder>>

\* An answer out of format is recovered as text; evidence that was not
\* offered, an empty finding or no answer fails the node.
Analyse ==
  /\ At("analysis", "ask")
  /\ \/ Complete("analysis")
     \/ Fail("analysis")
     \/ Block("analysis")
  /\ UNCHANGED <<disk, state, gate, round, Builder>>

-----------------------------------------------------------------------------
(* The code pipeline. *)

Sound(files) == \A o \in Outputs : files[o] \notin {Missing, Broken}

Quality(files) == [passed |-> Sound(files), files |-> files]

\* A run of a program leaves every artifact alone, writes it or breaks it.
Rewritten(files, p) ==
  {f \in [Outputs -> {Missing, Broken, p} \cup {files[o] : o \in Outputs}] :
     \A o \in Outputs : f[o] \in {files[o], p, Broken}}

\* RunState.record_artifact_quality: a sound verdict clears the failures of
\* the execution stage, an unsound one never hides the failure it follows.
FailureAfter(q, before) ==
  IF q.passed THEN "none"
  ELSE IF before \in {"generation", "execution"} THEN before ELSE "artifacts"

RecordQuality(q) ==
  /\ quality' = q
  /\ failure' = FailureAfter(q, failure)

\* The scheduler takes a completed result only if this call wrote every
\* declared artifact.
Deliver(touched) == IF touched = Outputs THEN Complete("code") ELSE Fail("code")

\* The program on disk, its artifacts and its record after one run.
\* A program that changes its own entrypoint is refused whatever it returned.
Run(p, files, written, ok, tampered) ==
  /\ outputs' = files
  /\ program' = IF tampered THEN Tampered ELSE p
  /\ executed' = [phase |-> "execution", ok |-> ok /\ ~tampered, program |-> p]
  /\ written \in SUBSET Outputs
  /\ \A o \in Outputs : files[o] # outputs[o] => o \in written

GoTo(place) == call' = [call EXCEPT !.at = place, !.sent = 1]

\* A fallback plugin's program is run once; only an exception skips the
\* verdict on the artifacts.
PluginRun(then) ==
  \E files \in Rewritten(outputs, Plugin), written \in SUBSET Outputs,
     ok \in BOOLEAN, tampered \in BOOLEAN :
       /\ Run(Plugin, files, written, ok, tampered)
       /\ RecordQuality(Quality(files))
       /\ IF ok /\ ~tampered /\ Sound(files)
            THEN Deliver(call.touched \cup written)
            ELSE /\ call' = [call EXCEPT !.at = then, !.touched = @ \cup written]
                 /\ UNCHANGED work

\* Replays start with the task's own fallback: a validator refused a
\* program of the model that ran.
RepairByPlugin ==
  /\ At("code", "plugin_first")
  /\ \/ PluginRun("stage_context")
     \/ GoTo("stage_context") /\ UNCHANGED <<work, disk, state>>
  /\ UNCHANGED <<gate, round, Builder>>

ReadStageContext ==
  /\ At("code", "stage_context")
  /\ \/ GoTo("ask") /\ UNCHANGED work
     \/ Block("code")
  /\ UNCHANGED <<disk, state, gate, round, Builder>>

PromptTooLong ==
  /\ At("code", "ask")
  /\ Block("code")
  /\ UNCHANGED <<disk, state, gate, round, Builder>>

FormatRetryDue == call.formats < 1

OutOfAttempts == call.attempts + 1 > MaxRetries

\* A business attempt is spent, and with it its format retry.
Spent(next, written) ==
  call' = [call EXCEPT !.at = IF OutOfAttempts THEN "plugin_last" ELSE next,
                       !.attempts = @ + 1, !.formats = 0, !.sent = 1,
                       !.touched = @ \cup written]

\* No answer, or one that does not parse, compile or keep to the contract:
\* nothing ran.  The first time in an attempt costs only a format retry.
GenerationRejected ==
  /\ At("code", "ask")
  /\ executed' = [phase |-> "generation", ok |-> FALSE, program |-> NoProgram]
  /\ IF FormatRetryDue
       THEN /\ call' = [call EXCEPT !.formats = @ + 1, !.sent = 1]
            /\ UNCHANGED failure
       ELSE /\ Spent("attribute", {})
            /\ failure' = IF OutOfAttempts THEN failure ELSE "generation"
  /\ UNCHANGED <<work, disk, quality, gate, round, Builder>>

ProgramFailed ==
  /\ At("code", "ask")
  /\ \E p \in Programs, tampered \in BOOLEAN, written \in SUBSET Outputs :
       \E files \in Rewritten(outputs, p) :
         /\ Run(p, files, written, FALSE, tampered)
         /\ Spent("attribute", written)
  /\ failure' = IF OutOfAttempts THEN failure ELSE "execution"
  /\ UNCHANGED <<work, quality, gate, round, Builder>>

ProgramRan ==
  /\ At("code", "ask")
  /\ \E p \in Programs, written \in SUBSET Outputs :
       \E files \in Rewritten(outputs, p) :
         /\ Run(p, files, written, TRUE, FALSE)
         /\ RecordQuality(Quality(files))
         /\ IF Sound(files)
              THEN Deliver(call.touched \cup written)
              ELSE Spent("ask", written) /\ UNCHANGED work
  /\ UNCHANGED <<gate, round, Builder>>

\* The error agent may give up; an agent that cannot be asked does not.
Attribute ==
  /\ At("code", "attribute")
  /\ \/ GoTo("ask")
     \/ GoTo("plugin_last")
  /\ UNCHANGED <<work, disk, state, gate, round, Builder>>

LastResort ==
  /\ At("code", "plugin_last")
  /\ \/ HasPlugin /\ PluginRun("give_up")
     \/ Fail("code") /\ UNCHANGED <<disk, state>>
  /\ UNCHANGED <<gate, round, Builder>>

GiveUp ==
  /\ At("code", "give_up")
  /\ Fail("code")
  /\ UNCHANGED <<disk, state, gate, round, Builder>>

-----------------------------------------------------------------------------
(* Terminal, verifier and artifact validation. *)

\* The check compiles the entrypoint and runs it again: it may rewrite what
\* the code node delivered, its own entrypoint too, for nobody compares that
\* one with what it was.
Terminal ==
  /\ At("terminal", "work")
  /\ outputs' \in Rewritten(outputs, program)
  /\ program' \in {program, Tampered}
  /\ Complete("terminal") \/ Fail("terminal")
  /\ UNCHANGED <<state, gate, round, Builder>>

\* What the verifier judges: the results of its dependencies and the files.
Reading == [results |-> [n \in Upstream["verify"] |-> result[n]], files |-> outputs]

\* The structured results it is shown are those of the nodes that executed
\* something; of the others it has the summary.
Fingerprint ==
  [seen |-> [n \in Upstream["verify"] |->
               IF n \in {"code", "terminal"} THEN <<call.shown[n], result[n]>>
               ELSE <<result[n]>>],
   files |-> outputs]

Raised(w) == [open |-> TRUE, mark |-> Fingerprint, read |-> Reading]

Open(w) == issues[w] # NoRecord /\ issues[w].open

\* A pass closes the issues whose fingerprint is another one.
Closable(w) == Open(w) /\ issues[w].mark # Fingerprint

Verify ==
  /\ At("verify", "ask")
  /\ \E found \in SUBSET Wordings :
       /\ issues' = [w \in Wordings |->
                       IF w \in found THEN Raised(w)
                       ELSE IF found = {} /\ Closable(w) THEN [issues[w] EXCEPT !.open = FALSE]
                       ELSE issues[w]]
       /\ IF found = {} THEN Complete("verify") ELSE Fail("verify")
       /\ evidence' = [passed |-> found = {}, read |-> Reading]
  /\ UNCHANGED <<disk, state, round, Builder>>

\* The verifier's model could not be asked: an issue, and no record.
VerifierFails ==
  /\ At("verify", "ask")
  /\ \E w \in Wordings : issues' = [issues EXCEPT ![w] = Raised(w)]
  /\ Fail("verify")
  /\ UNCHANGED <<disk, state, evidence, round, Builder>>

\* A validation that believes the record (a mistake the properties must see).
RecordBelieved ==
  /\ At("validate", "work")
  /\ IF quality.passed THEN Complete("validate") ELSE Fail("validate")
  /\ UNCHANGED <<state, disk, gate, round, Builder>>

Validate ==
  /\ At("validate", "work")
  /\ IF quality = Quality(outputs) THEN UNCHANGED <<quality, failure>>
     ELSE RecordQuality(Quality(outputs))
  /\ IF Sound(outputs) THEN Complete("validate") ELSE Fail("validate")
  /\ UNCHANGED <<executed, disk, gate, round, Builder>>

-----------------------------------------------------------------------------
CodeStep ==
  \/ RepairByPlugin \/ ReadStageContext \/ PromptTooLong
  \/ GenerationRejected \/ ProgramFailed \/ ProgramRan
  \/ Attribute \/ LastResort \/ GiveUp

Work ==
  \/ \E n \in Nodes : Begin(n) \/ ContextRefused(n)
  \/ BlockDependents \/ TransportRetry
  \/ Gather \/ Analyse \/ CodeStep
  \/ Terminal \/ Verify \/ VerifierFails \/ Validate

Next == Work \/ Reopen

Spec == Init /\ [][Next]_vars

\* Model calls and programs run under timeouts, and the scheduler's loop
\* takes a ready node whenever there is one.
FairSpec == Spec /\ WF_vars(Work)

-----------------------------------------------------------------------------
(* A delivery whose artifacts were validated stands on what is there: every *)
(* artifact is sound, the quality on record is theirs, the last execution   *)
(* on record succeeded, no failure of the stage is left on record, and the  *)
(* verifier passed on the same results and files.  Format retries,          *)
(* fallbacks, replays and the terminal's second run all come in between.    *)
(* The program the terminal is handed is the one that execution ran; the    *)
(* one delivered is that one or what its second run made of it.             *)
DeliveryIsEvidenced ==
  /\ status["validate"] = "completed" =>
       /\ Sound(outputs)
       /\ quality = Quality(outputs)
       /\ executed.ok /\ program \in {executed.program, Tampered}
       /\ failure = "none"
       /\ evidence = [passed |-> TRUE, read |-> Reading]
  /\ status["code"] = "completed" /\ status["terminal"] = "pending" =>
       executed.ok /\ executed.program = program

(* Every node is settled in the end: transport retries, format retries,     *)
(* business attempts and scheduler retries are each bounded, and so is      *)
(* their nesting.                                                           *)
WorkEnds == <>[](call = NoCall /\ Settled)

(* "A verifier retry against unchanged inputs must not be allowed to erase  *)
(* an earlier blocker merely because the model changed its wording or       *)
(* verdict" (evidence_verifier.py, _verification_input_fingerprint): an     *)
(* issue is closed only after what the verifier reads has changed.          *)
BlockerOutlivesRewording ==
  [][\A w \in Wordings :
       (Open(w) /\ ~Open(w)') => issues[w].read # Reading]_vars
=============================================================================
