--------------------------- MODULE NodeWorkProofs ----------------------------
(***************************************************************************)
(* What a delivery stands on, for every number of artifacts, programs,     *)
(* retries of each kind and replays.                                       *)
(***************************************************************************)
EXTENDS NodeWork, TLAPS

-----------------------------------------------------------------------------
(* Calls                                                                   *)

IsCall(c) ==
  c = [node |-> c.node, at |-> c.at, sent |-> c.sent, attempts |-> c.attempts,
       formats |-> c.formats, touched |-> c.touched, shown |-> c.shown]

LEMMA CallField ==
  ASSUME NEW c, IsCall(c), NEW x
  PROVE  /\ IsCall([c EXCEPT !.at = x]) /\ [c EXCEPT !.at = x].node = c.node
         /\ IsCall([c EXCEPT !.sent = x]) /\ [c EXCEPT !.sent = x].node = c.node
         /\ IsCall([c EXCEPT !.attempts = x]) /\ [c EXCEPT !.attempts = x].node = c.node
         /\ IsCall([c EXCEPT !.formats = x]) /\ [c EXCEPT !.formats = x].node = c.node
         /\ IsCall([c EXCEPT !.touched = x]) /\ [c EXCEPT !.touched = x].node = c.node
BY DEF IsCall

\* The call of a node goes on.
GoesOn(n) == IsCall(call') /\ call'.node = n /\ UNCHANGED work

LEMMA TransportKeeps ==
  ASSUME IsCall(call), TransportRetry PROVE GoesOn(call.node)
<1>1. call' = [call EXCEPT !.sent = call.sent + 1] /\ UNCHANGED work
  BY DEF TransportRetry
<1>2. QED
  BY <1>1, CallField DEF GoesOn

LEMMA GoToKeeps ==
  ASSUME IsCall(call), NEW place, GoTo(place)
  PROVE  IsCall(call') /\ call'.node = call.node
<1> DEFINE a == [call EXCEPT !.at = place]
<1>1. call' = [a EXCEPT !.sent = 1]
  BY DEF GoTo
<1>2. IsCall(a) /\ a.node = call.node
  BY CallField
<1> HIDE DEF a
<1>3. QED
  BY <1>1, <1>2, CallField

LEMMA SpentKeeps ==
  ASSUME IsCall(call), NEW next, NEW written, Spent(next, written)
  PROVE  IsCall(call') /\ call'.node = call.node
<1> DEFINE place == IF OutOfAttempts THEN "plugin_last" ELSE next
           a == [call EXCEPT !.at = place]
           b == [a EXCEPT !.attempts = call.attempts + 1]
           c == [b EXCEPT !.formats = 0]
           d == [c EXCEPT !.sent = 1]
           e == [d EXCEPT !.touched = call.touched \cup written]
<1>1. call' = e
  BY DEF Spent
<1>2. IsCall(a) /\ a.node = call.node
  BY CallField
<1> HIDE DEF a
<1>3. IsCall(b) /\ b.node = a.node
  BY <1>2, CallField
<1> HIDE DEF b
<1>4. IsCall(c) /\ c.node = b.node
  BY <1>3, CallField
<1> HIDE DEF c
<1>5. IsCall(d) /\ d.node = c.node
  BY <1>4, CallField
<1> HIDE DEF d
<1>6. IsCall(e) /\ e.node = d.node
  BY <1>5, CallField
<1> HIDE DEF e
<1>7. QED
  BY <1>1, <1>2, <1>3, <1>4, <1>5, <1>6

-----------------------------------------------------------------------------
(* The invariant                                                           *)

Statuses == {"pending", "completed", "failed", "blocked"}

WorkTypes ==
  /\ status \in [Nodes -> Statuses] /\ retries \in [Nodes -> Nat]
  /\ result \in [Nodes -> Nat \cup {NoResult}] /\ round \in Nat

\* The node at work is pending on completed nodes.
CallInv == call = NoCall \/ (IsCall(call) /\ call.node \in Nodes /\ Ready(call.node))

UpstreamDone ==
  \A n \in Nodes : status[n] = "completed" => \A m \in Upstream[n] : status[m] = "completed"

\* A delivered program is the one on record, and the one on disk until the
\* terminal has run it; and until its artifacts are found broken no failure of
\* the stage is on record.
CodeKept ==
  status["code"] = "completed" =>
    /\ executed.ok /\ program \in {executed.program, Tampered}
    /\ status["terminal"] = "pending" => executed.program = program
    /\ status["validate"] # "failed" => failure = "none"

EvidenceKept ==
  status["verify"] = "completed" => evidence = [passed |-> TRUE, read |-> Reading]

QualityKept ==
  status["validate"] = "completed" => Sound(outputs) /\ quality = Quality(outputs)

DeliveryInv ==
  /\ WorkTypes /\ CallInv /\ UpstreamDone
  /\ CodeKept /\ EvidenceKept /\ QualityKept

LEMMA UpstreamFacts ==
  /\ Upstream["verify"] = {"gather", "analysis", "code", "terminal"}
  /\ Upstream["validate"] = {"verify"} /\ Upstream["terminal"] = {"code"}
  /\ Upstream["code"] = {"analysis"} /\ Upstream["analysis"] = {"gather"}
  /\ Upstream["gather"] = {}
  /\ \A n \in Nodes : Upstream[n] \subseteq Nodes \ {n}
BY DEF Upstream, Nodes

-----------------------------------------------------------------------------
(* What a step of the node at work may do                                  *)

\* The call of node n ends and settles or frees the node.
Ended(n) ==
  /\ call' = NoCall
  /\ \E s \in Statuses : status' = [status EXCEPT ![n] = s]
  /\ result' \in {result, [result EXCEPT ![n] = round]}
  /\ retries' \in [Nodes -> Nat]

\* Who may write what, and what a completed node leaves.
Effect(n) ==
  /\ n \in Nodes /\ Ready(n) /\ UNCHANGED round
  /\ GoesOn(n) \/ Ended(n)
  /\ n # "code" => UNCHANGED executed
  /\ n \notin {"code", "terminal"} => UNCHANGED program
  /\ n = "terminal" => /\ program' \in {program, Tampered}
                       /\ status'["terminal"] = "pending" => UNCHANGED program
  /\ n \notin {"code", "terminal"} => UNCHANGED outputs
  /\ n \notin {"code", "validate"} => UNCHANGED <<quality, failure>>
  /\ n # "verify" => UNCHANGED evidence
  /\ n = "code" /\ status'["code"] = "completed" =>
       executed'.ok /\ executed'.program = program' /\ failure' = "none"
  /\ n = "verify" /\ status'["verify"] = "completed" =>
       evidence' = [passed |-> TRUE, read |-> Reading]
  /\ n = "validate" =>
       \/ /\ status'["validate"] = "completed" /\ Sound(outputs) /\ quality' = Quality(outputs)
          /\ failure' \in {failure, "none"}
       \/ status'["validate"] = "failed"

LEMMA Endings ==
  ASSUME WorkTypes, NEW n \in Nodes, Ready(n)
  PROVE  /\ Complete(n) => Ended(n) /\ status'[n] = "completed"
         /\ Fail(n) => Ended(n) /\ status'[n] \in {"pending", "failed"}
         /\ Block(n) => Ended(n) /\ status'[n] = "blocked"
BY DEF WorkTypes, Complete, Fail, Block, Ended, Statuses

\* A completed node stays so, with its result, while another one works.
LEMMA EffectIsLocal ==
  ASSUME WorkTypes, CallInv, NEW n, Effect(n)
  PROVE  /\ WorkTypes' /\ status[n] = "pending" /\ CallInv'
         /\ \A m \in Nodes \ {n} : status'[m] = status[m] /\ result'[m] = result[m]
<1>1. n \in Nodes /\ status[n] = "pending"
  BY DEF Effect, Ready
<1>2. CASE GoesOn(n)
  <2>1. UNCHANGED <<status, retries, result, round>> /\ IsCall(call') /\ call'.node = n
    BY <1>2 DEF GoesOn, Effect, work
  <2>2. WorkTypes'
    BY <2>1 DEF WorkTypes
  <2>3. Ready(n)'
    BY <2>1 DEF Effect, Ready
  <2>4. QED
    BY <1>1, <2>1, <2>2, <2>3 DEF CallInv, Effect, Ready
<1>3. CASE Ended(n)
  <2>1. WorkTypes'
    BY <1>1, <1>3 DEF Ended, WorkTypes, Effect
  <2>2. \A m \in Nodes \ {n} : status'[m] = status[m] /\ result'[m] = result[m]
    BY <1>1, <1>3 DEF Ended, WorkTypes
  <2>3. QED
    BY <1>1, <1>3, <2>1, <2>2 DEF Ended, CallInv
<1>4. QED
  BY <1>2, <1>3 DEF Effect

LEMMA EffectKeeps ==
  ASSUME DeliveryInv, NEW n, Effect(n)
  PROVE  DeliveryInv'
<1>1. /\ WorkTypes' /\ CallInv' /\ status[n] = "pending" /\ n \in Nodes
      /\ \A m \in Nodes \ {n} : status'[m] = status[m] /\ result'[m] = result[m]
      /\ \A m \in Upstream[n] : status[m] = "completed"
  BY EffectIsLocal DEF DeliveryInv, Effect, Ready
<1>2. UpstreamDone'
  <2> SUFFICES ASSUME NEW k \in Nodes, status'[k] = "completed", NEW m \in Upstream[k]
               PROVE  status'[m] = "completed"
    BY DEF UpstreamDone
  <2>1. m \in Nodes \ {k}
    BY UpstreamFacts
  <2>2. status[m] = "completed"
    BY <1>1 DEF DeliveryInv, UpstreamDone
  <2>3. m # n
    BY <1>1, <2>2
  <2>4. QED
    BY <1>1, <2>1, <2>2, <2>3
<1>3. CodeKept'
  <2> SUFFICES ASSUME status'["code"] = "completed"
               PROVE  /\ executed'.ok /\ program' \in {executed'.program, Tampered}
                      /\ status'["terminal"] = "pending" => executed'.program = program'
                      /\ status'["validate"] # "failed" => failure' = "none"
    BY DEF CodeKept
  <2>1. CASE n = "code"
    BY <2>1 DEF Effect
  <2>2. CASE n # "code"
    <3>1. /\ status["code"] = "completed" /\ UNCHANGED executed
          /\ executed.ok /\ program \in {executed.program, Tampered}
          /\ status["terminal"] = "pending" => executed.program = program
      BY <1>1, <2>2 DEF Effect, DeliveryInv, CodeKept, Nodes
    <3>2. CASE n = "validate"
      BY <1>1, <3>1, <3>2 DEF Effect, DeliveryInv, CodeKept, Nodes
    <3>3. CASE n = "terminal"
      BY <1>1, <3>1, <3>3 DEF Effect, DeliveryInv, CodeKept, Nodes
    <3>4. CASE n \notin {"validate", "terminal"}
      BY <1>1, <2>2, <3>1, <3>4 DEF Effect, DeliveryInv, CodeKept, Nodes
    <3>5. QED
      BY <3>2, <3>3, <3>4
  <2>3. QED
    BY <2>1, <2>2
<1>4. EvidenceKept'
  <2> SUFFICES ASSUME status'["verify"] = "completed"
               PROVE  evidence' = [passed |-> TRUE, read |-> Reading']
    BY DEF EvidenceKept
  <2>1. n \notin Upstream["verify"]
    <3>1. CASE n = "verify"
      BY <3>1, UpstreamFacts
    <3>2. CASE n # "verify"
      BY <1>1, <3>2 DEF DeliveryInv, UpstreamDone, Nodes
    <3>3. QED
      BY <3>1, <3>2
  <2>2. \A m \in Upstream["verify"] : result'[m] = result[m]
    BY <1>1, <2>1, UpstreamFacts DEF Nodes
  <2>3. UNCHANGED outputs
    BY <2>1, UpstreamFacts DEF Effect
  <2>4. Reading' = Reading
    BY <2>2, <2>3 DEF Reading
  <2>5. CASE n = "verify"
    BY <2>4, <2>5 DEF Effect
  <2>6. CASE n # "verify"
    BY <1>1, <2>4, <2>6 DEF Effect, DeliveryInv, EvidenceKept, Nodes
  <2>7. QED
    BY <2>5, <2>6
<1>5. QualityKept'
  <2> SUFFICES ASSUME status'["validate"] = "completed"
               PROVE  Sound(outputs') /\ quality' = Quality(outputs')
    BY DEF QualityKept
  <2>1. CASE n = "validate"
    BY <2>1 DEF Effect
  <2>2. CASE n # "validate"
    <3>1. status["validate"] = "completed" /\ Sound(outputs) /\ quality = Quality(outputs)
      BY <1>1, <2>2 DEF DeliveryInv, QualityKept, Nodes
    <3>2. status["verify"] = "completed"
      BY <3>1, UpstreamFacts DEF DeliveryInv, UpstreamDone, Nodes
    <3>3. status["code"] = "completed" /\ status["terminal"] = "completed"
      BY <3>2, UpstreamFacts DEF DeliveryInv, UpstreamDone, Nodes
    <3>4. n \notin {"code", "terminal"}
      BY <1>1, <3>3
    <3>5. QED
      BY <2>2, <3>1, <3>4 DEF Effect
  <2>3. QED
    BY <2>1, <2>2
<1>6. QED
  BY <1>1, <1>2, <1>3, <1>4, <1>5 DEF DeliveryInv

-----------------------------------------------------------------------------
(* The executors                                                           *)

LEMMA AtFacts ==
  ASSUME DeliveryInv, NEW n \in Nodes, NEW place, At(n, place)
  PROVE  IsCall(call) /\ call.node = n /\ Ready(n) /\ WorkTypes /\ status[n] = "pending"
BY DEF DeliveryInv, CallInv, At, NoCall, Nodes, Ready

\* Nothing but the call and the node's own status moves.
LEMMA PlainEffect ==
  ASSUME NEW n \in {"gather", "analysis"}, Ready(n), UNCHANGED round, GoesOn(n) \/ Ended(n),
         UNCHANGED <<program, outputs, executed, quality, failure, evidence>>
  PROVE  Effect(n)
BY DEF Effect, Nodes

\* A step of the code node that does not complete it.
LEMMA CodeEffect ==
  ASSUME Ready("code"), UNCHANGED <<round, evidence>>, GoesOn("code") \/ Ended("code"),
         status'["code"] # "completed"
  PROVE  Effect("code")
BY DEF Effect, Nodes

LEMMA DeliverEffect ==
  ASSUME WorkTypes, Ready("code"), UNCHANGED <<round, evidence>>, NEW touched, Deliver(touched),
         executed'.ok, executed'.program = program', failure' = "none"
  PROVE  Effect("code")
<1>1. "code" \in Nodes
  BY DEF Nodes
<1>2. Ended("code")
  BY <1>1, Endings DEF Deliver
<1>3. QED
  BY <1>1, <1>2 DEF Effect

LEMMA PluginEffect ==
  ASSUME DeliveryInv, NEW place, At("code", place), NEW then, PluginRun(then),
         UNCHANGED <<round, evidence>>
  PROVE  Effect("code")
<1>1. "code" \in Nodes
  BY DEF Nodes
<1>2. IsCall(call) /\ call.node = "code" /\ Ready("code") /\ WorkTypes /\ status["code"] = "pending"
  BY <1>1, AtFacts
<1>3. PICK files \in Rewritten(outputs, Plugin), written \in SUBSET Outputs,
           ok \in BOOLEAN, tampered \in BOOLEAN :
        /\ Run(Plugin, files, written, ok, tampered)
        /\ RecordQuality(Quality(files))
        /\ IF ok /\ ~tampered /\ Sound(files)
           THEN Deliver(call.touched \cup written)
           ELSE /\ call' = [call EXCEPT !.at = then, !.touched = @ \cup written]
                /\ UNCHANGED work
  BY DEF PluginRun
<1>4. CASE ok /\ ~tampered /\ Sound(files)
  <2>1. /\ executed' = [phase |-> "execution", ok |-> ok /\ ~tampered, program |-> Plugin]
        /\ program' = Plugin
    BY <1>3, <1>4 DEF Run
  <2>2. executed'.ok /\ executed'.program = program'
    BY <1>4, <2>1
  <2>3. failure' = "none"
    BY <1>3, <1>4 DEF RecordQuality, FailureAfter, Quality
  <2>4. Deliver(call.touched \cup written)
    BY <1>3, <1>4
  <2>5. QED
    BY <1>2, <2>2, <2>3, <2>4, DeliverEffect
<1>5. CASE ~(ok /\ ~tampered /\ Sound(files))
  <2> DEFINE a == [call EXCEPT !.at = then]
  <2>1. call' = [a EXCEPT !.touched = call.touched \cup written] /\ UNCHANGED work
    BY <1>3, <1>5
  <2>2. IsCall(a) /\ a.node = call.node
    BY <1>2, CallField
  <2> HIDE DEF a
  <2>3. GoesOn("code")
    BY <1>2, <2>1, <2>2, CallField DEF GoesOn
  <2>4. status'["code"] # "completed"
    BY <1>2, <2>1 DEF work
  <2>5. QED
    BY <1>2, <2>3, <2>4, CodeEffect
<1>6. QED
  BY <1>4, <1>5

LEMMA RanEffect ==
  ASSUME DeliveryInv, ProgramRan
  PROVE  Effect("code")
<1>1. "code" \in Nodes /\ At("code", "ask") /\ UNCHANGED <<round, evidence>>
  BY DEF Nodes, ProgramRan, gate
<1>2. IsCall(call) /\ call.node = "code" /\ Ready("code") /\ WorkTypes /\ status["code"] = "pending"
  BY <1>1, AtFacts
<1>3. PICK p \in Programs, written \in SUBSET Outputs : \E files \in Rewritten(outputs, p) :
        /\ Run(p, files, written, TRUE, FALSE)
        /\ RecordQuality(Quality(files))
        /\ IF Sound(files) THEN Deliver(call.touched \cup written)
           ELSE Spent("ask", written) /\ UNCHANGED work
  BY DEF ProgramRan
<1>4. PICK files \in Rewritten(outputs, p) :
        /\ Run(p, files, written, TRUE, FALSE)
        /\ RecordQuality(Quality(files))
        /\ IF Sound(files) THEN Deliver(call.touched \cup written)
           ELSE Spent("ask", written) /\ UNCHANGED work
  BY <1>3
<1>5. CASE Sound(files)
  <2>1. executed' = [phase |-> "execution", ok |-> TRUE, program |-> p] /\ program' = p
    BY <1>4 DEF Run
  <2>2. executed'.ok /\ executed'.program = program'
    BY <2>1
  <2>3. failure' = "none"
    BY <1>4, <1>5 DEF RecordQuality, FailureAfter, Quality
  <2>4. QED
    BY <1>1, <1>2, <1>4, <1>5, <2>2, <2>3, DeliverEffect
<1>6. CASE ~Sound(files)
  <2>1. GoesOn("code")
    BY <1>2, <1>4, <1>6, SpentKeeps DEF GoesOn
  <2>2. status'["code"] # "completed"
    BY <1>2, <1>4, <1>6 DEF work
  <2>3. QED
    BY <1>1, <1>2, <2>1, <2>2, CodeEffect
<1>7. QED
  BY <1>5, <1>6

LEMMA CodeStepEffect ==
  ASSUME DeliveryInv, CodeStep
  PROVE  Effect("code")
<1>1. "code" \in Nodes /\ \E place : At("code", place)
  BY DEF Nodes, CodeStep, RepairByPlugin, ReadStageContext, PromptTooLong, GenerationRejected,
    ProgramFailed, ProgramRan, Attribute, LastResort, GiveUp
<1>2. IsCall(call) /\ call.node = "code" /\ Ready("code") /\ WorkTypes /\ status["code"] = "pending"
  BY <1>1, AtFacts
<1>3. UNCHANGED <<round, evidence>>
  BY DEF CodeStep, RepairByPlugin, ReadStageContext, PromptTooLong, GenerationRejected,
    ProgramFailed, ProgramRan, Attribute, LastResort, GiveUp, gate
<1>4. CASE Fail("code") \/ Block("code")
  BY <1>1, <1>2, <1>3, <1>4, Endings, CodeEffect
<1>5. CASE \E place : GoTo(place) /\ UNCHANGED work
  <2>1. GoesOn("code") /\ status'["code"] # "completed"
    BY <1>2, <1>5, GoToKeeps DEF GoesOn, work
  <2>2. QED
    BY <1>2, <1>3, <2>1, CodeEffect
<1>6. CASE \E next, written : Spent(next, written) /\ UNCHANGED work
  <2>1. GoesOn("code") /\ status'["code"] # "completed"
    BY <1>2, <1>6, SpentKeeps DEF GoesOn, work
  <2>2. QED
    BY <1>2, <1>3, <2>1, CodeEffect
<1>7. CASE RepairByPlugin \/ LastResort
  BY <1>1, <1>3, <1>4, <1>5, <1>7, PluginEffect DEF RepairByPlugin, LastResort
<1>8. CASE GenerationRejected
  <2>1. CASE FormatRetryDue
    <3> DEFINE a == [call EXCEPT !.formats = call.formats + 1]
    <3>1. call' = [a EXCEPT !.sent = 1] /\ UNCHANGED work
      BY <1>8, <2>1 DEF GenerationRejected
    <3>2. IsCall(a) /\ a.node = call.node
      BY <1>2, CallField
    <3> HIDE DEF a
    <3>3. GoesOn("code") /\ status'["code"] # "completed"
      BY <1>2, <3>1, <3>2, CallField DEF GoesOn, work
    <3>4. QED
      BY <1>2, <1>3, <3>3, CodeEffect
  <2>2. CASE ~FormatRetryDue
    BY <1>6, <1>8, <2>2 DEF GenerationRejected
  <2>3. QED
    BY <2>1, <2>2
<1>9. CASE ProgramFailed
  BY <1>6, <1>9 DEF ProgramFailed
<1>10. CASE ReadStageContext \/ PromptTooLong \/ Attribute \/ GiveUp
  BY <1>4, <1>5, <1>10 DEF ReadStageContext, PromptTooLong, Attribute, GiveUp
<1>11. QED
  BY <1>7, <1>8, <1>9, <1>10, RanEffect DEF CodeStep

LEMMA OthersEffect ==
  ASSUME DeliveryInv, Gather \/ Analyse \/ Terminal \/ Verify \/ VerifierFails \/ Validate
  PROVE  \E n \in Nodes : Effect(n)
<1>1. CASE Gather
  <2>1. "gather" \in Nodes /\ Ready("gather") /\ WorkTypes
    BY <1>1, AtFacts DEF Gather, Nodes
  <2>2. Complete("gather") \/ Fail("gather")
    BY <1>1 DEF Gather
  <2>3. Ended("gather")
    BY <2>1, <2>2, Endings
  <2>4. QED
    BY <1>1, <2>1, <2>3, PlainEffect DEF Gather, disk, state, gate
<1>2. CASE Analyse
  <2>1. "analysis" \in Nodes /\ Ready("analysis") /\ WorkTypes
    BY <1>2, AtFacts DEF Analyse, Nodes
  <2>2. Ended("analysis")
    BY <1>2, <2>1, Endings DEF Analyse
  <2>3. QED
    BY <1>2, <2>1, <2>2, PlainEffect DEF Analyse, disk, state, gate
<1>3. CASE Terminal
  <2>1. "terminal" \in Nodes /\ Ready("terminal") /\ WorkTypes
    BY <1>3, AtFacts DEF Terminal, Nodes
  <2>2. Ended("terminal")
    BY <1>3, <2>1, Endings DEF Terminal
  <2>3. status'["terminal"] # "pending"
    <3>1. retries["terminal"] \in Nat /\ RetryLimit["terminal"] = 0
      BY <2>1 DEF WorkTypes, RetryLimit, Nodes
    <3>2. QED
      BY <1>3, <2>1, <3>1 DEF Terminal, Complete, Fail, WorkTypes
  <2>4. program' \in {program, Tampered} /\ UNCHANGED <<round, executed, quality, failure, evidence>>
    BY <1>3 DEF Terminal, state, gate
  <2>5. QED
    BY <2>1, <2>2, <2>3, <2>4 DEF Effect
<1>4. CASE Verify \/ VerifierFails
  <2>1. "verify" \in Nodes /\ Ready("verify") /\ WorkTypes
    BY <1>4, AtFacts DEF Verify, VerifierFails, Nodes
  <2>2. /\ UNCHANGED <<program, outputs, executed, quality, failure, round>>
        /\ \/ Complete("verify") /\ evidence' = [passed |-> TRUE, read |-> Reading]
           \/ Fail("verify")
    <3>1. CASE VerifierFails
      BY <3>1 DEF VerifierFails, disk, state
    <3>2. CASE Verify
      <4>1. PICK found \in SUBSET Wordings :
              /\ IF found = {} THEN Complete("verify") ELSE Fail("verify")
              /\ evidence' = [passed |-> found = {}, read |-> Reading]
        BY <3>2 DEF Verify
      <4>2. found = {} => evidence' = [passed |-> TRUE, read |-> Reading]
        BY <4>1
      <4>3. QED
        BY <3>2, <4>1, <4>2 DEF Verify, disk, state
    <3>3. QED
      BY <1>4, <3>1, <3>2
  <2>3. /\ Ended("verify")
        /\ status'["verify"] = "completed" => evidence' = [passed |-> TRUE, read |-> Reading]
    BY <2>1, <2>2, Endings
  <2>4. QED
    BY <2>1, <2>2, <2>3 DEF Effect
<1>5. CASE Validate
  <2>1. "validate" \in Nodes /\ Ready("validate") /\ WorkTypes
    BY <1>5, AtFacts DEF Validate, Nodes
  <2>2. UNCHANGED <<program, outputs, executed, evidence, round>>
    BY <1>5 DEF Validate, disk, gate
  <2>3. quality' = Quality(outputs)
    BY <1>5 DEF Validate, RecordQuality
  <2>4. Sound(outputs) => failure' \in {failure, "none"}
    BY <1>5 DEF Validate, RecordQuality, FailureAfter, Quality
  <2>5. CASE Sound(outputs)
    <3>1. Ended("validate") /\ status'["validate"] = "completed"
      BY <1>5, <2>1, <2>5, Endings DEF Validate
    <3>2. QED
      BY <2>1, <2>2, <2>3, <2>4, <2>5, <3>1 DEF Effect
  <2>6. CASE ~Sound(outputs)
    <3>1. Fail("validate")
      BY <1>5, <2>6 DEF Validate
    <3>2. Ended("validate")
      BY <2>1, <3>1, Endings
    <3>3. retries["validate"] \in Nat /\ RetryLimit["validate"] = 0
      BY <2>1 DEF WorkTypes, RetryLimit, Nodes
    <3>4. status'["validate"] = "failed"
      BY <2>1, <3>1, <3>3 DEF Fail, WorkTypes
    <3>5. QED
      BY <2>1, <2>2, <3>2, <3>4 DEF Effect
  <2>7. QED
    BY <2>5, <2>6
<1>6. QED
  BY <1>1, <1>2, <1>3, <1>4, <1>5

-----------------------------------------------------------------------------
(* Between calls                                                           *)

\* A node that never starts fails or is blocked.
LEMMA UnstartedKeeps ==
  ASSUME DeliveryInv, call = NoCall, UNCHANGED <<retries, result, call, disk, state, gate, round>>,
         NEW n \in Nodes, status[n] = "pending",
         NEW s \in {"failed", "blocked"}, status' = [status EXCEPT ![n] = s]
  PROVE  DeliveryInv'
<1>1. status'[n] = s /\ \A m \in Nodes \ {n} : status'[m] = status[m]
  BY DEF DeliveryInv, WorkTypes
<1>2. \A m \in Nodes : status'[m] = "completed" <=> status[m] = "completed"
  BY <1>1
<1>3. WorkTypes' /\ CallInv'
  BY DEF DeliveryInv, WorkTypes, CallInv, Statuses
<1>4. UpstreamDone'
  BY <1>2, UpstreamFacts DEF DeliveryInv, UpstreamDone
<1>5. status'["validate"] # "failed" => status["validate"] # "failed"
  BY <1>1 DEF Nodes
<1>6. CodeKept' /\ EvidenceKept' /\ QualityKept'
  BY <1>2, <1>5
    DEF DeliveryInv, CodeKept, EvidenceKept, QualityKept, Reading, disk, state, gate, Nodes
<1>7. QED
  BY <1>3, <1>4, <1>6 DEF DeliveryInv

LEMMA BetweenCallsKeeps ==
  ASSUME DeliveryInv,
         (\E n \in Nodes : Begin(n) \/ ContextRefused(n)) \/ BlockDependents \/ Reopen
  PROVE  DeliveryInv'
<1>1. ASSUME NEW n \in Nodes, Begin(n) PROVE DeliveryInv'
  <2>1. IsCall(call') /\ call'.node = n
    BY <1>1 DEF Begin, IsCall
  <2>2. UNCHANGED <<work, disk, state, gate, round>> /\ Ready(n)
    BY <1>1 DEF Begin
  <2>3. Ready(n)'
    BY <2>2 DEF Ready, work
  <2>4. QED
    BY <2>1, <2>2, <2>3
      DEF DeliveryInv, WorkTypes, CallInv, UpstreamDone, CodeKept, EvidenceKept, QualityKept, Reading,
          work, disk, state, gate
<1>2. ASSUME NEW n \in Nodes, ContextRefused(n) PROVE DeliveryInv'
  BY <1>2, UnstartedKeeps DEF ContextRefused, Ready
<1>3. CASE BlockDependents
  BY <1>3, UnstartedKeeps DEF BlockDependents
<1>4. CASE Reopen
  <2>1. /\ call = NoCall /\ UNCHANGED <<call, disk, state, gate>>
        /\ status' = [n \in Nodes |-> IF n \in Reopened THEN "pending" ELSE status[n]]
        /\ result' = [n \in Nodes |-> IF n \in Reopened THEN NoResult ELSE result[n]]
        /\ retries' = [n \in Nodes |-> 0] /\ round' = round + 1
    BY <1>4 DEF Reopen
  <2>2. WorkTypes' /\ CallInv'
    BY <2>1 DEF DeliveryInv, WorkTypes, CallInv, Statuses
  <2>3. UpstreamDone'
    <3>1. \A n \in Nodes \ Reopened : Upstream[n] \cap Reopened = {}
      BY UpstreamFacts DEF Nodes, Reopened
    <3>2. QED
      BY <2>1, <3>1, UpstreamFacts DEF DeliveryInv, UpstreamDone
  <2>4. \A n \in Reopened : status'[n] = "pending"
    BY <2>1 DEF Reopened, Nodes
  <2>5. CodeKept' /\ EvidenceKept' /\ QualityKept'
    BY <2>4 DEF Reopened, CodeKept, EvidenceKept, QualityKept
  <2>6. QED
    BY <2>2, <2>3, <2>5 DEF DeliveryInv
<1>5. QED
  BY <1>1, <1>2, <1>3, <1>4

\* A call of a model that is tried again.
LEMMA TransportEffect ==
  ASSUME DeliveryInv, TransportRetry
  PROVE  DeliveryInv'
<1>1. call.at \in {"ask", "attribute"} /\ UNCHANGED <<work, disk, state, gate, round>>
  BY DEF TransportRetry
<1>2. call # NoCall
  BY <1>1 DEF NoCall
<1>3. IsCall(call) /\ call.node \in Nodes /\ Ready(call.node)
  BY <1>2 DEF DeliveryInv, CallInv
<1>4. IsCall(call') /\ call'.node = call.node
  BY <1>3, TransportKeeps DEF GoesOn
<1>5. CallInv'
  BY <1>1, <1>3, <1>4 DEF CallInv, Ready, work
<1>6. QED
  BY <1>1, <1>5
    DEF DeliveryInv, WorkTypes, UpstreamDone, CodeKept, EvidenceKept, QualityKept, Reading, work, disk,
        state, gate

-----------------------------------------------------------------------------
LEMMA DeliveryStep ==
  ASSUME DeliveryInv, [Next]_vars
  PROVE  DeliveryInv'
<1>1. CASE UNCHANGED vars
  BY <1>1
    DEF DeliveryInv, WorkTypes, CallInv, Ready, UpstreamDone, CodeKept, EvidenceKept, QualityKept,
        Reading, vars, work, disk, state, gate
<1>2. CASE CodeStep
  BY <1>2, CodeStepEffect, EffectKeeps
<1>3. CASE Gather \/ Analyse \/ Terminal \/ Verify \/ VerifierFails \/ Validate
  BY <1>3, OthersEffect, EffectKeeps
<1>4. QED
  BY <1>1, <1>2, <1>3, TransportEffect, BetweenCallsKeeps DEF Next, Work

\* A validated delivery is evidenced: whatever was retried, replaced, replayed or
\* rewritten on the way, the artifacts on disk, on record and verified agree; and
\* the program handed to the terminal is the one that was executed, which only the
\* terminal's own run of it may still change.
THEOREM DeliveryStandsOnEvidence == Spec => []DeliveryIsEvidenced
<1>1. Init => DeliveryInv
  BY DEF Init, DeliveryInv, WorkTypes, CallInv, UpstreamDone, CodeKept, EvidenceKept, QualityKept,
    Statuses, Nodes
<1>2. DeliveryInv /\ [Next]_vars => DeliveryInv'
  BY DeliveryStep
<1>3. DeliveryInv => DeliveryIsEvidenced
  <2> SUFFICES ASSUME DeliveryInv PROVE DeliveryIsEvidenced
    OBVIOUS
  <2>1. ASSUME status["validate"] = "completed"
        PROVE  status["verify"] = "completed" /\ status["code"] = "completed"
    <3>1. status["verify"] = "completed"
      BY <2>1, UpstreamFacts DEF DeliveryInv, UpstreamDone, Nodes
    <3>2. QED
      BY <3>1, UpstreamFacts DEF DeliveryInv, UpstreamDone, Nodes
  <2>2. QED
    BY <2>1 DEF DeliveryInv, CodeKept, EvidenceKept, QualityKept, DeliveryIsEvidenced
<1>4. QED
  BY <1>1, <1>2, <1>3, PTL DEF Spec

=============================================================================
