------------------------- MODULE RunLifecycleProofs -------------------------
(***************************************************************************)
(* The safety properties of RunLifecycle, for every number of nodes,       *)
(* rounds, requests, jobs and handler threads.                             *)
(***************************************************************************)
EXTENDS RunLifecycle, FiniteSetTheorems, TLAPS

Failures == {"none", "input", "invalid", "plan", "execution", "artifact", "integrity", "node",
             "business", "final_validation"}

RunRecords ==
  [failure : Failures, graph : {"pending", "success", "blocked", "failed"},
   business : {"unverified", "passed", "failed"}, ledger : {"unverified", "passed", "failed"},
   quality : {"none", "passed", "failed"}, exit : {"none", "ok", "bad"},
   review : {"pending", "passed", "partial", "failed"}, can : BOOLEAN,
   outcome : {"running", "success", "partial", "failed"}, finished : BOOLEAN]

Ended == {"unopened", "dropped", "returned", "blocked", "raised", "killed"}

PlanTypes ==
  /\ conf \in [code : BOOLEAN, required : BOOLEAN]
  /\ pc \in {"idle"} \cup Active \cup Ended
  /\ normalized \in BOOLEAN /\ codeNode \in BOOLEAN
  /\ report \in {"none", "sound", "unsound"}
  /\ run \in RunRecords

ExecTypes ==
  /\ status \in [Nodes -> {"pending", "completed", "failed", "blocked"}]
  /\ snapshot \subseteq Requests
  /\ item \in [Requests -> {"none", "armed", "recovering", "recovered"}]
  /\ request \in [Requests -> {"none", "queued", "accepted", "rejected", "unconsumed"}]
  /\ closed \in BOOLEAN /\ files \in BOOLEAN

JobTypes ==
  /\ job \in [Jobs -> {"none", "running", "success", "failed", "cancelled"}]
  /\ proc \in [Jobs -> {"none", "alive", "dying", "dead"}]
  /\ cleared \subseteq Handlers

-----------------------------------------------------------------------------
(* Jobs                                                                    *)

\* Launching is exclusive: an admitted handler is the only one, no process is at
\* work while it is admitted, and a process is known by its job.
Exclusive ==
  /\ \A j \in Jobs : job[j] = "none" <=> proc[j] = "none"
  /\ \A g, h \in cleared : g = h
  /\ cleared # {} => \A j \in Jobs : ~Alive(j)
  /\ \A j, k \in Jobs : Alive(j) /\ Alive(k) => j = k

JobInv == JobTypes /\ Exclusive

\* No step of the workflow touches a job.
LEMMA WorkflowLeavesJobs == Workflow => UNCHANGED dashboard
BY DEF Workflow, dashboard, jobVars, OpenRun, Prepare, Understand, RefineContract, BlockPlanning, PlanGraph,
  PollRequests, BlockDependents, RunNode, FinishExecution, RejectRequest, ArmInjection,
  AcceptRequest, Validate, Replay, EndRepair, CheckQuality, CloseRun, Review, WriteReport,
  AcceptDelivery, FinalValidate, Raise

LEMMA RefreshedIsAStatus ==
  ASSUME JobInv, NEW audit \in {NoAudit, "success", "failed"}, NEW j \in Jobs
  PROVE  /\ Refreshed(j, audit) \in {"none", "running", "success", "failed", "cancelled"}
         /\ Refreshed(j, audit) = "none" <=> proc[j] = "none"
         /\ Alive(j) => Refreshed(j, audit) = "running"
BY DEF JobInv, JobTypes, Exclusive, Refreshed, Alive

LEMMA AuditIsAVerdict == Audit \in {NoAudit, "success", "failed"}
BY DEF Audit

LEMMA JobStep ==
  ASSUME JobInv, [Next]_vars
  PROVE  JobInv'
<1> USE JobsAssumption
<1>1. CASE UNCHANGED jobVars
  BY <1>1 DEF JobInv, JobTypes, Exclusive, jobVars, Alive
<1>2. CASE StartJob
  BY <1>2 DEF StartJob, Launch, JobInv, JobTypes, Exclusive, Alive
<1>3. CASE AskAdmission
  BY <1>3, RefreshedIsAStatus, AuditIsAVerdict
    DEF AskAdmission, Admit, JobInv, JobTypes, Exclusive, Alive
<1>4. ASSUME NEW j \in Jobs, RefreshJob(j, Audit)
      PROVE  JobInv'
  BY <1>4, RefreshedIsAStatus, AuditIsAVerdict
    DEF RefreshJob, JobInv, JobTypes, Exclusive, Alive
<1>5. CASE Cancel
  BY <1>5 DEF Cancel, CancelJob, JobInv, JobTypes, Exclusive, Alive
<1>6. ASSUME Exit(Watched)
      PROVE  JobInv'
  BY <1>6 DEF Exit, JobInv, JobTypes, Exclusive, Alive
<1>7. CASE Workflow
  BY <1>1, <1>7, WorkflowLeavesJobs DEF dashboard
<1>8. QED
  BY <1>1, <1>2, <1>3, <1>4, <1>5, <1>6, <1>7
    DEF Next, Dashboard, LookAtJob, CheckInjection, Enqueue, ProcessEnds, Killed, vars

\* At most one of the dashboard's processes is at work, for any number of jobs
\* and handler threads: launch_lock covers the check and the launch, and a job is
\* refreshed from its process, so a cancelled one that still dies is running.
THEOREM NeverTwoProcesses == Spec => []OneProcess
<1>1. Init => JobInv
  BY JobsAssumption DEF Init, JobsInit, JobInv, JobTypes, Exclusive, Alive
<1>2. JobInv /\ [Next]_vars => JobInv'
  BY JobStep
<1>3. JobInv => OneProcess
  <2> SUFFICES ASSUME JobInv PROVE OneProcess
    OBVIOUS
  <2> DEFINE Live == {j \in Jobs : Alive(j)}
  <2>1. CASE Live = {}
    BY <2>1, FS_EmptySet DEF OneProcess
  <2>2. CASE Live # {}
    <3>1. PICK j \in Jobs : Live = {j}
      BY <2>2 DEF JobInv, Exclusive
    <3>2. QED
      BY <3>1, FS_Singleton DEF OneProcess
  <2>3. QED
    BY <2>1, <2>2
<1>4. QED
  BY <1>1, <1>2, <1>3, PTL DEF Spec

-----------------------------------------------------------------------------
(* The run                                                                 *)

AfterQuality == {"close", "review", "report", "deliver", "final"} \cup Ended
AfterClose == {"review", "report", "deliver", "final", "returned"}

\* What the one failure record means at any moment: whatever it accuses is still
\* wrong, but for a damaged artifact.
FailureMeans ==
  /\ pc \in {"idle", "start", "prepare"} => run.failure = "none"
  /\ run.failure = "input" => ~normalized
  /\ run.failure \in {"execution", "node"} => Dead # {}
  /\ run.failure = "artifact" => ~files /\ pc \in AfterQuality
  /\ run.failure = "business" => conf.required /\ run.business # "passed"
  /\ run.failure \in {"invalid", "plan"} => pc = "blocked"
  /\ run.failure = "final_validation" => run.finished

\* The end of a run is written once, in the step that ends it.
EndsOnce ==
  /\ run.finished => pc \in {"returned", "blocked", "raised"}
  /\ run.outcome = "success" => run.finished /\ pc = "returned"

\* From the closing of the mailbox on, what it still held and what has not
\* recovered is among the blockers.
LateIsBlocked ==
  /\ closed => Queued = {} /\ pc \in AfterClose \cup {"raised", "killed"}
  /\ (\E r \in Requests : request[r] = "unconsumed") => closed
  /\ pc \in AfterClose =>
       /\ closed
       /\ (\E r \in Requests : request[r] = "unconsumed") => "unconsumed" \in blockers
       /\ (\E r \in Requests : item[r] \notin {"none", "recovered"}) => "unrecovered" \in blockers
  /\ \A r \in Requests : request[r] = "accepted" => item[r] # "none"
  /\ pc = "ack" => \A r \in snapshot : (\A q \in snapshot : r <= q) => item[r] # "none"

RunInv ==
  /\ PlanTypes /\ ExecTypes
  /\ FailureMeans /\ EndsOnce /\ LateIsBlocked
  /\ SuccessIsEarned /\ FailureIsExplained /\ RequestsAccounted

LEMMA ExecTypesKept ==
  ASSUME PlanTypes, ExecTypes, Workflow
  PROVE  ExecTypes'
<1>1. CASE OpenRun \/ Prepare \/ Understand \/ RefineContract \/ BlockPlanning \/ PlanGraph
            \/ FinishExecution \/ Validate \/ EndRepair \/ CheckQuality \/ Review \/ WriteReport \/ AcceptDelivery
            \/ FinalValidate \/ Raise
  BY <1>1 DEF OpenRun, Prepare, Understand, RefineContract, BlockPlanning, PlanGraph, FinishExecution,
    Validate, EndRepair, CheckQuality, Review, WriteReport, AcceptDelivery, FinalValidate, Raise,
    ExecTypes, execVars, mailboxVars
<1>2. CASE PollRequests
  BY <1>2 DEF PollRequests, Queued, ExecTypes, mailboxVars
<1>3. ASSUME NEW r \in Requests, RejectRequest(r) \/ ArmInjection(r) PROVE ExecTypes'
  BY <1>3 DEF RejectRequest, ArmInjection, NextAnswer, Acknowledge, ExecTypes, mailboxVars
<1>4. CASE AcceptRequest
  BY <1>4 DEF AcceptRequest, Acknowledge, ExecTypes
<1>5. CASE BlockDependents
  BY <1>5 DEF BlockDependents, ExecTypes, mailboxVars
<1>6. CASE RunNode
  BY <1>6 DEF RunNode, ExecTypes, mailboxVars
<1>7. CASE Replay
  BY <1>7 DEF Replay, ExecTypes, mailboxVars
<1>8. CASE CloseRun
  BY <1>8 DEF CloseRun, CloseMailbox, ExecTypes, execVars
<1>9. QED
  BY <1>1, <1>2, <1>3, <1>4, <1>5, <1>6, <1>7, <1>8 DEF Workflow

Decisions == {"passed", "partial", "failed"}

\* A review touches the review and nothing else of the record.
LEMMA ReviewedFacts ==
  ASSUME NEW r \in RunRecords, NEW decision \in Decisions, NEW can \in BOOLEAN, NEW open
  PROVE  LET s == Reviewed(r, decision, can, open)
         IN  /\ s \in RunRecords
             /\ s.failure = r.failure /\ s.graph = r.graph /\ s.business = r.business
             /\ s.ledger = r.ledger /\ s.quality = r.quality /\ s.exit = r.exit
             /\ s.outcome = r.outcome /\ s.finished = r.finished
BY DEF Reviewed, RunRecords, Decisions

LEMMA FailingFacts ==
  ASSUME NEW r \in RunRecords, NEW f \in Failures
  PROVE  LET s == Failing(r, f)
         IN  /\ s \in RunRecords /\ s.failure = f
             /\ s.business = r.business /\ s.ledger = r.ledger
             /\ s.outcome = r.outcome /\ s.finished = r.finished
BY DEF Failing, RunRecords

LEMMA OutcomeIsResult == GraphOutcome \in {"success", "blocked", "failed"}
BY DEF GraphOutcome

LEMMA DecisionFacts ==
  /\ FinalDecision \in Decisions
  /\ OutcomeOf(FinalDecision) \in {"success", "partial", "failed"}
BY DEF FinalDecision, OutcomeOf, Decisions

LEMMA CodeRecord ==
  ASSUME PlanTypes, NEW ok \in BOOLEAN
  PROVE  LET s == AfterCode(ok)
         IN  /\ s \in RunRecords
             /\ ok => s.failure \in {"none", run.failure} /\ s.failure \notin {"execution", "artifact"}
             /\ ~ok => s.failure = "execution"
             /\ s.business = run.business /\ s.ledger = run.ledger
             /\ s.outcome = run.outcome /\ s.finished = run.finished
<1>1. CASE ok
  <2>1. AfterCode(ok) = [run EXCEPT !.exit = "ok", !.quality = "passed",
                           !.failure = IF @ \in {"execution", "artifact"} THEN "none" ELSE @]
    BY <1>1 DEF AfterCode
  <2>2. QED
    BY <1>1, <2>1 DEF PlanTypes, RunRecords, Failures
<1>2. CASE ~ok
  <2>1. AfterCode(ok) = [run EXCEPT !.exit = "bad", !.failure = "execution"]
    BY <1>2 DEF AfterCode
  <2>2. QED
    BY <1>2, <2>1 DEF PlanTypes, RunRecords, Failures
<1>3. QED
  BY <1>1, <1>2

LEMMA VerdictRecord ==
  ASSUME PlanTypes, Validate
  PROVE  /\ run' \in RunRecords
         /\ \/ conf.required /\ run'.business # "passed" /\ run'.failure = "business"
            \/ run'.failure = "none"
            \/ run'.failure = run.failure /\ (run.failure # "business" \/ ~conf.required)
         /\ run'.outcome = run.outcome /\ run'.finished = run.finished
<1>1. PICK verdict \in {"passed", "failed", "unverified"}, ledger \in {"passed", "failed"} :
        run' = [RecordVerdict(run, verdict) EXCEPT !.ledger = ledger]
  BY DEF Validate
<1> DEFINE s == RecordVerdict(run, verdict)
<1>2. /\ s \in RunRecords /\ s.business = verdict
      /\ s.failure = IF conf.required /\ verdict # "passed" THEN "business"
                     ELSE IF verdict = "passed" /\ run.failure = "business" THEN "none"
                     ELSE run.failure
      /\ s.outcome = run.outcome /\ s.finished = run.finished
  BY DEF PlanTypes, RecordVerdict, RunRecords, Failures
<1> HIDE DEF s
<1>3. /\ run' \in RunRecords
      /\ run'.business = s.business /\ run'.failure = s.failure
      /\ run'.outcome = s.outcome /\ run'.finished = s.finished
  BY <1>1, <1>2 DEF RunRecords, s
<1>4. QED
  BY <1>2, <1>3 DEF PlanTypes

LEMMA QualityRecord ==
  ASSUME PlanTypes, CheckQuality
  PROVE  /\ run' \in RunRecords
         /\ \/ run'.failure \in {"none", run.failure}
            \/ run'.failure = "artifact" /\ ~files
         /\ run'.business = run.business /\ run'.ledger = run.ledger
         /\ run'.outcome = run.outcome /\ run'.finished = run.finished
<1>1. CASE run.quality # "none"
  BY <1>1 DEF CheckQuality, PlanTypes
<1>2. CASE run.quality = "none" /\ files
  <2>1. run' = [run EXCEPT !.quality = "passed",
                           !.failure = IF @ \in {"execution", "artifact"} THEN "none" ELSE @]
    BY <1>2 DEF CheckQuality
  <2>2. QED
    BY <2>1 DEF PlanTypes, RunRecords, Failures
<1>3. CASE run.quality = "none" /\ ~files
  <2>1. run' = [run EXCEPT !.quality = "failed",
                           !.failure = IF @ \in {"input", "execution"} THEN @ ELSE "artifact"]
    BY <1>3 DEF CheckQuality
  <2>2. QED
    BY <1>3, <2>1 DEF PlanTypes, RunRecords, Failures
<1>4. QED
  BY <1>1, <1>2, <1>3

\* What the last step of the workflow leaves on record.
LEMMA FinalRecord ==
  ASSUME PlanTypes, FinalValidate
  PROVE  /\ run' \in RunRecords
         /\ run'.failure = IF FinalDecision = "failed" /\ run.failure = "none"
                           THEN "final_validation" ELSE run.failure
         /\ run'.business = run.business /\ run'.ledger = run.ledger
         /\ run'.outcome = OutcomeOf(FinalDecision) /\ run'.finished
<1> DEFINE recorded == IF FinalDecision = "failed" THEN RecordFinalFailure(run) ELSE run
           can == report # "none" /\ FinalDecision # "failed"
           reviewed == Reviewed(recorded, FinalDecision, can, blockers)
<1>1. recorded \in RunRecords
  <2>1. Failing(run, "final_validation") \in RunRecords
    BY FailingFacts DEF PlanTypes, Failures
  <2>2. QED
    BY <2>1 DEF PlanTypes, RecordFinalFailure
<1>2. /\ recorded.failure = IF FinalDecision = "failed" /\ run.failure = "none"
                            THEN "final_validation" ELSE run.failure
      /\ recorded.business = run.business /\ recorded.ledger = run.ledger
  BY FailingFacts DEF PlanTypes, Failures, RecordFinalFailure
<1>3. /\ reviewed \in RunRecords
      /\ reviewed.failure = recorded.failure
      /\ reviewed.business = recorded.business /\ reviewed.ledger = recorded.ledger
  <2>1. can \in BOOLEAN
    OBVIOUS
  <2> HIDE DEF recorded, can
  <2>2. QED
    BY <1>1, <2>1, ReviewedFacts, DecisionFacts
<1>4. run' = [reviewed EXCEPT !.outcome = OutcomeOf(FinalDecision), !.finished = TRUE]
  BY DEF FinalValidate
<1> HIDE DEF reviewed, recorded
<1>5. QED
  BY <1>2, <1>3, <1>4, DecisionFacts DEF RunRecords

LEMMA BlockedRecord ==
  ASSUME PlanTypes, BlockPlanning
  PROVE  /\ run' \in RunRecords /\ run'.failure = pc
         /\ run'.outcome = "failed" /\ run'.finished
<1> DEFINE reviewed == Reviewed(Failing(run, pc), "failed", FALSE, blockers)
<1>1. pc \in Failures
  BY DEF BlockPlanning, Failures
<1>2. Failing(run, pc) \in RunRecords /\ Failing(run, pc).failure = pc
  BY <1>1, FailingFacts DEF PlanTypes
<1>3. reviewed \in RunRecords /\ reviewed.failure = pc
  BY <1>2, ReviewedFacts DEF Decisions
<1>4. run' = [reviewed EXCEPT !.outcome = "failed", !.finished = TRUE]
  BY DEF BlockPlanning
<1> HIDE DEF reviewed
<1>5. QED
  BY <1>3, <1>4 DEF RunRecords

LEMMA PlanTypesKept ==
  ASSUME PlanTypes, Workflow
  PROVE  PlanTypes'
<1> USE DEF PlanTypes, RunRecords, Failures, Active, Ended, planVars
<1>1. CASE Prepare
  BY <1>1 DEF Prepare, Failing
<1>2. CASE Understand \/ RefineContract \/ PlanGraph \/ PollRequests \/ BlockDependents \/ AcceptRequest
           \/ Replay \/ EndRepair \/ OpenRun
  BY <1>2 DEF OpenRun, Understand, RefineContract, PlanGraph, PollRequests, BlockDependents, AcceptRequest,
    Replay, EndRepair, NextRound
<1>3. ASSUME NEW r \in Requests, RejectRequest(r) \/ ArmInjection(r) PROVE PlanTypes'
  BY <1>3 DEF RejectRequest, ArmInjection, NextAnswer
<1>4. CASE BlockPlanning
  BY <1>4, BlockedRecord DEF BlockPlanning
<1>5. CASE RunNode
  BY <1>5, CodeRecord DEF RunNode
<1>6. CASE FinishExecution
  BY <1>6 DEF FinishExecution, GraphOutcome
<1>7. CASE Validate
  BY <1>7, VerdictRecord DEF Validate
<1>8. CASE CheckQuality
  BY <1>8, QualityRecord DEF CheckQuality
<1>9. CASE CloseRun
  BY <1>9, OutcomeIsResult DEF CloseRun
<1>10. CASE Review
  BY <1>10 DEF Review, Reviewed
<1>11. CASE WriteReport
  BY <1>11 DEF WriteReport
<1>12. CASE AcceptDelivery
  <2>1. PICK ledger \in {"unverified", "passed", "failed"} :
          run' = [run EXCEPT !.ledger = ledger, !.graph = GraphOutcome]
    BY <1>12 DEF AcceptDelivery
  <2>2. QED
    BY <1>12, <2>1, OutcomeIsResult DEF AcceptDelivery
<1>13. CASE FinalValidate
  BY <1>13, FinalRecord DEF FinalValidate
<1>14. CASE Raise
  BY <1>14 DEF Raise
<1>15. QED
  BY <1>1, <1>2, <1>3, <1>4, <1>5, <1>6, <1>7, <1>8, <1>9, <1>10, <1>11, <1>12, <1>13, <1>14
    DEF Workflow

\* Whoever failed or was blocked stays so until a replay, which needs nobody to.
LEMMA DeadStay ==
  ASSUME ExecTypes, BlockDependents \/ RunNode
  PROVE  Dead \subseteq Dead'
<1>1. CASE BlockDependents
  BY <1>1 DEF BlockDependents, Dead, NodesOf, ExecTypes
<1>2. CASE RunNode
  BY <1>2 DEF RunNode, Dead, NodesOf, ExecTypes
<1>3. QED
  BY <1>1, <1>2

LEMMA FailureStep ==
  ASSUME PlanTypes, ExecTypes, FailureMeans, EndsOnce, Workflow
  PROVE  FailureMeans'
<1> USE DEF FailureMeans, AfterQuality, Ended, Active, planVars, execVars
<1>1. CASE Prepare
  <2>1. run'.failure = "none" \/ (run'.failure = "input" /\ ~normalized')
    BY <1>1, FailingFacts DEF Prepare, PlanTypes, Failures
  <2>2. QED
    BY <1>1, <2>1 DEF Prepare
<1>2. CASE Understand \/ RefineContract \/ PlanGraph \/ PollRequests \/ AcceptRequest \/ EndRepair
           \/ WriteReport
  <2>1. /\ UNCHANGED <<conf, status, normalized, files, run>>
        /\ pc \notin {"idle", "start", "prepare"} \cup Ended /\ pc' \notin {"idle", "start", "prepare"} \cup Ended
        /\ pc \in AfterQuality => pc' \in AfterQuality
    BY <1>2 DEF Understand, RefineContract, PlanGraph, PollRequests, AcceptRequest, EndRepair,
      WriteReport
  <2>2. Dead' = Dead
    BY <2>1 DEF Dead, NodesOf
  <2>3. QED
    BY <2>1, <2>2
<1>3. ASSUME NEW r \in Requests, RejectRequest(r) \/ ArmInjection(r) PROVE FailureMeans'
  BY <1>3 DEF RejectRequest, ArmInjection, NextAnswer, Dead, NodesOf
<1>4. CASE BlockPlanning
  BY <1>4, BlockedRecord DEF BlockPlanning
<1>5. CASE BlockDependents
  BY <1>5, DeadStay DEF BlockDependents
<1>6. CASE RunNode
  <2>1. PICK n \in Nodes, ok \in BOOLEAN :
          /\ status' = [status EXCEPT ![n] = IF ok THEN "completed" ELSE "failed"]
          /\ run' = IF Writes(n) THEN AfterCode(ok) ELSE run
    BY <1>6 DEF RunNode, NodesOf
  <2>2. ~ok => Dead' # {}
    BY <2>1 DEF Dead, NodesOf, ExecTypes
  <2>3. /\ run'.failure = "execution" => ~ok \/ run.failure = "execution"
        /\ run'.failure \in {"none", "execution", run.failure}
        /\ run'.business = run.business /\ run'.finished = run.finished
    BY <2>1, CodeRecord
  <2>4. QED
    BY <1>6, <2>2, <2>3, DeadStay DEF RunNode
<1>7. CASE FinishExecution
  <2>1. GraphOutcome = "failed" => Dead # {}
    BY DEF GraphOutcome, Dead, NodesOf
  <2>2. /\ run'.failure \in {"integrity", "none", run.failure}
           \/ (run'.failure = "node" /\ Dead # {})
        /\ run'.business = run.business /\ run'.finished = run.finished
    BY <1>7, <2>1 DEF FinishExecution, PlanTypes, RunRecords
  <2>3. QED
    BY <1>7, <2>2 DEF FinishExecution, Dead, NodesOf
<1>8. CASE Validate
  <2>1. Dead' = Dead
    BY <1>8 DEF Validate, Dead, NodesOf
  <2>2. QED
    BY <1>8, <2>1, VerdictRecord DEF Validate
<1>9. CASE Replay
  BY <1>9 DEF Replay
<1>10. CASE CheckQuality
  <2>1. Dead' = Dead
    BY <1>10 DEF CheckQuality, Dead, NodesOf
  <2>2. QED
    BY <1>10, <2>1, QualityRecord DEF CheckQuality
<1>11. CASE CloseRun \/ Review \/ AcceptDelivery \/ Raise
  <2>1. Dead' = Dead
    BY <1>11 DEF CloseRun, Review, AcceptDelivery, Raise, Dead, NodesOf
  <2>2. run'.failure = run.failure /\ run'.business = run.business
    BY <1>11 DEF CloseRun, Review, Reviewed, AcceptDelivery, Raise, PlanTypes, RunRecords
  <2>3. run.finished => run'.finished
    BY <1>11 DEF CloseRun, Review, Reviewed, AcceptDelivery, Raise, PlanTypes, RunRecords
  <2>4. /\ UNCHANGED <<conf, normalized, files>>
        /\ pc \notin {"idle", "start", "prepare"} \cup Ended /\ pc' \notin {"idle", "start", "prepare", "blocked"}
        /\ pc \in AfterQuality => pc' \in AfterQuality
    BY <1>11 DEF CloseRun, Review, AcceptDelivery, Raise
  <2>5. QED
    BY <2>1, <2>2, <2>3, <2>4
<1>12. CASE FinalValidate
  <2>1. Dead' = Dead
    BY <1>12 DEF FinalValidate, Dead, NodesOf
  <2>2. QED
    BY <1>12, <2>1, FinalRecord DEF FinalValidate
<1>13. CASE OpenRun
  <2>1. Dead' = Dead
    BY <1>13 DEF OpenRun, Dead, NodesOf
  <2>2. QED
    BY <1>13, <2>1 DEF OpenRun, PlanTypes, RunRecords
<1>14. QED
  BY <1>1, <1>2, <1>3, <1>4, <1>5, <1>6, <1>7, <1>8, <1>9, <1>10, <1>11, <1>12, <1>13 DEF Workflow

\* A step of the workflow happens while the run is open; only the last ones
\* close it.
LEMMA OpenUntilTheEnd ==
  ASSUME PlanTypes, EndsOnce, Workflow
  PROVE  /\ pc \in Active /\ pc' \in Active \cup (Ended \ {"killed"})
         /\ ~run.finished /\ run.outcome # "success"
         /\ pc' = "returned" => FinalValidate
         /\ pc' = "blocked" => BlockPlanning
         /\ pc' = "raised" => Raise
<1>1. pc \in Active
  BY DEF Active, Workflow, OpenRun, Prepare, Understand, RefineContract, BlockPlanning, PlanGraph,
    PollRequests, BlockDependents, RunNode, FinishExecution, RejectRequest, ArmInjection, NextAnswer,
    AcceptRequest, Validate, Replay, EndRepair, CheckQuality, CloseRun, Review, WriteReport,
    AcceptDelivery, FinalValidate, Raise
<1>2. ~run.finished /\ run.outcome # "success"
  BY <1>1 DEF EndsOnce, Active, PlanTypes, RunRecords
<1>3. pc' \in Active \cup {"unopened", "dropped"} \/ FinalValidate \/ BlockPlanning \/ Raise
  BY DEF Active, Workflow, OpenRun, Prepare, Understand, RefineContract, PlanGraph,
    PollRequests, BlockDependents, RunNode, FinishExecution, RejectRequest, ArmInjection, NextAnswer,
    AcceptRequest, Validate, Replay, EndRepair, CheckQuality, CloseRun, Review, WriteReport,
    AcceptDelivery
<1>4. QED
  BY <1>1, <1>2, <1>3 DEF FinalValidate, BlockPlanning, Raise, Active, Ended

LEMMA EndsStep ==
  ASSUME PlanTypes, EndsOnce, Workflow
  PROVE  EndsOnce'
<1> USE OpenUntilTheEnd DEF EndsOnce
<1>1. CASE FinalValidate
  BY <1>1, FinalRecord DEF FinalValidate
<1>2. CASE BlockPlanning
  BY <1>2, BlockedRecord DEF BlockPlanning
<1>3. CASE Raise
  BY <1>3 DEF Raise, PlanTypes, RunRecords
<1>4. ASSUME Workflow, ~FinalValidate, ~BlockPlanning, ~Raise
      PROVE  EndsOnce'
  <2>1. CASE UNCHANGED run
    BY <2>1, <1>4 DEF PlanTypes, RunRecords
  <2>2. CASE Prepare \/ FinishExecution \/ CloseRun \/ Review \/ AcceptDelivery
    BY <2>2 DEF Prepare, Failing, FinishExecution, CloseRun, Review, Reviewed, AcceptDelivery,
      PlanTypes, RunRecords
  <2>3. CASE RunNode
    BY <2>3, CodeRecord DEF RunNode
  <2>4. CASE Validate \/ CheckQuality
    BY <2>4, VerdictRecord, QualityRecord
  <2>5. QED
    BY <1>4, <2>1, <2>2, <2>3, <2>4 DEF Workflow, OpenRun, Understand, RefineContract, PlanGraph, PollRequests,
      BlockDependents, RejectRequest, ArmInjection, AcceptRequest, Replay, EndRepair, WriteReport
<1>5. QED
  BY <1>1, <1>2, <1>3, <1>4

LEMMA LateStep ==
  ASSUME PlanTypes, ExecTypes, LateIsBlocked, Workflow
  PROVE  LateIsBlocked'
<1> USE MailboxAssumption DEF LateIsBlocked, AfterClose, Queued, mailboxVars, execVars
<1>1. CASE OpenRun \/ Prepare \/ Understand \/ RefineContract \/ BlockPlanning \/ PlanGraph \/ BlockDependents
           \/ FinishExecution \/ Validate \/ Replay \/ EndRepair \/ CheckQuality
  <2>1. /\ UNCHANGED <<item, closed, request, snapshot>>
        /\ pc \notin AfterClose \cup {"raised", "killed"} /\ pc' \notin AfterClose \cup {"ack"}
    BY <1>1 DEF OpenRun, Prepare, Understand, RefineContract, BlockPlanning, PlanGraph, BlockDependents,
      FinishExecution, Validate, Replay, EndRepair, CheckQuality
  <2>2. QED
    BY <2>1
<1>2. CASE Review \/ WriteReport \/ AcceptDelivery \/ FinalValidate \/ Raise
  <2>1. /\ UNCHANGED <<item, closed, request, snapshot>> /\ blockers \subseteq blockers'
        /\ \/ pc \in AfterClose /\ pc' \in AfterClose
           \/ pc' = "raised"
    BY <1>2 DEF Review, WriteReport, AcceptDelivery, FinalValidate, Raise
  <2>2. QED
    BY <2>1
<1>3. CASE PollRequests
  BY <1>3 DEF PollRequests
<1>4. ASSUME NEW r \in Requests, RejectRequest(r)
      PROVE  LateIsBlocked'
  BY <1>4 DEF RejectRequest, NextAnswer, Acknowledge, ExecTypes
<1>5. ASSUME NEW r \in Requests, ArmInjection(r)
      PROVE  LateIsBlocked'
  BY <1>5 DEF ArmInjection, NextAnswer, ExecTypes
<1>6. CASE AcceptRequest
  BY <1>6 DEF AcceptRequest, Acknowledge, ExecTypes
<1>7. CASE RunNode
  BY <1>7 DEF RunNode, ExecTypes
<1>8. CASE CloseRun
  BY <1>8 DEF CloseRun, CloseMailbox, LeftOver, ExecTypes
<1>9. QED
  BY <1>1, <1>2, <1>3, <1>4, <1>5, <1>6, <1>7, <1>8 DEF Workflow

\* The end of a run, with what every earlier step has left behind.
LEMMA EndStep ==
  ASSUME RunInv, Workflow
  PROVE  SuccessIsEarned' /\ FailureIsExplained' /\ RequestsAccounted'
<1> USE DEF RunInv
<1>1. CASE FinalValidate
  <2>1. /\ pc = "final" /\ pc' = "returned"
        /\ UNCHANGED <<conf, status, item, files, request, closed, report, blockers>>
    BY <1>1 DEF FinalValidate, planVars, execVars, mailboxVars
  <2>2. Dead' = Dead /\ Queued' = Queued
    BY <2>1 DEF Dead, NodesOf, Queued
  <2>3. FailureIsExplained'
    BY <1>1, FinalRecord DEF FailureIsExplained, FinalDecision, OutcomeOf
  <2>4. SuccessIsEarned'
    <3>1. SUFFICES ASSUME run'.outcome = "success" PROVE SuccessIsEarned'
      BY DEF SuccessIsEarned
    <3>2. /\ FinalDecision = "passed" /\ run'.failure = run.failure
          /\ run'.business = run.business /\ run'.ledger = run.ledger
      BY <1>1, <3>1, FinalRecord, DecisionFacts DEF OutcomeOf, Decisions
    <3>3. Objections = {} /\ normalized /\ report = "sound"
      BY <3>2 DEF FinalDecision
    <3>4. /\ files /\ Dead = {} /\ run.ledger = "passed" /\ blockers = {}
          /\ run.business \in IF conf.required THEN {"passed"} ELSE {"passed", "unverified"}
      BY <3>3 DEF Objections
    <3>5. run.failure \in {"none", "integrity"}
      <4>1. run.failure \in Failures /\ ~run.finished
        BY <2>1 DEF EndsOnce, PlanTypes, RunRecords
      <4>2. conf.required => run.business = "passed"
        BY <3>4
      <4>3. run.failure \notin {"input", "execution", "node", "artifact", "invalid", "plan"}
        BY <2>1, <3>3, <3>4 DEF FailureMeans
      <4>4. run.failure \notin {"business", "final_validation"}
        BY <4>1, <4>2 DEF FailureMeans
      <4>5. QED
        BY <4>1, <4>3, <4>4 DEF Failures
    <3>6. QED
      BY <2>1, <2>2, <3>2, <3>3, <3>4, <3>5 DEF SuccessIsEarned
  <2>5. RequestsAccounted'
    <3>1. Queued' = {}
      BY <2>1, <2>2 DEF LateIsBlocked, AfterClose
    <3>2. ASSUME run'.outcome = "success", NEW r \in Requests
          PROVE  \/ request[r] \in {"none", "rejected"}
                 \/ request[r] = "accepted" /\ item[r] = "recovered"
      <4>1. blockers = {}
        BY <2>1, <2>4, <3>2 DEF SuccessIsEarned
      <4>2. request[r] # "unconsumed" /\ item[r] \in {"none", "recovered"}
        BY <2>1, <4>1 DEF LateIsBlocked, AfterClose
      <4>3. request[r] # "queued"
        BY <2>2, <3>1 DEF Queued
      <4>4. QED
        BY <4>2, <4>3 DEF LateIsBlocked, ExecTypes
    <3>3. QED
      BY <2>1, <3>1, <3>2 DEF RequestsAccounted
  <2>6. QED
    BY <2>3, <2>4, <2>5
<1>2. CASE BlockPlanning
  BY <1>2, BlockedRecord
    DEF BlockPlanning, SuccessIsEarned, FailureIsExplained, RequestsAccounted
<1>3. ASSUME ~FinalValidate, ~BlockPlanning
      PROVE  SuccessIsEarned' /\ FailureIsExplained' /\ RequestsAccounted'
  <2>1. pc' \notin {"returned", "blocked"}
    BY <1>3, OpenUntilTheEnd DEF Active, Ended
  <2>2. run'.outcome # "success"
    BY <2>1, EndsStep DEF EndsOnce
  <2>3. QED
    BY <2>1, <2>2 DEF SuccessIsEarned, FailureIsExplained, RequestsAccounted
<1>4. QED
  BY <1>1, <1>2, <1>3

-----------------------------------------------------------------------------
(* The run beside its process and the dashboard                            *)

\* The process and the place in the workflow tell the same story.
ProcessFollows ==
  /\ proc[Watched] = "none" <=> pc = "idle"
  /\ proc[Watched] = "dead" => pc \in Ended

LifeInv == JobInv /\ RunInv /\ ProcessFollows /\ SuccessShownIsDelivered

LEMMA WorkflowStep ==
  ASSUME LifeInv, Workflow
  PROVE  LifeInv'
<1> USE JobsAssumption
<1>1. JobInv'
  BY JobStep DEF LifeInv, Next
<1>2. RunInv'
  BY PlanTypesKept, ExecTypesKept, FailureStep, EndsStep, LateStep, EndStep DEF LifeInv, RunInv
<1>3. pc \in Active /\ pc' # "idle" /\ UNCHANGED <<job, proc>> /\ run.outcome # "success"
  BY OpenUntilTheEnd, WorkflowLeavesJobs
    DEF LifeInv, RunInv, Active, Ended, dashboard, jobVars
<1>4. QED
  BY <1>1, <1>2, <1>3
    DEF LifeInv, ProcessFollows, Active, Ended, SuccessShownIsDelivered, JobInv, JobTypes

\* The dashboard, its users and the operating system change nothing of the run.
LEMMA OthersLeaveRun ==
  ASSUME [Dashboard \/ ProcessEnds \/ Killed]_vars
  PROVE  UNCHANGED <<conf, normalized, codeNode, status, snapshot, item, files, report, run, blockers>>
BY DEF Dashboard, StartJob, AskAdmission, LookAtJob, Cancel, CheckInjection, Enqueue,
  ProcessEnds, Killed, vars, others, planVars, execVars

LEMMA RunKept ==
  ASSUME RunInv, ProcessFollows, JobInv, [Dashboard \/ ProcessEnds \/ Killed]_vars
  PROVE  RunInv'
<1> USE OthersLeaveRun, JobsAssumption
<1>1. Dead' = Dead
  BY DEF Dead, NodesOf
<1>2. CASE UNCHANGED <<closed, request, pc>>
  <2>1. Queued' = Queued
    BY <1>2 DEF Queued
  <2>2. QED
    BY <1>1, <1>2, <2>1 DEF RunInv, PlanTypes, ExecTypes, FailureMeans, EndsOnce, LateIsBlocked,
      SuccessIsEarned, FailureIsExplained, RequestsAccounted
<1>3. CASE UNCHANGED <<closed, request>> /\ pc' # pc
  <2>1. Queued' = Queued
    BY <1>3 DEF Queued
  <2>2. \/ pc = "idle" /\ pc' = "start"
        \/ pc = "start" /\ pc' = "unopened"
        \/ pc \in Active /\ pc' = "killed"
    BY <1>3 DEF Dashboard, StartJob, AskAdmission, LookAtJob, Cancel, CheckInjection, Enqueue,
      ProcessEnds, Killed, vars, Launch, ProcessFollows, JobInv, Exclusive
  <2>3. QED
    BY <1>1, <1>3, <2>1, <2>2 DEF RunInv, PlanTypes, ExecTypes, FailureMeans, EndsOnce, LateIsBlocked,
      SuccessIsEarned, FailureIsExplained, RequestsAccounted, Active, Ended, AfterQuality, AfterClose
<1>4. CASE Enqueue
  <2>1. CASE ~Room
    BY <1>2, <1>4, <2>1 DEF Enqueue, others, mailboxVars
  <2>2. CASE Room
    <3>1. ~closed /\ UNCHANGED <<closed, pc>>
      BY <1>4, <2>2 DEF Enqueue, Room, EnqueueRequest
    <3>2. PICK r \in Requests : request[r] = "none" /\ request' = [request EXCEPT ![r] = "queued"]
      BY <1>4, <2>2 DEF Enqueue, EnqueueRequest
    <3>3. ExecTypes' /\ LateIsBlocked'
      BY <3>1, <3>2 DEF RunInv, ExecTypes, LateIsBlocked, AfterClose
    <3>4. pc # "returned" /\ run.outcome # "success"
      BY <3>1 DEF RunInv, LateIsBlocked, AfterClose, EndsOnce
    <3>5. QED
      BY <1>1, <3>1, <3>3, <3>4 DEF RunInv, PlanTypes, FailureMeans, EndsOnce,
        SuccessIsEarned, FailureIsExplained, RequestsAccounted
  <2>3. QED
    BY <2>1, <2>2
<1>5. QED
  BY <1>2, <1>3, <1>4 DEF Dashboard, StartJob, AskAdmission, LookAtJob, Cancel, CheckInjection,
    ProcessEnds, Killed, vars, others, mailboxVars

\* A refresh that shows a success has seen a dead process and a passing audit.
LEMMA AuditedSuccess ==
  ASSUME LifeInv, Refreshed(Watched, Audit) = "success"
  PROVE  /\ ~Alive(Watched) /\ run.outcome = "success" /\ report = "sound"
         /\ run.business = "passed"
BY DEF LifeInv, RunInv, Refreshed, Audit, NoAudit, SuccessIsEarned, SuccessShownIsDelivered

LEMMA DashboardStep ==
  ASSUME LifeInv, [Dashboard \/ ProcessEnds \/ Killed]_vars
  PROVE  LifeInv'
<1> USE JobsAssumption
<1>1. JobInv' /\ RunInv'
  BY JobStep, RunKept DEF LifeInv, Next
<1>2. CASE UNCHANGED <<jobVars, pc>>
  BY <1>1, <1>2, OthersLeaveRun
    DEF LifeInv, ProcessFollows, SuccessShownIsDelivered, Alive, jobVars
<1>3. CASE StartJob
  <2>1. PICK j \in Jobs : /\ job[j] = "none" /\ job' = [job EXCEPT ![j] = "running"]
                          /\ proc' = [proc EXCEPT ![j] = "alive"]
                          /\ pc' = IF j = Watched THEN "start" ELSE pc
    BY <1>3 DEF StartJob, Launch
  <2>2. QED
    BY <1>1, <2>1, <1>3, OthersLeaveRun DEF LifeInv, ProcessFollows, SuccessShownIsDelivered,
      Alive, JobInv, JobTypes, Exclusive, Ended, Active
<1>4. ASSUME UNCHANGED <<proc, pc>>, job'[Watched] \in {job[Watched], Refreshed(Watched, Audit)}
      PROVE  LifeInv'
  BY <1>1, <1>4, OthersLeaveRun, AuditedSuccess
    DEF LifeInv, ProcessFollows, SuccessShownIsDelivered, Alive
<1>5. CASE AskAdmission \/ LookAtJob \/ CheckInjection
  <2>1. UNCHANGED <<proc, pc>> /\ job'[Watched] \in {job[Watched], Refreshed(Watched, Audit)}
    BY <1>5 DEF AskAdmission, Admit, LookAtJob, CheckInjection, RefreshJob, LifeInv, JobInv, JobTypes
  <2>2. QED
    BY <1>4, <2>1
<1>6. CASE Cancel
  BY <1>1, <1>6, OthersLeaveRun DEF Cancel, CancelJob, LifeInv, ProcessFollows,
    SuccessShownIsDelivered, Alive, JobInv, JobTypes, Exclusive
<1>7. CASE ProcessEnds \/ Killed
  BY <1>1, <1>7, OthersLeaveRun DEF ProcessEnds, Killed, Exit, LifeInv, ProcessFollows,
    SuccessShownIsDelivered, Alive, JobInv, JobTypes, Ended, Active
<1>8. QED
  BY <1>2, <1>3, <1>5, <1>6, <1>7 DEF Dashboard, Enqueue, others, vars

LEMMA LifeStart == Init => LifeInv
<1> SUFFICES ASSUME Init PROVE LifeInv
  OBVIOUS
<1>1. JobInv
  BY JobsAssumption DEF Init, JobsInit, JobInv, JobTypes, Exclusive, Alive
<1>2. run \in RunRecords /\ run.failure = "none" /\ run.outcome = "running" /\ ~run.finished
  BY DEF Init, NewRun, RunRecords, Failures
<1>3. PlanTypes /\ ExecTypes
  BY <1>2 DEF Init, MailboxInit, PlanTypes, ExecTypes
<1>4. FailureMeans /\ EndsOnce /\ SuccessIsEarned /\ FailureIsExplained
  BY <1>2 DEF Init, FailureMeans, EndsOnce, SuccessIsEarned, FailureIsExplained
<1>5. LateIsBlocked /\ RequestsAccounted
  BY <1>2 DEF Init, MailboxInit, LateIsBlocked, RequestsAccounted, AfterClose
<1>6. ProcessFollows /\ SuccessShownIsDelivered
  BY JobsAssumption DEF Init, JobsInit, ProcessFollows, SuccessShownIsDelivered, Active, Ended
<1>7. QED
  BY <1>1, <1>3, <1>4, <1>5, <1>6 DEF LifeInv, RunInv

\* The inductive invariant: what the failure record, the mailbox and the
\* dashboard's jobs mean at every moment of a run.
THEOREM LifeInvariant == Spec => []LifeInv
<1>1. LifeInv /\ [Next]_vars => LifeInv'
  BY WorkflowStep, DashboardStep DEF Next
<1>2. QED
  BY <1>1, LifeStart, PTL DEF Spec

\* A success has a sound report, a closed ledger, the validation asked for, no
\* dead node, no open blocker, and no failure on record but a damaged artifact.
THEOREM SuccessNeedsEverything == Spec => []SuccessIsEarned
<1>1. LifeInv => SuccessIsEarned
  BY DEF LifeInv, RunInv
<1>2. QED
  BY <1>1, LifeInvariant, PTL

\* A run that its workflow ends as failed has a failure on record, whichever
\* stages cleared the record in between.
THEOREM FailureHasReason == Spec => []FailureIsExplained
<1>1. LifeInv => FailureIsExplained
  BY DEF LifeInv, RunInv
<1>2. QED
  BY <1>1, LifeInvariant, PTL

\* No request is lost on the way to a success, however late it was queued.
THEOREM NoRequestLost == Spec => []RequestsAccounted
<1>1. LifeInv => RequestsAccounted
  BY DEF LifeInv, RunInv
<1>2. QED
  BY <1>1, LifeInvariant, PTL

\* The dashboard shows a success only of a run that was delivered.
THEOREM ShownIsDelivered == Spec => []SuccessShownIsDelivered
<1>1. LifeInv => SuccessShownIsDelivered
  BY DEF LifeInv
<1>2. QED
  BY <1>1, LifeInvariant, PTL
=============================================================================
