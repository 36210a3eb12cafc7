---------------------------- MODULE RunLifecycle ----------------------------
(***************************************************************************)
(* A run from its process's start to its verdict: main.py and              *)
(* run_explicit_workflow of core/workflow.py, with RunState's gates and    *)
(* utils/review_artifacts.py, beside the dashboard that starts it, asks it *)
(* for faults, cancels it and in the end says how it went.                 *)
(*                                                                         *)
(* The graph is a line of nodes and the scheduler runs each once; retries, *)
(* replans, repair targets and staging are in the modules of their own.    *)
(***************************************************************************)
EXTENDS InjectionMailbox, DashboardJobs

CONSTANTS
  Size,              \* nodes of the graph; with code the first one writes it
  MaxUnderstanding,  \* task_understanding_policy.max_understanding_attempts
  MaxRefinement,     \* max_requirement_revision_rounds
  MaxReplays         \* recovery_policy.max_business_repair_rounds

ASSUME LifecycleAssumption == {Size, MaxUnderstanding, MaxRefinement, MaxReplays} \subseteq Nat

Nodes == 1..Size

VARIABLES
  conf,        \* code_policy asks for code; business validation is required
  pc,
  tries,       \* understanding attempts, then refinement rounds
  replays,     \* replays of the repair loop
  status, codeNode,
  snapshot,    \* requests poll_requests has read and not answered yet
  item,        \* the injection each accepted request has become
  normalized,  \* normalized_input.json exists
  files,       \* all intermediate artifacts exist and parse
  damaged,     \* a completed node's artifact is no longer what it was
  report,      \* final_report.md: "none", "sound", "unsound"
  run,         \* RunState
  blockers,    \* kinds of unresolved blocking issues
  checking     \* an injection request has passed the handler's checks

planVars == <<conf, tries, replays, codeNode, normalized>>
execVars == <<status, snapshot, item, files, damaged>>
vars == <<planVars, execVars, pc, report, run, blockers, checking, mailboxVars, jobVars>>

\* What a workflow step leaves to the other actors.
dashboard == <<jobVars, checking>>

Active == {"start", "prepare", "understand", "contract", "invalid", "plan", "exec", "answer", "ack", "route",
           "validate", "repair", "quality", "close", "review", "report", "deliver", "final"}

NodesOf(S) == {n \in Nodes : status[n] \in S}
Dead == NodesOf({"failed", "blocked"})
GraphOutcome ==
  IF NodesOf({"failed"}) # {} THEN "failed" ELSE IF Dead # {} THEN "blocked" ELSE "success"

NewRun == [failure |-> "none", graph |-> "pending", business |-> "unverified",
           ledger |-> "unverified", quality |-> "none", exit |-> "none",
           review |-> "pending", can |-> FALSE, outcome |-> "running", finished |-> FALSE]

\* set_failure replaces whatever was there.
Failing(r, f) == [r EXCEPT !.failure = f]

Init ==
  /\ MailboxInit /\ JobsInit
  /\ conf \in [code : BOOLEAN, required : BOOLEAN]
  /\ pc = "idle"
  /\ tries = 0 /\ replays = 0 /\ codeNode = FALSE /\ normalized = FALSE
  /\ status = [n \in Nodes |-> "pending"]
  /\ snapshot = {} /\ item = [r \in Requests |-> "none"]
  /\ files = FALSE /\ damaged = FALSE /\ report = "none"
  /\ run = NewRun /\ blockers = {} /\ checking = FALSE

-----------------------------------------------------------------------------
(* What the framework holds against a delivery                             *)

\* The part pre_report_review and final_validation share.
Objections ==
  {o \in {"files", "graph", "nodes", "business", "ledger", "blockers"} :
     \/ o = "files" /\ ~files
     \/ o = "graph" /\ run.graph = "failed"
     \/ o = "nodes" /\ Dead # {}
     \/ o = "business" /\ run.business \notin (IF conf.required THEN {"passed"}
                                               ELSE {"passed", "unverified"})
     \/ o = "ledger" /\ run.ledger # "passed"
     \/ o = "blockers" /\ blockers # {}}

ExecutionFailed == conf.code /\ run.exit # "ok"

\* record_review: open blockers turn any decision into a refusal.
Reviewed(r, decision, can, open) ==
  [r EXCEPT !.review = IF open # {} THEN "failed" ELSE decision,
            !.can = can /\ open = {}]

AllowReport ==
  /\ run.can /\ run.review \in {"passed", "partial"}
  /\ blockers = {} /\ run.ledger = "passed"
  /\ conf.required => run.business = "passed"

\* final_validation; with an unsound report every check of its content is meant.
FinalDecision ==
  IF Objections # {} \/ ~normalized \/ report # "sound" THEN "failed"
  ELSE IF ExecutionFailed \/ run.review = "partial" THEN "partial"
  ELSE "passed"

OutcomeOf(decision) == IF decision = "passed" THEN "success" ELSE decision

\* run_state.json exists.
Opened == pc \notin {"idle", "start", "unopened"}

\* Mutant: a run that came to its end was a success.
FinishedIsSuccess == IF ~Opened THEN NoAudit ELSE IF run.finished THEN "success" ELSE "failed"

\* audit_run on the run directory; the file of an evidence verification it also
\* asks for is left out.
Audit ==
  IF ~Opened THEN NoAudit
  ELSE IF /\ run.finished /\ run.outcome = "success"
          /\ run.business = "passed" /\ run.ledger = "passed" /\ run.can
          /\ report # "none" /\ Dead = {} /\ blockers = {}
       THEN "success"
  ELSE "failed"

-----------------------------------------------------------------------------
(* Before the graph                                                        *)

\* main names the run directory, reads its input, makes the RunState and compiles
\* the TaskSpec, all outside its try: an exception leaves no run_state.json or
\* one that says nothing of it.
OpenRun ==
  /\ pc = "start" /\ pc' \in {"prepare", "unopened", "dropped"}
  /\ UNCHANGED <<planVars, execVars, report, run, blockers, mailboxVars, dashboard>>

\* Inputs that cannot be normalised are a failure on record; the run goes on.
Prepare ==
  /\ pc = "prepare" /\ pc' = "understand"
  /\ normalized' \in BOOLEAN
  /\ run' = IF normalized' THEN run ELSE Failing(run, "input")
  /\ UNCHANGED <<conf, tries, replays, codeNode, execVars, report, blockers, mailboxVars,
                 dashboard>>

\* One attempt, and after the last one the contract is compiled from what there
\* is; it may be valid or not.
Understand ==
  /\ pc = "understand"
  /\ \E understood \in BOOLEAN :
       IF understood \/ tries + 1 >= MaxUnderstanding
       THEN /\ tries' = 0
            /\ pc' \in {"plan", IF understood /\ MaxRefinement > 0 THEN "contract" ELSE "invalid"}
       ELSE tries' = tries + 1 /\ pc' = pc
  /\ UNCHANGED <<conf, replays, codeNode, normalized, execVars, report, run, blockers,
                 mailboxVars, dashboard>>

\* One round for a contract that is not valid yet; an answer that cannot be parsed
\* twice leaves it as it is.
RefineContract ==
  /\ pc = "contract"
  /\ \/ pc' = "plan" /\ tries' = 0
     \/ tries + 1 < MaxRefinement /\ pc' = pc /\ tries' = tries + 1
     \/ tries + 1 = MaxRefinement /\ pc' = "invalid" /\ tries' = 0
  /\ UNCHANGED <<conf, replays, codeNode, normalized, execVars, report, run, blockers,
                 mailboxVars, dashboard>>

\* _finish_planning_blocked: a failed delivery, the mailbox left as it is.
BlockPlanning ==
  /\ pc \in {"invalid", "plan"}
  /\ run' = [Reviewed(Failing(run, pc), "failed", FALSE, blockers)
               EXCEPT !.outcome = "failed", !.finished = TRUE]
  /\ pc' = "blocked"
  /\ UNCHANGED <<planVars, execVars, report, blockers, mailboxVars, dashboard>>

\* A graph of the planner or the fallback graph; only code_policy asks for a
\* node that writes code.
PlanGraph ==
  /\ pc = "plan" /\ pc' = "exec"
  /\ codeNode' \in IF conf.code THEN BOOLEAN ELSE {FALSE}
  /\ UNCHANGED <<conf, tries, replays, normalized, execVars, report, run, blockers,
                 mailboxVars, dashboard>>

-----------------------------------------------------------------------------
(* The scheduler                                                           *)

\* poll_requests works on what it has read, before failures block anything.
PollRequests ==
  /\ pc = "exec" /\ NodesOf({"pending"}) # {}
  /\ snapshot' = Queued /\ pc' = "answer"
  /\ UNCHANGED <<planVars, status, item, files, damaged, report, run, blockers,
                 mailboxVars, dashboard>>

NextAnswer(r) == pc = "answer" /\ r \in snapshot /\ \A q \in snapshot : r <= q

\* No pending node matches the request's target.
RejectRequest(r) ==
  /\ NextAnswer(r)
  /\ snapshot' = snapshot \ {r}
  /\ Acknowledge(r, "rejected")
  /\ UNCHANGED <<planVars, status, item, files, damaged, pc, report, run, blockers, dashboard>>

\* The injection is armed in RunState, then the request is answered.
ArmInjection(r) ==
  /\ NextAnswer(r)
  /\ item' = [item EXCEPT ![r] = "armed"] /\ pc' = "ack"
  /\ UNCHANGED <<planVars, status, snapshot, files, damaged, report, run, blockers,
                 mailboxVars, dashboard>>

AcceptRequest ==
  /\ pc = "ack" /\ pc' = "answer"
  /\ \E r \in snapshot :
       /\ \A q \in snapshot : r <= q
       /\ snapshot' = snapshot \ {r} /\ Acknowledge(r, "accepted")
  /\ UNCHANGED <<planVars, status, item, files, damaged, report, run, blockers, dashboard>>

\* Failures are passed on before a node is picked.
BlockDependents ==
  /\ pc = "answer" /\ snapshot = {}
  /\ status' = [n \in Nodes |-> IF status[n] = "pending" /\ \E m \in Dead : m < n
                                 THEN "blocked" ELSE status[n]]
  /\ pc' = IF \E n \in Nodes : status'[n] = "pending" THEN "route" ELSE "exec"
  /\ UNCHANGED <<planVars, snapshot, item, files, damaged, report, run, blockers,
                 mailboxVars, dashboard>>

Writes(n) == codeNode /\ n = 1

\* The code node completes with an exit code of zero and sound artifacts, which
\* settles an earlier failure of either; otherwise it leaves one.
AfterCode(ok) ==
  IF ok THEN [run EXCEPT !.exit = "ok", !.quality = "passed",
                         !.failure = IF @ \in {"execution", "artifact"} THEN "none" ELSE @]
  ELSE [run EXCEPT !.exit = "bad", !.failure = "execution"]

\* The next node completes or fails, with the injections that hit it: those of a
\* node that completes have recovered.  It may spoil the files of others.
RunNode ==
  /\ pc = "route"
  /\ \E n \in NodesOf({"pending"}) :
       /\ \A m \in NodesOf({"pending"}) : n <= m
       /\ \E ok \in BOOLEAN, hit \in SUBSET {r \in Requests : item[r] = "armed"} :
          /\ status' = [status EXCEPT ![n] = IF ok THEN "completed" ELSE "failed"]
          /\ item' = [r \in Requests |-> IF r \notin hit THEN item[r]
                                         ELSE IF ok THEN "recovered" ELSE "recovering"]
          /\ run' = IF Writes(n) THEN AfterCode(ok) ELSE run
          /\ files' \in IF Writes(n) /\ ok THEN {TRUE} ELSE BOOLEAN
          /\ damaged' \in IF n = 1 THEN {FALSE} ELSE {damaged, TRUE}
  /\ pc' = "exec"
  /\ UNCHANGED <<planVars, snapshot, report, blockers, mailboxVars, dashboard>>

\* The end of GraphScheduler.run; a replay that fails ends the repair.
FinishExecution ==
  /\ pc = "exec" /\ NodesOf({"pending"}) = {}
  /\ LET outcome == IF damaged THEN "failed" ELSE GraphOutcome
         failure == IF damaged THEN "integrity"
                    ELSE IF outcome = "failed" /\ run.failure = "none" THEN "node"
                    ELSE IF outcome = "success"
                            /\ run.failure \in {"execution", "artifact", "integrity", "node"}
                    THEN "none" ELSE run.failure
     IN run' = [run EXCEPT !.graph = outcome, !.failure = failure]
  /\ pc' = IF replays > 0 /\ Dead # {} THEN "quality" ELSE "validate"
  /\ UNCHANGED <<planVars, execVars, report, blockers, mailboxVars, dashboard>>

-----------------------------------------------------------------------------
(* Validation, repair and the gates                                        *)

\* Mutant: a verdict that passes leaves the failure of an earlier one.
VerdictNotCleared(r, verdict) ==
  [r EXCEPT !.business = verdict,
            !.failure = IF conf.required /\ verdict # "passed" THEN "business" ELSE @]

RecordVerdict(r, verdict) ==
  [r EXCEPT !.business = verdict,
            !.failure = IF conf.required /\ verdict # "passed" THEN "business"
                        ELSE IF verdict = "passed" /\ @ = "business" THEN "none" ELSE @]

\* The business ledger is one of the validation's checks, so only a failed
\* verdict comes with a ledger that is not closed.
Validate ==
  /\ pc = "validate" /\ pc' = "repair"
  /\ \E verdict \in {"passed", "failed", "unverified"}, ledger \in {"passed", "failed"},
        open \in BOOLEAN :
       /\ ledger = "failed" => verdict = "failed"
       /\ verdict = "failed" => open
       /\ run' = [RecordVerdict(run, verdict) EXCEPT !.ledger = ledger]
       /\ blockers' = IF open THEN blockers \cup {"repair"} ELSE blockers \ {"repair"}
  /\ UNCHANGED <<planVars, execVars, report, mailboxVars, dashboard>>

\* Mutant: rounds are not counted.
Uncounted == replays < MaxReplays /\ replays' = replays

NextRound == replays < MaxReplays /\ replays' = replays + 1

\* A round of BusinessRepairLoop reopens a completed node and what follows it.
Replay ==
  /\ pc = "repair" /\ "repair" \in blockers /\ Dead = {} /\ NextRound
  /\ \E n \in Nodes :
       status' = [m \in Nodes |-> IF m >= n THEN "pending" ELSE status[m]]
  /\ pc' = "exec"
  /\ UNCHANGED <<conf, tries, codeNode, normalized, snapshot, item, files, damaged,
                 report, run, blockers, mailboxVars, dashboard>>

EndRepair ==
  /\ pc = "repair" /\ pc' = "quality"
  /\ UNCHANGED <<planVars, execVars, report, run, blockers, mailboxVars, dashboard>>

\* The quality a code node recorded is taken over; without one it is measured.
CheckQuality ==
  /\ pc = "quality" /\ pc' = "close"
  /\ run' = CASE run.quality # "none" -> run
              [] run.quality = "none" /\ files ->
                   [run EXCEPT !.quality = "passed",
                               !.failure = IF @ \in {"execution", "artifact"} THEN "none" ELSE @]
              [] OTHER ->
                   [run EXCEPT !.quality = "failed",
                               !.failure = IF @ \in {"input", "execution"} THEN @ ELSE "artifact"]
  /\ UNCHANGED <<planVars, execVars, report, blockers, mailboxVars, dashboard>>

\* Mutant: what the mailbox still held is dropped.
OnlyUnrecovered ==
  IF \E r \in Requests : item[r] \notin {"none", "recovered"} THEN {"unrecovered"} ELSE {}

\* Requests nobody consumed and injections that did not recover block delivery.
LeftOver ==
  (IF Queued # {} THEN {"unconsumed"} ELSE {})
    \cup (IF \E r \in Requests : item[r] \notin {"none", "recovered"} THEN {"unrecovered"}
          ELSE {})

\* The outcome is computed anew from the nodes alone.
CloseRun ==
  /\ pc = "close" /\ pc' = "review"
  /\ blockers' = blockers \cup LeftOver
  /\ CloseMailbox
  /\ run' = [run EXCEPT !.graph = GraphOutcome]
  /\ UNCHANGED <<planVars, execVars, report, dashboard>>

\* The reviewer is asked only when the framework agrees; the issues it finds
\* block whatever the framework has decided.
Review ==
  /\ pc = "review" /\ pc' = "report"
  /\ LET refused == Objections # {} \/ run.quality = "failed"
     IN \E found \in IF refused THEN {{}} ELSE {{}, {"semantic"}} :
          /\ blockers' = blockers \cup found
          /\ run' = Reviewed(run, IF refused THEN "failed"
                                  ELSE IF ExecutionFailed THEN "partial" ELSE "passed",
                             ~refused, blockers')
  /\ UNCHANGED <<planVars, execVars, report, mailboxVars, dashboard>>

\* One call; without an answer the report is put together from the evidence.
WriteReport ==
  /\ pc = "report" /\ pc' = "deliver"
  /\ report' \in IF AllowReport THEN {"sound", "unsound"} ELSE {report}
  /\ UNCHANGED <<planVars, execVars, run, blockers, mailboxVars, dashboard>>

\* The criteria of the delivery phase join those of the last validation.
AcceptDelivery ==
  /\ pc = "deliver" /\ pc' = "final"
  /\ \E ledger \in IF run.ledger = "passed" THEN {"passed", "failed"} ELSE {run.ledger} :
       run' = [run EXCEPT !.ledger = ledger, !.graph = GraphOutcome]
  /\ UNCHANGED <<planVars, execVars, report, blockers, mailboxVars, dashboard>>

\* Mutant: a failed validation is not written down.
NothingRecorded(r) == r

\* The first failure on record is kept.
RecordFinalFailure(r) == IF r.failure = "none" THEN Failing(r, "final_validation") ELSE r

FinalValidate ==
  /\ pc = "final" /\ pc' = "returned"
  /\ LET decision == FinalDecision
         recorded == IF decision = "failed" THEN RecordFinalFailure(run) ELSE run
     IN run' = [Reviewed(recorded, decision, report # "none" /\ decision # "failed", blockers)
                  EXCEPT !.outcome = OutcomeOf(decision), !.finished = TRUE]
  /\ UNCHANGED <<planVars, execVars, report, blockers, mailboxVars, dashboard>>

\* main: whatever the workflow does not catch ends the run as failed.
Raise ==
  /\ pc \in {"plan", "route", "repair", "report"}
  /\ run' = [run EXCEPT !.outcome = "failed", !.finished = TRUE] /\ pc' = "raised"
  /\ UNCHANGED <<planVars, execVars, report, blockers, mailboxVars, dashboard>>

-----------------------------------------------------------------------------
(* The dashboard                                                           *)

others == <<planVars, execVars, report, run, blockers>>

StartJob ==
  /\ \E h \in Handlers, j \in Jobs :
       Launch(h, j) /\ pc' = IF j = Watched THEN "start" ELSE pc
  /\ UNCHANGED <<others, mailboxVars, checking>>

AskAdmission ==
  /\ \E h \in Handlers : Admit(h, Audit)
  /\ UNCHANGED <<others, pc, mailboxVars, checking>>

LookAtJob ==
  /\ \E j \in Jobs : RefreshJob(j, Audit)
  /\ UNCHANGED <<others, pc, mailboxVars, checking>>

Cancel ==
  /\ CancelJob(Watched)
  /\ UNCHANGED <<others, pc, mailboxVars, checking>>

\* The handler refreshes the job and reads run_state.json, then the body.
CheckInjection ==
  /\ ~checking /\ Alive(Watched) /\ Opened /\ ~run.finished
  /\ RefreshJob(Watched, Audit) /\ checking' = TRUE
  /\ UNCHANGED <<others, pc, mailboxVars>>

Enqueue ==
  /\ checking /\ checking' = FALSE
  /\ IF Room THEN EnqueueRequest ELSE UNCHANGED mailboxVars
  /\ UNCHANGED <<others, pc, jobVars>>

ProcessEnds ==
  /\ pc \in {"unopened", "dropped", "returned", "blocked", "raised"}
  /\ Exit(Watched)
  /\ UNCHANGED <<others, pc, mailboxVars, checking>>

\* SIGTERM has no handler: the process stops where it is.
Killed ==
  /\ pc \in Active /\ proc[Watched] = "dying"
  /\ Exit(Watched) /\ pc' = IF pc = "start" THEN "unopened" ELSE "killed"
  /\ UNCHANGED <<others, mailboxVars, checking>>

-----------------------------------------------------------------------------
Workflow ==
  \/ OpenRun \/ Prepare \/ Understand \/ RefineContract \/ BlockPlanning \/ PlanGraph
  \/ PollRequests \/ BlockDependents \/ RunNode \/ FinishExecution
  \/ \E r \in Requests : RejectRequest(r) \/ ArmInjection(r)
  \/ AcceptRequest
  \/ Validate \/ Replay \/ EndRepair \/ CheckQuality \/ CloseRun
  \/ Review \/ WriteReport \/ AcceptDelivery \/ FinalValidate \/ Raise

Dashboard ==
  StartJob \/ AskAdmission \/ LookAtJob \/ Cancel \/ CheckInjection \/ Enqueue

Next == Workflow \/ Dashboard \/ ProcessEnds \/ Killed

Spec == Init /\ [][Next]_vars

\* The event loop goes on and every model call has a timeout; a process that is
\* through with main ends.  Nothing is assumed of the dashboard or its users.
FairSpec == Spec /\ WF_vars(Workflow) /\ WF_vars(ProcessEnds)

-----------------------------------------------------------------------------
(* Properties                                                              *)

\* A run is delivered as a success only with a sound report, a closed ledger,
\* the validation its policy asks for, no dead node and no open blocker, and the
\* only failure still on record can be a damaged artifact, which the outcome
\* recomputed after the repair forgets.
SuccessIsEarned ==
  run.outcome = "success" =>
    /\ report = "sound" /\ run.ledger = "passed" /\ run.business # "failed"
    /\ conf.required => run.business = "passed"
    /\ Dead = {} /\ blockers = {}
    /\ run.failure \in {"none", "integrity"}

\* A run the workflow itself ends as failed says why: the one failure record,
\* written and cleared by every stage, is not empty in the end.
FailureIsExplained ==
  pc \in {"returned", "blocked"} /\ run.outcome = "failed" => run.failure # "none"

\* No request the dashboard took is lost on the way to a success: it was refused
\* with an answer or became an injection the run has recovered from, however
\* late it came.
RequestsAccounted ==
  /\ pc = "returned" => Queued = {}
  /\ run.outcome = "success" =>
       \A r \in Requests : \/ request[r] \in {"none", "rejected"}
                           \/ request[r] = "accepted" /\ item[r] = "recovered"

\* The dashboard never has two processes at work, though jobs are cancelled,
\* take time to die and are started by threads of their own.
OneProcess == Cardinality({j \in Jobs : Alive(j)}) <= 1

\* A job shown as a success is a run delivered with its report and with its
\* business validation passed, whatever its exit code.
SuccessShownIsDelivered ==
  job[Watched] = "success" =>
    /\ ~Alive(Watched) /\ run.outcome = "success" /\ report = "sound"
    /\ run.business = "passed"

\* A process that starts ends, killed or not.
RunEnds == proc[Watched] = "alive" ~> proc[Watched] = "dead"
=============================================================================
