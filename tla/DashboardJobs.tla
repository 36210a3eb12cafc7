---------------------------- MODULE DashboardJobs ---------------------------
(***************************************************************************)
(* utils/dashboard_server.py: jobs the dashboard starts, one at a time,    *)
(* each a process of its own.  Requests are served by threads; jobs_lock   *)
(* makes one refresh or one cancellation a step, launch_lock is held from  *)
(* the check that no job runs to the registration of the new one.          *)
(*                                                                         *)
(* Only one job, Watched, is followed into its run and can be cancelled;   *)
(* the others are processes that outlast it.                               *)
(***************************************************************************)
EXTENDS Naturals, FiniteSets

CONSTANTS
  Jobs,       \* identifiers, in the order of their times
  Handlers,
  Watched

ASSUME JobsAssumption == Jobs \subseteq Nat /\ Watched \in Jobs

VARIABLES
  job,      \* what the dashboard shows of each job
  proc,     \* its process; "dying" after SIGTERM
  cleared   \* handlers that passed the admission check and hold launch_lock

jobVars == <<job, proc, cleared>>

JobsInit ==
  /\ job = [j \in Jobs |-> "none"] /\ proc = [j \in Jobs |-> "none"]
  /\ cleared = {}

Alive(j) == proc[j] \in {"alive", "dying"}

\* What audit_run says of the run directory of a job that ended: "success" or
\* "failed", or NoAudit when it raises.
NoAudit == "raises"

\* Mutant: a cancelled job is never looked at again.
CancelledIsFinal(j, audit) ==
  IF job[j] \in {"none", "cancelled"} THEN job[j]
  ELSE IF Alive(j) THEN "running"
  ELSE IF audit = NoAudit THEN job[j] ELSE audit

\* _refresh_job: a live process is running whatever was said of it before; the
\* audit of the run directory decides how a dead one is shown, unless it was
\* cancelled and has not been seen alive since.  An audit that raises fails the
\* request and leaves the job as it was shown.
Refreshed(j, audit) ==
  IF job[j] = "none" THEN "none"
  ELSE IF Alive(j) THEN "running"
  ELSE IF job[j] = "cancelled" \/ audit = NoAudit THEN job[j]
  ELSE audit

RefreshJob(j, audit) ==
  /\ job' = [job EXCEPT ![j] = Refreshed(j, audit)]
  /\ UNCHANGED <<proc, cleared>>

\* _active_job_count under launch_lock.  Refreshing a job whose audit raises
\* refuses the request too: that job is still shown as running.
Admit(h, audit) ==
  /\ cleared = {}
  /\ job' = [j \in Jobs |-> Refreshed(j, audit)]
  /\ cleared' = IF \E j \in Jobs : job'[j] = "running" THEN {} ELSE {h}
  /\ UNCHANGED proc

Launch(h, j) ==
  /\ h \in cleared /\ job[j] = "none" /\ \A k \in Jobs : k < j => job[k] # "none"
  /\ job' = [job EXCEPT ![j] = "running"]
  /\ proc' = [proc EXCEPT ![j] = "alive"]
  /\ cleared' = cleared \ {h}

\* A finished job can be cancelled too: only its status changes.
CancelJob(j) ==
  /\ job[j] # "none"
  /\ job' = [job EXCEPT ![j] = "cancelled"]
  /\ proc' = [proc EXCEPT ![j] = IF @ = "alive" THEN "dying" ELSE @]
  /\ UNCHANGED cleared

Exit(j) ==
  /\ Alive(j)
  /\ proc' = [proc EXCEPT ![j] = "dead"]
  /\ UNCHANGED <<job, cleared>>
=============================================================================
