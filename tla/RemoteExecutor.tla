---------------------------- MODULE RemoteExecutor -----------------------------
(***************************************************************************)
(* executor::remote::detail::Executor: jobs_, a map from UUIDs to jobs kept*)
(* beside the jobs the server runs for the session.  One thread calls it;  *)
(* a call makes several RPCs and takes one job of an answer at a time,     *)
(* while the server and the session's other clients go on.  Names that     *)
(* RemoteStorage has too begin with Executor, so that one module can extend*)
(* both.                                                                   *)
(***************************************************************************)
EXTENDS Naturals, FiniteSets

CONSTANTS
  Job,    \* the UUIDs the server may give to jobs
  Absent  \* the status of a job that is not there

(* The three names are those the code uses; "executing" stands for what    *)
(* else herd-common's JobStatus may hold, which is neither ready nor       *)
(* failed.  A job only moves up.                                           *)
Status == {"waiting", "executing", "completed", "failed"}

ASSUME ExecutorAssumption == Absent \notin Job \union Status

Rank(s) == IF s = "waiting" THEN 0 ELSE IF s = "executing" THEN 1 ELSE 2

VARIABLES
  atServer,  \* each job's status at the server, or Absent
  jobs,      \* each job's status in jobs_, or Absent
  running,   \* the call the program is in
  lost       \* history: jobs whose schedule() threw after the server had them

executorVars == <<atServer, jobs, running, lost>>

ExecutorIdle == [op |-> "idle"]

Answer == [Job -> Status \union {Absent}]

ExecutorCall ==
  {ExecutorIdle, [op |-> "schedule"]}
    \union [op : {"scheduled"}, job : Job]
    \union [op : {"sync"}, pendingOnly : BOOLEAN, known : SUBSET Job,
            infos : Answer, todo : SUBSET Job]
    \union [op : {"listed"}, pendingOnly : BOOLEAN, infos : Answer, output : SUBSET Job]

ExecutorTypeOK ==
  /\ atServer \in Answer
  /\ jobs \in Answer
  /\ running \in ExecutorCall
  /\ lost \subseteq Job

ExecutorInit ==
  /\ atServer = [j \in Job |-> Absent]
  /\ jobs = [j \in Job |-> Absent]
  /\ running = ExecutorIdle
  /\ lost = {}

CacheJobs == {j \in Job : jobs[j] # Absent}

(***************************************************************************)
(* schedule                                                                *)
(***************************************************************************)

(* One call at a time; a listing that was returned may be used or dropped. *)
Ready == running.op \in {"idle", "listed"}

Schedule ==
  /\ Ready
  /\ running' = [op |-> "schedule"]
  /\ UNCHANGED <<atServer, jobs, lost>>

ServerSchedules(j) ==
  /\ running.op = "schedule" /\ atServer[j] = Absent
  /\ atServer' = [atServer EXCEPT ![j] = "waiting"]
  /\ running' = [op |-> "scheduled", job |-> j]
  /\ UNCHANGED <<jobs, lost>>

(* Mutants: the job is taken to run from the start; a status nobody knows. *)
FirstStatusExecuting == "executing"
FirstStatusUnknown == "scheduled"

(* Whatever the server has done with the job by the time the answer comes. *)
FirstStatus == "waiting"

ScheduleReturns ==
  /\ running.op = "scheduled"
  /\ jobs' = [jobs EXCEPT ![running.job] = IF @ = Absent THEN FirstStatus ELSE @]
  /\ running' = ExecutorIdle
  /\ UNCHANGED <<atServer, lost>>

(* The RPC fails, before or after the server took the job. *)
ScheduleThrows ==
  /\ running.op \in {"schedule", "scheduled"}
  /\ lost' = IF running.op = "scheduled" THEN lost \union {running.job} ELSE lost
  /\ running' = ExecutorIdle
  /\ UNCHANGED <<atServer, jobs>>

(***************************************************************************)
(* list_jobs and sync_cache                                                *)
(***************************************************************************)

(* The list RPC answers; cache_job_uuids is taken after it.  When the RPC  *)
(* fails, list_jobs throws and nothing changes: no action.                 *)
ListJobs(pendingOnly) ==
  /\ Ready
  /\ running' = [op |-> "sync", pendingOnly |-> pendingOnly, known |-> CacheJobs,
                 infos |-> atServer, todo |-> {j \in Job : atServer[j] # Absent}]
  /\ UNCHANGED <<atServer, jobs, lost>>

(* Mutant: only the ends are kept. *)
KeepEnds(s) == IF Rank(s) = 2 THEN s ELSE "waiting"

StatusOf(s) == s

(* One entry of the answer that jobs_ knows: set_status. *)
SetStatus(j) ==
  /\ running.op = "sync" /\ j \in running.todo \intersect running.known
  /\ jobs' = [jobs EXCEPT ![j] = StatusOf(running.infos[j])]
  /\ running' = [running EXCEPT !.todo = @ \ {j}]
  /\ UNCHANGED <<atServer, lost>>

(* One that jobs_ does not know: its plan is asked for with another RPC,   *)
(* and it enters the map with the status of the list, older than the plan. *)
Describe(j) ==
  /\ running.op = "sync" /\ j \in running.todo \ running.known
  /\ jobs' = [jobs EXCEPT ![j] = IF @ = Absent THEN running.infos[j] ELSE @]
  /\ running' = [running EXCEPT !.todo = @ \ {j}]
  /\ UNCHANGED <<atServer, lost>>

(* That RPC fails: list_jobs throws with the answer half applied. *)
DescribeThrows(j) ==
  /\ running.op = "sync" /\ j \in running.todo \ running.known
  /\ running' = ExecutorIdle
  /\ UNCHANGED <<atServer, jobs, lost>>

(* Mutant: the jobs of before the call. *)
ListedBefore == running.known

Pending(j) == jobs[j] \notin {"completed", "failed"}

Listed == CacheJobs

ListReturns ==
  /\ running.op = "sync" /\ running.todo = {}
  /\ running' = [op |-> "listed", pendingOnly |-> running.pendingOnly,
                 infos |-> running.infos,
                 output |-> {j \in Listed : running.pendingOnly => Pending(j)}]
  /\ UNCHANGED <<atServer, jobs, lost>>

(***************************************************************************)
(* The server and the session's other clients                              *)
(***************************************************************************)

OtherSchedules(j) ==
  /\ atServer[j] = Absent
  /\ atServer' = [atServer EXCEPT ![j] = "waiting"]
  /\ UNCHANGED <<jobs, running, lost>>

ServerAdvances(j) ==
  /\ atServer[j] # Absent
  /\ \E s \in Status :
       /\ Rank(s) > Rank(atServer[j])
       /\ atServer' = [atServer EXCEPT ![j] = s]
  /\ UNCHANGED <<jobs, running, lost>>

--------------------------------------------------------------------------------

ExecutorNext ==
  \/ Schedule \/ ScheduleReturns \/ ScheduleThrows \/ ListReturns
  \/ \E pendingOnly \in BOOLEAN : ListJobs(pendingOnly)
  \/ \E j \in Job :
       \/ ServerSchedules(j) \/ SetStatus(j) \/ Describe(j) \/ DescribeThrows(j)
       \/ OtherSchedules(j) \/ ServerAdvances(j)

ExecutorSpec == ExecutorInit /\ [][ExecutorNext]_executorVars

--------------------------------------------------------------------------------

(* A job is never shown further than the server took it, nor with another  *)
(* outcome, although answers are used after the server has gone on and a   *)
(* failed describe leaves some jobs synchronised and others not.           *)
NeverAhead ==
  \A j \in CacheJobs :
    /\ atServer[j] # Absent
    /\ jobs[j] = atServer[j] \/ Rank(jobs[j]) < Rank(atServer[j])

(* ready() and failed() never become false again and no status goes back,  *)
(* whatever half-applied or late answers come after.                       *)
NeverBack ==
  [][\A j \in CacheJobs :
       /\ jobs'[j] # Absent
       /\ jobs'[j] = jobs[j] \/ Rank(jobs[j]) < Rank(jobs'[j])]_executorVars

(* What list_jobs returns is what the server's answer says, no more and no *)
(* less: every job of the answer, or with pending_only every one that was  *)
(* neither completed nor failed then, whether jobs_ had it before or not.  *)
ListingIsAnswer ==
  running.op = "listed" =>
    running.output = {j \in Job : /\ running.infos[j] # Absent
                                  /\ running.pendingOnly => Rank(running.infos[j]) < 2}

(* A job whose schedule() threw although the server took it is not lost:   *)
(* the next listing that returns has put it in jobs_, like other clients'. *)
LostJobsSurface ==
  running.op = "listed" =>
    \A j \in lost : running.infos[j] # Absent /\ jobs[j] # Absent

(* A listing that returns can be relied on: it is the server's answer, and *)
(* nothing the server took is missing from it or from jobs_.               *)
ListingIsComplete == ListingIsAnswer /\ LostJobsSurface
================================================================================
