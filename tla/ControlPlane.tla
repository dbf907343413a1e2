----------------------------- MODULE ControlPlane -----------------------------
(***************************************************************************)
(* The control plane of CrateProbe: the jobs and runners tables of the     *)
(* SQLite database (backend/app/database.py), the HTTP handlers that       *)
(* change them (backend/app/main.py) and the background scheduler          *)
(* (backend/app/services/scheduler.py).                                    *)
(*                                                                         *)
(* Concurrency.  Every handler body and the scheduler pass run on one      *)
(* asyncio event loop and none of those modelled here awaits between its   *)
(* first read and its last commit, so each body is one action.  The        *)
(* authentication dependency is a plain def: FastAPI runs it in a thread   *)
(* pool, so other handlers run between the check and the body.  authed     *)
(* counts a runner's requests that are past the check and not yet served.  *)
(*                                                                         *)
(* Time.  lease_expires_at and last_state_sync_at are kept as the time     *)
(* left before the scheduler's comparison with now() becomes true, and     *)
(* Tick lets one unit pass; 0 is "expired".                                *)
(*                                                                         *)
(* The runners are the environment here: a runner may send any request     *)
(* with a lease it was granted, at any time and in any order, which covers *)
(* delayed, duplicated and reordered requests.                             *)
(***************************************************************************)
EXTENDS Integers, FiniteSets

CONSTANTS
  Runners,      \* runner ids
  MaxJobs,      \* bound: job ids the AUTOINCREMENT column hands out
  MaxLeases,    \* bound: lease tokens issued, over all jobs
  MaxSeq,       \* bound: largest sync_seq a runner sends
  MaxInFlight,  \* bound: requests of one runner past authentication
  Priorities,   \* priorities a user may set
  Reported,     \* terminal statuses a runner reports
  LeaseTTL,     \* lease_ttl_seconds
  MaxSync,      \* max_state_sync_interval_seconds
  NoRunner      \* runner_id IS NULL

Jobs == 1..MaxJobs
Leases == 1..MaxLeases
NoLease == 0
Never == -1

Terminal ==
  {"completed", "failed", "cancelled", "timeout", "oom", "runner_failed"}
Status == {"pending", "running"} \cup Terminal

ASSUME BoundsAssumption ==
  /\ MaxJobs \in Nat \ {0}
  /\ MaxLeases \in Nat \ {0}
  /\ MaxSeq \in Nat \ {0}
  /\ MaxInFlight \in Nat \ {0}
ASSUME TimeAssumption == LeaseTTL \in Nat /\ MaxSync \in Nat
ASSUME ValuesAssumption ==
  /\ NoRunner \notin Runners
  /\ Priorities \subseteq Int
  /\ Reported \subseteq Terminal

VARIABLES
  up,        \* is the server process running?
  job,       \* the jobs table: job id -> row
  nextJob,   \* the next id of the AUTOINCREMENT column
  files,     \* job id -> leases whose pushed files or artifacts are stored
  reg,       \* the runners table: runner id -> "absent", "enabled", "disabled"
  authed,    \* runner id -> requests past require_runner_auth, not yet served
  issued,    \* lease tokens drawn so far; token_urlsafe never repeats one
  grant      \* lease -> what its holder learnt from the claim response

vars == <<up, job, nextJob, files, reg, authed, issued, grant>>

Rows == [status    : Status \cup {"absent"},
         runner    : Runners \cup {NoRunner},
         lease     : Leases \cup {NoLease},
         leaseLeft : 0..LeaseTTL,
         seq       : 0..MaxSeq,
         syncLeft  : 0..MaxSync \cup {Never},
         priority  : Int,
         attempt   : Nat,
         started   : {"null", "set"},
         finished  : {"null", "set"},
         outcome   : Leases \cup {NoLease},
         error     : {"none", "interrupted", "stale"}]

NoGrant == [runner |-> NoRunner, job |-> 0]
Grants == [runner : Runners \cup {NoRunner}, job : Jobs \cup {0}]

AbsentRow ==
  [status |-> "absent", runner |-> NoRunner, lease |-> NoLease,
   leaseLeft |-> 0, seq |-> 0, syncLeft |-> Never, priority |-> 0,
   attempt |-> 0, started |-> "null", finished |-> "null",
   outcome |-> NoLease, error |-> "none"]

-------------------------------------------------------------------------------
(* What each statement of database.py does to one row.                       *)

\* create_job: INSERT with the column defaults.
CreatedRow == [AbsentRow EXCEPT !.status = "pending"]

\* claim_pending_job: the UPDATE that starts an attempt under lease t.
ClaimedRow(row, r, t) ==
  [row EXCEPT !.status = "running", !.runner = r, !.lease = t,
              !.leaseLeft = LeaseTTL, !.started = "set", !.finished = "null",
              !.outcome = NoLease, !.error = "none", !.seq = 0,
              !.syncLeft = MaxSync]

\* Fault: a status nobody else knows.
ResetRowQueued(row) ==
  [row EXCEPT !.status = "queued", !.started = "null", !.finished = "null",
              !.outcome = NoLease, !.error = "none", !.runner = NoRunner,
              !.lease = NoLease, !.leaseLeft = 0, !.seq = 0,
              !.syncLeft = Never]

\* reset_job_for_retry
ResetRow(row) ==
  [row EXCEPT !.status = "pending", !.started = "null", !.finished = "null",
              !.outcome = NoLease, !.error = "none", !.runner = NoRunner,
              !.lease = NoLease, !.leaseLeft = 0, !.seq = 0,
              !.syncLeft = Never]

\* cancel_task on a RUNNING job: only status and finished_at are written, the
\* lease stays and the runner is not told.
CancelledRow(row) ==
  [row EXCEPT !.status = "cancelled", !.finished = "set"]

\* _cleanup_remaining_tasks and recover_orphaned_tasks on a RUNNING job.
InterruptedRow(row) ==
  [row EXCEPT !.status = "failed", !.finished = "set", !.error = "interrupted"]

\* reconcile_expired_leases
RequeueExpired(row) ==
  IF row.status = "running" /\ row.lease # NoLease /\ row.leaseLeft = 0
  THEN [row EXCEPT !.status = "pending", !.runner = NoRunner,
                   !.lease = NoLease, !.leaseLeft = 0,
                   !.attempt = @ + 1]
  ELSE row

\* reconcile_stale_jobs; error_message is kept when there is one (COALESCE).
FailStale(row) ==
  IF row.status = "running" /\ row.syncLeft = 0
  THEN [row EXCEPT !.status = "runner_failed", !.finished = "set",
                   !.syncLeft = Never,
                   !.error = IF @ = "none" THEN "stale" ELSE @]
  ELSE row

\* Fault: a heartbeat counts as a state sync.
ExtendedTouchingSync(row, r) ==
  IF row.status = "running" /\ row.runner = r
  THEN [row EXCEPT !.leaseLeft = LeaseTTL, !.syncLeft = MaxSync]
  ELSE row

\* extend_runner_job_leases
ExtendedRow(row, r) ==
  IF row.status = "running" /\ row.runner = r
  THEN [row EXCEPT !.leaseLeft = LeaseTTL]
  ELSE row

\* Faults: syncs apply in any order; a finished job is taken back to running.
SyncAppliesAnyOrder(row, q, s) == ~(row.status \in Terminal /\ s = "running")
SyncAppliesRollingBack(row, q, s) == q > row.seq

\* apply_job_sync: a sync is applied when its sequence number is new and it
\* does not take a finished job back to running.
SyncApplies(row, q, s) ==
  /\ q > row.seq
  /\ ~(row.status \in Terminal /\ s = "running")

SyncedRow(row, t, q, s) ==
  [row EXCEPT !.seq = q, !.syncLeft = MaxSync, !.status = s,
              !.started = IF s = "running" THEN "set" ELSE @,
              !.finished = IF s \in Terminal THEN "set" ELSE @,
              !.outcome = IF s \in Terminal THEN t ELSE @]

\* Fault: the runner is checked, the token is not.
HoldsAnyLease(r, j, t) == job[j].status # "absent" /\ job[j].runner = r

\* require_job_lease
HoldsLease(r, j, t) ==
  /\ job[j].status # "absent"
  /\ job[j].runner = r
  /\ job[j].lease # NoLease
  /\ job[j].lease = t

\* The job claim_pending_job selects: ORDER BY priority DESC, created_at ASC.
\* Ids and creation times grow together.
Before(i, j) ==
  \/ job[i].priority > job[j].priority
  \/ job[i].priority = job[j].priority /\ i < j

IsNext(j) ==
  /\ job[j].status = "pending"
  /\ \A i \in Jobs \ {j} : job[i].status = "pending" => Before(j, i)

Running == {j \in Jobs : job[j].status = "running"}

-------------------------------------------------------------------------------
Init ==
  /\ up = TRUE
  /\ job = [j \in Jobs |-> AbsentRow]
  /\ nextJob = 1
  /\ files = [j \in Jobs |-> {}]
  /\ reg = [r \in Runners |-> "absent"]
  /\ authed = [r \in Runners |-> 0]
  /\ issued = 0
  /\ grant = [t \in Leases |-> NoGrant]

(* User operations on jobs.                                                  *)

CreateJob ==
  /\ up /\ nextJob \in Jobs
  /\ job' = [job EXCEPT ![nextJob] = CreatedRow]
  /\ nextJob' = nextJob + 1
  /\ UNCHANGED <<up, files, reg, authed, issued, grant>>

\* cancel_running_job (one id) and batch_cancel_jobs: ids that are not
\* running are refused or skipped.
Cancel(S) ==
  /\ up /\ S \cap Running # {}
  /\ job' = [j \in Jobs |-> IF j \in S \cap Running
                            THEN CancelledRow(job[j]) ELSE job[j]]
  /\ UNCHANGED <<up, nextJob, files, reg, authed, issued, grant>>

Retryable(S) == {j \in S : job[j].status \in {"pending"} \cup Terminal}

\* retry_job and batch_retry_jobs on the ids whose task definition still
\* exists: the row is reset, then the files are cleared.
Retry(S) ==
  /\ up /\ Retryable(S) # {}
  /\ job' = [j \in Jobs |-> IF j \in Retryable(S)
                            THEN ResetRow(job[j]) ELSE job[j]]
  /\ files' = [j \in Jobs |-> IF j \in Retryable(S) THEN {} ELSE files[j]]
  /\ UNCHANGED <<up, nextJob, reg, authed, issued, grant>>

\* delete_job and batch_delete_jobs; the files stay on disk.
Delete(S) ==
  /\ up /\ Retryable(S) # {}
  /\ job' = [j \in Jobs |-> IF j \in Retryable(S) THEN AbsentRow ELSE job[j]]
  /\ UNCHANGED <<up, nextJob, files, reg, authed, issued, grant>>

\* batch_set_priority: only pending jobs.
SetPriority(S, p) ==
  LET pending == {j \in S : job[j].status = "pending"}
  IN  /\ up /\ pending # {}
      /\ job' = [j \in Jobs |-> IF j \in pending
                                THEN [job[j] EXCEPT !.priority = p]
                                ELSE job[j]]
      /\ UNCHANGED <<up, nextJob, files, reg, authed, issued, grant>>

(* Administration of runners.                                                *)

CreateRunner(r) ==
  /\ up /\ reg[r] = "absent"
  /\ reg' = [reg EXCEPT ![r] = "enabled"]
  /\ UNCHANGED <<up, job, nextJob, files, authed, issued, grant>>

SetEnabled(r, e) ==
  /\ up /\ reg[r] # "absent"
  /\ reg' = [reg EXCEPT ![r] = e]
  /\ UNCHANGED <<up, job, nextJob, files, authed, issued, grant>>

DeleteRunner(r) ==
  /\ up /\ reg[r] # "absent"
  /\ reg' = [reg EXCEPT ![r] = "absent"]
  /\ UNCHANGED <<up, job, nextJob, files, authed, issued, grant>>

(* Requests of runners: the authentication check, then the handler's body.   *)

Authenticate(r) ==
  /\ up /\ reg[r] = "enabled" /\ authed[r] < MaxInFlight
  /\ authed' = [authed EXCEPT ![r] = @ + 1]
  /\ UNCHANGED <<up, job, nextJob, files, reg, issued, grant>>

Serve(r) ==
  /\ up /\ authed[r] > 0
  /\ authed' = [authed EXCEPT ![r] = @ - 1]

\* Every reply that changes nothing: 204 (no capacity or nothing pending),
\* 404, 409 (lease mismatch), 422, and a sync that is not applied.
Refuse(r) ==
  /\ Serve(r)
  /\ UNCHANGED <<up, job, nextJob, files, reg, issued, grant>>

\* runner_heartbeat
Heartbeat(r) ==
  /\ Serve(r)
  /\ job' = [j \in Jobs |-> ExtendedRow(job[j], r)]
  /\ UNCHANGED <<up, nextJob, files, reg, issued, grant>>

\* Fault: the token is the same for every first attempt.
StartAttemptPredictable(r, j) ==
  /\ issued < MaxLeases
  /\ IsNext(j)
  /\ issued' = issued + 1
  /\ job' = [job EXCEPT ![j] = ClaimedRow(@, r, 1)]

StartAttempt(r, j) ==
  /\ issued < MaxLeases
  /\ IsNext(j)
  /\ issued' = issued + 1
  /\ job' = [job EXCEPT ![j] = ClaimedRow(@, r, issued + 1)]

\* claim_task: the claim is committed, the files of earlier attempts are
\* cleared, and the response reaches the runner or is lost.
Claim(r, j) ==
  /\ Serve(r)
  /\ StartAttempt(r, j)
  /\ files' = [files EXCEPT ![j] = {}]
  /\ grant' \in {grant, [grant EXCEPT ![issued + 1] =
                                        [runner |-> r, job |-> j]]}
  /\ UNCHANGED <<up, nextJob, reg>>

\* ingest_runner_job_sync, applied.
Sync(r, t, q, s) ==
  LET j == grant[t].job
  IN  /\ grant[t].runner = r
      /\ Serve(r)
      /\ HoldsLease(r, j, t)
      /\ SyncApplies(job[j], q, s)
      /\ job' = [job EXCEPT ![j] = SyncedRow(@, t, q, s)]
      /\ UNCHANGED <<up, nextJob, files, reg, issued, grant>>

\* push_runner_job_file and upload_runner_job_artifact: content of the
\* attempt t is stored under the job.
StoreFile(r, t) ==
  LET j == grant[t].job
  IN  /\ grant[t].runner = r
      /\ Serve(r)
      /\ HoldsLease(r, j, t)
      /\ files' = [files EXCEPT ![j] = @ \cup {t}]
      /\ UNCHANGED <<up, job, nextJob, reg, issued, grant>>

(* The scheduler, the clock and the life of the server process.              *)

\* schedule_tasks: expired leases first, then stale jobs.
SchedulerPass ==
  /\ up
  /\ job' = [j \in Jobs |-> FailStale(RequeueExpired(job[j]))]
  /\ UNCHANGED <<up, nextJob, files, reg, authed, issued, grant>>

Elapse(n) == IF n > 0 THEN n - 1 ELSE n

Tick ==
  /\ job' = [j \in Jobs |->
               [job[j] EXCEPT !.leaseLeft = Elapse(@), !.syncLeft = Elapse(@)]]
  /\ UNCHANGED <<up, nextJob, files, reg, authed, issued, grant>>

\* The process ends.  A graceful shutdown runs _cleanup_remaining_tasks over
\* all running jobs (S = Running), a kill none of it (S = {}), and a kill
\* during the cleanup a part of it.
Stop(S) ==
  /\ up
  /\ up' = FALSE
  /\ job' = [j \in Jobs |-> IF j \in S \cap Running
                            THEN InterruptedRow(job[j]) ELSE job[j]]
  /\ authed' = [r \in Runners |-> 0]
  /\ UNCHANGED <<nextJob, files, reg, issued, grant>>

\* The process is killed inside claim_task, after claim_pending_job committed
\* and before _clear_job_files: no response, old files still there.
CrashInClaim(r, j) ==
  /\ up /\ authed[r] > 0
  /\ StartAttempt(r, j)
  /\ up' = FALSE
  /\ authed' = [q \in Runners |-> 0]
  /\ UNCHANGED <<nextJob, files, reg, grant>>

\* The process is killed inside retry_job, between the reset of the row and
\* the clearing of the files.
CrashInRetry(j) ==
  /\ up /\ Retryable({j}) # {}
  /\ up' = FALSE
  /\ job' = [job EXCEPT ![j] = ResetRow(@)]
  /\ authed' = [r \in Runners |-> 0]
  /\ UNCHANGED <<nextJob, files, reg, issued, grant>>

\* Fault: orphaned jobs are not recovered at startup.
StartForgetting ==
  /\ ~up
  /\ up' = TRUE
  /\ UNCHANGED <<job, nextJob, files, reg, authed, issued, grant>>

\* lifespan, startup: recover_orphaned_tasks.
Start ==
  /\ ~up
  /\ up' = TRUE
  /\ job' = [j \in Jobs |-> IF j \in Running
                            THEN InterruptedRow(job[j]) ELSE job[j]]
  /\ UNCHANGED <<nextJob, files, reg, authed, issued, grant>>

-------------------------------------------------------------------------------
UserStep ==
  \/ CreateJob
  \/ \E S \in SUBSET Jobs :
       \/ Cancel(S)
       \/ Retry(S)
       \/ Delete(S)
       \/ \E p \in Priorities : SetPriority(S, p)

AdminStep ==
  \E r \in Runners :
    \/ CreateRunner(r)
    \/ \E e \in {"enabled", "disabled"} : SetEnabled(r, e)
    \/ DeleteRunner(r)

RequestStep ==
  \E r \in Runners :
    \/ Authenticate(r)
    \/ Refuse(r)
    \/ Heartbeat(r)
    \/ \E j \in Jobs : Claim(r, j) \/ CrashInClaim(r, j)
    \/ \E t \in Leases :
         \/ StoreFile(r, t)
         \/ \E q \in 1..MaxSeq, s \in {"running"} \cup Reported : Sync(r, t, q, s)

ServerStep ==
  \/ SchedulerPass
  \/ Tick
  \/ Start
  \/ \E S \in SUBSET Jobs : Stop(S)
  \/ \E j \in Jobs : CrashInRetry(j)

Next == UserStep \/ AdminStep \/ RequestStep \/ ServerStep

Spec == Init /\ [][Next]_vars

(* The clock runs, the loop of TaskScheduler.run wakes every 5 seconds while *)
(* the process lives, and a stopped server is started again.                 *)
Fairness == WF_vars(Tick) /\ WF_vars(SchedulerPass) /\ WF_vars(Start)

FairSpec == Spec /\ Fairness

-------------------------------------------------------------------------------
(* Properties.                                                               *)

TypeOK ==
  /\ up \in BOOLEAN
  /\ job \in [Jobs -> Rows]
  /\ nextJob \in 1..(MaxJobs + 1)
  /\ files \in [Jobs -> SUBSET Leases]
  /\ reg \in [Runners -> {"absent", "enabled", "disabled"}]
  /\ authed \in [Runners -> 0..MaxInFlight]
  /\ issued \in 0..MaxLeases
  /\ grant \in [Leases -> Grants]

\* Both reconcilers skip NULLs: a RUNNING job without lease_expires_at or
\* last_state_sync_at would be stuck for ever.
RunningIsReconcilable ==
  \A j \in Jobs :
    job[j].status = "running" =>
      /\ job[j].runner # NoRunner
      /\ job[j].lease # NoLease
      /\ job[j].syncLeft # Never
      /\ job[j].started = "set" /\ job[j].finished = "null"

\* A job in the queue is held by nobody, so nothing a runner still sends for an
\* earlier attempt can reach it.
PendingIsUnheld ==
  \A j \in Jobs :
    job[j].status \in {"absent", "pending"} =>
      job[j].lease = NoLease /\ job[j].runner = NoRunner

\* finished_at is set exactly while the job is in a terminal status.
FinishedIffTerminal ==
  \A j \in Jobs : job[j].finished = "set" <=> job[j].status \in Terminal

\* Whatever handlers, late reports, reconcilers, crashes and restarts wrote to a
\* row and in which order, its columns agree: each of a dozen statements writes
\* some of them only.
RowsAgree == RunningIsReconcilable /\ PendingIsUnheld /\ FinishedIffTerminal

\* A lease token identifies one attempt: it is held by at most one job, it was
\* issued, and whoever learnt it learnt it for that job and as that runner.
LeaseIdentifiesAttempt ==
  \A j \in Jobs : job[j].lease # NoLease =>
    /\ job[j].lease <= issued
    /\ \A i \in Jobs \ {j} : job[i].lease # job[j].lease
    /\ grant[job[j].lease] \in
         {NoGrant, [runner |-> job[j].runner, job |-> j]}

\* Fencing of results: the outcome a job shows was reported under the lease
\* the job holds now, whatever runners of earlier attempts still send; and the
\* statuses only a runner can report always come with such an outcome.
OutcomeOfCurrentLease ==
  \A j \in Jobs :
    /\ job[j].outcome # NoLease => /\ job[j].outcome = job[j].lease
                                   /\ job[j].status \in Terminal
    /\ job[j].status \in {"completed", "timeout", "oom"} =>
         job[j].outcome # NoLease

\* Fencing of files: while the server is up a running job, or a job whose
\* result its runner reported, stores only files of its current attempt.
\* Logs of two attempts never mix.
FilesOfCurrentLease ==
  \A j \in Jobs :
    (up /\ job[j].status = "running") \/ job[j].outcome # NoLease =>
      files[j] \subseteq {job[j].lease}

\* A sequence number is accepted once per lease, and a lease that was taken
\* from a job never comes back to it or to another job: the only new lease a
\* job gets is one that was not issued before.
LeaseMoves ==
  \A j \in Jobs :
    /\ job'[j].lease = job[j].lease /\ job[j].lease # NoLease =>
         job'[j].seq >= job[j].seq
    /\ job'[j].lease \notin {job[j].lease, NoLease} =>
         job'[j].lease > issued

LeaseHistoryMovesOn == [][LeaseMoves]_vars

\* The control plane implements the life cycle of JobLifecycle: a finished job
\* never runs again without a retry and a new claim, whatever late syncs,
\* reconcilers and restarts do.
StageOf(j) ==
  CASE job[j].status = "absent" /\ j >= nextJob -> "new"
    [] job[j].status = "absent" /\ j < nextJob  -> "removed"
    [] job[j].status = "pending"                -> "queued"
    [] job[j].status = "running"                -> "held"
    [] job[j].status \in Terminal               -> "closed"

Lifecycle == INSTANCE JobLifecycle
  WITH stage   <- [j \in Jobs |-> StageOf(j)],
       holder  <- [j \in Jobs |-> job[j].lease],
       outcome <- [j \in Jobs |-> job[j].outcome],
       last    <- issued

ImplementsLifecycle == Lifecycle!Spec

\* A job whose runner stops reporting leaves RUNNING, even when heartbeats of
\* that runner extend the lease for ever (a runner that restarted, or that
\* never got the claim response) and even across server restarts.  A lease's
\* syncs are finite in the model (MaxSeq), heartbeats are not.
SilentAttemptEnds ==
  \A t \in Leases :
    LET Held == \E j \in Jobs : job[j].status = "running" /\ job[j].lease = t
    IN  Held ~> ~Held
===============================================================================
