----------------------------- MODULE JobExecution -----------------------------
(***************************************************************************)
(* The runners composed with the control plane: RunnerWorker               *)
(* (backend/runner/worker.py) claims jobs, TaskExecutor                    *)
(* (backend/runner/executor.py) executes each and reports it in a loop of  *)
(* state syncs over RunnerControlClient (backend/runner/client.py).        *)
(*                                                                         *)
(* ControlPlane lets runners send anything; here they send what the code   *)
(* sends, over a network that loses and delays requests and replies.  What *)
(* an execution does between the claim and its result (task zip, crate,    *)
(* container, artifacts) is one phase, "work".                             *)
(*                                                                         *)
(* The module extends ControlPlane: its actions are parts of the steps     *)
(* here, Init, Next, Spec, vars and TypeOK are the control plane's, and   *)
(* those of the composition carry the prefix System.                       *)
(***************************************************************************)
EXTENDS ControlPlane

CONSTANTS
  Capacity,   \* RUNNER_MAX_JOBS
  MaxTries,   \* max_attempts of _post_with_retry
  MaxFaults,  \* bound: faults in a behaviour
  Faults      \* the faults that may happen

\* "lost": a request or a reply is lost.  "late": the client gives up on a
\* request the server still serves.  "unacked": no ack within 300 seconds.
\* "raised": the reporter's task ends by an exception.  "kill", "stop": a runner
\* process dies, or is told to stop.  "server": the server process stops or
\* crashes.  "barred": a runner is disabled or deleted.
FaultKinds ==
  {"lost", "late", "unacked", "raised", "kill", "stop", "server", "barred"}

ASSUME ExecutionAssumption ==
  /\ Capacity \in Nat \ {0} /\ MaxTries \in Nat \ {0} /\ MaxFaults \in Nat
  /\ Faults \subseteq FaultKinds
  /\ "failed" \in Reported

VARIABLES
  worker,   \* runner id -> "up", "stopping", "down": its process
  run,      \* lease -> the execution its claim response started
  net,      \* sync requests not yet served
  faults    \* faults so far

control == vars   \* of ControlPlane
systemVars == <<control, worker, run, net, faults>>

\* phase: "none", "work", "drain" (reporter.stop), "ack" (terminal_acked.wait),
\* "closing", "done", "dropped" when _shutdown_job was left by an exception and
\* the sync loop goes on, or "dead" with its process.  result: terminal_status.
\* Of _SyncState: status, seq (_next_seq) and acked (terminal_acked: "no",
\* "yes" by a reply, "gave up").  Of _state_sync_loop: at, the payload's q and
\* s, tries of the request, answer, the last_sync_seq of the reply; and whether
\* a sync of the terminal status failed.
Executions ==
  [phase  : {"none", "work", "drain", "ack", "closing", "done", "dropped", "dead"},
   result : Reported \cup {"none"},
   status : Reported \cup {"running"},
   seq    : 1..(MaxSeq + 1),
   acked  : {"no", "yes", "gave up"},
   at     : {"top", "wait", "reply", "refused", "sleep", "ended"},
   q      : 0..MaxSeq,
   s      : Reported \cup {"running"},
   tries  : 0..MaxTries,
   answer : 0..MaxSeq,
   failed : BOOLEAN]

NoExecution ==
  [phase |-> "none", result |-> "none", status |-> "running", seq |-> 1,
   acked |-> "no", at |-> "ended", q |-> 0, s |-> "running", tries |-> 0,
   answer |-> 0, failed |-> FALSE]

Request(t, q, s, awaited) == [lease |-> t, q |-> q, s |-> s, awaited |-> awaited]

\* The leases whose sync loops run, and those of _inflight_tasks.
Live == {t \in Leases : run[t].phase \notin {"none", "done", "dead"}}
LiveOn(r) == {t \in Live : grant[t].runner = r}
Inflight == {t \in Live : run[t].phase # "dropped"}
InflightOn(r) == {t \in Inflight : grant[t].runner = r}

\* A runner's process is started with the token its registration returned.
SystemInit ==
  /\ Init
  /\ worker = [r \in Runners |-> "down"]
  /\ run = [t \in Leases |-> NoExecution]
  /\ net = {} /\ faults = 0

Fault(kind) ==
  /\ kind \in Faults /\ faults < MaxFaults
  /\ faults' = faults + 1

-------------------------------------------------------------------------------
(* The control plane's own steps.                                            *)

Used ==
  /\ \/ UserStep
     \/ \E r \in Runners : \/ worker[r] = "down" /\ CreateRunner(r)
                           \/ SetEnabled(r, "enabled")
     \/ SchedulerPass \/ Tick \/ Start
  /\ UNCHANGED <<worker, run, net, faults>>

Bar(r) ==
  /\ SetEnabled(r, "disabled") \/ DeleteRunner(r)
  /\ Fault("barred")
  /\ UNCHANGED <<worker, run, net>>

\* The server stops, or dies between two statements of a handler; the
\* connections end with it.
ServerEnds ==
  /\ \/ \E S \in SUBSET Jobs : Stop(S)
     \/ \E j \in Jobs : \/ CrashInRetry(j)
                        \/ \E r \in Runners : CrashInClaim(r, j)
  /\ Fault("server")
  /\ net' = {}
  /\ UNCHANGED <<worker, run>>

Authenticated(r) ==
  /\ Authenticate(r)
  /\ UNCHANGED <<worker, run, net, faults>>

(* RunnerWorker: the heartbeat thread and poll_and_schedule_one.             *)

SendHeartbeat(r) ==
  /\ worker[r] # "down"
  /\ Heartbeat(r)
  /\ UNCHANGED <<worker, run, net, faults>>

HasCapacity(r) == Cardinality(InflightOn(r)) < Capacity

\* A claim whose response arrives starts an execution and its sync loop; one
\* whose response is lost, or finds no process, starts nothing.
PollAndSchedule(r) ==
  /\ \E j \in Jobs : Claim(r, j)
  /\ IF grant' # grant
     THEN /\ worker[r] = "up" /\ HasCapacity(r)
          /\ run' = [run EXCEPT ![issued'] = [@ EXCEPT !.phase = "work",
                                                       !.at = "top"]]
          /\ UNCHANGED faults
     ELSE Fault("lost") /\ UNCHANGED run
  /\ UNCHANGED <<worker, net>>

(* TaskExecutor.execute_claimed_job and _shutdown_job.                       *)

\* Fault: an interruption replaces the result of work that has ended.
FinishAgain(t, s) ==
  /\ \/ run[t].phase = "work"
     \/ run[t].phase \in {"drain", "ack"} /\ s = "failed"
  /\ run' = [run EXCEPT ![t].phase = "drain", ![t].result = s]
  /\ UNCHANGED <<control, worker, net, faults>>

\* The work comes to its result: the container's, a failure before or around
\* it, or the interruption of a stopping runner.
Finish(t, s) ==
  /\ run[t].phase = "work"
  /\ run' = [run EXCEPT ![t].phase = "drain", ![t].result = s]
  /\ UNCHANGED <<control, worker, net, faults>>

\* The reporter has ended (reporter.stop, at most 30 seconds): set_terminal.
SetTerminal(t) ==
  /\ run[t].phase = "drain"
  /\ run' = [run EXCEPT ![t].phase = "ack", ![t].status = run[t].result]
  /\ UNCHANGED <<control, worker, net, faults>>

Acked(t) ==
  /\ run[t].phase = "ack" /\ run[t].acked # "no"
  /\ run' = [run EXCEPT ![t].phase = "closing"]
  /\ UNCHANGED <<control, worker, net, faults>>

\* _TERMINAL_ACK_TIMEOUT_SECONDS have passed, several times what a sync with
\* all its tries takes: terminal_acked is set anyway.
AckTimeout(t) ==
  /\ run[t].phase = "ack" /\ run[t].acked = "no" /\ run[t].failed
  /\ Fault("unacked")
  /\ run' = [run EXCEPT ![t].phase = "closing", ![t].acked = "gave up"]
  /\ UNCHANGED <<control, worker, net>>

\* An exception of the reporter's task, or the interruption of a stopping runner
\* while it waits for the reporter or the ack, leaves _shutdown_job at once.
Drop(t) ==
  /\ \/ run[t].phase = "drain" /\ Fault("raised")
     \/ /\ run[t].phase \in {"drain", "ack"}
        /\ worker[grant[t].runner] = "stopping"
        /\ UNCHANGED faults
  /\ run' = [run EXCEPT ![t].phase = "dropped"]
  /\ UNCHANGED <<control, worker, net>>

\* Nobody waits for the replies to the requests of the leases in S.
Abandon(S) ==
  net' = {IF m.lease \in S THEN [m EXCEPT !.awaited = FALSE] ELSE m : m \in net}

\* The sync loop ends within 10 seconds or is cancelled.
Close(t) ==
  /\ run[t].phase = "closing"
  /\ run' = [run EXCEPT ![t].phase = "done", ![t].at = "ended"]
  /\ Abandon({t})
  /\ UNCHANGED <<control, worker, faults>>

(* _state_sync_loop and _request_with_retry.                                 *)

\* The server takes no report of t: its runner is disabled or deleted.
Barred(t) == \E r \in Runners : grant[t].runner = r /\ reg[r] # "enabled"

\* A server that is down refuses the connection.
Arriving(m) == IF up THEN {m} ELSE {}

\* Bound: a sync that is not the last, or that may fail without a fault, leaves
\* a number for each fault still to come and one more.
NumberLeft(t) ==
  IF run[t].status = "running" \/ ~up \/ Barred(t)
  THEN MaxSeq - run[t].seq > MaxFaults - faults
  ELSE run[t].seq <= MaxSeq

\* The payload is fixed before the request, status included.
SyncSend(t) ==
  /\ t \in Live /\ run[t].at = "top" /\ run[t].acked = "no"
  /\ NumberLeft(t)
  /\ run' = [run EXCEPT ![t].seq = @ + 1, ![t].q = run[t].seq,
                        ![t].s = run[t].status, ![t].tries = 1,
                        ![t].at = "wait"]
  /\ net' = net \cup Arriving(Request(t, run[t].seq, run[t].status, TRUE))
  /\ UNCHANGED <<control, worker, faults>>

Awaited(t) == {m \in net : m.lease = t /\ m.awaited}

\* The request of t failed; it is sent again if again holds, and else the sync
\* fails, which the loop logs and survives.
SyncFailed(t, again) ==
  /\ t \in Live /\ run[t].at = "wait"
  /\ IF Awaited(t) # {} THEN Fault("late") ELSE UNCHANGED faults
  /\ LET late == {[m EXCEPT !.awaited = FALSE] : m \in Awaited(t)}
         rest == (net \ Awaited(t)) \cup late
     IN  IF again
         THEN /\ net' = rest \cup Arriving(Request(t, run[t].q, run[t].s, TRUE))
              /\ run' = [run EXCEPT ![t].tries = @ + 1]
         ELSE /\ net' = rest
              /\ run' = [run EXCEPT ![t].tries = 0, ![t].at = "sleep",
                                    ![t].failed = @ \/ run[t].s # "running"]
  /\ UNCHANGED <<control, worker>>

\* Fault: one attempt too many.
SyncRetryOnceMore(t) == SyncFailed(t, run[t].tries <= MaxTries)

\* httpx.RequestError
SyncRetry(t) == SyncFailed(t, run[t].tries < MaxTries)

\* Fault: any reply that covers the sequence number is an ack.
IsAckOfAny(e) == e.at = "reply" /\ e.q <= e.answer

\* seq <= last_sync_seq and payload["status"] != "running"
IsAck(e) == e.at = "reply" /\ e.q <= e.answer /\ e.s # "running"

\* The loop takes the reply; a 401, 403, 404 or 409 is an exception it survives.
SyncReply(t) ==
  /\ t \in Live /\ run[t].at \in {"reply", "refused"}
  /\ LET acked == IF IsAck(run[t]) THEN "yes" ELSE run[t].acked
         failed == run[t].at = "refused" /\ run[t].s # "running"
     IN  run' = [run EXCEPT ![t].acked = acked, ![t].tries = 0,
                            ![t].failed = @ \/ failed,
                            ![t].at = IF acked = "no" THEN "sleep" ELSE "ended"]
  /\ UNCHANGED <<control, worker, net, faults>>

\* Fault: a terminal status whose sync failed is not sent again.
SyncWakeGivingUp(t) ==
  /\ t \in Live /\ run[t].at = "sleep"
  /\ run' = [run EXCEPT ![t].at =
                IF run[t].acked = "no" /\ ~run[t].failed THEN "top" ELSE "ended"]
  /\ UNCHANGED <<control, worker, net, faults>>

\* The interval has passed, or set_terminal woke the loop.
SyncWake(t) ==
  /\ t \in Live /\ run[t].at = "sleep"
  /\ run' = [run EXCEPT ![t].at = IF run[t].acked = "no" THEN "top" ELSE "ended"]
  /\ UNCHANGED <<control, worker, net, faults>>

(* The network and ingest_runner_job_sync.                                   *)

\* The reply to m: last_sync_seq as it is after m was served, or an error.
Replied(m, at) ==
  IF m.awaited
  THEN run' = [run EXCEPT ![m.lease].at = at,
                          ![m.lease].answer =
                            IF at = "reply" THEN job'[grant[m.lease].job].seq
                                            ELSE 0]
  ELSE UNCHANGED run

Deliver(m) ==
  LET t == m.lease
      r == grant[t].runner
      j == grant[t].job
  IN  /\ net' = net \ {m}
      /\ \/ Sync(r, t, m.q, m.s)
         \/ /\ ~(HoldsLease(r, j, t) /\ SyncApplies(job[j], m.q, m.s))
            /\ Refuse(r)
      /\ \/ /\ Replied(m, IF HoldsLease(r, j, t) THEN "reply" ELSE "refused")
            /\ UNCHANGED faults
         \/ m.awaited /\ Fault("lost") /\ UNCHANGED run
      /\ UNCHANGED worker

\* require_runner_auth refuses a runner that is disabled or gone.
Reject(m) ==
  /\ up /\ Barred(m.lease)
  /\ net' = net \ {m}
  /\ Replied(m, "refused")
  /\ UNCHANGED <<control, worker, faults>>

LoseRequest(m) ==
  /\ m.awaited /\ Fault("lost")
  /\ net' = net \ {m}
  /\ UNCHANGED <<control, worker, run>>

(* The life of a runner process.                                             *)

\* run_forever is told to stop: it claims no more, and interrupts its work
\* (Finish with "failed") or lets it end within 5 seconds.
StopWorker(r) ==
  /\ worker[r] = "up" /\ Fault("stop")
  /\ worker' = [worker EXCEPT ![r] = "stopping"]
  /\ UNCHANGED <<control, run, net>>

\* The process ends: killed, or 10 seconds after it was told to stop, whatever
\* its executions still wait for.
WorkerEnds(r) ==
  /\ \/ worker[r] = "up" /\ Fault("kill")
     \/ worker[r] = "stopping" /\ UNCHANGED faults
  /\ worker' = [worker EXCEPT ![r] = "down"]
  /\ run' = [t \in Leases |-> IF t \in LiveOn(r)
                              THEN [run[t] EXCEPT !.phase = "dead", !.at = "ended"]
                              ELSE run[t]]
  /\ Abandon(LiveOn(r))
  /\ UNCHANGED control

WorkerStarts(r) ==
  /\ worker[r] = "down"
  /\ worker' = [worker EXCEPT ![r] = "up"]
  /\ UNCHANGED <<control, run, net, faults>>

-------------------------------------------------------------------------------
Executing(t) ==
  \/ \E s \in Reported : Finish(t, s)
  \/ SetTerminal(t) \/ Acked(t) \/ Close(t)

Syncing(t) == SyncSend(t) \/ SyncRetry(t) \/ SyncReply(t) \/ SyncWake(t)

SystemNext ==
  \/ Used
  \/ ServerEnds
  \/ \E r \in Runners :
       \/ Bar(r) \/ Authenticated(r) \/ SendHeartbeat(r) \/ PollAndSchedule(r)
       \/ StopWorker(r) \/ WorkerEnds(r) \/ WorkerStarts(r)
  \/ \E t \in Leases : Executing(t) \/ AckTimeout(t) \/ Drop(t) \/ Syncing(t)
  \/ \E m \in net : Deliver(m) \/ Reject(m) \/ LoseRequest(m)

SystemSpec == SystemInit /\ [][SystemNext]_systemVars

(* Requests that keep arriving are served and the client's timeouts end      *)
(* every wait; executions and sync loops run on; the clock and the scheduler *)
(* do too, and a stopped server is started again.                            *)
SystemFairness ==
  /\ \A t \in Leases : WF_systemVars(Executing(t)) /\ WF_systemVars(Syncing(t))
  /\ \A r \in Runners : WF_systemVars(Authenticated(r))
  /\ SF_systemVars(\E m \in net : Deliver(m) \/ Reject(m))
  /\ WF_systemVars(Start /\ UNCHANGED <<worker, run, net, faults>>)

SystemFairSpec == SystemSpec /\ SystemFairness

-------------------------------------------------------------------------------
(* Properties.                                                               *)

SystemTypeOK ==
  /\ TypeOK
  /\ worker \in [Runners -> {"up", "stopping", "down"}]
  /\ run \in [Leases -> Executions]
  /\ \A m \in net : /\ m.lease \in 1..issued /\ m.q \in 1..MaxSeq
                    /\ m.s \in Reported \cup {"running"}
                    /\ m.awaited \in BOOLEAN
  /\ faults \in 0..MaxFaults

\* When the runner takes its terminal sync for acknowledged, and so stops
\* sending it, the job shows that result, unless the job was taken away from
\* this attempt: lost replies, late requests, restarts of the server and
\* cancellations in between notwithstanding.
AckedIsRecorded ==
  \A t \in Leases : run[t].acked = "yes" =>
    LET row == job[grant[t].job]
    IN  row.lease = t => row.outcome = t /\ row.status = run[t].result

\* The outcome a job shows is the result its execution came to: no late sync
\* of the same attempt, no reconciler and no restart replaces it by another.
OutcomeIsTrue ==
  \A j \in Jobs : job[j].outcome # NoLease =>
    job[j].status = run[job[j].outcome].result

\* A terminal status gets through, by its first sync or by one of a later
\* number, however syncs fail, the server goes down and the runner is stopped:
\* the job shows it or was taken away from the attempt.  Else the process ended,
\* the runner gave up after 300 seconds, or it may not report (any more).
ResultArrives ==
  \A t \in Leases :
    run[t].phase = "ack" ~>
      \/ run[t].phase = "dead"
      \/ run[t].acked = "gave up"
      \/ Barred(t)
      \/ \E j \in Jobs : /\ grant[t].job = j
                         /\ job[j].lease # t \/ job[j].outcome = t
===============================================================================
