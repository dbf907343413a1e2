----------------------------- MODULE ContainerRun -----------------------------
(***************************************************************************)
(* DockerRunner.run (backend/runner/docker_runner.py): one container, from *)
(* its start to its removal, with the shutdown of the runner process       *)
(* around it (backend/runner/worker.py run_forever, then asyncio.run).     *)
(*                                                                         *)
(* run is a coroutine; each call to the Docker daemon blocks a thread of   *)
(* the event loop's pool.  A cancelled coroutine leaves such a call        *)
(* behind: its thread goes on, whatever the coroutine does next.           *)
(***************************************************************************)
EXTENDS Naturals

CONSTANTS
  Codes,      \* exit codes of a container
  MaxFaults,  \* bound: calls the daemon refuses in a behaviour
  Faults      \* the calls it may refuse, of Calls

\* containers.run, wait, stop (with the kill that follows it) and remove.
Calls == {"start", "wait", "stop", "remove"}

ASSUME RunAssumption ==
  /\ Codes \subseteq Nat /\ MaxFaults \in Nat /\ Faults \subseteq Calls

VARIABLES
  process,    \* the runner: asyncio's progress through its shutdown
  limit,      \* the timeout of the task: "none" or "set"
  pc,         \* where run waits
  result,     \* the status run returns, or is about to
  start,      \* the thread in containers.run
  answer,     \* what wait_future came to
  threads,    \* the other threads at work
  late,       \* _cleanup_container_after_cancel
  container,  \* the container and its exit code, as the daemon has them
  code,
  endedBy,    \* ghost: what ended it, if anything did before its removal
  refused,    \* ghost: the calls refused so far
  faults      \* how many

vars == <<process, limit, pc, result, start, answer, threads, late, container,
          code, endedBy, refused, faults>>

run == <<pc, result>>
daemon == <<container, code, endedBy>>
fault == <<refused, faults>>

\* "armed": the done-callback is added to start_future.  "cut": cancelled or
\* unable to go on; "failed": unable to begin.
Init ==
  /\ process = "up" /\ limit \in {"none", "set"}
  /\ pc = "starting" /\ result = "none"
  /\ start = "calling" /\ answer = "none" /\ threads = {} /\ late = "none"
  /\ container = "none" /\ code = 0 /\ endedBy = "nobody"
  /\ refused = {} /\ faults = 0

Refuse(call) ==
  /\ call \in Faults /\ faults < MaxFaults
  /\ refused' = refused \cup {call}
  /\ faults' = faults + 1

-------------------------------------------------------------------------------
(* The daemon and the threads that call it.                                  *)

Create ==
  /\ start = "calling"
  /\ start' = "created" /\ container' = "running"
  /\ UNCHANGED <<process, limit, run, answer, threads, late, code, endedBy, fault>>

StartReturns ==
  /\ start = "created"
  /\ start' = "returned"
  /\ UNCHANGED <<process, limit, run, answer, threads, late, daemon, fault>>

\* Before the container runs, or after, when only the reply is lost.
StartRefused ==
  /\ start \in {"calling", "created"} /\ Refuse("start")
  /\ start' = "failed"
  /\ UNCHANGED <<process, limit, run, answer, threads, late, daemon>>

ContainerEnds ==
  /\ container = "running"
  /\ container' = "exited" /\ code' \in Codes /\ endedBy' = "itself"
  /\ UNCHANGED <<process, limit, run, start, answer, threads, late, fault>>

WaitReturns ==
  /\ "wait" \in threads
  /\ \/ container \in {"exited", "removed"} /\ answer' = "code" /\ UNCHANGED fault
     \/ Refuse("wait") /\ answer' = "error"
  /\ threads' = threads \ {"wait"}
  /\ UNCHANGED <<process, limit, run, start, late, daemon>>

\* The daemon's stop: SIGTERM, then SIGKILL; nothing if the container ended.
StopReturns ==
  \E t \in threads \cap {"stop", "late stop"} :
    /\ \/ container = "running" /\ container' = "exited" /\ code' \in Codes
          /\ endedBy' = "stop" /\ UNCHANGED fault
       \/ container # "running" /\ UNCHANGED <<daemon, fault>>
       \/ Refuse("stop") /\ UNCHANGED daemon
    /\ threads' = threads \ {t}
    /\ UNCHANGED <<process, limit, run, start, answer, late>>

RemoveReturns ==
  \E t \in threads \cap {"remove", "late remove"} :
    /\ \/ container' = "removed" /\ UNCHANGED <<code, endedBy, fault>>
       \/ Refuse("remove") /\ UNCHANGED daemon
    /\ threads' = threads \ {t}
    /\ UNCHANGED <<process, limit, run, start, answer, late>>

ChownReturns ==
  /\ "chown" \in threads
  /\ threads' = threads \ {"chown"}
  /\ UNCHANGED <<process, limit, run, start, answer, late, daemon, fault>>

-------------------------------------------------------------------------------
(* run.                                                                      *)

\* What run and its late cleanup never change.
unseen == <<process, limit, start, answer, daemon, fault>>

Started ==
  /\ pc = "starting" /\ start = "returned"
  /\ pc' = "waiting" /\ threads' = threads \cup {"wait"}
  /\ UNCHANGED <<result, late, unseen>>

NotStarted ==
  /\ pc = "starting" /\ start = "failed"
  /\ result' = "failed"
  /\ pc' = "chown" /\ threads' = threads \cup {"chown"}
  /\ UNCHANGED <<late, unseen>>

Verdict(c) == CASE c = 0 -> "completed" [] c = 137 -> "oom" [] OTHER -> "failed"

Waited ==
  /\ pc = "waiting" /\ answer # "none"
  /\ result' = IF answer = "code" THEN Verdict(code) ELSE "failed"
  /\ pc' = "syncing"
  /\ UNCHANGED <<threads, late, unseen>>

TimeoutFires ==
  /\ pc = "waiting" /\ limit = "set" /\ answer = "none"
  /\ pc' = "timing out" /\ threads' = threads \cup {"stop"}
  /\ UNCHANGED <<result, late, unseen>>

\* Fault: a timeout stops the container and goes on to its exit code.
StoppedForCode ==
  /\ pc \in {"timing out", "stopping"} /\ "stop" \notin threads
  /\ result' = IF pc = "timing out" THEN Verdict(code) ELSE result
  /\ pc' = "syncing"
  /\ UNCHANGED <<threads, late, unseen>>

\* _stop_container_sync is through, for a timeout or for a cancellation.
Stopped ==
  /\ pc \in {"timing out", "stopping"} /\ "stop" \notin threads
  /\ result' = IF pc = "timing out" THEN "timeout" ELSE result
  /\ pc' = "syncing"
  /\ UNCHANGED <<threads, late, unseen>>

\* Fault: the container is removed only after a wait that gave its exit code.
SyncedAfterCode ==
  /\ pc = "syncing"
  /\ \/ answer = "code" /\ pc' = "removing" /\ threads' = threads \cup {"remove"}
     \/ answer # "code" /\ pc' = "ended" /\ UNCHANGED threads
  /\ UNCHANGED <<result, late, unseen>>

\* finally: the logs are synced, then the container is removed, then, unless run
\* was cancelled, a second container gives the workspace back to its owner.
Synced ==
  /\ pc = "syncing"
  /\ pc' = "removing" /\ threads' = threads \cup {"remove"}
  /\ UNCHANGED <<result, late, unseen>>

Removed ==
  /\ pc = "removing" /\ "remove" \notin threads
  /\ \/ result = "cancelled" /\ pc' = "ended" /\ UNCHANGED threads
     \/ result # "cancelled" /\ pc' = "chown" /\ threads' = threads \cup {"chown"}
  /\ UNCHANGED <<result, late, unseen>>

Chowned ==
  /\ pc = "chown" /\ "chown" \notin threads
  /\ pc' = "ended"
  /\ UNCHANGED <<result, threads, late, unseen>>

-------------------------------------------------------------------------------
(* CancelledError, where run may wait.  These set pc, result, threads, late. *)

\* Fault: nobody sees to the container the thread is about to start.
CancelStartingUnseen ==
  /\ pc = "starting"
  /\ pc' = "ended"
  /\ UNCHANGED <<threads, late>>

CancelStarting ==
  /\ pc = "starting"
  /\ pc' = "ended" /\ late' = "armed"
  /\ UNCHANGED threads

\* Fault: the callback is added whenever run is cancelled before a result.
CancelWaitingArming ==
  /\ pc = "waiting"
  /\ pc' = "stopping" /\ threads' = threads \cup {"stop"}
  /\ late' = "armed"

\* Fault: the removal in finally is trusted to stop a cancelled container.
CancelWaitingUnstopped ==
  /\ pc = "waiting"
  /\ pc' = "syncing"
  /\ UNCHANGED <<threads, late>>

CancelWaiting ==
  /\ pc = "waiting"
  /\ pc' = "stopping" /\ threads' = threads \cup {"stop"}
  /\ UNCHANGED late

\* finally goes on, while the stop it no longer awaits does so too.
CancelStopping ==
  /\ pc \in {"stopping", "timing out"}
  /\ pc' = "syncing"
  /\ UNCHANGED <<threads, late>>

\* What is left of finally is not done.
CancelFinally ==
  /\ pc \in {"syncing", "removing", "chown"}
  /\ pc' = "ended"
  /\ UNCHANGED <<threads, late>>

\* asyncio.wait_for with a result at hand, and the wait for the cancelled
\* log_sync_task, take no notice.
Swallowed ==
  /\ (pc = "waiting" /\ limit = "set" /\ answer # "none") \/ pc = "syncing"
  /\ UNCHANGED <<run, threads, late>>

Cancel ==
  \/ /\ CancelStarting \/ CancelWaiting \/ CancelStopping \/ CancelFinally
     /\ result' = "cancelled"
  \/ Swallowed

-------------------------------------------------------------------------------
(* The container that surfaces after the cancellation.  Once asyncio joins   *)
(* the threads of the pool, to_thread raises.                                *)

LateStart ==
  /\ late = "armed" /\ start = "returned"
  /\ \/ process # "joining" /\ late' = "stop" /\ threads' = threads \cup {"late stop"}
     \/ process = "joining" /\ late' = "failed" /\ UNCHANGED threads
  /\ UNCHANGED <<run, unseen>>

NoLateStart ==
  /\ late = "armed" /\ start = "failed"
  /\ late' = "ended"
  /\ UNCHANGED <<run, threads, unseen>>

LateStopped ==
  /\ late = "stop" /\ "late stop" \notin threads
  /\ \/ process # "joining" /\ late' = "remove" /\ threads' = threads \cup {"late remove"}
     \/ process = "joining" /\ late' = "cut" /\ UNCHANGED threads
  /\ UNCHANGED <<run, unseen>>

LateRemoved ==
  /\ late = "remove" /\ "late remove" \notin threads
  /\ late' = "ended"
  /\ UNCHANGED <<run, threads, unseen>>

-------------------------------------------------------------------------------
(* The end of the process.                                                   *)

\* What the shutdown never changes.
around == <<limit, start, answer, daemon, fault>>

\* SIGINT: run_forever is cancelled, and gives its executions five seconds.
Interrupt ==
  /\ process = "up"
  /\ process' = "grace"
  /\ UNCHANGED <<run, threads, late, around>>

\* They were not enough.
CancelExecution ==
  /\ process = "grace"
  /\ process' = "cancelled"
  /\ \/ pc = "ended" /\ UNCHANGED <<run, threads, late>>
     \/ Cancel
  /\ UNCHANGED around

\* run_forever returns; asyncio.run cancels every task there is.
CancelAll ==
  /\ (process = "grace" /\ pc = "ended") \/ process = "cancelled"
  /\ process' = "closing"
  /\ \/ pc = "ended" /\ UNCHANGED <<run, threads>>
        /\ late' = IF late \in {"stop", "remove"} THEN "cut" ELSE late
     \/ Cancel
  /\ UNCHANGED around

\* gather is through, and callbacks that are ready have run:
\* shutdown_default_executor.
JoinThreads ==
  /\ process = "closing" /\ pc = "ended"
  /\ ~(late = "armed" /\ start = "returned")
  /\ process' = "joining"
  /\ UNCHANGED <<run, threads, late, around>>

Exit ==
  /\ process = "joining" /\ threads = {}
  /\ start \in {"returned", "failed"} /\ late # "armed"
  /\ process' = "exited"
  /\ UNCHANGED <<run, threads, late, around>>

-------------------------------------------------------------------------------
Daemon ==
  \/ Create \/ StartReturns \/ StartRefused \/ ContainerEnds
  \/ WaitReturns \/ StopReturns \/ RemoveReturns \/ ChownReturns

Run ==
  \/ Started \/ NotStarted \/ Waited \/ TimeoutFires \/ Stopped \/ Synced
  \/ Removed \/ Chowned

Late == LateStart \/ NoLateStart \/ LateStopped \/ LateRemoved

Shutdown == Interrupt \/ CancelExecution \/ CancelAll \/ JoinThreads \/ Exit

Done == process = "exited" /\ UNCHANGED vars

Next ==
  \/ Daemon
  \/ process # "exited" /\ (Run \/ Late)
  \/ Shutdown
  \/ Done

Spec == Init /\ [][Next]_vars

\* The daemon answers each call, and the event loop runs what
\* can run: a container need not end, and nobody need interrupt the runner.
Fairness ==
  /\ WF_vars(Create) /\ WF_vars(StartReturns) /\ WF_vars(ChownReturns)
  /\ WF_vars(WaitReturns /\ UNCHANGED fault)
  /\ WF_vars(StopReturns /\ UNCHANGED fault)
  /\ WF_vars(RemoveReturns /\ UNCHANGED fault)
  /\ WF_vars(process # "exited" /\ (Run \/ Late))
  /\ WF_vars(CancelExecution) /\ WF_vars(CancelAll) /\ WF_vars(JoinThreads)
  /\ WF_vars(Exit)

FairSpec == Spec /\ Fairness

-------------------------------------------------------------------------------
(* Properties.                                                               *)

Processes == {"up", "grace", "cancelled", "closing", "joining", "exited"}
Limits == {"none", "set"}
Places == {"starting", "waiting", "stopping", "timing out", "syncing",
           "removing", "chown", "ended"}
Results == {"none", "completed", "failed", "oom", "timeout", "cancelled"}
Starts == {"calling", "created", "returned", "failed"}
Answers == {"none", "code", "error"}
Threads == {"wait", "stop", "remove", "chown", "late stop", "late remove"}
Lates == {"none", "armed", "stop", "remove", "ended", "cut", "failed"}
States == {"none", "running", "exited", "removed"}
Endings == {"nobody", "itself", "stop"}

Typed ==
  /\ process \in Processes /\ limit \in Limits
  /\ pc \in Places /\ result \in Results
  /\ start \in Starts /\ answer \in Answers
  /\ threads \subseteq Threads /\ late \in Lates
  /\ container \in States /\ code \in Codes \cup {0} /\ endedBy \in Endings
  /\ refused \subseteq Faults /\ faults \in 0..MaxFaults

LateIsOrphan ==
  late # "none" =>
    /\ pc = "ended" /\ result = "cancelled" /\ answer = "none"
    /\ threads \subseteq {"late stop", "late remove"}

\* Every variable has its type, and the late cleanup belongs to a run that was
\* cancelled before it had its container (the handler at lines 316-333), so
\* that no container is stopped and removed from two sides.
TypeOK == Typed /\ LateIsOrphan

\* A run that returns a verdict about its container's exit (lines 412-458) has
\* it from a container that ended by itself: it is not the code of one that a
\* timeout or a shutdown stopped, which would be taken for an OOM.
VerdictIsOwn ==
  result \in {"completed", "oom"} => endedBy = "itself" /\ Verdict(code) = result

\* A run that returns has removed its container (lines 495-496), however the
\* wait for it went, unless the daemon refused to or never told run of it.
ReturnedIsRemoved ==
  /\ pc = "ended" /\ result # "cancelled"
  /\ "start" \notin refused /\ "remove" \notin refused
  => container = "removed"

\* A container does not outlive the runner process, cancelled anywhere and more
\* than once, if start, wait and stop are not refused and it surfaced before
\* asyncio began to join threads (lines 316-333, 365-376).
StartedIsStopped ==
  /\ process = "exited" /\ late # "failed"
  /\ "start" \notin refused /\ "wait" \notin refused /\ "stop" \notin refused
  => container # "running"

\* An interrupted runner ends: no thread blocks the join for ever.  A refused
\* stop leaves one in container.wait, for as long as the container runs.
ShutdownEnds == process = "grace" ~> (process = "exited" \/ "stop" \in refused)

===============================================================================
