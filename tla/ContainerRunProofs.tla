-------------------------- MODULE ContainerRunProofs --------------------------
(***************************************************************************)
(* Proofs about ContainerRun for every set of exit codes, every set of     *)
(* calls the daemon may refuse and any number of refusals.                 *)
(*                                                                         *)
(* The checked invariants speak of the end: of a run that returned, of a   *)
(* process that exited.  The inductive one says of each point on the way   *)
(* there who will still see to the container.                              *)
(***************************************************************************)
EXTENDS ContainerRun, TLAPS

USE RunAssumption

\* The phases of run fit the start thread and the process.
Phases ==
  /\ pc = "starting" => result = "none" /\ answer = "none"
  /\ pc \in {"waiting", "stopping", "timing out", "syncing", "removing"}
       => start = "returned"
  /\ pc = "chown" => start \in {"returned", "failed"}
  /\ pc = "ended" /\ late # "armed" => start \in {"returned", "failed"}
  /\ process \in {"joining", "exited"} => pc = "ended"
  /\ process = "exited" =>
       threads = {} /\ start \in {"returned", "failed"} /\ late # "armed"

\* The container follows the start thread; a refusal leaves its trace.
Containers ==
  /\ start = "calling" => container = "none"
  /\ start \in {"created", "returned"} => container # "none"
  /\ start = "failed" => "start" \in refused
  /\ answer = "code" => container \in {"exited", "removed"}
  /\ answer = "error" => "wait" \in refused
  /\ endedBy = "itself" => container \in {"exited", "removed"}

\* Until run or its late cleanup begins to stop or remove the container, no
\* thread does so: an end it comes to is its own.
Untouched ==
  /\ pc = "starting" => threads = {}
  /\ pc = "waiting" => threads \subseteq {"wait"}
  /\ pc \in {"starting", "waiting"} =>
       container # "removed" /\ (container = "exited" => endedBy = "itself")
  /\ late \in {"none", "armed"} =>
       "late stop" \notin threads /\ "late remove" \notin threads
  /\ result \in {"completed", "oom"} => container \in {"exited", "removed"}

\* A run that goes on after its removal has removed the container.
Gone ==
  /\ container # "removed" /\ "start" \notin refused /\ "remove" \notin refused
  => /\ pc # "chown"
     /\ pc = "removing" => "remove" \in threads
     /\ pc = "ended" => result = "cancelled"

\* Somebody sees to a container that runs.
Attended ==
  /\ container = "running"
  /\ "start" \notin refused /\ "wait" \notin refused /\ "stop" \notin refused
  => \/ pc \in {"starting", "waiting"}
     \/ "stop" \in threads \/ "late stop" \in threads
     \/ late \in {"armed", "failed"}

IInv ==
  /\ TypeOK /\ VerdictIsOwn
  /\ Phases /\ Containers /\ Untouched /\ Gone /\ Attended

-------------------------------------------------------------------------------
(* The steps.                                                                *)

\* The values that steps assign belong to their types.
LEMMA Names ==
  /\ {"up", "grace", "cancelled", "closing", "joining", "exited"} \subseteq Processes
  /\ {"starting", "waiting", "stopping", "timing out", "syncing", "removing",
      "chown", "ended"} \subseteq Places
  /\ {"none", "completed", "failed", "oom", "timeout", "cancelled"} \subseteq Results
  /\ {"calling", "created", "returned", "failed"} \subseteq Starts
  /\ {"none", "code", "error"} \subseteq Answers
  /\ {"wait", "stop", "remove", "chown", "late stop", "late remove"} \subseteq Threads
  /\ {"none", "armed", "stop", "remove", "ended", "cut", "failed"} \subseteq Lates
  /\ {"none", "running", "exited", "removed"} \subseteq States
  /\ {"nobody", "itself", "stop"} \subseteq Endings
  BY DEF Processes, Places, Results, Starts, Answers, Threads, Lates,
         States, Endings

\* A refusal keeps the types of what it records.
LEMMA RefuseTyped ==
  ASSUME Typed, NEW call, Refuse(call)
  PROVE  refused' \subseteq Faults /\ faults' \in 0..MaxFaults
  BY DEF Typed, Refuse

\* Each step keeps the types.
LEMMA TypedInv == Typed /\ [Next]_vars => Typed'
<1> SUFFICES ASSUME Typed, [Next]_vars PROVE Typed'
  OBVIOUS
<1> USE DEF Typed, daemon, fault
<1>1. CASE Create
  BY <1>1, Names DEF Create, run
<1>2. CASE StartReturns
  BY <1>2, Names DEF StartReturns, run
<1>3. CASE StartRefused
  BY <1>3, RefuseTyped, Names DEF StartRefused, run
<1>4. CASE ContainerEnds
  BY <1>4, Names DEF ContainerEnds, run
<1>5. CASE WaitReturns
  BY <1>5, RefuseTyped, Names DEF WaitReturns, run
<1>6. CASE StopReturns
  BY <1>6, RefuseTyped, Names DEF StopReturns, run
<1>7. CASE RemoveReturns
  BY <1>7, RefuseTyped, Names DEF RemoveReturns, run
<1>8. CASE ChownReturns
  BY <1>8, Names DEF ChownReturns, run
<1>9. CASE Started
  BY <1>9, Names DEF Started, unseen
<1>10. CASE NotStarted
  BY <1>10, Names DEF NotStarted, unseen
<1>11. CASE Waited
  BY <1>11, Names DEF Waited, unseen, Verdict
<1>12. CASE TimeoutFires
  BY <1>12, Names DEF TimeoutFires, unseen
<1>13. CASE Stopped
  BY <1>13, Names DEF Stopped, unseen
<1>14. CASE Synced
  BY <1>14, Names DEF Synced, unseen
<1>15. CASE Removed
  BY <1>15, Names DEF Removed, unseen
<1>16. CASE Chowned
  BY <1>16, Names DEF Chowned, unseen
<1>17. CASE LateStart
  BY <1>17, Names DEF LateStart, unseen, run
<1>18. CASE NoLateStart
  BY <1>18, Names DEF NoLateStart, unseen, run
<1>19. CASE LateStopped
  BY <1>19, Names DEF LateStopped, unseen, run
<1>20. CASE LateRemoved
  BY <1>20, Names DEF LateRemoved, unseen, run
<1>21. CASE Interrupt
  BY <1>21, Names DEF Interrupt, around, run
<1>22. CASE CancelExecution
  BY <1>22, Names DEF CancelExecution, around, run, Cancel, CancelStarting,
     CancelWaiting, CancelStopping, CancelFinally, Swallowed
<1>23. CASE CancelAll
  BY <1>23, Names DEF CancelAll, around, run, Cancel, CancelStarting,
     CancelWaiting, CancelStopping, CancelFinally, Swallowed
<1>24. CASE JoinThreads
  BY <1>24, Names DEF JoinThreads, around, run
<1>25. CASE Exit
  BY <1>25, Names DEF Exit, around, run
<1>26. CASE UNCHANGED vars
  BY <1>26 DEF vars
<1>. QED
  BY <1>1, <1>2, <1>3, <1>4, <1>5, <1>6, <1>7, <1>8, <1>9, <1>10, <1>11, <1>12,
     <1>13, <1>14, <1>15, <1>16, <1>17, <1>18, <1>19, <1>20, <1>21, <1>22,
     <1>23, <1>24, <1>25, <1>26
     DEF Next, Daemon, Run, Late, Shutdown, Done

LEMMA InitInv == Init => IInv
<1> SUFFICES ASSUME Init PROVE IInv
  OBVIOUS
<1>1. code \in Codes \cup {0} /\ refused \subseteq Faults /\ faults \in 0..MaxFaults
  BY DEF Init
<1>2. Typed /\ LateIsOrphan
  BY <1>1, Names DEF Init, Typed, LateIsOrphan, Limits
<1>3. VerdictIsOwn /\ Phases /\ Containers
  BY DEF Init, VerdictIsOwn, Phases, Containers
<1>4. Untouched /\ Gone /\ Attended
  BY DEF Init, Untouched, Gone, Attended
<1>. QED
  BY <1>2, <1>3, <1>4 DEF IInv, TypeOK

\* What the daemon and the threads that call it do.
LEMMA DaemonInv == IInv /\ Daemon => IInv'
<1> SUFFICES ASSUME IInv, Daemon PROVE IInv'
  OBVIOUS
<1> USE DEF IInv, TypeOK, LateIsOrphan, VerdictIsOwn, Phases, Containers,
            Untouched, Gone, Attended, run, daemon, fault, Refuse
<1>1. CASE Create
  <2>1. LateIsOrphan' /\ VerdictIsOwn' /\ Phases' /\ Containers'
    BY <1>1 DEF Create
  <2>2. Untouched' /\ Gone' /\ Attended'
    BY <1>1 DEF Create, Typed, Places, Answers, Starts
  <2>. QED
    BY TypedInv, <2>1, <2>2 DEF Daemon, Next
<1>2. CASE StartReturns
  <2>1. LateIsOrphan' /\ VerdictIsOwn' /\ Phases' /\ Containers'
    BY <1>2 DEF StartReturns
  <2>2. Untouched' /\ Gone' /\ Attended'
    BY <1>2 DEF StartReturns
  <2>. QED
    BY TypedInv, <2>1, <2>2 DEF Daemon, Next
<1>3. CASE StartRefused
  <2>1. LateIsOrphan' /\ VerdictIsOwn' /\ Phases' /\ Containers'
    BY <1>3 DEF StartRefused
  <2>2. Untouched' /\ Gone' /\ Attended'
    BY <1>3 DEF StartRefused
  <2>. QED
    BY TypedInv, <2>1, <2>2 DEF Daemon, Next
<1>4. CASE ContainerEnds
  <2>1. LateIsOrphan' /\ VerdictIsOwn' /\ Phases' /\ Containers'
    BY <1>4 DEF ContainerEnds
  <2>2. Untouched' /\ Gone' /\ Attended'
    BY <1>4 DEF ContainerEnds
  <2>. QED
    BY TypedInv, <2>1, <2>2 DEF Daemon, Next
<1>5. CASE WaitReturns
  <2>1. LateIsOrphan' /\ VerdictIsOwn' /\ Phases' /\ Containers'
    BY <1>5 DEF WaitReturns
  <2>2. Untouched' /\ Gone' /\ Attended'
    BY <1>5 DEF WaitReturns
  <2>. QED
    BY TypedInv, <2>1, <2>2 DEF Daemon, Next
<1>6. CASE StopReturns
  <2>1. LateIsOrphan' /\ VerdictIsOwn' /\ Phases' /\ Containers'
    BY <1>6 DEF StopReturns
  <2>2. Untouched' /\ Gone' /\ Attended'
    BY <1>6 DEF StopReturns
  <2>. QED
    BY TypedInv, <2>1, <2>2 DEF Daemon, Next
<1>7. CASE RemoveReturns
  <2>1. LateIsOrphan' /\ VerdictIsOwn' /\ Phases' /\ Containers'
    BY <1>7 DEF RemoveReturns, Typed, Places, Answers, Starts
  <2>2. Untouched' /\ Gone' /\ Attended'
    BY <1>7 DEF RemoveReturns
  <2>. QED
    BY TypedInv, <2>1, <2>2 DEF Daemon, Next
<1>8. CASE ChownReturns
  <2>1. LateIsOrphan' /\ VerdictIsOwn' /\ Phases' /\ Containers'
    BY <1>8 DEF ChownReturns
  <2>2. Untouched' /\ Gone' /\ Attended'
    BY <1>8 DEF ChownReturns
  <2>. QED
    BY TypedInv, <2>1, <2>2 DEF Daemon, Next
<1>. QED
  BY TypedInv, <1>1, <1>2, <1>3, <1>4, <1>5, <1>6, <1>7, <1>8 DEF Daemon, Next

\* What run does, up to its return.
LEMMA RunInv == IInv /\ process # "exited" /\ Run => IInv'
<1> SUFFICES ASSUME IInv, process # "exited", Run PROVE IInv'
  OBVIOUS
<1> USE DEF IInv, TypeOK, LateIsOrphan, VerdictIsOwn, Phases, Containers,
            Untouched, Gone, Attended, unseen, daemon, fault
<1>1. CASE Started
  <2>1. LateIsOrphan' /\ VerdictIsOwn' /\ Phases' /\ Containers'
    BY <1>1 DEF Started
  <2>2. Untouched' /\ Gone' /\ Attended'
    BY <1>1 DEF Started
  <2>. QED
    BY TypedInv, <2>1, <2>2 DEF Run, Next
<1>2. CASE NotStarted
  <2>1. LateIsOrphan' /\ VerdictIsOwn' /\ Phases' /\ Containers'
    BY <1>2 DEF NotStarted
  <2>2. Untouched' /\ Gone' /\ Attended'
    BY <1>2 DEF NotStarted
  <2>. QED
    BY TypedInv, <2>1, <2>2 DEF Run, Next
<1>3. CASE Waited
  <2>1. LateIsOrphan' /\ VerdictIsOwn' /\ Phases' /\ Containers'
    BY <1>3 DEF Waited, Verdict
  <2>2. Untouched' /\ Gone' /\ Attended'
    BY <1>3 DEF Waited, Verdict, Typed, Places, Answers, Starts
  <2>. QED
    BY TypedInv, <2>1, <2>2 DEF Run, Next
<1>4. CASE TimeoutFires
  <2>1. LateIsOrphan' /\ VerdictIsOwn' /\ Phases' /\ Containers'
    BY <1>4 DEF TimeoutFires
  <2>2. Untouched' /\ Gone' /\ Attended'
    BY <1>4 DEF TimeoutFires
  <2>. QED
    BY TypedInv, <2>1, <2>2 DEF Run, Next
<1>5. CASE Stopped
  <2>1. LateIsOrphan' /\ VerdictIsOwn' /\ Phases' /\ Containers'
    BY <1>5 DEF Stopped
  <2>2. Untouched' /\ Gone' /\ Attended'
    BY <1>5 DEF Stopped
  <2>. QED
    BY TypedInv, <2>1, <2>2 DEF Run, Next
<1>6. CASE Synced
  <2>1. LateIsOrphan' /\ VerdictIsOwn' /\ Phases' /\ Containers'
    BY <1>6 DEF Synced
  <2>2. Untouched' /\ Gone' /\ Attended'
    BY <1>6 DEF Synced
  <2>. QED
    BY TypedInv, <2>1, <2>2 DEF Run, Next
<1>7. CASE Removed
  <2>1. LateIsOrphan' /\ VerdictIsOwn' /\ Phases' /\ Containers'
    BY <1>7 DEF Removed
  <2>2. Untouched' /\ Gone' /\ Attended'
    BY <1>7 DEF Removed
  <2>. QED
    BY TypedInv, <2>1, <2>2 DEF Run, Next
<1>8. CASE Chowned
  <2>1. LateIsOrphan' /\ VerdictIsOwn' /\ Phases' /\ Containers'
    BY <1>8 DEF Chowned
  <2>2. Untouched' /\ Gone' /\ Attended'
    BY <1>8 DEF Chowned
  <2>. QED
    BY TypedInv, <2>1, <2>2 DEF Run, Next
<1>. QED
  BY TypedInv, <1>1, <1>2, <1>3, <1>4, <1>5, <1>6, <1>7, <1>8 DEF Run, Next

\* What the late cleanup does.
LEMMA LateInv == IInv /\ process # "exited" /\ Late => IInv'
<1> SUFFICES ASSUME IInv, process # "exited", Late PROVE IInv'
  OBVIOUS
<1> USE DEF IInv, TypeOK, LateIsOrphan, VerdictIsOwn, Phases, Containers,
            Untouched, Gone, Attended, unseen, run, daemon, fault
<1>1. CASE LateStart
  <2>1. LateIsOrphan' /\ VerdictIsOwn' /\ Phases' /\ Containers'
    BY <1>1 DEF LateStart
  <2>2. Untouched' /\ Gone' /\ Attended'
    BY <1>1 DEF LateStart
  <2>. QED
    BY TypedInv, <2>1, <2>2 DEF Late, Next
<1>2. CASE NoLateStart
  <2>1. LateIsOrphan' /\ VerdictIsOwn' /\ Phases' /\ Containers'
    BY <1>2 DEF NoLateStart
  <2>2. Untouched' /\ Gone' /\ Attended'
    BY <1>2 DEF NoLateStart
  <2>. QED
    BY TypedInv, <2>1, <2>2 DEF Late, Next
<1>3. CASE LateStopped
  <2>1. LateIsOrphan' /\ VerdictIsOwn' /\ Phases' /\ Containers'
    BY <1>3 DEF LateStopped
  <2>2. Untouched' /\ Gone' /\ Attended'
    BY <1>3 DEF LateStopped
  <2>. QED
    BY TypedInv, <2>1, <2>2 DEF Late, Next
<1>4. CASE LateRemoved
  <2>1. LateIsOrphan' /\ VerdictIsOwn' /\ Phases' /\ Containers'
    BY <1>4 DEF LateRemoved
  <2>2. Untouched' /\ Gone' /\ Attended'
    BY <1>4 DEF LateRemoved
  <2>. QED
    BY TypedInv, <2>1, <2>2 DEF Late, Next
<1>. QED
  BY TypedInv, <1>1, <1>2, <1>3, <1>4 DEF Late, Next

\* What the shutdown does.
LEMMA ShutdownInv == IInv /\ Shutdown => IInv'
<1> SUFFICES ASSUME IInv, Shutdown PROVE IInv'
  OBVIOUS
<1> USE DEF IInv, TypeOK, LateIsOrphan, VerdictIsOwn, Phases, Containers,
            Untouched, Gone, Attended, around, run, daemon, fault,
            Cancel, CancelStarting, CancelWaiting, CancelStopping,
            CancelFinally, Swallowed
<1>1. CASE Interrupt
  <2>1. LateIsOrphan' /\ VerdictIsOwn' /\ Phases' /\ Containers'
    BY <1>1 DEF Interrupt
  <2>2. Untouched' /\ Gone' /\ Attended'
    BY <1>1 DEF Interrupt
  <2>. QED
    BY TypedInv, <2>1, <2>2 DEF Shutdown, Next
<1>2. CASE CancelExecution
  <2>1. LateIsOrphan' /\ VerdictIsOwn' /\ Phases' /\ Containers'
    BY <1>2 DEF CancelExecution
  <2>2. Untouched' /\ Gone' /\ Attended'
    BY <1>2 DEF CancelExecution
  <2>. QED
    BY TypedInv, <2>1, <2>2 DEF Shutdown, Next
<1>3. CASE CancelAll
  <2>1. LateIsOrphan' /\ VerdictIsOwn' /\ Phases' /\ Containers'
    BY <1>3 DEF CancelAll
  <2>2. Untouched' /\ Gone' /\ Attended'
    BY <1>3 DEF CancelAll
  <2>. QED
    BY TypedInv, <2>1, <2>2 DEF Shutdown, Next
<1>4. CASE JoinThreads
  <2>1. LateIsOrphan' /\ VerdictIsOwn' /\ Phases' /\ Containers'
    BY <1>4 DEF JoinThreads
  <2>2. Untouched' /\ Gone' /\ Attended'
    BY <1>4 DEF JoinThreads
  <2>. QED
    BY TypedInv, <2>1, <2>2 DEF Shutdown, Next
<1>5. CASE Exit
  <2>1. LateIsOrphan' /\ VerdictIsOwn' /\ Phases' /\ Containers'
    BY <1>5 DEF Exit
  <2>2. Untouched' /\ Gone' /\ Attended'
    BY <1>5 DEF Exit
  <2>. QED
    BY TypedInv, <2>1, <2>2 DEF Shutdown, Next
<1>. QED
  BY TypedInv, <1>1, <1>2, <1>3, <1>4, <1>5 DEF Shutdown, Next

\* Every step.
LEMMA NextInv == IInv /\ [Next]_vars => IInv'
<1> SUFFICES ASSUME IInv, [Next]_vars PROVE IInv'
  OBVIOUS
<1>1. CASE Daemon
  BY <1>1, DaemonInv
<1>2. CASE process # "exited" /\ (Run \/ Late)
  BY <1>2, RunInv, LateInv
<1>3. CASE Shutdown
  BY <1>3, ShutdownInv
<1>4. CASE UNCHANGED vars
  <2>1. Typed'
    BY <1>4, TypedInv DEF IInv, TypeOK
  <2>2. LateIsOrphan' /\ VerdictIsOwn' /\ Phases' /\ Containers'
    BY <1>4 DEF vars, IInv, TypeOK, LateIsOrphan, VerdictIsOwn, Phases, Containers
  <2>3. Untouched' /\ Gone' /\ Attended'
    BY <1>4 DEF vars, IInv, Untouched, Gone, Attended
  <2>. QED
    BY <2>1, <2>2, <2>3 DEF IInv, TypeOK
<1>. QED
  BY <1>1, <1>2, <1>3, <1>4 DEF Next, Done

LEMMA Invariance == Spec => []IInv
<1>. QED
  BY InitInv, NextInv, PTL DEF Spec

-------------------------------------------------------------------------------
(* The properties the run checks.                                            *)

\* The state of a run is well-formed, and the late cleanup (lines 316-333) is
\* only ever at work for a run that never had its container.
THEOREM TypeCorrectness == Spec => []TypeOK
<1>1. IInv => TypeOK
  BY DEF IInv
<1>. QED
  BY <1>1, Invariance, PTL

\* A verdict about an exit (lines 412-458) is about one the container came to
\* by itself, whatever stops, timeouts and refusals there were.
THEOREM OwnVerdict == Spec => []VerdictIsOwn
<1>1. IInv => VerdictIsOwn
  BY DEF IInv
<1>. QED
  BY <1>1, Invariance, PTL

\* The finally of run (lines 478-507) leaves no container behind a run that
\* returns, unless the daemon refused to start or to remove it.
THEOREM ReturnRemoves == Spec => []ReturnedIsRemoved
<1>1. IInv => ReturnedIsRemoved
  BY DEF IInv, Gone, ReturnedIsRemoved
<1>. QED
  BY <1>1, Invariance, PTL

\* However often and wherever run is cancelled, a container does not outlive
\* the process, but for a start that returns only when asyncio joins its threads
\* (lines 316-333, 365-376).
THEOREM NothingOutlives == Spec => []StartedIsStopped
<1>1. IInv => StartedIsStopped
  BY DEF IInv, Phases, Attended, StartedIsStopped
<1>. QED
  BY <1>1, Invariance, PTL
===============================================================================
