------------------------------- MODULE JobFiles -------------------------------
(***************************************************************************)
(* What an attempt leaves beside its logs: a watched file, pushed whole    *)
(* again and again while the container rewrites it (TaskReporter,          *)
(* backend/runner/reporter.py), and an artifact uploaded once it has ended *)
(* (TaskExecutor._upload_artifacts, backend/runner/executor.py), through   *)
(* the retrying client (backend/runner/client.py) into JobFileStore        *)
(* (backend/app/services/job_files.py), which writes both in place.        *)
(*                                                                         *)
(* LogPush has the files in append mode; JobExecution what becomes of the  *)
(* result, which is one step here.                                         *)
(***************************************************************************)
EXTENDS Naturals

CONSTANTS
  MaxContent, \* bound: contents of the watched file, beside none
  MaxTries,   \* max_attempts of _request_with_retry
  MaxFaults,  \* bound: faults in a behaviour
  Faults      \* the faults that may happen

\* "lost": a request or a reply never arrives.  "late": the client gives up on
\* a request the server still serves.  "unsaved": writing fails.  "crash": the
\* server dies while it writes.  "hurry": the limits on a stopped reporter cut a
\* push off.  "unreadable": looking at a watched file raises what no flush catches.
\* "stop": the runner is interrupted.  "taken": the job is given to another attempt.
FaultKinds ==
  {"lost", "late", "unsaved", "crash", "hurry", "unreadable", "stop", "taken"}

ASSUME FilesAssumption ==
  /\ MaxContent \in Nat \ {0} /\ MaxTries \in Nat \ {0} /\ MaxFaults \in Nat
  /\ Faults \subseteq FaultKinds

\* The two coroutines of an attempt that send files, and so the two files.
Callers == {"push", "upload"}

\* The contents of a file: none, one the runner had, or what a write left that did
\* not end.
Nothing == 0
Torn == MaxContent + 1
Contents == 0..Torn

VARIABLES
  work,     \* the executor: "run", "upload", "drain" (reporter.stop), "recorded", or
            \* "lost": it left _shutdown_job before set_terminal
  phase,    \* TaskReporter.run: "loop", "final" (the flush in its finally), "done"
  raised,   \* an exception ends, or ended, the reporter's task
  local,    \* file -> its content in the workspace of the job
  call,     \* caller -> its request
  uploaded, \* what _upload_artifacts came to: "none", "yes", "failed"
  net,      \* requests the server has not served
  mine,     \* the attempt's lease is the job's
  big,      \* the artifact exceeds artifact_max_bytes
  stored,   \* file -> its content in JobFileStore
  faults,
  seen,     \* ghost: the last content a flush found in the watched file
  cut,      \* ghost: the executor was cancelled in its wait for the reporter
  mild,     \* ghost: only replies and requests were lost, fewer than a call has tries
  spoiled   \* ghost: serving a request nobody awaited any more failed

runner == <<work, phase, raised, local, uploaded, seen, cut>>
ghosts == <<faults, mild, spoiled>>
vars == <<runner, call, net, mine, big, stored, ghosts>>

\* at: "idle", "sent", or what was answered.
Calls == [at : {"idle", "sent", "ok", "5xx", "4xx"}, content : Contents,
          tries : 0..MaxTries]
Requests == [caller : Callers, content : 1..MaxContent, awaited : BOOLEAN]

Init ==
  /\ work = "run" /\ phase = "loop" /\ uploaded = "none"
  /\ raised = FALSE /\ seen = Nothing /\ cut = FALSE
  /\ local = [f \in Callers |-> Nothing]
  /\ call = [c \in Callers |-> [at |-> "idle", content |-> Nothing, tries |-> 0]]
  /\ net = {} /\ mine = TRUE /\ big \in BOOLEAN
  /\ stored = [f \in Callers |-> Nothing]
  /\ faults = 0 /\ mild = TRUE /\ spoiled = FALSE

NoFault == UNCHANGED <<faults, mild>>
Fault(kind) ==
  /\ kind \in Faults /\ faults < MaxFaults
  /\ faults' = faults + 1
  /\ mild' = (mild /\ kind = "lost" /\ faults' < MaxTries)

-------------------------------------------------------------------------------
(* _request_with_retry of either caller.                                     *)

Idle(c) == call[c].at = "idle"

Returns(c) == call' = [call EXCEPT ![c] = [at |-> "idle", content |-> Nothing, tries |-> 0]]

Awaited(c) == {m \in net : m.caller = c /\ m.awaited}

\* What is left of net when nobody waits for the request of c any more.
Abandoned(c) == (net \ Awaited(c)) \cup {[m EXCEPT !.awaited = FALSE] : m \in Awaited(c)}

\* The next attempt of caller c sends content.
Attempt(c, content) ==
  /\ call' = [call EXCEPT ![c] = [at |-> "sent", content |-> content,
                                  tries |-> @.tries + 1]]
  /\ net' = Abandoned(c) \cup {[caller |-> c, content |-> content, awaited |-> TRUE]}

\* Fault: no flush after the loop.
FlushEndsAtOnce(p) == phase' = IF p = "final" \/ work = "drain" THEN "done" ELSE "loop"

\* Fault: a stopped reporter flushes on.
FlushEndsNever(p) == phase' = IF work = "drain" THEN "final" ELSE "loop"

\* A flush in phase p ends.
FlushEnds(p) ==
  phase' = IF p = "final" THEN "done" ELSE IF work = "drain" THEN "final" ELSE "loop"

\* What the caller does when its request has come to an end: push failures never
\* break the reporter's loop, and a lost artifact does not make a job fail.
Ends(c, ok) ==
  /\ Returns(c)
  /\ \/ /\ c = "push" /\ FlushEnds(phase)
        /\ UNCHANGED <<work, uploaded>>
     \/ /\ c = "upload" /\ uploaded' = (IF ok THEN "yes" ELSE "failed")
        /\ work' = "drain" /\ UNCHANGED phase
  /\ net' = Abandoned(c)
  /\ UNCHANGED <<raised, local, seen, cut>>

\* The same payload, or the artifact read again, while there are tries left.
Retries(c) == call[c].tries < MaxTries /\ Attempt(c, call[c].content)

Failed(c) ==
  \/ Retries(c) /\ UNCHANGED runner
  \/ call[c].tries = MaxTries /\ Ends(c, FALSE)

\* httpx.RequestError: no reply, or none in time.
GiveUp(c) ==
  /\ call[c].at = "sent"
  /\ IF Awaited(c) # {} THEN Fault("late") ELSE NoFault
  /\ Failed(c)
  /\ UNCHANGED <<mine, big, stored, spoiled>>

ServerError(c) ==
  /\ call[c].at = "5xx"
  /\ Failed(c)
  /\ UNCHANGED <<mine, big, stored, ghosts>>

\* Fault: every answer is taken for success.
AnsweredAlways(c) ==
  /\ call[c].at \in {"ok", "4xx", "5xx"}
  /\ Ends(c, TRUE)
  /\ UNCHANGED <<mine, big, stored, ghosts>>

\* A 200, or an HTTPStatusError that is not tried again.
Answered(c) ==
  /\ call[c].at \in {"ok", "4xx"}
  /\ Ends(c, call[c].at = "ok")
  /\ UNCHANGED <<mine, big, stored, ghosts>>

-------------------------------------------------------------------------------
(* The container, the reporter and the executor.                             *)

\* Rewritten, emptied, removed or made again: an empty file is as good as none.
Edit ==
  /\ work = "run"
  /\ \E content \in 0..MaxContent :
       content # local["push"] /\ local' = [local EXCEPT !["push"] = content]
  /\ UNCHANGED <<work, phase, raised, uploaded, seen, cut, call, net, mine, big, stored, ghosts>>

\* _flush_files: a missing or empty file is skipped, any other is read and pushed
\* whole.  After stop comes the flush of the finally, if it is not this one.
Flush ==
  /\ phase # "done" /\ Idle("push")
  /\ LET p == IF work = "drain" THEN "final" ELSE phase
     IN  \/ /\ local["push"] = Nothing
            /\ FlushEnds(p)
            /\ UNCHANGED <<seen, call, net>>
         \/ /\ local["push"] # Nothing
            /\ seen' = local["push"]
            /\ phase' \in {phase, p} /\ Attempt("push", local["push"])
  /\ UNCHANGED <<work, raised, local, uploaded, cut, mine, big, stored, ghosts>>

\* Path.exists or the read raises: no loop any more, only the flush of its finally.
FlushRaises ==
  /\ phase # "done" /\ Idle("push") /\ Fault("unreadable")
  /\ raised' = TRUE
  /\ \/ phase = "loop" /\ phase' = "final"
     \/ (phase = "final" \/ work = "drain") /\ phase' = "done"
  /\ UNCHANGED <<work, local, uploaded, seen, cut, call, net, mine, big, stored, spoiled>>

\* The push in a stopped reporter takes 2 seconds at most, the reporter 30: then it
\* is cancelled, whatever else it would have raised.
CutOff ==
  /\ work \in {"drain", "lost"} /\ call["push"].at = "sent" /\ Fault("hurry")
  /\ Returns("push") /\ FlushEnds(phase) /\ net' = Abandoned("push")
  /\ raised' \in {raised, FALSE}
  /\ UNCHANGED <<work, local, uploaded, seen, cut, mine, big, stored, spoiled>>

\* docker.run returns.  The job may name no artifacts, or leave none.
ContainerEnds ==
  /\ work = "run"
  /\ \/ work' = "drain" /\ UNCHANGED local
     \/ work' = "upload" /\ local' = [local EXCEPT !["upload"] = 1]
  /\ UNCHANGED <<phase, raised, uploaded, seen, cut, call, net, mine, big, stored, ghosts>>

Upload ==
  /\ work = "upload" /\ Idle("upload")
  /\ Attempt("upload", local["upload"])
  /\ UNCHANGED <<runner, mine, big, stored, ghosts>>

\* execute_claimed_job is cancelled: what it awaits, and the rest, is skipped.
Interrupt ==
  /\ work \in {"run", "upload"} /\ Fault("stop")
  /\ work' = "drain" /\ Returns("upload") /\ net' = Abandoned("upload")
  /\ UNCHANGED <<phase, raised, local, uploaded, seen, cut, mine, big, stored, spoiled>>

\* Cancelled in _shutdown_job: it waits for the reporter, catches a TimeoutError
\* only, and takes the reporter along, up to the flush of its finally.
InterruptDrain ==
  /\ work = "drain" /\ Fault("stop")
  /\ work' = "lost" /\ cut' = TRUE
  /\ phase' = IF phase = "loop" THEN "final" ELSE "done"
  /\ Returns("push") /\ net' = Abandoned("push")
  /\ UNCHANGED <<raised, local, uploaded, seen, mine, big, stored, spoiled>>

\* _shutdown_job: the reporter has ended, and the result is reported.  What the
\* reporter raised is raised again by the wait for it.
Record ==
  /\ work = "drain" /\ phase = "done"
  /\ work' = IF raised THEN "lost" ELSE "recorded"
  /\ UNCHANGED <<phase, raised, local, uploaded, seen, cut, call, net, mine, big, stored, ghosts>>

-------------------------------------------------------------------------------
(* push_runner_job_file in full mode, upload_runner_job_artifact.            *)

\* The reply to m, unless it is lost or nobody awaits it.
Reply(m, answer) ==
  \/ /\ call' = IF m.awaited THEN [call EXCEPT ![m.caller].at = answer] ELSE call
     /\ NoFault
  \/ m.awaited /\ Fault("lost") /\ UNCHANGED call

Served(m) == m \in net /\ net' = net \ {m} /\ UNCHANGED <<runner, big>>

Stores(m, content) == stored' = [stored EXCEPT ![m.caller] = content]

\* require_job_lease: 404 or 409.
Refuse(m) ==
  /\ ~mine /\ Served(m) /\ Reply(m, "4xx")
  /\ UNCHANGED <<mine, stored, spoiled>>

\* write_full, save_artifact.  An artifact over the cap is removed: a 413.
Save(m) ==
  /\ mine /\ Served(m)
  /\ IF m.caller = "upload" /\ big
     THEN Stores(m, Nothing) /\ Reply(m, "4xx")
     ELSE Stores(m, m.content) /\ Reply(m, "ok")
  /\ UNCHANGED <<mine, spoiled>>

Spoils(m) == spoiled' = (spoiled \/ ~m.awaited)

\* Opened for writing, the former content is gone.  Only an artifact is removed.
SaveFails(m) ==
  /\ mine /\ Fault("unsaved") /\ Served(m)
  /\ Stores(m, IF m.caller = "upload" THEN Nothing ELSE Torn) /\ Spoils(m)
  /\ call' = IF m.awaited THEN [call EXCEPT ![m.caller].at = "5xx"] ELSE call
  /\ UNCHANGED mine

\* The process ends while it writes, and with it every connection.
Crash(m) ==
  /\ mine /\ m \in net /\ Fault("crash")
  /\ net' = {} /\ Stores(m, Torn) /\ Spoils(m)
  /\ UNCHANGED <<runner, call, mine, big>>

Lose(m) ==
  /\ m \in net /\ m.awaited /\ Fault("lost")
  /\ net' = net \ {m}
  /\ UNCHANGED <<runner, call, mine, big, stored, spoiled>>

\* The lease expired or the user retried the job, and it was claimed again:
\* _clear_job_files.
Taken ==
  /\ mine /\ Fault("taken")
  /\ mine' = FALSE /\ stored' = [f \in Callers |-> Nothing]
  /\ UNCHANGED <<runner, call, net, big, spoiled>>

-------------------------------------------------------------------------------
Running == Flush \/ CutOff \/ Upload \/ Record
             \/ \E c \in Callers : GiveUp(c) \/ ServerError(c) \/ Answered(c)

Serving(c) == \E m \in net : m.caller = c /\ (Refuse(m) \/ Save(m))

Failing == \E m \in net : SaveFails(m) \/ Crash(m) \/ Lose(m)

\* An attempt that has ended stays so.
Done == work \in {"recorded", "lost"} /\ phase = "done" /\ net = {} /\ UNCHANGED vars

Next == Edit \/ FlushRaises \/ ContainerEnds \/ Interrupt \/ InterruptDrain \/ Taken \/ Running \/ Failing \/ Done
          \/ \E c \in Callers : Serving(c)

Spec == Init /\ [][Next]_vars

(* The client's timeouts end every wait, the executor and the reporter run   *)
(* on, and the server serves what reaches it.                                *)
Fairness ==
  /\ WF_vars(Flush \/ CutOff \/ GiveUp("push") \/ ServerError("push") \/ Answered("push"))
  /\ WF_vars(Upload \/ GiveUp("upload") \/ ServerError("upload") \/ Answered("upload"))
  /\ WF_vars(Record) /\ \A c \in Callers : WF_vars(Serving(c))

FairSpec == Spec /\ Fairness

-------------------------------------------------------------------------------
(* Properties.                                                               *)

TypeOK ==
  /\ work \in {"run", "upload", "drain", "recorded", "lost"}
  /\ phase \in {"loop", "final", "done"}
  /\ raised \in BOOLEAN /\ cut \in BOOLEAN /\ seen \in 0..MaxContent
  /\ local \in [Callers -> 0..MaxContent] /\ uploaded \in {"none", "yes", "failed"}
  /\ call \in [Callers -> Calls]
  /\ net \subseteq Requests
  /\ mine \in BOOLEAN /\ big \in BOOLEAN /\ mild \in BOOLEAN /\ spoiled \in BOOLEAN
  /\ stored \in [Callers -> Contents] /\ faults \in 0..MaxFaults

\* An artifact the runner takes for uploaded is there, whole, whatever requests of
\* the same upload are served later, unless writing one of those failed: it had
\* removed the artifact before it wrote.
UploadedIsStored ==
  uploaded = "yes" /\ mine /\ ~spoiled => stored["upload"] = local["upload"]

\* With no worse faults than lost messages, the files of a finished job are the
\* last the container wrote; of a watched file it left empty or removed, the last
\* content a flush found (the server is never told of the removal).
RecordedIsFinal ==
  work = "recorded" /\ mild =>
    /\ stored["push"] = seen
    /\ local["push"] # Nothing => seen = local["push"]
    /\ local["upload"] # Nothing /\ ~big => stored["upload"] = local["upload"]

\* A container that ended gets its result reported, however its files fare: only an
\* exception of the reporter, or a cancellation during the wait for it, stops that.
ResultFollows ==
  work \in {"upload", "drain"} ~>
    work = "recorded" \/ (work = "lost" /\ (raised \/ cut))
===============================================================================
