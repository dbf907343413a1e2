-------------------------------- MODULE LogPush --------------------------------
(***************************************************************************)
(* Pushing one append-mode log file of one job attempt to the control      *)
(* plane: TaskReporter (backend/runner/reporter.py), the retrying client   *)
(* (backend/runner/client.py) and push_runner_job_file with its chunk      *)
(* numbers (backend/app/main.py, database.py, job_files.py).               *)
(*                                                                         *)
(* The log is written by the job's container, another process.  A file is  *)
(* its incarnation gen (truncation starts a new one) and its length len;   *)
(* a chunk is the interval from+1..to of an incarnation.                   *)
(***************************************************************************)
EXTENDS Naturals, Sequences, FiniteSets

CONSTANTS
  MaxLen,     \* bound: length of the log file
  MaxTries,   \* max_attempts of _post_with_retry
  MaxFaults,  \* bound: faults in a behaviour
  Faults      \* the faults that may happen

\* "lost": a request or a reply never arrives.  "late": the client gives up on
\* a request the server still serves.  "unsaved": append_file fails.  "crash":
\* the server dies between the chunk's commit and append_file.  "truncate": the
\* log is truncated.  "hurry": the limits on a stopped reporter cut a push off.
FaultKinds == {"lost", "late", "unsaved", "crash", "truncate", "hurry"}

ASSUME LogAssumption ==
  /\ MaxLen \in Nat /\ MaxTries \in Nat \ {0} /\ MaxFaults \in Nat
  /\ Faults \subseteq FaultKinds

VARIABLES
  len, gen,   \* the local file
  stop,       \* _stop_event
  offset,     \* _sent_offsets[path]
  nextSeq,    \* _next_chunk_seq[path]
  phase,      \* run(): "loop", "final" (the flush in its finally), "done"
  pc,         \* _flush_files: "idle", "read" (after stat), "push"
  size,       \* current_size
  chunk,      \* what is being pushed
  tries,      \* attempts of this push
  answer,     \* the reply to the last attempt: "none", "ok", "5xx"
  attempt,    \* the request of the last attempt
  net,        \* requests the server has not served
  last,       \* job_file_chunk_sequences.last_chunk_seq, 0 without a row
  stored,     \* the stored file: the sequence of chunks appended to it
  count,      \* faults so far
  rough       \* ghost: more has gone wrong than the retries are made for

file == <<len, gen>>
reporter == <<offset, nextSeq, phase, pc, size, chunk, tries>>
server == <<last, stored>>
faults == <<count, rough>>
vars == <<file, stop, reporter, answer, attempt, net, server, faults>>

Chunks == [seq : Nat, gen : Nat, from : 0..MaxLen, to : 0..MaxLen]
NoChunk == [seq |-> 0, gen |-> 0, from |-> 0, to |-> 0]

Init ==
  /\ len = 0 /\ gen = 0 /\ stop = FALSE
  /\ offset = 0 /\ nextSeq = 1 /\ phase = "loop" /\ pc = "idle"
  /\ size = 0 /\ chunk = NoChunk /\ tries = 0
  /\ answer = "none" /\ attempt = 0 /\ net = {}
  /\ last = 0 /\ stored = << >> /\ count = 0 /\ rough = FALSE

\* A push gets over fewer lost and late messages than it has attempts.
Fault(kind) ==
  /\ kind \in Faults /\ count < MaxFaults
  /\ count' = count + 1
  /\ rough' = (rough \/ kind \notin {"lost", "late"} \/ count' = MaxTries)

(* The container, and reporter.stop() after it has ended.                    *)

Grow ==
  /\ ~stop /\ len < MaxLen
  /\ len' = len + 1
  /\ UNCHANGED <<gen, stop, reporter, answer, attempt, net, server, faults>>

Truncate ==
  /\ ~stop /\ len > 0 /\ Fault("truncate")
  /\ len' = 0 /\ gen' = gen + 1
  /\ UNCHANGED <<stop, reporter, answer, attempt, net, server>>

Stop ==
  /\ ~stop
  /\ stop' = TRUE
  /\ UNCHANGED <<file, reporter, answer, attempt, net, server, faults>>

(* TaskReporter.run and _flush_files.                                        *)

\* Fault: no flush after the loop.
FlushEndsAtOnce(ph) ==
  /\ pc' = "idle" /\ size' = 0 /\ chunk' = NoChunk /\ tries' = 0
  /\ phase' = IF ph = "loop" /\ ~stop THEN "loop" ELSE "done"

\* A flush in phase ph ends.
FlushEnds(ph) ==
  /\ pc' = "idle" /\ size' = 0 /\ chunk' = NoChunk /\ tries' = 0
  /\ phase' = CASE ph = "final"          -> "done"
                [] ph = "loop" /\ stop   -> "final"
                [] ph = "loop" /\ ~stop  -> "loop"

\* A flush begins with a stat and returns if nothing was written.  A file
\* shorter than what was sent is taken for a new one.  The loop's last flush
\* may reach this file only after stop, which comes while it serves another.
Stat ==
  /\ phase # "done" /\ pc = "idle"
  /\ \E ph \in IF stop THEN {phase, "final"} ELSE {phase} :
       IF len = offset
       THEN FlushEnds(ph) /\ UNCHANGED nextSeq
       ELSE LET shorter == len < offset
                from == IF shorter THEN 0 ELSE offset
            IN  /\ pc' = "read" /\ phase' = ph /\ size' = len
                /\ nextSeq' = IF shorter THEN 1 ELSE nextSeq
                /\ chunk' = [seq |-> nextSeq', gen |-> gen,
                             from |-> from, to |-> from]
                /\ UNCHANGED tries
  /\ UNCHANGED <<file, stop, offset, answer, attempt, net, server, faults>>

(* push_file: _request_with_retry.                                           *)

Waiting == pc = "push" /\ answer = "none"
Awaited(m) == Waiting /\ m.id = attempt

\* A name no request on its way has.
Fresh == CHOOSE i \in 1..(Cardinality(net) + 1) : \A m \in net : m.id # i

Request(c) ==
  /\ pc' = "push" /\ chunk' = c /\ tries' = tries + 1
  /\ attempt' = Fresh
  /\ net' = net \cup {[id |-> Fresh, chunk |-> c]}

\* Seek and read to the end of the file as it is now, and push what was read.
Read ==
  /\ pc = "read"
  /\ IF len > chunk.from
     THEN Request([chunk EXCEPT !.gen = gen, !.to = len]) /\ UNCHANGED <<phase, size>>
     ELSE FlushEnds(phase) /\ UNCHANGED <<attempt, net>>
  /\ UNCHANGED <<file, stop, offset, nextSeq, answer, server, faults>>

\* Fault: one attempt too many.
FailedOnceMore ==
  /\ answer' = "none"
  /\ \/ tries <= MaxTries /\ Request(chunk) /\ UNCHANGED <<phase, size>>
     \/ tries > MaxTries /\ FlushEnds(phase) /\ UNCHANGED <<attempt, net>>
  /\ UNCHANGED <<file, stop, offset, nextSeq, server>>

\* The attempt failed: the next one, or the push fails and leaves its offset
\* and its chunk number as they were.
Failed ==
  /\ answer' = "none"
  /\ \/ tries < MaxTries /\ Request(chunk) /\ UNCHANGED <<phase, size>>
     \/ tries = MaxTries /\ FlushEnds(phase) /\ UNCHANGED <<attempt, net>>
  /\ UNCHANGED <<file, stop, offset, nextSeq, server>>

\* httpx.RequestError: the reply will not come, or does not come in time.
GiveUp ==
  /\ Waiting
  /\ IF \E m \in net : Awaited(m) THEN Fault("late") ELSE UNCHANGED faults
  /\ Failed

ServerError ==
  /\ pc = "push" /\ answer = "5xx"
  /\ Failed
  /\ UNCHANGED faults

\* Fault: the next chunk gets the number of this one.
AcknowledgeKeepingNumber ==
  /\ pc = "push" /\ answer = "ok"
  /\ nextSeq' = chunk.seq
  /\ offset' = size
  /\ FlushEnds(phase) /\ answer' = "none"
  /\ UNCHANGED <<file, stop, attempt, net, server, faults>>

\* A 200, whether the chunk was appended or taken for a duplicate.
Acknowledge ==
  /\ pc = "push" /\ answer = "ok"
  /\ nextSeq' = chunk.seq + 1
  /\ offset' = size
  /\ FlushEnds(phase) /\ answer' = "none"
  /\ UNCHANGED <<file, stop, attempt, net, server, faults>>

\* wait_for cuts a push off after 2 seconds in a stopped reporter, and
\* _shutdown_job cancels a reporter that does not end within 30 seconds, whose
\* finally flushes once more if it was in the loop.
CutOff ==
  /\ Waiting /\ stop /\ Fault("hurry")
  /\ FlushEnds(phase)
  /\ UNCHANGED <<file, stop, offset, nextSeq, answer, attempt, net, server>>

(* The server: push_runner_job_file under a valid lease.                     *)

\* Fault: a repeated chunk number is taken for a new one.
IsNewOrRepeated(seq) == seq >= last

\* record_job_file_chunk
IsNew(seq) == seq > last

Serve(m) ==
  /\ m \in net
  /\ net' = net \ {m}
  /\ last' = IF IsNew(m.chunk.seq) THEN m.chunk.seq ELSE last
  /\ UNCHANGED <<file, stop, reporter, attempt>>

Push(m) ==
  /\ Serve(m)
  /\ stored' = IF IsNew(m.chunk.seq) THEN Append(stored, m.chunk) ELSE stored
  /\ \/ answer' = (IF Awaited(m) THEN "ok" ELSE answer) /\ UNCHANGED faults
     \/ Awaited(m) /\ Fault("lost") /\ UNCHANGED answer

\* append_file fails after the chunk number was committed: a 500.
PushUnsaved(m) ==
  /\ IsNew(m.chunk.seq) /\ Fault("unsaved")
  /\ Serve(m)
  /\ answer' = IF Awaited(m) THEN "5xx" ELSE answer
  /\ UNCHANGED stored

\* The restarted server goes on with the committed number.
CrashInPush(m) ==
  /\ IsNew(m.chunk.seq) /\ Fault("crash")
  /\ Serve(m)
  /\ UNCHANGED <<answer, stored>>

Lose(m) ==
  /\ m \in net /\ Awaited(m) /\ Fault("lost")
  /\ net' = net \ {m}
  /\ UNCHANGED <<file, stop, reporter, answer, attempt, server>>

-------------------------------------------------------------------------------
Reporting ==
  Stat \/ Read \/ GiveUp \/ ServerError \/ Acknowledge \/ CutOff

Serving == \E m \in net : Push(m) \/ PushUnsaved(m) \/ CrashInPush(m)

\* A reporter that is done stays done.
Done == phase = "done" /\ net = {} /\ stop /\ UNCHANGED vars

Next == Grow \/ Truncate \/ Stop \/ Reporting \/ Serving
          \/ (\E m \in net : Lose(m)) \/ Done

Spec == Init /\ [][Next]_vars

(* The flush loop runs on its timer, the client's timeouts end every wait,   *)
(* and the server serves what reaches it.                                    *)
Fairness == WF_vars(Reporting) /\ WF_vars(Serving)

FairSpec == Spec /\ Fairness

-------------------------------------------------------------------------------
(* Properties.                                                               *)

Stored(g, b) ==
  \E i \in 1..Len(stored) :
    stored[i].gen = g /\ stored[i].from < b /\ b <= stored[i].to

TypeOK ==
  /\ len \in 0..MaxLen /\ gen \in Nat /\ stop \in BOOLEAN
  /\ offset \in 0..MaxLen /\ size \in 0..MaxLen /\ nextSeq \in Nat \ {0}
  /\ phase \in {"loop", "final", "done"} /\ pc \in {"idle", "read", "push"}
  /\ chunk \in Chunks /\ tries \in 0..MaxTries
  /\ answer \in {"none", "ok", "5xx"} /\ attempt \in Nat
  /\ \A m \in net : m.id \in Nat /\ m.chunk \in Chunks
  /\ last \in Nat /\ stored \in Seq(Chunks)
  /\ count \in 0..MaxFaults /\ rough \in BOOLEAN

\* The stored log never runs backwards: retried, late and repeated requests
\* append no chunk a second time and none behind a later one.
StoredInOrder ==
  \A k \in 1..Len(stored), i \in 1..Len(stored) : i < k =>
    /\ stored[i].seq < stored[k].seq
    /\ stored[i].gen = stored[k].gen => stored[i].from <= stored[k].from

\* What the server acknowledged is in the stored log, as long as only fewer
\* messages are lost or late than a push has attempts.  The reporter relies on
\* it: it never sends those bytes again.
AcknowledgedIsStored ==
  answer = "ok" /\ ~rough =>
    \A b \in (chunk.from + 1)..chunk.to : Stored(chunk.gen, b)

\* Once the job has ended the reporter ends, and the whole log is stored unless
\* more has gone wrong than the retries are made for.
LogArrives ==
  stop ~> (phase = "done" /\ (rough \/ \A b \in 1..len : Stored(gen, b)))
===============================================================================
