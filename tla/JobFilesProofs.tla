---------------------------- MODULE JobFilesProofs ----------------------------
(***************************************************************************)
(* Proofs about JobFiles for any number of contents, attempts and faults.  *)
(***************************************************************************)
EXTENDS JobFiles, TLAPS

USE FilesAssumption

\* A request that is awaited is the one its caller sent last.
Calling ==
  \A c \in Callers :
    /\ ~Idle(c) => call[c].content \in 1..MaxContent /\ call[c].tries \in 1..MaxTries
    /\ Idle(c) => call[c].tries = 0
    /\ \A m \in Awaited(c) : call[c].at = "sent" /\ m.content = call[c].content

\* The upload, from the container's end to the executor's.
Uploading ==
  /\ work = "run" => uploaded = "none" /\ local["upload"] = Nothing
  /\ work = "upload" => uploaded = "none" /\ local["upload"] # Nothing
  /\ work # "upload" => Idle("upload")
  /\ ~Idle("upload") => call["upload"].content = local["upload"]
  /\ \A m \in net : m.caller = "upload" => m.content = local["upload"]
  /\ call["upload"].at = "ok" \/ uploaded = "yes" =>
       ~big /\ (mine /\ ~spoiled => stored["upload"] = local["upload"])

\* The last flush comes with the container's end, or with an exception.
Flushing ==
  /\ phase # "loop" => work \notin {"run", "upload"} \/ raised
  /\ phase = "done" => Idle("push")
  /\ work = "recorded" => phase = "done"

\* As long as only messages are lost, and fewer than a call has tries, no call
\* runs out of them, no request outlives its call, and the last flush finds the
\* watched file at rest.
Mild ==
  mild =>
    /\ mine /\ faults < MaxTries /\ ~raised /\ work # "lost"
    /\ \A m \in net : m.awaited
    /\ \A c \in Callers : call[c].at = "sent" =>
         call[c].tries <= faults + 1 /\ (Awaited(c) = {} => call[c].tries <= faults)
    /\ call["push"].at \in {"idle", "sent", "ok"}
    /\ call["push"].at = "ok" => stored["push"] = call["push"].content
    /\ Idle("push") => stored["push"] = seen
    /\ ~Idle("push") => call["push"].content = seen
    /\ phase = "final" /\ ~Idle("push") => call["push"].content = local["push"]
    /\ phase = "done" /\ local["push"] # Nothing => seen = local["push"]
    /\ call["upload"].at \in {"idle", "sent", "ok", "4xx"}
    /\ call["upload"].at = "ok" => stored["upload"] = local["upload"]
    /\ call["upload"].at = "4xx" => big
    /\ work \in {"drain", "recorded"} /\ local["upload"] # Nothing /\ ~big =>
         stored["upload"] = local["upload"]

IInv == TypeOK /\ Calling /\ Uploading /\ Flushing /\ Mild

-------------------------------------------------------------------------------
(* Lemmas.                                                                   *)

LEMMA InitInv == Init => IInv
<1>. SUFFICES ASSUME Init PROVE IInv
  OBVIOUS
<1>1. \A c \in Callers : call[c] = [at |-> "idle", content |-> Nothing, tries |-> 0]
  BY DEF Init
<1>2. "push" \in Callers /\ "upload" \in Callers
  BY DEF Callers
<1>3. call \in [Callers -> Calls]
  BY DEF Init, Calls, Contents, Torn, Nothing
<1>4. local \in [Callers -> 0..MaxContent] /\ stored \in [Callers -> Contents]
  BY DEF Init, Contents, Torn, Nothing
<1>5. TypeOK
  <2>1. net \subseteq Requests /\ faults = 0 /\ mild = TRUE /\ spoiled = FALSE
    BY DEF Init
  <2>2. 0 \in 0..MaxFaults
    OBVIOUS
  <2>3. /\ work \in {"run", "upload", "drain", "recorded", "lost"}
        /\ phase \in {"loop", "final", "done"}
        /\ uploaded \in {"none", "yes", "failed"}
        /\ mine \in BOOLEAN
        /\ big \in BOOLEAN
    BY DEF Init
  <2>4. seen \in 0..MaxContent
    BY DEF Init, Nothing
  <2>5. raised \in BOOLEAN /\ cut \in BOOLEAN
    BY DEF Init
  <2>. QED
    BY <1>3, <1>4, <2>1, <2>2, <2>3, <2>4, <2>5 DEF TypeOK
<1>6. Calling
  BY <1>1 DEF Init, Calling, Idle, Awaited
<1>7. Uploading /\ Flushing
  BY <1>1, <1>2 DEF Init, Uploading, Flushing, Idle
<1>8. Mild
  BY <1>1, <1>2 DEF Init, Mild, Awaited, Idle
<1>. QED
  BY <1>5, <1>6, <1>7, <1>8 DEF IInv

LEMMA AbandonedFacts ==
  ASSUME net \subseteq Requests, NEW c \in Callers
  PROVE  /\ \A m \in Abandoned(c) :
              /\ m \in Requests
              /\ \E n \in net : n.caller = m.caller /\ n.content = m.content
              /\ m.awaited => m \in net /\ m.caller # c
         /\ \A m \in net : m.caller # c => m \in Abandoned(c)
         /\ Awaited(c) = {} => Abandoned(c) = net
<1>1. ASSUME NEW m \in Awaited(c)
      PROVE  LET n == [m EXCEPT !.awaited = FALSE]
             IN  n \in Requests /\ n.caller = m.caller /\ n.content = m.content /\ ~n.awaited
  BY DEF Awaited, Requests
<1>2. \A m \in Awaited(c) : m \in net /\ m.caller = c
  BY DEF Awaited
<1>3. \A m \in net \ Awaited(c) : m.awaited => m.caller # c
  BY DEF Awaited
<1>. QED
  BY <1>1, <1>2, <1>3 DEF Abandoned

LEMMA FaultFacts ==
  ASSUME TypeOK, NEW kind, Fault(kind)
  PROVE  /\ faults' = faults + 1 /\ faults' \in 0..MaxFaults
         /\ mild' \in BOOLEAN
         /\ mild' => mild /\ kind = "lost" /\ faults' < MaxTries
<1>1. faults' = faults + 1 /\ faults' \in 0..MaxFaults
  BY DEF Fault, TypeOK
<1>2. mild' = (mild /\ kind = "lost" /\ faults' < MaxTries)
  BY DEF Fault
<1>. QED
  BY <1>1, <1>2

LEMMA ReturnsFacts ==
  ASSUME TypeOK, NEW c \in Callers, Returns(c)
  PROVE  /\ call' \in [Callers -> Calls]
         /\ call'[c].at = "idle" /\ call'[c].tries = 0
         /\ \A d \in Callers : d # c => call'[d] = call[d]
<1>. DEFINE idle == [at |-> "idle", content |-> Nothing, tries |-> 0]
<1>1. idle \in Calls /\ idle.at = "idle" /\ idle.tries = 0
  BY DEF Calls, Contents, Torn, Nothing
<1>2. call' = [call EXCEPT ![c] = idle]
  BY DEF Returns
<1>. HIDE DEF idle
<1>. QED
  BY <1>1, <1>2 DEF TypeOK

LEMMA AttemptFacts ==
  ASSUME TypeOK, NEW c \in Callers, NEW content \in 1..MaxContent,
         call[c].tries < MaxTries, Attempt(c, content)
  PROVE  /\ call' \in [Callers -> Calls]
         /\ call'[c].at = "sent" /\ call'[c].content = content
         /\ call'[c].tries = call[c].tries + 1 /\ call'[c].tries \in 1..MaxTries
         /\ \A d \in Callers : d # c => call'[d] = call[d]
         /\ net' \subseteq Requests
         /\ \E m \in net' : m.caller = c /\ m.awaited
         /\ \A m \in net' : m.awaited /\ m.caller = c => m.content = content
         /\ \A m \in net' : m.awaited /\ m.caller # c => m \in net
         /\ \A m \in net' : m.caller = c => \/ m.content = content
                                           \/ \E n \in net : n.caller = c /\ n.content = m.content
         /\ \A m \in net' : m.caller # c => \E n \in net : n.caller = m.caller /\ n.content = m.content
         /\ \A m \in net : m.caller # c => m \in net'
         /\ Awaited(c) = {} => \A m \in net' : m.awaited \/ m \in net
<1>. DEFINE next == [at |-> "sent", content |-> content, tries |-> call[c].tries + 1]
            req == [caller |-> c, content |-> content, awaited |-> TRUE]
<1>1. call[c] \in Calls /\ call[c].tries \in 0..MaxTries
  BY DEF TypeOK, Calls
<1>2. /\ next \in Calls
      /\ next.at = "sent" /\ next.content = content /\ next.tries = call[c].tries + 1
      /\ next.tries \in 1..MaxTries
  <2>1. content \in Contents
    BY DEF Contents, Torn
  <2>2. call[c].tries + 1 \in 1..MaxTries /\ call[c].tries + 1 \in 0..MaxTries
    BY <1>1
  <2>. QED
    BY <2>1, <2>2 DEF Calls
<1>3. req \in Requests /\ req.caller = c /\ req.content = content /\ req.awaited
  BY DEF Requests
<1>4. call' = [call EXCEPT ![c] = next] /\ net' = Abandoned(c) \cup {req}
  BY DEF Attempt
<1>5. net \subseteq Requests /\ call \in [Callers -> Calls]
  BY DEF TypeOK
<1>. HIDE DEF next, req
<1>6. call' \in [Callers -> Calls] /\ call'[c] = next
  BY <1>2, <1>4, <1>5
<1>7. \A d \in Callers : d # c => call'[d] = call[d]
  BY <1>4, <1>5
<1>8. /\ \A m \in Abandoned(c) : m \in Requests
      /\ \A m \in net : m.caller # c => m \in Abandoned(c)
      /\ Awaited(c) = {} => Abandoned(c) = net
  BY <1>5, AbandonedFacts
<1>9. \A m \in Abandoned(c) : \E n \in net : n.caller = m.caller /\ n.content = m.content
  BY <1>5, AbandonedFacts
<1>10. \A m \in Abandoned(c) : m.awaited => m \in net /\ m.caller # c
  BY <1>5, AbandonedFacts
<1>11. \A m \in net' : m \in Abandoned(c) \/ m = req
  BY <1>4
<1>12. net' \subseteq Requests /\ \E m \in net' : m.caller = c /\ m.awaited
  BY <1>3, <1>4, <1>8
<1>13. ASSUME NEW m \in net'
       PROVE  /\ m.awaited /\ m.caller = c => m.content = content
              /\ m.awaited /\ m.caller # c => m \in net
              /\ m.caller = c => \/ m.content = content
                                 \/ \E n \in net : n.caller = c /\ n.content = m.content
              /\ m.caller # c => \E n \in net : n.caller = m.caller /\ n.content = m.content
              /\ Awaited(c) = {} => m.awaited \/ m \in net
  <2>1. CASE m = req
    BY <1>3, <2>1
  <2>2. CASE m \in Abandoned(c)
    <3>1. PICK n \in net : n.caller = m.caller /\ n.content = m.content
      BY <1>9, <2>2
    <3>2. m.awaited => m \in net /\ m.caller # c
      BY <1>10, <2>2
    <3>3. Awaited(c) = {} => m \in net
      BY <1>8, <2>2
    <3>. QED
      BY <3>1, <3>2, <3>3
  <2>. QED
    BY <1>11, <2>1, <2>2
<1>14. \A m \in net : m.caller # c => m \in net'
  BY <1>4, <1>8
<1>15. call'[c].at = "sent" /\ call'[c].content = content
  BY <1>2, <1>6
<1>16. call'[c].tries = call[c].tries + 1 /\ call'[c].tries \in 1..MaxTries
  BY <1>2, <1>6
<1>. QED
  BY <1>6, <1>7, <1>12, <1>13, <1>14, <1>15, <1>16

LEMMA ReplyFacts ==
  ASSUME TypeOK, NEW m \in net, NEW answer \in {"ok", "4xx"}, Reply(m, answer)
  PROVE  /\ call' \in [Callers -> Calls]
         /\ \A c \in Callers : /\ call'[c].content = call[c].content
                              /\ call'[c].tries = call[c].tries
                              /\ \/ call'[c].at = call[c].at
                                 \/ c = m.caller /\ m.awaited /\ call'[c].at = answer
         /\ faults' \in 0..MaxFaults
         /\ mild' \in BOOLEAN
         /\ \/ NoFault /\ (m.awaited => call'[m.caller].at = answer)
            \/ m.awaited /\ Fault("lost") /\ call' = call
<1>1. call \in [Callers -> Calls] /\ m.caller \in Callers /\ faults \in 0..MaxFaults
  BY DEF TypeOK, Requests
<1>2. mild \in BOOLEAN
  BY DEF TypeOK
<1>. DEFINE next == [call[m.caller] EXCEPT !.at = answer]
<1>3. /\ next \in Calls
      /\ next.at = answer /\ next.content = call[m.caller].content
      /\ next.tries = call[m.caller].tries
  BY <1>1 DEF Calls
<1>4. CASE call' = (IF m.awaited THEN [call EXCEPT ![m.caller] = next] ELSE call) /\ NoFault
  <2>. HIDE DEF next
  <2>1. faults' = faults /\ mild' = mild
    BY <1>4 DEF NoFault
  <2>2. CASE m.awaited
    BY <1>1, <1>2, <1>3, <1>4, <2>1, <2>2
  <2>3. CASE ~m.awaited
    BY <1>1, <1>2, <1>4, <2>1, <2>3
  <2>. QED
    BY <2>2, <2>3
<1>5. CASE m.awaited /\ Fault("lost") /\ UNCHANGED call
  BY <1>1, <1>5, FaultFacts
<1>. QED
  BY <1>4, <1>5 DEF Reply

\* What the invariant says of the variables the type invariant bounds.
LEMMA Types ==
  ASSUME TypeOK
  PROVE  /\ "push" \in Callers /\ "upload" \in Callers
         /\ \A c \in Callers : c = "push" \/ c = "upload"
         /\ \A c \in Callers : call[c].tries \in 0..MaxTries
         /\ \A m \in net : m.caller \in Callers /\ m.content \in 1..MaxContent
         /\ faults \in Nat /\ MaxTries \in Nat
BY DEF TypeOK, Callers, Calls, Requests

-------------------------------------------------------------------------------
(* The container and the executor.                                           *)

LEMMA EditInv == ASSUME IInv, Edit PROVE IInv'
<1>. USE DEF IInv
<1>1. PICK content \in 0..MaxContent : local' = [local EXCEPT !["push"] = content]
  BY DEF Edit
<1>2. /\ work = "run"
      /\ UNCHANGED <<work, phase, raised, uploaded, seen, cut, call, net, mine, big, stored,
                     faults, mild, spoiled>>
  BY DEF Edit, ghosts
<1>3. local' \in [Callers -> 0..MaxContent] /\ local'["upload"] = local["upload"]
  BY <1>1, Types DEF TypeOK
<1>4. TypeOK'
  BY <1>2, <1>3 DEF TypeOK
<1>5. Calling'
  BY <1>2 DEF Calling, Idle, Awaited
<1>6. Uploading'
  BY <1>2, <1>3 DEF Uploading, Idle
<1>7. Flushing'
  BY <1>2 DEF Flushing, Idle
<1>8. Mild'
  <2>1. mild => phase = "loop"
    BY <1>2 DEF Flushing, Mild
  <2>. QED
    BY <1>2, <1>3, <2>1 DEF Mild, Awaited, Idle
<1>. QED
  BY <1>4, <1>5, <1>6, <1>7, <1>8

LEMMA ContainerEndsInv == ASSUME IInv, ContainerEnds PROVE IInv'
<1>. USE DEF IInv
<1>1. /\ work = "run" /\ work' \in {"drain", "upload"}
      /\ \/ work' = "drain" /\ local' = local
         \/ work' = "upload" /\ local' = [local EXCEPT !["upload"] = 1]
  BY DEF ContainerEnds
<1>2. UNCHANGED <<phase, raised, uploaded, seen, cut, call, net, mine, big, stored, faults, mild,
                 spoiled>>
  BY DEF ContainerEnds, ghosts
<1>3. local' \in [Callers -> 0..MaxContent] /\ local'["push"] = local["push"]
  BY <1>1, Types DEF TypeOK
<1>4. /\ uploaded = "none" /\ local["upload"] = Nothing /\ Idle("upload")
      /\ \A m \in net : m.caller = "upload" => m.content = Nothing
  BY <1>1 DEF Uploading
<1>5. \A m \in net : m.caller # "upload"
  BY <1>4, Types DEF Nothing
<1>6. TypeOK'
  BY <1>1, <1>2, <1>3 DEF TypeOK
<1>7. Calling'
  BY <1>2 DEF Calling, Idle, Awaited
<1>8. Uploading'
  <2>1. local'["upload"] = local["upload"] \/ local'["upload"] = 1
    BY <1>1, Types DEF TypeOK
  <2>. QED
    BY <1>1, <1>2, <1>4, <1>5, <2>1, Types DEF Uploading, Idle, TypeOK, Nothing
<1>9. Flushing'
  BY <1>1, <1>2, <1>3, <1>4 DEF Flushing, Idle
<1>10. Mild'
  <2>1. work' = "drain" => local'["upload"] = Nothing
    BY <1>1, <1>4
  <2>2. work' # "lost" /\ work' # "recorded"
    BY <1>1
  <2>. QED
    BY <1>1, <1>2, <1>3, <1>4, <2>1, <2>2 DEF Mild, Awaited, Idle
<1>. QED
  BY <1>6, <1>7, <1>8, <1>9, <1>10

LEMMA RecordInv == ASSUME IInv, Record PROVE IInv'
<1>. USE DEF IInv
<1>1. /\ work = "drain" /\ phase = "done" /\ work' \in {"recorded", "lost"}
      /\ ~raised => work' = "recorded"
  BY DEF Record
<1>2. UNCHANGED <<phase, raised, local, uploaded, seen, cut, call, net, mine, big, stored, faults,
                 mild, spoiled>>
  BY DEF Record, ghosts
<1>3. TypeOK'
  BY <1>1, <1>2 DEF TypeOK
<1>4. Calling'
  BY <1>2 DEF Calling, Idle, Awaited
<1>5. Uploading' /\ Flushing'
  BY <1>1, <1>2 DEF Uploading, Flushing, Idle
<1>6. Mild'
  BY <1>1, <1>2 DEF Mild, Awaited, Idle
<1>. QED
  BY <1>3, <1>4, <1>5, <1>6

LEMMA TakenInv == ASSUME IInv, Taken PROVE IInv'
<1>. USE DEF IInv
<1>1. mine' = FALSE /\ stored' = [f \in Callers |-> Nothing]
  BY DEF Taken
<1>2. UNCHANGED <<work, phase, raised, local, uploaded, seen, cut, call, net, big, spoiled>>
  BY DEF Taken, runner
<1>3. faults' \in 0..MaxFaults /\ mild' = FALSE
  <2>1. Fault("taken")
    BY DEF Taken
  <2>2. mild' \in BOOLEAN /\ ~mild'
    BY <2>1, FaultFacts
  <2>. QED
    BY <2>1, <2>2, FaultFacts
<1>4. stored' \in [Callers -> Contents]
  BY <1>1 DEF Contents, Torn, Nothing
<1>5. TypeOK'
  BY <1>1, <1>2, <1>3, <1>4 DEF TypeOK
<1>6. Calling'
  BY <1>2 DEF Calling, Idle, Awaited
<1>7. Uploading' /\ Flushing'
  BY <1>1, <1>2, Types DEF Uploading, Flushing, Idle
<1>8. Mild'
  BY <1>3 DEF Mild
<1>. QED
  BY <1>5, <1>6, <1>7, <1>8

LEMMA InterruptInv == ASSUME IInv, Interrupt PROVE IInv'
<1>. USE DEF IInv
<1>1. /\ work \in {"run", "upload"} /\ work' = "drain"
      /\ Returns("upload") /\ net' = Abandoned("upload")
  BY DEF Interrupt
<1>2. UNCHANGED <<phase, raised, local, uploaded, seen, cut, mine, big, stored, spoiled>>
  BY DEF Interrupt
<1>3. faults' \in 0..MaxFaults /\ mild' = FALSE
  <2>1. Fault("stop")
    BY DEF Interrupt
  <2>2. mild' \in BOOLEAN /\ ~mild'
    BY <2>1, FaultFacts
  <2>. QED
    BY <2>1, <2>2, FaultFacts
<1>4. /\ call' \in [Callers -> Calls] /\ call'["upload"].at = "idle" /\ call'["upload"].tries = 0
      /\ call'["push"] = call["push"]
  BY <1>1, Types, ReturnsFacts
<1>5. net \subseteq Requests
  BY DEF TypeOK
<1>6. /\ net' \subseteq Requests
      /\ \A m \in net' : m.awaited => m \in net /\ m.caller # "upload"
  BY <1>1, <1>5, Types, AbandonedFacts
<1>7. \A m \in net' : \E n \in net : n.caller = m.caller /\ n.content = m.content
  BY <1>1, <1>5, Types, AbandonedFacts
<1>8. TypeOK'
  BY <1>1, <1>2, <1>3, <1>4, <1>6 DEF TypeOK
<1>9. Calling'
  BY <1>4, <1>6, Types DEF Calling, Idle, Awaited
<1>10. Uploading'
  <2>1. uploaded = "none"
    BY <1>1 DEF Uploading
  <2>. QED
    BY <1>1, <1>2, <1>4, <1>7, <2>1 DEF Uploading, Idle
<1>11. Flushing'
  BY <1>1, <1>2, <1>4, <1>7 DEF Flushing, Idle
<1>12. Mild'
  BY <1>3 DEF Mild
<1>. QED
  BY <1>8, <1>9, <1>10, <1>11, <1>12

\* The wait for the reporter is cut short, and the reporter with it.
LEMMA InterruptDrainInv == ASSUME IInv, InterruptDrain PROVE IInv'
<1>. USE DEF IInv
<1>1. /\ work = "drain" /\ work' = "lost" /\ cut' = TRUE
      /\ phase' \in {"final", "done"}
      /\ Returns("push") /\ net' = Abandoned("push")
  BY DEF InterruptDrain
<1>2. UNCHANGED <<raised, local, uploaded, seen, mine, big, stored, spoiled>>
  BY DEF InterruptDrain
<1>3. faults' \in 0..MaxFaults /\ mild' = FALSE
  <2>1. Fault("stop")
    BY DEF InterruptDrain
  <2>2. mild' \in BOOLEAN /\ ~mild'
    BY <2>1, FaultFacts
  <2>. QED
    BY <2>1, <2>2, FaultFacts
<1>4. /\ call' \in [Callers -> Calls] /\ call'["push"].at = "idle" /\ call'["push"].tries = 0
      /\ call'["upload"] = call["upload"]
  BY <1>1, Types, ReturnsFacts
<1>5. net \subseteq Requests
  BY DEF TypeOK
<1>6. /\ net' \subseteq Requests
      /\ \A m \in net' : m.awaited => m \in net /\ m.caller # "push"
  BY <1>1, <1>5, Types, AbandonedFacts
<1>7. \A m \in net' : \E n \in net : n.caller = m.caller /\ n.content = m.content
  BY <1>1, <1>5, Types, AbandonedFacts
<1>8. TypeOK'
  BY <1>1, <1>2, <1>3, <1>4, <1>6 DEF TypeOK
<1>9. Calling'
  BY <1>4, <1>6, Types DEF Calling, Idle, Awaited
<1>10. Uploading'
  BY <1>1, <1>2, <1>4, <1>7 DEF Uploading, Idle
<1>11. Flushing'
  BY <1>1, <1>2, <1>4 DEF Flushing, Idle
<1>12. Mild'
  BY <1>3 DEF Mild
<1>. QED
  BY <1>8, <1>9, <1>10, <1>11, <1>12

LEMMA FlushRaisesInv == ASSUME IInv, FlushRaises PROVE IInv'
<1>. USE DEF IInv
<1>1. /\ phase # "done" /\ Idle("push") /\ raised' = TRUE
      /\ phase' \in {"final", "done"}
  BY DEF FlushRaises
<1>2. UNCHANGED <<work, local, uploaded, seen, cut, call, net, mine, big, stored, spoiled>>
  BY DEF FlushRaises
<1>3. faults' \in 0..MaxFaults /\ mild' = FALSE
  <2>1. Fault("unreadable")
    BY DEF FlushRaises
  <2>2. mild' \in BOOLEAN /\ ~mild'
    BY <2>1, FaultFacts
  <2>. QED
    BY <2>1, <2>2, FaultFacts
<1>4. TypeOK'
  BY <1>1, <1>2, <1>3 DEF TypeOK
<1>5. Calling'
  BY <1>2 DEF Calling, Idle, Awaited
<1>6. Uploading'
  BY <1>2 DEF Uploading, Idle
<1>7. Flushing'
  BY <1>1, <1>2 DEF Flushing, Idle
<1>8. Mild'
  BY <1>3 DEF Mild
<1>. QED
  BY <1>4, <1>5, <1>6, <1>7, <1>8

-------------------------------------------------------------------------------
(* The calls.                                                                *)

\* A first attempt, or a repeated one.
LEMMA AttemptInv ==
  ASSUME IInv, NEW c \in Callers, NEW content \in 1..MaxContent,
         call[c].tries < MaxTries, Attempt(c, content),
         UNCHANGED <<work, raised, local, uploaded, cut, mine, big, stored, spoiled>>,
         faults' \in 0..MaxFaults, mild' \in BOOLEAN, seen' \in 0..MaxContent,
         mild' => mild /\ faults' = faults,
         mild' => Idle(c) \/ (call[c].at = "sent" /\ Awaited(c) = {}),
         c = "upload" => work = "upload" /\ content = local["upload"] /\ seen' = seen,
         c = "push" => /\ phase # "done"
                       /\ \/ content = local["push"] /\ seen' = content
                          \/ /\ phase' = phase /\ ~Idle(c) /\ content = call[c].content
                             /\ seen' = seen,
         \/ phase' = phase
         \/ phase' = "final" /\ work = "drain" /\ c = "push"
  PROVE  IInv'
<1>. USE DEF IInv
<1>1. /\ call' \in [Callers -> Calls]
      /\ call'[c].at = "sent" /\ call'[c].content = content
      /\ call'[c].tries = call[c].tries + 1 /\ call'[c].tries \in 1..MaxTries
      /\ \A d \in Callers : d # c => call'[d] = call[d]
      /\ net' \subseteq Requests
  BY AttemptFacts
<1>2. \E m \in net' : m.caller = c /\ m.awaited
  BY AttemptFacts
<1>3. \A m \in net' : /\ m.awaited /\ m.caller = c => m.content = content
                     /\ m.awaited /\ m.caller # c => m \in net
  BY AttemptFacts
<1>4. \A m \in net' :
         /\ m.caller = c => \/ m.content = content
                            \/ \E n \in net : n.caller = c /\ n.content = m.content
         /\ m.caller # c => \E n \in net : n.caller = m.caller /\ n.content = m.content
  BY AttemptFacts
<1>5. \A m \in net : m.caller # c => m \in net'
  BY AttemptFacts
<1>6. Awaited(c) = {} => \A m \in net' : m.awaited \/ m \in net
  BY AttemptFacts
<1>7. TypeOK'
  BY <1>1 DEF TypeOK
<1>8. Calling'
  <2>. SUFFICES ASSUME NEW d \in Callers
                PROVE  /\ ~Idle(d)' => call'[d].content \in 1..MaxContent /\ call'[d].tries \in 1..MaxTries
                       /\ Idle(d)' => call'[d].tries = 0
                       /\ \A m \in Awaited(d)' : call'[d].at = "sent" /\ m.content = call'[d].content
    BY DEF Calling
  <2>1. CASE d = c
    <3>1. call'[d].at = "sent" /\ call'[d].content = content /\ call'[d].tries \in 1..MaxTries
      BY <1>1, <2>1
    <3>2. \A m \in net' : m.awaited /\ m.caller = c => m.content = content
      BY AttemptFacts
    <3>3. ASSUME NEW m \in Awaited(d)' PROVE m.content = content
      BY <2>1, <3>2, <3>3 DEF Awaited
    <3>. QED
      BY <3>1, <3>3 DEF Idle
  <2>2. CASE d # c
    <3>1. call'[d] = call[d]
      BY <1>1, <2>2
    <3>2. \A m \in Awaited(d)' : m \in Awaited(d)
      BY <1>3, <2>2 DEF Awaited
    <3>. QED
      BY <3>1, <3>2 DEF Calling, Idle
  <2>. QED
    BY <2>1, <2>2
<1>9. Uploading'
  BY <1>1, <1>4, Types DEF Uploading, Idle
<1>10. Flushing'
  <2>1. CASE c = "push"
    BY <1>1, <2>1, Types DEF Flushing, Idle
  <2>2. CASE c # "push"
    BY <1>1, <2>2, Types DEF Flushing, Idle
  <2>. QED
    BY <2>1, <2>2
<1>11. Mild'
  <2>. SUFFICES ASSUME mild' PROVE Mild'
    BY DEF Mild
  <2>1. /\ mild /\ faults' = faults
        /\ mine /\ faults < MaxTries /\ \A m \in net : m.awaited
    BY DEF Mild
  <2>2. Awaited(c) = {}
    BY DEF Calling, Idle
  <2>3. \A m \in net' : m.awaited
    BY <1>6, <2>1, <2>2
  <2>4. call'[c].tries <= faults + 1
    <3>1. call[c].tries <= faults
      BY <2>1, <2>2, Types DEF Mild, Calling, TypeOK
    <3>. QED
      BY <1>1, <3>1, Types
  <2>5. \A d \in Callers : call'[d].at = "sent" =>
          call'[d].tries <= faults + 1 /\ (Awaited(d)' = {} => call'[d].tries <= faults)
    <3>. SUFFICES ASSUME NEW d \in Callers, call'[d].at = "sent"
                  PROVE  call'[d].tries <= faults + 1 /\ (Awaited(d)' = {} => call'[d].tries <= faults)
      OBVIOUS
    <3>1. CASE d = c
      BY <1>2, <2>4, <3>1 DEF Awaited
    <3>2. CASE d # c
      <4>1. call'[d] = call[d]
        BY <1>1, <3>2
      <4>2. Awaited(d)' = {} => Awaited(d) = {}
        BY <1>5, <3>2 DEF Awaited
      <4>. QED
        BY <2>1, <4>1, <4>2 DEF Mild
    <3>. QED
      BY <3>1, <3>2
  <2>6. phase' = "done" => phase = "done" /\ c # "push"
    OBVIOUS
  <2>7. work \in {"drain", "recorded"} => c # "upload"
    OBVIOUS
  <2>8. /\ Idle("push")' => stored["push"] = seen'
        /\ ~Idle("push")' => call'["push"].content = seen'
        /\ phase' = "final" /\ ~Idle("push")' => call'["push"].content = local["push"]
    <3>1. CASE c = "push"
      BY <1>1, <2>1, <3>1, Types DEF Mild, Idle
    <3>2. CASE c # "push"
      <4>1. call'["push"] = call["push"] /\ seen' = seen /\ phase' = phase
        BY <1>1, <3>2, Types
      <4>. QED
        BY <2>1, <4>1 DEF Mild, Idle
    <3>. QED
      BY <3>1, <3>2
  <2>9. phase' = "done" /\ local["push"] # Nothing => seen' = local["push"]
    BY <2>1, <2>6, Types DEF Mild
  <2>. QED
    BY <1>1, <2>1, <2>3, <2>5, <2>6, <2>7, <2>8, <2>9, Types DEF Mild
<1>. QED
  BY <1>7, <1>8, <1>9, <1>10, <1>11

\* A push comes to an end.
LEMMA PushEndsInv ==
  ASSUME IInv, Returns("push"), net' = Abandoned("push"), FlushEnds(phase),
         phase # "done", ~Idle("push"),
         UNCHANGED <<work, local, uploaded, seen, cut, mine, big, stored, spoiled>>,
         faults' \in 0..MaxFaults, mild' \in BOOLEAN, raised' \in BOOLEAN,
         raised' = raised \/ (work \in {"drain", "lost"} /\ ~mild'),
         mild' => mild /\ faults' = faults /\ call["push"].at = "ok"
  PROVE  IInv'
<1>. USE DEF IInv
<1>1. /\ call' \in [Callers -> Calls]
      /\ call'["push"].at = "idle" /\ call'["push"].tries = 0
      /\ call'["upload"] = call["upload"]
  BY Types, ReturnsFacts
<1>2. net \subseteq Requests
  BY DEF TypeOK
<1>3. /\ net' \subseteq Requests
      /\ \A m \in net' : m.awaited => m \in net /\ m.caller # "push"
  BY <1>2, Types, AbandonedFacts
<1>4. \A m \in net' : \E n \in net : n.caller = m.caller /\ n.content = m.content
  BY <1>2, Types, AbandonedFacts
<1>5. phase' = IF phase = "final" THEN "done" ELSE IF work = "drain" THEN "final" ELSE "loop"
  BY DEF FlushEnds
<1>6. TypeOK'
  BY <1>1, <1>3, <1>5 DEF TypeOK
<1>7. Calling'
  BY <1>1, <1>3, Types DEF Calling, Idle, Awaited
<1>8. Uploading'
  BY <1>1, <1>4 DEF Uploading, Idle
<1>9. Flushing'
  <2>1. phase' = "done" => phase = "final"
    BY <1>5
  <2>2. phase' = "final" => work = "drain"
    BY <1>5
  <2>3. work # "recorded"
    BY DEF Flushing
  <2>. QED
    BY <1>1, <1>5, <2>1, <2>2, <2>3 DEF Flushing, Idle
<1>10. Mild'
  <2>. SUFFICES ASSUME mild' PROVE Mild'
    BY DEF Mild
  <2>1. mild /\ call["push"].at = "ok" /\ faults' = faults
    OBVIOUS
  <2>2. Awaited("push") = {}
    BY <2>1, Types DEF Calling
  <2>3. net' = net
    BY <1>2, <2>2, Types, AbandonedFacts
  <2>4. phase' = "done" => seen = local["push"]
    BY <1>5, <2>1 DEF Mild, Idle
  <2>5. stored["push"] = seen
    BY <2>1 DEF Mild, Idle
  <2>6. raised' = raised
    OBVIOUS
  <2>. QED
    BY <1>1, <2>1, <2>3, <2>4, <2>5, <2>6, Types DEF Mild, Awaited, Idle
<1>. QED
  BY <1>6, <1>7, <1>8, <1>9, <1>10

\* The upload comes to an end.
LEMMA UploadEndsInv ==
  ASSUME IInv, Returns("upload"), net' = Abandoned("upload"), ~Idle("upload"),
         uploaded' \in {"yes", "failed"}, uploaded' = "yes" => call["upload"].at = "ok",
         work' = "drain",
         UNCHANGED <<phase, raised, local, seen, cut, mine, big, stored, spoiled>>,
         faults' \in 0..MaxFaults, mild' \in BOOLEAN,
         mild' => mild /\ faults' = faults /\ call["upload"].at \in {"ok", "4xx"}
  PROVE  IInv'
<1>. USE DEF IInv
<1>1. /\ call' \in [Callers -> Calls]
      /\ call'["upload"].at = "idle" /\ call'["upload"].tries = 0
      /\ call'["push"] = call["push"]
  BY Types, ReturnsFacts
<1>2. net \subseteq Requests
  BY DEF TypeOK
<1>3. /\ net' \subseteq Requests
      /\ \A m \in net' : m.awaited => m \in net /\ m.caller # "upload"
  BY <1>2, Types, AbandonedFacts
<1>4. \A m \in net' : \E n \in net : n.caller = m.caller /\ n.content = m.content
  BY <1>2, Types, AbandonedFacts
<1>5. work = "upload"
  BY DEF Uploading
<1>6. TypeOK'
  BY <1>1, <1>3 DEF TypeOK
<1>7. Calling'
  BY <1>1, <1>3, Types DEF Calling, Idle, Awaited
<1>8. Uploading'
  <2>1. uploaded' = "yes" => ~big /\ (mine /\ ~spoiled => stored["upload"] = local["upload"])
    BY DEF Uploading
  <2>. QED
    BY <1>1, <1>4, <1>5, <2>1 DEF Uploading, Idle
<1>9. Flushing'
  BY <1>1, <1>4, <1>5 DEF Flushing, Idle
<1>10. Mild'
  <2>. SUFFICES ASSUME mild' PROVE Mild'
    BY DEF Mild
  <2>1. Awaited("upload") = {}
    BY Types DEF Calling
  <2>2. net' = net
    BY <1>2, <2>1, Types, AbandonedFacts
  <2>3. ~big => stored["upload"] = local["upload"]
    BY DEF Mild
  <2>. QED
    BY <1>1, <1>5, <2>2, <2>3, Types DEF Mild, Awaited, Idle
<1>. QED
  BY <1>6, <1>7, <1>8, <1>9, <1>10

\* A try failed: GiveUp, ServerError.
LEMMA FailedInv ==
  ASSUME IInv, NEW c \in Callers, call[c].at \in {"sent", "5xx"}, Failed(c),
         UNCHANGED <<mine, big, stored, spoiled>>,
         faults' \in 0..MaxFaults, mild' \in BOOLEAN,
         mild' => mild /\ faults' = faults,
         mild' => call[c].at = "sent" /\ Awaited(c) = {}
  PROVE  IInv'
<1>. USE DEF IInv
<1>1. ~Idle(c) /\ call[c].content \in 1..MaxContent
  BY DEF Calling, Idle
<1>2. c = "upload" => work = "upload" /\ call[c].content = local["upload"]
  BY <1>1 DEF Uploading
<1>3. c = "push" => phase # "done"
  BY <1>1 DEF Flushing
<1>4. ASSUME mild' PROVE call[c].tries < MaxTries
  BY <1>4, Types DEF Mild
<1>5. CASE Retries(c) /\ UNCHANGED runner
  <2>1. call[c].tries < MaxTries /\ Attempt(c, call[c].content)
    BY <1>5 DEF Retries
  <2>2. UNCHANGED <<work, phase, raised, local, uploaded, seen, cut>>
    BY <1>5 DEF runner
  <2>3. seen' \in 0..MaxContent
    BY <2>2 DEF TypeOK
  <2>. QED
    BY <1>1, <1>2, <1>3, <2>1, <2>2, <2>3, AttemptInv
<1>6. CASE call[c].tries = MaxTries /\ Ends(c, FALSE)
  <2>1. mild' = FALSE
    BY <1>4, <1>6, Types
  <2>2. Returns(c) /\ net' = Abandoned(c) /\ UNCHANGED <<raised, local, seen, cut>>
    BY <1>6 DEF Ends
  <2>5. raised' \in BOOLEAN
    BY <2>2 DEF TypeOK
  <2>3. CASE c = "push" /\ FlushEnds(phase) /\ UNCHANGED <<work, uploaded>>
    BY <1>1, <1>3, <2>1, <2>2, <2>3, <2>5, PushEndsInv
  <2>4. CASE c = "upload" /\ uploaded' = "failed" /\ work' = "drain" /\ UNCHANGED phase
    BY <1>1, <2>1, <2>2, <2>4, UploadEndsInv
  <2>. QED
    BY <1>6, <2>3, <2>4 DEF Ends
<1>. QED
  BY <1>5, <1>6 DEF Failed

LEMMA GiveUpInv == ASSUME IInv, NEW c \in Callers, GiveUp(c) PROVE IInv'
<1>1. call[c].at = "sent" /\ Failed(c) /\ UNCHANGED <<mine, big, stored, spoiled>>
  BY DEF GiveUp
<1>2. CASE Awaited(c) # {}
  <2>1. Fault("late")
    BY <1>2 DEF GiveUp
  <2>2. faults' \in 0..MaxFaults /\ mild' = FALSE
    <3>1. mild' \in BOOLEAN /\ ~mild'
      BY <2>1, FaultFacts DEF IInv
    <3>. QED
      BY <2>1, <3>1, FaultFacts DEF IInv
  <2>. QED
    BY <1>1, <2>2, FailedInv
<1>3. CASE Awaited(c) = {}
  <2>1. UNCHANGED <<faults, mild>>
    BY <1>3 DEF GiveUp, NoFault
  <2>. QED
    BY <1>1, <1>3, <2>1, FailedInv DEF IInv, TypeOK
<1>. QED
  BY <1>2, <1>3

LEMMA ServerErrorInv == ASSUME IInv, NEW c \in Callers, ServerError(c) PROVE IInv'
<1>1. call[c].at = "5xx" /\ Failed(c) /\ UNCHANGED <<mine, big, stored, spoiled, faults, mild>>
  BY DEF ServerError, ghosts
<1>2. mild = FALSE
  <2>1. mild => call[c].at # "5xx"
    BY <1>1, Types DEF IInv, Mild
  <2>2. mild \in BOOLEAN
    BY DEF IInv, TypeOK
  <2>. QED
    BY <1>1, <2>1, <2>2
<1>. QED
  BY <1>1, <1>2, FailedInv DEF IInv, TypeOK

LEMMA AnsweredInv == ASSUME IInv, NEW c \in Callers, Answered(c) PROVE IInv'
<1>. USE DEF IInv
<1>1. /\ call[c].at \in {"ok", "4xx"} /\ Ends(c, call[c].at = "ok")
      /\ UNCHANGED <<mine, big, stored, spoiled, faults, mild>>
  BY DEF Answered, ghosts
<1>2. /\ Returns(c) /\ net' = Abandoned(c) /\ ~Idle(c)
      /\ UNCHANGED <<raised, local, seen, cut>> /\ raised' \in BOOLEAN
  BY <1>1 DEF Ends, Idle, TypeOK
<1>3. faults' \in 0..MaxFaults /\ mild' \in BOOLEAN
  BY <1>1 DEF TypeOK
<1>4. CASE c = "push" /\ FlushEnds(phase) /\ UNCHANGED <<work, uploaded>>
  <2>1. phase # "done"
    BY <1>2, <1>4 DEF Flushing
  <2>2. mild' => mild /\ faults' = faults /\ call["push"].at = "ok"
    BY <1>1, <1>4 DEF Mild
  <2>. QED
    BY <1>1, <1>2, <1>3, <1>4, <2>1, <2>2, PushEndsInv
<1>5. CASE /\ c = "upload" /\ uploaded' = (IF call[c].at = "ok" THEN "yes" ELSE "failed")
           /\ work' = "drain" /\ UNCHANGED phase
  <2>1. uploaded' \in {"yes", "failed"} /\ (uploaded' = "yes" => call["upload"].at = "ok")
    BY <1>5
  <2>2. mild' => mild /\ faults' = faults /\ call["upload"].at \in {"ok", "4xx"}
    BY <1>1, <1>5
  <2>. QED
    BY <1>1, <1>2, <1>3, <1>5, <2>1, <2>2, UploadEndsInv
<1>. QED
  BY <1>1, <1>4, <1>5 DEF Ends

LEMMA CutOffInv == ASSUME IInv, CutOff PROVE IInv'
<1>. USE DEF IInv
<1>1. /\ work \in {"drain", "lost"} /\ call["push"].at = "sent"
      /\ Returns("push") /\ FlushEnds(phase) /\ net' = Abandoned("push")
      /\ raised' \in BOOLEAN
      /\ UNCHANGED <<work, local, uploaded, seen, cut, mine, big, stored, spoiled>>
  BY DEF CutOff, TypeOK
<1>2. faults' \in 0..MaxFaults /\ mild' = FALSE
  <2>1. Fault("hurry")
    BY DEF CutOff
  <2>2. mild' \in BOOLEAN /\ ~mild'
    BY <2>1, FaultFacts
  <2>. QED
    BY <2>1, <2>2, FaultFacts
<1>3. ~Idle("push") /\ phase # "done"
  BY <1>1 DEF Idle, Flushing
<1>. QED
  BY <1>1, <1>2, <1>3, PushEndsInv

LEMMA UploadInv == ASSUME IInv, Upload PROVE IInv'
<1>. USE DEF IInv
<1>1. /\ work = "upload" /\ Idle("upload") /\ Attempt("upload", local["upload"])
      /\ UNCHANGED <<work, phase, raised, local, uploaded, seen, cut, mine, big, stored, spoiled,
                     faults, mild>>
  BY DEF Upload, runner, ghosts
<1>2. call["upload"].tries < MaxTries
  BY <1>1, Types DEF Calling
<1>3. local["upload"] \in 1..MaxContent
  BY <1>1, Types DEF TypeOK, Uploading, Nothing
<1>. QED
  BY <1>1, <1>2, <1>3, Types, AttemptInv DEF TypeOK

LEMMA FlushInv == ASSUME IInv, Flush PROVE IInv'
<1>. USE DEF IInv
<1>. DEFINE p == IF work = "drain" THEN "final" ELSE phase
<1>1. /\ phase # "done" /\ Idle("push")
      /\ UNCHANGED <<work, raised, local, uploaded, cut, mine, big, stored, spoiled, faults, mild>>
  BY DEF Flush, ghosts
<1>2. CASE local["push"] = Nothing /\ FlushEnds(p) /\ UNCHANGED <<seen, call, net>>
  <2>1. /\ phase' \in {"done", "loop"}
        /\ phase' = "done" => work = "drain" \/ phase = "final"
    <3>1. CASE work = "drain"
      BY <1>2, <3>1 DEF FlushEnds
    <3>2. CASE work # "drain"
      BY <1>1, <1>2, <3>2 DEF FlushEnds
    <3>. QED
      BY <3>1, <3>2
  <2>2. TypeOK'
    BY <1>1, <1>2, <2>1 DEF TypeOK
  <2>3. Calling' /\ Uploading'
    BY <1>1, <1>2 DEF Calling, Uploading, Idle, Awaited
  <2>4. Flushing'
    BY <1>1, <1>2, <2>1 DEF Flushing, Idle
  <2>5. Mild'
    BY <1>1, <1>2, <2>1 DEF Mild, Awaited, Idle
  <2>. QED
    BY <2>2, <2>3, <2>4, <2>5
<1>3. CASE /\ local["push"] # Nothing /\ seen' = local["push"]
           /\ phase' \in {phase, p} /\ Attempt("push", local["push"])
  <2>1. call["push"].tries < MaxTries
    BY <1>1, Types DEF Calling
  <2>2. local["push"] \in 1..MaxContent /\ seen' \in 0..MaxContent
    BY <1>3, Types DEF TypeOK, Nothing
  <2>3. phase' = phase \/ (phase' = "final" /\ work = "drain")
    BY <1>3
  <2>. QED
    BY <1>1, <1>3, <2>1, <2>2, <2>3, Types, AttemptInv DEF TypeOK
<1>. QED
  BY <1>2, <1>3 DEF Flush

-------------------------------------------------------------------------------
(* The server.                                                               *)

\* A caller awaits one request at most.
LEMMA OneAwaited ==
  ASSUME TypeOK, Calling, NEW m \in net, NEW n \in net,
         m.awaited, n.awaited, m.caller = n.caller
  PROVE  m = n
<1>1. m \in Requests /\ n \in Requests
  BY DEF TypeOK
<1>2. m.content = call[m.caller].content /\ n.content = call[n.caller].content
  BY Types DEF Calling, Awaited
<1>3. m.awaited = n.awaited
  BY <1>1 DEF Requests
<1>. QED
  BY <1>1, <1>2, <1>3 DEF Requests

\* A request leaves net, whatever becomes of it.
LEMMA ServedInv ==
  ASSUME IInv, NEW m \in net, net' = net \ {m}, NEW content \in Contents,
         stored' = [stored EXCEPT ![m.caller] = content],
         UNCHANGED <<work, phase, raised, local, uploaded, seen, cut, mine, big>>,
         call' \in [Callers -> Calls],
         \A c \in Callers : /\ call'[c].content = call[c].content
                            /\ call'[c].tries = call[c].tries
                            /\ \/ call'[c].at = call[c].at
                               \/ c = m.caller /\ m.awaited /\ call'[c].at # "idle",
         faults' \in 0..MaxFaults, mild' \in BOOLEAN, spoiled' \in BOOLEAN,
         call'["upload"].at = "ok" \/ uploaded = "yes" =>
           ~big /\ (mine /\ ~spoiled' => stored'["upload"] = local["upload"]),
         Mild'
  PROVE  IInv'
<1>. USE DEF IInv
<1>1. /\ m.caller \in Callers
      /\ stored' \in [Callers -> Contents]
      /\ \A c \in Callers : c # m.caller => stored'[c] = stored[c]
  BY Types DEF TypeOK
<1>2. TypeOK'
  BY <1>1 DEF TypeOK
<1>3. m.awaited => call[m.caller].at = "sent"
  BY <1>1 DEF Calling, Awaited
<1>4. \A c \in Callers : Idle(c)' <=> Idle(c)
  BY <1>3 DEF Idle
<1>5. Calling'
  <2>. SUFFICES ASSUME NEW c \in Callers
                PROVE  /\ ~Idle(c)' => call'[c].content \in 1..MaxContent /\ call'[c].tries \in 1..MaxTries
                       /\ Idle(c)' => call'[c].tries = 0
                       /\ \A n \in Awaited(c)' : call'[c].at = "sent" /\ n.content = call'[c].content
    BY DEF Calling
  <2>1. /\ ~Idle(c)' => call'[c].content \in 1..MaxContent /\ call'[c].tries \in 1..MaxTries
        /\ Idle(c)' => call'[c].tries = 0
    BY <1>4 DEF Calling
  <2>2. ASSUME NEW n \in Awaited(c)' PROVE call'[c].at = "sent" /\ n.content = call'[c].content
    <3>1. n \in net /\ n # m /\ n.caller = c /\ n.awaited
      BY <2>2 DEF Awaited
    <3>2. call[c].at = "sent" /\ n.content = call[c].content
      BY <3>1 DEF Calling, Awaited
    <3>3. ~(c = m.caller /\ m.awaited)
      BY <3>1, OneAwaited
    <3>. QED
      BY <3>2, <3>3
  <2>. QED
    BY <2>1, <2>2
<1>6. Uploading'
  BY <1>4, Types DEF Uploading
<1>7. Flushing'
  BY <1>1, <1>4, Types DEF Flushing
<1>. QED
  BY <1>2, <1>5, <1>6, <1>7

LEMMA LoseInv == ASSUME IInv, NEW m \in net, Lose(m) PROVE IInv'
<1>. USE DEF IInv
<1>1. /\ m.awaited /\ Fault("lost") /\ net' = net \ {m}
      /\ UNCHANGED <<work, phase, raised, local, uploaded, seen, cut, call, mine, big, stored, spoiled>>
  BY DEF Lose, runner
<1>2. /\ faults' = faults + 1 /\ faults' \in 0..MaxFaults /\ mild' \in BOOLEAN
      /\ mild' => mild /\ faults' < MaxTries
  BY <1>1, FaultFacts
<1>3. stored' = [stored EXCEPT ![m.caller] = stored[m.caller]] /\ stored[m.caller] \in Contents
  BY <1>1, Types DEF TypeOK
<1>4. Mild'
  <2>. SUFFICES ASSUME mild' PROVE Mild'
    BY DEF Mild
  <2>1. \A c \in Callers : call[c].at = "sent" => call[c].tries <= faults'
    BY <1>2, Types DEF Mild
  <2>2. \A c \in Callers : call[c].at = "sent" => call[c].tries <= faults' + 1
    BY <1>2, <2>1, Types
  <2>. QED
    BY <1>1, <1>2, <2>1, <2>2 DEF Mild, Idle
<1>5. call' \in [Callers -> Calls] /\ spoiled' \in BOOLEAN
  BY <1>1 DEF TypeOK
<1>6. call'["upload"].at = "ok" \/ uploaded = "yes" =>
        ~big /\ (mine /\ ~spoiled' => stored'["upload"] = local["upload"])
  BY <1>1 DEF Uploading
<1>. QED
  BY <1>1, <1>2, <1>3, <1>4, <1>5, <1>6, ServedInv

LEMMA RefuseInv == ASSUME IInv, NEW m \in net, Refuse(m) PROVE IInv'
<1>. USE DEF IInv
<1>1. /\ ~mine /\ net' = net \ {m} /\ Reply(m, "4xx")
      /\ UNCHANGED <<work, phase, raised, local, uploaded, seen, cut, big, mine, stored, spoiled>>
  BY DEF Refuse, Served, runner
<1>2. /\ call' \in [Callers -> Calls]
      /\ \A c \in Callers : /\ call'[c].content = call[c].content
                           /\ call'[c].tries = call[c].tries
                           /\ \/ call'[c].at = call[c].at
                              \/ c = m.caller /\ m.awaited /\ call'[c].at = "4xx"
      /\ faults' \in 0..MaxFaults /\ mild' \in BOOLEAN
  BY <1>1, ReplyFacts
<1>3. ~mild
  BY <1>1 DEF Mild
<1>4. Mild'
  <2>1. NoFault \/ Fault("lost")
    BY <1>1 DEF Reply
  <2>2. ~mild'
    BY <1>3, <2>1, FaultFacts DEF NoFault
  <2>. QED
    BY <2>2 DEF Mild
<1>5. stored' = [stored EXCEPT ![m.caller] = stored[m.caller]] /\ stored[m.caller] \in Contents
  BY <1>1, Types DEF TypeOK
<1>6. spoiled' \in BOOLEAN
  BY <1>1 DEF TypeOK
<1>7. call'["upload"].at = "ok" \/ uploaded = "yes" =>
        ~big /\ (mine /\ ~spoiled' => stored'["upload"] = local["upload"])
  BY <1>1, <1>2, Types DEF Uploading
<1>. QED
  BY <1>1, <1>2, <1>4, <1>5, <1>6, <1>7, ServedInv

LEMMA SaveInv == ASSUME IInv, NEW m \in net, Save(m) PROVE IInv'
<1>. USE DEF IInv
<1>. DEFINE refused == m.caller = "upload" /\ big
            content == IF refused THEN Nothing ELSE m.content
            answer == IF refused THEN "4xx" ELSE "ok"
<1>1. /\ mine /\ net' = net \ {m}
      /\ UNCHANGED <<work, phase, raised, local, uploaded, seen, cut, big, mine, spoiled>>
  BY DEF Save, Served, runner
<1>2. stored' = [stored EXCEPT ![m.caller] = content] /\ Reply(m, answer)
  BY DEF Save, Stores
<1>3. content \in Contents /\ answer \in {"ok", "4xx"}
  BY Types DEF Contents, Torn, Nothing
<1>4. m.caller = "upload" => m.content = local["upload"]
  BY DEF Uploading
<1>5. /\ ~refused => content = m.content /\ answer = "ok"
      /\ refused => m.caller = "upload" /\ big /\ answer = "4xx"
      /\ ~refused => m.caller # "upload" \/ ~big
  BY DEF TypeOK
<1>. HIDE DEF refused, content, answer
<1>6. /\ call' \in [Callers -> Calls]
      /\ \A c \in Callers : /\ call'[c].content = call[c].content
                           /\ call'[c].tries = call[c].tries
                           /\ \/ call'[c].at = call[c].at
                              \/ c = m.caller /\ m.awaited /\ call'[c].at = answer
      /\ faults' \in 0..MaxFaults /\ mild' \in BOOLEAN
  BY <1>2, <1>3, ReplyFacts
<1>7. \/ NoFault /\ (m.awaited => call'[m.caller].at = answer)
      \/ m.awaited /\ Fault("lost") /\ call' = call
  BY <1>2, <1>3, ReplyFacts
<1>8. /\ stored'[m.caller] = content
      /\ \A c \in Callers : c # m.caller => stored'[c] = stored[c]
  BY <1>2, Types DEF TypeOK
<1>9. call'["upload"].at = "ok" \/ uploaded = "yes" =>
        ~big /\ (mine /\ ~spoiled' => stored'["upload"] = local["upload"])
  BY <1>1, <1>4, <1>5, <1>6, <1>8, Types DEF Uploading
<1>10. Mild'
  <2>. SUFFICES ASSUME mild' PROVE Mild'
    BY DEF Mild
  <2>1. mild /\ faults' < MaxTries /\ faults' >= faults
    <3>1. CASE NoFault
      <4>1. mild /\ faults' = faults
        BY <3>1 DEF NoFault
      <4>. QED
        BY <4>1, Types DEF Mild
    <3>2. CASE Fault("lost")
      <4>1. mild /\ faults' < MaxTries /\ faults' = faults + 1
        BY <3>2, FaultFacts
      <4>. QED
        BY <4>1, Types
    <3>. QED
      BY <1>7, <3>1, <3>2
  <2>2. m.awaited /\ m \in Awaited(m.caller) /\ m.caller \in Callers
    BY <2>1, Types DEF Mild, Awaited
  <2>3. call[m.caller].at = "sent" /\ m.content = call[m.caller].content
    BY <2>2 DEF Calling
  <2>4. ASSUME NEW c \in Callers, call'[c].at = "sent"
        PROVE  call'[c].tries <= faults' + 1 /\ (Awaited(c)' = {} => call'[c].tries <= faults')
    <3>1. call[c].at = "sent" /\ call'[c].tries = call[c].tries
      BY <1>3, <1>6, <2>4
    <3>2. call[c].tries <= faults + 1 /\ (Awaited(c) = {} => call[c].tries <= faults)
      BY <2>1, <3>1 DEF Mild
    <3>3. CASE NoFault /\ (m.awaited => call'[m.caller].at = answer)
      <4>1. c # m.caller /\ faults' = faults
        BY <1>3, <2>2, <2>4, <3>3 DEF NoFault
      <4>2. Awaited(c)' = {} => Awaited(c) = {}
        BY <1>1, <4>1 DEF Awaited
      <4>. QED
        BY <3>1, <3>2, <4>1, <4>2
    <3>4. CASE Fault("lost")
      BY <3>1, <3>2, <3>4, FaultFacts, Types
    <3>. QED
      BY <1>7, <3>3, <3>4
  <2>5. \A n \in net' : n.awaited
    BY <1>1, <2>1 DEF Mild
  <2>6. /\ call'["push"].at \in {"idle", "sent", "ok"}
        /\ call'["push"].at = "ok" => stored'["push"] = call'["push"].content
    BY <1>5, <1>6, <1>8, <2>1, <2>2, <2>3, Types DEF Mild
  <2>7. /\ call'["upload"].at \in {"idle", "sent", "ok", "4xx"}
        /\ call'["upload"].at = "ok" => stored'["upload"] = local["upload"]
        /\ call'["upload"].at = "4xx" => big
    BY <1>3, <1>4, <1>5, <1>6, <1>8, <2>1, <2>2, <2>3, Types DEF Mild
  <2>8. /\ Idle("push")' => stored'["push"] = seen
        /\ ~Idle("push")' => call'["push"].content = seen
        /\ phase = "final" /\ ~Idle("push")' => call'["push"].content = local["push"]
        /\ phase = "done" /\ local["push"] # Nothing => seen = local["push"]
    <3>1. Idle("push")' => Idle("push") /\ m.caller # "push"
      BY <1>3, <1>6, <2>3, Types DEF Idle
    <3>2. ~Idle("push")' => ~Idle("push")
      BY <1>6, <2>3, Types DEF Idle
    <3>3. call'["push"].content = call["push"].content
      BY <1>6, Types
    <3>. QED
      BY <1>8, <2>1, <3>1, <3>2, <3>3, Types DEF Mild
  <2>9. work \in {"drain", "recorded"} /\ local["upload"] # Nothing /\ ~big =>
          stored'["upload"] = local["upload"]
    BY <1>8, <2>1, <2>3, Types DEF Mild, Uploading, Idle
  <2>. QED
    BY <1>1, <2>1, <2>4, <2>5, <2>6, <2>7, <2>8, <2>9 DEF Mild
<1>11. spoiled' \in BOOLEAN
  BY <1>1 DEF TypeOK
<1>12. \A c \in Callers : /\ call'[c].content = call[c].content
                          /\ call'[c].tries = call[c].tries
                          /\ \/ call'[c].at = call[c].at
                             \/ c = m.caller /\ m.awaited /\ call'[c].at # "idle"
  BY <1>3, <1>6
<1>. QED
  BY <1>1, <1>2, <1>3, <1>6, <1>9, <1>10, <1>11, <1>12, ServedInv

LEMMA SaveFailsInv == ASSUME IInv, NEW m \in net, SaveFails(m) PROVE IInv'
<1>. USE DEF IInv
<1>. DEFINE content == IF m.caller = "upload" THEN Nothing ELSE Torn
            next == [call[m.caller] EXCEPT !.at = "5xx"]
<1>1. /\ mine /\ net' = net \ {m} /\ Fault("unsaved")
      /\ UNCHANGED <<work, phase, raised, local, uploaded, seen, cut, big, mine>>
      /\ stored' = [stored EXCEPT ![m.caller] = content]
      /\ spoiled' = (spoiled \/ ~m.awaited)
  BY DEF SaveFails, Served, runner, Stores, Spoils
<1>2. call' = IF m.awaited THEN [call EXCEPT ![m.caller] = next] ELSE call
  BY DEF SaveFails
<1>3. content \in Contents
  BY DEF Contents, Torn, Nothing
<1>4. /\ next \in Calls /\ next.at = "5xx"
      /\ next.content = call[m.caller].content /\ next.tries = call[m.caller].tries
  BY Types DEF TypeOK, Calls
<1>. HIDE DEF content, next
<1>5. /\ call' \in [Callers -> Calls]
      /\ \A c \in Callers : /\ call'[c].content = call[c].content
                           /\ call'[c].tries = call[c].tries
                           /\ \/ call'[c].at = call[c].at
                              \/ c = m.caller /\ m.awaited /\ call'[c].at = "5xx"
  <2>1. CASE m.awaited
    BY <1>2, <1>4, <2>1, Types DEF TypeOK
  <2>2. CASE ~m.awaited
    BY <1>2, <2>2 DEF TypeOK
  <2>. QED
    BY <2>1, <2>2
<1>6. faults' \in 0..MaxFaults /\ mild' \in BOOLEAN /\ ~mild'
  BY <1>1, FaultFacts
<1>7. Mild'
  BY <1>6 DEF Mild
<1>8. spoiled' \in BOOLEAN
  BY <1>1
<1>9. call'["upload"].at = "ok" \/ uploaded = "yes" =>
        ~big /\ (mine /\ ~spoiled' => stored'["upload"] = local["upload"])
  <2>1. CASE m.caller = "upload"
    <3>1. ~spoiled' => ~spoiled /\ m.awaited
      BY <1>1
    <3>2. m.awaited => call["upload"].at = "sent"
      BY <2>1, Types DEF Calling, Awaited
    <3>3. call["upload"].at = "sent" => uploaded # "yes"
      BY DEF Uploading, Idle
    <3>. QED
      BY <1>5, <3>1, <3>2, <3>3, Types DEF Uploading
  <2>2. CASE m.caller # "upload"
    <3>1. stored'["upload"] = stored["upload"]
      BY <1>1, <2>2, Types DEF TypeOK
    <3>2. call'["upload"].at = call["upload"].at
      BY <1>5, <2>2, Types
    <3>3. ~spoiled' => ~spoiled
      BY <1>1
    <3>. QED
      BY <3>1, <3>2, <3>3 DEF Uploading
  <2>. QED
    BY <2>1, <2>2
<1>10. \A c \in Callers : /\ call'[c].content = call[c].content
                          /\ call'[c].tries = call[c].tries
                          /\ \/ call'[c].at = call[c].at
                             \/ c = m.caller /\ m.awaited /\ call'[c].at # "idle"
  BY <1>5
<1>. QED
  BY <1>1, <1>3, <1>5, <1>6, <1>7, <1>8, <1>9, <1>10, ServedInv

LEMMA CrashInv == ASSUME IInv, NEW m \in net, Crash(m) PROVE IInv'
<1>. USE DEF IInv
<1>1. /\ mine /\ net' = {} /\ Fault("crash")
      /\ UNCHANGED <<work, phase, raised, local, uploaded, seen, cut, call, big, mine>>
      /\ stored' = [stored EXCEPT ![m.caller] = Torn]
      /\ spoiled' = (spoiled \/ ~m.awaited)
  BY DEF Crash, runner, Stores, Spoils
<1>2. /\ stored' \in [Callers -> Contents]
      /\ \A c \in Callers : c # m.caller => stored'[c] = stored[c]
  <2>1. Torn \in Contents
    BY DEF Contents, Torn
  <2>. QED
    BY <1>1, <2>1, Types DEF TypeOK
<1>3. faults' \in 0..MaxFaults /\ mild' \in BOOLEAN /\ ~mild'
  BY <1>1, FaultFacts
<1>4. spoiled' \in BOOLEAN
  BY <1>1
<1>5. TypeOK'
  BY <1>1, <1>2, <1>3, <1>4 DEF TypeOK
<1>6. Calling'
  BY <1>1 DEF Calling, Idle, Awaited
<1>7. call'["upload"].at = "ok" \/ uploaded = "yes" =>
        ~big /\ (mine /\ ~spoiled' => stored'["upload"] = local["upload"])
  <2>1. CASE m.caller = "upload"
    <3>1. ~spoiled' => ~spoiled /\ m.awaited
      BY <1>1
    <3>2. m.awaited => call["upload"].at = "sent"
      BY <2>1, Types DEF Calling, Awaited
    <3>3. call["upload"].at = "sent" => uploaded # "yes"
      BY DEF Uploading, Idle
    <3>. QED
      BY <1>1, <3>1, <3>2, <3>3, Types DEF Uploading
  <2>2. CASE m.caller # "upload"
    <3>1. stored'["upload"] = stored["upload"]
      BY <1>2, <2>2, Types
    <3>2. ~spoiled' => ~spoiled
      BY <1>1
    <3>. QED
      BY <1>1, <3>1, <3>2 DEF Uploading
  <2>. QED
    BY <2>1, <2>2
<1>8. Uploading'
  BY <1>1, <1>7 DEF Uploading, Idle
<1>9. Flushing'
  BY <1>1, <1>2, Types DEF Flushing, Idle
<1>10. Mild'
  BY <1>3 DEF Mild
<1>. QED
  BY <1>5, <1>6, <1>8, <1>9, <1>10

-------------------------------------------------------------------------------
(* The theorems.                                                             *)

LEMMA StepInv == IInv /\ [Next]_vars => IInv'
<1>. SUFFICES ASSUME IInv, [Next]_vars PROVE IInv'
  OBVIOUS
<1>1. CASE Edit
  BY <1>1, EditInv
<1>2. CASE ContainerEnds
  BY <1>2, ContainerEndsInv
<1>3. CASE Interrupt \/ InterruptDrain \/ FlushRaises
  BY <1>3, InterruptInv, InterruptDrainInv, FlushRaisesInv
<1>4. CASE Taken
  BY <1>4, TakenInv
<1>5. CASE Running
  BY <1>5, FlushInv, CutOffInv, UploadInv, RecordInv, GiveUpInv, ServerErrorInv,
     AnsweredInv DEF Running
<1>6. CASE Failing
  BY <1>6, SaveFailsInv, CrashInv, LoseInv DEF Failing
<1>7. CASE \E c \in Callers : Serving(c)
  BY <1>7, RefuseInv, SaveInv DEF Serving
<1>8. CASE Done \/ UNCHANGED vars
  <2>1. UNCHANGED vars
    BY <1>8 DEF Done
  <2>. QED
    BY <2>1 DEF vars, runner, ghosts, IInv, TypeOK, Calling, Uploading, Flushing, Mild, Idle,
                Awaited
<1>. QED
  BY <1>1, <1>2, <1>3, <1>4, <1>5, <1>6, <1>7, <1>8 DEF Next

LEMMA Invariance == Spec => []IInv
BY InitInv, StepInv, PTL DEF Spec

\* Whatever fails, and in any order, the variables keep their types: contents of
\* files come from the runner or are torn, and no call makes too many tries.
THEOREM TypeCorrect == Spec => []TypeOK
<1>1. IInv => TypeOK
  BY DEF IInv
<1>. QED
  BY <1>1, Invariance, PTL

\* An artifact that was answered for stays stored, whatever the server still
\* serves of the tries before (client.py, _request_with_retry; job_files.py,
\* save_artifact).
THEOREM UploadedStored == Spec => []UploadedIsStored
<1>1. IInv => UploadedIsStored
  BY DEF IInv, Uploading, UploadedIsStored
<1>. QED
  BY <1>1, Invariance, PTL

\* With fewer lost messages than a call has tries, the reporter's last flush and
\* the upload leave the final files before the result is recorded, and of a watched
\* file that is gone the last content a flush found (executor.py, _shutdown_job;
\* reporter.py, _flush_files).
THEOREM RecordedFinal == Spec => []RecordedIsFinal
<1>1. IInv => RecordedIsFinal
  BY DEF IInv, Flushing, Mild, RecordedIsFinal
<1>. QED
  BY <1>1, Invariance, PTL
===============================================================================
