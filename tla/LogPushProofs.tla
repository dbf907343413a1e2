----------------------------- MODULE LogPushProofs -----------------------------
(***************************************************************************)
(* Proofs about LogPush for logs of any length and any number of tries and *)
(* faults.                                                                 *)
(*                                                                         *)
(* The invariant rests on the chunk numbers: none on its way is beyond the *)
(* one after the server's last, so that a stored chunk closes the door to  *)
(* every other request of its number; and a chunk of the number that is    *)
(* still open starts where the reporter stands.                            *)
(***************************************************************************)
EXTENDS LogPush, TLAPS, FiniteSetTheorems, SequenceTheorems

USE LogAssumption

Indices == 1..Len(stored)

\* The numbers of chunks.
Numbered ==
  /\ nextSeq <= last + 1
  /\ last = 0 => offset = 0
  /\ \A m \in net : m.chunk.seq \in 1..(last + 1)
  /\ \A i \in Indices : stored[i].seq \in 1..last

\* A chunk that is pushed, or was.
InFlight(c) ==
  /\ c.gen <= gen /\ c.from < c.to /\ (c.gen = gen => c.to <= len)
  /\ c.seq = last + 1 =>
       /\ \A i \in Indices : stored[i].gen = c.gen => stored[i].from <= c.from
       /\ c.gen = gen => nextSeq = last + 1 /\ c.from = offset

Pushing ==
  /\ pc # "idle" => /\ chunk.seq = nextSeq
                    /\ chunk.seq = last + 1 => chunk.from = offset /\ offset < size
                    /\ phase # "done"
  /\ pc = "push" => InFlight(chunk) /\ tries # 0
  /\ pc # "push" => tries = 0 /\ answer = "none"
  /\ \A m \in net : InFlight(m.chunk) /\ (Awaited(m) => m.chunk = chunk)
  /\ answer = "ok" => chunk.seq <= last

\* What is stored of the file lies before where the reporter stands in it.
Behind ==
  \A i \in Indices :
    /\ stored[i].gen <= gen /\ stored[i].from < stored[i].to
    /\ stored[i].gen = gen => /\ stored[i].to <= len /\ stored[i].from <= offset
                              /\ pc # "idle" => stored[i].from <= size

\* As long as only fewer messages are lost or late than a push has attempts, no
\* push runs out of them, and all its requests are the same.
Gentle ==
  ~rough =>
    /\ count < MaxTries /\ offset <= len /\ answer # "5xx"
    /\ pc # "idle" => size <= len
    /\ pc # "push" => nextSeq = last + 1
    /\ pc = "push" => last <= nextSeq
    /\ \A m \in net : m.chunk.seq <= last \/ (pc = "push" /\ m.chunk = chunk)
    /\ pc = "push" /\ nextSeq = last => \E i \in Indices : stored[i] = chunk
    /\ Waiting => tries <= count + 1 /\ ((\A m \in net : ~Awaited(m)) => tries <= count)

IInv ==
  /\ TypeOK /\ IsFiniteSet(net) /\ Numbered /\ Pushing /\ Behind /\ Gentle
  /\ StoredInOrder

-------------------------------------------------------------------------------
(* Lemmas.                                                                   *)

LEMMA InitInv == Init => IInv
<1>. SUFFICES ASSUME Init PROVE IInv
  OBVIOUS
<1>1. /\ NoChunk \in Chunks /\ 0 \in 0..MaxLen /\ 0 \in 0..MaxTries /\ 0 \in 0..MaxFaults
      /\ NoChunk.seq = 0
  BY DEF NoChunk, Chunks
<1>2. stored = << >> /\ Len(stored) = 0 /\ stored \in Seq(Chunks)
  BY EmptySeq DEF Init
<1>3. Indices = {}
  BY <1>2 DEF Indices
<1>4. TypeOK
  <2>1. /\ len = 0 /\ gen = 0 /\ offset = 0 /\ nextSeq = 1 /\ size = 0 /\ chunk = NoChunk
        /\ tries = 0 /\ attempt = 0 /\ net = {} /\ last = 0 /\ count = 0
    BY DEF Init
  <2>2. stop \in BOOLEAN /\ rough \in BOOLEAN
    BY DEF Init
  <2>3. phase = "loop" /\ pc = "idle" /\ answer = "none"
    BY DEF Init
  <2>. QED
    BY <1>1, <1>2, <2>1, <2>2, <2>3 DEF TypeOK
<1>5. IsFiniteSet(net)
  BY FS_EmptySet DEF Init
<1>6. Numbered /\ Behind /\ StoredInOrder
  BY <1>2, <1>3 DEF Init, Numbered, Behind, StoredInOrder
<1>7. Pushing
  BY DEF Init, Pushing, Awaited, Waiting
<1>8. Gentle
  BY DEF Init, Gentle, Waiting
<1>. QED
  BY <1>4, <1>5, <1>6, <1>7, <1>8 DEF IInv

\* A pigeonhole: net does not use every name.
LEMMA FreshFacts ==
  ASSUME IsFiniteSet(net)
  PROVE  Fresh \in Nat /\ \A m \in net : m.id # Fresh
<1>. DEFINE n == Cardinality(net)
            names == 1..(n + 1)
<1>1. n \in Nat
  BY FS_CardinalityType
<1>2. IsFiniteSet(names) /\ Cardinality(names) = n + 1
  BY <1>1, FS_Interval
<1>3. \E i \in names : \A m \in net : m.id # i
  <2>. SUFFICES ASSUME \A i \in names : \E m \in net : m.id = i PROVE FALSE
    OBVIOUS
  <2>. DEFINE f == [i \in names |-> CHOOSE m \in net : m.id = i]
  <2>1. \A i \in names : f[i] \in net /\ f[i].id = i
    OBVIOUS
  <2>2. f \in [names -> net]
    BY <2>1
  <2>. HIDE DEF f, names, n
  <2>3. n < n + 1
    BY <1>1
  <2>4. \E x, y \in names : x # y /\ f[x] = f[y]
    BY <1>2, <2>2, <2>3, FS_PigeonHole DEF n
  <2>. QED
    BY <2>1, <2>4
<1>4. Fresh \in names /\ \A m \in net : m.id # Fresh
  BY <1>3 DEF Fresh
<1>. QED
  BY <1>1, <1>4

LEMMA FaultFacts ==
  ASSUME TypeOK, NEW kind, Fault(kind)
  PROVE  /\ count' = count + 1 /\ count' \in 0..MaxFaults /\ rough' \in BOOLEAN
         /\ ~rough' => ~rough /\ kind \in {"lost", "late"} /\ count' # MaxTries
<1>1. count' = count + 1 /\ count' \in 0..MaxFaults
  BY DEF Fault, TypeOK
<1>2. rough' = (rough \/ kind \notin {"lost", "late"} \/ count' = MaxTries)
  BY DEF Fault
<1>. QED
  BY <1>1, <1>2

LEMMA Types ==
  ASSUME TypeOK
  PROVE  /\ len \in Nat /\ gen \in Nat /\ offset \in Nat /\ size \in Nat /\ nextSeq \in Nat
         /\ last \in Nat /\ tries \in Nat /\ count \in Nat /\ MaxTries \in Nat
BY DEF TypeOK

LEMMA ChunkTypes ==
  ASSUME TypeOK
  PROVE  /\ \A c \in Chunks : c.seq \in Nat /\ c.gen \in Nat /\ c.from \in Nat /\ c.to \in Nat
         /\ chunk \in Chunks
         /\ \A m \in net : m.chunk \in Chunks
         /\ \A i \in Indices : stored[i] \in Chunks
<1>1. \A i \in Indices : stored[i] \in Chunks
  BY ElementOfSeq DEF TypeOK, Indices
<1>. QED
  BY <1>1 DEF TypeOK, Chunks

-------------------------------------------------------------------------------
(* The container.                                                            *)

LEMMA GrowInv == ASSUME IInv, Grow PROVE IInv'
<1>. USE DEF IInv
<1>1. len < MaxLen /\ len' = len + 1
  BY DEF Grow
<1>2. UNCHANGED <<gen, stop, offset, nextSeq, phase, pc, size, chunk, tries, answer, attempt, net,
                  last, stored, count, rough>>
  BY DEF Grow, reporter, server, faults
<1>3. len' \in 0..MaxLen /\ len' > len
  BY <1>1, Types DEF TypeOK
<1>4. TypeOK' /\ Numbered' /\ StoredInOrder'
  BY <1>2, <1>3 DEF TypeOK, Numbered, StoredInOrder, Indices
<1>5. ASSUME NEW c \in Chunks, InFlight(c) PROVE InFlight(c)'
  BY <1>2, <1>3, <1>5, Types, ChunkTypes DEF InFlight, Indices
<1>6. Pushing'
  <2>1. pc = "push" => InFlight(chunk)'
    BY <1>2, <1>5, ChunkTypes DEF Pushing
  <2>2. \A m \in net : InFlight(m.chunk)'
    BY <1>2, <1>5, ChunkTypes DEF Pushing
  <2>. QED
    BY <1>2, <2>1, <2>2 DEF Pushing, Awaited, Waiting
<1>7. Behind'
  BY <1>2, <1>3, Types, ChunkTypes DEF Behind, Indices
<1>8. Gentle'
  BY <1>2, <1>3, Types DEF Gentle, Indices, Waiting, Awaited
<1>. QED
  BY <1>2, <1>4, <1>6, <1>7, <1>8

LEMMA TruncateInv == ASSUME IInv, Truncate PROVE IInv'
<1>. USE DEF IInv
<1>1. len' = 0 /\ gen' = gen + 1 /\ Fault("truncate")
  BY DEF Truncate
<1>2. UNCHANGED <<stop, offset, nextSeq, phase, pc, size, chunk, tries, answer, attempt, net,
                  last, stored>>
  BY DEF Truncate, reporter, server
<1>3. count' \in 0..MaxFaults /\ rough' \in BOOLEAN /\ rough'
  BY <1>1, FaultFacts
<1>4. TypeOK'
  BY <1>1, <1>2, <1>3, Types DEF TypeOK
<1>5. Numbered' /\ StoredInOrder'
  BY <1>2 DEF Numbered, StoredInOrder, Indices
<1>6. ASSUME NEW c \in Chunks, InFlight(c) PROVE InFlight(c)'
  <2>1. c.gen < gen'
    BY <1>1, <1>6, Types, ChunkTypes DEF InFlight
  <2>. QED
    BY <1>1, <1>2, <1>6, <2>1, Types, ChunkTypes DEF InFlight, Indices
<1>7. Pushing'
  <2>1. pc = "push" => InFlight(chunk)'
    BY <1>2, <1>6, ChunkTypes DEF Pushing
  <2>2. \A m \in net : InFlight(m.chunk)'
    BY <1>2, <1>6, ChunkTypes DEF Pushing
  <2>. QED
    BY <1>2, <2>1, <2>2 DEF Pushing, Awaited, Waiting
<1>8. Behind'
  <2>1. \A i \in Indices : stored[i].gen < gen'
    BY <1>1, Types, ChunkTypes DEF Behind
  <2>. QED
    BY <1>1, <1>2, <2>1, Types, ChunkTypes DEF Behind, Indices
<1>9. Gentle'
  BY <1>3 DEF Gentle
<1>. QED
  BY <1>2, <1>4, <1>5, <1>7, <1>8, <1>9

LEMMA StopInv == ASSUME IInv, Stop PROVE IInv'
<1>. USE DEF IInv
<1>1. /\ stop' \in BOOLEAN
      /\ UNCHANGED <<len, gen, offset, nextSeq, phase, pc, size, chunk, tries, answer, attempt,
                     net, last, stored, count, rough>>
  BY DEF Stop, file, reporter, server, faults
<1>2. TypeOK' /\ Numbered' /\ StoredInOrder' /\ Behind'
  BY <1>1 DEF TypeOK, Numbered, StoredInOrder, Behind, Indices
<1>3. Pushing' /\ Gentle'
  BY <1>1 DEF Pushing, Gentle, InFlight, Indices, Awaited, Waiting
<1>. QED
  BY <1>1, <1>2, <1>3

-------------------------------------------------------------------------------
(* The reporter.                                                             *)

LEMMA FlushEndsFacts ==
  ASSUME TypeOK, NEW ph \in {"loop", "final"}, FlushEnds(ph)
  PROVE  /\ pc' = "idle" /\ size' = 0 /\ chunk' = NoChunk /\ tries' = 0
         /\ phase' \in {"loop", "final", "done"}
         /\ size' \in 0..MaxLen /\ chunk' \in Chunks /\ tries' \in 0..MaxTries
<1>1. pc' = "idle" /\ size' = 0 /\ chunk' = NoChunk /\ tries' = 0
  BY DEF FlushEnds
<1>2. phase' \in {"loop", "final", "done"}
  <2>1. stop \in BOOLEAN
    BY DEF TypeOK
  <2>. QED
    BY <2>1 DEF FlushEnds
<1>3. NoChunk \in Chunks /\ 0 \in 0..MaxLen /\ 0 \in 0..MaxTries
  BY DEF NoChunk, Chunks
<1>. QED
  BY <1>1, <1>2, <1>3

\* A flush ends without a reply to rely on.
LEMMA EndsInv ==
  ASSUME IInv, NEW ph \in {"loop", "final"}, FlushEnds(ph), answer' = "none",
         UNCHANGED <<len, gen, stop, offset, nextSeq, attempt, net, last, stored>>,
         count' \in 0..MaxFaults, rough' \in BOOLEAN,
         ~rough' => ~rough /\ count' = count /\ pc # "push"
  PROVE  IInv'
<1>. USE DEF IInv
<1>1. /\ pc' = "idle" /\ size' = 0 /\ chunk' = NoChunk /\ tries' = 0
      /\ phase' \in {"loop", "final", "done"}
      /\ size' \in 0..MaxLen /\ chunk' \in Chunks /\ tries' \in 0..MaxTries
  BY FlushEndsFacts
<1>2. TypeOK'
  BY <1>1 DEF TypeOK
<1>3. Numbered' /\ StoredInOrder'
  BY DEF Numbered, StoredInOrder, Indices
<1>4. \A c : InFlight(c) => InFlight(c)'
  BY DEF InFlight, Indices
<1>5. Pushing'
  BY <1>1, <1>4 DEF Pushing, Awaited, Waiting
<1>6. Behind'
  BY <1>1 DEF Behind, Indices
<1>7. Gentle'
  BY <1>1 DEF Gentle, Waiting, Indices
<1>. QED
  BY <1>2, <1>3, <1>5, <1>6, <1>7

\* A request for c, the first of a push or a repeated one.
LEMMA RequestInv ==
  ASSUME IInv, NEW c \in Chunks, Request(c), answer' = "none",
         UNCHANGED <<len, gen, stop, offset, nextSeq, phase, size, last, stored>>,
         tries < MaxTries, pc \in {"read", "push"}, pc = "push" => c = chunk,
         c.seq = nextSeq, InFlight(c),
         c.seq = last + 1 => c.from = offset /\ offset < size,
         count' \in 0..MaxFaults, rough' \in BOOLEAN,
         ~rough' => ~rough /\ tries <= count' /\ count' < MaxTries
  PROVE  IInv'
<1>. USE DEF IInv
<1>. DEFINE m == [id |-> Fresh, chunk |-> c]
<1>1. Fresh \in Nat /\ \A n \in net : n.id # Fresh
  BY FreshFacts
<1>2. m.id = Fresh /\ m.chunk = c
  OBVIOUS
<1>3. /\ pc' = "push" /\ chunk' = c /\ tries' = tries + 1 /\ attempt' = Fresh
      /\ net' = net \cup {m}
  BY DEF Request
<1>. HIDE DEF m
<1>4. \A n \in net' : n \in net \/ n = m
  BY <1>3
<1>5. TypeOK'
  <2>1. tries' \in 0..MaxTries
    BY <1>3, Types
  <2>2. \A n \in net' : n.id \in Nat /\ n.chunk \in Chunks
    BY <1>1, <1>2, <1>4 DEF TypeOK
  <2>. QED
    BY <1>1, <1>3, <2>1, <2>2 DEF TypeOK
<1>6. IsFiniteSet(net')
  BY <1>3, FS_AddElement
<1>7. Numbered'
  <2>1. c.seq \in 1..(last + 1)
    BY Types DEF Numbered, TypeOK
  <2>2. \A n \in net' : n.chunk.seq \in 1..(last + 1)
    BY <1>2, <1>4, <2>1 DEF Numbered
  <2>. QED
    BY <2>2 DEF Numbered, Indices
<1>8. \A d : InFlight(d) => InFlight(d)'
  BY DEF InFlight, Indices
<1>9. ASSUME NEW n \in net' PROVE InFlight(n.chunk)' /\ (Awaited(n)' => n.chunk = c)
  <2>1. CASE n = m
    BY <1>2, <1>8, <2>1
  <2>2. CASE n \in net
    BY <1>1, <1>3, <1>8, <2>2 DEF Pushing, Awaited
  <2>. QED
    BY <1>4, <2>1, <2>2
<1>10. Pushing'
  <2>1. tries' # 0
    BY <1>3, Types
  <2>. QED
    BY <1>3, <1>8, <1>9, <2>1 DEF Pushing
<1>11. Behind'
  BY <1>3 DEF Behind, Indices
<1>12. StoredInOrder'
  BY DEF StoredInOrder
<1>13. Gentle'
  <2>. SUFFICES ASSUME ~rough' PROVE Gentle'
    BY DEF Gentle
  <2>1. ~rough /\ tries <= count' /\ count' < MaxTries
    OBVIOUS
  <2>2. offset <= len /\ size <= len /\ last <= nextSeq
    BY <2>1, Types DEF Gentle
  <2>3. ASSUME NEW n \in net' PROVE n.chunk.seq <= last \/ n.chunk = c
    BY <1>2, <1>4, <2>1 DEF Gentle
  <2>4. nextSeq = last => \E i \in Indices : stored[i] = c
    <3>1. CASE pc = "push"
      BY <2>1, <3>1 DEF Gentle
    <3>2. CASE pc = "read"
      BY <2>1, <3>2, Types DEF Gentle
    <3>. QED
      BY <3>1, <3>2
  <2>5. \E n \in net' : Awaited(n)'
    <3>1. Waiting'
      BY <1>3 DEF Waiting
    <3>2. \E n \in net' : n.id = attempt'
      BY <1>2, <1>3
    <3>. QED
      BY <3>1, <3>2 DEF Awaited
  <2>6. tries' <= count' + 1
    <3>1. count' \in Nat
      OBVIOUS
    <3>. QED
      BY <1>3, <2>1, <3>1, Types
  <2>. QED
    BY <1>3, <2>1, <2>2, <2>3, <2>4, <2>5, <2>6 DEF Gentle, Indices
<1>. QED
  BY <1>5, <1>6, <1>7, <1>10, <1>11, <1>12, <1>13

LEMMA StatInv == ASSUME IInv, Stat PROVE IInv'
<1>. USE DEF IInv
<1>1. /\ phase # "done" /\ pc = "idle" /\ answer = "none" /\ tries = 0
      /\ UNCHANGED <<len, gen, stop, offset, answer, attempt, net, last, stored, count, rough>>
  BY DEF Stat, file, server, faults, Pushing
<1>2. count' \in 0..MaxFaults /\ rough' \in BOOLEAN
  BY <1>1 DEF TypeOK
<1>3. PICK ph \in {"loop", "final"} :
        IF len = offset
        THEN FlushEnds(ph) /\ UNCHANGED nextSeq
        ELSE LET shorter == len < offset
                 from == IF shorter THEN 0 ELSE offset
             IN  /\ pc' = "read" /\ phase' = ph /\ size' = len
                 /\ nextSeq' = IF shorter THEN 1 ELSE nextSeq
                 /\ chunk' = [seq |-> nextSeq', gen |-> gen, from |-> from, to |-> from]
                 /\ UNCHANGED tries
  <2>1. (IF stop THEN {phase, "final"} ELSE {phase}) \subseteq {"loop", "final"}
    BY <1>1 DEF TypeOK
  <2>. QED
    BY <2>1 DEF Stat
<1>4. CASE len = offset
  BY <1>1, <1>2, <1>3, <1>4, EndsInv
<1>5. CASE len # offset
  <2>. DEFINE from == IF len < offset THEN 0 ELSE offset
  <2>1. /\ pc' = "read" /\ phase' = ph /\ size' = len /\ tries' = tries
        /\ nextSeq' = IF len < offset THEN 1 ELSE nextSeq
        /\ chunk' = [seq |-> nextSeq', gen |-> gen, from |-> from, to |-> from]
    BY <1>3, <1>5
  <2>2. /\ nextSeq' \in Nat \ {0} /\ from \in 0..MaxLen
        /\ nextSeq' <= last + 1
    BY <2>1, Types DEF TypeOK, Numbered
  <2>3. chunk' \in Chunks /\ chunk'.seq = nextSeq' /\ chunk'.from = from
    BY <2>1, <2>2, Types DEF Chunks
  <2>4. nextSeq' = last + 1 => from = offset /\ offset < len
    <3>1. CASE len < offset
      BY <2>1, <3>1, Types DEF Numbered
    <3>2. CASE offset < len
      BY <3>2, Types
    <3>. QED
      BY <1>5, <3>1, <3>2, Types
  <2>5. TypeOK'
    BY <1>1, <1>2, <2>1, <2>2, <2>3 DEF TypeOK
  <2>6. Numbered'
    BY <1>1, <2>2 DEF Numbered, Indices
  <2>7. ASSUME NEW m \in net PROVE InFlight(m.chunk)'
    <3>1. InFlight(m.chunk)
      BY DEF Pushing
    <3>2. m.chunk.seq = last + 1 /\ m.chunk.gen = gen => ~(len < offset)
      BY <3>1, Types, ChunkTypes DEF InFlight
    <3>. QED
      BY <1>1, <2>1, <3>1, <3>2 DEF InFlight, Indices
  <2>8. Pushing'
    BY <1>1, <2>1, <2>3, <2>4, <2>7 DEF Pushing, Awaited, Waiting
  <2>9. Behind'
    BY <1>1, <2>1, Types, ChunkTypes DEF Behind, Indices
  <2>10. Gentle'
    BY <1>1, <2>1, Types DEF Gentle, Waiting, Indices
  <2>11. StoredInOrder'
    BY <1>1 DEF StoredInOrder
  <2>. QED
    BY <1>1, <2>5, <2>6, <2>8, <2>9, <2>10, <2>11
<1>. QED
  BY <1>4, <1>5

LEMMA ReadInv == ASSUME IInv, Read PROVE IInv'
<1>. USE DEF IInv
<1>1. /\ pc = "read" /\ answer = "none" /\ tries = 0
      /\ UNCHANGED <<len, gen, stop, offset, nextSeq, answer, last, stored, count, rough>>
  BY DEF Read, file, server, faults, Pushing
<1>2. count' \in 0..MaxFaults /\ rough' \in BOOLEAN /\ phase \in {"loop", "final"}
  BY <1>1 DEF TypeOK, Pushing
<1>. DEFINE c == [chunk EXCEPT !.gen = gen, !.to = len]
<1>3. CASE len > chunk.from /\ Request(c) /\ UNCHANGED <<phase, size>>
  <2>1. /\ c \in Chunks
        /\ c.seq = chunk.seq /\ c.from = chunk.from /\ c.gen = gen /\ c.to = len
    BY Types, ChunkTypes DEF TypeOK, Chunks
  <2>. HIDE DEF c
  <2>2. c.seq = nextSeq /\ (c.seq = last + 1 => c.from = offset /\ offset < size)
    BY <1>1, <2>1 DEF Pushing
  <2>3. InFlight(c)
    <3>1. c.gen <= gen /\ c.from < c.to
      BY <1>3, <2>1, Types, ChunkTypes
    <3>2. c.seq = last + 1 =>
            /\ \A i \in Indices : stored[i].gen = c.gen => stored[i].from <= c.from
            /\ nextSeq = last + 1 /\ c.from = offset
      BY <2>1, <2>2 DEF Behind
    <3>. QED
      BY <2>1, <3>1, <3>2, Types DEF InFlight
  <2>4. tries < MaxTries
    BY <1>1, Types
  <2>5. ~rough' => ~rough /\ tries <= count' /\ count' < MaxTries
    BY <1>1, <1>2 DEF Gentle
  <2>. QED
    BY <1>1, <1>2, <1>3, <2>1, <2>2, <2>3, <2>4, <2>5, RequestInv
<1>4. CASE FlushEnds(phase) /\ UNCHANGED <<attempt, net>>
  BY <1>1, <1>2, <1>4, EndsInv
<1>. QED
  BY <1>3, <1>4 DEF Read

LEMMA FailedInv ==
  ASSUME IInv, pc = "push", Failed, count' \in 0..MaxFaults, rough' \in BOOLEAN,
         ~rough' => ~rough /\ tries <= count' /\ count' < MaxTries
  PROVE  IInv'
<1>. USE DEF IInv
<1>1. /\ answer' = "none"
      /\ UNCHANGED <<len, gen, stop, offset, nextSeq, last, stored>>
  BY DEF Failed, file, server
<1>2. CASE tries < MaxTries /\ Request(chunk) /\ UNCHANGED <<phase, size>>
  <2>1. /\ chunk \in Chunks /\ chunk.seq = nextSeq /\ InFlight(chunk)
        /\ chunk.seq = last + 1 => chunk.from = offset /\ offset < size
    BY ChunkTypes DEF Pushing
  <2>. QED
    BY <1>1, <1>2, <2>1, RequestInv
<1>3. CASE tries = MaxTries /\ FlushEnds(phase) /\ UNCHANGED <<attempt, net>>
  <2>1. rough'
    BY <1>3, Types
  <2>2. phase \in {"loop", "final"}
    BY DEF TypeOK, Pushing
  <2>. QED
    BY <1>1, <1>3, <2>1, <2>2, EndsInv
<1>. QED
  BY <1>2, <1>3 DEF Failed

LEMMA GiveUpInv == ASSUME IInv, GiveUp PROVE IInv'
<1>. USE DEF IInv
<1>1. Waiting /\ pc = "push" /\ Failed
  BY DEF GiveUp, Waiting
<1>2. CASE \E m \in net : Awaited(m)
  <2>1. Fault("late")
    BY <1>2 DEF GiveUp
  <2>2. /\ count' = count + 1 /\ count' \in 0..MaxFaults /\ rough' \in BOOLEAN
        /\ ~rough' => ~rough /\ count' # MaxTries
    BY <2>1, FaultFacts
  <2>3. ~rough => tries <= count + 1 /\ count < MaxTries
    BY <1>1 DEF Gentle
  <2>4. ~rough' => ~rough /\ tries <= count' /\ count' < MaxTries
    BY <2>2, <2>3, Types
  <2>. QED
    BY <1>1, <2>2, <2>4, FailedInv
<1>3. CASE ~\E m \in net : Awaited(m)
  <2>1. count' = count /\ rough' = rough
    BY <1>3 DEF GiveUp, faults
  <2>2. ~rough => tries <= count /\ count < MaxTries
    BY <1>1, <1>3 DEF Gentle
  <2>. QED
    BY <1>1, <2>1, <2>2, FailedInv DEF TypeOK
<1>. QED
  BY <1>2, <1>3

LEMMA ServerErrorInv == ASSUME IInv, ServerError PROVE IInv'
<1>. USE DEF IInv
<1>1. pc = "push" /\ Failed /\ count' = count /\ rough' = rough
  BY DEF ServerError, faults
<1>2. rough
  BY DEF ServerError, Gentle
<1>. QED
  BY <1>1, <1>2, FailedInv DEF TypeOK

LEMMA CutOffInv == ASSUME IInv, CutOff PROVE IInv'
<1>. USE DEF IInv
<1>1. /\ Waiting /\ Fault("hurry") /\ FlushEnds(phase)
      /\ UNCHANGED <<len, gen, stop, offset, nextSeq, answer, attempt, net, last, stored>>
  BY DEF CutOff, file, server
<1>2. answer' = "none" /\ phase \in {"loop", "final"}
  BY <1>1 DEF Waiting, TypeOK, Pushing
<1>3. count' \in 0..MaxFaults /\ rough' \in BOOLEAN /\ rough'
  BY <1>1, FaultFacts
<1>. QED
  BY <1>1, <1>2, <1>3, EndsInv

LEMMA AcknowledgeInv == ASSUME IInv, Acknowledge PROVE IInv'
<1>. USE DEF IInv
<1>1. /\ pc = "push" /\ answer = "ok" /\ nextSeq' = chunk.seq + 1 /\ offset' = size
      /\ FlushEnds(phase) /\ answer' = "none"
      /\ UNCHANGED <<len, gen, stop, attempt, net, last, stored, count, rough>>
  BY DEF Acknowledge, file, server, faults
<1>2. phase \in {"loop", "final"}
  BY <1>1 DEF TypeOK, Pushing
<1>3. /\ pc' = "idle" /\ size' = 0 /\ chunk' = NoChunk /\ tries' = 0
      /\ phase' \in {"loop", "final", "done"}
      /\ size' \in 0..MaxLen /\ chunk' \in Chunks /\ tries' \in 0..MaxTries
  BY <1>1, <1>2, FlushEndsFacts
<1>4. chunk.seq = nextSeq /\ chunk.seq <= last /\ nextSeq # 0 /\ nextSeq \in Nat
  BY <1>1, Types DEF Pushing, TypeOK
<1>5. TypeOK'
  <2>1. nextSeq' \in Nat \ {0}
    BY <1>1, <1>4
  <2>. QED
    BY <1>1, <1>3, <2>1 DEF TypeOK
<1>6. Numbered'
  <2>1. nextSeq' <= last + 1 /\ last # 0
    BY <1>1, <1>4, Types
  <2>. QED
    BY <1>1, <2>1 DEF Numbered, Indices
<1>7. ASSUME NEW m \in net PROVE InFlight(m.chunk)'
  <2>1. InFlight(m.chunk)
    BY DEF Pushing
  <2>2. nextSeq # last + 1
    BY <1>4, Types
  <2>. QED
    BY <1>1, <2>1, <2>2 DEF InFlight, Indices
<1>8. Pushing'
  BY <1>1, <1>3, <1>7 DEF Pushing, Awaited, Waiting
<1>9. Behind'
  BY <1>1, <1>3 DEF Behind, Indices
<1>10. Gentle'
  <2>1. ~rough => nextSeq' = last + 1
    BY <1>1, <1>4, Types DEF Gentle
  <2>2. ~rough => \A m \in net : m.chunk.seq <= last
    BY <1>4 DEF Gentle
  <2>. QED
    BY <1>1, <1>3, <2>1, <2>2 DEF Gentle, Waiting
<1>11. StoredInOrder'
  BY <1>1 DEF StoredInOrder
<1>. QED
  BY <1>1, <1>5, <1>6, <1>8, <1>9, <1>10, <1>11

-------------------------------------------------------------------------------
(* The server.                                                               *)

\* A request leaves net and the server as it was.
LEMMA LeavesInv ==
  ASSUME IInv, NEW m \in net, net' = net \ {m},
         UNCHANGED <<len, gen, stop, offset, nextSeq, phase, pc, size, chunk, tries, attempt,
                     last, stored>>,
         \/ answer' = answer
         \/ answer' = "ok" /\ Awaited(m) /\ m.chunk.seq <= last,
         count' \in 0..MaxFaults, rough' \in BOOLEAN,
         ~rough' => /\ ~rough /\ count' < MaxTries /\ count <= count'
                    /\ Awaited(m) /\ answer' = "none" => count' = count + 1
  PROVE  IInv'
<1>. USE DEF IInv
<1>1. TypeOK'
  <2>1. answer' \in {"none", "ok", "5xx"}
    BY DEF TypeOK
  <2>. QED
    BY <2>1 DEF TypeOK
<1>2. IsFiniteSet(net')
  BY FS_RemoveElement
<1>3. Numbered' /\ Behind' /\ StoredInOrder'
  BY DEF Numbered, Behind, StoredInOrder, Indices
<1>4. \A n \in net' : n \in net /\ n # m
  OBVIOUS
<1>5. \A c : InFlight(c) => InFlight(c)'
  BY DEF InFlight, Indices
<1>6. Awaited(m) => m.chunk = chunk /\ pc = "push" /\ answer = "none"
  BY DEF Pushing, Awaited, Waiting
<1>7. Waiting' => Waiting
  <2>1. Waiting' => answer' = "none" /\ pc = "push"
    BY DEF Waiting
  <2>. QED
    BY <2>1, <1>6 DEF Waiting
<1>8. Pushing'
  <2>1. \A n \in net' : InFlight(n.chunk)' /\ (Awaited(n)' => n.chunk = chunk)
    BY <1>4, <1>5, <1>7 DEF Pushing, Awaited
  <2>2. answer' = "ok" => chunk.seq <= last
    BY <1>6 DEF Pushing
  <2>3. pc # "push" => answer' = "none"
    BY <1>6 DEF Pushing
  <2>4. pc = "push" => InFlight(chunk)'
    BY <1>5 DEF Pushing, InFlight, Indices
  <2>. QED
    BY <2>1, <2>2, <2>3, <2>4 DEF Pushing
<1>9. Gentle'
  <2>. SUFFICES ASSUME ~rough' PROVE Gentle'
    BY DEF Gentle
  <2>1. /\ ~rough /\ count' < MaxTries /\ count <= count' /\ count' \in Nat
        /\ Awaited(m) /\ answer' = "none" => count' = count + 1
    OBVIOUS
  <2>2. answer' # "5xx"
    BY <2>1 DEF Gentle
  <2>3. \A n \in net' : n.chunk.seq <= last \/ (pc = "push" /\ n.chunk = chunk)
    BY <1>4, <2>1 DEF Gentle
  <2>4. ASSUME Waiting'
        PROVE  tries <= count' + 1 /\ ((\A n \in net' : ~Awaited(n)') => tries <= count')
    <3>1. /\ Waiting /\ answer' = "none"
          /\ tries <= count + 1 /\ ((\A n \in net : ~Awaited(n)) => tries <= count)
      BY <1>7, <2>1, <2>4 DEF Gentle, Waiting
    <3>2. CASE Awaited(m)
      BY <2>1, <3>1, <3>2, Types
    <3>3. CASE ~Awaited(m)
      <4>1. (\A n \in net' : ~Awaited(n)') => \A n \in net : ~Awaited(n)
        BY <2>4, <3>3 DEF Awaited
      <4>. QED
        BY <2>1, <3>1, <4>1, Types
    <3>. QED
      BY <3>2, <3>3
  <2>. QED
    BY <2>1, <2>2, <2>3, <2>4 DEF Gentle, Indices
<1>. QED
  BY <1>1, <1>2, <1>3, <1>8, <1>9

\* The number of a request is committed, and its chunk appended or not.
LEMMA CommitsInv ==
  ASSUME IInv, NEW m \in net, net' = net \ {m}, m.chunk.seq > last,
         last' = m.chunk.seq,
         UNCHANGED <<len, gen, stop, offset, nextSeq, phase, pc, size, chunk, tries, attempt>>,
         \/ stored' = Append(stored, m.chunk)
         \/ stored' = stored /\ rough',
         \/ answer' = answer
         \/ Awaited(m) /\ (answer' = "ok" \/ (answer' = "5xx" /\ rough')),
         count' \in 0..MaxFaults, rough' \in BOOLEAN,
         ~rough' => /\ ~rough /\ count' < MaxTries /\ count <= count'
                    /\ Awaited(m) /\ answer' = "none" => count' = count + 1
  PROVE  IInv'
<1>. USE DEF IInv
<1>1. /\ last \in Nat /\ m.chunk.seq \in Nat /\ m.chunk.from \in Nat /\ m.chunk.to \in Nat
      /\ m.chunk.gen \in Nat /\ m.chunk \in Chunks
  BY Types, ChunkTypes
<1>2. last' = last + 1 /\ m.chunk.seq = last + 1
  BY <1>1 DEF Numbered
<1>3. InFlight(m.chunk)
  BY DEF Pushing
<1>4. stored \in Seq(Chunks)
  BY DEF TypeOK
<1>. DEFINE n == Len(stored)
<1>5. n \in Nat /\ Indices = 1..n
  BY <1>4, LenProperties DEF Indices
<1>6. /\ stored' \in Seq(Chunks)
      /\ \A i \in Indices' : \/ i \in Indices /\ stored'[i] = stored[i]
                             \/ i = n + 1 /\ stored'[i] = m.chunk
      /\ stored' # stored => n + 1 \in Indices' /\ stored'[n + 1] = m.chunk
  <2>1. CASE stored' = Append(stored, m.chunk)
    <3>1. /\ stored' \in Seq(Chunks) /\ Len(stored') = n + 1
          /\ \A i \in 1..n : stored'[i] = stored[i]
          /\ stored'[n + 1] = m.chunk
      BY <1>1, <1>4, <2>1, AppendProperties
    <3>2. Indices' = 1..(n + 1)
      BY <3>1 DEF Indices
    <3>. QED
      BY <1>5, <3>1, <3>2
  <2>2. CASE stored' = stored
    BY <1>4, <2>2 DEF Indices
  <2>. QED
    BY <2>1, <2>2
<1>. HIDE DEF n
<1>7. TypeOK'
  <2>1. answer' \in {"none", "ok", "5xx"}
    BY DEF TypeOK
  <2>2. last' \in Nat
    BY <1>1
  <2>. QED
    BY <1>6, <2>1, <2>2 DEF TypeOK
<1>8. IsFiniteSet(net')
  BY FS_RemoveElement
<1>9. Awaited(m) => m.chunk = chunk /\ pc = "push" /\ answer = "none"
  BY DEF Pushing, Awaited, Waiting
<1>10. Waiting' => Waiting
  <2>1. Waiting' => answer' = "none" /\ pc = "push"
    BY DEF Waiting
  <2>. QED
    BY <2>1, <1>9 DEF Waiting
<1>11. Numbered'
  <2>1. \A i \in Indices' : stored'[i].seq \in 1..last'
    <3>1. \A i \in Indices : stored[i].seq \in 1..last
      BY DEF Numbered
    <3>. QED
      BY <1>1, <1>2, <1>6, <3>1
  <2>2. \A k \in net' : k.chunk.seq \in 1..(last' + 1)
    BY <1>1, <1>2 DEF Numbered
  <2>3. nextSeq <= last' + 1 /\ last' # 0
    BY <1>1, <1>2, Types DEF Numbered
  <2>. QED
    BY <2>1, <2>2, <2>3 DEF Numbered
<1>12. ASSUME NEW c, c.seq \in 1..(last + 1), InFlight(c) PROVE InFlight(c)'
  <2>1. c.seq # last' + 1
    BY <1>1, <1>2, <1>12
  <2>. QED
    BY <1>12, <2>1 DEF InFlight
<1>13. Pushing'
  <2>1. pc # "idle" => chunk.seq = nextSeq /\ chunk.seq \in 1..(last + 1) /\ chunk.seq # last' + 1
    BY <1>1, <1>2, Types DEF Pushing, Numbered, TypeOK
  <2>2. pc = "push" => InFlight(chunk)
    BY DEF Pushing
  <2>3. pc = "push" => InFlight(chunk)'
    BY <1>2, <2>1, <2>2 DEF InFlight
  <2>4. \A k \in net' : InFlight(k.chunk)'
    BY <1>12 DEF Pushing, Numbered
  <2>5. \A k \in net' : Awaited(k)' => k.chunk = chunk
    BY <1>10 DEF Pushing, Awaited
  <2>6. answer' = "ok" => chunk.seq <= last'
    BY <1>1, <1>2, <1>9, Types, ChunkTypes DEF Pushing
  <2>7. pc # "push" => answer' = "none"
    BY <1>9 DEF Pushing
  <2>. QED
    BY <2>1, <2>3, <2>4, <2>5, <2>6, <2>7 DEF Pushing
<1>14. Behind'
  <2>1. m.chunk.gen <= gen /\ m.chunk.from < m.chunk.to
    BY <1>3 DEF InFlight
  <2>2. m.chunk.gen = gen => /\ m.chunk.to <= len /\ m.chunk.from <= offset
                             /\ pc # "idle" => m.chunk.from <= size
    <3>1. m.chunk.gen = gen => m.chunk.to <= len /\ nextSeq = last + 1 /\ m.chunk.from = offset
      BY <1>2, <1>3 DEF InFlight
    <3>2. pc # "idle" /\ nextSeq = last + 1 => offset < size
      BY DEF Pushing
    <3>. QED
      BY <3>1, <3>2, Types
  <2>. QED
    BY <1>6, <2>1, <2>2 DEF Behind
<1>15. StoredInOrder'
  <2>. SUFFICES ASSUME NEW k \in Indices', NEW i \in Indices', i < k
                PROVE  /\ stored'[i].seq < stored'[k].seq
                       /\ stored'[i].gen = stored'[k].gen => stored'[i].from <= stored'[k].from
    BY DEF StoredInOrder, Indices
  <2>1. CASE k \in Indices /\ stored'[k] = stored[k]
    <3>1. i \in Indices /\ stored'[i] = stored[i]
      BY <1>5, <1>6, <2>1
    <3>. QED
      BY <2>1, <3>1 DEF StoredInOrder, Indices
  <2>2. CASE k = n + 1 /\ stored'[k] = m.chunk
    <3>1. i \in Indices /\ stored'[i] = stored[i]
      BY <1>5, <1>6, <2>2
    <3>2. stored[i].seq \in 1..last
      BY <3>1 DEF Numbered
    <3>3. stored[i].gen = m.chunk.gen => stored[i].from <= m.chunk.from
      BY <1>2, <1>3, <3>1 DEF InFlight
    <3>. QED
      BY <1>1, <1>2, <2>2, <3>1, <3>2, <3>3
  <2>. QED
    BY <1>6, <2>1, <2>2
<1>16. Gentle'
  <2>. SUFFICES ASSUME ~rough' PROVE Gentle'
    BY DEF Gentle
  <2>1. /\ ~rough /\ count' < MaxTries /\ count <= count' /\ count' \in Nat
        /\ Awaited(m) /\ answer' = "none" => count' = count + 1
    OBVIOUS
  <2>2. pc = "push" /\ m.chunk = chunk /\ chunk.seq = nextSeq
    BY <1>1, <2>1 DEF Gentle, Pushing
  <2>3. answer' # "5xx"
    BY <2>1 DEF Gentle
  <2>4. \A k \in net' : k.chunk.seq <= last'
    BY <1>1, <1>2 DEF Numbered
  <2>5. \E i \in Indices' : stored'[i] = chunk
    <3>1. n + 1 \in Indices' /\ stored'[n + 1] = m.chunk
      BY <1>1, <1>4, <1>5, <1>6, AppendProperties DEF Indices, n
    <3>. QED
      BY <2>2, <3>1
  <2>6. ASSUME Waiting'
        PROVE  tries <= count' + 1 /\ ((\A k \in net' : ~Awaited(k)') => tries <= count')
    <3>1. /\ Waiting /\ answer' = "none"
          /\ tries <= count + 1 /\ ((\A k \in net : ~Awaited(k)) => tries <= count)
      BY <1>10, <2>1, <2>6 DEF Gentle, Waiting
    <3>2. CASE Awaited(m)
      BY <2>1, <3>1, <3>2, Types
    <3>3. CASE ~Awaited(m)
      <4>1. (\A k \in net' : ~Awaited(k)') => \A k \in net : ~Awaited(k)
        BY <2>6, <3>3 DEF Awaited
      <4>. QED
        BY <2>1, <3>1, <4>1, Types
    <3>. QED
      BY <3>2, <3>3
  <2>7. offset <= len /\ size <= len /\ last' <= nextSeq
    BY <1>2, <2>1, <2>2, Types DEF Gentle
  <2>. QED
    BY <2>1, <2>2, <2>3, <2>4, <2>5, <2>6, <2>7 DEF Gentle
<1>. QED
  BY <1>7, <1>8, <1>11, <1>13, <1>14, <1>15, <1>16

LEMMA ServeFacts ==
  ASSUME NEW m, Serve(m)
  PROVE  /\ m \in net /\ net' = net \ {m}
         /\ last' = IF IsNew(m.chunk.seq) THEN m.chunk.seq ELSE last
         /\ UNCHANGED <<len, gen, stop, offset, nextSeq, phase, pc, size, chunk, tries, attempt>>
BY DEF Serve, file, reporter

LEMMA PushInv == ASSUME IInv, NEW m \in net, Push(m) PROVE IInv'
<1>. USE DEF IInv
<1>1. /\ net' = net \ {m}
      /\ last' = IF IsNew(m.chunk.seq) THEN m.chunk.seq ELSE last
      /\ stored' = IF IsNew(m.chunk.seq) THEN Append(stored, m.chunk) ELSE stored
      /\ UNCHANGED <<len, gen, stop, offset, nextSeq, phase, pc, size, chunk, tries, attempt>>
  BY ServeFacts DEF Push
<1>2. /\ answer' = answer \/ (Awaited(m) /\ answer' = "ok")
      /\ count' \in 0..MaxFaults /\ rough' \in BOOLEAN
      /\ ~rough' => /\ ~rough /\ count' < MaxTries /\ count <= count'
                    /\ Awaited(m) /\ answer' = "none" => count' = count + 1
  <2>1. CASE answer' = (IF Awaited(m) THEN "ok" ELSE answer) /\ UNCHANGED faults
    <3>1. count' = count /\ rough' = rough
      BY <2>1 DEF faults
    <3>2. Awaited(m) => answer' = "ok"
      BY <2>1
    <3>3. answer' = answer \/ (Awaited(m) /\ answer' = "ok")
      BY <2>1
    <3>. QED
      BY <3>1, <3>2, <3>3, Types DEF TypeOK, Gentle
  <2>2. CASE Awaited(m) /\ Fault("lost") /\ UNCHANGED answer
    <3>1. /\ count' = count + 1 /\ count' \in 0..MaxFaults /\ rough' \in BOOLEAN
          /\ ~rough' => ~rough /\ count' # MaxTries
      BY <2>2, FaultFacts
    <3>2. ~rough => count < MaxTries
      BY DEF Gentle
    <3>3. ~rough' => ~rough /\ count' < MaxTries /\ count <= count'
      BY <3>1, <3>2, Types
    <3>. QED
      BY <2>2, <3>1, <3>3
  <2>. QED
    BY <2>1, <2>2 DEF Push
<1>3. m.chunk.seq \in Nat /\ last \in Nat
  BY Types, ChunkTypes
<1>4. CASE IsNew(m.chunk.seq)
  BY <1>1, <1>2, <1>4, CommitsInv DEF IsNew
<1>5. CASE ~IsNew(m.chunk.seq)
  <2>1. m.chunk.seq <= last
    BY <1>3, <1>5 DEF IsNew
  <2>. QED
    BY <1>1, <1>2, <1>5, <2>1, LeavesInv
<1>. QED
  BY <1>4, <1>5

LEMMA PushUnsavedInv == ASSUME IInv, NEW m \in net, PushUnsaved(m) PROVE IInv'
<1>. USE DEF IInv
<1>1. /\ m.chunk.seq > last /\ last' = m.chunk.seq /\ net' = net \ {m} /\ stored' = stored
      /\ UNCHANGED <<len, gen, stop, offset, nextSeq, phase, pc, size, chunk, tries, attempt>>
  BY ServeFacts DEF PushUnsaved, IsNew
<1>2. count' \in 0..MaxFaults /\ rough' \in BOOLEAN /\ rough'
  BY FaultFacts DEF PushUnsaved
<1>3. answer' = answer \/ (Awaited(m) /\ answer' = "5xx")
  BY DEF PushUnsaved
<1>. QED
  BY <1>1, <1>2, <1>3, CommitsInv

LEMMA CrashInPushInv == ASSUME IInv, NEW m \in net, CrashInPush(m) PROVE IInv'
<1>. USE DEF IInv
<1>1. /\ m.chunk.seq > last /\ last' = m.chunk.seq /\ net' = net \ {m}
      /\ stored' = stored /\ answer' = answer
      /\ UNCHANGED <<len, gen, stop, offset, nextSeq, phase, pc, size, chunk, tries, attempt>>
  BY ServeFacts DEF CrashInPush, IsNew
<1>2. count' \in 0..MaxFaults /\ rough' \in BOOLEAN /\ rough'
  BY FaultFacts DEF CrashInPush
<1>. QED
  BY <1>1, <1>2, CommitsInv

LEMMA LoseInv == ASSUME IInv, NEW m \in net, Lose(m) PROVE IInv'
<1>. USE DEF IInv
<1>1. /\ Awaited(m) /\ Fault("lost") /\ net' = net \ {m}
      /\ UNCHANGED <<len, gen, stop, offset, nextSeq, phase, pc, size, chunk, tries, answer,
                     attempt, last, stored>>
  BY DEF Lose, file, reporter, server
<1>2. /\ count' = count + 1 /\ count' \in 0..MaxFaults /\ rough' \in BOOLEAN
      /\ ~rough' => ~rough /\ count' # MaxTries
  BY <1>1, FaultFacts
<1>3. ~rough => count < MaxTries
  BY DEF Gentle
<1>4. ~rough' => ~rough /\ count' < MaxTries /\ count <= count'
  BY <1>2, <1>3, Types
<1>. QED
  BY <1>1, <1>2, <1>4, LeavesInv

-------------------------------------------------------------------------------
(* The theorems.                                                             *)

LEMMA StepInv == IInv /\ [Next]_vars => IInv'
<1>. SUFFICES ASSUME IInv, [Next]_vars PROVE IInv'
  OBVIOUS
<1>1. CASE Grow \/ Truncate \/ Stop
  BY <1>1, GrowInv, TruncateInv, StopInv
<1>2. CASE Reporting
  BY <1>2, StatInv, ReadInv, GiveUpInv, ServerErrorInv, AcknowledgeInv, CutOffInv
     DEF Reporting
<1>3. CASE Serving
  BY <1>3, PushInv, PushUnsavedInv, CrashInPushInv DEF Serving
<1>4. CASE \E m \in net : Lose(m)
  BY <1>4, LoseInv
<1>5. CASE Done \/ UNCHANGED vars
  <2>1. /\ UNCHANGED <<len, gen, stop, offset, nextSeq, phase, pc, size, chunk, tries>>
        /\ UNCHANGED <<answer, attempt, net, last, stored, count, rough>>
    BY <1>5 DEF Done, vars, file, reporter, server, faults
  <2>2. TypeOK' /\ Numbered' /\ Behind' /\ StoredInOrder'
    BY <2>1 DEF IInv, TypeOK, Numbered, Behind, StoredInOrder, Indices
  <2>3. Pushing' /\ Gentle'
    BY <2>1 DEF IInv, Pushing, Gentle, InFlight, Indices, Awaited, Waiting
  <2>. QED
    BY <2>1, <2>2, <2>3 DEF IInv
<1>. QED
  BY <1>1, <1>2, <1>3, <1>4, <1>5 DEF Next

LEMMA Invariance == Spec => []IInv
BY InitInv, StepInv, PTL DEF Spec

\* Whatever fails, and in any order, the variables keep their types: no push
\* makes more attempts than max_attempts (client.py, _request_with_retry).
THEOREM TypeCorrect == Spec => []TypeOK
<1>1. IInv => TypeOK
  BY DEF IInv
<1>. QED
  BY <1>1, Invariance, PTL

\* The stored log never runs backwards, with every fault of the model and
\* truncations at any time (database.py, record_job_file_chunk).
THEOREM InOrder == Spec => []StoredInOrder
<1>1. IInv => StoredInOrder
  BY DEF IInv
<1>. QED
  BY <1>1, Invariance, PTL

\* With fewer lost and late messages than a push has attempts, what was
\* acknowledged is stored (reporter.py, _flush_files).
THEOREM AcknowledgedStored == Spec => []AcknowledgedIsStored
<1>1. IInv => AcknowledgedIsStored
  <2>. SUFFICES ASSUME IInv, answer = "ok", ~rough, NEW b \in (chunk.from + 1)..chunk.to
                PROVE  Stored(chunk.gen, b)
    BY DEF AcknowledgedIsStored
  <2>1. pc = "push" /\ chunk.seq = nextSeq /\ chunk.seq <= last /\ last <= nextSeq
    BY DEF IInv, Pushing, Gentle
  <2>2. nextSeq = last
    BY <2>1, Types DEF IInv
  <2>3. PICK i \in Indices : stored[i] = chunk
    BY <2>1, <2>2 DEF IInv, Gentle
  <2>4. chunk.from < b /\ b <= chunk.to
    BY Types, ChunkTypes DEF IInv
  <2>. QED
    BY <2>3, <2>4 DEF Stored, Indices
<1>. QED
  BY <1>1, Invariance, PTL
================================================================================
