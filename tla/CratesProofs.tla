----------------------------- MODULE CratesProofs -----------------------------
(***************************************************************************)
(* Proofs about CratesAccess for any number of callers and every rate,     *)
(* time to live, timeout and number of attempts.                           *)
(***************************************************************************)
EXTENDS CratesAccess, FiniteSetTheorems, SequenceTheorems, TLAPS

USE CratesAssumption

\* How far a call has come fits its numbers.
Tried ==
  \A c \in Calls :
    /\ At(c, "sent") => call[c].try \in 1..MaxTries /\ call[c].left \in 0..Timeout
    /\ At(c, "back") => call[c].try \in 1..(MaxTries - 1)

\* Who sleeps in the bucket holds its lock.
Locked ==
  \A c \in Calls : At(c, "short") => process = "server" /\ line # << >> /\ line[1] = c

\* The bucket never holds more than the one filled tick by tick, and who sleeps
\* in it sleeps until that one has a token.
Accounts ==
  /\ credit >= 0 /\ credit >= tokens + since
  /\ \A c \in Calls : At(c, "short") =>
       /\ credit + call[c].left >= period
       /\ tokens + since + call[c].left >= Least(period, Second)

\* An answer on its way ages no faster than its attempt.
Recent ==
  \A c \in Calls : At(c, "sent") =>
    IF call[c].got = "found" THEN call[c].age <= Timeout - call[c].left + 1
                             ELSE call[c].age = 0

\* A call that began after the crate was published meets no 404.
Known ==
  \A c \in Calls :
    /\ call[c].knew => published
    /\ call[c].got = "absent" \/ call[c].reply = "absent" => ~call[c].knew

IInv == TypeOK /\ Tried /\ Locked /\ Accounts /\ CachedIsRecent /\ Recent /\ Known

-------------------------------------------------------------------------------
(* Lemmas.                                                                   *)

LEMMA Powers == \A n \in Nat : 2^n \in Nat
<1>1. TAKE n \in Nat
<1>2. IsFiniteSet(1..n) /\ Cardinality(1..n) = n
  BY FS_Interval
<1>3. IsFiniteSet(SUBSET (1..n)) /\ Cardinality(SUBSET (1..n)) = 2^n
  BY <1>2, FS_SUBSET
<1>. QED
  BY <1>3, FS_CardinalityType

LEMMA BackoffType ==
  ASSUME NEW n \in Nat \ {0}
  PROVE  Backoff(n) \in Nat
<1>1. 2^(n - 1) \in Nat
  <2>1. n - 1 \in Nat
    OBVIOUS
  <2>. QED
    BY <2>1, Powers
<1>2. \A k \in Nat : Second * k \in Nat
  OBVIOUS
<1>. QED
  BY <1>1, <1>2 DEF Backoff

LEMMA MoveMoves ==
  ASSUME NEW c \in Calls, NEW next \in CallTypes, call \in [Calls -> CallTypes],
         Move(c, next)
  PROVE  /\ call' \in [Calls -> CallTypes]
         /\ call'[c] = next
         /\ \A d \in Calls \ {c} : call'[d] = call[d]
BY DEF Move

LEMMA AdmittedFirst ==
  ASSUME NEW c \in Calls, Admitted(c), process = "server", line \in Seq(Calls)
  PROVE  line # << >> /\ line[1] = c
<1>1. PICK i \in 1..Least(Len(line), 1) : line[i] = c
  BY DEF Admitted
<1>2. Len(line) \in Nat
  OBVIOUS
<1>3. i = 1 /\ Len(line) >= 1
  BY <1>1, <1>2 DEF Least
<1>. QED
  BY <1>1, <1>3

LEMMA LeaveType ==
  ASSUME NEW c \in Calls, Leave(c), line \in Seq(Calls)
  PROVE  line' \in Seq(Calls)
<1>1. PICK i \in 1..Len(line) : line' = RemoveAt(line, i)
  BY DEF Leave
<1>2. Len(line) \in Nat /\ \A k \in 1..Len(line) : line[k] \in Calls
  OBVIOUS
<1>3. SubSeq(line, 1, i - 1) \in Seq(Calls)
  BY <1>1, <1>2, SubSeqProperties
<1>4. SubSeq(line, i + 1, Len(line)) \in Seq(Calls)
  BY <1>1, <1>2, SubSeqProperties
<1>. QED
  BY <1>1, <1>3, <1>4, ConcatProperties DEF RemoveAt

LEMMA IdleType ==
  ASSUME NEW reply \in {"none", "found", "absent", "error"}, NEW knew \in BOOLEAN
  PROVE  Idle(reply, knew) \in CallTypes /\ Queued(knew) \in CallTypes
BY DEF Idle, Queued, CallTypes, Ancient

\* What becomes of the other calls when one moves and the rest of the state
\* stays as it is, as far as they can tell.
LEMMA OthersKeep ==
  ASSUME IInv, NEW c \in Calls, \A d \in Calls \ {c} : call'[d] = call[d],
         UNCHANGED <<process, published>>,
         process = "server" => line' = line \/ \E e \in Calls : line' = Append(line, e)
  PROVE  \A d \in Calls \ {c} :
           /\ At(d, "sent")' => call'[d].try \in 1..MaxTries /\ call'[d].left \in 0..Timeout
           /\ At(d, "back")' => call'[d].try \in 1..(MaxTries - 1)
           /\ At(d, "short")' => process' = "server" /\ line' # << >> /\ line'[1] = d
           /\ At(d, "sent")' =>
                IF call'[d].got = "found" THEN call'[d].age <= Timeout - call'[d].left + 1
                                          ELSE call'[d].age = 0
           /\ call'[d].knew => published'
           /\ call'[d].got = "absent" \/ call'[d].reply = "absent" => ~call'[d].knew
<1>1. line \in Seq(Calls)
  BY DEF IInv, TypeOK
<1>2. ASSUME line # << >>, process = "server"
      PROVE  line' # << >> /\ line'[1] = line[1]
  <2>1. ASSUME NEW e \in Calls, line' = Append(line, e)
        PROVE  line' # << >> /\ line'[1] = line[1]
    BY <1>1, <1>2, <2>1, AppendProperties
  <2>. QED
    BY <1>2, <2>1
<1>3. TAKE d \in Calls \ {c}
<1>4. call'[d] = call[d]
  OBVIOUS
<1>5. /\ At(d, "sent")' => call'[d].try \in 1..MaxTries /\ call'[d].left \in 0..Timeout
      /\ At(d, "back")' => call'[d].try \in 1..(MaxTries - 1)
  BY <1>4 DEF IInv, Tried, At
<1>6. At(d, "short")' => process' = "server" /\ line' # << >> /\ line'[1] = d
  BY <1>2, <1>4 DEF IInv, Locked, At
<1>7. At(d, "sent")' =>
        IF call'[d].got = "found" THEN call'[d].age <= Timeout - call'[d].left + 1
                                  ELSE call'[d].age = 0
  BY <1>4 DEF IInv, Recent, At
<1>8. /\ call'[d].knew => published'
      /\ call'[d].got = "absent" \/ call'[d].reply = "absent" => ~call'[d].knew
  BY <1>4 DEF IInv, Known
<1>. QED
  BY <1>5, <1>6, <1>7, <1>8

\* The same for the accounts.
LEMMA AccountsKeep ==
  ASSUME IInv, NEW c \in Calls, \A d \in Calls \ {c} : call'[d] = call[d],
         ~At(c, "short")', UNCHANGED <<bucket, credit>>
  PROVE  Accounts'
BY DEF IInv, Accounts, At, bucket

-------------------------------------------------------------------------------
(* The invariant is inductive: one lemma for each action.                    *)

LEMMA InitInv == Init => IInv
<1>. SUFFICES ASSUME Init PROVE IInv
  OBVIOUS
<1>1. TypeOK
  <2>1. Idle("none", FALSE) \in CallTypes
    BY IdleType
  <2>2. call \in [Calls -> CallTypes]
    BY <2>1 DEF Init
  <2>3. line \in Seq(Calls)
    BY DEF Init
  <2>4. cache \in [got : {"none", "found"}, age : 0..Ancient, left : 0..TTL]
    BY DEF Init, NotCached, Ancient
  <2>5. period \in Nat \ {0} /\ tokens = Second /\ since = 0 /\ credit = Most(Second, period)
    BY DEF Init
  <2>6. tokens \in -period..Second /\ since \in 0..(Second - tokens) /\ credit \in Int
    BY <2>5 DEF Most
  <2>. QED
    BY <2>2, <2>3, <2>4, <2>6 DEF Init, TypeOK
<1>2. \A c \in Calls : call[c] = Idle("none", FALSE)
  BY DEF Init
<1>3. Tried /\ Locked
  BY <1>2 DEF Tried, Locked, At, Idle
<1>4. Accounts
  BY <1>2 DEF Init, Accounts, At, Idle, Most
<1>5. CachedIsRecent /\ Recent /\ Known
  BY <1>2 DEF Init, Recent, CachedIsRecent, Known, At, Idle, NotCached
<1>. QED
  BY <1>1, <1>3, <1>4, <1>5 DEF IInv

LEMMA BeginInv ==
  ASSUME IInv, NEW c \in Calls, Begin(c)
  PROVE  IInv'
<1>. USE DEF Begin
<1>1. /\ line \in Seq(Calls) /\ call \in [Calls -> CallTypes] /\ published \in BOOLEAN
      /\ cache.got \in {"none", "found"}
  BY DEF IInv, TypeOK
<1>2. PICK next \in {Idle(cache.got, published), Queued(published)} : Move(c, next)
  OBVIOUS
<1>3. /\ next \in CallTypes
      /\ next.pc \in {"idle", "queued"} /\ next.got = "none"
      /\ next.reply # "absent" /\ next.knew = published
  BY <1>1, <1>2, IdleType DEF Idle, Queued
<1>4. /\ call' \in [Calls -> CallTypes] /\ call'[c] = next
      /\ \A d \in Calls \ {c} : call'[d] = call[d]
  BY <1>1, <1>2, <1>3, MoveMoves
<1>5. line' \in Seq(Calls)
  BY <1>1, AppendProperties
<1>6. TypeOK'
  BY <1>4, <1>5 DEF IInv, TypeOK, bucket
<1>7. Accounts'
  BY <1>3, <1>4, AccountsKeep DEF At
<1>8. (Tried /\ Locked /\ CachedIsRecent /\ Recent /\ Known)'
  BY <1>3, <1>4, OthersKeep DEF Tried, Locked, Recent, CachedIsRecent, Known, At, IInv
<1>. QED
  BY <1>6, <1>7, <1>8 DEF IInv

LEMMA ServeInv ==
  ASSUME IInv, NEW c \in Calls, Serve(c)
  PROVE  IInv'
<1>1. call \in [Calls -> CallTypes] /\ At(c, "sent") /\ call[c].got = "none"
  BY DEF IInv, TypeOK, Serve
<1>2. PICK got \in {IF published THEN "found" ELSE "absent", "429", "5xx", "4xx"} :
        Move(c, [call[c] EXCEPT !.got = got])
  BY DEF Serve
<1>. DEFINE next == [call[c] EXCEPT !.got = got]
<1>3. next \in CallTypes
  BY <1>1, <1>2 DEF CallTypes
<1>4. /\ next.pc = "sent" /\ next.got = got /\ next.reply = call[c].reply
      /\ next.knew = call[c].knew /\ next.age = call[c].age
      /\ next.try = call[c].try /\ next.left = call[c].left
  BY <1>1 DEF At, CallTypes
<1>. HIDE DEF next
<1>5. /\ call' \in [Calls -> CallTypes] /\ call'[c] = next
      /\ \A d \in Calls \ {c} : call'[d] = call[d]
  BY <1>1, <1>2, <1>3, MoveMoves DEF next
<1>6. TypeOK'
  BY <1>5 DEF Serve, IInv, TypeOK, bucket
<1>7. Accounts'
  BY <1>4, <1>5, AccountsKeep DEF At, Serve
<1>8. next.age = 0 /\ next.left \in 0..Timeout /\ next.try \in 1..MaxTries
  BY <1>1, <1>4 DEF IInv, Recent, Tried
<1>9. /\ next.knew => published
      /\ next.got = "absent" \/ next.reply = "absent" => ~next.knew
  <2>1. call[c].knew => published
    BY DEF IInv, Known
  <2>2. call[c].reply = "absent" => ~call[c].knew
    BY DEF IInv, Known
  <2>3. got = "absent" => ~published
    BY <1>2
  <2>. QED
    BY <1>4, <2>1, <2>2, <2>3
<1>10. (Tried /\ Locked /\ CachedIsRecent /\ Recent /\ Known)'
  BY <1>4, <1>5, <1>8, <1>9, OthersKeep
  DEF Tried, Locked, Recent, CachedIsRecent, Known, At, IInv, Serve
<1>. QED
  BY <1>6, <1>7, <1>10 DEF IInv

\* A request leaves: the first one, or a further attempt.
LEMMA SendMoves ==
  ASSUME IInv, NEW c \in Calls, NEW n \in 1..MaxTries, Send(c, n)
  PROVE  /\ call' \in [Calls -> CallTypes]
         /\ \A d \in Calls \ {c} : call'[d] = call[d]
         /\ call'[c].pc = "sent" /\ call'[c].try = n /\ call'[c].left = Timeout
         /\ call'[c].got = "none" /\ call'[c].age = 0
         /\ call'[c].reply = call[c].reply /\ call'[c].knew = call[c].knew
<1>1. call[c] \in CallTypes
  BY DEF IInv, TypeOK
<1>. DEFINE next == [call[c] EXCEPT !.pc = "sent", !.try = n, !.left = Timeout,
                                    !.got = "none", !.age = 0]
<1>2. next \in CallTypes
  <2>1. n \in 0..MaxTries /\ Timeout \in Nat /\ 0 \in 0..Ancient
    BY DEF Ancient
  <2>. QED
    BY <1>1, <2>1 DEF CallTypes
<1>3. /\ next.pc = "sent" /\ next.try = n /\ next.left = Timeout
      /\ next.got = "none" /\ next.age = 0
      /\ next.reply = call[c].reply /\ next.knew = call[c].knew
  BY <1>1 DEF CallTypes
<1>4. Move(c, next)
  BY DEF Send
<1>. HIDE DEF next
<1>. QED
  BY <1>2, <1>3, <1>4, MoveMoves DEF IInv, TypeOK

LEMMA DownloadInv ==
  ASSUME IInv, NEW c \in Calls, Download(c) \/ Retry(c)
  PROVE  IInv'
<1>1. /\ UNCHANGED <<process, bucket, line, cache, published, credit>>
      /\ \E n \in 1..MaxTries : Send(c, n)
  BY DEF Download, Retry, IInv, Tried
<1>2. /\ call' \in [Calls -> CallTypes]
      /\ \A d \in Calls \ {c} : call'[d] = call[d]
      /\ call'[c].pc = "sent" /\ call'[c].try \in 1..MaxTries /\ call'[c].left = Timeout
      /\ call'[c].got = "none" /\ call'[c].age = 0
      /\ call'[c].reply = call[c].reply /\ call'[c].knew = call[c].knew
  BY <1>1, SendMoves
<1>3. TypeOK'
  BY <1>1, <1>2 DEF IInv, TypeOK, bucket
<1>4. Accounts'
  BY <1>1, <1>2, AccountsKeep DEF At
<1>5. (Tried /\ Locked /\ CachedIsRecent /\ Recent /\ Known)'
  BY <1>1, <1>2, OthersKeep DEF Tried, Locked, Recent, CachedIsRecent, Known, At, IInv
<1>. QED
  BY <1>3, <1>4, <1>5 DEF IInv

LEMMA GrantInv ==
  ASSUME IInv, NEW c \in Calls, Grant(c), process = "server",
         line # << >>, line[1] = c, credit >= period, tokens + since >= Least(period, Second)
  PROVE  IInv'
<1>1. /\ UNCHANGED <<process, period, cache, published>>
      /\ tokens' = Refilled - period /\ since' = 0 /\ credit' = credit - period
      /\ line' = Tail(line) /\ Send(c, 1)
  BY DEF Grant
<1>2. /\ call' \in [Calls -> CallTypes]
      /\ \A d \in Calls \ {c} : call'[d] = call[d]
      /\ call'[c].pc = "sent" /\ call'[c].try = 1 /\ call'[c].left = Timeout
      /\ call'[c].got = "none" /\ call'[c].age = 0
      /\ call'[c].reply = call[c].reply /\ call'[c].knew = call[c].knew
  BY <1>1, SendMoves
<1>3. line' \in Seq(Calls)
  BY <1>1, HeadTailProperties DEF IInv, TypeOK
<1>4. /\ period \in Nat \ {0} /\ tokens \in -period..Second /\ since \in 0..(Second - tokens)
      /\ credit \in Int /\ credit >= tokens + since
  BY DEF IInv, TypeOK, Accounts
<1>5. Refilled = tokens + since /\ Refilled \in 0..Second
  BY <1>4 DEF Refilled, Least
<1>6. /\ tokens' \in -period..Second /\ since' \in 0..(Second - tokens') /\ credit' \in Int
      /\ credit' >= 0 /\ credit' >= tokens' + since'
  BY <1>1, <1>4, <1>5
<1>7. TypeOK'
  BY <1>1, <1>2, <1>3, <1>6 DEF IInv, TypeOK
<1>8. \A d \in Calls : ~At(d, "short")'
  BY <1>2 DEF IInv, Locked, At
<1>9. Locked' /\ Accounts'
  BY <1>6, <1>8 DEF Locked, Accounts
<1>10. (Tried /\ CachedIsRecent /\ Recent /\ Known)'
  BY <1>1, <1>2 DEF Tried, Recent, CachedIsRecent, Known, At, IInv
<1>. QED
  BY <1>7, <1>9, <1>10 DEF IInv

LEMMA AcquireInv ==
  ASSUME IInv, NEW c \in Calls, Acquire(c)
  PROVE  IInv'
<1>1. process = "server" /\ At(c, "queued") /\ line # << >> /\ line[1] = c
  BY AdmittedFirst DEF Acquire, IInv, TypeOK
<1>2. /\ period \in Nat \ {0} /\ tokens \in -period..Second /\ since \in 0..(Second - tokens)
      /\ credit \in Int /\ credit >= 0 /\ credit >= tokens + since
  BY DEF IInv, TypeOK, Accounts
<1>3. Refilled = tokens + since
  BY <1>2 DEF Refilled, Least
<1>4. CASE Refilled >= period /\ Grant(c)
  BY <1>1, <1>2, <1>3, <1>4, GrantInv DEF Least
<1>. DEFINE next == [call[c] EXCEPT !.pc = "short", !.left = period - Refilled]
<1>5. CASE /\ Refilled < period /\ tokens' = Refilled /\ since' = 0
           /\ Move(c, next)
           /\ UNCHANGED <<process, period, line, cache, published, credit>>
  <2>1. call[c] \in CallTypes
    BY DEF IInv, TypeOK
  <2>2. period - Refilled \in Nat
    BY <1>2, <1>3, <1>5
  <2>3. /\ next \in CallTypes
        /\ next.pc = "short" /\ next.left = period - Refilled /\ next.got = call[c].got
        /\ next.reply = call[c].reply /\ next.knew = call[c].knew
    BY <2>1, <2>2 DEF CallTypes
  <2>. HIDE DEF next
  <2>4. /\ call' \in [Calls -> CallTypes] /\ call'[c] = next
        /\ \A d \in Calls \ {c} : call'[d] = call[d]
    BY <1>5, <2>3, MoveMoves DEF IInv, TypeOK
  <2>5. tokens' \in -period..Second /\ since' \in 0..(Second - tokens')
    BY <1>2, <1>3, <1>5
  <2>6. TypeOK'
    BY <1>5, <2>4, <2>5 DEF IInv, TypeOK
  <2>7. \A d \in Calls \ {c} : ~At(d, "short")'
    BY <1>1, <2>4 DEF IInv, Locked, At
  <2>8. /\ credit' >= 0 /\ credit' >= tokens' + since'
        /\ credit' + call'[c].left >= period'
        /\ tokens' + since' + call'[c].left >= Least(period', Second)
    BY <1>2, <1>3, <1>5, <2>3, <2>4 DEF Least
  <2>9. Accounts'
    BY <2>7, <2>8 DEF Accounts
  <2>10. (Tried /\ Locked /\ CachedIsRecent /\ Recent /\ Known)'
    BY <1>1, <1>5, <2>3, <2>4, OthersKeep
    DEF Tried, Locked, Recent, CachedIsRecent, Known, At, IInv
  <2>. QED
    BY <2>6, <2>9, <2>10 DEF IInv
<1>. QED
  BY <1>4, <1>5 DEF Acquire

LEMMA WakeInv ==
  ASSUME IInv, NEW c \in Calls, Wake(c)
  PROVE  IInv'
<1>1. At(c, "short") /\ call[c].left = 0 /\ Grant(c)
  BY DEF Wake
<1>2. process = "server" /\ line # << >> /\ line[1] = c
  BY <1>1 DEF IInv, Locked
<1>3. credit + 0 >= period /\ tokens + since + 0 >= Least(period, Second)
  BY <1>1 DEF IInv, Accounts
<1>4. credit \in Int /\ period \in Int /\ tokens \in Int /\ since \in Int
  BY DEF IInv, TypeOK
<1>. QED
  BY <1>1, <1>2, <1>3, <1>4, GrantInv
\* An attempt, or the call with it, comes to its end.
LEMMA EndInv ==
  ASSUME IInv, NEW c \in Calls, NEW next \in CallTypes, Move(c, next),
         next.pc = "idle" \/ (next.pc = "back" /\ next.try \in 1..(MaxTries - 1)),
         next.knew = call[c].knew,
         next.got = "absent" \/ next.reply = "absent" => ~next.knew,
         UNCHANGED <<process, bucket, published, credit>>,
         line' = line \/ (process = "runner" /\ Leave(c)),
         CachedIsRecent',
         cache' \in [got : {"none", "found"}, age : 0..Ancient, left : 0..TTL]
  PROVE  IInv'
<1>1. /\ call' \in [Calls -> CallTypes] /\ call'[c] = next
      /\ \A d \in Calls \ {c} : call'[d] = call[d]
  BY MoveMoves DEF IInv, TypeOK
<1>2. line' \in Seq(Calls)
  BY LeaveType DEF IInv, TypeOK
<1>3. TypeOK'
  BY <1>1, <1>2 DEF IInv, TypeOK, bucket
<1>4. Accounts'
  BY <1>1, AccountsKeep DEF At
<1>5. next.knew => published
  BY DEF IInv, Known
<1>6. (Tried /\ Locked /\ Recent /\ Known)'
  BY <1>1, <1>5, OthersKeep DEF Tried, Locked, Recent, Known, At
<1>. QED
  BY <1>3, <1>4, <1>6 DEF IInv

LEMMA EndsInv ==
  ASSUME IInv, NEW c \in Calls, NEW reply \in {"found", "absent", "error"},
         Ends(c, reply), reply = "absent" => ~call[c].knew,
         UNCHANGED <<process, bucket, published, credit>>,
         CachedIsRecent',
         cache' \in [got : {"none", "found"}, age : 0..Ancient, left : 0..TTL]
  PROVE  IInv'
<1>. DEFINE next == Idle(reply, call[c].knew)
<1>1. call[c].knew \in BOOLEAN
  BY DEF IInv, TypeOK, CallTypes
<1>2. next \in CallTypes
  BY <1>1, IdleType
<1>3. /\ next.pc = "idle" /\ next.knew = call[c].knew /\ next.got = "none"
      /\ next.reply = reply
  BY DEF Idle
<1>4. Move(c, next) /\ (line' = line \/ (process = "runner" /\ Leave(c)))
  BY DEF Ends
<1>. HIDE DEF next
<1>. QED
  BY <1>2, <1>3, <1>4, EndInv

LEMMA AgainInv ==
  ASSUME IInv, NEW c \in Calls, At(c, "sent"), NEW delays \in SUBSET Nat,
         Again(c, delays), UNCHANGED <<process, bucket, cache, published, credit>>
  PROVE  IInv'
<1>1. CachedIsRecent' /\ cache' \in [got : {"none", "found"}, age : 0..Ancient, left : 0..TTL]
  BY DEF IInv, TypeOK, CachedIsRecent
<1>2. CASE Ends(c, "error")
  BY <1>1, <1>2, EndsInv
<1>3. CASE /\ call[c].try < MaxTries /\ UNCHANGED line
           /\ \E d \in delays : Move(c, [call[c] EXCEPT !.pc = "back", !.left = d,
                                                   !.got = "none", !.age = 0])
  <2>1. PICK d \in delays :
          Move(c, [call[c] EXCEPT !.pc = "back", !.left = d, !.got = "none", !.age = 0])
    BY <1>3
  <2>. DEFINE next == [call[c] EXCEPT !.pc = "back", !.left = d, !.got = "none", !.age = 0]
  <2>2. call[c] \in CallTypes
    BY DEF IInv, TypeOK
  <2>3. next \in CallTypes
    <3>1. d \in Nat /\ 0 \in 0..Ancient
      BY DEF Ancient
    <3>. QED
      BY <2>2, <3>1 DEF CallTypes
  <2>4. /\ next.pc = "back" /\ next.try = call[c].try /\ next.got = "none"
        /\ next.reply = call[c].reply /\ next.knew = call[c].knew
    BY <2>2 DEF CallTypes
  <2>5. Move(c, next)
    BY <2>1
  <2>. HIDE DEF next
  <2>6. next.try \in 1..(MaxTries - 1)
    BY <1>3, <2>4 DEF IInv, Tried
  <2>7. next.reply = "absent" => ~next.knew
    BY <2>4 DEF IInv, Known
  <2>. QED
    BY <1>1, <1>3, <2>3, <2>4, <2>5, <2>6, <2>7, EndInv
<1>. QED
  BY <1>2, <1>3 DEF Again

LEMMA ReceiveInv ==
  ASSUME IInv, NEW c \in Calls, Receive(c) \/ Fails(c)
  PROVE  IInv'
<1>1. At(c, "sent") /\ UNCHANGED <<process, bucket, published, credit>>
  BY DEF Receive, Fails
<1>2. call[c] \in CallTypes /\ call[c].try \in Nat \ {0} /\ call[c].left \in 0..Timeout
  BY <1>1 DEF IInv, TypeOK, Tried
<1>3. {Backoff(call[c].try)} \in SUBSET Nat
  BY <1>2, BackoffType
<1>4. CASE UNCHANGED cache /\ \E delays \in SUBSET Nat : Again(c, delays)
  BY <1>1, <1>4, AgainInv
<1>5. CASE UNCHANGED cache /\ Ends(c, "error")
  <2>1. CachedIsRecent' /\ cache' \in [got : {"none", "found"}, age : 0..Ancient, left : 0..TTL]
    BY <1>5 DEF IInv, TypeOK, CachedIsRecent
  <2>. QED
    BY <1>1, <1>5, <2>1, EndsInv
<1>6. CASE call[c].got \in {"found", "absent"} /\ Ends(c, call[c].got) /\ Keeps(c)
  <2>1. call[c].got = "absent" => ~call[c].knew
    BY DEF IInv, Known
  <2>2. CachedIsRecent' /\ cache' \in [got : {"none", "found"}, age : 0..Ancient, left : 0..TTL]
    <3>1. CASE cache' = cache
      BY <3>1 DEF IInv, TypeOK, CachedIsRecent
    <3>2. CASE call[c].got = "found" /\ cache' = Kept(c)
      <4>1. call[c].age \in 0..Ancient /\ call[c].age <= Timeout - call[c].left + 1
        BY <1>1, <1>2, <3>2 DEF IInv, Recent, CallTypes
      <4>2. Kept(c) = [got |-> "found", age |-> call[c].age, left |-> TTL]
        BY <3>2 DEF Kept
      <4>3. TTL \in 0..TTL
        OBVIOUS
      <4>. QED
        BY <1>2, <3>2, <4>1, <4>2, <4>3 DEF CachedIsRecent
    <3>. QED
      BY <1>6, <3>1, <3>2 DEF Keeps
  <2>. QED
    BY <1>1, <1>6, <2>1, <2>2, EndsInv
<1>7. CASE Receive(c)
  <2>1. CASE call[c].got = "429" /\ UNCHANGED cache
             /\ Again(c, RetryAfters \cup {Backoff(call[c].try)})
    <3>1. RetryAfters \cup {Backoff(call[c].try)} \in SUBSET Nat
      BY <1>3
    <3>. QED
      BY <1>4, <2>1, <3>1
  <2>2. CASE Again(c, {Backoff(call[c].try)}) /\ UNCHANGED cache
    BY <1>3, <1>4, <2>2
  <2>. QED
    BY <1>5, <1>6, <1>7, <2>1, <2>2 DEF Receive
<1>8. CASE Fails(c)
  BY <1>3, <1>4, <1>8 DEF Fails
<1>. QED
  BY <1>7, <1>8
LEMMA PublishInv ==
  ASSUME IInv, Publish
  PROVE  IInv'
<1>1. /\ call \in [Calls -> CallTypes]
      /\ cache \in [got : {"none", "found"}, age : 0..Ancient, left : 0..TTL]
  BY DEF IInv, TypeOK
<1>2. \A a \in 0..Ancient : Outdated(a) \in 0..Ancient /\ (Outdated(a) = a \/ Outdated(a) = 1)
  BY DEF Outdated, Ancient
<1>3. \A c \in Calls : call'[c] = IF call[c].got = "found"
                               THEN [call[c] EXCEPT !.age = Outdated(@)] ELSE call[c]
  BY DEF Publish
<1>4. \A c \in Calls :
        /\ call'[c] \in CallTypes
        /\ call'[c].pc = call[c].pc /\ call'[c].try = call[c].try
        /\ call'[c].left = call[c].left /\ call'[c].got = call[c].got
        /\ call'[c].reply = call[c].reply /\ call'[c].knew = call[c].knew
        /\ IF call[c].got = "found" THEN call'[c].age = call[c].age \/ call'[c].age = 1
                                    ELSE call'[c].age = call[c].age
  <2>1. TAKE c \in Calls
  <2>2. call[c] \in CallTypes /\ call[c].age \in 0..Ancient
    BY <1>1 DEF CallTypes
  <2>3. Outdated(call[c].age) \in 0..Ancient
        /\ (Outdated(call[c].age) = call[c].age \/ Outdated(call[c].age) = 1)
    BY <1>2, <2>2
  <2>4. CASE call[c].got = "found"
    <3>1. call'[c] = [call[c] EXCEPT !.age = Outdated(call[c].age)]
      BY <1>3, <2>4
    <3>. QED
      BY <2>2, <2>3, <2>4, <3>1 DEF CallTypes
  <2>5. CASE call[c].got # "found"
    BY <1>3, <2>2, <2>5
  <2>. QED
    BY <2>4, <2>5
<1>5. call' \in [Calls -> CallTypes]
  <2>1. call' = [c \in Calls |-> call'[c]]
    BY DEF Publish
  <2>. QED
    BY <1>4, <2>1
<1>6. /\ cache' \in [got : {"none", "found"}, age : 0..Ancient, left : 0..TTL]
      /\ cache'.left = cache.left
      /\ cache'.age = cache.age \/ cache'.age = 1
  <2>1. Outdated(cache.age) \in 0..Ancient
        /\ (Outdated(cache.age) = cache.age \/ Outdated(cache.age) = 1)
    BY <1>1, <1>2
  <2>2. cache' = cache \/ cache' = [cache EXCEPT !.age = Outdated(cache.age)]
    BY DEF Publish
  <2>. QED
    BY <1>1, <2>1, <2>2
<1>7. UNCHANGED <<process, bucket, line, credit>> /\ published' = TRUE
  BY DEF Publish
<1>8. TypeOK'
  BY <1>5, <1>6, <1>7 DEF IInv, TypeOK, bucket
<1>9. CachedIsRecent'
  <2>1. cache.left \in 0..TTL /\ cache.age \in 0..Ancient
    BY <1>1
  <2>. QED
    BY <1>6, <2>1 DEF IInv, CachedIsRecent
<1>10. Recent'
  <2>1. SUFFICES ASSUME NEW c \in Calls, At(c, "sent")'
                 PROVE  IF call'[c].got = "found"
                        THEN call'[c].age <= Timeout - call'[c].left + 1
                        ELSE call'[c].age = 0
    BY DEF Recent
  <2>2. At(c, "sent") /\ call[c].left \in 0..Timeout
    BY <1>4, <2>1 DEF At, IInv, Tried
  <2>3. IF call[c].got = "found" THEN call[c].age <= Timeout - call[c].left + 1
                                 ELSE call[c].age = 0
    BY <2>2 DEF IInv, Recent
  <2>. QED
    BY <1>4, <2>2, <2>3
<1>11. Tried' /\ Locked' /\ Known'
  BY <1>4, <1>7 DEF IInv, Tried, Locked, Known, At
<1>12. Accounts'
  BY <1>4, <1>7 DEF IInv, Accounts, At, bucket
<1>. QED
  BY <1>8, <1>9, <1>10, <1>11, <1>12 DEF IInv

LEMMA TickInv ==
  ASSUME IInv, Tick
  PROVE  IInv'
<1>1. /\ call \in [Calls -> CallTypes]
      /\ cache \in [got : {"none", "found"}, age : 0..Ancient, left : 0..TTL]
  BY DEF IInv, TypeOK
<1>2. \A a \in 0..Ancient :
        Older(a) \in 0..Ancient /\ Older(a) <= a + 1 /\ (a = 0 => Older(a) = 0)
  BY DEF Older, Ancient, Least
<1>3. \A n \in Nat : Most(n - 1, 0) \in Nat /\ Most(n - 1, 0) <= n
                      /\ Most(n - 1, 0) >= n - 1 /\ (n > 0 => Most(n - 1, 0) = n - 1)
  BY DEF Most
<1>4. \A c \in Calls :
        /\ call'[c] \in CallTypes
        /\ call'[c].pc = call[c].pc /\ call'[c].try = call[c].try
        /\ call'[c].left = Most(call[c].left - 1, 0) /\ call'[c].got = call[c].got
        /\ call'[c].reply = call[c].reply /\ call'[c].knew = call[c].knew
        /\ call'[c].age = Older(call[c].age)
  <2>1. TAKE c \in Calls
  <2>2. call[c] \in CallTypes /\ call[c].age \in 0..Ancient /\ call[c].left \in Nat
    BY <1>1 DEF CallTypes
  <2>3. call'[c] = [call[c] EXCEPT !.left = Most(call[c].left - 1, 0),
                                   !.age = Older(call[c].age)]
    BY <2>2 DEF Tick
  <2>4. Most(call[c].left - 1, 0) \in Nat /\ Older(call[c].age) \in 0..Ancient
    BY <1>2, <1>3, <2>2
  <2>. QED
    BY <2>2, <2>3, <2>4 DEF CallTypes
<1>5. call' \in [Calls -> CallTypes]
  <2>1. call' = [c \in Calls |-> call'[c]]
    BY DEF Tick
  <2>. QED
    BY <1>4, <2>1
<1>6. /\ cache' \in [got : {"none", "found"}, age : 0..Ancient, left : 0..TTL]
      /\ CachedIsRecent'
  <2>1. cache.left \in 0..TTL /\ cache.age \in 0..Ancient
    BY <1>1
  <2>2. Older(cache.age) \in 0..Ancient /\ Older(cache.age) <= cache.age + 1
    BY <1>2, <2>1
  <2>3. CASE cache.left > 1 /\ cache' = [cache EXCEPT !.age = Older(cache.age),
                                                    !.left = cache.left - 1]
    <3>1. cache.age <= TTL - cache.left + Timeout + 1
      BY <2>1, <2>3 DEF IInv, CachedIsRecent
    <3>2. cache.left - 1 \in 0..TTL
      BY <2>1, <2>3
    <3>3. cache'.age = Older(cache.age) /\ cache'.left = cache.left - 1
          /\ cache' \in [got : {"none", "found"}, age : 0..Ancient, left : 0..TTL]
      BY <1>1, <2>2, <2>3, <3>2
    <3>. QED
      BY <2>1, <2>2, <3>1, <3>3 DEF CachedIsRecent
  <2>4. CASE cache' = NotCached
    BY <2>4 DEF NotCached, CachedIsRecent, Ancient
  <2>. QED
    BY <2>3, <2>4 DEF Tick
<1>7. /\ UNCHANGED <<process, period, tokens, line, published>>
      /\ since' = Least(since + 1, Second - tokens)
      /\ credit' = Least(Most(Second, period), credit + 1)
  BY DEF Tick
<1>8. /\ period \in Nat \ {0} /\ tokens \in -period..Second /\ since \in 0..(Second - tokens)
      /\ credit \in Int /\ credit >= 0 /\ credit >= tokens + since
  BY DEF IInv, TypeOK, Accounts
<1>9. /\ since' \in 0..(Second - tokens) /\ credit' \in Int
      /\ credit' >= 0 /\ credit' >= tokens + since'
      /\ credit' = credit + 1 \/ credit' >= period
      /\ since' = since + 1 \/ tokens + since' = Second
  BY <1>7, <1>8 DEF Least, Most
<1>10. TypeOK'
  BY <1>5, <1>6, <1>7, <1>9 DEF IInv, TypeOK
<1>11. Tried' /\ Recent'
  <2>1. SUFFICES ASSUME NEW c \in Calls
                 PROVE  /\ At(c, "sent")' => call'[c].try \in 1..MaxTries /\ call'[c].left \in 0..Timeout
                        /\ At(c, "back")' => call'[c].try \in 1..(MaxTries - 1)
                        /\ At(c, "sent")' =>
                             IF call'[c].got = "found"
                             THEN call'[c].age <= Timeout - call'[c].left + 1
                             ELSE call'[c].age = 0
    BY DEF Tried, Recent
  <2>2. /\ call[c].left \in Nat /\ call[c].age \in 0..Ancient
        /\ At(c, "sent")' <=> At(c, "sent")
        /\ At(c, "back")' <=> At(c, "back")
    BY <1>1, <1>4 DEF CallTypes, At
  <2>3. CASE At(c, "sent")
    <3>1. call[c].left > 0 /\ call[c].left \in 0..Timeout /\ call[c].try \in 1..MaxTries
      BY <2>3 DEF Tick, IInv, Tried
    <3>2. call'[c].left = call[c].left - 1 /\ call'[c].left \in 0..Timeout
      BY <1>3, <1>4, <2>2, <3>1
    <3>3. IF call[c].got = "found" THEN call[c].age <= Timeout - call[c].left + 1
                                   ELSE call[c].age = 0
      BY <2>3 DEF IInv, Recent
    <3>4. /\ call'[c].age \in 0..Ancient /\ call'[c].age <= call[c].age + 1
          /\ call[c].age = 0 => call'[c].age = 0
      BY <1>2, <1>4, <2>2
    <3>5. call'[c].pc = "sent" /\ call'[c].got = call[c].got /\ call'[c].try = call[c].try
      BY <1>4, <2>3 DEF At
    <3>6. IF call'[c].got = "found" THEN call'[c].age <= Timeout - call'[c].left + 1
                                    ELSE call'[c].age = 0
      BY <2>2, <3>1, <3>2, <3>3, <3>4, <3>5
    <3>. QED
      BY <3>1, <3>2, <3>5, <3>6 DEF At
  <2>4. CASE ~At(c, "sent")
    BY <1>4, <2>2, <2>4 DEF IInv, Tried
  <2>. QED
    BY <2>3, <2>4
<1>12. Locked' /\ Known'
  BY <1>4, <1>7 DEF IInv, Locked, Known, At
<1>13. Accounts'
  <2>1. SUFFICES ASSUME NEW c \in Calls, At(c, "short")'
                 PROVE  /\ credit' + call'[c].left >= period
                        /\ tokens + since' + call'[c].left >= Least(period, Second)
    BY <1>7, <1>9 DEF Accounts
  <2>2. At(c, "short") /\ call[c].left \in Nat
    BY <1>1, <1>4, <2>1 DEF At, CallTypes
  <2>3. /\ credit + call[c].left >= period
        /\ tokens + since + call[c].left >= Least(period, Second)
    BY <2>2 DEF IInv, Accounts
  <2>4. call'[c].left \in Nat /\ call'[c].left >= call[c].left - 1
    BY <1>3, <1>4, <2>2
  <2>5. credit' + call'[c].left >= period
    <3>1. CASE credit' = credit + 1
      BY <1>8, <2>2, <2>3, <2>4, <3>1
    <3>2. CASE credit' >= period
      BY <1>8, <1>9, <2>4, <3>2
    <3>. QED
      BY <1>9, <3>1, <3>2
  <2>6. tokens + since' + call'[c].left >= Least(period, Second)
    <3>1. CASE since' = since + 1
      BY <1>8, <2>2, <2>3, <2>4, <3>1 DEF Least
    <3>2. CASE tokens + since' = Second
      BY <1>8, <1>9, <2>4, <3>2 DEF Least
    <3>. QED
      BY <1>9, <3>1, <3>2
  <2>. QED
    BY <2>5, <2>6
<1>. QED
  BY <1>6, <1>10, <1>11, <1>12, <1>13 DEF IInv

LEMMA NextInv == IInv /\ [Next]_vars => IInv'
<1>. SUFFICES ASSUME IInv, [Next]_vars PROVE IInv'
  OBVIOUS
<1>1. CASE Next
  <2>1. ASSUME NEW c \in Calls, Begin(c) \/ Serve(c) \/ Step(c)
        PROVE  IInv'
    BY <2>1, BeginInv, ServeInv, AcquireInv, WakeInv, DownloadInv, ReceiveInv DEF Step
  <2>. QED
    BY <1>1, <2>1, PublishInv, TickInv DEF Next
<1>2. CASE UNCHANGED vars
  BY <1>2 DEF vars, bucket, IInv, TypeOK, Tried, Locked, Accounts, CachedIsRecent, Recent,
              Known, At
<1>. QED
  BY <1>1, <1>2

LEMMA Invariance == Spec => []IInv
<1>. QED
  BY InitInv, NextInv, PTL DEF Spec

-------------------------------------------------------------------------------
(* The theorems.                                                             *)

\* The bucket, the line of those who wait, the cache and every call are
\* well-formed, and a bucket in debt owes no more than a token.
THEOREM TypeCorrect == Spec => []TypeOK
<1>1. IInv => TypeOK
  BY DEF IInv
<1>. QED
  BY <1>1, Invariance, PTL

\* acquire (rate_limiter.py, lines 16-34): no more calls pass than the bucket
\* starts with and earns, however many callers and whatever the rate, one below
\* a token a second included.
THEOREM RateKept == Spec => []RateIsKept
<1>1. IInv => RateIsKept
  BY DEF IInv, Accounts, RateIsKept
<1>. QED
  BY <1>1, Invariance, PTL

\* A version lookup (crates_api.py, lines 71-196) never tells of an absence that
\* ended before it began, and the cache (cache.py) keeps nothing that has been
\* outdated for longer than it lives and an attempt lasts.
THEOREM AnswersRecent == Spec => []AnswersAreRecent
<1>1. IInv => AnswersAreRecent
  BY DEF IInv, Known, NotFoundIsCurrent, AnswersAreRecent
<1>. QED
  BY <1>1, Invariance, PTL
===============================================================================
