------------------------------ MODULE CratesAccess ------------------------------
(***************************************************************************)
(* Calls to crates.io: the server looks versions up through CratesAPI      *)
(* (backend/runner/crates_api.py) behind one TTLCache (cache.py) and one   *)
(* AsyncTokenBucket (rate_limiter.py) that all its requests share; the     *)
(* runner downloads crates through CrateDownloader (crate_downloader.py)   *)
(* behind a semaphore.  Both retry by the same loop.                       *)
(*                                                                         *)
(* All calls are about one crate: the cache has an entry per url, and what *)
(* the callers share besides is the same for every url.  Time passes in    *)
(* ticks; tokens are counted in the ticks that earn them.                  *)
(***************************************************************************)
EXTENDS Integers, Sequences, SequencesExt

CONSTANTS
  Calls,        \* concurrent callers
  Second,       \* ticks of a second; a bucket holds what a second earns
  Periods,      \* ticks that earn a token: Second / rate
  TTL,          \* ticks a cached answer lives
  Timeout,      \* ticks httpx waits for an answer
  RetryAfters,  \* what a 429 may ask for, in ticks
  MaxTries,     \* MAX_RETRIES
  Slots         \* max_concurrent_downloads

ASSUME CratesAssumption ==
  /\ Second \in Nat \ {0} /\ Periods \subseteq Nat \ {0}
  /\ TTL \in Nat \ {0} /\ Timeout \in Nat \ {0} /\ RetryAfters \subseteq Nat
  /\ MaxTries \in Nat \ {0} /\ Slots \in Nat \ {0}

VARIABLES
  process,    \* whose calls these are: "server" or "runner"
  period,     \* 1 / rate
  tokens,     \* _tokens
  since,      \* ticks since _last_update, as far as they count
  line,       \* who waits for, or holds, the bucket's lock or the semaphore
  cache,      \* the cached answer and the ticks it has left
  call,       \* the calls
  published,  \* the crate is on crates.io
  credit      \* ghost: a bucket filled tick by tick

bucket == <<period, tokens, since>>
vars == <<process, bucket, line, cache, call, published, credit>>

Least(a, b) == IF a < b THEN a ELSE b
Most(a, b) == IF a < b THEN b ELSE a

\* An answer's age counts the ticks since crates.io would answer otherwise: 0
\* while it would not, 1 when it just began to.  More than Ancient is all one.
Ancient == TTL + Timeout + 2
Older(age) == IF age = 0 THEN 0 ELSE Least(age + 1, Ancient)
Outdated(age) == IF age = 0 THEN 1 ELSE age

NotCached == [got |-> "none", age |-> 0, left |-> 0]
\* reply: what the last call came to.  knew: ghost, the crate was published
\* when the call began.
Idle(reply, knew) == [pc |-> "idle", try |-> 0, left |-> 0, got |-> "none",
                      age |-> 0, reply |-> reply, knew |-> knew]
Queued(knew) == [Idle("none", knew) EXCEPT !.pc = "queued"]

Init ==
  /\ process \in {"server", "runner"}
  /\ period \in Periods /\ tokens = Second /\ since = 0
  /\ line = << >> /\ cache = NotCached
  /\ call = [c \in Calls |-> Idle("none", FALSE)]
  /\ published \in BOOLEAN
  /\ credit = Most(Second, period)

At(c, pc) == call[c].pc = pc
Move(c, next) == call' = [call EXCEPT ![c] = next]
Leave(c) == \E i \in 1..Len(line) : line[i] = c /\ line' = RemoveAt(line, i)

\* The lock admits one caller and the semaphore Slots of them, in the order of
\* arrival.
Admitted(c) ==
  \E i \in 1..Least(Len(line), IF process = "server" THEN 1 ELSE Slots) :
    line[i] = c

(* A call begins: the server's cache, then the bucket; the runner's semaphore. *)

\* Fault: an answer lives on as long as it is asked for.
BeginRenewing(c) ==
  /\ At(c, "idle")
  /\ \/ /\ process = "server" /\ cache.left > 0
        /\ Move(c, Idle(cache.got, published))
        /\ cache' = [cache EXCEPT !.left = TTL] /\ UNCHANGED line
     \/ /\ process = "runner" \/ cache.left = 0
        /\ Move(c, Queued(published))
        /\ line' = Append(line, c) /\ UNCHANGED cache
  /\ UNCHANGED <<process, bucket, published, credit>>

Begin(c) ==
  /\ At(c, "idle")
  /\ \/ /\ process = "server" /\ cache.left > 0
        /\ Move(c, Idle(cache.got, published))
        /\ UNCHANGED line
     \/ /\ process = "runner" \/ cache.left = 0
        /\ Move(c, Queued(published))
        /\ line' = Append(line, c)
  /\ UNCHANGED <<process, bucket, cache, published, credit>>

Send(c, n) ==
  Move(c, [call[c] EXCEPT !.pc = "sent", !.try = n, !.left = Timeout,
                          !.got = "none", !.age = 0])

\* What the bucket holds now.
Refilled == Least(Second, tokens + since)

\* The lock is released and the first request sent.
Grant(c) ==
  /\ tokens' = Refilled - period /\ since' = 0
  /\ credit' = credit - period
  /\ line' = Tail(line) /\ Send(c, 1)
  /\ UNCHANGED <<process, period, cache, published>>

\* acquire: with less than a token, sleep with the lock held.
Acquire(c) ==
  /\ process = "server" /\ At(c, "queued") /\ Admitted(c)
  /\ \/ Refilled >= period /\ Grant(c)
     \/ /\ Refilled < period
        /\ tokens' = Refilled /\ since' = 0
        /\ Move(c, [call[c] EXCEPT !.pc = "short", !.left = period - Refilled])
        /\ UNCHANGED <<process, period, line, cache, published, credit>>

\* Fault: the ticks of the sleep count again for the next caller.
WakeTwiceRefilled(c) ==
  /\ At(c, "short") /\ call[c].left = 0
  /\ tokens' = Refilled - period /\ UNCHANGED since
  /\ credit' = credit - period
  /\ line' = Tail(line) /\ Send(c, 1)
  /\ UNCHANGED <<process, period, cache, published>>

Wake(c) == At(c, "short") /\ call[c].left = 0 /\ Grant(c)

\* The semaphore is held through all attempts.
Download(c) ==
  /\ process = "runner" /\ At(c, "queued") /\ Admitted(c)
  /\ Send(c, 1)
  /\ UNCHANGED <<process, bucket, line, cache, published, credit>>

(* The attempts.                                                             *)

\* crates.io answers what is true, or 429, or fails, or refuses.
Serve(c) ==
  /\ At(c, "sent") /\ call[c].got = "none"
  /\ \E got \in {IF published THEN "found" ELSE "absent", "429", "5xx", "4xx"} :
       Move(c, [call[c] EXCEPT !.got = got])
  /\ UNCHANGED <<process, bucket, line, cache, published, credit>>

\* Fault: a failed call keeps its place.
EndsKeepingPlace(c, reply) ==
  /\ Move(c, Idle(reply, call[c].knew))
  /\ IF process = "runner" /\ reply # "error" THEN Leave(c) ELSE UNCHANGED line

Ends(c, reply) ==
  /\ Move(c, Idle(reply, call[c].knew))
  /\ IF process = "runner" THEN Leave(c) ELSE UNCHANGED line

Backoff(n) == Second * 2^(n - 1)

Again(c, delays) ==
  \/ /\ call[c].try < MaxTries /\ UNCHANGED line
     /\ \E d \in delays :
          Move(c, [call[c] EXCEPT !.pc = "back", !.left = d, !.got = "none", !.age = 0])
  \/ call[c].try = MaxTries /\ Ends(c, "error")

Kept(c) == [got |-> call[c].got, age |-> call[c].age, left |-> TTL]

\* A 404 is returned before the answer is kept.
Keeps(c) ==
  cache' = IF process = "server" /\ call[c].got = "found" THEN Kept(c) ELSE cache

Receive(c) ==
  /\ At(c, "sent")
  /\ LET got == call[c].got
     IN  \/ got \in {"found", "absent"} /\ Ends(c, got) /\ Keeps(c)
         \/ got = "4xx" /\ Ends(c, "error") /\ UNCHANGED cache
         \/ /\ got = "429" /\ UNCHANGED cache
            /\ Again(c, RetryAfters \cup {Backoff(call[c].try)})
         \/ got = "5xx" /\ Again(c, {Backoff(call[c].try)}) /\ UNCHANGED cache
  /\ UNCHANGED <<process, bucket, published, credit>>

\* No connection, or no answer in time.
Fails(c) ==
  /\ At(c, "sent")
  /\ Again(c, {Backoff(call[c].try)})
  /\ UNCHANGED <<process, bucket, cache, published, credit>>

\* A further attempt does not ask the bucket.
Retry(c) ==
  /\ At(c, "back") /\ call[c].left = 0
  /\ Send(c, call[c].try + 1)
  /\ UNCHANGED <<process, bucket, line, cache, published, credit>>

(* crates.io and time.                                                       *)

\* The crate appears, or a new version of it.
Publish ==
  /\ published' = TRUE
  /\ call' = [c \in Calls |-> IF call[c].got = "found"
                             THEN [call[c] EXCEPT !.age = Outdated(@)] ELSE call[c]]
  /\ cache' = IF cache.left > 0 THEN [cache EXCEPT !.age = Outdated(@)] ELSE cache
  /\ UNCHANGED <<process, bucket, line, credit>>

\* A sleep may last longer than asked for; an attempt ends within its timeout.
Tick ==
  /\ \A c \in Calls : At(c, "sent") => call[c].left > 0
  /\ call' = [c \in Calls |-> [call[c] EXCEPT !.left = Most(@ - 1, 0),
                                            !.age = Older(@)]]
  /\ since' = Least(since + 1, Second - tokens)
  /\ cache' = IF cache.left > 1
              THEN [cache EXCEPT !.age = Older(@), !.left = @ - 1]
              ELSE NotCached
  /\ credit' = Least(Most(Second, period), credit + 1)
  /\ UNCHANGED <<process, period, tokens, line, published>>

-------------------------------------------------------------------------------
Step(c) == Acquire(c) \/ Wake(c) \/ Download(c) \/ Receive(c) \/ Fails(c) \/ Retry(c)

Next == Publish \/ Tick \/ \E c \in Calls : Begin(c) \/ Serve(c) \/ Step(c)

Spec == Init /\ [][Next]_vars

(* Time goes on and the event loop serves every call that can go on.         *)
FairSpec == Spec /\ WF_vars(Tick) /\ \A c \in Calls : WF_vars(Step(c))

-------------------------------------------------------------------------------
(* Properties.                                                               *)

CallTypes == [pc : {"idle", "queued", "short", "sent", "back"}, try : 0..MaxTries,
              left : Nat, got : {"none", "found", "absent", "429", "5xx", "4xx"},
              age : 0..Ancient, reply : {"none", "found", "absent", "error"},
              knew : BOOLEAN]

TypeOK ==
  /\ process \in {"server", "runner"} /\ period \in Periods
  /\ tokens \in -period..Second /\ since \in 0..(Second - tokens)
  /\ line \in Seq(Calls) /\ published \in BOOLEAN /\ credit \in Int
  /\ cache \in [got : {"none", "found"}, age : 0..Ancient, left : 0..TTL]
  /\ call \in [Calls -> CallTypes]

\* In no stretch of time do more calls pass the bucket than it starts with and
\* earns meanwhile, whoever sleeps in it and however long: a bucket filled tick
\* by tick would never be in debt.
RateIsKept == credit >= 0

\* An answer in the cache is not outdated for longer than it lives there and
\* an attempt lasts, although an answer may be outdated when it arrives and
\* may replace a newer one.
CachedIsRecent == cache.left > 0 => cache.age <= TTL - cache.left + Timeout + 1

\* Who looks for a crate that was published is never told that there is none.
NotFoundIsCurrent ==
  \A c \in Calls : call[c].reply = "absent" => ~call[c].knew

\* What a version lookup tells is what crates.io said not long ago.
AnswersAreRecent == CachedIsRecent /\ NotFoundIsCurrent

\* Every call ends, whatever crates.io answers and whoever waits before it.
CallsEnd == \A c \in Calls : []<>At(c, "idle")
===============================================================================
