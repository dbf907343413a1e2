# A TLA+ model of CrateProbe

CrateProbe runs *tasks* (a container image, a command, a set of files) on Rust
crates. A control plane (FastAPI and SQLite) keeps the queue of jobs; runners on
other machines claim jobs, execute them in containers and report back over HTTP.
This directory holds TLA+ modules of that system, the TLC configurations that
check them and proofs that TLAPS checks. Paths below are relative to the
repository.

## 1. Inventory

| component | state | operations | what makes it correct |
|---|---|---|---|
| control plane: `backend/app/main.py`, `database.py` | the `jobs`, `runners` and `job_file_chunk_sequences` tables | create, claim, sync, push, cancel, retry, delete, priority (single and batch); create, enable, disable, delete a runner; heartbeat | one attempt at a time owns a job; late requests of others change nothing; a result is not lost or rolled back |
| scheduler: `backend/app/services/scheduler.py` | none beyond the tables | requeue expired leases, fail stale jobs, clean up on shutdown, recover orphans on startup, cancel | no job stays RUNNING with nobody at work |
| job files: `services/job_files.py` | a directory per job | append, overwrite, clear, artifacts | a job shows the output of its own attempt, in order and whole |
| task definitions: `main.py`, `services/task_store.py` | the `tasks` table, zips named by their sha256 | upload, update, delete, download | every definition has its zip; a job runs the definition it records |
| runner worker: `backend/runner/worker.py` | the in-flight executions, heartbeat and metrics loops | poll and claim, shut down | capacity; heartbeats go on while jobs run |
| executor: `runner/executor.py`, `client.py` | one execution per claimed job: `_SyncState`, a sync loop, a reporter | prepare, run, report, shut down | the result reaches the server, and is the execution's |
| task cache: `runner/task_cache.py` | a directory per task with a marker, a lock per task | ensure | a hit is a complete copy of the zip it names |
| reporter: `runner/reporter.py` | offset and next chunk number of each file | flush, stop | the log arrives, once and in order |
| docker runner: `runner/docker_runner.py` | one container per job | start, wait, time out, cancel, sync logs | no container outlives its job; the verdict is the container's |
| crates.io access: `runner/crates_api.py`, `crate_downloader.py`, `cache.py`, `rate_limiter.py` | a token bucket, a TTL cache, a semaphore | request with retries, download | calls pass at the configured rate; answers are recent; every call ends |
| websockets: `app/api/websocket.py`, `frontend/src/services/websocket.js`, the views | sets of connections; a socket and a shown job per page | subscribe, broadcast; connect, reconnect; fetch | a page shows the job as it is; no subscriber holds up a runner |
| metrics: `services/runner_metrics_store.py`, `system_monitor.py` | points per runner in memory | append, prune, read | bounded; within the window |
| migration: `database.py` `init_db` | the legacy schema and its log files | rebuild on start | no job and no log is lost, wherever a start is cut short |
| presentation, parser, configuration, security helpers, deployment | presentation, or none | | |

How they interact. A user creates a job from a task (`create_job` asks crates.io
for the version and snapshots the definition). A runner *claims* the first
pending job: in one transaction the job becomes RUNNING under a fresh lease
token, with the definition's current sha256, and its stored files are cleared.
The runner's executor fetches the zip through the cache, runs the container,
pushes logs in numbered chunks and *syncs* the state under increasing sequence
numbers, until a terminal sync is acknowledged; every push and sync carries the
lease token. Heartbeats extend the leases of all RUNNING jobs of a runner. The
scheduler, every five seconds, requeues jobs whose lease ran out and ends those
that were not synced for too long. A user may cancel, retry or delete a job at
any time without the runner hearing of it. A sync that was applied is broadcast
to the pages subscribed to the job and to the dashboard, before it is answered;
a page fetches the job again on each event. On its start the server migrates
what an older version left in its workspace.

What is hard here: requests that arrive late or twice, after the job was
requeued and claimed again, by the same runner too; replies that are lost after
the server acted; leases that live on heartbeats when nobody executes the job;
crashes between a commit and what should follow it; rows read before an `await`
and used after it; directories shared by concurrent jobs; threads that outlive the
coroutines that started them. The list, with a line
of the source for each, is `hazards` in `PROJECT.json`.

## 2. Modules

| module | models | state and actions |
|---|---|---|
| `JobLifecycle` | what the control plane promises of one job, independent of time, files and rows | `stage`, `holder`, `outcome`, `last`; `Claim`, `Report`, ... |
| `ControlPlane` | handlers, scheduler and tables of jobs, leases, runners | `job` is the table (a row is a record, with two ghost fields below), `reg` the runners, `authed` requests past `require_runner_auth`, `files` what is stored for a job, `grant` what claim responses handed out, `up` the process. One action per handler |
| `ControlPlaneProofs` | proofs about the three modules `JobLifecycle`, `ControlPlane`, `JobExecution` (section 5) | |
| `LogPush` | one append-mode log of one attempt: container, reporter, client, server | `len`, `gen` the file; `offset`, `nextSeq`, `phase`, `pc`, `size`, `chunk` the reporter; `net` requests; `last`, `stored` the server |
| `JobExecution` | workers and executors composed with `ControlPlane`, which it extends | adds `worker`, `run` (per lease: the execution, its `_SyncState` and its sync loop) and `net` |
| `TaskDelivery` | definitions, zips, the claim's snapshot, the runner's cache directories and the overlay | `task`, `stored`, `updating`, `creating`, `job`; `step`, `spec`, `listed`, `copied`, `dir`, `lock` |
| `ContainerRun` | `DockerRunner.run` for one container, and the shutdown of the runner process around it | `process`; `pc`, `result` of the coroutine; `start`, `answer`, `threads` the calls in the pool; `late` the cleanup of a late start; `container`, `code` the daemon |
| `JobFiles` | the other files of an attempt: one pushed whole again and again, and an artifact uploaded at its end | `work`, `phase`, `raised`, `local` the attempt; `call` its two callers of the retrying client; `net` requests; `stored`, `mine`, `big` the server |
| `LiveUpdates` | connection manager, endpoints, broadcasting sync handlers, the reconnecting service of a page and its views | `conns`, `task` (a handler in its loop over a set); `sock` both ends of each socket; `ws`, `url`, `connecting`, `timer` the service; `shown`, `asked`, `replies` the view |
| `Migration` | `init_db` on any workspace, among jobs and runners that use the same files | `pc`; `disk` the committed database, `tx` the one of the transaction; `zip`; `logs`, `files`; `claimed` the executors that have their log to open |
| `CratesAccess` | version lookups through cache and bucket, downloads through the semaphore, and their retries | `tokens`, `since`, `line`; `cache`; `call`; `published` |
| `TaskDeliveryProofs`, `ContainerRunProofs`, `JobFilesProofs`, `LogPushProofs`, `LiveUpdatesProofs`, `MigrationProofs`, `CratesProofs` | proofs (section 5) | |
| `MC...` | instances for TLC | |

Correspondence. A handler of the control plane is one action, as it runs without
an `await` between its statements; where it awaits in between, or where a
process may die between two commits, it is several actions: authentication runs in a
thread pool before the handler's body (`Authenticate`, then the handler with
`Serve`), `CrashInClaim` and `CrashInRetry` stop between the commit and the
clearing of files, `BeginUpdate`/`EndUpdate` and `BeginCreate`/`EndCreate` are
the parts of `update_task` and `create_job` around their awaits, `PushUnsaved`
and `CrashInPush` are the push whose chunk number is committed and whose content
is not. Time is abstract: a lease and a last sync age by ticks, up to `LeaseTTL`
and `MaxSync`, and a sleeping scheduler may be late by any time. In
`ControlPlane` a runner may send any request for any grant it ever got, as often
as it likes, which covers duplication, reordering and delay; `JobExecution`
restricts this to what the runner's code sends. In `ContainerRun` an action is
what the coroutine does from one `await` to the next, what one thread does for
it, or what `asyncio` does to it; a cancellation is an action for each place where it
may be delivered, and may be delivered twice, by `run_forever` and by
`asyncio.run`. In `LiveUpdates` a handler that iterates over a set of connections
stops at each `await send_json`, and whatever joins or leaves the set meanwhile
makes the next step of its loop raise, as Python's iterator does. In `Migration`
a statement of `init_db` is an action, and `Crash` may come between any two. The
two processes of `CratesAccess`, server and runner, differ in what they hold
before the first attempt; time passes in ticks, and a token is what `period`
ticks earn, so that rates below one per second are integers too.

Ghost state, which no action's other effects depend on: `outcome` of a row is the
lease under which the shown result was reported, and `files` holds leases instead
of bytes. In `TaskDelivery`, `changed` are the jobs whose task changed after the
claim, or whose download failed or came for a lost zip; `lost` the zips that an
update deleted although the definition it had read was replaced meanwhile; `half`
the tasks whose cache directory `rmtree` has begun to remove and no `rename` has
replaced; `undercut` the jobs that met such a directory, at their hit or while
they used it. `endedBy` and `refused` in `ContainerRun` record who ended the
container and which calls the daemon refused. In `JobFiles`, `seen` is the last
content a flush found, `cut` says that the wait for the reporter was cancelled,
`mild` and `spoiled` what has gone wrong beyond what a property covers, as do
`rough` in `LogPush` and `excused` in `LiveUpdates`. `born` in `Migration` is the
age at which a job was created, `knew` and `credit` in `CratesAccess` what a
caller could know and a bucket filled tick by tick. `files` and `logs` in
`Migration` hold the ages of the job they were written in.

Abstractions. Message texts, exit codes, crate names and byte contents are left
out; a zip is a value that stands for its content and its sha256; a log is an
interval of bytes of an incarnation of the file; the copying of logs in the
`finally` of `run` is a wait that may be cut short. SQLite transactions are atomic.
`Reported` is the set of terminal statuses a runner reports: the code treats all
of them alike, so the instances use one or two.

## 3. Runs

| run | instance | checks |
|---|---|---|
| `queue` | 2 jobs, 1 runner, 2 leases | `TypeOK`, `LeaseIdentifiesAttempt`, `SilentAttemptEnds` (liveness) |
| `fencing` | 1 job, 2 runners, 3 leases, 2 requests in flight | `RowsAgree`, `OutcomeOfCurrentLease`, `FilesOfCurrentLease`, `LeaseHistoryMovesOn`, `ImplementsLifecycle` (refinement) |
| `log_push` | 3 bytes, 3 tries, 3 faults of any kind | `TypeOK`, `StoredInOrder`, `AcknowledgedIsStored`, `LogArrives` (liveness) |
| `files` | 2 contents beside none, 3 tries, 4 faults of any kind | `UploadedIsStored`, `RecordedIsFinal`, `ResultFollows` (liveness) |
| `execution` | 1 lease, 4 sequence numbers, 2 tries, 2 faults of any kind | `SystemTypeOK`, `AckedIsRecorded`, `OutcomeIsTrue`, `ResultArrives` (liveness) |
| `delivery` | 2 task ids, 2 jobs, 2 zips, 2 updates, 2 slots, 1 fault of any kind | `TypeOK`, `ZipOfEveryDefinition`, `RunsItsDefinition`, `FailsForACause` |
| `delivery_shared` | 1 task, 2 jobs, 2 zips, 1 update, 2 slots, no fault | `SnapshotIsWhatRuns` is violated |
| `container` | 3 exit codes, 2 refused calls of any kind | `TypeOK`, `VerdictIsOwn`, `ReturnedIsRemoved`, `StartedIsStopped`, `ShutdownEnds` (liveness) |
| `live` | 2 sockets of the page, 1 other subscriber, 3 versions of the job, 3 changes and faults | `TypeOK`, `ViewIsFresh`, `SubscribedIsServed`, `GoesOn` (liveness) |
| `migration` | 2 ids, both given by the older version, 3 ages, 2 crashes, with and without a shared workspace | `TypeOK`, `StartsKeepAll`, `ServesAgain` (liveness) |
| `migration_shared` | 1 id, 3 ages, 2 crashes, a shared workspace | `FilesOfPriorAttemptsAreGone` is violated |
| `crates` | 2 callers, rates of 2, 1 and 1/2 tokens per second, 3 tries | `RateIsKept`, `AnswersAreRecent`, `CallsEnd` (liveness) |

Why the bounds are enough. An attempt meets at most its predecessor and its
successor, so three leases on one job, of two runners, show a late request
before, during and after a re-claim; two jobs are what the order of the queue,
the batch operations and the uniqueness of tokens need. Two sequence numbers give
old, equal and new. A log of three bytes can be stored in three chunks, or in
overlapping ones. With as many faults as tries a push or an upload may fail
altogether, and be repeated; four faults let an upload fail at both ends of its
retries and again in a request nobody awaits any more.
In `execution` there are as many faults as tries, and a server that is down, or a
runner that is barred, fails every try without spending one: a terminal sync may
fail altogether and be sent again under the next number. `MaxSeq` counts the
syncs of an attempt: one running and one terminal sync more than the faults can
spoil (`NumberLeft`: a sync that may fail without a fault is sent only while that
leaves a number for each fault to come and one more). Several attempts in one runner are left to
the theorems. Two task ids, two zips and two updates let an update overtake
another and delete a zip that another definition has taken over; two slots
let one job replace the directory that the other uses; one crash may come within
`rmtree`. The exit codes 0, 1 and 137 are told apart by the verdict,
others are not; each call of one container happens once or twice, so two refusals
reach each pair of them that matters. Two sockets
are one that is still connecting and the one that replaces it; a third would
repeat them. Three versions show a broadcast in progress when the next begins.
Three ages of a job are its creation, its attempt and what follows; two crashes
cut short a start and the start after it; two ids tell apart a job that the older
version left and one that it deleted, whose id is given again. In `crates` an answer outlives an attempt, a
back-off outlasts a token, and a bucket holds more, exactly, or less than one.
The delivery and the migration runs do not check for deadlock: their ids and ages
are finite, so they may really stop; all others do (the end of the log, or of
the process, is `Done`).

`SYMMETRY` (runners, zips) is used in runs without liveness only; no property
names an element of those sets.

Fairness. `queue`: the clock (`Tick`) and the scheduler loop (a loop without
conditions) are weakly fair; that a stopped server is started again is assumed of
its operator; nothing is assumed of runners or users. `log_push`: the reporter's
loop and the server are weakly fair, as timers and timeouts end each wait.
`execution`: each execution and each sync loop is weakly fair; that a request is
served or refused is strongly fair, because a server that stops and starts
disables it again and again; losses and outages are bounded by `MaxFaults`; a
stopped server is started again, while a barred runner need not be enabled. `container`: the
daemon answers each call, in the sense that a call is never refused by fairness
alone, and the event loop runs what is ready; a container need not end, and the
runner need not be interrupted. `files`: the reporter and the executor run on,
the client's timeouts end each wait, the server serves what reaches it; the
container need not end. `live`: the event loops of server and page run what is
ready; a subscriber that does not read is dropped by the pings of the server,
but only while a handler waits for it; a server that ended is started again;
nothing is assumed of users, jobs or faults, and a broken connection needs to
be noticed only where no fault is left to break it. `migration`: `init_db` runs on and
is started again. `crates`: time goes on and a call that can go on does; what
crates.io answers, if anything, is open.

### What the violated properties show

`migration_shared`. `docker-compose.yml` mounts one directory as the workspace of
the server and of the runner. The runner's executor keeps its log of a job in
`logs/{id}-runner.log`, which is the name the older server gave its log files;
every start of the server therefore moves the runners' logs into
`jobs/{id}/files/`, whether or not there is anything to migrate. A retry clears a
job's files, but not the log in `logs/`. In the run's history a job is claimed,
ends and is retried; the server dies; while it starts again the start finds the
log of the ended attempt and moves it, so that the job, queued again, shows it.
(The executor opens the log late in that history, which changes nothing: nobody
tells it that the job has ended.) The log of a running attempt is moved away under
its writer likewise.

`delivery_shared`. The design (`docs/superpowers/specs/2026-10-21-multi-task-jobs-design.md:132`)
has the snapshot a claim refreshes be the definition the job really ran with, and
says (`:121`) that an update leaves running jobs alone. `TaskCache.ensure` returns
the directory that all jobs of a task share, which the executor copies minutes
later, without its lock. In the run's history job 1 is claimed with `z1`, misses
and installs it; the definition is replaced by `z2`; job 2 is claimed with `z2`,
misses, and `rmtree` removes a file; job 1 copies the rest and is ready, with a
workspace that lacks the file. A workspace of two definitions comes about in the
same way. `RUNNER_MAX_JOBS` is 3 unless it is set.

### Behaviours of the code that no property forbids

The models contain these steps; the properties leave room for them, or except
them by name.

Logs and files. A chunk keeps its number when its push failed, but not its
content: the next flush (`reporter.py:118`) reads the file again to its new end.
If the failed push had in fact been stored, the server drops the longer chunk as
a duplicate and answers 200, and its tail is stored nowhere. Bytes written between `stat` and
`read` are pushed twice; a truncated log restarts at chunk 1, which the server
takes for a duplicate; a full disk or a crash between the chunk's commit and
`append_file` loses the chunk. A request of an upload that is served after its
client gave up, and whose write fails, removes the artifact that a repetition
had stored. A crash leaves a torn watched file until the next flush.

A watched file that the container empties or removes is skipped (`reporter.py:65`
and `:99`), and the server keeps its former content. An exception of the reporter
beyond the `OSError`s it catches, and a cancellation while `_shutdown_job` waits
for it (`executor.py:253`, `worker.py:229`), skip `set_terminal`: the result is
never reported. A table of the design of the reporter
(`docs/superpowers/specs/2026-04-19-runner-realtime-log-report-design.md:206`) says of a cancelled task that the `finally` sends its terminal
event. The sync loop of such an attempt goes on saying "running" as long as its process
lives, and so keeps the job.

Definitions. `update_task` reads the row, awaits the upload, and deletes the zip
of the row as read (`main.py:746`); with a second update of the task in between, and an
upload of the old content as another task, that zip is the other task's
(`ZipOfEveryDefinition` excuses the zips in `lost`, and only those). A runner that
dies in `rmtree` leaves a torn directory, perhaps with a valid marker, although
`task_cache.py:26` says that a crash never does; the next job takes it for a
hit. `RunsItsDefinition` and `FailsForACause` excuse the jobs that met a directory
between the beginning of `rmtree` and the `rename`, by a crash or beside another
job, and no others.

Executions. After 300 seconds without an acknowledgement an execution ends with
its result unreported (`RUNNER.md:73` says that the runner retries until
acknowledged; `ResultArrives` names the case). A disabled or deleted runner
cannot report, so its result does not arrive either. With a
capacity above one, a runner may execute the same job twice at once, in one
directory: the lease of the first execution has only to expire while it goes on. A run cancelled while its container is being started leaves a
callback that stops the container with `asyncio.to_thread`
(`docker_runner.py:326`); if the start returns only while `asyncio.run` joins
the threads of its pool, `to_thread` raises, and the container outlives the
runner. So does one whose wait failed, when a cancellation cuts the log sync
short, and one whose start was answered by nobody. A run that is cancelled in
the removal or the chown after its verdict is reported as interrupted. A runner
that is killed leaves its containers, and no code looks for them afterwards.

Pages. Claims, cancellations, retries and the reconcilers broadcast nothing. A
connection that joins or leaves a set during a broadcast makes the iterator
raise: the sync is applied, its runner gets a 500 and sends it again as one that
is no longer applied, and whoever the broadcast had not reached hears nothing. A
page that lost its connection is not told what it missed. An event's reply that
comes before the reply of the mount is dropped, and an older reply may overwrite
a newer one. Leaving a view while its socket is still connecting keeps the
handlers of that socket, so a page may hold two sockets, and get each event
twice, until they close. The comment at `websocket.js:78` promises `job_created`
and `job_completed` on the channel of a job; the server sends it `job_update` only.

Migration. The rebuild gives `jobs` a new place in `sqlite_sequence`: if the
older version had deleted the jobs of the highest ids, those ids are given again
(a queued job with such an id shows the log of the deleted one until it is
claimed; the instance has such ids, and no property forbids it). The
placeholder's zip is written in place: one that a crash tore is taken for
complete by every later start, and `ServesAgain` asks only that there is one. The placeholder's comment (`database.py:21`) says
it is never executed; pending jobs of the older version are claimed with it all
the same. The chunk numbers of the older version keep its names of the logs,
without `.log`. Deleting a job leaves its files.

crates.io. A call asks the bucket once; its further attempts do not, so with
failing answers there are up to three requests to a token, although the bucket
is there "to enforce a single process-wide rate limit" (`main.py:53`). Below one token per
second the bucket never holds a token: every call sleeps and leaves it in debt,
so that it is slower than configured. Concurrent
misses of one crate all ask, and the slowest answer is the one that is kept. The
timeouts of httpx are per operation (connect, read, write); `Timeout` bounds a
whole attempt, so an answer that trickles in is older than the model has it.

## 4. The properties

`ControlPlane`. `LeaseIdentifiesAttempt`: a token names one attempt of one job.
`RowsAgree`: the columns of a row agree in every state, so that a queued job has no
holder that could report for it, a RUNNING one has the columns without which the
reconcilers' `IS NOT NULL` tests would skip it for ever, and `finished_at` goes
with the status. `OutcomeOfCurrentLease`, `FilesOfCurrentLease`: what a job shows
was reported under the lease it holds, crashes between commit and clearing
included. `LeaseHistoryMovesOn`: sequence numbers
grow under a lease and a lease never comes back. `SilentAttemptEnds`: heartbeats
alone do not keep a job RUNNING. `ImplementsLifecycle`: under the refinement
mapping each step is one of `JobLifecycle` or changes nothing it sees.

`LogPush`. `StoredInOrder`: whatever fails, the stored log never runs backwards.
`AcknowledgedIsStored`: the reporter never sends again what was acknowledged, so
it had better be stored. `LogArrives`: after the job the whole log is there.

`JobExecution`. `AckedIsRecorded`: when the runner stops sending, the result is
recorded. `OutcomeIsTrue`: what is recorded is what the execution came to.
`ResultArrives`: a terminal status gets through, by a later sync if its first one
failed with all its tries, unless the process ended, the runner gave up or may not
report, or the job was taken from it.

`TaskDelivery`. `ZipOfEveryDefinition`: what a claim records can be fetched, and
no definition's deletion takes the zip of another. `RunsItsDefinition`: whatever
jobs do to a directory they share, the workspace is the definition in the row,
unless the job met the directory half removed. `FailsForACause`: the 404 and sha256 mismatch RUNNER.md
describes, the network, and the two causes above; no other failure.
`SnapshotIsWhatRuns`: the design's sentence, without exception; violated.

`ContainerRun`. `VerdictIsOwn`: the exit code of a container that was stopped is
never taken for its own. `ReturnedIsRemoved`: no container behind a run that
returned. `StartedIsStopped`: none behind a runner that ended, wherever it was
cancelled. `ShutdownEnds`: no thread of the pool keeps the runner from ending.

`JobFiles`. `UploadedIsStored`: an artifact the runner takes for uploaded is there,
whole, though the same upload may be served again later. `RecordedIsFinal`: a
job that is seen finished has its last files. `ResultFollows`: no file, however
it fares, keeps a result from being reported; an exception of the reporter or a
cancellation in the wait for it does.

`LiveUpdates`. `ViewIsFresh`: when nothing is under way any more, the page shows the
job as it is, unless one of the listed mishaps happened since it last did.
`SubscribedIsServed`: a channel's set keeps no connection that nobody serves.
`GoesOn`: syncs are answered however slowly subscribers read, and a page gets a
subscribed socket again.

`Migration`. `StartsKeepAll`: from any crash to the next service no job's status and no
line of a log changes. `FilesOfPriorAttemptsAreGone`: the comment in `retry_job`;
violated in a shared workspace. `ServesAgain`: in the end the server is up, with the new tables, a task for the
old jobs, and their logs moved.

`CratesAccess`. `RateIsKept`: in no stretch of time do more calls pass than the
bucket held and earned. `AnswersAreRecent`: a cached answer is outdated for no
longer than it lives and an attempt lasts, and nobody is told that a crate does
not exist that did when he asked. `CallsEnd`: every call ends, and gives back what it held.

Each property of a passing run is paired in `PROJECT.json` with a plausible bug (the operators marked
`Fault:` in the modules) under which TLC finds it violated.

## 5. Proofs

Every safety property the passing runs check, invariant or action property, and
the refinement are theorems: they hold for every value of the constants that the
modules' `ASSUME`s allow, with or without each kind of fault, and none has a
hypothesis besides. What the properties themselves except is in ghost variables
(`rough`, `mild`, `spoiled`, `raised`, `cut`, `excused`, `changed`, `lost`,
`undercut`), which section 2 explains; the excepted cases are steps of the models,
and section 3 describes them.

| module | proves |
|---|---|
| `ControlPlaneProofs` | the safety properties of `ControlPlane`; that it implements `JobLifecycle`; that `JobExecution` implements `ControlPlane`, and the invariants of `JobExecution` |
| `TaskDeliveryProofs`, `ContainerRunProofs`, `LiveUpdatesProofs`, `JobFilesProofs`, `LogPushProofs`, `MigrationProofs`, `CratesProofs` | the invariants, and the action property of `Migration`, of the module they are named for |

The type invariants of `JobFiles` and `CratesAccess`, and `WithinCapacity`, are
proved only.

The argument. None of the invariants is inductive alone: that a result belongs
to the current lease, say, needs that a lease named by a row was issued to this
very job, that a queued row names none, and that a grant's lease is unique. The
inductive invariant of `ControlPlaneProofs` is the conjunction of `TypeOK`, the
checked invariants and the facts that link rows, grants and issued leases. The
four step lemmas take the actions in groups (users, requests, scheduler, process
life) and show that each keeps each conjunct it can disturb; a row is only ever
changed by one of a few row operators (`ClaimedRow`, `SyncedRow`, `ResetRow`,
...), so most cases reduce to a lemma about one row. `Invariance` is the
inductive step in one theorem, and the temporal theorems follow by PTL. For the
action property and the refinement the same invariant is used in both states of
a step.

`JobExecution` extends `ControlPlane` with the runners. `SystemImplements` shows,
action by action, that a step of the composition is a step of `ControlPlane` (a
request the runner's code sends is one of those any runner may send there) or
leaves its variables alone, so all that is proved of `ControlPlane` holds of the
composition too, `IndInv` included. On top of it `SystemInv` relates three
things. An execution and its requests: each request in `net` was sent under a
number no later than the latest (`Sent`), only the latest is waited for
(`Awaits`), and of one attempt's requests those with a result are numbered after
those without (`TerminalLast`). A row and the execution of its lease
(`ReportOK`): the row's number is below the execution's next; if the row has an
outcome it is the execution's result; if not, no sync with a result was
acknowledged, and the row's number is below that of the result being sent. A row
and the requests (`Ahead`): while a row shows no result, every request that
carries one is ahead of the row's number. Hence a result cannot arrive as an
outdated sync and be acknowledged without being recorded, which is what could
falsify `AckedIsRecorded`. An execution that was dropped before its status was set
goes on sending "running" (`TerminalLast` covers it like any other), and a server
that goes down takes the requests under way with it, which only makes `net`
smaller.

In `TaskDelivery` the zips and the directories have an argument each. `StoreInv` adds
to `ZipOfEveryDefinition` that an id not given yet has no row. An update deletes
the zip of the row it read: if that is the row still, the zip is no other
definition's, as no two share one; if not, the zip goes into `lost`. `CacheInv`: a directory outside `half` is empty or whole,
all of one zip (`Whole`), whoever holds its lock, and what an execution outside
`undercut` has read of it, step by step, is of the definition of its claim
(`Prepared`). A step of `rmtree` puts the task into `half` and its users into
`undercut`, a hit on a directory in `half` the job, so no assumption on the number
of executions is needed, and a crash that leaves a task in `half` is covered until
the next `rename`. `RunsItsDefinition` is `Prepared` at its last step. `CauseInv`
says that the definition of an execution outside `changed` is still in the table,
so that its download finds the zip it expects unless that is lost.

For `ContainerRun` the invariants speak of the end of a run or of the process; the
inductive one says of each point before it who sees to the container: `Attended`
that a running container has a coroutine that waits for it, a thread that stops
it or a callback that will, `Untouched` that nobody stops a container while its
run waits for its exit, `Gone` that a run which went past the removal has
removed it.

In `LogPush` several contents may carry the same chunk number, but only one of
them can be stored: no request under way has a number beyond `last + 1`, so a stored chunk
closes the door to every other request with its number, and a chunk whose number
is still open starts where the reporter's offset is, which `stored` has not
passed (`Numbered`, `Pushing`, `Behind`). While only fewer messages are lost or
late than a push has tries (`Gentle`), the tries never run out before the faults
do, so every request of a push is the same. That a fresh name for a request
exists is the pigeonhole principle.

`JobFiles` has the same retries around two callers. `Calling` says that an awaited
request is the one its caller sent last, `Uploading` that every request of an
upload has the same content, `Flushing` that the last flush
comes after the container's end, unless the reporter raised, and `Mild` that with
fewer losses than tries the last flush finds the file at rest, what is stored is
what a flush found, and no request outlives its call: a late one could otherwise
put an older content in the place of the last.

In `LiveUpdates` a subscribed socket is one that an endpoint serves; the socket
that `Connect` hands out has none yet, which is `FreeIsUnserved`. That sizes of
sets are numbers needs that the sockets are finite.
`ViewIsFresh` is about a quiet page; `Fresh` says what holds before: unless a
mishap excuses it, the view shows the latest version, or something that will make
it do so is under way (`Told`: a fetch, a reply with the latest version, an
event), or the handler that broadcasts this version is still in its loop and has
reached no socket of the page that is attached. That the last alternative
survives each step needs that a handler was given served sockets only and that
those it failed to reach are closed (`TaskOK`), so that no socket becomes
attached behind it; and that replies and handlers know nothing of versions to
come (`NothingNew`).

In `Migration` the invariant says where the jobs are while the transaction moves
them: in `jobs`, renamed, then in `jobs_new`, then in `jobs` again, always those
of the committed table (`Moved`), which is what a commit may thus publish and
a crash forget.

In `CratesAccess` the invariant keeps accounts of a second bucket, filled tick
by tick (`Accounts`): the real one never holds more, and a caller asleep in it
sleeps at least until that one has a token; the lock makes it the only one
(`Locked`). An answer ages no faster than its attempt (`Recent`), and a caller
that began after the crate was published meets no 404 (`Known`).

Only model-checked: liveness (`SilentAttemptEnds`, `LogArrives`, `ResultFollows`,
`ResultArrives`, `ShutdownEnds`, `GoesOn`, `ServesAgain`, `CallsEnd`), since the
prover handles neither fairness nor ENABLED. The violated property of
`migration_shared` and that of `delivery_shared` are refuted by their runs.

## 6. Not modelled

Zip and path validation, the parser of `task.toml`, configuration, the admin
token, command lines and deployment: they keep no state a property could be
about. Read-only endpoints. UTF-8 sequences cut at the end of a chunk, whose halves the
reporter decodes to replacement characters: content is abstracted to intervals of bytes.
The cut of a large full-mode file to its tail. The image pull and the copying of
logs of the docker runner. The metrics store and the system monitor, charts in
memory on which nothing else depends. What the frontend shows beyond the job it
follows. Downloads cancelled by the end of the runner, which ends with them.

## 7. Plan

Done, in this order: `JobLifecycle` and `ControlPlane` with their runs; the
proofs about them; `LogPush`; `JobExecution`; `TaskDelivery`; `ContainerRun`
with its proofs; `LiveUpdates`, `Migration`, `JobFiles` and `CratesAccess` with
their proofs; the proofs about `LogPush`; that `JobExecution` implements
`ControlPlane`, and its invariants; the proofs about `TaskDelivery`;
`ViewIsFresh`.

What would come next: step lemmas for the liveness arguments, as far as they are
safety (that nothing but its own end disables what a fair step needs); an
abstract specification of delivery, a job that runs one of the definitions its
task ever had, which `TaskDelivery` would implement for any capacity and any
number of updates.
