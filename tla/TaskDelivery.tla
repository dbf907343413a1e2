----------------------------- MODULE TaskDelivery -----------------------------
(***************************************************************************)
(* How a task definition reaches the container: the tasks table and the    *)
(* zip files of the control plane (upload_task, update_task, delete_task   *)
(* in backend/app/main.py, TaskStore in backend/app/services), the         *)
(* snapshot a claim refreshes, and the runner's TaskCache                  *)
(* (backend/runner/task_cache.py) between its concurrent jobs.             *)
(*                                                                         *)
(* A zip is its content, and its sha256 stands for it.  Handlers run on    *)
(* one event loop: a handler is one action unless it awaits in between.    *)
(* update_task awaits the upload's chunks after it has read the row (those *)
(* of a body over 1 MiB, which Starlette spools to disk, really suspend),  *)
(* create_job awaits crates.io.  Job attempts are reduced to the claim and *)
(* the preparation of the workspace; ControlPlane has the rest.            *)
(***************************************************************************)
EXTENDS Naturals, FiniteSets

CONSTANTS
  MaxTasks,    \* bound: task ids the AUTOINCREMENT column hands out
  MaxJobs,     \* bound: jobs created
  Zips,        \* zip contents users upload
  NoZip,       \* no definition, no file, no marker
  MaxUpdates,  \* bound: update requests made
  Capacity,    \* RUNNER_MAX_JOBS of the runner
  MaxFaults,   \* bound: faults in a behaviour
  Faults       \* the faults that may happen

\* "network": a download fails.  "runner", "server": the process dies.
FaultKinds == {"network", "runner", "server"}

ASSUME DeliveryAssumption ==
  /\ MaxTasks \in Nat \ {0} /\ MaxJobs \in Nat \ {0}
  /\ MaxUpdates \in Nat /\ Capacity \in Nat \ {0} /\ MaxFaults \in Nat
  /\ NoZip \notin Zips /\ Faults \subseteq FaultKinds

Tasks == 1..MaxTasks
Jobs == 1..MaxJobs
Updates == 1..MaxUpdates

\* What a cache directory holds: the marker, task.toml and two other files.
Entries == {"marker", "toml", "a", "b"}

VARIABLES
  task,      \* the tasks table: task id -> sha256, NoZip without a row
  nextTask,  \* the next id of the AUTOINCREMENT column
  stored,    \* the zips in workspace/tasks
  updating,  \* update_task requests that await: [task, sha] as they read it
  nextUpdate,  \* the next update request
  creating,  \* a create_job request that awaits, likewise
  job,       \* the jobs table: [task, sha, status]
  nextJob,   \* the next job id
  step,      \* job -> how far its execution got
  spec,      \* job -> the definition its spec was loaded from
  listed,    \* job -> the files copytree has listed and not yet copied
  copied,    \* job -> file -> the definition it was copied from
  dir,       \* task id -> entry of its cache directory -> definition
  lock,      \* task id -> the job in the locked part of ensure, or 0
  changed,   \* ghost: jobs whose task changed since the claim, or whose
             \* download failed or came for a lost zip
  lost,      \* ghost: zips an update deleted although the definition it had
             \* read was replaced meanwhile
  half,      \* ghost: tasks whose cache directory rmtree has begun to remove
  undercut,  \* ghost: jobs that met such a directory, at their hit or later
  faults     \* faults so far

updates == <<updating, nextUpdate>>
backend == <<task, nextTask, stored, updates, creating, job, nextJob>>
runner == <<step, spec, listed, copied, dir, lock>>
ghosts == <<changed, lost, half, undercut>>
vars == <<backend, runner, ghosts, faults>>

NoRequest == [task |-> 0, sha |-> NoZip]
NoJob == [task |-> 0, sha |-> NoZip, status |-> "absent"]
EmptyDir == [e \in Entries |-> NoZip]
NothingCopied == [e \in {"a", "b"} |-> NoZip]

Executing == {j \in Jobs : step[j] \notin {"none", "ready", "failed"}}

Init ==
  /\ task = [t \in Tasks |-> NoZip] /\ nextTask = 1 /\ stored = {}
  /\ updating = [u \in Updates |-> NoRequest] /\ nextUpdate = 1
  /\ creating = NoRequest
  /\ job = [j \in Jobs |-> NoJob] /\ nextJob = 1
  /\ step = [j \in Jobs |-> "none"]
  /\ spec = [j \in Jobs |-> NoZip]
  /\ listed = [j \in Jobs |-> {}]
  /\ copied = [j \in Jobs |-> NothingCopied]
  /\ dir = [t \in Tasks |-> EmptyDir]
  /\ lock = [t \in Tasks |-> 0]
  /\ changed = {} /\ lost = {} /\ half = {} /\ undercut = {} /\ faults = 0

Fault(kind) ==
  /\ kind \in Faults /\ faults < MaxFaults
  /\ faults' = faults + 1

-------------------------------------------------------------------------------
(* Task definitions.                                                         *)

\* Fault: nobody asks whose zip this content is already.
OwnerOfNone(z) == {t \in Tasks : t = 0}

\* get_task_definition_by_sha256
OwnerOf(z) == {t \in Tasks : task[t] = z}

\* The executions that started from the definition t had at their claim.
Outdates(t) ==
  changed' = changed \cup {j \in Executing : job[j].task = t}

\* ingest_zip
Ingest(z) == stored' = stored \cup {z} /\ lost' = lost \ {z}

\* upload_task: ingest_zip, then the row unless the sha256 has one.
UploadTask(z) ==
  /\ Ingest(z)
  /\ IF OwnerOf(z) # {}
     THEN UNCHANGED <<task, nextTask>>
     ELSE /\ nextTask \in Tasks
          /\ task' = [task EXCEPT ![nextTask] = z]
          /\ nextTask' = nextTask + 1
  /\ UNCHANGED <<updates, creating, job, nextJob, runner, changed, half,
                 undercut, faults>>

\* update_task up to its await.
BeginUpdate(t) ==
  /\ nextUpdate \in Updates /\ task[t] # NoZip
  /\ updating' = [updating EXCEPT ![nextUpdate] = [task |-> t, sha |-> task[t]]]
  /\ nextUpdate' = nextUpdate + 1
  /\ UNCHANGED <<task, nextTask, stored, creating, job, nextJob, runner,
                 ghosts, faults>>

\* update_task after the await.  record is the row as it was read: the same
\* sha256 as then is no change, and its zip is the one deleted, whatever the
\* row says by now.
EndUpdate(u, z) ==
  LET record == updating[u]
      t == record.task
  IN  /\ record # NoRequest
      /\ updating' = [updating EXCEPT ![u] = NoRequest]
      /\ \/ /\ \/ z = record.sha
               \/ OwnerOf(z) \ {t} # {}                      \* 409
               \/ task[t] = NoZip                            \* 404
            /\ Ingest(z)
            /\ UNCHANGED <<task, changed>>
         \/ /\ z # record.sha /\ OwnerOf(z) \ {t} = {} /\ task[t] # NoZip
            /\ task' = [task EXCEPT ![t] = z]
            /\ stored' = (stored \cup {z}) \ {record.sha}
            /\ lost' = IF record.sha = task[t] THEN lost \ {z}
                       ELSE (lost \ {z}) \cup {record.sha}
            /\ Outdates(t)
      /\ UNCHANGED <<nextTask, nextUpdate, creating, job, nextJob, runner,
                     half, undercut, faults>>

\* delete_task
DeleteTask(t) ==
  /\ task[t] # NoZip
  /\ task' = [task EXCEPT ![t] = NoZip]
  /\ stored' = stored \ {task[t]}
  /\ Outdates(t)
  /\ UNCHANGED <<nextTask, updates, creating, job, nextJob, runner, lost,
                 half, undercut, faults>>

\* The server dies in one of these handlers after a zip was written or a row
\* committed, and before what follows.
ServerCrash ==
  /\ Fault("server")
  /\ updating' = [u \in Updates |-> NoRequest] /\ creating' = NoRequest
  /\ \/ \E z \in Zips : Ingest(z) /\ UNCHANGED <<task, changed>>
     \/ \E t \in Tasks : /\ task[t] # NoZip
                         /\ task' = [task EXCEPT ![t] = NoZip]
                         /\ Outdates(t) /\ UNCHANGED <<stored, lost>>
     \/ \E u \in Updates, z \in Zips :
          LET t == updating[u].task
          IN  /\ t # 0 /\ z # updating[u].sha
              /\ OwnerOf(z) \ {t} = {} /\ task[t] # NoZip
              /\ task' = [task EXCEPT ![t] = z]
              /\ Ingest(z)
              /\ Outdates(t)
  /\ UNCHANGED <<nextTask, nextUpdate, job, nextJob, runner, half, undercut>>

(* Jobs.                                                                     *)

\* create_job up to its await of crates.io, and after it.
BeginCreate(t) ==
  /\ creating = NoRequest /\ task[t] # NoZip
  /\ creating' = [task |-> t, sha |-> task[t]]
  /\ UNCHANGED <<task, nextTask, stored, updates, job, nextJob, runner,
                 ghosts, faults>>

EndCreate ==
  /\ creating # NoRequest /\ nextJob \in Jobs
  /\ job' = [job EXCEPT ![nextJob] = [task |-> creating.task,
                                      sha |-> creating.sha,
                                      status |-> "pending"]]
  /\ nextJob' = nextJob + 1
  /\ creating' = NoRequest
  /\ UNCHANGED <<task, nextTask, stored, updates, runner, ghosts, faults>>

\* The attempts of the jobs js are over: what they loaded and copied is of no
\* use to the next ones, which start afresh.
Forget(js) ==
  /\ step' = [j \in Jobs |-> IF j \in js THEN "none" ELSE step[j]]
  /\ spec' = [j \in Jobs |-> IF j \in js THEN NoZip ELSE spec[j]]
  /\ listed' = [j \in Jobs |-> IF j \in js THEN {} ELSE listed[j]]
  /\ copied' = [j \in Jobs |-> IF j \in js THEN NothingCopied ELSE copied[j]]
  /\ job' = [j \in Jobs |-> IF j \in js THEN [job[j] EXCEPT !.status = "pending"]
                            ELSE job[j]]

\* retry_job: refused once the definition is deleted.
RetryJob(j) ==
  /\ job[j].status = "ended" /\ task[job[j].task] # NoZip
  /\ Forget({j})
  /\ UNCHANGED <<task, nextTask, stored, updates, creating, nextJob, dir, lock,
                 ghosts, faults>>

\* Fault: the claim keeps the snapshot create_job took.
SnapshotAtCreation(j) == job[j].sha

\* Fault: the LEFT JOIN's NULL of a deleted definition is copied too.
SnapshotUnguarded(j) == task[job[j].task]

\* The snapshot a claim leaves: refreshed unless the definition is gone.
Snapshot(j) ==
  IF task[job[j].task] = NoZip THEN job[j].sha ELSE task[job[j].task]

\* claim_pending_job; the runner starts the execution.
ClaimJob(j) ==
  /\ job[j].status = "pending"
  /\ Cardinality(Executing) < Capacity
  /\ job' = [job EXCEPT ![j].status = "running", ![j].sha = Snapshot(j)]
  /\ step' = [step EXCEPT ![j] = "ensure"]
  /\ changed' = IF task[job[j].task] = NoZip THEN changed \cup {j}
                ELSE changed \ {j}
  /\ undercut' = undercut \ {j}
  /\ UNCHANGED <<task, nextTask, stored, updates, creating, nextJob, spec,
                 listed, copied, dir, lock, lost, half, faults>>

(* TaskCache.ensure and the overlay of the workspace, for one job.           *)

Dir(j) == dir[job[j].task]

\* Fault: a directory with any marker is a hit.
IsHitOfAny(j) == Dir(j)["marker"] # NoZip

IsHit(j) == Dir(j)["marker"] = job[j].sha

Fails(j) ==
  /\ step' = [step EXCEPT ![j] = "failed"]
  /\ job' = [job EXCEPT ![j].status = "ended"]

\* ensure returns and _load_task_spec reads task.toml, in one go.
LoadSpec(j, d) ==
  IF d["toml"] = NoZip
  THEN Fails(j) /\ UNCHANGED spec
  ELSE /\ step' = [step EXCEPT ![j] = "prepare"]
       /\ spec' = [spec EXCEPT ![j] = d["toml"]]
       /\ UNCHANGED job

\* A hit.
UseDir(j) ==
  /\ LoadSpec(j, Dir(j))
  /\ undercut' = IF job[j].task \in half THEN undercut \cup {j} ELSE undercut

\* The unlocked test.
Ensure(j) ==
  /\ step[j] = "ensure"
  /\ IF IsHit(j)
     THEN UseDir(j)
     ELSE step' = [step EXCEPT ![j] = "lock"] /\ UNCHANGED <<spec, job, undercut>>
  /\ UNCHANGED <<task, nextTask, stored, updates, creating, nextJob, listed,
                 copied, dir, lock, changed, lost, half, faults>>

\* The test under the lock of the task.
EnsureLocked(j) ==
  /\ step[j] = "lock" /\ lock[job[j].task] = 0
  /\ IF IsHit(j)
     THEN UseDir(j) /\ UNCHANGED lock
     ELSE /\ step' = [step EXCEPT ![j] = "download"]
          /\ lock' = [lock EXCEPT ![job[j].task] = j]
          /\ UNCHANGED <<spec, job, undercut>>
  /\ UNCHANGED <<task, nextTask, stored, updates, creating, nextJob, listed,
                 copied, dir, changed, lost, half, faults>>

\* _verify_sha256
Verified(j, z) == z = job[j].sha

\* download_runner_task_zip serves the definition's present zip, 404 without
\* one; the runner verifies it.
Download(j) ==
  LET z == task[job[j].task]
  IN  /\ step[j] = "download"
      /\ IF z \in stored /\ Verified(j, z)
         THEN /\ step' = [step EXCEPT ![j] = "install"]
              /\ UNCHANGED <<job, lock, changed>>
         ELSE /\ Fails(j) /\ lock' = [lock EXCEPT ![job[j].task] = 0]
              /\ changed' = IF z \in lost THEN changed \cup {j} ELSE changed
      /\ UNCHANGED <<task, nextTask, stored, updates, creating, nextJob, spec,
                     listed, copied, dir, lost, half, undercut, faults>>

DownloadFails(j) ==
  /\ step[j] = "download" /\ Fault("network")
  /\ Fails(j)
  /\ lock' = [lock EXCEPT ![job[j].task] = 0]
  /\ changed' = changed \cup {j}
  /\ UNCHANGED <<task, nextTask, stored, updates, creating, nextJob, spec,
                 listed, copied, dir, lost, half, undercut>>

\* The executions between their hit and the end of their copy.
UsersOf(t) == {j \in Jobs : job[j].task = t /\ step[j] \in {"prepare", "copy"}}

\* _install runs in a thread: rmtree removes entry after entry, in the order
\* of the directory, while the event loop goes on.
RemoveEntry(j, e) ==
  /\ step[j] = "install" /\ Dir(j)[e] # NoZip
  /\ dir' = [dir EXCEPT ![job[j].task][e] = NoZip]
  /\ half' = half \cup {job[j].task}
  /\ undercut' = undercut \cup UsersOf(job[j].task)
  /\ UNCHANGED <<backend, step, spec, listed, copied, lock, changed, lost, faults>>

\* rename, and the end of ensure: the lock is released and the spec is loaded.
Rename(j) ==
  LET t == job[j].task
      d == [e \in Entries |-> job[j].sha]
  IN  /\ step[j] = "install" /\ Dir(j) = EmptyDir
      /\ dir' = [dir EXCEPT ![t] = d]
      /\ lock' = [lock EXCEPT ![t] = 0]
      /\ LoadSpec(j, d)
      /\ half' = half \ {t}
      /\ UNCHANGED <<task, nextTask, stored, updates, creating, nextJob,
                     listed, copied, changed, lost, undercut, faults>>

\* _overlay_task_files runs in a thread too, minutes later: image and crate
\* come first.  copytree lists the directory, here with one copy, ...
ListFiles(j) ==
  LET present == {e \in {"a", "b"} : Dir(j)[e] # NoZip}
  IN  /\ step[j] = "prepare"
      /\ IF Dir(j) = EmptyDir
         THEN Fails(j) /\ UNCHANGED <<listed, copied>>
         ELSE /\ step' = [step EXCEPT ![j] = "copy"]
              /\ listed' = [listed EXCEPT ![j] = present \ {"a"}]
              /\ copied' = [copied EXCEPT ![j]["a"] = Dir(j)["a"]]
              /\ UNCHANGED job
      /\ UNCHANGED <<task, nextTask, stored, updates, creating, nextJob, spec,
                     dir, lock, ghosts, faults>>

\* ... and copies what it listed, by name: a file that is gone is an error.
CopyRest(j) ==
  /\ step[j] = "copy"
  /\ listed' = [listed EXCEPT ![j] = {}]
  /\ IF listed[j] # {} /\ Dir(j)["b"] = NoZip
     THEN Fails(j) /\ UNCHANGED copied
     ELSE /\ step' = [step EXCEPT ![j] = "ready"]
          /\ copied' = [copied EXCEPT ![j]["b"] = IF listed[j] = {} THEN NoZip
                                                  ELSE Dir(j)["b"]]
          /\ job' = [job EXCEPT ![j].status = "ended"]
  /\ UNCHANGED <<task, nextTask, stored, updates, creating, nextJob, spec,
                 dir, lock, ghosts, faults>>

\* The runner process dies and restarts, in the middle of rmtree too; its jobs
\* are queued again once their leases have expired.
RunnerCrash ==
  /\ Fault("runner")
  /\ Forget(Executing)
  /\ lock' = [t \in Tasks |-> 0]
  /\ UNCHANGED <<task, nextTask, stored, updates, creating, nextJob, dir, ghosts>>

-------------------------------------------------------------------------------
Administering ==
  \/ \E z \in Zips : UploadTask(z)
  \/ \E t \in Tasks : DeleteTask(t)
  \/ \E t \in Tasks : BeginUpdate(t)
  \/ \E u \in Updates, z \in Zips : EndUpdate(u, z)

Using ==
  \/ \E t \in Tasks : BeginCreate(t)
  \/ EndCreate
  \/ \E j \in Jobs : RetryJob(j) \/ ClaimJob(j)

Preparing(j) ==
  \/ Ensure(j) \/ EnsureLocked(j) \/ Download(j) \/ Rename(j)
  \/ \E e \in Entries : RemoveEntry(j, e)
  \/ ListFiles(j) \/ CopyRest(j)

Next ==
  \/ Administering
  \/ Using
  \/ \E j \in Jobs : Preparing(j) \/ DownloadFails(j)
  \/ ServerCrash
  \/ RunnerCrash

Spec == Init /\ [][Next]_vars

-------------------------------------------------------------------------------
(* Properties.                                                               *)

Steps == {"none", "ensure", "lock", "download", "install", "prepare", "copy",
          "ready", "failed"}
Requests == [task : Tasks \cup {0}, sha : Zips \cup {NoZip}]

TypeOK ==
  /\ task \in [Tasks -> Zips \cup {NoZip}]
  /\ nextTask \in 1..(MaxTasks + 1) /\ stored \subseteq Zips
  /\ updating \in [Updates -> Requests] /\ nextUpdate \in 1..(MaxUpdates + 1)
  /\ creating \in Requests
  /\ \A j \in Jobs : /\ job[j].task \in Tasks \cup {0}
                     /\ job[j].sha \in (IF job[j].status = "absent"
                                       THEN {NoZip} ELSE Zips)
                     /\ job[j].status \in {"absent", "pending", "running", "ended"}
  /\ nextJob \in 1..(MaxJobs + 1)
  /\ step \in [Jobs -> Steps] /\ spec \in [Jobs -> Zips \cup {NoZip}]
  /\ listed \in [Jobs -> SUBSET {"a", "b"}]
  /\ copied \in [Jobs -> [{"a", "b"} -> Zips \cup {NoZip}]]
  /\ dir \in [Tasks -> [Entries -> Zips \cup {NoZip}]]
  /\ lock \in [Tasks -> Jobs \cup {0}]
  /\ changed \subseteq Jobs /\ undercut \subseteq Jobs
  /\ lost \subseteq Zips /\ half \subseteq Tasks /\ faults \in 0..MaxFaults

\* Every definition in the table has its zip on disk, so claimed jobs can
\* fetch it, unless an update deleted it that had read an older definition of
\* its task; and no two definitions share a zip that the deletion of either
\* would take from the other.
ZipOfEveryDefinition ==
  /\ \A t \in Tasks : task[t] # NoZip => task[t] \in stored \cup lost
  /\ \A t, u \in Tasks : task[t] = task[u] /\ task[t] # NoZip => t = u

WorkspaceIsOf(j, z) == spec[j] = z /\ copied[j] = [e \in {"a", "b"} |-> z]

\* A job runs the definition its row shows: spec and files of the workspace
\* are all of the zip whose sha256 the claim recorded, whatever other jobs of
\* the task and restarts did to the shared cache directory, unless the job met
\* it between rmtree and rename.
RunsItsDefinition ==
  \A j \in Jobs : step[j] = "ready" /\ j \notin undercut =>
    WorkspaceIsOf(j, job[j].sha)

\* Preparing a workspace fails only because the task was replaced or deleted
\* after the claim, the network failed, the zip was lost to an overtaken update
\* or the directory was met between rmtree and rename.
FailsForACause ==
  \A j \in Jobs : step[j] = "failed" => j \in changed \cup undercut

\* What the design says of a job under way: it runs the definition its row
\* shows, without exception.
SnapshotIsWhatRuns ==
  \A j \in Jobs : step[j] = "ready" => WorkspaceIsOf(j, job[j].sha)
===============================================================================
