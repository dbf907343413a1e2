-------------------------- MODULE TaskDeliveryProofs --------------------------
(***************************************************************************)
(* Proofs about TaskDelivery for every number of tasks, jobs, updates and  *)
(* faults, every capacity and every set of zips.                           *)
(*                                                                         *)
(* Three invariants build on the types.  StoreInv: a zip is missing only   *)
(* when an update deleted it that had read an older row.  CacheInv: a      *)
(* cache directory nobody has begun to remove is all of one zip, and what  *)
(* an execution took from such a directory is of the zip its row shows;    *)
(* neither the lock nor the number of executions matters for it.           *)
(* CauseInv: an execution whose task did not change finds its zip.         *)
(***************************************************************************)
EXTENDS TaskDelivery, TLAPS

USE DeliveryAssumption

-------------------------------------------------------------------------------
(* Types, and how the row of a job and its execution go together.            *)

Made == [task : Tasks, sha : Zips]
JobRows == [task : Tasks \cup {0}, sha : Zips \cup {NoZip},
            status : {"absent", "pending", "running", "ended"}]
Files == {"a", "b"}
Underway == {"ensure", "lock", "download", "install", "prepare", "copy"}

RowOK(row) ==
  /\ row \in JobRows
  /\ IF row.status = "absent" THEN row.sha = NoZip
     ELSE row.task \in Tasks /\ row.sha \in Zips

\* The execution of a job is under way exactly while the job is RUNNING.
InStep(status, s) ==
  /\ status \in {"absent", "pending"} => s = "none"
  /\ status = "running" => s \in Underway
  /\ status = "ended" => s \in {"ready", "failed"}

StoreTypes ==
  /\ task \in [Tasks -> Zips \cup {NoZip}]
  /\ nextTask \in 1..(MaxTasks + 1) /\ stored \subseteq Zips
  /\ updating \in [Updates -> Made \cup {NoRequest}]
  /\ nextUpdate \in 1..(MaxUpdates + 1)
  /\ creating \in Made \cup {NoRequest}

JobTypes ==
  /\ job \in [Jobs -> JobRows] /\ nextJob \in 1..(MaxJobs + 1)
  /\ step \in [Jobs -> Steps]
  /\ \A j \in Jobs : /\ RowOK(job[j]) /\ InStep(job[j].status, step[j])
                     /\ j >= nextJob => job[j].status = "absent"

CacheTypes ==
  /\ spec \in [Jobs -> Zips \cup {NoZip}]
  /\ listed \in [Jobs -> SUBSET Files]
  /\ copied \in [Jobs -> [Files -> Zips \cup {NoZip}]]
  /\ dir \in [Tasks -> [Entries -> Zips \cup {NoZip}]]
  /\ lock \in [Tasks -> Jobs \cup {0}]

GhostTypes ==
  /\ changed \subseteq Jobs /\ undercut \subseteq Jobs
  /\ lost \subseteq Zips /\ half \subseteq Tasks /\ faults \in 0..MaxFaults

TypeInv == StoreTypes /\ JobTypes /\ CacheTypes /\ GhostTypes

\* Numbers and constants that recur.
LEMMA Constants ==
  /\ 0 \notin Tasks /\ NoRequest \notin Made /\ 0 \notin Jobs
  /\ \A t \in Tasks : t \in Nat /\ t + 1 \in 1..(MaxTasks + 1)
  /\ \A j \in Jobs : j \in Nat /\ j + 1 \in 1..(MaxJobs + 1)
  /\ \A u \in Updates : u \in Nat /\ u + 1 \in 1..(MaxUpdates + 1)
  BY DEF Tasks, Jobs, Updates, Made, NoRequest

\* What the row of a job says while its execution is under way.
LEMMA UnderwayFacts ==
  ASSUME TypeInv, NEW j \in Jobs, step[j] \in Underway
  PROVE  /\ job[j] \in JobRows /\ job[j].status = "running"
         /\ job[j].task \in Tasks /\ job[j].sha \in Zips
         /\ job[j].sha # NoZip /\ j \in Executing
<1>1. job[j] \in JobRows /\ RowOK(job[j]) /\ InStep(job[j].status, step[j])
  BY DEF TypeInv, JobTypes
<1>2. job[j].status = "running"
  BY <1>1 DEF InStep, JobRows, Underway
<1>3. j \in Executing  BY DEF Executing, Underway
<1> QED  BY <1>1, <1>2, <1>3 DEF RowOK

\* The executions that the code counts are those under way.
LEMMA ExecutingIsUnderway ==
  ASSUME TypeInv
  PROVE  \A j \in Jobs : j \in Executing <=> step[j] \in Underway
  BY DEF TypeInv, JobTypes, Executing, Underway, Steps

\* What an execution may do to the types: it moves on to the step s, with its
\* job RUNNING while it is under way and ended after.
MovesTo(j, s) ==
  /\ s \in Steps \ {"none"}
  /\ step' = [step EXCEPT ![j] = s]
  /\ job' = [job EXCEPT ![j].status = IF s \in Underway THEN "running" ELSE "ended"]
  /\ nextJob' = nextJob

\* An execution that moves on keeps its row and its step together.
LEMMA MovingTypes ==
  ASSUME TypeInv, NEW j \in Jobs, step[j] \in Underway, NEW s, MovesTo(j, s)
  PROVE  /\ JobTypes'
         /\ step'[j] = s /\ job'[j].task = job[j].task /\ job'[j].sha = job[j].sha
         /\ \A k \in Jobs \ {j} : step'[k] = step[k] /\ job'[k] = job[k]
<1> DEFINE status == IF s \in Underway THEN "running" ELSE "ended"
           row == [job[j] EXCEPT !.status = status]
<1>1. job \in [Jobs -> JobRows] /\ step \in [Jobs -> Steps]
  BY DEF TypeInv, JobTypes
<1>2. job[j] \in JobRows /\ RowOK(job[j]) /\ job[j].status = "running"
  BY UnderwayFacts DEF TypeInv, JobTypes
<1>3. /\ row \in JobRows /\ row.task = job[j].task /\ row.sha = job[j].sha
      /\ row.status = status
  BY <1>2 DEF JobRows
<1>4. RowOK(row) /\ InStep(status, s)
  BY <1>2, <1>3 DEF RowOK, InStep, MovesTo, Steps, Underway
<1>5. step' = [step EXCEPT ![j] = s] /\ job' = [job EXCEPT ![j] = row]
      /\ nextJob' = nextJob /\ s \in Steps
  BY DEF MovesTo
<1>6. j < nextJob
  BY <1>2, Constants DEF TypeInv, JobTypes
<1> HIDE DEF row, status
<1>7. /\ step'[j] = s /\ job'[j] = row
      /\ \A k \in Jobs \ {j} : step'[k] = step[k] /\ job'[k] = job[k]
      /\ job' \in [Jobs -> JobRows] /\ step' \in [Jobs -> Steps]
  BY <1>1, <1>3, <1>5
<1>8. ASSUME NEW k \in Jobs
      PROVE  /\ RowOK(job'[k]) /\ InStep(job'[k].status, step'[k])
             /\ k >= nextJob' => job'[k].status = "absent"
  <2>1. CASE k = j
    <3>1. ~(k >= nextJob')  BY <1>5, <1>6, <2>1, Constants DEF TypeInv, JobTypes
    <3> QED  BY <1>3, <1>4, <1>7, <2>1, <3>1
  <2>2. CASE k # j
    BY <1>5, <1>7, <2>2 DEF TypeInv, JobTypes
  <2> QED  BY <2>1, <2>2
<1> QED  BY <1>3, <1>5, <1>7, <1>8 DEF JobTypes, TypeInv

\* A step of the backend or of a user that touches no job.
StoreActs ==
  \/ \E z \in Zips : UploadTask(z)
  \/ \E t \in Tasks : DeleteTask(t) \/ BeginCreate(t) \/ BeginUpdate(t)
  \/ \E u \in Updates, z \in Zips : EndUpdate(u, z)
  \/ ServerCrash

LEMMA StoreStepTypes ==
  ASSUME TypeInv, StoreActs
  PROVE  TypeInv'
<1> USE DEF TypeInv
<1>1. UNCHANGED <<job, nextJob, runner, half, undercut>>
  BY DEF StoreActs, UploadTask, DeleteTask, BeginCreate, BeginUpdate, EndUpdate,
     ServerCrash, ghosts
<1>2. JobTypes' /\ CacheTypes'
  BY <1>1 DEF JobTypes, CacheTypes, runner
<1>3. \A t \in Tasks : Outdates(t) => changed' \subseteq Jobs
  BY DEF Outdates, Executing, GhostTypes
<1>4. \A k \in Faults : Fault(k) => faults' \in 0..MaxFaults
  BY DEF Fault, GhostTypes
<1>5. \A z \in Zips : Ingest(z) => stored' \subseteq Zips /\ lost' \subseteq Zips
  BY DEF Ingest, StoreTypes, GhostTypes
<1>6. ASSUME NEW z \in Zips, UploadTask(z) PROVE StoreTypes' /\ GhostTypes'
  <2>1. stored' \subseteq Zips /\ lost' \subseteq Zips  BY <1>5, <1>6 DEF UploadTask
  <2> QED
    BY <1>1, <1>6, <2>1, Constants DEF UploadTask, StoreTypes, GhostTypes, updates
<1>7. ASSUME NEW t \in Tasks, DeleteTask(t) PROVE StoreTypes' /\ GhostTypes'
  BY <1>1, <1>3, <1>7 DEF DeleteTask, StoreTypes, GhostTypes, updates
<1>8. ASSUME NEW t \in Tasks, BeginCreate(t) PROVE StoreTypes' /\ GhostTypes'
  BY <1>8 DEF BeginCreate, StoreTypes, GhostTypes, Made, updates, ghosts
<1>9. ASSUME NEW t \in Tasks, BeginUpdate(t) PROVE StoreTypes' /\ GhostTypes'
  <2>1. [task |-> t, sha |-> task[t]] \in Made
    BY <1>9 DEF BeginUpdate, StoreTypes, Made
  <2>2. nextUpdate' \in 1..(MaxUpdates + 1)  BY <1>9, Constants DEF BeginUpdate
  <2> QED  BY <1>9, <2>1, <2>2 DEF BeginUpdate, StoreTypes, GhostTypes, ghosts
<1>10. ASSUME NEW u \in Updates, NEW z \in Zips, EndUpdate(u, z)
       PROVE  StoreTypes' /\ GhostTypes'
  <2>1. updating[u] \in Made  BY <1>10 DEF EndUpdate, StoreTypes
  <2>2. updating[u].task \in Tasks /\ updating[u].sha \in Zips  BY <2>1 DEF Made
  <2>3. updating' = [updating EXCEPT ![u] = NoRequest]
        /\ UNCHANGED <<nextTask, nextUpdate, creating, faults>>
    BY <1>10 DEF EndUpdate
  <2>4. task' \in [Tasks -> Zips \cup {NoZip}] /\ stored' \subseteq Zips
        /\ lost' \subseteq Zips /\ changed' \subseteq Jobs
    BY <1>3, <1>5, <1>10, <2>2 DEF EndUpdate, StoreTypes, GhostTypes
  <2> QED  BY <1>1, <2>3, <2>4 DEF StoreTypes, GhostTypes
<1>11. CASE ServerCrash
  <2>1. updating' = [u \in Updates |-> NoRequest] /\ creating' = NoRequest
        /\ faults' \in 0..MaxFaults /\ UNCHANGED <<nextTask, nextUpdate>>
    BY <1>4, <1>11 DEF ServerCrash, Fault
  <2>2. \A u \in Updates : updating[u].task # 0 => updating[u].task \in Tasks
    BY DEF StoreTypes, Made, NoRequest
  <2>3. task' \in [Tasks -> Zips \cup {NoZip}] /\ stored' \subseteq Zips
        /\ lost' \subseteq Zips /\ changed' \subseteq Jobs
    BY <1>3, <1>5, <1>11, <2>2 DEF ServerCrash, StoreTypes, GhostTypes
  <2>4. updating' \in [Updates -> Made \cup {NoRequest}]  BY <2>1
  <2>5. StoreTypes'  BY <2>1, <2>3, <2>4 DEF StoreTypes
  <2>6. GhostTypes'  BY <1>1, <2>1, <2>3 DEF GhostTypes
  <2> QED  BY <1>2, <2>5, <2>6
<1>12. StoreTypes' /\ GhostTypes'
  BY <1>6, <1>7, <1>8, <1>9, <1>10, <1>11 DEF StoreActs
<1> QED  BY <1>2, <1>12

\* Attempts that are over leave rows that wait, and nothing prepared.
LEMMA Forgotten ==
  ASSUME TypeInv, NEW js \in SUBSET Jobs, Forget(js),
         \A j \in js : job[j].status # "absent"
  PROVE  /\ job' \in [Jobs -> JobRows] /\ step' \in [Jobs -> Steps]
         /\ spec' \in [Jobs -> Zips \cup {NoZip}]
         /\ listed' \in [Jobs -> SUBSET Files]
         /\ copied' \in [Jobs -> [Files -> Zips \cup {NoZip}]]
         /\ \A j \in Jobs :
              /\ RowOK(job'[j]) /\ InStep(job'[j].status, step'[j])
              /\ job'[j].task = job[j].task /\ job'[j].sha = job[j].sha
              /\ j \in js => step'[j] = "none" /\ job'[j].status = "pending"
              /\ j \notin js => /\ step'[j] = step[j] /\ job'[j] = job[j]
                                /\ spec'[j] = spec[j] /\ listed'[j] = listed[j]
                                /\ copied'[j] = copied[j]
<1> USE DEF TypeInv
<1>1. /\ spec \in [Jobs -> Zips \cup {NoZip}] /\ listed \in [Jobs -> SUBSET Files]
      /\ copied \in [Jobs -> [Files -> Zips \cup {NoZip}]]
      /\ NothingCopied \in [Files -> Zips \cup {NoZip}]
  BY DEF CacheTypes, NothingCopied, Files
<1>2. /\ spec' \in [Jobs -> Zips \cup {NoZip}] /\ listed' \in [Jobs -> SUBSET Files]
      /\ copied' \in [Jobs -> [Files -> Zips \cup {NoZip}]]
      /\ \A j \in Jobs \ js : /\ spec'[j] = spec[j] /\ listed'[j] = listed[j]
                              /\ copied'[j] = copied[j]
  BY <1>1 DEF Forget
<1>3. ASSUME NEW j \in Jobs
      PROVE  /\ job'[j] \in JobRows /\ step'[j] \in Steps
             /\ RowOK(job'[j]) /\ InStep(job'[j].status, step'[j])
             /\ job'[j].task = job[j].task /\ job'[j].sha = job[j].sha
             /\ j \in js => step'[j] = "none" /\ job'[j].status = "pending"
             /\ j \notin js => step'[j] = step[j] /\ job'[j] = job[j]
  <2>1. /\ job[j] \in JobRows /\ RowOK(job[j]) /\ InStep(job[j].status, step[j])
        /\ step[j] \in Steps
    BY DEF JobTypes
  <2>2. CASE j \in js
    <3> DEFINE row == [job[j] EXCEPT !.status = "pending"]
    <3>1. /\ row \in JobRows /\ row.task = job[j].task /\ row.sha = job[j].sha
          /\ row.status = "pending"
      BY <2>1 DEF JobRows
    <3>2. job'[j] = row /\ step'[j] = "none"  BY <2>2 DEF Forget
    <3> HIDE DEF row
    <3>3. RowOK(row)  BY <2>1, <2>2, <3>1 DEF RowOK
    <3> QED  BY <2>2, <3>1, <3>2, <3>3 DEF InStep, Steps
  <2>3. CASE j \notin js
    <3>1. job'[j] = job[j] /\ step'[j] = step[j]  BY <2>3 DEF Forget
    <3> QED  BY <2>1, <2>3, <3>1
  <2> QED  BY <2>2, <2>3
<1>4. job' \in [Jobs -> JobRows] /\ step' \in [Jobs -> Steps]
  BY <1>3 DEF Forget
<1> QED  BY <1>2, <1>3, <1>4

\* The creation of a job.
LEMMA CreateTypes ==
  ASSUME TypeInv, EndCreate
  PROVE  TypeInv'
<1> USE DEF TypeInv
<1> DEFINE row == [task |-> creating.task, sha |-> creating.sha,
                   status |-> "pending"]
<1>1. /\ nextJob \in Jobs /\ job' = [job EXCEPT ![nextJob] = row]
      /\ nextJob' = nextJob + 1 /\ creating' = NoRequest /\ creating \in Made
      /\ UNCHANGED <<task, nextTask, stored, updates, runner, ghosts, faults>>
  BY DEF EndCreate, StoreTypes
<1>2. row \in JobRows /\ RowOK(row) /\ row.status = "pending"
  BY <1>1 DEF Made, JobRows, RowOK
<1> HIDE DEF row
<1>3. step[nextJob] = "none"
  BY <1>1, Constants DEF JobTypes, InStep
<1>4. /\ job' \in [Jobs -> JobRows] /\ job'[nextJob] = row
      /\ \A k \in Jobs \ {nextJob} : job'[k] = job[k]
  BY <1>1, <1>2 DEF JobTypes
<1>5. nextJob' \in 1..(MaxJobs + 1)  BY <1>1, Constants
<1>6. ASSUME NEW k \in Jobs
      PROVE  /\ RowOK(job'[k]) /\ InStep(job'[k].status, step[k])
             /\ k >= nextJob' => job'[k].status = "absent"
  <2>1. CASE k = nextJob
    <3>1. ~(k >= nextJob')  BY <1>1, <2>1, Constants
    <3> QED  BY <1>2, <1>3, <1>4, <2>1, <3>1 DEF InStep
  <2>2. CASE k # nextJob
    <3>1. k >= nextJob' => k >= nextJob  BY <1>1, Constants
    <3> QED  BY <1>4, <2>2, <3>1 DEF JobTypes
  <2> QED  BY <2>1, <2>2
<1>7. JobTypes'  BY <1>1, <1>4, <1>5, <1>6 DEF JobTypes, runner
<1> QED  BY <1>1, <1>7 DEF StoreTypes, CacheTypes, GhostTypes, runner, updates, ghosts

\* A retry: the attempt is forgotten.
LEMMA RetryTypes ==
  ASSUME TypeInv, NEW j \in Jobs, RetryJob(j)
  PROVE  TypeInv'
<1> USE DEF TypeInv
<1>1. Forget({j}) /\ job[j].status = "ended"
      /\ UNCHANGED <<task, nextTask, stored, updates, creating, nextJob, dir,
                     lock, ghosts, faults>>
  BY DEF RetryJob
<1>2. {j} \in SUBSET Jobs /\ \A k \in {j} : job[k].status # "absent"
  BY <1>1
<1>3. JobTypes'
  <2>1. \A k \in Jobs : k >= nextJob => k # j /\ job[k].status = "absent"
    BY <1>1 DEF JobTypes
  <2> QED  BY <1>1, <1>2, <2>1, Forgotten DEF JobTypes
<1>4. CacheTypes'  BY <1>1, <1>2, Forgotten DEF CacheTypes
<1> QED  BY <1>1, <1>3, <1>4 DEF StoreTypes, GhostTypes, updates, ghosts

\* The claim.
LEMMA ClaimTypes ==
  ASSUME TypeInv, NEW j \in Jobs, ClaimJob(j)
  PROVE  /\ TypeInv'
         /\ step'[j] = "ensure" /\ job'[j].task = job[j].task
         /\ job'[j].sha = Snapshot(j)
         /\ \A k \in Jobs \ {j} : job'[k] = job[k] /\ step'[k] = step[k]
<1> USE DEF TypeInv
<1> DEFINE row == [job[j] EXCEPT !.status = "running", !.sha = Snapshot(j)]
<1>1. /\ job \in [Jobs -> JobRows] /\ job[j] \in JobRows /\ RowOK(job[j])
      /\ step \in [Jobs -> Steps]
  BY DEF JobTypes
<1>2. Snapshot(j) \in Zips /\ job[j].task \in Tasks
  BY <1>1 DEF ClaimJob, Snapshot, RowOK, StoreTypes
<1>3. /\ row \in JobRows /\ row.status = "running" /\ row.sha = Snapshot(j)
      /\ row.task = job[j].task
  BY <1>1, <1>2 DEF JobRows
<1>4. job' = [job EXCEPT ![j] = row] /\ step' = [step EXCEPT ![j] = "ensure"]
      /\ job[j].status = "pending" /\ nextJob' = nextJob
  BY <1>1 DEF ClaimJob
<1>5. InStep("running", "ensure") /\ "ensure" \in Steps
  BY DEF InStep, Steps, Underway
<1> HIDE DEF row
<1>6. RowOK(row)  BY <1>2, <1>3 DEF RowOK
<1>7. /\ job'[j] = row /\ step'[j] = "ensure"
      /\ \A k \in Jobs \ {j} : job'[k] = job[k] /\ step'[k] = step[k]
      /\ job' \in [Jobs -> JobRows] /\ step' \in [Jobs -> Steps]
  BY <1>1, <1>3, <1>4, <1>5
<1>8. ~(j >= nextJob)  BY <1>4 DEF JobTypes
<1>9. JobTypes'
  BY <1>3, <1>4, <1>5, <1>6, <1>7, <1>8 DEF JobTypes
<1>10. StoreTypes' /\ CacheTypes' /\ GhostTypes'
  BY DEF ClaimJob, StoreTypes, CacheTypes, GhostTypes, updates
<1> QED  BY <1>3, <1>7, <1>9, <1>10

\* What the steps of an execution under way do to its row and to the files.
LEMMA PreparingShape ==
  ASSUME TypeInv, NEW j \in Jobs, Preparing(j) \/ DownloadFails(j)
  PROVE  /\ step[j] \in Underway
         /\ \E s : MovesTo(j, s)
         /\ UNCHANGED <<task, nextTask, stored, updates, creating, lost>>
         /\ CacheTypes' /\ GhostTypes'
<1> USE DEF TypeInv
<1>1. /\ step[j] \in Underway
      /\ UNCHANGED <<task, nextTask, stored, updates, creating, nextJob, lost>>
  BY DEF Preparing, DownloadFails, Ensure, EnsureLocked, Download, RemoveEntry,
     Rename, ListFiles, CopyRest, Underway, backend, ghosts
<1>2. /\ job[j].status = "running" /\ job[j] \in JobRows /\ job[j].task \in Tasks
      /\ job[j].sha \in Zips
      /\ job \in [Jobs -> JobRows] /\ step \in [Jobs -> Steps]
  BY <1>1, UnderwayFacts DEF JobTypes
<1>3. ASSUME NEW s \in Underway, step' = [step EXCEPT ![j] = s], job' = job
      PROVE  MovesTo(j, s)
  <2>1. job = [job EXCEPT ![j].status = "running"]
    BY <1>2 DEF JobRows
  <2> QED  BY <1>1, <1>3, <2>1 DEF MovesTo, Underway, Steps
<1>4. ASSUME NEW s \in {"ready", "failed"}, step' = [step EXCEPT ![j] = s],
             job' = [job EXCEPT ![j].status = "ended"]
      PROVE  MovesTo(j, s)
  BY <1>1, <1>4 DEF MovesTo, Underway, Steps
<1>5. Fails(j) => \E s : MovesTo(j, s)
  BY <1>4 DEF Fails
<1>6. ASSUME NEW d \in [Entries -> Zips \cup {NoZip}], LoadSpec(j, d)
      PROVE  (\E s : MovesTo(j, s)) /\ spec' \in [Jobs -> Zips \cup {NoZip}]
  <2>1. CASE d["toml"] = NoZip
    BY <1>5, <1>6, <2>1 DEF LoadSpec, CacheTypes
  <2>2. CASE d["toml"] # NoZip
    <3>1. step' = [step EXCEPT ![j] = "prepare"] /\ job' = job
          /\ spec' = [spec EXCEPT ![j] = d["toml"]]
      BY <1>6, <2>2 DEF LoadSpec
    <3>2. d["toml"] \in Zips \cup {NoZip}  BY DEF Entries
    <3>3. MovesTo(j, "prepare")  BY <1>3, <3>1 DEF Underway
    <3> QED  BY <3>1, <3>2, <3>3 DEF CacheTypes
  <2> QED  BY <2>1, <2>2
<1>7. Dir(j) \in [Entries -> Zips \cup {NoZip}]
  BY <1>2 DEF Dir, CacheTypes
<1>8. CASE Ensure(j) \/ EnsureLocked(j)
  <2>1. /\ UNCHANGED <<listed, copied, dir, changed, half, faults>>
        /\ lock' = lock \/ lock' = [lock EXCEPT ![job[j].task] = j]
        /\ undercut' \in {undercut, undercut \cup {j}}
    BY <1>8 DEF Ensure, EnsureLocked, UseDir
  <2>2. (\E s : MovesTo(j, s)) /\ spec' \in [Jobs -> Zips \cup {NoZip}]
    <3>1. CASE IsHit(j)
      BY <1>6, <1>7, <1>8, <3>1 DEF Ensure, EnsureLocked, UseDir
    <3>2. CASE ~IsHit(j)
      <4>1. /\ spec' = spec /\ job' = job
            /\ \E s \in {"lock", "download"} : step' = [step EXCEPT ![j] = s]
        BY <1>8, <3>2 DEF Ensure, EnsureLocked
      <4>2. \E s : MovesTo(j, s)  BY <1>3, <4>1 DEF Underway
      <4> QED  BY <4>1, <4>2 DEF CacheTypes
    <3> QED  BY <3>1, <3>2
  <2>3. lock' \in [Tasks -> Jobs \cup {0}]  BY <2>1 DEF CacheTypes
  <2> QED  BY <1>1, <2>1, <2>2, <2>3 DEF CacheTypes, GhostTypes
<1>9. CASE Download(j) \/ DownloadFails(j)
  <2>1. /\ UNCHANGED <<spec, listed, copied, dir>>
        /\ lock' = lock \/ lock' = [lock EXCEPT ![job[j].task] = 0]
    BY <1>9 DEF Download, DownloadFails
  <2>2. \E s : MovesTo(j, s)
    <3>1. CASE Fails(j)  BY <1>5, <3>1
    <3>2. CASE step' = [step EXCEPT ![j] = "install"] /\ job' = job
      BY <1>3, <3>2 DEF Underway
    <3> QED  BY <1>9, <3>1, <3>2 DEF Download, DownloadFails
  <2>3. lock' \in [Tasks -> Jobs \cup {0}]  BY <2>1 DEF CacheTypes
  <2>4. GhostTypes'
    BY <1>1, <1>9 DEF Download, DownloadFails, Fault, GhostTypes
  <2> QED  BY <1>1, <2>1, <2>2, <2>3, <2>4 DEF CacheTypes
<1>10. ASSUME NEW e \in Entries, RemoveEntry(j, e)
       PROVE  (\E s : MovesTo(j, s)) /\ CacheTypes' /\ GhostTypes'
  <2>1. /\ step[j] = "install" /\ UNCHANGED <<job, step, spec, listed, copied, lock>>
        /\ UNCHANGED <<changed, lost, faults>>
        /\ half' = half \cup {job[j].task}
        /\ undercut' = undercut \cup UsersOf(job[j].task)
        /\ dir' = [dir EXCEPT ![job[j].task][e] = NoZip]
    BY <1>10 DEF RemoveEntry, backend
  <2>2. step' = [step EXCEPT ![j] = "install"]  BY <1>2, <2>1
  <2>3. MovesTo(j, "install")  BY <1>3, <2>1, <2>2 DEF Underway
  <2>4. dir' \in [Tasks -> [Entries -> Zips \cup {NoZip}]]
    BY <1>2, <2>1 DEF CacheTypes
  <2>5. GhostTypes'  BY <1>2, <2>1 DEF GhostTypes, UsersOf
  <2> QED  BY <2>1, <2>3, <2>4, <2>5 DEF CacheTypes
<1>11. CASE Rename(j)
  <2> DEFINE d == [e \in Entries |-> job[j].sha]
  <2>1. d \in [Entries -> Zips \cup {NoZip}]  BY <1>2
  <2>2. /\ dir' = [dir EXCEPT ![job[j].task] = d]
        /\ lock' = [lock EXCEPT ![job[j].task] = 0] /\ LoadSpec(j, d)
        /\ half' = half \ {job[j].task}
        /\ UNCHANGED <<listed, copied, changed, undercut, faults>>
    BY <1>11 DEF Rename
  <2> HIDE DEF d
  <2>3. /\ dir' \in [Tasks -> [Entries -> Zips \cup {NoZip}]]
        /\ lock' \in [Tasks -> Jobs \cup {0}]
    BY <1>2, <2>1, <2>2 DEF CacheTypes
  <2> QED  BY <1>1, <1>6, <2>1, <2>2, <2>3 DEF CacheTypes, GhostTypes
<1>12. CASE ListFiles(j)
  <2>1. UNCHANGED <<spec, dir, lock, ghosts, faults>>
    BY <1>12 DEF ListFiles
  <2>2. CASE Dir(j) = EmptyDir
    <3>1. Fails(j) /\ UNCHANGED <<listed, copied>>
      BY <1>12, <2>2 DEF ListFiles
    <3> QED  BY <1>1, <1>5, <2>1, <3>1 DEF CacheTypes, GhostTypes, ghosts
  <2>3. CASE Dir(j) # EmptyDir
    <3>1. PICK L \in SUBSET Files :
            /\ step' = [step EXCEPT ![j] = "copy"] /\ job' = job
            /\ listed' = [listed EXCEPT ![j] = L]
            /\ copied' = [copied EXCEPT ![j]["a"] = Dir(j)["a"]]
      BY <1>12, <2>3 DEF ListFiles, Files
    <3>2. Dir(j)["a"] \in Zips \cup {NoZip}  BY <1>7 DEF Entries
    <3>3. copied' \in [Jobs -> [Files -> Zips \cup {NoZip}]]
          /\ listed' \in [Jobs -> SUBSET Files]
      BY <3>1, <3>2 DEF CacheTypes, Files
    <3>4. MovesTo(j, "copy")  BY <1>3, <3>1 DEF Underway
    <3> QED  BY <1>1, <2>1, <3>3, <3>4 DEF CacheTypes, GhostTypes, ghosts
  <2> QED  BY <2>2, <2>3
<1>13. CASE CopyRest(j)
  <2>1. UNCHANGED <<spec, dir, lock, ghosts, faults>>
        /\ listed' = [listed EXCEPT ![j] = {}]
    BY <1>13 DEF CopyRest
  <2>2. listed' \in [Jobs -> SUBSET Files]
    <3>1. {} \in SUBSET Files  OBVIOUS
    <3> QED  BY <2>1, <3>1 DEF CacheTypes
  <2>3. CASE Fails(j) /\ UNCHANGED copied
    BY <1>1, <1>5, <2>1, <2>2, <2>3 DEF CacheTypes, GhostTypes, ghosts
  <2>4. CASE ~(Fails(j) /\ UNCHANGED copied)
    <3>1. PICK z \in Zips \cup {NoZip} :
            /\ step' = [step EXCEPT ![j] = "ready"]
            /\ job' = [job EXCEPT ![j].status = "ended"]
            /\ copied' = [copied EXCEPT ![j]["b"] = z]
      <4>1. Dir(j)["b"] \in Zips \cup {NoZip}  BY <1>7 DEF Entries
      <4> QED  BY <1>13, <2>4, <4>1 DEF CopyRest
    <3>2. copied' \in [Jobs -> [Files -> Zips \cup {NoZip}]]
      BY <3>1 DEF CacheTypes, Files
    <3>3. MovesTo(j, "ready")  BY <1>4, <3>1
    <3> QED  BY <1>1, <2>1, <2>2, <3>2, <3>3 DEF CacheTypes, GhostTypes, ghosts
  <2> QED  BY <2>3, <2>4
<1> QED
  BY <1>1, <1>8, <1>9, <1>10, <1>11, <1>12, <1>13 DEF Preparing

\* The runner process dies.
LEMMA CrashTypes ==
  ASSUME TypeInv, RunnerCrash
  PROVE  /\ TypeInv'
         /\ \A j \in Jobs : /\ job'[j].task = job[j].task /\ job'[j].sha = job[j].sha
                            /\ step'[j] \notin Underway
                            /\ step'[j] # "none" =>
                                 /\ step'[j] = step[j] /\ spec'[j] = spec[j]
                                 /\ copied'[j] = copied[j]
<1> USE DEF TypeInv
<1>1. /\ Forget(Executing) /\ lock' = [t \in Tasks |-> 0]
      /\ UNCHANGED <<task, nextTask, stored, updates, creating, nextJob, dir, ghosts>>
      /\ faults' \in 0..MaxFaults
  BY DEF RunnerCrash, Fault, GhostTypes
<1>2. Executing \in SUBSET Jobs  BY DEF Executing
<1>3. \A j \in Executing : step[j] \in Underway /\ job[j].status = "running"
  BY <1>2, ExecutingIsUnderway, UnderwayFacts
<1>4. \A j \in Executing : job[j].status # "absent"  BY <1>3
<1>5. \A j \in Jobs \ Executing : step[j] \notin Underway
  BY ExecutingIsUnderway
<1>6. JobTypes'
  <2>1. \A k \in Jobs : k >= nextJob => k \notin Executing /\ job[k].status = "absent"
    BY <1>4 DEF JobTypes
  <2> QED  BY <1>1, <1>2, <1>4, <2>1, Forgotten DEF JobTypes
<1>7. CacheTypes'  BY <1>1, <1>2, <1>4, Forgotten DEF CacheTypes
<1>8. \A j \in Jobs : /\ job'[j].task = job[j].task /\ job'[j].sha = job[j].sha
                      /\ step'[j] \notin Underway
                      /\ step'[j] # "none" =>
                           /\ step'[j] = step[j] /\ spec'[j] = spec[j]
                           /\ copied'[j] = copied[j]
  BY <1>1, <1>2, <1>4, <1>5, Forgotten DEF Underway
<1> QED  BY <1>1, <1>6, <1>7, <1>8 DEF StoreTypes, GhostTypes, updates, ghosts

\* Initially nothing is stored, cached or created.
LEMMA InitTypes == Init => TypeInv
<1> SUFFICES ASSUME Init PROVE TypeInv
  OBVIOUS
<1>1. StoreTypes /\ GhostTypes
  BY DEF Init, StoreTypes, GhostTypes
<1>2. JobTypes
  <2>1. NoJob \in JobRows /\ RowOK(NoJob) /\ NoJob.status = "absent"
    BY DEF NoJob, JobRows, RowOK
  <2> QED  BY <2>1 DEF Init, JobTypes, InStep, Steps
<1>3. CacheTypes
  BY DEF Init, CacheTypes, NothingCopied, EmptyDir, Files
<1> QED  BY <1>1, <1>2, <1>3 DEF TypeInv

\* Types are kept.
LEMMA NextTypes == TypeInv /\ [Next]_vars => TypeInv'
<1> SUFFICES ASSUME TypeInv, [Next]_vars PROVE TypeInv'
  OBVIOUS
<1>1. CASE UNCHANGED vars
  BY <1>1 DEF vars, backend, updates, runner, ghosts, TypeInv, StoreTypes, JobTypes,
     CacheTypes, GhostTypes
<1>2. ASSUME NEW j \in Jobs, Preparing(j) \/ DownloadFails(j) PROVE TypeInv'
  <2>1. JobTypes' /\ CacheTypes' /\ GhostTypes'
    BY <1>2, PreparingShape, MovingTypes
  <2>2. StoreTypes'
    BY <1>2, PreparingShape DEF TypeInv, StoreTypes, updates
  <2> QED  BY <2>1, <2>2 DEF TypeInv
<1>3. CASE Administering \/ (\E t \in Tasks : BeginCreate(t)) \/ ServerCrash
  BY <1>3, StoreStepTypes DEF Administering, StoreActs
<1>4. CASE EndCreate \/ \E j \in Jobs : RetryJob(j) \/ ClaimJob(j)
  BY <1>4, CreateTypes, RetryTypes, ClaimTypes
<1>5. CASE RunnerCrash  BY <1>5, CrashTypes
<1> QED  BY <1>1, <1>2, <1>3, <1>4, <1>5 DEF Next, Using

\* TypeInv holds in every reachable state.
THEOREM Types == Spec => []TypeInv
<1>1. Init => TypeInv  BY InitTypes
<1>2. TypeInv /\ [Next]_vars => TypeInv'  BY NextTypes
<1> QED  BY <1>1, <1>2, PTL DEF Spec

\* Every variable always holds a value of its type.
THEOREM TypeCorrect == Spec => []TypeOK
<1>1. TypeInv => TypeOK
  <2> SUFFICES ASSUME TypeInv PROVE TypeOK
    OBVIOUS
  <2>1. Made \cup {NoRequest} \subseteq Requests
    BY DEF Made, NoRequest, Requests
  <2>2. ASSUME NEW j \in Jobs
        PROVE  /\ job[j].task \in Tasks \cup {0}
               /\ job[j].sha \in (IF job[j].status = "absent" THEN {NoZip} ELSE Zips)
               /\ job[j].status \in {"absent", "pending", "running", "ended"}
    BY DEF TypeInv, JobTypes, RowOK, JobRows
  <2> QED
    BY <2>1, <2>2 DEF TypeInv, StoreTypes, JobTypes, CacheTypes, GhostTypes, TypeOK, Files
<1> QED  BY <1>1, Types, PTL

-------------------------------------------------------------------------------
(* The store of zips.                                                        *)

\* A zip of the table is on disk or was lost to an overtaken update; no two
\* definitions share one; ids that were not handed out have none.
StoreInv ==
  /\ ZipOfEveryDefinition
  /\ \A t \in Tasks : t >= nextTask => task[t] = NoZip
  /\ \A u \in Updates : updating[u] # NoRequest => updating[u].task < nextTask

\* Steps that change neither definitions nor zips, and begin no update.
LEMMA StoreSame ==
  ASSUME StoreInv, UNCHANGED <<task, nextTask, stored, updating, lost>>
  PROVE  StoreInv'
  BY DEF StoreInv, ZipOfEveryDefinition

\* A new zip on disk takes none away.
LEMMA StoreIngest ==
  ASSUME StoreInv, NEW z \in Zips, Ingest(z), UNCHANGED <<task, nextTask>>,
         \A u \in Updates : updating'[u] \in {updating[u], NoRequest}
  PROVE  StoreInv'
  BY DEF StoreInv, ZipOfEveryDefinition, Ingest

\* A definition that goes takes its own zip, if any.
LEMMA StoreDelete ==
  ASSUME TypeInv, StoreInv, NEW t \in Tasks, task[t] # NoZip,
         task' = [task EXCEPT ![t] = NoZip],
         stored' = stored \ {task[t]} \/ stored' = stored,
         UNCHANGED <<nextTask, lost>>,
         \A u \in Updates : updating'[u] \in {updating[u], NoRequest}
  PROVE  StoreInv'
<1>1. task \in [Tasks -> Zips \cup {NoZip}]  BY DEF TypeInv, StoreTypes
<1>2. task'[t] = NoZip /\ \A u \in Tasks \ {t} : task'[u] = task[u]
  BY <1>1
<1>3. ZipOfEveryDefinition'
  BY <1>2 DEF StoreInv, ZipOfEveryDefinition
<1>4. \A u \in Tasks : u >= nextTask' => task'[u] = NoZip
  BY <1>2 DEF StoreInv
<1> QED  BY <1>3, <1>4 DEF StoreInv

\* A definition that is replaced: the zip that goes with the one the update had
\* read is its own, or counts as lost.
LEMMA StoreReplace ==
  ASSUME TypeInv, StoreInv, NEW u \in Updates, NEW z \in Zips,
         NEW t \in Tasks, updating[u] # NoRequest, t = updating[u].task,
         z # updating[u].sha, OwnerOf(z) \ {t} = {}, task[t] # NoZip,
         task' = [task EXCEPT ![t] = z],
         \/ Ingest(z)
         \/ /\ stored' = (stored \cup {z}) \ {updating[u].sha}
            /\ lost' = IF updating[u].sha = task[t] THEN lost \ {z}
                       ELSE (lost \ {z}) \cup {updating[u].sha},
         nextTask' = nextTask,
         \A v \in Updates : updating'[v] \in {updating[v], NoRequest}
  PROVE  StoreInv'
<1>0. task \in [Tasks -> Zips \cup {NoZip}] /\ nextTask \in Nat
  BY DEF TypeInv, StoreTypes
<1>1. task'[t] = z /\ \A v \in Tasks \ {t} : task'[v] = task[v]
  BY <1>0
<1>2. \A v \in Tasks \ {t} : task[v] # z /\ (task[v] # NoZip => task[v] # task[t])
  BY DEF OwnerOf, StoreInv, ZipOfEveryDefinition
<1>3. z \in stored'  BY DEF Ingest
<1>4. ASSUME NEW v \in Tasks \ {t}, task[v] # NoZip
      PROVE  task[v] \in stored' \cup lost'
  <2>1. task[v] \in stored \cup lost /\ task[v] # z /\ task[v] # task[t]
    BY <1>2, <1>4 DEF StoreInv, ZipOfEveryDefinition
  <2> QED  BY <2>1 DEF Ingest
<1>5. ZipOfEveryDefinition'
  BY <1>1, <1>2, <1>3, <1>4 DEF StoreInv, ZipOfEveryDefinition
<1>6. t < nextTask /\ t \in Nat  BY Constants DEF StoreInv
<1>7. \A v \in Tasks : v >= nextTask' => task'[v] = NoZip
  BY <1>0, <1>1, <1>6 DEF StoreInv
<1> QED  BY <1>5, <1>7 DEF StoreInv

\* One step of the store.
LEMMA StoreStep ==
  ASSUME TypeInv, StoreInv, [Next]_vars
  PROVE  StoreInv'
<1>0. /\ task \in [Tasks -> Zips \cup {NoZip}] /\ nextTask \in Nat
      /\ updating \in [Updates -> Made \cup {NoRequest}]
  BY DEF TypeInv, StoreTypes
<1>1. \A u \in Updates : updating[u] # NoRequest => updating[u].task \in Tasks
  BY <1>0 DEF Made
<1>2. \A t \in Tasks : t \in Nat  BY Constants
<1>3. ASSUME NEW z \in Zips, UploadTask(z) PROVE StoreInv'
  <2>1. CASE OwnerOf(z) # {}
    <3>1. Ingest(z) /\ UNCHANGED <<task, nextTask, updating>>
      BY <1>3, <2>1 DEF UploadTask, updates
    <3> QED  BY <3>1, StoreIngest
  <2>2. CASE OwnerOf(z) = {}
    <3>1. /\ nextTask \in Tasks /\ task' = [task EXCEPT ![nextTask] = z]
          /\ nextTask' = nextTask + 1 /\ stored' = stored \cup {z}
          /\ lost' = lost \ {z} /\ updating' = updating
      BY <1>3, <2>2 DEF UploadTask, Ingest, updates
    <3>2. /\ task'[nextTask] = z
          /\ \A t \in Tasks \ {nextTask} : task'[t] = task[t]
      BY <1>0, <3>1
    <3>3. \A t \in Tasks : task[t] # z  BY <2>2 DEF OwnerOf
    <3>4. ZipOfEveryDefinition'
      BY <3>1, <3>2, <3>3 DEF StoreInv, ZipOfEveryDefinition
    <3>5. \A t \in Tasks : t >= nextTask' => task'[t] = NoZip
      BY <1>0, <1>2, <3>1, <3>2 DEF StoreInv
    <3>6. ASSUME NEW u \in Updates, updating[u] # NoRequest
          PROVE  updating'[u].task < nextTask'
      <4>1. updating[u].task < nextTask /\ updating[u].task \in Nat
        BY <1>1, <1>2, <3>6 DEF StoreInv
      <4>2. updating[u].task < nextTask + 1  BY <1>0, <4>1
      <4> QED  BY <3>1, <4>2
    <3> QED  BY <3>1, <3>4, <3>5, <3>6 DEF StoreInv
  <2> QED  BY <2>1, <2>2
<1>4. ASSUME NEW t \in Tasks, DeleteTask(t) PROVE StoreInv'
  BY <1>4, StoreDelete DEF DeleteTask, updates
<1>5. ASSUME NEW t \in Tasks, BeginUpdate(t) PROVE StoreInv'
  <2> DEFINE record == [task |-> t, sha |-> task[t]]
  <2>1. /\ task[t] # NoZip /\ UNCHANGED <<task, nextTask, stored, lost>>
        /\ updating' = [updating EXCEPT ![nextUpdate] = record]
    BY <1>5 DEF BeginUpdate, ghosts
  <2>2. record.task < nextTask  BY <1>0, <1>2, <2>1 DEF StoreInv
  <2> HIDE DEF record
  <2>3. \A u \in Updates : updating'[u] \in {updating[u], record}
    BY <1>0, <2>1
  <2> QED  BY <2>1, <2>2, <2>3 DEF StoreInv, ZipOfEveryDefinition
<1>6. ASSUME NEW u \in Updates, NEW z \in Zips, EndUpdate(u, z) PROVE StoreInv'
  <2>1. /\ updating[u] # NoRequest /\ nextTask' = nextTask
        /\ updating' = [updating EXCEPT ![u] = NoRequest]
    BY <1>6 DEF EndUpdate
  <2>2. \A v \in Updates : updating'[v] \in {updating[v], NoRequest}
    BY <1>0, <2>1
  <2>3. PICK t \in Tasks : t = updating[u].task  BY <1>1, <2>1
  <2>4. CASE task' = task /\ Ingest(z)
    BY <2>1, <2>2, <2>4, StoreIngest
  <2>5. CASE ~(task' = task /\ Ingest(z))
    <3>1. /\ z # updating[u].sha /\ OwnerOf(z) \ {t} = {} /\ task[t] # NoZip
          /\ task' = [task EXCEPT ![t] = z]
          /\ stored' = (stored \cup {z}) \ {updating[u].sha}
          /\ lost' = IF updating[u].sha = task[t] THEN lost \ {z}
                     ELSE (lost \ {z}) \cup {updating[u].sha}
      BY <1>6, <2>3, <2>5 DEF EndUpdate
    <3> QED  BY <2>1, <2>2, <2>3, <3>1, StoreReplace
  <2> QED  BY <2>4, <2>5
<1>7. CASE ServerCrash
  <2>1. nextTask' = nextTask /\ \A v \in Updates : updating'[v] \in {updating[v], NoRequest}
    BY <1>7 DEF ServerCrash
  <2>2. CASE \E z \in Zips : Ingest(z) /\ task' = task
    BY <2>1, <2>2, StoreIngest
  <2>3. CASE \E t \in Tasks : /\ task[t] # NoZip /\ UNCHANGED <<stored, lost>>
                              /\ task' = [task EXCEPT ![t] = NoZip]
    BY <2>1, <2>3, StoreDelete
  <2>4. CASE \E u \in Updates, z \in Zips :
               LET t == updating[u].task
               IN  /\ t # 0 /\ z # updating[u].sha
                   /\ OwnerOf(z) \ {t} = {} /\ task[t] # NoZip
                   /\ task' = [task EXCEPT ![t] = z] /\ Ingest(z)
    <3>1. PICK u \in Updates, z \in Zips :
            /\ updating[u].task # 0 /\ z # updating[u].sha
            /\ OwnerOf(z) \ {updating[u].task} = {} /\ task[updating[u].task] # NoZip
            /\ task' = [task EXCEPT ![updating[u].task] = z] /\ Ingest(z)
      BY <2>4
    <3>2. updating[u] # NoRequest /\ updating[u].task \in Tasks
      BY <1>1, <3>1 DEF NoRequest
    <3> QED  BY <2>1, <3>1, <3>2, StoreReplace
  <2> QED  BY <1>7, <2>2, <2>3, <2>4 DEF ServerCrash
<1>8. ASSUME NEW j \in Jobs, Preparing(j) \/ DownloadFails(j) PROVE StoreInv'
  BY <1>8, PreparingShape, StoreSame DEF updates
<1>9. CASE \/ UNCHANGED vars \/ RunnerCrash \/ EndCreate
           \/ \E t \in Tasks : BeginCreate(t)
           \/ \E j \in Jobs : RetryJob(j) \/ ClaimJob(j)
  BY <1>9, StoreSame DEF vars, backend, updates, ghosts, RunnerCrash, EndCreate,
     BeginCreate, RetryJob, ClaimJob
<1> QED
  BY <1>3, <1>4, <1>5, <1>6, <1>7, <1>8, <1>9 DEF Next, Using, Administering

\* Every definition in the table has its zip, which no other definition shares,
\* unless an update deleted it that had read an older definition of its task.
THEOREM ZipsKept == Spec => []ZipOfEveryDefinition
<1>1. Init => StoreInv
  BY DEF Init, StoreInv, ZipOfEveryDefinition
<1>2. TypeInv /\ StoreInv /\ [Next]_vars => StoreInv'
  BY StoreStep
<1>3. StoreInv => ZipOfEveryDefinition  BY DEF StoreInv
<1> QED  BY <1>1, <1>2, <1>3, Types, PTL DEF Spec

-------------------------------------------------------------------------------
(* What an execution prepares, and what its steps leave to the others.       *)

Full(t, z) == \A e \in Entries : dir[t][e] = z

\* What the execution of j has prepared is of the definition its row shows.
Prepared(j) ==
  /\ step[j] \in {"prepare", "copy", "ready"} => spec[j] = job[j].sha
  /\ step[j] \in {"prepare", "copy"} => Full(job[j].task, job[j].sha)
  /\ step[j] = "copy" => listed[j] = {"b"} /\ copied[j]["a"] = job[j].sha
  /\ step[j] = "ready" => \A e \in Files : copied[j][e] = job[j].sha

\* A directory nobody has begun to remove is of one zip, or empty.
Whole(t) == \E z \in Zips \cup {NoZip} : Full(t, z)

CacheInv ==
  /\ \A t \in Tasks \ half : Whole(t)
  /\ \A j \in Jobs \ undercut : Prepared(j)

\* So a hit on it finds the whole definition of the row.
LEMMA HitIsFull ==
  ASSUME TypeInv, CacheInv, NEW j \in Jobs, job[j].task \in Tasks \ half, IsHit(j)
  PROVE  Full(job[j].task, job[j].sha)
<1>1. PICK z \in Zips \cup {NoZip} : Full(job[j].task, z)  BY DEF CacheInv, Whole
<1> QED  BY <1>1 DEF IsHit, Dir, Full, Entries

\* An execution writes to its own workspace, and to the directory and the lock
\* of its task.
LEMMA OwnFiles ==
  ASSUME TypeInv, NEW j \in Jobs, Preparing(j) \/ DownloadFails(j)
  PROVE  /\ \A k \in Jobs \ {j} : /\ spec'[k] = spec[k] /\ listed'[k] = listed[k]
                                  /\ copied'[k] = copied[k]
         /\ \A t \in Tasks \ {job[j].task} : dir'[t] = dir[t] /\ lock'[t] = lock[t]
<1>1. /\ spec \in [Jobs -> Zips \cup {NoZip}] /\ listed \in [Jobs -> SUBSET Files]
      /\ copied \in [Jobs -> [Files -> Zips \cup {NoZip}]]
      /\ dir \in [Tasks -> [Entries -> Zips \cup {NoZip}]]
      /\ lock \in [Tasks -> Jobs \cup {0}]
  BY DEF TypeInv, CacheTypes
<1>2. CASE Ensure(j) \/ EnsureLocked(j)
  BY <1>1, <1>2 DEF Ensure, EnsureLocked, UseDir, LoadSpec
<1>3. CASE Download(j) \/ DownloadFails(j)
  BY <1>1, <1>3 DEF Download, DownloadFails
<1>4. ASSUME NEW e \in Entries, RemoveEntry(j, e)
      PROVE  /\ UNCHANGED <<spec, listed, copied, lock>>
             /\ \A t \in Tasks \ {job[j].task} : dir'[t] = dir[t]
  BY <1>1, <1>4 DEF RemoveEntry
<1>5. CASE Rename(j)  BY <1>1, <1>5 DEF Rename, LoadSpec
<1>6. CASE ListFiles(j)  BY <1>1, <1>6 DEF ListFiles
<1>7. CASE CopyRest(j)  BY <1>1, <1>7 DEF CopyRest
<1> QED  BY <1>2, <1>3, <1>4, <1>5, <1>6, <1>7 DEF Preparing

\* What a whole directory gives, the execution passes on to its workspace.
LEMMA PreparedStep ==
  ASSUME TypeInv, CacheInv, NEW j \in Jobs \ undercut', j \notin undercut,
         Preparing(j) \/ DownloadFails(j)
  PROVE  Prepared(j)'
<1>0. PICK t \in Tasks, sha \in Zips : t = job[j].task /\ sha = job[j].sha
  BY PreparingShape, UnderwayFacts
<1>1. /\ sha # NoZip
      /\ spec \in [Jobs -> Zips \cup {NoZip}] /\ listed \in [Jobs -> SUBSET Files]
      /\ copied \in [Jobs -> [Files -> Zips \cup {NoZip}]]
      /\ dir \in [Tasks -> [Entries -> Zips \cup {NoZip}]]
      /\ step \in [Jobs -> Steps]
  BY <1>0, PreparingShape, UnderwayFacts DEF TypeInv, CacheTypes, JobTypes
<1>2. job'[j].task = t /\ job'[j].sha = sha
  BY <1>0, PreparingShape, MovingTypes
<1>3. CASE Ensure(j) \/ EnsureLocked(j)
  <2>1. CASE IsHit(j)
    <3>1. dir' = dir /\ t \notin half
      BY <1>0, <1>3, <2>1 DEF Ensure, EnsureLocked, UseDir
    <3>2. Full(t, sha)  BY <1>0, <2>1, <3>1, HitIsFull
    <3>3. Dir(j)["toml"] = sha  BY <1>0, <3>2 DEF Full, Dir, Entries
    <3>4. step' = [step EXCEPT ![j] = "prepare"] /\ spec' = [spec EXCEPT ![j] = sha]
      BY <1>1, <1>3, <2>1, <3>3 DEF Ensure, EnsureLocked, UseDir, LoadSpec
    <3>5. step'[j] = "prepare" /\ spec'[j] = sha  BY <1>1, <3>4
    <3>6. Full(t, sha)'  BY <3>1, <3>2 DEF Full
    <3> QED  BY <1>2, <3>5, <3>6 DEF Prepared
  <2>2. CASE ~IsHit(j)
    <3>1. step'[j] \in {"lock", "download"}
      BY <1>1, <1>3, <2>2 DEF Ensure, EnsureLocked
    <3> QED  BY <3>1 DEF Prepared
  <2> QED  BY <2>1, <2>2
<1>4. CASE Download(j) \/ DownloadFails(j)
  <2>1. step'[j] \in {"install", "failed"}
    BY <1>1, <1>4 DEF Download, DownloadFails, Fails
  <2> QED  BY <2>1 DEF Prepared
<1>5. ASSUME NEW e \in Entries, RemoveEntry(j, e) PROVE Prepared(j)'
  <2>1. step'[j] = "install"  BY <1>5 DEF RemoveEntry
  <2> QED  BY <2>1 DEF Prepared
<1>6. CASE Rename(j)
  <2> DEFINE d == [e \in Entries |-> sha]
  <2>1. dir' = [dir EXCEPT ![t] = d] /\ LoadSpec(j, d)
    BY <1>0, <1>6 DEF Rename
  <2>2. d["toml"] = sha  BY DEF Entries
  <2>3. step' = [step EXCEPT ![j] = "prepare"] /\ spec' = [spec EXCEPT ![j] = sha]
    BY <1>1, <2>1, <2>2 DEF LoadSpec
  <2>4. Full(t, sha)'  BY <1>1, <2>1 DEF Full
  <2>5. step'[j] = "prepare" /\ spec'[j] = sha  BY <1>1, <2>3
  <2> QED  BY <1>2, <2>4, <2>5 DEF Prepared
<1>7. CASE ListFiles(j)
  <2>1. dir' = dir /\ spec' = spec /\ Full(t, sha) /\ spec[j] = sha
    BY <1>0, <1>7 DEF ListFiles, CacheInv, Prepared
  <2>2. CASE Dir(j) = EmptyDir
    <3>1. step'[j] = "failed"  BY <1>1, <1>7, <2>2 DEF ListFiles, Fails
    <3> QED  BY <3>1 DEF Prepared
  <2>3. CASE Dir(j) # EmptyDir
    <3>1. {e \in {"a", "b"} : Dir(j)[e] # NoZip} = {"a", "b"}
      BY <1>0, <1>1, <2>1 DEF Full, Dir, Entries
    <3>2. {"a", "b"} \ {"a"} = {"b"}  OBVIOUS
    <3>3. /\ step' = [step EXCEPT ![j] = "copy"]
          /\ listed' = [listed EXCEPT ![j] = {"b"}]
          /\ copied' = [copied EXCEPT ![j]["a"] = Dir(j)["a"]]
      BY <1>7, <2>3, <3>1, <3>2 DEF ListFiles
    <3>4. Dir(j)["a"] = sha  BY <1>0, <2>1 DEF Full, Dir, Entries
    <3>5. step'[j] = "copy" /\ listed'[j] = {"b"} /\ copied'[j]["a"] = sha
      BY <1>1, <3>3, <3>4 DEF Files
    <3>6. Full(t, sha)'  BY <2>1 DEF Full
    <3> QED  BY <1>2, <2>1, <3>5, <3>6 DEF Prepared
  <2> QED  BY <2>2, <2>3
<1>8. CASE CopyRest(j)
  <2>1. /\ spec' = spec /\ Full(t, sha) /\ spec[j] = sha
        /\ listed[j] = {"b"} /\ copied[j]["a"] = sha
    BY <1>0, <1>8 DEF CopyRest, CacheInv, Prepared
  <2>2. Dir(j)["b"] = sha /\ listed[j] # {}  BY <1>0, <2>1 DEF Full, Dir, Entries
  <2>3. step' = [step EXCEPT ![j] = "ready"]
        /\ copied' = [copied EXCEPT ![j]["b"] = sha]
    BY <1>1, <1>8, <2>2 DEF CopyRest
  <2>4. step'[j] = "ready" /\ copied'[j]["a"] = sha /\ copied'[j]["b"] = sha
        /\ spec'[j] = sha
    BY <1>1, <2>1, <2>3 DEF Files
  <2> QED  BY <1>2, <2>4 DEF Prepared, Files
<1> QED  BY <1>3, <1>4, <1>5, <1>6, <1>7, <1>8 DEF Preparing

-------------------------------------------------------------------------------
(* The cache directories, whatever the number of executions that share them. *)

\* Steps that touch no execution and no row of one.
LEMMA CacheSame ==
  ASSUME TypeInv, CacheInv, UNCHANGED <<runner, half, undercut>>,
         \A j \in Jobs : job'[j] = job[j] \/ step[j] = "none"
  PROVE  CacheInv'
<1>1. UNCHANGED <<step, spec, listed, copied, dir>>  BY DEF runner
<1>2. \A t \in Tasks \ half : Whole(t)'  BY <1>1 DEF CacheInv, Whole, Full
<1>3. ASSUME NEW j \in Jobs \ undercut PROVE Prepared(j)'
  <2>1. CASE step[j] = "none"  BY <1>1, <2>1 DEF Prepared
  <2>2. CASE job'[j] = job[j]
    <3>1. Prepared(j)  BY DEF CacheInv
    <3> QED  BY <1>1, <2>2, <3>1 DEF Prepared, Full
  <2> QED  BY <2>1, <2>2
<1> QED  BY <1>2, <1>3 DEF CacheInv

\* An execution changes at most the directory of its task; who uses that then
\* is undercut.
LEMMA CachePreparing ==
  ASSUME TypeInv, CacheInv, NEW j \in Jobs, Preparing(j) \/ DownloadFails(j)
  PROVE  CacheInv'
<1>0. PICK t \in Tasks, sha \in Zips : t = job[j].task /\ sha = job[j].sha
  BY PreparingShape, UnderwayFacts
<1>1. /\ sha # NoZip /\ \A u \in Tasks \ {t} : dir'[u] = dir[u]
      /\ dir \in [Tasks -> [Entries -> Zips \cup {NoZip}]]
  BY <1>0, PreparingShape, OwnFiles, UnderwayFacts DEF TypeInv, CacheTypes
<1>2. /\ undercut \subseteq undercut'
      /\ \A u \in Tasks \ {t} : u \in half' <=> u \in half
  BY <1>0 DEF Preparing, DownloadFails, Ensure, EnsureLocked, UseDir, Download,
     RemoveEntry, Rename, ListFiles, CopyRest, ghosts
<1>3. \A k \in Jobs \ {j} :
        /\ step'[k] = step[k] /\ job'[k] = job[k] /\ spec'[k] = spec[k]
        /\ listed'[k] = listed[k] /\ copied'[k] = copied[k]
  BY PreparingShape, MovingTypes, OwnFiles
<1>4. \/ dir' = dir /\ half' = half
      \/ Rename(j)
      \/ \E e \in Entries : RemoveEntry(j, e)
  BY DEF Preparing, DownloadFails, Ensure, EnsureLocked, Download, ListFiles,
     CopyRest, ghosts
<1>5. t \notin half' => Whole(t)'
  <2>1. CASE dir' = dir /\ half' = half
    BY <2>1 DEF CacheInv, Whole, Full
  <2>2. CASE Rename(j)
    <3>1. dir' = [dir EXCEPT ![t] = [e \in Entries |-> sha]]
      BY <1>0, <2>2 DEF Rename
    <3>2. Full(t, sha)'  BY <1>1, <3>1 DEF Full
    <3> QED  BY <3>2 DEF Whole, Full
  <2>3. CASE \E e \in Entries : RemoveEntry(j, e)
    BY <1>0, <2>3 DEF RemoveEntry
  <2> QED  BY <1>4, <2>1, <2>2, <2>3
<1>6. \A u \in Tasks \ half' : Whole(u)'
  BY <1>1, <1>2, <1>5 DEF CacheInv, Whole, Full
<1>7. ASSUME NEW k \in Jobs \ undercut' PROVE Prepared(k)'
  <2>1. CASE k = j  BY <1>2, <1>7, <2>1, PreparedStep
  <2>2. CASE k # j
    <3>1. Prepared(k) /\ k \in Jobs  BY <1>2, <1>7 DEF CacheInv
    <3>2. ASSUME step[k] \in {"prepare", "copy"}
          PROVE  Full(job[k].task, job[k].sha)'
      <4>1. /\ job[k].task \in Tasks /\ Full(job[k].task, job[k].sha)
            /\ job[k].sha # NoZip
        BY <3>1, <3>2, UnderwayFacts DEF Prepared, Underway
      <4>2. CASE job[k].task # t
        BY <1>1, <1>3, <2>2, <3>1, <4>1, <4>2 DEF Full
      <4>3. CASE job[k].task = t
        <5>1. ~Rename(j)
          BY <1>0, <4>1, <4>3 DEF Rename, Dir, EmptyDir, Full, Entries
        <5>2. \A e \in Entries : ~RemoveEntry(j, e)
          BY <1>0, <1>7, <3>1, <3>2, <4>3 DEF RemoveEntry, UsersOf
        <5>3. dir' = dir  BY <1>4, <5>1, <5>2
        <5> QED  BY <1>3, <2>2, <3>1, <4>1, <5>3 DEF Full
      <4> QED  BY <4>2, <4>3
    <3> QED  BY <1>3, <2>2, <3>1, <3>2 DEF Prepared
  <2> QED  BY <2>1, <2>2
<1> QED  BY <1>6, <1>7 DEF CacheInv

\* A claim, a retry and a crash leave the directories alone, and the executions
\* that go on or have ended.
LEMMA CacheRestart ==
  ASSUME TypeInv, CacheInv, UNCHANGED <<dir, half>>, NEW js \in SUBSET Jobs,
         undercut \subseteq undercut' \cup js,
         \A j \in js : step'[j] \in {"none", "ensure"},
         \A j \in Jobs \ js : /\ step'[j] = step[j] /\ job'[j] = job[j]
                             /\ spec'[j] = spec[j] /\ listed'[j] = listed[j]
                             /\ copied'[j] = copied[j]
  PROVE  CacheInv'
<1>1. \A t \in Tasks \ half : Whole(t)'  BY DEF CacheInv, Whole, Full
<1>2. ASSUME NEW j \in Jobs \ undercut' PROVE Prepared(j)'
  <2>1. CASE j \in js  BY <2>1 DEF Prepared
  <2>2. CASE j \notin js
    <3>1. Prepared(j)  BY <1>2, <2>2 DEF CacheInv
    <3> QED  BY <1>2, <2>2, <3>1 DEF Prepared, Full
  <2> QED  BY <2>1, <2>2
<1> QED  BY <1>1, <1>2 DEF CacheInv

\* The cache is kept by every step.
LEMMA CacheStep ==
  ASSUME TypeInv, CacheInv, [Next]_vars
  PROVE  CacheInv'
<1>1. CASE UNCHANGED vars
  BY <1>1, CacheSame DEF vars, backend, ghosts
<1>2. CASE StoreActs
  <2>1. UNCHANGED <<job, runner, half, undercut>>
    BY <1>2 DEF StoreActs, UploadTask, DeleteTask, BeginCreate, BeginUpdate,
       EndUpdate, ServerCrash, ghosts
  <2> QED  BY <2>1, CacheSame
<1>3. CASE EndCreate
  <2>1. /\ UNCHANGED <<runner, half, undercut>> /\ nextJob \in Jobs
        /\ \A j \in Jobs \ {nextJob} : job'[j] = job[j]
    BY <1>3 DEF EndCreate, TypeInv, JobTypes, ghosts
  <2>2. step[nextJob] = "none"
    BY <2>1, Constants DEF TypeInv, JobTypes, InStep
  <2> QED  BY <2>1, <2>2, CacheSame
<1>4. ASSUME NEW j \in Jobs, ClaimJob(j) PROVE CacheInv'
  <2>1. UNCHANGED <<dir, half, spec, listed, copied>> /\ undercut' = undercut \ {j}
    BY <1>4 DEF ClaimJob
  <2>2. step'[j] = "ensure" /\ \A k \in Jobs \ {j} : job'[k] = job[k] /\ step'[k] = step[k]
    BY <1>4, ClaimTypes
  <2>3. {j} \in SUBSET Jobs /\ undercut \subseteq undercut' \cup {j}
    BY <2>1
  <2>4. /\ \A k \in {j} : step'[k] \in {"none", "ensure"}
        /\ \A k \in Jobs \ {j} : /\ step'[k] = step[k] /\ job'[k] = job[k]
                               /\ spec'[k] = spec[k] /\ listed'[k] = listed[k]
                               /\ copied'[k] = copied[k]
    BY <2>1, <2>2
  <2> QED  BY <2>1, <2>3, <2>4, CacheRestart
<1>5. ASSUME NEW js \in SUBSET Jobs, Forget(js), UNCHANGED <<dir, half, undercut>>,
             \A j \in js : job[j].status # "absent"
      PROVE  CacheInv'
  <2>1. /\ \A k \in js : step'[k] \in {"none", "ensure"}
        /\ \A k \in Jobs \ js : /\ step'[k] = step[k] /\ job'[k] = job[k]
                              /\ spec'[k] = spec[k] /\ listed'[k] = listed[k]
                              /\ copied'[k] = copied[k]
    BY <1>5, Forgotten
  <2>2. undercut \subseteq undercut' \cup js  BY <1>5
  <2> QED  BY <1>5, <2>1, <2>2, CacheRestart
<1>6. ASSUME NEW j \in Jobs, RetryJob(j) PROVE CacheInv'
  <2>1. Forget({j}) /\ UNCHANGED <<dir, half, undercut>>
        /\ \A k \in {j} : job[k].status # "absent"
    BY <1>6 DEF RetryJob, ghosts
  <2>2. {j} \in SUBSET Jobs  OBVIOUS
  <2> QED  BY <1>5, <2>1, <2>2
<1>7. ASSUME NEW j \in Jobs, Preparing(j) \/ DownloadFails(j) PROVE CacheInv'
  BY <1>7, CachePreparing
<1>8. CASE RunnerCrash
  <2>1. Forget(Executing) /\ UNCHANGED <<dir, half, undercut>>
    BY <1>8 DEF RunnerCrash, ghosts
  <2>2. Executing \in SUBSET Jobs  BY DEF Executing
  <2>3. \A j \in Executing : job[j].status # "absent"
    BY <2>2, ExecutingIsUnderway, UnderwayFacts
  <2> QED  BY <1>5, <2>1, <2>2, <2>3
<1> QED
  BY <1>1, <1>2, <1>3, <1>4, <1>6, <1>7, <1>8 DEF Next, Using, Administering, StoreActs

\* The cache is as CacheInv says in every reachable state.
LEMMA CacheAlways == Spec => []CacheInv
<1>1. Init => CacheInv
  <2> SUFFICES ASSUME Init PROVE CacheInv
    OBVIOUS
  <2>1. \A t \in Tasks : Full(t, NoZip)  BY DEF Init, Full, EmptyDir
  <2>2. \A t \in Tasks : Whole(t)  BY <2>1 DEF Whole, Full
  <2>3. \A j \in Jobs : Prepared(j)  BY DEF Init, Prepared
  <2> QED  BY <2>2, <2>3 DEF CacheInv
<1>2. TypeInv /\ CacheInv /\ [Next]_vars => CacheInv'  BY CacheStep
<1> QED  BY <1>1, <1>2, Types, PTL DEF Spec

\* A workspace that is ready holds the definition its job's row shows, however
\* many executions share the cache directory of the task, unless the job met
\* the directory between rmtree and rename.
THEOREM Runs == Spec => []RunsItsDefinition
<1>1. TypeInv /\ CacheInv => RunsItsDefinition
  <2> SUFFICES ASSUME TypeInv, CacheInv, NEW j \in Jobs, step[j] = "ready",
                      j \notin undercut
               PROVE  WorkspaceIsOf(j, job[j].sha)
    BY DEF RunsItsDefinition
  <2>1. spec[j] = job[j].sha /\ \A e \in Files : copied[j][e] = job[j].sha
    BY DEF CacheInv, Prepared
  <2>2. copied[j] \in [Files -> Zips \cup {NoZip}]  BY DEF TypeInv, CacheTypes
  <2> QED  BY <2>1, <2>2 DEF Files, WorkspaceIsOf
<1> QED  BY <1>1, CacheAlways, Types, PTL

-------------------------------------------------------------------------------
(* Why preparing fails.                                                      *)

\* The definition of an execution whose task did not change is in the table.
CauseInv ==
  /\ \A j \in Executing \ changed : task[job[j].task] = job[j].sha
  /\ FailsForACause

\* A definition that changes outdates the executions that started from it.
LEMMA CauseStore ==
  ASSUME TypeInv, CauseInv, NEW t, UNCHANGED <<job, step, undercut>>,
         \A u \in Tasks \ {t} : task'[u] = task[u],
         changed \subseteq changed',
         \A j \in Executing : job[j].task = t => j \in changed'
  PROVE  CauseInv'
<1>1. Executing' = Executing  BY DEF Executing
<1>2. \A j \in Executing : job[j].task \in Tasks
  BY ExecutingIsUnderway, UnderwayFacts DEF Executing
<1>3. ASSUME NEW j \in Executing \ changed' PROVE task'[job[j].task] = job[j].sha
  <2>1. job[j].task \in Tasks \ {t}  BY <1>2, <1>3
  <2> QED  BY <1>3, <2>1 DEF CauseInv
<1> QED  BY <1>1, <1>3 DEF CauseInv, FailsForACause

\* Steps that neither start nor fail an execution, nor touch a definition.
LEMMA CauseSame ==
  ASSUME TypeInv, CauseInv, task' = task, changed \subseteq changed',
         undercut \subseteq undercut',
         \A j \in Jobs : \/ step'[j] = "none"
                         \/ step'[j] = step[j] /\ job'[j] = job[j]
  PROVE  CauseInv'
<1>1. \A j \in Executing' : j \in Executing /\ job'[j] = job[j]
  BY DEF Executing
<1> QED  BY <1>1 DEF CauseInv, FailsForACause

\* A claim records the definition the table has, or marks its job.
LEMMA CauseClaim ==
  ASSUME TypeInv, CauseInv, NEW j \in Jobs, ClaimJob(j)
  PROVE  CauseInv'
<1>1. /\ task' = task /\ undercut' = undercut \ {j}
      /\ changed \ {j} \subseteq changed'
      /\ task[job[j].task] = NoZip => j \in changed'
  BY DEF ClaimJob
<1>2. /\ step'[j] = "ensure" /\ job'[j].task = job[j].task /\ job'[j].sha = Snapshot(j)
      /\ \A k \in Jobs \ {j} : step'[k] = step[k] /\ job'[k] = job[k]
  BY ClaimTypes
<1>3. ASSUME NEW k \in Executing' \ changed' PROVE task'[job'[k].task] = job'[k].sha
  <2>1. CASE k = j  BY <1>1, <1>2, <1>3, <2>1 DEF Snapshot
  <2>2. CASE k # j
    <3>1. k \in Executing \ changed /\ job'[k] = job[k]
      BY <1>1, <1>2, <1>3, <2>2 DEF Executing
    <3> QED  BY <1>1, <3>1 DEF CauseInv
  <2> QED  BY <2>1, <2>2
<1> QED  BY <1>1, <1>2, <1>3 DEF CauseInv, FailsForACause

\* An execution whose task did not change and that met no half-removed directory
\* goes on, or finds its zip lost.
LEMMA NoFailure ==
  ASSUME TypeInv, StoreInv, CacheInv, CauseInv, NEW j \in Jobs, Preparing(j),
         j \notin undercut, j \notin undercut', j \notin changed, j \notin changed'
  PROVE  step'[j] # "failed"
<1>0. PICK t \in Tasks, z \in Zips : t = job[j].task /\ z = job[j].sha
  BY PreparingShape, UnderwayFacts
<1>1. /\ step[j] \in Underway /\ step \in [Jobs -> Steps]
      /\ spec \in [Jobs -> Zips \cup {NoZip}]
  BY PreparingShape DEF TypeInv, JobTypes, CacheTypes
<1>2. task[t] = z /\ z # NoZip /\ z \in stored \cup lost
  <2>1. j \in Executing \ changed  BY <1>1, UnderwayFacts
  <2> QED  BY <1>0, <2>1 DEF CauseInv, StoreInv, ZipOfEveryDefinition
<1>3. Prepared(j)  BY DEF CacheInv
<1>4. ASSUME NEW d, d["toml"] = z, LoadSpec(j, d) PROVE step'[j] # "failed"
  <2>1. step' = [step EXCEPT ![j] = "prepare"]  BY <1>2, <1>4 DEF LoadSpec
  <2> QED  BY <1>1, <2>1
<1>5. CASE Ensure(j) \/ EnsureLocked(j)
  <2>2. CASE IsHit(j)
    <3>0. t \notin half
      BY <1>0, <1>5, <2>2 DEF Ensure, EnsureLocked, UseDir
    <3>1. Full(t, z)  BY <1>0, <2>2, <3>0, HitIsFull
    <3>2. Dir(j)["toml"] = z  BY <1>0, <3>1 DEF Full, Dir, Entries
    <3>3. step' = [step EXCEPT ![j] = "prepare"]
      BY <1>2, <1>5, <2>2, <3>2 DEF Ensure, EnsureLocked, UseDir, LoadSpec
    <3> QED  BY <1>1, <3>3
  <2>3. CASE ~IsHit(j)
    <3>1. step' = [step EXCEPT ![j] = "lock"] \/ step' = [step EXCEPT ![j] = "download"]
      BY <1>5, <2>3 DEF Ensure, EnsureLocked
    <3> QED  BY <1>1, <3>1
  <2> QED  BY <2>2, <2>3
<1>6. CASE Download(j)
  <2>1. Verified(j, z)  BY <1>0 DEF Verified
  <2>2. CASE z \in stored
    <3>1. step' = [step EXCEPT ![j] = "install"]
      BY <1>0, <1>2, <1>6, <2>1, <2>2 DEF Download
    <3> QED  BY <1>1, <3>1
  <2>3. CASE z \notin stored
    <3>1. j \in changed'  BY <1>0, <1>2, <1>6, <2>3 DEF Download
    <3> QED  BY <3>1
  <2> QED  BY <2>2, <2>3
<1>7. ASSUME NEW e \in Entries, RemoveEntry(j, e) PROVE step'[j] # "failed"
  BY <1>7 DEF RemoveEntry
<1>8. CASE Rename(j)
  <2> DEFINE d == [e \in Entries |-> job[j].sha]
  <2>1. LoadSpec(j, d)  BY <1>8 DEF Rename
  <2>2. d["toml"] = z  BY <1>0 DEF Entries
  <2>3. step' = [step EXCEPT ![j] = "prepare"]  BY <1>2, <2>1, <2>2 DEF LoadSpec
  <2> QED  BY <1>1, <2>3
<1>9. CASE ListFiles(j)
  <2>1. Full(t, z)  BY <1>0, <1>3, <1>9 DEF ListFiles, Prepared
  <2>2. Dir(j) # EmptyDir  BY <1>0, <1>2, <2>1 DEF Full, Dir, EmptyDir, Entries
  <2>3. step' = [step EXCEPT ![j] = "copy"]  BY <1>9, <2>2 DEF ListFiles
  <2> QED  BY <1>1, <2>3
<1>10. CASE CopyRest(j)
  <2>1. Full(t, z)  BY <1>0, <1>3, <1>10 DEF CopyRest, Prepared
  <2>2. Dir(j)["b"] # NoZip  BY <1>0, <1>2, <2>1 DEF Full, Dir, Entries
  <2>3. step' = [step EXCEPT ![j] = "ready"]  BY <1>10, <2>2 DEF CopyRest
  <2> QED  BY <1>1, <2>3
<1> QED  BY <1>5, <1>6, <1>7, <1>8, <1>9, <1>10 DEF Preparing

\* A step of an execution, or the failure of its download.
LEMMA CauseMove ==
  ASSUME TypeInv, StoreInv, CacheInv, CauseInv, NEW j \in Jobs,
         Preparing(j) \/ DownloadFails(j)
  PROVE  CauseInv'
<1>1. /\ step[j] \in Underway /\ task' = task
      /\ step'[j] # "none" /\ job'[j].task = job[j].task /\ job'[j].sha = job[j].sha
      /\ \A k \in Jobs \ {j} : step'[k] = step[k] /\ job'[k] = job[k]
  <2>1. PICK s : MovesTo(j, s)  BY PreparingShape
  <2>2. s # "none"  BY <2>1 DEF MovesTo
  <2> QED  BY <2>1, <2>2, PreparingShape, MovingTypes
<1>2. /\ changed \subseteq changed' /\ (DownloadFails(j) => j \in changed')
      /\ undercut \subseteq undercut'
  BY DEF Preparing, DownloadFails, Ensure, EnsureLocked, UseDir, Download,
     RemoveEntry, Rename, ListFiles, CopyRest, ghosts
<1>3. ASSUME NEW k \in Executing' \ changed' PROVE task'[job'[k].task] = job'[k].sha
  <2>1. k \in Executing \ changed
    BY <1>1, <1>2, <1>3, ExecutingIsUnderway DEF Executing
  <2>2. job'[k].task = job[k].task /\ job'[k].sha = job[k].sha
    BY <1>1, <2>1 DEF Executing
  <2> QED  BY <1>1, <2>1, <2>2 DEF CauseInv
<1>4. ASSUME NEW k \in Jobs, step'[k] = "failed", k \notin undercut'
      PROVE  k \in changed'
  <2>1. CASE k = j
    <3>1. CASE DownloadFails(j)  BY <1>2, <2>1, <3>1
    <3>2. CASE Preparing(j)
      BY <1>2, <1>4, <2>1, <3>2, NoFailure
    <3> QED  BY <3>1, <3>2
  <2>2. CASE k # j
    BY <1>1, <1>2, <1>4, <2>2 DEF CauseInv, FailsForACause
  <2> QED  BY <2>1, <2>2
<1> QED  BY <1>3, <1>4 DEF CauseInv, FailsForACause

\* Each step.
LEMMA CauseStep ==
  ASSUME TypeInv, StoreInv, CacheInv, CauseInv, [Next]_vars
  PROVE  CauseInv'
<1>0. task \in [Tasks -> Zips \cup {NoZip}]  BY DEF TypeInv, StoreTypes
<1>1. ASSUME NEW z \in Zips, UploadTask(z) PROVE CauseInv'
  <2>1. UNCHANGED <<job, step, undercut, changed>>  BY <1>1 DEF UploadTask, runner
  <2>2. CASE task' = task  BY <2>1, <2>2, CauseSame
  <2>3. CASE nextTask \in Tasks /\ task' = [task EXCEPT ![nextTask] = z]
    <3>1. PICK t \in Tasks : t = nextTask  BY <2>3
    <3>2. \A u \in Tasks \ {t} : task'[u] = task[u]  BY <1>0, <2>3, <3>1
    <3>3. task[t] = NoZip  BY <3>1, Constants DEF StoreInv
    <3>4. \A j \in Executing : job[j].task = t => j \in changed'
      <4> SUFFICES ASSUME NEW j \in Executing, job[j].task = t, j \notin changed
                   PROVE  FALSE
        BY <2>1
      <4>1. job[j].sha # NoZip
        BY ExecutingIsUnderway, UnderwayFacts DEF Executing
      <4> QED  BY <3>3, <4>1 DEF CauseInv
    <3> QED  BY <2>1, <3>2, <3>4, CauseStore
  <2> QED  BY <1>1, <2>2, <2>3 DEF UploadTask
<1>2. ASSUME NEW t \in Tasks, NEW z, UNCHANGED <<job, step, undercut>>,
             task' = [task EXCEPT ![t] = z], Outdates(t)
      PROVE  CauseInv'
  <2>1. \A u \in Tasks \ {t} : task'[u] = task[u]  BY <1>0, <1>2
  <2>2. changed \subseteq changed' /\ \A j \in Executing : job[j].task = t => j \in changed'
    BY <1>2 DEF Outdates
  <2> QED  BY <1>2, <2>1, <2>2, CauseStore
<1>3. ASSUME NEW t \in Tasks, DeleteTask(t) PROVE CauseInv'
  BY <1>2, <1>3 DEF DeleteTask, runner
<1>4. ASSUME NEW u \in Updates, NEW z \in Zips, EndUpdate(u, z) PROVE CauseInv'
  <2>1. UNCHANGED <<job, step, undercut>> /\ updating[u] # NoRequest
    BY <1>4 DEF EndUpdate, runner
  <2>2. PICK t \in Tasks : t = updating[u].task
    BY <2>1 DEF TypeInv, StoreTypes, Made
  <2>3. CASE UNCHANGED <<task, changed>>  BY <2>1, <2>3, CauseSame
  <2>4. CASE task' = [task EXCEPT ![t] = z] /\ Outdates(t)  BY <1>2, <2>1, <2>4
  <2> QED  BY <1>4, <2>2, <2>3, <2>4 DEF EndUpdate
<1>5. CASE ServerCrash
  <2>1. UNCHANGED <<job, step, undercut>>  BY <1>5 DEF ServerCrash, runner
  <2>2. CASE UNCHANGED <<task, changed>>  BY <2>1, <2>2, CauseSame
  <2>3. CASE \E t \in Tasks, z \in Zips \cup {NoZip} :
               task' = [task EXCEPT ![t] = z] /\ Outdates(t)
    BY <1>2, <2>1, <2>3
  <2>4. \A u \in Updates : updating[u].task # 0 => updating[u].task \in Tasks
    BY DEF TypeInv, StoreTypes, Made, NoRequest
  <2> QED  BY <1>5, <2>2, <2>3, <2>4 DEF ServerCrash
<1>6. CASE EndCreate
  <2>1. /\ UNCHANGED <<task, changed, undercut, step>> /\ nextJob \in Jobs
        /\ \A j \in Jobs \ {nextJob} : job'[j] = job[j]
    BY <1>6 DEF EndCreate, TypeInv, JobTypes, runner, ghosts
  <2>2. step[nextJob] = "none"
    BY <2>1, Constants DEF TypeInv, JobTypes, InStep
  <2> QED  BY <2>1, <2>2, CauseSame
<1>7. ASSUME NEW js \in SUBSET Jobs, Forget(js), UNCHANGED <<task, ghosts>>,
             \A j \in js : job[j].status # "absent"
      PROVE  CauseInv'
  <2>1. \A j \in Jobs : \/ step'[j] = "none"
                        \/ step'[j] = step[j] /\ job'[j] = job[j]
    BY <1>7, Forgotten
  <2>2. UNCHANGED <<task, changed, undercut>>  BY <1>7 DEF ghosts
  <2> QED  BY <2>1, <2>2, CauseSame
<1>8. ASSUME NEW j \in Jobs, ClaimJob(j) PROVE CauseInv'
  BY <1>8, CauseClaim
<1>9. ASSUME NEW j \in Jobs, Preparing(j) \/ DownloadFails(j) PROVE CauseInv'
  BY <1>9, CauseMove
<1>10. CASE RunnerCrash
  <2>1. Forget(Executing) /\ UNCHANGED <<task, ghosts>>  BY <1>10 DEF RunnerCrash
  <2>2. Executing \in SUBSET Jobs  BY DEF Executing
  <2>3. \A j \in Executing : job[j].status # "absent"
    BY <2>2, ExecutingIsUnderway, UnderwayFacts
  <2> QED  BY <1>7, <2>1, <2>2, <2>3
<1>11. ASSUME NEW j \in Jobs, RetryJob(j) PROVE CauseInv'
  <2>1. /\ Forget({j}) /\ UNCHANGED <<task, ghosts>>
        /\ \A k \in {j} : job[k].status # "absent"
    BY <1>11 DEF RetryJob
  <2>2. {j} \in SUBSET Jobs  OBVIOUS
  <2> QED  BY <1>7, <2>1, <2>2
<1>12. CASE \/ UNCHANGED vars
            \/ \E t \in Tasks : BeginCreate(t) \/ BeginUpdate(t)
  <2>1. UNCHANGED <<task, changed, undercut, step, job>>
    BY <1>12 DEF vars, backend, runner, ghosts, BeginCreate, BeginUpdate
  <2> QED  BY <2>1, CauseSame
<1> QED
  BY <1>1, <1>3, <1>4, <1>5, <1>6, <1>8, <1>9, <1>10, <1>11, <1>12
  DEF Next, Using, Administering

\* Preparing a workspace fails only when the task changed after the claim, the
\* network failed, an overtaken update had deleted the zip, or the directory was
\* met between rmtree and rename.
THEOREM FailsExplained == Spec => []FailsForACause
<1>1. Init => StoreInv /\ CauseInv
  BY DEF Init, StoreInv, ZipOfEveryDefinition, CauseInv, FailsForACause, Executing
<1>2. TypeInv /\ StoreInv /\ [Next]_vars => StoreInv'  BY StoreStep
<1>3. TypeInv /\ StoreInv /\ CacheInv /\ CauseInv /\ [Next]_vars => CauseInv'
  BY CauseStep
<1>4. CauseInv => FailsForACause  BY DEF CauseInv
<1> QED  BY <1>1, <1>2, <1>3, <1>4, CacheAlways, Types, PTL DEF Spec
===============================================================================
