------------------------------- MODULE Migration -------------------------------
(***************************************************************************)
(* The start of the server on a workspace that an older version, or a      *)
(* former start, left behind: Database.init_db (backend/app/database.py)   *)
(* with its one transaction, the zip of the placeholder task and the log   *)
(* files it moves, against a process that may die anywhere; and what the   *)
(* jobs' users and a runner do to the same files between two starts        *)
(* (backend/app/main.py, backend/runner/executor.py).                      *)
(*                                                                         *)
(* Of the files of a job there is one log, runner.log.  Its content is the *)
(* set of the ages of the job it was written in; a job ages with every     *)
(* claim and every retry, and an id when it is given to a new job.  A      *)
(* claim or a retry clears the files with its commit: ControlPlane has the *)
(* crash between.                                                          *)
(***************************************************************************)
EXTENDS Naturals, FiniteSets, FiniteSetsExt

CONSTANTS
  MaxJobs,    \* bound: ids of jobs
  Olds,       \* the ids an older version gave, 1..n; it may have deleted their jobs
  MaxAge,     \* bound: ages of a job
  MaxCrashes, \* bound: ends of the server process
  Sharing     \* whether the runner's workspace is the server's: docker-compose.yml
              \* mounts one directory in both

Jobs == 1..MaxJobs

ASSUME MigrationAssumption ==
  /\ MaxJobs \in Nat /\ MaxAge \in Nat \ {0} /\ MaxCrashes \in Nat
  /\ \E n \in 0..MaxJobs : Olds = 1..n
  /\ Sharing \subseteq BOOLEAN

VARIABLES
  pc,      \* what init_db does next, or "down", or "up"
  disk,    \* the committed database
  tx,      \* the database as the transaction sees it
  zip,     \* tasks/{sha256}.zip of the dummy task: "absent", "torn", "whole"
  logs,    \* id -> logs/{id}-runner.log
  files,   \* id -> jobs/{id}/files/runner.log
  age,     \* id -> its age
  claimed, \* id -> the ages it was claimed in, whose executor has its log to open
  shared,  \* one of Sharing
  born,    \* ghost: id -> the age at which its job was created, 0 by the older version
  crashes

kept == <<logs, files, age, claimed, shared, born>>
vars == <<pc, disk, tx, zip, kept, crashes>>

\* jobs is the table of jobs: under the name tasks ("legacy"), renamed but
\* without task_id ("renamed"), complete ("new"), or there is none ("none").
\* rows are its jobs' status, next the id AUTOINCREMENT gives next; new is
\* jobs_new, dummy whether tasks has the dummy, seqs which table has the chunk
\* numbers.
Status == {"absent", "pending", "running", "finished"}
NoRows == [j \in Jobs |-> "absent"]
Databases == [jobs : {"none", "legacy", "renamed", "new"}, rows : [Jobs -> Status],
              next : 1..(MaxJobs + 1), new : [Jobs -> Status],
              dummy : BOOLEAN, seqs : {"old", "new"}]
Empty == [jobs |-> "none", rows |-> NoRows, next |-> 1, new |-> NoRows,
          dummy |-> FALSE, seqs |-> "new"]

Steps == {"schema", "dummy", "write", "insert", "copy", "rename", "chunks", "commit",
          "logs"}

\* A new deployment, or what an older version left: rows and logs of any jobs.
Init ==
  /\ pc = "down" /\ zip = "absent" /\ crashes = 0
  /\ \/ disk = Empty
     \/ \E rows \in [Jobs -> Status] :
          /\ \A j \in Jobs \ Olds : rows[j] = "absent"
          /\ disk = [Empty EXCEPT !.jobs = "legacy", !.rows = rows, !.seqs = "old",
                                  !.next = Cardinality(Olds) + 1]
  /\ tx = Empty /\ shared \in Sharing
  /\ \E L \in SUBSET Olds :
       logs = [j \in Jobs |-> IF j \in L /\ disk.jobs = "legacy" THEN {0} ELSE {}]
  /\ files = [j \in Jobs |-> {}]
  /\ age = [j \in Jobs |-> 0] /\ claimed = [j \in Jobs |-> {}]
  /\ born = [j \in Jobs |-> 0]

-------------------------------------------------------------------------------
(* init_db: the statements of its transaction.                               *)

At(step) == pc = step
Goto(step) == pc' = step

Start ==
  /\ At("down") /\ Goto("schema")
  /\ tx' = disk
  /\ UNCHANGED <<disk, zip, kept, crashes>>

\* ALTER TABLE tasks RENAME TO jobs, CREATE TABLE tasks, and what becomes of jobs:
\* created, rebuilt with the dummy task if it has rows, or left as it is.
Schema ==
  /\ At("schema")
  /\ tx' = [tx EXCEPT !.jobs = CASE @ = "legacy" -> "renamed"
                                 [] @ = "none"   -> "new"
                                 [] OTHER        -> @,
                      !.rows = IF tx.jobs = "none" THEN NoRows ELSE @]
  /\ Goto(IF tx'.jobs = "new" THEN "chunks"
          ELSE IF tx.rows = NoRows THEN "copy" ELSE "dummy")
  /\ UNCHANGED <<disk, zip, kept, crashes>>

\* _ensure_dummy_task: a row with its sha256, or the zip and the row.  A zip that
\* exists is taken for what it should be.
AfterDummy == IF tx.dummy THEN "copy" ELSE IF zip = "absent" THEN "write" ELSE "insert"

Opened == IF AfterDummy = "write" THEN "torn" ELSE zip

\* Fault: open(zip_path, "xb")
DummyOnce ==
  /\ At("dummy") /\ AfterDummy # "insert" /\ Goto(AfterDummy)
  /\ zip' = Opened
  /\ UNCHANGED <<disk, tx, kept, crashes>>

Dummy ==
  /\ At("dummy") /\ Goto(AfterDummy)
  /\ zip' = Opened
  /\ UNCHANGED <<disk, tx, kept, crashes>>

\* write_bytes ends.
Write ==
  /\ At("write") /\ Goto("insert")
  /\ zip' = "whole"
  /\ UNCHANGED <<disk, tx, kept, crashes>>

Insert ==
  /\ At("insert") /\ Goto("copy")
  /\ tx' = [tx EXCEPT !.dummy = TRUE]
  /\ UNCHANGED <<disk, zip, kept, crashes>>

\* _rebuild_legacy_jobs: jobs_new gets the rows of jobs, which is dropped with its
\* place in sqlite_sequence.
Copy ==
  /\ At("copy") /\ Goto("rename")
  /\ tx' = [tx EXCEPT !.new = tx.rows, !.jobs = "none", !.rows = NoRows]
  /\ UNCHANGED <<disk, zip, kept, crashes>>

Rename ==
  /\ At("rename") /\ Goto("chunks")
  /\ tx' = [tx EXCEPT !.rows = tx.new, !.jobs = "new", !.new = NoRows,
                      !.next = 1 + Max({0} \cup {j \in Jobs : tx.new[j] # "absent"})]
  /\ UNCHANGED <<disk, zip, kept, crashes>>

Chunks ==
  /\ At("chunks") /\ Goto("commit")
  /\ tx' = [tx EXCEPT !.seqs = "new"]
  /\ UNCHANGED <<disk, zip, kept, crashes>>

Commit ==
  /\ At("commit") /\ Goto("logs")
  /\ disk' = tx /\ tx' = Empty
  /\ UNCHANGED <<zip, kept, crashes>>

(* _migrate_legacy_log_files, one file after the other.                      *)

Moves(j) == logs[j] # {} /\ files[j] = {}

MoveLog(j) ==
  /\ At("logs") /\ Moves(j)
  /\ files' = [files EXCEPT ![j] = logs[j]]
  /\ logs' = [logs EXCEPT ![j] = {}]
  /\ UNCHANGED <<pc, disk, tx, zip, age, claimed, shared, born, crashes>>

\* Every file was looked at: the server serves.
Serve ==
  /\ At("logs") /\ \A j \in Jobs : ~Moves(j)
  /\ Goto("up")
  /\ UNCHANGED <<disk, tx, zip, kept, crashes>>

\* Fault: each statement is committed by itself.
CrashOfAutocommit ==
  /\ pc # "down" /\ crashes < MaxCrashes
  /\ Goto("down") /\ crashes' = crashes + 1
  /\ disk' = (IF pc \in {"logs", "up"} THEN disk ELSE tx) /\ tx' = Empty
  /\ UNCHANGED <<zip, kept>>

\* The process ends, or init_db raises and rolls back.
Crash ==
  /\ pc # "down" /\ crashes < MaxCrashes
  /\ Goto("down") /\ crashes' = crashes + 1
  /\ tx' = Empty
  /\ UNCHANGED <<disk, zip, kept>>

-------------------------------------------------------------------------------
(* The server serves, and a runner works.                                    *)

Becomes(j, s) == disk' = [disk EXCEPT !.rows[j] = s]
Older(j) == age[j] < MaxAge /\ age' = [age EXCEPT ![j] = @ + 1]

\* create_job
Create(j) ==
  /\ At("up") /\ disk.next = j /\ Older(j)
  /\ disk' = [disk EXCEPT !.rows[j] = "pending", !.next = j + 1]
  /\ born' = [born EXCEPT ![j] = age'[j]]
  /\ UNCHANGED <<pc, tx, zip, logs, files, claimed, shared, crashes>>

\* claim_pending_job and _clear_job_files.
Claim(j) ==
  /\ At("up") /\ disk.rows[j] = "pending" /\ Older(j)
  /\ Becomes(j, "running")
  /\ files' = [files EXCEPT ![j] = {}]
  /\ claimed' = [claimed EXCEPT ![j] = IF shared THEN @ \cup {age'[j]} ELSE @]
  /\ UNCHANGED <<pc, tx, zip, logs, shared, born, crashes>>

\* The executor of an attempt opens its log of the job with mode "w", whatever
\* became of the job since the claim.
OpenLog(j, a) ==
  /\ a \in claimed[j]
  /\ claimed' = [claimed EXCEPT ![j] = @ \ {a}]
  /\ logs' = [logs EXCEPT ![j] = {a}]
  /\ UNCHANGED <<pc, disk, tx, zip, files, age, shared, born, crashes>>

\* push_runner_job_file
Push(j) ==
  /\ At("up") /\ disk.rows[j] = "running" /\ age[j] > 0
  /\ shared => logs[j] = {age[j]}
  /\ files' = [files EXCEPT ![j] = @ \cup {age[j]}]
  /\ UNCHANGED <<pc, disk, tx, zip, logs, age, claimed, shared, born, crashes>>

Finish(j) ==
  /\ At("up") /\ disk.rows[j] = "running"
  /\ Becomes(j, "finished")
  /\ UNCHANGED <<pc, tx, zip, logs, files, age, claimed, shared, born, crashes>>

\* reconcile_expired_leases leaves the files to the next claim.
Requeue(j) ==
  /\ At("up") /\ disk.rows[j] = "running"
  /\ Becomes(j, "pending")
  /\ UNCHANGED <<pc, tx, zip, logs, files, age, claimed, shared, born, crashes>>

\* Fault: a status of its own for retried jobs.
RetryQueued(j) ==
  /\ At("up") /\ disk.rows[j] = "finished" /\ Older(j)
  /\ Becomes(j, "queued")
  /\ files' = [files EXCEPT ![j] = {}]
  /\ UNCHANGED <<pc, tx, zip, logs, claimed, shared, born, crashes>>

\* reset_job_for_retry and _clear_job_files; the task must still exist.
Retry(j) ==
  /\ At("up") /\ disk.rows[j] = "finished" /\ Older(j)
  /\ Becomes(j, "pending")
  /\ files' = [files EXCEPT ![j] = {}]
  /\ UNCHANGED <<pc, tx, zip, logs, claimed, shared, born, crashes>>

\* delete_job leaves the files.
Delete(j) ==
  /\ At("up") /\ disk.rows[j] \in {"pending", "finished"}
  /\ Becomes(j, "absent")
  /\ UNCHANGED <<pc, tx, zip, logs, files, age, claimed, shared, born, crashes>>

-------------------------------------------------------------------------------
Migrating ==
  \/ Start \/ Schema \/ Dummy \/ Write \/ Insert \/ Copy \/ Rename \/ Chunks
  \/ Commit \/ Serve \/ \E j \in Jobs : MoveLog(j)

Using(j) ==
  \/ Create(j) \/ Claim(j) \/ Push(j) \/ Finish(j) \/ Requeue(j) \/ Retry(j)
  \/ Delete(j) \/ \E a \in 1..MaxAge : OpenLog(j, a)

Next == Migrating \/ Crash \/ \E j \in Jobs : Using(j)

Spec == Init /\ [][Next]_vars

\* init_db runs on, and a server that ended is started again.
FairSpec == Spec /\ WF_vars(Migrating)

-------------------------------------------------------------------------------
(* Properties.                                                               *)

Exists(j) == disk.rows[j] # "absent"

TypeOK ==
  /\ pc \in Steps \cup {"down", "up"} /\ zip \in {"absent", "torn", "whole"}
  /\ disk \in Databases /\ tx \in Databases
  /\ age \in [Jobs -> 0..MaxAge] /\ shared \in BOOLEAN
  /\ born \in [Jobs -> 0..MaxAge]
  /\ claimed \in [Jobs -> SUBSET (1..MaxAge)]
  /\ logs \in [Jobs -> SUBSET (0..MaxAge)] /\ files \in [Jobs -> SUBSET (0..MaxAge)]
  /\ crashes \in 0..MaxCrashes

\* Until the server serves, a start changes no job, however often it dies: no row
\* is lost between the older table and the newer, and none shows another status.
KeepsJobs == disk'.rows = disk.rows

\* Nor does it lose a line of any log, neither of the older version's nor what
\* runners pushed since; an executor may overwrite the log of its job.
KeepsLogs ==
  \A j \in Jobs : \A a \in logs[j] \cup files[j] :
    a \in logs'[j] \cup files'[j] \/ \E b \in claimed[j] : logs'[j] = {b}

\* A start keeps the jobs and their logs, wherever it is cut short.
StartsKeepAll == [][pc # "up" => KeepsJobs /\ KeepsLogs]_vars

\* retry_job: "clear files/artifacts from prior attempts" (main.py:1288).  A job
\* that was retried, and queued or claimed again, shows nothing of an attempt
\* before.
FilesOfPriorAttemptsAreGone ==
  \A j \in Jobs : Exists(j) => files[j] \cap (born[j]..(age[j] - 1)) = {}

\* The tables are the new ones, the older version's jobs have their task, with a
\* zip, and no log of theirs is left behind but for a newer one.
Migrated ==
  /\ disk.jobs = "new" /\ disk.seqs = "new"
  /\ disk.dummy => zip # "absent"
  /\ (\E j \in Jobs : Exists(j) /\ born[j] = 0) => disk.dummy
  /\ ~shared => \A j \in Jobs : logs[j] = {}

\* However often it died, the server is up again, and all is migrated.
ServesAgain == []<>(At("up") /\ Migrated)
===============================================================================
