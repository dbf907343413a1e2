---------------------------- MODULE MigrationProofs ----------------------------
(***************************************************************************)
(* Proofs about Migration for any number of jobs, ages and crashes, and    *)
(* for any database an older version may have left.                        *)
(***************************************************************************)
EXTENDS Migration, FiniteSetTheorems, WellFoundedInduction, TLAPS

USE MigrationAssumption

\* The tables there are when no transaction is open.
Tabled ==
  /\ disk.jobs \in {"none", "legacy", "new"}
  /\ disk.jobs = "none" => disk.rows = NoRows
  /\ At("logs") \/ At("up") => disk.jobs = "new"

\* Where the jobs are while the transaction moves them.
Rebuilding == At("dummy") \/ At("write") \/ At("insert") \/ At("copy")
Rebuilt == At("chunks") \/ At("commit")

Moved ==
  /\ At("schema") => tx = disk
  /\ Rebuilding => tx.rows = disk.rows /\ tx.jobs = "renamed" /\ disk.jobs = "legacy"
  /\ At("rename") => tx.new = disk.rows /\ disk.jobs = "legacy"
  /\ Rebuilt => tx.rows = disk.rows /\ tx.jobs = "new"

IInv == TypeOK /\ Tabled /\ Moved

-------------------------------------------------------------------------------
(* Lemmas.                                                                   *)

LEMMA Maximum ==
  ASSUME NEW N \in Nat, NEW S \in SUBSET (0..N), S # {}
  PROVE  Max(S) \in S /\ \A y \in S : Max(S) >= y
<1>. DEFINE R == StrictSubsetOrdering(0..N)
            T == {s..N : s \in S}
<1>1. IsFiniteSet(0..N)
  BY FS_Interval
<1>2. \A t \in T : t \subseteq 0..N
  <2>1. ASSUME NEW s \in S
        PROVE  s..N \subseteq 0..N
    <3>1. s \in Nat
      OBVIOUS
    <3>. QED
      BY <3>1
  <2>. QED
    BY <2>1
<1>3. T \subseteq FiniteSubsetsOf(0..N) /\ T # {}
  <2>1. FiniteSubsetsOf(0..N) = SUBSET (0..N)
    BY <1>1, FS_FiniteSubsetsOfFinite
  <2>2. T # {}
    OBVIOUS
  <2>. HIDE DEF T
  <2>. QED
    BY <1>2, <2>1, <2>2
<1>4. IsWellFoundedOn(R, FiniteSubsetsOf(0..N))
  BY FS_StrictSubsetOrderingWellFounded
<1>. HIDE DEF T, R
<1>5. PICK x \in T : \A y \in T : <<y, x>> \notin R
  BY <1>3, <1>4, WFMin
<1>6. PICK s \in S : x = s..N
  BY DEF T
<1>7. ASSUME NEW y \in S
      PROVE  s >= y
  <2>1. y..N \in T
    BY DEF T
  <2>2. <<y..N, s..N>> \notin R
    BY <1>5, <1>6, <2>1
  <2>3. (y..N) \in SUBSET (0..N) /\ (s..N) \in SUBSET (0..N)
    OBVIOUS
  <2>4. ~((y..N) \subseteq (s..N)) \/ (y..N) = (s..N)
    BY <2>2, <2>3 DEF R, StrictSubsetOrdering
  <2>5. s \in Nat /\ y \in Nat /\ s <= N /\ y <= N
    OBVIOUS
  <2>. QED
    BY <2>4, <2>5
<1>. QED
  BY <1>7 DEF Max

LEMMA EmptyType == Empty \in Databases /\ NoRows \in [Jobs -> Status]
<1>1. NoRows \in [Jobs -> Status]
  BY DEF NoRows, Status
<1>2. 1 \in 1..(MaxJobs + 1)
  OBVIOUS
<1>. QED
  BY <1>1, <1>2 DEF Empty, Databases

\* AUTOINCREMENT goes on behind the last row.
LEMMA NextType ==
  ASSUME NEW rows
  PROVE  LET last == Max({0} \cup {j \in Jobs : rows[j] # "absent"})
         IN  1 + last \in 1..(MaxJobs + 1)
<1>. DEFINE S == {0} \cup {j \in Jobs : rows[j] # "absent"}
<1>1. S \in SUBSET (0..MaxJobs) /\ S # {}
  BY DEF Jobs
<1>. HIDE DEF S
<1>2. Max(S) \in 0..MaxJobs
  BY <1>1, Maximum
<1>. QED
  BY <1>2 DEF S

-------------------------------------------------------------------------------
(* The invariant is inductive.                                               *)

LEMMA InitInv == Init => IInv
<1>. SUFFICES ASSUME Init PROVE IInv
  OBVIOUS
<1>1. PICK n \in 0..MaxJobs : Olds = 1..n
  OBVIOUS
<1>2. Cardinality(Olds) + 1 \in 1..(MaxJobs + 1)
  <2>1. Cardinality(1..n) = n
    BY FS_Interval
  <2>. QED
    BY <1>1, <2>1
<1>3. disk \in Databases /\ Tabled
  <2>1. CASE disk = Empty
    BY <2>1, EmptyType DEF Empty, Tabled, Init, At
  <2>2. CASE \E rows \in [Jobs -> Status] :
               disk = [Empty EXCEPT !.jobs = "legacy", !.rows = rows, !.seqs = "old",
                                    !.next = Cardinality(Olds) + 1]
    <3>1. PICK rows \in [Jobs -> Status] :
                 disk = [Empty EXCEPT !.jobs = "legacy", !.rows = rows, !.seqs = "old",
                                      !.next = Cardinality(Olds) + 1]
      BY <2>2
    <3>2. disk \in Databases /\ disk.jobs = "legacy"
      BY <1>2, <3>1, EmptyType DEF Empty, Databases
    <3>3. ~At("logs") /\ ~At("up")
      BY DEF Init, At
    <3>. QED
      BY <3>2, <3>3 DEF Tabled
  <2>. QED
    BY <2>1, <2>2 DEF Init
<1>4. TypeOK
  <2>1. pc \in Steps \cup {"down", "up"} /\ zip \in {"absent", "torn", "whole"}
    BY DEF Init
  <2>2. tx \in Databases /\ shared \in BOOLEAN
    BY EmptyType DEF Init
  <2>3. 0 \in 0..MaxAge /\ 0 \in 0..MaxCrashes
    OBVIOUS
  <2>4. crashes \in 0..MaxCrashes /\ age \in [Jobs -> 0..MaxAge]
    BY <2>3 DEF Init
  <2>5. /\ logs \in [Jobs -> SUBSET (0..MaxAge)] /\ files \in [Jobs -> SUBSET (0..MaxAge)]
    <3>1. PICK L : logs = [j \in Jobs |-> IF j \in L /\ disk.jobs = "legacy" THEN {0} ELSE {}]
      BY DEF Init
    <3>2. files = [j \in Jobs |-> {}]
      BY DEF Init
    <3>. QED
      BY <2>3, <3>1, <3>2
  <2>6. born \in [Jobs -> 0..MaxAge] /\ claimed \in [Jobs -> SUBSET (1..MaxAge)]
    BY <2>3 DEF Init
  <2>. QED
    BY <1>3, <2>1, <2>2, <2>4, <2>5, <2>6 DEF TypeOK
<1>5. Moved
  BY DEF Init, Moved, At, Rebuilding, Rebuilt
<1>. QED
  BY <1>3, <1>4, <1>5 DEF IInv

\* A step of init_db that leaves the committed database, the logs and the ghosts
\* alone.
LEMMA StepType ==
  ASSUME IInv, tx' \in Databases, pc' \in Steps \cup {"down", "up"},
         zip' \in {"absent", "torn", "whole"}, UNCHANGED <<disk, kept, crashes>>
  PROVE  TypeOK'
BY DEF IInv, TypeOK, kept

LEMMA TransactionInv ==
  ASSUME IInv, Start \/ Schema \/ Dummy \/ Write \/ Insert \/ Copy \/ Rename \/ Chunks
  PROVE  IInv'
<1>. USE DEF At, Goto
<1>1. disk \in Databases /\ tx \in Databases /\ zip \in {"absent", "torn", "whole"}
  BY DEF IInv, TypeOK
<1>2. UNCHANGED <<disk, kept, crashes>>
  BY DEF Start, Schema, Dummy, Write, Insert, Copy, Rename, Chunks
<1>3. CASE Start
  <2>1. pc' = "schema" /\ tx' = disk /\ zip' = zip
    BY <1>3 DEF Start
  <2>. QED
    BY <1>1, <1>2, <2>1, StepType DEF IInv, Tabled, Moved, Rebuilding, Rebuilt, Steps
<1>4. CASE Schema
  <2>1. /\ pc = "schema" /\ tx = disk /\ zip' = zip
        /\ disk.jobs \in {"none", "legacy", "new"}
        /\ disk.jobs = "none" => disk.rows = NoRows
    BY <1>4 DEF Schema, IInv, Moved, Tabled
  <2>. DEFINE jobs == CASE tx.jobs = "legacy" -> "renamed"
                        [] tx.jobs = "none"   -> "new"
                        [] OTHER              -> tx.jobs
              rows == IF tx.jobs = "none" THEN NoRows ELSE tx.rows
  <2>2. tx' = [tx EXCEPT !.jobs = jobs, !.rows = rows]
    BY <1>4 DEF Schema
  <2>3. /\ rows = disk.rows /\ jobs \in {"renamed", "new"}
        /\ jobs = "renamed" => disk.jobs = "legacy"
    BY <2>1
  <2>. HIDE DEF jobs, rows
  <2>4. tx' \in Databases /\ tx'.rows = disk.rows /\ tx'.jobs = jobs
    BY <1>1, <2>2, <2>3 DEF Databases
  <2>5. pc' = IF jobs = "new" THEN "chunks" ELSE IF tx.rows = NoRows THEN "copy" ELSE "dummy"
    BY <1>4, <2>4 DEF Schema
  <2>. QED
    BY <1>1, <1>2, <2>1, <2>3, <2>4, <2>5, StepType
    DEF IInv, Tabled, Moved, Rebuilding, Rebuilt, Steps
<1>5. CASE Dummy \/ Write
  <2>1. /\ Rebuilding /\ tx' = tx /\ zip' \in {"absent", "torn", "whole"}
        /\ pc' \in {"copy", "write", "insert"}
    BY <1>1, <1>5 DEF Dummy, Write, Rebuilding, Opened, AfterDummy
  <2>. QED
    BY <1>1, <1>2, <2>1, StepType DEF IInv, Tabled, Moved, Rebuilding, Rebuilt, Steps
<1>6. CASE Insert
  <2>1. /\ Rebuilding /\ tx' = [tx EXCEPT !.dummy = TRUE] /\ zip' = zip /\ pc' = "copy"
    BY <1>6 DEF Insert, Rebuilding
  <2>2. tx' \in Databases /\ tx'.rows = tx.rows /\ tx'.jobs = tx.jobs
    BY <1>1, <2>1 DEF Databases
  <2>. QED
    BY <1>1, <1>2, <2>1, <2>2, StepType DEF IInv, Tabled, Moved, Rebuilding, Rebuilt, Steps
<1>7. CASE Copy
  <2>1. /\ Rebuilding /\ zip' = zip /\ pc' = "rename"
        /\ tx' = [tx EXCEPT !.new = tx.rows, !.jobs = "none", !.rows = NoRows]
    BY <1>7 DEF Copy, Rebuilding
  <2>2. tx' \in Databases /\ tx'.new = tx.rows
    BY <1>1, <2>1, EmptyType DEF Databases
  <2>. QED
    BY <1>1, <1>2, <2>1, <2>2, StepType DEF IInv, Tabled, Moved, Rebuilding, Rebuilt, Steps
<1>8. CASE Rename
  <2>. DEFINE next == 1 + Max({0} \cup {j \in Jobs : tx.new[j] # "absent"})
  <2>1. /\ pc = "rename" /\ zip' = zip /\ pc' = "chunks"
        /\ tx' = [tx EXCEPT !.rows = tx.new, !.jobs = "new", !.new = NoRows, !.next = next]
    BY <1>8 DEF Rename
  <2>2. next \in 1..(MaxJobs + 1)
    BY NextType
  <2>. HIDE DEF next
  <2>3. tx' \in Databases /\ tx'.rows = tx.new /\ tx'.jobs = "new"
    BY <1>1, <2>1, <2>2, EmptyType DEF Databases
  <2>. QED
    BY <1>1, <1>2, <2>1, <2>3, StepType DEF IInv, Tabled, Moved, Rebuilding, Rebuilt, Steps
<1>9. CASE Chunks
  <2>1. /\ Rebuilt /\ tx' = [tx EXCEPT !.seqs = "new"] /\ zip' = zip /\ pc' = "commit"
    BY <1>9 DEF Chunks, Rebuilt
  <2>2. tx' \in Databases /\ tx'.rows = tx.rows /\ tx'.jobs = tx.jobs
    BY <1>1, <2>1 DEF Databases
  <2>. QED
    BY <1>1, <1>2, <2>1, <2>2, StepType DEF IInv, Tabled, Moved, Rebuilding, Rebuilt, Steps
<1>. QED
  BY <1>3, <1>4, <1>5, <1>6, <1>7, <1>8, <1>9
LEMMA CommitInv ==
  ASSUME IInv, Commit
  PROVE  IInv'
<1>1. /\ Rebuilt /\ pc' = "logs" /\ disk' = tx /\ tx' = Empty
      /\ UNCHANGED <<zip, kept, crashes>>
  BY DEF Commit, At, Goto, Rebuilt
<1>2. tx.jobs = "new" /\ tx \in Databases
  BY <1>1 DEF IInv, Moved, TypeOK
<1>3. TypeOK'
  BY <1>1, <1>2, EmptyType DEF IInv, TypeOK, kept, Steps
<1>. QED
  BY <1>1, <1>2, <1>3 DEF IInv, Tabled, Moved, Rebuilding, Rebuilt, At

LEMMA LogsInv ==
  ASSUME IInv, Serve \/ \E j \in Jobs : MoveLog(j)
  PROVE  IInv'
<1>1. CASE Serve
  <2>1. At("logs") /\ pc' = "up" /\ UNCHANGED <<disk, tx, zip, kept, crashes>>
    BY <1>1 DEF Serve, Goto
  <2>2. TypeOK'
    BY <2>1 DEF IInv, TypeOK, kept
  <2>. QED
    BY <2>1, <2>2 DEF IInv, Tabled, Moved, Rebuilding, Rebuilt, At
<1>2. CASE \E j \in Jobs : MoveLog(j)
  <2>1. PICK j \in Jobs : MoveLog(j)
    BY <1>2
  <2>2. /\ files' = [files EXCEPT ![j] = logs[j]] /\ logs' = [logs EXCEPT ![j] = {}]
        /\ UNCHANGED <<pc, disk, tx, zip, age, claimed, shared, born, crashes>>
    BY <2>1 DEF MoveLog
  <2>3. /\ files' \in [Jobs -> SUBSET (0..MaxAge)] /\ logs' \in [Jobs -> SUBSET (0..MaxAge)]
    BY <2>2 DEF IInv, TypeOK
  <2>4. TypeOK'
    BY <2>2, <2>3 DEF IInv, TypeOK
  <2>. QED
    BY <2>2, <2>4 DEF IInv, Tabled, Moved, Rebuilding, Rebuilt, At
<1>. QED
  BY <1>1, <1>2

LEMMA CrashInv ==
  ASSUME IInv, Crash
  PROVE  IInv'
<1>1. /\ pc' = "down" /\ crashes < MaxCrashes /\ crashes' = crashes + 1 /\ tx' = Empty
      /\ UNCHANGED <<disk, zip, kept>>
  BY DEF Crash, Goto
<1>2. TypeOK'
  BY <1>1, EmptyType DEF IInv, TypeOK, kept
<1>. QED
  BY <1>1, <1>2 DEF IInv, Tabled, Moved, Rebuilding, Rebuilt, At

\* Between two starts the handlers change one job's row, its age, its files and
\* its log; the runner writes its log also while the server is down.
LEMMA UsingInv ==
  ASSUME IInv, NEW j \in Jobs, Using(j)
  PROVE  IInv'
<1>1. /\ disk \in Databases /\ tx \in Databases /\ j \in 1..MaxJobs
      /\ age \in [Jobs -> 0..MaxAge]
      /\ logs \in [Jobs -> SUBSET (0..MaxAge)] /\ files \in [Jobs -> SUBSET (0..MaxAge)]
  BY DEF IInv, TypeOK, Jobs
<1>2. UNCHANGED <<pc, tx, zip, shared, crashes>>
  BY DEF Using, Create, Claim, OpenLog, Push, Finish, Requeue, Retry, Delete
<1>3. disk' \in Databases /\ disk'.jobs = disk.jobs /\ (disk' = disk \/ At("up"))
  <2>1. CASE Create(j)
    <3>1. disk' = [disk EXCEPT !.rows[j] = "pending", !.next = j + 1] /\ At("up")
      BY <2>1 DEF Create
    <3>2. j + 1 \in 1..(MaxJobs + 1)
      BY <1>1
    <3>. QED
      BY <1>1, <3>1, <3>2 DEF Databases, Status
  <2>2. CASE \E s \in Status : Becomes(j, s) /\ At("up")
    <3>1. PICK s \in Status : disk' = [disk EXCEPT !.rows[j] = s]
      BY <2>2 DEF Becomes
    <3>2. disk' = [disk EXCEPT !.rows = [disk.rows EXCEPT ![j] = s]]
      BY <3>1
    <3>3. [disk.rows EXCEPT ![j] = s] \in [Jobs -> Status]
      BY <1>1 DEF Databases
    <3>. QED
      BY <1>1, <2>2, <3>2, <3>3 DEF Databases
  <2>3. CASE Push(j) \/ \E a \in 1..MaxAge : OpenLog(j, a)
    BY <1>1, <2>3 DEF OpenLog, Push
  <2>. QED
    BY <2>1, <2>2, <2>3 DEF Using, Claim, Finish, Requeue, Retry, Delete, Status
<1>4. age' \in [Jobs -> 0..MaxAge]
  <2>1. CASE age' = age
    BY <1>1, <2>1
  <2>2. CASE Older(j)
    BY <1>1, <2>2 DEF Older
  <2>. QED
    BY <2>1, <2>2 DEF Using, Create, Claim, OpenLog, Push, Finish, Requeue, Retry, Delete
<1>5. logs' \in [Jobs -> SUBSET (0..MaxAge)] /\ files' \in [Jobs -> SUBSET (0..MaxAge)]
  <2>1. age[j] \in 0..MaxAge
    BY <1>1
  <2>2. CASE \E a \in 1..MaxAge : OpenLog(j, a)
    BY <1>1, <2>2 DEF OpenLog
  <2>3. CASE Push(j)
    BY <1>1, <2>1, <2>3 DEF Push
  <2>4. CASE Create(j) \/ Claim(j) \/ Finish(j) \/ Requeue(j) \/ Retry(j) \/ Delete(j)
    BY <1>1, <2>4 DEF Create, Claim, Finish, Requeue, Retry, Delete
  <2>. QED
    BY <2>2, <2>3, <2>4 DEF Using
<1>6. born' \in [Jobs -> 0..MaxAge]
  <2>1. CASE born' = born
    BY <2>1 DEF IInv, TypeOK
  <2>2. CASE born' = [born EXCEPT ![j] = age'[j]]
    BY <1>1, <1>4, <2>2 DEF IInv, TypeOK
  <2>. QED
    BY <2>1, <2>2 DEF Using, Create, Claim, OpenLog, Push, Finish, Requeue, Retry, Delete
<1>8. claimed' \in [Jobs -> SUBSET (1..MaxAge)]
  <2>1. claimed \in [Jobs -> SUBSET (1..MaxAge)]
    BY DEF IInv, TypeOK
  <2>2. CASE Claim(j)
    <3>1. age'[j] \in 1..MaxAge
      BY <1>1, <2>2 DEF Claim, Older
    <3>. QED
      BY <2>1, <2>2, <3>1 DEF Claim
  <2>3. CASE \E a \in 1..MaxAge : OpenLog(j, a)
    BY <2>1, <2>3 DEF OpenLog
  <2>. QED
    BY <2>1, <2>2, <2>3 DEF Using, Create, Push, Finish, Requeue, Retry, Delete
<1>7. TypeOK'
  BY <1>2, <1>3, <1>4, <1>5, <1>6, <1>8 DEF IInv, TypeOK
<1>. QED
  BY <1>2, <1>3, <1>7 DEF IInv, Tabled, Moved, Rebuilding, Rebuilt, At

LEMMA NextInv == IInv /\ [Next]_vars => IInv'
<1>. SUFFICES ASSUME IInv, [Next]_vars PROVE IInv'
  OBVIOUS
<1>1. CASE Next
  BY <1>1, TransactionInv, CommitInv, LogsInv, CrashInv, UsingInv DEF Next, Migrating
<1>2. CASE UNCHANGED vars
  <2>1. UNCHANGED <<pc, disk, tx, zip, logs, files, age, claimed, shared, born, crashes>>
    BY <1>2 DEF vars, kept
  <2>. QED
    BY <2>1 DEF IInv, TypeOK, Tabled, Moved, Rebuilding, Rebuilt, At
<1>. QED
  BY <1>1, <1>2

LEMMA Invariance == Spec => []IInv
<1>. QED
  BY InitInv, NextInv, PTL DEF Spec

\* What a step keeps of the jobs and their logs.
LEMMA StepKeeps ==
  ASSUME IInv, [Next]_vars, pc # "up"
  PROVE  KeepsJobs /\ KeepsLogs
<1>1. CASE UNCHANGED <<disk, logs, files>>
  BY <1>1 DEF KeepsJobs, KeepsLogs
<1>2. CASE Commit
  <2>1. Rebuilt /\ disk' = tx /\ UNCHANGED <<logs, files>>
    BY <1>2 DEF Commit, At, Rebuilt, kept
  <2>. QED
    BY <2>1 DEF IInv, Moved, KeepsJobs, KeepsLogs
<1>3. CASE \E j \in Jobs : MoveLog(j)
  <2>1. PICK j \in Jobs : MoveLog(j)
    BY <1>3
  <2>2. /\ files[j] = {} /\ disk' = disk
        /\ files' = [files EXCEPT ![j] = logs[j]] /\ logs' = [logs EXCEPT ![j] = {}]
    BY <2>1 DEF MoveLog, Moves
  <2>. QED
    BY <2>2 DEF IInv, TypeOK, KeepsJobs, KeepsLogs
<1>4. CASE \E j \in Jobs, a \in 1..MaxAge : OpenLog(j, a)
  <2>1. PICK j \in Jobs, a \in 1..MaxAge : OpenLog(j, a)
    BY <1>4
  <2>2. a \in claimed[j] /\ UNCHANGED <<disk, files>> /\ logs' = [logs EXCEPT ![j] = {a}]
    BY <2>1 DEF OpenLog
  <2>. QED
    BY <2>2 DEF IInv, TypeOK, KeepsJobs, KeepsLogs
<1>. QED
  <2>1. CASE Start \/ Schema \/ Dummy \/ Write \/ Insert \/ Copy \/ Rename \/ Chunks
             \/ Serve \/ Crash \/ UNCHANGED vars
    BY <1>1, <2>1
    DEF Start, Schema, Dummy, Write, Insert, Copy, Rename, Chunks, Serve, Crash, vars, kept
  <2>2. ASSUME NEW j \in Jobs, Using(j)
        PROVE  \E a \in 1..MaxAge : OpenLog(j, a)
    BY <2>2 DEF Using, Create, Claim, Push, Finish, Requeue, Retry, Delete, At
  <2>. QED
    BY <1>2, <1>3, <1>4, <2>1, <2>2 DEF Next, Migrating

-------------------------------------------------------------------------------
(* The theorems.                                                             *)

\* The database, what the transaction sees of it, the logs and the files are
\* well-formed; AUTOINCREMENT never leaves its range.
THEOREM TypeCorrect == Spec => []TypeOK
<1>1. IInv => TypeOK
  BY DEF IInv
<1>. QED
  BY <1>1, Invariance, PTL

\* A start of the server (Database.init_db, lines 181-408) keeps every job with
\* its status and every line of every log, wherever it is cut short and however
\* often.
THEOREM StartKeeps == Spec => StartsKeepAll
<1>1. IInv /\ [Next]_vars => [pc # "up" => KeepsJobs /\ KeepsLogs]_vars
  BY StepKeeps
<1>. QED
  BY <1>1, Invariance, PTL DEF Spec, StartsKeepAll
===============================================================================
