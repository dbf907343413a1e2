-------------------------- MODULE ControlPlaneProofs --------------------------
(***************************************************************************)
(* Proofs about ControlPlane, alone and composed with the runners, for     *)
(* every number of jobs, runners, leases and sequence numbers and every    *)
(* lease and sync interval.                                                *)
(*                                                                         *)
(* The first part is the inductive invariant of ControlPlane.  RowOK       *)
(* collects what must hold of one row of the jobs table taken alone; one   *)
(* lemma per statement of database.py shows that the statement preserves   *)
(* it.  The rest of the invariant relates rows to each other, to the       *)
(* grants the runners hold and to the stored files.  The second part       *)
(* shows, from that invariant, that each step is one of JobLifecycle.      *)
(* The third part is about JobExecution: its invariant relates rows to     *)
(* executions and to requests under way, and each of its steps is one of   *)
(* ControlPlane or leaves the variables of that module alone.              *)
(***************************************************************************)
EXTENDS JobExecution, FiniteSetTheorems, TLAPS

USE BoundsAssumption, TimeAssumption, ValuesAssumption

RowOK(row) ==
  /\ row \in Rows
  /\ row.status = "running" =>
       /\ row.runner # NoRunner
       /\ row.lease # NoLease
       /\ row.syncLeft # Never
       /\ row.started = "set" /\ row.finished = "null"
  /\ row.status \in {"absent", "pending"} =>
       row.lease = NoLease /\ row.runner = NoRunner
  /\ row.outcome # NoLease => /\ row.outcome = row.lease
                              /\ row.status \in Terminal
  /\ row.status \in {"completed", "timeout", "oom"} => row.outcome # NoLease
  /\ row.finished = "set" <=> row.status \in Terminal

-------------------------------------------------------------------------------
(* What the statements of database.py preserve in the row they write.  The   *)
(* first lemma lets the typing steps leave the field types unexpanded.       *)

\* The values the statements write belong to their columns.
LEMMA FieldValues ==
  /\ \A s \in Status : s \in Status \cup {"absent"}
  /\ {"pending", "running", "cancelled", "failed", "runner_failed"}
       \subseteq Status
  /\ {"running"} \cup Reported \subseteq Status
  /\ Terminal \subseteq Status
  /\ 0 \in 0..LeaseTTL /\ LeaseTTL \in 0..LeaseTTL
  /\ Never \in 0..MaxSync \cup {Never} /\ MaxSync \in 0..MaxSync \cup {Never}
  /\ 0 \in 0..MaxSeq
  /\ \A q \in 1..MaxSeq : q \in 0..MaxSeq
  /\ NoLease \notin Leases /\ Never # MaxSync
  /\ \A n \in 0..LeaseTTL : Elapse(n) \in 0..LeaseTTL
  /\ \A n \in 0..MaxSync \cup {Never} :
       /\ Elapse(n) \in 0..MaxSync \cup {Never}
       /\ n # Never => Elapse(n) # Never
  BY DEF Status, Terminal, Leases, Never, NoLease, Elapse

\* The rows of ids not in use, and the row create_job inserts.
LEMMA FreshRows == RowOK(AbsentRow) /\ RowOK(CreatedRow)
  BY DEF RowOK, AbsentRow, CreatedRow, Rows, Status, Terminal, Leases, Never, NoLease

\* claim_pending_job turns a sound row into a sound row held under t.
LEMMA ClaimedRowOK ==
  ASSUME NEW row, RowOK(row), NEW r \in Runners, NEW t \in Leases
  PROVE  /\ RowOK(ClaimedRow(row, r, t))
         /\ ClaimedRow(row, r, t).status = "running"
         /\ ClaimedRow(row, r, t).runner = r
         /\ ClaimedRow(row, r, t).lease = t
         /\ ClaimedRow(row, r, t).outcome = NoLease
         /\ ClaimedRow(row, r, t).seq = 0
<1> DEFINE new == ClaimedRow(row, r, t)
<1>1. row \in Rows  BY DEF RowOK
<1>2. new \in Rows  BY <1>1, FieldValues DEF ClaimedRow, Rows
<1>3. /\ new.status = "running" /\ new.runner = r /\ new.lease = t
      /\ new.syncLeft = MaxSync /\ new.started = "set"
      /\ new.finished = "null" /\ new.outcome = NoLease /\ new.seq = 0
  BY <1>1 DEF ClaimedRow, Rows
<1> QED  BY <1>2, <1>3, FieldValues DEF RowOK, Terminal

\* reset_job_for_retry leaves a row that nobody holds.
LEMMA ResetRowOK ==
  ASSUME NEW row, RowOK(row)
  PROVE  /\ RowOK(ResetRow(row))
         /\ ResetRow(row).status = "pending"
         /\ ResetRow(row).lease = NoLease
         /\ ResetRow(row).outcome = NoLease
<1> DEFINE new == ResetRow(row)
<1>1. row \in Rows  BY DEF RowOK
<1>2. new \in Rows  BY <1>1, FieldValues DEF ResetRow, Rows
<1>3. /\ new.status = "pending" /\ new.runner = NoRunner
      /\ new.lease = NoLease /\ new.finished = "null"
      /\ new.outcome = NoLease
  BY <1>1 DEF ResetRow, Rows
<1> QED  BY <1>2, <1>3 DEF RowOK, Terminal

\* cancel_task closes a running job and leaves its lease in place.
LEMMA CancelledRowOK ==
  ASSUME NEW row, RowOK(row), row.status = "running"
  PROVE  /\ RowOK(CancelledRow(row))
         /\ CancelledRow(row).status = "cancelled"
         /\ CancelledRow(row).lease = row.lease
         /\ CancelledRow(row).runner = row.runner
         /\ CancelledRow(row).seq = row.seq
         /\ CancelledRow(row).outcome = row.outcome
<1> DEFINE new == CancelledRow(row)
<1>1. row \in Rows  BY DEF RowOK
<1>2. new \in Rows  BY <1>1, FieldValues DEF CancelledRow, Rows
<1>3. /\ new.status = "cancelled" /\ new.finished = "set"
      /\ new.lease = row.lease /\ new.runner = row.runner
      /\ new.seq = row.seq /\ new.outcome = row.outcome
  BY <1>1 DEF CancelledRow, Rows
<1> QED  BY <1>2, <1>3 DEF RowOK, Terminal

\* A shutdown or a restart does the same with another status.
LEMMA InterruptedRowOK ==
  ASSUME NEW row, RowOK(row), row.status = "running"
  PROVE  /\ RowOK(InterruptedRow(row))
         /\ InterruptedRow(row).status = "failed"
         /\ InterruptedRow(row).lease = row.lease
         /\ InterruptedRow(row).runner = row.runner
         /\ InterruptedRow(row).seq = row.seq
         /\ InterruptedRow(row).outcome = row.outcome
<1> DEFINE new == InterruptedRow(row)
<1>1. row \in Rows  BY DEF RowOK
<1>2. new \in Rows  BY <1>1, FieldValues DEF InterruptedRow, Rows
<1>3. /\ new.status = "failed" /\ new.finished = "set"
      /\ new.lease = row.lease /\ new.runner = row.runner
      /\ new.seq = row.seq /\ new.outcome = row.outcome
  BY <1>1 DEF InterruptedRow, Rows
<1> QED  BY <1>2, <1>3 DEF RowOK, Terminal

\* reconcile_expired_leases takes the lease away or leaves the row alone.
LEMMA RequeueExpiredOK ==
  ASSUME NEW row, RowOK(row)
  PROVE  /\ RowOK(RequeueExpired(row))
         /\ RequeueExpired(row).outcome = row.outcome
         /\ \/ RequeueExpired(row) = row
            \/ /\ row.status = "running"
               /\ RequeueExpired(row).status = "pending"
               /\ RequeueExpired(row).lease = NoLease
<1> DEFINE new == RequeueExpired(row)
<1>1. row \in Rows  BY DEF RowOK
<1>2. CASE row.status = "running" /\ row.lease # NoLease /\ row.leaseLeft = 0
  <2>1. row.attempt + 1 \in Nat  BY <1>1 DEF Rows
  <2>2. new \in Rows
    <3>1. new = [row EXCEPT !.status = "pending", !.runner = NoRunner,
                            !.lease = NoLease, !.leaseLeft = 0,
                            !.attempt = row.attempt + 1]
      BY <1>2 DEF RequeueExpired
    <3> HIDE DEF new
    <3> QED  BY <1>1, <2>1, <3>1, FieldValues DEF Rows
  <2>3. /\ new.status = "pending" /\ new.runner = NoRunner
        /\ new.lease = NoLease /\ new.finished = row.finished
        /\ new.outcome = row.outcome
    BY <1>1, <1>2 DEF RequeueExpired, Rows
  <2> QED  BY <1>2, <2>2, <2>3 DEF RowOK, Terminal
<1>3. CASE ~(row.status = "running" /\ row.lease # NoLease /\ row.leaseLeft = 0)
  BY <1>3 DEF RequeueExpired
<1> QED  BY <1>2, <1>3

\* reconcile_stale_jobs closes a running job or leaves the row alone.
LEMMA FailStaleOK ==
  ASSUME NEW row, RowOK(row)
  PROVE  /\ RowOK(FailStale(row))
         /\ FailStale(row).outcome = row.outcome
         /\ FailStale(row).lease = row.lease
         /\ FailStale(row).runner = row.runner
         /\ FailStale(row).seq = row.seq
         /\ \/ FailStale(row) = row
            \/ row.status = "running" /\ FailStale(row).status = "runner_failed"
<1> DEFINE new == FailStale(row)
<1>1. row \in Rows  BY DEF RowOK
<1>2. CASE row.status = "running" /\ row.syncLeft = 0
  <2> DEFINE e == IF row.error = "none" THEN "stale" ELSE row.error
  <2>1. e \in {"none", "interrupted", "stale"}  BY <1>1 DEF Rows
  <2>2. new \in Rows
    <3>1. new = [row EXCEPT !.status = "runner_failed", !.finished = "set",
                            !.syncLeft = Never, !.error = e]
      BY <1>2 DEF FailStale
    <3> HIDE DEF e
    <3> QED  BY <1>1, <2>1, <3>1, FieldValues DEF Rows
  <2>3. /\ new.status = "runner_failed" /\ new.finished = "set"
        /\ new.lease = row.lease /\ new.runner = row.runner
        /\ new.seq = row.seq /\ new.outcome = row.outcome
    BY <1>1, <1>2 DEF FailStale, Rows
  <2> QED  BY <1>2, <2>2, <2>3 DEF RowOK, Terminal
<1>3. CASE ~(row.status = "running" /\ row.syncLeft = 0)
  BY <1>3 DEF FailStale
<1> QED  BY <1>2, <1>3

\* extend_runner_job_leases changes nothing but the expiry time.
LEMMA ExtendedRowOK ==
  ASSUME NEW row, RowOK(row), NEW r \in Runners
  PROVE  /\ RowOK(ExtendedRow(row, r))
         /\ ExtendedRow(row, r).status = row.status
         /\ ExtendedRow(row, r).lease = row.lease
         /\ ExtendedRow(row, r).runner = row.runner
         /\ ExtendedRow(row, r).seq = row.seq
         /\ ExtendedRow(row, r).outcome = row.outcome
<1> DEFINE new == ExtendedRow(row, r)
<1>1. row \in Rows  BY DEF RowOK
<1>2. new \in Rows  BY <1>1, FieldValues DEF ExtendedRow, Rows
<1>3. /\ new.status = row.status /\ new.lease = row.lease
      /\ new.runner = row.runner /\ new.seq = row.seq
      /\ new.outcome = row.outcome /\ new.syncLeft = row.syncLeft
      /\ new.started = row.started /\ new.finished = row.finished
  BY <1>1 DEF ExtendedRow, Rows
<1> QED  BY <1>2, <1>3 DEF RowOK

\* apply_job_sync under the lease the row holds.
LEMMA SyncedRowOK ==
  ASSUME NEW row, RowOK(row), NEW q \in 1..MaxSeq,
         NEW s \in {"running"} \cup Reported,
         row.lease # NoLease, SyncApplies(row, q, s)
  PROVE  LET new == SyncedRow(row, row.lease, q, s)
         IN  /\ RowOK(new)
             /\ new.status = s
             /\ new.lease = row.lease
             /\ new.runner = row.runner
             /\ new.seq = q
             /\ new.outcome = IF s \in Terminal THEN row.lease ELSE row.outcome
             /\ s = "running" => row.status = "running"
<1> DEFINE new == SyncedRow(row, row.lease, q, s)
<1>1. row \in Rows  BY DEF RowOK
<1>2. s \in Status /\ q \in 0..MaxSeq  BY FieldValues
<1>3. row.lease \in Leases \cup {NoLease} /\ row.status \in Status
  BY <1>1 DEF RowOK, Rows
<1>4. new \in Rows
  BY <1>1, <1>2, <1>3, FieldValues DEF SyncedRow, Rows
<1>5. /\ new.status = s /\ new.lease = row.lease
      /\ new.runner = row.runner /\ new.seq = q
      /\ new.syncLeft = MaxSync
      /\ new.started = IF s = "running" THEN "set" ELSE row.started
      /\ new.finished = IF s \in Terminal THEN "set" ELSE row.finished
      /\ new.outcome = IF s \in Terminal THEN row.lease ELSE row.outcome
  BY <1>1 DEF SyncedRow, Rows
<1>6. s = "running" => row.status = "running"
  BY <1>3 DEF SyncApplies, RowOK, Status
<1>7. s = "running" \/ s \in Terminal
  BY ValuesAssumption
<1>8. RowOK(new)
  BY <1>3, <1>4, <1>5, <1>6, <1>7, FieldValues DEF RowOK, Terminal
<1> QED  BY <1>5, <1>6, <1>8

\* Time passes for a row.
LEMMA TickedRowOK ==
  ASSUME NEW row, RowOK(row)
  PROVE  LET new == [row EXCEPT !.leaseLeft = Elapse(@),
                                !.syncLeft = Elapse(@)]
         IN  /\ RowOK(new)
             /\ new.status = row.status
             /\ new.lease = row.lease
             /\ new.runner = row.runner
             /\ new.seq = row.seq
             /\ new.outcome = row.outcome
<1> DEFINE new == [row EXCEPT !.leaseLeft = Elapse(@), !.syncLeft = Elapse(@)]
<1>1. row \in Rows  BY DEF RowOK
<1>2. /\ Elapse(row.leaseLeft) \in 0..LeaseTTL
      /\ Elapse(row.syncLeft) \in 0..MaxSync \cup {Never}
  BY <1>1, FieldValues DEF Rows
<1>3. new \in Rows  BY <1>1, <1>2 DEF Rows
<1>4. /\ new.status = row.status /\ new.lease = row.lease
      /\ new.runner = row.runner /\ new.seq = row.seq
      /\ new.outcome = row.outcome /\ new.started = row.started
      /\ new.finished = row.finished /\ new.syncLeft = Elapse(row.syncLeft)
  BY <1>1 DEF Rows
<1>5. row.syncLeft # Never => new.syncLeft # Never
  BY <1>1, <1>4, FieldValues DEF Rows
<1> QED  BY <1>3, <1>4, <1>5 DEF RowOK

-------------------------------------------------------------------------------
(* The inductive invariant.                                                  *)

RowsOK == \A j \in Jobs : RowOK(job[j])

\* A runner knows only leases that were issued, each for a job and as itself.
GrantsSound ==
  /\ \A t \in Leases :
       \/ grant[t] = NoGrant
       \/ grant[t].runner \in Runners /\ grant[t].job \in Jobs
  /\ \A t \in Leases : t > issued => grant[t] = NoGrant

\* An outcome was reported by someone who had been granted the lease.  This is
\* what rules out a result on a job whose claim crashed half way.
OutcomeGranted ==
  \A j \in Jobs : job[j].outcome # NoLease => grant[job[j].outcome] # NoGrant

\* FilesOfCurrentLease is not inductive: a job whose claim crashed shows the
\* files of an older attempt.  The files are those of the current lease
\* whenever somebody could still push or report under it.
FilesFenced ==
  \A j \in Jobs :
    /\ job[j].lease # NoLease
    /\ \/ grant[job[j].lease] # NoGrant
       \/ up /\ job[j].status = "running"
    => files[j] \subseteq {job[j].lease}

\* Ids that the AUTOINCREMENT column has not handed out are not in the table.
FreshIds == \A j \in Jobs : j >= nextJob => job[j].status = "absent"

IndInv ==
  /\ TypeOK
  /\ RowsOK
  /\ LeaseIdentifiesAttempt
  /\ GrantsSound
  /\ OutcomeGranted
  /\ FilesFenced
  /\ FreshIds

\* The change every statement but the claim makes to a row.
Keeps(old, new) ==
  /\ RowOK(new)
  /\ new.lease \in {old.lease, NoLease}
  /\ new.lease # NoLease => (new.runner = old.runner /\ new.seq >= old.seq)
  /\ \/ new.outcome \in {old.outcome, NoLease}
     \/ new.outcome = new.lease /\ grant[new.lease] # NoGrant
  /\ new.status = "running" => old.status = "running"

\* A step that issues no lease, keeps every row in this sense and stores only
\* files of the current lease preserves the invariant.
LEMMA KeepingStep ==
  ASSUME IndInv,
         job' \in [Jobs -> Rows],
         \A j \in Jobs : Keeps(job[j], job'[j]),
         issued' = issued, grant' = grant,
         up' \in BOOLEAN,
         up' => up \/ \A j \in Jobs : job'[j].status # "running",
         reg' \in [Runners -> {"absent", "enabled", "disabled"}],
         authed' \in [Runners -> 0..MaxInFlight],
         files' \in [Jobs -> SUBSET Leases],
         \A j \in Jobs : files'[j] \subseteq files[j] \cup {job'[j].lease},
         nextJob' \in 1..(MaxJobs + 1),
         \A j \in Jobs : j >= nextJob' => job'[j].status = "absent"
  PROVE  IndInv' /\ LeaseMoves
<1> USE DEF IndInv
<1>1. TypeOK'  BY DEF TypeOK
<1>2. RowsOK'  BY DEF RowsOK, Keeps
<1>3. LeaseIdentifiesAttempt'
  <2> SUFFICES ASSUME NEW j \in Jobs, job'[j].lease # NoLease
               PROVE  /\ job'[j].lease <= issued'
                      /\ \A i \in Jobs \ {j} : job'[i].lease # job'[j].lease
                      /\ grant'[job'[j].lease] \in
                           {NoGrant, [runner |-> job'[j].runner, job |-> j]}
    BY DEF LeaseIdentifiesAttempt
  <2>1. /\ job'[j].lease = job[j].lease /\ job'[j].runner = job[j].runner
        /\ \A i \in Jobs : job'[i].lease \in {job[i].lease, NoLease}
    BY DEF Keeps
  <2> QED  BY <2>1 DEF LeaseIdentifiesAttempt
<1>4. GrantsSound'  BY DEF GrantsSound
<1>5. OutcomeGranted'
  BY DEF OutcomeGranted, Keeps
<1>6. FilesFenced'
  <2> SUFFICES ASSUME NEW j \in Jobs, job'[j].lease # NoLease,
                      \/ grant'[job'[j].lease] # NoGrant
                      \/ up' /\ job'[j].status = "running"
               PROVE  files'[j] \subseteq {job'[j].lease}
    BY DEF FilesFenced
  <2>1. job'[j].lease = job[j].lease  BY DEF Keeps
  <2>2. up' /\ job'[j].status = "running" => up /\ job[j].status = "running"
    BY DEF Keeps
  <2>3. files[j] \subseteq {job[j].lease}
    BY <2>1, <2>2 DEF FilesFenced
  <2> QED  BY <2>1, <2>3
<1>7. FreshIds'  BY DEF FreshIds
<1>8. LeaseMoves  BY DEF LeaseMoves, Keeps
<1> QED  BY <1>1, <1>2, <1>3, <1>4, <1>5, <1>6, <1>7, <1>8

\* Rows a step leaves alone are kept.
LEMMA KeepsSame == ASSUME NEW row, RowOK(row) PROVE Keeps(row, row)
<1>1. row.seq \in 0..MaxSeq  BY DEF RowOK, Rows
<1> QED  BY <1>1 DEF Keeps

\* What every action that writes rows without issuing a lease does to each row.
LEMMA KeepsRows ==
  ASSUME IndInv, NEW j \in Jobs
  PROVE  /\ job[j].status \in {"absent", "pending"} \cup Terminal =>
              Keeps(job[j], ResetRow(job[j])) /\ Keeps(job[j], AbsentRow)
         /\ job[j].status = "running" =>
              /\ Keeps(job[j], CancelledRow(job[j]))
              /\ Keeps(job[j], InterruptedRow(job[j]))
         /\ Keeps(job[j], FailStale(RequeueExpired(job[j])))
         /\ \A r \in Runners : Keeps(job[j], ExtendedRow(job[j], r))
         /\ Keeps(job[j], [job[j] EXCEPT !.leaseLeft = Elapse(@),
                                         !.syncLeft = Elapse(@)])
         /\ Keeps(job[j], job[j])
<1> DEFINE row == job[j]
<1>1. RowOK(row) /\ row.seq \in 0..MaxSeq
  BY DEF IndInv, RowsOK, RowOK, Rows
<1>2. Keeps(row, row)  BY <1>1, KeepsSame
<1>3. Keeps(row, ResetRow(row))
  BY <1>1, ResetRowOK DEF Keeps
<1>4. Keeps(row, AbsentRow)
  BY <1>1, FreshRows DEF Keeps, AbsentRow, NoLease
<1>5. ASSUME row.status = "running"
      PROVE  Keeps(row, CancelledRow(row)) /\ Keeps(row, InterruptedRow(row))
  BY <1>1, <1>5, CancelledRowOK, InterruptedRowOK DEF Keeps
<1>6. Keeps(row, FailStale(RequeueExpired(row)))
  <2> DEFINE mid == RequeueExpired(row)
  <2>1. /\ RowOK(mid) /\ mid.outcome = row.outcome
        /\ \/ mid = row
           \/ /\ row.status = "running"
              /\ mid.status = "pending"
              /\ mid.lease = NoLease
    BY <1>1, RequeueExpiredOK
  <2> HIDE DEF mid
  <2>2. /\ RowOK(FailStale(mid)) /\ FailStale(mid).outcome = mid.outcome
        /\ FailStale(mid).lease = mid.lease
        /\ FailStale(mid).runner = mid.runner /\ FailStale(mid).seq = mid.seq
        /\ \/ FailStale(mid) = mid
           \/ mid.status = "running" /\ FailStale(mid).status = "runner_failed"
    BY <2>1, FailStaleOK
  <2>3. Keeps(row, FailStale(mid))
    BY <1>1, <2>1, <2>2 DEF Keeps
  <2> QED  BY <2>3 DEF mid
<1>7. ASSUME NEW r \in Runners PROVE Keeps(row, ExtendedRow(row, r))
  BY <1>1, ExtendedRowOK DEF Keeps
<1>8. Keeps(row, [row EXCEPT !.leaseLeft = Elapse(@), !.syncLeft = Elapse(@)])
  <2> DEFINE new == [row EXCEPT !.leaseLeft = Elapse(@),
                                !.syncLeft = Elapse(@)]
  <2>1. /\ RowOK(new) /\ new.status = row.status /\ new.lease = row.lease
        /\ new.runner = row.runner /\ new.seq = row.seq
        /\ new.outcome = row.outcome
    BY <1>1, TickedRowOK
  <2> HIDE DEF new
  <2>2. Keeps(row, new)  BY <1>1, <2>1 DEF Keeps
  <2> QED  BY <2>2 DEF new
<1> QED  BY <1>2, <1>3, <1>4, <1>5, <1>6, <1>7, <1>8

\* A sync from the runner that was granted the lease keeps the row.
LEMMA KeepsSynced ==
  ASSUME IndInv, NEW t \in Leases, NEW r \in Runners, grant[t].runner = r,
         NEW q \in 1..MaxSeq, NEW s \in {"running"} \cup Reported,
         HoldsLease(r, grant[t].job, t),
         SyncApplies(job[grant[t].job], q, s)
  PROVE  /\ grant[t].job \in Jobs
         /\ Keeps(job[grant[t].job], SyncedRow(job[grant[t].job], t, q, s))
<1> DEFINE j == grant[t].job
           new == SyncedRow(job[j], t, q, s)
<1>1. grant[t] # NoGrant  BY DEF NoGrant
<1>2. j \in Jobs  BY <1>1 DEF IndInv, GrantsSound
<1>3. RowOK(job[j]) /\ job[j].lease = t /\ t # NoLease /\ job[j].seq \in 0..MaxSeq
  BY <1>2 DEF HoldsLease, IndInv, RowsOK, RowOK, Rows
<1>4. /\ RowOK(new) /\ new.status = s /\ new.lease = t
      /\ new.runner = job[j].runner /\ new.seq = q
      /\ new.outcome = IF s \in Terminal THEN t ELSE job[j].outcome
      /\ s = "running" => job[j].status = "running"
  BY <1>3, SyncedRowOK
<1>5. q >= job[j].seq  BY <1>3 DEF SyncApplies
<1> HIDE DEF new
<1>6. Keeps(job[j], new)  BY <1>1, <1>3, <1>4, <1>5 DEF Keeps
<1> QED  BY <1>2, <1>6 DEF new

\* A claim starts an attempt on a waiting row under a lease that nobody holds
\* and nobody knows.
LEMMA ClaimingStep ==
  ASSUME IndInv, NEW r \in Runners, NEW j \in Jobs, StartAttempt(r, j),
         UNCHANGED <<nextJob, reg>>,
         up' \in BOOLEAN, authed' \in [Runners -> 0..MaxInFlight],
         up' => up \/ \A i \in Jobs : job[i].status # "running",
         \/ grant' = grant /\ ~up' /\ files' = files
         \/ /\ grant' \in {grant, [grant EXCEPT ![issued + 1] =
                                      [runner |-> r, job |-> j]]}
            /\ files' = [files EXCEPT ![j] = {}]
  PROVE  IndInv' /\ LeaseMoves
<1> USE DEF IndInv
<1> DEFINE tok == issued + 1
           new == ClaimedRow(job[j], r, tok)
<1>1. /\ tok \in Leases /\ tok # NoLease /\ issued' = tok
      /\ issued \in 0..MaxLeases /\ issued' \in 0..MaxLeases
  BY DEF StartAttempt, TypeOK, Leases, NoLease
<1>2. /\ job' = [job EXCEPT ![j] = new] /\ job[j].status = "pending"
      /\ RowOK(job[j]) /\ job \in [Jobs -> Rows]
  BY DEF StartAttempt, IsNext, RowsOK, TypeOK
<1>3. /\ RowOK(new) /\ new.status = "running" /\ new.runner = r
      /\ new.lease = tok /\ new.outcome = NoLease
  BY <1>1, <1>2, ClaimedRowOK
<1> HIDE DEF new
<1>4. /\ job'[j] = new
      /\ \A i \in Jobs \ {j} : job'[i] = job[i]
      /\ job' \in [Jobs -> Rows]
  BY <1>2, <1>3 DEF RowOK
<1>5. \A i \in Jobs : job[i].lease # NoLease => job[i].lease <= issued
                                               /\ job[i].lease # tok
  <2> TAKE i \in Jobs
  <2>1. job[i].lease \in Leases \cup {NoLease}
    BY DEF RowsOK, RowOK, Rows
  <2>2. job[i].lease # NoLease => job[i].lease <= issued
    BY DEF LeaseIdentifiesAttempt
  <2> QED  BY <1>1, <2>1, <2>2 DEF Leases
<1>6. /\ grant[tok] = NoGrant /\ grant \in [Leases -> Grants]
      /\ NoGrant # [runner |-> r, job |-> j]
  BY <1>1 DEF GrantsSound, TypeOK, NoGrant, Leases
<1>7. /\ grant' \in [Leases -> Grants]
      /\ \A u \in Leases \ {tok} : grant'[u] = grant[u]
      /\ grant'[tok] \in {NoGrant, [runner |-> r, job |-> j]}
  BY <1>1, <1>6 DEF Grants
<1>8. files' \in [Jobs -> SUBSET Leases] /\ \A i \in Jobs \ {j} : files'[i] = files[i]
  BY DEF TypeOK
<1>9. TypeOK'
  BY <1>1, <1>4, <1>7, <1>8 DEF TypeOK
<1>10. RowsOK'  BY <1>3, <1>4 DEF RowsOK
<1>11. LeaseIdentifiesAttempt'
  <2> SUFFICES ASSUME NEW i \in Jobs, job'[i].lease # NoLease
               PROVE  /\ job'[i].lease <= issued'
                      /\ \A k \in Jobs \ {i} : job'[k].lease # job'[i].lease
                      /\ grant'[job'[i].lease] \in
                           {NoGrant, [runner |-> job'[i].runner, job |-> i]}
    BY DEF LeaseIdentifiesAttempt
  <2>1. CASE i = j
    BY <1>1, <1>3, <1>4, <1>5, <1>7, <2>1
  <2>2. CASE i # j
    <3>1. job'[i] = job[i] /\ job[i].lease <= issued /\ job[i].lease # tok
      BY <1>4, <1>5, <2>2
    <3>2. job[i].lease \in Leases
      BY <3>1 DEF RowsOK, RowOK, Rows
    <3>3. grant'[job[i].lease] = grant[job[i].lease]  BY <1>7, <3>1, <3>2
    <3>4. job[i].lease <= issued'  BY <1>1, <3>1, <3>2 DEF Leases
    <3>5. \A k \in Jobs \ {i} : job'[k].lease # job[i].lease
      <4> TAKE k \in Jobs \ {i}
      <4>1. CASE k = j  BY <1>3, <1>4, <3>1, <4>1
      <4>2. CASE k # j
        <5>1. job'[k] = job[k] /\ job[i].lease # NoLease
          BY <1>4, <3>1, <4>2
        <5>2. job[k].lease # job[i].lease
          BY <5>1 DEF LeaseIdentifiesAttempt
        <5> QED  BY <5>1, <5>2
      <4> QED  BY <4>1, <4>2
    <3> QED  BY <3>1, <3>3, <3>4, <3>5 DEF LeaseIdentifiesAttempt
  <2> QED  BY <2>1, <2>2
<1>12. GrantsSound'
  <2>1. \A u \in Leases : u > issued' => u > issued /\ u # tok
    BY <1>1 DEF Leases
  <2>2. [runner |-> r, job |-> j].runner \in Runners
        /\ [runner |-> r, job |-> j].job \in Jobs
    OBVIOUS
  <2>3. \A u \in Leases : \/ grant'[u] = NoGrant
                          \/ grant'[u].runner \in Runners /\ grant'[u].job \in Jobs
    BY <1>7, <2>2 DEF GrantsSound
  <2>4. \A u \in Leases : u > issued' => grant'[u] = NoGrant
    BY <1>7, <2>1 DEF GrantsSound
  <2> QED  BY <2>3, <2>4 DEF GrantsSound
<1>13. OutcomeGranted'
  <2> SUFFICES ASSUME NEW i \in Jobs, job'[i].outcome # NoLease
               PROVE  grant'[job'[i].outcome] # NoGrant
    BY DEF OutcomeGranted
  <2>1. i # j /\ job'[i] = job[i]  BY <1>3, <1>4
  <2>2. grant[job[i].outcome] # NoGrant /\ job[i].outcome \in Leases
    BY <2>1 DEF OutcomeGranted, RowsOK, RowOK, Rows
  <2> QED  BY <1>6, <1>7, <2>1, <2>2
<1>14. FilesFenced'
  <2> SUFFICES ASSUME NEW i \in Jobs, job'[i].lease # NoLease,
                      \/ grant'[job'[i].lease] # NoGrant
                      \/ up' /\ job'[i].status = "running"
               PROVE  files'[i] \subseteq {job'[i].lease}
    BY DEF FilesFenced
  <2>1. CASE i = j
    <3>1. files'[j] = {}
      BY <1>3, <1>4, <1>6, <2>1 DEF TypeOK
    <3> QED  BY <2>1, <3>1
  <2>2. CASE i # j
    <3>1. /\ job'[i] = job[i] /\ files'[i] = files[i]
          /\ job[i].lease \in Leases /\ job[i].lease # tok
      BY <1>4, <1>5, <1>8, <2>2 DEF RowsOK, RowOK, Rows
    <3>2. grant'[job[i].lease] = grant[job[i].lease]  BY <1>7, <3>1
    <3> QED  BY <3>1, <3>2 DEF FilesFenced
  <2> QED  BY <2>1, <2>2
<1>15. FreshIds'
  BY <1>2, <1>4 DEF FreshIds
<1>16. LeaseMoves
  <2>1. \A i \in Jobs : job[i].seq \in 0..MaxSeq
    BY DEF RowsOK, RowOK, Rows
  <2>2. tok > issued /\ job[j].lease = NoLease
    BY <1>1, <1>2 DEF RowOK
  <2> QED  BY <1>3, <1>4, <2>1, <2>2 DEF LeaseMoves
<1> QED  BY <1>9, <1>10, <1>11, <1>12, <1>13, <1>14, <1>15, <1>16

-------------------------------------------------------------------------------
(* The invariant is inductive: one step per action.                          *)

\* The empty database of a fresh installation.
LEMMA InitInv == Init => IndInv
<1> SUFFICES ASSUME Init PROVE IndInv
  OBVIOUS
<1>1. \A j \in Jobs : job[j] = AbsentRow /\ RowOK(job[j])
  BY FreshRows DEF Init
<1>2. TypeOK
  BY <1>1 DEF Init, TypeOK, RowOK, NoGrant, Grants
<1>3. \A j \in Jobs : /\ job[j].lease = NoLease /\ job[j].outcome = NoLease
                      /\ job[j].status = "absent"
  BY <1>1 DEF AbsentRow
<1> QED
  BY <1>1, <1>2, <1>3 DEF Init, IndInv, RowsOK, LeaseIdentifiesAttempt,
     GrantsSound, OutcomeGranted, FilesFenced, FreshIds

\* What users do (create, cancel, retry, delete, reprioritise, batch forms
\* included) preserves the invariant and moves leases forward only.
LEMMA UserStepInv == IndInv /\ UserStep => IndInv' /\ LeaseMoves
<1> SUFFICES ASSUME IndInv, UserStep PROVE IndInv' /\ LeaseMoves
  OBVIOUS
<1>0. TypeOK /\ FreshIds /\ (\A j \in Jobs : RowOK(job[j]))
  BY DEF IndInv, RowsOK
<1>1. CASE CreateJob
  <2>1. job[nextJob].status = "absent" /\ nextJob \in Jobs
    BY <1>0, <1>1 DEF CreateJob, FreshIds, Jobs
  <2>2. /\ RowOK(CreatedRow) /\ CreatedRow.status = "pending"
        /\ CreatedRow.lease = NoLease /\ CreatedRow.outcome = NoLease
    BY FreshRows DEF CreatedRow, AbsentRow
  <2> HIDE DEF CreatedRow
  <2>3. \A j \in Jobs : job'[j] = IF j = nextJob THEN CreatedRow ELSE job[j]
    BY <1>0, <1>1 DEF CreateJob, TypeOK
  <2>4. \A j \in Jobs : Keeps(job[j], job'[j])
    BY <1>0, <2>2, <2>3, KeepsSame DEF Keeps
  <2>5. job' \in [Jobs -> Rows]
    BY <1>0, <1>1, <2>2 DEF CreateJob, TypeOK, RowOK
  <2>6. nextJob' = nextJob + 1 /\ nextJob' \in 1..(MaxJobs + 1)
    BY <1>1, <2>1 DEF CreateJob, Jobs
  <2>7. \A j \in Jobs : j >= nextJob' => job'[j].status = "absent"
    BY <1>0, <2>1, <2>3, <2>6 DEF FreshIds, Jobs
  <2> QED
    BY <1>0, <1>1, <2>4, <2>5, <2>6, <2>7, KeepingStep DEF CreateJob, TypeOK
<1>2. ASSUME NEW S \in SUBSET Jobs, Cancel(S) PROVE IndInv' /\ LeaseMoves
  <2>1. \A j \in Jobs : job'[j] \in {job[j], CancelledRow(job[j])}
                        /\ (job'[j] # job[j] => job[j].status = "running")
    BY <1>2 DEF Cancel, Running
  <2>2. \A j \in Jobs : Keeps(job[j], job'[j])
    BY <2>1, KeepsRows
  <2>3. job' \in [Jobs -> Rows]
    BY <1>2, <2>2 DEF Cancel, Keeps, RowOK
  <2>4. \A j \in Jobs : job[j].status = "absent" => job'[j].status = "absent"
    BY <2>1
  <2> QED
    BY <1>0, <1>2, <2>2, <2>3, <2>4, KeepingStep DEF Cancel, TypeOK, FreshIds
<1>3. ASSUME NEW S \in SUBSET Jobs, Retry(S) PROVE IndInv' /\ LeaseMoves
  <2>1. \A j \in Jobs : /\ job'[j] \in {job[j], ResetRow(job[j])}
                        /\ job'[j] # job[j] => job[j].status \in {"pending"} \cup Terminal
    BY <1>3 DEF Retry, Retryable
  <2>2. \A j \in Jobs : Keeps(job[j], job'[j])
    BY <2>1, KeepsRows
  <2>3. job' \in [Jobs -> Rows]
    BY <1>3, <2>2 DEF Retry, Keeps, RowOK
  <2>4. \A j \in Jobs : job[j].status = "absent" => job'[j].status = "absent"
    BY <2>1 DEF Terminal
  <2>5. /\ files' \in [Jobs -> SUBSET Leases]
        /\ \A j \in Jobs : files'[j] \subseteq files[j]
    BY <1>0, <1>3 DEF Retry, TypeOK
  <2> QED
    BY <1>0, <1>3, <2>2, <2>3, <2>4, <2>5, KeepingStep DEF Retry, TypeOK, FreshIds
<1>4. ASSUME NEW S \in SUBSET Jobs, Delete(S) PROVE IndInv' /\ LeaseMoves
  <2>1. \A j \in Jobs : /\ job'[j] \in {job[j], AbsentRow}
                        /\ job'[j] # job[j] => job[j].status \in {"pending"} \cup Terminal
    BY <1>4 DEF Delete, Retryable
  <2>2. \A j \in Jobs : Keeps(job[j], job'[j])
    BY <2>1, KeepsRows
  <2>3. job' \in [Jobs -> Rows]
    BY <1>4, <2>2 DEF Delete, Keeps, RowOK
  <2>4. \A j \in Jobs : job[j].status = "absent" => job'[j].status = "absent"
    BY <2>1 DEF AbsentRow
  <2> QED
    BY <1>0, <1>4, <2>2, <2>3, <2>4, KeepingStep DEF Delete, TypeOK, FreshIds
<1>5. ASSUME NEW S \in SUBSET Jobs, NEW p \in Priorities, SetPriority(S, p)
      PROVE  IndInv' /\ LeaseMoves
  <2>1. \A j \in Jobs : \/ job'[j] = job[j]
                        \/ /\ job[j].status = "pending"
                           /\ job'[j] = [job[j] EXCEPT !.priority = p]
    BY <1>5 DEF SetPriority
  <2>2. ASSUME NEW j \in Jobs
        PROVE  Keeps(job[j], job'[j]) /\ job'[j].status = job[j].status
    <3>1. CASE job'[j] = job[j]  BY <1>0, <3>1, KeepsSame
    <3>2. CASE job[j].status = "pending"
               /\ job'[j] = [job[j] EXCEPT !.priority = p]
      <4>1. job[j] \in Rows /\ p \in Int /\ job[j].seq \in 0..MaxSeq
        BY <1>0 DEF RowOK, Rows
      <4>2. job'[j] \in Rows  BY <3>2, <4>1 DEF Rows
      <4>3. /\ job'[j].status = job[j].status /\ job'[j].lease = job[j].lease
            /\ job'[j].runner = job[j].runner /\ job'[j].seq = job[j].seq
            /\ job'[j].outcome = job[j].outcome
            /\ job'[j].finished = job[j].finished
        BY <3>2, <4>1 DEF Rows
      <4>4. RowOK(job'[j])
        BY <1>0, <3>2, <4>2, <4>3 DEF RowOK
      <4> QED  BY <4>1, <4>3, <4>4 DEF Keeps
    <3> QED  BY <2>1, <3>1, <3>2
  <2>3. job' \in [Jobs -> Rows]
    BY <1>5, <2>2 DEF SetPriority, Keeps, RowOK
  <2> QED
    BY <1>0, <1>5, <2>2, <2>3, KeepingStep DEF SetPriority, TypeOK, FreshIds
<1> QED
  BY <1>1, <1>2, <1>3, <1>4, <1>5 DEF UserStep

\* So does administering runners, deleting and recreating one included.
LEMMA AdminStepInv == IndInv /\ AdminStep => IndInv' /\ LeaseMoves
<1> SUFFICES ASSUME IndInv, AdminStep PROVE IndInv' /\ LeaseMoves
  OBVIOUS
<1>1. /\ UNCHANGED <<up, job, nextJob, files, authed, issued, grant>>
      /\ reg' \in [Runners -> {"absent", "enabled", "disabled"}]
  BY DEF AdminStep, CreateRunner, SetEnabled, DeleteRunner, IndInv, TypeOK
<1>2. \A j \in Jobs : Keeps(job[j], job'[j])
  BY <1>1, KeepsRows
<1> QED
  BY <1>1, <1>2, KeepingStep DEF IndInv, TypeOK, FreshIds

\* So does every runner request: it may be of any earlier attempt, since the
\* lease is checked in the step that writes.
LEMMA RequestStepInv == IndInv /\ RequestStep => IndInv' /\ LeaseMoves
<1> SUFFICES ASSUME IndInv, NEW r \in Runners,
                    \/ Authenticate(r)
                    \/ Refuse(r)
                    \/ Heartbeat(r)
                    \/ \E j \in Jobs : Claim(r, j) \/ CrashInClaim(r, j)
                    \/ \E t \in Leases :
                         \/ StoreFile(r, t)
                         \/ \E q \in 1..MaxSeq, s \in {"running"} \cup Reported :
                              Sync(r, t, q, s)
             PROVE  IndInv' /\ LeaseMoves
  BY DEF RequestStep
<1>0. TypeOK /\ FreshIds /\ (\A j \in Jobs : RowOK(job[j]))
  BY DEF IndInv, RowsOK
<1>1. ASSUME Serve(r) PROVE up /\ authed' \in [Runners -> 0..MaxInFlight]
  BY <1>0, <1>1 DEF Serve, TypeOK
<1>2. CASE Authenticate(r)
  <2>1. authed' \in [Runners -> 0..MaxInFlight]
    BY <1>0, <1>2 DEF Authenticate, TypeOK
  <2>2. \A j \in Jobs : Keeps(job[j], job'[j])
    BY <1>2, KeepsRows DEF Authenticate
  <2> QED
    BY <1>0, <1>2, <2>1, <2>2, KeepingStep DEF Authenticate, TypeOK, FreshIds
<1>3. CASE Refuse(r)
  <2>1. Serve(r) /\ UNCHANGED <<up, job, nextJob, files, reg, issued, grant>>
    BY <1>3 DEF Refuse
  <2>2. \A j \in Jobs : Keeps(job[j], job'[j])
    BY <2>1, KeepsRows
  <2> QED
    BY <1>0, <1>1, <2>1, <2>2, KeepingStep DEF TypeOK, FreshIds
<1>4. CASE Heartbeat(r)
  <2>1. /\ Serve(r) /\ UNCHANGED <<up, nextJob, files, reg, issued, grant>>
        /\ job' = [j \in Jobs |-> ExtendedRow(job[j], r)]
    BY <1>4 DEF Heartbeat
  <2>2. \A j \in Jobs : Keeps(job[j], job'[j])
    BY <2>1, KeepsRows
  <2>3. job' \in [Jobs -> Rows]
    BY <2>1, <2>2 DEF Keeps, RowOK
  <2>4. \A j \in Jobs : job'[j].status = job[j].status
    BY <1>0, <2>1, ExtendedRowOK
  <2> QED
    BY <1>0, <1>1, <2>1, <2>2, <2>3, <2>4, KeepingStep DEF TypeOK, FreshIds
<1>5. ASSUME NEW j \in Jobs, Claim(r, j) PROVE IndInv' /\ LeaseMoves
  <2>1. Serve(r) /\ StartAttempt(r, j) /\ UNCHANGED <<up, nextJob, reg>>
    BY <1>5 DEF Claim
  <2>2. /\ files' = [files EXCEPT ![j] = {}]
        /\ grant' \in {grant, [grant EXCEPT ![issued + 1] =
                                  [runner |-> r, job |-> j]]}
    BY <1>5 DEF Claim
  <2> QED  BY <1>0, <1>1, <2>1, <2>2, ClaimingStep DEF TypeOK
<1>6. ASSUME NEW j \in Jobs, CrashInClaim(r, j) PROVE IndInv' /\ LeaseMoves
  <2>1. authed' \in [Runners -> 0..MaxInFlight]
    BY <1>6 DEF CrashInClaim
  <2> QED  BY <1>6, <2>1, ClaimingStep DEF CrashInClaim
<1>7. ASSUME NEW t \in Leases, StoreFile(r, t) PROVE IndInv' /\ LeaseMoves
  <2> DEFINE j == grant[t].job
  <2>1. /\ grant[t].runner = r /\ Serve(r) /\ HoldsLease(r, j, t)
        /\ files' = [files EXCEPT ![j] = @ \cup {t}]
        /\ UNCHANGED <<up, job, nextJob, reg, issued, grant>>
    BY <1>7 DEF StoreFile
  <2>2. grant[t] # NoGrant  BY <2>1 DEF NoGrant
  <2>3. j \in Jobs  BY <2>2 DEF IndInv, GrantsSound
  <2>4. /\ files' \in [Jobs -> SUBSET Leases]
        /\ \A i \in Jobs : files'[i] \subseteq files[i] \cup {job'[i].lease}
    BY <1>0, <2>1, <2>3 DEF TypeOK, HoldsLease
  <2>5. \A i \in Jobs : Keeps(job[i], job'[i])
    BY <2>1, KeepsRows
  <2> QED
    BY <1>0, <1>1, <2>1, <2>4, <2>5, KeepingStep DEF TypeOK, FreshIds
<1>8. ASSUME NEW t \in Leases, NEW q \in 1..MaxSeq,
             NEW s \in {"running"} \cup Reported, Sync(r, t, q, s)
      PROVE  IndInv' /\ LeaseMoves
  <2> DEFINE j == grant[t].job
             new == SyncedRow(job[j], t, q, s)
  <2>1. /\ grant[t].runner = r /\ Serve(r) /\ HoldsLease(r, j, t)
        /\ SyncApplies(job[j], q, s)
        /\ job' = [job EXCEPT ![j] = new]
        /\ UNCHANGED <<up, nextJob, files, reg, issued, grant>>
    BY <1>8 DEF Sync
  <2>2. j \in Jobs /\ Keeps(job[j], new)
    BY <2>1, KeepsSynced
  <2> HIDE DEF new
  <2>3. job \in [Jobs -> Rows] /\ job[j].status # "absent"
    BY <1>0, <2>1 DEF TypeOK, HoldsLease
  <2>4. job'[j] = new /\ \A i \in Jobs \ {j} : job'[i] = job[i]
    BY <2>1, <2>2, <2>3
  <2>5. \A i \in Jobs : Keeps(job[i], job'[i])
    BY <1>0, <2>2, <2>4, KeepsSame
  <2>6. job' \in [Jobs -> Rows]
    BY <2>1, <2>2, <2>3 DEF Keeps, RowOK
  <2>7. \A i \in Jobs : i >= nextJob => job'[i].status = "absent"
    BY <1>0, <2>3, <2>4 DEF FreshIds
  <2> QED
    BY <1>0, <1>1, <2>1, <2>5, <2>6, <2>7, KeepingStep DEF TypeOK
<1> QED
  BY <1>2, <1>3, <1>4, <1>5, <1>6, <1>7, <1>8

\* So do the scheduler's passes, the clock, and every crash and restart.
LEMMA ServerStepInv == IndInv /\ ServerStep => IndInv' /\ LeaseMoves
<1> SUFFICES ASSUME IndInv, ServerStep PROVE IndInv' /\ LeaseMoves
  OBVIOUS
<1>0. TypeOK /\ FreshIds /\ (\A j \in Jobs : RowOK(job[j]))
  BY DEF IndInv, RowsOK
<1>1. [r \in Runners |-> 0] \in [Runners -> 0..MaxInFlight]
  OBVIOUS
<1>2. CASE SchedulerPass
  <2>1. \A j \in Jobs : job'[j] = FailStale(RequeueExpired(job[j]))
    BY <1>2 DEF SchedulerPass
  <2>2. \A j \in Jobs : Keeps(job[j], job'[j])
    BY <2>1, KeepsRows
  <2>3. job' \in [Jobs -> Rows]
    BY <1>2, <2>2 DEF SchedulerPass, Keeps, RowOK
  <2>4. \A j \in Jobs : job[j].status = "absent" => job'[j].status = "absent"
    BY <2>1 DEF FailStale, RequeueExpired
  <2> QED
    BY <1>0, <1>2, <2>2, <2>3, <2>4, KeepingStep DEF SchedulerPass, TypeOK, FreshIds
<1>3. CASE Tick
  <2>1. \A j \in Jobs :
          job'[j] = [job[j] EXCEPT !.leaseLeft = Elapse(@), !.syncLeft = Elapse(@)]
    BY <1>3 DEF Tick
  <2>2. \A j \in Jobs : Keeps(job[j], job'[j])
    BY <2>1, KeepsRows
  <2>3. job' \in [Jobs -> Rows]
    BY <1>3, <2>2 DEF Tick, Keeps, RowOK
  <2>4. \A j \in Jobs : job'[j].status = job[j].status
    BY <1>0, <2>1, TickedRowOK
  <2> QED
    BY <1>0, <1>3, <2>2, <2>3, <2>4, KeepingStep DEF Tick, TypeOK, FreshIds
<1>4. CASE Start
  <2>1. \A j \in Jobs : /\ job[j].status = "running" => job'[j] = InterruptedRow(job[j])
                        /\ job[j].status # "running" => job'[j] = job[j]
    BY <1>4 DEF Start, Running
  <2>2. \A j \in Jobs : Keeps(job[j], job'[j])
    BY <2>1, KeepsRows
  <2>3. job' \in [Jobs -> Rows]
    BY <1>4, <2>2 DEF Start, Keeps, RowOK
  <2>4. \A j \in Jobs : job[j].status = "absent" => job'[j].status = "absent"
    BY <2>1
  <2>5. \A j \in Jobs : job'[j].status # "running"
    BY <1>0, <2>1, InterruptedRowOK
  <2> QED
    BY <1>0, <1>4, <2>2, <2>3, <2>4, <2>5, KeepingStep DEF Start, TypeOK, FreshIds
<1>5. ASSUME NEW S \in SUBSET Jobs, Stop(S) PROVE IndInv' /\ LeaseMoves
  <2>1. \A j \in Jobs : /\ job'[j] \in {job[j], InterruptedRow(job[j])}
                        /\ job'[j] # job[j] => job[j].status = "running"
    BY <1>5 DEF Stop, Running
  <2>2. \A j \in Jobs : Keeps(job[j], job'[j])
    BY <2>1, KeepsRows
  <2>3. job' \in [Jobs -> Rows]
    BY <1>5, <2>2 DEF Stop, Keeps, RowOK
  <2>4. \A j \in Jobs : job[j].status = "absent" => job'[j].status = "absent"
    BY <2>1
  <2> QED
    BY <1>0, <1>1, <1>5, <2>2, <2>3, <2>4, KeepingStep DEF Stop, TypeOK, FreshIds
<1>6. ASSUME NEW j \in Jobs, CrashInRetry(j) PROVE IndInv' /\ LeaseMoves
  <2>1. job[j].status \in {"pending"} \cup Terminal /\ job \in [Jobs -> Rows]
    BY <1>0, <1>6 DEF CrashInRetry, Retryable, TypeOK
  <2>2. job'[j] = ResetRow(job[j]) /\ \A i \in Jobs \ {j} : job'[i] = job[i]
    BY <1>6, <2>1 DEF CrashInRetry
  <2>3. \A i \in Jobs : Keeps(job[i], job'[i])
    BY <2>1, <2>2, KeepsRows
  <2>4. job' \in [Jobs -> Rows]
    BY <1>6, <2>1, <2>2, <2>3 DEF CrashInRetry, Keeps, RowOK
  <2>5. \A i \in Jobs : job[i].status = "absent" => job'[i].status = "absent"
    BY <2>1, <2>2 DEF Terminal
  <2> QED
    BY <1>0, <1>1, <1>6, <2>3, <2>4, <2>5, KeepingStep DEF CrashInRetry, TypeOK, FreshIds
<1> QED
  BY <1>2, <1>3, <1>4, <1>5, <1>6 DEF ServerStep

\* Every step preserves the invariant and moves leases forward only.
LEMMA NextInv == IndInv /\ [Next]_vars => IndInv' /\ [LeaseMoves]_vars
<1> SUFFICES ASSUME IndInv, [Next]_vars PROVE IndInv' /\ [LeaseMoves]_vars
  OBVIOUS
<1>1. CASE UNCHANGED vars
  BY <1>1 DEF vars, IndInv, TypeOK, RowsOK, LeaseIdentifiesAttempt,
     GrantsSound, OutcomeGranted, FilesFenced, FreshIds
<1> QED
  BY <1>1, UserStepInv, AdminStepInv, RequestStepInv, ServerStepInv DEF Next

\* IndInv holds in every reachable state.
THEOREM Invariance == Spec => []IndInv
<1>1. Init => IndInv  BY InitInv
<1>2. IndInv /\ [Next]_vars => IndInv'  BY NextInv
<1> QED  BY <1>1, <1>2, PTL DEF Spec

-------------------------------------------------------------------------------
(* The properties the runs check.                                            *)

\* Every column of every row always holds a value of its type.
THEOREM TypeCorrect == Spec => []TypeOK
<1>1. IndInv => TypeOK  BY DEF IndInv
<1> QED  BY <1>1, Invariance, PTL

\* The columns of a row agree in every reachable state: a RUNNING job is within
\* the reach of the reconcilers, a waiting one is held by nobody, and a job has
\* finished exactly in a terminal status.
THEOREM RowsAgreeAlways == Spec => []RowsAgree
<1>1. IndInv => RunningIsReconcilable
  BY DEF IndInv, RowsOK, RowOK, RunningIsReconcilable
<1>2. IndInv => PendingIsUnheld
  BY DEF IndInv, RowsOK, RowOK, PendingIsUnheld
<1>3. IndInv => FinishedIffTerminal
  BY DEF IndInv, RowsOK, RowOK, FinishedIffTerminal
<1>4. IndInv => RowsAgree  BY <1>1, <1>2, <1>3 DEF RowsAgree
<1> QED  BY <1>4, Invariance, PTL

\* A lease token stands for one attempt at one job by one runner.
THEOREM LeaseUnique == Spec => []LeaseIdentifiesAttempt
<1>1. IndInv => LeaseIdentifiesAttempt  BY DEF IndInv
<1> QED  BY <1>1, Invariance, PTL

\* Late, duplicated and reordered syncs of earlier attempts never show in a
\* job's outcome.
THEOREM OutcomeFenced == Spec => []OutcomeOfCurrentLease
<1>1. IndInv => OutcomeOfCurrentLease
  BY DEF IndInv, RowsOK, RowOK, OutcomeOfCurrentLease
<1> QED  BY <1>1, Invariance, PTL

\* Files of two attempts never mix under a running job or beside a reported
\* result, even though the claim commits before it clears the files.
THEOREM FilesFencedAlways == Spec => []FilesOfCurrentLease
<1>1. ASSUME IndInv PROVE FilesOfCurrentLease
  <2> SUFFICES ASSUME NEW j \in Jobs,
                      \/ up /\ job[j].status = "running"
                      \/ job[j].outcome # NoLease
               PROVE  files[j] \subseteq {job[j].lease}
    BY DEF FilesOfCurrentLease
  <2>1. RowOK(job[j])  BY <1>1 DEF IndInv, RowsOK
  <2>2. job[j].lease # NoLease  BY <2>1 DEF RowOK
  <2>3. \/ up /\ job[j].status = "running"
        \/ grant[job[j].lease] # NoGrant
    BY <1>1, <2>1 DEF RowOK, IndInv, OutcomeGranted
  <2> QED  BY <1>1, <2>2, <2>3 DEF IndInv, FilesFenced
<1> QED  BY <1>1, Invariance, PTL

\* Sequence numbers grow under a lease and old leases never come back.
THEOREM LeaseHistory == Spec => LeaseHistoryMovesOn
<1>1. IndInv /\ [Next]_vars => [LeaseMoves]_vars  BY NextInv
<1> QED  BY <1>1, Invariance, PTL DEF Spec, LeaseHistoryMovesOn

-------------------------------------------------------------------------------
(* The control plane implements JobLifecycle, for every value of the         *)
(* constants: the initial states correspond, and every step of the code is a *)
(* step of the life cycle or leaves it unchanged.  The argument uses IndInv; *)
(* the map is StageOf.                                                       *)

AbsVars == <<[j \in Jobs |-> StageOf(j)], [j \in Jobs |-> job[j].lease],
             [j \in Jobs |-> job[j].outcome], issued>>

\* How a status determines the stage of a job.
LEMMA StageOfStatus ==
  ASSUME IndInv, NEW j \in Jobs
  PROVE  /\ StageOf(j) = "queued" <=> job[j].status = "pending"
         /\ StageOf(j) = "held" <=> job[j].status = "running"
         /\ StageOf(j) = "closed" <=> job[j].status \in Terminal
         /\ StageOf(j) = "new" <=> (job[j].status = "absent" /\ j >= nextJob)
         /\ StageOf(j) = "removed" <=> (job[j].status = "absent" /\ j < nextJob)
         /\ StageOf(j) \in {"new", "queued", "held", "closed", "removed"}
<1>1. job[j].status \in Status \cup {"absent"} /\ j \in Nat /\ nextJob \in Nat
  BY DEF IndInv, RowsOK, RowOK, Rows, TypeOK, Jobs
<1> QED  BY <1>1 DEF StageOf, Status, Terminal

\* The same in the next state.
LEMMA StageOfStatusNext ==
  ASSUME IndInv', NEW j \in Jobs
  PROVE  /\ StageOf(j)' = "queued" <=> job'[j].status = "pending"
         /\ StageOf(j)' = "held" <=> job'[j].status = "running"
         /\ StageOf(j)' = "closed" <=> job'[j].status \in Terminal
         /\ StageOf(j)' = "new" <=> (job'[j].status = "absent" /\ j >= nextJob')
         /\ StageOf(j)' = "removed" <=> (job'[j].status = "absent" /\ j < nextJob')
         /\ StageOf(j)' \in {"new", "queued", "held", "closed", "removed"}
<1>1. job'[j].status \in Status \cup {"absent"} /\ j \in Nat /\ nextJob' \in Nat
  BY DEF IndInv, RowsOK, RowOK, Rows, TypeOK, Jobs
<1> QED  BY <1>1 DEF StageOf, Status, Terminal

\* A row whose status, lease and outcome a step leaves alone.
Same(j) ==
  /\ job'[j].status = job[j].status
  /\ job'[j].lease = job[j].lease
  /\ job'[j].outcome = job[j].outcome

\* Rows that agree where StageOf looks are at the same stage.
LEMMA SameStage ==
  ASSUME IndInv, IndInv', nextJob' = nextJob, NEW j \in Jobs, Same(j)
  PROVE  StageOf(j)' = StageOf(j)
  BY StageOfStatus, StageOfStatusNext DEF Same

\* Steps that only move clocks, requests, runners, priorities or files.
LEMMA Stutters ==
  ASSUME IndInv, IndInv', nextJob' = nextJob, issued' = issued,
         \A j \in Jobs : Same(j)
  PROVE  AbsVars' = AbsVars
<1>1. \A j \in Jobs : /\ StageOf(j)' = StageOf(j)
                      /\ job'[j].lease = job[j].lease
                      /\ job'[j].outcome = job[j].outcome
  BY SameStage DEF Same
<1>2. [j \in Jobs |-> StageOf(j)]' = [j \in Jobs |-> StageOf(j)]
  BY <1>1
<1> QED  BY <1>1, <1>2 DEF AbsVars

\* The reconcilers, cancellation and the interruptions by a restart.
LEMMA GivesUp ==
  ASSUME IndInv, IndInv', nextJob' = nextJob, issued' = issued,
         NEW Q \in SUBSET Jobs, NEW C \in SUBSET Jobs, Q \cap C = {},
         \A j \in Q \cup C : job[j].status = "running",
         \A j \in Q : job'[j].status = "pending" /\ job'[j].lease = NoLease,
         \A j \in C : /\ job'[j].status \in Terminal
                      /\ job'[j].lease = job[j].lease,
         \A j \in Jobs : job'[j].outcome = job[j].outcome,
         \A j \in Jobs \ (Q \cup C) : Same(j)
  PROVE  Lifecycle!GiveUp(Q, C)
<1>1. \A j \in Q \cup C : StageOf(j) = "held"
  BY StageOfStatus
<1>2. \A j \in Q : StageOf(j)' = "queued"
  BY StageOfStatusNext
<1>3. \A j \in C : StageOf(j)' = "closed"
  BY StageOfStatusNext
<1>4. \A j \in Jobs \ (Q \cup C) : StageOf(j)' = StageOf(j)
  BY SameStage
<1> QED
  BY <1>1, <1>2, <1>3, <1>4
  DEF Lifecycle!GiveUp, Lifecycle!With, Lifecycle!In, Same, NoLease

\* The case of GivesUp in which no job goes back to the queue.
LEMMA Closes ==
  ASSUME IndInv, IndInv', nextJob' = nextJob, issued' = issued,
         NEW C \in SUBSET Jobs,
         \A j \in C : job[j].status = "running",
         \A j \in C : /\ job'[j].status \in Terminal
                      /\ job'[j].lease = job[j].lease
                      /\ job'[j].outcome = job[j].outcome,
         \A j \in Jobs \ C : Same(j)
  PROVE  Lifecycle!GiveUp({}, C)
<1>1. \A j \in Jobs : job'[j].outcome = job[j].outcome
  BY DEF Same
<1> DEFINE Q == {}
<1>2. /\ Q \in SUBSET Jobs /\ Q \cap C = {}
      /\ \A j \in Q \cup C : job[j].status = "running"
      /\ \A j \in Q : job'[j].status = "pending" /\ job'[j].lease = NoLease
      /\ \A j \in C : /\ job'[j].status \in Terminal
                      /\ job'[j].lease = job[j].lease
      /\ \A j \in Jobs \ (Q \cup C) : Same(j)
  OBVIOUS
<1> HIDE DEF Q
<1>3. Lifecycle!GiveUp(Q, C)
  BY <1>1, <1>2, GivesUp
<1> QED  BY <1>3 DEF Q

\* Retry and deletion.
LEMMA Restarts ==
  ASSUME IndInv, IndInv', nextJob' = nextJob, issued' = issued,
         NEW S \in SUBSET Jobs,
         \A j \in S : /\ job[j].status \in {"pending"} \cup Terminal
                      /\ job'[j].lease = NoLease
                      /\ job'[j].outcome = NoLease,
         \A j \in Jobs \ S : Same(j)
  PROVE  /\ (\A j \in S : job'[j].status = "pending") => Lifecycle!Reset(S)
         /\ (\A j \in S : job'[j].status = "absent") => Lifecycle!Remove(S)
<1>1. \A j \in S : StageOf(j) \in {"queued", "closed"}
  BY StageOfStatus
<1>2. \A j \in Jobs \ S : StageOf(j)' = StageOf(j)
  BY SameStage
<1>3. ASSUME \A j \in S : job'[j].status = "pending" PROVE Lifecycle!Reset(S)
  <2>1. \A j \in S : StageOf(j)' = "queued"
    BY <1>3, StageOfStatusNext
  <2> QED
    BY <1>1, <1>2, <2>1
    DEF Lifecycle!Reset, Lifecycle!With, Lifecycle!In, Same, NoLease
<1>4. ASSUME \A j \in S : job'[j].status = "absent" PROVE Lifecycle!Remove(S)
  <2>1. \A j \in S : j < nextJob
    <3> SUFFICES ASSUME NEW j \in S PROVE j < nextJob
      OBVIOUS
    <3>0. job[j].status \in {"pending"} \cup Terminal
      OBVIOUS
    <3>1. j \in Jobs /\ j \in Nat /\ nextJob \in Nat /\ job[j].status # "absent"
      BY <3>0 DEF IndInv, TypeOK, Jobs, Terminal
    <3> QED  BY <3>1 DEF IndInv, FreshIds
  <2>2. \A j \in S : StageOf(j)' = "removed"
    BY <1>4, <2>1, StageOfStatusNext
  <2> QED
    BY <1>1, <1>2, <2>2
    DEF Lifecycle!Remove, Lifecycle!With, Lifecycle!In, Same, NoLease
<1> QED  BY <1>3, <1>4

-------------------------------------------------------------------------------
\* Every step of the control plane is a step of the life cycle or a stutter.
LEMMA StepRefines ==
  ASSUME IndInv, IndInv', Next
  PROVE  Lifecycle!Next \/ AbsVars' = AbsVars
<1>0. /\ TypeOK /\ FreshIds /\ \A j \in Jobs : RowOK(job[j])
      /\ job \in [Jobs -> Rows]
  BY DEF IndInv, RowsOK, TypeOK
<1>1. CASE CreateJob
  <2>1. /\ nextJob \in Jobs /\ nextJob' = nextJob + 1 /\ issued' = issued
        /\ job' = [job EXCEPT ![nextJob] = CreatedRow]
        /\ job[nextJob].status = "absent" /\ nextJob \in Nat
    BY <1>0, <1>1 DEF CreateJob, FreshIds, Jobs
  <2>2. /\ CreatedRow.status = "pending" /\ CreatedRow.lease = NoLease
        /\ CreatedRow.outcome = NoLease
    BY DEF CreatedRow, AbsentRow
  <2>3. PICK n \in Jobs : n = nextJob
    BY <2>1
  <2>4. job'[n] = CreatedRow /\ \A j \in Jobs \ {n} : job'[j] = job[j]
    BY <1>0, <2>1, <2>3
  <2>5. StageOf(n) = "new" /\ StageOf(n)' = "queued"
    BY <2>1, <2>2, <2>3, <2>4, StageOfStatus, StageOfStatusNext
  <2>6. ASSUME NEW j \in Jobs \ {n} PROVE StageOf(j)' = StageOf(j)
    <3>1. /\ j \in Jobs /\ j \in Nat /\ nextJob \in Nat /\ j # nextJob
          /\ job'[j] = job[j] /\ nextJob' = nextJob + 1
      BY <2>1, <2>3, <2>4 DEF Jobs
    <3>2. j >= nextJob' <=> j >= nextJob
      BY <3>1
    <3>3. j < nextJob' <=> j < nextJob
      BY <3>1
    <3> QED  BY <3>1, <3>2, <3>3, StageOfStatus, StageOfStatusNext
  <2>7. /\ \A j \in Jobs : job'[j].lease = job[j].lease
        /\ \A j \in Jobs : job'[j].outcome = job[j].outcome
    <3>1. job[n].lease = NoLease /\ job[n].outcome = NoLease
      BY <1>0, <2>1, <2>3 DEF RowOK, Terminal
    <3> QED  BY <2>2, <2>4, <3>1
  <2>8. Lifecycle!Submit(n)
    BY <2>1, <2>5, <2>6, <2>7 DEF Lifecycle!Submit
  <2> QED  BY <2>8 DEF Lifecycle!Next
<1>2. ASSUME NEW S \in SUBSET Jobs, Cancel(S)
      PROVE  Lifecycle!Next \/ AbsVars' = AbsVars
  <2>a. PICK C \in SUBSET Jobs : C = S \cap Running
    OBVIOUS
  <2>1. /\ \A j \in C : job'[j] = CancelledRow(job[j]) /\ job[j].status = "running"
        /\ \A j \in Jobs \ C : job'[j] = job[j]
        /\ nextJob' = nextJob /\ issued' = issued
        /\ C \in SUBSET Jobs
    BY <1>2, <2>a DEF Cancel, Running
  <2>2. \A j \in C : /\ job'[j].status \in Terminal
                     /\ job'[j].lease = job[j].lease
                     /\ job'[j].outcome = job[j].outcome
    BY <1>0, <2>1, CancelledRowOK DEF Terminal
  <2>0. \A j \in Jobs \ C : Same(j)
    BY <2>1 DEF Same
  <2>3. Lifecycle!GiveUp({}, C)
    BY <2>0, <2>1, <2>2, Closes
  <2> QED  BY <2>1, <2>3 DEF Lifecycle!Next
<1>3. ASSUME NEW S \in SUBSET Jobs, Retry(S)
      PROVE  Lifecycle!Next \/ AbsVars' = AbsVars
  <2>a. PICK R \in SUBSET Jobs : R = Retryable(S)
    BY DEF Retryable
  <2>1. /\ \A j \in R : /\ job'[j] = ResetRow(job[j])
                        /\ job[j].status \in {"pending"} \cup Terminal
        /\ \A j \in Jobs \ R : job'[j] = job[j]
        /\ nextJob' = nextJob /\ issued' = issued /\ R \in SUBSET Jobs
    BY <1>3, <2>a DEF Retry, Retryable
  <2>2. \A j \in R : /\ job'[j].status = "pending" /\ job'[j].lease = NoLease
                     /\ job'[j].outcome = NoLease
    BY <1>0, <2>1, ResetRowOK
  <2>3. \A j \in Jobs \ R : Same(j)
    BY <2>1 DEF Same
  <2>4. \A j \in R : /\ job[j].status \in {"pending"} \cup Terminal
                     /\ job'[j].lease = NoLease
                     /\ job'[j].outcome = NoLease
    BY <2>1, <2>2
  <2>5. Lifecycle!Reset(R)
    BY <2>1, <2>2, <2>3, <2>4, Restarts
  <2> QED  BY <2>1, <2>5 DEF Lifecycle!Next
<1>4. ASSUME NEW S \in SUBSET Jobs, Delete(S)
      PROVE  Lifecycle!Next \/ AbsVars' = AbsVars
  <2>a. PICK R \in SUBSET Jobs : R = Retryable(S)
    BY DEF Retryable
  <2>1. /\ \A j \in R : /\ job'[j] = AbsentRow
                        /\ job[j].status \in {"pending"} \cup Terminal
        /\ \A j \in Jobs \ R : job'[j] = job[j]
        /\ nextJob' = nextJob /\ issued' = issued /\ R \in SUBSET Jobs
    BY <1>4, <2>a DEF Delete, Retryable
  <2>2. \A j \in R : /\ job'[j].status = "absent" /\ job'[j].lease = NoLease
                     /\ job'[j].outcome = NoLease
    BY <2>1 DEF AbsentRow
  <2>3. \A j \in Jobs \ R : Same(j)
    BY <2>1 DEF Same
  <2>4. \A j \in R : /\ job[j].status \in {"pending"} \cup Terminal
                     /\ job'[j].lease = NoLease
                     /\ job'[j].outcome = NoLease
    BY <2>1, <2>2
  <2>5. Lifecycle!Remove(R)
    BY <2>1, <2>2, <2>3, <2>4, Restarts
  <2> QED  BY <2>1, <2>5 DEF Lifecycle!Next
<1>5. ASSUME NEW S \in SUBSET Jobs, NEW p \in Priorities, SetPriority(S, p)
      PROVE  Lifecycle!Next \/ AbsVars' = AbsVars
  <2>1. \A j \in Jobs : \/ job'[j] = job[j]
                        \/ job'[j] = [job[j] EXCEPT !.priority = p]
    BY <1>5 DEF SetPriority
  <2>2. ASSUME NEW j \in Jobs PROVE Same(j)
    <3>1. job[j] \in Rows  BY <1>0
    <3> QED  BY <2>1, <3>1 DEF Same, Rows
  <2> QED  BY <1>5, <2>2, Stutters DEF SetPriority
<1>6. CASE AdminStep
  <2>1. nextJob' = nextJob /\ issued' = issued /\ job' = job
    BY <1>6 DEF AdminStep, CreateRunner, SetEnabled, DeleteRunner
  <2> QED  BY <2>1, Stutters DEF Same
<1>7. ASSUME NEW r \in Runners, NEW j \in Jobs, StartAttempt(r, j), nextJob' = nextJob
      PROVE  Lifecycle!Next \/ AbsVars' = AbsVars
  <2>1. /\ issued' = issued + 1 /\ issued + 1 \in Leases
        /\ job' = [job EXCEPT ![j] = ClaimedRow(@, r, issued + 1)]
        /\ job[j].status = "pending"
    <3>1. issued \in 0..MaxLeases /\ issued < MaxLeases /\ MaxLeases \in Nat
      BY <1>0, <1>7, BoundsAssumption DEF StartAttempt, TypeOK
    <3>2. issued + 1 \in Leases
      BY <3>1 DEF Leases
    <3> QED  BY <1>7, <3>2 DEF StartAttempt, IsNext
  <2>0. job[j].outcome = NoLease
    BY <1>0, <2>1 DEF RowOK, Terminal
  <2> DEFINE new == ClaimedRow(job[j], r, issued + 1)
  <2>2. /\ new.status = "running" /\ new.lease = issued + 1
        /\ new.outcome = NoLease
    BY <1>0, <2>1, ClaimedRowOK
  <2>3. job'[j] = new /\ \A i \in Jobs \ {j} : job'[i] = job[i]
    BY <1>0, <2>1
  <2> HIDE DEF new
  <2>4. StageOf(j) = "queued" /\ StageOf(j)' = "held"
    BY <2>1, <2>2, <2>3, StageOfStatus, StageOfStatusNext
  <2>5. \A i \in Jobs \ {j} : Same(i) /\ StageOf(i)' = StageOf(i)
    BY <1>7, <2>3, SameStage DEF Same
  <2>6. \A i \in Jobs : job'[i].outcome = job[i].outcome
    BY <2>0, <2>2, <2>3
  <2>7. Lifecycle!Grant(j)
    <3>1. [i \in Jobs |-> StageOf(i)'] =
            [[i \in Jobs |-> StageOf(i)] EXCEPT ![j] = "held"]
      BY <2>4, <2>5
    <3>2. [i \in Jobs |-> job'[i].lease] =
            [[i \in Jobs |-> job[i].lease] EXCEPT ![j] = issued + 1]
      BY <2>2, <2>3
    <3>3. [i \in Jobs |-> job'[i].outcome] = [i \in Jobs |-> job[i].outcome]
      BY <2>6
    <3> QED  BY <2>1, <2>4, <3>1, <3>2, <3>3 DEF Lifecycle!Grant
  <2> QED  BY <2>7 DEF Lifecycle!Next
<1>8. ASSUME NEW r \in Runners,
             \/ Authenticate(r) \/ Refuse(r) \/ Heartbeat(r)
             \/ \E t \in Leases : StoreFile(r, t)
      PROVE  Lifecycle!Next \/ AbsVars' = AbsVars
  <2>1. /\ nextJob' = nextJob /\ issued' = issued
        /\ \A j \in Jobs : job'[j] \in {job[j], ExtendedRow(job[j], r)}
    BY <1>8 DEF Authenticate, Refuse, Heartbeat, StoreFile
  <2>2. \A j \in Jobs : Same(j)
    BY <1>0, <2>1, ExtendedRowOK DEF Same
  <2> QED  BY <2>1, <2>2, Stutters
<1>9. ASSUME NEW r \in Runners, NEW t \in Leases, NEW q \in 1..MaxSeq,
             NEW s \in {"running"} \cup Reported, Sync(r, t, q, s)
      PROVE  Lifecycle!Next \/ AbsVars' = AbsVars
  <2>1. PICK j \in Jobs :
          /\ j = grant[t].job /\ job[j].lease = t
          /\ job[j].status # "absent" /\ SyncApplies(job[j], q, s)
          /\ job' = [job EXCEPT ![j] = SyncedRow(@, t, q, s)]
          /\ nextJob' = nextJob /\ issued' = issued
    BY <1>9, KeepsSynced DEF Sync, HoldsLease
  <2> DEFINE new == SyncedRow(job[j], t, q, s)
  <2>2. t # NoLease /\ RowOK(job[j])
    BY <1>0 DEF Leases, NoLease
  <2>3. /\ new.status = s /\ new.lease = t
        /\ new.outcome = IF s \in Terminal THEN t ELSE job[j].outcome
        /\ s = "running" => job[j].status = "running"
    BY <2>1, <2>2, SyncedRowOK
  <2>4. job'[j] = new /\ \A i \in Jobs \ {j} : job'[i] = job[i]
    BY <1>0, <2>1
  <2> HIDE DEF new
  <2>5. CASE s = "running"
    <3>1. \A i \in Jobs : Same(i)
      BY <2>1, <2>3, <2>4, <2>5 DEF Same, Terminal
    <3> QED  BY <2>1, <3>1, Stutters
  <2>6. CASE s \in Terminal
    <3>1. job[j].status \in {"running"} \cup Terminal
      BY <2>1, <2>2 DEF RowOK, Rows, Status
    <3>2. StageOf(j) \in {"held", "closed"} /\ StageOf(j)' = "closed"
      BY <2>3, <2>4, <2>6, <3>1, StageOfStatus, StageOfStatusNext
    <3>3. \A i \in Jobs \ {j} : Same(i) /\ StageOf(i)' = StageOf(i)
      BY <2>1, <2>4, SameStage DEF Same
    <3>4. /\ \A i \in Jobs \ {j} : job'[i].outcome = job[i].outcome
          /\ \A i \in Jobs : job'[i].lease = job[i].lease
          /\ job'[j].outcome = t /\ job[j].lease = t /\ t # 0
      BY <2>1, <2>2, <2>3, <2>4, <2>6, <3>3 DEF Same, NoLease
    <3>5. issued' = issued /\ \A i \in Jobs \ {j} : StageOf(i)' = StageOf(i)
      BY <2>1, <3>3
    <3>6. Lifecycle!Report(j)
      BY <3>2, <3>4, <3>5 DEF Lifecycle!Report
    <3> QED  BY <3>6 DEF Lifecycle!Next
  <2> QED  BY <2>5, <2>6, ValuesAssumption
<1>10. CASE SchedulerPass
  <2> DEFINE mid(j) == RequeueExpired(job[j])
  <2>a. PICK Q \in SUBSET Jobs : Q = {j \in Jobs : mid(j) # job[j]}
    OBVIOUS
  <2>b. PICK C \in SUBSET Jobs :
          C = {j \in Jobs \ Q : FailStale(job[j]) # job[j]}
    OBVIOUS
  <2>1. /\ \A j \in Jobs : job'[j] = FailStale(mid(j))
        /\ nextJob' = nextJob /\ issued' = issued
    BY <1>10 DEF SchedulerPass
  <2>2. ASSUME NEW j \in Q
        PROVE  /\ job[j].status = "running"
               /\ job'[j].status = "pending" /\ job'[j].lease = NoLease
               /\ job'[j].outcome = job[j].outcome
    <3>1. /\ RowOK(mid(j)) /\ mid(j).outcome = job[j].outcome
          /\ job[j].status = "running" /\ mid(j).status = "pending"
          /\ mid(j).lease = NoLease
      BY <1>0, <2>2, <2>a, RequeueExpiredOK
    <3> HIDE DEF mid
    <3>2. FailStale(mid(j)) = mid(j)
      BY <3>1 DEF FailStale
    <3> QED  BY <2>1, <3>1, <3>2
  <2>3. ASSUME NEW j \in C
        PROVE  /\ job[j].status = "running"
               /\ job'[j].status \in Terminal /\ job'[j].lease = job[j].lease
               /\ job'[j].outcome = job[j].outcome
    <3>1. job'[j] = FailStale(job[j]) /\ FailStale(job[j]) # job[j]
      BY <2>1, <2>3, <2>a, <2>b
    <3> QED  BY <1>0, <3>1, FailStaleOK DEF Terminal
  <2>4. \A j \in Jobs \ (Q \cup C) : job'[j] = job[j]
    BY <2>1, <2>a, <2>b
  <2> HIDE DEF mid
  <2>5. Q \in SUBSET Jobs /\ C \in SUBSET Jobs /\ Q \cap C = {}
    BY <2>b
  <2>6. \A j \in Jobs : job'[j].outcome = job[j].outcome
    BY <2>2, <2>3, <2>4
  <2>7. \A j \in Jobs \ (Q \cup C) : Same(j)
    BY <2>4 DEF Same
  <2>8. /\ \A j \in Q \cup C : job[j].status = "running"
        /\ \A j \in Q : job'[j].status = "pending" /\ job'[j].lease = NoLease
        /\ \A j \in C : /\ job'[j].status \in Terminal
                        /\ job'[j].lease = job[j].lease
    BY <2>2, <2>3
  <2>9. Lifecycle!GiveUp(Q, C)
    BY <2>1, <2>5, <2>6, <2>7, <2>8, GivesUp
  <2> QED  BY <2>5, <2>9 DEF Lifecycle!Next
<1>11. CASE Tick
  <2>1. /\ nextJob' = nextJob /\ issued' = issued
        /\ \A j \in Jobs : job'[j] =
             [job[j] EXCEPT !.leaseLeft = Elapse(@), !.syncLeft = Elapse(@)]
    BY <1>11 DEF Tick
  <2>2. \A j \in Jobs : Same(j)
    BY <1>0, <2>1, TickedRowOK DEF Same
  <2> QED  BY <2>1, <2>2, Stutters
<1>12. ASSUME NEW S \in SUBSET Running,
              \A j \in S : job'[j] = InterruptedRow(job[j]),
              \A j \in Jobs \ S : job'[j] = job[j],
              nextJob' = nextJob, issued' = issued
       PROVE  Lifecycle!Next \/ AbsVars' = AbsVars
  <2>1. \A j \in S : /\ job[j].status = "running"
                     /\ job'[j].status \in Terminal
                     /\ job'[j].lease = job[j].lease
                     /\ job'[j].outcome = job[j].outcome
    BY <1>0, <1>12, InterruptedRowOK DEF Running, Terminal
  <2>2. S \in SUBSET Jobs  BY DEF Running
  <2>3. Lifecycle!GiveUp({}, S)
    <3>1. \A j \in Jobs \ S : Same(j)
      BY <1>12 DEF Same
    <3> QED  BY <1>12, <2>1, <2>2, <3>1, Closes
  <2> QED  BY <2>2, <2>3 DEF Lifecycle!Next
<1>13. CASE Start
  BY <1>12, <1>13 DEF Start, Running
<1>14. ASSUME NEW S \in SUBSET Jobs, Stop(S)
       PROVE  Lifecycle!Next \/ AbsVars' = AbsVars
  <2>1. S \cap Running \in SUBSET Running
    OBVIOUS
  <2>2. /\ \A j \in S \cap Running : job'[j] = InterruptedRow(job[j])
        /\ \A j \in Jobs \ (S \cap Running) : job'[j] = job[j]
        /\ nextJob' = nextJob /\ issued' = issued
    BY <1>14 DEF Stop, Running
  <2> QED  BY <1>12, <2>1, <2>2
<1>15. ASSUME NEW j \in Jobs, CrashInRetry(j)
       PROVE  Lifecycle!Next \/ AbsVars' = AbsVars
  <2>1. /\ job[j].status \in {"pending"} \cup Terminal
        /\ job'[j] = ResetRow(job[j]) /\ \A i \in Jobs \ {j} : job'[i] = job[i]
        /\ nextJob' = nextJob /\ issued' = issued
    BY <1>0, <1>15 DEF CrashInRetry, Retryable
  <2>2. /\ job'[j].status = "pending" /\ job'[j].lease = NoLease
        /\ job'[j].outcome = NoLease
    BY <1>0, <2>1, ResetRowOK
  <2>3. Lifecycle!Reset({j})
    BY <2>1, <2>2, Restarts DEF Same
  <2> QED  BY <2>3 DEF Lifecycle!Next
<1>16. CASE UserStep
  BY <1>1, <1>2, <1>3, <1>4, <1>5, <1>16 DEF UserStep
<1>17. CASE RequestStep
  BY <1>7, <1>8, <1>9, <1>17 DEF RequestStep, Claim, CrashInClaim
<1>18. CASE ServerStep
  BY <1>10, <1>11, <1>13, <1>14, <1>15, <1>18 DEF ServerStep
<1> QED
  BY <1>6, <1>16, <1>17, <1>18 DEF Next

\* Nothing that happens to a job leaves the life cycle: it is held only under
\* a fresh lease out of the queue, and a closed job is never resumed.
THEOREM Refinement == Spec => ImplementsLifecycle
<1>1. Init => Lifecycle!Init
  <2> SUFFICES ASSUME Init PROVE Lifecycle!Init
    OBVIOUS
  <2>1. /\ nextJob = 1 /\ issued = 0
        /\ \A j \in Jobs : /\ j \in Nat /\ j >= 1
                           /\ job[j].status = "absent"
                           /\ job[j].lease = 0 /\ job[j].outcome = 0
    BY DEF Init, AbsentRow, NoLease, Jobs
  <2>2. \A j \in Jobs : StageOf(j) = "new"
    BY <2>1, InitInv, StageOfStatus
  <2> QED  BY <2>1, <2>2 DEF Lifecycle!Init
<1>2. IndInv /\ IndInv' /\ [Next]_vars => [Lifecycle!Next]_(Lifecycle!vars)
  <2> SUFFICES ASSUME IndInv, IndInv', [Next]_vars
               PROVE  [Lifecycle!Next]_(Lifecycle!vars)
    OBVIOUS
  <2>1. CASE Next
    BY <2>1, StepRefines DEF AbsVars, Lifecycle!vars
  <2>2. CASE UNCHANGED vars
    BY <2>2 DEF vars, Lifecycle!vars, StageOf
  <2> QED  BY <2>1, <2>2
<1> QED
  BY <1>1, <1>2, Invariance, PTL DEF Spec, ImplementsLifecycle, Lifecycle!Spec

-------------------------------------------------------------------------------
(* The runners composed with the control plane.  Every step of the           *)
(* composition is a step of the control plane or leaves it alone, so what is *)
(* proved above holds of it too.  SystemInv adds what relates the executions *)
(* and the requests under way to the rows: sequence numbers of terminal      *)
(* syncs are above those of running ones, so a sync the server finds         *)
(* outdated was overtaken by one that said the same.                         *)

Messages == [lease : Leases, q : 1..MaxSeq, s : Reported \cup {"running"},
             awaited : BOOLEAN]

\* What holds of the execution e under lease t taken alone.
ExecutionOK(t, e) ==
  /\ e \in Executions
  /\ e.phase = "none" => e = NoExecution
  /\ e.phase = "none" <=> grant[t] = NoGrant
  /\ e.phase = "work" => e.result = "none"
  /\ e.phase \in {"drain", "ack", "closing", "done", "dropped"} => e.result # "none"
  /\ e.status # "running" => e.status = e.result
  /\ e.s # "running" => e.s = e.status
  /\ e.q < e.seq
  /\ e.at = "wait" => e.q > 0

\* A request m was sent by the execution e before its latest payload, or is
\* that; and only the latest is waited for.
Sent(m, e) ==
  /\ e.phase # "none"
  /\ m.q <= e.q
  /\ m.s # "running" => m.s = e.s
  /\ m.s = "running" /\ e.s # "running" => m.q < e.q

Awaits(m, e) == m.awaited => e.at = "wait" /\ m.q = e.q /\ m.s = e.s

\* The requests of an attempt that report its result come after the others.
TerminalLast ==
  \A m, n \in net :
    m.lease = n.lease /\ m.s = "running" /\ n.s # "running" => m.q < n.q

\* A row against the execution e of its lease: no sequence number is ahead of
\* the execution's; the outcome is its result; and without an outcome neither
\* an acknowledgement nor a later number was seen.
ReportOK(row, e) ==
  /\ row.seq < e.seq
  /\ row.outcome # NoLease => row.status = e.result
  /\ row.outcome = NoLease =>
       /\ e.acked # "yes" /\ ~IsAck(e)
       /\ e.s # "running" => row.seq < e.q

\* The requests that report a result are ahead of a row that shows none.
Ahead(row, m) ==
  m.lease = row.lease /\ m.s # "running" /\ row.outcome = NoLease => row.seq < m.q

ReportsOK ==
  \A j \in Jobs : job[j].lease # NoLease =>
    /\ ReportOK(job[j], run[job[j].lease])
    /\ \A m \in net : Ahead(job[j], m)

WithinCapacity == \A r \in Runners : Cardinality(InflightOn(r)) <= Capacity

SystemInv ==
  /\ worker \in [Runners -> {"up", "stopping", "down"}]
  /\ run \in [Leases -> Executions]
  /\ faults \in 0..MaxFaults
  /\ net \subseteq Messages
  /\ \A t \in Leases : ExecutionOK(t, run[t])
  /\ \A m \in net : Sent(m, run[m.lease]) /\ Awaits(m, run[m.lease])
  /\ TerminalLast
  /\ ReportsOK
  /\ WithinCapacity

\* What a step that is no sync does to a row: its attempt is taken away, or
\* its sequence number and outcome, and with an outcome its status, stay.
Undisturbed(old, new) ==
  new.lease # NoLease =>
    /\ new.lease = old.lease /\ new.seq = old.seq /\ new.outcome = old.outcome
    /\ old.outcome # NoLease => new.status = old.status

Quiet ==
  /\ \A j \in Jobs : Undisturbed(job[j], job'[j])
  /\ issued' = issued /\ grant' = grant

\* Every statement but the claim and the sync leaves the row's attempt alone.
LEMMA UndisturbedRows ==
  ASSUME IndInv, NEW j \in Jobs
  PROVE  /\ Undisturbed(job[j], job[j])
         /\ Undisturbed(job[j], ResetRow(job[j]))
         /\ Undisturbed(job[j], AbsentRow)
         /\ job[j].status = "running" =>
              /\ Undisturbed(job[j], CancelledRow(job[j]))
              /\ Undisturbed(job[j], InterruptedRow(job[j]))
         /\ Undisturbed(job[j], FailStale(RequeueExpired(job[j])))
         /\ \A r \in Runners : Undisturbed(job[j], ExtendedRow(job[j], r))
         /\ Undisturbed(job[j], [job[j] EXCEPT !.leaseLeft = Elapse(@),
                                               !.syncLeft = Elapse(@)])
<1> DEFINE row == job[j]
<1>1. RowOK(row)  BY DEF IndInv, RowsOK
<1>2. row.status = "running" => row.outcome = NoLease
  BY <1>1 DEF RowOK, Terminal
<1>3. Undisturbed(row, row)  BY DEF Undisturbed
<1>4. Undisturbed(row, ResetRow(row))  BY <1>1, ResetRowOK DEF Undisturbed
<1>5. Undisturbed(row, AbsentRow)  BY DEF Undisturbed, AbsentRow
<1>6. ASSUME row.status = "running"
      PROVE  Undisturbed(row, CancelledRow(row)) /\ Undisturbed(row, InterruptedRow(row))
  BY <1>1, <1>2, <1>6, CancelledRowOK, InterruptedRowOK DEF Undisturbed
<1>7. Undisturbed(row, FailStale(RequeueExpired(row)))
  <2> DEFINE mid == RequeueExpired(row)
  <2>1. /\ RowOK(mid) /\ mid.outcome = row.outcome
        /\ \/ mid = row
           \/ row.status = "running" /\ mid.lease = NoLease
    BY <1>1, RequeueExpiredOK
  <2> HIDE DEF mid
  <2>2. /\ FailStale(mid).outcome = mid.outcome
        /\ FailStale(mid).lease = mid.lease /\ FailStale(mid).seq = mid.seq
        /\ FailStale(mid) = mid \/ mid.status = "running"
    BY <2>1, FailStaleOK
  <2>3. Undisturbed(row, FailStale(mid))
    BY <1>2, <2>1, <2>2 DEF Undisturbed
  <2> QED  BY <2>3 DEF mid
<1>8. ASSUME NEW r \in Runners PROVE Undisturbed(row, ExtendedRow(row, r))
  BY <1>1, ExtendedRowOK DEF Undisturbed
<1>9. Undisturbed(row, [row EXCEPT !.leaseLeft = Elapse(@), !.syncLeft = Elapse(@)])
  <2> DEFINE new == [row EXCEPT !.leaseLeft = Elapse(@), !.syncLeft = Elapse(@)]
  <2>1. /\ new.status = row.status /\ new.lease = row.lease
        /\ new.seq = row.seq /\ new.outcome = row.outcome
    BY <1>1, TickedRowOK
  <2> QED  BY <2>1 DEF Undisturbed
<1> QED  BY <1>3, <1>4, <1>5, <1>6, <1>7, <1>8, <1>9

\* The steps of users, of the scheduler, of the clock and of the server's life,
\* and the requests that report nothing, disturb no attempt.
LEMMA QuietSteps ==
  ASSUME IndInv,
         \/ UserStep \/ SchedulerPass \/ Tick \/ Start
         \/ \E S \in SUBSET Jobs : Stop(S)
         \/ \E j \in Jobs : CrashInRetry(j)
         \/ \E r \in Runners : \/ CreateRunner(r) \/ DeleteRunner(r)
                               \/ \E e \in {"enabled", "disabled"} : SetEnabled(r, e)
                               \/ Authenticate(r) \/ Heartbeat(r) \/ Refuse(r)
  PROVE  Quiet
<1>0. job \in [Jobs -> Rows] /\ \A j \in Jobs : RowOK(job[j])
  BY DEF IndInv, TypeOK, RowsOK
<1>1. ASSUME issued' = issued, grant' = grant,
             \A j \in Jobs :
               \/ job'[j] \in {job[j], ResetRow(job[j]), AbsentRow,
                               FailStale(RequeueExpired(job[j]))}
               \/ /\ job[j].status = "running"
                  /\ job'[j] \in {CancelledRow(job[j]), InterruptedRow(job[j])}
               \/ \E r \in Runners : job'[j] = ExtendedRow(job[j], r)
               \/ job'[j] = [job[j] EXCEPT !.leaseLeft = Elapse(@),
                                           !.syncLeft = Elapse(@)]
      PROVE  Quiet
  BY <1>1, UndisturbedRows DEF Quiet
<1>2. CASE CreateJob
  <2>1. nextJob \in Jobs /\ issued' = issued /\ grant' = grant
        /\ job' = [job EXCEPT ![nextJob] = CreatedRow]
    BY <1>2 DEF CreateJob
  <2>2. CreatedRow.lease = NoLease
    BY DEF CreatedRow, AbsentRow
  <2> HIDE DEF CreatedRow
  <2>3. \A j \in Jobs : job'[j] \in {job[j], CreatedRow}
    BY <1>0, <2>1
  <2> QED  BY <2>1, <2>2, <2>3 DEF Quiet, Undisturbed
<1>3. ASSUME NEW S \in SUBSET Jobs, Cancel(S) PROVE Quiet
  BY <1>1, <1>3 DEF Cancel, Running
<1>4. ASSUME NEW S \in SUBSET Jobs, Retry(S) PROVE Quiet
  BY <1>1, <1>4 DEF Retry
<1>5. ASSUME NEW S \in SUBSET Jobs, Delete(S) PROVE Quiet
  BY <1>1, <1>5 DEF Delete
<1>6. ASSUME NEW S \in SUBSET Jobs, NEW p \in Priorities, SetPriority(S, p)
      PROVE  Quiet
  <2>1. /\ issued' = issued /\ grant' = grant
        /\ \A j \in Jobs : job'[j] \in {job[j], [job[j] EXCEPT !.priority = p]}
    BY <1>6 DEF SetPriority
  <2>2. ASSUME NEW j \in Jobs PROVE Undisturbed(job[j], job'[j])
    BY <1>0, <2>1 DEF Undisturbed, Rows
  <2> QED  BY <2>1, <2>2 DEF Quiet
<1>7. CASE UserStep
  BY <1>2, <1>3, <1>4, <1>5, <1>6, <1>7 DEF UserStep
<1>8. CASE SchedulerPass
  BY <1>1, <1>8 DEF SchedulerPass
<1>9. CASE Tick
  BY <1>1, <1>9 DEF Tick
<1>10. CASE Start
  BY <1>1, <1>10 DEF Start, Running
<1>11. ASSUME NEW S \in SUBSET Jobs, Stop(S) PROVE Quiet
  BY <1>1, <1>11 DEF Stop, Running
<1>12. ASSUME NEW r \in Runners, CreateRunner(r) \/ Authenticate(r) \/ Refuse(r)
       PROVE  Quiet
  BY <1>1, <1>12 DEF CreateRunner, Authenticate, Refuse
<1>13. ASSUME NEW r \in Runners, Heartbeat(r) PROVE Quiet
  BY <1>1, <1>13 DEF Heartbeat
<1>14. ASSUME NEW r \in Runners,
              DeleteRunner(r) \/ \E e \in {"enabled", "disabled"} : SetEnabled(r, e)
       PROVE  Quiet
  BY <1>1, <1>14 DEF DeleteRunner, SetEnabled
<1>15. ASSUME NEW j \in Jobs, CrashInRetry(j) PROVE Quiet
  <2>1. /\ issued' = issued /\ grant' = grant
        /\ \A i \in Jobs : job'[i] \in {job[i], ResetRow(job[i])}
    BY <1>0, <1>15 DEF CrashInRetry
  <2> QED  BY <1>1, <2>1
<1> QED
  BY <1>7, <1>8, <1>9, <1>10, <1>11, <1>12, <1>13, <1>14, <1>15
-------------------------------------------------------------------------------
(* What preserves SystemInv.                                                 *)

\* A request has at least one try.
LEMMA TriesRange == MaxTries \in Nat /\ 0 \in 0..MaxTries /\ 1 \in 0..MaxTries
  BY ExecutionAssumption

\* The numbers in an execution.
LEMMA ExecutionTypes ==
  ASSUME NEW e \in Executions
  PROVE  e.q \in Nat /\ e.seq \in Nat /\ e.answer \in Nat /\ e.tries \in Nat
<1>1. MaxSeq \in Nat /\ MaxTries \in Nat
  BY ExecutionAssumption
<1>2. e.q \in 0..MaxSeq /\ e.seq \in 1..(MaxSeq + 1) /\ e.answer \in 0..MaxSeq
      /\ e.tries \in 0..MaxTries
  BY DEF Executions
<1> QED  BY <1>1, <1>2

\* The executions a runner has in flight are finitely many.
LEMMA InflightFinite ==
  ASSUME NEW r \in Runners
  PROVE  InflightOn(r) \subseteq Leases /\ IsFiniteSet(InflightOn(r))
<1>1. InflightOn(r) \subseteq Leases  BY DEF InflightOn, Inflight, Live
<1>2. IsFiniteSet(Leases)  BY FS_Interval DEF Leases
<1> QED  BY <1>1, <1>2, FS_Subset

\* The execution of t moves on, or stays as it is.
Moves(t) ==
  LET e == run'[t]
  IN  /\ ExecutionOK(t, e)
      /\ \A m \in net : m.lease = t => Sent(m, e)
      /\ \A n \in net' : n.lease = t => Awaits(n, e)
      /\ \A j \in Jobs : job[j].lease = t => ReportOK(job[j], e)
      /\ t \in Inflight' => t \in Inflight

\* n is m, which perhaps nobody waits for any more.
From(m, n) ==
  n.lease = m.lease /\ n.q = m.q /\ n.s = m.s /\ (n.awaited => m.awaited)

\* A step that disturbs no row, lets executions move on, and sends nothing but
\* the latest payload of an execution preserves the invariant.
LEMMA AdjustingStep ==
  ASSUME IndInv, SystemInv, Quiet,
         worker' \in [Runners -> {"up", "stopping", "down"}],
         faults' \in 0..MaxFaults,
         run' \in [Leases -> Executions],
         net' \subseteq Messages,
         \A t \in Leases : Moves(t),
         \A n \in net' : \/ \E m \in net : From(m, n)
                         \/ n.q = run'[n.lease].q /\ n.s = run'[n.lease].s
                            /\ run'[n.lease].phase # "none"
  PROVE  SystemInv'
<1> USE DEF SystemInv
<1>1. \A t \in Leases : ExecutionOK(t, run[t])'
  BY DEF Moves, Quiet, ExecutionOK
<1>2. \A j \in Jobs : job[j].lease \in Leases \cup {NoLease} /\ job[j].seq \in Nat
  BY DEF IndInv, RowsOK, RowOK, Rows
<1>3. \A m \in net : m.lease \in Leases /\ m.q \in Nat
  BY DEF Messages
<1>4. \A n \in net' : n.lease \in Leases /\ n.q \in Nat
  BY DEF Messages
<1>5. \A t \in Leases : run'[t].q \in Nat
  BY ExecutionTypes DEF Moves, ExecutionOK
<1>6. ASSUME NEW n \in net' PROVE Sent(n, run'[n.lease])
  <2>1. CASE \E m \in net : From(m, n)
    <3>1. PICK m \in net : From(m, n)  BY <2>1
    <3>2. Sent(m, run'[m.lease])  BY <1>3 DEF Moves
    <3> QED  BY <3>1, <3>2 DEF From, Sent
  <2>2. CASE /\ n.q = run'[n.lease].q /\ n.s = run'[n.lease].s
             /\ run'[n.lease].phase # "none"
    BY <1>4, <1>5, <2>2 DEF Sent
  <2> QED  BY <2>1, <2>2
<1>7. \A n \in net' : Awaits(n, run'[n.lease])
  BY <1>4 DEF Moves
<1>8. TerminalLast'
  <2> SUFFICES ASSUME NEW m \in net', NEW n \in net', m.lease = n.lease,
                      m.s = "running", n.s # "running"
               PROVE  m.q < n.q
    BY DEF TerminalLast
  <2> DEFINE e == run'[n.lease]
  <2>1. Sent(m, e) /\ Sent(n, e)  BY <1>6
  <2>2. n.s = e.s /\ m.q < e.q  BY <2>1 DEF Sent
  <2>3. CASE n.q = e.q  BY <2>2, <2>3
  <2>4. CASE \E k \in net : From(k, n)
    <3>1. PICK k \in net : From(k, n)  BY <2>4
    <3>2. CASE \E i \in net : From(i, m)
      <4>1. PICK i \in net : From(i, m)  BY <3>2
      <4> QED  BY <3>1, <4>1 DEF From, TerminalLast
    <3>3. CASE m.s = e.s  BY <2>2, <3>3
    <3> QED  BY <3>2, <3>3
  <2> QED  BY <2>3, <2>4
<1>9. ReportsOK'
  <2> SUFFICES ASSUME NEW j \in Jobs, job'[j].lease # NoLease
               PROVE  /\ ReportOK(job'[j], run'[job'[j].lease])
                      /\ \A n \in net' : Ahead(job'[j], n)
    BY DEF ReportsOK
  <2> DEFINE t == job[j].lease
  <2>1. /\ job'[j].lease = t /\ job'[j].seq = job[j].seq
        /\ job'[j].outcome = job[j].outcome
        /\ job[j].outcome # NoLease => job'[j].status = job[j].status
    BY DEF Quiet, Undisturbed
  <2>2. t \in Leases  BY <1>2, <2>1
  <2>3. ReportOK(job[j], run'[t])  BY <2>2 DEF Moves
  <2>4. ReportOK(job'[j], run'[t])  BY <2>1, <2>3 DEF ReportOK
  <2>5. ASSUME NEW n \in net', n.lease = t, n.s # "running", job[j].outcome = NoLease
        PROVE  job[j].seq < n.q
    <3>1. CASE \E m \in net : From(m, n)
      <4>1. PICK m \in net : From(m, n)  BY <3>1
      <4>2. Ahead(job[j], m)  BY <2>1 DEF ReportsOK
      <4> QED  BY <2>5, <4>1, <4>2 DEF Ahead, From
    <3>2. CASE n.q = run'[n.lease].q /\ n.s = run'[n.lease].s
      BY <2>3, <2>5, <3>2 DEF ReportOK
    <3> QED  BY <3>1, <3>2
  <2>6. \A n \in net' : Ahead(job'[j], n)  BY <2>1, <2>5 DEF Ahead
  <2> QED  BY <2>1, <2>4, <2>6
<1>10. WithinCapacity'
  <2> SUFFICES ASSUME NEW r \in Runners
               PROVE  Cardinality(InflightOn(r)') <= Capacity
    BY DEF WithinCapacity
  <2>1. InflightOn(r)' \subseteq InflightOn(r)
    BY DEF InflightOn, Inflight, Live, Moves, Quiet
  <2>2. /\ Cardinality(InflightOn(r)') \in Nat /\ Cardinality(InflightOn(r)) \in Nat
        /\ Cardinality(InflightOn(r)') <= Cardinality(InflightOn(r))
    BY <2>1, InflightFinite, FS_Subset, FS_CardinalityType
  <2>3. Cardinality(InflightOn(r)) <= Capacity  BY DEF WithinCapacity
  <2> QED  BY <2>2, <2>3, ExecutionAssumption
<1> QED  BY <1>1, <1>6, <1>7, <1>8, <1>9, <1>10

\* An execution no step touches is one that moves on.
LEMMA Untouched ==
  ASSUME SystemInv, NEW t \in Leases, run'[t] = run[t],
         \A n \in net' : n.lease = t => \E m \in net : From(m, n)
  PROVE  Moves(t)
<1>1. \A n \in net' : n.lease = t => Awaits(n, run[t])
  BY DEF SystemInv, From, Awaits
<1>2. ExecutionOK(t, run[t]) /\ \A m \in net : m.lease = t => Sent(m, run[t])
  BY DEF SystemInv
<1>3. \A j \in Jobs : job[j].lease = t => ReportOK(job[j], run[t])
  BY DEF SystemInv, ReportsOK, Leases, NoLease
<1>4. t \in Inflight' => t \in Inflight
  BY DEF Inflight, Live
<1> QED  BY <1>1, <1>2, <1>3, <1>4 DEF Moves

\* Steps of the control plane alone; a server that ends closes connections.
LEMMA ControlStep ==
  ASSUME IndInv, SystemInv, Quiet, run' = run, net' \subseteq net,
         worker' \in [Runners -> {"up", "stopping", "down"}],
         faults' \in 0..MaxFaults
  PROVE  SystemInv'
<1>1. \A n \in net' : \E m \in net : From(m, n)
  BY DEF From
<1>2. \A t \in Leases : Moves(t)
  BY <1>1, Untouched
<1> QED  BY <1>1, <1>2, AdjustingStep DEF SystemInv

\* n was under way before, or is the payload of t.
Traced(n, t, e) ==
  \/ \E m \in net : From(m, n)
  \/ n.lease = t /\ n.q = e.q /\ n.s = e.s

\* A step of one live execution t, which becomes e, with the control plane as
\* it was.
LEMMA ExecutionStep ==
  ASSUME IndInv, SystemInv, UNCHANGED control, worker' = worker,
         faults' \in 0..MaxFaults, net' \subseteq Messages,
         NEW t \in Live, NEW e, run' = [run EXCEPT ![t] = e],
         ExecutionOK(t, e), e.phase = "dropped" \/ run[t].phase # "dropped",
         \A m \in net : m.lease = t => Sent(m, e),
         \A n \in net' : n.lease = t => Awaits(n, e),
         \A j \in Jobs : job[j].lease = t => ReportOK(job[j], e),
         \A n \in net' : Traced(n, t, e)
  PROVE  SystemInv'
<1>1. t \in Leases /\ run[t].phase # "none"
  BY DEF Live
<1>2. /\ run' \in [Leases -> Executions] /\ run'[t] = e
      /\ \A u \in Leases \ {t} : run'[u] = run[u]
  BY <1>1 DEF SystemInv, ExecutionOK
<1>3. e.phase # "none"
  BY <1>1 DEF SystemInv, ExecutionOK
<1>4. \A u \in Leases : Moves(u)
  <2>1. Moves(t)
    <3>1. t \in Inflight' => t \in Inflight
      BY <1>1, <1>2 DEF Inflight, Live
    <3> QED  BY <1>1, <1>2, <3>1 DEF Moves
  <2>2. ASSUME NEW u \in Leases \ {t} PROVE Moves(u)
    <3>1. \A n \in net' : n.lease = u => \E m \in net : From(m, n)
      BY DEF Traced
    <3> QED  BY <1>2, <3>1, Untouched
  <2> QED  BY <2>1, <2>2
<1>5. Quiet
  BY DEF control, vars, Quiet, Undisturbed
<1>6. \A n \in net' : \/ \E m \in net : From(m, n)
                      \/ n.q = run'[n.lease].q /\ n.s = run'[n.lease].s
                         /\ run'[n.lease].phase # "none"
  BY <1>2, <1>3 DEF Traced
<1> QED  BY <1>2, <1>4, <1>5, <1>6, AdjustingStep DEF SystemInv

\* A fault adds one to the faults, below the bound.
LEMMA FaultTyped ==
  ASSUME SystemInv, faults' = faults \/ \E k \in FaultKinds : Fault(k)
  PROVE  faults' \in 0..MaxFaults
  BY ExecutionAssumption DEF SystemInv, Fault

\* What SystemInv says of a live execution and of what was sent for it.
LEMMA LiveFacts ==
  ASSUME IndInv, SystemInv, NEW t \in Live
  PROVE  /\ t \in Leases /\ t # NoLease
         /\ run[t] \in Executions /\ ExecutionOK(t, run[t])
         /\ run[t].phase \in {"work", "drain", "ack", "closing", "dropped"}
         /\ grant[t] # NoGrant
         /\ \A m \in net : m.lease = t => Sent(m, run[t]) /\ Awaits(m, run[t])
         /\ \A j \in Jobs : job[j].lease = t =>
              /\ ReportOK(job[j], run[t])
              /\ job[j].outcome # NoLease => run[t].result # "none"
<1>1. t \in Leases /\ t # NoLease /\ run[t].phase \notin {"none", "done", "dead"}
  BY DEF Live, Leases, NoLease
<1>2. run[t] \in Executions /\ ExecutionOK(t, run[t])
  BY <1>1 DEF SystemInv
<1>3. run[t].phase \in {"work", "drain", "ack", "closing", "dropped"}
  BY <1>1, <1>2 DEF Executions
<1>4. \A j \in Jobs : job[j].lease = t => ReportOK(job[j], run[t])
  BY <1>1 DEF SystemInv, ReportsOK
<1>5. \A j \in Jobs : job[j].outcome # NoLease => job[j].status # "none"
  BY DEF IndInv, RowsOK, RowOK, Terminal
<1>6. \A j \in Jobs : job[j].lease = t /\ job[j].outcome # NoLease =>
                        run[t].result # "none"
  BY <1>4, <1>5 DEF ReportOK
<1>7. \A m \in net : m.lease = t => Sent(m, run[t]) /\ Awaits(m, run[t])
  BY DEF SystemInv
<1> QED  BY <1>1, <1>2, <1>3, <1>4, <1>6, <1>7 DEF ExecutionOK

\* A step of an execution that changes neither its payload nor what was sent,
\* and no result that is settled.
LEMMA LocalStep ==
  ASSUME IndInv, SystemInv, UNCHANGED control, worker' = worker,
         faults' \in 0..MaxFaults,
         NEW t \in Live, NEW e \in Executions, run' = [run EXCEPT ![t] = e],
         e.q = run[t].q, e.s = run[t].s, e.seq = run[t].seq,
         e.phase \in {"drain", "ack", "closing", "done", "dropped"},
         e.result # "none", e.phase = "dropped" \/ run[t].phase # "dropped",
         run[t].result \in {"none", e.result},
         e.status \in {"running", e.result},
         e.s # "running" => e.s = e.status,
         e.acked = "yes" => run[t].acked = "yes",
         IsAck(e) => IsAck(run[t]),
         e.at \in {run[t].at, "ended"},
         \/ net' = net /\ e.at = run[t].at
         \/ net' = {IF m.lease \in {t} THEN [m EXCEPT !.awaited = FALSE] ELSE m : m \in net}
  PROVE  SystemInv'
<1>1. ASSUME NEW n \in net'
      PROVE  /\ n \in Messages /\ \E m \in net : From(m, n)
             /\ n.lease = t /\ e.at # run[t].at => ~n.awaited
  <2>1. CASE net' = net /\ e.at = run[t].at
    BY <2>1 DEF SystemInv, From
  <2>2. CASE net' = {IF m.lease \in {t} THEN [m EXCEPT !.awaited = FALSE] ELSE m : m \in net}
    <3>1. PICK m \in net :
            n = IF m.lease \in {t} THEN [m EXCEPT !.awaited = FALSE] ELSE m
      BY <2>2
    <3>2. m \in Messages  BY DEF SystemInv
    <3>3. From(m, n) /\ n \in Messages /\ (n.lease = t => ~n.awaited)
      BY <3>1, <3>2 DEF From, Messages
    <3> QED  BY <3>3
  <2> QED  BY <2>1, <2>2
<1>2. ExecutionOK(t, e)
  BY LiveFacts DEF ExecutionOK
<1>3. \A m \in net : m.lease = t => Sent(m, e)
  BY LiveFacts DEF Sent
<1>4. \A n \in net' : n.lease = t => Awaits(n, e)
  BY <1>1, LiveFacts DEF From, Awaits
<1>5. ASSUME NEW j \in Jobs, job[j].lease = t PROVE ReportOK(job[j], e)
  BY <1>5, LiveFacts DEF ReportOK
<1>6. net' \subseteq Messages /\ \A n \in net' : Traced(n, t, e)
  BY <1>1 DEF Traced
<1> QED  BY <1>1, <1>2, <1>3, <1>4, <1>5, <1>6, ExecutionStep

\* The execution's own steps: its work ends, the reporter is flushed, the
\* acknowledgement comes or does not, the sync loop ends.
LEMMA ExecutingInv ==
  ASSUME IndInv, SystemInv, NEW t \in Leases,
         Executing(t) \/ AckTimeout(t) \/ Drop(t)
  PROVE  SystemInv'
<1>0. run[t] \in Executions /\ faults \in 0..MaxFaults /\ run \in [Leases -> Executions]
  BY DEF SystemInv
<1>1. ASSUME NEW s \in Reported, Finish(t, s) PROVE SystemInv'
  <2> DEFINE e == [run[t] EXCEPT !.phase = "drain", !.result = s]
  <2>1. t \in Live /\ s # "none"
    BY <1>1, ValuesAssumption DEF Finish, Live, Terminal
  <2>2. /\ e \in Executions /\ e.q = run[t].q /\ e.s = run[t].s
        /\ e.seq = run[t].seq /\ e.phase = "drain" /\ e.result = s
        /\ e.status = run[t].status /\ e.acked = run[t].acked
        /\ e.at = run[t].at /\ e.answer = run[t].answer
    BY <1>0, <1>1 DEF Executions
  <2>3. run' = [run EXCEPT ![t] = e] /\ UNCHANGED <<control, worker, net, faults>>
    BY <1>1 DEF Finish
  <2> HIDE DEF e
  <2>4. /\ ExecutionOK(t, run[t]) /\ run[t].result = "none"
        /\ run[t].phase # "dropped"
    BY <1>1, <2>1, LiveFacts DEF ExecutionOK, Finish
  <2>5. run[t].status = "running" /\ run[t].s = "running"
    <3>1. run[t].status \in Reported \cup {"running"}  BY <1>0 DEF Executions
    <3>2. "none" \notin Reported  BY ValuesAssumption DEF Terminal
    <3> QED  BY <2>4, <3>1, <3>2 DEF ExecutionOK
  <2>6. IsAck(e) => IsAck(run[t])  BY <2>2 DEF IsAck
  <2> QED  BY <1>0, <2>1, <2>2, <2>3, <2>4, <2>5, <2>6, LocalStep
<1>2. CASE SetTerminal(t)
  <2> DEFINE e == [run[t] EXCEPT !.phase = "ack", !.status = run[t].result]
  <2>1. t \in Live /\ run[t].phase # "dropped"  BY <1>2 DEF SetTerminal, Live
  <2>2. run[t].result # "none" /\ run[t].result \in Reported
    BY <1>0, <1>2, <2>1, LiveFacts DEF ExecutionOK, SetTerminal, Executions
  <2>3. /\ e \in Executions /\ e.q = run[t].q /\ e.s = run[t].s
        /\ e.seq = run[t].seq /\ e.phase = "ack" /\ e.result = run[t].result
        /\ e.status = run[t].result /\ e.acked = run[t].acked
        /\ e.at = run[t].at /\ e.answer = run[t].answer
    BY <1>0, <2>2 DEF Executions
  <2>4. run' = [run EXCEPT ![t] = e] /\ UNCHANGED <<control, worker, net, faults>>
    BY <1>2 DEF SetTerminal
  <2> HIDE DEF e
  <2>5. e.s # "running" => e.s = e.status
    BY <2>1, <2>3, LiveFacts DEF ExecutionOK
  <2>6. IsAck(e) => IsAck(run[t])  BY <2>3 DEF IsAck
  <2> QED  BY <1>0, <2>1, <2>2, <2>3, <2>4, <2>5, <2>6, LocalStep
<1>3. CASE Acked(t) \/ AckTimeout(t)
  <2>1. PICK a \in {run[t].acked, "gave up"} :
          run' = [run EXCEPT ![t] = [run[t] EXCEPT !.phase = "closing", !.acked = a]]
    BY <1>0, <1>3 DEF Acked, AckTimeout, Executions
  <2> DEFINE e == [run[t] EXCEPT !.phase = "closing", !.acked = a]
  <2>2. t \in Live /\ run[t].phase = "ack"  BY <1>3 DEF Acked, AckTimeout, Live
  <2>3. run[t].result # "none"
    BY <2>2, LiveFacts DEF ExecutionOK
  <2>4. /\ e \in Executions /\ e.q = run[t].q /\ e.s = run[t].s
        /\ e.seq = run[t].seq /\ e.phase = "closing" /\ e.result = run[t].result
        /\ e.status = run[t].status /\ e.acked = a
        /\ e.at = run[t].at /\ e.answer = run[t].answer
    BY <1>0 DEF Executions
  <2>5. /\ UNCHANGED <<control, worker, net>> /\ faults' \in 0..MaxFaults
        /\ run' = [run EXCEPT ![t] = e]
    BY <1>3, <2>1, FaultTyped DEF Acked, AckTimeout, FaultKinds
  <2> HIDE DEF e
  <2>6. /\ e.s # "running" => e.s = e.status
        /\ e.status \in {"running", e.result}
    BY <2>2, <2>4, LiveFacts DEF ExecutionOK
  <2>7. IsAck(e) => IsAck(run[t])  BY <2>4 DEF IsAck
  <2>8. /\ e.acked = "yes" => run[t].acked = "yes"
        /\ e.phase = "closing" /\ e.result # "none"
        /\ run[t].result \in {"none", e.result}
    BY <2>1, <2>3, <2>4
  <2> QED  BY <2>2, <2>4, <2>5, <2>6, <2>7, <2>8, LocalStep
<1>4. CASE Close(t)
  <2> DEFINE e == [run[t] EXCEPT !.phase = "done", !.at = "ended"]
  <2>1. t \in Live /\ run[t].phase = "closing"  BY <1>4 DEF Close, Live
  <2>2. run[t].result # "none"
    BY <2>1, LiveFacts DEF ExecutionOK
  <2>3. /\ e \in Executions /\ e.q = run[t].q /\ e.s = run[t].s
        /\ e.seq = run[t].seq /\ e.phase = "done" /\ e.result = run[t].result
        /\ e.status = run[t].status /\ e.acked = run[t].acked /\ e.at = "ended"
    BY <1>0 DEF Executions
  <2>4. /\ run' = [run EXCEPT ![t] = e] /\ UNCHANGED <<control, worker, faults>>
        /\ net' = {IF m.lease \in {t} THEN [m EXCEPT !.awaited = FALSE] ELSE m : m \in net}
    BY <1>4 DEF Close, Abandon
  <2> HIDE DEF e
  <2>5. /\ e.s # "running" => e.s = e.status
        /\ e.status \in {"running", e.result}
    BY <2>1, <2>3, LiveFacts DEF ExecutionOK
  <2>6. ~IsAck(e)  BY <2>3 DEF IsAck
  <2> QED  BY <1>0, <2>1, <2>2, <2>3, <2>4, <2>5, <2>6, LocalStep
<1>5. CASE Drop(t)
  <2> DEFINE e == [run[t] EXCEPT !.phase = "dropped"]
  <2>1. t \in Live /\ run[t].phase \in {"drain", "ack"}  BY <1>5 DEF Drop, Live
  <2>2. run[t].result # "none"
    BY <2>1, LiveFacts DEF ExecutionOK
  <2>3. /\ e \in Executions /\ e.q = run[t].q /\ e.s = run[t].s
        /\ e.seq = run[t].seq /\ e.phase = "dropped" /\ e.result = run[t].result
        /\ e.status = run[t].status /\ e.acked = run[t].acked
        /\ e.at = run[t].at /\ e.answer = run[t].answer
    BY <1>0 DEF Executions
  <2>4. /\ run' = [run EXCEPT ![t] = e] /\ UNCHANGED <<control, worker, net>>
        /\ faults' \in 0..MaxFaults
    BY <1>5, FaultTyped DEF Drop, FaultKinds
  <2> HIDE DEF e
  <2>5. /\ e.s # "running" => e.s = e.status
        /\ e.status \in {"running", e.result}
    BY <2>1, <2>3, LiveFacts DEF ExecutionOK
  <2>6. IsAck(e) => IsAck(run[t])  BY <2>3 DEF IsAck
  <2> QED  BY <2>1, <2>2, <2>3, <2>4, <2>5, <2>6, LocalStep
<1> QED  BY <1>1, <1>2, <1>3, <1>4, <1>5 DEF Executing

\* A step of a sync loop that leaves the execution around it alone.
LEMMA LoopStep ==
  ASSUME IndInv, SystemInv, UNCHANGED control, worker' = worker,
         faults' \in 0..MaxFaults, net' \subseteq Messages,
         NEW t \in Live, NEW e \in Executions, run' = [run EXCEPT ![t] = e],
         e.phase = run[t].phase, e.result = run[t].result,
         e.status = run[t].status, e.seq >= run[t].seq, e.q < e.seq,
         \/ e.q = run[t].q /\ e.s = run[t].s
         \/ e.q = run[t].seq /\ e.s = run[t].status,
         e.at = "wait" => e.q > 0,
         ~IsAck(e), e.acked = "yes" => run[t].acked = "yes" \/ IsAck(run[t]),
         \A n \in net' : n.lease = t => Awaits(n, e),
         \A n \in net' : Traced(n, t, e)
  PROVE  SystemInv'
<1>1. /\ ExecutionOK(t, run[t]) /\ run[t] \in Executions
      /\ run[t].q \in Nat /\ run[t].seq \in Nat
      /\ e.q \in Nat /\ e.seq \in Nat
  BY LiveFacts, ExecutionTypes
<1>2. ExecutionOK(t, e)
  <2>1. e.phase # "none"  BY LiveFacts
  <2>2. e.s # "running" => e.s = e.status  BY <1>1 DEF ExecutionOK
  <2> QED  BY <1>1, <2>1, <2>2 DEF ExecutionOK
<1>3. ASSUME NEW m \in net, m.lease = t PROVE Sent(m, e)
  <2>1. Sent(m, run[t]) /\ m.q \in Nat
    BY <1>3, LiveFacts DEF SystemInv, Messages
  <2>2. CASE e.q = run[t].q /\ e.s = run[t].s
    BY <2>1, <2>2 DEF Sent
  <2>3. CASE e.q = run[t].seq /\ e.s = run[t].status
    <3>1. m.q < e.q  BY <1>1, <2>1, <2>3 DEF Sent, ExecutionOK
    <3>2. m.s # "running" => m.s = e.s
      BY <1>1, <2>1, <2>3 DEF Sent, ExecutionOK
    <3> QED  BY <1>1, <2>1, <3>1, <3>2 DEF Sent
  <2> QED  BY <2>2, <2>3
<1>4. ASSUME NEW j \in Jobs, job[j].lease = t PROVE ReportOK(job[j], e)
  <2>1. ReportOK(job[j], run[t]) /\ job[j].seq \in Nat
    BY <1>4, LiveFacts DEF IndInv, RowsOK, RowOK, Rows
  <2>2. job[j].seq < e.seq
    BY <1>1, <2>1 DEF ReportOK
  <2>3. CASE job[j].outcome # NoLease
    BY <2>1, <2>2, <2>3 DEF ReportOK
  <2>4. CASE job[j].outcome = NoLease
    <3>1. e.acked # "yes"  BY <2>1, <2>4 DEF ReportOK
    <3>2. e.s # "running" => job[j].seq < e.q
      BY <1>1, <2>1, <2>4 DEF ReportOK
    <3> QED  BY <2>2, <2>4, <3>1, <3>2 DEF ReportOK
  <2> QED  BY <2>3, <2>4
<1>5. /\ \A m \in net : m.lease = t => Sent(m, e)
      /\ \A j \in Jobs : job[j].lease = t => ReportOK(job[j], e)
  BY <1>3, <1>4
<1> QED  BY <1>2, <1>5, ExecutionStep

\* The sync loop sends, sends again or gives up, takes a reply, sleeps.
LEMMA SyncingInv ==
  ASSUME IndInv, SystemInv, NEW t \in Leases, Syncing(t)
  PROVE  SystemInv'
<1>0. /\ t \in Live /\ run[t] \in Executions /\ ExecutionOK(t, run[t])
      /\ run[t].q \in 0..MaxSeq /\ run[t].seq \in 1..(MaxSeq + 1)
      /\ run[t].q < run[t].seq
      /\ faults \in 0..MaxFaults /\ net \subseteq Messages
      /\ \A m \in net : m.lease = t => Awaits(m, run[t])
  BY LiveFacts DEF Syncing, SyncSend, SyncRetry, SyncFailed, SyncReply, SyncWake,
     SystemInv, Executions, ExecutionOK
<1>1. CASE SyncSend(t)
  <2> DEFINE e == [run[t] EXCEPT !.seq = run[t].seq + 1, !.q = run[t].seq,
                                 !.s = run[t].status, !.tries = 1, !.at = "wait"]
             new == Request(t, run[t].seq, run[t].status, TRUE)
  <2>1. run[t].seq \in 1..MaxSeq /\ run[t].at = "top"
    <3>1. MaxFaults - faults >= 0 /\ MaxSeq \in Nat
      BY <1>0, ExecutionAssumption, BoundsAssumption
    <3> QED  BY <1>0, <1>1, <3>1, ExecutionAssumption DEF SyncSend, NumberLeft
  <2>2. run[t].status \in Reported \cup {"running"} /\ 1 \in 0..MaxTries
        /\ run[t].seq + 1 \in 1..(MaxSeq + 1) /\ run[t].seq \in 0..MaxSeq
    <3>1. run[t].status \in Reported \cup {"running"}  BY <1>0 DEF Executions
    <3> QED  BY <2>1, <3>1, TriesRange
  <2>3. /\ e \in Executions /\ e.q = run[t].seq /\ e.s = run[t].status
        /\ e.seq = run[t].seq + 1 /\ e.phase = run[t].phase
        /\ e.result = run[t].result /\ e.status = run[t].status
        /\ e.acked = run[t].acked /\ e.at = "wait"
    BY <1>0, <2>2 DEF Executions
  <2>4. /\ run' = [run EXCEPT ![t] = e] /\ UNCHANGED <<control, worker, faults>>
        /\ net' \subseteq net \cup {new}
    BY <1>1 DEF SyncSend, Arriving
  <2>5. /\ new \in Messages /\ new.lease = t /\ new.q = run[t].seq
        /\ new.s = run[t].status
    BY <1>0, <2>1, <2>2 DEF Messages, Request
  <2> HIDE DEF e, new
  <2>6. ASSUME NEW n \in net'
        PROVE  /\ n \in Messages /\ (n.lease = t => Awaits(n, e))
               /\ Traced(n, t, e)
    BY <1>0, <2>1, <2>3, <2>4, <2>5 DEF Awaits, From, Traced
  <2>7. ~IsAck(e) /\ net' \subseteq Messages  BY <2>3, <2>6 DEF IsAck
  <2>8. e.seq >= run[t].seq /\ e.q < e.seq /\ e.q > 0  BY <2>1, <2>3
  <2> QED  BY <1>0, <2>3, <2>4, <2>6, <2>7, <2>8, LoopStep
<1>2. CASE SyncRetry(t)
  <2> DEFINE again == run[t].tries < MaxTries
             late == {[m EXCEPT !.awaited = FALSE] : m \in Awaited(t)}
             rest == (net \ Awaited(t)) \cup late
             e == IF again THEN [run[t] EXCEPT !.tries = run[t].tries + 1]
                  ELSE [run[t] EXCEPT !.tries = 0, !.at = "sleep",
                          !.failed = run[t].failed \/ run[t].s # "running"]
  <2>1. /\ run[t].at = "wait" /\ UNCHANGED <<control, worker>>
        /\ run' = [run EXCEPT ![t] = e]
        /\ net' \subseteq IF again
                          THEN rest \cup {Request(t, run[t].q, run[t].s, TRUE)}
                          ELSE rest
    BY <1>2 DEF SyncRetry, SyncFailed, Arriving
  <2>2. faults' \in 0..MaxFaults
    BY <1>2, FaultTyped DEF SyncRetry, SyncFailed, FaultKinds
  <2>3. e \in Executions
    <3>1. run[t].tries \in 0..MaxTries /\ MaxTries \in Nat /\ run[t].failed \in BOOLEAN
      BY <1>0, TriesRange DEF Executions
    <3>2. CASE again
      <4>1. run[t].tries + 1 \in 0..MaxTries  BY <3>1, <3>2
      <4> QED  BY <1>0, <3>2, <4>1 DEF Executions
    <3>3. CASE ~again
      <4>1. 0 \in 0..MaxTries  BY <3>1
      <4>2. (run[t].failed \/ run[t].s # "running") \in BOOLEAN  OBVIOUS
      <4> QED  BY <1>0, <3>3, <4>1, <4>2 DEF Executions
    <3> QED  BY <3>2, <3>3
  <2>4. /\ e.q = run[t].q /\ e.s = run[t].s /\ e.seq = run[t].seq
        /\ e.phase = run[t].phase /\ e.result = run[t].result
        /\ e.status = run[t].status /\ e.acked = run[t].acked
        /\ e.at = IF again THEN "wait" ELSE "sleep"
    BY <1>0, <2>1 DEF Executions
  <2>5. run[t].q > 0  BY <1>0, <2>1 DEF ExecutionOK
  <2>6. ASSUME NEW n \in rest
        PROVE  /\ n \in Messages /\ (n.lease = t => ~n.awaited)
               /\ \E m \in net : From(m, n)
    <3>1. CASE n \in net \ Awaited(t)
      BY <1>0, <3>1 DEF Awaited, From
    <3>2. CASE n \in late
      <4>1. PICK m \in net : n = [m EXCEPT !.awaited = FALSE]
        BY <3>2 DEF Awaited
      <4>2. m \in Messages  BY <1>0
      <4>3. n \in Messages /\ ~n.awaited /\ From(m, n)
        BY <4>1, <4>2 DEF Messages, From
      <4> QED  BY <4>3
    <3> QED  BY <3>1, <3>2
  <2>7. LET new == Request(t, run[t].q, run[t].s, TRUE)
        IN  /\ new \in Messages /\ new.lease = t /\ new.q = run[t].q
            /\ new.s = run[t].s
    <3>1. run[t].q \in 1..MaxSeq  BY <1>0, <2>5
    <3>2. run[t].s \in Reported \cup {"running"} /\ t \in Leases
      BY <1>0 DEF Executions
    <3> QED  BY <3>1, <3>2 DEF Messages, Request
  <2> HIDE DEF e, rest
  <2>8. ASSUME NEW n \in net'
        PROVE  /\ n \in Messages /\ (n.lease = t => Awaits(n, e))
               /\ Traced(n, t, e)
    <3>1. CASE n \in rest  BY <2>6, <3>1 DEF Awaits, Traced
    <3>2. CASE n \notin rest
      <4>1. again /\ n = Request(t, run[t].q, run[t].s, TRUE)  BY <2>1, <3>2
      <4> QED  BY <2>4, <2>7, <4>1 DEF Awaits, Traced
    <3> QED  BY <3>1, <3>2
  <2>9. ~IsAck(e) /\ net' \subseteq Messages  BY <2>4, <2>8 DEF IsAck
  <2>10. e.seq >= run[t].seq /\ e.q < e.seq  BY <1>0, <2>4
  <2> QED  BY <1>0, <2>1, <2>2, <2>3, <2>4, <2>5, <2>8, <2>9, <2>10, LoopStep
<1>3. CASE SyncReply(t) \/ SyncWake(t)
  <2>0. run[t].seq >= run[t].seq /\ run[t].q < run[t].seq
    BY <1>0
  <2>1. PICK a \in {"no", "yes", "gave up"}, at \in {"top", "sleep", "ended"},
             k \in 0..MaxTries, f \in BOOLEAN :
          /\ run' = [run EXCEPT ![t] = [run[t] EXCEPT !.acked = a, !.tries = k,
                                                      !.failed = f, !.at = at]]
          /\ a = "yes" => run[t].acked = "yes" \/ IsAck(run[t])
    <3>1. /\ run[t].acked \in {"no", "yes", "gave up"} /\ run[t].tries \in 0..MaxTries
          /\ run[t].failed \in BOOLEAN
      BY <1>0 DEF Executions
    <3>2. CASE SyncReply(t)
      <4> DEFINE a == IF IsAck(run[t]) THEN "yes" ELSE run[t].acked
                 f == run[t].failed \/ (run[t].at = "refused" /\ run[t].s # "running")
                 at == IF a = "no" THEN "sleep" ELSE "ended"
      <4>1. run' = [run EXCEPT ![t] = [run[t] EXCEPT !.acked = a, !.tries = 0,
                                                     !.failed = f, !.at = at]]
        BY <3>2 DEF SyncReply
      <4>2. /\ a \in {"no", "yes", "gave up"} /\ f \in BOOLEAN
            /\ at \in {"top", "sleep", "ended"}
            /\ a = "yes" => run[t].acked = "yes" \/ IsAck(run[t])
        BY <3>1
      <4>3. 0 \in 0..MaxTries  BY TriesRange
      <4> HIDE DEF a, f, at
      <4> QED  BY <4>1, <4>2, <4>3
    <3>3. CASE SyncWake(t)
      <4> DEFINE at == IF run[t].acked = "no" THEN "top" ELSE "ended"
      <4>1. run' = [run EXCEPT ![t] = [run[t] EXCEPT !.at = at]]
        BY <3>3 DEF SyncWake
      <4>2. [run[t] EXCEPT !.at = at] =
              [run[t] EXCEPT !.acked = run[t].acked, !.tries = run[t].tries,
                             !.failed = run[t].failed, !.at = at]
        BY <1>0 DEF Executions
      <4>3. at \in {"top", "sleep", "ended"}  OBVIOUS
      <4> HIDE DEF at
      <4> QED  BY <3>1, <4>1, <4>2, <4>3
    <3> QED  BY <1>3, <3>2, <3>3
  <2> DEFINE e == [run[t] EXCEPT !.acked = a, !.tries = k, !.failed = f, !.at = at]
  <2>2. /\ e \in Executions /\ e.q = run[t].q /\ e.s = run[t].s
        /\ e.seq = run[t].seq /\ e.phase = run[t].phase
        /\ e.result = run[t].result /\ e.status = run[t].status
        /\ e.acked = a /\ e.at = at
    BY <1>0 DEF Executions
  <2>3. run' = [run EXCEPT ![t] = e]  BY <2>1
  <2>4. UNCHANGED <<control, worker, net, faults>> /\ run[t].at # "wait"
    BY <1>3 DEF SyncReply, SyncWake
  <2> HIDE DEF e
  <2>5. \A n \in net' : (n.lease = t => Awaits(n, e)) /\ Traced(n, t, e)
    BY <1>0, <2>4 DEF Awaits, From, Traced
  <2>6. ~IsAck(e) /\ e.at # "wait" /\ net' \subseteq Messages
    BY <1>0, <2>1, <2>2, <2>4 DEF IsAck
  <2>7. e.seq >= run[t].seq /\ e.q < e.seq
    BY <2>0, <2>2, Zenon
  <2>8. /\ e.acked = "yes" => run[t].acked = "yes" \/ IsAck(run[t])
        /\ e.phase = run[t].phase /\ e.result = run[t].result
        /\ e.status = run[t].status /\ e.q = run[t].q /\ e.s = run[t].s
        /\ UNCHANGED control /\ worker' = worker /\ faults' \in 0..MaxFaults
    BY <1>0, <2>1, <2>2, <2>4
  <2>9. t \in Live /\ e \in Executions
    BY <1>0, <2>2
  <2> QED  BY <2>3, <2>5, <2>6, <2>7, <2>8, <2>9, LoopStep
<1> QED  BY <1>1, <1>2, <1>3 DEF Syncing

-------------------------------------------------------------------------------
(* One lemma per action of the composition.                                  *)

\* What the claim does to the rows: j gets the lease issued + 1, which no row
\* has, which nobody was granted and under which nothing was sent.
LEMMA ClaimFacts ==
  ASSUME IndInv, SystemInv, NEW r \in Runners, NEW j \in Jobs,
         Claim(r, j) \/ CrashInClaim(r, j)
  PROVE  LET tok == issued + 1
         IN  /\ tok \in Leases /\ issued' = tok
             /\ job'[j].lease = tok /\ job'[j].seq = 0 /\ job'[j].outcome = NoLease
             /\ \A i \in Jobs \ {j} : job'[i] = job[i] /\ job[i].lease # tok
             /\ run[tok] = NoExecution /\ \A m \in net : m.lease # tok
             /\ grant' \in {grant, [grant EXCEPT ![tok] = [runner |-> r, job |-> j]]}
<1> DEFINE tok == issued + 1
<1>1. issued \in Nat /\ tok \in Leases /\ tok > issued /\ job \in [Jobs -> Rows]
      /\ MaxLeases \in Nat
  BY DEF Claim, CrashInClaim, StartAttempt, IndInv, TypeOK, Leases
<1>2. /\ issued' = tok /\ job' = [job EXCEPT ![j] = ClaimedRow(job[j], r, tok)]
      /\ grant' \in {grant, [grant EXCEPT ![tok] = [runner |-> r, job |-> j]]}
  BY DEF Claim, CrashInClaim, StartAttempt
<1>3. RowOK(job[j])  BY DEF IndInv, RowsOK
<1>4. /\ ClaimedRow(job[j], r, tok).lease = tok
      /\ ClaimedRow(job[j], r, tok).seq = 0
      /\ ClaimedRow(job[j], r, tok).outcome = NoLease
  BY <1>1, <1>3, ClaimedRowOK
<1> HIDE DEF tok
<1>5. /\ job'[j] = ClaimedRow(job[j], r, tok)
      /\ \A i \in Jobs \ {j} : job'[i] = job[i]
  BY <1>1, <1>2
<1>6. ASSUME NEW i \in Jobs PROVE job[i].lease # tok
  <2>1. job[i].lease \in Leases \cup {NoLease}  BY DEF IndInv, RowsOK, RowOK, Rows
  <2>2. CASE job[i].lease = NoLease  BY <1>1, <2>2 DEF Leases, NoLease
  <2>3. CASE job[i].lease # NoLease
    <3>1. job[i].lease <= issued
      BY <2>3 DEF IndInv, LeaseIdentifiesAttempt
    <3>2. job[i].lease \in Nat  BY <2>1, <2>3 DEF Leases
    <3> QED  BY <1>1, <3>1, <3>2
  <2> QED  BY <2>2, <2>3
<1>7. grant[tok] = NoGrant  BY <1>1 DEF IndInv, GrantsSound
<1>8. run[tok] = NoExecution  BY <1>1, <1>7 DEF SystemInv, ExecutionOK
<1>9. NoExecution.phase = "none"  BY DEF NoExecution
<1>10. \A m \in net : m.lease # tok
  BY <1>8, <1>9 DEF SystemInv, Sent
<1> QED  BY <1>1, <1>2, <1>4, <1>5, <1>6, <1>8, <1>10 DEF tok

\* A claim whose response starts the execution e, or which starts none.
LEMMA ClaimStep ==
  ASSUME IndInv, SystemInv, NEW r \in Runners, NEW j \in Jobs,
         Claim(r, j) \/ CrashInClaim(r, j),
         worker' = worker, net' \subseteq net, faults' \in 0..MaxFaults,
         NEW e \in Executions, run' = [run EXCEPT ![issued + 1] = e],
         e.seq = 1, e.q = 0, e.s = "running", e.acked = "no",
         e.status = "running", e.result = "none",
         e.at \in {"top", "ended"}, e.phase \in {"none", "work"},
         IF grant' = grant THEN e = NoExecution
                           ELSE e.phase = "work" /\ HasCapacity(r)
  PROVE  SystemInv'
<1> DEFINE tok == issued + 1
<1> USE DEF SystemInv
<1>1. /\ tok \in Leases
      /\ job'[j].lease = tok /\ job'[j].seq = 0 /\ job'[j].outcome = NoLease
      /\ \A i \in Jobs \ {j} : job'[i] = job[i] /\ job[i].lease # tok
      /\ run[tok] = NoExecution /\ \A m \in net : m.lease # tok
      /\ grant' \in {grant, [grant EXCEPT ![tok] = [runner |-> r, job |-> j]]}
  BY ClaimFacts
<1>2. /\ grant \in [Leases -> Grants] /\ grant[tok] = NoGrant
  BY <1>1 DEF IndInv, TypeOK, ExecutionOK, NoExecution
<1> HIDE DEF tok
<1>3. /\ run' \in [Leases -> Executions] /\ run'[tok] = e
      /\ \A u \in Leases \ {tok} : run'[u] = run[u]
  BY <1>1 DEF tok
<1>4. \A u \in Leases \ {tok} : grant'[u] = grant[u]
  BY <1>1, <1>2
<1>5. [runner |-> r, job |-> j] # NoGrant
  BY DEF NoGrant
<1>6. e.phase = "none" <=> grant'[tok] = NoGrant
  <2>1. CASE grant' = grant
    BY <1>2, <2>1 DEF NoExecution
  <2>2. CASE grant' # grant
    <3>1. grant'[tok] # NoGrant  BY <1>1, <1>2, <1>5, <2>2
    <3>2. e.phase = "work"  BY <2>2
    <3> QED  BY <3>1, <3>2
  <2> QED  BY <2>1, <2>2
<1>7. ASSUME NEW u \in Leases PROVE ExecutionOK(u, run[u])'
  <2>1. CASE u = tok
    <3>1. e.phase = "none" => e = NoExecution
      BY DEF NoExecution
    <3> QED  BY <1>3, <1>6, <2>1, <3>1 DEF ExecutionOK
  <2>2. CASE u # tok
    BY <1>3, <1>4, <2>2 DEF ExecutionOK
  <2> QED  BY <2>1, <2>2
<1>8. ASSUME NEW m \in net' PROVE Sent(m, run'[m.lease]) /\ Awaits(m, run'[m.lease])
  <2>1. m \in net /\ m.lease \in Leases \ {tok}  BY <1>1 DEF Messages
  <2>2. run'[m.lease] = run[m.lease]  BY <1>3, <2>1
  <2> QED  BY <2>1, <2>2
<1>9. TerminalLast'
  BY DEF TerminalLast
<1>10. ReportsOK'
  <2> SUFFICES ASSUME NEW i \in Jobs, job'[i].lease # NoLease
               PROVE  /\ ReportOK(job'[i], run'[job'[i].lease])
                      /\ \A m \in net : Ahead(job'[i], m)
    BY DEF ReportsOK
  <2>1. CASE i = j
    <3>1. ReportOK(job'[j], e)  BY <1>1 DEF ReportOK, IsAck, NoLease
    <3>2. \A m \in net : Ahead(job'[j], m)  BY <1>1 DEF Ahead
    <3> QED  BY <1>1, <1>3, <2>1, <3>1, <3>2
  <2>2. CASE i # j
    <3>1. /\ job'[i] = job[i] /\ job[i].lease # tok
          /\ job[i].lease \in Leases \cup {NoLease}
      BY <1>1, <2>2 DEF IndInv, RowsOK, RowOK, Rows
    <3>2. run'[job[i].lease] = run[job[i].lease]
      BY <1>3, <3>1
    <3> QED  BY <3>1, <3>2 DEF ReportsOK
  <2> QED  BY <2>1, <2>2
<1>11. WithinCapacity'
  <2> SUFFICES ASSUME NEW p \in Runners
               PROVE  Cardinality(InflightOn(p)') <= Capacity
    BY DEF WithinCapacity
  <2>1. /\ \A u \in InflightOn(p)' : u \in InflightOn(p) \/ u = tok
        /\ tok \in InflightOn(p)' => p = r
    <3>1. \A u \in InflightOn(p)' : u \in Leases  BY DEF InflightOn, Inflight, Live
    <3>2. ASSUME NEW u \in InflightOn(p)', u # tok PROVE u \in InflightOn(p)
      BY <1>3, <1>4, <3>1, <3>2 DEF InflightOn, Inflight, Live
    <3>3. ASSUME tok \in InflightOn(p)' PROVE p = r
      <4>1. e.phase = "work" /\ grant'[tok].runner = p
        BY <1>3, <3>3 DEF InflightOn, Inflight, Live
      <4>2. grant' # grant  BY <4>1 DEF NoExecution
      <4>3. grant'[tok] = [runner |-> r, job |-> j]  BY <1>1, <1>2, <4>2
      <4> QED  BY <4>1, <4>3
    <3> QED  BY <3>2, <3>3
  <2>2. /\ IsFiniteSet(InflightOn(p)) /\ Cardinality(InflightOn(p)) \in Nat
        /\ Cardinality(InflightOn(p)) <= Capacity
    BY InflightFinite, FS_CardinalityType DEF WithinCapacity
  <2>3. IsFiniteSet(InflightOn(p) \cup {tok})
        /\ Cardinality(InflightOn(p) \cup {tok}) \in {Cardinality(InflightOn(p)),
                                                  Cardinality(InflightOn(p)) + 1}
    BY <2>2, FS_AddElement
  <2>6. CASE grant' = grant
    <3>1. e.phase = "none"  BY <2>6 DEF NoExecution
    <3>2. InflightOn(p)' \subseteq InflightOn(p)
      BY <1>3, <2>1, <3>1 DEF InflightOn, Inflight, Live
    <3>3. /\ Cardinality(InflightOn(p)') \in Nat
          /\ Cardinality(InflightOn(p)') <= Cardinality(InflightOn(p))
      BY <2>2, <3>2, FS_Subset, FS_CardinalityType
    <3> QED  BY <2>2, <3>3, ExecutionAssumption
  <2>4. CASE p = r /\ grant' # grant
    <3>1. InflightOn(p)' \subseteq InflightOn(p) \cup {tok}  BY <2>1
    <3>2. /\ Cardinality(InflightOn(p)') \in Nat
          /\ Cardinality(InflightOn(p)') <= Cardinality(InflightOn(p) \cup {tok})
      BY <2>3, <3>1, FS_Subset, FS_CardinalityType
    <3>3. Cardinality(InflightOn(p)) < Capacity /\ Capacity \in Nat
      BY <2>4, ExecutionAssumption DEF HasCapacity
    <3> QED  BY <2>2, <2>3, <3>2, <3>3
  <2>5. CASE p # r
    <3>1. InflightOn(p)' \subseteq InflightOn(p)  BY <2>1, <2>5
    <3>2. /\ Cardinality(InflightOn(p)') \in Nat
          /\ Cardinality(InflightOn(p)') <= Cardinality(InflightOn(p))
      BY <2>2, <3>1, FS_Subset, FS_CardinalityType
    <3> QED  BY <2>2, <3>2, ExecutionAssumption
  <2> QED  BY <2>4, <2>5, <2>6
<1> QED  BY <1>3, <1>7, <1>8, <1>9, <1>10, <1>11

\* The runner polls: the lost response starts nothing.
LEMMA PollInv ==
  ASSUME IndInv, SystemInv, NEW r \in Runners, PollAndSchedule(r)
  PROVE  SystemInv'
<1>1. PICK j \in Jobs : Claim(r, j)  BY DEF PollAndSchedule
<1>2. /\ worker' = worker /\ net' = net /\ faults' \in 0..MaxFaults
      /\ grant' # grant => HasCapacity(r)
  BY FaultTyped DEF PollAndSchedule, FaultKinds, SystemInv
<1>3. /\ issued + 1 \in Leases /\ issued' = issued + 1
      /\ run[issued + 1] = NoExecution /\ run \in [Leases -> Executions]
  BY <1>1, ClaimFacts DEF SystemInv
<1>4. NoExecution \in Executions  BY <1>3
<1>5. CASE grant' = grant
  <2>1. run' = [run EXCEPT ![issued + 1] = NoExecution]
    BY <1>3, <1>5 DEF PollAndSchedule
  <2> QED  BY <1>1, <1>2, <1>4, <1>5, <2>1, ClaimStep DEF NoExecution
<1>6. CASE grant' # grant
  <2> DEFINE e == [NoExecution EXCEPT !.phase = "work", !.at = "top"]
  <2>1. run' = [run EXCEPT ![issued + 1] = e]
    BY <1>3, <1>6 DEF PollAndSchedule
  <2>2. /\ e \in Executions /\ e.seq = 1 /\ e.q = 0 /\ e.s = "running"
        /\ e.acked = "no" /\ e.status = "running" /\ e.result = "none"
        /\ e.at = "top" /\ e.phase = "work"
    BY <1>4 DEF NoExecution, Executions
  <2> HIDE DEF e
  <2> QED  BY <1>1, <1>2, <1>6, <2>1, <2>2, ClaimStep
<1> QED  BY <1>5, <1>6

\* The server dies inside a claim: an attempt nobody learns of.
LEMMA CrashInClaimInv ==
  ASSUME IndInv, SystemInv, NEW r \in Runners, NEW j \in Jobs,
         CrashInClaim(r, j), worker' = worker, run' = run, net' = {},
         faults' \in 0..MaxFaults
  PROVE  SystemInv'
<1>1. /\ issued + 1 \in Leases /\ run[issued + 1] = NoExecution
      /\ run \in [Leases -> Executions]
  BY ClaimFacts DEF SystemInv
<1>2. run' = [run EXCEPT ![issued + 1] = NoExecution] /\ NoExecution \in Executions
  BY <1>1
<1>3. grant' = grant /\ net' \subseteq net  BY DEF CrashInClaim
<1> QED  BY <1>2, <1>3, ClaimStep DEF NoExecution

\* The process of a runner ends, and its executions with it.
LEMMA WorkerEndsInv ==
  ASSUME IndInv, SystemInv, NEW r \in Runners, WorkerEnds(r)
  PROVE  SystemInv'
<1> DEFINE S == LiveOn(r)
           dead(t) == [run[t] EXCEPT !.phase = "dead", !.at = "ended"]
<1>1. /\ worker' \in [Runners -> {"up", "stopping", "down"}]
      /\ faults' \in 0..MaxFaults
      /\ run' = [t \in Leases |-> IF t \in S THEN dead(t) ELSE run[t]]
      /\ net' = {IF m.lease \in S THEN [m EXCEPT !.awaited = FALSE] ELSE m : m \in net}
      /\ UNCHANGED control
  BY FaultTyped DEF WorkerEnds, FaultKinds, Abandon, SystemInv
<1>2. Quiet  BY <1>1 DEF control, vars, Quiet, Undisturbed
<1>3. S \subseteq Live  BY DEF LiveOn
<1> HIDE DEF S
<1>4. ASSUME NEW n \in net'
      PROVE  /\ n \in Messages /\ (n.lease \in S => ~n.awaited)
             /\ \E m \in net : From(m, n)
  <2>1. PICK m \in net : n = IF m.lease \in S THEN [m EXCEPT !.awaited = FALSE] ELSE m
    BY <1>1
  <2>2. m \in Messages  BY DEF SystemInv
  <2> QED  BY <2>1, <2>2 DEF Messages, From
<1>5. ASSUME NEW t \in S
      PROVE  Moves(t) /\ dead(t) \in Executions
  <2> DEFINE e == dead(t)
  <2>1. t \in Live /\ t \in Leases  BY <1>3 DEF Live
  <2>2. run[t] \in Executions  BY <2>1, LiveFacts
  <2>3. /\ e \in Executions /\ e.q = run[t].q /\ e.s = run[t].s
        /\ e.seq = run[t].seq /\ e.phase = "dead" /\ e.result = run[t].result
        /\ e.status = run[t].status /\ e.acked = run[t].acked /\ e.at = "ended"
    BY <2>2 DEF Executions
  <2>4. run'[t] = e  BY <1>1, <2>1
  <2> HIDE DEF e
  <2>5. ExecutionOK(t, e)  BY <2>1, <2>3, LiveFacts DEF ExecutionOK
  <2>6. \A m \in net : m.lease = t => Sent(m, e)
    BY <2>1, <2>3, LiveFacts DEF Sent
  <2>7. \A n \in net' : n.lease = t => Awaits(n, e)
    BY <1>4 DEF Awaits
  <2>8. ASSUME NEW j \in Jobs, job[j].lease = t PROVE ReportOK(job[j], e)
    <3>1. ReportOK(job[j], run[t])
      BY <2>1, <2>8 DEF SystemInv, ReportsOK, Leases, NoLease
    <3>2. ~IsAck(e)  BY <2>3 DEF IsAck
    <3> QED  BY <2>3, <3>1, <3>2 DEF ReportOK
  <2>10. t \in Inflight' => t \in Inflight
    BY <2>3, <2>4 DEF Inflight, Live
  <2>9. Moves(t)  BY <2>1, <2>4, <2>5, <2>6, <2>7, <2>8, <2>10 DEF Moves
  <2> QED  BY <2>3, <2>9 DEF e
<1>6. ASSUME NEW t \in Leases \ S PROVE Moves(t)
  BY <1>1, <1>4, Untouched
<1>7. run' \in [Leases -> Executions]
  BY <1>1, <1>5 DEF SystemInv
<1>8. /\ \A t \in Leases : Moves(t)
      /\ net' \subseteq Messages /\ \A n \in net' : \E m \in net : From(m, n)
  BY <1>4, <1>5, <1>6
<1>9. worker' \in [Runners -> {"up", "stopping", "down"}] /\ faults' \in 0..MaxFaults
  BY <1>1
<1> QED  BY <1>2, <1>7, <1>8, <1>9, AdjustingStep

\* A request is lost before it is served.
LEMMA LoseRequestInv ==
  ASSUME IndInv, SystemInv, NEW m \in net, LoseRequest(m)
  PROVE  SystemInv'
<1>1. /\ net' = net \ {m} /\ UNCHANGED <<control, worker, run>>
      /\ faults' \in 0..MaxFaults
  BY FaultTyped DEF LoseRequest, FaultKinds
<1>2. Quiet  BY <1>1 DEF control, vars, Quiet, Undisturbed
<1>3. \A n \in net' : n \in Messages /\ \E k \in net : From(k, n)
  BY <1>1 DEF From, SystemInv
<1>4. \A t \in Leases : Moves(t)
  BY <1>1, <1>3, Untouched
<1>5. worker' = worker /\ run' = run  BY <1>1
<1> QED  BY <1>1, <1>2, <1>3, <1>4, <1>5, AdjustingStep DEF SystemInv

\* The steps of the control plane that no request of an execution takes, and
\* the start and the stop of a runner.
LEMMA ControlInv ==
  ASSUME IndInv, SystemInv,
         \/ Used \/ ServerEnds
         \/ \E r \in Runners : \/ Bar(r) \/ Authenticated(r) \/ SendHeartbeat(r)
                               \/ StopWorker(r) \/ WorkerStarts(r)
  PROVE  SystemInv'
<1>1. CASE Used \/ \E r \in Runners : Bar(r) \/ Authenticated(r) \/ SendHeartbeat(r)
  <2>1. Quiet
    BY <1>1, QuietSteps DEF Used, Bar, Authenticated, SendHeartbeat
  <2>2. run' = run /\ net' = net /\ worker' = worker /\ faults' \in 0..MaxFaults
    BY <1>1, FaultTyped DEF Used, Bar, Authenticated, SendHeartbeat, FaultKinds
  <2> QED  BY <2>1, <2>2, ControlStep DEF SystemInv
<1>3. CASE ServerEnds
  <2>1. run' = run /\ net' = {} /\ worker' = worker /\ faults' \in 0..MaxFaults
    BY <1>3, FaultTyped DEF ServerEnds, FaultKinds
  <2>2. CASE \E r \in Runners, j \in Jobs : CrashInClaim(r, j)
    BY <2>1, <2>2, CrashInClaimInv
  <2>3. CASE \/ \E S \in SUBSET Jobs : Stop(S)
             \/ \E j \in Jobs : CrashInRetry(j)
    <3>1. Quiet  BY <2>3, QuietSteps
    <3> QED  BY <2>1, <3>1, ControlStep DEF SystemInv
  <2> QED  BY <1>3, <2>2, <2>3 DEF ServerEnds
<1>2. CASE \E r \in Runners : StopWorker(r) \/ WorkerStarts(r)
  <2>1. /\ run' = run /\ net' = net /\ UNCHANGED control
        /\ worker' \in [Runners -> {"up", "stopping", "down"}]
    BY <1>2 DEF StopWorker, WorkerStarts, SystemInv
  <2>2. faults' \in 0..MaxFaults
    BY <1>2, FaultTyped DEF StopWorker, WorkerStarts, FaultKinds
  <2>3. Quiet  BY <2>1 DEF control, vars, Quiet, Undisturbed
  <2> QED  BY <2>1, <2>2, <2>3, ControlStep
<1> QED  BY <1>1, <1>2, <1>3

\* Two rows never hold the same lease.
LEMMA HeldOnce ==
  ASSUME IndInv, NEW i \in Jobs, NEW j \in Jobs,
         job[i].lease = job[j].lease, job[j].lease # NoLease
  PROVE  i = j
  BY DEF IndInv, LeaseIdentifiesAttempt

\* What a request under way says of its lease: an execution sent it, so the
\* lease was granted for a job.
LEMMA RequestFacts ==
  ASSUME IndInv, SystemInv, NEW m \in net
  PROVE  /\ m \in Messages /\ m.lease \in Leases /\ m.q \in 1..MaxSeq
         /\ m.s \in {"running"} \cup Reported
         /\ run[m.lease] \in Executions /\ ExecutionOK(m.lease, run[m.lease])
         /\ Sent(m, run[m.lease]) /\ Awaits(m, run[m.lease])
         /\ grant[m.lease].runner \in Runners /\ grant[m.lease].job \in Jobs
<1>1. /\ m \in Messages /\ m.lease \in Leases /\ m.q \in 1..MaxSeq
      /\ m.s \in {"running"} \cup Reported
  BY DEF SystemInv, Messages
<1>2. /\ run[m.lease] \in Executions /\ ExecutionOK(m.lease, run[m.lease])
      /\ Sent(m, run[m.lease]) /\ Awaits(m, run[m.lease])
  BY <1>1 DEF SystemInv
<1>3. grant[m.lease] # NoGrant  BY <1>2 DEF Sent, ExecutionOK
<1> QED  BY <1>1, <1>2, <1>3 DEF IndInv, GrantsSound

\* What the answer to m, whether it arrives or not, leaves of the execution e0
\* that sent it.
Answered(m, e0, e) ==
  /\ e \in Executions
  /\ e.phase = e0.phase /\ e.result = e0.result /\ e.status = e0.status
  /\ e.q = e0.q /\ e.s = e0.s /\ e.seq = e0.seq /\ e.acked = e0.acked
  /\ \/ e = e0
     \/ /\ m.awaited /\ e.at \in {"reply", "refused"}
        /\ e.at = "reply" =>
             HoldsLease(grant[m.lease].runner, grant[m.lease].job, m.lease)

\* The answer changes the state of the sync loop and nothing else.
LEMMA AnswerFacts ==
  ASSUME IndInv, SystemInv, IndInv', NEW m \in net, Deliver(m) \/ Reject(m)
  PROVE  LET t == m.lease
         IN  /\ net' = net \ {m} /\ worker' = worker /\ faults' \in 0..MaxFaults
             /\ run' \in [Leases -> Executions]
             /\ \A u \in Leases \ {t} : run'[u] = run[u]
             /\ Answered(m, run[t], run'[t])
             /\ Reject(m) => run'[t] = run[t] \/ run'[t].at = "refused"
<1> DEFINE t == m.lease
           at == IF ~Reject(m) /\ HoldsLease(grant[t].runner, grant[t].job, t)
                 THEN "reply" ELSE "refused"
           answer == IF at = "reply" THEN job'[grant[t].job].seq ELSE 0
           new == [run[t] EXCEPT !.at = at, !.answer = answer]
<1>1. net' = net \ {m} /\ worker' = worker /\ faults' \in 0..MaxFaults
  BY FaultTyped DEF Deliver, Reject, FaultKinds
<1>2. /\ t \in Leases /\ run[t] \in Executions /\ run \in [Leases -> Executions]
      /\ grant[t].job \in Jobs /\ Awaits(m, run[t])
  BY RequestFacts DEF SystemInv
<1>3. answer \in 0..MaxSeq
  BY <1>2 DEF IndInv, RowsOK, RowOK, Rows
<1>4. at \in {"reply", "refused"}
      /\ (at = "reply" => HoldsLease(grant[t].runner, grant[t].job, t))
      /\ (Reject(m) => at = "refused")
  OBVIOUS
<1>5. \/ run' = run
      \/ m.awaited /\ run' = [run EXCEPT ![t] = new]
  <2>1. CASE Reject(m)  BY <2>1 DEF Reject, Replied
  <2>2. CASE ~Reject(m)  BY <2>2 DEF Deliver, Replied
  <2> QED  BY <2>1, <2>2
<1> HIDE DEF at, answer
<1>6. /\ new \in Executions /\ new.at = at
      /\ new.phase = run[t].phase /\ new.result = run[t].result
      /\ new.status = run[t].status /\ new.q = run[t].q /\ new.s = run[t].s
      /\ new.seq = run[t].seq /\ new.acked = run[t].acked
  BY <1>2, <1>3, <1>4 DEF Executions
<1> HIDE DEF new
<1>7. CASE run' = run
  BY <1>1, <1>2, <1>7 DEF Answered
<1>8. CASE m.awaited /\ run' = [run EXCEPT ![t] = new]
  <2>1. run' \in [Leases -> Executions] /\ run'[t] = new
        /\ \A u \in Leases \ {t} : run'[u] = run[u]
    BY <1>2, <1>6, <1>8
  <2>2. Answered(m, run[t], run'[t])
    BY <1>4, <1>6, <1>8, <2>1 DEF Answered
  <2> QED  BY <1>1, <1>4, <1>6, <2>1, <2>2
<1> QED  BY <1>5, <1>7, <1>8

\* What the answer keeps of SystemInv.
LEMMA AnswerKeeps ==
  ASSUME IndInv, SystemInv, NEW m \in net, NEW t, t = m.lease, net' = net \ {m},
         grant' = grant, Answered(m, run[t], run'[t])
  PROVE  /\ ExecutionOK(t, run'[t]) /\ ExecutionOK(t, run[t])'
         /\ \A n \in net : n.lease = t => Sent(n, run'[t])
         /\ \A n \in net' : n.lease = t => Awaits(n, run'[t])
<1> DEFINE e == run'[t]
<1>1. /\ ExecutionOK(t, run[t]) /\ m \in Messages /\ Awaits(m, run[t])
      /\ t \in Leases
  BY RequestFacts
<1>2. run[t].phase # "none"  BY RequestFacts DEF Sent
<1>3. ExecutionOK(t, e)
  BY <1>1, <1>2 DEF ExecutionOK, Answered
<1>4. ExecutionOK(t, run[t])'
  BY <1>3 DEF ExecutionOK
<1>5. ASSUME NEW n \in net, n.lease = t PROVE Sent(n, e)
  <2>1. Sent(n, run[t])  BY <1>5 DEF SystemInv
  <2> QED  BY <2>1 DEF Sent, Answered
<1>6. ASSUME NEW n \in net', n.lease = t PROVE Awaits(n, e)
  <2>1. Awaits(n, run[t]) /\ n \in Messages /\ n # m
    BY <1>6 DEF SystemInv
  <2>2. CASE e = run[t]  BY <2>1, <2>2
  <2>3. CASE m.awaited
    <3>1. ~n.awaited
      BY <1>1, <1>6, <2>1, <2>3 DEF Awaits, Messages
    <3> QED  BY <3>1 DEF Awaits
  <2> QED  BY <2>2, <2>3 DEF Answered
<1> QED  BY <1>3, <1>4, <1>5, <1>6

\* A request that changes no row: it is out of date, or its lease is, or its
\* runner is barred.  When the reply acknowledges a result, the row shows that
\* result already.
LEMMA RefusedInv ==
  ASSUME IndInv, SystemInv, IndInv', NEW m \in net,
         \/ Reject(m)
         \/ /\ Deliver(m) /\ Refuse(grant[m.lease].runner)
            /\ LET j == grant[m.lease].job
               IN  ~(HoldsLease(grant[m.lease].runner, j, m.lease)
                     /\ SyncApplies(job[j], m.q, m.s))
  PROVE  SystemInv'
<1> DEFINE t == m.lease
           j == grant[t].job
           e == run'[t]
<1>1. /\ t \in Leases /\ j \in Jobs /\ grant[t].runner \in Runners
      /\ m \in Messages /\ Awaits(m, run[t]) /\ ExecutionOK(t, run[t])
  BY RequestFacts
<1>2. Quiet /\ grant' = grant
  <2>1. CASE Reject(m)
    BY <2>1 DEF Reject, control, vars, Quiet, Undisturbed
  <2>2. CASE Refuse(grant[t].runner)  BY <1>1, <2>2, QuietSteps DEF Quiet
  <2> QED  BY <2>1, <2>2
<1>3. /\ net' = net \ {m} /\ worker' = worker /\ faults' \in 0..MaxFaults
      /\ run' \in [Leases -> Executions]
      /\ \A u \in Leases \ {t} : run'[u] = run[u]
      /\ Answered(m, run[t], e)
      /\ Reject(m) => e = run[t] \/ e.at = "refused"
  BY AnswerFacts
<1>4. /\ ExecutionOK(t, e)
      /\ \A n \in net : n.lease = t => Sent(n, e)
      /\ \A n \in net' : n.lease = t => Awaits(n, e)
  BY <1>2, <1>3, AnswerKeeps
<1>5. ASSUME NEW i \in Jobs, job[i].lease = t PROVE ReportOK(job[i], e)
  <2>1. ReportOK(job[i], run[t])
    BY <1>1, <1>5 DEF SystemInv, ReportsOK, Leases, NoLease
  <2>2. ASSUME job[i].outcome = NoLease, IsAck(e) PROVE FALSE
    <3>1. ~IsAck(run[t])  BY <2>1, <2>2 DEF ReportOK
    <3>2. m.awaited /\ e.at = "reply" /\ HoldsLease(grant[t].runner, j, t)
      BY <2>2, <1>3, <3>1 DEF Answered, IsAck
    <3>3. m.q = e.q /\ m.s = e.s /\ m.s # "running"
      BY <1>1, <1>3, <2>2, <3>2 DEF Awaits, Answered, IsAck
    <3>9. ~Reject(m)  BY <1>3, <2>2, <3>1 DEF IsAck
    <3>4. ~SyncApplies(job[j], m.q, m.s)  BY <3>2, <3>9
    <3>5. i = j
      BY <1>1, <1>5, <3>2, HeldOnce DEF HoldsLease
    <3>6. ~(m.q > job[i].seq)  BY <3>3, <3>4, <3>5 DEF SyncApplies
    <3>7. job[i].seq < m.q
      BY <1>1, <1>5, <2>2, <3>3 DEF SystemInv, ReportsOK, Ahead, Leases, NoLease
    <3>8. job[i].seq \in Nat /\ m.q \in Nat
      BY <1>1 DEF IndInv, RowsOK, RowOK, Rows, Messages
    <3> QED  BY <3>6, <3>7, <3>8
  <2> QED  BY <1>3, <2>1, <2>2 DEF ReportOK, Answered
<1>6. ASSUME NEW n \in net' PROVE n \in Messages /\ \E k \in net : From(k, n)
  BY <1>3 DEF From, SystemInv
<1>7. Moves(t)
  <2>1. t \in Inflight' => t \in Inflight
    BY <1>1, <1>3 DEF Inflight, Live, Answered
  <2> QED  BY <1>4, <1>5, <2>1 DEF Moves
<1>8. ASSUME NEW u \in Leases \ {t} PROVE Moves(u)
  BY <1>3, <1>6, Untouched
<1>9. /\ \A u \in Leases : Moves(u)
      /\ net' \subseteq Messages /\ \A n \in net' : \E k \in net : From(k, n)
  BY <1>6, <1>7, <1>8
<1> QED  BY <1>2, <1>3, <1>9, AdjustingStep DEF SystemInv

\* apply_job_sync on the request m under the lease t of the row.
LEMMA SyncedUnder ==
  ASSUME NEW row, RowOK(row), NEW t, row.lease = t, row.lease # NoLease,
         NEW m \in Messages, SyncApplies(row, m.q, m.s)
  PROVE  LET new == SyncedRow(row, t, m.q, m.s)
         IN  /\ new.status = m.s /\ new.lease = t /\ new.seq = m.q
             /\ new.outcome = IF m.s \in Terminal THEN t ELSE row.outcome
             /\ m.s = "running" => row.status = "running"
<1>1. PICK q \in 1..MaxSeq, s \in {"running"} \cup Reported : q = m.q /\ s = m.s
  BY DEF Messages
<1>2. SyncApplies(row, q, s)  BY <1>1
<1>3. LET new == SyncedRow(row, row.lease, q, s)
      IN  /\ new.status = s /\ new.lease = row.lease /\ new.seq = q
          /\ new.outcome = IF s \in Terminal THEN row.lease ELSE row.outcome
          /\ s = "running" => row.status = "running"
  BY <1>2, SyncedRowOK
<1>4. LET new == SyncedRow(row, t, q, s)
      IN  /\ new.status = s /\ new.lease = t /\ new.seq = q
          /\ new.outcome = IF s \in Terminal THEN t ELSE row.outcome
          /\ s = "running" => row.status = "running"
  BY <1>3
<1> QED  BY <1>1, <1>4

\* A request that is applied: the row gets its number and its status, and the
\* result as the outcome when it reports one.
LEMMA AppliedInv ==
  ASSUME IndInv, SystemInv, IndInv', NEW m \in net, Deliver(m),
         Sync(grant[m.lease].runner, m.lease, m.q, m.s)
  PROVE  SystemInv'
<1> DEFINE t == m.lease
           j == grant[t].job
           e == run'[t]
<1>1. /\ t \in Leases /\ j \in Jobs /\ grant[t].runner \in Runners
      /\ m \in Messages /\ Awaits(m, run[t]) /\ ExecutionOK(t, run[t])
      /\ Sent(m, run[t]) /\ m.q \in 1..MaxSeq /\ m.s \in {"running"} \cup Reported
  BY RequestFacts
<1>2. /\ grant' = grant /\ issued' = issued
      /\ HoldsLease(grant[t].runner, j, t) /\ SyncApplies(job[j], m.q, m.s)
      /\ job' = [job EXCEPT ![j] = SyncedRow(job[j], t, m.q, m.s)]
  BY DEF Sync
<1>3. /\ net' = net \ {m} /\ worker' = worker /\ faults' \in 0..MaxFaults
      /\ run' \in [Leases -> Executions]
      /\ \A u \in Leases \ {t} : run'[u] = run[u]
      /\ Answered(m, run[t], e)
  BY AnswerFacts
<1>4. /\ ExecutionOK(t, e) /\ ExecutionOK(t, run[t])'
      /\ \A n \in net : n.lease = t => Sent(n, e)
      /\ \A n \in net' : n.lease = t => Awaits(n, e)
  BY <1>2, <1>3, AnswerKeeps
<1>5. /\ RowOK(job[j]) /\ job[j].lease = t /\ t # NoLease
      /\ job \in [Jobs -> Rows] /\ ReportOK(job[j], run[t])
  BY <1>1, <1>2 DEF HoldsLease, IndInv, TypeOK, RowsOK, SystemInv, ReportsOK
<1>6. /\ job'[j].status = m.s /\ job'[j].lease = t /\ job'[j].seq = m.q
      /\ job'[j].outcome = IF m.s \in Terminal THEN t ELSE job[j].outcome
      /\ m.s = "running" => job[j].status = "running"
  <2> DEFINE new == SyncedRow(job[j], t, m.q, m.s)
  <2>1. /\ new.status = m.s /\ new.lease = t /\ new.seq = m.q
        /\ new.outcome = IF m.s \in Terminal THEN t ELSE job[j].outcome
        /\ m.s = "running" => job[j].status = "running"
    BY <1>1, <1>2, <1>5, SyncedUnder
  <2>2. job'[j] = new  BY <1>1, <1>2, <1>5
  <2> QED  BY <2>1, <2>2
<1>7. ASSUME NEW i \in Jobs \ {j} PROVE job'[i] = job[i] /\ job[i].lease # t
  BY <1>1, <1>2, <1>5, HeldOnce
<1>8. ASSUME NEW u \in Leases PROVE ExecutionOK(u, run[u])'
  <2>1. CASE u = t  BY <1>4, <2>1
  <2>2. CASE u # t
    BY <1>2, <1>3, <2>2 DEF ExecutionOK, SystemInv
  <2> QED  BY <2>1, <2>2
<1>9. ASSUME NEW n \in net'
      PROVE  n \in Messages /\ Sent(n, run'[n.lease]) /\ Awaits(n, run'[n.lease])
  <2>1. n \in net /\ n \in Messages /\ n.lease \in Leases
    BY <1>3 DEF SystemInv, Messages
  <2>2. CASE n.lease = t  BY <1>4, <2>1, <2>2
  <2>3. CASE n.lease # t
    BY <1>3, <2>1, <2>3 DEF SystemInv
  <2> QED  BY <2>1, <2>2, <2>3
<1>10. TerminalLast'
  BY <1>3 DEF SystemInv, TerminalLast
<1>11. ReportOK(job'[j], e) /\ \A n \in net' : Ahead(job'[j], n)
  <2>1. /\ Sent(m, e) /\ e \in Executions /\ e.q \in Nat /\ e.seq \in Nat /\ m.q \in Nat
        /\ e.q < e.seq
    BY <1>1, <1>4, ExecutionTypes DEF ExecutionOK
  <2>2. job'[j].seq < e.seq  BY <1>6, <2>1 DEF Sent
  <2>3. CASE m.s # "running"
    <3>1. m.s \in Terminal  BY <1>1, <2>3
    <3>2. job'[j].outcome = t /\ job'[j].status = m.s  BY <1>6, <3>1
    <3>3. m.s = e.s /\ e.s = e.status /\ e.status = e.result
      BY <1>4, <2>1, <2>3 DEF Sent, ExecutionOK
    <3> QED  BY <1>5, <2>2, <3>2, <3>3 DEF ReportOK, Ahead
  <2>4. CASE m.s = "running"
    <3>1. job[j].outcome = NoLease  BY <1>5, <1>6, <2>4 DEF RowOK, Terminal
    <3>2. job'[j].outcome = NoLease
      BY <1>6, <2>4, <3>1 DEF Terminal
    <3>3. e.acked # "yes" /\ ~IsAck(run[t])
      BY <1>3, <1>5, <3>1 DEF ReportOK, Answered
    <3>4. ~IsAck(e)
      BY <1>1, <1>3, <2>4, <3>3 DEF Answered, Awaits, IsAck
    <3>5. e.s # "running" => m.q < e.q
      BY <2>1, <2>4 DEF Sent
    <3>6. ReportOK(job'[j], e)
      BY <1>5, <1>6, <2>2, <3>2, <3>3, <3>4, <3>5 DEF ReportOK
    <3>7. ASSUME NEW n \in net' PROVE Ahead(job'[j], n)
      BY <1>3, <1>6, <2>4 DEF Ahead, SystemInv, TerminalLast
    <3> QED  BY <3>6, <3>7
  <2> QED  BY <2>3, <2>4
<1>12. ReportsOK'
  <2> SUFFICES ASSUME NEW i \in Jobs, job'[i].lease # NoLease
               PROVE  /\ ReportOK(job'[i], run'[job'[i].lease])
                      /\ \A n \in net' : Ahead(job'[i], n)
    BY DEF ReportsOK
  <2>1. CASE i = j  BY <1>6, <1>11, <2>1
  <2>2. CASE i # j
    <3>1. /\ job'[i] = job[i] /\ job[i].lease # t
          /\ job[i].lease \in Leases \cup {NoLease}
      BY <1>7, <2>2 DEF IndInv, RowsOK, RowOK, Rows
    <3>2. run'[job[i].lease] = run[job[i].lease]
      BY <1>3, <3>1
    <3> QED  BY <1>3, <3>1, <3>2 DEF SystemInv, ReportsOK
  <2> QED  BY <2>1, <2>2
<1>13. WithinCapacity'
  <2>1. \A u \in Leases : run'[u].phase = run[u].phase
    BY <1>3 DEF Answered
  <2>2. \A r \in Runners : InflightOn(r)' = InflightOn(r)
    BY <1>2, <2>1 DEF InflightOn, Inflight, Live
  <2> QED  BY <2>2 DEF SystemInv, WithinCapacity
<1>14. net' \subseteq Messages  BY <1>9
<1> QED
  BY <1>3, <1>8, <1>9, <1>10, <1>12, <1>13, <1>14 DEF SystemInv

\* The server serves a request, or refuses its runner.
LEMMA DeliverInv ==
  ASSUME IndInv, SystemInv, IndInv', NEW m \in net, Deliver(m) \/ Reject(m)
  PROVE  SystemInv'
  BY AppliedInv, RefusedInv DEF Deliver

-------------------------------------------------------------------------------
(* The invariant of the composition and what follows from it.                *)

\* Before anything is claimed there are neither executions nor requests.
LEMMA SystemInitInv == SystemInit => IndInv /\ SystemInv
<1> SUFFICES ASSUME SystemInit PROVE IndInv /\ SystemInv
  OBVIOUS
<1>1. /\ IndInv /\ job = [j \in Jobs |-> AbsentRow]
      /\ grant = [t \in Leases |-> NoGrant]
  BY InitInv DEF SystemInit, Init
<1>2. /\ worker \in [Runners -> {"up", "stopping", "down"}]
      /\ run = [t \in Leases |-> NoExecution] /\ net = {} /\ faults = 0
  BY DEF SystemInit
<1>3. NoExecution \in Executions
  <2>1. 1 \in 1..(MaxSeq + 1) /\ 0 \in 0..MaxSeq /\ 0 \in 0..MaxTries
    BY TriesRange
  <2> QED  BY <2>1 DEF NoExecution, Executions
<1>4. \A t \in Leases : ExecutionOK(t, run[t])
  BY <1>1, <1>2, <1>3 DEF ExecutionOK, NoExecution
<1>5. TerminalLast /\ ReportsOK
  BY <1>1, <1>2 DEF TerminalLast, ReportsOK, AbsentRow
<1>6. WithinCapacity
  <2>1. \A r \in Runners : InflightOn(r) = {}
    BY <1>2 DEF InflightOn, Inflight, Live, NoExecution
  <2> QED  BY <2>1, FS_EmptySet, ExecutionAssumption DEF WithinCapacity
<1>7. faults \in 0..MaxFaults
  BY <1>2, ExecutionAssumption
<1> QED  BY <1>1, <1>2, <1>3, <1>4, <1>5, <1>6, <1>7 DEF SystemInv

\* Every step of the composition is a step of the control plane or changes
\* nothing of it.
LEMMA SystemStep ==
  ASSUME IndInv, SystemInv, [SystemNext]_systemVars
  PROVE  [Next]_vars
<1>1. CASE UNCHANGED systemVars  BY <1>1 DEF systemVars, control
<1>2. CASE Used \/ ServerEnds \/ \E r \in Runners : Bar(r)
  BY <1>2 DEF Used, ServerEnds, Bar, Next, AdminStep, RequestStep, ServerStep
<1>3. ASSUME NEW r \in Runners,
             Authenticated(r) \/ SendHeartbeat(r) \/ PollAndSchedule(r)
      PROVE  Next
  BY <1>3 DEF Authenticated, SendHeartbeat, PollAndSchedule, Next, RequestStep
<1>4. ASSUME NEW r \in Runners, StopWorker(r) \/ WorkerEnds(r) \/ WorkerStarts(r)
      PROVE  UNCHANGED vars
  BY <1>4 DEF StopWorker, WorkerEnds, WorkerStarts, control
<1>5. ASSUME NEW t \in Leases,
             Executing(t) \/ AckTimeout(t) \/ Drop(t) \/ Syncing(t)
      PROVE  UNCHANGED vars
  BY <1>5 DEF Executing, Finish, SetTerminal, Acked, Close, AckTimeout, Drop, Syncing,
     SyncSend, SyncRetry, SyncFailed, SyncReply, SyncWake, control
<1>6. ASSUME NEW m \in net, Deliver(m) PROVE Next
  BY <1>6, RequestFacts DEF Deliver, Next, RequestStep
<1>7. ASSUME NEW m \in net, LoseRequest(m) \/ Reject(m) PROVE UNCHANGED vars
  BY <1>7 DEF LoseRequest, Reject, control
<1> QED
  BY <1>1, <1>2, <1>3, <1>4, <1>5, <1>6, <1>7 DEF SystemNext

\* The invariant is inductive.
LEMMA SystemNextInv ==
  ASSUME IndInv, SystemInv, [SystemNext]_systemVars
  PROVE  IndInv' /\ SystemInv'
<1>1. IndInv'  BY SystemStep, NextInv
<1>2. CASE UNCHANGED systemVars
  <2>1. /\ Quiet /\ run' = run /\ net' = net /\ worker' = worker
        /\ faults' = faults
    BY <1>2 DEF systemVars, control, vars, Quiet, Undisturbed
  <2>2. /\ worker' \in [Runners -> {"up", "stopping", "down"}]
        /\ faults' \in 0..MaxFaults
    BY <2>1 DEF SystemInv
  <2> QED  BY <1>1, <2>1, <2>2, ControlStep
<1>3. CASE \/ Used \/ ServerEnds
           \/ \E r \in Runners : \/ Bar(r) \/ Authenticated(r) \/ SendHeartbeat(r)
                                 \/ StopWorker(r) \/ WorkerStarts(r)
  BY <1>1, <1>3, ControlInv
<1>4. ASSUME NEW r \in Runners, PollAndSchedule(r) \/ WorkerEnds(r)
      PROVE  SystemInv'
  BY <1>4, PollInv, WorkerEndsInv
<1>5. ASSUME NEW t \in Leases,
             Executing(t) \/ AckTimeout(t) \/ Drop(t) \/ Syncing(t)
      PROVE  SystemInv'
  BY <1>5, ExecutingInv, SyncingInv
<1>6. ASSUME NEW m \in net, Deliver(m) \/ Reject(m) \/ LoseRequest(m)
      PROVE  SystemInv'
  BY <1>1, <1>6, DeliverInv, LoseRequestInv
<1>7. SystemNext => SystemInv'
  BY <1>3, <1>4, <1>5, <1>6 DEF SystemNext
<1> QED  BY <1>1, <1>2, <1>7

\* IndInv and SystemInv hold whenever runners and control plane work together.
THEOREM SystemInvariance == SystemSpec => [](IndInv /\ SystemInv)
<1>1. SystemInit => IndInv /\ SystemInv  BY SystemInitInv
<1>2. IndInv /\ SystemInv /\ [SystemNext]_systemVars => IndInv' /\ SystemInv'
  BY SystemNextInv
<1> QED  BY <1>1, <1>2, PTL DEF SystemSpec

\* The runners, their network and their faults implement the environment that
\* ControlPlane assumes: whatever is proved of Spec holds of the composition.
THEOREM SystemImplements == SystemSpec => Spec
<1>1. SystemInit => Init  BY DEF SystemInit
<1>2. IndInv /\ SystemInv /\ [SystemNext]_systemVars => [Next]_vars
  BY SystemStep
<1> QED  BY <1>1, <1>2, SystemInvariance, PTL DEF SystemSpec, Spec

\* The state of the composition always has its type; in particular no request
\* is under way for a lease that was not issued.
THEOREM SystemTypeCorrect == SystemSpec => []SystemTypeOK
<1>1. ASSUME IndInv, SystemInv PROVE SystemTypeOK
  <2>1. ASSUME NEW m \in net
        PROVE  /\ m.lease \in 1..issued /\ m.q \in 1..MaxSeq
               /\ m.s \in Reported \cup {"running"} /\ m.awaited \in BOOLEAN
    <3>1. m \in Messages  BY <1>1 DEF SystemInv
    <3>2. m.lease \in Leases /\ grant[m.lease] # NoGrant
      BY <1>1, RequestFacts DEF Sent, ExecutionOK
    <3>3. ~(m.lease > issued) /\ issued \in Nat
      BY <1>1, <3>2 DEF IndInv, GrantsSound, TypeOK
    <3>4. m.lease \in 1..issued  BY <3>2, <3>3 DEF Leases
    <3> QED  BY <3>1, <3>4 DEF Messages
  <2> QED  BY <1>1, <2>1 DEF SystemTypeOK, IndInv, SystemInv
<1> QED  BY <1>1, SystemInvariance, PTL

\* The outcome a job shows is the result of the execution under its lease,
\* whatever was lost, delayed, retried, stopped or restarted on the way.
THEOREM OutcomeTrue == SystemSpec => []OutcomeIsTrue
<1>1. ASSUME IndInv, SystemInv PROVE OutcomeIsTrue
  <2> SUFFICES ASSUME NEW j \in Jobs, job[j].outcome # NoLease
               PROVE  job[j].status = run[job[j].outcome].result
    BY DEF OutcomeIsTrue
  <2>1. job[j].outcome = job[j].lease
    BY <1>1 DEF IndInv, RowsOK, RowOK
  <2> QED  BY <1>1, <2>1 DEF SystemInv, ReportsOK, ReportOK
<1> QED  BY <1>1, SystemInvariance, PTL

\* A runner that stops sending its result because it was acknowledged left it
\* in the job's row, unless the job was taken away from that attempt.
THEOREM AckedRecorded == SystemSpec => []AckedIsRecorded
<1>1. ASSUME IndInv, SystemInv PROVE AckedIsRecorded
  <2> SUFFICES ASSUME NEW t \in Leases, run[t].acked = "yes",
                      job[grant[t].job].lease = t
               PROVE  /\ job[grant[t].job].outcome = t
                      /\ job[grant[t].job].status = run[t].result
    BY DEF AckedIsRecorded
  <2> DEFINE j == grant[t].job
  <2>1. run[t].phase # "none"
    BY <1>1 DEF SystemInv, ExecutionOK, NoExecution
  <2>2. j \in Jobs
    BY <1>1, <2>1 DEF SystemInv, ExecutionOK, IndInv, GrantsSound
  <2>3. ReportOK(job[j], run[t])
    BY <1>1, <2>2 DEF SystemInv, ReportsOK, Leases, NoLease
  <2>4. job[j].outcome # NoLease  BY <2>3 DEF ReportOK
  <2>5. job[j].outcome = job[j].lease
    BY <1>1, <2>2, <2>4 DEF IndInv, RowsOK, RowOK
  <2> QED  BY <2>3, <2>4, <2>5 DEF ReportOK
<1> QED  BY <1>1, SystemInvariance, PTL

\* No runner process ever has more executions than RUNNER_MAX_JOBS, whatever
\* claims were lost and however often it was restarted.
THEOREM CapacityKept == SystemSpec => []WithinCapacity
<1>1. SystemInv => WithinCapacity  BY DEF SystemInv
<1> QED  BY <1>1, SystemInvariance, PTL
===============================================================================
