----------------------------- MODULE JobLifecycle -----------------------------
(***************************************************************************)
(* What the control plane promises about a job, without clocks, requests,  *)
(* crashes or files.  A job is submitted once, waits in the queue, is held *)
(* under a lease nobody had before, and is closed by the server or by the  *)
(* holder's report.  A closed job is never held again without passing the  *)
(* queue, a report counts only under the lease the job holds, and a        *)
(* removed job never returns.                                              *)
(***************************************************************************)
EXTENDS Naturals

CONSTANTS Jobs, Leases

VARIABLES
  stage,    \* job -> "new", "queued", "held", "closed", "removed"
  holder,   \* job -> the lease that may report on it, 0 for none
  outcome,  \* job -> the lease whose report the job shows, 0 for none
  last      \* the last lease given out

vars == <<stage, holder, outcome, last>>

Init ==
  /\ stage = [j \in Jobs |-> "new"]
  /\ holder = [j \in Jobs |-> 0]
  /\ outcome = [j \in Jobs |-> 0]
  /\ last = 0

In(S, st) == \A j \in S : stage[j] \in st

\* f with every job of S set to v.
With(f, S, v) == [j \in Jobs |-> IF j \in S THEN v ELSE f[j]]

Submit(j) ==
  /\ stage[j] = "new"
  /\ stage' = [stage EXCEPT ![j] = "queued"]
  /\ UNCHANGED <<holder, outcome, last>>

Grant(j) ==
  /\ stage[j] = "queued" /\ last + 1 \in Leases
  /\ last' = last + 1
  /\ stage' = [stage EXCEPT ![j] = "held"]
  /\ holder' = [holder EXCEPT ![j] = last + 1]
  /\ UNCHANGED outcome

\* The holder reports a result; a later report may correct a closed job.
Report(j) ==
  /\ stage[j] \in {"held", "closed"} /\ holder[j] # 0
  /\ stage' = [stage EXCEPT ![j] = "closed"]
  /\ outcome' = [outcome EXCEPT ![j] = holder[j]]
  /\ UNCHANGED <<holder, last>>

\* The server gives up on attempts: those in Q go back to the queue, those in
\* C are closed without a result and keep their lease.
GiveUp(Q, C) ==
  /\ In(Q \cup C, {"held"}) /\ Q \cap C = {}
  /\ stage' = With(With(stage, Q, "queued"), C, "closed")
  /\ holder' = With(holder, Q, 0)
  /\ UNCHANGED <<outcome, last>>

\* Jobs that are not held start over, or are removed.
Reset(S) ==
  /\ In(S, {"queued", "closed"})
  /\ stage' = With(stage, S, "queued")
  /\ holder' = With(holder, S, 0)
  /\ outcome' = With(outcome, S, 0)
  /\ UNCHANGED last

Remove(S) ==
  /\ In(S, {"queued", "closed"})
  /\ stage' = With(stage, S, "removed")
  /\ holder' = With(holder, S, 0)
  /\ outcome' = With(outcome, S, 0)
  /\ UNCHANGED last

Next ==
  \/ \E j \in Jobs : Submit(j) \/ Grant(j) \/ Report(j)
  \/ \E S \in SUBSET Jobs : Reset(S) \/ Remove(S)
  \/ \E Q, C \in SUBSET Jobs : GiveUp(Q, C)

Spec == Init /\ [][Next]_vars
===============================================================================
