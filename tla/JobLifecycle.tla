----------------------------- MODULE JobLifecycle -----------------------------
(***************************************************************************)
(* What the ingest queue promises about one processing job, with nothing   *)
(* said of workers, leases or order: a job is submitted once, is taken at  *)
(* most MaxAttempts times, and once it has an outcome no step makes it     *)
(* runnable again.  JobQueue implements this specification.                *)
(***************************************************************************)
EXTENDS Naturals

CONSTANTS Jobs,          \* job ids
          MaxAttempts    \* app.constants.MAX_JOB_ATTEMPTS

VARIABLES status,        \* queue_jobs.status; "none" before the row exists
          attempts       \* queue_jobs.attempts

lifecycleVars == <<status, attempts>>

Outcomes == {"done", "failed"}
Statuses == {"none", "queued", "processing"} \cup Outcomes

Init ==
  /\ status = [j \in Jobs |-> "none"]
  /\ attempts = [j \in Jobs |-> 0]

Submit(j) ==
  /\ status[j] = "none"
  /\ status' = [status EXCEPT ![j] = "queued"]
  /\ UNCHANGED attempts

\* A first claim, or a reclaim of a job whose run was lost.
Take(j) ==
  /\ status[j] \in {"queued", "processing"}
  /\ attempts[j] < MaxAttempts
  /\ status' = [status EXCEPT ![j] = "processing"]
  /\ attempts' = [attempts EXCEPT ![j] = @ + 1]

\* The outcome of a run.  A later run of the same job, or the tail of this
\* one, may replace the outcome by another one, never withdraw it.
Settle(j) ==
  /\ status[j] \in {"processing"} \cup Outcomes
  /\ \E o \in Outcomes : status' = [status EXCEPT ![j] = o]
  /\ UNCHANGED attempts

Next == \E j \in Jobs : Submit(j) \/ Take(j) \/ Settle(j)

Spec == Init /\ [][Next]_lifecycleVars
===============================================================================
