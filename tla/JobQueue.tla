------------------------------- MODULE JobQueue -------------------------------
(***************************************************************************)
(* The ingest queue: the queue_jobs table of the shared database           *)
(* (app/storage/shared_db.py) and the worker that drains it                *)
(* (app/queue/worker.py), with the web side enqueueing and the process     *)
(* being killed, stopped and restarted around them.  What a run of the     *)
(* pipeline does to documents is in module Pipeline; here a run is only    *)
(* its outcome.                                                            *)
(*                                                                         *)
(* Every action is one stretch of worker code without an await, up to and  *)
(* including its one commit on queue_jobs.                                 *)
(***************************************************************************)
EXTENDS Naturals, FiniteSets

CONSTANTS Jobs,          \* job ids (uuid4: never reused)
          Workers,       \* worker threads; the deployment has one
          NoJob,         \* QueueWorker._current_job_id = None
          MaxAttempts,   \* app.constants.MAX_JOB_ATTEMPTS
          MaxExits,      \* bound: how often a process is killed or stopped
          MaxFaults      \* bound: how many database calls raise

ASSUME NoJobAssumption == NoJob \notin Jobs
ASSUME MaxAttemptsAssumption == MaxAttempts \in Nat
ASSUME BudgetAssumption == MaxExits \in Nat /\ MaxFaults \in Nat

VARIABLES
  status,     \* queue_jobs.status, "none" before the row is inserted
  attempts,   \* queue_jobs.attempts
  lease,      \* queue_jobs.lease_expires_at: NULL, in the future, in the past
  created,    \* queue_jobs.created_at, to the second
  clock,      \* datetime('now') as the next INSERT sees it
  pc,         \* where each worker thread is
  cur,        \* the job run_once is running
  hb,         \* the state of its heartbeat task
  stopping,   \* QueueWorker._stop_event
  exits,      \* process ends so far
  faults      \* database calls that raised so far

queueVars == <<status, attempts, lease, created, clock>>
workerVars == <<pc, cur, hb, stopping>>
vars == <<queueVars, workerVars, exits, faults>>

Lifecycle == INSTANCE JobLifecycle
               WITH Jobs <- Jobs, MaxAttempts <- MaxAttempts,
                    status <- status, attempts <- attempts

Leases == {"none", "live", "expired"}
\* "idle": between two run_once calls; "running": awaiting runner.run_job;
\* "registering": run_job past complete_job(done); "stopped": run_forever
\* returned; "dead": run_forever raised, so the thread is gone while the web
\* application lives on; "down": no process.
PCs == {"down", "idle", "running", "registering", "stopped", "dead"}
HeartbeatStates == {"off", "on", "exited", "crashed"}

Terminal(j) == status[j] \in Lifecycle!Outcomes
Holders(j) == {w \in Workers : cur[w] = j}

TypeOK ==
  /\ status \in [Jobs -> Lifecycle!Statuses]
  /\ attempts \in [Jobs -> 0 .. MaxAttempts]
  /\ lease \in [Jobs -> Leases]
  /\ created \in [Jobs -> Nat]
  /\ clock \in Nat
  /\ pc \in [Workers -> PCs]
  /\ cur \in [Workers -> Jobs \cup {NoJob}]
  /\ hb \in [Workers -> HeartbeatStates]
  /\ stopping \in [Workers -> BOOLEAN]
  /\ exits \in 0 .. MaxExits
  /\ faults \in 0 .. MaxFaults

Init ==
  /\ status = [j \in Jobs |-> "none"]
  /\ attempts = [j \in Jobs |-> 0]
  /\ lease = [j \in Jobs |-> "none"]
  /\ created = [j \in Jobs |-> 0]
  /\ clock = 0
  /\ pc = [w \in Workers |-> "down"]
  /\ cur = [w \in Workers |-> NoJob]
  /\ hb = [w \in Workers |-> "off"]
  /\ stopping = [w \in Workers |-> FALSE]
  /\ exits = 0
  /\ faults = 0

-------------------------------------------------------------------------------
(* The table operations of shared_db.py.                                   *)

\* enqueue_job.  created_at has a resolution of a second: the next insert may
\* see the same stamp or a later one.
Enqueue(j) ==
  /\ status[j] = "none"
  /\ status' = [status EXCEPT ![j] = "queued"]
  /\ created' = [created EXCEPT ![j] = clock]
  /\ clock' \in {clock, clock + 1}
  /\ UNCHANGED <<attempts, lease, workerVars, exits, faults>>

\* Mistaken forms of a definition, here and below, are used by no run: each
\* shows that a property notices the mistake its comment names.

\* Mistake: a job is claimed only when it is queued, never by its lease.
ClaimableQueued == {j \in Jobs : status[j] = "queued"}

\* Mistake: failed jobs are claimed again.
ClaimableFailed ==
  {j \in Jobs : \/ status[j] \in {"queued", "failed"}
                \/ status[j] = "processing" /\ lease[j] = "expired"}

\* The WHERE clause of claim_next_job's subquery.
Claimable ==
  {j \in Jobs : \/ status[j] = "queued"
                \/ status[j] = "processing" /\ lease[j] = "expired"}

\* ORDER BY created_at LIMIT 1: some minimal one, ties being in no order.
Oldest == {j \in Claimable : \A k \in Claimable : created[j] <= created[k]}

\* Mistake: the claim is not counted.
ClaimNextJobUncounted(j) ==
  /\ j \in Oldest
  /\ attempts[j] < MaxAttempts
  /\ status' = [status EXCEPT ![j] = "processing"]
  /\ lease' = [lease EXCEPT ![j] = "live"]
  /\ UNCHANGED <<attempts, created, clock>>

\* The UPDATE of claim_next_job.  The bound on attempts is a conjunct of the
\* outer statement, so it applies to the row the subquery has already picked.
ClaimNextJob(j) ==
  /\ j \in Oldest
  /\ attempts[j] < MaxAttempts
  /\ status' = [status EXCEPT ![j] = "processing"]
  /\ attempts' = [attempts EXCEPT ![j] = @ + 1]
  /\ lease' = [lease EXCEPT ![j] = "live"]
  /\ UNCHANGED <<created, clock>>

\* heartbeat_job: WHERE job_id = ? and nothing else.
HeartbeatJob(j) ==
  /\ lease' = [lease EXCEPT ![j] = "live"]
  /\ UNCHANGED <<status, attempts, created, clock>>

\* Mistake: the lease outlives the outcome.
CompleteJobKeepsLease(j, outcome) ==
  /\ status' = [status EXCEPT ![j] = outcome]
  /\ UNCHANGED <<attempts, lease, created, clock>>

\* complete_job: "failed" with an error, "done" without or with an empty one.
CompleteJob(j, outcome) ==
  /\ status' = [status EXCEPT ![j] = outcome]
  /\ lease' = [lease EXCEPT ![j] = "none"]
  /\ UNCHANGED <<attempts, created, clock>>

\* JOB_LEASE_SECONDS pass without a heartbeat.
LeaseExpires(j) ==
  /\ lease[j] = "live"
  /\ lease' = [lease EXCEPT ![j] = "expired"]
  /\ UNCHANGED <<status, attempts, created, clock, workerVars, exits, faults>>

-------------------------------------------------------------------------------
(* The worker thread.                                                      *)

\* The lifespan handler of a new process starts the thread.
Start(w) ==
  /\ pc[w] = "down"
  /\ pc' = [pc EXCEPT ![w] = "idle"]
  /\ stopping' = [stopping EXCEPT ![w] = FALSE]
  /\ UNCHANGED <<queueVars, cur, hb, exits, faults>>

\* run_once finds a job and starts its heartbeat task.
Claim(w) ==
  /\ pc[w] = "idle" /\ ~stopping[w]
  /\ \E j \in Jobs : ClaimNextJob(j) /\ cur' = [cur EXCEPT ![w] = j]
  /\ pc' = [pc EXCEPT ![w] = "running"]
  /\ hb' = [hb EXCEPT ![w] = "on"]
  /\ UNCHANGED <<stopping, exits, faults>>

\* One round of _heartbeat_loop; the loop condition is tested after it.
Heartbeat(w) ==
  /\ pc[w] = "running" /\ hb[w] = "on"
  /\ HeartbeatJob(cur[w])
  /\ hb' = [hb EXCEPT ![w] = IF stopping[w] THEN "exited" ELSE "on"]
  /\ UNCHANGED <<pc, cur, stopping, exits, faults>>

\* The end of run_once: the heartbeat task is cancelled and awaited, which
\* re-raises the exception of a task that had already crashed.
ReturnToLoop(w) ==
  /\ pc' = [pc EXCEPT ![w] = IF hb[w] = "crashed" THEN "dead" ELSE "idle"]
  /\ cur' = [cur EXCEPT ![w] = NoJob]
  /\ hb' = [hb EXCEPT ![w] = "off"]
  /\ UNCHANGED stopping

\* run_job ends with complete_job: the early return of a shared book, ...
FinishCopy(w) ==
  /\ pc[w] = "running"
  /\ CompleteJob(cur[w], "done")
  /\ ReturnToLoop(w)
  /\ UNCHANGED <<exits, faults>>

\* ... or the end of stage 5, with the shared registry still to be written.
FinishIndexed(w) ==
  /\ pc[w] = "running"
  /\ CompleteJob(cur[w], "done")
  /\ pc' = [pc EXCEPT ![w] = "registering"]
  /\ UNCHANGED <<cur, hb, stopping, exits, faults>>

\* register_shared_book and link_user_book after complete_job(done).
Register(w) ==
  /\ pc[w] = "registering"
  /\ ReturnToLoop(w)
  /\ UNCHANGED <<queueVars, exits, faults>>

\* A stage raises and the handler of run_job records the failure; with an
\* exception whose message is empty, complete_job(error="") records "done".
RunFails(w) ==
  /\ pc[w] = "running"
  /\ \E outcome \in Lifecycle!Outcomes : CompleteJob(cur[w], outcome)
  /\ ReturnToLoop(w)
  /\ UNCHANGED <<exits, faults>>

\* Mistake: a timed out job is given no outcome.
TimesOutSilently(w) ==
  /\ pc[w] = "running"
  /\ ReturnToLoop(w)
  /\ UNCHANGED <<queueVars, exits, faults>>

\* Mistake: run_job is shielded from the cancellation and runs on.
TimesOutUncancelled(w) ==
  /\ pc[w] = "running"
  /\ CompleteJob(cur[w], "failed")
  /\ UNCHANGED <<workerVars, exits, faults>>

\* JOB_RUN_TIMEOUT: run_job is cancelled and _fail_job records the failure.
TimesOut(w) ==
  /\ pc[w] = "running"
  /\ CompleteJob(cur[w], "failed")
  /\ ReturnToLoop(w)
  /\ UNCHANGED <<exits, faults>>

\* QueueWorker.stop, from the lifespan handler's shutdown.
Stop(w) ==
  /\ pc[w] \in {"idle", "running"} /\ ~stopping[w]
  /\ exits < MaxExits
  /\ exits' = exits + 1
  /\ stopping' = [stopping EXCEPT ![w] = TRUE]
  /\ UNCHANGED <<queueVars, pc, cur, hb, faults>>

\* run_forever sees the stop event between two jobs.
LeaveLoop(w) ==
  /\ pc[w] = "idle" /\ stopping[w]
  /\ pc' = [pc EXCEPT ![w] = "stopped"]
  /\ UNCHANGED <<queueVars, cur, hb, stopping, exits, faults>>

\* The process is gone: at the end of a stop, whether or not the join timed
\* out on a running job, ...
Exit(w) ==
  /\ pc' = [pc EXCEPT ![w] = "down"]
  /\ cur' = [cur EXCEPT ![w] = NoJob]
  /\ hb' = [hb EXCEPT ![w] = "off"]
  /\ stopping' = [stopping EXCEPT ![w] = FALSE]
  /\ UNCHANGED <<queueVars, faults>>

ExitStopped(w) ==
  /\ pc[w] # "down" /\ stopping[w]
  /\ Exit(w)
  /\ UNCHANGED exits

\* ... or at any moment, without notice.
Kill(w) ==
  /\ pc[w] # "down" /\ exits < MaxExits
  /\ exits' = exits + 1
  /\ Exit(w)

-------------------------------------------------------------------------------
(* Database calls that raise: a lock held past busy_timeout, a full disk.  *)

Fault == faults < MaxFaults /\ faults' = faults + 1

\* run_once catches what claim_next_job raises and polls again.
ClaimRaises(w) ==
  /\ pc[w] = "idle" /\ ~stopping[w] /\ Fault
  /\ UNCHANGED <<queueVars, workerVars, exits>>

\* The connections run_once opens before that, and the ones run_job opens or
\* its handler uses, are under no handler: the thread ends with the exception.
ThreadDies(w) ==
  /\ \/ pc[w] = "idle" /\ ~stopping[w]
     \/ pc[w] \in {"running", "registering"}
  /\ Fault
  /\ pc' = [pc EXCEPT ![w] = "dead"]
  /\ cur' = [cur EXCEPT ![w] = NoJob]
  /\ hb' = [hb EXCEPT ![w] = "off"]
  /\ UNCHANGED <<queueVars, stopping, exits>>

\* The heartbeat task cannot open its connection, or cannot reopen it.
HeartbeatDies(w) ==
  /\ pc[w] = "running" /\ hb[w] = "on" /\ Fault
  /\ hb' = [hb EXCEPT ![w] = "crashed"]
  /\ UNCHANGED <<queueVars, pc, cur, stopping, exits>>

\* The registry write raises after complete_job(done): run_job's handler
\* records a failure over the outcome.
RegisterFails(w) ==
  /\ pc[w] = "registering" /\ Fault
  /\ CompleteJob(cur[w], "failed")
  /\ ReturnToLoop(w)
  /\ UNCHANGED exits

\* _fail_job swallows what complete_job raises: the timed out job keeps its
\* status and its lease.
TimesOutUnrecorded(w) ==
  /\ pc[w] = "running" /\ Fault
  /\ ReturnToLoop(w)
  /\ UNCHANGED <<queueVars, exits>>

-------------------------------------------------------------------------------
Outcome(w) == FinishCopy(w) \/ FinishIndexed(w) \/ RunFails(w) \/ TimesOut(w)

WorkerStep(w) ==
  \/ Start(w) \/ Claim(w) \/ Heartbeat(w) \/ Outcome(w) \/ Register(w)
  \/ Stop(w) \/ LeaveLoop(w) \/ ExitStopped(w) \/ Kill(w)
  \/ ClaimRaises(w) \/ ThreadDies(w) \/ HeartbeatDies(w)
  \/ RegisterFails(w) \/ TimesOutUnrecorded(w)

Next ==
  \/ \E j \in Jobs : Enqueue(j) \/ LeaseExpires(j)
  \/ \E w \in Workers : WorkerStep(w)

Spec == Init /\ [][Next]_vars

\* The thread runs, a stopped process ends, the supervisor restarts an ended
\* one (docker restart: unless-stopped), JOB_RUN_TIMEOUT ends every run and
\* time passes.  Nobody has to upload, stop or kill anything.
Fairness ==
  /\ \A w \in Workers :
       /\ WF_vars(Start(w)) /\ WF_vars(Claim(w)) /\ WF_vars(Outcome(w))
       /\ WF_vars(Register(w)) /\ WF_vars(LeaveLoop(w))
       /\ WF_vars(ExitStopped(w))
  /\ \A j \in Jobs : WF_vars(LeaseExpires(j))

FairSpec == Spec /\ Fairness

-------------------------------------------------------------------------------
(* Safety.                                                                 *)

\* A job's row stays consistent with what the workers are doing with it: a
\* row nobody has claimed is held by nobody and has no attempt; a row in
\* "processing" has a lease, since claim_next_job compares a NULL lease to
\* now as false and would never reclaim it.
RowMatchesRuns ==
  \A j \in Jobs :
    /\ status[j] \in {"none", "queued"} => attempts[j] = 0 /\ Holders(j) = {}
    /\ status[j] = "processing" => attempts[j] > 0 /\ lease[j] # "none"

\* With one worker, no run is wasted: a job is run again only because a
\* process ended or a database call raised under an earlier run, so
\* attempts - 1 is never more than the number of those events.
RetriesHaveCauses ==
  \A j \in Jobs : attempts[j] <= 1 + exits + faults

\* With one worker, a row with an outcome keeps no lease, although
\* heartbeat_job writes one whatever the status: the heartbeat of a run ends
\* before anything can follow its outcome.
OutcomeHasNoLease ==
  \A j \in Jobs : Terminal(j) => lease[j] = "none"

\* With one worker, the job a run_once call is running is still its own: the
\* row says "processing" until the run itself records the outcome, and "done"
\* while it registers the book.
RunOwnsItsJob ==
  \A w \in Workers :
    /\ pc[w] = "running" => status[cur[w]] = "processing"
    /\ pc[w] = "registering" => status[cur[w]] = "done"

\* An outcome is only ever revised from done to failed, and only by the run
\* that recorded it (the registry write failing after complete_job): no later
\* run, heartbeat or stale worker touches a finished job.
OutcomeStands ==
  [][\A j \in Jobs :
       Terminal(j) =>
         \/ status'[j] = status[j]
         \/ /\ status[j] = "done" /\ status'[j] = "failed"
            /\ \E w \in Workers : cur[w] = j /\ pc[w] = "registering"]_vars

\* The detailed queue implements the abstract one.
LifecycleSpec == Lifecycle!Spec

-------------------------------------------------------------------------------
(* Liveness, under FairSpec.                                               *)

\* Some job has used up its attempts without an outcome and nobody runs it.
Abandoned(j) ==
  /\ status[j] = "processing" /\ attempts[j] = MaxAttempts
  /\ Holders(j) = {}

\* A submitted job gets an outcome unless its attempts ran out, an older job
\* whose attempts ran out stands before it, or the thread has died of a
\* database call that raised.
JobsSettleOrBlocked ==
  \A j \in Jobs :
    status[j] = "queued" ~>
      \/ Terminal(j) \/ Abandoned(j)
      \/ \E k \in Jobs : Abandoned(k) /\ created[k] <= created[j]
      \/ \E w \in Workers : pc[w] = "dead"
===============================================================================
