---------------------------- MODULE JobQueueProofs ----------------------------
(***************************************************************************)
(* Theorems about JobQueue, for any set of jobs, any bounds and, in the    *)
(* first part, any set of workers.                                         *)
(***************************************************************************)
EXTENDS JobQueue, TLAPS

USE DEF Lifecycle!Statuses, Lifecycle!Outcomes, Leases, PCs, HeartbeatStates

\* The steps of the queue, one per action: every proof below splits on them.
LEMMA NextCases ==
  ASSUME Next
  PROVE  \/ \E j \in Jobs : Enqueue(j) \/ LeaseExpires(j)
         \/ \E w \in Workers :
              \/ Start(w) \/ Claim(w) \/ Heartbeat(w) \/ FinishCopy(w)
              \/ FinishIndexed(w) \/ RunFails(w) \/ TimesOut(w) \/ Register(w)
              \/ Stop(w) \/ LeaveLoop(w) \/ ExitStopped(w) \/ Kill(w)
              \/ ClaimRaises(w) \/ ThreadDies(w) \/ HeartbeatDies(w)
              \/ RegisterFails(w) \/ TimesOutUnrecorded(w)
  BY DEF Next, WorkerStep, Outcome

-------------------------------------------------------------------------------
\* Every variable keeps its type, the attempts bound included: the UPDATE of
\* claim_next_job never takes a job past MAX_JOB_ATTEMPTS.
THEOREM TypeCorrect == Spec => []TypeOK
<1>1. Init => TypeOK
  BY MaxAttemptsAssumption, BudgetAssumption DEF Init, TypeOK
<1>2. TypeOK /\ [Next]_vars => TypeOK'
  <2> SUFFICES ASSUME TypeOK, [Next]_vars PROVE TypeOK'
    OBVIOUS
  <2> USE MaxAttemptsAssumption, BudgetAssumption
      DEF TypeOK, queueVars, workerVars, Fault
  <2>1. CASE UNCHANGED vars
    BY <2>1 DEF vars
  <2>2. ASSUME NEW j \in Jobs, Enqueue(j) PROVE TypeOK'
    BY <2>2 DEF Enqueue
  <2>3. ASSUME NEW j \in Jobs, LeaseExpires(j) PROVE TypeOK'
    BY <2>3 DEF LeaseExpires
  <2>4. ASSUME NEW w \in Workers, Start(w) PROVE TypeOK'
    BY <2>4 DEF Start
  <2>5. ASSUME NEW w \in Workers, Claim(w) PROVE TypeOK'
    <3>1. PICK j \in Jobs : ClaimNextJob(j) /\ cur' = [cur EXCEPT ![w] = j]
      BY <2>5 DEF Claim
    <3>2. attempts' \in [Jobs -> 0 .. MaxAttempts]
      BY <3>1 DEF ClaimNextJob
    <3> QED
      BY <2>5, <3>1, <3>2 DEF Claim, ClaimNextJob
  <2>6. ASSUME NEW w \in Workers, Heartbeat(w) PROVE TypeOK'
    BY <2>6 DEF Heartbeat, HeartbeatJob
  <2>7. ASSUME NEW w \in Workers,
               FinishCopy(w) \/ RunFails(w) \/ TimesOut(w)
        PROVE  TypeOK'
    BY <2>7 DEF FinishCopy, RunFails, TimesOut, CompleteJob, ReturnToLoop
  <2>8. ASSUME NEW w \in Workers, FinishIndexed(w) PROVE TypeOK'
    BY <2>8 DEF FinishIndexed, CompleteJob
  <2>9. ASSUME NEW w \in Workers, Register(w) PROVE TypeOK'
    BY <2>9 DEF Register, ReturnToLoop
  <2>10. ASSUME NEW w \in Workers, Stop(w) \/ LeaveLoop(w) PROVE TypeOK'
    <3>1. CASE Stop(w)
      <4>1. stopping' \in [Workers -> BOOLEAN]
        BY <3>1, Zenon DEF Stop
      <4>2. exits' \in 0 .. MaxExits
        BY <3>1 DEF Stop
      <4> QED
        BY <3>1, <4>1, <4>2, Zenon DEF Stop
    <3>2. CASE LeaveLoop(w)
      BY <3>2 DEF LeaveLoop
    <3> QED
      BY <2>10, <3>1, <3>2
  <2>11. ASSUME NEW w \in Workers, ExitStopped(w) \/ Kill(w) PROVE TypeOK'
    <3>1. exits' \in 0 .. MaxExits
      BY <2>11 DEF ExitStopped, Kill
    <3>2. /\ pc' \in [Workers -> PCs]
          /\ cur' \in [Workers -> Jobs \cup {NoJob}]
          /\ hb' \in [Workers -> HeartbeatStates]
      BY <2>11 DEF ExitStopped, Kill, Exit
    <3>3. stopping' \in [Workers -> BOOLEAN]
      BY <2>11, Zenon DEF ExitStopped, Kill, Exit
    <3> QED
      BY <2>11, <3>1, <3>2, <3>3, Zenon DEF ExitStopped, Kill, Exit
  <2>12. ASSUME NEW w \in Workers,
                ClaimRaises(w) \/ ThreadDies(w) \/ HeartbeatDies(w)
         PROVE  TypeOK'
    BY <2>12 DEF ClaimRaises, ThreadDies, HeartbeatDies
  <2>13. ASSUME NEW w \in Workers, RegisterFails(w) \/ TimesOutUnrecorded(w)
         PROVE  TypeOK'
    BY <2>13 DEF RegisterFails, TimesOutUnrecorded, CompleteJob, ReturnToLoop
  <2> QED
    BY <2>1, <2>2, <2>3, <2>4, <2>5, <2>6, <2>7, <2>8, <2>9, <2>10, <2>11,
       <2>12, <2>13, NextCases
<1> QED
  BY <1>1, <1>2, PTL DEF Spec

-------------------------------------------------------------------------------
\* A thread inside run_job has a job.
RunHasJob ==
  \A w \in Workers : pc[w] \in {"running", "registering"} => cur[w] \in Jobs

\* Every step keeps RunHasJob: a thread enters run_job with the job it claimed.
LEMMA RunHasJobStep ==
  ASSUME TypeOK, RunHasJob, [Next]_vars
  PROVE  RunHasJob'
<1> USE DEF TypeOK, RunHasJob
<1>1. CASE UNCHANGED vars
  BY <1>1 DEF vars, workerVars
<1>2. ASSUME NEW j \in Jobs, Enqueue(j) \/ LeaseExpires(j) PROVE RunHasJob'
  BY <1>2 DEF Enqueue, LeaseExpires, workerVars
<1>3. ASSUME NEW w \in Workers,
             Start(w) \/ Stop(w) \/ LeaveLoop(w) \/ HeartbeatDies(w)
      PROVE  RunHasJob'
  BY <1>3 DEF Start, Stop, LeaveLoop, HeartbeatDies
<1>4. ASSUME NEW w \in Workers, Claim(w) PROVE RunHasJob'
  BY <1>4 DEF Claim
<1>5. ASSUME NEW w \in Workers, Heartbeat(w) \/ ClaimRaises(w)
      PROVE  RunHasJob'
  BY <1>5 DEF Heartbeat, ClaimRaises, workerVars
<1>6. ASSUME NEW w \in Workers,
             \/ FinishCopy(w) \/ RunFails(w) \/ TimesOut(w) \/ Register(w)
             \/ RegisterFails(w) \/ TimesOutUnrecorded(w)
      PROVE  RunHasJob'
  BY <1>6 DEF FinishCopy, RunFails, TimesOut, Register, RegisterFails,
              TimesOutUnrecorded, ReturnToLoop
<1>7. ASSUME NEW w \in Workers, FinishIndexed(w) PROVE RunHasJob'
  BY <1>7 DEF FinishIndexed
<1>8. ASSUME NEW w \in Workers, ExitStopped(w) \/ Kill(w) \/ ThreadDies(w)
      PROVE  RunHasJob'
  BY <1>8 DEF ExitStopped, Kill, Exit, ThreadDies
<1> QED
  BY <1>1, <1>2, <1>3, <1>4, <1>5, <1>6, <1>7, <1>8, NextCases

\* RunHasJob at all times, for any number of workers.
THEOREM RunsHaveJobs == Spec => []RunHasJob
<1>1. Init => RunHasJob
  BY DEF Init, RunHasJob
<1> QED
  BY <1>1, RunHasJobStep, TypeCorrect, PTL DEF Spec

-------------------------------------------------------------------------------
\* RowMatchesRuns for any number of workers: a row no worker has claimed has
\* no holder and no attempt, and a row being processed always has the lease
\* without which claim_next_job could never reclaim it.
LEMMA RowMatchesRunsStep ==
  ASSUME TypeOK, RowMatchesRuns, [Next]_vars
  PROVE  RowMatchesRuns'
<1> USE DEF TypeOK, RowMatchesRuns, Holders
<1>1. CASE UNCHANGED vars
  BY <1>1 DEF vars, queueVars, workerVars
<1>2. ASSUME NEW j \in Jobs, Enqueue(j) PROVE RowMatchesRuns'
  BY <1>2 DEF Enqueue, workerVars
<1>3. ASSUME NEW j \in Jobs, LeaseExpires(j) PROVE RowMatchesRuns'
  BY <1>3 DEF LeaseExpires, workerVars
<1>4. ASSUME NEW w \in Workers, Claim(w) PROVE RowMatchesRuns'
  <2>1. PICK j \in Jobs : ClaimNextJob(j) /\ cur' = [cur EXCEPT ![w] = j]
    BY <1>4 DEF Claim
  <2>2. /\ status' = [status EXCEPT ![j] = "processing"]
        /\ attempts' = [attempts EXCEPT ![j] = @ + 1]
        /\ lease' = [lease EXCEPT ![j] = "live"]
    BY <2>1 DEF ClaimNextJob
  <2> SUFFICES ASSUME NEW k \in Jobs
               PROVE  /\ status'[k] \in {"none", "queued"} =>
                           attempts'[k] = 0 /\ Holders(k)' = {}
                      /\ status'[k] = "processing" =>
                           attempts'[k] > 0 /\ lease'[k] # "none"
    OBVIOUS
  <2>3. CASE k = j
    BY <2>2, <2>3
  <2>4. CASE k # j
    BY <2>1, <2>2, <2>4
  <2> QED
    BY <2>3, <2>4
<1>5. ASSUME NEW w \in Workers, Heartbeat(w) PROVE RowMatchesRuns'
  BY <1>5 DEF Heartbeat, HeartbeatJob
<1>6. ASSUME NEW w \in Workers, NEW o \in Lifecycle!Outcomes,
             CompleteJob(cur[w], o),
             cur' = cur \/ cur' = [cur EXCEPT ![w] = NoJob]
      PROVE  RowMatchesRuns'
  BY <1>6, NoJobAssumption DEF CompleteJob
<1>7. ASSUME NEW w \in Workers,
             \/ FinishCopy(w) \/ FinishIndexed(w) \/ RunFails(w)
             \/ TimesOut(w) \/ RegisterFails(w)
      PROVE  RowMatchesRuns'
  BY <1>6, <1>7 DEF FinishCopy, FinishIndexed, RunFails, TimesOut,
                    RegisterFails, ReturnToLoop
<1>8. ASSUME UNCHANGED queueVars,
             \/ cur' = cur
             \/ \E w \in Workers : cur' = [cur EXCEPT ![w] = NoJob]
      PROVE  RowMatchesRuns'
  BY <1>8, NoJobAssumption DEF queueVars
<1>9. ASSUME NEW w \in Workers,
             \/ Start(w) \/ Register(w) \/ Stop(w) \/ LeaveLoop(w)
             \/ ExitStopped(w) \/ Kill(w) \/ ClaimRaises(w) \/ ThreadDies(w)
             \/ HeartbeatDies(w) \/ TimesOutUnrecorded(w)
      PROVE  RowMatchesRuns'
  BY <1>8, <1>9 DEF Start, Register, Stop, LeaveLoop, ExitStopped, Kill, Exit,
        ClaimRaises, ThreadDies, HeartbeatDies, TimesOutUnrecorded,
        ReturnToLoop, workerVars
<1> QED
  BY <1>1, <1>2, <1>3, <1>4, <1>5, <1>7, <1>9, NextCases

THEOREM RowsMatchRuns == Spec => []RowMatchesRuns
<1>1. Init => RowMatchesRuns
  BY NoJobAssumption DEF Init, RowMatchesRuns, Holders
<1> QED
  BY <1>1, RowMatchesRunsStep, TypeCorrect, PTL DEF Spec

-------------------------------------------------------------------------------
\* The queue implements the abstract life cycle of a job, for any number of
\* workers: whatever claims, stale heartbeats, repeated runs, process ends and
\* failing database calls do, a job is taken at most MaxAttempts times and a
\* job with an outcome is never made runnable again.
THEOREM ImplementsLifecycle == Spec => LifecycleSpec
<1>1. Init => Lifecycle!Init
  BY DEF Init, Lifecycle!Init
<1>2. TypeOK /\ RunHasJob /\ RowMatchesRuns /\ [Next]_vars
        => [Lifecycle!Next]_(Lifecycle!lifecycleVars)
  <2> SUFFICES ASSUME TypeOK, RunHasJob, RowMatchesRuns, [Next]_vars
               PROVE  \/ Lifecycle!Next
                      \/ UNCHANGED <<status, attempts>>
    BY DEF Lifecycle!lifecycleVars
  <2>1. CASE UNCHANGED vars
    BY <2>1 DEF vars, queueVars
  <2>2. ASSUME NEW j \in Jobs, Enqueue(j) PROVE Lifecycle!Next
    BY <2>2 DEF Enqueue, Lifecycle!Next, Lifecycle!Submit
  <2>3. ASSUME NEW w \in Workers, Claim(w) PROVE Lifecycle!Next
    <3>1. PICK j \in Jobs : ClaimNextJob(j)
      BY <2>3 DEF Claim
    <3>2. Lifecycle!Take(j)
      BY <3>1 DEF ClaimNextJob, Oldest, Claimable, Lifecycle!Take
    <3> QED
      BY <3>2 DEF Lifecycle!Next
  <2>4. ASSUME NEW w \in Workers, pc[w] \in {"running", "registering"},
               NEW o \in Lifecycle!Outcomes, CompleteJob(cur[w], o)
        PROVE  Lifecycle!Next
    <3>1. cur[w] \in Jobs /\ w \in Holders(cur[w])
      BY <2>4 DEF RunHasJob, Holders
    <3>2. status[cur[w]] \in {"processing"} \cup Lifecycle!Outcomes
      BY <3>1 DEF RowMatchesRuns, TypeOK
    <3>3. Lifecycle!Settle(cur[w])
      BY <2>4, <3>2 DEF CompleteJob, Lifecycle!Settle
    <3> QED
      BY <3>1, <3>3 DEF Lifecycle!Next
  <2>5. ASSUME NEW w \in Workers,
               \/ FinishCopy(w) \/ FinishIndexed(w) \/ RunFails(w)
               \/ TimesOut(w) \/ RegisterFails(w)
        PROVE  Lifecycle!Next
    BY <2>4, <2>5 DEF FinishCopy, FinishIndexed, RunFails, TimesOut,
                      RegisterFails
  <2>6. ASSUME NEW j \in Jobs, LeaseExpires(j)
        PROVE  UNCHANGED <<status, attempts>>
    BY <2>6 DEF LeaseExpires
  <2>7. ASSUME NEW w \in Workers,
               \/ Start(w) \/ Heartbeat(w) \/ Register(w) \/ Stop(w)
               \/ LeaveLoop(w) \/ ExitStopped(w) \/ Kill(w) \/ ClaimRaises(w)
               \/ ThreadDies(w) \/ HeartbeatDies(w) \/ TimesOutUnrecorded(w)
        PROVE  UNCHANGED <<status, attempts>>
    BY <2>7 DEF Start, Heartbeat, HeartbeatJob, Register, Stop, LeaveLoop,
          ExitStopped, Kill, Exit, ClaimRaises, ThreadDies, HeartbeatDies,
          TimesOutUnrecorded, queueVars
  <2> QED
    BY <2>1, <2>2, <2>3, <2>5, <2>6, <2>7, NextCases
<1> QED
  BY <1>1, <1>2, TypeCorrect, RunsHaveJobs, RowsMatchRuns, PTL
  DEF Spec, LifecycleSpec, Lifecycle!Spec

-------------------------------------------------------------------------------
(* The deployment: one worker thread.                                      *)

SoleWorker == \A v, w \in Workers : v = w

\* What makes RetriesHaveCauses inductive.  A job that was claimed and lies
\* around without a holder has already been paid for by an event, and so has
\* the run of a worker that was told to stop.
RetriesArePaidFor ==
  \A j \in Jobs :
    /\ status[j] = "processing" /\ Holders(j) = {} =>
         attempts[j] <= exits + faults
    /\ \A w \in Holders(j) : stopping[w] => attempts[j] <= exits + faults

\* A worker keeps a job only while it is inside run_job.
HolderRuns ==
  \A w \in Workers : cur[w] \in Jobs => pc[w] \in {"running", "registering"}

SoleInv ==
  /\ RunHasJob /\ RowMatchesRuns /\ HolderRuns
  /\ RunOwnsItsJob /\ OutcomeHasNoLease
  /\ RetriesHaveCauses /\ RetriesArePaidFor

\* Every step keeps HolderRuns: run_once forgets its job whenever it returns,
\* ends with an exception or ends with the process.
LEMMA HolderRunsStep ==
  ASSUME TypeOK, HolderRuns, [Next]_vars
  PROVE  HolderRuns'
<1> USE NoJobAssumption DEF TypeOK, HolderRuns
<1>1. CASE UNCHANGED vars
  BY <1>1 DEF vars, workerVars
<1>2. ASSUME NEW j \in Jobs, Enqueue(j) \/ LeaseExpires(j) PROVE HolderRuns'
  BY <1>2 DEF Enqueue, LeaseExpires, workerVars
<1>3. ASSUME NEW w \in Workers,
             \/ Start(w) \/ Stop(w) \/ LeaveLoop(w) \/ HeartbeatDies(w)
             \/ FinishIndexed(w)
      PROVE  HolderRuns'
  BY <1>3 DEF Start, Stop, LeaveLoop, HeartbeatDies, FinishIndexed
<1>4. ASSUME NEW w \in Workers, Claim(w) PROVE HolderRuns'
  BY <1>4 DEF Claim
<1>5. ASSUME NEW w \in Workers, Heartbeat(w) \/ ClaimRaises(w)
      PROVE  HolderRuns'
  BY <1>5 DEF Heartbeat, ClaimRaises, workerVars
<1>6. ASSUME NEW w \in Workers,
             \/ FinishCopy(w) \/ RunFails(w) \/ TimesOut(w) \/ Register(w)
             \/ RegisterFails(w) \/ TimesOutUnrecorded(w)
      PROVE  HolderRuns'
  BY <1>6 DEF FinishCopy, RunFails, TimesOut, Register, RegisterFails,
              TimesOutUnrecorded, ReturnToLoop
<1>7. ASSUME NEW w \in Workers, ExitStopped(w) \/ Kill(w) \/ ThreadDies(w)
      PROVE  HolderRuns'
  BY <1>7 DEF ExitStopped, Kill, Exit, ThreadDies
<1> QED
  BY <1>1, <1>2, <1>3, <1>4, <1>5, <1>6, <1>7, NextCases

\* SoleInv is inductive when there is one worker.
LEMMA SoleInvStep ==
  ASSUME SoleWorker, TypeOK, SoleInv, [Next]_vars
  PROVE  SoleInv'
<1> DEFINE Rest == /\ RunOwnsItsJob /\ OutcomeHasNoLease
                   /\ RetriesHaveCauses /\ RetriesArePaidFor
<1>1. RunHasJob' /\ RowMatchesRuns' /\ HolderRuns'
  BY RunHasJobStep, RowMatchesRunsStep, HolderRunsStep DEF SoleInv
<1> SUFFICES Rest'
  BY <1>1 DEF SoleInv
<1> USE NoJobAssumption, BudgetAssumption, MaxAttemptsAssumption
    DEF TypeOK, RunOwnsItsJob, OutcomeHasNoLease, RetriesHaveCauses,
        RetriesArePaidFor, Holders, Terminal
<1>2. CASE UNCHANGED vars
  BY <1>2 DEF vars, queueVars, workerVars, SoleInv
<1>3. ASSUME NEW j \in Jobs, Enqueue(j) PROVE Rest'
  BY <1>3 DEF Enqueue, workerVars, SoleInv, RowMatchesRuns, RunHasJob
<1>4. ASSUME NEW j \in Jobs, LeaseExpires(j) PROVE Rest'
  BY <1>4 DEF LeaseExpires, workerVars, SoleInv
<1>5. ASSUME NEW w \in Workers, Claim(w) PROVE Rest'
  <2>1. PICK j \in Jobs : ClaimNextJob(j) /\ cur' = [cur EXCEPT ![w] = j]
    BY <1>5 DEF Claim
  <2>2. \A v \in Workers : v = w
    BY DEF SoleWorker
  <2>3. (\A k \in Jobs : Holders(k) = {}) /\ ~stopping[w]
    BY <1>5, <2>2 DEF Claim, SoleInv, HolderRuns
  <2>4. attempts[j] <= exits + faults
    BY <2>1, <2>3 DEF ClaimNextJob, Oldest, Claimable, SoleInv, RowMatchesRuns
  <2>5. /\ status' = [status EXCEPT ![j] = "processing"]
        /\ attempts' = [attempts EXCEPT ![j] = @ + 1]
        /\ lease' = [lease EXCEPT ![j] = "live"]
        /\ pc' = [pc EXCEPT ![w] = "running"]
        /\ UNCHANGED <<stopping, exits, faults>>
    BY <1>5, <2>1 DEF Claim, ClaimNextJob
  <2>6. RunOwnsItsJob'
    BY <2>1, <2>2, <2>5 DEF SoleInv
  <2>7. OutcomeHasNoLease'
    BY <2>5 DEF SoleInv
  <2>8. RetriesHaveCauses'
    BY <2>4, <2>5 DEF SoleInv
  <2>9. RetriesArePaidFor'
    <3> SUFFICES ASSUME NEW k \in Jobs
                 PROVE  /\ status'[k] = "processing" /\ Holders(k)' = {} =>
                             attempts'[k] <= exits' + faults'
                        /\ \A v \in Holders(k)' : stopping'[v] =>
                             attempts'[k] <= exits' + faults'
      OBVIOUS
    <3>1. w \in Holders(j)'
      BY <2>1
    <3>2. ~stopping'[w]
      BY <2>3, <2>5
    <3>3. CASE k = j
      BY <2>2, <3>1, <3>2, <3>3
    <3>4. CASE k # j
      BY <2>1, <2>2, <2>3, <2>5, <3>2, <3>4 DEF SoleInv
    <3> QED
      BY <3>3, <3>4
  <2> QED
    BY <2>6, <2>7, <2>8, <2>9
<1>6. ASSUME NEW w \in Workers, Heartbeat(w) PROVE Rest'
  BY <1>6 DEF Heartbeat, HeartbeatJob, SoleInv, RunHasJob
<1>7. ASSUME NEW w \in Workers, FinishCopy(w) \/ RunFails(w) \/ TimesOut(w)
      PROVE  Rest'
  BY <1>7 DEF FinishCopy, RunFails, TimesOut, CompleteJob, ReturnToLoop,
              SoleInv, SoleWorker, RunHasJob
<1>8. ASSUME NEW w \in Workers, FinishIndexed(w) PROVE Rest'
  BY <1>8 DEF FinishIndexed, CompleteJob, SoleInv, SoleWorker, RunHasJob
<1>9. ASSUME NEW w \in Workers, RegisterFails(w) PROVE Rest'
  BY <1>9 DEF RegisterFails, CompleteJob, ReturnToLoop, Fault, SoleInv,
              SoleWorker, RunHasJob
<1>10. ASSUME NEW w \in Workers, Register(w) PROVE Rest'
  BY <1>10 DEF Register, ReturnToLoop, queueVars, SoleInv, SoleWorker,
               RunHasJob
<1>11. ASSUME NEW w \in Workers, TimesOutUnrecorded(w) PROVE Rest'
  BY <1>11 DEF TimesOutUnrecorded, ReturnToLoop, Fault, queueVars, SoleInv,
               SoleWorker, RunHasJob
<1>12. ASSUME NEW w \in Workers, Stop(w) PROVE Rest'
  <2>1. UNCHANGED <<queueVars, pc, cur, faults>> /\ exits' = exits + 1
    BY <1>12 DEF Stop
  <2>2. RetriesArePaidFor'
    BY <2>1 DEF queueVars, SoleInv
  <2> QED
    BY <2>1, <2>2 DEF queueVars, SoleInv
<1>13. ASSUME NEW w \in Workers, Start(w) \/ LeaveLoop(w) PROVE Rest'
  BY <1>13 DEF Start, LeaveLoop, queueVars, SoleInv, SoleWorker, HolderRuns
<1>14. ASSUME NEW w \in Workers, ExitStopped(w) \/ Kill(w) PROVE Rest'
  BY <1>14 DEF ExitStopped, Kill, Exit, queueVars, SoleInv, SoleWorker,
               RunHasJob, HolderRuns
<1>15. ASSUME NEW w \in Workers,
              ClaimRaises(w) \/ ThreadDies(w) \/ HeartbeatDies(w)
       PROVE  Rest'
  BY <1>15 DEF ClaimRaises, ThreadDies, HeartbeatDies, Fault, queueVars,
               workerVars, SoleInv, SoleWorker, RunHasJob, HolderRuns
<1> QED
  BY <1>2, <1>3, <1>4, <1>5, <1>6, <1>7, <1>8, <1>9, <1>10, <1>11, <1>12,
     <1>13, <1>14, <1>15, NextCases

\* SoleInv at all times, when there is one worker.
THEOREM SoleInvHolds ==
  ASSUME SoleWorker
  PROVE  Spec => []SoleInv
<1>1. Init => SoleInv
  BY NoJobAssumption DEF Init, SoleInv, RunHasJob, RowMatchesRuns, HolderRuns,
     RunOwnsItsJob, OutcomeHasNoLease, RetriesHaveCauses, RetriesArePaidFor,
     Holders, Terminal
<1>2. TypeOK /\ SoleInv /\ [Next]_vars => SoleInv'
  BY SoleInvStep
<1> QED
  BY <1>1, <1>2, TypeCorrect, PTL DEF Spec

\* With one worker thread, a run owns the row of the job it is running.
THEOREM SoleWorkerSafe == ASSUME SoleWorker PROVE Spec => []RunOwnsItsJob
<1>1. SoleInv => RunOwnsItsJob
  BY DEF SoleInv
<1> QED
  BY <1>1, SoleInvHolds, PTL

\* With one worker thread, a finished row has no lease: no heartbeat comes
\* after the outcome.
THEOREM SoleWorkerLease == ASSUME SoleWorker PROVE Spec => []OutcomeHasNoLease
<1>1. SoleInv => OutcomeHasNoLease
  BY DEF SoleInv
<1> QED
  BY <1>1, SoleInvHolds, PTL

\* With one worker thread, every attempt of a job after the first is paid for
\* by a process end or a database call that raised.
THEOREM SoleWorkerRetries == ASSUME SoleWorker PROVE Spec => []RetriesHaveCauses
<1>1. SoleInv => RetriesHaveCauses
  BY DEF SoleInv
<1> QED
  BY <1>1, SoleInvHolds, PTL

\* With one worker thread, the outcome of a job stands: only the run that
\* recorded "done" can replace it, by "failed", and nothing else touches it.
THEOREM SoleWorkerOutcomeStands ==
  ASSUME SoleWorker
  PROVE  Spec => OutcomeStands
<1> DEFINE Stands ==
      \A j \in Jobs :
        Terminal(j) =>
          \/ status'[j] = status[j]
          \/ /\ status[j] = "done" /\ status'[j] = "failed"
             /\ \E w \in Workers : cur[w] = j /\ pc[w] = "registering"
<1>1. TypeOK /\ SoleInv /\ [Next]_vars => [Stands]_vars
  <2> SUFFICES ASSUME TypeOK, SoleInv, Next PROVE Stands
    OBVIOUS
  <2> USE DEF TypeOK, Terminal
  <2>1. ASSUME NEW j \in Jobs, Enqueue(j) \/ LeaseExpires(j) PROVE Stands
    BY <2>1 DEF Enqueue, LeaseExpires
  <2>2. ASSUME NEW w \in Workers, Claim(w) PROVE Stands
    BY <2>2 DEF Claim, ClaimNextJob, Oldest, Claimable
  <2>3. ASSUME NEW w \in Workers,
               \/ FinishCopy(w) \/ FinishIndexed(w) \/ RunFails(w)
               \/ TimesOut(w)
        PROVE  Stands
    BY <2>3 DEF FinishCopy, FinishIndexed, RunFails, TimesOut, CompleteJob,
                SoleInv, RunHasJob, RunOwnsItsJob
  <2>4. ASSUME NEW w \in Workers, RegisterFails(w) PROVE Stands
    BY <2>4 DEF RegisterFails, CompleteJob, SoleInv, RunHasJob, RunOwnsItsJob
  <2>5. ASSUME NEW w \in Workers,
               \/ Start(w) \/ Heartbeat(w) \/ Register(w) \/ Stop(w)
               \/ LeaveLoop(w) \/ ExitStopped(w) \/ Kill(w) \/ ClaimRaises(w)
               \/ ThreadDies(w) \/ HeartbeatDies(w) \/ TimesOutUnrecorded(w)
        PROVE  Stands
    BY <2>5 DEF Start, Heartbeat, HeartbeatJob, Register, Stop, LeaveLoop,
          ExitStopped, Kill, Exit, ClaimRaises, ThreadDies, HeartbeatDies,
          TimesOutUnrecorded, queueVars
  <2> QED
    BY <2>1, <2>2, <2>3, <2>4, <2>5, NextCases
<1> QED
  BY <1>1, TypeCorrect, SoleInvHolds, PTL DEF Spec, OutcomeStands
===============================================================================
