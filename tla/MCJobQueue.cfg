SPECIFICATION FairSpec
CONSTANTS
  Jobs = {j1, j2, j3}
  Workers = {w1}
  NoJob = NoJob
  MaxAttempts = 2
  MaxExits = 2
  MaxFaults = 2
INVARIANTS RetriesHaveCauses OutcomeHasNoLease RunOwnsItsJob
PROPERTIES OutcomeStands LifecycleSpec JobsSettleOrBlocked
CHECK_DEADLOCK FALSE
