SPECIFICATION FairSpec
CONSTANTS
  d1 = d1
  d2 = d2
  d3 = d3
  Docs = {d1}
  Leaves = {l1, l2}
  Owner <- SoleUser
  Hash <- SoleBook
  NoDoc = NoDoc
  Reprocessable = {d1}
  Deletable = {d1}
  MaxJobs = 2
  MaxAttempts = 3
  MaxCrashes = 2
  MaxTimeouts = 1
INVARIANTS DoneIsSearchable NoDuplicateRows UnfinishedHasJob
PROPERTIES DocsSettle
CHECK_DEADLOCK FALSE
