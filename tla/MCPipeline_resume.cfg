SPECIFICATION Spec
CONSTANTS
  d1 = d1
  d2 = d2
  d3 = d3
  Docs = {d1}
  Leaves = {l1}
  Owner <- SoleUser
  Hash <- SoleBook
  NoDoc = NoDoc
  Reprocessable = {}
  Deletable = {}
  MaxJobs = 1
  MaxAttempts = 3
  MaxCrashes = 1
  MaxTimeouts = 0
INVARIANTS EnrichmentKept
CHECK_DEADLOCK FALSE
