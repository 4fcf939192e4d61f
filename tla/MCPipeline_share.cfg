SPECIFICATION Spec
CONSTANTS
  d1 = d1
  d2 = d2
  d3 = d3
  Docs = {d1, d2, d3}
  Leaves = {l1}
  Owner <- TwoUsers
  Hash <- SameBook
  NoDoc = NoDoc
  Reprocessable = {d1, d2}
  Deletable = {d1}
  MaxJobs = 3
  MaxAttempts = 2
  MaxCrashes = 1
  MaxTimeouts = 0
INVARIANTS DoneIsSearchable EnrichedUnlessRewritten PdfKept
PROPERTIES DuplicatesAreCopies
CHECK_DEADLOCK FALSE
