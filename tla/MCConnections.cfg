SPECIFICATION FairSpec
CONSTANTS
  web = web
  worker = worker
  Threads = {web, worker}
  Web = web
  Nobody = Nobody
  Latest = 2
  Statements <- TwoEach
  Altered = {1, 2}
  MaxPool = 2
  MaxExits = 2
  MaxFaults = 2
INVARIANTS VersionHonest UsersSeeSchema
PROPERTIES RetrySafe NobodyWaitsForEver
CHECK_DEADLOCK FALSE
