SPECIFICATION FairSpec
CONSTANTS
  web = web
  worker = worker
  Threads = {web, worker}
  Web = web
  Nobody = Nobody
  Latest = 2
  Statements <- TwoEach
  Altered = {1, 2}
  MaxPool = 1
  MaxExits = 0
  MaxFaults = 2

PROPERTIES WritersGetThrough
CHECK_DEADLOCK FALSE
