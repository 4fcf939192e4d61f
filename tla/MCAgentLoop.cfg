SPECIFICATION FairSpec
CONSTANTS
  Files = {f1, f2}
  Queries = {q1, q2}
  MaxIterations = 8
  SearchLimit = 3
  ReadLimit = 2
  SynthesisLimit = 2
  MaxCalls = 2
INVARIANTS StateLimits NoRepetition
PROPERTIES RunEnds
CHECK_DEADLOCK FALSE
