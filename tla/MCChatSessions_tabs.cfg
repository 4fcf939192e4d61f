SPECIFICATION FairSpec
CONSTANTS
  Tabs = {t1, t2}
  Questions = {q1, q2}
  NoQuestion = NoQuestion
  Old = Old
  MaxRequests = 3
  MaxBreaks = 1
  MaxFaults = 1
INVARIANTS DuplicatesHaveCauses LegacyKept
PROPERTIES DeletedTakesNothingNew TabsSettle
CHECK_DEADLOCK FALSE
