\* Three cases with the results of two regions each, on three threads.
SPECIFICATION FairSpec
CONSTANTS
  t1 = t1
  t2 = t2
  t3 = t3
  Tag = {t1, t2, t3}
  Regions = 2
  Workers = 3
  MaxFaults = 2
INVARIANTS JoinSeesAll NothingLeft
PROPERTIES JoinReturns
CHECK_DEADLOCK FALSE
