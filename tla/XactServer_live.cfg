\* Three participants, no failures.
SPECIFICATION FairSpec
CONSTANTS
  c = c
  s1 = s1
  s2 = s2
  err1 = err1
  None = None
  Node = {c, s1, s2}
  Coordinator = c
  Participants = {c, s1, s2}
  Reason = {err1}
  MaxFaults = 0
PROPERTIES
  EventuallyResolved
CHECK_DEADLOCK FALSE
