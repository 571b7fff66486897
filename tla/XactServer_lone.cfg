\* The coordinator is the only participant, no failures.
SPECIFICATION Spec
CONSTANTS
  c = c
  s1 = s1
  s2 = s2
  err1 = err1
  None = None
  Node = {c, s1, s2}
  Coordinator = c
  Participants = {c}
  Reason = {err1}
  MaxFaults = 0
INVARIANT LoneParticipantCommits
CHECK_DEADLOCK FALSE
