\* Three participants and a node that is none, up to four votes of any kind.
SPECIFICATION VotesSpec
CONSTANTS
  c = c
  s1 = s1
  s2 = s2
  other = other
  err1 = err1
  None = None
  Node = {c, s1, s2, other}
  Coordinator = c
  Participants = {c, s1, s2}
  Reason = {err1}
  MaxVotes = 4
INVARIANT FirstVoteDecides
PROPERTY DecisionIsFinal
SYMMETRY PeerSymmetry
CHECK_DEADLOCK FALSE
