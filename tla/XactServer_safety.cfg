\* Three participants, two kinds of error, up to two failures anywhere.
SPECIFICATION Spec
CONSTANTS
  c = c
  s1 = s1
  s2 = s2
  err1 = err1
  err2 = err2
  None = None
  Node = {c, s1, s2}
  Coordinator = c
  Participants = {c, s1, s2}
  Reason = {err1, err2}
  MaxFaults = 2
INVARIANTS
  TypeOK
  SInv
  Agreement
  CommitIsPrepared
  RollbackHasCause
  ErrorsAreFaults
  ClientIsServed
PROPERTIES
  VoteOnce
  ImplementsAtomicCommit
SYMMETRY SurrogateSymmetry
CHECK_DEADLOCK FALSE
