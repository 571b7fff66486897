\* Two nodes, both of which submit; two transactions; three failures.
SPECIFICATION Spec
CONSTANTS
  n1 = n1
  n2 = n2
  x1 = x1
  x2 = x2
  None = None
  Node = {n1, n2}
  Xact = {x1, x2}
  MaxFaults = 3
INVARIANTS AgreementUnlessReused CommitIsOfThisXact ChannelHasRoom
SYMMETRY XactSymmetry
CHECK_DEADLOCK FALSE
