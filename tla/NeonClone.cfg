\* Three targets, from the source or from one another, offsets 0 to 3.
SPECIFICATION Spec
CONSTANTS
  d0 = d0
  d1 = d1
  d2 = d2
  d3 = d3
  Dir = {d0, d1, d2, d3}
  Source = d0
  NumSk = 2
  Offset = {0, 1, 2, 3}
  BaseId = 1
  BaseHttp = 9898
  BasePg = 64000
  BaseXact = 10000
  BaseSkHttp <- MCSkHttp
  BaseSkPg <- MCSkPg
INVARIANTS EndedIsConsistent CloneIsShifted ClonesAreApart
CHECK_DEADLOCK FALSE
