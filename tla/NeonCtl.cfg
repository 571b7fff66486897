\* The global region and two more; six commands, two failures.
SPECIFICATION Spec
CONSTANTS
  None = None
  Empty = Empty
  NumRegions = 2
  MaxCommands = 6
  MaxFaults = 2
INVARIANTS NumberingIsShared RunningIsNamed OneServerPerRegion
CHECK_DEADLOCK FALSE
