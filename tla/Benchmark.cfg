\* Two regions and the namespace "global"; two calls of any operation, for the
\* regions or for the global one.
SPECIFICATION FairSpec
CONSTANTS
  r1 = r1
  r2 = r2
  g = g
  Global = Global
  Region = {r1, r2}
  GlobalRegion = g
  Operations = {"create", "load", "sload", "execute", "delete"}
  Filters = {{r1, r2}, {g}}
  Attempts = 2
  MaxCalls = 2
  MaxFaults = 1
INVARIANTS StaleHasCause FullResult
PROPERTIES CallReturns
CHECK_DEADLOCK FALSE
