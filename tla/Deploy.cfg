\* Two regions, one of them the global region, and the namespace "global", over
\* clusters with any load balancers and any contexts; two runs.
SPECIFICATION FairSpec
CONSTANTS
  r1 = r1
  r2 = r2
  Global = Global
  None = None
  Listed = {r1, r2}
  GlobalRegion = r1
  Current = r1
  MaxRuns = 2
  MaxFaults = 2
INVARIANTS DnsIsComplete OneClusterPerRun NeonIsFresh NamespacesAreFresh
PROPERTIES RunEnds
CHECK_DEADLOCK FALSE
