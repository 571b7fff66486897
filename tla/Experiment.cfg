\* Four cases, two of them with equal metadata; a reload every second execution.
SPECIFICATION FairSpec
CONSTANTS
  Metadata = {"a", "b", "c"}
  Cases <- MCCases
  ReloadEvery = 2
  MaxErrors = 2
  MaxInterrupts = 2
INVARIANTS SavedDoneIsSkipped DoneHasReturned ExecutesOnLoaded ReloadOnTime SavedPoint
PROPERTIES Completes
