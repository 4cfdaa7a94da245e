CONSTANTS
  Runners = {r1, r2}
  Directories <- MCDirectories
  Limits = {0, 1}
  MaxCalls = 3
  MaxCrashes = 1
SPECIFICATION FairSpec
INVARIANTS PlanIsCurrent
PROPERTIES ImplementsLog UpLeavesNothingPending CallReturns
CHECK_DEADLOCK FALSE
