CONSTANTS
  MaxCalls = 2
  MaxJobs = 1
SPECIFICATION FairSpec
INVARIANTS WhatIsLeftIsReported DependenciesCloseLast NoHookSkipped NoRouteIgnored OnlyRestartCrashes
PROPERTIES ServeReturns
CHECK_DEADLOCK FALSE
