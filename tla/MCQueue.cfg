SPECIFICATION FairSpec
CONSTANTS
  j1 = j1
  j2 = j2
  w1 = w1
  w2 = w2
  s1 = s1
  s2 = s2
  Names = {"mail", "report"}
  Jobs <- TwoJobs
  NameOf <- TwoNames
  Workers = {w1, w2}
  Stoppers = {s1, s2}
  Buffer = 1
  MaxAttempts = 2
  Delayed = {1}
  Nil = Nil
INVARIANTS
  NoSendOnClosedChannel
  CountersAgree
  FateJustified
  CleanStopMeansDone
  LateStartsBounded
PROPERTIES
  ImplementsLedger
  StopReturns
  DrainCompletes
  AcceptedResolves
CHECK_DEADLOCK FALSE
