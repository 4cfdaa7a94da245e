SPECIFICATION FairSpec
INVARIANTS OneResponse
PROPERTIES NoWriteAfterReturn NeitherWaits
CHECK_DEADLOCK FALSE
