SPECIFICATION Spec
INVARIANTS DroppedMeansAnswered
CHECK_DEADLOCK FALSE
