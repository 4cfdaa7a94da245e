CONSTANTS
  Files <- MCFiles
  MaxEdits = 3
SPECIFICATION DevFairSpec
INVARIANTS NoServerLeftBehind
PROPERTIES SessionSettles
CHECK_DEADLOCK FALSE
