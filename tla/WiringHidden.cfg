CONSTANTS
  Services <- MCServices
  Goroutines = {g1, g2}
  Registrations <- MCRegistrations
  KeyOrder <- MCKeyOrder
  Field <- MCField
  Lower <- MCLower
  Base <- MCBase
  Keywords <- MCKeywords
SPECIFICATION WiringSpec
INVARIANTS WrittenFileCompiles
CHECK_DEADLOCK FALSE
