CONSTANTS
  Services <- MCServices
  Goroutines = {g1, g2}
  Registrations <- MCRegistrations
  KeyOrder <- MCKeyOrder
  Field <- MCField
  Lower <- MCLower
  Base <- MCBase
  Keywords <- MCKeywords
SPECIFICATION WiringSpec
INVARIANTS OneInstance WiredLikeContainer StaleFileNoticed
PROPERTIES ResolveReturns
CHECK_DEADLOCK FALSE
