CONSTANTS
  Chains <- MCChains
  Statuses = {103, 200, 404}
  ErrorStatuses = {0, 422, 1000}
  MaxOps = 2
SPECIFICATION Spec
INVARIANTS OneAuthor FailureIsAnswered NoRenderingLoop LogMatchesAnswer HeadersOnEveryAnswer
CHECK_DEADLOCK FALSE
