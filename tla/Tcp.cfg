CONSTANTS
  N = 5
  Ignored = {4}
  Expecting = {2, 3, 5}
  UntilIdle = {3}
  MaxResults = 2
  MayGarble = TRUE
SPECIFICATION Spec
INVARIANT PromptAnswersAreOwn
INVARIANT AnswersOwnSoFar
PROPERTY ImplementsExchange
CHECK_DEADLOCK FALSE
