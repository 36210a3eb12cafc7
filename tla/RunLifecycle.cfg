SPECIFICATION FairSpec
CONSTANTS
  h1 = h1
  h2 = h2
  Jobs = {1, 2}
  Handlers = {h1, h2}
  Watched = 1
  Requests = {1}
  QueueLimit = 1
  Size = 2
  MaxUnderstanding = 2
  MaxRefinement = 2
  MaxReplays = 1
INVARIANTS
  SuccessIsEarned
  FailureIsExplained
  RequestsAccounted
  OneProcess
  SuccessShownIsDelivered
PROPERTIES
  RunEnds
