SPECIFICATION Spec
CONSTANTS
  Orders = {o1}
  NoOrder = NoOrder
  Claimants = {o1}
  Handlers = {h1, h2, h3}
  EarlyEvents = TRUE
  MaxCrashes = 1
CHECK_DEADLOCK FALSE
INVARIANT TypeOK
INVARIANT RowFollowsProvider
INVARIANT ToldOnlyWhenCompleted
INVARIANT ShownIsPersisted
PROPERTY LifecycleSafety
