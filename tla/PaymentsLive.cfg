SPECIFICATION FairSpec
CONSTANTS
  Orders = {o1}
  NoOrder = NoOrder
  Claimants = {o1}
  Handlers = {h1, h2}
  EarlyEvents = FALSE
  MaxCrashes = 1
CHECK_DEADLOCK FALSE
INVARIANT AckedCompletedIsTold
PROPERTY CompletedIsTold
PROPERTY RowCatchesUp
