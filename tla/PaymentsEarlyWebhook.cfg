SPECIFICATION Spec
CONSTANTS
  Orders = {o1}
  NoOrder = NoOrder
  Claimants = {o1}
  Handlers = {h1}
  EarlyEvents = TRUE
  MaxCrashes = 0
CHECK_DEADLOCK FALSE
INVARIANT AckedCompletedIsTold
