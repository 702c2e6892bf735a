SPECIFICATION Spec
CONSTANTS
  Jobs = {j1, j2}
  Codes = {c1, c2}
  NoCode = NoCode
  MaxAttempts = 2
  SendLimit = 1
  Window = 2
  TTL = 2
  MaxDelay = 1
  MaxNow = 4
SYMMETRY OtpSymmetry
INVARIANT TypeOK
INVARIANT CodeEndsOnce
INVARIANT AttemptBudget
INVARIANT SendsInWindow
INVARIANT AcceptedInTime
INVARIANT DeliveredIsNotRevoked
