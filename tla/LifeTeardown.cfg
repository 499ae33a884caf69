SPECIFICATION FairSpec
CONSTANTS
  Redialers = {r1, r2}
  Closers = {k1, k2}
  Min = 1
  Max = 3
  Interval = 2
  Expiry = 3
  MaxAttempts = 2
  MaxDials = 5
  MaxOutages = 1
  None = None
INVARIANTS
  NothingLeftOpen
  OpenIsOwned
  RegistrationKept
PROPERTY CloseReturns
CHECK_DEADLOCK FALSE
