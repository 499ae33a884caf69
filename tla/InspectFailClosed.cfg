SPECIFICATION Spec
CONSTANTS
  Base = 12
  MaxInt = 2147483647
  Sources <- MCFailClosed
  Requests <- MCRequests
  BodyErrors = {FALSE}
  Verdicts <- MCVerdicts
  MaxOutages = 1
INVARIANT FailClosedHolds
CHECK_DEADLOCK FALSE
