SPECIFICATION Spec
CONSTANTS
  Base = 12
  MaxInt = 2147483647
  Sources <- MCSources
  Requests <- MCRequests
  BodyErrors = {TRUE, FALSE}
  Verdicts <- MCVerdicts
  MaxOutages = 2
INVARIANTS
  CondemnedIsBlocked
  UninspectedOnlyIfOpen
  OriginalBytes
  InspectedIsSent
  ServesWhatIsConfigured
CHECK_DEADLOCK FALSE
