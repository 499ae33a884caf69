SPECIFICATION FairSpec
CONSTANTS
  r1 = r1
  r2 = r2
  h1 = h1
  a1 = a1
  e1 = e1
  e2 = e2
  Requests = {r1, r2}
  Handlers = {h1}
  Apps = {a1}
  Entries = {e1, e2}
  EngineFails = TRUE
  MayCancel = {r1}
  None = None
INVARIANTS InUseIsOpen NoOrphan
PROPERTIES AcquireReturns
CHECK_DEADLOCK FALSE
