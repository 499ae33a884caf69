SPECIFICATION FairSpec
CONSTANTS
  Dials = {d1, d2}
  Timed = {d1}
  MayCancel = {d2}
  Transports = {"shm", "memory", "socket"}
  Replies = {"good", "bad", "empty"}
  MaxCrashes = 1
  None = None
INVARIANTS
  NothingLeftBehind
  ReadyIsHandshaked
PROPERTY DialEnds
CHECK_DEADLOCK FALSE
