SPECIFICATION FairSocketSpec
CONSTANTS
  Calls = {c1, c2}
  Timed = {c1}
  MayEnd = {c1, c2}
  NoCall = NoCall
INVARIANTS
  WatchdogEndsWithCall
  FrameAligned
PROPERTY CloseUnblocks
CHECK_DEADLOCK FALSE
