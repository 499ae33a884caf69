SPECIFICATION DeadlineSpec
CONSTANTS
  Senders = {s1, s2}
  Receivers = {r1, r2}
  RingSize = 1
  Echo = 2
  MayEnd = {s1, s2, r1, r2}
  None = None
INVARIANT EchoConsumedOnce
PROPERTIES
  NoUseAfterUnmap
  DeadlineEndsAll
CHECK_DEADLOCK FALSE
