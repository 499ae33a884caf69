SPECIFICATION StepSpec
CONSTANTS
  NumSegs = 6
  SegSize = 2
  MaxWriteSize = 8
  MagicEmptySegment = 14
  MagicSkipSegment = 13
  Sizes = {1, 3}
  Backlog = 2
  MaxSent = 6
  NoPayload = NoPayload
INVARIANTS
  HeadIsMessageStart
  CallsLookAtomic
PROPERTIES
  UnreadPreserved
  RingIsQueue
  EveryMessageReturned
CHECK_DEADLOCK FALSE
