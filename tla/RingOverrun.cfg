SPECIFICATION Spec
CONSTANTS
  NumSegs = 5
  SegSize = 2
  MaxWriteSize = 8
  MagicEmptySegment = 14
  MagicSkipSegment = 13
  Sizes = {1, 4}
  Backlog = 9
  MaxSent = 6
  NoPayload = NoPayload
PROPERTIES
  UnreadPreserved
CHECK_DEADLOCK FALSE
