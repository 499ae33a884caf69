SPECIFICATION Spec
CONSTANTS
  Cap = 3
  Codes = {103, 200, 404}
  Lengths = {0, 2, 5}
  WriteSizes = {0, 1, 2, 4}
  MaxBytes = 7
INVARIANTS
  
  BufferBounded
  StatusPreserved
  LengthMatches
CHECK_DEADLOCK FALSE
