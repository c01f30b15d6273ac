SPECIFICATION Spec
CONSTANTS
  MaxLineBytes = 1
  MaxChunk = 3
  MaxBytes = 4
  LongestCR = 4
INVARIANT BufferBounded
CHECK_DEADLOCK FALSE
