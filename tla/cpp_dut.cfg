SPECIFICATION DutSpec
CONSTANTS
  MaxLineBytes = 1
  MaxChunk = 3
  MaxBytes = 6
  LongestCR = 1
  Connections = {c1, c2}
  Options <- EveryFault
  MaxRequests = 3
INVARIANTS
  ChunkingIsInvisible SameAnswers BufferBounded
  NothingOutlivesReturn FaultFiresOnRequestN KilledOnlyByFault
PROPERTIES HalfCloseDrains StopIsHonoured
CHECK_DEADLOCK FALSE
