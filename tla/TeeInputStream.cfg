SPECIFICATION FairSpec
CONSTANTS
  Tees = {t1, t2, t3}
  BufferSize = 3
  SourceLen = 5
  HighBytes = {3}
  SourceMayFail = TRUE
CHECK_DEADLOCK FALSE
INVARIANT WindowHoldsUnreadBytes
PROPERTIES ImplementsStreams EveryReaderEnds LoopEnds
