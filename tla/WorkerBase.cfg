SPECIFICATION FairSpec
CONSTANTS
  high = high
  low1 = low1
  NoMessage = NoMessage
  Messages = {high, low1}
  Priority <- MCPriority
  Runners = {r1, r2}
  Prefetch = 1
  MaxFaults = 2
  MayStop = TRUE
CHECK_DEADLOCK FALSE
INVARIANTS OnePlace RepeatsOnlyAfterReturn NoConcurrentProcessing
PROPERTIES ImplementsQueue OvertakenOnlyByPrefetched EveryMessageSettles
