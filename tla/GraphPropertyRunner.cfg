SPECIFICATION FairSpec
CONSTANTS
  whole = whole
  one = one
  stream = stream
  plain = plain
  ignored = ignored
  NoMessage = NoMessage
  NoWork = NoWork
  NumWorkers = 2
  Messages = {whole, one}
  Properties = {stream, plain, ignored}
  Streaming = {stream}
  Scope <- MCScope
  Interested <- MCInterested
  ClosesEarly = {2}
  MaxFaults = 1
CHECK_DEADLOCK FALSE
INVARIANT TurnsAreSeparate
PROPERTIES HonestAck ReadersReleased MessagesSettle
