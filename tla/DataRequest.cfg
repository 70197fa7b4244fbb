SPECIFICATION FairSpec
CONSTANTS
  MaxRequests = 2
  MaxBroadcasts = 1
  MaxFaults = 1
CHECK_DEADLOCK FALSE
INVARIANT EntriesMatchPromises
PROPERTIES CancelledStaysSilent SavesFulfilInOrder ThrottledMessagesGo EveryRequestSettles
