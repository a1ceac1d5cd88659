SPECIFICATION FairSpec
CONSTANTS
  MaxRequests = 2
  MaxBuffer = 3
  Room <- Rooms
  Replies <- SomeReplies
  Faults = {"cut", "spurious"}
INVARIANTS OwnAnswer CopyExclusive NeverStarves QuietAtDeinit
PROPERTY RequestReturns
