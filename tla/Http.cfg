SPECIFICATION FairSpec
CONSTANTS
  MaxRequests = 2
  MaxChunks = 2
  MaxTotal = 3
INVARIANTS IInv ResponsesInOrder DrainedMeansWritten ListsAreInOrder ClosedOnce
PROPERTIES ResponseLeaves CloseIsReported
CHECK_DEADLOCK FALSE
