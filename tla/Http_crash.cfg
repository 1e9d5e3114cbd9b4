SPECIFICATION Spec
CONSTANTS
  MaxRequests = 1
  MaxChunks = 1
  MaxTotal = 1
INVARIANT ConnectionDeletesItsRequests
CHECK_DEADLOCK FALSE
