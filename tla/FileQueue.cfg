SPECIFICATION FairSpec
CONSTANTS
  Files = {f1}
  StdFiles = {}
  Dropped = {f1}
  Shared = Shared
  MaxActions = 3
  None = None
INVARIANTS
  IInv
  InFlightIsHead
  StallsOnlyIfRefused
PROPERTIES
  InOrder
  EveryActionCompletes
CHECK_DEADLOCK FALSE
