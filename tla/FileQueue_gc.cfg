SPECIFICATION Spec
CONSTANTS
  Files = {f1}
  StdFiles = {}
  Dropped = {f1}
  Shared = Shared
  MaxActions = 2
  None = None
INVARIANT CompletionFindsFile
CHECK_DEADLOCK FALSE
