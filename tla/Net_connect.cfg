SPECIFICATION Spec
CONSTANT MaxWrites = 1
INVARIANT ConnectMeansConnected
CHECK_DEADLOCK FALSE
