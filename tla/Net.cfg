SPECIFICATION FairSpec
CONSTANT MaxWrites = 3
INVARIANTS IInv NothingLeft
PROPERTIES KeptSocketIsSafe OnlyCloseDropsData ConnectIsAnswered EndedIsReleased
CHECK_DEADLOCK FALSE
