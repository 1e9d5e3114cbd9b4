SPECIFICATION FairSpec
CONSTANTS
  Files = {"a", "b", "c"}
  Main = "a"
  Programs <- MCPrograms
  Faults <- MCFaults
  MaxDepth = 3
  MaxSubs = 2
INVARIANTS IInv SubsComeFirst ZeroMeansLoaded
PROPERTY MainIsLoaded
CHECK_DEADLOCK FALSE
