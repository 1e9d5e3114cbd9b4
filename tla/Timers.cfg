SPECIFICATION FairSpec
CONSTANTS
  Timers = {t1, t2}
  Delays = {0, 1, 2}
  MaxTime = 3
  None = None
  Other = Other
INVARIANTS IInv NoDangling FiresOnce
PROPERTIES ClearedNeverFires LostOnlyWithoutFunction DueTimerFires
CHECK_DEADLOCK FALSE
