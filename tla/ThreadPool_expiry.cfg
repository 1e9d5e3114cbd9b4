SPECIFICATION FairSpec
CONSTANTS
  Reqs = {r1, r2}
  Workers = {w1, w2}
  MaxOthers = 0
  MaxExpiries = 1
  None = None
PROPERTY EveryRequestFinishes
CHECK_DEADLOCK FALSE
