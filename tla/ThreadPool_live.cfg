SPECIFICATION FairSpec
CONSTANTS
  Reqs = {r1, r2, r3}
  Workers = {w1, w2}
  MaxOthers = 1
  MaxExpiries = 0
  None = None
PROPERTIES
  EveryRequestFinishes
  IdleProgramEnds
  PromiseKept
