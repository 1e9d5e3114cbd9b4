SPECIFICATION Spec
CONSTANTS
  Reqs = {r1, r2, r3, r4}
  Workers = {w1, w2}
  MaxOthers = 1
  MaxExpiries = 1
  None = None
SYMMETRY Symmetry
INVARIANTS
  IInv
  InOnePlace
  NeverSleepsOnResults
  LoopOutlivesRequests
  PipeHoldsOneByte
