SPECIFICATION Spec
CONSTANTS
  Decoders = {d1, d2}
  None = None
  N = 2
  H = 2
  Calls = 3
  MaxJoins = 2
  MaxQueue = 1
  MaxEvents = 2
SYMMETRY Symmetry
INVARIANTS PacketsKept OwnAnswer Delivered Accounted
PROPERTY KeepsPool
CHECK_DEADLOCK FALSE
