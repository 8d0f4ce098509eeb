CONSTANTS
  Cap = 7
  Prefix = 2
  Mark = 3
  Sizes = {3, 5}
  MaxFrames = 3
SPECIFICATION FairSpec
INVARIANTS InOrder FramesUntilData
PROPERTY AllHandedOn
CHECK_DEADLOCK FALSE
