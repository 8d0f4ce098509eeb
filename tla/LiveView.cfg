SPECIFICATION Spec
CONSTANTS
  Plays = {p1, p2}
  Users = {u1}
  None = None
  MaxQueue = 1
  MaxBreaks = 2
INVARIANTS RefsEnough HeldIsLive StoppedIsOff StoppedIsListed
CHECK_DEADLOCK FALSE
