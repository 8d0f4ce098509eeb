SPECIFICATION FairSpec
CONSTANTS
  beat = beat
  conn = conn
  Triggers = {beat, conn}
  Repeated = {beat}
  Period <- Periods
  Items = {i1, i2, i3}
  Reuse = TRUE
  None = None
CHECK_DEADLOCK FALSE
INVARIANT RegisteredIsKept
