SPECIFICATION FairSpec
CONSTANTS
  beat = beat
  conn = conn
  Triggers = {beat, conn}
  Repeated = {beat}
  Period <- Periods
  Items = {i1, i2, i3}
  Reuse = TRUE
  None = None
INVARIANTS Cancellable NeverTwice
PROPERTIES KeepsPromise DueFires
CHECK_DEADLOCK FALSE
