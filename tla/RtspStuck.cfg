CONSTANTS
  Callers = {c1}
  NoCaller = NoCaller
  Modes = {TRUE}
  Codes = {"ok", "refused"}
  MaxCSeq = 3
  MaxAnnounce = 1
  MaxContinue = 0
SPECIFICATION FairSpec

PROPERTY TimeoutEndsCall
CHECK_DEADLOCK FALSE
