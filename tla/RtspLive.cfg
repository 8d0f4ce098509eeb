CONSTANTS
  Callers = {c1}
  NoCaller = NoCaller
  Modes = {TRUE, FALSE}
  Codes = {"ok", "refused", "continue"}
  MaxCSeq = 2
  MaxAnnounce = 1
  MaxContinue = 2
SPECIFICATION FairSpec

PROPERTIES CallsReturn FreedIsReclaimed
CHECK_DEADLOCK FALSE
