CONSTANTS
  Callers = {c1, c2}
  NoCaller = NoCaller
  Modes = {TRUE, FALSE}
  Codes = {"ok", "refused", "continue"}
  MaxCSeq = 3
  MaxAnnounce = 1
  MaxContinue = 1
SPECIFICATION Spec
SYMMETRY CallerSymmetry
INVARIANTS OkIsGranted TokenBudget StatusAgrees MsgPinned FreedIsQuiet
PROPERTY FreedForGood
CHECK_DEADLOCK FALSE
