SPECIFICATION FairSpec
CONSTANTS
  Plays = {p1}
  Users = {u1, u2}
  None = None
  MaxQueue = 1
  MaxBreaks = 1
PROPERTY ListedResumes
CHECK_DEADLOCK FALSE
