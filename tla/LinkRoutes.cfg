SPECIFICATION FairSpec
CONSTANTS
  Domains = {home, sub}
  Home = home
  Omu = omu
  Links = {k1, k2, k3, k4, k5, k6}
  Clients = {c1}
  Sso = TRUE
  None = None
  MaxBreaks = 1
  MaxRefresh = 1
INVARIANTS ClosedIsListed OpenedIsUp LinksOwned ClockIsRight
PROPERTIES ClosedOpens
CHECK_DEADLOCK FALSE
