SPECIFICATION GateSpec
CONSTANTS
  Guests = {g1}
  LineUsers = {u1}
  Network = net
  Nobody = nobody
  Callers = {c1, c2}
  Texts = {t1, t2}
  Stuffed = {t2}
  Limit <- LimitsLow
  Window <- WindowsShort
  StrikeWindow = 3
  BanTicks <- BansShort
  SameTextLimit = 2
  SameTextWindow = 2
  MaxSessions = 1
  SessionTtl = 2
  SessionMaxAge = 3
  SessionTouch = 1
  EarlierStrikes = 2
  Mixes <- Channels
  Horizon = 2
  MaxArrivals = 3
  MaxFaults = 1
INVARIANTS
  WindowsHold
  BansAreEarned
SYMMETRY Symmetry
CHECK_DEADLOCK FALSE
