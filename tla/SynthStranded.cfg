SPECIFICATION FairSpec
CONSTANTS
  c1 = c1
  c2 = c2
  c3 = c3
  warm = warm
  w1 = w1
  w2 = w2
  Conns = {c1, c2}
  WarmUps = {}
  Workers = {w1}
  ParkCap = 1
  MaxPending = 1
  MaxActive = 1
  HasDeadline = FALSE
  StartMayFail = FALSE
  EngineMayFail = TRUE
PROPERTIES
  QueuedAreRefused
CHECK_DEADLOCK FALSE
