SPECIFICATION Spec
CONSTANTS
  r1 = r1
  r2 = r2
  r3 = r3
  Requests = {r1, r2, r3}
  Offline = {r3}
  Modes <- AheadOnly
INVARIANTS
  FailedRowsStop
CHECK_DEADLOCK FALSE
