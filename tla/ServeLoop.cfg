SPECIFICATION FairSpec
CONSTANTS
  r1 = r1
  r2 = r2
  r3 = r3
  Requests = {r1, r2, r3}
  Offline = {r3}
  Modes <- AllModes
INVARIANTS
  InFlightIsResident
  SoundIsWhole
PROPERTIES
  ImplementsPromise
  ServiceDrains
CHECK_DEADLOCK FALSE
