SPECIFICATION FairSpec
CONSTANTS
  w1 = w1
  w2 = w2
  w3 = w3
  s1 = s1
  s2 = s2
  Workers = {w1, w2, w3}
  Submitters = {s1, s2}
  Width = 3
  MaxJobs = 2
  Sizes = {2}
  MaxDepth = 2
  MaxRegions = 2
  Modes <- AllModes
INVARIANTS
  ContextOutlivesHelpers
  NoWorkSleptOn
PROPERTIES
  ImplementsRegion
  EveryRegionReturns
CHECK_DEADLOCK FALSE
