SPECIFICATION FairSpec
CONSTANTS
  w1 = w1
  w2 = w2
  s1 = s1
  s2 = s2
  Workers = {w1, w2}
  Submitters = {s1, s2}
  MaxRows = 3
  Sizes = {2, 3}
  MinChunk = 2
  Limit = 7
  Gens = 1
  MaxRegions = 2
INVARIANTS
  RowsRunOnce
  NoneLeftAsleep
PROPERTIES
  ImplementsRegion
  EveryRegionReturns
