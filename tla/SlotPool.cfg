SPECIFICATION Spec
CONSTANTS
  s1 = s1
  s2 = s2
  Rows = {s1, s2}
  Shapes <- AllShapes
  FirstSize = 2
  LaterSizes = {1}
  Chunk = 1
  PoolCap = 2
  SpareMax = 1
  Reserve = 1
  FirstCap = 1
  PlanRows = 2
  Budgets = {0, 1}
  Marks = 1
INVARIANTS
  CountIsExact
  RowsAreReady
SYMMETRY Symmetric
CHECK_DEADLOCK FALSE
