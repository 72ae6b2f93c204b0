SPECIFICATION Spec
CONSTANTS
  en = en
  fr = fr
  c1 = c1
  c2 = c2
  c3 = c3
  w1 = w1
  Conns = {c1, c2, c3}
  Workers = {w1}
  Langs <- OneLang
  DefaultLang = en
  LangOf <- OneGroup
  ForkMayFail = FALSE
  Wants <- NoNames
  Slots = 1
  QPer = 1
  QDeadline = 1
  ServiceCap = 0
  LingerTicks = 1
  LingerMax = 1
  ClassifyTicks = 0
  PendingMax = 0
  QPollMax = 1
  FdLimit = 1
  MaxDeaths = 1
  MaxOverCap = 0
PROPERTIES
  LoopEndsOnlyWhenTold
SYMMETRY Symmetric
