SPECIFICATION Spec
CONSTANTS
  en = en
  fr = fr
  c1 = c1
  c2 = c2
  c3 = c3
  w1 = w1
  w2 = w2
  Conns = {c1, c2, c3}
  Workers = {w1, w2}
  Langs <- OneLang
  DefaultLang = en
  LangOf <- OneGroup
  ForkMayFail = TRUE
  Wants <- NoNames
  Slots = 2
  QPer = 1
  QDeadline = 1
  ServiceCap = 2
  LingerTicks = 1
  LingerMax = 1
  ClassifyTicks = 0
  PendingMax = 0
  QPollMax = 1
  FdLimit = 9
  MaxDeaths = 1
  MaxOverCap = 1
INVARIANTS
  TypeOK
  OneOwner
  ActiveIsInFlight
  NoNeedlessWait
PROPERTIES
  NoFalseAlarm
  ImplementsPromise
SYMMETRY Symmetric
