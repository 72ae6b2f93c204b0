SPECIFICATION Spec
CONSTANTS
  en = en
  fr = fr
  c1 = c1
  c2 = c2
  c3 = c3
  w1 = w1
  w2 = w2
  Conns = {c1, c2, c3}
  Workers = {w1, w2}
  Langs <- TwoLangs
  DefaultLang = en
  LangOf <- TwoGroups
  ForkMayFail = FALSE
  Wants <- FrOrUnknown
  Slots = 1
  QPer = 2
  QDeadline = 0
  ServiceCap = 0
  LingerTicks = 1
  LingerMax = 0
  ClassifyTicks = 1
  PendingMax = 1
  QPollMax = 2
  FdLimit = 9
  MaxDeaths = 0
  MaxOverCap = 0
INVARIANTS
  RightLanguage
PROPERTIES
  NoOvertaking
SYMMETRY Symmetric
