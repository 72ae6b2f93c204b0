SPECIFICATION FairSpec
CONSTANTS
  en = en
  fr = fr
  c1 = c1
  c2 = c2
  w1 = w1
  w2 = w2
  Conns = {c1, c2}
  Workers = {w1, w2}
  Langs <- TwoLangs
  DefaultLang = en
  LangOf <- TwoGroups
  ForkMayFail = FALSE
  Wants <- FrOrUnknown
  Slots = 1
  QPer = 1
  QDeadline = 1
  ServiceCap = 0
  LingerTicks = 1
  LingerMax = 1
  ClassifyTicks = 1
  PendingMax = 1
  QPollMax = 1
  FdLimit = 1
  MaxDeaths = 0
  MaxOverCap = 0
PROPERTIES
  EveryoneIsSettled
  ShutdownCompletes
