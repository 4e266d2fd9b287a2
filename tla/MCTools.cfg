SPECIFICATION MCSpec
CONSTANTS
  c1 = c1
  c2 = c2
  t1 = t1
  t2 = t2
  a1 = a1
  a2 = a2
  None = None
  Callers = {c1, c2}
  Tabs = {t1, t2}
  Observers = {c1}
  Inventories <- BothTabs
  CacheTTL = 1
  LeaseTTL = 2
  MaxTime = 1
  MaxScans = 2
  MaxWorld = 1
  Clients = {c1, c2}
  Nobody = Nobody
  Apps = {a1, a2}
  Tools <- MCNativeTools
  PageCallers = {c1, c2}
  PageTools <- MCPageTools
  NoSnapshot = None
  AppOf <- MCAppOf
  WindowIsFront = TRUE
  MaxMoves = 1
  MaxReads = 1
  MaxDoc = 1
  MaxPageReads = 1
INVARIANTS
  QueriesFresh
  NoCollateral
  ContentIsTarget
  StoresCurrent
PROPERTIES
  AnswersHonest
  InputProven
SYMMETRY Symmetry
