SPECIFICATION TargetSpec
CONSTANTS
  t1 = t1
  t2 = t2
  p1 = p1
  p2 = p2
  s1 = s1
  s2 = s2
  c1 = c1
  k1 = k1
  Targets = {"cards"}
  Importers = {t1, t2}
  Nobody = Nobody
  Pages = {p1}
  Statements = {s1, s2}
  Csvs = {c1}
  Webpage = Webpage
  Days = {1, 2, 9}
  Keys = {k1}
  MaxOcc = 2
  MaxRows = 2
  MaxBundle = 2
  MaxImports = 3
  MaxFaults = 1
  Threads = {t1, t2}
  NoThread = NoThread
  BaseCooldown = 1
  MaxCooldown = 2
  Periods = 2
  Reopens = {3}
  MaxCalls = 3
  MaxNow = 1
  MaxToday = 4
SYMMETRY Symmetry
CHECK_DEADLOCK FALSE
INVARIANTS StatementsAddUp
