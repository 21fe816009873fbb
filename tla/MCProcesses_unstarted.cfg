SPECIFICATION AnySpec
CONSTANTS
  p1 = p1
  p2 = p2
  NoProc = NoProc
  Procs = {p1, p2}
  Ops <- Operations
  MaxCalls = 2
  MaxBatch = 2
  MaxCrashes = 1
  c1 = c1
  c2 = c2
  c3 = c3
  q1 = q1
  q2 = q2
  Callers = {c1, c2, c3}
  Pools = {q1, q2}
  NoPool = NoPool
  MaxMaps = 3
  MaxDeaths = 2
  Second = 2
  Budgets = {1, 13}
  TermAt = 12
  KillAt = 10
  Grace = 2
  MaxSlow = 1
  MaxSkew = 6
  MaxErrors = 1
CHECK_DEADLOCK FALSE
INVARIANTS UnstartedFallsBack
