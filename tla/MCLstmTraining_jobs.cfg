SPECIFICATION BoundedSpec
CONSTANTS
  t1 = t1
  t2 = t2
  r1 = r1
  r2 = r2
  b1 = b1
  spy = spy
  Threads = {t1, t2}
  NoThread = NoThread
  Trainings = {r1, r2}
  Backtests = {b1}
  NoRun = NoRun
  Ticker <- OneTicker
  Loads <- EitherLoads
SYMMETRY Symmetry
CHECK_DEADLOCK FALSE
INVARIANTS OneTrainingPerTicker LockedNotDeleted SerialSafe
