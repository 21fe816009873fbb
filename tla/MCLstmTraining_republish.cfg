SPECIFICATION OverlapSpec
CONSTANTS
  t1 = t1
  t2 = t2
  r1 = r1
  r2 = r2
  b1 = b1
  spy = spy
  Threads = {t1, t2}
  NoThread = NoThread
  Trainings = {r1}
  Backtests = {b1}
  NoRun = NoRun
  Ticker <- OneTicker
  Loads <- RepublishLoads
CHECK_DEADLOCK FALSE
INVARIANTS DeletionAuthoritative
