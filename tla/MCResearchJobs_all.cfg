SPECIFICATION KindSpec
CONSTANTS
  p1 = p1
  p2 = p2
  base = base
  better = better
  NoProc = NoProc
  NoKey = NoKey
  Procs = {p1, p2}
  Keys = {base, better}
  Base = base
  Rank <- Ranking
  Robust <- Ranking
  MaxBoard = 1
  MaxFinalists = 2
  MaxMarket = 2
  MaxRuns = 2
  MaxKills = 1
  t1 = t1
  t2 = t2
  r1 = r1
  r2 = r2
  NoThread = NoThread
  NoRun = NoRun
  Threads = {t1, t2}
  Runs = {r1, r2}
  MaxRequests = 3
  MaxWorkerKills = 1
  MaxServerCrashes = 1
  MaxProbeFailures = 0
CHECK_DEADLOCK FALSE
INVARIANTS CheckpointLogged ResumeGoesOn CompletedSelection
INVARIANTS OneTraining RunningNotDeleted StoppedWorkerIsGone ExitRecorded
PROPERTIES BestKept RunEnds CompletionKept StopHonoured
