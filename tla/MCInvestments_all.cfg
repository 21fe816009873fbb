SPECIFICATION PartSpec
CONSTANTS
  t1 = t1
  t2 = t2
  r1 = r1
  r2 = r2
  e1 = e1
  Parts = {"ledger", "single", "rotation", "crps", "trades"}
  Threads = {t1, t2}
  NoThread = NoThread
  Statements = {r1, r2}
  Edits = {e1}
  NoItem = NoItem
  MaxRequests = 3
  MaxFaults = 1
  MaxPrices = 2
  MaxPrivate = 2
  Prices = {19, 20, 21}
  Payouts = {0, 1}
  Capital = 210
  Grids <- SmallGrids
  Step = 5
  MaxRows = 4
  RotationPrices = {2, 3}
  RotationPayouts = {0, 1}
  RotationCapital = 20
  Limits <- SmallLimits
  Drop = 3
  Rise = 5
  Window = 1
  MaxRotationRows = 4
  basis = basis
  poorer = poorer
  richer = richer
  NoKey = NoKey
  Keys = {poorer, basis, richer}
  Base = basis
  Rank <- Ranking
  PopulationSize = 2
  MaxBoard = 2
  Duration = 1
  Worlds <- SmallWorlds
  Exports <- SmallExports
  Original = Original
  MaxRuns = 3
  MaxKills = 2
  MaxElapsed = 2
SYMMETRY Symmetry
CHECK_DEADLOCK FALSE
INVARIANTS ImportSound ViewCurrent BooksAgree OrdersSafe TradesOnce RevisionsCaught OneCourse HonestSelection
PROPERTIES RefinesAtomicLedger NoLoss RotationArrives
