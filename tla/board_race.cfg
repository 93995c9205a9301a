SPECIFICATION Spec
CONSTANTS
  t1 = t1  t2 = t2  t3 = t3  b1 = b1  a1 = a1  shared = shared
  Tasks = {t1, t3}
  Boards = {b1}
  Agents = {a1}
  BoardOf <- MCBoardOf
  Dir <- MCDir
  Seed <- MCDraft
  SeedDeps = {}
  HasOrigin = {t1}
  Attempts <- MCTwice
  MaxRunning = 2
  MaxPerAgent = 2
  MaxDepth = 2
  MaxOpen = 2
  MaxChildren = 1
  Faulty <- Runs
  Reflective <- MCReflective
  Budget <- RaceBudget
  Cost <- EachOne
CHECK_DEADLOCK FALSE
INVARIANT TypeOK OwnerAgreement RecoveredRunsAreReported
PROPERTY ImplementsRunReports EveryRunEnds
