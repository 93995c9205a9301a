SPECIFICATION Spec
CONSTANTS
  t1 = t1  t2 = t2  t3 = t3  b1 = b1  a1 = a1  shared = shared
  Tasks = {t1, t2, t3}
  Boards = {b1}
  Agents = {a1}
  BoardOf <- MCBoardOf
  Dir <- MCDir
  Seed <- MCFamily
  SeedDeps <- MCLinks
  HasOrigin = {t1}
  Attempts <- MCOnce
  MaxRunning = 2
  MaxPerAgent = 2
  MaxDepth = 2
  MaxOpen = 3
  MaxChildren = 1
  Faulty = {}
  Reflective <- MCJudged
  Budget <- GraphBudget
  Cost <- EachOne
CHECK_DEADLOCK FALSE
INVARIANT ClaimsHold
