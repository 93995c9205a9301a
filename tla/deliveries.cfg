SPECIFICATION Spec
CONSTANTS
  Starts <- DirtyOrLegacy
  MaxCalls = 4
  Width = 2
  MaxOps = 3
  MaxCommits = 1
  Faults = 1
CHECK_DEADLOCK FALSE
INVARIANT TypeOK StatusIsHonest SettleIsTold
PROPERTY WorkIsKept
