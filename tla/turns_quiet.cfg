SPECIFICATION Spec
CONSTANTS
  s1 = s1  m1 = m1  m2 = m2  w1 = w1  f1 = f1  i1 = i1  i2 = i2  r1 = r1
  Sessions = {s1}
  Messages = {m1}
  Workers = {w1}
  FollowUps = {}
  Injections = {i1}
  Resumes = {}
  Scheduled = {}
  Transient = {}
  NotifierWired = FALSE
  Target <- MCTarget
  Budget <- QuietBudget
CHECK_DEADLOCK FALSE
INVARIANT PendingIsHeld QueuedOnce QueueIsDriven NoTurnWhileForking TurnHoldsLock CommittedIsQuiet NoGateCycle
