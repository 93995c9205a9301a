SPECIFICATION Spec
CONSTANTS
  s1 = s1  m1 = m1  m2 = m2  w1 = w1  f1 = f1  i1 = i1  i2 = i2  r1 = r1
  Sessions = {s1}
  Messages = {}
  Workers = {}
  FollowUps = {}
  Injections = {i1}
  Resumes = {}
  Scheduled = {}
  Transient = {}
  NotifierWired = FALSE
  Target <- MCTarget
  Budget <- DeployBudget
CHECK_DEADLOCK FALSE
INVARIANT FailedMeansClosed
