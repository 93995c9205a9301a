SPECIFICATION Spec
CONSTANTS
  s1 = s1  m1 = m1  m2 = m2  w1 = w1  f1 = f1  i1 = i1  i2 = i2  r1 = r1
  Sessions = {s1}
  Messages = {m1, m2}
  Workers = {}
  FollowUps = {}
  Injections = {}
  Resumes = {}
  Scheduled = {}
  Transient = {}
  NotifierWired = TRUE
  Target <- MCTarget
  Budget <- Calm
CHECK_DEADLOCK FALSE
INVARIANT QueueIsDriven
