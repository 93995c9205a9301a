SPECIFICATION Spec
CONSTANTS
  s1 = s1  m1 = m1  m2 = m2  w1 = w1  f1 = f1  i1 = i1  i2 = i2  r1 = r1
  Sessions = {s1}
  Messages = {m1}
  Workers = {}
  FollowUps = {}
  Injections = {i1}
  Resumes = {r1}
  Scheduled = {}
  Transient = {s1}
  NotifierWired = TRUE
  Target <- MCTarget
  Budget <- WideBudget
CHECK_DEADLOCK FALSE
INVARIANT TypeOK DeliveredOnce
PROPERTY TerminalStays ImplementsOutbox
