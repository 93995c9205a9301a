SPECIFICATION Spec
CONSTANTS
    Sessions = {u1, u2, f1}
    Users = {u1, u2}
    NoSkill = NoSkill
    Candidates = {c1, c2}
    Reviewers = {r1, r2}
    Asking = {q1, q2}
    MaxRequests = 2
    MaxCrashes = 1
    MaxRecovery = 1
    MaxRetries = 1
    MaxParks = 1
    MaxProbes = 1
SYMMETRY Symmetry
CONSTRAINT Apart
INVARIANTS AskedOnce ParkingEnds TokensRotate ForksAreWhole SkillsAreLanded QuestionsAreAnswered
PROPERTY HistoryIsHandedOver
CHECK_DEADLOCK FALSE
