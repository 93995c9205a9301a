SPECIFICATION Spec
CONSTANTS
    root = root
    k1 = k1
    k2 = k2
    Root = root
    Kids = {k1, k2}
    AgentOf <- MCAgentOf
    DepthCap = 2
    MaxRound = 2
    Commands = {c1}
    Jobs = {j1}
    MaxJobs = 1
    Budget = 15
    RequestCost = 4
    WorkCost = 5
    FaultCost = 3
SYMMETRY MCSymmetry
INVARIANTS TypeOK ReplyIsTrue RunningIsHeld EndsAreTold
PROPERTY RecoveryIsComplete
CHECK_DEADLOCK FALSE
