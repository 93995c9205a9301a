SPECIFICATION Spec
CONSTANTS
    Boards = {"home", "lab"}
    Shas = {"s1", "s2"}
    Asks <- TwoBoards
    Switches = 2
    Works = {"w1"}
    Broken = {}
    Era = FALSE
    Faults = 1
INVARIANTS TypeOK ReleaseRowsAgree LiveIsServed
PROPERTIES RestoreLosesNothing SpawnedSettles
CHECK_DEADLOCK FALSE
