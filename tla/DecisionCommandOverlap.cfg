CONSTANTS
    i1 = i1
    i2 = i2
    t1 = t1
    t2 = t2
    k1 = k1
    k2 = k2
    Items = {i1, i2}
    Threads = {t1, t2}
    Keys = {k1, k2}
    NoCommand = NoCommand
    NoItem = NoItem
    MaxCalls = 3
    MaxCrashes = 2
SPECIFICATION Spec
SYMMETRY Symmetry
INVARIANTS ToldIsAudited ToldApprovalHasEdge ToldIsStored OneFeedbackPerDecision
CHECK_DEADLOCK FALSE
