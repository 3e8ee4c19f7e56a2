CONSTANTS
    t1 = t1
    t2 = t2
    m1 = m1
    q1 = q1
    NoTarget = NoTarget
    NoEvent = NoEvent
    Inputs <- SomeInputs
    Concern = "security_concern"
    Models = {m1}
    Ready = {m1}
    Queues = {q1}
    Threads = {t1, t2}
    MinCases = 2
    MaxCalls = 4
    MaxFeedback = 3
    MaxCrashes = 1
SPECIFICATION Spec
SYMMETRY ThreadSymmetry
INVARIANTS ToldNotUndone ToldIsRecorded
PROPERTY ConcernBlocks
CHECK_DEADLOCK FALSE
