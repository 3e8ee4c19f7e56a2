CONSTANTS
    t1 = t1
    t2 = t2
    Threads = {t1, t2}
    decided = decided
    pruned = pruned
    Payloads = {decided}
    Pruned = pruned
    MaxKept = 1
    MaxRecords = 3
    MaxCrashes = 1
    NoEvent = NoEvent
SPECIFICATION Spec
INVARIANTS ToldKept
PROPERTIES PromiseKept PrunesNoMore
SYMMETRY Symmetry
CHECK_DEADLOCK FALSE
