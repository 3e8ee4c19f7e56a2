CONSTANTS
    w1 = w1
    w2 = w2
    Workers = {w1, w2}
    NoOwner = NoOwner
    TTL = 3
    Interval = 2
    Skew = 1
    MaxDelay = 2
    MaxConfigures = 2
SPECIFICATION FairSpec

INVARIANTS LeaseExcludes
PROPERTIES LeaseRecovers
CHECK_DEADLOCK FALSE
