SPECIFICATION Spec
CONSTANTS
    e1 = e1
    e2 = e2
    r1 = r1
    r2 = r2
    f1 = f1
    f2 = f2
    Reviewers = {t1,t2}
    Analyses = {a1,a2}
    Edges = {e1, e2}
    Revisions = {r1, r2}
    Candidates <- MCCandidates
    Fixes = {f1, f2}
    Names <- MCNames
    BadFix = BadFix
    NoEdge = NoEdge
    NoRev = NoRev
    NoFix = NoFix
    NoDecision = NoDecision
    Requests <- MCRequests
    MaxRequests = 3
    MaxRuns = 2
SYMMETRY MCThreads
CHECK_DEADLOCK FALSE
INVARIANTS VersionTracksDecision ApprovedEdgePresent
PROPERTIES PromiseKept OnlyStagingReopens FreshKeyPerCommit
