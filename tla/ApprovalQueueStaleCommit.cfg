SPECIFICATION Spec
CONSTANTS
    e1 = e1
    e2 = e2
    r1 = r1
    r2 = r2
    f1 = f1
    f2 = f2
    Reviewers = {t1}
    Analyses = {a1}
    Edges = {e1, e2}
    Revisions = {r1, r2}
    Candidates <- MCCandidates
    Fixes = {f1, f2}
    Names <- MCNames
    BadFix = BadFix
    NoEdge = NoEdge
    NoRev = NoRev
    NoFix = NoFix
    NoDecision = NoDecision
    Requests <- MCRequests
    MaxRequests = 2
    MaxRuns = 2
CHECK_DEADLOCK FALSE
PROPERTY StaleNotCommitted
