CONSTANTS
    base = base
    variant = variant
    n1 = n1
    n2 = n2
    l1 = l1
    l2 = l2
    f1 = f1
    r1 = r1
    r2 = r2
    Scenarios = {base, variant}
    Nodes = {n1, n2}
    Links = {l1, l2}
    Findings = {f1}
    RunIds = {r1, r2}
    NodesOf <- MCNodesOf
    LinksOf <- MCLinksOf
    FindingsOf <- MCFindingsOf
    Source <- MCSource
    Threads = {t1, t2}
    t1 = t1
    t2 = t2
    Triages = {"resolved"}
    NoRun = NoRun
    NoScenario = NoScenario
    NoFinding = NoFinding
    MaxCalls = 3
    MaxCrashes = 1
SPECIFICATION Spec
SYMMETRY Symmetry
INVARIANTS ToldRunStored StoredRunEnded RunningIsRun TriageStands EdgesClosed
CHECK_DEADLOCK FALSE
