SPECIFICATION DashboardSpec
CONSTANTS
    r = r
    a = a
    t = t
    i = i
    tr = tr
    ar = ar
    ta = ta
    ir = ir
    Nodes <- MCNodes
    Type <- MCType
    Critical = {r}
    Changed = {t}
    Links = {tr, ar, ir}
    From <- MCFrom
    To <- MCTo
    Relation <- MCRelation
    Readers = {g1}
    Order <- MCOrder
    Limits <- MCLimits
    MaxShown = 4
    Starts = {{ar}}
    Freshness = {"fresh", "failed"}
    Triages = {"resolved"}
    MaxRuns = 2
    MaxEdits = 1
    MaxTriages = 1
    MaxFeedback = 2
    MaxCrashes = 1
CHECK_DEADLOCK FALSE
INVARIANTS HealthyIsQuiet QueueFollowsTriage ProposalHasLink LinksAccounted VerifyingHelps
