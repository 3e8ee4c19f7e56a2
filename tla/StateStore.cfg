CONSTANTS
    w1 = w1
    w2 = w2
    w3 = w3
    event = event
    run = run
    x = x
    y = y
    events = events
    runs = runs
    Ledger = Ledger
    NoValue = NoValue
    Unwritten = Unwritten
    Workers = {w1, w2}
    Keys = {event, run}
    Deletable = {event}
    Values = {x, y}
    Tables <- MCTables
    TableOf <- MCTableOf
    MaxVersion = 3
    Creates <- MCCreates
    Drops <- MCCreates
SPECIFICATION Spec
SYMMETRY Symmetry
INVARIANTS SchemaWhole LedgerMirrored ConfirmedIsRead
