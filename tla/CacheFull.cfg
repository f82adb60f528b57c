SPECIFICATION FairSpec
CONSTANTS
    x = x
    y = y
    Rooms = {r1, r2}
    Tracks = {x, y}
    Long = {x}
    Size <- MCSize
    Budgets = {1, 2}
    Default = 1
    Goroutines = {g1, g2}
    MaxRequests = 3
    Nil = Nil
INVARIANTS
    CacheInv  PlanIsApplied ShowsLatest
PROPERTIES
    ReconcileEnds
CHECK_DEADLOCK FALSE
