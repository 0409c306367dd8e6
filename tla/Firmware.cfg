SPECIFICATION FairSpec
CONSTANTS
    a = a
    b = b
    here = here
    Sites = {here}
    Devs = {a, b}
    SiteOf <- OneSite
    Files = {1, 2}
    Ver <- TwoBuilds
    None = None
    Pieces = 2
    MaxMiss = 1
    Rotten = {}
    Budgets <- UpdateBudgets
INVARIANTS
    OneAtATime
PROPERTIES
    VerdictTrue
    UpdateEnds
CHECK_DEADLOCK FALSE
