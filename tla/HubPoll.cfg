SPECIFICATION FairSpec
CONSTANTS
    Devs = {"d1"}
    Ips = {"i1", "i2"}
    Rogues = {"r1"}
    None = None
    OfflineAfter = 2
    Budgets <- PollBudgets
INVARIANTS
    OfflineTrue
    LastEditShown
PROPERTIES
    CatchesUp
CHECK_DEADLOCK FALSE
