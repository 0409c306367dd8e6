SPECIFICATION FairSpec
CONSTANTS
    freq = freq
    power = power
    v1 = v1
    v2 = v2
    Keys = {freq, power}
    Vals = {v1, v2}
    KeyOf <- KeyOfFix
    RadioKinds <- SomeRadios
    Good = v1
    Peers = 2
    None = None
    Budgets <- FixBudgets
INVARIANTS
    KeptWasLive
    StalePlanRefused
PROPERTIES
    VerdictIsOwn
    ImplementsSafeChange
    NeverStranded
CHECK_DEADLOCK FALSE
