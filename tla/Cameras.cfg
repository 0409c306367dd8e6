SPECIFICATION CamSpec
CONSTANTS
    a = a
    b = b
    Devs <- Two
    NDocs = 2
    Values = {0, 1, 2}
    Wanted = 1
    NoHolder = NoHolder
    Budgets <- JobBudgets
    Cameras <- SomeCameras
    Lenses = {1, 2}
    Parallel = 2
    PBudgets <- Looks
INVARIANTS
    ChangesAccounted
    
PROPERTIES
    EverythingEnds
CHECK_DEADLOCK FALSE
