SPECIFICATION Spec
CONSTANTS
    cam = cam
    nvr = nvr
    Keys = {cam, nvr}
    NoKey = NoKey
    Push = {}
    Rekeys <- CamMoves
    MaxMon = 4
    Budgets <- OrphanScenarios
INVARIANTS
    NoOrphans
CHECK_DEADLOCK FALSE
