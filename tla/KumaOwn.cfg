SPECIFICATION Spec
CONSTANTS
    cam = cam
    nvr = nvr
    Keys = {cam, nvr}
    NoKey = NoKey
    Push = {}
    Rekeys <- CamMoves
    MaxMon = 4
    Budgets <- OwnScenarios
INVARIANTS
    OneOwner
    RecordedExists
CHECK_DEADLOCK FALSE
