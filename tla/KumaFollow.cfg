SPECIFICATION FairSpec
CONSTANTS
    cam = cam
    nvr = nvr
    Keys = {cam, nvr}
    NoKey = NoKey
    Push = {nvr}
    Rekeys <- CamMoves
    MaxMon = 6
    Budgets <- FollowScenarios
INVARIANTS
    QueueHasWorker
    StaleTaskRequeued
    NoSecondMonitor
PROPERTIES
    SwitchFollowed
CHECK_DEADLOCK FALSE
