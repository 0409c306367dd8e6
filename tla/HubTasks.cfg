SPECIFICATION HubSpec
CONSTANTS
    op1 = op1
    op2 = op2
    c = c
    recorder = recorder
    Pi = Pi
    Targets = {recorder}
    Operators = {op1, op2}
    Conns = {c}
    HubPorts = 1
    SitePorts = 2
    MaxOpen = 2
    MaxDown = 1
    Farms = {1, 2}
    Day = 4
    Gap = 1
    WifiGap = 2
    KBudgets <- Days
INVARIANTS
    DayWhole
PROPERTIES
    RightDevice
    EverythingCloses
CHECK_DEADLOCK FALSE
