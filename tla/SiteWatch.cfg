SPECIFICATION WatchSpec
CONSTANTS
    m1 = m1
    m2 = m2
    a1 = a1
    a2 = a2
    Macs = {m1, m2}
    IPs = {a1, a2}
    None = None
    OfflineAfter = 2
    Budgets <- Scenarios
    x = x
    y = y
    p1 = p1
    p2 = p2
    Passwords = {p1, p2}
    OwnPassword = OwnPassword
    NoPassword = NoPassword
    LoginBudgets <- LoginScenarios
    People = {x, y}
    Ports = {1, 2}
    SwBudgets <- SwScenarios
    PortBudgets <- PortScenarios
SYMMETRY Symmetric
INVARIANTS
    NoPhantom
    NewIsAnnounced
    ToldTrue
    LogTrue
    PiReachable
    Accounted
PROPERTIES
    OnlineAfterOffline
    ListedUntilForgotten
CHECK_DEADLOCK FALSE
