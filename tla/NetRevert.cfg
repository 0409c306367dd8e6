SPECIFICATION FairSpec
CONSTANTS
    o1 = o1
    o2 = o2
    a1 = a1
    a2 = a2
    eth0 = eth0
    wlan0 = wlan0
    Cons = {eth0, wlan0}
    Addrs = {a1, a2}
    Dhcp = Dhcp
    None = None
    Ops = {o1, o2}
    MaxChanges = 2
    Budgets <- Scenarios
INVARIANTS
    OneArmed
    ConfirmedStays
PROPERTIES
    PendingResolved
CHECK_DEADLOCK FALSE
