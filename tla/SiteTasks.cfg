SPECIFICATION FairSpec
CONSTANTS
    DownPolls = 4
    UpPolls = 4
    RBudget <- TwoRestarts
    After = 3
    Repeat = 4
    HBudget <- BadDays
    r = r
    sw = sw
    cam = cam
    ap = ap
    mac = mac
    ip = ip
    isw = isw
    msw = msw
    MacKeys = {sw, cam, ap, mac, msw}
    IpKeys = {ip, isw}
    Units = {sw, isw, msw}
    Net = {sw, ap, isw, msw}
    Ports = {p1}
    Boxes = {box}
    Groups = {tower}
    Nil = Nil
    UplinkMacs = 3
    MaxLinks = 3
    AtFirst = {sw, cam, ip}
    Moves <- IpMoves
    Tables <- SomeTables
    TBudgets <- Edits
    Servers = {r}
    GoneAfter = 2
    GBudget <- OneRogue
    MaxViews = 2
    LBudget <- ThreeViews
INVARIANTS
    RestartTrue
    LoginsGo
    
PROPERTIES
    DrawnAsAsked
    TunnelHealed
    GoneTrue
CHECK_DEADLOCK FALSE
