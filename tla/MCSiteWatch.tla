---------------------------- MODULE MCSiteWatch ----------------------------
(***************************************************************************)
(* Four parts of a site that share nothing here, each moving on its own:   *)
(* scans; the switch monitor; changes of a switch's ports; and the jobs    *)
(* that change the logins of a camera.                                     *)
(***************************************************************************)
EXTENDS ScanState, SwitchMon, SwitchPorts, CamLogins, TLC

CONSTANTS m1, m2, a1, a2, x, y, p1, p2

VARIABLE task

watchvars == <<task, vars, swvars, portvars, loginvars>>

Never == [k \in {"scan", "drop", "prune", "forget", "restart"} |-> 0]

\* Four scans are enough for a device to be seen, missed twice and seen again; three of
\* them with hosts that only answer ARP, with pruning, or with a forgetting and a restart.
Scenarios == {[Never EXCEPT !.scan = 4],
              [Never EXCEPT !.scan = 3, !.drop = 1],
              [Never EXCEPT !.scan = 3, !.prune = 1],
              [Never EXCEPT !.scan = 3, !.forget = 1, !.restart = 1]}

NoTurn == [k \in {"link", "answers", "online", "opted", "age", "save", "wait", "forget", "crash"} |-> 0]

\* A cable that is pulled and a switch that fails; logins that are saved and removed; a
\* switch that is forgotten, goes offline or is opted out.
SwScenarios == {[NoTurn EXCEPT !.link = 3, !.answers = 2, !.crash = 1, !.wait = 1],
                [NoTurn EXCEPT !.link = 2, !.save = 2, !.wait = 1, !.crash = 1],
                [NoTurn EXCEPT !.link = 2, !.forget = 1, !.online = 2, !.opted = 1, !.age = 1]}

\* Two requests that cross: with a lost answer and a moved cable, with a stop, with a reading
\* that has no table of MACs.
PortScenarios == {[ask |-> 2, lost |-> 1, crash |-> 0, move |-> 1, table |-> 0],
                  [ask |-> 2, lost |-> 0, crash |-> 1, move |-> 0, table |-> 1]}

NoEvent == [k \in {"job", "refuse", "lost", "save", "hand", "fix", "crash"} |-> 0]

\* Jobs with refused requests and lost answers, with somebody's own changes, and with a stop.
LoginScenarios == {[NoEvent EXCEPT !.job = 3, !.refuse = 2, !.lost = 1],
                   [NoEvent EXCEPT !.job = 3, !.refuse = 2, !.hand = 1, !.fix = 1],
                   [NoEvent EXCEPT !.job = 2, !.lost = 1, !.refuse = 1, !.save = 1, !.crash = 1],
                   [NoEvent EXCEPT !.job = 3, !.lost = 2, !.fix = 1]}

\* MACs and addresses are interchangeable among themselves.
Symmetric == Permutations({m1, m2}) \cup Permutations({a1, a2})

SameScan == left = [Never EXCEPT !.scan = 4]
SameSwitch == swleft = [NoTurn EXCEPT !.link = 2, !.save = 2, !.wait = 1, !.crash = 1]
SamePort == portleft = [ask |-> 2, lost |-> 1, crash |-> 0, move |-> 1, table |-> 0] /\ pi = 1 /\ driver = "field"
SameLogin == camleft = [NoEvent EXCEPT !.job = 3, !.lost = 2, !.fix = 1] /\ chan = p1

WatchInit ==
    /\ task \in {"scan", "monitor", "ports", "logins"}
    /\ Init /\ (task = "scan" \/ SameScan)
    /\ SwInit /\ (task = "monitor" \/ SameSwitch)
    /\ PortInit /\ (task = "ports" \/ SamePort)
    /\ LoginInit /\ (task = "logins" \/ SameLogin)

Scanning == task = "scan" /\ UNCHANGED <<task, swvars, portvars, loginvars>>
Monitoring == task = "monitor" /\ UNCHANGED <<task, vars, portvars, loginvars>>
Porting == task = "ports" /\ UNCHANGED <<task, vars, swvars, loginvars>>
LoggingIn == task = "logins" /\ UNCHANGED <<task, vars, swvars, portvars>>

WatchNext ==
    \/ Scanning /\ \E addresses \in (SUBSET IPs) \ {{}} : Begin(addresses)
    \/ Scanning /\ \E a \in IPs, m \in Macs \cup {None} : Sight(a, m)
    \/ Scanning /\ Gate
    \/ Scanning /\ Tally
    \/ Scanning /\ Log
    \/ Scanning /\ Baseline
    \/ Scanning /\ Publish
    \/ Scanning /\ \E k \in Keys : Forget(k)
    \/ Scanning /\ ForgetLive
    \/ Scanning /\ \E K \in SUBSET Keys : Prune(K)
    \/ Scanning /\ Restart
    \/ Monitoring /\ Skip
    \/ Monitoring /\ Hold
    \/ Monitoring /\ \E manual \in BOOLEAN : NoLogin(manual)
    \/ Monitoring /\ \E manual \in BOOLEAN : Read(manual)
    \/ Monitoring /\ Refuses
    \/ Monitoring /\ Unanswered
    \/ Monitoring /\ Reads
    \/ Monitoring /\ LogChanges
    \/ Monitoring /\ Persist
    \/ Monitoring /\ ShowProblems
    \/ Monitoring /\ Fire
    \/ Monitoring /\ SaveFired
    \/ Monitoring /\ Clear
    \/ Monitoring /\ SaveClear
    \/ Monitoring /\ \E f \in {"link", "answers", "online", "opted"} : Turn(f)
    \/ Monitoring /\ Ages
    \/ Monitoring /\ \E l \in {"none", "good", "bad"} : SaveSwitchLogin(l)
    \/ Monitoring /\ Quarter
    \/ Monitoring /\ SixHours
    \/ Monitoring /\ ForgetSwitch
    \/ Monitoring /\ RestartMon
    \/ Porting /\ \E w \in People, q \in Ports, f \in Fields, to, cycle \in BOOLEAN : Request(w, q, f, to, cycle)
    \/ Porting /\ \E w \in People : CheckPort(w)
    \/ Porting /\ \E w \in People : Look(w)
    \/ Porting /\ \E w \in People : PutPort(w)
    \/ Porting /\ \E w \in People : PutFails(w)
    \/ Porting /\ \E w \in People : CycleBack(w)
    \/ Porting /\ PortCrash
    \/ Porting /\ \E q \in Ports : MovePi(q)
    \/ LoggingIn /\ \E kind \in {"create", "remove"} : StartAccount(kind)
    \/ LoggingIn /\ \E p \in Passwords : StartPassword(p)
    \/ LoggingIn /\ ListUsers
    \/ LoggingIn /\ ListUnread
    \/ LoggingIn /\ PostUser
    \/ LoggingIn /\ PostRefused
    \/ LoggingIn /\ PostLost
    \/ LoggingIn /\ SetRights
    \/ LoggingIn /\ ProveLogin
    \/ LoggingIn /\ \E pc \in {"rights", "proof"} : AccountFails(pc)
    \/ LoggingIn /\ \E pc \in {"rights", "proof"} : AccountLost(pc)
    \/ LoggingIn /\ RightsDenied
    \/ LoggingIn /\ UndoUser
    \/ LoggingIn /\ UndoRefused
    \/ LoggingIn /\ UndoLost
    \/ LoggingIn /\ DeleteUser
    \/ LoggingIn /\ DeleteRefused
    \/ LoggingIn /\ DeleteLost
    \/ LoggingIn /\ SaveAccount
    \/ LoggingIn /\ SaveSlot
    \/ LoggingIn /\ PauseLock
    \/ LoggingIn /\ PauseRefused
    \/ LoggingIn /\ PauseLost
    \/ LoggingIn /\ WritePassword
    \/ LoggingIn /\ WriteRefused
    \/ LoggingIn /\ WriteDenied
    \/ LoggingIn /\ WriteLost
    \/ LoggingIn /\ TestNew
    \/ LoggingIn /\ TestLost
    \/ LoggingIn /\ SavePassword
    \/ LoggingIn /\ PutChannel
    \/ LoggingIn /\ ChannelFails
    \/ LoggingIn /\ RestoreLock
    \/ LoggingIn /\ RestoreFails
    \/ LoggingIn /\ FixLogin
    \/ LoggingIn /\ SaveAdmin
    \/ LoggingIn /\ RemoveByHand
    \/ LoggingIn /\ \E p \in Passwords : ChangeByHand(p)
    \/ LoggingIn /\ StopNetwatch

WatchSpec == WatchInit /\ [][WatchNext]_watchvars
=============================================================================
