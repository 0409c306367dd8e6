---------------------------- MODULE MCSiteTasks ----------------------------
(***************************************************************************)
(* Five parts of a site that run beside each other and share nothing:      *)
(* restarting a device, repairing the VPN, watching for DHCP servers,      *)
(* showing live video and the network diagram. They are checked together,  *)
(* each moving on its own.                                                 *)
(***************************************************************************)
EXTENDS RestartJob, VpnHeal, DhcpGuard, CamLive, Topology

CONSTANTS r, sw, cam, ap, mac, ip, isw, msw

VARIABLE task

vars == <<task, rvars, hvars, gvars, lvars, tvars>>

TwoRestarts == [start |-> 2, flaky |-> 1, power |-> 2]
BadDays     == [fault |-> 2, net |-> 1, wg |-> 1, fail |-> 1, crash |-> 1]
OneRogue    == [turn |-> 3, miss |-> 1, fail |-> 1, allow |-> 1, now |-> 1, off |-> 1, crash |-> 1]
ThreeViews  == [open |-> 3, die |-> 1, lost |-> 1, slow |-> 1, refuse |-> 1, fail |-> 1, stuck |-> 1]

NoEdits == [ask |-> 0, connect |-> 0, place |-> 0, replace |-> 0, clear |-> 0, box |-> 0,
            link |-> 0, sug |-> 0, seen |-> 0, move |-> 0, forget |-> 0, prune |-> 0, learn |-> 0]

\* Wires the readings prove, drawn, edited and removed.
WireEdits  == [NoEdits EXCEPT !.ask = 3, !.link = 2, !.sug = 1, !.learn = 1]
\* Boxes and groups, added, put between, replaced and deleted.
BoxEdits   == [NoEdits EXCEPT !.ask = 2, !.box = 2, !.connect = 1, !.place = 1, !.learn = 1]
TakeOvers  == [NoEdits EXCEPT !.ask = 3, !.box = 1, !.connect = 1, !.replace = 1, !.link = 1]
\* Devices that are forgotten, pruned or re-keyed while a request is under way.
ForgetsOne == [NoEdits EXCEPT !.ask = 3, !.connect = 1, !.clear = 1, !.forget = 1, !.link = 1]
PrunesOne  == [NoEdits EXCEPT !.ask = 2, !.connect = 1, !.clear = 1, !.prune = 1, !.seen = 1]
ReKeysOne  == [NoEdits EXCEPT !.ask = 3, !.connect = 1, !.place = 1, !.move = 1]
\* A switch known by its address, a wire of which is removed, gains its MAC.
ReKeysUnit == [NoEdits EXCEPT !.ask = 2, !.link = 1, !.seen = 1, !.move = 1]
Edits == {WireEdits, BoxEdits, TakeOvers, ForgetsOne, PrunesOne, ReKeysOne, ReKeysUnit}
\* The shortest way to a wire to a device that was forgotten.
JustForgotten == {[NoEdits EXCEPT !.ask = 1, !.forget = 1]}
\* What the switch has on its port: the camera, with a device not known by its MAC, or with a radio.
Table(us, ks) == [u \in Units |-> [p \in Ports |-> IF u \in us THEN ks ELSE {}]]
SomeTables == {Table({sw}, {cam}), Table({sw}, {cam, mac}), Table({sw}, {cam, ap}), Table({isw, msw}, {cam})}
IpMoves == {<<ip, mac>>, <<isw, msw>>}

AnyEdits  == CHOOSE edits \in TBudgets : TRUE
AnyTables == CHOOSE tables \in Tables : TRUE

Init ==
    /\ RInit /\ HInit /\ GInit /\ LInit /\ TInit
    /\ \/ task \in {"restart", "heal", "guard", "live"}
          /\ tleft = AnyEdits
          /\ learned = AnyTables
       \/ task = "diagram"

\* Only one of them moves.
Restarting == task = "restart" /\ UNCHANGED <<task, hvars, gvars, lvars, tvars>>
Healing == task = "heal" /\ UNCHANGED <<task, rvars, gvars, lvars, tvars>>
Guarding == task = "guard" /\ UNCHANGED <<task, rvars, hvars, lvars, tvars>>
Showing == task = "live" /\ UNCHANGED <<task, rvars, hvars, gvars, tvars>>
Drawing == task = "diagram" /\ UNCHANGED <<task, rvars, hvars, gvars, lvars>>

Suggested == Suggestions(doc, devices, learned)

Next ==
    \/ Restarting /\ \E j \in Restarts : Start(j)
    \/ Restarting /\ \E j \in Restarts : Test(j)
    \/ Restarting /\ \E j \in Restarts : Send(j)
    \/ Restarting /\ \E j \in Restarts : GiveUp(j)
    \/ Restarting /\ \E j \in Restarts : OnDone(j)
    \/ Restarting /\ \E j \in Restarts, reading \in BOOLEAN : Poll(j, reading)
    \/ Restarting /\ GoesDown
    \/ Restarting /\ ComesUp
    \/ Healing /\ \E works \in BOOLEAN : Step(works)
    \/ Healing /\ Beat
    \/ Healing /\ FaultComes
    \/ Healing /\ HubBack
    \/ Healing /\ NetTurns
    \/ Healing /\ WgTurns
    \/ Healing /\ HealCrash
    \/ Guarding /\ \E t \in Checkers : CheckBegin(t)
    \/ Guarding /\ \E t \in Checkers : Probe(t)
    \/ Guarding /\ \E t \in Checkers : ProbeFails(t)
    \/ Guarding /\ \E t \in Checkers : Track(t)
    \/ Guarding /\ \E m \in Servers : Allow(m)
    \/ Guarding /\ \E m \in Servers : Turn(m)
    \/ Guarding /\ AllowSave
    \/ Guarding /\ Switch
    \/ Guarding /\ GuardCrash
    \/ Showing /\ Answers
    \/ Showing /\ Replaces
    \/ Showing /\ Starts
    \/ Showing /\ NotStarted
    \/ Showing /\ Put
    \/ Showing /\ Added
    \/ Showing /\ NotAdded
    \/ Showing /\ Refused
    \/ Showing /\ RunsOut
    \/ Showing /\ IdleStop
    \/ Showing /\ Dies
    \/ Showing /\ \E n \in Names : Open(n)
    \/ Showing /\ \E n \in Names : ClosesStuck(n)
    \/ Showing /\ \E n \in Names : Play(n)
    \/ Showing /\ \E n \in Names : Sticks(n)
    \/ Showing /\ \E n \in Names : Ends(n)
    \/ Showing /\ \E n \in Names : Close(n)
    \/ Drawing /\ ReadInputs
    \/ Drawing /\ Draw
    \/ Drawing /\ PickOne
    \/ Drawing /\ PickAll
    \/ Drawing /\ AcceptPicked
    \/ Drawing /\ \E v \in Boxes, ks \in SUBSET MacKeys : InsertBox(v, ks)
    \/ Drawing /\ \E a, b \in Things : ConnectTwo(a, b)
    \/ Drawing /\ \E k \in Things, g \in Groups \cup {Nil} : Place(k, g)
    \/ Drawing /\ \E k \in Things : Hide(k)
    \/ Drawing /\ \E v \in Boxes, k \in Devices : TakeOver(v, k)
    \/ Drawing /\ ClearOrphans
    \/ Drawing /\ \E g \in Groups : AddGroup(g)
    \/ Drawing /\ \E g \in Groups : DropGroup(g)
    \/ Drawing /\ \E v \in Boxes, g \in Groups \cup {Nil} : AddBox(v, g)
    \/ Drawing /\ \E v \in Boxes : DropBox(v)
    \/ Drawing /\ \E i \in Lids : DropLink(i)
    \/ Drawing /\ \E i \in Lids : Swap(i)
    \/ Drawing /\ \E i \in Lids, p \in Ports : NamePort(i, p)
    \/ Drawing /\ \E s \in Suggested : Dismiss(s)
    \/ Drawing /\ \E s \in doc.dismissed : UndoDismiss({s})
    \/ Drawing /\ UndoDismiss(doc.dismissed)
    \/ Drawing /\ \E k \in Devices : Seen(k)
    \/ Drawing /\ \E m \in Moves : GainsMac(m[1], m[2])
    \/ Drawing /\ ScanEnds
    \/ Drawing /\ \E k \in Devices : ForgetBegins(k)
    \/ Drawing /\ ForgetEnds
    \/ Drawing /\ \E k \in Devices : PruneOne(k)
    \/ Drawing /\ \E t \in Tables : Learn(t)

Spec == Init /\ [][Next]_vars

\* The heartbeat's thread goes on; the other tasks owe nothing here.
FairSpec == Spec /\ WF_vars(Healing /\ Heartbeat)
=============================================================================
