--------------------------- MODULE HubTasks_proofs ---------------------------
(***************************************************************************)
(* Proofs about the hub's device tunnels, for every number of operators,   *)
(* devices, connections, ports, requests and restarts; and about a day of  *)
(* its time keeping, for every number of farms, marks, edits, typed        *)
(* entries, buttons and builds, and every length of the day and its gaps.  *)
(***************************************************************************)
EXTENDS Tunnels, TimeKeeping, FiniteSetTheorems, WellFoundedInduction, TLAPS

LEMMA LeastOne == ASSUME NEW S, S \subseteq Nat, S # {} PROVE \E m \in S : \A n \in S : m <= n
<1> DEFINE Less == {p \in Nat \X Nat : p[1] < p[2]}
<1>1. IsWellFoundedOn(Less, Nat)
  BY NatLessThanWellFounded DEF OpToRel
<1>2. PICK m \in S : \A n \in S : ~ (<<n, m>> \in Less)
  <2> HIDE DEF Less
  <2> QED BY <1>1, WFMin
<1>3. ASSUME NEW n \in S PROVE ~ (n < m)
  <2>1. <<n, m>> \in Nat \X Nat /\ <<n, m>>[1] = n /\ <<n, m>>[2] = m
    OBVIOUS
  <2> QED BY <1>2, <2>1
<1> QED BY <1>3, SMT

\* _free_port finds a port of the range, or says that there is none.
LEMMA FreePortRange == ASSUME NEW tuns, NEW n \in Nat PROVE FreePort(tuns, n) \in 0..n
<1> DEFINE free == (1..n) \ {tuns[i].port : i \in {j \in Ids : tuns[j].state = "open"}}
<1>1. CASE free = {}
  BY <1>1 DEF FreePort
<1>2. CASE free # {}
  <2>1. free \subseteq Nat
    OBVIOUS
  <2>2. \E p \in free : \A q \in free : p <= q
    <3> HIDE DEF free
    <3> QED BY <1>2, <2>1, LeastOne
  <2>3. FreePort(tuns, n) = CHOOSE p \in free : \A q \in free : p <= q
    BY <1>2 DEF FreePort
  <2>4. FreePort(tuns, n) \in free
    <3> HIDE DEF free
    <3> QED BY <2>2, <2>3
  <2> QED BY <2>4
<1> QED BY <1>1, <1>2

(***************************************************************************)
(* A port of the site has one listening socket: it is only bound where     *)
(* none listens, whatever _free_port says, and a tunnel keeps its port     *)
(* until its socket is closed.                                             *)
(***************************************************************************)
SameOrLess(old, new) == \A i \in Ids : Listening(new[i]) => Listening(old[i]) /\ new[i].port = old[i].port

OwnPorts(tuns) == \A i, j \in Ids : i # j /\ Listening(tuns[i]) /\ Listening(tuns[j]) => tuns[i].port # tuns[j].port

LEMMA OwnKept == ASSUME NEW old, NEW new, OwnPorts(old), SameOrLess(old, new) PROVE OwnPorts(new)
BY DEF OwnPorts, SameOrLess

LEMMA OwnBound ==
    ASSUME NEW f \in [Ids -> {Free} \cup HubTunnels \cup SiteTunnels], OwnPorts(f), NEW p, CanBind(f, p),
           NEW i, NEW t, t.port = p
    PROVE  OwnPorts([f EXCEPT ![i] = t])
BY DEF OwnPorts, CanBind

LEMMA GoneSilent == \A tuns : \A i \in Ids : ~Listening(Gone(tuns)[i])
BY DEF Gone, Listening, Free, Ids

(***************************************************************************)
(* Tunnels fill their list from the start, so an id not given out yet is   *)
(* there for every request on its way: each was counted when it came.      *)
(***************************************************************************)
Waiting == {o \in Operators : treq[o] # TNoReq}
Asked   == {o \in Operators : treq[o].step = "asked"}

FilledTo(tuns, n) == \A i \in Ids : tuns[i].state # "free" <=> i <= n

SlotInv ==
    /\ \E n \in Nat : FilledTo(hub, n) /\ n + Cardinality(Waiting) <= opened
    /\ \E n \in Nat : FilledTo(site, n) /\ n + Cardinality(Asked) <= opened

LEMMA CardMoves ==
    ASSUME NEW S \in SUBSET Operators, NEW o \in Operators
    PROVE  /\ Cardinality(S) \in Nat
           /\ Cardinality(S \cup {o}) <= Cardinality(S) + 1
           /\ o \in S => Cardinality(S \ {o}) + 1 = Cardinality(S)
           /\ \A T \in SUBSET S : Cardinality(T) \in Nat /\ Cardinality(T) <= Cardinality(S)
<1>1. IsFiniteSet(S)
  BY TunnelsAssumption, FS_Subset
<1>2. Cardinality(S) \in Nat
  BY <1>1, FS_CardinalityType
<1>3. Cardinality(S \cup {o}) <= Cardinality(S) + 1
  BY <1>1, <1>2, FS_AddElement
<1>4. o \in S => Cardinality(S \ {o}) + 1 = Cardinality(S)
  <2>1. o \in S => Cardinality(S \ {o}) = Cardinality(S) - 1
    BY <1>1, FS_RemoveElement
  <2> QED BY <1>2, <2>1
<1>5. ASSUME NEW T \in SUBSET S PROVE Cardinality(T) \in Nat /\ Cardinality(T) <= Cardinality(S)
  BY <1>1, FS_Subset, FS_CardinalityType
<1> QED BY <1>2, <1>3, <1>4, <1>5

LEMMA NextId ==
    ASSUME NEW tuns, NEW n \in Nat, FilledTo(tuns, n), n < MaxOpen
    PROVE  NewId(tuns) = n + 1 /\ n + 1 \in Ids /\ tuns[n + 1].state = "free"
<1>1. n + 1 \in Ids /\ tuns[n + 1].state = "free"
  BY TunnelsAssumption DEF FilledTo, Ids
<1>2. \A j \in 1..n : tuns[j].state # "free"
  BY TunnelsAssumption DEF FilledTo, Ids
<1>3. \A i \in Ids : tuns[i].state = "free" /\ (\A j \in 1..(i - 1) : tuns[j].state # "free") <=> i = n + 1
  <2> SUFFICES ASSUME NEW i \in Ids
               PROVE  tuns[i].state = "free" /\ (\A j \in 1..(i - 1) : tuns[j].state # "free") <=> i = n + 1
    OBVIOUS
  <2>1. CASE i = n + 1
    BY <1>1, <1>2, <2>1
  <2>2. CASE i < n + 1
    BY <2>2 DEF FilledTo, Ids
  <2>3. CASE i > n + 1
    <3>1. n + 1 \in 1..(i - 1)
      BY <2>3 DEF Ids
    <3> QED BY <1>1, <2>3, <3>1
  <2> QED BY <2>1, <2>2, <2>3 DEF Ids
<1> QED BY <1>1, <1>3 DEF NewId

\* One more tunnel fills the next slot.
LEMMA Fills ==
    ASSUME NEW tuns, DOMAIN tuns = Ids, tuns = [i \in Ids |-> tuns[i]], NEW n \in Nat, FilledTo(tuns, n), n < MaxOpen,
           NEW t, t.state # "free"
    PROVE  FilledTo([tuns EXCEPT ![NewId(tuns)] = t], n + 1)
<1>1. NewId(tuns) = n + 1 /\ n + 1 \in Ids
  BY NextId
<1>2. \A i \in Ids : [tuns EXCEPT ![n + 1] = t][i] = IF i = n + 1 THEN t ELSE tuns[i]
  OBVIOUS
<1>3. \A i \in Ids : [tuns EXCEPT ![n + 1] = t][i].state # "free" <=> i <= n + 1
  BY <1>2 DEF FilledTo, Ids
<1> QED BY <1>1, <1>3 DEF FilledTo

\* A request found its slot free.
LEMMA SlotLeft ==
    ASSUME TTypeOK, NEW o \in Operators, NEW S \in SUBSET Operators, o \in S, NEW n \in Nat,
           n + Cardinality(S) <= opened
    PROVE  n < MaxOpen
<1>1. Cardinality(S) \in Nat /\ Cardinality(S \ {o}) + 1 = Cardinality(S) /\ Cardinality(S \ {o}) \in Nat
  BY CardMoves
<1> QED BY <1>1, TunnelsAssumption DEF TTypeOK

(***************************************************************************)
(* Types.                                                                  *)
(***************************************************************************)
HubTyped  == hub \in [Ids -> {Free} \cup HubTunnels]
SiteTyped == site \in [Ids -> {Free} \cup SiteTunnels]
ReqTyped  == treq \in [Operators -> {TNoReq} \cup Questions \cup SiteAnswers]
ConnTyped == conn \in [Conns -> {NoConn} \cup Connections]
Counted   == toClose \subseteq Ids /\ opened \in 0..MaxOpen /\ downs \in 0..MaxDown

LEMMA TypeParts ==
    /\ TTypeOK <=> HubTyped /\ SiteTyped /\ ReqTyped /\ ConnTyped /\ Counted
    /\ TTypeOK' <=> HubTyped' /\ SiteTyped' /\ ReqTyped' /\ ConnTyped' /\ Counted'
BY DEF TTypeOK, HubTyped, SiteTyped, ReqTyped, ConnTyped, Counted

LEMMA Stays ==
    /\ HubTyped /\ UNCHANGED hub => HubTyped'
    /\ SiteTyped /\ UNCHANGED site => SiteTyped'
    /\ ReqTyped /\ UNCHANGED treq => ReqTyped'
    /\ ConnTyped /\ UNCHANGED conn => ConnTyped'
    /\ Counted /\ UNCHANGED <<toClose, opened, downs>> => Counted'
BY DEF HubTyped, SiteTyped, ReqTyped, ConnTyped, Counted

LEMMA DownCounted == ASSUME Counted, Trouble PROVE downs' \in 0..MaxDown
BY TunnelsAssumption DEF Counted, Trouble

\* A tunnel in the list, or taken out of it, is a whole tunnel; its state may be any.
LEMMA TunnelWhole ==
    /\ \A t \in {Free} \cup HubTunnels : t.state # "free" => t \in HubTunnels
    /\ \A t \in {Free} \cup SiteTunnels : t.state # "free" => t \in SiteTunnels
    /\ \A t \in HubTunnels, s \in States : [t EXCEPT !.state = s] \in HubTunnels
    /\ \A t \in SiteTunnels, s \in States : [t EXCEPT !.state = s] \in SiteTunnels
    /\ \A t \in HubTunnels, S \in SUBSET Operators : [t EXCEPT !.allowed = S] \in HubTunnels
    /\ \A t \in HubTunnels : t.state # "free" /\ t.allowed \in SUBSET Operators /\ t.stid \in 0..MaxOpen
    /\ \A t \in SiteTunnels : t.state # "free"
    /\ Free.state = "free"
BY DEF Free, HubTunnels, SiteTunnels, States

LEMMA ConnWhole ==
    /\ \A x \in {NoConn} \cup Connections : x.near # "none" \/ x.far # "none" => x \in Connections
    /\ \A x \in Connections, h \in Hops : [x EXCEPT !.near = h] \in Connections /\ [x EXCEPT !.far = h] \in Connections
    /\ \A x \in Connections, i \in Ids : [x EXCEPT !.near = "up", !.far = "accepted", !.site = i] \in Connections
<1>0. NoConn.near = "none" /\ NoConn.far = "none"
  BY DEF NoConn
<1>1. \A x \in Connections, h \in Hops : [x EXCEPT !.near = h] \in Connections /\ [x EXCEPT !.far = h] \in Connections
  BY DEF Connections
<1>2. \A x \in Connections, i \in 0..MaxOpen : [x EXCEPT !.site = i] \in Connections
  BY DEF Connections
<1>3. ASSUME NEW x \in Connections, NEW i \in Ids
      PROVE  [x EXCEPT !.near = "up", !.far = "accepted", !.site = i] \in Connections
  <2>1. i \in 0..MaxOpen /\ "up" \in Hops /\ "accepted" \in Hops
    BY TunnelsAssumption DEF Ids, Hops
  <2>2. [[[x EXCEPT !.near = "up"] EXCEPT !.far = "accepted"] EXCEPT !.site = i] \in Connections
    BY <1>1, <1>2, <2>1
  <2> QED BY <2>2
<1> QED BY <1>0, <1>1, <1>3

LEMMA StopTypes ==
    ASSUME TTypeOK, NEW i \in Ids, NEW s \in States
    PROVE  /\ hub[i].state # "free" => [hub EXCEPT ![i].state = s] \in [Ids -> {Free} \cup HubTunnels]
           /\ site[i].state # "free" => [site EXCEPT ![i].state = s] \in [Ids -> {Free} \cup SiteTunnels]
           /\ Gone(hub) \in [Ids -> {Free} \cup HubTunnels]
           /\ Gone(site) \in [Ids -> {Free} \cup SiteTunnels]
<1>1. hub[i].state # "free" => [hub[i] EXCEPT !.state = s] \in HubTunnels
  BY TunnelWhole DEF TTypeOK
<1>2. site[i].state # "free" => [site[i] EXCEPT !.state = s] \in SiteTunnels
  BY TunnelWhole DEF TTypeOK
<1>3. \A j \in Ids : Gone(hub)[j] \in {Free} \cup HubTunnels
  BY TunnelWhole DEF TTypeOK, Gone, States
<1>4. \A j \in Ids : Gone(site)[j] \in {Free} \cup SiteTunnels
  BY TunnelWhole DEF TTypeOK, Gone, States
<1> QED BY <1>1, <1>2, <1>3, <1>4 DEF TTypeOK, Gone

LEMMA ReqTypes ==
    ASSUME ReqTyped, NEW o \in Operators
    PROVE  /\ [treq EXCEPT ![o] = TNoReq] \in [Operators -> {TNoReq} \cup Questions \cup SiteAnswers]
           /\ treq[o].step = "asked" => treq[o].dst \in Targets \cup {Pi}
           /\ treq[o].step = "answered" => treq[o].dst \in Targets /\ treq[o].stid \in Ids /\ treq[o].lp \in 1..SitePorts
BY DEF ReqTyped, Questions, SiteAnswers, TNoReq

\* What becomes of tunnels and requests, with the id the next tunnel takes.
LEMMA NewIdThere ==
    ASSUME TTypeOK, SlotInv, NEW o \in Operators
    PROVE  /\ treq[o] # TNoReq => NewId(hub) \in Ids /\ hub[NewId(hub)].state = "free"
           /\ treq[o].step = "asked" => NewId(site) \in Ids /\ site[NewId(site)].state = "free"
<1>1. ASSUME treq[o] # TNoReq PROVE NewId(hub) \in Ids /\ hub[NewId(hub)].state = "free"
  <2>1. PICK n \in Nat : FilledTo(hub, n) /\ n + Cardinality(Waiting) <= opened
    BY DEF SlotInv
  <2>2. o \in Waiting /\ Waiting \in SUBSET Operators
    BY <1>1 DEF Waiting
  <2>3. n < MaxOpen
    BY <2>1, <2>2, SlotLeft
  <2> QED BY <2>1, <2>3, NextId
<1>2. ASSUME treq[o].step = "asked" PROVE NewId(site) \in Ids /\ site[NewId(site)].state = "free"
  <2>1. PICK n \in Nat : FilledTo(site, n) /\ n + Cardinality(Asked) <= opened
    BY DEF SlotInv
  <2>2. o \in Asked /\ Asked \in SUBSET Operators
    BY <1>2 DEF Asked
  <2>3. n < MaxOpen
    BY <2>1, <2>2, SlotLeft
  <2> QED BY <2>1, <2>3, NextId
<1> QED BY <1>1, <1>2

LEMMA TypeStep == TTypeOK /\ SlotInv /\ [TNext]_tvars => TTypeOK'
<1> SUFFICES ASSUME TTypeOK, SlotInv, [TNext]_tvars PROVE TTypeOK'
  OBVIOUS
<1>0. HubTyped /\ SiteTyped /\ ReqTyped /\ ConnTyped /\ Counted
  BY TypeParts
<1>1. ASSUME NEW o \in Operators, NEW d \in Targets \cup {Pi}, TAsk(o, d) PROVE TTypeOK'
  <2>1. ReqTyped'
    BY <1>0, <1>1 DEF TAsk, ReqTyped, Questions
  <2>2. Counted'
    BY <1>0, <1>1, TunnelsAssumption DEF TAsk, Counted
  <2> QED BY <1>0, <1>1, <2>1, <2>2, Stays, TypeParts DEF TAsk
<1>2. ASSUME NEW o \in Operators, SiteOpen(o) PROVE TTypeOK'
  <2> DEFINE p == FreePort(site, SitePorts)
             i == NewId(site)
             t == [state |-> "open", port |-> p, dst |-> treq[o].dst]
             answer == [step |-> "answered", dst |-> treq[o].dst, stid |-> i, lp |-> p]
  <2>1. treq[o].step = "asked" /\ treq[o].dst \in Targets
    BY <1>0, <1>2, ReqTypes DEF SiteOpen
  <2>2. i \in Ids
    BY <2>1, NewIdThere
  <2>3. CanBind(site, p) => p \in 1..SitePorts
    <3>1. p \in 0..SitePorts
      BY PortsAssumption, FreePortRange
    <3> QED BY <3>1, PortsAssumption DEF CanBind
  <2>4. CanBind(site, p) => t \in SiteTunnels /\ answer \in SiteAnswers
    BY <2>1, <2>2, <2>3 DEF SiteTunnels, SiteAnswers, States
  <2>5. UNCHANGED site \/ (CanBind(site, p) /\ site' = [site EXCEPT ![i] = t])
    BY <1>2 DEF SiteOpen
  <2>6. treq' = [treq EXCEPT ![o] = TNoReq] \/ (CanBind(site, p) /\ treq' = [treq EXCEPT ![o] = answer])
    BY <1>2 DEF SiteOpen
  <2>7. downs' \in 0..MaxDown
    BY <1>0, <1>2, DownCounted DEF SiteOpen, Counted
  <2> HIDE DEF p, i, t, answer
  <2>8. SiteTyped'
    BY <1>0, <2>2, <2>4, <2>5 DEF SiteTyped
  <2>9. ReqTyped'
    BY <1>0, <2>4, <2>6, ReqTypes DEF ReqTyped
  <2>10. Counted' /\ HubTyped' /\ ConnTyped'
    BY <1>0, <1>2, <2>7, Stays DEF SiteOpen, Counted
  <2> QED BY <2>8, <2>9, <2>10, TypeParts
<1>3. ASSUME NEW o \in Operators, Unreachable(o) PROVE TTypeOK'
  <2>1. ReqTyped'
    BY <1>0, <1>3, ReqTypes DEF Unreachable, ReqTyped
  <2>2. Counted'
    BY <1>0, <1>3, DownCounted DEF Unreachable, Counted
  <2> QED BY <1>0, <1>3, <2>1, <2>2, Stays, TypeParts DEF Unreachable
<1>4. ASSUME NEW o \in Operators, HubOpen(o) \/ OpenDirect(o) PROVE TTypeOK'
  <2> DEFINE p == FreePort(hub, HubPorts)
  <2>1. ReqTyped'
    BY <1>0, <1>4, ReqTypes DEF HubOpen, OpenDirect, ReqTyped
  <2>2. CanBind(hub, p) => p \in 1..HubPorts
    <3>1. p \in 0..HubPorts
      BY PortsAssumption, FreePortRange
    <3> QED BY <3>1, PortsAssumption DEF CanBind
  <2>3. Counted' /\ SiteTyped' /\ ConnTyped'
    BY <1>0, <1>4, ReqTypes, Stays DEF HubOpen, OpenDirect, Counted, GiveUp
  <2>4. \A lp \in 0..SitePorts, stid \in 0..MaxOpen, d \in Targets \cup {Pi} :
           CanBind(hub, p) => HubTunnel(p, lp, stid, o, d) \in HubTunnels
    BY <2>2 DEF HubTunnel, HubTunnels, States
  <2>5. HubTyped'
    <3>1. \A t \in HubTunnels : [hub EXCEPT ![NewId(hub)] = t] \in [Ids -> {Free} \cup HubTunnels]
      BY <1>0 DEF HubTyped
    <3>2. CASE HubOpen(o)
      <4>1. treq[o].dst \in Targets \cup {Pi} /\ treq[o].stid \in 0..MaxOpen /\ treq[o].lp \in 0..SitePorts
        BY <1>0, <3>2, ReqTypes, PortsAssumption, TunnelsAssumption DEF HubOpen, Ids
      <4>2. UNCHANGED hub \/
            (CanBind(hub, p) /\ hub' = [hub EXCEPT ![NewId(hub)] = HubTunnel(p, treq[o].lp, treq[o].stid, o, treq[o].dst)])
        BY <3>2 DEF HubOpen
      <4> HIDE DEF p
      <4> QED BY <1>0, <2>4, <3>1, <4>1, <4>2 DEF HubTyped
    <3>3. CASE OpenDirect(o)
      <4> DEFINE same == {i \in Ids : hub[i].state = "open" /\ hub[i].dst = Pi}
                 shared == [i \in Ids |-> IF i \in same THEN [hub[i] EXCEPT !.allowed = @ \cup {o}] ELSE hub[i]]
      <4>1. UNCHANGED hub \/ hub' = shared \/ (CanBind(hub, p) /\ hub' = [hub EXCEPT ![NewId(hub)] = HubTunnel(p, 0, 0, o, Pi)])
        BY <3>3 DEF OpenDirect
      <4>2. shared \in [Ids -> {Free} \cup HubTunnels]
        <5>1. \A i \in same : hub[i] \in HubTunnels
          BY <1>0, TunnelWhole DEF HubTyped
        <5>2. \A i \in same : [hub[i] EXCEPT !.allowed = hub[i].allowed \cup {o}] \in HubTunnels
          BY <5>1, TunnelWhole
        <5> QED BY <1>0, <5>2 DEF HubTyped
      <4>3. CanBind(hub, p) => HubTunnel(p, 0, 0, o, Pi) \in HubTunnels
        BY <2>4, PortsAssumption, TunnelsAssumption
      <4> HIDE DEF p, shared
      <4> QED BY <1>0, <3>1, <4>1, <4>2, <4>3 DEF HubTyped
    <3> QED BY <1>4, <3>2, <3>3
  <2> QED BY <2>1, <2>3, <2>5, TypeParts
<1>5. ASSUME NEW i \in Ids, HubClose(i) \/ HubReap(i) \/ SiteReap(i) PROVE TTypeOK'
  <2>1. HubTyped' /\ SiteTyped'
    <3>1. CASE HubClose(i) \/ HubReap(i)
      BY <1>0, <3>1, StopTypes, Stays, ZenonT(60) DEF HubClose, HubReap, HubTyped, States
    <3>2. CASE SiteReap(i)
      BY <1>0, <3>2, StopTypes, Stays DEF SiteReap, SiteTyped, States
    <3> QED BY <1>5, <3>1, <3>2
  <2> QED BY <1>0, <1>5, <2>1, Stays, TypeParts DEF HubClose, HubReap, SiteReap
<1>6. ASSUME NEW i \in Ids, HubStop(i) \/ SiteStop(i) PROVE TTypeOK'
  <2>1. HubTyped' /\ SiteTyped'
    <3>1. CASE HubStop(i)
      BY <1>0, <3>1, StopTypes, Stays DEF HubStop, HubTyped, States
    <3>2. CASE SiteStop(i)
      BY <1>0, <3>2, StopTypes, Stays DEF SiteStop, SiteTyped, States
    <3> QED BY <1>6, <3>1, <3>2
  <2>2. ConnTyped'
    BY <1>0, <1>6, ConnWhole, ZenonT(60) DEF HubStop, SiteStop, ConnTyped, HubConns, SiteConns, Hops
  <2>3. Counted'
    <3>1. hub[i].state = "stopping" => hub[i].stid \in 0..MaxOpen
      BY <1>0, TunnelWhole DEF HubTyped
    <3> QED BY <1>0, <1>6, <3>1, TunnelsAssumption DEF HubStop, SiteStop, Counted, Ids
  <2>4. ReqTyped'
    BY <1>0, <1>6, Stays DEF HubStop, SiteStop
  <2> QED BY <2>1, <2>2, <2>3, <2>4, TypeParts
<1>7. ASSUME NEW i \in Ids, SiteClose(i) PROVE TTypeOK'
  <2>1. SiteTyped'
    BY <1>0, <1>7, StopTypes, Stays, ZenonT(60) DEF SiteClose, SiteTyped, States
  <2>2. Counted'
    BY <1>0, <1>7, DownCounted DEF SiteClose, Counted
  <2> QED BY <1>0, <1>7, <2>1, <2>2, Stays, TypeParts DEF SiteClose
<1>8. ASSUME NEW c \in Conns, Handlers(c) \/ HangUp(c) \/ \E o \in Operators, i \in Ids : Connect(c, o, i) PROVE TTypeOK'
  <2>0. conn[c] \in {NoConn} \cup Connections
    BY <1>0 DEF ConnTyped
  <2>1. \A x \in Connections : [conn EXCEPT ![c] = x] \in [Conns -> {NoConn} \cup Connections]
    BY <1>0 DEF ConnTyped
  <2>2. ASSUME HubRelay(c) PROVE ConnTyped'
    <3> DEFINE at == {i \in Ids : Listening(site[i]) /\ site[i].port = hub[conn[c].hub].lp}
               far == CHOOSE i \in at : TRUE
               direct == [conn[c] EXCEPT !.near = "up"]
               lost == [conn[c] EXCEPT !.near = "over"]
               relayed == [conn[c] EXCEPT !.near = "up", !.far = "accepted", !.site = far]
    <3>1. conn[c] \in Connections
      BY <2>0, <2>2, ConnWhole DEF HubRelay
    <3>2. at # {} => far \in Ids
      OBVIOUS
    <3>3. \/ conn' = [conn EXCEPT ![c] = direct]
          \/ conn' = [conn EXCEPT ![c] = lost]
          \/ at # {} /\ conn' = [conn EXCEPT ![c] = relayed]
      <4>1. conn' = [conn EXCEPT ![c] = IF hub[conn[c].hub].dst = Pi THEN direct ELSE IF at = {} THEN lost ELSE relayed]
        BY <2>2 DEF HubRelay
      <4> HIDE DEF at, direct, lost, relayed
      <4> QED BY <4>1
    <3>4. direct \in Connections /\ lost \in Connections
      BY <3>1, ConnWhole DEF Hops
    <3>5. at # {} => relayed \in Connections
      <4> HIDE DEF far
      <4> QED BY <3>1, <3>2, ConnWhole
    <3> HIDE DEF at, direct, lost, relayed
    <3> QED BY <2>1, <3>3, <3>4, <3>5 DEF ConnTyped
  <2>3. ASSUME NEW h \in Hops, conn[c].near # "none" \/ conn[c].far # "none",
               conn' = [conn EXCEPT ![c].near = h] \/ conn' = [conn EXCEPT ![c].far = h]
        PROVE  ConnTyped'
    <3> DEFINE nearNow == [conn[c] EXCEPT !.near = h]
               farNow == [conn[c] EXCEPT !.far = h]
    <3>1. nearNow \in Connections /\ farNow \in Connections
      BY <2>0, <2>3, ConnWhole
    <3>2. conn' = [conn EXCEPT ![c] = nearNow] \/ conn' = [conn EXCEPT ![c] = farNow]
      BY <2>3
    <3> HIDE DEF nearNow, farNow
    <3> QED BY <2>1, <3>1, <3>2 DEF ConnTyped
  <2>4. ASSUME SiteRelay(c) PROVE ConnTyped'
    <3>1. PICK far \in {"up", "over"} : conn' = [conn EXCEPT ![c].far = far]
      BY <2>4 DEF SiteRelay
    <3>2. conn[c].far # "none" /\ far \in Hops
      BY <2>4 DEF SiteRelay, Hops
    <3> QED BY <2>3, <3>1, <3>2
  <2>5. ASSUME PumpEnds(c) \/ HangUp(c) PROVE ConnTyped'
    <3>1. conn' = [conn EXCEPT ![c].near = "over"] \/ conn' = [conn EXCEPT ![c].far = "over"]
      BY <2>5 DEF PumpEnds, HangUp
    <3>2. conn[c].near # "none" \/ conn[c].far # "none"
      BY <2>5 DEF PumpEnds, HangUp
    <3> QED BY <2>3, <3>1, <3>2 DEF Hops
  <2>6. ASSUME NEW o \in Operators, NEW i \in Ids, Connect(c, o, i) PROVE ConnTyped'
    <3> DEFINE accepted == [near |-> "accepted", hub |-> i, far |-> "none", site |-> 0]
    <3>1. accepted \in Connections
      BY TunnelsAssumption DEF Connections, Hops
    <3>2. conn' = [conn EXCEPT ![c] = accepted]
      BY <2>6 DEF Connect
    <3> HIDE DEF accepted
    <3> QED BY <2>1, <3>1, <3>2 DEF ConnTyped
  <2>7. ConnTyped'
    <3>1. CASE Handlers(c) \/ HangUp(c)
      BY <2>2, <2>4, <2>5, <3>1 DEF Handlers
    <3>2. CASE \E o \in Operators, i \in Ids : Connect(c, o, i)
      BY <2>6, <3>2
    <3> QED BY <1>8, <3>1, <3>2
  <2>8. UNCHANGED <<hub, site, treq, toClose, opened, downs>>
    BY <1>8 DEF Handlers, HubRelay, SiteRelay, PumpEnds, HangUp, Connect
  <2> QED BY <1>0, <2>7, <2>8, Stays, TypeParts
<1>9. CASE THubRestart \/ TSiteRestart
  <2>1. HubTyped' /\ SiteTyped'
    <3>1. Gone(hub) \in [Ids -> {Free} \cup HubTunnels] /\ Gone(site) \in [Ids -> {Free} \cup SiteTunnels]
      <4>1. \A j \in Ids : Gone(hub)[j] \in {Free} \cup HubTunnels /\ Gone(site)[j] \in {Free} \cup SiteTunnels
        BY <1>0, TunnelWhole DEF HubTyped, SiteTyped, Gone, States
      <4> QED BY <4>1 DEF Gone
    <3> QED BY <1>0, <1>9, <3>1 DEF THubRestart, TSiteRestart, HubTyped, SiteTyped
  <2>2. ConnTyped'
    <3>1. \A c \in Conns : conn'[c] \in {NoConn} \cup Connections
      BY <1>0, <1>9, ConnWhole DEF THubRestart, TSiteRestart, ConnTyped, Hops
    <3> QED BY <1>9, <3>1 DEF THubRestart, TSiteRestart, ConnTyped
  <2>3. ReqTyped' /\ Counted'
    BY <1>0, <1>9, DownCounted DEF THubRestart, TSiteRestart, ReqTyped, Counted
  <2> QED BY <2>1, <2>2, <2>3, TypeParts
<1>10. CASE UNCHANGED tvars
  BY <1>0, <1>10, Stays, TypeParts DEF tvars
<1> QED BY <1>1, <1>2, <1>3, <1>4, <1>5, <1>6, <1>7, <1>8, <1>9, <1>10 DEF TNext

(***************************************************************************)
(* Each side's list stays filled from the start.                           *)
(***************************************************************************)
Room(tuns, S, count) == \E n \in Nat : FilledTo(tuns, n) /\ n + Cardinality(S) <= count

\* Closing a tunnel or dropping a request leaves the room there was.
LEMMA RoomKept ==
    ASSUME NEW tuns, NEW new, NEW S \in SUBSET Operators, NEW T \in SUBSET S, NEW count \in Nat,
           Room(tuns, S, count), \A i \in Ids : new[i].state = "free" <=> tuns[i].state = "free"
    PROVE  Room(new, T, count)
<1>1. PICK n \in Nat : FilledTo(tuns, n) /\ n + Cardinality(S) <= count
  BY DEF Room
<1>2. FilledTo(new, n)
  BY <1>1 DEF FilledTo
<1>3. Cardinality(S) \in Nat /\ Cardinality(T) \in Nat /\ Cardinality(T) <= Cardinality(S)
  <2>1. CASE Operators = {}
    <3>1. S = {} /\ T = {}
      BY <2>1
    <3> QED BY <3>1, FS_EmptySet
  <2>2. CASE Operators # {}
    BY <2>2, CardMoves
  <2> QED BY <2>1, <2>2
<1>4. n + Cardinality(T) <= count
  BY <1>1, <1>3
<1> QED BY <1>2, <1>4 DEF Room

\* A tunnel that is opened takes the slot its request was counted for.
LEMMA RoomFilled ==
    ASSUME NEW tuns, DOMAIN tuns = Ids, tuns = [i \in Ids |-> tuns[i]], NEW S \in SUBSET Operators, NEW o \in S,
           NEW count \in 0..MaxOpen, Room(tuns, S, count), NEW t, t.state # "free"
    PROVE  Room([tuns EXCEPT ![NewId(tuns)] = t], S \ {o}, count)
<1>1. PICK n \in Nat : FilledTo(tuns, n) /\ n + Cardinality(S) <= count
  BY DEF Room
<1>2. Cardinality(S) \in Nat /\ Cardinality(S \ {o}) + 1 = Cardinality(S) /\ Cardinality(S \ {o}) \in Nat
  BY CardMoves
<1>3. n < MaxOpen /\ (n + 1) + Cardinality(S \ {o}) <= count
  BY <1>1, <1>2, TunnelsAssumption
<1>4. FilledTo([tuns EXCEPT ![NewId(tuns)] = t], n + 1)
  BY <1>1, <1>3, Fills
<1> QED BY <1>3, <1>4 DEF Room

LEMMA RoomParts ==
    /\ SlotInv <=> Room(hub, Waiting, opened) /\ Room(site, Asked, opened)
    /\ SlotInv' <=> Room(hub', Waiting', opened') /\ Room(site', Asked', opened')
    /\ Waiting \in SUBSET Operators /\ Asked \in SUBSET Operators
    /\ Waiting' \in SUBSET Operators /\ Asked' \in SUBSET Operators
BY DEF SlotInv, Room, FilledTo, Waiting, Asked

\* A request that ends, or is answered, is no longer asked.
LEMMA RequestsLess ==
    ASSUME TTypeOK, NEW o \in Operators, NEW r, treq' = [treq EXCEPT ![o] = r], r.step # "asked", treq[o] # TNoReq
    PROVE  /\ Asked' = Asked \ {o} /\ Waiting' \in SUBSET Waiting
           /\ r = TNoReq => Waiting' = Waiting \ {o}
<1>1. \A q \in Operators : treq'[q] = IF q = o THEN r ELSE treq[q]
  BY DEF TTypeOK
<1> QED BY <1>1 DEF Asked, Waiting

LEMMA SlotStep == TTypeOK /\ SlotInv /\ [TNext]_tvars => SlotInv'
<1> SUFFICES ASSUME TTypeOK, SlotInv, [TNext]_tvars PROVE SlotInv'
  OBVIOUS
<1>0. /\ Room(hub, Waiting, opened) /\ Room(site, Asked, opened)
      /\ opened \in 0..MaxOpen /\ opened \in Nat
      /\ hub = [i \in Ids |-> hub[i]] /\ DOMAIN hub = Ids /\ site = [i \in Ids |-> site[i]] /\ DOMAIN site = Ids
  BY RoomParts, TunnelsAssumption DEF TTypeOK
<1>1. ASSUME NEW o \in Operators, NEW d \in Targets \cup {Pi}, TAsk(o, d) PROVE SlotInv'
  <2>1. Waiting' \in SUBSET (Waiting \cup {o}) /\ Asked' \in SUBSET (Asked \cup {o}) /\ opened' = opened + 1
    BY <1>1 DEF TAsk, TTypeOK, Waiting, Asked
  <2>2. ASSUME NEW tuns, NEW S \in SUBSET Operators, Room(tuns, S, opened) PROVE Room(tuns, S \cup {o}, opened + 1)
    <3>1. PICK n \in Nat : FilledTo(tuns, n) /\ n + Cardinality(S) <= opened
      BY <2>2 DEF Room
    <3>2. S \cup {o} \in SUBSET Operators /\ Cardinality(S) \in Nat /\ Cardinality(S \cup {o}) <= Cardinality(S) + 1
      BY CardMoves
    <3>3. Cardinality(S \cup {o}) \in Nat
      BY <3>2, CardMoves
    <3>4. n + Cardinality(S \cup {o}) <= opened + 1
      BY <1>0, <3>1, <3>2, <3>3
    <3> QED BY <3>1, <3>4 DEF Room
  <2>4. Room(hub, Waiting \cup {o}, opened + 1) /\ Room(site, Asked \cup {o}, opened + 1)
    BY <1>0, <2>2, RoomParts
  <2>5. Waiting \cup {o} \in SUBSET Operators /\ Asked \cup {o} \in SUBSET Operators /\ opened + 1 \in Nat
    BY <1>0, RoomParts
  <2>6. Room(hub, Waiting', opened + 1) /\ Room(site, Asked', opened + 1)
    BY <2>1, <2>4, <2>5, RoomKept
  <2> QED BY <1>1, <2>1, <2>6, RoomParts DEF TAsk
<1>2. ASSUME NEW o \in Operators, SiteOpen(o) PROVE SlotInv'
  <2> DEFINE p == FreePort(site, SitePorts)
             i == NewId(site)
             t == [state |-> "open", port |-> p, dst |-> treq[o].dst]
             answer == [step |-> "answered", dst |-> treq[o].dst, stid |-> i, lp |-> p]
  <2>1. treq[o].step = "asked" /\ treq[o] # TNoReq /\ UNCHANGED <<hub, opened>>
    BY <1>2 DEF SiteOpen, TNoReq
  <2>2. \E r : treq' = [treq EXCEPT ![o] = r] /\ r.step # "asked"
    <3>1. answer.step # "asked" /\ TNoReq.step # "asked"
      BY DEF TNoReq
    <3>2. treq' = [treq EXCEPT ![o] = TNoReq] \/ treq' = [treq EXCEPT ![o] = answer]
      BY <1>2 DEF SiteOpen
    <3> HIDE DEF answer
    <3> QED BY <3>1, <3>2
  <2>3. Asked' = Asked \ {o} /\ Waiting' \in SUBSET Waiting
    BY <2>1, <2>2, RequestsLess
  <2>4. Room(hub, Waiting', opened)
    BY <1>0, <2>3, RoomParts, RoomKept
  <2>5. UNCHANGED site \/ site' = [site EXCEPT ![i] = t]
    BY <1>2 DEF SiteOpen
  <2>6. t.state # "free"
    OBVIOUS
  <2>7. Room([site EXCEPT ![i] = t], Asked \ {o}, opened)
    <3>1. o \in Asked
      BY <2>1 DEF Asked
    <3> HIDE DEF t
    <3> QED BY <1>0, <2>6, <3>1, RoomParts, RoomFilled
  <2>8. Room(site, Asked \ {o}, opened)
    BY <1>0, RoomParts, RoomKept
  <2>9. Room(site', Asked', opened)
    BY <2>3, <2>5, <2>7, <2>8
  <2> QED BY <2>1, <2>4, <2>9, RoomParts
<1>3. ASSUME NEW o \in Operators, Unreachable(o) \/ HubOpen(o) \/ OpenDirect(o) PROVE SlotInv'
  <2>1. treq' = [treq EXCEPT ![o] = TNoReq] /\ treq[o] # TNoReq /\ UNCHANGED <<site, opened>>
    BY <1>3 DEF Unreachable, HubOpen, OpenDirect, TNoReq
  <2>2. Asked' = Asked \ {o} /\ Waiting' = Waiting \ {o}
    <3>1. TNoReq.step # "asked"
      BY DEF TNoReq
    <3> QED BY <2>1, <3>1, RequestsLess
  <2>3. Room(site, Asked', opened)
    BY <1>0, <2>2, RoomParts, RoomKept
  <2>4. \/ \A i \in Ids : hub'[i].state = "free" <=> hub[i].state = "free"
        \/ \E t : hub' = [hub EXCEPT ![NewId(hub)] = t] /\ t.state # "free"
    <3>1. CASE Unreachable(o)
      BY <3>1 DEF Unreachable
    <3>2. CASE HubOpen(o)
      BY <3>2 DEF HubOpen, HubTunnel
    <3>3. CASE OpenDirect(o)
      <4> DEFINE p == FreePort(hub, HubPorts)
                 same == {i \in Ids : hub[i].state = "open" /\ hub[i].dst = Pi}
                 shared == [i \in Ids |-> IF i \in same THEN [hub[i] EXCEPT !.allowed = @ \cup {o}] ELSE hub[i]]
                 t == HubTunnel(p, 0, 0, o, Pi)
      <4>1. UNCHANGED hub \/ hub' = shared \/ hub' = [hub EXCEPT ![NewId(hub)] = t]
        BY <3>3 DEF OpenDirect
      <4>2. \A i \in Ids : shared[i].state = "free" <=> hub[i].state = "free"
        <5>1. \A i \in same : hub[i] \in HubTunnels
          BY TunnelWhole DEF TTypeOK
        <5>2. \A i \in same : [hub[i] EXCEPT !.allowed = hub[i].allowed \cup {o}].state = hub[i].state
          BY <5>1 DEF HubTunnels
        <5> QED BY <5>2
      <4>3. t.state # "free"
        BY DEF HubTunnel
      <4> HIDE DEF shared, t
      <4> QED BY <4>1, <4>2, <4>3
    <3> QED BY <1>3, <3>1, <3>2, <3>3
  <2>5. Room(hub', Waiting \ {o}, opened)
    <3>1. CASE \A i \in Ids : hub'[i].state = "free" <=> hub[i].state = "free"
      BY <1>0, <3>1, RoomParts, RoomKept
    <3>2. CASE \E t : hub' = [hub EXCEPT ![NewId(hub)] = t] /\ t.state # "free"
      <4>1. o \in Waiting
        BY <2>1 DEF Waiting
      <4> QED BY <1>0, <3>2, <4>1, RoomParts, RoomFilled
    <3> QED BY <2>4, <3>1, <3>2
  <2> QED BY <2>1, <2>2, <2>3, <2>5, RoomParts
<1>4. ASSUME \A i \in Ids : hub'[i].state = "free" <=> hub[i].state = "free",
             \A i \in Ids : site'[i].state = "free" <=> site[i].state = "free",
             Waiting' \in SUBSET Waiting, Asked' \in SUBSET Asked, UNCHANGED opened
      PROVE  SlotInv'
  <2>1. Room(hub', Waiting', opened) /\ Room(site', Asked', opened)
    BY <1>0, <1>4, RoomParts, RoomKept
  <2> QED BY <1>4, <2>1, RoomParts
<1>5. ASSUME NEW i \in Ids, \/ HubClose(i) \/ HubReap(i) \/ HubStop(i)
                            \/ SiteClose(i) \/ SiteReap(i) \/ SiteStop(i) PROVE SlotInv'
  <2>1. UNCHANGED <<treq, opened>>
    BY <1>5 DEF HubClose, HubReap, HubStop, SiteClose, SiteReap, SiteStop
  <2>2. \A j \in Ids : hub'[j].state = "free" <=> hub[j].state = "free"
    <3>1. UNCHANGED hub \/ (\E s \in {"stopping", "closed"} : hub[i].state # "free" /\ hub' = [hub EXCEPT ![i].state = s])
      BY <1>5 DEF HubClose, HubReap, HubStop, SiteClose, SiteReap, SiteStop
    <3>2. hub[i].state # "free" => hub[i] \in HubTunnels
      BY TunnelWhole DEF TTypeOK
    <3> QED BY <1>0, <3>1, <3>2 DEF HubTunnels
  <2>3. \A j \in Ids : site'[j].state = "free" <=> site[j].state = "free"
    <3>1. UNCHANGED site \/ (\E s \in {"stopping", "closed"} : site[i].state # "free" /\ site' = [site EXCEPT ![i].state = s])
      BY <1>5 DEF HubClose, HubReap, HubStop, SiteClose, SiteReap, SiteStop
    <3>2. site[i].state # "free" => site[i] \in SiteTunnels
      BY TunnelWhole DEF TTypeOK
    <3> QED BY <1>0, <3>1, <3>2 DEF SiteTunnels
  <2> QED BY <1>4, <2>1, <2>2, <2>3 DEF Waiting, Asked
<1>6. ASSUME NEW c \in Conns, Handlers(c) \/ HangUp(c) \/ \E o \in Operators, i \in Ids : Connect(c, o, i) PROVE SlotInv'
  <2>1. UNCHANGED <<hub, site, treq, opened>>
    BY <1>6 DEF Handlers, HubRelay, SiteRelay, PumpEnds, HangUp, Connect
  <2> QED BY <1>4, <2>1 DEF Waiting, Asked
<1>7. CASE THubRestart \/ TSiteRestart
  <2>1. \A j \in Ids : (Gone(hub)[j].state = "free" <=> hub[j].state = "free") /\
                       (Gone(site)[j].state = "free" <=> site[j].state = "free")
    BY TunnelWhole DEF TTypeOK, Gone, HubTunnels, SiteTunnels
  <2>2. Waiting' \in SUBSET Waiting /\ Asked' \in SUBSET Asked
    BY <1>7 DEF THubRestart, TSiteRestart, Waiting, Asked, TNoReq
  <2> QED BY <1>4, <1>7, <2>1, <2>2 DEF THubRestart, TSiteRestart
<1>8. CASE UNCHANGED tvars
  BY <1>4, <1>8 DEF tvars, Waiting, Asked
<1> QED BY <1>1, <1>2, <1>3, <1>5, <1>6, <1>7, <1>8 DEF TNext

LEMMA TunnelsInit == TInit => TTypeOK /\ SlotInv
<1> SUFFICES ASSUME TInit PROVE TTypeOK /\ SlotInv
  OBVIOUS
<1>1. TTypeOK
  BY TunnelsAssumption DEF TInit, TTypeOK
<1>2. SlotInv
  <2>1. Waiting = {} /\ Asked = {}
    BY DEF TInit, Waiting, Asked, TNoReq
  <2>2. FilledTo(hub, 0) /\ FilledTo(site, 0)
    BY TunnelsAssumption DEF TInit, FilledTo, Free, Ids
  <2>3. 0 + Cardinality({}) <= 0
    BY FS_EmptySet
  <2> QED BY <2>1, <2>2, <2>3 DEF TInit, SlotInv
<1> QED BY <1>1, <1>2

\* Type correctness: what a request, a tunnel and a connection name is there.
THEOREM TunnelsTyped == TSpec => []TTypeOK
<1>1. TInit => TTypeOK /\ SlotInv
  BY TunnelsInit
<1>2. TTypeOK /\ SlotInv /\ [TNext]_tvars => (TTypeOK /\ SlotInv)'
  BY TypeStep, SlotStep
<1> QED BY <1>1, <1>2, PTL DEF TSpec

(***************************************************************************)
(* A tunnel leads home. What the hub and an answer on its way know of the  *)
(* site's half, its number, port and device, is what the half had and has: *)
(* halves keep these until the site restarts, and after. With one socket   *)
(* to a port, a connection finds the half that listens there.              *)
(***************************************************************************)
Led(st, s, p, d) == s \in Ids /\ st[s].state # "free" /\ st[s].port = p /\ st[s].dst = d

HalvesKnown ==
    /\ \A i \in Ids : hub[i].state # "free" =>
          IF hub[i].stid = 0 THEN hub[i].dst = Pi ELSE Led(site, hub[i].stid, hub[i].lp, hub[i].dst)
    /\ \A o \in Operators : treq[o].step = "answered" => Led(site, treq[o].stid, treq[o].lp, treq[o].dst)
ConnsKnown == \A k \in Conns : conn[k] # NoConn => conn[k].hub \in Ids /\ hub[conn[k].hub].state # "free"

HomeInv == OwnPorts(site) /\ HalvesKnown /\ ConnsKnown

\* What a step leaves of the halves, of the hub's tunnels, and of the connections.
SiteLasts == \A i \in Ids : site[i].state # "free" =>
                site'[i].state # "free" /\ site'[i].port = site[i].port /\ site'[i].dst = site[i].dst
HubLasts  == \A i \in Ids : hub[i].state # "free" =>
                hub'[i].state # "free" /\ hub'[i].stid = hub[i].stid /\ hub'[i].lp = hub[i].lp /\ hub'[i].dst = hub[i].dst
HubSame   == HubLasts /\ \A i \in Ids : hub[i].state = "free" => hub'[i].state = "free"
ReqsSame  == \A o \in Operators : treq'[o].step = "answered" => treq'[o] = treq[o]
ConnsSame == \A k \in Conns : conn'[k] # NoConn => conn[k] # NoConn /\ conn'[k].hub = conn[k].hub

LEMMA LedOn ==
    ASSUME SiteLasts, NEW s, NEW p, NEW d, Led(site, s, p, d)
    PROVE  s \in Ids /\ site'[s].state # "free" /\ site'[s].port = p /\ site'[s].dst = d
BY DEF Led, SiteLasts

LEMMA HalvesOn ==
    ASSUME HalvesKnown, SiteLasts, HubSame, ReqsSame
    PROVE  HalvesKnown'
<1>1. ASSUME NEW i \in Ids, hub'[i].state # "free"
      PROVE  IF hub'[i].stid = 0 THEN hub'[i].dst = Pi ELSE Led(site', hub'[i].stid, hub'[i].lp, hub'[i].dst)
  <2>1. /\ hub[i].state # "free" /\ hub'[i].stid = hub[i].stid /\ hub'[i].lp = hub[i].lp /\ hub'[i].dst = hub[i].dst
    BY <1>1 DEF HubSame, HubLasts
  <2>2. IF hub[i].stid = 0 THEN hub[i].dst = Pi ELSE Led(site, hub[i].stid, hub[i].lp, hub[i].dst)
    BY <2>1 DEF HalvesKnown
  <2>3. ASSUME hub[i].stid # 0 PROVE Led(site', hub'[i].stid, hub'[i].lp, hub'[i].dst)
    <3>1. hub[i].stid \in Ids /\ site'[hub[i].stid].state # "free" /\ site'[hub[i].stid].port = hub[i].lp
          /\ site'[hub[i].stid].dst = hub[i].dst
      BY <2>2, <2>3, LedOn
    <3> QED BY <2>1, <3>1 DEF Led
  <2> QED BY <2>1, <2>2, <2>3
<1>2. ASSUME NEW o \in Operators, treq'[o].step = "answered" PROVE Led(site', treq'[o].stid, treq'[o].lp, treq'[o].dst)
  <2>1. treq'[o] = treq[o] /\ Led(site, treq[o].stid, treq[o].lp, treq[o].dst)
    BY <1>2 DEF ReqsSame, HalvesKnown
  <2>2. treq[o].stid \in Ids /\ site'[treq[o].stid].state # "free" /\ site'[treq[o].stid].port = treq[o].lp
        /\ site'[treq[o].stid].dst = treq[o].dst
    BY <2>1, LedOn
  <2> QED BY <2>1, <2>2 DEF Led
<1> QED BY <1>1, <1>2 DEF HalvesKnown

LEMMA ConnsOn ==
    ASSUME ConnsKnown, HubLasts, ConnsSame
    PROVE  ConnsKnown'
<1>1. ASSUME NEW k \in Conns, conn'[k] # NoConn PROVE conn'[k].hub \in Ids /\ hub'[conn'[k].hub].state # "free"
  BY <1>1 DEF ConnsKnown, HubLasts, ConnsSame
<1> QED BY <1>1 DEF ConnsKnown

LEMMA ConnThere == \A k \in Conns : TTypeOK /\ (conn[k].near # "none" \/ conn[k].far # "none") =>
                                        conn[k] \in Connections /\ conn[k] # NoConn
BY DEF NoConn, TTypeOK

LEMMA RestOn ==
    /\ UNCHANGED site => SiteLasts
    /\ UNCHANGED hub => HubSame /\ HubLasts
    /\ UNCHANGED treq => ReqsSame
    /\ UNCHANGED conn => ConnsSame
BY DEF SiteLasts, HubSame, HubLasts, ReqsSame, ConnsSame

\* A tunnel that is taken out or closed, a request that ends and a connection that goes on.
LEMMA StopsOn ==
    ASSUME TTypeOK
    PROVE  /\ \A i \in Ids, s \in States : site[i].state # "free" /\ site' = [site EXCEPT ![i].state = s] => SiteLasts
           /\ \A i \in Ids, s \in States : hub[i].state # "free" /\ hub' = [hub EXCEPT ![i].state = s] => HubSame
           /\ site' = Gone(site) => SiteLasts
           /\ hub' = Gone(hub) => HubSame
           /\ \A o \in Operators : treq' = [treq EXCEPT ![o] = TNoReq] => ReqsSame
<1>1. ASSUME NEW i \in Ids, NEW s \in States, site[i].state # "free", site' = [site EXCEPT ![i].state = s] PROVE SiteLasts
  <2>1. site[i] \in SiteTunnels /\ s # "free"
    BY <1>1, TunnelWhole DEF TTypeOK, States
  <2> QED BY <1>1, <2>1 DEF SiteLasts, SiteTunnels, TTypeOK
<1>2. ASSUME NEW i \in Ids, NEW s \in States, hub[i].state # "free", hub' = [hub EXCEPT ![i].state = s] PROVE HubSame
  <2>1. hub[i] \in HubTunnels /\ s # "free"
    BY <1>2, TunnelWhole DEF TTypeOK, States
  <2> QED BY <1>2, <2>1 DEF HubSame, HubLasts, HubTunnels, TTypeOK
<1>3. ASSUME site' = Gone(site) PROVE SiteLasts
  <2>1. \A i \in Ids : site[i].state # "free" => site[i] \in SiteTunnels
    BY TunnelWhole DEF TTypeOK
  <2> QED BY <1>3, <2>1 DEF SiteLasts, Gone, SiteTunnels
<1>4. ASSUME hub' = Gone(hub) PROVE HubSame
  <2>1. \A i \in Ids : hub[i].state # "free" => hub[i] \in HubTunnels
    BY TunnelWhole DEF TTypeOK
  <2> QED BY <1>4, <2>1 DEF HubSame, HubLasts, Gone, HubTunnels, Free
<1>5. ASSUME NEW o \in Operators, treq' = [treq EXCEPT ![o] = TNoReq] PROVE ReqsSame
  BY <1>5 DEF ReqsSame, TNoReq, TTypeOK
<1> QED BY <1>1, <1>2, <1>3, <1>4, <1>5

LEMMA HomeStep == TTypeOK /\ SlotInv /\ HomeInv /\ [TNext]_tvars => HomeInv'
<1> SUFFICES ASSUME TTypeOK, SlotInv, HomeInv, [TNext]_tvars PROVE HomeInv'
  OBVIOUS
<1>0. /\ OwnPorts(site) /\ HalvesKnown /\ ConnsKnown
      /\ site \in [Ids -> {Free} \cup HubTunnels \cup SiteTunnels]
  BY DEF HomeInv, TTypeOK
<1>1. ASSUME SiteLasts, HubSame, ReqsSame, ConnsSame, SameOrLess(site, site') PROVE HomeInv'
  <2>1. OwnPorts(site')
    BY <1>0, <1>1, OwnKept
  <2>2. HalvesKnown' /\ ConnsKnown'
    BY <1>0, <1>1, HalvesOn, ConnsOn DEF HubSame
  <2>3. OwnPorts(site)'
    BY <2>1 DEF OwnPorts, Listening
  <2> QED BY <2>2, <2>3 DEF HomeInv
<1>2. ASSUME NEW o \in Operators, SiteOpen(o) PROVE HomeInv'
  <2> DEFINE p == FreePort(site, SitePorts)
             j == NewId(site)
             t == [state |-> "open", port |-> p, dst |-> treq[o].dst]
             answer == [step |-> "answered", dst |-> treq[o].dst, stid |-> j, lp |-> p]
  <2>1. j \in Ids /\ site[j].state = "free"
    BY <1>2, NewIdThere DEF SiteOpen
  <2>2. /\ UNCHANGED site \/ (CanBind(site, p) /\ site' = [site EXCEPT ![j] = t])
        /\ \/ treq' = [treq EXCEPT ![o] = TNoReq]
           \/ site' = [site EXCEPT ![j] = t] /\ treq' = [treq EXCEPT ![o] = answer]
        /\ UNCHANGED <<hub, conn>>
    BY <1>2 DEF SiteOpen
  <2>3. /\ t.state = "open" /\ t.port = p /\ t.dst = treq[o].dst
        /\ answer.step = "answered" /\ answer.dst = treq[o].dst /\ answer.stid = j /\ answer.lp = p
    OBVIOUS
  <2> HIDE DEF p, j, t, answer
  <2>4. OwnPorts(site')
    BY <1>0, <2>2, <2>3, OwnBound
  <2>5. SiteLasts /\ HubSame /\ HubLasts /\ ConnsSame
    BY <2>1, <2>2, RestOn DEF SiteLasts, TTypeOK
  <2>6. HalvesKnown'
    <3>1. CASE treq' = [treq EXCEPT ![o] = TNoReq]
      BY <1>0, <2>5, <3>1, StopsOn, HalvesOn
    <3>2. CASE site' = [site EXCEPT ![j] = t] /\ treq' = [treq EXCEPT ![o] = answer]
      <4>1. treq'[o] = answer /\ site'[j] = t /\ \A q \in Operators : q # o => treq'[q] = treq[q]
        BY <2>1, <3>2 DEF TTypeOK
      <4>2. Led(site', answer.stid, answer.lp, answer.dst)
        BY <2>1, <2>3, <4>1 DEF Led
      <4>3. ASSUME NEW q \in Operators, treq'[q].step = "answered" PROVE Led(site', treq'[q].stid, treq'[q].lp, treq'[q].dst)
        <5>1. CASE q = o
          BY <4>1, <4>2, <5>1
        <5>2. CASE q # o
          <6>1. treq'[q] = treq[q] /\ Led(site, treq[q].stid, treq[q].lp, treq[q].dst)
            BY <1>0, <4>1, <4>3, <5>2 DEF HalvesKnown
          <6>2. /\ treq[q].stid \in Ids /\ site'[treq[q].stid].state # "free" /\ site'[treq[q].stid].port = treq[q].lp
                /\ site'[treq[q].stid].dst = treq[q].dst
            BY <2>5, <6>1, LedOn
          <6> QED BY <6>1, <6>2 DEF Led
        <5> QED BY <5>1, <5>2
      <4>4. ASSUME NEW i \in Ids, hub'[i].state # "free"
            PROVE  IF hub'[i].stid = 0 THEN hub'[i].dst = Pi ELSE Led(site', hub'[i].stid, hub'[i].lp, hub'[i].dst)
        <5>1. hub'[i] = hub[i] /\ IF hub[i].stid = 0 THEN hub[i].dst = Pi ELSE Led(site, hub[i].stid, hub[i].lp, hub[i].dst)
          BY <1>0, <2>2, <4>4 DEF HalvesKnown
        <5>2. hub[i].stid # 0 => hub[i].stid \in Ids /\ site'[hub[i].stid].state # "free" /\ site'[hub[i].stid].port = hub[i].lp
                /\ site'[hub[i].stid].dst = hub[i].dst
          BY <2>5, <5>1, LedOn
        <5> QED BY <5>1, <5>2 DEF Led
      <4> QED BY <4>3, <4>4 DEF HalvesKnown
    <3> QED BY <2>2, <3>1, <3>2
  <2>7. ConnsKnown'
    BY <1>0, <2>5, ConnsOn
  <2>8. OwnPorts(site)'
    BY <2>4 DEF OwnPorts, Listening
  <2> QED BY <2>6, <2>7, <2>8 DEF HomeInv
<1>3. ASSUME NEW o \in Operators, HubOpen(o) \/ OpenDirect(o) PROVE HomeInv'
  <2> DEFINE p == FreePort(hub, HubPorts)
             i == NewId(hub)
             same == {j \in Ids : hub[j].state = "open" /\ hub[j].dst = Pi}
             shared == [j \in Ids |-> IF j \in same THEN [hub[j] EXCEPT !.allowed = @ \cup {o}] ELSE hub[j]]
             half == HubTunnel(p, treq[o].lp, treq[o].stid, o, treq[o].dst)
             direct == HubTunnel(p, 0, 0, o, Pi)
  <2>1. /\ UNCHANGED <<site, conn>> /\ treq' = [treq EXCEPT ![o] = TNoReq]
        /\ \/ UNCHANGED hub \/ hub' = shared \/ hub' = [hub EXCEPT ![i] = direct]
           \/ treq[o].step = "answered" /\ hub' = [hub EXCEPT ![i] = half]
    BY <1>3 DEF HubOpen, OpenDirect
  <2>2. i \in Ids /\ hub[i].state = "free"
    BY <1>3, NewIdThere DEF HubOpen, OpenDirect, TNoReq
  <2>3. /\ half.state = "open" /\ half.stid = treq[o].stid /\ half.lp = treq[o].lp /\ half.dst = treq[o].dst
        /\ direct.state = "open" /\ direct.stid = 0 /\ direct.dst = Pi
    BY DEF HubTunnel
  <2>4. SiteLasts /\ ReqsSame /\ ConnsSame /\ SameOrLess(site, site')
    BY <2>1, RestOn, StopsOn DEF SameOrLess
  <2>5. CASE UNCHANGED hub
    BY <1>1, <2>4, <2>5, RestOn
  <2>6. CASE hub' = shared
    <3>1. \A j \in same : hub[j] \in HubTunnels
      BY TunnelWhole DEF TTypeOK
    <3>2. \A j \in same : LET t == [hub[j] EXCEPT !.allowed = hub[j].allowed \cup {o}] IN
             t.state = hub[j].state /\ t.stid = hub[j].stid /\ t.lp = hub[j].lp /\ t.dst = hub[j].dst
      BY <3>1 DEF HubTunnels
    <3>3. HubSame
      BY <2>6, <3>2 DEF HubSame, HubLasts
    <3> QED BY <1>1, <2>4, <3>3
  <2>7. ASSUME NEW t, hub' = [hub EXCEPT ![i] = t], t.state = "open",
               IF t.stid = 0 THEN t.dst = Pi ELSE Led(site, t.stid, t.lp, t.dst)
        PROVE  HomeInv'
    <3> HIDE DEF i
    <3>1. \A j \in Ids : hub'[j] = IF j = i THEN t ELSE hub[j]
      BY <2>7 DEF TTypeOK
    <3>2. HubLasts
      BY <2>2, <3>1 DEF HubLasts
    <3>3. ConnsKnown'
      BY <1>0, <2>4, <3>2, ConnsOn
    <3>4. OwnPorts(site)'
      BY <1>0, <2>1 DEF OwnPorts, Listening
    <3>5. \A j \in Ids : hub'[j].state # "free" =>
             IF hub'[j].stid = 0 THEN hub'[j].dst = Pi ELSE Led(site', hub'[j].stid, hub'[j].lp, hub'[j].dst)
      BY <1>0, <2>1, <2>7, <3>1 DEF HalvesKnown
    <3>6. \A q \in Operators : treq'[q].step = "answered" => Led(site', treq'[q].stid, treq'[q].lp, treq'[q].dst)
      BY <1>0, <2>1, <2>4 DEF ReqsSame, HalvesKnown
    <3>7. HalvesKnown'
      BY <2>1, <3>5, <3>6 DEF HalvesKnown, Led
    <3> QED BY <3>3, <3>4, <3>7 DEF HomeInv
  <2>8. CASE hub' = [hub EXCEPT ![i] = direct]
    <3> HIDE DEF direct, i
    <3> QED BY <2>3, <2>7, <2>8
  <2>9. CASE treq[o].step = "answered" /\ hub' = [hub EXCEPT ![i] = half]
    <3>1. Led(site, half.stid, half.lp, half.dst)
      BY <1>0, <2>3, <2>9 DEF HalvesKnown
    <3>2. 0 \notin Ids
      BY DEF Ids
    <3>3. half.stid # 0
      BY <3>1, <3>2 DEF Led
    <3> HIDE DEF half, i
    <3> QED BY <2>3, <2>7, <2>9, <3>1, <3>3
  <2> QED BY <2>1, <2>5, <2>6, <2>8, <2>9
<1>4. ASSUME NEW i \in Ids, \/ HubClose(i) \/ HubReap(i) \/ HubStop(i)
                            \/ SiteClose(i) \/ SiteReap(i) \/ SiteStop(i) PROVE HomeInv'
  <2>1. /\ UNCHANGED hub \/ (\E s \in {"stopping", "closed"} : hub[i].state # "free" /\ hub' = [hub EXCEPT ![i].state = s])
        /\ UNCHANGED site \/ (\E s \in {"stopping", "closed"} : Listening(site[i]) /\ site' = [site EXCEPT ![i].state = s])
        /\ UNCHANGED treq
    BY <1>4 DEF HubClose, HubReap, HubStop, SiteClose, SiteReap, SiteStop, Listening
  <2>2. HubSame /\ SiteLasts /\ ReqsSame
    <3>1. {"stopping", "closed"} \subseteq States /\ (Listening(site[i]) => site[i].state # "free")
      BY DEF States, Listening
    <3> QED BY <2>1, <3>1, StopsOn, RestOn
  <2>3. SameOrLess(site, site')
    <3>1. Listening(site[i]) => site[i] \in SiteTunnels
      BY TunnelWhole DEF TTypeOK, Listening
    <3> QED BY <1>0, <2>1, <3>1 DEF SameOrLess, Listening, SiteTunnels
  <2>4. ConnsSame
    <3>1. CASE UNCHANGED conn
      BY <3>1, RestOn
    <3>2. CASE conn' = [k \in Conns |-> IF k \in HubConns(i) THEN [conn[k] EXCEPT !.near = "over"] ELSE conn[k]]
      <4>1. \A k \in HubConns(i) : conn[k] \in Connections /\ conn[k] # NoConn
        BY ConnThere DEF HubConns
      <4>2. \A k \in HubConns(i) : [conn[k] EXCEPT !.near = "over"].hub = conn[k].hub
        BY <4>1 DEF Connections
      <4> QED BY <3>2, <4>1, <4>2 DEF ConnsSame
    <3>3. CASE conn' = [k \in Conns |-> IF k \in SiteConns(i) THEN [conn[k] EXCEPT !.far = "over"] ELSE conn[k]]
      <4>1. \A k \in SiteConns(i) : conn[k] \in Connections /\ conn[k] # NoConn
        BY ConnThere DEF SiteConns
      <4>2. \A k \in SiteConns(i) : [conn[k] EXCEPT !.far = "over"].hub = conn[k].hub
        BY <4>1 DEF Connections
      <4> QED BY <3>3, <4>1, <4>2 DEF ConnsSame
    <3> QED BY <1>4, <3>1, <3>2, <3>3 DEF HubClose, HubReap, HubStop, SiteClose, SiteReap, SiteStop
  <2> QED BY <1>1, <2>2, <2>3, <2>4
<1>5. CASE THubRestart \/ TSiteRestart
  <2>1. SameOrLess(site, Gone(site)) /\ SameOrLess(site, site)
    BY GoneSilent DEF SameOrLess
  <2>2. HubSame /\ SiteLasts /\ SameOrLess(site, site')
    BY <1>5, <2>1, StopsOn, RestOn DEF THubRestart, TSiteRestart
  <2>3. ReqsSame
    BY <1>5 DEF THubRestart, TSiteRestart, ReqsSame, TNoReq
  <2>4. \A k \in Conns : conn[k] # NoConn => conn[k] \in Connections
    BY DEF TTypeOK
  <2>5. \A k \in Conns : conn[k] # NoConn => [conn[k] EXCEPT !.near = "over"].hub = conn[k].hub /\ [conn[k] EXCEPT !.far = "over"].hub = conn[k].hub
    BY <2>4 DEF Connections
  <2>6. ConnsSame
    <3>1. \A k \in Conns : conn[k] = NoConn => conn[k].far = "none"
      BY DEF NoConn
    <3> QED BY <1>5, <2>5, <3>1 DEF THubRestart, TSiteRestart, ConnsSame
  <2> QED BY <1>1, <2>2, <2>3, <2>6
<1>6. ASSUME NEW o \in Operators, Unreachable(o) \/ \E d \in Targets \cup {Pi} : TAsk(o, d) PROVE HomeInv'
  <2>1. ReqsSame
    <3>1. CASE Unreachable(o)
      BY <3>1, StopsOn DEF Unreachable
    <3>2. ASSUME NEW d, TAsk(o, d) PROVE ReqsSame
      BY <3>2 DEF TAsk, ReqsSame, TTypeOK
    <3> QED BY <1>6, <3>1, <3>2
  <2>2. SameOrLess(site, site)
    BY DEF SameOrLess
  <2> QED BY <1>1, <1>6, <2>1, <2>2, RestOn DEF Unreachable, TAsk
<1>7. ASSUME NEW k \in Conns, Handlers(k) \/ HangUp(k) PROVE HomeInv'
  <2>1. conn[k].near # "none" \/ conn[k].far # "none"
    BY <1>7 DEF Handlers, HubRelay, SiteRelay, PumpEnds, HangUp
  <2>2. conn[k] \in Connections /\ conn[k] # NoConn
    BY <2>1, ConnThere
  <2>3. \E x : conn' = [conn EXCEPT ![k] = x] /\ x.hub = conn[k].hub
    <3>1. /\ \A h \in Hops : [conn[k] EXCEPT !.near = h].hub = conn[k].hub /\ [conn[k] EXCEPT !.far = h].hub = conn[k].hub
          /\ \A j : [conn[k] EXCEPT !.near = "up", !.far = "accepted", !.site = j].hub = conn[k].hub
      BY <2>2 DEF Connections
    <3>2. "up" \in Hops /\ "over" \in Hops
      BY DEF Hops
    <3>3. CASE HubRelay(k)
      BY <3>1, <3>2, <3>3, Zenon DEF HubRelay
    <3>4. CASE SiteRelay(k) \/ PumpEnds(k) \/ HangUp(k)
      <4>1. \E h \in Hops : conn' = [conn EXCEPT ![k].near = h] \/ conn' = [conn EXCEPT ![k].far = h]
        BY <3>2, <3>4 DEF SiteRelay, PumpEnds, HangUp
      <4> QED BY <3>1, <4>1
    <3> QED BY <1>7, <3>3, <3>4 DEF Handlers
  <2>4. ConnsSame
    BY <2>2, <2>3 DEF ConnsSame, TTypeOK
  <2>5. SameOrLess(site, site)
    BY DEF SameOrLess
  <2> QED BY <1>1, <1>7, <2>4, <2>5, RestOn DEF Handlers, HubRelay, SiteRelay, PumpEnds, HangUp
<1>8. ASSUME NEW k \in Conns, NEW o \in Operators, NEW i \in Ids, Connect(k, o, i) PROVE HomeInv'
  <2>1. /\ conn' = [conn EXCEPT ![k] = [near |-> "accepted", hub |-> i, far |-> "none", site |-> 0]]
        /\ hub[i].state # "free" /\ UNCHANGED <<hub, site, treq>>
    BY <1>8 DEF Connect, Listening
  <2>2. ConnsKnown'
    <3>1. ASSUME NEW x \in Conns, conn'[x] # NoConn PROVE conn'[x].hub \in Ids /\ hub'[conn'[x].hub].state # "free"
      BY <1>0, <2>1, <3>1 DEF ConnsKnown, TTypeOK
    <3> QED BY <3>1 DEF ConnsKnown
  <2>3. HalvesKnown'
    BY <1>0, <2>1, RestOn, HalvesOn
  <2>4. OwnPorts(site)'
    BY <1>0, <2>1 DEF OwnPorts, Listening
  <2> QED BY <2>2, <2>3, <2>4 DEF HomeInv
<1>9. CASE UNCHANGED tvars
  <2>1. SameOrLess(site, site)
    BY DEF SameOrLess
  <2> QED BY <1>1, <1>9, <2>1, RestOn DEF tvars
<1> QED BY <1>2, <1>3, <1>4, <1>5, <1>6, <1>7, <1>8, <1>9 DEF TNext

\* The one step that takes a connection to the site.
TakenHome(k) ==
    conn[k].far = "none" /\ conn'[k].far # "none" =>
        LET h == hub[conn[k].hub] IN Listening(site[h.stid]) => conn'[k].site = h.stid /\ site[h.stid].dst = h.dst

LEMMA RelayedHome == TTypeOK /\ HomeInv /\ [TNext]_tvars => \A k \in Conns : TakenHome(k)
<1> SUFFICES ASSUME TTypeOK, HomeInv, [TNext]_tvars, NEW k \in Conns, conn[k].far = "none", conn'[k].far # "none"
             PROVE  TakenHome(k)
  BY DEF TakenHome
<1>1. CASE HubRelay(k)
  <2> DEFINE h == hub[conn[k].hub]
             at == {i \in Ids : Listening(site[i]) /\ site[i].port = h.lp}
             s == CHOOSE i \in at : TRUE
  <2>1. conn[k].near = "accepted" /\ conn[k] \in Connections /\ conn[k] # NoConn
    BY <1>1, ConnThere DEF HubRelay
  <2>2. /\ [conn[k] EXCEPT !.near = "up"].far = "none" /\ [conn[k] EXCEPT !.near = "over"].far = "none"
        /\ [conn[k] EXCEPT !.near = "up", !.far = "accepted", !.site = s].site = s
    BY <2>1 DEF Connections
  <2>3. conn'[k] = IF h.dst = Pi THEN [conn[k] EXCEPT !.near = "up"]
                   ELSE IF at = {} THEN [conn[k] EXCEPT !.near = "over"]
                   ELSE [conn[k] EXCEPT !.near = "up", !.far = "accepted", !.site = s]
    BY <1>1 DEF HubRelay, TTypeOK
  <2>4. h.dst # Pi /\ at # {} /\ conn'[k].site = s
    BY <2>2, <2>3
  <2>5. Led(site, h.stid, h.lp, h.dst)
    BY <2>1, <2>4 DEF HomeInv, ConnsKnown, HalvesKnown
  <2>6. ASSUME Listening(site[h.stid]) PROVE s = h.stid
    <3>1. h.stid \in at
      BY <2>5, <2>6 DEF Led
    <3>2. \A i \in at : i = h.stid
      BY <2>5, <2>6 DEF Led, HomeInv, OwnPorts
    <3> HIDE DEF at
    <3> QED BY <3>1, <3>2
  <2> HIDE DEF s, at
  <2> QED BY <2>4, <2>5, <2>6 DEF TakenHome, Led
<1>2. ASSUME NEW q \in Conns, q # k, conn'[k] = conn[k] PROVE FALSE
  BY <1>2
<1>3. ASSUME NEW q \in Conns, q # k, \E x : conn' = [conn EXCEPT ![q] = x] PROVE FALSE
  BY <1>3 DEF TTypeOK
<1>4. ASSUME UNCHANGED conn PROVE FALSE
  BY <1>4
<1>5. ASSUME NEW q \in Conns, HubRelay(q) PROVE TakenHome(k)
  <2>1. \E x : conn' = [conn EXCEPT ![q] = x]
    BY <1>5, Zenon DEF HubRelay
  <2> QED BY <1>1, <1>3, <1>5, <2>1
<1>6. ASSUME NEW q \in Conns, SiteRelay(q) \/ PumpEnds(q) \/ HangUp(q) PROVE FALSE
  <2>1. \E x : conn' = [conn EXCEPT ![q] = x]
    BY <1>6 DEF SiteRelay, PumpEnds, HangUp
  <2>2. q = k
    BY <1>3, <2>1
  <2>3. conn[k] \in Connections
    BY <1>6, <2>2, ConnWhole DEF SiteRelay, PumpEnds, HangUp, TTypeOK
  <2> QED BY <1>6, <2>2, <2>3 DEF SiteRelay, PumpEnds, HangUp, Connections, TTypeOK
<1>7. ASSUME NEW q \in Conns, NEW o \in Operators, NEW i \in Ids, Connect(q, o, i) PROVE FALSE
  <2>1. conn' = [conn EXCEPT ![q] = [near |-> "accepted", hub |-> i, far |-> "none", site |-> 0]]
    BY <1>7 DEF Connect
  <2>2. q = k
    BY <1>3, <2>1
  <2> QED BY <2>1, <2>2 DEF TTypeOK
<1>8. ASSUME NEW i \in Ids, \/ HubClose(i) \/ HubReap(i) \/ HubStop(i)
                            \/ SiteClose(i) \/ SiteReap(i) \/ SiteStop(i) PROVE FALSE
  <2>1. \/ UNCHANGED conn
        \/ conn' = [x \in Conns |-> IF x \in HubConns(i) THEN [conn[x] EXCEPT !.near = "over"] ELSE conn[x]]
        \/ conn' = [x \in Conns |-> IF x \in SiteConns(i) THEN [conn[x] EXCEPT !.far = "over"] ELSE conn[x]]
    BY <1>8 DEF HubClose, HubReap, HubStop, SiteClose, SiteReap, SiteStop
  <2>2. k \notin SiteConns(i)
    BY DEF SiteConns
  <2>3. k \in HubConns(i) => conn[k] \in Connections
    BY ConnWhole DEF HubConns, TTypeOK
  <2>4. k \in HubConns(i) => [conn[k] EXCEPT !.near = "over"].far = conn[k].far
    BY <2>3 DEF Connections
  <2> QED BY <2>1, <2>2, <2>4
<1>9. CASE THubRestart
  <2>1. conn[k] # NoConn => conn[k] \in Connections
    BY DEF TTypeOK
  <2>2. conn[k] # NoConn => [conn[k] EXCEPT !.near = "over"].far = conn[k].far
    BY <2>1 DEF Connections
  <2> QED BY <1>9, <2>2 DEF THubRestart
<1>10. CASE TSiteRestart
  BY <1>10 DEF TSiteRestart
<1>11. ASSUME NEW o \in Operators, SiteOpen(o) \/ Unreachable(o) \/ HubOpen(o) \/ OpenDirect(o) \/
                                   \E d \in Targets \cup {Pi} : TAsk(o, d) PROVE FALSE
  BY <1>4, <1>11 DEF SiteOpen, Unreachable, HubOpen, OpenDirect, TAsk
<1>12. CASE UNCHANGED tvars
  BY <1>4, <1>12 DEF tvars
<1> QED BY <1>5, <1>6, <1>7, <1>8, <1>9, <1>10, <1>11, <1>12 DEF TNext, Handlers

\* A connection to a tunnel of the hub is taken to the site's half of this tunnel, and to its
\* device, as long as that half listens, for any operators, devices, ports, requests, lost
\* messages and restarts.
THEOREM RightDevices == TSpec => RightDevice
<1>1. TInit => TTypeOK /\ SlotInv /\ HomeInv
  <2> SUFFICES ASSUME TInit PROVE HomeInv
    BY TunnelsInit
  <2>1. OwnPorts(site)
    BY DEF TInit, OwnPorts, Listening, Free
  <2>2. HalvesKnown /\ ConnsKnown
    BY DEF TInit, HalvesKnown, ConnsKnown, Free, TNoReq
  <2> QED BY <2>1, <2>2 DEF HomeInv
<1>2. TTypeOK /\ SlotInv /\ HomeInv /\ [TNext]_tvars => (TTypeOK /\ SlotInv /\ HomeInv)'
  BY TypeStep, SlotStep, HomeStep
<1>3. TTypeOK /\ HomeInv /\ [TNext]_tvars =>
        [\A k \in Conns : conn[k].far = "none" /\ conn'[k].far # "none" =>
            LET h == hub[conn[k].hub] IN
            Listening(site[h.stid]) => conn'[k].site = h.stid /\ site[h.stid].dst = h.dst]_tvars
  BY RelayedHome DEF TakenHome
<1> QED BY <1>1, <1>2, <1>3, PTL DEF TSpec, RightDevice

(***************************************************************************)
(* No half of a tunnel is left over at the site.                           *)
(***************************************************************************)
HandsOver(o) ==
    treq[o].step = "answered" /\ treq'[o] = TNoReq /\ hub' # Gone(hub) =>
        \/ treq[o].stid \in toClose'
        \/ \E i \in Ids : hub'[i].state = "open" /\ hub'[i].stid = treq[o].stid

LEMMA HandStep == TTypeOK /\ SlotInv /\ [TNext]_tvars => \A o \in Operators : HandsOver(o)
<1> SUFFICES ASSUME TTypeOK, SlotInv, [TNext]_tvars, NEW o \in Operators, treq[o].step = "answered", treq'[o] = TNoReq,
                    hub' # Gone(hub)
             PROVE  HandsOver(o)
  BY DEF HandsOver
<1>0. treq[o] # TNoReq /\ treq[o].step # "asked"
  BY DEF TNoReq
<1>1. treq' # treq
  BY <1>0
<1>2. CASE HubOpen(o)
  <2> DEFINE p == FreePort(hub, HubPorts)
             t == HubTunnel(p, treq[o].lp, treq[o].stid, o, treq[o].dst)
             i == NewId(hub)
  <2>1. i \in Ids
    BY <1>0, NewIdThere
  <2>2. treq[o].stid \in toClose' \/ hub' = [hub EXCEPT ![i] = t]
    BY <1>2 DEF HubOpen, GiveUp
  <2>3. t.state = "open" /\ t.stid = treq[o].stid
    BY DEF HubTunnel
  <2> HIDE DEF i, t
  <2>4. hub' = [hub EXCEPT ![i] = t] => hub'[i] = t
    BY <2>1 DEF TTypeOK
  <2> QED BY <2>1, <2>2, <2>3, <2>4 DEF HandsOver
<1>3. ASSUME NEW q \in Operators, q # o, treq'[o] = treq[o] PROVE HandsOver(o)
  BY <1>0, <1>3
<1>4. ASSUME NEW q \in Operators, SiteOpen(q) \/ Unreachable(q) \/ OpenDirect(q) \/ (q # o /\ HubOpen(q)) \/
                                  \E d \in Targets \cup {Pi} : TAsk(q, d)
      PROVE  HandsOver(o)
  <2>1. q # o
    BY <1>0, <1>4 DEF SiteOpen, Unreachable, OpenDirect, TAsk
  <2>2. \E r : treq' = [treq EXCEPT ![q] = r]
    BY <1>4 DEF SiteOpen, Unreachable, OpenDirect, HubOpen, TAsk
  <2>3. treq'[o] = treq[o]
    BY <2>1, <2>2 DEF TTypeOK
  <2> QED BY <1>0, <2>3
<1>5. CASE THubRestart
  BY <1>5 DEF THubRestart
<1>6. CASE TSiteRestart
  BY <1>1, <1>6 DEF TSiteRestart
<1>7. ASSUME NEW i \in Ids, \/ HubClose(i) \/ HubReap(i) \/ HubStop(i)
                            \/ SiteClose(i) \/ SiteReap(i) \/ SiteStop(i) PROVE HandsOver(o)
  BY <1>1, <1>7 DEF HubClose, HubReap, HubStop, SiteClose, SiteReap, SiteStop
<1>8. ASSUME NEW c \in Conns, Handlers(c) \/ HangUp(c) \/ \E q \in Operators, i \in Ids : Connect(c, q, i) PROVE HandsOver(o)
  BY <1>1, <1>8 DEF Handlers, HubRelay, SiteRelay, PumpEnds, HangUp, Connect
<1>9. CASE UNCHANGED tvars
  BY <1>1, <1>9 DEF tvars
<1> QED BY <1>2, <1>4, <1>5, <1>6, <1>7, <1>8, <1>9 DEF TNext

\* The site's half of a tunnel is handed over to a tunnel of the hub or is on its way to be
\* closed, whatever the hub could bind, unless the hub restarted.
THEOREM HalvesHandedOver == TSpec => HandedOver
<1>1. TInit => TTypeOK /\ SlotInv
  BY TunnelsInit
<1>2. TTypeOK /\ SlotInv /\ [TNext]_tvars => (TTypeOK /\ SlotInv)'
  BY TypeStep, SlotStep
<1>3. TTypeOK /\ SlotInv /\ [TNext]_tvars =>
        [\A o \in Operators : treq[o].step = "answered" /\ treq'[o] = TNoReq /\ hub' # Gone(hub) =>
            \/ treq[o].stid \in toClose'
            \/ \E i \in Ids : hub'[i].state = "open" /\ hub'[i].stid = treq[o].stid]_tvars
  BY HandStep DEF HandsOver
<1> QED BY <1>1, <1>2, <1>3, PTL DEF TSpec, HandedOver

(***************************************************************************)
(* Time keeping: the least and the largest of minutes.                     *)
(***************************************************************************)
LEMMA MinOf == ASSUME NEW S, S \subseteq Nat, S # {} PROVE Min(S) \in S /\ \A n \in S : Min(S) <= n
<1>1. PICK m \in S : \A n \in S : m <= n
  BY LeastOne
<1> QED BY <1>1 DEF Min

LEMMA MaxOf ==
    ASSUME NEW b \in Nat, NEW S, S \subseteq Nat, S # {}, \A n \in S : n <= b
    PROVE  Max(S) \in S /\ \A n \in S : n <= Max(S)
<1> DEFINE bounds == {c \in Nat : \A n \in S : n <= c}
<1>1. PICK c \in bounds : \A d \in bounds : c <= d
  <2>1. bounds \subseteq Nat /\ b \in bounds
    OBVIOUS
  <2> HIDE DEF bounds
  <2> QED BY <2>1, LeastOne
<1>2. c \in S
  <2> SUFFICES ASSUME c \notin S PROVE FALSE
    OBVIOUS
  <2>1. \A n \in S : n <= c /\ n # c /\ n \in Nat
    BY <1>1
  <2>2. c \in Nat /\ c # 0
    <3>1. PICK n : n \in S
      OBVIOUS
    <3> QED BY <1>1, <2>1, <3>1
  <2>3. c - 1 \in bounds
    BY <2>1, <2>2
  <2> QED BY <1>1, <2>2, <2>3
<1>3. \A n \in S : c >= n
  BY <1>1
<1> HIDE DEF bounds
<1> QED BY <1>2, <1>3 DEF Max

LEMMA DayTyped == /\ Day \in Nat /\ Day > 0
                  /\ \A m \in Minutes : m \in Nat /\ m < Day /\ m <= Day /\ m + 1 <= Day
                  /\ Hub = 0 /\ Farms \subseteq Nat \ {0} /\ Places = Farms \cup {0}
BY DayAssumption DEF Minutes, Hub, Places

(***************************************************************************)
(* Runs: stretches of minutes, in order and apart from each other.         *)
(***************************************************************************)
BeforeIn(where, m) == {p \in DOMAIN where : p < m}
Starts(where, gap, m) ==
    LET before == BeforeIn(where, m) IN
    before # {} => where[Max(before)] # where[m] \/ m - (Max(before) + 1) > gap

LEMMA StartsAre == ASSUME NEW where, NEW gap
                   PROVE  RunStarts(where, gap) = {m \in DOMAIN where : Starts(where, gap, m)}
BY DEF RunStarts, Starts, BeforeIn

LastIn(where, gap, s) == {m \in DOMAIN where : m >= s /\ \A t \in RunStarts(where, gap) : t > s => m < t}
RunAt(where, gap, s) == [site |-> where[s], start |-> s, end |-> Max(LastIn(where, gap, s)) + 1]

LEMMA RunsAre == ASSUME NEW where, NEW gap
                 PROVE  Runs(where, gap) = {RunAt(where, gap, s) : s \in RunStarts(where, gap)}
BY DEF Runs, RunAt, LastIn

LEMMA LastIs ==
    ASSUME NEW where, NEW gap, DOMAIN where \subseteq Minutes, NEW s \in RunStarts(where, gap)
    PROVE  LET l == Max(LastIn(where, gap, s)) IN
           /\ s \in DOMAIN where /\ s \in Minutes /\ l \in DOMAIN where /\ l \in Minutes /\ s <= l
           /\ \A t \in RunStarts(where, gap) : t > s => l < t
           /\ \A m \in DOMAIN where : m >= s /\ (\A t \in RunStarts(where, gap) : t > s => m < t) => m <= l
<1> DEFINE L == LastIn(where, gap, s)
<1>1. s \in DOMAIN where /\ s \in Minutes /\ RunStarts(where, gap) \subseteq DOMAIN where
  BY DEF RunStarts
<1>2. s \in L /\ L \subseteq DOMAIN where
  <2>1. \A t \in RunStarts(where, gap) : t > s => s < t
    BY <1>1, DayTyped
  <2> QED BY <1>1, <2>1, DayTyped DEF LastIn
<1>3. L \subseteq Nat /\ (\A n \in L : n <= Day)
  BY <1>2, DayTyped
<1>4. Max(L) \in L /\ \A n \in L : n <= Max(L)
  <2> HIDE DEF L
  <2> QED BY <1>2, <1>3, DayTyped, MaxOf
<1> QED BY <1>1, <1>2, <1>4 DEF LastIn

\* What comes right before a minute that no run starts with.
LEMMA GoesOn ==
    ASSUME NEW where, NEW gap, DOMAIN where \subseteq Minutes, NEW m \in DOMAIN where,
           NEW s \in DOMAIN where, s < m, m \notin RunStarts(where, gap)
    PROVE  LET b == Max(BeforeIn(where, m)) IN
           /\ b \in DOMAIN where /\ s <= b /\ b < m /\ where[b] = where[m] /\ ~(m - (b + 1) > gap)
           /\ \A n \in DOMAIN where : n < m => n <= b
<1> DEFINE B == BeforeIn(where, m)
<1>1. s \in B /\ B \subseteq Nat /\ (\A n \in B : n <= Day) /\ B \subseteq DOMAIN where
  BY DayTyped DEF BeforeIn
<1>2. Max(B) \in B /\ \A n \in B : n <= Max(B)
  <2> HIDE DEF B
  <2> QED BY <1>1, DayTyped, MaxOf
<1>3. ~Starts(where, gap, m)
  BY StartsAre
<1>4. where[Max(B)] = where[m] /\ ~(m - (Max(B) + 1) > gap)
  BY <1>1, <1>3 DEF Starts
<1> QED BY <1>1, <1>2, <1>4 DEF BeforeIn

LEMMA RunOneSite ==
    ASSUME NEW where, NEW gap, DOMAIN where \subseteq Minutes, NEW s \in RunStarts(where, gap),
           NEW m \in DOMAIN where, m >= s, \A t \in RunStarts(where, gap) : t > s => m < t
    PROVE  where[m] = where[s]
<1> DEFINE Odd == {n \in DOMAIN where : /\ n >= s /\ where[n] # where[s]
                                        /\ \A t \in RunStarts(where, gap) : t > s => n < t}
<1>0. s \in DOMAIN where /\ RunStarts(where, gap) \subseteq DOMAIN where
  BY DEF RunStarts
<1>1. SUFFICES ASSUME Odd # {} PROVE FALSE
  OBVIOUS
<1>2. PICK n \in Odd : \A o \in Odd : n <= o
  <2>1. Odd \subseteq Nat
    BY DayTyped
  <2> HIDE DEF Odd
  <2> QED BY <1>1, <2>1, LeastOne
<1>3. n \in DOMAIN where /\ n \in Nat /\ s \in Nat /\ s < n /\ where[n] # where[s]
      /\ \A t \in RunStarts(where, gap) : t > s => n < t
  BY <1>0, <1>2, DayTyped
<1>4. n \notin RunStarts(where, gap)
  BY <1>3
<1>5. PICK b \in DOMAIN where : s <= b /\ b < n /\ where[b] = where[n]
  BY <1>0, <1>3, <1>4, GoesOn
<1>6. b \in Nat
  BY DayTyped
<1>7. b \in Odd
  <2>1. \A t \in RunStarts(where, gap) : t \in Nat /\ (t > s => b < t)
    BY <1>0, <1>3, <1>5, <1>6, DayTyped
  <2> QED BY <1>3, <1>5, <1>6, <2>1
<1> QED BY <1>2, <1>3, <1>5, <1>6, <1>7

LEMMA RunTyped ==
    ASSUME NEW where, NEW gap, DOMAIN where \subseteq Minutes, NEW r \in Runs(where, gap)
    PROVE  /\ r.start \in RunStarts(where, gap) /\ r.start \in DOMAIN where /\ r.start \in Minutes /\ r.start \in Nat
           /\ r.end \in 1..Day /\ r.end \in Nat /\ r.start < r.end /\ r.end - 1 \in DOMAIN where
           /\ r.site = where[r.start] /\ r = RunAt(where, gap, r.start)
           /\ r = [site |-> r.site, start |-> r.start, end |-> r.end]
           /\ \A t \in RunStarts(where, gap) : t > r.start => r.end <= t
           /\ \A m \in DOMAIN where :
                  m < r.end <=> (m < r.start \/ \A t \in RunStarts(where, gap) : t > r.start => m < t)
<1>1. PICK s \in RunStarts(where, gap) : r = RunAt(where, gap, s)
  BY RunsAre
<1> DEFINE l == Max(LastIn(where, gap, s))
<1>2. r = [site |-> where[s], start |-> s, end |-> l + 1]
  BY <1>1 DEF RunAt
<1>3. /\ s \in DOMAIN where /\ s \in Minutes /\ l \in DOMAIN where /\ l \in Minutes /\ s <= l
      /\ \A t \in RunStarts(where, gap) : t > s => l < t
      /\ \A m \in DOMAIN where : m >= s /\ (\A t \in RunStarts(where, gap) : t > s => m < t) => m <= l
  BY LastIs
<1>4. RunStarts(where, gap) \subseteq DOMAIN where
  BY DEF RunStarts
<1> HIDE DEF l
<1>5. s \in Nat /\ l \in Nat /\ l + 1 <= Day /\ l + 1 - 1 = l /\ l + 1 \in 1..Day /\ s < l + 1
  BY <1>3, DayTyped
<1>6. \A t \in RunStarts(where, gap) : t \in Nat /\ (t > s => l + 1 <= t)
  BY <1>3, <1>4, <1>5, DayTyped
<1>7. ASSUME NEW m \in DOMAIN where
      PROVE  m < l + 1 <=> (m < s \/ \A t \in RunStarts(where, gap) : t > s => m < t)
  <2>1. m \in Nat
    BY DayTyped
  <2> QED BY <1>3, <1>5, <1>6, <2>1
<1>8. r.start = s /\ r.end = l + 1 /\ r.site = where[s]
  BY <1>2
<1>9. r = RunAt(where, gap, r.start)
  BY <1>1, <1>8
<1>10. r = [site |-> r.site, start |-> r.start, end |-> r.end]
  BY <1>2, <1>8
<1>11. \A t \in RunStarts(where, gap) : t > r.start => r.end <= t
  BY <1>6, <1>8
<1>12. \A m \in DOMAIN where : m < r.end <=> (m < r.start \/ \A t \in RunStarts(where, gap) : t > r.start => m < t)
  BY <1>7, <1>8
<1> QED BY <1>3, <1>5, <1>8, <1>9, <1>10, <1>11, <1>12

\* Two runs of one activity are apart.
LEMMA RunsApart ==
    ASSUME NEW where, NEW gap, DOMAIN where \subseteq Minutes, NEW r \in Runs(where, gap), NEW q \in Runs(where, gap)
    PROVE  r = q \/ r.end <= q.start \/ q.end <= r.start
<1>1. r.start \in Nat /\ q.start \in Nat /\ r.start \in RunStarts(where, gap) /\ q.start \in RunStarts(where, gap)
      /\ r = RunAt(where, gap, r.start) /\ q = RunAt(where, gap, q.start)
      /\ (q.start > r.start => r.end <= q.start) /\ (r.start > q.start => q.end <= r.start)
  BY RunTyped
<1>2. CASE r.start = q.start
  BY <1>1, <1>2
<1>3. CASE r.start # q.start
  <2>1. r.start > q.start \/ q.start > r.start
    BY <1>1, <1>3
  <2> QED BY <1>1, <2>1
<1> QED BY <1>2, <1>3

\* Each minute is in a run, of its own place.
LEMMA RunsCover ==
    ASSUME NEW where, NEW gap, DOMAIN where \subseteq Minutes, NEW m \in DOMAIN where
    PROVE  \E r \in Runs(where, gap) : r.start <= m /\ m < r.end
<1> DEFINE S == {s \in RunStarts(where, gap) : s <= m}
<1>1. RunStarts(where, gap) \subseteq DOMAIN where /\ m \in Nat
  BY DayTyped DEF RunStarts
<1>2. S \subseteq Nat /\ (\A s \in S : s <= m)
  BY <1>1, DayTyped
<1>3. S # {}
  <2>1. DOMAIN where \subseteq Nat /\ DOMAIN where # {}
    BY DayTyped
  <2>2. PICK n \in DOMAIN where : \A o \in DOMAIN where : n <= o
    BY <2>1, LeastOne
  <2>3. BeforeIn(where, n) = {}
    BY <2>1, <2>2 DEF BeforeIn
  <2>4. n \in RunStarts(where, gap)
    BY <2>3, StartsAre DEF Starts
  <2> QED BY <2>2, <2>4
<1>4. PICK s \in S : \A t \in S : t <= s
  <2> HIDE DEF S
  <2> QED BY <1>1, <1>2, <1>3, MaxOf
<1>5. s \in RunStarts(where, gap) /\ s <= m /\ s \in Nat
  BY <1>2
<1>6. \A t \in RunStarts(where, gap) : t > s => m < t
  <2> SUFFICES ASSUME NEW t \in RunStarts(where, gap), t > s PROVE m < t
    OBVIOUS
  <2>1. t \in Nat
    BY <1>1, DayTyped
  <2>2. ~(t <= m)
    BY <1>4, <1>5, <2>1
  <2> QED BY <1>1, <2>1, <2>2
<1> DEFINE r == RunAt(where, gap, s)
<1>7. r \in Runs(where, gap) /\ r.start = s
  BY <1>5, RunsAre DEF RunAt
<1> HIDE DEF r
<1>8. m < r.end
  BY <1>6, <1>7, RunTyped
<1> QED BY <1>5, <1>7, <1>8

LEMMA RunOfOneSite ==
    ASSUME NEW where, NEW gap, DOMAIN where \subseteq Minutes, NEW r \in Runs(where, gap),
           NEW m \in DOMAIN where, r.start <= m, m < r.end
    PROVE  where[m] = r.site
<1>1. r.start \in RunStarts(where, gap) /\ r.site = where[r.start] /\ r.start \in Nat /\ m \in Nat
  BY RunTyped, DayTyped
<1>2. \A t \in RunStarts(where, gap) : t > r.start => m < t
  <2>1. ~(m < r.start)
    BY <1>1
  <2> QED BY <2>1, RunTyped
<1>3. m >= r.start
  BY <1>1
<1> QED BY <1>1, <1>2, <1>3, RunOneSite

\* Without a gap a run has no hole.
LEMMA RunsWhole ==
    ASSUME NEW where, DOMAIN where \subseteq Minutes, NEW r \in Runs(where, 0),
           NEW m \in Minutes, r.start <= m, m < r.end
    PROVE  m \in DOMAIN where
<1>1. SUFFICES ASSUME m \notin DOMAIN where PROVE FALSE
  OBVIOUS
<1>2. /\ r.start \in DOMAIN where /\ r.start \in Nat /\ r.end \in Nat /\ r.end - 1 \in DOMAIN where /\ m \in Nat
      /\ \A t \in RunStarts(where, 0) : t > r.start => r.end <= t
  BY RunTyped, DayTyped
<1> DEFINE later == {n \in DOMAIN where : m < n}
<1>3. later \subseteq Nat /\ later # {} /\ r.end - 1 \in later
  <2>1. r.end - 1 > m
    BY <1>1, <1>2
  <2> QED BY <1>2, <2>1, DayTyped
<1>4. PICK n \in later : \A o \in later : n <= o
  <2> HIDE DEF later
  <2> QED BY <1>3, LeastOne
<1>5. n \in DOMAIN where /\ n \in Nat /\ m < n /\ r.start < n /\ n < r.end
  BY <1>2, <1>3, <1>4
<1>6. n \notin RunStarts(where, 0)
  BY <1>2, <1>5
<1>7. PICK b \in DOMAIN where : r.start <= b /\ b < n /\ ~(n - (b + 1) > 0)
  BY <1>2, <1>5, <1>6, GoesOn
<1>8. b \in Nat /\ b # m
  BY <1>1, DayTyped
<1>9. b \in later
  BY <1>2, <1>5, <1>7, <1>8
<1> QED BY <1>4, <1>5, <1>7, <1>8, <1>9

(***************************************************************************)
(* Drafts: what a builder makes, and what it makes of a day.               *)
(***************************************************************************)
SourceKind == [auto |-> "remote", wifi |-> "onsite", claude |-> "dev"]

DraftRecs ==
    {d \in [kind : {"remote", "onsite", "dev"}, site : Places, start : Minutes, end : 1..Day,
            source : AutoSources, status : {"draft"}, edited : {FALSE}] :
        d.start < d.end /\ d.kind = SourceKind[d.source]}

Within(m, x) == x.start <= m /\ m < x.end
Apart(x, y) == x.end <= y.start \/ y.end <= x.start

Session(r) == r.start \in Minutes /\ r.end \in 1..Day /\ r.site \in Places
Tidy(sessions) == \A r, q \in sessions : r = q \/ Apart(r, q)
Steady(sessions) == \A r, q \in sessions : r = q \/ Apart(r, q) \/ r.site # q.site

PieceOf(holes, r) == [m \in (r.start..(r.end - 1)) \ holes |-> r.site]
Pieces(kind, source, holes, sessions) ==
    UNION {{Draft(kind, source, p) : p \in Runs(PieceOf(holes, r), 0)} : r \in sessions}

LEMMA StretchesAre == ASSUME NEW kind, NEW source, NEW sessions
                      PROVE  Stretches(kind, source, sessions) = Pieces(kind, source, Holes(Origin[source]), sessions)
BY DEF Stretches, Pieces, PieceOf

LEMMA PieceIs ==
    ASSUME NEW holes, NEW r, Session(r)
    PROVE  /\ DOMAIN PieceOf(holes, r) \subseteq Minutes
           /\ \A m : m \in DOMAIN PieceOf(holes, r) <=> m \in Minutes /\ Within(m, r) /\ m \notin holes
           /\ \A m \in DOMAIN PieceOf(holes, r) : PieceOf(holes, r)[m] = r.site
BY DayAssumption DEF PieceOf, Session, Within, Minutes

LEMMA PieceSpans ==
    ASSUME NEW holes, NEW r, Session(r), NEW p \in Runs(PieceOf(holes, r), 0)
    PROVE  /\ p.start \in Minutes /\ p.end \in 1..Day /\ p.start < p.end /\ p.site = r.site
           /\ r.start <= p.start /\ p.end <= r.end
           /\ \A m \in Minutes : Within(m, p) => m \notin holes /\ Within(m, r)
<1> DEFINE f == PieceOf(holes, r)
<1>1. /\ DOMAIN f \subseteq Minutes
      /\ \A m : m \in DOMAIN f <=> m \in Minutes /\ Within(m, r) /\ m \notin holes
      /\ \A m \in DOMAIN f : f[m] = r.site
  BY PieceIs
<1> HIDE DEF f
<1>2. p \in Runs(f, 0)
  BY DEF f
<1>3. p.start \in DOMAIN f /\ p.start \in Minutes /\ p.end \in 1..Day /\ p.start < p.end /\ p.site = f[p.start]
      /\ p.end - 1 \in DOMAIN f
  BY <1>1, <1>2, RunTyped
<1>4. r.start <= p.start /\ p.end - 1 < r.end
  BY <1>1, <1>3 DEF Within
<1>5. p.end <= r.end
  BY <1>3, <1>4 DEF Session
<1>6. ASSUME NEW m \in Minutes, Within(m, p) PROVE m \notin holes /\ Within(m, r)
  <2>1. m \in DOMAIN f
    BY <1>1, <1>2, <1>6, RunsWhole DEF Within
  <2> QED BY <1>1, <2>1
<1> QED BY <1>1, <1>3, <1>4, <1>5, <1>6

LEMMA PiecesAre ==
    ASSUME NEW source \in AutoSources, NEW holes, NEW sessions, \A r \in sessions : Session(r),
           NEW d \in Pieces(SourceKind[source], source, holes, sessions)
    PROVE  /\ d \in DraftRecs /\ d.source = source
           /\ \A m \in Minutes : Within(m, d) => m \notin holes
<1>1a. PICK r \in sessions : d \in {Draft(SourceKind[source], source, t) : t \in Runs(PieceOf(holes, r), 0)}
  BY DEF Pieces
<1>1. PICK p \in Runs(PieceOf(holes, r), 0) : d = Draft(SourceKind[source], source, p)
  BY <1>1a
<1>2. /\ p.start \in Minutes /\ p.end \in 1..Day /\ p.start < p.end /\ p.site = r.site /\ r.site \in Places
      /\ \A m \in Minutes : Within(m, p) => m \notin holes
  BY PieceSpans DEF Session
<1>3. SourceKind[source] \in {"remote", "onsite", "dev"}
  BY DEF SourceKind, AutoSources
<1>4. d \in DraftRecs /\ d.source = source /\ d.start = p.start /\ d.end = p.end
  BY <1>1, <1>2, <1>3 DEF Draft, DraftRecs
<1> QED BY <1>2, <1>4 DEF Within

LEMMA PiecesApart ==
    ASSUME NEW source \in AutoSources, NEW holes, NEW sessions, \A r \in sessions : Session(r), Steady(sessions),
           NEW d \in Pieces(SourceKind[source], source, holes, sessions),
           NEW e \in Pieces(SourceKind[source], source, holes, sessions)
    PROVE  d = e \/ Apart(d, e) \/ (d.site # e.site /\ ~Tidy(sessions))
<1>1a. PICK r \in sessions : d \in {Draft(SourceKind[source], source, t) : t \in Runs(PieceOf(holes, r), 0)}
  BY DEF Pieces
<1>1. PICK p \in Runs(PieceOf(holes, r), 0) : d = Draft(SourceKind[source], source, p)
  BY <1>1a
<1>2a. PICK q \in sessions : e \in {Draft(SourceKind[source], source, t) : t \in Runs(PieceOf(holes, q), 0)}
  BY DEF Pieces
<1>2. PICK u \in Runs(PieceOf(holes, q), 0) : e = Draft(SourceKind[source], source, u)
  BY <1>2a
<1>3. /\ p.start \in Nat /\ p.end \in Nat /\ p.start < p.end /\ p.site = r.site /\ r.start <= p.start /\ p.end <= r.end
      /\ u.start \in Nat /\ u.end \in Nat /\ u.start < u.end /\ u.site = q.site /\ q.start <= u.start /\ u.end <= q.end
      /\ r.start \in Nat /\ r.end \in Nat /\ q.start \in Nat /\ q.end \in Nat
  BY PieceSpans, DayTyped DEF Session
<1>4. d.start = p.start /\ d.end = p.end /\ d.site = p.site /\ e.start = u.start /\ e.end = u.end /\ e.site = u.site
  BY <1>1, <1>2 DEF Draft
<1>5. CASE r = q
  <2>1. DOMAIN PieceOf(holes, r) \subseteq Minutes
    BY PieceIs
  <2>2. p = u \/ p.end <= u.start \/ u.end <= p.start
    BY <1>5, <2>1, RunsApart
  <2> QED BY <1>1, <1>2, <1>4, <2>2 DEF Apart
<1>6. CASE Apart(r, q)
  BY <1>3, <1>4, <1>6 DEF Apart
<1> QED BY <1>3, <1>4, <1>5, <1>6 DEF Steady, Tidy

LEMMA PiecesCover ==
    ASSUME NEW source, NEW holes, NEW sessions, NEW r \in sessions, Session(r),
           NEW m \in Minutes, Within(m, r), m \notin holes
    PROVE  \E p \in Runs(PieceOf(holes, r), 0) :
              /\ Within(m, p) /\ p.site = r.site
              /\ Draft(SourceKind[source], source, p) \in Pieces(SourceKind[source], source, holes, sessions)
<1>1. DOMAIN PieceOf(holes, r) \subseteq Minutes /\ m \in DOMAIN PieceOf(holes, r)
  BY PieceIs
<1>2. PICK p \in Runs(PieceOf(holes, r), 0) : p.start <= m /\ m < p.end
  BY <1>1, RunsCover
<1>3. p.site = r.site
  BY PieceSpans
<1> QED BY <1>2, <1>3 DEF Pieces, Within

\* The runs of an activity are sessions, apart from each other.
LEMMA RunsSteady ==
    ASSUME NEW where, NEW gap, DOMAIN where \subseteq Minutes, \A m \in DOMAIN where : where[m] \in Places
    PROVE  (\A r \in Runs(where, gap) : Session(r)) /\ Tidy(Runs(where, gap)) /\ Steady(Runs(where, gap))
<1>1. ASSUME NEW r \in Runs(where, gap) PROVE Session(r)
  BY RunTyped DEF Session
<1>2. Tidy(Runs(where, gap)) /\ Steady(Runs(where, gap))
  BY RunsApart DEF Tidy, Steady, Apart
<1> QED BY <1>1, <1>2

(***************************************************************************)
(* Where each active minute goes: the recursion of Placed has a solution.  *)
(***************************************************************************)
Prevs(f, m) == {p \in Active : p < m /\ f[p] # Hub}
Nexts(m) == {n \in Active : n > m /\ Owner(n) # Hub}
PlaceIn(f, m) ==
    IF Owner(m) = Hub /\ Prevs(f, m) # {} /\ Nexts(m) # {}
       /\ f[Max(Prevs(f, m))] = Owner(Min(Nexts(m)))
       /\ m - Max(Prevs(f, m)) <= Gap /\ Min(Nexts(m)) - m <= Gap
    THEN f[Max(Prevs(f, m))] ELSE Owner(m)

PlaceSolves(n, f) == f = [m \in 0..(n - 1) |-> PlaceIn(f, m)]

LEMMA PlaceSame ==
    ASSUME NEW f, NEW g, NEW m \in Nat, \A p \in Active : p < m => f[p] = g[p], Active \subseteq Nat
    PROVE  PlaceIn(f, m) = PlaceIn(g, m)
<1>1. Prevs(f, m) = Prevs(g, m)
  BY DEF Prevs
<1>2. Prevs(f, m) # {} => Max(Prevs(f, m)) \in Prevs(f, m)
  <2> DEFINE S == Prevs(f, m)
  <2>1. S \subseteq Nat /\ \A p \in S : p <= m
    <3>1. ASSUME NEW p \in S PROVE p \in Nat /\ p < m
      BY DEF Prevs
    <3>2. \A p \in Nat : p < m => p <= m
      OBVIOUS
    <3> HIDE DEF S
    <3> QED BY <3>1, <3>2
  <2> HIDE DEF S
  <2>2. S # {} => Max(S) \in S
    BY <2>1, MaxOf
  <2> QED BY <2>2 DEF S
<1>3. Prevs(f, m) # {} => f[Max(Prevs(f, m))] = g[Max(Prevs(g, m))]
  <2>1. \A p \in Prevs(f, m) : f[p] = g[p]
    BY DEF Prevs
  <2> QED BY <1>1, <1>2, <2>1
<1>4. CASE Prevs(f, m) = {}
  BY <1>1, <1>4 DEF PlaceIn
<1>5. CASE Prevs(f, m) # {}
  BY <1>1, <1>3, <1>5 DEF PlaceIn
<1> QED BY <1>4, <1>5

LEMMA PlaceExists == ASSUME Active \subseteq Nat, NEW n \in Nat PROVE \E f : PlaceSolves(n, f)
<1> DEFINE P(k) == \E f : PlaceSolves(k, f)
           Missed == {k \in Nat : ~P(k)}
<1>1. Missed \subseteq Nat
  OBVIOUS
<1>2. ASSUME Missed # {} PROVE FALSE
  <2>1. PICK k \in Missed : \A j \in Missed : k <= j
    <3> HIDE DEF Missed
    <3> QED BY <1>1, <1>2, LeastOne
  <2>2. k \in Nat /\ ~P(k)
    OBVIOUS
  <2>3. CASE k = 0
    <3> DEFINE f == [m \in 0..(0 - 1) |-> 0]
    <3>1. f = [m \in 0..(0 - 1) |-> PlaceIn(f, m)]
      OBVIOUS
    <3> HIDE DEF f
    <3> QED BY <2>2, <2>3, <3>1 DEF PlaceSolves
  <2>4. CASE k # 0
    <3>1. k - 1 \in Nat /\ ~(k <= k - 1)
      BY <2>2, <2>4
    <3>2. PICK g : PlaceSolves(k - 1, g)
      BY <2>1, <3>1
    <3> DEFINE f == [m \in 0..(k - 1) |-> PlaceIn(g, m)]
    <3>3. \A m \in 0..(k - 2) : m \in 0..(k - 1) /\ m \in 0..(k - 1 - 1)
      BY <2>2, <2>4
    <3>4. \A m \in 0..(k - 1 - 1) : g[m] = PlaceIn(g, m)
      BY <3>2 DEF PlaceSolves
    <3>5. \A m \in 0..(k - 1) : f[m] = PlaceIn(g, m)
      OBVIOUS
    <3> HIDE DEF f
    <3>6. ASSUME NEW m \in 0..(k - 1) PROVE f[m] = PlaceIn(f, m)
      <4>1. m \in Nat
        BY <3>6
      <4>2. ASSUME NEW p \in Active, p < m PROVE g[p] = f[p]
        <5>1. p \in Nat /\ p \in 0..(k - 2)
          BY <2>2, <3>6, <4>2
        <5> QED BY <3>3, <3>4, <3>5, <5>1
      <4>3. PlaceIn(g, m) = PlaceIn(f, m)
        BY <4>1, <4>2, PlaceSame
      <4> QED BY <3>5, <4>3
    <3>7. f = [m \in 0..(k - 1) |-> PlaceIn(f, m)]
      <4>1. f = [m \in 0..(k - 1) |-> f[m]]
        BY DEF f
      <4> QED BY <3>6, <4>1
    <3>8. PlaceSolves(k, f)
      BY <3>7 DEF PlaceSolves
    <3> QED BY <2>2, <3>8
  <2> QED BY <2>3, <2>4
<1> QED BY <1>2

LEMMA PlacedIs ==
    ASSUME Active \subseteq Minutes
    PROVE  \E f : PlaceSolves(Day, f) /\ Placed = [m \in Active |-> f[m]]
<1> DEFINE f == CHOOSE g : PlaceSolves(Day, g)
<1>1. Active \subseteq Nat
  BY DayTyped
<1>2. PlaceSolves(Day, f)
  <2>1. \E g : PlaceSolves(Day, g)
    BY <1>1, DayTyped, PlaceExists
  <2> QED BY <2>1
<1>3. Placed = [m \in Active |-> f[m]]
  BY DEF Placed, PlaceSolves, PlaceIn, Prevs, Nexts, Minutes
<1> QED BY <1>2, <1>3

LEMMA PlacedTyped ==
    ASSUME Active \subseteq Minutes, \A m \in Active : Owner(m) \in Places
    PROVE  /\ DOMAIN Placed = Active
           /\ \A m \in Active : Placed[m] \in Places /\ (Owner(m) # Hub => Placed[m] = Owner(m))
<1>1. PICK f : PlaceSolves(Day, f) /\ Placed = [m \in Active |-> f[m]]
  BY PlacedIs
<1>2. \A m \in Active : m \in 0..(Day - 1) /\ m \in Nat
  BY DayTyped DEF Minutes
<1>3. \A m \in Active : f[m] = PlaceIn(f, m) /\ Placed[m] = f[m]
  BY <1>1, <1>2 DEF PlaceSolves
<1>4. \A m \in Active : Owner(m) # Hub => f[m] = Owner(m)
  BY <1>3 DEF PlaceIn
<1>5. ASSUME NEW m \in Active PROVE f[m] \in Places
  <2> DEFINE S == Prevs(f, m)
  <2>1. CASE f[m] = Owner(m)
    BY <2>1
  <2>2. CASE f[m] # Owner(m)
    <3>1. S # {} /\ f[m] = f[Max(S)] /\ f[m] = Owner(Min(Nexts(m))) /\ Nexts(m) # {}
      BY <1>3, <2>2 DEF PlaceIn
    <3>2. Nexts(m) \subseteq Active /\ Nexts(m) \subseteq Nat
      BY <1>2 DEF Nexts
    <3>3. Min(Nexts(m)) \in Active
      BY <3>1, <3>2, MinOf
    <3> QED BY <3>1, <3>3
  <2> QED BY <2>1, <2>2
<1> QED BY <1>1, <1>3, <1>4, <1>5

(***************************************************************************)
(* Types.                                                                  *)
(***************************************************************************)
EntryRecs ==
    {e \in [kind : DOMAIN Group, site : Places, start : 0..Day, end : 0..(Day + 1),
            source : AutoSources \cup {"manual", "button"}, status : {"draft", "approved", "dismissed"},
            edited : BOOLEAN] :
        e.end = StillOpen \/ e.start < e.end}

Sound(e) == e \in EntryRecs /\ (~Frozen(e) => e \in DraftRecs)

PlanTyped(plan) ==
    plan # NoPlan =>
        /\ plan = [step |-> "write", fresh |-> plan.fresh, update |-> plan.update,
                   insert |-> plan.insert, delete |-> plan.delete]
        /\ plan.fresh \in BOOLEAN
        /\ plan.update \subseteq [id : Nat, draft : DraftRecs]
        /\ plan.insert \subseteq DraftRecs

WorkTyped ==
    /\ work \in [Minutes -> SUBSET Places] /\ latest \in [Minutes -> Places]
    /\ \A m \in Minutes : work[m] \cap Farms # {} => latest[m] \in Farms
    /\ phone \in [Farms -> SUBSET Minutes] /\ claude \subseteq Minutes

EntriesTyped ==
    /\ nextEntry \in Nat \ {0} /\ DOMAIN entries \subseteq 1..(nextEntry - 1)
    /\ entries = [i \in DOMAIN entries |-> entries[i]] /\ \A i \in DOMAIN entries : Sound(entries[i])

KTyped ==
    /\ WorkTyped /\ EntriesTyped
    /\ now \in 0..Day /\ builds \in 0..2 /\ kleft \in [KKinds -> Nat] /\ now + kleft["tick"] <= Day
    /\ plans = [p \in Processes |-> plans[p]] /\ \A p \in Processes : PlanTyped(plans[p])

LEMMA KTypedTypes == KTyped => KTypeOK
<1> SUFFICES ASSUME KTyped PROVE KTypeOK
  OBVIOUS
<1>1. \A i \in DOMAIN entries : Entry(entries[i])
  <2> SUFFICES ASSUME NEW i \in DOMAIN entries PROVE Entry(entries[i])
    OBVIOUS
  <2>1. entries[i] \in EntryRecs
    BY DEF KTyped, EntriesTyped, Sound
  <2> QED BY <2>1, DayTyped DEF EntryRecs, Entry, StillOpen
<1> QED BY <1>1 DEF KTyped, KTypeOK, WorkTyped, EntriesTyped

LEMMA ActiveTyped == ASSUME WorkTyped PROVE /\ Active \subseteq Minutes
                                            /\ \A m \in Active : Owner(m) \in Places
                                            /\ \A m \in Active : work[m] \cap Farms # {} =>
                                                   latest[m] \in Farms /\ latest[m] # Hub /\ Owner(m) = latest[m]
BY DayTyped DEF WorkTyped, Active, Owner, Places

(***************************************************************************)
(* What the builder wants is clear of what is settled, and of itself.      *)
(***************************************************************************)
ClearOfHoles(W) == \A d \in W, m \in Minutes : Within(m, d) => m \notin Holes(Origin[d.source])
ClearOfItself(W) ==
    \A d, e \in W : d = e \/ Apart(d, e) \/ d.source # e.source \/ (d.source = "wifi" /\ d.site # e.site)
ClearSet(W) == W \subseteq DraftRecs /\ ClearOfHoles(W) /\ ClearOfItself(W)

VisitSessions == UNION {Runs([m \in phone[f] |-> f], WifiGap) : f \in Farms}
DevSessions == Runs([m \in claude |-> Hub], Gap)
KeptMinutes == {m \in Active : m \notin Elsewhere[Placed[m]]}

LEMMA RemoteIs == RemoteWork = Runs([m \in KeptMinutes |-> Placed[m]], Gap)
BY DEF RemoteWork, KeptMinutes

LEMMA VisitsSteady == ASSUME WorkTyped PROVE (\A r \in VisitSessions : Session(r)) /\ Steady(VisitSessions)
<1> DEFINE w(f) == [m \in phone[f] |-> f]
<1>1. ASSUME NEW f \in Farms
      PROVE  /\ DOMAIN w(f) \subseteq Minutes /\ \A m \in DOMAIN w(f) : w(f)[m] \in Places
             /\ \A m \in DOMAIN w(f) : w(f)[m] = f
  BY DEF WorkTyped, Places
<1> HIDE DEF w
<1>2. \A r \in VisitSessions : \E f \in Farms : r \in Runs(w(f), WifiGap)
  BY DEF VisitSessions, w
<1>3. ASSUME NEW r \in VisitSessions PROVE Session(r)
  BY <1>1, <1>2, RunsSteady
<1>4. ASSUME NEW f \in Farms, NEW r \in Runs(w(f), WifiGap) PROVE r.site = f
  BY <1>1, RunTyped
<1>5. ASSUME NEW r \in VisitSessions, NEW q \in VisitSessions PROVE r = q \/ Apart(r, q) \/ r.site # q.site
  <2>1. PICK f \in Farms : r \in Runs(w(f), WifiGap)
    BY <1>2
  <2>2. PICK g \in Farms : q \in Runs(w(g), WifiGap)
    BY <1>2
  <2>3. CASE f = g
    BY <1>1, <2>1, <2>2, <2>3, RunsSteady DEF Steady
  <2>4. CASE f # g
    BY <1>4, <2>1, <2>2, <2>4
  <2> QED BY <2>3, <2>4
<1> QED BY <1>3, <1>5 DEF Steady

LEMMA DevSteady == ASSUME WorkTyped
                   PROVE  (\A r \in DevSessions : Session(r)) /\ Steady(DevSessions) /\ Tidy(DevSessions)
                          /\ \A r \in DevSessions : r.site = Hub
<1> DEFINE w == [m \in claude |-> Hub]
<1>1. DOMAIN w \subseteq Minutes /\ \A m \in DOMAIN w : w[m] \in Places /\ w[m] = Hub
  BY DEF WorkTyped, Places
<1> HIDE DEF w
<1>2. DevSessions = Runs(w, Gap)
  BY DEF DevSessions, w
<1>3. \A r \in Runs(w, Gap) : r.site = Hub
  BY <1>1, RunTyped
<1> QED BY <1>1, <1>2, <1>3, RunsSteady

LEMMA RemoteTyped == ASSUME WorkTyped
                     PROVE  /\ KeptMinutes \subseteq Active /\ KeptMinutes \subseteq Minutes
                            /\ \A m \in KeptMinutes : Placed[m] \in Places
                            /\ (\A r \in RemoteWork : Session(r)) /\ Steady(RemoteWork) /\ Tidy(RemoteWork)
<1> DEFINE w == [m \in KeptMinutes |-> Placed[m]]
<1>1. /\ KeptMinutes \subseteq Active /\ KeptMinutes \subseteq Minutes
      /\ \A m \in KeptMinutes : Placed[m] \in Places
  BY ActiveTyped, PlacedTyped DEF KeptMinutes
<1>2. DOMAIN w \subseteq Minutes /\ \A m \in DOMAIN w : w[m] \in Places
  BY <1>1
<1>3. RemoteWork = Runs(w, Gap)
  BY RemoteIs
<1> HIDE DEF w
<1> QED BY <1>1, <1>2, <1>3, RunsSteady

AutoPieces == Pieces(SourceKind["auto"], "auto", Holes("remote"), RemoteWork)
WifiPieces == Pieces(SourceKind["wifi"], "wifi", Holes("field"), VisitSessions)
DevPieces  == Pieces(SourceKind["claude"], "claude", Holes("dev"), DevSessions)

LEMMA WantIs == Visits = WifiPieces /\ Want = WifiPieces \cup LongEnough(AutoPieces) \cup LongEnough(DevPieces)
<1>1. Origin["auto"] = "remote" /\ Origin["wifi"] = "field" /\ Origin["claude"] = "dev"
  BY DEF Origin
<1>2. SourceKind["auto"] = "remote" /\ SourceKind["wifi"] = "onsite" /\ SourceKind["claude"] = "dev"
  BY DEF SourceKind
<1>3. Visits = WifiPieces
  BY <1>1, <1>2, StretchesAre DEF Visits, WifiPieces, VisitSessions
<1>4. Stretches("remote", "auto", RemoteWork) = AutoPieces
  BY <1>1, <1>2, StretchesAre DEF AutoPieces
<1>5. Stretches("dev", "claude", Runs([m \in claude |-> Hub], Gap)) = DevPieces
  BY <1>1, <1>2, StretchesAre DEF DevPieces, DevSessions
<1> QED BY <1>3, <1>4, <1>5 DEF Want

LEMMA PiecesClear ==
    ASSUME NEW source \in AutoSources, NEW sessions, \A r \in sessions : Session(r), Steady(sessions),
           NEW holes, holes = Holes(Origin[source]), NEW P, P = Pieces(SourceKind[source], source, holes, sessions)
    PROVE  /\ P \subseteq DraftRecs /\ ClearOfHoles(P) /\ \A d \in P : d.source = source
           /\ \A d, e \in P : d = e \/ Apart(d, e) \/ (d.site # e.site /\ ~Tidy(sessions))
<1>1. ASSUME NEW d \in P
      PROVE  d \in DraftRecs /\ d.source = source /\ \A m \in Minutes : Within(m, d) => m \notin Holes(Origin[source])
  BY PiecesAre
<1>2. \A d, e \in P : d = e \/ Apart(d, e) \/ (d.site # e.site /\ ~Tidy(sessions))
  BY PiecesApart
<1> QED BY <1>1, <1>2 DEF ClearOfHoles

LEMMA WantClear == ASSUME WorkTyped PROVE ClearSet(Want)
<1>0. Origin["auto"] = "remote" /\ Origin["wifi"] = "field" /\ Origin["claude"] = "dev" /\ AutoSources = {"auto", "wifi", "claude"}
  BY DEF Origin, AutoSources
<1>1. /\ WifiPieces \subseteq DraftRecs /\ ClearOfHoles(WifiPieces) /\ \A d \in WifiPieces : d.source = "wifi"
      /\ \A d, e \in WifiPieces : d = e \/ Apart(d, e) \/ d.site # e.site
  BY <1>0, VisitsSteady, PiecesClear DEF WifiPieces
<1>2. /\ AutoPieces \subseteq DraftRecs /\ ClearOfHoles(AutoPieces) /\ \A d \in AutoPieces : d.source = "auto"
      /\ \A d, e \in AutoPieces : d = e \/ Apart(d, e)
  BY <1>0, RemoteTyped, PiecesClear DEF AutoPieces
<1>3. /\ DevPieces \subseteq DraftRecs /\ ClearOfHoles(DevPieces) /\ \A d \in DevPieces : d.source = "claude"
      /\ \A d, e \in DevPieces : d = e \/ Apart(d, e)
  BY <1>0, DevSteady, PiecesClear DEF DevPieces
<1>4. LongEnough(AutoPieces) \subseteq AutoPieces /\ LongEnough(DevPieces) \subseteq DevPieces
  BY DEF LongEnough
<1>5. \A d \in Want : \/ d \in WifiPieces /\ d.source = "wifi"
                      \/ d \in AutoPieces /\ d.source = "auto"
                      \/ d \in DevPieces /\ d.source = "claude"
  BY <1>1, <1>2, <1>3, <1>4, WantIs
<1>6. Want \subseteq DraftRecs /\ ClearOfHoles(Want)
  BY <1>1, <1>2, <1>3, <1>5 DEF ClearOfHoles
<1>7. ClearOfItself(Want)
  BY <1>1, <1>2, <1>3, <1>5 DEF ClearOfItself
<1> QED BY <1>6, <1>7 DEF ClearSet

LEMMA DraftsFinite == ASSUME NEW W, W \subseteq DraftRecs PROVE IsFiniteSet(W)
<1> DEFINE P == (AutoSources \X Places) \X (Minutes \X (1..Day))
           rec(x) == [kind |-> SourceKind[x[1][1]], site |-> x[1][2], start |-> x[2][1], end |-> x[2][2],
                      source |-> x[1][1], status |-> "draft", edited |-> FALSE]
           T == {rec(x) : x \in P}
           f == [x \in P |-> rec(x)]
<1>1. IsFiniteSet(AutoSources) /\ IsFiniteSet(Places) /\ IsFiniteSet(Minutes) /\ IsFiniteSet(1..Day)
  <2>1. AutoSources = {"auto"} \cup {"wifi"} \cup {"claude"} /\ Places = Farms \cup {Hub} /\ Minutes = 0..(Day - 1)
    BY DEF AutoSources, Places, Minutes
  <2>2. IsFiniteSet({"auto"}) /\ IsFiniteSet({"wifi"}) /\ IsFiniteSet({"claude"}) /\ IsFiniteSet({Hub})
    BY FS_Singleton
  <2>3. IsFiniteSet({"auto"} \cup {"wifi"})
    BY <2>2, FS_Union
  <2>4. IsFiniteSet({"auto"} \cup {"wifi"} \cup {"claude"})
    BY <2>2, <2>3, FS_Union
  <2>5. IsFiniteSet(Farms \cup {Hub})
    BY <2>2, FS_Union, DayAssumption
  <2>6. IsFiniteSet(0..(Day - 1)) /\ IsFiniteSet(1..Day)
    <3>1. 0 \in Int /\ 1 \in Int /\ Day \in Int /\ Day - 1 \in Int
      BY DayTyped
    <3> QED BY <3>1, FS_Interval
  <2> QED BY <2>1, <2>4, <2>5, <2>6
<1>2. IsFiniteSet(P)
  <2>1. IsFiniteSet(AutoSources \X Places) /\ IsFiniteSet(Minutes \X (1..Day))
    BY <1>1, FS_Product
  <2> QED BY <2>1, FS_Product
<1>3. f \in Surjection(P, T)
  <2>1. f \in [P -> T] /\ \A t \in T : \E x \in P : f[x] = t
    OBVIOUS
  <2> HIDE DEF f, T, P
  <2> QED BY <2>1 DEF Surjection
<1>4. IsFiniteSet(T)
  <2> HIDE DEF f, T, P
  <2> QED BY <1>2, <1>3, FS_Surjection
<1>5. ASSUME NEW d \in W PROVE d \in T
  <2> DEFINE x == <<<<d.source, d.site>>, <<d.start, d.end>>>>
  <2>1. d \in DraftRecs
    OBVIOUS
  <2>2. x \in P
    BY <2>1 DEF DraftRecs
  <2>3. d = rec(x)
    BY <2>1 DEF DraftRecs
  <2> QED BY <2>2, <2>3
<1> HIDE DEF T
<1> QED BY <1>4, <1>5, FS_Subset

(***************************************************************************)
(* A plan depends on the day, not on what is planned.                      *)
(***************************************************************************)
SameDay == UNCHANGED <<work, latest, phone, claude, entries, now>> /\ kleft'["min"] = kleft["min"]

LEMMA SameWant == ASSUME SameDay
                  PROVE  /\ Want' = Want /\ Placed' = Placed /\ RemoteWork' = RemoteWork /\ Active' = Active
                         /\ (\A g : Holes(g)' = Holes(g)) /\ (\A f : OnSite(f)' = OnSite(f))
<1> USE DEF SameDay
<1>1. Active' = Active /\ (\A m : Owner(m)' = Owner(m))
  BY DEF Active, Owner
<1>2. Placed' = Placed
  BY DEF Placed, Active, Owner
<1>3. \A e : Covers(e)' = Covers(e)
  BY DEF Covers
<1>4. \A g : Holes(g)' = Holes(g)
  BY <1>3 DEF Holes, Frozen
<1>5. \A k, o, s : Stretches(k, o, s)' = Stretches(k, o, s)
  BY <1>4 DEF Stretches
<1>6. Visits' = Visits
  BY <1>5 DEF Visits
<1>7. \A f : OnSite(f)' = OnSite(f)
  BY <1>3, <1>6 DEF OnSite
<1>8. Elsewhere' = Elsewhere
  BY <1>7 DEF Elsewhere
<1>9. RemoteWork' = RemoteWork
  BY <1>1, <1>2, <1>8 DEF RemoteWork
<1>10. \A S : LongEnough(S)' = LongEnough(S)
  BY DEF LongEnough
<1>11. Want' = Want
  BY <1>5, <1>6, <1>9, <1>10 DEF Want
<1> QED BY <1>1, <1>2, <1>4, <1>7, <1>9, <1>11

LEMMA SamePlan == ASSUME SameDay PROVE Plan' = Plan
<1>1. Want' = Want
  BY SameWant
<1>2. \A S : First(S)' = First(S)
  BY DEF First, SameDay
<1>3. \A i, d : Fits(i, d)' = Fits(i, d)
  BY DEF Fits, Overlap, Covers, SameDay
<1>4. \A W, S : Matches(W, S)' = Matches(W, S)
  BY DEF Matches, First, Fits, Overlap, Covers, SameDay
<1> QED BY <1>1, <1>4 DEF Plan, Frozen, SameDay

(***************************************************************************)
(* Which draft an entry that is there already becomes.                     *)
(***************************************************************************)
LEMMA DraftCovers ==
    ASSUME NEW d \in DraftRecs
    PROVE  /\ d.start \in Minutes /\ d.end \in 1..Day /\ d.start < d.end /\ d.end # StillOpen
           /\ Covers(d) = {m \in Minutes : Within(m, d)} /\ d.start \in Covers(d)
           /\ d.source \in AutoSources /\ d.kind = SourceKind[d.source]
           /\ d = [kind |-> d.kind, site |-> d.site, start |-> d.start, end |-> d.end,
                   source |-> d.source, status |-> "draft", edited |-> FALSE]
           /\ ~Frozen(d) /\ d.site \in Places
<1>1. /\ d.start \in Minutes /\ d.end \in 1..Day /\ d.start < d.end /\ d.end # StillOpen
      /\ d.source \in AutoSources /\ d.kind = SourceKind[d.source] /\ d.site \in Places
  BY DayTyped DEF DraftRecs, StillOpen
<1>2. d = [kind |-> d.kind, site |-> d.site, start |-> d.start, end |-> d.end,
           source |-> d.source, status |-> "draft", edited |-> FALSE]
  BY DEF DraftRecs
<1>3. Covers(d) = {m \in Minutes : Within(m, d)} /\ d.start \in Covers(d)
  BY <1>1, DayTyped DEF Covers, Within
<1>4. ~Frozen(d)
  BY <1>1, <1>2 DEF Frozen
<1> QED BY <1>1, <1>2, <1>3, <1>4

LEMMA OverlapIs ==
    ASSUME NEW d \in DraftRecs, NEW e \in DraftRecs
    PROVE  (Apart(d, e) => ~Overlap(d, e)) /\ (d.start = e.start => ~Apart(d, e)) /\ Overlap(d, d)
           /\ (d.kind = e.kind => d.source = e.source)
<1>1. /\ Covers(d) = {m \in Minutes : Within(m, d)} /\ Covers(e) = {m \in Minutes : Within(m, e)}
      /\ d.start \in Covers(d) /\ d.start \in Nat /\ d.end \in Nat /\ e.start \in Nat /\ e.end \in Nat
      /\ d.start < d.end /\ e.start < e.end
  BY DraftCovers, DayTyped
<1>2. ASSUME Apart(d, e), NEW m \in Covers(d), m \in Covers(e) PROVE FALSE
  BY <1>1, <1>2, DayTyped DEF Apart, Within
<1>3. d.start = e.start => ~Apart(d, e)
  BY <1>1 DEF Apart
<1>4. d.kind = e.kind => d.source = e.source
  BY DraftCovers DEF SourceKind, AutoSources
<1> QED BY <1>1, <1>2, <1>3, <1>4 DEF Overlap

LEMMA FirstIn ==
    ASSUME NEW S, S \subseteq Nat, S # {}, \A i \in S : entries[i].start \in Nat
    PROVE  First(S) \in S
<1> DEFINE B == {entries[i].start : i \in S}
<1>1. PICK b \in B : \A c \in B : b <= c
  <2>1. B \subseteq Nat /\ B # {}
    OBVIOUS
  <2> HIDE DEF B
  <2> QED BY <2>1, LeastOne
<1> DEFINE T == {i \in S : entries[i].start = b}
<1>2. PICK i \in T : \A j \in T : i <= j
  <2>1. T \subseteq Nat /\ T # {}
    BY <1>1
  <2> HIDE DEF T
  <2> QED BY <2>1, LeastOne
<1>3. ASSUME NEW j \in S
      PROVE  entries[i].start < entries[j].start \/ (entries[i].start = entries[j].start /\ i <= j)
  <2>1. b <= entries[j].start /\ b \in Nat /\ entries[j].start \in Nat /\ entries[i].start = b
    BY <1>1, <1>2
  <2>2. entries[j].start = b => i <= j
    BY <1>2
  <2>3. \A x, y \in Nat : x <= y => x < y \/ y = x
    OBVIOUS
  <2> HIDE DEF B, T
  <2> QED BY <2>1, <2>2, <2>3
<1>4. i \in S
  BY <1>2
<1> QED BY <1>3, <1>4 DEF First

FitOf(old, before, d) == {i \in old \ {x.id : x \in before} : Fits(i, d)}
Matched(want, old, before, m) ==
    before \cup {[id |-> First(FitOf(old, before, d)), draft |-> d] :
                    d \in {w \in want : w.start = m - 1 /\ FitOf(old, before, w) # {}}}
MatchStep(want, old, f, m) == IF m = 0 THEN {} ELSE Matched(want, old, f[m - 1], m)
MatchSolves(n, f, want, old) == f = [m \in 0..n |-> MatchStep(want, old, f, m)]

LEMMA MatchExists == ASSUME NEW want, NEW old, NEW n \in Nat PROVE \E f : MatchSolves(n, f, want, old)
<1> DEFINE P(k) == \E f : MatchSolves(k, f, want, old)
           Missed == {k \in Nat : ~P(k)}
<1>1. Missed \subseteq Nat
  OBVIOUS
<1>2. ASSUME Missed # {} PROVE FALSE
  <2>1. PICK k \in Missed : \A j \in Missed : k <= j
    <3> HIDE DEF Missed
    <3> QED BY <1>1, <1>2, LeastOne
  <2>2. k \in Nat /\ ~P(k)
    OBVIOUS
  <2>3. CASE k = 0
    <3> DEFINE f == [m \in 0..0 |-> {}]
    <3>1. f = [m \in 0..0 |-> MatchStep(want, old, f, m)]
      BY DEF MatchStep
    <3> HIDE DEF f
    <3> QED BY <2>2, <2>3, <3>1 DEF MatchSolves
  <2>4. CASE k # 0
    <3>1. k - 1 \in Nat /\ ~(k <= k - 1)
      BY <2>2, <2>4
    <3>2. PICK g : MatchSolves(k - 1, g, want, old)
      BY <2>1, <3>1
    <3> DEFINE f == [m \in 0..k |-> MatchStep(want, old, g, m)]
    <3>3. \A m \in 0..(k - 1) : f[m] = g[m]
      <4>1. \A m \in 0..(k - 1) : g[m] = MatchStep(want, old, g, m)
        BY <3>2 DEF MatchSolves
      <4>2. \A m \in 0..(k - 1) : m \in 0..k
        BY <2>2
      <4> QED BY <4>1, <4>2
    <3>4. \A m \in 0..k : f[m] = MatchStep(want, old, g, m)
      OBVIOUS
    <3>5. f = [m \in 0..k |-> f[m]]
      OBVIOUS
    <3> HIDE DEF f
    <3>6. ASSUME NEW m \in 0..k PROVE MatchStep(want, old, g, m) = MatchStep(want, old, f, m)
      <4>1. CASE m = 0
        BY <4>1 DEF MatchStep
      <4>2. CASE m # 0
        <5>1. m - 1 \in 0..(k - 1)
          BY <4>2, <2>2
        <5>2. f[m - 1] = g[m - 1]
          BY <3>3, <5>1
        <5> QED BY <4>2, <5>2 DEF MatchStep
      <4> QED BY <4>1, <4>2
    <3>7. f = [m \in 0..k |-> MatchStep(want, old, f, m)]
      BY <3>4, <3>5, <3>6
    <3> QED BY <2>2, <3>7 DEF MatchSolves
  <2> QED BY <2>3, <2>4
<1> QED BY <1>2

LEMMA MatchesIs == ASSUME NEW want, NEW old
                   PROVE  \E f : MatchSolves(Day, f, want, old) /\ Matches(want, old) = f[Day]
<1> DEFINE f == CHOOSE g : MatchSolves(Day, g, want, old)
<1>1. MatchSolves(Day, f, want, old)
  <2>1. \E g : MatchSolves(Day, g, want, old)
    BY DayTyped, MatchExists
  <2> QED BY <2>1
<1>2. Matches(want, old) = f[Day]
  BY DEF Matches, MatchSolves, MatchStep, Matched, FitOf
<1> QED BY <1>1, <1>2

\* Entries that a builder may move: each a draft.
Movable(old) == old \subseteq DOMAIN entries /\ old \subseteq Nat /\ \A i \in old : entries[i] \in DraftRecs

\* The drafts before minute m have each an entry of their own that fits.
Paired(X, want, old, m) ==
    /\ \A x \in X : /\ x = [id |-> x.id, draft |-> x.draft] /\ x.id \in old /\ x.draft \in want
                    /\ x.draft.start < m /\ Fits(x.id, x.draft)
    /\ \A x, y \in X : x.id = y.id \/ x.draft = y.draft => x = y

LEMMA FitFirst ==
    ASSUME NEW old, Movable(old), NEW before, NEW d, FitOf(old, before, d) # {}
    PROVE  LET i == First(FitOf(old, before, d)) IN i \in old /\ Fits(i, d) /\ \A x \in before : x.id # i
<1>1. FitOf(old, before, d) \subseteq old /\ old \subseteq Nat
  BY DEF FitOf, Movable
<1>2. \A i \in old : entries[i].start \in Nat
  BY DraftCovers, DayTyped DEF Movable
<1> DEFINE F == FitOf(old, before, d)
<1>3. First(F) \in F
  <2>1. F \subseteq Nat /\ F # {} /\ \A i \in F : entries[i].start \in Nat
    BY <1>1, <1>2
  <2> HIDE DEF F
  <2> QED BY <2>1, FirstIn
<1> QED BY <1>3 DEF FitOf

LEMMA MatchedPairs ==
    ASSUME NEW want, ClearSet(want), NEW old, Movable(old), NEW m \in Nat, m # 0, NEW before,
           Paired(before, want, old, m - 1)
    PROVE  Paired(Matched(want, old, before, m), want, old, m)
<1> DEFINE D == {w \in want : w.start = m - 1 /\ FitOf(old, before, w) # {}}
           at(d) == First(FitOf(old, before, d))
           X == Matched(want, old, before, m)
<1>1. \A d \in D : at(d) \in old /\ Fits(at(d), d) /\ \A x \in before : x.id # at(d)
  BY FitFirst
<1>2. \A d \in D : d \in want /\ d.start = m - 1 /\ d.start < m /\ d \in DraftRecs
  BY DEF ClearSet
<1>3. \A x \in before : /\ x = [id |-> x.id, draft |-> x.draft] /\ x.id \in old /\ x.draft \in want
                        /\ x.draft.start < m - 1 /\ x.draft.start < m /\ Fits(x.id, x.draft) /\ x.draft \notin D
  <2> SUFFICES ASSUME NEW x \in before
               PROVE  /\ x = [id |-> x.id, draft |-> x.draft] /\ x.id \in old /\ x.draft \in want
                      /\ x.draft.start < m - 1 /\ x.draft.start < m /\ Fits(x.id, x.draft) /\ x.draft \notin D
    OBVIOUS
  <2>1. x = [id |-> x.id, draft |-> x.draft] /\ x.id \in old /\ x.draft \in want
        /\ x.draft.start < m - 1 /\ Fits(x.id, x.draft)
    BY DEF Paired
  <2>2. x.draft.start \in Nat
    BY <2>1, DraftCovers, DayTyped DEF ClearSet
  <2>3. x.draft.start < m /\ x.draft.start # m - 1
    BY <2>1, <2>2
  <2> QED BY <2>1, <2>3
<1>4. ASSUME NEW d \in D, NEW e \in D, at(d) = at(e) PROVE d = e
  <2>1. Fits(at(d), d) /\ Fits(at(d), e) /\ d \in DraftRecs /\ e \in DraftRecs /\ d.start = e.start
    BY <1>1, <1>2, <1>4
  <2>2. d.kind = e.kind /\ d.site = e.site
    BY <2>1 DEF Fits
  <2>3. d.source = e.source /\ ~Apart(d, e)
    BY <2>1, <2>2, OverlapIs
  <2> QED BY <1>2, <2>2, <2>3 DEF ClearSet, ClearOfItself
<1>5. X = before \cup {[id |-> at(d), draft |-> d] : d \in D}
  BY DEF Matched
<1> HIDE DEF X, D, at
<1>6. \A x \in X : x \in before \/ \E d \in D : x = [id |-> at(d), draft |-> d]
  BY <1>5
<1>7. ASSUME NEW x \in X
      PROVE  /\ x = [id |-> x.id, draft |-> x.draft] /\ x.id \in old /\ x.draft \in want
             /\ x.draft.start < m /\ Fits(x.id, x.draft)
  <2>1. CASE x \in before
    BY <1>3, <2>1
  <2>2. CASE \E d \in D : x = [id |-> at(d), draft |-> d]
    <3>1. PICK d \in D : x = [id |-> at(d), draft |-> d]
      BY <2>2
    <3> QED BY <1>1, <1>2, <3>1
  <2> QED BY <1>6, <2>1, <2>2
<1>8. ASSUME NEW x \in X, NEW y \in X, x.id = y.id \/ x.draft = y.draft PROVE x = y
  <2>1. CASE x \in before /\ y \in before
    BY <1>8, <2>1 DEF Paired
  <2>2. ASSUME NEW d \in D, NEW e \in D, x = [id |-> at(d), draft |-> d], y = [id |-> at(e), draft |-> e]
        PROVE  x = y
    <3>1. x.id = at(d) /\ y.id = at(e) /\ x.draft = d /\ y.draft = e
      BY <2>2
    <3>2. d = e
      BY <1>4, <1>8, <3>1
    <3> QED BY <2>2, <3>2
  <2>3. ASSUME NEW u \in before, NEW d \in D, NEW v, v = [id |-> at(d), draft |-> d]
        PROVE  u.id # v.id /\ u.draft # v.draft
    <3>1. v.id = at(d) /\ v.draft = d
      BY <2>3
    <3> QED BY <1>1, <1>3, <3>1
  <2>4. CASE x \in before /\ \E d \in D : y = [id |-> at(d), draft |-> d]
    BY <1>8, <2>3, <2>4
  <2>5. CASE y \in before /\ \E d \in D : x = [id |-> at(d), draft |-> d]
    BY <1>8, <2>3, <2>5
  <2> QED BY <1>6, <2>1, <2>2, <2>4, <2>5
<1> QED BY <1>7, <1>8 DEF Paired, X

LEMMA MatchesPair ==
    ASSUME NEW want, ClearSet(want), NEW old, Movable(old)
    PROVE  Paired(Matches(want, old), want, old, Day)
<1>1. PICK f : MatchSolves(Day, f, want, old) /\ Matches(want, old) = f[Day]
  BY MatchesIs
<1>2. \A m \in 0..Day : f[m] = MatchStep(want, old, f, m)
  BY <1>1 DEF MatchSolves
<1> DEFINE Bad == {m \in 0..Day : ~Paired(f[m], want, old, m)}
<1>3. SUFFICES ASSUME Bad # {} PROVE FALSE
  <2>1. Day \in 0..Day
    BY DayTyped
  <2> QED BY <1>1, <1>3, <2>1
<1>4. PICK m \in Bad : \A n \in Bad : m <= n
  <2>1. Bad \subseteq Nat
    BY DayTyped
  <2> HIDE DEF Bad
  <2> QED BY <1>3, <2>1, LeastOne
<1>5. m \in 0..Day /\ m \in Nat /\ ~Paired(f[m], want, old, m)
  BY DayTyped
<1>6. CASE m = 0
  <2>1. f[m] = {}
    BY <1>2, <1>5, <1>6 DEF MatchStep
  <2> QED BY <1>5, <2>1 DEF Paired
<1>7. CASE m # 0
  <2>1. m - 1 \in 0..Day /\ ~(m <= m - 1)
    BY <1>5, <1>7, DayTyped
  <2>2. Paired(f[m - 1], want, old, m - 1)
    BY <1>4, <2>1
  <2>3. f[m] = Matched(want, old, f[m - 1], m)
    BY <1>2, <1>5, <1>7 DEF MatchStep
  <2> QED BY <1>5, <1>7, <2>2, <2>3, MatchedPairs
<1> QED BY <1>6, <1>7

(***************************************************************************)
(* What a build that nothing came between leaves.                          *)
(***************************************************************************)
Unfrozen == {i \in DOMAIN entries : ~Frozen(entries[i])}

\* The entries a builder may move are the drafts of W, each once.
Built(W) ==
    /\ \A i \in Unfrozen : entries[i] \in W
    /\ \A d \in W : \E i \in Unfrozen : entries[i] = d
    /\ \A i, j \in Unfrozen : entries[i] = entries[j] => i = j

LEMMA UnfrozenMoves == ASSUME EntriesTyped PROVE Movable(Unfrozen)
<1>1. DOMAIN entries \subseteq Nat
  BY DEF EntriesTyped
<1>2. \A i \in Unfrozen : entries[i] \in DraftRecs
  BY DEF EntriesTyped, Sound, Unfrozen
<1> QED BY <1>1, <1>2 DEF Movable, Unfrozen

LEMMA OnlyFit ==
    ASSUME NEW W, ClearSet(W), Built(W), EntriesTyped, NEW i \in Unfrozen, NEW j \in Unfrozen, Fits(j, entries[i])
    PROVE  i = j
<1>1. entries[i] \in W /\ entries[j] \in W /\ entries[i] \in DraftRecs /\ entries[j] \in DraftRecs
  BY DEF Built, ClearSet
<1>2. entries[i].kind = entries[j].kind /\ entries[i].site = entries[j].site /\ Overlap(entries[j], entries[i])
  BY DEF Fits
<1>3. entries[j].source = entries[i].source /\ ~Apart(entries[j], entries[i])
  BY <1>1, <1>2, OverlapIs
<1>4. entries[j] = entries[i]
  BY <1>1, <1>2, <1>3 DEF ClearSet, ClearOfItself
<1> QED BY <1>4 DEF Built

\* The entries that are there are matched with themselves.
Themselves(m) == {[id |-> i, draft |-> entries[i]] : i \in {j \in Unfrozen : entries[j].start < m}}

LEMMA MatchedStays ==
    ASSUME NEW W, ClearSet(W), Built(W), EntriesTyped, NEW m \in Nat, m # 0
    PROVE  Matched(W, Unfrozen, Themselves(m - 1), m) = Themselves(m)
<1> DEFINE B == Themselves(m - 1)
           D == {w \in W : w.start = m - 1 /\ FitOf(Unfrozen, B, w) # {}}
<1>1. Movable(Unfrozen)
  BY UnfrozenMoves
<1>2. ASSUME NEW i \in Unfrozen, entries[i].start = m - 1
      PROVE  entries[i] \in D /\ First(FitOf(Unfrozen, B, entries[i])) = i
  <2>1. entries[i] \in DraftRecs /\ entries[i] \in W
    BY <1>1 DEF Movable, Built
  <2>2. Fits(i, entries[i])
    BY <2>1, OverlapIs DEF Fits
  <2>3. \A x \in B : x.id # i
    BY <1>2 DEF Themselves
  <2>4. i \in FitOf(Unfrozen, B, entries[i])
    BY <2>2, <2>3 DEF FitOf
  <2>5. First(FitOf(Unfrozen, B, entries[i])) \in Unfrozen
        /\ Fits(First(FitOf(Unfrozen, B, entries[i])), entries[i])
    BY <1>1, <2>4, FitFirst
  <2>6. First(FitOf(Unfrozen, B, entries[i])) = i
    BY <2>5, OnlyFit
  <2> QED BY <1>2, <2>1, <2>4, <2>6
<1>3. ASSUME NEW d \in D
      PROVE  \E i \in Unfrozen : entries[i] = d /\ entries[i].start = m - 1 /\ First(FitOf(Unfrozen, B, d)) = i
  <2>1. d \in W /\ d.start = m - 1
    OBVIOUS
  <2>2. PICK i \in Unfrozen : entries[i] = d
    BY <2>1 DEF Built
  <2> QED BY <1>2, <2>1, <2>2
<1> HIDE DEF D
<1> DEFINE M == {[id |-> First(FitOf(Unfrozen, B, d)), draft |-> d] : d \in D}
<1>4. Matched(W, Unfrozen, B, m) = B \cup M
  BY DEF Matched, D
<1>5. M \subseteq Themselves(m)
  <2> SUFFICES ASSUME NEW d \in D PROVE [id |-> First(FitOf(Unfrozen, B, d)), draft |-> d] \in Themselves(m)
    OBVIOUS
  <2>1. PICK i \in Unfrozen : entries[i] = d /\ entries[i].start = m - 1 /\ First(FitOf(Unfrozen, B, d)) = i
    BY <1>3
  <2>2. entries[i].start < m
    BY <2>1
  <2> QED BY <2>1, <2>2 DEF Themselves
<1>6. B \subseteq Themselves(m)
  <2>1. \A i \in Unfrozen : entries[i].start \in Nat
    BY <1>1, DraftCovers, DayTyped DEF Movable
  <2>2. \A i \in Unfrozen : entries[i].start < m - 1 => entries[i].start < m
    BY <2>1
  <2> QED BY <2>2 DEF Themselves
<1>7. Themselves(m) \subseteq B \cup M
  <2> SUFFICES ASSUME NEW i \in Unfrozen, entries[i].start < m
               PROVE  [id |-> i, draft |-> entries[i]] \in B \cup M
    BY DEF Themselves
  <2>1. entries[i].start \in Nat
    BY <1>1, DraftCovers, DayTyped DEF Movable
  <2>2. CASE entries[i].start = m - 1
    <3>1. entries[i] \in D /\ First(FitOf(Unfrozen, B, entries[i])) = i
      BY <1>2, <2>2
    <3> QED BY <3>1
  <2>3. CASE entries[i].start < m - 1
    BY <2>3 DEF Themselves
  <2> QED BY <2>1, <2>2, <2>3
<1> HIDE DEF M
<1> QED BY <1>4, <1>5, <1>6, <1>7

LEMMA MatchesStay ==
    ASSUME NEW W, ClearSet(W), Built(W), EntriesTyped
    PROVE  Matches(W, Unfrozen) = {[id |-> i, draft |-> entries[i]] : i \in Unfrozen}
<1>1. PICK f : MatchSolves(Day, f, W, Unfrozen) /\ Matches(W, Unfrozen) = f[Day]
  BY MatchesIs
<1>2. \A m \in 0..Day : f[m] = MatchStep(W, Unfrozen, f, m)
  BY <1>1 DEF MatchSolves
<1>0. \A i \in Unfrozen : entries[i].start \in Nat /\ entries[i].start < Day /\ 0 <= entries[i].start
  BY UnfrozenMoves, DraftCovers, DayTyped DEF Movable
<1> DEFINE Bad == {m \in 0..Day : f[m] # Themselves(m)}
<1>3. SUFFICES ASSUME Bad # {} PROVE FALSE
  <2>1. Day \in 0..Day
    BY DayTyped
  <2>2. f[Day] = Themselves(Day)
    BY <1>3, <2>1
  <2>3. Themselves(Day) = {[id |-> i, draft |-> entries[i]] : i \in Unfrozen}
    BY <1>0 DEF Themselves
  <2> QED BY <1>1, <2>2, <2>3
<1>4. PICK m \in Bad : \A n \in Bad : m <= n
  <2>1. Bad \subseteq Nat
    BY DayTyped
  <2> HIDE DEF Bad
  <2> QED BY <1>3, <2>1, LeastOne
<1>5. m \in 0..Day /\ m \in Nat /\ f[m] # Themselves(m)
  BY DayTyped
<1>6. CASE m = 0
  <2>1. f[m] = {}
    BY <1>2, <1>5, <1>6 DEF MatchStep
  <2>2. Themselves(0) = {}
    BY <1>0 DEF Themselves
  <2> QED BY <1>5, <1>6, <2>1, <2>2
<1>7. CASE m # 0
  <2>1. m - 1 \in 0..Day /\ ~(m <= m - 1)
    BY <1>5, <1>7, DayTyped
  <2>2. f[m - 1] = Themselves(m - 1)
    BY <1>4, <2>1
  <2>3. f[m] = Matched(W, Unfrozen, f[m - 1], m)
    BY <1>2, <1>5, <1>7 DEF MatchStep
  <2> QED BY <1>5, <1>7, <2>2, <2>3, MatchedStays
<1> QED BY <1>6, <1>7

\* Then there is nothing to write.
LEMMA SettledPlan ==
    ASSUME EntriesTyped, ClearSet(Want), Built(Want)
    PROVE  Plan.update = {} /\ Plan.insert = {} /\ Plan.delete = {}
<1> DEFINE X == Matches(Want, Unfrozen)
<1>1. X = {[id |-> i, draft |-> entries[i]] : i \in Unfrozen}
  BY MatchesStay
<1>2. /\ Plan.update = {x \in X : entries[x.id].start # x.draft.start \/ entries[x.id].end # x.draft.end}
      /\ Plan.insert = Want \ {x.draft : x \in X} /\ Plan.delete = Unfrozen \ {x.id : x \in X}
  BY DEF Plan, Unfrozen
<1> HIDE DEF X
<1>3. Plan.update = {}
  BY <1>1, <1>2
<1>4. ASSUME NEW d \in Plan.insert PROVE FALSE
  <2>1. PICK i \in Unfrozen : entries[i] = d
    BY <1>2 DEF Built
  <2>2. [id |-> i, draft |-> entries[i]] \in X /\ [id |-> i, draft |-> entries[i]].draft = d
    BY <1>1, <2>1
  <2> QED BY <1>2, <2>2
<1>5. ASSUME NEW i \in Plan.delete PROVE FALSE
  <2>1. [id |-> i, draft |-> entries[i]] \in X /\ [id |-> i, draft |-> entries[i]].id = i
    BY <1>1, <1>2
  <2> QED BY <1>2, <2>1
<1> QED BY <1>3, <1>4, <1>5

(***************************************************************************)
(* What a build writes.                                                    *)
(***************************************************************************)
IdsFor(n, I) == n..(n + Cardinality(I) - 1)
NewIds(plan) == IdsFor(nextEntry, plan.insert)

Namings(new, I) == {f \in [new -> I] : \A i, j \in new : i # j => f[i] # f[j]}

LEMMA NamingExists ==
    ASSUME NEW I, IsFiniteSet(I), NEW n \in Nat, NEW new, new = IdsFor(n, I)
    PROVE  Namings(new, I) # {} /\ \A f \in Namings(new, I) : \A d \in I : \E i \in new : f[i] = d
<1>1. Cardinality(I) \in Nat
  BY FS_CardinalityType
<1>2. IsFiniteSet(new) /\ Cardinality(new) = Cardinality(I)
  <2> DEFINE b == n + Cardinality(I) - 1
  <2>1. n \in Int /\ b \in Int /\ new = n..b
    BY <1>1 DEF IdsFor
  <2>2. IsFiniteSet(n..b) /\ Cardinality(n..b) = IF n > b THEN 0 ELSE b - n + 1
    <3> HIDE DEF b
    <3> QED BY <2>1, FS_Interval
  <2>3. (IF n > b THEN 0 ELSE b - n + 1) = Cardinality(I)
    BY <1>1
  <2> QED BY <2>1, <2>2, <2>3
<1>3. \E f \in [new -> I] : \A i, j \in new : i # j => f[i] # f[j]
  <2>1. Bijection(new, I) # {}
    BY <1>2, FS_SameCardinalityBij DEF ExistsBijection
  <2>2. PICK f \in Bijection(new, I) : TRUE
    BY <2>1
  <2>3. f \in [new -> I] /\ \A a, b \in DOMAIN f : f[a] = f[b] => a = b
    BY <2>2 DEF Bijection, Injection, IsInjective
  <2> QED BY <2>3
<1>4. ASSUME NEW f \in [new -> I], \A i, j \in new : i # j => f[i] # f[j], NEW d \in I
      PROVE  \E i \in new : f[i] = d
  <2>1. f \in Injection(new, I)
    BY <1>4 DEF Injection, IsInjective
  <2>2. f \in Surjection(new, I)
    BY <1>2, <2>1, FS_Injection
  <2> QED BY <2>2 DEF Surjection
<1> QED BY <1>3, <1>4 DEF Namings

MovedAs(e, d) == [e EXCEPT !.start = d.start, !.end = d.end]

WritesAs(W, plan, new) ==
    /\ Cardinality(plan.insert) \in Nat
    /\ W = [i \in DOMAIN W |-> W[i]] /\ DOMAIN W = (DOMAIN entries \ plan.delete) \cup new
    /\ new \cap DOMAIN entries = {} /\ new \subseteq 1..(nextEntry + Cardinality(plan.insert) - 1)
    /\ \A i \in new : W[i] \in plan.insert
    /\ \A d \in plan.insert : \E i \in new : W[i] = d
    /\ \A i, j \in new : W[i] = W[j] => i = j
    /\ \A i \in DOMAIN entries \ plan.delete :
           IF \E x \in plan.update : x.id = i
           THEN \E x \in plan.update : x.id = i /\ W[i] = MovedAs(entries[i], x.draft)
           ELSE W[i] = entries[i]

LEMMA WrittenIs ==
    ASSUME EntriesTyped, NEW plan, plan.insert \subseteq DraftRecs
    PROVE  WritesAs(Written(plan), plan, NewIds(plan))
<1> DEFINE new == NewIds(plan)
           W == Written(plan)
           named == CHOOSE f \in [new -> plan.insert] : \A i, j \in new : i # j => f[i] # f[j]
           moved(i) == CHOOSE x \in plan.update : x.id = i
           rest(i) == IF \E x \in plan.update : x.id = i
                      THEN [entries[i] EXCEPT !.start = moved(i).draft.start, !.end = moved(i).draft.end]
                      ELSE entries[i]
<1>1. IsFiniteSet(plan.insert) /\ Cardinality(plan.insert) \in Nat
  BY DraftsFinite, FS_CardinalityType
<1>2. nextEntry \in Nat /\ nextEntry > 0 /\ DOMAIN entries \subseteq 1..(nextEntry - 1)
  BY DEF EntriesTyped
<1>3. new \cap DOMAIN entries = {} /\ new \subseteq 1..(nextEntry + Cardinality(plan.insert) - 1)
  BY <1>1, <1>2 DEF NewIds, IdsFor
<1>4. W = [i \in (DOMAIN entries \ plan.delete) \cup new |-> IF i \in new THEN named[i] ELSE rest(i)]
  BY DEF Written, NewIds, IdsFor
<1>5. /\ named \in [new -> plan.insert] /\ \A i, j \in new : i # j => named[i] # named[j]
      /\ \A d \in plan.insert : \E i \in new : named[i] = d
  <2>1. new = IdsFor(nextEntry, plan.insert)
    BY DEF NewIds
  <2>2. named = CHOOSE f : f \in Namings(new, plan.insert)
    BY DEF Namings
  <2> HIDE DEF new, named, moved, rest, W
  <2>3. /\ Namings(new, plan.insert) # {}
        /\ \A f \in Namings(new, plan.insert) : \A d \in plan.insert : \E i \in new : f[i] = d
    BY <1>1, <1>2, <2>1, NamingExists
  <2>4. named \in Namings(new, plan.insert)
    BY <2>2, <2>3, SMTT(30)
  <2> QED BY <2>3, <2>4 DEF Namings
<1>6. ASSUME NEW i \in DOMAIN entries \ plan.delete
      PROVE  IF \E x \in plan.update : x.id = i
             THEN \E x \in plan.update :
                      x.id = i /\ rest(i) = MovedAs(entries[i], x.draft)
             ELSE rest(i) = entries[i]
  <2>1. CASE \E x \in plan.update : x.id = i
    <3>1. moved(i) \in plan.update /\ moved(i).id = i
      BY <2>1
    <3>2. rest(i) = MovedAs(entries[i], moved(i).draft)
      BY <2>1 DEF MovedAs
    <3> HIDE DEF moved, rest
    <3> QED BY <2>1, <3>1, <3>2
  <2>2. CASE ~\E x \in plan.update : x.id = i
    BY <2>2
  <2> QED BY <2>1, <2>2
<1> HIDE DEF named, rest, new, moved
<1>7. W = [i \in DOMAIN W |-> W[i]] /\ DOMAIN W = (DOMAIN entries \ plan.delete) \cup new
  BY <1>4
<1>8. \A i \in new : W[i] = named[i]
  BY <1>4
<1>9. \A i \in DOMAIN entries \ plan.delete : W[i] = rest(i)
  BY <1>3, <1>4
<1> HIDE DEF W
<1>10. \A i \in new : W[i] \in plan.insert
  BY <1>5, <1>8
<1>11. \A d \in plan.insert : \E i \in new : W[i] = d
  BY <1>5, <1>8
<1>12. \A i, j \in new : W[i] = W[j] => i = j
  BY <1>5, <1>8
<1> USE DEF W, new
<1> QED BY <1>1, <1>3, <1>6, <1>7, <1>9, <1>10, <1>11, <1>12 DEF WritesAs

(***************************************************************************)
(* Every step keeps the types.                                             *)
(***************************************************************************)
LEMMA PlanTypes ==
    ASSUME WorkTyped, EntriesTyped
    PROVE  /\ PlanTyped(Plan) /\ Plan # NoPlan /\ Plan.fresh
           /\ Paired(Matches(Want, Unfrozen), Want, Unfrozen, Day) /\ ClearSet(Want)
<1> DEFINE X == Matches(Want, Unfrozen)
<1>1. Movable(Unfrozen) /\ ClearSet(Want)
  BY UnfrozenMoves, WantClear
<1>2. Paired(X, Want, Unfrozen, Day)
  BY <1>1, MatchesPair
<1>3. Plan = [step |-> "write", fresh |-> TRUE,
              update |-> {x \in X : entries[x.id].start # x.draft.start \/ entries[x.id].end # x.draft.end},
              insert |-> Want \ {x.draft : x \in X}, delete |-> Unfrozen \ {x.id : x \in X}]
  BY DEF Plan, Unfrozen
<1> HIDE DEF X
<1>4. Want \subseteq DraftRecs
  BY <1>1 DEF ClearSet
<1>5. ASSUME NEW x \in X PROVE x \in [id : Nat, draft : DraftRecs]
  <2>1. x = [id |-> x.id, draft |-> x.draft] /\ x.id \in Unfrozen /\ x.draft \in Want
    BY <1>2 DEF Paired
  <2>2. x.id \in Nat /\ x.draft \in DraftRecs
    BY <1>1, <1>4, <2>1 DEF Movable
  <2> QED BY <2>1, <2>2
<1>6. Plan.update \subseteq X /\ Plan.insert \subseteq Want /\ Plan.fresh = TRUE /\ Plan.step = "write"
      /\ Plan = [step |-> "write", fresh |-> Plan.fresh, update |-> Plan.update,
                 insert |-> Plan.insert, delete |-> Plan.delete]
  BY <1>3
<1>7. Plan # NoPlan
  BY <1>6 DEF NoPlan
<1>8. PlanTyped(Plan)
  <2> HIDE DEF Plan
  <2> QED BY <1>4, <1>5, <1>6 DEF PlanTyped
<1> QED BY <1>1, <1>2, <1>6, <1>7, <1>8 DEF X

LEMMA WrittenSound ==
    ASSUME EntriesTyped, NEW plan, plan # NoPlan, PlanTyped(plan),
           entries' = Written(plan), nextEntry' = nextEntry + Cardinality(plan.insert)
    PROVE  EntriesTyped'
<1> DEFINE new == NewIds(plan)
           W == Written(plan)
<1>1. plan.insert \subseteq DraftRecs /\ plan.update \subseteq [id : Nat, draft : DraftRecs]
  BY DEF PlanTyped
<1>2. /\ Cardinality(plan.insert) \in Nat
      /\ W = [i \in DOMAIN W |-> W[i]] /\ DOMAIN W = (DOMAIN entries \ plan.delete) \cup new
      /\ new \subseteq 1..(nextEntry + Cardinality(plan.insert) - 1)
      /\ \A i \in new : W[i] \in plan.insert
      /\ \A i \in DOMAIN entries \ plan.delete :
             IF \E x \in plan.update : x.id = i
             THEN \E x \in plan.update :
                      x.id = i /\ W[i] = MovedAs(entries[i], x.draft)
             ELSE W[i] = entries[i]
  BY <1>1, WrittenIs DEF WritesAs
<1> HIDE DEF new, W
<1>3. nextEntry \in Nat \ {0} /\ DOMAIN entries \subseteq 1..(nextEntry - 1)
  BY DEF EntriesTyped
<1>4. nextEntry' \in Nat \ {0} /\ DOMAIN W \subseteq 1..(nextEntry' - 1)
  <2> DEFINE c == Cardinality(plan.insert)
  <2>1. nextEntry' = nextEntry + c /\ c \in Nat /\ nextEntry \in Nat /\ nextEntry # 0
    BY <1>2, <1>3
  <2>2. new \subseteq 1..(nextEntry + c - 1)
    BY <1>2
  <2> HIDE DEF c
  <2>3. \A i \in 1..(nextEntry - 1) : i \in 1..(nextEntry + c - 1)
    BY <2>1
  <2>4. DOMAIN W \subseteq 1..(nextEntry + c - 1)
    BY <1>2, <1>3, <2>2, <2>3
  <2> QED BY <2>1, <2>4
<1>5. ASSUME NEW d \in DraftRecs PROVE Sound(d)
  <2>1. d \in EntryRecs
    <3>1. d.start \in 0..Day /\ d.end \in 0..(Day + 1) /\ d.start < d.end
      BY DraftCovers, DayTyped DEF Minutes
    <3>2. d \in [kind : {"remote", "onsite", "dev"}, site : Places, start : Minutes, end : 1..Day,
                 source : AutoSources, status : {"draft"}, edited : {FALSE}]
      BY DEF DraftRecs
    <3>3. {"remote", "onsite", "dev"} \subseteq DOMAIN Group
      BY DEF Group
    <3> QED BY <3>1, <3>2, <3>3 DEF EntryRecs
  <2> QED BY <2>1 DEF Sound
<1>6. ASSUME NEW i \in DOMAIN entries, NEW d \in DraftRecs, NEW e,
             e = MovedAs(entries[i], d)
      PROVE  Sound(e)
  <2>1. Sound(entries[i]) /\ entries[i] \in EntryRecs
    BY DEF EntriesTyped, Sound
  <2>2. d.start \in Minutes /\ d.end \in 1..Day /\ d.start < d.end /\ d.start \in 0..Day /\ d.end \in 0..(Day + 1)
    BY DraftCovers, DayTyped DEF Minutes
  <2>3. /\ e.kind = entries[i].kind /\ e.site = entries[i].site /\ e.start = d.start /\ e.end = d.end
        /\ e.source = entries[i].source /\ e.status = entries[i].status /\ e.edited = entries[i].edited
    BY <1>6, <2>1 DEF EntryRecs, MovedAs
  <2>4. e \in EntryRecs
    BY <1>6, <2>1, <2>2 DEF EntryRecs, MovedAs
  <2>5. ~Frozen(e) => e \in DraftRecs
    <3> SUFFICES ASSUME ~Frozen(e) PROVE e \in DraftRecs
      OBVIOUS
    <3>1. entries[i] \in DraftRecs
      BY <2>1, <2>3 DEF Sound, Frozen
    <3> QED BY <1>6, <2>2, <3>1 DEF DraftRecs, MovedAs
  <2> QED BY <2>4, <2>5 DEF Sound
<1>7. ASSUME NEW i \in DOMAIN W PROVE Sound(W[i])
  <2>1. CASE i \in new
    BY <1>1, <1>2, <1>5, <2>1
  <2>2. CASE i \in DOMAIN entries \ plan.delete
    <3>1. CASE \E x \in plan.update : x.id = i
      <4>1. PICK x \in plan.update : W[i] = MovedAs(entries[i], x.draft)
        BY <1>2, <2>2, <3>1
      <4>2. x.draft \in DraftRecs
        BY <1>1
      <4> QED BY <1>6, <2>2, <4>1, <4>2
    <3>2. CASE ~\E x \in plan.update : x.id = i
      BY <1>2, <2>2, <3>2 DEF EntriesTyped
    <3> QED BY <3>1, <3>2
  <2> QED BY <1>2, <2>1, <2>2
<1> QED BY <1>2, <1>4, <1>7 DEF EntriesTyped, W

LEMMA SoundFrozen == ASSUME NEW e \in EntryRecs, Frozen(e) PROVE Sound(e)
BY DEF Sound

LEMMA EditsAre ==
    ASSUME NEW e, NEW d \in Edits(e)
    PROVE  \E k \in {e.kind, "remote", "general"}, p \in {e.site} \cup Farms,
              n \in {e.end} \cup ((e.start + 1)..(e.start + 1)), s \in {e.status, "approved"} : d = EditOf(e, k, p, n, s)
<1> DEFINE All == {EditOf(e, k, p, n, s) :
                      k \in {e.kind, "remote", "general"}, p \in {e.site} \cup Farms,
                      n \in {e.end} \cup ((e.start + 1)..(e.start + 1)), s \in {e.status, "approved"}}
<1>1. Edits(e) = {c \in All : c # e /\ Clean(c) /\ (c.status = "approved" => Approvable(c))}
  BY DEF Edits
<1>2. d \in All
  <2> HIDE DEF All
  <2> QED BY <1>1
<1> QED BY <1>2

\* The operator's hand: an entry of its own, or one that is frozen from now on.
LEMMA UpdateSound == ASSUME EntriesTyped, NEW i \in DOMAIN entries, Update(i) PROVE EntriesTyped'
<1>1. PICK d \in Edits(entries[i]) : entries' = [entries EXCEPT ![i] = d]
  BY DEF Update
<1>2. entries[i] \in EntryRecs
  BY DEF EntriesTyped, Sound
<1>3. Sound(d)
  <2>1. PICK k \in {entries[i].kind, "remote", "general"}, p \in {entries[i].site} \cup Farms,
             n \in {entries[i].end} \cup ((entries[i].start + 1)..(entries[i].start + 1)),
             s \in {entries[i].status, "approved"} : d = EditOf(entries[i], k, p, n, s)
    BY <1>1, EditsAre
  <2>2. CleanSite(k, p) \in Places
    BY <1>2 DEF CleanSite, EntryRecs, Places
  <2>3. k \in DOMAIN Group /\ s \in {"draft", "approved", "dismissed"}
    BY <1>2 DEF EntryRecs, Group
  <2>4. n \in 0..(Day + 1) /\ (n = StillOpen \/ entries[i].start < n)
    BY <1>2, DayTyped DEF EntryRecs
  <2>5. d = [kind |-> k, site |-> CleanSite(k, p), start |-> entries[i].start, end |-> n,
             source |-> entries[i].source, status |-> s, edited |-> TRUE]
    BY <1>2, <2>1 DEF EntryRecs, EditOf
  <2>6. d \in EntryRecs
    BY <1>2, <2>2, <2>3, <2>4, <2>5 DEF EntryRecs
  <2> QED BY <2>5, <2>6, SoundFrozen DEF Frozen
<1>4. nextEntry' = nextEntry
  BY DEF Update
<1> QED BY <1>1, <1>3, <1>4 DEF EntriesTyped

LEMMA DeleteSound == ASSUME EntriesTyped, NEW i \in DOMAIN entries, Delete(i) PROVE EntriesTyped'
<1>1. nextEntry' = nextEntry
  BY DEF Delete
<1>2. CASE entries[i].source \in AutoSources
  <2> DEFINE d == [entries[i] EXCEPT !.status = "dismissed", !.edited = TRUE]
  <2>1. entries' = [entries EXCEPT ![i] = d]
    BY <1>2 DEF Delete
  <2>2. entries[i] \in EntryRecs
    BY DEF EntriesTyped, Sound
  <2>3. d \in EntryRecs /\ Frozen(d)
    BY <2>2 DEF EntryRecs, Frozen
  <2> HIDE DEF d
  <2>4. Sound(d)
    BY <2>3, SoundFrozen
  <2> QED BY <1>1, <2>1, <2>4 DEF EntriesTyped
<1>3. CASE entries[i].source \notin AutoSources
  <2>1. entries' = [j \in DOMAIN entries \ {i} |-> entries[j]]
    BY <1>3 DEF Delete
  <2> QED BY <1>1, <2>1 DEF EntriesTyped
<1> QED BY <1>2, <1>3

LEMMA ApproveSound == ASSUME EntriesTyped, ApproveDay PROVE EntriesTyped'
<1> DEFINE after(i) == IF entries[i].status = "draft" /\ Approvable(entries[i])
                       THEN [entries[i] EXCEPT !.status = "approved", !.edited = TRUE] ELSE entries[i]
<1>1. nextEntry' = nextEntry /\ entries' = [i \in DOMAIN entries |-> after(i)]
  BY DEF ApproveDay
<1>2. ASSUME NEW i \in DOMAIN entries PROVE Sound(after(i))
  <2>1. Sound(entries[i]) /\ entries[i] \in EntryRecs
    BY DEF EntriesTyped, Sound
  <2>2. CASE after(i) = entries[i]
    BY <2>1, <2>2
  <2>3. CASE after(i) = [entries[i] EXCEPT !.status = "approved", !.edited = TRUE]
    <3>1. after(i) \in EntryRecs /\ Frozen(after(i))
      BY <2>1, <2>3 DEF EntryRecs, Frozen
    <3> HIDE DEF after
    <3> QED BY <3>1, SoundFrozen
  <2> QED BY <2>2, <2>3
<1> HIDE DEF after
<1> QED BY <1>1, <1>2 DEF EntriesTyped

LEMMA EnteredSound ==
    ASSUME EntriesTyped, NEW e, Sound(e), nextEntry' = nextEntry + 1, NEW f,
           DOMAIN f = DOMAIN entries, \A i \in DOMAIN f : Sound(f[i]),
           entries' = [i \in DOMAIN entries \cup {nextEntry} |-> IF i = nextEntry THEN e ELSE f[i]]
    PROVE  EntriesTyped'
<1>1. nextEntry \in Nat \ {0} /\ DOMAIN entries \subseteq 1..(nextEntry - 1)
  BY DEF EntriesTyped
<1>2. nextEntry + 1 \in Nat \ {0} /\ DOMAIN entries' \subseteq 1..(nextEntry + 1 - 1)
  BY <1>1
<1>3. entries' = [i \in DOMAIN entries' |-> entries'[i]]
  OBVIOUS
<1>4. \A i \in DOMAIN entries' : Sound(entries'[i])
  OBVIOUS
<1> QED BY <1>2, <1>3, <1>4 DEF EntriesTyped

LEMMA TypeSound ==
    ASSUME EntriesTyped, now \in 0..Day, NEW k \in {"remote", "onsite", "travel"}, NEW p \in Places,
           NEW s \in 0..Day, NEW e \in 0..Day, Type(k, p, s, e)
    PROVE  EntriesTyped'
<1> DEFINE entry == [kind |-> k, site |-> CleanSite(k, p), start |-> s, end |-> e,
                     source |-> "manual", status |-> "approved", edited |-> FALSE]
<1>1. nextEntry' = nextEntry + 1 /\ s < e
      /\ entries' = [i \in DOMAIN entries \cup {nextEntry} |-> IF i = nextEntry THEN entry ELSE entries[i]]
  BY DEF Type, Entered
<1>2. CleanSite(k, p) \in Places /\ k \in DOMAIN Group /\ e \in 0..(Day + 1)
  BY DayTyped DEF CleanSite, Places, Group
<1>3. entry \in EntryRecs /\ Frozen(entry)
  BY <1>1, <1>2 DEF EntryRecs, Frozen
<1> HIDE DEF entry
<1>4. Sound(entry)
  BY <1>3, SoundFrozen
<1>5. \A i \in DOMAIN entries : Sound(entries[i])
  BY DEF EntriesTyped
<1> QED BY <1>1, <1>4, <1>5, EnteredSound

LEMMA ClosedSound ==
    ASSUME EntriesTyped, now \in 0..Day, NEW kinds
    PROVE  LET f == Closed(Running(kinds)) IN
           f = [i \in DOMAIN entries |-> f[i]] /\ \A i \in DOMAIN entries : Sound(f[i])
<1> DEFINE ids == Running(kinds)
           f == Closed(ids)
<1>1. /\ f = [i \in DOMAIN entries |-> f[i]]
      /\ \A i \in DOMAIN entries :
            f[i] = IF i \in ids THEN [entries[i] EXCEPT !.end = Max({now, entries[i].start + 1})] ELSE entries[i]
  BY DEF Closed
<1>2. ASSUME NEW i \in DOMAIN entries PROVE Sound(f[i])
  <2>1. Sound(entries[i]) /\ entries[i] \in EntryRecs
    BY DEF EntriesTyped, Sound
  <2>2. CASE i \notin ids
    BY <1>1, <2>1, <2>2
  <2>3. CASE i \in ids
    <3> DEFINE n == Max({now, entries[i].start + 1})
    <3>1. f[i] = [entries[i] EXCEPT !.end = n]
      BY <1>1, <2>3
    <3>2. entries[i].end = StillOpen
      BY <2>3 DEF Running
    <3>3. Frozen(entries[i])
      <4>1. entries[i] \in DraftRecs => entries[i].end # StillOpen
        BY DraftCovers
      <4> QED BY <2>1, <3>2, <4>1 DEF Sound
    <3>4. n \in 0..(Day + 1) /\ entries[i].start < n
      <4> DEFINE S == {now, entries[i].start + 1}
      <4>1. entries[i].start \in 0..Day /\ entries[i].start \in Nat /\ now \in Nat
        BY <2>1, DayTyped DEF EntryRecs
      <4>2. S \subseteq Nat /\ S # {} /\ (\A x \in S : x <= Day + 1) /\ Day + 1 \in Nat
        BY <4>1, DayTyped
      <4>3. entries[i].start + 1 \in S
        OBVIOUS
      <4> HIDE DEF S
      <4>4. Max(S) \in S /\ \A x \in S : x <= Max(S)
        BY <4>2, MaxOf
      <4>5. Max(S) \in Nat /\ Max(S) <= Day + 1 /\ entries[i].start + 1 <= Max(S)
        BY <4>2, <4>3, <4>4
      <4>6. Max(S) \in 0..(Day + 1) /\ entries[i].start < Max(S)
        BY <4>1, <4>2, <4>5
      <4> QED BY <4>6 DEF S
    <3> HIDE DEF n
    <3>5. /\ f[i].source = entries[i].source /\ f[i].status = entries[i].status /\ f[i].edited = entries[i].edited
          /\ f[i] \in EntryRecs
      BY <2>1, <3>1, <3>4 DEF EntryRecs
    <3>6. Frozen(f[i])
      BY <3>3, <3>5 DEF Frozen
    <3> QED BY <3>5, <3>6, SoundFrozen
  <2> QED BY <2>2, <2>3
<1> QED BY <1>1, <1>2

LEMMA ClockSound ==
    ASSUME EntriesTyped, now \in 0..Day,
           (\E k \in {"onsite", "travel"}, f \in Farms : ClockOpens(k, f))
           \/ (\E kinds \in {{"onsite"}, {"travel", "onsite"}} : ClockCloses(kinds))
    PROVE  EntriesTyped'
<1>1. CASE \E kinds \in {{"onsite"}, {"travel", "onsite"}} : ClockCloses(kinds)
  <2>1. PICK kinds : entries' = Closed(Running(kinds)) /\ nextEntry' = nextEntry
    BY <1>1 DEF ClockCloses
  <2>2. entries' = [i \in DOMAIN entries |-> entries'[i]] /\ \A i \in DOMAIN entries : Sound(entries'[i])
    BY <2>1, ClosedSound
  <2>3. DOMAIN entries' = DOMAIN entries
    BY <2>2
  <2> QED BY <2>1, <2>2, <2>3 DEF EntriesTyped
<1>2. CASE \E k \in {"onsite", "travel"}, f \in Farms : ClockOpens(k, f)
  <2>1. PICK k \in {"onsite", "travel"}, f \in Farms : ClockOpens(k, f)
    BY <1>2
  <2> DEFINE c == Closed(Running({"travel", "onsite"}))
             e == Button(k, f)
  <2>2. nextEntry' = nextEntry + 1
        /\ entries' = [i \in DOMAIN entries \cup {nextEntry} |-> IF i = nextEntry THEN e ELSE c[i]]
    BY <2>1 DEF ClockOpens
  <2>3. c = [i \in DOMAIN entries |-> c[i]] /\ \A i \in DOMAIN entries : Sound(c[i])
    BY ClosedSound
  <2>4. e \in EntryRecs /\ Frozen(e)
    BY DayTyped DEF Button, EntryRecs, Frozen, Group, Places, StillOpen
  <2> HIDE DEF c, e
  <2>5. Sound(e) /\ DOMAIN c = DOMAIN entries
    BY <2>3, <2>4, SoundFrozen
  <2> QED BY <2>2, <2>3, <2>5, EnteredSound
<1> QED BY <1>1, <1>2

LEMMA SpendTyped ==
    ASSUME kleft \in [KKinds -> Nat], NEW k \in KKinds \ {"min"}, KSpend(k)
    PROVE  /\ kleft' \in [KKinds -> Nat] /\ kleft'["min"] = kleft["min"] /\ kleft'["tick"] <= kleft["tick"]
           /\ (k = "tick" => kleft'["tick"] = kleft["tick"] - 1)
<1>1. kleft' = [kleft EXCEPT ![k] = @ - 1] /\ kleft[k] > 0 /\ kleft[k] \in Nat
  BY DEF KSpend
<1>2. "tick" \in KKinds /\ "min" \in KKinds
  BY DEF KKinds
<1>3. kleft[k] - 1 \in Nat /\ kleft[k] - 1 <= kleft[k] /\ kleft["tick"] \in Nat
  BY <1>1, <1>2
<1> QED BY <1>1, <1>2, <1>3

PlansTyped == plans = [p \in Processes |-> plans[p]] /\ \A p \in Processes : PlanTyped(plans[p])

LEMMA PlanIsNot == ASSUME NEW plan, PlanTyped(plan), plan # NoPlan
                   PROVE  LET stale == [plan EXCEPT !.fresh = FALSE] IN
                          stale # NoPlan /\ ~stale.fresh /\ PlanTyped(stale)
<1>1. plan = [step |-> "write", fresh |-> plan.fresh, update |-> plan.update,
              insert |-> plan.insert, delete |-> plan.delete]
      /\ plan.update \subseteq [id : Nat, draft : DraftRecs] /\ plan.insert \subseteq DraftRecs
  BY DEF PlanTyped
<1> DEFINE stale == [plan EXCEPT !.fresh = FALSE]
<1>2. stale = [step |-> "write", fresh |-> FALSE, update |-> plan.update,
               insert |-> plan.insert, delete |-> plan.delete]
  <2>1. ASSUME NEW f, NEW u, NEW i, NEW d, NEW r, NEW s, s = [r EXCEPT !.fresh = FALSE],
               r = [step |-> "write", fresh |-> f, update |-> u, insert |-> i, delete |-> d]
        PROVE  s = [step |-> "write", fresh |-> FALSE, update |-> u, insert |-> i, delete |-> d]
    BY <2>1
  <2>2. PICK f, u, i, d : /\ plan = [step |-> "write", fresh |-> f, update |-> u, insert |-> i, delete |-> d]
                          /\ u = plan.update /\ i = plan.insert /\ d = plan.delete
    BY <1>1
  <2>3. stale = [plan EXCEPT !.fresh = FALSE]
    OBVIOUS
  <2> HIDE DEF stale
  <2>4. stale = [step |-> "write", fresh |-> FALSE, update |-> u, insert |-> i, delete |-> d]
    BY <2>1, <2>2, <2>3
  <2> QED BY <2>2, <2>4
<1>3. stale.step = "write" /\ stale.fresh = FALSE /\ stale.update = plan.update
      /\ stale.insert = plan.insert /\ stale.delete = plan.delete
  BY <1>2
<1> HIDE DEF stale
<1>4. stale # NoPlan
  BY <1>3 DEF NoPlan
<1>5. PlanTyped(stale)
  BY <1>1, <1>2, <1>3 DEF PlanTyped
<1> QED BY <1>3, <1>4, <1>5 DEF stale

LEMMA ChangedPlans ==
    ASSUME PlansTyped, Changed
    PROVE  /\ PlansTyped' /\ builds' = 0
           /\ \A p \in Processes : (plans'[p] = NoPlan <=> plans[p] = NoPlan) /\ (plans'[p] # NoPlan => ~plans'[p].fresh)
<1>1. plans' = [p \in Processes |-> IF plans[p] = NoPlan THEN NoPlan ELSE [plans[p] EXCEPT !.fresh = FALSE]]
      /\ builds' = 0
  BY DEF Changed
<1>2. ASSUME NEW p \in Processes
      PROVE  /\ PlanTyped(plans'[p]) /\ (plans'[p] = NoPlan <=> plans[p] = NoPlan)
             /\ (plans'[p] # NoPlan => ~plans'[p].fresh)
  <2>1. PlanTyped(plans[p])
    BY DEF PlansTyped
  <2>2. CASE plans[p] = NoPlan
    BY <1>1, <2>2 DEF PlanTyped
  <2>3. CASE plans[p] # NoPlan
    <3> DEFINE stale == [plans[p] EXCEPT !.fresh = FALSE]
    <3>1. plans'[p] = stale
      BY <1>1, <2>3
    <3>2. stale # NoPlan /\ ~stale.fresh /\ PlanTyped(stale)
      BY <2>1, <2>3, PlanIsNot
    <3> HIDE DEF stale
    <3> QED BY <2>3, <3>1, <3>2
  <2> QED BY <2>2, <2>3
<1>3. plans' = [p \in Processes |-> plans'[p]]
  BY <1>1
<1> QED BY <1>1, <1>2, <1>3 DEF PlansTyped

\* Whatever is not a build leaves no plan fresh.
LEMMA OtherSteps ==
    ASSUME KTyped, KNext, ~\E p \in Processes : BuildRead(p) \/ BuildWrite(p)
    PROVE  KTyped' /\ Changed
<1> DEFINE Left == /\ kleft' \in [KKinds -> Nat] /\ kleft'["tick"] <= kleft["tick"] 
<1> USE DEF KTyped
<1>0. PlansTyped /\ (\A k \in KKinds \ {"min"} : KSpend(k) => Left)
  BY SpendTyped DEF PlansTyped
<1>1. SUFFICES Changed /\ WorkTyped' /\ EntriesTyped' /\ now' \in 0..Day /\ kleft' \in [KKinds -> Nat]
               /\ now' + kleft'["tick"] <= Day
  <2>1. Changed => PlansTyped' /\ builds' = 0
    BY <1>0, ChangedPlans
  <2>2. Changed => (plans = [p \in Processes |-> plans[p]])' /\ (\A p \in Processes : PlanTyped(plans[p]))' /\ (builds \in 0..2)'
    BY <2>1 DEF PlansTyped
  <2> QED BY <2>2
<1>2. ASSUME Left, now' = now PROVE now' \in 0..Day /\ kleft' \in [KKinds -> Nat] /\ now' + kleft'["tick"] <= Day
  <2>1. "tick" \in KKinds
    BY DEF KKinds
  <2> QED BY <1>2, <2>1, DayTyped
<1>3. ASSUME NEW m \in Minutes, MarkDev(m) \/ (\E p \in Places : MarkRemote(m, p)) \/ (\E f \in Farms : MarkPhone(m, f))
      PROVE  Changed /\ Left /\ now' = now /\ WorkTyped' /\ EntriesTyped'
  <2>1. CASE MarkDev(m)
    <3>1. Changed /\ Left /\ now' = now /\ UNCHANGED <<work, latest, phone, entries, nextEntry>> /\ claude' = claude \cup {m}
      BY <1>0, <2>1 DEF MarkDev, KKinds
    <3> QED BY <3>1 DEF WorkTyped, EntriesTyped
  <2>2. ASSUME NEW f \in Farms, MarkPhone(m, f) PROVE Changed /\ Left /\ now' = now /\ WorkTyped' /\ EntriesTyped'
    <3>1. Changed /\ Left /\ now' = now /\ UNCHANGED <<work, latest, claude, entries, nextEntry>>
          /\ phone' = [phone EXCEPT ![f] = @ \cup {m}]
      BY <1>0, <2>2 DEF MarkPhone, KKinds
    <3> QED BY <3>1 DEF WorkTyped, EntriesTyped
  <2>3. ASSUME NEW p \in Places, MarkRemote(m, p) PROVE Changed /\ Left /\ now' = now /\ WorkTyped' /\ EntriesTyped'
    <3>1. Changed /\ Left /\ now' = now /\ UNCHANGED <<phone, claude, entries, nextEntry>>
          /\ work' = [work EXCEPT ![m] = @ \cup {p}]
      BY <1>0, <2>3 DEF MarkRemote, KKinds
    <3>2. PICK l \in (IF p = Hub THEN {latest[m]} ELSE {p} \cup (IF latest[m] \in Farms THEN {latest[m]} ELSE {})) :
              latest' = [latest EXCEPT ![m] = l]
      BY <2>3 DEF MarkRemote
    <3>3. l \in Places /\ (p # Hub => l \in Farms) /\ (p = Hub => l = latest[m]) /\ Hub \notin Farms
      BY <3>2, DayTyped DEF WorkTyped, Places
    <3>4. EntriesTyped'
      BY <3>1 DEF EntriesTyped
    <3>5. work' \in [Minutes -> SUBSET Places] /\ latest' \in [Minutes -> Places]
      BY <3>1, <3>2, <3>3 DEF WorkTyped
    <3>6. ASSUME NEW n \in Minutes, work'[n] \cap Farms # {} PROVE latest'[n] \in Farms
      <4>1. CASE n # m
        BY <3>1, <3>2, <3>6, <4>1 DEF WorkTyped
      <4>2. CASE n = m /\ p # Hub
        BY <3>2, <3>3, <4>2 DEF WorkTyped
      <4>3. CASE n = m /\ p = Hub
        <5>1. work'[m] = work[m] \cup {Hub} /\ latest'[m] = latest[m]
          BY <3>1, <3>2, <3>3, <4>3 DEF WorkTyped
        <5>2. work[m] \cap Farms # {}
          BY <3>3, <3>6, <4>3, <5>1
        <5> QED BY <4>3, <5>1, <5>2 DEF WorkTyped
      <4> QED BY <4>1, <4>2, <4>3
    <3> QED BY <3>1, <3>4, <3>5, <3>6 DEF WorkTyped
  <2> QED BY <1>3, <2>1, <2>2, <2>3
<1>4. CASE Tick
  <2>1. /\ Changed /\ now' = now + 1 /\ kleft' \in [KKinds -> Nat] /\ kleft'["tick"] = kleft["tick"] - 1
        /\ UNCHANGED <<work, latest, phone, claude, entries, nextEntry>>
    BY <1>4, SpendTyped DEF Tick, KKinds
  <2>2. WorkTyped' /\ EntriesTyped'
    BY <2>1 DEF WorkTyped, EntriesTyped
  <2>3. now \in Nat /\ kleft["tick"] \in Nat /\ kleft'["tick"] \in Nat /\ now + kleft["tick"] <= Day
    BY <2>1 DEF KKinds
  <2>4. now + 1 \in 0..Day /\ now + 1 + (kleft["tick"] - 1) <= Day
    BY <2>1, <2>3, DayTyped
  <2> QED BY <2>1, <2>2, <2>4
<1>5. ASSUME Changed, Left, EditsOnly, EntriesTyped'
      PROVE  Changed /\ Left /\ now' = now /\ WorkTyped' /\ EntriesTyped'
  BY <1>5 DEF EditsOnly, WorkTyped
<1>6. ASSUME NEW i \in DOMAIN entries, Update(i) \/ Delete(i)
      PROVE  Changed /\ Left /\ now' = now /\ WorkTyped' /\ EntriesTyped'
  <2>1. Changed /\ Left /\ EditsOnly
    BY <1>0, <1>6 DEF Update, Delete, KKinds
  <2>2. EntriesTyped'
    BY <1>6, UpdateSound, DeleteSound
  <2> QED BY <1>5, <2>1, <2>2
<1>7. CASE ApproveDay
  <2>1. Changed /\ Left /\ EditsOnly
    BY <1>0, <1>7 DEF ApproveDay, KKinds
  <2>2. EntriesTyped'
    BY <1>7, ApproveSound
  <2> QED BY <1>2, <1>5, <2>1, <2>2
<1>8. ASSUME NEW k \in {"remote", "onsite", "travel"}, NEW p \in Places, NEW s \in 0..Day, NEW e \in 0..Day, Type(k, p, s, e)
      PROVE  Changed /\ Left /\ now' = now /\ WorkTyped' /\ EntriesTyped'
  <2>1. Changed /\ Left /\ EditsOnly
    BY <1>0, <1>8 DEF Type, KKinds
  <2>2. EntriesTyped'
    BY <1>8, TypeSound
  <2> QED BY <1>5, <2>1, <2>2
<1>9. ASSUME (\E k \in {"onsite", "travel"}, f \in Farms : ClockOpens(k, f))
             \/ (\E kinds \in {{"onsite"}, {"travel", "onsite"}} : ClockCloses(kinds))
      PROVE  Changed /\ Left /\ now' = now /\ WorkTyped' /\ EntriesTyped'
  <2>1. Changed /\ Left /\ EditsOnly
    BY <1>0, <1>9 DEF ClockOpens, ClockCloses, KKinds
  <2>2. EntriesTyped'
    BY <1>9, ClockSound
  <2> QED BY <1>5, <2>1, <2>2
<1> HIDE DEF KTyped, Left
<1>10. \/ \E m \in Minutes : MarkDev(m) \/ (\E p \in Places : MarkRemote(m, p)) \/ (\E f \in Farms : MarkPhone(m, f))
       \/ Tick \/ ApproveDay
       \/ \E i \in DOMAIN entries : Update(i) \/ Delete(i)
       \/ \E k \in {"remote", "onsite", "travel"}, p \in Places, s, e \in 0..Day : Type(k, p, s, e)
       \/ (\E k \in {"onsite", "travel"}, f \in Farms : ClockOpens(k, f))
          \/ (\E kinds \in {{"onsite"}, {"travel", "onsite"}} : ClockCloses(kinds))
  BY DEF KNext
<1> QED BY <1>2, <1>3, <1>4, <1>6, <1>7, <1>8, <1>9, <1>10

LEMMA ReadTyped ==
    ASSUME KTyped, NEW p \in Processes, BuildRead(p)
    PROVE  /\ KTyped' /\ SameDay /\ UNCHANGED <<builds, nextEntry>> /\ plans[p] = NoPlan /\ plans'[p] = Plan
           /\ \A q \in Processes : q # p => plans'[q] = plans[q]
<1>1. /\ UNCHANGED <<work, latest, phone, claude, entries, nextEntry, now, builds>> /\ plans[p] = NoPlan
      /\ plans' = [plans EXCEPT ![p] = Plan]
      /\ IF p = "import" THEN KSpend("import") ELSE UNCHANGED kleft
  BY DEF BuildRead
<1>2. /\ kleft \in [KKinds -> Nat] /\ plans = [q \in Processes |-> plans[q]] /\ (\A q \in Processes : PlanTyped(plans[q]))
      /\ WorkTyped /\ EntriesTyped /\ now \in 0..Day /\ builds \in 0..2 /\ now + kleft["tick"] <= Day
  BY DEF KTyped
<1>3. kleft' \in [KKinds -> Nat] /\ kleft'["min"] = kleft["min"] /\ kleft'["tick"] <= kleft["tick"]
  <2>1. CASE p = "import"
    BY <1>1, <1>2, <2>1, SpendTyped DEF KKinds
  <2>2. CASE p # "import"
    <3>1. kleft' = kleft /\ kleft["tick"] \in Nat
      BY <1>1, <1>2, <2>2 DEF KKinds
    <3> QED BY <1>2, <3>1
  <2> QED BY <2>1, <2>2
<1>4. SameDay
  BY <1>1, <1>3 DEF SameDay
<1>5. plans'[p] = Plan /\ (\A q \in Processes : q # p => plans'[q] = plans[q]) /\ plans' = [q \in Processes |-> plans'[q]]
  BY <1>1, <1>2
<1>6. PlanTyped(Plan)
  BY <1>2, PlanTypes
<1>7. \A q \in Processes : PlanTyped(plans'[q])
  BY <1>2, <1>5, <1>6
<1>8. WorkTyped' /\ EntriesTyped'
  BY <1>1, <1>2 DEF WorkTyped, EntriesTyped
<1>9. now' + kleft'["tick"] <= Day
  <2>1. kleft["tick"] \in Nat /\ kleft'["tick"] \in Nat /\ now \in Nat /\ now' = now
    BY <1>1, <1>2, <1>3 DEF KKinds
  <2> QED BY <1>2, <1>3, <2>1, DayTyped
<1>10. KTyped'
  BY <1>1, <1>2, <1>3, <1>5, <1>7, <1>8, <1>9 DEF KTyped
<1> QED BY <1>1, <1>4, <1>5, <1>10

LEMMA WriteTyped ==
    ASSUME KTyped, NEW p \in Processes, BuildWrite(p)
    PROVE  /\ KTyped' /\ plans[p] # NoPlan /\ plans'[p] = NoPlan /\ UNCHANGED <<work, latest, phone, claude, now, kleft>>
           /\ entries' = Written(plans[p]) /\ PlanTyped(plans[p])
           /\ builds' = (IF plans[p].fresh THEN IF builds < 2 THEN builds + 1 ELSE 2 ELSE 0)
           /\ \A q \in Processes : q # p =>
                  /\ plans'[q] = NoPlan <=> plans[q] = NoPlan
                  /\ plans'[q] # NoPlan /\ plans'[q].fresh => plans'[q] = plans[q] /\ entries' = entries
<1> DEFINE after(q) == IF q = p THEN NoPlan
                       ELSE IF plans[q] # NoPlan /\ entries' # entries THEN [plans[q] EXCEPT !.fresh = FALSE]
                       ELSE plans[q]
<1>1. /\ UNCHANGED <<work, latest, phone, claude, now, kleft>> /\ plans[p] # NoPlan
      /\ plans' = [q \in Processes |-> after(q)]
      /\ entries' = Written(plans[p]) /\ nextEntry' = nextEntry + Cardinality(plans[p].insert)
      /\ builds' = (IF plans[p].fresh THEN IF builds < 2 THEN builds + 1 ELSE 2 ELSE 0)
  BY DEF BuildWrite
<1>2. /\ kleft \in [KKinds -> Nat] /\ (\A q \in Processes : PlanTyped(plans[q]))
      /\ WorkTyped /\ EntriesTyped /\ now \in 0..Day /\ builds \in 0..2 /\ now + kleft["tick"] <= Day
  BY DEF KTyped
<1>3. EntriesTyped'
  BY <1>1, <1>2, WrittenSound
<1>4. ASSUME NEW q \in Processes
      PROVE  /\ PlanTyped(after(q)) /\ (q # p => (after(q) = NoPlan <=> plans[q] = NoPlan))
             /\ (q # p /\ after(q) # NoPlan /\ after(q).fresh => after(q) = plans[q] /\ entries' = entries)
             /\ (q = p => after(q) = NoPlan)
  <2> DEFINE stale == [plans[q] EXCEPT !.fresh = FALSE]
  <2>1. plans[q] # NoPlan => stale # NoPlan /\ ~stale.fresh /\ PlanTyped(stale)
    BY <1>2, PlanIsNot
  <2>2. after(q) = (IF q = p THEN NoPlan ELSE IF plans[q] # NoPlan /\ entries' # entries THEN stale ELSE plans[q])
    OBVIOUS
  <2>3. PlanTyped(NoPlan) /\ PlanTyped(plans[q])
    BY <1>2 DEF PlanTyped
  <2> HIDE DEF stale, after
  <2> QED BY <2>1, <2>2, <2>3
<1> HIDE DEF after
<1>5. \A q \in Processes : plans'[q] = after(q)
  BY <1>1
<1>6. WorkTyped'
  BY <1>1, <1>2 DEF WorkTyped
<1>7. plans' = [q \in Processes |-> plans'[q]] /\ \A q \in Processes : PlanTyped(plans'[q])
  BY <1>1, <1>4, <1>5
<1>8. builds' \in 0..2
  BY <1>1, <1>2
<1>9. KTyped'
  BY <1>1, <1>2, <1>3, <1>6, <1>7, <1>8 DEF KTyped
<1> QED BY <1>1, <1>2, <1>4, <1>5, <1>9

LEMMA MovedTo ==
    ASSUME NEW e, NEW d, NEW a, NEW b, NEW r, r = MovedAs(e, d),
           e = [kind |-> d.kind, site |-> d.site, start |-> a, end |-> b,
                source |-> d.source, status |-> "draft", edited |-> FALSE],
           d = [kind |-> d.kind, site |-> d.site, start |-> d.start, end |-> d.end,
                source |-> d.source, status |-> "draft", edited |-> FALSE]
    PROVE  r = d
<1>1. ASSUME NEW k, NEW p, NEW s, NEW t, NEW o,
             e = [kind |-> k, site |-> p, start |-> a, end |-> b, source |-> o, status |-> "draft", edited |-> FALSE],
             r = [e EXCEPT !.start = s, !.end = t]
      PROVE  r = [kind |-> k, site |-> p, start |-> s, end |-> t, source |-> o, status |-> "draft", edited |-> FALSE]
  BY ONLY <1>1
<1>2. r = [kind |-> d.kind, site |-> d.site, start |-> d.start, end |-> d.end,
           source |-> d.source, status |-> "draft", edited |-> FALSE]
  BY <1>1 DEF MovedAs
<1> QED BY <1>2

\* A build nothing came between: what is settled stays, and the rest is what was wanted.
LEMMA FreshBuild ==
    ASSUME KTyped, NEW p \in Processes, BuildWrite(p), plans[p] = Plan, NEW W, W = Want
    PROVE  /\ Built(W)'
           /\ \A i \in DOMAIN entries : Frozen(entries[i]) => i \in DOMAIN entries' /\ entries'[i] = entries[i]
           /\ \A i \in DOMAIN entries' : Frozen(entries'[i]) => i \in DOMAIN entries /\ entries'[i] = entries[i]
<1> DEFINE X == Matches(W, Unfrozen)
           new == NewIds(Plan)
           ids == {x.id : x \in X}
<1>1. /\ EntriesTyped /\ WorkTyped /\ entries' = Written(Plan) /\ PlanTyped(Plan) /\ Plan # NoPlan
      /\ Paired(X, W, Unfrozen, Day) /\ ClearSet(W) /\ Movable(Unfrozen)
  BY WriteTyped, PlanTypes, UnfrozenMoves DEF KTyped
<1>2. /\ Plan.update = {x \in X : entries[x.id].start # x.draft.start \/ entries[x.id].end # x.draft.end}
      /\ Plan.insert = W \ {x.draft : x \in X} /\ Plan.delete = Unfrozen \ ids
  BY DEF Plan, Unfrozen
<1>3. /\ entries' = [i \in DOMAIN entries' |-> entries'[i]] /\ DOMAIN entries' = (DOMAIN entries \ Plan.delete) \cup new
      /\ new \cap DOMAIN entries = {}
      /\ \A i \in new : entries'[i] \in Plan.insert
      /\ \A d \in Plan.insert : \E i \in new : entries'[i] = d
      /\ \A i, j \in new : entries'[i] = entries'[j] => i = j
      /\ \A i \in DOMAIN entries \ Plan.delete :
             IF \E x \in Plan.update : x.id = i
             THEN \E x \in Plan.update :
                      x.id = i /\ entries'[i] = MovedAs(entries[i], x.draft)
             ELSE entries'[i] = entries[i]
  <2>1. WritesAs(Written(Plan), Plan, NewIds(Plan))
    BY <1>1, WrittenIs DEF PlanTyped
  <2>2. WritesAs(entries', Plan, new)
    BY <1>1, <2>1
  <2> HIDE DEF new
  <2> QED BY <2>2 DEF WritesAs
<1>4. \A x \in X : x.id \in Unfrozen /\ x.draft \in W /\ Fits(x.id, x.draft) /\ x.draft \in DraftRecs /\ entries[x.id] \in DraftRecs
  BY <1>1 DEF Paired, ClearSet, Movable
<1>5. \A x, y \in X : x.id = y.id \/ x.draft = y.draft => x = y
  BY <1>1 DEF Paired
<1> HIDE DEF X, new
<1>6. ASSUME NEW x \in X PROVE x.id \in DOMAIN entries' /\ entries'[x.id] = x.draft
  <2>1. x.id \in DOMAIN entries /\ x.id \notin Plan.delete /\ x.id \in Unfrozen
    BY <1>2, <1>4 DEF Unfrozen
  <2>2. entries[x.id].kind = x.draft.kind /\ entries[x.id].site = x.draft.site
    BY <1>4 DEF Fits
  <2>3. entries[x.id] \in DraftRecs /\ x.draft \in DraftRecs /\ entries[x.id].source = x.draft.source
    BY <1>4, <2>2, OverlapIs
  <2> DEFINE e == entries[x.id]
             d == x.draft
  <2>4. /\ e = [kind |-> d.kind, site |-> d.site, start |-> e.start, end |-> e.end,
                source |-> d.source, status |-> "draft", edited |-> FALSE]
        /\ d = [kind |-> d.kind, site |-> d.site, start |-> d.start, end |-> d.end,
                source |-> d.source, status |-> "draft", edited |-> FALSE]
    BY <2>2, <2>3, DraftCovers
  <2>5. CASE \E y \in Plan.update : y.id = x.id
    <3>1. PICK y \in Plan.update :
              y.id = x.id /\ entries'[x.id] = MovedAs(entries[x.id], y.draft)
      BY <1>3, <2>1, <2>5
    <3>2. y = x
      BY <1>2, <1>5, <3>1
    <3>3. entries'[x.id] = MovedAs(e, d)
      BY <3>1, <3>2
    <3> HIDE DEF e, d
    <3>4. entries'[x.id] = d
      BY <2>4, <3>3, MovedTo
    <3> QED BY <1>3, <2>1, <3>4 DEF d
  <2>6. CASE ~\E y \in Plan.update : y.id = x.id
    <3>1. entries'[x.id] = e
      BY <1>3, <2>1, <2>6
    <3>2. e.start = d.start /\ e.end = d.end
      BY <1>2, <2>6
    <3> HIDE DEF e, d
    <3>3. e = d
      BY <2>4, <3>2
    <3> QED BY <1>3, <2>1, <3>1, <3>3 DEF d
  <2> QED BY <2>5, <2>6
<1>7. ASSUME NEW i \in DOMAIN entries, Frozen(entries[i]) PROVE i \in DOMAIN entries' /\ entries'[i] = entries[i]
  <2>1. i \notin Unfrozen
    BY <1>7 DEF Unfrozen
  <2>2. i \notin Plan.delete /\ ~\E x \in Plan.update : x.id = i
    BY <1>2, <1>4, <2>1
  <2> QED BY <1>3, <2>2
<1>8. ASSUME NEW i \in DOMAIN entries'
      PROVE  \/ i \in DOMAIN entries /\ Frozen(entries[i]) /\ Frozen(entries'[i]) /\ entries'[i] = entries[i]
             \/ ~Frozen(entries'[i]) /\ (i \in ids \/ i \in new)
  <2>1. CASE i \in new
    <3>1. entries'[i] \in W
      BY <1>2, <1>3, <2>1
    <3> QED BY <1>1, <2>1, <3>1, DraftCovers DEF ClearSet
  <2>2. CASE i \in DOMAIN entries \ Plan.delete /\ i \in Unfrozen
    <3>1. PICK x \in X : x.id = i
      BY <1>2, <2>2
    <3>2. entries'[i] = x.draft /\ x.draft \in DraftRecs
      BY <1>4, <1>6, <3>1
    <3> QED BY <3>1, <3>2, DraftCovers
  <2>3. CASE i \in DOMAIN entries \ Plan.delete /\ i \notin Unfrozen
    BY <1>7, <2>3 DEF Unfrozen
  <2> QED BY <1>3, <2>1, <2>2, <2>3
<1>9. Unfrozen' = ids \cup new
  <2>1. \A x \in X : ~Frozen(entries'[x.id])
    BY <1>4, <1>6, DraftCovers
  <2>2. \A i \in new : ~Frozen(entries'[i])
    BY <1>1, <1>2, <1>3, DraftCovers DEF ClearSet
  <2>3. Unfrozen' = {i \in DOMAIN entries' : ~Frozen(entries'[i])}
    BY DEF Unfrozen, Frozen
  <2>4. ids \subseteq DOMAIN entries'
    BY <1>6
  <2>5. new \subseteq DOMAIN entries'
    BY <1>3
  <2> QED BY <1>8, <2>1, <2>2, <2>3, <2>4, <2>5
<1>10. \A i \in Unfrozen' : entries'[i] \in W
  <2>1. \A i \in new : entries'[i] \in W
    BY <1>2, <1>3
  <2>2. \A x \in X : entries'[x.id] \in W
    BY <1>4, <1>6
  <2>3. \A i \in ids : entries'[i] \in W
    BY <2>2
  <2> QED BY <1>9, <2>1, <2>3
<1>11. ASSUME NEW d \in W PROVE \E i \in Unfrozen' : entries'[i] = d
  <2>1. CASE \E x \in X : x.draft = d
    BY <1>6, <1>9, <2>1
  <2>2. CASE ~\E x \in X : x.draft = d
    <3>1. d \in Plan.insert
      BY <1>2, <2>2
    <3> QED BY <1>3, <1>9, <3>1
  <2> QED BY <2>1, <2>2
<1>12. ASSUME NEW i \in Unfrozen', NEW j \in Unfrozen', entries'[i] = entries'[j] PROVE i = j
  <2>1. CASE i \in new /\ j \in new
    BY <1>3, <1>12, <2>1
  <2>2. ASSUME NEW x \in X, NEW k \in new PROVE entries'[x.id] # entries'[k]
    <3>1. entries'[k] \in W \ {y.draft : y \in X}
      BY <1>2, <1>3
    <3>2. entries'[x.id] = x.draft
      BY <1>6
    <3> QED BY <3>1, <3>2
  <2>3. CASE i \in ids /\ j \in ids
    <3>1. PICK x \in X, y \in X : x.id = i /\ y.id = j
      BY <2>3
    <3> QED BY <1>5, <1>6, <1>12, <3>1
  <2> QED BY <1>9, <1>12, <2>1, <2>2, <2>3
<1>13. Built(W)'
  BY <1>10, <1>11, <1>12 DEF Built
<1> QED BY <1>7, <1>8, <1>13

(***************************************************************************)
(* One build after another.                                                *)
(***************************************************************************)
FrozenKept ==
    /\ \A i \in DOMAIN entries : Frozen(entries[i]) => i \in DOMAIN entries' /\ entries'[i] = entries[i]
    /\ \A i \in DOMAIN entries' : Frozen(entries'[i]) => i \in DOMAIN entries /\ entries'[i] = entries[i]

FrozenOnSite(f) ==
    UNION {Covers(entries[i]) : i \in {j \in DOMAIN entries :
               /\ Frozen(entries[j])
               /\ entries[j].kind = "onsite" /\ entries[j].site = f /\ entries[j].status # "dismissed"}}

VisitTime(f) == UNION {Covers(d) : d \in {v \in Visits : v.site = f}}

LEMMA BuildKeeps ==
    ASSUME FrozenKept, UNCHANGED <<work, latest, phone, claude, now, kleft>>
    PROVE  /\ \A g : Holes(g)' = Holes(g)
           /\ Visits' = Visits /\ \A f : FrozenOnSite(f)' = FrozenOnSite(f) /\ VisitTime(f)' = VisitTime(f)
<1> DEFINE Kept(S) == \A i \in S : i \in DOMAIN entries /\ i \in DOMAIN entries' /\ entries'[i] = entries[i]
<1>1. \A e : Covers(e)' = Covers(e)
  BY DEF Covers
<1>2. ASSUME NEW g PROVE Holes(g)' = Holes(g)
  <2> DEFINE In(e) == Group[e.kind] = g \/ (e.source \in AutoSources /\ Origin[e.source] = g)
             I == {j \in DOMAIN entries : Frozen(entries[j]) /\ In(entries[j])}
             J == {j \in DOMAIN entries' : Frozen(entries'[j]) /\ In(entries'[j])}
  <2>1. I = J /\ Kept(I)
    BY DEF FrozenKept
  <2>2. Holes(g) = UNION {Covers(entries[i]) : i \in I}
    BY DEF Holes
  <2>3. Holes(g)' = UNION {Covers(entries'[i]) : i \in J}
    BY <1>1 DEF Holes, Frozen
  <2>4. \A i \in I : Covers(entries'[i]) = Covers(entries[i])
    BY <2>1
  <2> HIDE DEF I, J
  <2> QED BY <2>1, <2>2, <2>3, <2>4
<1>3. ASSUME NEW f PROVE FrozenOnSite(f)' = FrozenOnSite(f)
  <2> DEFINE In(e) == e.kind = "onsite" /\ e.site = f /\ e.status # "dismissed"
             I == {j \in DOMAIN entries : Frozen(entries[j]) /\ In(entries[j])}
             J == {j \in DOMAIN entries' : Frozen(entries'[j]) /\ In(entries'[j])}
  <2>1. I = J /\ Kept(I)
    BY DEF FrozenKept
  <2>2. FrozenOnSite(f) = UNION {Covers(entries[i]) : i \in I}
    BY DEF FrozenOnSite
  <2>3. FrozenOnSite(f)' = UNION {Covers(entries'[i]) : i \in J}
    BY <1>1 DEF FrozenOnSite, Frozen
  <2>4. \A i \in I : Covers(entries'[i]) = Covers(entries[i])
    BY <2>1
  <2> HIDE DEF I, J
  <2> QED BY <2>1, <2>2, <2>3, <2>4
<1>4. \A k, o, s : Stretches(k, o, s)' = Stretches(k, o, s)
  BY <1>2 DEF Stretches
<1>5. Visits' = Visits
  BY <1>4 DEF Visits
<1>6. \A f : VisitTime(f)' = VisitTime(f)
  BY <1>1, <1>5 DEF VisitTime
<1> QED BY <1>2, <1>3, <1>5, <1>6

\* What is left to move of one build are the visits, in the time on site.
VisitsOf(W) == {d \in W : d.source = "wifi"}

LEMMA OnSiteIs ==
    ASSUME EntriesTyped, NEW W, W \subseteq DraftRecs, Built(W), VisitsOf(W) = Visits
    PROVE  \A f : OnSite(f) = FrozenOnSite(f) \cup VisitTime(f)
<1> TAKE f
<1> DEFINE on(j) == entries[j].kind = "onsite" /\ entries[j].site = f /\ entries[j].status # "dismissed"
           A == UNION {Covers(entries[i]) : i \in {j \in DOMAIN entries : on(j)}}
<1>1. OnSite(f) = A \cup VisitTime(f)
  BY DEF OnSite, VisitTime
<1>2. FrozenOnSite(f) \subseteq A
  BY DEF FrozenOnSite
<1>3. A \subseteq FrozenOnSite(f) \cup VisitTime(f)
  <2> SUFFICES ASSUME NEW i \in DOMAIN entries, on(i), NEW m \in Covers(entries[i])
               PROVE  m \in FrozenOnSite(f) \cup VisitTime(f)
    OBVIOUS
  <2>1. CASE Frozen(entries[i])
    BY <2>1 DEF FrozenOnSite
  <2>2. CASE ~Frozen(entries[i])
    <3>1. entries[i] \in W /\ entries[i] \in DraftRecs
      BY <2>2 DEF Built, Unfrozen
    <3>2. entries[i].source = "wifi"
      BY <3>1, DraftCovers DEF SourceKind, AutoSources
    <3>3. entries[i] \in Visits /\ entries[i].site = f
      BY <3>1, <3>2 DEF VisitsOf
    <3> QED BY <3>3 DEF VisitTime
  <2> QED BY <2>1, <2>2
<1> HIDE DEF A
<1> QED BY <1>1, <1>2, <1>3

LEMMA OnSiteAlways ==
    \A W : EntriesTyped /\ W \subseteq DraftRecs /\ Built(W) /\ VisitsOf(W) = Visits =>
               \A f : OnSite(f) = FrozenOnSite(f) \cup VisitTime(f)
BY OnSiteIs

LEMMA OnSiteNext ==
    (\A W : EntriesTyped /\ W \subseteq DraftRecs /\ Built(W) /\ VisitsOf(W) = Visits =>
               \A f : OnSite(f) = FrozenOnSite(f) \cup VisitTime(f))'
BY OnSiteAlways, PTL

LEMMA WantVisits == ASSUME WorkTyped PROVE VisitsOf(Want) = Visits
<1>1. /\ \A d \in WifiPieces : d.source = "wifi"
      /\ \A d \in AutoPieces : d.source = "auto"
      /\ \A d \in DevPieces : d.source = "claude"
  <2>1. Origin["auto"] = "remote" /\ Origin["wifi"] = "field" /\ Origin["claude"] = "dev" /\ AutoSources = {"auto", "wifi", "claude"}
    BY DEF Origin, AutoSources
  <2>2. \A d \in WifiPieces : d.source = "wifi"
    BY <2>1, VisitsSteady, PiecesClear DEF WifiPieces
  <2>3. \A d \in AutoPieces : d.source = "auto"
    BY <2>1, RemoteTyped, PiecesClear DEF AutoPieces
  <2>4. \A d \in DevPieces : d.source = "claude"
    BY <2>1, DevSteady, PiecesClear DEF DevPieces
  <2> QED BY <2>2, <2>3, <2>4
<1> QED BY <1>1, WantIs DEF VisitsOf, LongEnough

FreshPlans == \A p \in Processes : plans[p] # NoPlan /\ plans[p].fresh => plans[p] = Plan
AfterOne == builds >= 1 => \E W : ClearSet(W) /\ Built(W) /\ VisitsOf(W) = Visits
AfterTwo == builds = 2 => Built(Want)
KInv == KTyped /\ FreshPlans /\ AfterOne /\ AfterTwo

LEMMA AfterBuild ==
    ASSUME KInv, NEW p \in Processes, BuildWrite(p), plans[p].fresh
    PROVE  AfterOne' /\ (builds >= 1 => Built(Want)') /\ FrozenKept
<1>1. /\ plans[p] = Plan /\ KTyped /\ KTyped' /\ UNCHANGED <<work, latest, phone, claude, now, kleft>>
      /\ WorkTyped /\ EntriesTyped /\ WorkTyped' /\ EntriesTyped'
  BY WriteTyped DEF KInv, FreshPlans, KTyped
<1>2. PICK W : W = Want
  OBVIOUS
<1>3. ClearSet(W) /\ VisitsOf(W) = Visits /\ W \subseteq DraftRecs
  BY <1>1, <1>2, WantClear, WantVisits DEF ClearSet
<1>4. Built(W)' /\ FrozenKept
  BY <1>1, <1>2, FreshBuild DEF FrozenKept
<1>5. /\ \A g : Holes(g)' = Holes(g)
      /\ Visits' = Visits /\ \A f : FrozenOnSite(f)' = FrozenOnSite(f) /\ VisitTime(f)' = VisitTime(f)
  BY <1>1, <1>4, BuildKeeps
<1>6. ClearSet(W)' /\ VisitsOf(W)' = Visits'
  BY <1>3, <1>5 DEF ClearSet, ClearOfHoles, ClearOfItself, VisitsOf
<1>7. AfterOne'
  BY <1>4, <1>6 DEF AfterOne
<1>8. ASSUME builds >= 1 PROVE Want' = Want
  <2>1. PICK V : V \subseteq DraftRecs /\ Built(V) /\ VisitsOf(V) = Visits
    BY <1>8 DEF KInv, AfterOne, ClearSet
  <2>2. \A f : OnSite(f) = FrozenOnSite(f) \cup VisitTime(f)
    BY <1>1, <2>1, OnSiteIs
  <2>3. \A f : OnSite(f)' = FrozenOnSite(f)' \cup VisitTime(f)'
    BY <1>1, <1>3, <1>4, <1>6, OnSiteNext
  <2>4. \A f : OnSite(f)' = OnSite(f)
    BY <1>5, <2>2, <2>3
  <2>5. Placed' = Placed /\ Active' = Active
    BY <1>1 DEF Placed, Active, Owner
  <2>6. Elsewhere' = Elsewhere
    BY <2>4 DEF Elsewhere
  <2>7. RemoteWork' = RemoteWork
    BY <2>5, <2>6 DEF RemoteWork
  <2>8. \A k, o, s : Stretches(k, o, s)' = Stretches(k, o, s)
    BY <1>5 DEF Stretches
  <2>9. \A S : LongEnough(S)' = LongEnough(S)
    BY <1>1 DEF LongEnough
  <2> QED BY <1>1, <1>5, <2>7, <2>8, <2>9 DEF Want
<1>9. ASSUME builds >= 1 PROVE Built(Want)'
  <2>1. Want' = W
    BY <1>2, <1>8, <1>9
  <2> QED BY <1>4, <2>1 DEF Built
<1> QED BY <1>4, <1>7, <1>9

LEMMA KInitInv == KInit => KInv
<1> SUFFICES ASSUME KInit PROVE KInv
  OBVIOUS
<1>1. /\ kleft \in KBudgets /\ work = [m \in Minutes |-> {}] /\ latest = [m \in Minutes |-> Hub]
      /\ phone = [f \in Farms |-> {}] /\ claude = {} /\ entries = [i \in {} |-> {}] /\ nextEntry = 1
      /\ now = Day - kleft["tick"] /\ plans = [p \in Processes |-> NoPlan] /\ builds = 0
  BY DEF KInit
<1>2. WorkTyped
  BY <1>1 DEF WorkTyped, Places
<1>3. EntriesTyped
  BY <1>1 DEF EntriesTyped
<1>4. kleft \in [KKinds -> Nat] /\ kleft["tick"] \in Nat /\ kleft["tick"] <= Day
  BY <1>1, DayAssumption DEF KKinds
<1>5. now \in 0..Day /\ now + kleft["tick"] <= Day
  BY <1>1, <1>4, DayTyped
<1>6. plans = [p \in Processes |-> plans[p]] /\ \A p \in Processes : plans[p] = NoPlan
  BY <1>1
<1>7. KTyped
  BY <1>1, <1>2, <1>3, <1>4, <1>5, <1>6 DEF KTyped, PlanTyped
<1> QED BY <1>1, <1>6, <1>7 DEF KInv, FreshPlans, AfterOne, AfterTwo

LEMMA KStepInv == KInv /\ [KNext]_kvars => KInv'
<1> SUFFICES ASSUME KInv, [KNext]_kvars PROVE KInv'
  OBVIOUS
<1>0. KTyped /\ FreshPlans /\ AfterOne /\ AfterTwo
  BY DEF KInv
<1>1. CASE UNCHANGED kvars
  <2>1. SameDay /\ UNCHANGED <<plans, builds, nextEntry, kleft>>
    BY <1>1 DEF SameDay, kvars
  <2>2. Plan' = Plan /\ Want' = Want /\ (\A g : Holes(g)' = Holes(g)) /\ Visits' = Visits
    <3>1. (\A g : Holes(g)' = Holes(g)) /\ UNCHANGED phone
      BY <2>1, SameWant DEF SameDay
    <3>2. \A k, o, s : Stretches(k, o, s)' = Stretches(k, o, s)
      BY <3>1 DEF Stretches
    <3>3. Visits' = Visits
      BY <3>1, <3>2 DEF Visits
    <3> QED BY <2>1, <3>1, <3>3, SameWant, SamePlan
  <2>3. KTyped'
    BY <1>0, <2>1 DEF KTyped, WorkTyped, EntriesTyped, SameDay
  <2>4. FreshPlans'
    BY <1>0, <2>1, <2>2 DEF FreshPlans
  <2>5. \A W : (Built(W)' <=> Built(W)) /\ (ClearSet(W)' <=> ClearSet(W))
    BY <2>1, <2>2 DEF Built, Unfrozen, Frozen, ClearSet, ClearOfHoles, ClearOfItself, SameDay
  <2>6. AfterOne'
    BY <1>0, <2>1, <2>2, <2>5 DEF AfterOne, VisitsOf
  <2>7. AfterTwo'
    <3>1. Built(Want)' <=> Built(Want)
      BY <2>1, <2>2 DEF Built, Unfrozen, Frozen, SameDay
    <3> QED BY <1>0, <2>1, <3>1 DEF AfterTwo
  <2> QED BY <2>3, <2>4, <2>6, <2>7 DEF KInv
<1>2. ASSUME NEW p \in Processes, BuildRead(p) PROVE KInv'
  <2>1. /\ KTyped' /\ SameDay /\ UNCHANGED <<builds, nextEntry>> /\ plans[p] = NoPlan /\ plans'[p] = Plan
        /\ \A q \in Processes : q # p => plans'[q] = plans[q]
    BY <1>0, <1>2, ReadTyped
  <2>2. Plan' = Plan /\ Want' = Want /\ (\A g : Holes(g)' = Holes(g)) /\ Visits' = Visits
    <3>1. (\A g : Holes(g)' = Holes(g)) /\ UNCHANGED phone
      BY <2>1, SameWant DEF SameDay
    <3>2. \A k, o, s : Stretches(k, o, s)' = Stretches(k, o, s)
      BY <3>1 DEF Stretches
    <3>3. Visits' = Visits
      BY <3>1, <3>2 DEF Visits
    <3> QED BY <2>1, <3>1, <3>3, SameWant, SamePlan
  <2>4. FreshPlans'
    BY <1>0, <2>1, <2>2 DEF FreshPlans
  <2>5. \A W : (Built(W)' <=> Built(W)) /\ (ClearSet(W)' <=> ClearSet(W))
    BY <2>1, <2>2 DEF Built, Unfrozen, Frozen, ClearSet, ClearOfHoles, ClearOfItself, SameDay
  <2>6. AfterOne'
    BY <1>0, <2>1, <2>2, <2>5 DEF AfterOne, VisitsOf
  <2>7. AfterTwo'
    <3>1. Built(Want)' <=> Built(Want)
      BY <2>1, <2>2 DEF Built, Unfrozen, Frozen, SameDay
    <3> QED BY <1>0, <2>1, <3>1 DEF AfterTwo
  <2> QED BY <2>1, <2>4, <2>6, <2>7 DEF KInv
<1>3. ASSUME NEW p \in Processes, BuildWrite(p) PROVE KInv'
  <2>1. /\ KTyped' /\ plans'[p] = NoPlan /\ UNCHANGED <<work, latest, phone, claude, now, kleft>>
        /\ builds' = (IF plans[p].fresh THEN IF builds < 2 THEN builds + 1 ELSE 2 ELSE 0)
        /\ \A q \in Processes : q # p =>
               /\ plans'[q] = NoPlan <=> plans[q] = NoPlan
               /\ plans'[q] # NoPlan /\ plans'[q].fresh => plans'[q] = plans[q] /\ entries' = entries
    BY <1>0, <1>3, WriteTyped
  <2>2. FreshPlans'
    <3> SUFFICES ASSUME NEW q \in Processes, plans'[q] # NoPlan, plans'[q].fresh PROVE plans'[q] = Plan'
      BY DEF FreshPlans
    <3>1. q # p /\ plans'[q] = plans[q] /\ entries' = entries
      BY <2>1
    <3>2. Plan' = Plan
      BY <2>1, <3>1, SamePlan DEF SameDay
    <3> QED BY <1>0, <3>1, <3>2 DEF FreshPlans
  <2>3. CASE ~plans[p].fresh
    <3>1. builds' = 0
      BY <2>1, <2>3
    <3> QED BY <2>1, <2>2, <3>1 DEF KInv, AfterOne, AfterTwo
  <2>4. CASE plans[p].fresh
    <3>1. AfterOne' /\ (builds >= 1 => Built(Want)')
      BY <1>3, <2>4, AfterBuild
    <3>2. builds' = 2 => builds >= 1
      <4>1. builds \in 0..2 /\ builds' = IF builds < 2 THEN builds + 1 ELSE 2
        BY <1>0, <2>1, <2>4 DEF KTyped
      <4> QED BY <4>1
    <3> QED BY <2>1, <2>2, <3>1, <3>2 DEF KInv, AfterTwo
  <2> QED BY <2>3, <2>4
<1>4. CASE KNext /\ ~\E p \in Processes : BuildRead(p) \/ BuildWrite(p)
  <2>1. KTyped' /\ Changed
    BY <1>0, <1>4, OtherSteps
  <2>2. builds' = 0 /\ \A p \in Processes : plans'[p] # NoPlan => ~plans'[p].fresh
    BY <1>0, <2>1, ChangedPlans DEF KTyped, PlansTyped
  <2> QED BY <2>1, <2>2 DEF KInv, FreshPlans, AfterOne, AfterTwo
<1> QED BY <1>1, <1>2, <1>3, <1>4

LEMMA KAlways == KSpec => []KInv
BY KInitInv, KStepInv, PTL DEF KSpec

\* What the hub keeps of a day has its types, and an entry ends after it starts, however sessions were
\* cut into pieces (_subtract), drafts moved (_build_day) and buttons pressed (clock).
THEOREM DayTypes == KSpec => []KTypeOK
<1>1. KInv => KTypeOK
  BY KTypedTypes DEF KInv
<1> QED BY <1>1, KAlways, PTL

\* A build that nothing came between leaves every entry as it is that is approved, dismissed, edited or
\* typed (_build_day): only drafts of its own are moved or deleted.
THEOREM FrozenKeptAlways == KSpec => FrozenStays
<1> DEFINE A == (\E p \in Processes : plans[p] # NoPlan /\ plans'[p] = NoPlan /\ plans[p].fresh) =>
                    \A i \in DOMAIN entries : Settled(entries[i]) => i \in DOMAIN entries' /\ entries'[i] = entries[i]
<1>1. KInv /\ [KNext]_kvars => [A]_kvars
  <2> SUFFICES ASSUME KInv, KNext, NEW p \in Processes, plans[p] # NoPlan, plans'[p] = NoPlan, plans[p].fresh,
                      NEW i \in DOMAIN entries, Settled(entries[i])
               PROVE  i \in DOMAIN entries' /\ entries'[i] = entries[i]
    BY DEF kvars
  <2>0. KTyped /\ FreshPlans
    BY DEF KInv
  <2>1. ASSUME NEW q \in Processes, BuildRead(q) PROVE FALSE
    <3>1. (q = p => plans'[p] = Plan) /\ (q # p => plans'[p] = plans[p]) /\ plans[q] = NoPlan
      BY <2>0, <2>1, ReadTyped
    <3> QED BY <3>1
  <2>2. ASSUME NEW q \in Processes, BuildWrite(q) PROVE q = p
    BY <2>0, <2>2, WriteTyped
  <2>3. CASE ~\E q \in Processes : BuildRead(q) \/ BuildWrite(q)
    BY <2>0, <2>3, OtherSteps, ChangedPlans DEF KTyped, PlansTyped
  <2>4. CASE BuildWrite(p)
    <3>1. FrozenKept
      BY <2>4, AfterBuild
    <3>2. Frozen(entries[i])
      <4>1. entries[i] \in EntryRecs
        BY <2>0 DEF KTyped, EntriesTyped, Sound
      <4> QED BY <4>1 DEF Settled, Frozen, EntryRecs, AutoSources
    <3> QED BY <3>1, <3>2 DEF FrozenKept
  <2> QED BY <2>1, <2>2, <2>3, <2>4
<1>2. KInv /\ [KNext]_kvars => [A]_kvars
  BY <1>1
<1> QED BY <1>2, KAlways, PTL DEF KSpec, FrozenStays

(***************************************************************************)
(* The day is whole.                                                       *)
(***************************************************************************)
LEMMA SettledIs == ASSUME EntriesTyped, NEW i \in DOMAIN entries PROVE Settled(entries[i]) <=> Frozen(entries[i])
<1>1. entries[i] \in EntryRecs
  BY DEF EntriesTyped, Sound
<1> QED BY <1>1 DEF Settled, Frozen, EntryRecs, AutoSources

LEMMA DayClear == KInv => DraftsClear
<1> SUFFICES ASSUME KInv, builds >= 1, NEW s \in AutoSources, NEW i \in Drafts(s), NEW j \in DOMAIN entries \ {i},
                    Overlap(entries[i], entries[j])
             PROVE  IF Settled(entries[j]) THEN entries[j].source # s /\ Group[entries[j].kind] # Origin[s]
                    ELSE entries[j].source # s \/ (s = "wifi" /\ entries[j].site # entries[i].site)
  BY DEF DraftsClear
<1>0. EntriesTyped
  BY DEF KInv, KTyped
<1>1. PICK W : ClearSet(W) /\ Built(W)
  BY DEF KInv, AfterOne
<1>2. i \in Unfrozen /\ entries[i].source = s
  BY <1>0, SettledIs DEF Drafts, Unfrozen
<1>3. entries[i] \in W /\ entries[i] \in DraftRecs
  BY <1>1, <1>2 DEF Built, ClearSet
<1>4. CASE Settled(entries[j])
  <2>1. Frozen(entries[j])
    BY <1>0, <1>4, SettledIs
  <2>2. PICK m \in Covers(entries[j]) : m \in Covers(entries[i])
    BY DEF Overlap
  <2>3. m \in Minutes /\ m \notin Holes(Origin[s])
    BY <1>1, <1>2, <1>3, <2>2, DraftCovers DEF ClearSet, ClearOfHoles
  <2>4. \A g : Group[entries[j].kind] = g \/ (entries[j].source \in AutoSources /\ Origin[entries[j].source] = g)
               => m \in Holes(g)
    BY <2>1, <2>2 DEF Holes
  <2> QED BY <1>4, <2>3, <2>4
<1>5. CASE ~Settled(entries[j])
  <2>1. j \in Unfrozen /\ i # j
    BY <1>0, <1>5, SettledIs DEF Unfrozen
  <2>2. entries[j] \in W /\ entries[j] \in DraftRecs /\ entries[i] # entries[j]
    BY <1>1, <1>2, <2>1 DEF Built, ClearSet
  <2>3. ~Apart(entries[i], entries[j])
    BY <1>3, <2>2, OverlapIs
  <2>4. entries[i].source # entries[j].source \/ (entries[i].source = "wifi" /\ entries[i].site # entries[j].site)
    BY <1>1, <1>3, <2>2, <2>3 DEF ClearSet, ClearOfItself
  <2> QED BY <1>2, <1>5, <2>4
<1> QED BY <1>4, <1>5

LEMMA DaySettles == KInv => BuildSettles
<1> SUFFICES ASSUME KInv, builds = 2 PROVE Plan.update = {} /\ Plan.insert = {} /\ Plan.delete = {}
  BY DEF BuildSettles
<1>1. EntriesTyped /\ Built(Want) /\ ClearSet(Want)
  BY WantClear DEF KInv, KTyped, AfterTwo
<1> QED BY <1>1, SettledPlan

LEMMA DayPlaced == KInv => MinutePlaced
<1> SUFFICES ASSUME KInv, builds = 2, NEW m \in Active, work[m] \cap Farms # {},
                    m \notin Holes("remote"), m \notin OnSite(latest[m])
             PROVE  LET f == latest[m]
                        here == {i \in Drafts("auto") : m \in Covers(entries[i])} IN
                    \/ \E i \in here : here = {i} /\ entries[i].site = f
                    \/ \E r \in RemoteWork : r.site = f /\ m \in Covers(r)
                          /\ \A p \in Runs([q \in (r.start..(r.end - 1)) \ Holes("remote") |-> f], 0) :
                                 m \in Covers(p) => p.end - p.start < kleft["min"]
  BY DEF MinutePlaced
<1> DEFINE f == latest[m]
           here == {i \in Drafts("auto") : m \in Covers(entries[i])}
<1>1. EntriesTyped /\ WorkTyped /\ Built(Want) /\ ClearSet(Want)
  BY WantClear DEF KInv, KTyped, AfterTwo
<1>2. m \in Minutes /\ f \in Farms /\ f # Hub /\ Owner(m) = f /\ f \in Places /\ Active \subseteq Minutes
  BY <1>1, ActiveTyped DEF Places
<1>3. Placed[m] = f
  BY <1>1, <1>2, ActiveTyped, PlacedTyped
<1>4. m \in KeptMinutes
  BY <1>2, <1>3 DEF KeptMinutes, Elsewhere
<1> DEFINE w == [n \in KeptMinutes |-> Placed[n]]
<1>5. RemoteWork = Runs(w, Gap) /\ DOMAIN w \subseteq Minutes /\ m \in DOMAIN w /\ w[m] = f
  BY <1>1, <1>3, <1>4, RemoteIs, RemoteTyped
<1> HIDE DEF w
<1>6. PICK r \in RemoteWork : r.start <= m /\ m < r.end
  BY <1>5, RunsCover
<1>7. r.site = f /\ Session(r) /\ Within(m, r)
  BY <1>1, <1>5, <1>6, RunOfOneSite, RemoteTyped DEF Within
<1>8. PICK p \in Runs(PieceOf(Holes("remote"), r), 0) :
          /\ Within(m, p) /\ p.site = r.site
          /\ Draft(SourceKind["auto"], "auto", p) \in AutoPieces
  BY <1>2, <1>6, <1>7, PiecesCover DEF AutoPieces
<1> DEFINE d == Draft(SourceKind["auto"], "auto", p)
<1>9. d.start = p.start /\ d.end = p.end /\ d.site = f /\ d.source = "auto" /\ d \in AutoPieces
  BY <1>7, <1>8 DEF Draft
<1>10. p.start \in Minutes /\ p.end \in 1..Day
  BY <1>7, <1>8, PieceSpans
<1>11. ASSUME NEW x, x.end \in 1..Day PROVE m \in Covers(x) <=> Within(m, x)
  BY <1>2, <1>11, DayTyped DEF Covers, Within, StillOpen
<1> HIDE DEF d
<1>12. CASE p.end - p.start >= kleft["min"]
  <2>1. d \in Want
    BY <1>9, <1>12, WantIs DEF LongEnough
  <2>2. PICK i \in Unfrozen : entries[i] = d
    BY <1>1, <2>1 DEF Built
  <2>3. i \in DOMAIN entries /\ ~Settled(entries[i])
    BY <1>1, <2>2, SettledIs DEF Unfrozen
  <2>4. Within(m, d)
    BY <1>8, <1>9 DEF Within
  <2>5. m \in Covers(entries[i])
    BY <1>9, <1>10, <1>11, <2>2, <2>4
  <2>6. i \in here /\ entries[i].site = f
    BY <1>9, <2>2, <2>3, <2>5 DEF Drafts
  <2>7. ASSUME NEW j \in here PROVE j = i
    <3>1. j \in Unfrozen /\ entries[j].source = "auto" /\ m \in Covers(entries[j])
      BY <1>1, SettledIs DEF Drafts, Unfrozen
    <3>2. entries[j] \in Want /\ entries[j] \in DraftRecs /\ d \in DraftRecs
      BY <1>1, <2>1, <3>1 DEF Built, ClearSet
    <3>3. Within(m, entries[j])
      BY <3>1, <3>2, DraftCovers
    <3>4. ~Apart(entries[j], d)
      <4>1. m \in Nat /\ d.start \in Nat /\ d.end \in Nat /\ entries[j].start \in Nat /\ entries[j].end \in Nat
        BY <1>2, <3>2, DraftCovers, DayTyped
      <4> QED BY <2>4, <3>3, <4>1 DEF Apart, Within
    <3>5. entries[j] = d
      BY <1>1, <1>9, <2>1, <3>1, <3>2, <3>4 DEF ClearSet, ClearOfItself
    <3> QED BY <1>1, <2>2, <3>1, <3>5 DEF Built
  <2>8. here = {i}
    BY <2>6, <2>7
  <2> QED BY <2>6, <2>8
<1>13. CASE ~(p.end - p.start >= kleft["min"])
  <2>1. m \in Covers(r)
    BY <1>7, <1>11 DEF Session
  <2>2. [q \in (r.start..(r.end - 1)) \ Holes("remote") |-> f] = PieceOf(Holes("remote"), r)
    BY <1>7 DEF PieceOf
  <2>3. ASSUME NEW u \in Runs(PieceOf(Holes("remote"), r), 0), m \in Covers(u) PROVE u = p
    <3>1. u.start \in Minutes /\ u.end \in 1..Day /\ DOMAIN PieceOf(Holes("remote"), r) \subseteq Minutes
      BY <1>7, PieceSpans, PieceIs
    <3>2. Within(m, u)
      BY <1>11, <2>3, <3>1
    <3>3. u = p \/ u.end <= p.start \/ p.end <= u.start
      BY <3>1, RunsApart
    <3>4. m \in Nat /\ u.start \in Nat /\ u.end \in Nat /\ p.start \in Nat /\ p.end \in Nat
      BY <1>2, <1>10, <3>1, DayTyped
    <3> QED BY <1>8, <3>2, <3>3, <3>4 DEF Within
  <2>4. p.end - p.start < kleft["min"]
    <3>1. kleft["min"] \in Nat /\ p.end \in Nat /\ p.start \in Nat
      BY <1>10, DayTyped DEF KInv, KTyped, KKinds
    <3> QED BY <1>13, <3>1
  <2>5. \A u \in Runs(PieceOf(Holes("remote"), r), 0) : m \in Covers(u) => u.end - u.start < kleft["min"]
    BY <2>3, <2>4
  <2> QED BY <1>6, <1>7, <2>1, <2>2, <2>5
<1> QED BY <1>12, <1>13

\* A day's minutes are each billed once, and building it again changes nothing (_build_day, sessions_of,
\* remote_timeline): no draft lies over settled time or over another draft of its activity, a minute of work
\* at a farm is in one draft of that farm, and a third build after two with nothing new writes nothing.
THEOREM DaysAreWhole == KSpec => []DayWhole
<1>1. KInv => DayWhole
  BY DayClear, DayPlaced, DaySettles DEF DayWhole
<1> QED BY <1>1, KAlways, PTL
=============================================================================
