------------------------------ MODULE Tunnels ------------------------------
(***************************************************************************)
(* Device tunnels (hub/app/tunnels.py, app/tunnels.py): an operator's      *)
(* connection to a port of the hub is relayed over the VPN to a port of    *)
(* the site, and there to a device. Each side keeps its own list of        *)
(* tunnels in memory; the hub asks the site to open and to close its half, *)
(* and each side's reaper closes what is idle or old.                      *)
(*                                                                         *)
(* One site and its hub. A tunnel's Tunnel object outlives its entry in    *)
(* the list ("stopping": taken out, close() not done yet). Connections,    *)
(* with a handler thread at each hop, may come at any moment. The clock is *)
(* abstracted: a tunnel may be idle or old at any time. The site checks    *)
(* the device's address against its scan: every Target passes.             *)
(***************************************************************************)
EXTENDS Naturals, FiniteSets

CONSTANTS
    Targets,    \* devices of the site
    Pi,         \* the site Pi itself: reached without a relay at the site
    Operators,
    Conns,      \* connections that will be made
    HubPorts, SitePorts,
    MaxOpen,    \* bound on open requests
    MaxDown     \* bound on restarts and on lost messages

ASSUME PortsAssumption == HubPorts \in Nat \ {0} /\ SitePorts \in Nat \ {0}
ASSUME TunnelsAssumption == MaxOpen \in Nat /\ MaxDown \in Nat /\ IsFiniteSet(Operators)

VARIABLES
    hub,        \* _tuns of the hub, and the objects taken out of it
    site,       \* _tuns of the site
    treq,        \* open requests on their way
    toClose,    \* DELETE requests on their way to the site
    conn,
    opened, downs

tvars == <<hub, site, treq, toClose, conn, opened, downs>>

Ids == 1..MaxOpen
Free == [state |-> "free"]
TNoReq == [step |-> "none"]
NoConn == [near |-> "none", far |-> "none"]

TInit ==
    /\ hub = [i \in Ids |-> Free] /\ site = [i \in Ids |-> Free]
    /\ treq = [o \in Operators |-> TNoReq] /\ toClose = {}
    /\ conn = [c \in Conns |-> NoConn]
    /\ opened = 0 /\ downs = 0

Trouble == downs < MaxDown /\ downs' = downs + 1

\* The listening socket is there as long as close() was not called.
Listening(t) == t.state \in {"open", "stopping"}

(***************************************************************************)
(* Opening.                                                                *)
(***************************************************************************)
\* _free_port: the lowest port that no tunnel in the list has, and 0 when all are taken.
FreePort(tuns, n) ==
    LET free == (1..n) \ {tuns[i].port : i \in {j \in Ids : tuns[j].state = "open"}} IN
    IF free = {} THEN 0 ELSE CHOOSE p \in free : \A q \in free : p <= q

\* bind fails while the socket of a tunnel that was taken out still listens.
CanBind(tuns, p) == p # 0 /\ \A i \in Ids : Listening(tuns[i]) => tuns[i].port # p

NewId(tuns) == CHOOSE i \in Ids : tuns[i].state = "free" /\ \A j \in 1..(i - 1) : tuns[j].state # "free"

TAsk(o, d) ==
    /\ treq[o] = TNoReq /\ opened < MaxOpen /\ opened' = opened + 1
    /\ treq' = [treq EXCEPT ![o] = [step |-> "asked", dst |-> d]]
    /\ UNCHANGED <<hub, site, toClose, conn, downs>>

\* The site opens its half and answers, or refuses.
SiteOpen(o) ==
    LET p == FreePort(site, SitePorts) i == NewId(site) IN
    /\ treq[o].step = "asked" /\ treq[o].dst # Pi
    /\ IF CanBind(site, p)
       THEN /\ site' = [site EXCEPT ![i] = [state |-> "open", port |-> p, dst |-> treq[o].dst]]
            /\ \/ treq' = [treq EXCEPT ![o] = [step |-> "answered", dst |-> treq[o].dst, stid |-> i, lp |-> p]]
                  /\ UNCHANGED downs
               \/ Trouble /\ treq' = [treq EXCEPT ![o] = TNoReq]
       ELSE treq' = [treq EXCEPT ![o] = TNoReq] /\ UNCHANGED <<site, downs>>
    /\ UNCHANGED <<hub, toClose, conn, opened>>

\* The site does not answer.
Unreachable(o) ==
    /\ treq[o].step = "asked" /\ treq[o].dst # Pi /\ Trouble
    /\ treq' = [treq EXCEPT ![o] = TNoReq]
    /\ UNCHANGED <<hub, site, toClose, conn, opened>>

GiveUp(stid) == toClose \cup {stid}

\* Mutant: relays to the site's port of its own number, not to the one the site answered.
HubTunnelOwnPort(p, lp, stid, o, d) ==
    [state |-> "open", port |-> p, lp |-> p, stid |-> stid, dst |-> d, allowed |-> {o}]
HubTunnel(p, lp, stid, o, d) ==
    [state |-> "open", port |-> p, lp |-> lp, stid |-> stid, dst |-> d, allowed |-> {o}]

HubOpen(o) ==
    LET p == FreePort(hub, HubPorts) IN
    /\ treq[o].step = "answered"
    /\ treq' = [treq EXCEPT ![o] = TNoReq]
    /\ IF CanBind(hub, p)
       THEN /\ hub' = [hub EXCEPT ![NewId(hub)] = HubTunnel(p, treq[o].lp, treq[o].stid, o, treq[o].dst)]
            /\ UNCHANGED toClose
       ELSE toClose' = GiveUp(treq[o].stid) /\ UNCHANGED hub
    /\ UNCHANGED <<site, conn, opened, downs>>

\* open_direct: an open tunnel to the same target is shared.
OpenDirect(o) ==
    LET p == FreePort(hub, HubPorts)
        same == {i \in Ids : hub[i].state = "open" /\ hub[i].dst = Pi} IN
    /\ treq[o].step = "asked" /\ treq[o].dst = Pi
    /\ treq' = [treq EXCEPT ![o] = TNoReq]
    /\ hub' = IF same # {} THEN [i \in Ids |-> IF i \in same THEN [hub[i] EXCEPT !.allowed = @ \cup {o}] ELSE hub[i]]
              ELSE IF CanBind(hub, p) THEN [hub EXCEPT ![NewId(hub)] = HubTunnel(p, 0, 0, o, Pi)]
              ELSE hub
    /\ UNCHANGED <<site, toClose, conn, opened, downs>>

(***************************************************************************)
(* Closing.                                                                *)
(***************************************************************************)
\* Connections a hop's handler has relayed so far.
HubConns(i)  == {c \in Conns : conn[c].near = "up" /\ conn[c].hub = i}
SiteConns(i) == {c \in Conns : conn[c].far = "up" /\ conn[c].site = i}

Old(conns) == TRUE

MayReap(conns) == conns = {} \/ Old(conns)

\* close, by an operator, or the reaper, when it is idle or old: out of the list.
HubClose(i) ==
    /\ hub[i].state = "open" /\ hub' = [hub EXCEPT ![i].state = "stopping"]
    /\ UNCHANGED <<site, treq, toClose, conn, opened, downs>>

HubReap(i) == MayReap(HubConns(i)) /\ HubClose(i)

\* Tunnel.close, and then the call to the site.
HubStop(i) ==
    /\ hub[i].state = "stopping" /\ hub' = [hub EXCEPT ![i].state = "closed"]
    /\ conn' = [c \in Conns |-> IF c \in HubConns(i) THEN [conn[c] EXCEPT !.near = "over"] ELSE conn[c]]
    /\ toClose' = IF hub[i].stid # 0 THEN toClose \cup {hub[i].stid} ELSE toClose
    /\ UNCHANGED <<site, treq, opened, downs>>

\* The DELETE arrives, or is lost.
SiteClose(i) ==
    /\ i \in toClose /\ toClose' = toClose \ {i}
    /\ \/ /\ site' = IF site[i].state = "open" THEN [site EXCEPT ![i].state = "stopping"] ELSE site
          /\ UNCHANGED downs
       \/ Trouble /\ UNCHANGED site
    /\ UNCHANGED <<hub, treq, conn, opened>>

SiteReap(i) ==
    /\ site[i].state = "open" /\ MayReap(SiteConns(i))
    /\ site' = [site EXCEPT ![i].state = "stopping"]
    /\ UNCHANGED <<hub, treq, toClose, conn, opened, downs>>

SiteStop(i) ==
    /\ site[i].state = "stopping" /\ site' = [site EXCEPT ![i].state = "closed"]
    /\ conn' = [c \in Conns |-> IF c \in SiteConns(i) THEN [conn[c] EXCEPT !.far = "over"] ELSE conn[c]]
    /\ UNCHANGED <<hub, treq, toClose, opened, downs>>

(***************************************************************************)
(* Connections.                                                            *)
(***************************************************************************)
\* An operator who may use the tunnel connects; anyone else is dropped.
Connect(c, o, i) ==
    /\ conn[c] = NoConn /\ Listening(hub[i]) /\ o \in hub[i].allowed
    /\ conn' = [conn EXCEPT ![c] = [near |-> "accepted", hub |-> i, far |-> "none", site |-> 0]]
    /\ UNCHANGED <<hub, site, treq, toClose, opened, downs>>

\* The hub's handler connects to whatever listens on the site's port, perhaps nothing.
HubRelay(c) ==
    LET h == hub[conn[c].hub]
        at == {i \in Ids : Listening(site[i]) /\ site[i].port = h.lp} IN
    /\ conn[c].near = "accepted"
    /\ conn' = [conn EXCEPT ![c] =
                   IF h.dst = Pi THEN [@ EXCEPT !.near = "up"]
                   ELSE IF at = {} THEN [@ EXCEPT !.near = "over"]
                   ELSE [@ EXCEPT !.near = "up", !.far = "accepted", !.site = CHOOSE i \in at : TRUE]]
    /\ UNCHANGED <<hub, site, treq, toClose, opened, downs>>

\* The site's handler connects to the device, which answers or not.
SiteRelay(c) ==
    /\ conn[c].far = "accepted"
    /\ \E far \in {"up", "over"} : conn' = [conn EXCEPT ![c].far = far]
    /\ UNCHANGED <<hub, site, treq, toClose, opened, downs>>

\* Mutant: a pump does not look whether its tunnel was closed before it was started.
StoppedNot(t) == FALSE

Stopped(t) == t.state = "closed"

\* _pump: a handler that only now starts to relay sees _stop, one whose other end is
\* gone reads the end.
PumpEnds(c) ==
    /\ \/ /\ conn[c].near = "up" /\ (Stopped(hub[conn[c].hub]) \/ conn[c].far = "over")
          /\ conn' = [conn EXCEPT ![c].near = "over"]
       \/ /\ conn[c].far = "up" /\ (Stopped(site[conn[c].site]) \/ conn[c].near = "over")
          /\ conn' = [conn EXCEPT ![c].far = "over"]
    /\ UNCHANGED <<hub, site, treq, toClose, opened, downs>>

\* The operator hangs up.
HangUp(c) ==
    /\ conn[c].near \in {"accepted", "up"} /\ conn' = [conn EXCEPT ![c].near = "over"]
    /\ UNCHANGED <<hub, site, treq, toClose, opened, downs>>

(***************************************************************************)
(* Restarts: tunnels are in memory only.                                   *)
(***************************************************************************)
Gone(tuns) == [i \in Ids |-> IF tuns[i].state = "free" THEN Free ELSE [tuns[i] EXCEPT !.state = "closed"]]

THubRestart ==
    /\ Trouble /\ hub' = Gone(hub) /\ treq' = [o \in Operators |-> TNoReq] /\ toClose' = {}
    /\ conn' = [c \in Conns |-> IF conn[c] = NoConn THEN NoConn ELSE [conn[c] EXCEPT !.near = "over"]]
    /\ UNCHANGED <<site, opened>>

TSiteRestart ==
    /\ Trouble /\ site' = Gone(site)
    /\ conn' = [c \in Conns |-> IF conn[c].far = "none" THEN conn[c] ELSE [conn[c] EXCEPT !.far = "over"]]
    /\ UNCHANGED <<hub, treq, toClose, opened>>

Handlers(c) == HubRelay(c) \/ SiteRelay(c) \/ PumpEnds(c)

TNext ==
    \/ THubRestart \/ TSiteRestart
    \/ \E o \in Operators : \/ SiteOpen(o) \/ Unreachable(o) \/ HubOpen(o) \/ OpenDirect(o)
                            \/ \E d \in Targets \cup {Pi} : TAsk(o, d)
                            \/ \E c \in Conns, i \in Ids : Connect(c, o, i)
    \/ \E i \in Ids : \/ HubClose(i) \/ HubReap(i) \/ HubStop(i)
                      \/ SiteClose(i) \/ SiteReap(i) \/ SiteStop(i)
    \/ \E c \in Conns : Handlers(c) \/ HangUp(c)

TSpec == TInit /\ [][TNext]_tvars

\* Threads go on and the reapers come round; nobody has to close or to hang up.
Threads ==
    \/ \E i \in Ids : HubReap(i) \/ HubStop(i) \/ SiteReap(i) \/ SiteStop(i)
    \/ \E c \in Conns : Handlers(c)

(***************************************************************************)
(* Properties.                                                             *)
(***************************************************************************)
States == {"open", "stopping", "closed"}
Hops == {"none", "accepted", "up", "over"}

HubTunnels  == [state : States, port : 1..HubPorts, lp : 0..SitePorts, stid : 0..MaxOpen,
                dst : Targets \cup {Pi}, allowed : SUBSET Operators]
SiteTunnels == [state : States, port : 1..SitePorts, dst : Targets]
Questions   == [step : {"asked"}, dst : Targets \cup {Pi}]
SiteAnswers == [step : {"answered"}, dst : Targets, stid : Ids, lp : 1..SitePorts]
Connections == [near : Hops, far : Hops, hub : Ids, site : 0..MaxOpen]

\* Type correctness.
TTypeOK ==
    /\ hub \in [Ids -> {Free} \cup HubTunnels]
    /\ site \in [Ids -> {Free} \cup SiteTunnels]
    /\ treq \in [Operators -> {TNoReq} \cup Questions \cup SiteAnswers]
    /\ toClose \subseteq Ids /\ opened \in 0..MaxOpen /\ downs \in 0..MaxDown
    /\ conn \in [Conns -> {NoConn} \cup Connections]

\* A connection to a tunnel of the hub is taken to the half that the site opened for this tunnel,
\* and so to its device, as long as that half listens: also when requests of several operators
\* were answered in another order, when others' halves are being closed or left over, and after
\* restarts. (When the half listens no more, another tunnel's may have its port.)
RightDevice ==
    [][\A k \in Conns : conn[k].far = "none" /\ conn'[k].far # "none" =>
          LET h == hub[conn[k].hub] IN
          Listening(site[h.stid]) => conn'[k].site = h.stid /\ site[h.stid].dst = h.dst]_tvars

\* A connection of a tunnel that was closed comes to an end at both hops, also one that a
\* handler was still connecting when the tunnel was closed.
ClosedEnds ==
    \A c \in Conns :
        /\ (conn[c].near \in {"accepted", "up"} /\ hub[conn[c].hub].state = "closed") ~> conn[c].near = "over"
        /\ (conn[c].far \in {"accepted", "up"} /\ site[conn[c].site].state = "closed") ~> conn[c].far = "over"

\* No tunnel lasts for ever, also one in use, one whose answer to the hub was lost, whose
\* DELETE was lost, or that the hub forgot: its port is given back.
TunnelsEnd ==
    \A i \in Ids : /\ hub[i].state = "open" ~> hub[i].state = "closed"
                   /\ site[i].state = "open" ~> site[i].state = "closed"

\* What was opened comes to an end: connections with their tunnel, and tunnels by themselves.
EverythingCloses == ClosedEnds /\ TunnelsEnd

\* The site's half of a tunnel that the hub could not open is closed at the site by the hub,
\* not left to the site's reaper: it was handed out and is in use, or on its way to be closed.
HandedOver ==
    [][\A o \in Operators : treq[o].step = "answered" /\ treq'[o] = TNoReq /\ hub' # Gone(hub) =>
          \/ treq[o].stid \in toClose'
          \/ \E i \in Ids : hub'[i].state = "open" /\ hub'[i].stid = treq[o].stid]_tvars
=============================================================================
