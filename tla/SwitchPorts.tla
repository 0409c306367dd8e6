---------------------------- MODULE SwitchPorts -----------------------------
(***************************************************************************)
(* Changes of a switch's ports (app/server.py: api_switch_action, with the *)
(* drivers edgeswitch.py, swos.py, hikswitch.py). A request that can cut   *)
(* something off reads the switch first and is refused on the port that    *)
(* the Pi is behind, where the switch's table of MACs tells which one that *)
(* is; the drivers go on without the table when it cannot be read. Nothing *)
(* keeps two requests apart, and each reads what it writes back: an        *)
(* EdgeSwitch takes a whole port, a MikroTik the list of all ports, a      *)
(* Hikvision switch the one field.                                         *)
(*                                                                         *)
(* Left out: uplinks that ask for a confirmation, port names, cable tests, *)
(* find-me lights, a reboot, switching off a port that is off, and a read  *)
(* that fails as a whole, which ends the request.                          *)
(***************************************************************************)
EXTENDS Naturals, FiniteSets

CONSTANTS
    People,     \* who make requests
    Ports,
    PortBudgets \* bounds of events of each kind

VARIABLES
    driver,     \* what the switch takes: "field", "port" or "list"
    ports,      \* each port's link and PoE: on or off
    pi,         \* the port with the Pi, and the router, behind it
    ask,        \* each person's request
    portleft,
    unknown     \* history: a request did not know the Pi's port: its cable was moved meanwhile,
                \* or the table of MACs could not be read

portvars == <<driver, ports, pi, ask, portleft, unknown>>

NoAsk == [pc |-> "none"]
Fields == {"link", "poe"}

PortInit ==
    /\ driver \in {"field", "port", "list"} /\ portleft \in PortBudgets
    /\ ports = [p \in Ports |-> [f \in Fields |-> TRUE]] /\ pi \in Ports
    /\ ask = [a \in People |-> NoAsk] /\ unknown = FALSE

PortSpend(kind) == portleft[kind] > 0 /\ portleft' = [portleft EXCEPT ![kind] = @ - 1]

Under(a) == ask[a].pc \notin {"none", "over"}
To(a, step) == ask' = [ask EXCEPT ![a].pc = step]
Ends(a, result) == ask' = [ask EXCEPT ![a] = [@ EXCEPT !.pc = "over", !.result = result]]

\* _SW_CUTTING. Mutant: a power cycle does not count, it ends with the power on.
CuttingOff(r) == ~r.cycle /\ ~r.to
Cutting(r) == r.cycle \/ ~r.to

\* Somebody wants a field of a port on or off, or its power off and on again. A request that
\* meets another on the same port is marked, and marks it.
Meets(a, p) == {b \in People \ {a} : Under(b) /\ ask[b].port = p}
Crosses(a) == {b \in People \ {a} : Under(b)}
Request(a, p, field, to, cycle) ==
    /\ PortSpend("ask") /\ ~Under(a) /\ (cycle => field = "poe" /\ ~to)
    /\ LET r == [pc |-> "read", port |-> p, field |-> field, to |-> to, cycle |-> cycle, back |-> FALSE,
                 saw |-> ports, result |-> "none", was |-> ports[p],
                 met |-> Meets(a, p) # {}, crossed |-> Crosses(a) # {}]
       IN  ask' = [b \in People |->
                     IF b = a THEN [r EXCEPT !.pc = IF Cutting(r) THEN "check" ELSE "read"]
                     ELSE IF Under(b) THEN [ask[b] EXCEPT !.met = @ \/ b \in Meets(a, p), !.crossed = TRUE]
                     ELSE ask[b]]
    /\ UNCHANGED <<driver, ports, pi, unknown>>

PortsUnchanged == UNCHANGED <<driver, ports, pi, portleft, unknown>>

\* protected_ports of a fresh read: none when the read came without the table of MACs.
Protected(table) == IF table THEN {pi} ELSE {}

\* The fresh read: refused, or on with it. The table is one of the parts a driver can do without.
CheckPort(a) ==
    /\ ask[a].pc = "check"
    /\ \E table \in BOOLEAN :
          /\ IF ask[a].port \in Protected(table) THEN Ends(a, "refused") ELSE To(a, "read")
          /\ IF table THEN UNCHANGED portleft ELSE PortSpend("table")
          /\ unknown' = (unknown \/ (~table /\ ask[a].port = pi))
    /\ UNCHANGED <<driver, ports, pi>>

\* The driver reads what it will write back; a power cycle needs a port with its power on.
Look(a) ==
    /\ ask[a].pc = "read"
    /\ IF ask[a].cycle /\ ~ask[a].back /\ ~ports[ask[a].port].poe
       THEN Ends(a, "refused")
       ELSE ask' = [ask EXCEPT ![a] = [@ EXCEPT !.pc = "write", !.saw = ports]]
    /\ PortsUnchanged

\* What the write leaves.
Writes(a) ==
    LET r == ask[a] IN
    CASE driver = "field" -> [ports EXCEPT ![r.port][r.field] = r.to]
      [] driver = "port"  -> [ports EXCEPT ![r.port] = [r.saw[r.port] EXCEPT ![r.field] = r.to]]
      [] driver = "list"  -> [r.saw EXCEPT ![r.port][r.field] = r.to]

\* poe_cycle goes on when its first write was taken.
PutPort(a) ==
    /\ ask[a].pc = "write" /\ ports' = Writes(a)
    /\ IF ask[a].cycle /\ ~ask[a].back THEN To(a, "off") ELSE Ends(a, "ok")
    /\ UNCHANGED <<driver, pi, portleft, unknown>>

\* The switch does not answer: what was sent may have been done. The second half of a power
\* cycle says so.
Said(r) == IF r.cycle /\ r.back THEN "left off" ELSE "failed"
PutFails(a) ==
    /\ ask[a].pc = "write" /\ PortSpend("lost")
    /\ ports' \in {ports, Writes(a)} /\ Ends(a, Said(ask[a]))
    /\ UNCHANGED <<driver, pi, unknown>>

\* off_s is over: the mode that was read first is put back.
Back(a) == TRUE
CycleBack(a) ==
    /\ ask[a].pc = "off" /\ ask' = [ask EXCEPT ![a] = [@ EXCEPT !.pc = "read", !.to = Back(a), !.back = TRUE]]
    /\ PortsUnchanged

\* Netwatch stops, in the middle of anything.
PortCrash ==
    /\ PortSpend("crash") /\ ask' = [a \in People |-> NoAsk]
    /\ UNCHANGED <<driver, ports, pi, unknown>>

\* Somebody plugs the Pi, or the router, into another port that works.
MovePi(p) ==
    /\ PortSpend("move") /\ p # pi /\ (\A f \in Fields : ports[p][f]) /\ pi' = p
    /\ unknown' = (unknown \/ \E a \in People : Under(a))
    /\ UNCHANGED <<driver, ports, ask>>

PortNext ==
    \/ \E a \in People :
          \/ \E p \in Ports, f \in Fields, to, cycle \in BOOLEAN : Request(a, p, f, to, cycle)
          \/ CheckPort(a) \/ Look(a) \/ PutPort(a) \/ PutFails(a) \/ CycleBack(a)
    \/ PortCrash \/ \E p \in Ports : MovePi(p)

PortSpec == PortInit /\ [][PortNext]_portvars

----------------------------------------------------------------------------
(* Properties.                                                             *)

\* Type correctness.
PortTypeOK ==
    /\ ports \in [Ports -> [Fields -> BOOLEAN]] /\ pi \in Ports /\ {unknown} \subseteq BOOLEAN
    /\ \A a \in People : ask[a].pc \in {"none", "check", "read", "write", "off", "over"}

\* The port that the Pi is behind keeps its link and its power, however requests cross, unless
\* the cable was moved while one was under way, or one for that very port was let through on a
\* reading without the table of MACs.
PiReachable == unknown \/ \A f \in Fields : ports[pi][f]

\* Two requests for one port do not know of each other; and where the switch takes the list of
\* all ports no two requests do.
Alone(a) == ~ask[a].met /\ (driver = "list" => ~ask[a].crossed)

\* A power cycle that meets no other request on its way, and ends well, leaves the port as it
\* found it. One that does may put back what another request has switched off.
CycleRestores ==
    [][\A a \in People : Under(a) /\ ask[a].cycle /\ Alone(a) /\ ask'[a].pc = "over" /\ ask'[a].result = "ok"
          => ports'[ask[a].port] = ask[a].was]_portvars

\* A request changes its own field of its own port and nothing else, though it writes back what
\* it read before.
ChangesOnly ==
    [][\A a \in People, p \in Ports, f \in Fields :
          ask[a].pc = "write" /\ ask'[a] # ask[a] /\ Alone(a) /\ <<p, f>> # <<ask[a].port, ask[a].field>>
          => ports'[p][f] = ports[p][f]]_portvars
=============================================================================
