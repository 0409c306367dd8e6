------------------------------ MODULE VpnHeal ------------------------------
(***************************************************************************)
(* Self-repair of the site's VPN tunnel to the Central Hub                 *)
(* (app/vpnheal.py, called by Scanner._heartbeat_tick in app/scanner.py).  *)
(*                                                                         *)
(* A heartbeat pings the hub and some internet addresses. While the hub    *)
(* stays silent and the internet works the repair first resolves the hub's *)
(* address again, once, and then moves to a new port, again and again. The *)
(* tunnel is stuck because the hub's address changed, because the farm     *)
(* router's entry for it is stale, or because the hub is off; the internet *)
(* comes and goes, wg0 may be taken down by whoever owns it, and Netwatch  *)
(* may start again.                                                        *)
(*                                                                         *)
(* Time is counted in heartbeats. Only differences of times are kept, up   *)
(* to Cap.                                                                 *)
(***************************************************************************)
EXTENDS Naturals

CONSTANTS
    After, Repeat,  \* heal_after_min and heal_repeat_min in heartbeats
    HBudget         \* bounds of "fault", "net", "wg", "fail" and "crash"

ASSUME AfterAssumption == After \in Nat \ {0} /\ Repeat \in Nat \ {0}

Faults == {"none", "address", "nat", "hub"}

\* The bound of the times that are kept.
Cap == After + Repeat

VARIABLES
    hfault,     \* what is wrong with the tunnel
    hnet,       \* the internet works
    hwg,        \* wg0 is up
    heal,       \* _state
    hquiet,     \* heartbeats since the hub answered or the internet failed (history)
    hleft

hvars == <<hfault, hnet, hwg, heal, hquiet, hleft>>

\* wait: heartbeats until next_at; steps: the actions taken, of which the first matters.
Resting == [down |-> FALSE, wait |-> 0, steps |-> 0]

HInit ==
    /\ hfault = "none" /\ hnet = TRUE /\ hwg = TRUE /\ heal = Resting /\ hquiet = 0
    /\ hleft = HBudget

HSpend(kind) == hleft[kind] > 0 /\ hleft' = [hleft EXCEPT ![kind] = @ - 1]

HubUp == hwg /\ hnet /\ hfault = "none"

Less(n) == IF n = 0 THEN 0 ELSE n - 1
More(n) == IF n < Cap THEN n + 1 ELSE n

\* Internet that failed: the clock starts again once it is back, and the steps are forgotten.
Forgotten == Resting

\* Mutant: the first step again and again.
AlwaysRehandshake == "rehandshake"

TheStep == IF heal.steps = 0 THEN "rehandshake" ELSE "new_port"

WaitAfter(step) == IF step = "rehandshake" THEN After ELSE Repeat

\* The time is there for a step.
Due == heal.down /\ heal.wait <= 1

\* A heartbeat, and check: nothing to repair, nothing that can be repaired, or the clock goes on.
Beat ==
    /\ IF HubUp THEN heal' = Resting
       ELSE IF ~hwg THEN heal' = [heal EXCEPT !.wait = Less(@)]
       ELSE IF ~hnet THEN heal' = Forgotten
       ELSE IF ~heal.down THEN heal' = [down |-> TRUE, wait |-> After, steps |-> 0]
       ELSE ~Due /\ heal' = [heal EXCEPT !.wait = Less(@)]
    /\ hquiet' = IF HubUp \/ (hwg /\ ~hnet) THEN 0 ELSE More(hquiet)
    /\ UNCHANGED <<hfault, hnet, hwg, hleft>>

\* A heartbeat at which a step is taken. It may fail.
Step(works) ==
    LET step == TheStep IN
    /\ ~HubUp /\ hwg /\ hnet /\ Due
    /\ IF works THEN UNCHANGED hleft ELSE HSpend("fail")
    /\ heal' = [heal EXCEPT !.steps = IF @ < 2 THEN @ + 1 ELSE @, !.wait = WaitAfter(step)]
    /\ hfault' = IF works /\ <<step, hfault>> \in {<<"rehandshake", "address">>, <<"new_port", "nat">>}
                 THEN "none" ELSE hfault
    /\ hquiet' = More(hquiet)
    /\ UNCHANGED <<hnet, hwg>>

Heartbeat == Beat \/ \E works \in BOOLEAN : Step(works)

\* The world.
FaultComes ==
    /\ HSpend("fault") /\ hfault = "none" /\ hfault' \in Faults \ {"none"}
    /\ UNCHANGED <<hnet, hwg, heal, hquiet>>

HubBack == hfault = "hub" /\ hfault' = "none" /\ UNCHANGED <<hnet, hwg, heal, hquiet, hleft>>

NetTurns ==
    /\ hnet' = ~hnet
    /\ IF hnet THEN HSpend("net") ELSE UNCHANGED hleft
    /\ UNCHANGED <<hfault, hwg, heal, hquiet>>

WgTurns ==
    /\ hwg' = ~hwg
    /\ IF hwg THEN HSpend("wg") ELSE UNCHANGED hleft
    /\ UNCHANGED <<hfault, hnet, heal, hquiet>>

\* Netwatch starts again.
HealCrash ==
    /\ HSpend("crash") /\ heal' = Resting
    /\ UNCHANGED <<hfault, hnet, hwg, hquiet>>

HNext == Heartbeat \/ FaultComes \/ HubBack \/ NetTurns \/ WgTurns \/ HealCrash

HSpec == HInit /\ [][HNext]_hvars

(***************************************************************************)
(* Properties.                                                             *)
(***************************************************************************)
HTypeOK ==
    /\ hfault \in Faults /\ hnet \in BOOLEAN /\ hwg \in BOOLEAN
    /\ heal \in [down : BOOLEAN, wait : 0..Cap, steps : 0..2] /\ hquiet \in 0..Cap

\* The repair is gentle: a step is taken only after the hub was silent for After heartbeats, at
\* none of which the repair (which does not look while wg0 is down) found the internet failing.
StepsPatient == [][heal'.steps > heal.steps => hquiet >= After]_hvars

\* A tunnel that is stuck in a way a step can repair is repaired, once the internet and wg0 stay
\* up, although steps may fail: except for a changed address after the one rehandshake was taken
\* (it failed, or was taken before the address changed), which is not tried again.
TunnelHealed ==
    <>[](hnet /\ hwg) =>
        (hfault \in {"address", "nat"} ~> hfault = "none" \/ (hfault = "address" /\ heal.steps > 0))
=============================================================================
