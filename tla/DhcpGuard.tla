----------------------------- MODULE DhcpGuard -----------------------------
(***************************************************************************)
(* The rogue DHCP guard of a site (app/dhcpguard.py).                      *)
(*                                                                         *)
(* A check listens for the DHCP servers that answer, judges them by the    *)
(* settings it began with, and keeps a list of suspects: a suspect stands  *)
(* among the problems until it missed GoneAfter checks. Checks are made by *)
(* a timer and on demand, one at a time. Servers come, go and change what  *)
(* they hand out; an answer may be lost, a probe may fail; the operator    *)
(* allows a server while a check listens; the guard is switched off and on *)
(* and Netwatch starts again.                                              *)
(*                                                                         *)
(* Abstracted: packets, the site's own router (it is never a suspect), the *)
(* wording, and where in the network a server is.                          *)
(***************************************************************************)
EXTENDS Naturals, FiniteSets, Functions

CONSTANTS
    Servers,
    GoneAfter,      \* GONE_AFTER
    GBudget         \* bounds of "turn", "miss", "fail", "allow", "now", "off" and "crash"

ASSUME GoneAssumption == GoneAfter \in Nat \ {0}

Checkers == {"timer", "button"}

\* How bad a server is: it hands out farm addresses, or those of another network.
Levels == {"warn", "crit"}
Unlisted == [level |-> "none", misses |-> 0]

VARIABLES
    gserv,      \* what each server hands out
    gcfg,       \* settings: the guard is enabled, the servers allowed
    gbusy,      \* _busy
    gcheck,     \* the check each thread makes
    glist,      \* _state["servers"], in memory and on disk; gone ones are not kept
    gallow,     \* the servers whose allow is not saved yet
    glast,      \* the last event of each server (history)
    gsilent,    \* probes in a row in which it was not heard (history)
    gleft

gvars == <<gserv, gcfg, gbusy, gcheck, glist, gallow, glast, gsilent, gleft>>

NoCheck == [pc |-> "idle"]

GInit ==
    /\ gserv = [m \in Servers |-> "none"] /\ gcfg = [on |-> TRUE, allowed |-> {}]
    /\ gbusy = FALSE /\ gcheck = [t \in Checkers |-> NoCheck]
    /\ glist = [m \in Servers |-> Unlisted] /\ gallow = {}
    /\ glast = [m \in Servers |-> "none"] /\ gsilent = [m \in Servers |-> 0] /\ gleft = GBudget

GSpendN(kind, n) == gleft[kind] >= n /\ gleft' = [gleft EXCEPT ![kind] = @ - n]
GSpend(kind) == GSpendN(kind, 1)

Listed(m) == glist[m] # Unlisted

\* One check at a time; somebody has to ask for one that is not the timer's.
MayBegin(t) == ~gbusy

CheckBegin(t) ==
    /\ gcheck[t] = NoCheck /\ gcfg.on /\ MayBegin(t)
    /\ IF t = "button" THEN GSpend("now") ELSE UNCHANGED gleft
    /\ gbusy' = TRUE /\ gcheck' = [gcheck EXCEPT ![t] = [pc |-> "probe", allowed |-> gcfg.allowed]]
    /\ UNCHANGED <<gserv, gcfg, glist, gallow, glast, gsilent>>

Serving == {m \in Servers : gserv[m] # "none"}

Heard(t, S) == [pc |-> "track", allowed |-> gcheck[t].allowed, heard |-> [m \in S |-> gserv[m]]]

\* The servers that answer, of which some may not be heard.
Probe(t) ==
    /\ gcheck[t].pc = "probe"
    /\ \E S \in SUBSET Serving :
          /\ GSpendN("miss", Cardinality(Serving \ S))
          /\ gcheck' = [gcheck EXCEPT ![t] = Heard(t, S)]
          /\ gsilent' = [m \in Servers |-> IF m \in S THEN 0 ELSE IF gsilent[m] < GoneAfter THEN gsilent[m] + 1 ELSE GoneAfter]
    /\ UNCHANGED <<gserv, gcfg, gbusy, glist, gallow, glast>>

\* Mutant: a probe that failed is taken for silence.
Silence(t) == gcheck' = [gcheck EXCEPT ![t] = Heard(t, {})] /\ UNCHANGED gbusy

Failed(t) == gcheck' = [gcheck EXCEPT ![t] = NoCheck] /\ gbusy' = FALSE

ProbeFails(t) ==
    /\ gcheck[t].pc = "probe" /\ GSpend("fail") /\ Failed(t)
    /\ UNCHANGED <<gserv, gcfg, glist, gallow, glast, gsilent>>

\* judge: the suspects heard.
Suspects(t) == DOMAIN gcheck[t].heard \ gcheck[t].allowed

\* A suspect is told when it is new or got worse.
MustTell(m, level) == ~Listed(m) \/ (glist[m].level = "warn" /\ level = "crit")

\* Old suspects that are gone after this check.
Gone(t) == {m \in Servers \ Suspects(t) : Listed(m) /\ glist[m].misses + 1 >= GoneAfter}

\* _track, with the list saved at its end. An old suspect may be told again after REALERT_S.
Track(t) ==
    LET heard == gcheck[t].heard IN
    /\ gcheck[t].pc = "track"
    /\ glist' = [m \in Servers |->
          IF m \in Suspects(t) THEN [level |-> heard[m], misses |-> 0]
          ELSE IF Listed(m) /\ m \notin Gone(t) THEN [glist[m] EXCEPT !.misses = @ + 1]
          ELSE Unlisted]
    /\ \E again \in SUBSET Suspects(t) :
          glast' = [m \in Servers |->
              IF m \in Suspects(t) /\ (MustTell(m, heard[m]) \/ m \in again) THEN heard[m]
              ELSE IF m \in Gone(t) THEN "gone" ELSE glast[m]]
    /\ gcheck' = [gcheck EXCEPT ![t] = NoCheck] /\ gbusy' = FALSE
    /\ UNCHANGED <<gserv, gcfg, gallow, gsilent, gleft>>

\* allow: the server leaves the list, and then the settings are saved.
Allow(m) ==
    /\ GSpend("allow") /\ gallow = {} /\ m \notin gcfg.allowed
    /\ gallow' = {m} /\ glist' = [glist EXCEPT ![m] = Unlisted]
    /\ UNCHANGED <<gserv, gcfg, gbusy, gcheck, glast, gsilent>>

AllowSave ==
    /\ gallow # {} /\ gallow' = {} /\ gcfg' = [gcfg EXCEPT !.allowed = @ \cup gallow]
    /\ UNCHANGED <<gserv, gbusy, gcheck, glist, glast, gsilent, gleft>>

\* The world: a server starts, stops or hands out other addresses.
Turn(m) ==
    /\ GSpend("turn") /\ \E what \in {"none"} \cup Levels : what # gserv[m] /\ gserv' = [gserv EXCEPT ![m] = what]
    /\ UNCHANGED <<gcfg, gbusy, gcheck, glist, gallow, glast, gsilent>>

Switch ==
    /\ gcfg' = [gcfg EXCEPT !.on = ~@]
    /\ IF gcfg.on THEN GSpend("off") ELSE UNCHANGED gleft
    /\ UNCHANGED <<gserv, gbusy, gcheck, glist, gallow, glast, gsilent>>

\* Heard in a check that is not over.
HeardOnly(m) == \E t \in Checkers : gcheck[t].pc = "track" /\ m \in DOMAIN gcheck[t].heard

\* Netwatch starts again. What was heard and not yet tracked is as if it had not been.
GuardCrash ==
    /\ GSpend("crash") /\ gbusy' = FALSE /\ gcheck' = [t \in Checkers |-> NoCheck] /\ gallow' = {}
    /\ gsilent' = [m \in Servers |-> IF HeardOnly(m) THEN GoneAfter ELSE gsilent[m]]
    /\ UNCHANGED <<gserv, gcfg, glist, glast>>

GNext ==
    \/ \E t \in Checkers : CheckBegin(t) \/ Probe(t) \/ ProbeFails(t) \/ Track(t)
    \/ \E m \in Servers : Allow(m) \/ Turn(m)
    \/ AllowSave \/ Switch \/ GuardCrash

GSpec == GInit /\ [][GNext]_gvars

(***************************************************************************)
(* Properties.                                                             *)
(***************************************************************************)
GTypeOK ==
    /\ gserv \in [Servers -> {"none"} \cup Levels] /\ gcfg \in [on : BOOLEAN, allowed : SUBSET Servers]
    /\ gbusy \in BOOLEAN /\ gallow \in SUBSET Servers
    /\ glist \in [Servers -> [level : Levels, misses : 0..(GoneAfter - 1)] \cup {Unlisted}]
    /\ glast \in [Servers -> Levels \cup {"none", "gone"}] /\ gsilent \in [Servers -> 0..GoneAfter]
    /\ \A t \in Checkers : gcheck[t].pc \in {"idle", "probe", "track"}

\* A server that nobody allowed is reported gone only after the last GoneAfter probes that worked
\* did not hear it (or did and Netwatch started again before it was noted): one lost answer, a
\* failed probe or two checks at once do not flap the alert.
GoneTrue ==
    [][\A m \in Servers \ gcfg.allowed :
          glast'[m] = "gone" /\ glast[m] # "gone" => gsilent[m] >= GoneAfter]_gvars

=============================================================================
