----------------------------- MODULE ScanState ------------------------------
(***************************************************************************)
(* The device list of a site (app/scanner.py): how a scan turns sightings  *)
(* into devices, re-keys an address-keyed device that shows its MAC,       *)
(* counts misses, logs events and publishes the new list, while operators  *)
(* forget and prune devices and the app is restarted.                      *)
(*                                                                         *)
(* Actors: the scan (scans are serialised by _scan_lock), request threads  *)
(* that forget or prune. A scan takes minutes; the list is replaced under  *)
(* the lock at its very end, everything before reads it unlocked.          *)
(*                                                                         *)
(* Abstracted: what a record tells about a device beyond its address;      *)
(* which of nmap and discovery sighted it; bridge MACs; the scan's Kuma    *)
(* part (KumaFollow).                                                      *)
(***************************************************************************)
EXTENDS Naturals

CONSTANTS
    Macs,           \* MAC addresses, the keys of devices that show one
    IPs,            \* addresses, the keys of devices that show no MAC
    None,           \* no MAC, no address, no key
    OfflineAfter,   \* alerts.offline_after
    Budgets         \* bound: how many scans, forgettings, ... per scenario; "drop" only
                    \* says whether there are hosts that do no more than answer ARP

Keys  == Macs \cup IPs
Kinds == {"scan", "drop", "forget", "prune", "restart"}

ASSUME KeysAssumption   == Macs \cap IPs = {} /\ None \notin Keys
ASSUME AfterAssumption  == OfflineAfter \in Nat \ {0}
ASSUME BoundAssumption  == Budgets \subseteq [Kinds -> Nat]

VARIABLES
    dev,        \* scanner.devices: key -> record
    miss, seen, \* consecutive missed scans; every key ever observed
    reg,        \* keys with an entry in scanner.registry
    saved,      \* scan_state.json and devices.json
    step,       \* where the running scan is
    scope,      \* the addresses it scans
    index,      \* ip_index: which device sat at each address when it began
    todo,       \* addresses without a sighting so far
    found, fresh, heir,     \* found, new_devices, and for each superseded key the key
                            \* the device is known by now
    gated,      \* history: keys whose sighting in this scan the reachability gate dropped
    result, ups, downs,     \* the new list and the events of this scan
    forgetting, \* the key delete_device is about to drop from the list
    told, last, \* history: keys logged as new; the last up/down event of each key
    unsaid,     \* history: keys taken for known though they were not logged: after a restart,
                \* or because the gate dropped what would have been their first sighting
    left        \* what is left of the scenario's budget

listVars == <<dev, miss, seen, reg>>
passVars == <<scope, index, todo, found, fresh, heir, gated>>
tallyVars == <<result, ups, downs>>
logVars  == <<told, last, unsaid>>
vars == <<listVars, saved, step, passVars, tallyVars, forgetting, logVars, left>>

Record == [ip : IPs \cup {None}, online : BOOLEAN]
Absent == [ip |-> None, online |-> FALSE]
Up(ip) == [ip |-> ip, online |-> TRUE]
Listed(list) == {k \in Keys : list[k].ip # None}
Nobody == [k \in Keys |-> Absent]

Steps == {"idle", "look", "sweep", "tally", "log", "baseline", "publish"}

ListType == /\ dev \in [Keys -> Record] /\ miss \in [Keys -> Nat]
            /\ seen \in SUBSET Keys /\ reg \in SUBSET Keys
DiskType == saved \in [dev : [Keys -> Record], miss : [Keys -> Nat],
                       seen : SUBSET Keys, reg : SUBSET Keys]
PassType == /\ step \in Steps /\ scope \in SUBSET IPs /\ todo \in SUBSET scope
            /\ index \in [IPs -> Keys \cup {None}]
            /\ found \in [Keys -> Record] /\ fresh \in SUBSET Keys
            /\ heir \in [Keys -> Macs \cup {None}] /\ gated \in SUBSET Keys
TallyType == /\ result \in [Keys -> Record] /\ ups \in SUBSET Keys /\ downs \in SUBSET Keys
LogType  == told \in SUBSET Keys /\ unsaid \in SUBSET Keys /\ last \in [Keys -> {"none", "offline", "online"}]
TypeOK   == /\ ListType /\ DiskType /\ PassType /\ TallyType /\ LogType
            /\ forgetting \in Keys \cup {None} /\ left \in [Kinds -> Nat]

Spend(kind) == left[kind] > 0 /\ left' = [left EXCEPT ![kind] = @ - 1]

Superseded == {k \in Keys : heir[k] # None}

\* A site that was just set up: nothing is known yet.
Init ==
    /\ dev = Nobody /\ miss = [k \in Keys |-> 0] /\ seen = {} /\ reg = {}
    /\ saved = [dev |-> dev, miss |-> miss, seen |-> {}, reg |-> {}]
    /\ step = "idle" /\ scope = {} /\ todo = {}
    /\ index = [a \in IPs |-> None]
    /\ found = Nobody /\ fresh = {} /\ heir = [k \in Keys |-> None] /\ gated = {}
    /\ result = Nobody /\ ups = {} /\ downs = {}
    /\ forgetting = None
    /\ told = {} /\ unsaid = {} /\ last = [k \in Keys |-> "none"]
    /\ left \in Budgets

(***************************************************************************)
(* A scan                                                                  *)
(***************************************************************************)
\* The snapshot of who sits where: of several records with one address the last in the
\* dict wins, and devices that were missed are put there in no particular order.
Occupants(a) == {k \in Keys : dev[k].ip = a}
Indexes == {f \in [IPs -> Keys \cup {None}] :
               \A a \in IPs : IF Occupants(a) = {} THEN f[a] = None ELSE f[a] \in Occupants(a)}

\* A scan of all targets, of one, or of single hosts.
Begin(addresses) ==
    /\ step = "idle" /\ Spend("scan")
    /\ step' = "look"
    /\ scope' = addresses /\ todo' = addresses
    /\ index' \in Indexes
    /\ UNCHANGED <<listVars, saved, found, fresh, heir, gated, tallyVars, forgetting, logVars>>

\* _resolve_key: the key of a sighting (m = None: it shows no MAC), and the address key
\* it supersedes. Mutant: the address key is not superseded.
KeyOf(a, m)     == IF m # None THEN m
                 ELSE IF index[a] \in Macs THEN index[a] ELSE a

OldKeyNever(a, m) == None
OldKey(a, m)      == IF m # None /\ index[a] \in IPs THEN index[a] ELSE None

\* The registry after a re-key: the entry moves unless the new key has one.
Moved(old, k) == IF old \in reg /\ k \notin reg THEN (reg \ {old}) \cup {k} ELSE reg

\* Whether a sighting under key k, until now old, is a new device. Mutant: an address that
\* was in use has nothing new.
NewAtIp(k, old, a) == k \notin seen /\ k \notin reg /\ index[a] = None
New(k, old, a)     == k \notin seen /\ old \notin seen /\ k \notin Moved(old, k)

\* A host is sighted at address a, by nmap, discovery or the ICMP sweep.
Sight(a, m) ==
    LET k   == KeyOf(a, m)
        old == OldKey(a, m)
    IN
    /\ step \in {"look", "sweep"} /\ a \in todo
    /\ todo' = todo \ {a}
    /\ found' = [found EXCEPT ![k] = Up(a)]
    /\ heir' = IF old = None THEN heir ELSE [heir EXCEPT ![old] = m]
    /\ reg' = Moved(old, k)
    /\ fresh' = IF New(k, old, a) THEN fresh \cup {k} ELSE fresh
    /\ seen' = seen \cup {k}
    /\ gated' = gated \ {k}
    /\ told' = IF old \in told THEN told \cup {k} ELSE told
    /\ unsaid' = IF old \in unsaid THEN unsaid \cup {k} ELSE unsaid
    /\ UNCHANGED <<dev, miss, saved, step, scope, index, tallyVars, forgetting, last, left>>

\* What was learnt about keys is saved; then the reachability gate drops the hosts
\* that only answered ARP. The sweep looks at the addresses without a host once more.
Gate ==
    /\ step = "look"
    /\ saved' = [saved EXCEPT !.reg = reg]
    /\ \E K \in SUBSET Listed(found) :
          /\ K # {} => left["drop"] > 0
          /\ found' = [k \in Keys |-> IF k \in K THEN Absent ELSE found[k]]
          /\ fresh' = fresh \ K /\ gated' = K /\ unsaid' = unsaid \cup (K \cap fresh)
    /\ todo' = scope \ {found'[k].ip : k \in Keys}
    /\ step' = "sweep"
    /\ UNCHANGED <<listVars, scope, index, heir, tallyVars, forgetting, told, last, left>>

\* _finalize, up to the new list and the miss counters. Mutants: a device comes back
\* after any miss; devices outside the scan's scope are not carried over.
CameBackAny(k) == miss[k] > 0
CameBack(k)    == miss[k] >= OfflineAfter

CarriedNone(keys) == Nobody
Carried(keys)     == [k \in Keys |-> IF k \in keys THEN dev[k] ELSE Absent]

\* The devices the scan should have met.
Expected == {k \in Listed(dev) : dev[k].ip \in scope}

Tally ==
    LET scanned  == (Expected \cup Listed(found)) \ Superseded
        up       == scanned \cap Listed(found)
        missed   == scanned \ up
        carried  == Carried(Listed(dev) \ (scanned \cup Superseded))
        list     == [k \in Keys |->
                        IF found[k].ip # None THEN found[k]
                        ELSE IF k \in missed THEN [dev[k] EXCEPT !.online = FALSE]
                        ELSE carried[k]]
        count    == [k \in Keys |-> IF k \in up THEN 0
                                    ELSE IF k \in missed THEN miss[k] + 1
                                    ELSE IF k \in Superseded THEN 0 ELSE miss[k]]
    IN
    /\ step = "sweep"
    /\ ups' = {k \in up : CameBack(k)}
    /\ downs' = {k \in missed : count[k] = OfflineAfter}
    /\ result' = list
    /\ found' = [k \in Keys |-> IF k \in missed THEN list[k] ELSE found[k]]
    /\ miss' = [k \in Keys |-> IF k \in Listed(list) THEN count[k] ELSE 0]
    /\ seen' = seen \ Superseded
    /\ saved' = [saved EXCEPT !.reg = reg]
    /\ step' = "log"
    /\ UNCHANGED <<dev, reg, scope, index, todo, fresh, heir, gated, forgetting, logVars, left>>

\* The event log and the new-device alerts.
Log ==
    /\ step = "log"
    /\ told' = told \cup fresh
    /\ last' = [k \in Keys |-> IF k \in ups THEN "online"
                               ELSE IF k \in downs THEN "offline" ELSE last[k]]
    /\ step' = "baseline"
    /\ UNCHANGED <<listVars, saved, passVars, tallyVars, forgetting, unsaid, left>>

\* Every device of this scan gets its home address, in a registry entry of its own.
Baseline ==
    /\ step = "baseline"
    /\ reg' = reg \cup Listed(found)
    /\ saved' = [saved EXCEPT !.reg = reg']
    /\ step' = "publish"
    /\ UNCHANGED <<dev, miss, seen, passVars, tallyVars, forgetting, logVars, left>>

\* The new list takes the old one's place and is saved.
Publish ==
    /\ step = "publish"
    /\ dev' = result
    /\ saved' = [saved EXCEPT !.dev = dev', !.miss = miss, !.seen = seen]
    /\ step' = "idle"
    /\ scope' = {} /\ todo' = {} /\ index' = [a \in IPs |-> None]
    /\ found' = Nobody /\ fresh' = {} /\ heir' = [k \in Keys |-> None] /\ gated' = {}
    /\ result' = Nobody /\ ups' = {} /\ downs' = {}
    /\ UNCHANGED <<miss, seen, reg, forgetting, logVars, left>>

(***************************************************************************)
(* Requests and restarts                                                   *)
(***************************************************************************)
\* delete_device: the registry entry first ...
Forget(k) ==
    /\ Spend("forget") /\ forgetting = None
    /\ k \in Listed(dev)
    /\ forgetting' = k
    /\ reg' = reg \ {k}
    /\ saved' = [saved EXCEPT !.reg = reg']
    /\ UNCHANGED <<dev, miss, seen, step, passVars, tallyVars, logVars>>

Dropped(K) ==
    /\ dev' = [k \in Keys |-> IF k \in K THEN Absent ELSE dev[k]]
    /\ miss' = [k \in Keys |-> IF k \in K THEN 0 ELSE miss[k]]
    /\ seen' = seen \ K

\* ... then the live record, miss counter and seen key.
ForgetLive ==
    /\ forgetting # None
    /\ Dropped({forgetting})
    /\ saved' = [saved EXCEPT !.dev = dev', !.miss = miss', !.seen = seen']
    /\ forgetting' = None
    /\ UNCHANGED <<reg, step, passVars, tallyVars, logVars, left>>

\* prune_devices: every device that is offline, or some of them by age.
Prune(K) ==
    /\ Spend("prune")
    /\ K # {} /\ \A k \in K : k \in Listed(dev) /\ ~dev[k].online
    /\ Dropped(K)
    /\ reg' = reg \ K
    /\ saved' = [dev |-> dev', miss |-> miss', seen |-> seen', reg |-> reg']
    /\ UNCHANGED <<step, passVars, tallyVars, forgetting, logVars>>

\* The app stops and starts again from its files. From here `last` is what the restored
\* counters say.
Restart ==
    /\ Spend("restart")
    /\ dev' = saved.dev /\ miss' = saved.miss /\ seen' = saved.seen /\ reg' = saved.reg
    /\ step' = "idle" /\ scope' = {} /\ todo' = {} /\ index' = [a \in IPs |-> None]
    /\ found' = Nobody /\ fresh' = {} /\ heir' = [k \in Keys |-> None] /\ gated' = {}
    /\ result' = Nobody /\ ups' = {} /\ downs' = {} /\ forgetting' = None
    /\ last' = [k \in Keys |-> IF saved.miss[k] >= OfflineAfter THEN "offline" ELSE "none"]
    /\ unsaid' = unsaid \cup (saved.seen \ told)
    /\ UNCHANGED <<saved, told>>

Scan == \/ \E addresses \in (SUBSET IPs) \ {{}} : Begin(addresses)
        \/ \E a \in IPs, m \in Macs \cup {None} : Sight(a, m)
        \/ Gate \/ Tally \/ Log \/ Baseline \/ Publish

Requests == \/ \E k \in Keys : Forget(k)
            \/ ForgetLive
            \/ \E K \in SUBSET Keys : Prune(K)

Next == Scan \/ Requests \/ Restart
Spec == Init /\ [][Next]_vars

(***************************************************************************)
(* Properties                                                              *)
(***************************************************************************)
\* "An IP-only host that later reveals a MAC is merged in place": a device is never listed
\* both under its address and under its MAC at that address.
NoPhantom == \A a \in IPs : dev[a].ip # None => \A m \in Macs : dev[m].ip # a

\* "Coming back online" is logged only for a device logged as gone offline, across host
\* scans, re-keying, forgetting and restarts.
OnlineAfterOffline ==
    [][step = "log" /\ step' # "idle" => \A k \in ups : last[k] = "offline"]_vars

\* Every device that is listed was announced once as new ("an append-only log of every
\* device that joins"), under its key or the one it had before it showed its MAC; but for one
\* whose first sighting the reachability gate dropped, which is in seen all the same, and for
\* those of a scan that a restart cut short after a forgetting or pruning saved what it had seen.
NewIsAnnounced == Listed(dev) \subseteq told \cup unsaid

\* What is listed stays listed, online or offline, until someone forgets or prunes it:
\* publishing a scan drops a device only for the key it is listed under from now on, or for one
\* that the gate dropped after the device had shown it in this very scan.
ListedUntilForgotten ==
    [][step = "publish" /\ step' = "idle" /\ left' = left =>
         \A k \in Listed(dev) \ Listed(dev') : heir[k] \in Listed(dev') \cup gated]_vars

=============================================================================
