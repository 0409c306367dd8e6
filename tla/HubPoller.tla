----------------------------- MODULE HubPoller ------------------------------
(***************************************************************************)
(* The Central Hub's poller and its alerts (hub/app/poller.py), for one    *)
(* site: sites share nothing but the file of the monitored-device alerts.  *)
(*                                                                         *)
(* Actors: the site (its link, devices, conflicts and rogue DHCP servers), *)
(* the status poll and the device poll, which one tick may run in parallel *)
(* and the next tick waits for, an edit made through the hub, and the hub  *)
(* starting again. A poll takes a step where it lets go of its lock.       *)
(*                                                                         *)
(* Abstracted: when a poll is due (any tick may start either or both);     *)
(* alert switches (on); the kuma, sysinfo and backup polls, which only     *)
(* store what they fetched.                                                *)
(***************************************************************************)
EXTENDS Naturals

CONSTANTS
    Devs,       \* devices of the site
    Ips,        \* addresses that may be in conflict
    Rogues,     \* rogue DHCP servers
    None,
    OfflineAfter,   \* alerts.offline_after_polls
    Budgets     \* bounds, one record of Kinds a scenario

Kinds  == {"link", "dev", "watch", "forget", "conflict", "rogue", "lost", "edit", "restart"}
Fields == {"watch", "geo"}

ASSUME AfterAssumption  == OfflineAfter \in Nat \ {0}
ASSUME BudgetAssumption == Budgets \subseteq [Kinds -> Nat]

\* A device as the site reports it: answering, missed by the last scan, or missed by
\* offline_after scans in a row; with the fields that can be edited through the hub.
Health  == {"up", "missed", "down"}
Payload == [there : SUBSET Devs, dev : [Devs -> Health], val : [Devs -> [Fields -> BOOLEAN]],
            overlap : SUBSET Ips]
Watch   == [mon : SUBSET Devs, down : SUBSET Devs]

ASSUME NoneAssumption == None \notin Fields \cup Devs /\ None \notin Watch

VARIABLES
    link,       \* the site can be reached over the VPN
    site,       \* what the site would send as /api/devices
    acked,      \* conflicts cleared at the site, which its device list still shows
    rogue,      \* what its DHCP guard reports
    reach, miss, alerted,       \* snap: reachable, offline_miss, offline_alerted
    snap,       \* snap["devices"]; None before the first poll of a new hub
    rogueSeen, confSeen,        \* snap: dhcp_alerted, conflict_alerted
    over,       \* _overrides: the last edit of each device, and if it is younger than the poll
    mon,        \* the monitored-device alert state in memory, None until it is read
    monDisk,    \* monitor_alerts.json
    snapDisk,   \* the snapshot file
    st, dv,     \* the status poll and the device poll
    edit,       \* an edit the site has accepted and the cached copy has not
    told, siteTold,     \* history: what the alerts said last of a device, of the site; "none"
                        \* of a device whose return was not told because the hub stopped
    confTold, rogueTold,    \* history: paged, and not over at the site since
    paged,      \* history: conflicts and rogue servers paged since the hub started
    fellBack,   \* history: conflicts that vanished only from the hub's own reckoning
    counted,    \* history: devices the site counted as down since they were told to be back
    crashed,    \* history: devices whose alert was under way when the hub stopped
    lastEdit,   \* history: the field of each device edited last
    left        \* what is left of the bounds

siteVars  == <<link, site, acked, rogue>>
offVars   == <<reach, miss, alerted>>
edgeVars  == <<rogueSeen, confSeen>>
monVars   == <<mon, monDisk>>
toldVars  == <<told, siteTold, confTold, rogueTold, paged, fellBack, counted, crashed>>
vars == <<siteVars, offVars, snap, edgeVars, over, monVars, snapDisk, st, dv, edit,
          toldVars, lastEdit, left>>

NoEdit == [dev |-> None]
Idle   == [step |-> "idle"]

Spend(kind) == left[kind] > 0 /\ left' = [left EXCEPT ![kind] = @ - 1]

Init ==
    /\ link = TRUE /\ acked = {} /\ rogue = {}
    /\ site = [there |-> Devs, dev |-> [d \in Devs |-> "up"], overlap |-> {},
               val |-> [d \in Devs |-> [f \in Fields |-> f = "watch"]]]
    /\ reach = FALSE /\ miss = 0 /\ alerted = FALSE
    /\ snap = None /\ rogueSeen = {} /\ confSeen = {}
    /\ over = [d \in Devs |-> NoEdit]
    /\ mon = None /\ monDisk = None /\ snapDisk = None
    /\ st = Idle /\ dv = Idle /\ edit = NoEdit
    /\ told = [d \in Devs |-> "none"] /\ siteTold = "none"
    /\ confTold = {} /\ rogueTold = {} /\ paged = {} /\ fellBack = {} /\ counted = {} /\ crashed = {}
    /\ lastEdit = [d \in Devs |-> None]
    /\ left \in Budgets

(***************************************************************************)
(* The site.                                                               *)
(***************************************************************************)
hubVars == <<offVars, snap, edgeVars, over, monVars, snapDisk, st, dv, edit>>

LinkTurns ==
    /\ Spend("link") /\ link' = ~link
    /\ UNCHANGED <<site, acked, rogue, hubVars, toldVars, lastEdit>>

Worse(h) == IF h = "up" THEN "missed" ELSE "down"

DevTurns(d) ==
    /\ d \in site.there /\ Spend("dev")
    /\ \E h \in {Worse(site.dev[d]), "up"} \ {site.dev[d]} :
         /\ site' = [site EXCEPT !.dev[d] = h]
         /\ counted' = IF h = "down" THEN counted \cup {d} ELSE counted
    /\ UNCHANGED <<link, acked, rogue, hubVars, told, siteTold, confTold, rogueTold, paged, fellBack, crashed, lastEdit>>

\* The Monitored switch on the site's own page.
WatchTurns(d) ==
    /\ d \in site.there /\ Spend("watch")
    /\ site' = [site EXCEPT !.val[d]["watch"] = ~@]
    /\ lastEdit' = [lastEdit EXCEPT ![d] = IF @ = "watch" THEN None ELSE @]
    /\ UNCHANGED <<link, acked, rogue, hubVars, toldVars>>

\* A conflict begins, ends, or is cleared at the site while the device list still shows it.
ConflictTurns(i) ==
    /\ Spend("conflict")
    /\ IF i \in site.overlap
       THEN /\ \/ site' = [site EXCEPT !.overlap = @ \ {i}] /\ acked' = acked \ {i}
               \/ i \notin acked /\ acked' = acked \cup {i} /\ UNCHANGED site
            /\ confTold' = confTold \ {i} /\ fellBack' = fellBack \ {i}
       ELSE /\ site' = [site EXCEPT !.overlap = @ \cup {i}]
            /\ UNCHANGED <<acked, confTold, fellBack>>
    /\ UNCHANGED <<link, rogue, hubVars, told, siteTold, rogueTold, paged, counted, crashed, lastEdit>>

RogueTurns(r) ==
    /\ Spend("rogue")
    /\ rogue' = IF r \in rogue THEN rogue \ {r} ELSE rogue \cup {r}
    /\ rogueTold' = rogueTold \ {r}
    /\ UNCHANGED <<link, site, acked, hubVars, told, siteTold, confTold, paged, fellBack, counted, crashed, lastEdit>>

(***************************************************************************)
(* A tick starts what is due and waits for it.                             *)
(***************************************************************************)
Aged(o) == [d \in Devs |-> IF o[d] = NoEdit THEN NoEdit ELSE [o[d] EXCEPT !.late = FALSE]]

Tick ==
    /\ st = Idle /\ dv = Idle
    /\ \E due \in (SUBSET {"status", "devices"}) \ {{}} :
         /\ st' = IF "status" \in due THEN [step |-> "asked"] ELSE Idle
         /\ dv' = IF "devices" \in due THEN [step |-> "asked"] ELSE Idle
    /\ over' = Aged(over)
    /\ UNCHANGED <<siteVars, offVars, snap, edgeVars, monVars, snapDisk, edit, toldVars, lastEdit, left>>

(***************************************************************************)
(* The status poll.                                                        *)
(***************************************************************************)
statusVars == <<siteVars, snap, over, monVars, snapDisk, dv, edit, lastEdit>>

Unanswered == [step |-> "got", ok |-> FALSE, rogue |-> {}]

StAnswer ==
    /\ st.step = "asked"
    /\ \/ link /\ st' = [step |-> "got", ok |-> TRUE, rogue |-> rogue] /\ UNCHANGED left
       \/ ~link /\ st' = Unanswered /\ UNCHANGED left
       \/ link /\ Spend("lost") /\ st' = Unanswered
    /\ UNCHANGED <<statusVars, offVars, edgeVars, toldVars>>

\* What the debounce may say, and what it remembers.
Fire(ok, isAlerted) ==
    [say     |-> IF ~ok /\ ~isAlerted THEN "offline" ELSE IF ok /\ isAlerted THEN "online" ELSE "no",
     alerted |-> isAlerted /\ ~ok]

Shown == IF snap = None THEN {} ELSE snap.there

StApply ==
    LET fire == Fire(st.ok, alerted) IN
    /\ st.step = "got"
    /\ reach' = st.ok
    /\ miss' = IF st.ok THEN 0 ELSE IF miss < OfflineAfter THEN miss + 1 ELSE miss
    /\ alerted' = fire.alerted
    /\ st' = [step |-> "offline", ok |-> st.ok, rogue |-> st.rogue, say |-> fire.say, miss |-> miss',
              blind |-> Shown = {}, reckoned |-> IF snap = None THEN {} ELSE snap.overlap]
    /\ UNCHANGED <<statusVars, edgeVars, toldVars, left>>

\* _maybe_alert_offline: an outage counts only after enough polls missed in a row.
StOffline ==
    /\ st.step = "offline"
    /\ IF st.say = "offline" /\ st.miss >= OfflineAfter
       THEN alerted' = TRUE /\ siteTold' = "off"
       ELSE /\ UNCHANGED alerted
            /\ siteTold' = IF st.say = "online" THEN "on" ELSE siteTold
    /\ st' = [st EXCEPT !.step = IF st.ok THEN "rogue" ELSE "conflicts"]
    /\ UNCHANGED <<statusVars, reach, miss, edgeVars, told, confTold, rogueTold, paged, fellBack, counted, crashed, left>>

\* Mutant: only an empty memory makes news.
NewsFirst(seen, now) == IF seen = {} THEN now ELSE {}

\* Edge-triggered: what was not seen at the poll before is paged.
News(seen, now) == now \ seen

StRogue ==
    /\ st.step = "rogue"
    /\ rogueSeen' = st.rogue
    /\ paged' = paged \cup News(rogueSeen, st.rogue)
    /\ rogueTold' = rogueTold \cup (News(rogueSeen, st.rogue) \cap rogue)
    /\ st' = [st EXCEPT !.step = "conflicts"]
    /\ UNCHANGED <<statusVars, offVars, confSeen, told, siteTold, confTold, fellBack, counted, crashed, left>>

\* The site's own list honours what was cleared there. If it cannot be had, the hub reckons
\* from the device list it had when the status came in.
StConflicts ==
    /\ st.step = "conflicts"
    /\ \/ /\ st.ok /\ link /\ UNCHANGED left
          /\ st' = [step |-> "conflict", ok |-> st.ok, blind |-> st.blind, conf |-> site.overlap \ acked, own |-> FALSE]
       \/ /\ IF st.ok /\ link THEN Spend("lost") ELSE UNCHANGED left
          /\ st' = [step |-> "conflict", ok |-> st.ok, blind |-> st.blind, conf |-> st.reckoned, own |-> TRUE]
    /\ UNCHANGED <<statusVars, offVars, edgeVars, toldVars>>

\* _maybe_alert_conflict: not while the site is unreachable or its devices unknown.
Knows == st.ok /\ ~st.blind

StConflict ==
    /\ st.step = "conflict" /\ st' = Idle
    /\ IF Knows
       THEN /\ confSeen' = st.conf
            /\ paged' = paged \cup News(confSeen, st.conf)
            /\ confTold' = confTold \cup (News(confSeen, st.conf) \cap (site.overlap \ acked))
            /\ fellBack' = (fellBack \ st.conf) \cup (IF st.own THEN confSeen \ st.conf ELSE {})
       ELSE UNCHANGED <<confSeen, confTold, paged, fellBack>>
    /\ UNCHANGED <<statusVars, offVars, rogueSeen, told, siteTold, rogueTold, counted, crashed, left>>

(***************************************************************************)
(* The device poll.                                                        *)
(***************************************************************************)
deviceVars == <<siteVars, offVars, edgeVars, over, st, edit, siteTold, confTold, rogueTold, paged,
                fellBack, lastEdit>>

DvAnswer ==
    /\ dv.step = "asked"
    /\ \/ link /\ dv' = [step |-> "got", data |-> site] /\ UNCHANGED left
       \/ ~link /\ dv' = Idle /\ UNCHANGED left
       \/ link /\ Spend("lost") /\ dv' = Idle
    /\ UNCHANGED <<deviceVars, snap, monVars, snapDisk, told, counted, crashed>>

\* Edits made through the hub after the request left are put over the answer.
\* Mutant: the answer is taken as it is.
PatchedNot(data) == data
Patched(data) ==
    [data EXCEPT !.val = [d \in Devs |->
        IF over[d] # NoEdit /\ over[d].late /\ d \in data.there
        THEN [data.val[d] EXCEPT ![over[d].field] = over[d].to] ELSE data.val[d]]]

DvApply ==
    /\ dv.step = "got"
    /\ snap' = Patched(dv.data) /\ snapDisk' = snap'
    /\ dv' = IF reach THEN [step |-> "check", data |-> snap'] ELSE Idle
    /\ UNCHANGED <<deviceVars, monVars, told, counted, crashed, left>>

\* _check_monitored. Only changes are news: the first look and a device already down when it
\* gets monitored are recorded silently; one taken off the list is dropped silently.
Memory == IF mon = None THEN monDisk ELSE mon

Monitored(data) == {d \in data.there : data.val[d]["watch"]}

ConfirmedDown(data) == {d \in Monitored(data) : data.dev[d] = "down"}
Answering(data) == {d \in Monitored(data) : data.dev[d] = "up"}

\* Mutant: what was remembered as down is not looked up.
WentAgain(prev, data) == IF prev = None THEN {} ELSE ConfirmedDown(data) \cap prev.mon

Went(prev, data) == IF prev = None THEN {} ELSE (ConfirmedDown(data) \cap prev.mon) \ prev.down
Back(prev, data) == IF prev = None THEN {} ELSE prev.down \cap Answering(data)

StillDown(prev, data) ==
    ConfirmedDown(data) \cup (IF prev = None THEN {} ELSE (prev.down \cap Monitored(data)) \ Answering(data))

DvCheck ==
    LET prev == Memory
        now  == [mon |-> Monitored(dv.data), down |-> StillDown(prev, dv.data)] IN
    /\ dv.step = "check"
    /\ mon' = now /\ monDisk' = now
    /\ dv' = [step |-> "push", went |-> Went(prev, dv.data), back |-> Back(prev, dv.data)]
    /\ told' = [d \in Devs |-> IF d \in now.mon THEN told[d] ELSE "none"]
    /\ crashed' = crashed \cap now.down
    /\ UNCHANGED <<deviceVars, snap, snapDisk, counted, left>>

DvPush ==
    /\ dv.step = "push" /\ dv' = Idle
    /\ told' = [d \in Devs |-> IF d \in dv.went THEN "off" ELSE IF d \in dv.back THEN "on" ELSE told[d]]
    /\ counted' = (counted \ dv.back) \cup {d \in Devs : site.dev[d] = "down"}
    /\ UNCHANGED <<deviceVars, snap, monVars, snapDisk, crashed, left>>

(***************************************************************************)
(* Edits and forgetting through the hub: the site does it first, then the  *)
(* cached copy is changed.                                                 *)
(***************************************************************************)
EditSite(d, f) ==
    /\ Spend("edit") /\ link /\ edit = NoEdit /\ d \in site.there
    /\ site' = [site EXCEPT !.val[d][f] = ~@]
    /\ edit' = [dev |-> d, field |-> f, to |-> site'.val[d][f]]
    /\ UNCHANGED <<link, acked, rogue, offVars, snap, edgeVars, over, monVars, snapDisk, st, dv,
                   toldVars, lastEdit>>

\* update_device
EditSnap ==
    LET d == edit.dev IN
    /\ edit # NoEdit /\ edit' = NoEdit
    /\ over' = [over EXCEPT ![d] = [field |-> edit.field, to |-> edit.to, late |-> TRUE]]
    /\ snap' = IF snap # None /\ d \in snap.there
               THEN [snap EXCEPT !.val[d][edit.field] = edit.to] ELSE snap
    /\ lastEdit' = [lastEdit EXCEPT ![d] = IF site.val[d][edit.field] = edit.to THEN edit.field ELSE None]
    /\ UNCHANGED <<siteVars, offVars, edgeVars, monVars, snapDisk, st, dv, toldVars, left>>

\* Forgotten at the site, then drop_devices.
Forget(d) ==
    /\ Spend("forget") /\ link /\ d \in site.there
    /\ site' = [site EXCEPT !.there = @ \ {d}]
    /\ snap' = IF snap = None THEN None ELSE [snap EXCEPT !.there = @ \ {d}]
    /\ UNCHANGED <<link, acked, rogue, offVars, edgeVars, over, monVars, snapDisk, st, dv, edit,
                   toldVars, lastEdit>>

(***************************************************************************)
(* The hub starts again: _load_snapshots, the rest of its memory is gone.  *)
(***************************************************************************)
Restart ==
    /\ Spend("restart")
    /\ reach' = FALSE /\ miss' = 0 /\ alerted' = FALSE
    /\ snap' = snapDisk /\ rogueSeen' = {} /\ confSeen' = {}
    /\ over' = [d \in Devs |-> NoEdit] /\ mon' = None
    /\ st' = Idle /\ dv' = Idle /\ edit' = NoEdit
    /\ siteTold' = "none" /\ confTold' = {} /\ rogueTold' = {} /\ paged' = {} /\ fellBack' = {}
    /\ crashed' = IF dv.step = "push" THEN crashed \cup dv.went ELSE crashed
    /\ told' = [d \in Devs |-> IF dv.step = "push" /\ d \in dv.back THEN "none" ELSE told[d]]
    /\ lastEdit' = [d \in Devs |-> None]
    /\ UNCHANGED <<siteVars, monDisk, snapDisk, counted>>

Status == StAnswer \/ StApply \/ StOffline \/ StRogue \/ StConflicts \/ StConflict
Devices == DvAnswer \/ DvApply \/ DvCheck \/ DvPush

Next ==
    \/ LinkTurns \/ Tick \/ Status \/ Devices \/ EditSnap \/ Restart
    \/ \E d \in Devs : DevTurns(d) \/ WatchTurns(d) \/ Forget(d)
    \/ \E d \in Devs, f \in Fields : EditSite(d, f)
    \/ \E i \in Ips : ConflictTurns(i)
    \/ \E r \in Rogues : RogueTurns(r)

Spec == Init /\ [][Next]_vars

\* Both polls are due again and again, each of their steps ends, and so does an edit. A poll
\* that is due is in the next tick, so no run of ticks leaves one of them out for ever.
Fairness ==
    /\ SF_vars(Tick /\ st'.step = "asked") /\ SF_vars(Tick /\ dv'.step = "asked")
    /\ WF_vars(Status) /\ WF_vars(Devices) /\ WF_vars(EditSnap)

FairSpec == Spec /\ Fairness

(***************************************************************************)
(* Properties.                                                             *)
(***************************************************************************)
Waits   == [step : {"idle", "asked"}]
Answers == [step : {"got"}, ok : BOOLEAN, rogue : SUBSET Rogues]
Applied == [step : {"offline", "rogue", "conflicts"}, ok : BOOLEAN, rogue : SUBSET Rogues,
            say : {"no", "offline", "online"}, miss : 0..OfflineAfter, blind : BOOLEAN, reckoned : SUBSET Ips]
Reports == [step : {"conflict"}, ok : BOOLEAN, blind : BOOLEAN, conf : SUBSET Ips, own : BOOLEAN]
Lists   == [step : {"got", "check"}, data : Payload]
Pushes  == [step : {"push"}, went : SUBSET Devs, back : SUBSET Devs]

\* Type correctness.
TypeOK ==
    /\ link \in BOOLEAN /\ site \in Payload /\ acked \subseteq site.overlap /\ rogue \subseteq Rogues
    /\ reach \in BOOLEAN /\ miss \in 0..OfflineAfter /\ alerted \in BOOLEAN
    /\ snap \in Payload \cup {None} /\ snapDisk \in Payload \cup {None}
    /\ rogueSeen \subseteq Rogues /\ confSeen \subseteq Ips
    /\ over \in [Devs -> {NoEdit} \cup [field : Fields, to : BOOLEAN, late : BOOLEAN]]
    /\ mon \in Watch \cup {None} /\ monDisk \in Watch \cup {None}
    /\ st \in Waits \cup Answers \cup Applied \cup Reports
    /\ dv \in Waits \cup Lists \cup Pushes
    /\ edit \in {NoEdit} \cup [dev : Devs, field : Fields, to : BOOLEAN]
    /\ told \in [Devs -> {"none", "off", "on"}] /\ siteTold \in {"none", "off", "on"}
    /\ confTold \subseteq Ips /\ rogueTold \subseteq Rogues /\ paged \subseteq Ips \cup Rogues
    /\ fellBack \subseteq Ips /\ counted \subseteq Devs /\ crashed \subseteq Devs
    /\ lastEdit \in [Devs -> Fields \cup {None}]

\* A monitored device that is down is not announced a second time, even after a restart,
\* before its return was told (or the hub stopped over telling it) or it was taken off the list.
NoOfflineTwice == dv.step = "push" => \A d \in dv.went : told[d] # "off"

\* Whoever is told to be offline was really counted as down by its site since it was last
\* told to be back: a scan that missed it pages nobody, nor does an answer from before.
NoFalseAlarm == \A d \in Devs : told[d] = "off" => d \in counted

\* What people are told of outages is true, and news.
OfflineTrue == NoFalseAlarm /\ NoOfflineTwice

\* A device the hub knew as monitored and not down, and that goes down for good, is told,
\* unless the hub stopped between saving the alert state and sending the alert.
KnownUp(d) == Memory # None /\ d \in Memory.mon \ Memory.down
Gone(d)    == link /\ d \in site.there /\ site.val[d]["watch"] /\ site.dev[d] = "down"

OfflineTold ==
    \A d \in Devs : KnownUp(d) /\ Gone(d) ~> told[d] = "off" \/ ~Gone(d) \/ d \in crashed

\* Site alerts alternate between two starts of the hub, which forget what was told: no second
\* "offline" before "back online", no "back" without "offline".
SiteAlternates ==
    [][st.step = "offline" /\ st'.step # "offline" /\ st'.step # "idle" =>
         /\ st.say = "offline" /\ st.miss >= OfflineAfter => siteTold # "off"
         /\ st.say = "online" => siteTold = "off"]_vars

\* A site that stays away is told, and a site that stays back after it was told.
SiteTold == (~link ~> siteTold = "off" \/ link) /\ (link /\ siteTold = "off" ~> siteTold # "off" \/ ~link)

\* A conflict, and a rogue DHCP server, that goes on is paged once between two starts of the hub,
\* however many polls see it; a conflict again if a poll that could not fetch the site's list took it for over.
PagedOnce ==
    [][/\ st.step = "conflict" /\ confSeen' # confSeen =>
            News(confSeen, st.conf) \cap confTold \subseteq fellBack
       /\ st.step = "rogue" /\ st'.step = "conflicts" => News(rogueSeen, st.rogue) \cap rogueTold = {}]_vars

\* A conflict or a rogue server that stays was paged, the second one of a site as well.
PagedInTheEnd ==
    /\ \A i \in Ips : <>[](link /\ i \in site.overlap \ acked /\ site.there # {}) => <>(i \in paged)
    /\ \A r \in Rogues : <>[](link /\ r \in rogue) => <>(r \in paged)

\* The last edit of a device stays on the page although an older answer comes in after it.
LastEditShown ==
    \A d \in Devs : lastEdit[d] # None /\ edit = NoEdit /\ snap # None /\ d \in snap.there \cap site.there =>
        snap.val[d][lastEdit[d]] = site.val[d][lastEdit[d]]

\* A forgotten device is gone from the page in the end, even if a poll under way puts it back.
ForgottenGoes == \A d \in Devs : d \notin site.there /\ link ~> snap = None \/ d \notin snap.there \/ ~link

\* The hub catches up: whatever goes wrong and stays wrong is told in the end, of devices, of
\* sites, of alarms, and the page forgets what the site forgot.
CatchesUp == OfflineTold /\ SiteTold /\ PagedInTheEnd /\ ForgottenGoes
=============================================================================
