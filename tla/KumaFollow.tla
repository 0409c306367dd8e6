----------------------------- MODULE KumaFollow -----------------------------
(***************************************************************************)
(* The Monitored switch of a device and the Uptime Kuma monitor that has   *)
(* to follow it: app/monitoring.py, the Kuma calls of app/kuma.py and the  *)
(* parts of app/scanner.py that move or drop a registry entry.             *)
(*                                                                         *)
(* Actors: the operator (request threads: switch, forget, prune, tidy,     *)
(* settings, restore), the scan thread (new devices, re-keying,            *)
(* reconcile), the one Kuma worker thread (wpc), the threads that delete   *)
(* monitors in the background (doomed), and Kuma itself with its own UI.   *)
(* Kuma calls take seconds, so every call is a step of its own and the     *)
(* others move between a call and the use of its result.                   *)
(*                                                                         *)
(* Abstracted: names and addresses of monitors, tags, the reasons shown to *)
(* the operator (_errors), the history rows.                               *)
(***************************************************************************)
EXTENDS Naturals

CONSTANTS
    Keys,       \* device keys (a MAC, or an IP while no MAC is known)
    NoKey,      \* not a key: "this dict is in the registry no more"
    Push,       \* keys with a hand-made push token: Netwatch makes no monitor
    Rekeys,     \* pairs <<old, new>>: an IP-keyed device that gains its MAC
    MaxMon,     \* bound: monitor ids Kuma can hand out
    Budgets     \* bound: how often each kind of outside event happens, one function
                \* per scenario; prunes: are devices pruned in it (a switch)

Mons  == 1..MaxMon
Kinds == {"switch", "forget", "prune", "tidy", "ui", "fault", "settings", "restore",
          "crash", "seen", "move", "prunes"}

ASSUME KeysAssumption   == NoKey \notin Keys /\ Push \subseteq Keys
\* An address gives way to a MAC, never the other way round.
ASSUME RekeysAssumption == /\ Rekeys \subseteq Keys \X Keys
                           /\ \A p, q \in Rekeys : p[2] # q[1]
ASSUME BoundAssumption  == MaxMon \in Nat /\ Budgets \subseteq [Kinds -> Nat]

VARIABLES
    reg,        \* scanner.registry: key -> entry
    disk,       \* devices.json as last saved
    bak,        \* the registry in the last backup bundle
    live,       \* keys of scanner.devices (all with an address)
    login,      \* Kuma's URL and admin login are saved here
    pending, wantSync,  \* _pending, _want_sync
    tried,      \* keys _tried less than RETRY_S ago
    syncDue,    \* SYNC_S have passed since _last_sync
    kumaOk,     \* _kuma["ok"]: "unknown" | "yes" | "no"
    wpc,        \* where the worker is; "none" = no worker thread (_worker None)
    wkeys,      \* keys the worker took for this pass
    wlist,      \* the monitor list it read for _sync: id -> state
    task,       \* key -> what this pass is doing in Kuma for it
    forget,     \* delete_device in progress in a request thread
    doomed,     \* monitors a background thread is about to delete
    kuma, made, \* Kuma's monitors, the last id it gave out
    kumaUp,     \* Kuma can be reached and lets Netwatch in
    left        \* what is left of the scenario's budget

regVars    == <<reg, disk, bak, live>>
noteVars   == <<pending, wantSync, tried, syncDue, kumaOk>>
workerVars == <<wpc, wkeys, wlist, task>>
opVars     == <<forget, doomed, login>>
kumaVars   == <<kuma, made, kumaUp>>
vars == <<regVars, noteVars, workerVars, opVars, kumaVars, left>>

(***************************************************************************)
(* Data                                                                    *)
(***************************************************************************)
\* A registry entry. watch "none" stands for "no entry under this key",
\* "unset" for an entry without the flag (nobody has switched it either way).
Entry == [watch : {"none", "unset", "on", "off"}, mid : 0..MaxMon, paused : BOOLEAN]
Gone  == [watch |-> "none", mid |-> 0, paused |-> FALSE]
Fresh == [Gone EXCEPT !.watch = "unset"]

\* A monitor in Kuma: the device key in its "netwatch:" description, whether it
\* exists and whether it is active (not paused).
Monitor == [mark : Keys \cup {NoKey}, there : BOOLEAN, active : BOOLEAN]
NoMonitor == [mark |-> NoKey, there |-> FALSE, active |-> FALSE]
NewMonitor(k) == [mark |-> k, there |-> TRUE, active |-> TRUE]

\* What the worker does for one key in a pass. `at` is the key under which the
\* entry it read is found now (NoKey: in the registry no more); `res` is what
\* Kuma answered.
Task == [kind : {"none", "resume", "pause", "create"}, mid : 0..MaxMon,
         at : Keys \cup {NoKey},
         res : {"todo", "ok", "gone", "down", "err", "adopt", "adoptPaused"}]
Todo(kind, mid, at) == [kind |-> kind, mid |-> mid, at |-> at, res |-> "todo"]
NoTask == Todo("none", 0, NoKey)

\* Task t once a monitor is found or made for it.
WithAnswer(t, m, res) == [t EXCEPT !.mid = m, !.res = res]

ForgetState == [step : {"idle", "drop", "remove"}, key : Keys \cup {NoKey}, mid : 0..MaxMon]
ForgetIdle  == [step |-> "idle", key |-> NoKey, mid |-> 0]

WorkerSteps == {"none", "take", "sync", "synced", "apply", "toggle", "toggling",
                "toggled", "list", "add", "adding", "store", "save"}
ListStates  == {"absent", "active", "paused"}

RegType    == /\ reg \in [Keys -> Entry] /\ disk \in [Keys -> Entry] /\ bak \in [Keys -> Entry]
              /\ live \in SUBSET Keys
NoteType   == /\ pending \in SUBSET Keys /\ wantSync \in BOOLEAN
              /\ tried \in SUBSET Keys /\ syncDue \in BOOLEAN
              /\ kumaOk \in {"unknown", "yes", "no"}
WorkerType == /\ wpc \in WorkerSteps
              /\ wkeys \in SUBSET Keys
              /\ wlist \in [Mons -> ListStates]
              /\ task \in [Keys -> Task]
OpType     == forget \in ForgetState /\ doomed \in SUBSET Mons /\ login \in BOOLEAN
KumaType   == kuma \in [Mons -> Monitor] /\ made \in 0..MaxMon /\ kumaUp \in BOOLEAN
LeftType   == left \in [Kinds -> Nat]
TypeOK     == RegType /\ NoteType /\ WorkerType /\ OpType /\ KumaType /\ LeftType

Known(k)     == reg[k].watch # "none"
Monitored(k) == reg[k].watch = "on"
Owned(r)     == {r[k].mid : k \in Keys} \ {0}
There        == {m \in Mons : kuma[m].there}
Toggles(t)   == {k \in Keys : t[k].kind \in {"resume", "pause"}}
Creates(t)   == {k \in Keys : t[k].kind = "create"}
Unanswered(t, K) == {k \in K : t[k].res = "todo"}

\* Entry e once monitor m (0: none) and its state in Kuma are noted in it.
WithMonitor(e, m, state) == [e EXCEPT !.mid = m, !.paused = (state = "paused")]

\* _out_of_step: what Kuma needs for this key.
Need(r, k) ==
    LET e == r[k] IN
    IF e.mid # 0
    THEN IF e.watch = "on" /\ e.paused THEN "resume"
         ELSE IF e.watch = "off" /\ ~e.paused THEN "pause"
         ELSE "none"
    ELSE IF e.watch = "on" /\ k \notin Push /\ k \in live THEN "create"
         ELSE "none"

\* _waiting, and the keys reconcile looks at.
OutOfStep(r) == {k \in Keys : Need(r, k) # "none"}

\* _kuma_refused, _note_kuma.
Refused == kumaOk = "no"

NoteKuma(ok) == kumaOk' = IF ok THEN "yes" ELSE "no"

\* _current_entry: the entry a Kuma result belongs to.
Current(k) == IF Known(k) THEN k ELSE task[k].at

\* The registry without the entries under K. Mutant: the monitor id stays behind.
DroppedButMonitor(K) == [k \in Keys |-> IF k \in K THEN [Fresh EXCEPT !.mid = reg[k].mid]
                                                   ELSE reg[k]]
Dropped(K) == [k \in Keys |-> IF k \in K THEN Gone ELSE reg[k]]

\* The monitors of the devices in K.
Monitors(K) == {reg[k].mid : k \in K} \ {0}

\* The tasks after the entries under the keys K left the registry.
Unlinked(K) == [k \in Keys |-> IF task[k].at \in K THEN [task[k] EXCEPT !.at = NoKey]
                                                    ELSE task[k]]

Spend(kind) == /\ left[kind] > 0
               /\ left' = [left EXCEPT ![kind] = @ - 1]

\* Mutants of FollowKuma: a read-back alone starts no worker; a running worker is
\* taken to have everything already.
FollowKumaKeysOnly(keys, sync) ==
    /\ pending' = pending \cup keys
    /\ wantSync' = (wantSync \/ sync)
    /\ wpc' = IF wpc = "none" /\ keys # {} THEN "take" ELSE wpc

FollowKumaIdleOnly(keys, sync) ==
    /\ pending' = IF wpc = "none" THEN pending \cup keys ELSE pending
    /\ wantSync' = (wantSync \/ sync)
    /\ wpc' = IF wpc = "none" THEN "take" ELSE wpc

\* follow_kuma: queue keys and/or a read-back; start the worker when there is none.
FollowKuma(keys, sync) ==
    /\ pending' = pending \cup keys
    /\ wantSync' = (wantSync \/ sync)
    /\ wpc' = IF wpc = "none" THEN "take" ELSE wpc

(***************************************************************************)
(* Init: a site that has been running, or an upgraded one. Every device is *)
(* known and nothing is queued.                                            *)
(***************************************************************************)
Init ==
    /\ live \in SUBSET Keys
    /\ reg = [k \in Keys |-> IF k \in live THEN Fresh ELSE Gone]
    /\ disk = reg /\ bak = reg
    /\ login \in BOOLEAN
    /\ pending = {} /\ wantSync = FALSE /\ tried = {} /\ syncDue = TRUE
    /\ kumaOk = "unknown"
    /\ wpc = "none" /\ wkeys = {} /\ wlist = [m \in Mons |-> "absent"]
    /\ task = [k \in Keys |-> NoTask]
    /\ forget = ForgetIdle /\ doomed = {}
    /\ kuma = [m \in Mons |-> NoMonitor] /\ made = 0 /\ kumaUp \in BOOLEAN
    /\ left \in Budgets

(***************************************************************************)
(* The operator and the scan thread                                        *)
(***************************************************************************)
\* set_many for one device: the flag becomes an explicit bool and is saved; Kuma
\* follows only when the switch really changed.
Switch(k, want) ==
    LET flag == IF want THEN "on" ELSE "off" IN
    /\ Spend("switch")
    /\ Known(k) \/ k \in live
    /\ reg[k].watch # flag
    /\ reg' = [reg EXCEPT ![k].watch = flag]
    /\ disk' = reg'
    /\ IF Monitored(k) # want THEN FollowKuma({k}, FALSE)
                              ELSE UNCHANGED <<pending, wantSync, wpc>>
    /\ UNCHANGED <<bak, live, opVars, tried, syncDue, kumaOk, wkeys, wlist, task, kumaVars>>

\* A scan sees a device that was not listed: _finalize notes its home address, which
\* makes the registry entry.
Appear(k) ==
    /\ Spend("seen")
    /\ k \notin live
    /\ live' = live \cup {k}
    /\ reg' = IF Known(k) THEN reg ELSE [reg EXCEPT ![k] = Fresh]
    /\ disk' = reg'
    /\ UNCHANGED <<bak, noteVars, workerVars, opVars, kumaVars>>

\* A scan learns the MAC of a device it listed by its address: the live record moves
\* and so does the entry (the same dict), unless the new key has one already.
Rekey(old, new) ==
    /\ Spend("move")
    /\ old \in live /\ new \notin live
    /\ live' = (live \ {old}) \cup {new}
    /\ IF Known(old) /\ ~Known(new)
       THEN /\ reg' = [reg EXCEPT ![new] = reg[old], ![old] = Gone]
            /\ disk' = reg'
            /\ task' = [k \in Keys |-> IF task[k].at = old THEN [task[k] EXCEPT !.at = new]
                                                           ELSE task[k]]
       ELSE UNCHANGED <<reg, disk, task>>
    /\ UNCHANGED <<bak, noteVars, opVars, wpc, wkeys, wlist, kumaVars>>

\* reconcile, after every scan.
Reconcile ==
    LET sync == Refused \/ syncDue
        due  == IF Refused THEN {} ELSE OutOfStep(reg) \ tried
    IN
    /\ login
    /\ sync \/ due # {}
    /\ syncDue' = (syncDue /\ ~sync)
    /\ FollowKuma(due, sync)
    /\ UNCHANGED <<regVars, opVars, tried, kumaOk, wkeys, wlist, task, kumaVars, left>>

\* Time: RETRY_S after a key's last attempt, SYNC_S after the last read-back.
RetryElapses(k) ==
    /\ k \in tried
    /\ tried' = tried \ {k}
    /\ UNCHANGED <<regVars, opVars, pending, wantSync, syncDue, kumaOk, workerVars, kumaVars, left>>

SyncElapses ==
    /\ ~syncDue
    /\ syncDue' = TRUE
    /\ UNCHANGED <<regVars, opVars, pending, wantSync, tried, kumaOk, workerVars, kumaVars, left>>

\* The Kuma login is saved (or removed) in Settings: kuma_settings_changed.
SaveSettings(saved) ==
    /\ Spend("settings")
    /\ login' = saved
    /\ kumaOk' = "unknown" /\ tried' = {}
    /\ IF saved THEN /\ syncDue' = FALSE
                     /\ FollowKuma(OutOfStep(reg), TRUE)
                ELSE UNCHANGED <<syncDue, pending, wantSync, wpc>>
    /\ UNCHANGED <<regVars, forget, doomed, wkeys, wlist, task, kumaVars>>

\* delete_device: read the monitor id, delete the monitor (best effort), then drop
\* the entry and the live record. Nothing is locked in between.
ForgetRead(k) ==
    /\ Spend("forget")
    /\ forget.step = "idle"
    /\ Known(k) \/ k \in live
    /\ forget' = [step |-> IF reg[k].mid # 0 /\ login THEN "drop" ELSE "remove",
                  key |-> k, mid |-> reg[k].mid]
    /\ UNCHANGED <<regVars, noteVars, workerVars, doomed, login, kumaVars>>

\* deprovision: kuma.deprovision deletes the monitor when Kuma lets Netwatch in; the
\* call may fail (a fault) and nobody asks for its answer.
Deleted(m) == [kuma EXCEPT ![m].there = FALSE, ![m].active = FALSE]
CallFails  == Spend("fault")
CallWorks  == kumaUp /\ UNCHANGED left
CallMissed == ~kumaUp /\ UNCHANGED left

Deprovision(m) ==
    \/ CallWorks /\ kuma' = Deleted(m)
    \/ CallMissed /\ kuma' = kuma
    \/ kumaUp /\ CallFails /\ kuma' = kuma

ForgetDrop ==
    /\ forget.step = "drop"
    /\ forget' = [forget EXCEPT !.step = "remove"]
    /\ Deprovision(forget.mid)
    /\ UNCHANGED <<regVars, noteVars, workerVars, doomed, login, made, kumaUp>>

ForgetRemove ==
    /\ forget.step = "remove"
    /\ forget' = ForgetIdle
    /\ reg' = Dropped({forget.key})
    /\ disk' = reg'
    /\ live' = live \ {forget.key}
    /\ task' = Unlinked({forget.key})
    /\ UNCHANGED <<bak, noteVars, doomed, login, wpc, wkeys, wlist, kumaVars, left>>

\* prune_devices: one batch under the lock, monitored devices excepted; the monitors
\* go in the background.
Prune(victims) ==
    /\ Spend("prune")
    /\ victims # {} /\ victims \subseteq live
    /\ \A k \in victims : ~Monitored(k)
    /\ reg' = Dropped(victims)
    /\ disk' = reg'
    /\ live' = live \ victims
    /\ task' = Unlinked(victims)
    /\ doomed' = IF login THEN doomed \cup Monitors(victims) ELSE doomed
    /\ UNCHANGED <<bak, noteVars, forget, login, wpc, wkeys, wlist, kumaVars>>

\* remove_unowned ("Tidy Kuma"): the monitors among the picked ones that belong to
\* nothing right now; they are then deleted one call at a time.
Tidy(picked) ==
    /\ Spend("tidy")
    /\ login /\ kumaUp
    /\ picked # {} /\ picked \subseteq There \ Owned(reg)
    /\ doomed' = doomed \cup picked
    /\ UNCHANGED <<regVars, noteVars, workerVars, forget, login, kumaVars>>

DeleteDoomed(m) ==
    /\ m \in doomed
    /\ doomed' = doomed \ {m}
    /\ Deprovision(m)
    /\ UNCHANGED <<regVars, noteVars, workerVars, forget, login, made, kumaUp>>

\* A backup bundle is taken; later it is restored over the running registry. One
\* from before the Monitored switch is seeded first (seed). after_restore follows.
TakeBackup ==
    /\ Spend("restore")
    /\ bak # reg
    /\ bak' = reg
    /\ UNCHANGED <<reg, disk, live, noteVars, workerVars, opVars, kumaVars>>

Seeded(r) ==
    [k \in Keys |-> IF /\ r[k].watch \in {"unset", "off"} /\ ~r[k].paused
                       /\ r[k].mid # 0 \/ k \in Push
                    THEN [r[k] EXCEPT !.watch = "on"] ELSE r[k]]

Restore(older) ==
    /\ Spend("restore")
    /\ \E k \in Keys : bak[k].watch # "none"      \* an empty registry is not applied
    /\ reg' = IF older THEN Seeded(bak) ELSE bak
    /\ disk' = reg'
    /\ task' = Unlinked(Keys)
    /\ kumaOk' = "unknown" /\ tried' = {} /\ syncDue' = FALSE
    /\ IF login THEN FollowKuma({}, TRUE) ELSE UNCHANGED <<pending, wantSync, wpc>>
    /\ UNCHANGED <<bak, live, opVars, wkeys, wlist, kumaVars>>

\* The site app stops and starts again: what was only in memory is lost, the calls
\* its threads were about to make are not made.
Restart ==
    /\ Spend("crash")
    /\ reg' = disk
    /\ pending' = {} /\ wantSync' = FALSE /\ tried' = {} /\ syncDue' = TRUE
    /\ kumaOk' = "unknown"
    /\ wpc' = "none" /\ wkeys' = {} /\ wlist' = [m \in Mons |-> "absent"]
    /\ task' = [k \in Keys |-> NoTask]
    /\ forget' = ForgetIdle /\ doomed' = {}
    /\ UNCHANGED <<disk, bak, live, login, kumaVars>>

(***************************************************************************)
(* Kuma                                                                    *)
(***************************************************************************)
\* Someone deletes, pauses or resumes a monitor in Kuma's own UI.
UIDelete(m) ==
    /\ Spend("ui") /\ kuma[m].there
    /\ kuma' = Deleted(m)
    /\ UNCHANGED <<regVars, noteVars, workerVars, opVars, made, kumaUp>>

UIToggle(m) ==
    /\ Spend("ui") /\ kuma[m].there
    /\ kuma' = [kuma EXCEPT ![m].active = ~@]
    /\ UNCHANGED <<regVars, noteVars, workerVars, opVars, made, kumaUp>>

KumaFails ==
    /\ Spend("fault") /\ kumaUp
    /\ kumaUp' = FALSE
    /\ UNCHANGED <<regVars, noteVars, workerVars, opVars, kuma, made>>

KumaRecovers ==
    /\ ~kumaUp
    /\ kumaUp' = TRUE
    /\ UNCHANGED <<regVars, noteVars, workerVars, opVars, kuma, made, left>>

(***************************************************************************)
(* The worker: _drain, _sync, _apply                                       *)
(***************************************************************************)
NoList    == [m \in Mons |-> "absent"]
Listed    == [m \in Mons |-> IF ~kuma[m].there THEN "absent"
                             ELSE IF kuma[m].active THEN "active" ELSE "paused"]

\* A monitor list can be read, or it cannot (down, refused, or none within the wait).
ListRead    == CallWorks
ListMissing == CallMissed \/ (kumaUp /\ CallFails)

\* Top of _drain's loop: take what is queued, or end the thread.
Take ==
    /\ wpc = "take"
    /\ wkeys' = pending
    /\ pending' = {} /\ wantSync' = FALSE
    /\ wpc' = IF wantSync THEN "sync" ELSE IF pending # {} THEN "apply" ELSE "none"
    /\ UNCHANGED <<regVars, opVars, tried, syncDue, kumaOk, wlist, task, kumaVars, left>>

\* _sync's monitor_list. When Kuma refuses, the pass ends here and the keys it took
\* are dropped: reconcile asks again.
SyncRead ==
    /\ wpc = "sync"
    /\ \/ /\ login /\ ListRead
          /\ wlist' = Listed /\ wpc' = "synced"
          /\ UNCHANGED <<kumaOk, wkeys>>
       \/ /\ login /\ ListMissing
          /\ NoteKuma(FALSE) /\ wkeys' = {} /\ wpc' = "take"
          /\ UNCHANGED wlist
       \/ /\ ~login
          /\ IF Refused THEN wkeys' = {} /\ wpc' = "take"
                              ELSE wpc' = "apply" /\ UNCHANGED wkeys
          /\ UNCHANGED <<kumaOk, wlist, left>>
    /\ UNCHANGED <<regVars, opVars, pending, wantSync, tried, syncDue, task, kumaVars>>

\* _sync once the list is in: forget monitors Kuma lacks, note those paused or resumed
\* in Kuma's UI, adopt the marked ones nobody owns.
\* Mutant: a monitor Kuma lacks is not noticed.
CorrectedStates ==
    [k \in Keys |->
        LET e == reg[k] IN
        IF e.mid = 0 \/ wlist[e.mid] = "absent" THEN e
        ELSE [e EXCEPT !.paused = (wlist[e.mid] = "paused")]]

Corrected ==
    [k \in Keys |->
        LET e == reg[k] IN
        IF e.mid = 0 THEN e
        ELSE IF wlist[e.mid] = "absent" THEN WithMonitor(e, 0, "absent")
        ELSE WithMonitor(e, e.mid, wlist[e.mid])]

\* The first monitor of the list with key k's marker that no entry of r owns, as a set
\* of at most one. Mutants: the marker is not looked for; its owner is not.
First(S) == {m \in S : \A n \in S : m <= n}

MarkedNone(list, r, k)     == {}
MarkedAnyOwner(list, r, k) == First({m \in Mons : list[m] # "absent" /\ kuma[m].mark = k})

Marked(list, r, k) ==
    First({m \in Mons : list[m] # "absent" /\ kuma[m].mark = k /\ m \notin Owned(r)})

AdoptedBySync(r) ==
    [k \in Keys |->
        IF r[k].watch # "none" /\ r[k].mid = 0 /\ k \notin Push /\ Marked(wlist, r, k) # {}
        THEN LET m == CHOOSE m \in Marked(wlist, r, k) : TRUE
             IN  WithMonitor(r[k], m, wlist[m])
        ELSE r[k]]

SyncApply ==
    LET new     == AdoptedBySync(Corrected)
        changed == {k \in Keys : new[k] # reg[k]}
        back    == kumaOk # "yes"
    IN
    /\ wpc = "synced"
    /\ reg' = new
    /\ disk' = IF changed # {} THEN new ELSE disk
    /\ NoteKuma(TRUE)
    /\ tried' = tried \ changed
    /\ wkeys' = wkeys \cup changed \cup (IF back THEN OutOfStep(new) ELSE {})
    /\ wpc' = IF wkeys' = {} THEN "take" ELSE "apply"
    /\ wlist' = NoList
    /\ UNCHANGED <<bak, live, opVars, pending, wantSync, syncDue, task, kumaVars, left>>

\* Start of _apply: what each taken key needs now.
Plan ==
    LET need(k)  == IF k \in wkeys /\ Known(k) THEN Need(reg, k) ELSE "none"
        needed   == {k \in Keys : need(k) # "none"}
    IN
    /\ wpc = "apply"
    /\ wkeys' = {}
    /\ IF login
       THEN /\ task' = [k \in Keys |-> IF k \notin needed THEN NoTask
                                        ELSE Todo(need(k), reg[k].mid, k)]
            /\ tried' = tried \cup needed
            /\ wpc' = IF Toggles(task') # {} THEN "toggle"
                      ELSE IF Creates(task') # {} THEN "list" ELSE "take"
       ELSE wpc' = "take" /\ UNCHANGED <<task, tried>>
    /\ UNCHANGED <<regVars, opVars, pending, wantSync, syncDue, kumaOk, wlist, kumaVars, left>>

\* set_active_many: one admin session for all toggles. Kuma can turn the session away;
\* within it every call is answered, answered "gone", or its reply is lost.
ToggleConnect ==
    /\ wpc = "toggle"
    /\ wpc' = IF kumaUp THEN "toggling" ELSE "toggled"
    /\ task' = IF kumaUp THEN task
               ELSE [k \in Keys |-> IF k \in Toggles(task) THEN [task[k] EXCEPT !.res = "down"]
                                                           ELSE task[k]]
    /\ UNCHANGED <<regVars, noteVars, opVars, wkeys, wlist, kumaVars, left>>

Answer(k, res) == task' = [task EXCEPT ![k].res = res]

ToggleOne(k) ==
    LET m   == task[k].mid
        set == IF task[k].kind = "resume" THEN [kuma EXCEPT ![m].active = TRUE]
                                          ELSE [kuma EXCEPT ![m].active = FALSE]
    IN
    /\ wpc = "toggling"
    /\ k \in Unanswered(task, Toggles(task))
    /\ \/ CallWorks /\ kuma[m].there /\ kuma' = set /\ Answer(k, "ok")
       \/ CallWorks /\ ~kuma[m].there /\ kuma' = kuma /\ Answer(k, "gone")
       \/ CallMissed /\ kuma' = kuma /\ Answer(k, "err")
       \/ kumaUp /\ CallFails /\ kuma' \in {kuma, IF kuma[m].there THEN set ELSE kuma} /\ Answer(k, "err")
    /\ wpc' = IF Unanswered(task', Toggles(task')) = {} THEN "toggled" ELSE wpc
    /\ UNCHANGED <<regVars, noteVars, opVars, wkeys, wlist, made, kumaUp>>

\* The session was refused: Kuma would refuse the creates too.
ToggleRefused ==
    /\ wpc = "toggled"
    /\ \E k \in Toggles(task) : task[k].res = "down"
    /\ NoteKuma(FALSE)
    /\ tried' = tried \ (Toggles(task) \cup Creates(task))
    /\ task' = [k \in Keys |-> NoTask]
    /\ wpc' = "save"
    /\ UNCHANGED <<regVars, opVars, pending, wantSync, syncDue, wkeys, wlist, kumaVars, left>>

\* One toggle's answer, noted in the entry that is the device's now. A monitor that is
\* gone is forgotten, and made anew when it should have been resumed.
NoteToggle(k) ==
    LET t == task[k]
        c == Current(k)
        again == t.res = "gone" /\ c # NoKey /\ t.kind = "resume" /\ c \notin Push
    IN
    /\ wpc = "toggled"
    /\ k \in Toggles(task) /\ t.res # "down"
    /\ reg' = IF c = NoKey \/ t.res = "err" THEN reg
              ELSE IF t.res = "gone" THEN [reg EXCEPT ![c] = WithMonitor(@, 0, "absent")]
              ELSE [reg EXCEPT ![c] = WithMonitor(@, reg[c].mid,
                                  IF t.kind = "pause" THEN "paused" ELSE "active")]
    /\ task' = [task EXCEPT ![k] = IF again
                                         THEN Todo("create", 0, c) ELSE NoTask]
    /\ IF Toggles(task') # {} THEN UNCHANGED <<wpc, kumaOk>>
       ELSE /\ NoteKuma(TRUE)
            /\ wpc' = IF Creates(task') # {} THEN "list" ELSE "save"
    /\ UNCHANGED <<disk, bak, live, opVars, pending, wantSync, tried, syncDue, wkeys, wlist, kumaVars, left>>

\* Before making monitors: Kuma's list. A marked one nobody owns is adopted instead (its
\* reply was lost); without a list nothing is made. A key without a live device is left out.
ListMarked ==
    /\ wpc = "list"
    /\ \/ /\ ListRead
          /\ NoteKuma(TRUE)
          /\ task' = [k \in Keys |->
               LET found == Marked(Listed, reg, k)
                   mon   == CHOOSE m \in found : TRUE
               IN
               IF k \notin Creates(task) THEN task[k]
               ELSE IF k \notin live THEN NoTask
               ELSE IF found = {} THEN task[k]
               ELSE WithAnswer(task[k], mon, IF kuma[mon].active THEN "adopt" ELSE "adoptPaused")]
          /\ wpc' = IF Unanswered(task', Creates(task')) # {} THEN "add"
                    ELSE IF Creates(task') # {} THEN "store" ELSE "save"
          /\ UNCHANGED tried
       \/ /\ ListMissing
          /\ NoteKuma(FALSE)
          /\ tried' = tried \ Creates(task)
          /\ task' = [k \in Keys |-> NoTask]
          /\ wpc' = "save"
    /\ UNCHANGED <<regVars, opVars, pending, wantSync, syncDue, wkeys, wlist, kumaVars>>

\* provision_many: one admin session for all new monitors.
AddConnect ==
    /\ wpc = "add"
    /\ wpc' = IF kumaUp THEN "adding" ELSE "store"
    /\ task' = IF kumaUp THEN task
               ELSE [k \in Keys |-> IF k \in Unanswered(task, Creates(task))
                                    THEN [task[k] EXCEPT !.res = "down"] ELSE task[k]]
    /\ UNCHANGED <<regVars, noteVars, opVars, wkeys, wlist, kumaVars, left>>

\* One `add`. Its reply can be lost although the monitor was made.
AddOne(k) ==
    LET new == made + 1
        add == /\ made < MaxMon
               /\ made' = new
               /\ kuma' = [kuma EXCEPT ![new] = NewMonitor(k)]
    IN
    /\ wpc = "adding"
    /\ k \in Unanswered(task, Creates(task))
    /\ \/ CallWorks /\ add /\ task' = [task EXCEPT ![k] = WithAnswer(@, new, "ok")]
       \/ CallMissed /\ UNCHANGED <<kuma, made>> /\ Answer(k, "err")
       \/ kumaUp /\ CallFails /\ add /\ Answer(k, "err")
       \/ kumaUp /\ CallFails /\ UNCHANGED <<kuma, made>> /\ Answer(k, "err")
    /\ wpc' = IF Unanswered(task', Creates(task')) = {} THEN "store" ELSE wpc
    /\ UNCHANGED <<regVars, noteVars, opVars, wkeys, wlist, kumaUp>>

Done(k) == /\ task' = [task EXCEPT ![k] = NoTask]
           /\ wpc' = IF Creates(task') = {} THEN "save" ELSE wpc

\* The answers, one key at a time: refused or failed ...
StoreFailed(k) ==
    /\ wpc = "store"
    /\ k \in Creates(task) /\ task[k].res \in {"down", "err"}
    /\ IF task[k].res = "down" THEN NoteKuma(FALSE) /\ tried' = tried \ {k}
                               ELSE UNCHANGED <<kumaOk, tried>>
    /\ Done(k)
    /\ UNCHANGED <<regVars, opVars, pending, wantSync, syncDue, wkeys, wlist, kumaVars, left>>

\* ... made or adopted, and stored even if the switch went off meanwhile. An adopted
\* monitor that is paused when it should run is queued again.
Store(k) ==
    LET t == task[k]
        c == Current(k)
        new == [reg EXCEPT ![c] = WithMonitor(@, t.mid,
                                        IF t.res = "adoptPaused" THEN "paused" ELSE "active")]
    IN
    /\ wpc = "store"
    /\ k \in Creates(task) /\ t.res \in {"ok", "adopt", "adoptPaused"}
    /\ c # NoKey
    /\ reg' = new
    /\ pending' = IF t.res # "ok" /\ Need(new, c) # "none" THEN pending \cup {k} ELSE pending
    /\ Done(k)
    /\ UNCHANGED <<disk, bak, live, opVars, wantSync, tried, syncDue, kumaOk, wkeys, wlist, kumaVars, left>>

\* ... or made for a device forgotten meanwhile: delete the monitor, best effort.
StoreForgotten(k) ==
    /\ wpc = "store"
    /\ k \in Creates(task) /\ task[k].res \in {"ok", "adopt", "adoptPaused"}
    /\ Current(k) = NoKey
    /\ Deprovision(task[k].mid)
    /\ Done(k)
    /\ UNCHANGED <<regVars, noteVars, opVars, wkeys, wlist, made, kumaUp>>

\* End of _apply: the registry is written.
Save ==
    /\ wpc = "save"
    /\ disk' = reg
    /\ wpc' = "take"
    /\ UNCHANGED <<reg, bak, live, noteVars, opVars, wkeys, wlist, task, kumaVars, left>>

Worker ==
    \/ Take \/ SyncRead \/ SyncApply \/ Plan
    \/ ToggleConnect \/ ToggleRefused \/ ListMarked \/ AddConnect \/ Save
    \/ \E k \in Keys : ToggleOne(k) \/ NoteToggle(k) \/ AddOne(k)
                       \/ StoreFailed(k) \/ Store(k) \/ StoreForgotten(k)

Background == ForgetDrop \/ ForgetRemove \/ \E m \in Mons : DeleteDoomed(m)

Time == SyncElapses \/ \E k \in Keys : RetryElapses(k)

Operator ==
    \/ \E k \in Keys : ForgetRead(k) \/ \E want \in BOOLEAN : Switch(k, want)
    \/ \E victims \in SUBSET live : Prune(victims)
    \/ \E picked \in SUBSET There : Tidy(picked)
    \/ \E b \in BOOLEAN : SaveSettings(b) \/ Restore(b)
    \/ TakeBackup \/ Restart

Scan == Reconcile \/ (\E k \in Keys : Appear(k)) \/ \E p \in Rekeys : Rekey(p[1], p[2])

KumaSide == KumaFails \/ KumaRecovers \/ \E m \in Mons : UIDelete(m) \/ UIToggle(m)

Next == Worker \/ Background \/ Time \/ Operator \/ Scan \/ KumaSide

(***************************************************************************)
(* Fairness: the worker and the request and background threads keep        *)
(* running, scans keep coming and time passes. Nothing is assumed of the   *)
(* operator or of Kuma.                                                    *)
(***************************************************************************)
Fairness ==
    /\ WF_vars(Worker) /\ WF_vars(Background) /\ WF_vars(Reconcile)
    /\ WF_vars(SyncElapses) /\ \A k \in Keys : WF_vars(RetryElapses(k))

Spec     == Init /\ [][Next]_vars
FairSpec == Spec /\ Fairness

(***************************************************************************)
(* Properties                                                              *)
(***************************************************************************)
\* Queued work always has a worker: follow_kuma and the end of _drain's loop never
\* leave keys or a read-back in the queue with no thread to take them.
QueueHasWorker == pending # {} \/ wantSync => wpc # "none"

\* Two devices are never recorded as having the same Kuma monitor, whatever adopting,
\* re-keying and making monitors do to the registry.
OneOwner ==
    \A j, k \in Keys : j # k /\ reg[j].mid # 0 => reg[j].mid # reg[k].mid

\* A lost reply never makes a second monitor: Kuma never has two that carry a device's
\* marker, those that moved on to another device with their entry excepted.
NoSecondMonitor ==
    \A m, n \in There : m # n /\ kuma[m].mark = kuma[n].mark =>
        \E j \in Keys : j # kuma[m].mark /\ reg[j].mid \in {m, n}

\* Quick on/off clicks end in the last state: a pause or resume that the worker is
\* carrying out against the switch as it is now is queued to be looked at again (as
\* long as the entry it read is still the device's).
StaleTaskRequeued ==
    \A k \in Keys : task[k].at = k =>
        /\ task[k].kind = "pause" /\ Monitored(k) => k \in pending
        /\ task[k].kind = "resume" /\ reg[k].watch = "off" => k \in pending

\* kuma_state never says that Kuma checks a device it has no monitor for: as long as
\* nobody deletes monitors in Kuma itself, a recorded monitor exists, but while its
\* device is being forgotten, and as long as none is pruned (a list read before the
\* pruning gives a device that is seen again its old monitor back, until the next list).
RecordedExists ==
    left["prunes"] = 0 => \A k \in Keys : reg[k].mid # 0 =>
        kuma[reg[k].mid].there \/ (forget.step = "remove" /\ forget.key = k)

\* "Switched on" ends up checked by Kuma: once Kuma answers and the login stays saved,
\* every monitored device that is listed gets and keeps a running monitor of its own.
Followed(k) == LET m == reg[k].mid IN m # 0 /\ kuma[m].there /\ kuma[m].active
Reachable   == login /\ kumaUp

OnIsFollowed ==
    <>[]Reachable =>
        <>[](\A k \in Keys \ Push : Monitored(k) /\ k \in live => Followed(k))

\* "Switched off" ends up paused: no monitor of an explicitly unmonitored device goes on
\* checking.
OffIsPaused ==
    <>[]Reachable => <>[](\A k \in Keys : reg[k].watch = "off" => ~Followed(k))

\* While Kuma refuses Netwatch it is asked again after every scan: a refusal is not
\* remembered for ever once Kuma answers.
RefusalEnds == <>[]Reachable => (kumaOk = "no" ~> kumaOk # "no")

\* Kuma ends up checking what is switched on, and nothing that is switched off, also after it
\* refused Netwatch for a while.
SwitchFollowed == OnIsFollowed /\ OffIsPaused /\ RefusalEnds

\* Forgetting or pruning a device deletes its monitor: with nothing left to do, every
\* monitor Netwatch made belongs to a device (README: "no orphans left in Kuma").
Quiet == wpc = "none" /\ forget.step = "idle" /\ doomed = {}
NoOrphans == Quiet => There \subseteq Owned(reg)
=============================================================================
