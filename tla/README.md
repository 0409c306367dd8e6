# Netwatch in TLA+

A TLA+ development beside Netwatch, the farm-network monitor in `src/`: a site app (`src/app`,
one Raspberry Pi per farm: scanner, web pages, device management) and a Central Hub
(`src/hub/app`, polls all sites over a WireGuard VPN). The modules are translated from the Python
source; every definition that stands for code is listed with its lines in `PROJECT.json`
(`map`). Line numbers below are those of `src/`.

Contents: 1 inventory, 2 modules, 3 correspondence with the code, 4 runs, 5 fairness and deadlock,
6 theorems, 7 disagreements between code and documentation, 8 not modelled, 9 what is left to do.

## 1. Inventory

### Parts, their state and their operations

| part | state | operations | acts with |
|---|---|---|---|
| Monitored devices (`app/monitoring.py`) | the `watch` flag, monitor id and `kuma_paused` in each registry entry; queue `_pending` / `_want_sync`; one worker thread; `_tried`, `_kuma`, `_last_sync` | `seed`, `set_many`, `follow_kuma`, `_drain` / `_sync` / `_apply`, `reconcile`, `kuma_settings_changed`, `after_restore`, `remove_unowned` | scanner (registry), Kuma client, web requests |
| Kuma client (`app/kuma.py`) | none of its own; Kuma's monitors | list, add, pause/resume, delete, each in one admin session | Uptime Kuma (socket.io) |
| Scanner (`app/scanner.py`) | `devices`, `miss`, `seen_keys`, `registry`, address-conflict notes; `scan_state.json`, `devices.json` | `_run_scan`, `_finalize`, `delete_device`, `prune_devices`, `set_device_meta`, heartbeat | discovery, history, notify, monitoring |
| Network settings (`app/netcfg.py`) | `network_pending.json`, `_active_cancel`, watchdog threads, nmcli profiles | apply static, confirm, back to DHCP, recover at boot, secondary addresses | NetworkManager, web requests, boot |
| Device restart (`app/restart.py`) | `_jobs` per device key | `start`, job thread (`testing` ... verdict) | device, web requests |
| VPN self-repair (`app/vpnheal.py`, `app/hubvpn.py`) | `_state`: down since, steps taken, next step | `check` once a minute | heartbeat, wg |
| Wi-Fi fixes (`app/wififix.py` and checks) | plan tokens, jobs, the radio's running config and flash, the script's state file | preview, apply, on-radio script, follow-up | radios over SSH |
| Hub poller (`hub/app/poller.py`) | snapshots, late edits, due times, alert memory, `monitor_alerts.json` | `_tick`, five kinds of fetch, alerts | sites' APIs, notify |
| Firmware (`app/hikfw.py`, `hub/app/camfw.py`) | staged file, job; library and job list on the hub | stage in pieces, check, update, verify | cameras, hub |
| Hub time keeping (`hub/app/timekeeping.py`, `timenet.py`) | SQLite minutes, clock, rules | builder pass, manual clock | access log, sites |
| Radio monitor, Pi health | last readings, alert memory, SQLite samples | poll loop, compare, alert | devices |
| Camera pictures (`app/campics.py`) | pictures in memory and on disk, what each camera and recorder can do, the saved login's refusal | fetch a lens' picture by one way after another, keep, purge | cameras, recorders |
| Live video (`app/camlive.py`) | the relay process, its streams, viewers, the idle timer | open, close, stop | relay, viewers |
| Camera settings and jobs (`app/hiksettings.py`, `hikbulk.py`) | locks of devices, the change log, one running job | change, undo, rule and undo jobs, stop | cameras |
| Camera logins (`app/hiksecurity.py`, `hikchannels.py`, `creds.py`) | saved logins, the admin's beside them | make and remove the user netwatch, change the admin's password | cameras, recorders |
| Switch monitor (`app/switchmon.py`) | last reading, problems, alert memory; two files | a round of polling, log, tell | switches |
| Switch ports (`app/server.py` with the drivers) | none of its own; the switch's ports | link and PoE on, off, cycle | switches |
| DHCP guard (`app/dhcpguard.py`) | suspects, settings | check, allow | DHCP servers |
| Tunnels (site and hub) | listening relays, idle times | open, close, reap | hub, devices |
| Network diagram (`app/topology*.py`) | `topology.json` under one lock | edit, draw what the address tables prove, re-key, forget | scanner callbacks |
| Logins, settings, web layers, UI, installation | files | read, write, route | all of the above |

### Hard behaviour

* Threads without common locks. Flask request threads, the scan thread, the Kuma worker, one-shot
  background threads and watchdogs all read and write the registry dict; the scanner's lock
  covers the list only while it is replaced (scanner.py:1244) or pruned.
* State read before a call that takes seconds (Kuma, nmcli, nmap, SSH) and used after it.
* Calls whose reply is lost although they took effect (Kuma's `add`, nmcli `up`).
* Restarts between two steps that touch two files, or a file and an outside system.
* Things that must happen in the end: Kuma follows the switch, a pending network change resolves.
* Counters with a threshold (missed scans) that scans of part of the network, key changes and
  forgetting all touch.

`PROJECT.json` lists each hazard at its line, with the properties that cover it.

### What makes each part correct

* Monitored devices: no queued work without a worker; switches end up followed; one monitor per
  device and one device per monitor; no monitor left without a device.
* Scanner: a device has one key; it is announced once unless the reachability gate drops its first
  sighting; publishing a scan removes nobody but for a new key; losses and returns alternate in the
  log.
* Network settings: at most one watchdog can revert; a confirmed address stays; an unconfirmed one
  goes; a pending change is always resolved.
* Restart job: one job per device, every job gets a verdict, the verdict is that of this job.
* VPN repair: steps come in order and not too often; every repair that was tried ends in a report.
* Wi-Fi fix: flash is never written unless the peers are back; a radio never keeps an unsaved,
  unproven setting; a verdict is about the fix it is shown for.
* Poller: an alert for every change and one only; a snapshot never older than an edit.
* Firmware: one update at a site; no good verdict about a device that does not run the file's
  version; no file without a backup; every update ends.
* Camera jobs: the log tells what devices hold; an undo writes only over its own change.
* Camera logins: no user, lock, channel or password is left behind without a word.
* Camera pictures: no way to a picture is missed, a wrong login is not sent again and again, and
  a purge that no request crosses leaves nothing.
* Live video: a login leaves the relay with its viewer.
* Switch monitor: people know what the last reading showed, and the log's last word agrees with it.
* Switch ports: nobody can cut off the Pi by mistake, where the switch tells which port is its.
* DHCP guard: what is told as gone is gone.
* Tunnels: a connection reaches the device its tunnel was opened to; what is closed ends.
* Time keeping: a minute is billed once, and a build never touches what somebody settled.
* Diagram: it shows what is listed and proved, and what people removed stays removed as long as its
  switch keeps its key.

## 2. Modules

Each component has a module; those about which results are proved have a proof module that extends
them. The MC modules give the constants their small values and combine components.

| module | what it is |
|---|---|
| `KumaFollow` | the Monitored switch, its worker, Kuma, and the scanner and restore code that moves registry entries |
| `NetRevert` | a static address with auto-revert: requests, watchdogs, pending file, boot |
| `ScanState` | sightings to device list: keys, gate, counters, log, publish; forget, prune, restart |
| `SwitchMon` | rounds of the switch monitor: reading, log, alert memory, files, logins |
| `SwitchPorts` | changes of a switch's ports by several people, through three kinds of driver |
| `CamLogins` | the jobs that make and remove the user netwatch and change the admin's password |
| `SafeChange` | abstract: what "preview, confirm, apply with auto-undo" promises of one radio |
| `WifiFix` | the fix of a radio: preview, token, job, the script on the radio; implements `SafeChange` |
| `HubPoller` | one site's status and device polls at the hub, edits, alerts, hub restarts |
| `Firmware` | the hub's and the site's update jobs, the staged copy, the risky-work lock, the devices |
| `RestartJob` | restarting one device and proving that it restarted |
| `VpnHeal` | the ladder of repairs of the VPN tunnel |
| `DhcpGuard` | checks for DHCP servers that do not belong there |
| `CamLive` | the live video relay and its viewers |
| `Topology` | the network diagram |
| `Tunnels` | device tunnels at the hub and at the site |
| `TimeKeeping` | activity to billed entries, one day |
| `CameraJobs` | changes of camera settings, their log, jobs and undo |
| `CamPics` | camera pictures |
| `MCKumaFollow`, `MCNetRevert`, `MCWifiFix`, `MCHubPoller`, `MCFirmware` | small instances of one module each |
| `MCSiteWatch` | `ScanState`, `SwitchMon`, `SwitchPorts`, `CamLogins` |
| `MCSiteTasks` | `RestartJob`, `VpnHeal`, `DhcpGuard`, `CamLive`, `Topology` |
| `MCHubTasks` | `Tunnels`, `TimeKeeping` |
| `MCCameras` | `CameraJobs`, `CamPics` |
| `KumaFollow_proofs`, `NetRevert_proofs`, `WifiFix_proofs`, `HubPoller_proofs`, `Firmware_proofs` | proofs about one module each |
| `SiteWatch_proofs` | proofs about `ScanState`, `SwitchMon`, `SwitchPorts`, `CamLogins` |
| `SiteTasks_proofs` | proofs about `RestartJob`, `VpnHeal`, `DhcpGuard`, `CamLive`, `CameraJobs`, `CamPics` |
| `HubTasks_proofs` | proofs about `Tunnels` and `TimeKeeping` |

A scenario, in every module, is a record of how often each kind of outside event may still happen
(`left`, `kleft`, `pleft`, ...); an action that stands for such an event spends one. The initial
state picks one scenario of a set. The theorems hold for every scenario.

Composition.

* `KumaFollow` and `ScanState` share the registry. Each keeps the part its own decisions read:
  `KumaFollow` the contents of an entry and only *that* a scan lists, re-keys or drops it;
  `ScanState` only whether an entry exists but all of the scan. The scan actions of `KumaFollow`
  (`Appear`, `Rekey`, `ForgetRead`..`ForgetRemove`, `Prune`) are the registry side of
  `ScanState`'s `Baseline`, `Sight`, `Forget`..`ForgetLive` and `Prune`. `Topology` has the same
  events as its scanner hooks.
* `Firmware` and `Tunnels` contain both programs, the hub's part and the site's, with the requests
  on the way between them.
* `WifiFix` implements `SafeChange` under a refinement mapping (`Safe` in `WifiFix`).
* The composed MC modules put components side by side that share no state in the program either;
  a variable `task` says which one moves in a behaviour, so that the state space is the sum and not
  the product of theirs. They say nothing about one component disturbing another.

## 3. Correspondence with the code

Common to all: a step ends where the code lets another thread in (a call that takes time, an
unlock, a separate file write). Locals that live across such a point are variables (`task`, `op`,
`round`, `job`, `req`, ...); shared dicts keep their names where they can. History variables are
marked in the declarations; no guard reads them.

### KumaFollow

Variables: `reg` / `disk` / `bak` are `scanner.registry`, `devices.json` and the bundle of the
last backup; an entry keeps `watch` (with "unset" for a registry from before the switch), the
monitor id and `kuma_paused`. `pending`, `wantSync`, `tried`, `syncDue`, `kumaOk` are the module
globals of monitoring.py:71-80. `wpc`, `wkeys`, `wlist`, `task` are the locals of the worker:
where it stands, the keys it took, the list it read, and per key what it decided and what Kuma
answered. A Python reference to a registry dict survives a re-key of that dict and dangles after a
restore; `task[k].at` is the key under which the dict is found now (`NoKey`: not in the registry),
and `Current` is `_current_entry`.

Steps: every Kuma call is a step of its own, and so is its evaluation; another thread may act
between. `SyncRead` / `SyncApply` are `_sync`; `Plan`, `ToggleConnect`, `ToggleOne`, `NoteToggle`,
`ToggleRefused`, `ListMarked`, `AddConnect`, `AddOne`, `Store*`, `Save` are `_apply` in order.
A failing call (`CallFails`) may or may not have taken effect. Deleting a device takes three
steps (`ForgetRead`, `ForgetDrop`, `ForgetRemove`) because nothing is locked between them.

Kuma is modelled from the calls kuma.py makes: monitors with the device marker in their
description, an id that is never reused, active or paused; its own UI can delete, pause and
resume; it can be unreachable.

### NetRevert

`ip` is what each NetworkManager profile says, `pending` the pending file, `watch` the watchdog
threads (one per applied change), `active` the cancel event in `_active_cancel`, `op` the request
threads, `boot` and `nm` the start of the app. Only writing the pending file and arming the
watchdog are under `_lock` (`WritePending`, `Arm`); confirming and reverting are not, so
`Confirm` / `ConfirmClear` and `Deadline` / `Revert` / `RevertDone` interleave freely. `orig` and
`kept` are history: what an unconfirmed change replaced, and what was confirmed in time.
`InTime` defines "in time" narrowly: the watchdog of the change still waits and no other is
reverting.

### ScanState

`dev`, `miss`, `seen`, `reg` are the scanner's dicts, `saved` its two files. `scope`, `index`,
`todo`, `found`, `fresh`, `heir` are the locals of `_run_scan` (`heir` is `superseded`, with the
new key kept for the properties); `result`, `ups`, `downs` those of `_finalize`. `gated` and
`unsaid` note whom the gate dropped in this scan and whom nobody will announce; `told` and `last`
are history too: the "new" rows of the event log and the last up/down event of each key. A scan is
`Begin`, any number of `Sight`s, `Gate`, the sweep's `Sight`s, `Tally`, `Log`, `Baseline`,
`Publish`. The registry and `seen_keys` change at once with a sighting, the list only in `Publish`.
Which of several records with one address the snapshot takes is left open (`Indexes`).

### SwitchMon, SwitchPorts, CamLogins

`SwitchMon`: `row` is `_last` of the one switch and `rowDisk` its file, `problems` what the page
shows, `alert` what was told with the time class of "long ago", `round` the locals of one
`_poll_switch`. `Read`, `LogChanges`, `Persist`, `ShowProblems`, `Fire`, `SaveFired`, `Clear`,
`SaveClear` follow the code's order; people are told before the memory of it is saved.
`SwitchPorts`: a request looks (the "is this the Pi's port" check), reads what its driver reads,
and writes it back: a field, a port or the whole list. The check may have no table of MACs to go by
and then lets every port through; `unknown` notes when it let the Pi's own through so. `CamLogins`:
the camera's side (`cam`), the recorder's channel and Netwatch's `store`; each request to the
camera has the outcomes done, refused and unanswered (done or not), each its own action.

### WifiFix

`file`, `flash`, `live`, `bak`, `log` are the radio's; `scripts` the scripts started on it, each
a process of its own with the steps of the shell text `wififix` sends; `plans` and `previews`
Netwatch's tokens; `job` the follow-up thread. What a radio can do (apply or only store, drop the
link, be read live, show its test mode, how many peers can follow) is a constant of the behaviour.
The proof that a power took hold is the script's: a reading that moved, or that shows the new value,
also when the radio did not apply it.

### HubPoller, Firmware, Tunnels

`HubPoller`: `st` and `dv` are the two fetches one tick may run in parallel, each with what it
carries over an unlock; `over` is `_overrides`; `mon` / `monDisk` the monitored-device alert
memory. `told`, `siteTold`, `counted`, `crashed` and so on are history for the alert properties.
`Firmware`: files are numbers in the order of version and build, `Ver` the version of each, which is
all the check after an update looks at; `job` is the hub's record with its thread's place, `sjob`
the site's, `copy` the staged file piece by piece; a piece may be damaged or its request or answer
lost. `Tunnels`:
`hub` and `site` are both `_tuns` with the objects taken out of them; `treq` and `toClose` are
the requests between the two.

### RestartJob, VpnHeal, DhcpGuard, CamLive, Topology

Time is counted in probes (`RestartJob`) or heartbeats (`VpnHeal`), up to the largest time that is
compared. A restart may be reported as sent to a device that is off (over SSH). A check of the
guard takes its settings, listens, judges and saves in separate steps (`gcheck`). Opening, closing
and stopping live views hold one lock; sending does not, so a viewer can go while the relay is
stopped. A request of the diagram reads the device list and the address tables before it takes the
store's lock (`request`), and `telling` is what the scanner has told the diagram but not yet done
itself. `ScanEnds` lists the MAC it told of, or drops the device (the gate), or changes nothing
(the scan failed or the program stopped). `adrift` are the unlisted devices whose drawing was left.
A switch may be keyed by its address; the suggestions of its tables carry its key of the time.

### TimeKeeping, CameraJobs, CamPics

`TimeKeeping`: `work`, `latest`, `phone`, `claude` are `time_activity`, `entries` is
`time_entries`; `Want` is the pure part of the builder, `Matches` the updating in place, `plans`
what a builder has read and worked out and not yet written. `CameraJobs`: `op[a]` is a change under
way by the worker or a person, with the lock it holds; `log` the change log, `jobs` and `disk` the
job list. `CamPics`: `req[v]` is the request that holds lens `v`'s lock and the way it is on;
`caps` and `recorder` are what was learned; the ways and their fallbacks are the actions
`SendOn`, `Direct`, `Generic`, `Rtsp`, `FromRecorder`; `Odd` is one answer out of order of a device
that can send the picture. A purge leaves any of the files when a request is under way.

## 4. Runs

Every run is exhaustive. "States" are distinct states.

| run | question | instance and bounds | states |
|---|---|---|---|
| `kuma_follow` | Do monitors end up as the switches say, with no lost wake-up and no second monitor? `QueueHasWorker`, `StaleTaskRequeued`, `NoSecondMonitor`, `SwitchFollowed` | 2 devices, one with a push token of its own; 6 monitor ids; clicks with a lost call and somebody in Kuma's UI; the login saved and removed; a restart; a restored backup; tidying | 322,862 |
| `kuma_own` | Is every recorded monitor true and single? `OneOwner`, `RecordedExists` | 2 devices, 4 ids; forgetting twice; pruning twice; re-keying with a lost call; backup and restore around moves | 1,194,358 |
| `kuma_orphan` | violation: `NoOrphans` when a device is forgotten while its monitor is made | one switch, one forget | |
| `net_revert` | Does a confirmed address stay, an unconfirmed one go, and can only one watchdog revert? `OneArmed`, `ConfirmedStays`, `PendingResolved` | 2 request threads, 2 connections, 2 addresses, 2 changes, 2 restarts, one failure of every kind of call | 759,044 |
| `site_watch` | Scanner: `NoPhantom`, `NewIsAnnounced`, `OnlineAfterOffline`, `ListedUntilForgotten`. Switch monitor: `ToldTrue`, `LogTrue`. Ports: `PiReachable`. Logins: `Accounted` | 2 MACs, 2 addresses, 4 scans (3 with ARP-only hosts, pruning, forgetting and a restart), `OfflineAfter` 2; 3 link changes, 2 outages; 2 people, 2 ports; a switch with and without its table of MACs; 3 jobs with refusals and lost answers | 907,555 |
| `wifi_fix` | Does a radio only keep what was proved, whatever fails? `KeptWasLive`, `StalePlanRefused`, `VerdictIsOwn`, `ImplementsSafeChange`, `NeverStranded` | 2 keys of 2 values, 2 peers, 12 kinds of radio; two fixes with hand edits, or one fix with one of each trouble, a misleading power reading among them | 325,727 |
| `hub_poll` | Is every outage told once and truly, and is an edit never shown older? `OfflineTrue`, `LastEditShown`, `CatchesUp` | 1 device, 2 addresses in conflict, 1 rogue server, debounce 2; 4 turns of a device, 2 of the link, 2 edits, 1 restart | 97,416 |
| `site_tasks` | `RestartTrue`, `LoginsGo`, `DiagramWhole`, `DrawnAsAsked`, `TunnelHealed`, `GoneTrue`, each of its task | 2 restarts, 4 probes; 2 faults; 1 server; 3 views, 2 at once; 7 diagram scenarios over 7 devices (one a switch that gains its MAC), 1 box, 1 group, 3 wires | 281,594 |
| `diagram_forget` | violation: `ForgetRemoves`: a page open while a device is forgotten | one page, one forget | |
| `firmware` | One update at a time, a true verdict, an end: `OneAtATime`, `VerdictTrue`, `UpdateEnds` | 1 site, 2 devices, 2 files in 2 pieces, two builds of one version, 2 updates | 176,718 |
| `hub_tasks` | `RightDevice`, `EverythingCloses` of tunnels; `DayWhole` of time keeping | 2 operators, 1 connection, 1 hub port and 2 site ports; a day of 4 minutes, 2 farms, 3 marks | 211,600 |
| `cameras` | `ChangesAccounted` of jobs, `RequestsSound` of pictures, `EverythingEnds` of both | 2 devices of 2 documents with 3 values; 29 kinds of camera and recorder, 2 lenses, 2 requests at once, one odd answer | 441,788 |

Why these bounds are enough to be of use. Two devices are what one needs for an entry or an
address to go from one to the other; every property is about one device or a pair. Two changes of
network settings let an older watchdog meet a newer one; a third adds no new pair. `OfflineAfter`
is 2, so that one miss and "enough misses" differ, and four scans are the shortest loss and
return. Monitor ids exceed what the budgets can create in Kuma before the run ends; when they run
out `AddOne` waits, which no scenario reaches at a point a liveness property needs. One hub port
makes the second operator meet a full range, two site ports leave one to a tunnel that is closing.
Four minutes hold a stretch, a gap of `Gap` and a second stretch; two farms are needed for the
"latest of the farms" rule. Two documents per device are the least of which one can be written and
the other fail. Most safety properties are proved for every value besides, section 6.

Every passing property is known to be able to fail: `PROJECT.json` lists for each a plausible bug
(the operators called mutants in the modules) under which TLC finds it violated. `SYMMETRY` in
`site_watch` is over MACs and addresses, which no initial state or property names; that run has no
liveness property.

## 5. Fairness and deadlock

| module | weak (WF) or strong (SF) fairness of | why |
|---|---|---|
| `KumaFollow` | WF of the worker, the request and background threads, `Reconcile`, elapsing of `SYNC_S` and `RETRY_S` | threads that run; the auto-scan loop; time |
| `NetRevert` | WF of boot, each request's own steps, each watchdog | threads that run; the deadline is a `wait` with a timeout |
| `WifiFix` | WF of the job, each script, a peer that can follow coming back | a thread; processes on the radio; radio physics, only for peers that can follow |
| `HubPoller` | SF of a tick that asks for status, and for devices; WF of both polls and of the edit's thread | the loop ticks for ever, and a poll that is due now and then gets its turn |
| `Firmware` | WF, per device, of the hub's job, the site's job, a device that is booting | threads; a device that is not dead comes up |
| `VpnHeal` | WF of the heartbeat | the heartbeat loop |
| `Tunnels` | WF of `Threads`: connection handlers, reapers and the stopping of their sockets | threads and the reaper's timer |
| `CameraJobs` | WF of `JobsWork`: the worker and the change it makes | a thread; each call has a timeout |
| `CamPics` | WF of `PWorks`: requests under way and the background round | threads; each call has a timeout |

Nothing is assumed of operators, Kuma or its users, or the internet: where an answer depends on
them, liveness is stated under a condition (`<>[]Reachable` in `SwitchFollowed`, for example).
The other components are checked for safety only.

`CHECK_DEADLOCK FALSE` everywhere: the systems go quiet legitimately when the scenario's budget of
outside events is spent (no change pending, nothing queued). That something which must still happen
does happen is what the liveness properties say.

## 6. Theorems

The eight `*_proofs` modules are checked by TLAPS to the last leaf. A theorem holds for every value
of the constants that satisfies the `ASSUME`s of the module it is about. Those say no more than
what names mean (a "nothing" that is no key, address or password; MACs are not addresses; budgets
and limits are numbers, thresholds positive), with these that carry weight: `RekeysAssumption` (a
device is re-keyed from its address to a MAC and never back, scanner.py), `PortsAssumption`,
`FilesAssumption` (`Rotten`, the files damaged in the library, is any subset), `VersionsAssumption`
(a file that is no older has no older version), `DayAssumption` (farms are a finite set; a day is
finite) and `TopologyAssumption` (MACs, units and ports are finitely many, units are network
equipment keyed by MAC or by address, and address tables name MACs).

Almost no property is inductive as it stands. Each proof module states the strengthening it needs
as named conjuncts, each with a comment, and shows `Init => Inv`, `Inv /\ [Next]_vars => Inv'` with
one step per action, and that `Inv` implies the property.

| theorem | property | the strengthening, and why it is needed |
|---|---|---|
| **`KumaFollow_proofs`** | | |
| `QueueAlwaysHasWorker` | `QueueHasWorker` | none: `FollowKuma` and `Take` alone touch the pair, both under `_qlock` |
| `StaleTasksAreRequeued` | `StaleTaskRequeued` | `TaskInv`: the queue is emptied only while the worker holds nothing (`TaskPhase`), a task points at a key with an entry (`TaskLinked`), an entry moves only along `Rekeys` (`TaskMoved`), what is not queued agrees with the switch (`TaskMeant`) |
| `OwnersDiffer` | `OneOwner` | `OwnerInv`: ids are made in order and every marker names a key (`MonInv`); without moves every entry, in memory, on disk and in the backup, records a monitor with its own marker (`AtHome`); without restores what a task is about to record is recorded nowhere yet (`Unrecorded`). *If no device moves, or no backup is restored* |
| `NoSecondIsMade` | `NoSecondMonitor` | `MakeInv`: a task that is still to make its monitor has none recorded, and since the list the worker read none exists. *If no device moves and no backup is restored* |
| `RecordedAreThere` | `RecordedExists` | `GoneInv`: where there is no entry nothing is recorded (`Blank`); a marked monitor of Kuma's is gone only once its device has no entry or is about to lose it (`GoneAway`, and `DropsOwn`, `DoomsGone` for what a thread still holds). *If no device moves, no backup is restored, nobody deletes in Kuma's UI or tidies (`HandsOff`), and devices either all remain (`Remain`) or, once gone, are not seen again and Netwatch does not restart (`ForGood`)* |
| **`NetRevert_proofs`** | | |
| `OneWatchdogArmed` | `OneArmed` | `Named`: a request or watchdog under way knows its connection |
| `ConfirmationHolds` | `ConfirmedStays` | `KeptInv`: no watchdog that may still revert, no pending file and no change under way is about a confirmed connection (`NoUndo`, `Changing`), and a confirmation just being written leaves none (`Confirming`). *The property is about one operator at a time* |
| **`SiteWatch_proofs`** | | |
| `NoPhantomListed` | `NoPhantom` | `PhantomInv`: also of the saved list and the one being published (`Lists`); the snapshot knows who sat where (`Indexed`); nothing found sits where the sweep still looks, and a MAC found where an address key sat superseded it (`Sighted`, `Fallow`) |
| `ReturnsFollowLosses` | `OnlineAfterOffline` | `EventInv`: a counter at the threshold means that the loss is the last event or about to be logged (`Down`), carried over the gap between counting and logging (`UpsWereDown`) |
| `NewAreAnnounced` | `NewIsAnnounced` (but for what the gate dropped) | `AnnounceInv`: whom this scan will still announce, in memory, in the file and in the list being published |
| `ListedStay` | `ListedUntilForgotten` (of the publishing step) | `HeirInv`: a superseded key's heir was found and is in the list about to be published |
| `TroublesToldTrue`, `LogIsTrue` | `ToldTrue`, `LogTrue` | `MonInv`: memory, file, reading and alert relate by how far the round has come |
| `PiStaysReachable` | `PiReachable` | `CrossInv`: what a request read agrees with the switch, but for what crossed it; what was checked on a full reading is not the Pi's port |
| `WritesNothingElse`, `CyclesRestore` | `ChangesOnly`, `CycleRestores` | the same |
| `LoginsAccounted` | `Accounted` | `LoginInv`: at each step of each job, which of the camera's password, user, lock and channel may differ from the record, and what people will be told of it |
| `NothingIsNothing`, `GoodEndsAreWhole` | `NothingChanged`, `EndsWhole` | the same invariant, read at the end of a job |
| **`WifiFix_proofs`** | | |
| `KeptIsLive`, `StalePlansRefused`, `VerdictsOwn` | `KeptWasLive`, `StalePlanRefused`, `VerdictIsOwn` | what the script has read, backed up, written and proved at each of its lines. *While one script runs at a time* |
| `RadioIsSafe` | `ImplementsSafeChange` | the refinement, one step of the proof per action: a step of `SafeChange` or a stutter. *The same hypothesis* |
| `OneAlone`, `CalmSafe` | `ImplementsSafeChange` | `Calm` scenarios satisfy that hypothesis: one fix at most, or no answer to a start lost, no script slower than its deadline and no restart of Netwatch; with it, the four results hold without the hypothesis |
| **`HubPoller_proofs`** | | |
| `OutagesToldTrue` | `OfflineTrue` | `CountedInv`: whatever a list says is down was counted as down by its site; `RememberedInv`: whoever was told to be offline is remembered as down until the return is sent, in memory and on disk alike |
| `LastEditStays` | `LastEditShown` | `EditInv`: `_overrides` remembers the last edit, the snapshot holds it, and so does every list on its way that is not marked as older |
| `SiteAlertsAlternate`, `OnePageEach` | `SiteAlternates`, `PagedOnce` | `SaidInv`, `PagedInv`. *Between two starts of the hub: `Restart` forgets what was told* |
| **`Firmware_proofs`** | | |
| `UpdatesAlone` | `OneAtATime` | `Alone`: of the devices of a site at most one has a running job, in the hub's list and in the site's |
| `GoodVerdictTrue` | `VerdictTrue` | `Settled`: a device that answers after the restart has no file left to come up with; `Followed`: the site's job that the hub follows by its number has this update's file. *"Runs" is about the version, not the build* |
| `StagedWhole`, `NoFileWithoutBackup`, `ProvenFilesRan` | `OneFileStaged`, `BackedUp`, `ProvenRan` | `OneCopy`, `Saved`, `Shown` |
| **`HubTasks_proofs`** | | |
| `RightDevices` | `RightDevice` | `HomeInv`: listening halves of the site have ports of their own (`OwnPorts`); a tunnel of the hub knows the port and the device of the half it was made for, and so does a connection the tunnel it came through (`HalvesKnown`, `ConnsKnown`) |
| `HalvesHandedOver` | `HandedOver` | `SlotInv`: which request, tunnel or close still on its way owns an id and a port |
| `DaysAreWhole` | `DayWhole` | `KInv`, below |
| `FrozenKeptAlways` | `FrozenStays` | `FreshPlans`: a plan nothing came between is what a builder would plan now |
| **`SiteTasks_proofs`** | | |
| `RestartsToldTrue` | `RestartTrue` | `RInv`: what the probes seen so far prove of the device since its command was reported as sent. *If at most one probe of a device that is up is lost in a job* |
| `RepairIsPatient` | `StepsPatient` | `PatienceInv`: the clock of the outage against the repair's memory |
| `GoneIsGone` | `GoneTrue` | `GInv`: the counter of a suspect against the history of probes |
| `LoginsAreWithdrawn`, `PlacesAreKept` | `LoginsGo`, `PlacesKept` | `ViewInv`: who holds a stream, a place or neither |
| `ChangesAreAccounted`, `UndoesWriteOverTheirOwn` | `ChangesAccounted`, `UndoOverOwn` | `CameraInv`: locks are held exactly by changes under way, an undo equals its log entry, the newest entry is what the device holds unless it is being written or a change of it was cut off (`blind`), a running undo job covers its job's changes |
| `RequestsAreSound` | `RequestsSound` | `PicInv`: the login a request uses is the saved one or an older one; wrong ones about to be sent are at most `Parallel`; what is remembered of a camera is so; a request nothing got in the way of has every way still before it or shut, the last also by what an earlier odd answer taught |
| `DiagramsAreWhole` | `DiagramWhole` | `DiagramInv`: the document has no loose end of boxes and groups (`Whole`); whom the scanner is telling of is on the diagram only if a request drew it since (`Telling`), and what it leaves unlisted is `adrift`; a request that has picked suggestions holds proven ones (`Requesting`) |
| `DiagramsAreDrawnAsAsked` | `DrawnAsAsked` | the same, with `refused` within the dismissed suggestions: what was removed by hand is not among what the tables prove when the page is shown, for the keys units have then |

Each module has its type invariant as a theorem too (`TypeCorrect`, `MonitorTyped`, `PortsTyped`,
`LoginsTyped`, `TunnelsTyped`, `DayTypes`, `CamerasTyped`, `DiagramTyped`; those of the smaller
components are conjuncts of their invariants).

**A day's entries (`DaysAreWhole`).** The builder throws away the entries nobody settled and
makes them again, so what must be shown is that this settles down: `KInv` says that a fresh plan
is what a builder would plan now (`FreshPlans`), that after one build the entries which may move are
exactly the drafts of some set clear of settled time and of itself, with the visits of the phone
as they are (`AfterOne`), and after two builds exactly what is wanted now (`AfterTwo`). The key
lemma is that one build leaves the holes (settled time) and the visits as they were, so that from
the second on `Want` does not change. It rests on lemmas about the model's operators, proved once:
runs of marked minutes are apart, cover the marks and are of one site; pieces lie outside the
holes; the matching of drafts to old rows is injective; new rows get names of their own.
A second build is needed: the first may create a visit that changes where office minutes count.

**The diagram (`DiagramsAreWhole`).** Each edit is a function from a document to a document, and
for each a lemma (`...Keeps`) says that it leaves no loose end, puts nothing on the diagram but
the devices it was asked about, and forgets no dismissed suggestion. Wires are drawn one after the
other (`CreateAll`): `CreateLinkShape` is about one, `CreateAllShape` about any finite set. An edit
made by a request for devices it read earlier then preserves `NothingDangles` because `late` notes
those that have left since; the scanner's own hooks (`Rekey`, `WithoutDevices`) take the key they
are told of off the diagram before it leaves the list, and `adrift` notes a MAC that was to be listed
and was not.

**Recursive definitions.** `Placed`, `Matches`, `CreateAll` and other folds are written as recursive
functions; a theorem uses their defining equation through a predicate (named `...Solves`) and
argues from a least counterexample over the naturals instead of by the library's induction.

**Hypotheses.** None is there for convenience; each names a way in which the code does break the
property. A second script while one runs overwrites the backup of the first (section 7, Wi-Fi), so
`OneScript`; a restored backup brings back an entry forgotten since, and a device that moved then
has two, so `StayHome` / `NoRestores`; somebody who deletes in Kuma's UI, a list read before a
deletion and applied after it, or a crash between the deletion in Kuma and in the registry leave a
recorded monitor that is gone, so `HandsOff`, `Remain` and `ForGood`; two lost answers of a device
that stayed up look like an off and on, so `flaky <= 1`. `ToldTrue`, `NewIsAnnounced`, `Accounted`,
`ListedUntilForgotten` and `OfflineTrue`, `PiReachable`, `CycleRestores`, `KeptWasLive`,
`DiagramWhole`, `ChangesAccounted` and `RequestsSound` contain their exceptions: a history variable
set by the one step that the property does not survive (`gated`, `unsaid`, `unknown`, `adrift`,
`late`, `blind`, `hurt` and others), for the device, port or request concerned and no other.
`ConfirmedStays` is stated of one operator at a time. Section 7 tells of each. `OneOwner` with
devices that move *and* backups restored is not proved; TLC finds no violation in the states of
`kuma_own`.

**Only model-checked.**

* Everything that must happen in the end: `SwitchFollowed`, `PendingResolved`, `NeverStranded`,
  `CatchesUp`, `TunnelHealed`, `UpdateEnds`, `EverythingCloses`, `EverythingEnds`. The prover has
  neither liveness under fairness nor `ENABLED`.
* `ForgetRemoves`, `NoOrphans`: they are violated (section 7).

Every safety property of the passing runs has a theorem, under the hypotheses named above; TLC
checks `OneOwner` and `RecordedExists` also where those hypotheses fail, in the scenarios of
`kuma_own`.

## 7. Disagreements between code and documentation

With a run:

* `kuma_orphan`: forgetting a device whose monitor is being made, or was just replaced, leaves the
  monitor in Kuma (scanner.py:1794; README 362: no orphans left).
* `diagram_forget`: the diagram is told of a forgotten device before the device leaves the list; a
  page open meanwhile draws it again (scanner.py:1793; README 675).

Met while modelling; the properties name these as exceptions, or the scenarios leave them out.

*Scanner.* A device first met in a scan during which something is forgotten or pruned (which saves
`seen_keys`, scanner.py:1805, 1840) and which a restart cuts short is never announced (README 97).
A device first met by an ARP answer alone is never announced: it is noted as seen (618) before the
gate drops it (639), also when it answers in full later. An address-keyed device that
shows its MAC and fails the reachability gate in one scan leaves the list (639; README 177). A
device forgotten while a scan runs may be listed again by its publish (1198). Of several records
with one address the snapshot prefers the last of the dict (561). Lowering `offline_after` below a
counter logs no loss (1193). `set_device_meta` writes back what it read without the lock (1701).

*Monitored devices.* `remove_unowned` checks once and deletes later, and a monitor adopted in
between is deleted (monitoring.py:706). A crash between the deletion in Kuma and in the registry,
a restored backup, or an older list re-recording a deleted monitor leave an entry with a monitor
that is gone, until the next read-back.

*Network settings.* A second change before the first is confirmed reverts to the unconfirmed
first (netcfg.py:278; README 59). `nmcli up` failing after `modify` leaves the new profile without
pending file or watchdog (282); so does power lost at 281. `recover_pending` clears the file even
if NetworkManager was not there to restore anything (324).

*Switch monitor.* "Back to normal" is told of a port that is merely unreadable, whose login was
refused or removed (switchmon.py:580), or that is down longer than the history reaches
(history.py:305). A stop between telling and saving tells it again; one between `log_events` and
`_persist` logs it again. `forget()` during a poll brings the row back; the alert of a forgotten or
opted-out switch stays.

*Switch ports.* Which port is the Pi's is read from the switch's table of MACs, which both drivers
can do without (edgeswitch.py:469-475, swos.py:346-354): without it nothing is refused
(server.py:1847-1851), and the Pi's port can be switched off; README 33 has "always refused".
SwOS's list of ports is read, changed and written whole without a lock (swos.py:385). A stop in a
power cycle leaves the port off, as does a first write that was done and not answered
(edgeswitch.py:548; 537 promises otherwise); the restore overwrites an operator's "off".

*Camera logins.* A creation whose answer is lost leaves the user netwatch with an unknown password
and nobody is told (hiksecurity.py: "Any failure after the user was created removes it again"). A
password change whose write or test stays unanswered is neither saved nor told, and the lock stays
paused; a removal with an unread list of users takes the user for gone; a recorder that does not
answer keeps the old password though the job says it went well. `creds.set_*` load, change and save
without a lock.

*Wi-Fi fixes.* For the power, any reading that moved, and one that showed the new value before, is
proof enough (wififix.py:562-567): a power the radio did not apply can be saved to flash, where
line 17 has "only then". When the reply to a start is lost the verdict is "refused" while the
script runs, and the next script overwrites its backup; the same after a restart or with a slow
script. A failure of the reading back after the save is told as "refused" (wififix.py:654).

*Restarts, VPN, DHCP.* A command over SSH that timed out or got no session counts as sent
(restart.py:114), so a device that lost its power between the test and the command, and came back,
is told as "restarted" (10-15). The record is "done" before `on_done` ran; a next restart replaces
it and the first verdict is not in the history (restart.py:254). A blip of the internet forgets the
repairs tried, and the recovery is not reported (vpnheal.py:101; 22). `allow()` while a check runs
flags the server again (dhcpguard.py:430).

*Cameras.* A change whose later write or read-back stays unanswered, or meets a refused login (401:
hikisapi.py:123-128, hiksettings.py:1457), is in no log, though documents were written
(hiksettings.py:1524; 6: "Every change is logged"). "Stop" during the pause still changes the next
device (hikbulk.py:407; 363). Switching pictures off does not always delete them (campics.py:28 has
"deletes them"): off, on and off between two rounds is taken for one switch (1010), requests under
way keep what they bring, and one that renames its file (944) breaks off the loop of the purge
(958-964), which counts as done all the same (1015). An address can be remembered as "not offered"
though it is (campics.py:664; 431), and one answer that is no picture, be it of a moment, gives up
the address of another make's camera until a restart (729). A wrong login is tried once by each
request at once, so that two lenses looked at together send it twice; hikisapi.py:5-7 ("must never
be tried twice") and campics.py:31 have one try. An older login's late answer makes the refusal of
the new one forgotten (hikisapi.py:58).

*Firmware.* After an update only the version is compared (hikfw.py:418), while the check before lets
a newer build of the same version pass (264): a build-only update that did not take is told as "ok".
The hub accepts "change" in lower case where the site wants the exact word
(hiksettings.py:1191). A file damaged on the hub's disk is sent for ever (camfw.py:460). The
library is loaded, changed and saved without a lock (271), and the rule "an untried file on one
device only" is looked at before the site is asked (403; 19).

*Hub.* A restart between saving the alert memory and sending loses the alert (poller.py:532;
511 promises otherwise); alerts of sites are repeated after a restart (304). Two edits of different
fields with a poll on its way lose the first (99). A site closes its half of a tunnel and its port
is another device's while the hub still relays to it (hub/app/tunnels.py:248; 8). A person's
approval between a builder's reading and writing is overwritten or deleted (timekeeping.py:415;
22): `DayWhole` speaks of builds nothing came between. An import builds in another process, where
the lock means nothing.

*Diagram.* A removed wire is known by its switch's key (topology.py:850, 866), which a re-keying does
not carry over (996-1012): when a switch listed by its address gains its MAC, the wires that were
removed are drawn again (679 and 951: "so it is not drawn again"). A re-keying told in the middle of
a scan (scanner.py:606, 1154) of a device which the gate then drops, or whose scan fails or is cut
short, leaves its drawing under a MAC that is not listed (997: "so nothing is orphaned"). The
tables of a router and of a switch may both prove one cable, which is drawn twice
(topology.py:827, 949; 799). `update_link` looks for no duplicate. Re-keying onto a device it is
linked with makes a link to itself (1003).

## 8. Not modelled

Inside the modelled parts: names, addresses, intervals and tags of Kuma monitors, push-token
heartbeats, texts of errors; bridge MACs, acknowledged address conflicts, names passes, the
heartbeat's own probes; managed secondary addresses of netcfg; the drivers' protocols (only which
of field, port or list they write); the documents of a camera beyond "which value"; the undo
history and layout of the diagram; the disk's own errors while pictures are deleted; rates and
invoices of time keeping. `KumaFollow` takes a scan's key decisions as given (`Rekeys`),
`ScanState` shows how they come about.

Whole parts, each in `components` with its reason: Wi-Fi diagnosis, the radio monitor and the
radio drivers, Pi health, discovery and identification, site history, the web layers, logins and
settings files, notifications, the hub's backups, VPN and firewall, time keeping's feeds and pages,
the browser pages, installation. Mostly they translate bytes (vendor protocols, SSH, XML), keep SQL
or route requests. Of Pi health and the radio monitor the control was read and would be worth a
module of its own: the hardware watchdog is opened in a thread in which `signal.signal` raises, so
that its feeder never starts (sysmon.py:502; 19), and a failed reading counts as a recovery.

## 9. What is left to do

* `RecordedExists` where devices move, or return after they were forgotten.
* `OneOwner` with moves and restores together.
* Modules for Pi health and the radio monitor, and the hub's own pages over the poller.
