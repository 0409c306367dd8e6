----------------------------- MODULE NetRevert ------------------------------
(***************************************************************************)
(* The auto-revert watchdog behind "DHCP -> fixed IP" (app/netcfg.py).     *)
(*                                                                         *)
(* Actors: the operator's requests (op), one watchdog thread per applied   *)
(* change (watch), the app being started again (boot) and NetworkManager,  *)
(* which may fail a call. Only the last two steps of an apply hold _lock;  *)
(* confirm_static and the watchdog threads hold nothing.                   *)
(*                                                                         *)
(* Abstracted: gateway and DNS go with the address; a deadline is a moment *)
(* that comes sooner or later.                                             *)
(***************************************************************************)
EXTENDS Naturals

CONSTANTS
    Cons,       \* NetworkManager connections
    Addrs,      \* static addresses
    Dhcp,       \* "obtain automatically"
    None,       \* no connection, no address
    Ops,        \* request threads
    MaxChanges, \* bound on the changes asked for: one watchdog thread for each
    Budgets     \* bounds, one of them in force: how often a change is asked for, the app
                \* is started again and each kind of NetworkManager call fails;
                \* together: may two requests run at the same time (a switch)

Kinds == {"apply", "restart", "read", "modify", "up", "revert", "boot", "dhcp", "together"}

ASSUME NamesAssumption == Dhcp \notin Addrs /\ None \notin Addrs \cup Cons \cup {Dhcp}
ASSUME BoundAssumption ==
    /\ MaxChanges \in Nat
    /\ Budgets \subseteq [Kinds -> Nat]
    /\ \A b \in Budgets : b["apply"] <= MaxChanges

Watches  == 1..MaxChanges
Settings == Addrs \cup {Dhcp}

VARIABLES
    ip,         \* the IPv4 settings of each connection
    pending,    \* network_pending.json: connection and snapshot
    watch,      \* the watchdog threads, numbered by the change they belong to
    active,     \* _active_cancel: the thread that can be cancelled, 0 = none
    op,         \* what each request thread is doing
    boot,       \* "up", or the step of recover_pending
    nm,         \* nm_available(), remembered by the process
    left,       \* what is left of the bounds
    kept        \* history: the address that was confirmed in time

procVars == <<watch, active, op>>
bootVars == <<boot, nm>>
vars == <<ip, pending, procVars, bootVars, left, kept>>

NoPending == [con |-> None, snap |-> None]
OpIdle    == [step |-> "idle", con |-> None, addr |-> None, snap |-> None, id |-> 0]
NoWatch   == [step |-> "none", con |-> None, snap |-> None, cancelled |-> FALSE]

PendingState == [con : Cons \cup {None}, snap : Settings \cup {None}]
WatchState   == [step : {"none", "wait", "restore", "clear", "done"},
                 con : Cons \cup {None}, snap : Settings \cup {None}, cancelled : BOOLEAN]
OpState      == [step : {"idle", "read", "set", "up", "write", "arm", "clear", "dhcp"},
                 con : Cons \cup {None}, addr : Settings \cup {None},
                 snap : Settings \cup {None}, id : Watches \cup {0}]

NetType   == ip \in [Cons -> Settings] /\ pending \in PendingState
WatchType == watch \in [Watches -> WatchState] /\ active \in Watches \cup {0}
OpType    == op \in [Ops -> OpState]
BootType  == boot \in {"up", "restore", "clear"} /\ nm \in BOOLEAN
LeftType  == left \in [Kinds -> Nat] /\ left["apply"] <= MaxChanges
KeptType  == kept \in [Cons -> Addrs \cup {None}]
TypeOK    == NetType /\ WatchType /\ OpType /\ BootType /\ LeftType /\ KeptType

Init ==
    /\ ip = [c \in Cons |-> Dhcp]
    /\ pending = NoPending
    /\ watch = [w \in Watches |-> NoWatch] /\ active = 0
    /\ op = [o \in Ops |-> OpIdle]
    /\ boot = "up" /\ nm = TRUE
    /\ left \in Budgets
    /\ kept = [c \in Cons |-> None]

Spend(kind) == left[kind] > 0 /\ left' = [left EXCEPT ![kind] = @ - 1]
Works       == UNCHANGED left

\* One operator at a time: the same request thread serves every request.
Free(o) == left["together"] > 0 \/ o = CHOOSE p \in Ops : TRUE

Step(o, step) == op' = [op EXCEPT ![o].step = step]
Finish(o)     == op' = [op EXCEPT ![o] = OpIdle]

(***************************************************************************)
(* apply_static_with_revert: snapshot, refuse what is set already,         *)
(* nmcli modify, nmcli up, then under _lock the pending file and the       *)
(* watchdog.                                                               *)
(***************************************************************************)
Ask(o, c, a) ==
    /\ boot = "up" /\ nm /\ op[o].step = "idle" /\ Free(o)
    /\ Spend("apply")
    /\ op' = [op EXCEPT ![o] = [step |-> "read", con |-> c, addr |-> a, snap |-> None,
                                id |-> 1 + MaxChanges - left["apply"]]]
    /\ UNCHANGED <<ip, pending, watch, active, bootVars, kept>>

Snapped(s, settings) == [s EXCEPT !.step = "set", !.snap = settings]

\* A snapshot that cannot be read is empty; restoring it means DHCP. Mutant: it does not.
Read(o) ==
    LET c == op[o].con IN
    /\ op[o].step = "read"
    /\ \/ Works /\ IF ip[c] = op[o].addr THEN Finish(o)
                    ELSE op' = [op EXCEPT ![o] = Snapped(@, ip[c])]
       \/ Spend("read") /\ Step(o, "set")
    /\ UNCHANGED <<ip, pending, watch, active, bootVars, kept>>

Restored(snap) == IF snap = None THEN Dhcp ELSE snap

Modify(o) ==
    LET c == op[o].con IN
    /\ op[o].step = "set"
    /\ \/ /\ Works
          /\ ip' = [ip EXCEPT ![c] = op[o].addr]
          /\ kept' = [kept EXCEPT ![c] = None]
          /\ Step(o, "up")
       \/ Spend("modify") /\ Finish(o) /\ UNCHANGED <<ip, kept>>
    /\ UNCHANGED <<pending, watch, active, bootVars>>

\* The new settings are in force once nmcli brings the connection up; when it reports an
\* error (or takes longer than 45 s) the request ends here.
Up(o) ==
    /\ op[o].step = "up"
    /\ \/ Works /\ Step(o, "write")
       \/ Spend("up") /\ Finish(o)
    /\ UNCHANGED <<ip, pending, watch, active, bootVars, kept>>

WritePending(o) ==
    /\ op[o].step = "write"
    /\ \A p \in Ops : op[p].step # "arm"
    /\ pending' = [con |-> op[o].con, snap |-> op[o].snap]
    /\ Step(o, "arm")
    /\ UNCHANGED <<ip, watch, active, bootVars, left, kept>>

\* _arm_revert. Mutants: the previous watchdog goes on; the new one is the one cancelled.
Started(o) == [step |-> "wait", con |-> op[o].con, snap |-> op[o].snap, cancelled |-> FALSE]
ArmedBoth(o) == [watch EXCEPT ![op[o].id] = Started(o)]
ArmedCancelled(o) == [watch EXCEPT ![op[o].id] = [Started(o) EXCEPT !.cancelled = TRUE]]
ArmedOnly(o) == [w \in Watches |->
                    IF w = op[o].id THEN Started(o)
                    ELSE IF w = active THEN [watch[w] EXCEPT !.cancelled = TRUE]
                    ELSE watch[w]]

Arm(o) ==
    /\ op[o].step = "arm"
    /\ watch' = ArmedOnly(o)
    /\ active' = op[o].id
    /\ Finish(o)
    /\ UNCHANGED <<ip, pending, bootVars, left, kept>>

(***************************************************************************)
(* A watchdog thread: at the deadline one look at its cancel event, then   *)
(* restore_ipv4 (whose failures nobody looks at) and _clear_pending.       *)
(***************************************************************************)
Deadline(w) ==
    /\ watch[w].step = "wait"
    /\ watch' = [watch EXCEPT ![w].step = IF watch[w].cancelled THEN "done" ELSE "restore"]
    /\ UNCHANGED <<ip, pending, active, op, bootVars, left, kept>>

Revert(w) ==
    /\ watch[w].step = "restore"
    /\ \/ Works /\ ip' = [ip EXCEPT ![watch[w].con] = Restored(watch[w].snap)]
       \/ Spend("revert") /\ UNCHANGED ip
    /\ watch' = [watch EXCEPT ![w].step = "clear"]
    /\ UNCHANGED <<pending, active, op, bootVars, kept>>

\* Mutant of the file's removal: it stays.
Kept    == pending
Cleared == NoPending

RevertDone(w) ==
    /\ watch[w].step = "clear"
    /\ pending' = Cleared
    /\ watch' = [watch EXCEPT ![w].step = "done"]
    /\ UNCHANGED <<ip, active, op, bootVars, left, kept>>

(***************************************************************************)
(* confirm_static (c = None) and switch_to_dhcp(c), which starts with it.  *)
(***************************************************************************)
\* The operator confirms in time: the watchdog of the change still waits and no other
\* one is on its way to revert.
InTime == /\ active # 0
          /\ watch[active].step = "wait" /\ ~watch[active].cancelled
          /\ \A w \in Watches : watch[w].step \notin {"restore", "clear"}

Confirm(o, c) ==
    /\ boot = "up" /\ op[o].step = "idle" /\ Free(o)
    /\ c # None => nm
    /\ watch' = IF active = 0 THEN watch ELSE [watch EXCEPT ![active].cancelled = TRUE]
    /\ op' = [op EXCEPT ![o] = [step |-> "clear", con |-> c, snap |-> None, id |-> 0,
                 addr |-> IF InTime /\ c = None THEN ip[watch[active].con] ELSE None]]
    /\ UNCHANGED <<ip, pending, active, bootVars, left, kept>>

ConfirmClear(o) ==
    /\ op[o].step = "clear"
    /\ pending' = Cleared
    /\ kept' = IF op[o].addr \in Addrs
               THEN [kept EXCEPT ![watch[active].con] = op[o].addr] ELSE kept
    /\ IF op[o].con = None THEN Finish(o) ELSE Step(o, "dhcp")
    /\ UNCHANGED <<ip, watch, active, bootVars, left>>

SetDhcp(o) ==
    /\ op[o].step = "dhcp"
    /\ \/ /\ Works
          /\ ip' = [ip EXCEPT ![op[o].con] = Dhcp]
          /\ kept' = [kept EXCEPT ![op[o].con] = None]
       \/ Spend("dhcp") /\ UNCHANGED <<ip, kept>>
    /\ Finish(o)
    /\ UNCHANGED <<pending, watch, active, bootVars>>

(***************************************************************************)
(* The app stops and starts again; recover_pending runs before the first   *)
(* request is served. Whether NetworkManager is there is asked once.       *)
(***************************************************************************)
Restart ==
    /\ Spend("restart")
    /\ watch' = [w \in Watches |-> IF watch[w].step = "none" THEN watch[w]
                                   ELSE [watch[w] EXCEPT !.step = "done"]]
    /\ active' = 0
    /\ op' = [o \in Ops |-> OpIdle]
    /\ boot' = "restore" /\ nm' = TRUE
    /\ UNCHANGED <<ip, pending, kept>>

Recover ==
    /\ boot = "restore"
    /\ IF pending = NoPending
       THEN boot' = "up" /\ UNCHANGED <<ip, nm, left>>
       ELSE /\ boot' = "clear"
            /\ \/ Works /\ ip' = [ip EXCEPT ![pending.con] = Restored(pending.snap)] /\ nm' = TRUE
               \/ Spend("boot") /\ UNCHANGED ip /\ nm' \in BOOLEAN
    /\ UNCHANGED <<pending, procVars, kept>>

RecoverDone ==
    /\ boot = "clear"
    /\ pending' = Cleared
    /\ boot' = "up"
    /\ UNCHANGED <<ip, procVars, nm, left, kept>>

Request(o) == Read(o) \/ Modify(o) \/ Up(o) \/ WritePending(o) \/ Arm(o)
              \/ ConfirmClear(o) \/ SetDhcp(o)
Watchdog(w) == Deadline(w) \/ Revert(w) \/ RevertDone(w)
Boot == Recover \/ RecoverDone

Operator == \E o \in Ops : \/ \E c \in Cons, a \in Addrs : Ask(o, c, a)
                           \/ \E c \in Cons \cup {None} : Confirm(o, c)

Next ==
    \/ Operator \/ Restart \/ Boot
    \/ \E o \in Ops : Request(o)
    \/ \E w \in Watches : Watchdog(w)

\* The threads keep running and deadlines come; nothing is assumed of the operator.
Fairness ==
    /\ WF_vars(Boot)
    /\ \A o \in Ops : WF_vars(Request(o))
    /\ \A w \in Watches : WF_vars(Watchdog(w))

Spec     == Init /\ [][Next]_vars
FairSpec == Spec /\ Fairness

(***************************************************************************)
(* Properties                                                              *)
(***************************************************************************)
\* At most one watchdog can still revert anything, and it is the one that a confirmation
\* cancels: an older change's deadline never undoes a newer, confirmed one.
OneArmed ==
    \A w \in Watches : watch[w].step = "wait" /\ ~watch[w].cancelled => w = active

\* A confirmation that came in time holds: neither a deadline nor a restart takes the
\* confirmed address away again (one operator at a time).
ConfirmedStays ==
    left["together"] = 0 => \A c \in Cons : kept[c] # None => ip[c] = kept[c]

\* The countdown on the page ends: every pending change is confirmed or reverted, across
\* requests that overlap and restarts.
PendingResolved == pending # NoPending ~> pending = NoPending
=============================================================================
