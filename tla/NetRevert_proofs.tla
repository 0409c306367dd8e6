-------------------------- MODULE NetRevert_proofs --------------------------
(***************************************************************************)
(* Proofs about NetRevert, for any connections, addresses, request threads *)
(* and bounds.                                                             *)
(***************************************************************************)
EXTENDS NetRevert, TLAPS

(***************************************************************************)
(* Types. A request thread and a watchdog know their connection from their *)
(* first step on (Named): a confirmation reads the settings of the         *)
(* connection its watchdog names.                                          *)
(***************************************************************************)
Named ==
    /\ \A o \in Ops : op[o].step \in {"read", "set", "up", "write", "arm"} =>
           op[o].con \in Cons /\ op[o].addr \in Addrs
    /\ \A w \in Watches : watch[w].step \in {"wait", "restore"} => watch[w].con \in Cons

TypeInv == TypeOK /\ Named

LEMMA Untouched ==
    /\ NetType /\ UNCHANGED <<ip, pending>> => NetType'
    /\ WatchType /\ UNCHANGED <<watch, active>> => WatchType'
    /\ BootType /\ UNCHANGED <<boot, nm>> => BootType'
    /\ LeftType /\ UNCHANGED left => LeftType'
    /\ KeptType /\ UNCHANGED kept => KeptType'
BY DEF NetType, WatchType, BootType, LeftType, KeptType

LEMMA SpendTypes == ASSUME LeftType, NEW kind \in Kinds, Spend(kind) PROVE LeftType'
BY BoundAssumption DEF LeftType, Spend, Kinds

\* A call that works or fails leaves the budget well typed.
LEMMA CallTypes ==
    ASSUME LeftType,
           Works \/ Spend("read") \/ Spend("modify") \/ Spend("up") \/ Spend("revert")
                 \/ Spend("boot") \/ Spend("dhcp")
    PROVE  LeftType'
BY SpendTypes, Untouched DEF Works, Kinds

LEMMA OpTypes ==
    /\ OpIdle \in OpState
    /\ \A s \in OpState : \A x \in {"read", "set", "up", "write", "arm", "clear", "dhcp"} :
          [s EXCEPT !.step = x] \in OpState
    /\ \A s \in OpState : s.con \in Cons \cup {None} /\ s.snap \in Settings \cup {None}
                          /\ s.id \in Watches \cup {0}
BY DEF OpState, OpIdle

LEMMA WatchTypes ==
    /\ NoWatch \in WatchState
    /\ \A o \in Ops : op[o] \in OpState => Started(o) \in WatchState
    /\ \A s \in WatchState : \A x \in {"restore", "clear", "done"} :
          [s EXCEPT !.step = x] \in WatchState
    /\ \A s \in WatchState : [s EXCEPT !.cancelled = TRUE] \in WatchState
    /\ \A s \in WatchState : Restored(s.snap) \in Settings
BY DEF WatchState, NoWatch, Started, OpState, Restored, Settings

LEMMA InitTypes == Init => TypeInv
<1> SUFFICES ASSUME Init PROVE TypeInv
  OBVIOUS
<1>1. NetType /\ KeptType
  BY DEF Init, NetType, KeptType, Settings, NoPending, PendingState
<1>2. WatchType /\ OpType
  BY WatchTypes, OpTypes DEF Init, WatchType, OpType
<1>3. BootType /\ LeftType
  BY BoundAssumption DEF Init, BootType, LeftType, Kinds
<1>4. Named
  BY DEF Init, Named, OpIdle, NoWatch
<1> QED
  BY <1>1, <1>2, <1>3, <1>4 DEF TypeInv, TypeOK

LEMMA StepPut ==
    ASSUME NEW f \in [Ops -> OpState], NEW o \in Ops,
           NEW x \in {"set", "up", "write", "arm", "dhcp"}
    PROVE  [f EXCEPT ![o].step = x] \in [Ops -> OpState]
<1>1. [f[o] EXCEPT !.step = x] \in OpState
  BY OpTypes
<1> DEFINE s == [f[o] EXCEPT !.step = x]
<1>2. [f EXCEPT ![o].step = x] = [f EXCEPT ![o] = s]
  OBVIOUS
<1> HIDE DEF s
<1>3. [f EXCEPT ![o] = s] \in [Ops -> OpState]
  BY <1>1 DEF s
<1> QED
  BY <1>2, <1>3

LEMMA FinishPut == \A f \in [Ops -> OpState] : \A o : [f EXCEPT ![o] = OpIdle] \in [Ops -> OpState]
BY OpTypes

\* Where a request thread may go next without touching the watchdogs.
LEMMA OpStepTypes ==
    ASSUME TypeInv, NEW o \in Ops, UNCHANGED <<watch, active>>,
           \/ Finish(o)
           \/ Step(o, "dhcp")
           \/ /\ op[o].step \in {"read", "set", "up", "write"}
              /\ \E x \in {"set", "up", "write", "arm"} : Step(o, x)
    PROVE  OpType' /\ Named'
<1>1. OpType'
  <2>1. op \in [Ops -> OpState]
    BY DEF TypeInv, TypeOK, OpType
  <2>2. ASSUME NEW x \in {"dhcp", "set", "up", "write", "arm"}, Step(o, x)
        PROVE  op' \in [Ops -> OpState]
    <3>1. op' = [op EXCEPT ![o].step = x]
      BY <2>2 DEF Step
    <3>2. [op EXCEPT ![o].step = x] \in [Ops -> OpState]
      BY <2>1, StepPut
    <3> QED
      BY <3>1, <3>2
  <2>3. Finish(o) => op' \in [Ops -> OpState]
    BY <2>1, FinishPut DEF Finish
  <2>4. Finish(o) \/ Step(o, "dhcp") \/ Step(o, "set") \/ Step(o, "up") \/ Step(o, "write")
        \/ Step(o, "arm")
    OBVIOUS
  <2> QED
    BY <2>2, <2>3, <2>4 DEF OpType
<1>2. \A p \in Ops : p # o => op'[p] = op[p]
  BY DEF TypeInv, TypeOK, OpType, Finish, Step
<1>3. \/ op'[o] = OpIdle
      \/ op'[o] = [op[o] EXCEPT !.step = "dhcp"]
      \/ /\ op[o].step \in {"read", "set", "up", "write"}
         /\ \E x \in {"set", "up", "write", "arm"} : op'[o] = [op[o] EXCEPT !.step = x]
  BY DEF TypeInv, TypeOK, OpType, Finish, Step
<1>4. op'[o].step \in {"read", "set", "up", "write", "arm"} =>
         op'[o].con \in Cons /\ op'[o].addr \in Addrs
  <2>1. op[o] \in OpState
    BY DEF TypeInv, TypeOK, OpType
  <2> QED
    BY <1>3, <2>1 DEF TypeInv, Named, OpIdle, OpState
<1> QED
  BY <1>1, <1>2, <1>4 DEF TypeInv, Named

LEMMA StepTypes == TypeInv /\ [Next]_vars => TypeInv'
<1> SUFFICES ASSUME TypeInv, [Next]_vars PROVE TypeInv'
  OBVIOUS
<1> USE DEF TypeInv, TypeOK
<1>1. ASSUME NEW o \in Ops, NEW c \in Cons, NEW a \in Addrs, Ask(o, c, a) PROVE TypeInv'
  <2> DEFINE new == [step |-> "read", con |-> c, addr |-> a, snap |-> None,
                     id |-> 1 + MaxChanges - left["apply"]]
  <2>1. 1 + MaxChanges - left["apply"] \in Watches
    BY <1>1, BoundAssumption DEF Ask, Spend, LeftType, Watches, Kinds
  <2>2. new \in OpState
    BY <2>1 DEF OpState, Settings
  <2>3. op' = [op EXCEPT ![o] = new]
    BY <1>1 DEF Ask
  <2>4. new.step = "read" /\ new.con \in Cons /\ new.addr \in Addrs
    OBVIOUS
  <2> HIDE DEF new
  <2>5. OpType'
    BY <2>2, <2>3, <2>4 DEF OpType
  <2>6. Named'
    BY <1>1, <2>3, <2>4 DEF Ask, Named, OpType
  <2>7. LeftType'
    BY <1>1, SpendTypes DEF Ask, Kinds
  <2> QED
    BY <1>1, <2>5, <2>6, <2>7, Untouched DEF Ask, bootVars
<1>2. ASSUME NEW o \in Ops, Read(o) PROVE TypeInv'
  <2>1. op[o].con \in Cons /\ op[o].step = "read" /\ op[o].addr \in Addrs
    BY <1>2 DEF Read, Named
  <2>2. ip[op[o].con] \in Settings
    BY <2>1 DEF NetType
  <2>3. CASE op' = [op EXCEPT ![o] = Snapped(@, ip[op[o].con])]
    <3>1. \A s \in OpState, x \in Settings :
             /\ Snapped(s, x) \in OpState
             /\ Snapped(s, x).con = s.con /\ Snapped(s, x).addr = s.addr
      BY DEF OpState, Snapped
    <3>2. OpType'
      BY <2>2, <2>3, <3>1 DEF OpType
    <3>3. /\ op'[o].con = op[o].con /\ op'[o].addr = op[o].addr
          /\ \A p \in Ops : p # o => op'[p] = op[p]
      BY <2>2, <2>3, <3>1 DEF OpType
    <3>4. Named'
      BY <1>2, <2>1, <3>3 DEF Read, Named
    <3> QED
      BY <1>2, <3>2, <3>4, CallTypes, Untouched DEF Read, bootVars
  <2>4. CASE Finish(o) \/ Step(o, "set")
    BY <1>2, <2>1, <2>4, OpStepTypes, CallTypes, Untouched DEF Read, bootVars
  <2> QED
    BY <1>2, <2>3, <2>4 DEF Read
<1>3. ASSUME NEW o \in Ops, Modify(o) PROVE TypeInv'
  <2>1. op[o].con \in Cons /\ op[o].step = "set" /\ op[o].addr \in Addrs
    BY <1>3 DEF Modify, Named
  <2>2. NetType'
    BY <1>3, <2>1 DEF Modify, NetType, Settings
  <2>3. KeptType'
    <3>1. ip[op[o].con] \in Settings
      BY <2>1 DEF NetType
    <3> QED
      BY <1>3, <2>1, <3>1 DEF Modify, KeptType
  <2>4. OpType' /\ Named'
    BY <1>3, <2>1, OpStepTypes DEF Modify
  <2> QED
    BY <1>3, <2>2, <2>3, <2>4, CallTypes, Untouched DEF Modify, bootVars
<1>4. ASSUME NEW o \in Ops, Up(o) PROVE TypeInv'
  <2>1. OpType' /\ Named'
    BY <1>4, OpStepTypes DEF Up
  <2> QED
    BY <1>4, <2>1, CallTypes, Untouched DEF Up, bootVars
<1>5. ASSUME NEW o \in Ops, WritePending(o) PROVE TypeInv'
  <2>1. OpType' /\ Named'
    BY <1>5, OpStepTypes DEF WritePending
  <2>2. NetType'
    BY <1>5, OpTypes DEF WritePending, NetType, PendingState, OpType
  <2> QED
    BY <1>5, <2>1, <2>2, Untouched DEF WritePending, bootVars
<1>6. ASSUME NEW o \in Ops, Arm(o) PROVE TypeInv'
  <2>1. Started(o) \in WatchState
    BY WatchTypes DEF OpType
  <2>2. ArmedOnly(o) \in [Watches -> WatchState]
    BY <2>1, WatchTypes DEF ArmedOnly, WatchType
  <2>3. WatchType'
    BY <1>6, <2>2, OpTypes DEF Arm, WatchType, OpType
  <2>4. OpType'
    BY <1>6, OpTypes DEF Arm, Finish, OpType
  <2>5. \A p \in Ops : op'[p] = op[p] \/ op'[p] = OpIdle
    BY <1>6 DEF Arm, Finish, OpType
  <2>6. op[o].con \in Cons
    BY <1>6 DEF Arm, Named
  <2>7. \A w \in Watches : \/ watch'[w].con = op[o].con
                           \/ watch'[w].con = watch[w].con /\ watch'[w].step = watch[w].step
    BY <1>6 DEF Arm, ArmedOnly, Started, WatchType, WatchState
  <2>8. Named'
    BY <2>5, <2>6, <2>7 DEF Named, OpIdle
  <2> QED
    BY <1>6, <2>3, <2>4, <2>8, Untouched DEF Arm, bootVars
<1>7. ASSUME NEW w \in Watches, Watchdog(w) PROVE TypeInv'
  <2>1. ASSUME NEW x \in {"restore", "clear", "done"}, x = "restore" => watch[w].step = "wait",
               watch' = [watch EXCEPT ![w].step = x], UNCHANGED <<active, op>>
        PROVE  WatchType' /\ OpType' /\ Named'
    <3>1. WatchType'
      BY <2>1, WatchTypes DEF WatchType
    <3>2. \A v \in Watches : /\ watch'[v].con = watch[v].con
                             /\ v # w => watch'[v].step = watch[v].step
                             /\ v = w => watch'[v].step = x
      BY <2>1 DEF WatchType, WatchState
    <3>3. Named'
      BY <2>1, <3>2 DEF Named
    <3> QED
      BY <2>1, <3>1, <3>3 DEF OpType
  <2>2. CASE Deadline(w)
    BY <2>2, <2>1, Untouched DEF Deadline, bootVars
  <2>3. CASE Revert(w)
    <3>1. NetType'
      BY <2>3, WatchTypes DEF Revert, NetType, WatchType
    <3> QED
      BY <2>3, <2>1, <3>1, CallTypes, Untouched DEF Revert, bootVars
  <2>4. CASE RevertDone(w)
    <3>1. NetType'
      BY <2>4 DEF RevertDone, NetType, Cleared, NoPending, PendingState
    <3> QED
      BY <2>4, <2>1, <3>1, Untouched DEF RevertDone, bootVars
  <2> QED
    BY <1>7, <2>2, <2>3, <2>4 DEF Watchdog
<1>8. ASSUME NEW o \in Ops, NEW c \in Cons \cup {None}, Confirm(o, c) PROVE TypeInv'
  <2> DEFINE addr == IF InTime /\ c = None THEN ip[watch[active].con] ELSE None
             new  == [step |-> "clear", con |-> c, snap |-> None, id |-> 0, addr |-> addr]
  <2>1. addr \in Settings \cup {None}
    BY DEF InTime, WatchType, NetType, Named
  <2>2. op' = [op EXCEPT ![o] = new]
    BY <1>8 DEF Confirm
  <2> HIDE DEF addr
  <2>3. new \in OpState /\ new.step = "clear"
    BY <2>1 DEF OpState
  <2> HIDE DEF new
  <2>4. OpType'
    BY <2>2, <2>3 DEF OpType
  <2>5. WatchType'
    BY <1>8, WatchTypes DEF Confirm, WatchType
  <2>6. \A w \in Watches : watch'[w].con = watch[w].con /\ watch'[w].step = watch[w].step
    BY <1>8 DEF Confirm, WatchType, WatchState
  <2>7. Named'
    BY <2>2, <2>3, <2>6 DEF Named, OpType
  <2>8. KeptType'
    BY <1>8 DEF Confirm, KeptType
  <2> QED
    BY <1>8, <2>4, <2>5, <2>7, <2>8, Untouched DEF Confirm, bootVars
<1>9. ASSUME NEW o \in Ops, ConfirmClear(o) PROVE TypeInv'
  <2>1. OpType' /\ Named'
    BY <1>9, OpStepTypes DEF ConfirmClear
  <2>2. NetType'
    BY <1>9 DEF ConfirmClear, NetType, Cleared, NoPending, PendingState
  <2>3. KeptType'
    BY <1>9 DEF ConfirmClear, KeptType
  <2> QED
    BY <1>9, <2>1, <2>2, <2>3, Untouched DEF ConfirmClear, bootVars
<1>10. ASSUME NEW o \in Ops, SetDhcp(o) PROVE TypeInv'
  <2>1. OpType' /\ Named'
    BY <1>10, OpStepTypes DEF SetDhcp
  <2>2. NetType' /\ KeptType'
    BY <1>10 DEF SetDhcp, NetType, KeptType, Settings
  <2> QED
    BY <1>10, <2>1, <2>2, CallTypes, Untouched DEF SetDhcp, bootVars
<1>11. CASE Restart
  <2>1. WatchType' /\ OpType'
    BY <1>11, OpTypes, WatchTypes DEF Restart, WatchType, OpType
  <2>2. \A w \in Watches : watch'[w].step \in {"none", "done"}
    BY <1>11 DEF Restart, WatchType, WatchState
  <2>3. Named'
    BY <1>11, <2>2 DEF Restart, Named, OpIdle
  <2>4. BootType' /\ LeftType'
    BY <1>11, SpendTypes DEF Restart, BootType, Kinds
  <2> QED
    BY <1>11, <2>1, <2>3, <2>4, Untouched DEF Restart
<1>12. CASE Boot
  <2>1. OpType' /\ Named' /\ WatchType'
    BY <1>12 DEF Boot, Recover, RecoverDone, procVars, OpType, Named, WatchType
  <2>2. Restored(pending.snap) \in Settings
    BY DEF NetType, PendingState, Restored, Settings
  <2>3. NetType'
    BY <1>12, <2>2 DEF Boot, Recover, RecoverDone, NetType, Cleared, NoPending, PendingState
  <2>4. BootType'
    BY <1>12 DEF Boot, Recover, RecoverDone, BootType
  <2>5. LeftType' /\ KeptType'
    BY <1>12, CallTypes, Untouched DEF Boot, Recover, RecoverDone
  <2> QED
    BY <2>1, <2>3, <2>4, <2>5
<1>13. CASE UNCHANGED vars
  BY <1>13, Untouched DEF vars, procVars, bootVars, OpType, Named
<1> QED
  BY <1>1, <1>2, <1>3, <1>4, <1>5, <1>6, <1>7, <1>8, <1>9, <1>10, <1>11, <1>12, <1>13
     DEF Next, Operator, Request

\* Every connection, thread and the pending file keep their types.
THEOREM TypeCorrect == Spec => []TypeOK
<1>1. TypeInv => TypeOK
  BY DEF TypeInv
<1> QED
  BY <1>1, InitTypes, StepTypes, PTL DEF Spec

(***************************************************************************)
(* At most one watchdog can still revert (netcfg._arm_revert): the step    *)
(* that starts a watchdog cancels the one that could be cancelled, and by  *)
(* the invariant there is no other one.                                    *)
(***************************************************************************)
THEOREM OneWatchdogArmed == Spec => []OneArmed
<1>1. Init => OneArmed
  BY DEF Init, OneArmed, NoWatch
<1>2. TypeOK /\ OneArmed /\ [Next]_vars => OneArmed'
  <2> SUFFICES ASSUME TypeOK, OneArmed, [Next]_vars PROVE OneArmed'
    OBVIOUS
  <2> USE DEF OneArmed
  <2>1. ASSUME UNCHANGED active,
               \A w \in Watches : watch'[w].step = "wait" /\ ~watch'[w].cancelled
                                  => watch[w].step = "wait" /\ ~watch[w].cancelled
        PROVE  OneArmed'
    BY <2>1
  <2>2. ASSUME NEW o \in Ops, Request(o) PROVE OneArmed'
    <3>1. CASE Arm(o)
      <4>1. \A w \in Watches : w # op[o].id =>
               watch'[w] = IF w = active THEN [watch[w] EXCEPT !.cancelled = TRUE] ELSE watch[w]
        BY <3>1 DEF Arm, ArmedOnly
      <4>2. \A w \in Watches : [watch[w] EXCEPT !.cancelled = TRUE].cancelled = TRUE
        BY DEF TypeOK, WatchType, WatchState
      <4> QED
        BY <3>1, <4>1, <4>2 DEF Arm
    <3>2. CASE ~Arm(o)
      BY <2>2, <2>1, <3>2 DEF Request, Read, Modify, Up, WritePending, ConfirmClear, SetDhcp
    <3> QED
      BY <3>1, <3>2
  <2>3. ASSUME NEW w \in Watches, Watchdog(w) PROVE OneArmed'
    <3>1. \E x \in {"restore", "clear", "done"} : watch' = [watch EXCEPT ![w].step = x]
      BY <2>3 DEF Watchdog, Deadline, Revert, RevertDone
    <3>2. \A v \in Watches : watch'[v].step = "wait" /\ ~watch'[v].cancelled
                             => watch[v].step = "wait" /\ ~watch[v].cancelled
      BY <3>1 DEF TypeOK, WatchType, WatchState
    <3> QED
      BY <2>1, <2>3, <3>2 DEF Watchdog, Deadline, Revert, RevertDone
  <2>4. ASSUME NEW o \in Ops, NEW c \in Cons \cup {None}, Confirm(o, c) PROVE OneArmed'
    <3>1. \A w \in Watches : watch'[w].step = "wait" /\ ~watch'[w].cancelled
                             => watch[w].step = "wait" /\ ~watch[w].cancelled
      BY <2>4 DEF Confirm, TypeOK, WatchType, WatchState
    <3> QED
      BY <2>1, <2>4, <3>1 DEF Confirm
  <2>5. CASE \E o \in Ops, c \in Cons, a \in Addrs : Ask(o, c, a)
    BY <2>5, <2>1 DEF Ask
  <2>6. CASE Restart
    <3>1. \A w \in Watches : watch'[w].step # "wait"
      BY <2>6 DEF Restart, TypeOK, WatchType, WatchState
    <3> QED
      BY <3>1
  <2>7. CASE Boot \/ UNCHANGED vars
    BY <2>7, <2>1 DEF Boot, Recover, RecoverDone, vars, procVars
  <2> QED
    BY <2>2, <2>3, <2>4, <2>5, <2>6, <2>7 DEF Next, Operator
<1> QED
  BY <1>1, <1>2, TypeCorrect, PTL DEF Spec

(***************************************************************************)
(* A confirmation that came in time holds (netcfg.confirm_static against   *)
(* _arm_revert and recover_pending), with one operator at a time. What     *)
(* could take a confirmed address away is a watchdog that may still        *)
(* revert, the pending file, or a change under way: none of them is about  *)
(* a connection with a confirmed address (NoUndo, Changing), and none of   *)
(* them is left when a confirmation in time puts its history on record     *)
(* (Confirming).                                                           *)
(***************************************************************************)
TheOperator   == CHOOSE p \in Ops : TRUE
MayRevert(w)  == watch[w].step = "restore" \/ (watch[w].step = "wait" /\ ~watch[w].cancelled)
Unkept(c)     == c \in Cons /\ kept[c] = None

Solo == \A o \in Ops : op[o].step # "idle" => o = TheOperator /\ boot = "up"

Confirming ==
    \A o \in Ops : op[o].step = "clear" /\ op[o].addr \in Addrs =>
        /\ active # 0 /\ watch[active].con \in Cons /\ ip[watch[active].con] = op[o].addr
        /\ \A w \in Watches : ~MayRevert(w)

NoUndo ==
    /\ \A w \in Watches : MayRevert(w) => Unkept(watch[w].con)
    /\ pending # NoPending => Unkept(pending.con)

Changing == \A o \in Ops : op[o].step \in {"up", "write", "arm"} => Unkept(op[o].con)
Stays    == \A c \in Cons : kept[c] # None => ip[c] = kept[c]
KeptInv  == left["together"] = 0 => Solo /\ Confirming /\ NoUndo /\ Changing /\ Stays

\* Whether requests may run together is a bound that nothing spends.
LEMMA TogetherStays == LeftType /\ [Next]_vars => left'["together"] = left["together"]
<1> SUFFICES ASSUME LeftType, [Next]_vars PROVE left'["together"] = left["together"]
  OBVIOUS
<1>1. ASSUME NEW k \in Kinds \ {"together"}, Spend(k) PROVE left'["together"] = left["together"]
  BY <1>1 DEF Spend, LeftType, Kinds
<1>2. Works => left'["together"] = left["together"]
  BY DEF Works
<1>3. \/ UNCHANGED left
      \/ Spend("apply") \/ Spend("restart") \/ Spend("read") \/ Spend("modify") \/ Spend("up")
      \/ Spend("revert") \/ Spend("boot") \/ Spend("dhcp")
  BY DEF Next, Operator, Ask, Confirm, Restart, Boot, Recover, RecoverDone, Request, Read, Modify, Up,
         WritePending, Arm, ConfirmClear, SetDhcp, Watchdog, Deadline, Revert, RevertDone, Works, vars
<1> QED
  BY <1>1, <1>3 DEF Kinds

LEMMA StepKept == TypeInv /\ OneArmed /\ KeptInv /\ [Next]_vars => KeptInv'
<1> SUFFICES ASSUME TypeInv, OneArmed, KeptInv, [Next]_vars, left'["together"] = 0
             PROVE  (Solo /\ Confirming /\ NoUndo /\ Changing /\ Stays)'
  BY DEF KeptInv
<1> USE DEF TypeInv, TypeOK
<1>a. left["together"] = 0
  BY TogetherStays
<1>b. Solo /\ Confirming /\ NoUndo /\ Changing /\ Stays
  BY <1>a DEF KeptInv
<1>c. \A o \in Ops : Free(o) => o = TheOperator
  BY <1>a DEF Free, TheOperator
\* With one operator, a request at work is the only one.
<1>d. \A o, p \in Ops : op[o].step # "idle" /\ op[p].step # "idle" => p = o
  BY <1>b DEF Solo
<1>1. ASSUME NEW o \in Ops, NEW c \in Cons, NEW a \in Addrs, Ask(o, c, a)
      PROVE  (Solo /\ Confirming /\ NoUndo /\ Changing /\ Stays)'
  <2>1. /\ op'[o].step = "read" /\ o = TheOperator /\ boot = "up"
        /\ \A p \in Ops : p # o => op'[p] = op[p]
    BY <1>1, <1>c DEF Ask, OpType
  <2> QED
    BY <1>1, <1>b, <2>1 DEF Ask, bootVars, Solo, Confirming, NoUndo, Changing, Stays, MayRevert, Unkept
<1>2. ASSUME NEW o \in Ops, Read(o) PROVE (Solo /\ Confirming /\ NoUndo /\ Changing /\ Stays)'
  <2>1. op[o].step = "read" /\ ip[op[o].con] \in Settings
    BY <1>2 DEF Read, Named, NetType
  <2>2. /\ op'[o].step \in {"set", "idle"}
        /\ \A p \in Ops : p # o => op'[p] = op[p]
    <3>1. CASE Finish(o)
      BY <3>1 DEF OpType, Finish, OpIdle
    <3>2. CASE Step(o, "set")
      BY <3>2 DEF OpType, OpState, Step
    <3>3. CASE op' = [op EXCEPT ![o] = Snapped(@, ip[op[o].con])]
      BY <3>3 DEF OpType, OpState, Snapped
    <3> QED
      BY <1>2, <3>1, <3>2, <3>3 DEF Read
  <2> QED
    BY <1>2, <1>b, <2>1, <2>2 DEF Read, bootVars, Solo, Confirming, NoUndo, Changing, Stays, MayRevert, Unkept
<1>3. ASSUME NEW o \in Ops, Modify(o) PROVE (Solo /\ Confirming /\ NoUndo /\ Changing /\ Stays)'
  <2>1. op[o].step = "set" /\ op[o].con \in Cons
    BY <1>3 DEF Modify, Named
  <2>2. CASE Finish(o) /\ UNCHANGED <<ip, kept>>
    <3>1. op'[o].step = "idle" /\ \A p \in Ops : p # o => op'[p] = op[p]
      BY <2>2 DEF Finish, OpType, OpIdle
    <3> QED
      BY <1>3, <1>b, <2>1, <2>2, <3>1 DEF Modify, bootVars, Solo, Confirming, NoUndo, Changing, Stays, MayRevert, Unkept
  <2>3. CASE /\ ip' = [ip EXCEPT ![op[o].con] = op[o].addr]
             /\ kept' = [kept EXCEPT ![op[o].con] = None]
             /\ Step(o, "up")
    <3>1. /\ op'[o].step = "up" /\ op'[o].con = op[o].con
          /\ \A p \in Ops : p # o => op'[p] = op[p]
      BY <2>3 DEF Step, OpType, OpState
    <3>2. \A p \in Ops : p # o => op'[p].step = "idle"
      BY <1>d, <2>1, <3>1
    <3>3. kept'[op[o].con] = None /\ \A c \in Cons : kept[c] = None => kept'[c] = None
      BY <2>1, <2>3 DEF KeptType
    <3>4. Stays'
      BY <1>b, <2>1, <2>3 DEF Stays, KeptType, NetType
    <3>5. Solo' /\ Confirming' /\ Changing'
      BY <1>3, <1>b, <2>1, <3>1, <3>2, <3>3 DEF Modify, bootVars, Solo, Confirming, Changing, Unkept
    <3>6. NoUndo'
      BY <1>3, <1>b, <3>3 DEF Modify, NoUndo, MayRevert, Unkept
    <3> QED
      BY <3>4, <3>5, <3>6
  <2> QED
    BY <1>3, <2>2, <2>3 DEF Modify
<1>4. ASSUME NEW o \in Ops, Up(o) PROVE (Solo /\ Confirming /\ NoUndo /\ Changing /\ Stays)'
  <2>1. /\ op[o].step = "up" /\ (op'[o].step = "idle" \/ (op'[o].step = "write" /\ op'[o].con = op[o].con))
        /\ \A p \in Ops : p # o => op'[p] = op[p]
    <3>1. CASE Finish(o)
      BY <1>4, <3>1 DEF Up, OpType, Finish, OpIdle
    <3>2. CASE Step(o, "write")
      BY <1>4, <3>2 DEF Up, OpType, OpState, Step
    <3> QED
      BY <1>4, <3>1, <3>2 DEF Up
  <2> QED
    BY <1>4, <1>b, <2>1 DEF Up, bootVars, Solo, Confirming, NoUndo, Changing, Stays, MayRevert, Unkept
<1>5. ASSUME NEW o \in Ops, WritePending(o) PROVE (Solo /\ Confirming /\ NoUndo /\ Changing /\ Stays)'
  <2>1. /\ op[o].step = "write" /\ op'[o].step = "arm" /\ op'[o].con = op[o].con
        /\ \A p \in Ops : p # o => op'[p] = op[p]
    BY <1>5 DEF WritePending, Step, OpType, OpState
  <2>2. pending'.con = op[o].con
    BY <1>5 DEF WritePending
  <2> QED
    BY <1>5, <1>b, <2>1, <2>2 DEF WritePending, bootVars, Solo, Confirming, NoUndo, Changing, Stays, MayRevert, Unkept
<1>6. ASSUME NEW o \in Ops, Arm(o) PROVE (Solo /\ Confirming /\ NoUndo /\ Changing /\ Stays)'
  <2>1. /\ op[o].step = "arm" /\ op'[o].step = "idle"
        /\ \A p \in Ops : p # o => op'[p] = op[p]
    BY <1>6 DEF Arm, Finish, OpType, OpIdle
  <2>2. \A p \in Ops : op'[p].step = "idle"
    BY <1>d, <2>1
  <2>3. \A w \in Watches : \/ watch'[w].con = op[o].con
                           \/ /\ watch'[w].con = watch[w].con /\ watch'[w].step = watch[w].step
                              /\ watch[w].cancelled => watch'[w].cancelled
    BY <1>6 DEF Arm, ArmedOnly, Started, WatchType, WatchState
  <2>4. NoUndo'
    BY <1>6, <1>b, <2>1, <2>3 DEF Arm, NoUndo, Changing, MayRevert, Unkept
  <2> QED
    BY <1>6, <1>b, <2>2, <2>4 DEF Arm, bootVars, Solo, Confirming, Changing, Stays
<1>7. ASSUME NEW o \in Ops, ConfirmClear(o) PROVE (Solo /\ Confirming /\ NoUndo /\ Changing /\ Stays)'
  <2>1. /\ op[o].step = "clear" /\ op'[o].step \in {"idle", "dhcp"}
        /\ \A p \in Ops : p # o => op'[p] = op[p]
    BY <1>7 DEF ConfirmClear, Finish, Step, OpType, OpState, OpIdle
  <2>2. \A p \in Ops : p # o => op'[p].step = "idle"
    BY <1>d, <2>1
  <2>3. Solo' /\ Confirming' /\ Changing'
    BY <1>7, <1>b, <2>1, <2>2 DEF ConfirmClear, bootVars, Solo, Confirming, Changing
  <2>4. CASE op[o].addr \in Addrs
    <3>1. /\ watch[active].con \in Cons /\ ip[watch[active].con] = op[o].addr
          /\ \A w \in Watches : ~MayRevert(w)
      BY <1>b, <2>1, <2>4 DEF Confirming
    <3>2. kept' = [kept EXCEPT ![watch[active].con] = op[o].addr] /\ UNCHANGED <<ip, watch>>
      BY <1>7, <2>4 DEF ConfirmClear
    <3>3. Stays'
      BY <1>b, <3>1, <3>2 DEF Stays, KeptType
    <3>4. NoUndo'
      BY <1>7, <3>1, <3>2 DEF ConfirmClear, NoUndo, MayRevert, Cleared
    <3> QED
      BY <2>3, <3>3, <3>4
  <2>5. CASE op[o].addr \notin Addrs
    <3>1. UNCHANGED <<ip, watch, kept>> /\ pending' = NoPending
      BY <1>7, <2>5 DEF ConfirmClear, Cleared
    <3> QED
      BY <1>b, <2>3, <3>1 DEF Stays, NoUndo, MayRevert, Unkept
  <2> QED
    BY <2>4, <2>5
<1>8. ASSUME NEW o \in Ops, SetDhcp(o) PROVE (Solo /\ Confirming /\ NoUndo /\ Changing /\ Stays)'
  <2>1. /\ op[o].step = "dhcp" /\ op'[o].step = "idle"
        /\ \A p \in Ops : p # o => op'[p] = op[p]
    BY <1>8 DEF SetDhcp, Finish, OpType, OpIdle
  <2>2. \A p \in Ops : op'[p].step = "idle"
    BY <1>d, <2>1
  <2>3. \A c \in Cons : kept[c] = None => kept'[c] = None
    BY <1>8 DEF SetDhcp, KeptType
  <2>4. NoUndo'
    BY <1>8, <1>b, <2>3 DEF SetDhcp, NoUndo, MayRevert, Unkept
  <2>5. Stays'
    BY <1>8, <1>b DEF SetDhcp, Stays, KeptType, NetType
  <2> QED
    BY <2>2, <2>4, <2>5 DEF Solo, Confirming, Changing
<1>9. ASSUME NEW o \in Ops, NEW c \in Cons \cup {None}, Confirm(o, c)
      PROVE  (Solo /\ Confirming /\ NoUndo /\ Changing /\ Stays)'
  <2> DEFINE addr == IF InTime /\ c = None THEN ip[watch[active].con] ELSE None
  <2>1. /\ op[o].step = "idle" /\ op'[o].step = "clear" /\ op'[o].addr = addr
        /\ \A p \in Ops : p # o => op'[p] = op[p]
        /\ o = TheOperator /\ boot = "up"
    BY <1>9, <1>c DEF Confirm, OpType
  <2>2. \A w \in Watches : /\ watch'[w].con = watch[w].con /\ watch'[w].step = watch[w].step
                           /\ watch[w].cancelled => watch'[w].cancelled
                           /\ w = active => watch'[w].cancelled
    <3>1. CASE active = 0
      BY <1>9, <3>1, BoundAssumption DEF Confirm, Watches
    <3>2. CASE active # 0
      BY <1>9, <3>2 DEF Confirm, WatchType, WatchState
    <3> QED
      BY <3>1, <3>2
  <2>3. Solo' /\ Changing' /\ Stays' /\ NoUndo'
    BY <1>9, <1>b, <2>1, <2>2 DEF Confirm, bootVars, Solo, Changing, Stays, NoUndo, MayRevert, Unkept
  <2>4. CASE InTime /\ c = None
    <3>1. active \in Watches /\ active # 0 /\ watch[active].con \in Cons
      BY <2>4 DEF InTime, WatchType, Named
    <3>2. \A w \in Watches : ~MayRevert(w)'
      BY <2>2, <2>4 DEF InTime, MayRevert, OneArmed
    <3>3. \A p \in Ops : op'[p].step = "clear" => p = o
      BY <1>b, <2>1 DEF Solo
    <3>4. watch'[active'].con = watch[active].con /\ UNCHANGED <<ip, active>>
      BY <1>9, <2>2, <3>1 DEF Confirm
    <3> QED
      BY <2>1, <2>3, <2>4, <3>1, <3>2, <3>3, <3>4 DEF Confirming
  <2>5. CASE ~(InTime /\ c = None)
    <3>1. \A p \in Ops : op'[p].step = "clear" => p = o
      BY <1>b, <2>1 DEF Solo
    <3>2. addr \notin Addrs
      BY <2>5, NamesAssumption
    <3> QED
      BY <2>1, <2>3, <3>1, <3>2 DEF Confirming
  <2> QED
    BY <2>4, <2>5
<1>10. ASSUME NEW w \in Watches, Watchdog(w) PROVE (Solo /\ Confirming /\ NoUndo /\ Changing /\ Stays)'
  <2>1. \A v \in Watches : /\ watch'[v].con = watch[v].con /\ watch'[v].cancelled = watch[v].cancelled
                           /\ v # w => watch'[v].step = watch[v].step
    BY <1>10 DEF Watchdog, Deadline, Revert, RevertDone, WatchType, WatchState
  <2>2. \A v \in Watches : MayRevert(v)' => MayRevert(v)
    BY <1>10, <2>1 DEF Watchdog, Deadline, Revert, RevertDone, MayRevert, WatchType, WatchState
  <2>3. Solo' /\ Changing'
    BY <1>10, <1>b DEF Watchdog, Deadline, Revert, RevertDone, bootVars, Solo, Changing, Unkept
  <2>4. NoUndo'
    BY <1>10, <1>b, <2>1, <2>2 DEF Watchdog, Deadline, Revert, RevertDone, NoUndo, Unkept, Cleared
  <2>5. CASE Revert(w)
    <3>1. MayRevert(w) /\ watch[w].con \in Cons /\ kept[watch[w].con] = None
      BY <1>b, <2>5 DEF Revert, MayRevert, NoUndo, Unkept
    <3>2. \A o \in Ops : ~(op[o].step = "clear" /\ op[o].addr \in Addrs)
      BY <1>b, <3>1 DEF Confirming
    <3>3. Confirming'
      BY <2>5, <3>2 DEF Revert, Confirming
    <3>4. Stays'
      BY <1>b, <2>5, <3>1 DEF Revert, Stays, NetType
    <3> QED
      BY <2>3, <2>4, <3>3, <3>4
  <2>6. CASE Deadline(w) \/ RevertDone(w)
    <3>1. UNCHANGED <<ip, active, op, kept>>
      BY <2>6 DEF Deadline, RevertDone
    <3>2. active # 0 => watch'[active].con = watch[active].con
      BY <2>1 DEF WatchType
    <3> QED
      BY <1>b, <2>2, <2>3, <2>4, <3>1, <3>2 DEF Confirming, Stays
  <2> QED
    BY <1>10, <2>5, <2>6 DEF Watchdog
<1>11. CASE Restart
  <2>1. \A o \in Ops : op'[o].step = "idle"
    BY <1>11 DEF Restart, OpIdle
  <2>2. \A w \in Watches : ~MayRevert(w)'
    BY <1>11 DEF Restart, MayRevert, WatchType, WatchState
  <2> QED
    BY <1>11, <1>b, <2>1, <2>2 DEF Restart, Solo, Confirming, NoUndo, Changing, Stays, Unkept
<1>12. CASE Boot
  <2>1. \A o \in Ops : op[o].step = "idle" /\ op'[o].step = "idle"
    BY <1>12, <1>b DEF Boot, Recover, RecoverDone, procVars, Solo
  <2>2. NoUndo'
    BY <1>12, <1>b DEF Boot, Recover, RecoverDone, procVars, NoUndo, MayRevert, Unkept, Cleared
  <2>3. Stays'
    BY <1>12, <1>b DEF Boot, Recover, RecoverDone, NoUndo, Unkept, Stays, NetType
  <2> QED
    BY <2>1, <2>2, <2>3 DEF Solo, Confirming, Changing
<1>13. CASE UNCHANGED vars
  BY <1>13, <1>b DEF vars, procVars, bootVars, Solo, Confirming, NoUndo, Changing, Stays, MayRevert, Unkept
<1> QED
  BY <1>1, <1>2, <1>3, <1>4, <1>5, <1>6, <1>7, <1>8, <1>9, <1>10, <1>11, <1>12, <1>13
     DEF Next, Operator, Request

\* Neither a deadline nor a restart takes an address away that was confirmed in time.
THEOREM ConfirmationHolds == Spec => []ConfirmedStays
<1>1. Init => KeptInv
  BY DEF Init, KeptInv, Solo, Confirming, NoUndo, Changing, Stays, MayRevert, NoWatch, OpIdle
<1>2. KeptInv => ConfirmedStays
  BY DEF KeptInv, Stays, ConfirmedStays
<1> QED
  BY <1>1, <1>2, InitTypes, StepTypes, StepKept, OneWatchdogArmed, PTL DEF Spec
=============================================================================
