------------------------- MODULE KumaFollow_proofs --------------------------
(***************************************************************************)
(* Proofs about KumaFollow, for every set of devices, every bound and      *)
(* every budget.                                                           *)
(***************************************************************************)
EXTENDS KumaFollow, TLAPS, WellFoundedInduction

(***************************************************************************)
(* Queued work always has a worker (monitoring.follow_kuma and the end of  *)
(* monitoring._drain): the invariant is inductive as it stands, because    *)
(* whoever queues starts a worker when there is none, and the worker ends  *)
(* only in the step that finds the queue empty.                            *)
(***************************************************************************)
THEOREM QueueAlwaysHasWorker == Spec => []QueueHasWorker
<1>1. Init => QueueHasWorker
  BY DEF Init, QueueHasWorker
<1>2. QueueHasWorker /\ [Next]_vars => QueueHasWorker'
  <2> SUFFICES ASSUME QueueHasWorker, [Next]_vars PROVE QueueHasWorker'
    OBVIOUS
  <2> USE DEF QueueHasWorker
  <2>1. CASE Worker
    BY <2>1 DEF Worker, Take, SyncRead, SyncApply, Plan, ToggleConnect, ToggleOne,
                ToggleRefused, NoteToggle, ListMarked, AddConnect, AddOne, StoreFailed,
                Store, StoreForgotten, Done, Save, noteVars
  <2>2. CASE Background
    BY <2>2 DEF Background, ForgetDrop, ForgetRemove, DeleteDoomed, noteVars, workerVars
  <2>3. CASE Time
    BY <2>3 DEF Time, SyncElapses, RetryElapses, workerVars
  <2>4. CASE Operator
    BY <2>4 DEF Operator, ForgetRead, Switch, Prune, Tidy, SaveSettings, Restore, TakeBackup,
                Restart, FollowKuma, noteVars, workerVars
  <2>5. CASE Scan
    BY <2>5 DEF Scan, Reconcile, Appear, Rekey, FollowKuma, noteVars, workerVars
  <2>6. CASE KumaSide
    BY <2>6 DEF KumaSide, KumaFails, KumaRecovers, UIDelete, UIToggle, noteVars, workerVars
  <2>7. CASE UNCHANGED vars
    BY <2>7 DEF vars, noteVars, workerVars
  <2> QED
    BY <2>1, <2>2, <2>3, <2>4, <2>5, <2>6, <2>7 DEF Next
<1> QED
  BY <1>1, <1>2, PTL DEF Spec

(***************************************************************************)
(* Types                                                                   *)
(***************************************************************************)
LEMMA MonRange ==
    /\ 0 \in 0..MaxMon /\ Mons \subseteq 0..MaxMon
    /\ \A m \in 0..MaxMon : m < MaxMon => m + 1 \in Mons
BY BoundAssumption DEF Mons

\* The values the actions write into entries, tasks and monitors have their types.
LEMMA EntryTypes ==
    /\ Gone \in Entry /\ Fresh \in Entry
    /\ \A e \in Entry, w \in {"none", "unset", "on", "off"} : [e EXCEPT !.watch = w] \in Entry
    /\ \A e \in Entry, p \in BOOLEAN : [e EXCEPT !.paused = p] \in Entry
    /\ \A s : \A e \in Entry, m \in 0..MaxMon : WithMonitor(e, m, s) \in Entry
    /\ \A e \in Entry : e.mid \in 0..MaxMon
<1> USE BoundAssumption DEF Entry
<1>1. Gone \in Entry
  BY DEF Gone
<1>2. \A e \in Entry, w \in {"none", "unset", "on", "off"} : [e EXCEPT !.watch = w] \in Entry
  OBVIOUS
<1>3. Fresh \in Entry
  BY <1>1, <1>2 DEF Fresh
<1>4. \A e \in Entry, p \in BOOLEAN : [e EXCEPT !.paused = p] \in Entry
  OBVIOUS
<1>5. \A s : \A e \in Entry, m \in 0..MaxMon : WithMonitor(e, m, s) \in Entry
  BY DEF WithMonitor
<1>6. \A e \in Entry : e.mid \in 0..MaxMon
  OBVIOUS
<1> QED
  BY <1>1, <1>2, <1>3, <1>4, <1>5, <1>6

LEMMA TaskTypes ==
    /\ NoTask \in Task
    /\ \A t \in Task, r \in {"todo", "ok", "gone", "down", "err", "adopt", "adoptPaused"} :
          [t EXCEPT !.res = r] \in Task
    /\ \A t \in Task, a \in Keys \cup {NoKey} : [t EXCEPT !.at = a] \in Task
    /\ \A t \in Task, m \in 0..MaxMon, r \in {"ok", "adopt", "adoptPaused"} :
          WithAnswer(t, m, r) \in Task
    /\ \A k \in {"resume", "pause", "create"}, m \in 0..MaxMon, a \in Keys :
          Todo(k, m, a) \in Task
    /\ \A t \in Task : t.mid \in 0..MaxMon /\ t.at \in Keys \cup {NoKey}
<1> USE BoundAssumption DEF Task
<1>1. NoTask \in Task
  BY DEF NoTask, Todo
<1>2. \A t \in Task, r \in {"todo", "ok", "gone", "down", "err", "adopt", "adoptPaused"} :
          [t EXCEPT !.res = r] \in Task
  OBVIOUS
<1>3. \A t \in Task, a \in Keys \cup {NoKey} : [t EXCEPT !.at = a] \in Task
  OBVIOUS
<1>4. \A t \in Task, m \in 0..MaxMon, r \in {"ok", "adopt", "adoptPaused"} :
          WithAnswer(t, m, r) \in Task
  BY DEF WithAnswer
<1>5. \A k \in {"resume", "pause", "create"}, m \in 0..MaxMon, a \in Keys :
          Todo(k, m, a) \in Task
  BY DEF Todo
<1>6. \A t \in Task : t.mid \in 0..MaxMon /\ t.at \in Keys \cup {NoKey}
  OBVIOUS
<1> QED
  BY <1>1, <1>2, <1>3, <1>4, <1>5, <1>6

LEMMA AnswerTypes ==
    ASSUME WorkerType, NEW k, Answer(k, "ok") \/ Answer(k, "gone") \/ Answer(k, "err")
    PROVE  task' \in [Keys -> Task]
<1>1. \A t \in Task, r \in {"ok", "gone", "err"} : [t EXCEPT !.res = r] \in Task
  BY DEF Task
<1>2. \A f \in [Keys -> Task], r \in {"ok", "gone", "err"} : \A j :
         [f EXCEPT ![j] = [f[j] EXCEPT !.res = r]] \in [Keys -> Task]
  BY <1>1
<1>3. \E r \in {"ok", "gone", "err"} : task' = [task EXCEPT ![k] = [task[k] EXCEPT !.res = r]]
  BY DEF Answer, WorkerType
<1> QED
  BY <1>2, <1>3, SMTT(30) DEF WorkerType

LEMMA TaskPut ==
    ASSUME WorkerType, NEW k, NEW t \in Task PROVE [task EXCEPT ![k] = t] \in [Keys -> Task]
BY DEF WorkerType

\* A monitor noted in one entry leaves a well typed registry.
LEMMA NotedTypes ==
    ASSUME reg \in [Keys -> Entry], NEW c \in Keys, NEW m \in 0..MaxMon, NEW s
    PROVE  [reg EXCEPT ![c] = WithMonitor(@, m, s)] \in [Keys -> Entry]
<1>1. WithMonitor(reg[c], m, s) \in Entry
  BY EntryTypes
<1> QED
  BY <1>1

LEMMA MonitorTypes ==
    /\ NoMonitor \in Monitor
    /\ \A k \in Keys : NewMonitor(k) \in Monitor
    /\ \A f \in [Mons -> Monitor], b \in BOOLEAN : \A m :
          [f EXCEPT ![m].active = b] \in [Mons -> Monitor]
    /\ \A f \in [Mons -> Monitor] : \A m :
          [f EXCEPT ![m].there = FALSE, ![m].active = FALSE] \in [Mons -> Monitor]
    /\ \A x \in Monitor : x.there \in BOOLEAN /\ x.active \in BOOLEAN
<1> USE DEF Monitor
<1>1. NoMonitor \in Monitor /\ \A k \in Keys : NewMonitor(k) \in Monitor
  BY DEF NoMonitor, NewMonitor
<1>2. \A f \in [Mons -> Monitor], b \in BOOLEAN : \A m : [f EXCEPT ![m].active = b] \in [Mons -> Monitor]
  OBVIOUS
<1>3. \A f \in [Mons -> Monitor] : \A m :
         [f EXCEPT ![m].there = FALSE, ![m].active = FALSE] \in [Mons -> Monitor]
  OBVIOUS
<1>4. \A x \in Monitor : x.there \in BOOLEAN /\ x.active \in BOOLEAN
  OBVIOUS
<1> QED
  BY <1>1, <1>2, <1>3, <1>4

LEMMA NeedTypes == \A r, k : Need(r, k) \in {"none", "resume", "pause", "create"}
BY DEF Need

\* The parts of TypeOK an action leaves alone.
LEMMA Untouched ==
    /\ RegType /\ UNCHANGED regVars => RegType'
    /\ NoteType /\ UNCHANGED noteVars => NoteType'
    /\ WorkerType /\ UNCHANGED workerVars => WorkerType'
    /\ OpType /\ UNCHANGED opVars => OpType'
    /\ KumaType /\ UNCHANGED kumaVars => KumaType'
    /\ LeftType /\ UNCHANGED left => LeftType'
BY DEF RegType, NoteType, WorkerType, OpType, KumaType, LeftType,
       regVars, noteVars, workerVars, opVars, kumaVars

LEMMA SpendTypes == ASSUME LeftType, NEW kind \in Kinds, Spend(kind) PROVE LeftType'
BY DEF LeftType, Spend

\* A call that works, fails or is missed leaves the budget well typed.
LEMMA CallTypes ==
    ASSUME LeftType, CallWorks \/ CallMissed \/ CallFails \/ ListRead \/ ListMissing
    PROVE  LeftType'
BY SpendTypes, Untouched DEF CallWorks, CallMissed, CallFails, ListRead, ListMissing, Kinds

LEMMA DeprovisionTypes ==
    ASSUME TypeOK, NEW m, Deprovision(m)
    PROVE  kuma' \in [Mons -> Monitor] /\ LeftType'
<1>1. LeftType'
  BY CallTypes DEF TypeOK, Deprovision
<1>2. Deleted(m) \in [Mons -> Monitor] /\ kuma \in [Mons -> Monitor]
  BY MonitorTypes DEF TypeOK, KumaType, Deleted
<1> QED
  BY <1>1, <1>2 DEF Deprovision

LEMMA FollowTypes ==
    ASSUME TypeOK, NEW K \in SUBSET Keys, NEW b \in BOOLEAN, FollowKuma(K, b)
    PROVE  pending' \in SUBSET Keys /\ wantSync' \in BOOLEAN /\ wpc' \in WorkerSteps
BY DEF TypeOK, NoteType, WorkerType, FollowKuma, WorkerSteps

\* The registry without some entries, and the tasks that lost theirs.
LEMMA DropTypes ==
    ASSUME TypeOK, NEW K
    PROVE  Dropped(K) \in [Keys -> Entry] /\ Unlinked(K) \in [Keys -> Task]
BY EntryTypes, TaskTypes DEF TypeOK, RegType, WorkerType, Dropped, Unlinked

\* A monitor that was found by its marker is one of Kuma's.
LEMMA MarkedTypes == \A l, r, k : Marked(l, r, k) \subseteq Mons
BY DEF Marked, First

THEOREM TypeCorrect == Spec => []TypeOK
<1>1. Init => TypeOK
  <2> SUFFICES ASSUME Init PROVE TypeOK
    OBVIOUS
  <2>1. RegType
    BY EntryTypes DEF Init, RegType
  <2>2. NoteType
    BY DEF Init, NoteType
  <2>3. WorkerType
    BY TaskTypes DEF Init, WorkerType, WorkerSteps, ListStates
  <2>4. OpType
    BY BoundAssumption DEF Init, OpType, ForgetIdle, ForgetState
  <2>5. KumaType
    BY MonitorTypes, BoundAssumption DEF Init, KumaType
  <2>6. LeftType
    BY BoundAssumption DEF Init, LeftType
  <2> QED
    BY <2>1, <2>2, <2>3, <2>4, <2>5, <2>6 DEF TypeOK
<1>2. TypeOK /\ [Next]_vars => TypeOK'
  <2> SUFFICES ASSUME TypeOK, [Next]_vars PROVE TypeOK'
    OBVIOUS
  <2> USE DEF TypeOK
  <2>1. CASE Take
    <3>1. NoteType' /\ WorkerType'
      BY <2>1 DEF Take, NoteType, WorkerType, WorkerSteps
    <3> QED
      BY <2>1, <3>1, Untouched DEF Take
  <2>2. CASE SyncRead
    <3>1. NoteType'
      BY <2>2 DEF SyncRead, NoteType, NoteKuma
    <3>2. WorkerType'
      <4>1. Listed \in [Mons -> ListStates]
        BY DEF Listed, ListStates
      <4> QED
        BY <2>2, <4>1 DEF SyncRead, WorkerType, WorkerSteps
    <3>3. LeftType'
      BY <2>2, CallTypes, Untouched DEF SyncRead
    <3> QED
      BY <2>2, <3>1, <3>2, <3>3, Untouched DEF SyncRead
  <2>3. CASE SyncApply
    <3>1. Corrected \in [Keys -> Entry]
      BY EntryTypes, BoundAssumption DEF Corrected, RegType
    <3>2. AdoptedBySync(Corrected) \in [Keys -> Entry]
      <4>1. ASSUME NEW r \in [Keys -> Entry], NEW k \in Keys, Marked(wlist, r, k) # {},
                   NEW s
            PROVE  WithMonitor(r[k], CHOOSE m \in Marked(wlist, r, k) : TRUE, s) \in Entry
        <5>1. (CHOOSE m \in Marked(wlist, r, k) : TRUE) \in 0..MaxMon
          BY <4>1, MarkedTypes, BoundAssumption DEF Mons
        <5> QED
          BY <5>1, EntryTypes
      <4>2. ASSUME NEW r \in [Keys -> Entry] PROVE AdoptedBySync(r) \in [Keys -> Entry]
        BY <4>1 DEF AdoptedBySync
      <4> QED
        BY <3>1, <4>2
    <3>3. RegType'
      BY <2>3, <3>2 DEF SyncApply, RegType
    <3>4. NoteType'
      BY <2>3 DEF SyncApply, NoteType, NoteKuma
    <3>5. WorkerType'
      BY <2>3 DEF SyncApply, WorkerType, WorkerSteps, ListStates, NoList, OutOfStep
    <3> QED
      BY <2>3, <3>3, <3>4, <3>5, Untouched DEF SyncApply
  <2>4. CASE Plan
    <3>1. task' \in [Keys -> Task]
      <4>1. ASSUME NEW k \in Keys, Need(reg, k) # "none"
            PROVE  Todo(Need(reg, k), reg[k].mid, k) \in Task
        BY <4>1, TaskTypes, EntryTypes, NeedTypes DEF RegType
      <4> QED
        BY <2>4, <4>1, TaskTypes DEF Plan, WorkerType
    <3>2. WorkerType' /\ NoteType'
      BY <2>4, <3>1 DEF Plan, WorkerType, NoteType, WorkerSteps
    <3> QED
      BY <2>4, <3>2, Untouched DEF Plan
  <2>5. CASE ToggleConnect
    <3>1. task' \in [Keys -> Task]
      BY <2>5, TaskTypes DEF ToggleConnect, WorkerType
    <3>2. WorkerType'
      BY <2>5, <3>1 DEF ToggleConnect, WorkerType, WorkerSteps
    <3> QED
      BY <2>5, <3>2, Untouched DEF ToggleConnect
  <2>6. ASSUME NEW k \in Keys, ToggleOne(k) PROVE TypeOK'
    <3>1. task' \in [Keys -> Task]
      <4>1. Answer(k, "ok") \/ Answer(k, "gone") \/ Answer(k, "err")
        BY <2>6 DEF ToggleOne
      <4> QED
        BY <4>1, AnswerTypes
    <3>2. WorkerType'
      BY <2>6, <3>1 DEF ToggleOne, WorkerType, WorkerSteps
    <3>3. LeftType'
      BY <2>6, CallTypes DEF ToggleOne
    <3>4. kuma' \in [Mons -> Monitor]
      <4>1. CASE kuma' = kuma
        BY <4>1 DEF KumaType
      <4>2. \A b \in BOOLEAN : [kuma EXCEPT ![task[k].mid].active = b] \in [Mons -> Monitor]
        BY MonitorTypes DEF KumaType
      <4> QED
        BY <2>6, <4>1, <4>2 DEF ToggleOne
    <3>5. KumaType'
      BY <2>6, <3>4 DEF ToggleOne, KumaType
    <3> QED
      BY <2>6, <3>2, <3>3, <3>5, Untouched DEF ToggleOne
  <2>7. CASE ToggleRefused
    <3>1. WorkerType' /\ NoteType'
      BY <2>7, TaskTypes DEF ToggleRefused, WorkerType, NoteType, NoteKuma, WorkerSteps
    <3> QED
      BY <2>7, <3>1, Untouched DEF ToggleRefused
  <2>8. ASSUME NEW k \in Keys, NoteToggle(k) PROVE TypeOK'
    <3>1. Current(k) \in Keys \cup {NoKey}
      BY TaskTypes DEF Current, WorkerType
    <3>2. reg' \in [Keys -> Entry]
      <4>2. CASE Current(k) = NoKey
        BY <2>8, <4>2 DEF NoteToggle, RegType
      <4>3. CASE Current(k) \in Keys
        <5> DEFINE c == Current(k)
        <5>1. \/ reg' = reg
              \/ reg' = [reg EXCEPT ![c] = WithMonitor(@, 0, "absent")]
              \/ reg' = [reg EXCEPT ![c] = WithMonitor(@, reg[c].mid, "paused")]
              \/ reg' = [reg EXCEPT ![c] = WithMonitor(@, reg[c].mid, "active")]
          BY <2>8 DEF NoteToggle
        <5>2. c \in Keys
          BY <4>3
        <5>3. reg[c].mid \in 0..MaxMon /\ 0 \in 0..MaxMon /\ reg \in [Keys -> Entry]
          BY <5>2, EntryTypes, BoundAssumption DEF RegType
        <5> HIDE DEF c
        <5> QED
          BY <5>1, <5>2, <5>3, NotedTypes
      <4> QED
        BY <3>1, <4>2, <4>3
    <3>3. task' \in [Keys -> Task]
      <4>1. \/ task' = [task EXCEPT ![k] = NoTask]
            \/ /\ Current(k) \in Keys
               /\ task' = [task EXCEPT ![k] = Todo("create", 0, Current(k))]
        BY <2>8, <3>1 DEF NoteToggle
      <4>2. Current(k) \in Keys => Todo("create", 0, Current(k)) \in Task
        BY TaskTypes, MonRange
      <4>3. task' \in [Keys -> Task]
        <5>1. \A t \in Task : [task EXCEPT ![k] = t] \in [Keys -> Task]
          BY TaskPut
        <5> QED
          BY <4>1, <4>2, <5>1, TaskTypes
      <4> QED
        BY <4>3
    <3>4. WorkerType' /\ NoteType'
      BY <2>8, <3>3 DEF NoteToggle, WorkerType, NoteType, NoteKuma, WorkerSteps
    <3> QED
      BY <2>8, <3>2, <3>4, Untouched DEF NoteToggle, RegType
  <2>9. CASE ListMarked
    <3>1. task' \in [Keys -> Task]
      <4>1. ASSUME NEW m \in Mons, NEW j \in Keys, NEW p \in BOOLEAN
            PROVE  WithAnswer(task[j], m, IF p THEN "adopt" ELSE "adoptPaused") \in Task
        BY TaskTypes, MonRange DEF WorkerType
      <4>2. ASSUME NEW j \in Keys, Marked(Listed, reg, j) # {}
            PROVE  LET mon == CHOOSE m \in Marked(Listed, reg, j) : TRUE IN
                   WithAnswer(task[j], mon, IF kuma[mon].active THEN "adopt" ELSE "adoptPaused") \in Task
        <5> DEFINE mon == CHOOSE m \in Marked(Listed, reg, j) : TRUE
        <5>1. mon \in Mons
          BY <4>2, MarkedTypes
        <5> HIDE DEF mon
        <5>2. WithAnswer(task[j], mon, IF kuma[mon].active THEN "adopt" ELSE "adoptPaused") \in Task
          BY <4>1, <5>1, MonitorTypes DEF KumaType
        <5> QED
          BY <5>2 DEF mon
      <4>3. CASE task' = [j \in Keys |-> NoTask]
        BY <4>3, TaskTypes
      <4>4. CASE ListRead
        BY <2>9, <4>2, <4>3, <4>4, TaskTypes DEF ListMarked, WorkerType
      <4> QED
        BY <2>9, <4>3, <4>4 DEF ListMarked
    <3>2. WorkerType' /\ NoteType'
      BY <2>9, <3>1 DEF ListMarked, WorkerType, NoteType, NoteKuma, WorkerSteps
    <3>3. LeftType'
      BY <2>9, CallTypes DEF ListMarked
    <3> QED
      BY <2>9, <3>2, <3>3, Untouched DEF ListMarked
  <2>10. CASE AddConnect
    <3>1. task' \in [Keys -> Task]
      BY <2>10, TaskTypes DEF AddConnect, WorkerType
    <3>2. WorkerType'
      BY <2>10, <3>1 DEF AddConnect, WorkerType, WorkerSteps
    <3> QED
      BY <2>10, <3>2, Untouched DEF AddConnect
  <2>11. ASSUME NEW k \in Keys, AddOne(k) PROVE TypeOK'
    <3>1. task' \in [Keys -> Task]
      <4>1. \/ Answer(k, "err")
            \/ made < MaxMon /\ task' = [task EXCEPT ![k] = WithAnswer(@, made + 1, "ok")]
        BY <2>11 DEF AddOne
      <4>2. made < MaxMon => WithAnswer(task[k], made + 1, "ok") \in Task
        BY TaskTypes, MonRange DEF WorkerType, KumaType
      <4> QED
        BY <4>1, <4>2, AnswerTypes, TaskPut
    <3>2. WorkerType'
      BY <2>11, <3>1 DEF AddOne, WorkerType, WorkerSteps
    <3>3. LeftType'
      BY <2>11, CallTypes DEF AddOne
    <3>4. kuma' \in [Mons -> Monitor] /\ made' \in 0..MaxMon
      <4>1. CASE UNCHANGED <<kuma, made>>
        BY <4>1 DEF KumaType
      <4>2. CASE /\ made < MaxMon /\ made' = made + 1
                 /\ kuma' = [kuma EXCEPT ![made + 1] = NewMonitor(k)]
        BY <4>2, MonitorTypes, MonRange DEF KumaType
      <4> QED
        BY <2>11, <4>1, <4>2 DEF AddOne
    <3>5. KumaType'
      BY <2>11, <3>4 DEF AddOne, KumaType
    <3> QED
      BY <2>11, <3>2, <3>3, <3>5, Untouched DEF AddOne
  <2>12. ASSUME NEW k \in Keys, StoreFailed(k) PROVE TypeOK'
    <3>1. WorkerType' /\ NoteType'
      BY <2>12, TaskTypes, TaskPut
         DEF StoreFailed, Done, WorkerType, NoteType, NoteKuma, WorkerSteps
    <3> QED
      BY <2>12, <3>1, Untouched DEF StoreFailed
  <2>13. ASSUME NEW k \in Keys, Store(k) PROVE TypeOK'
    <3>1. reg' \in [Keys -> Entry]
      <4>1. Current(k) \in Keys
        BY <2>13, TaskTypes DEF Current, Store, WorkerType
      <4>2. task[k].mid \in 0..MaxMon /\ reg \in [Keys -> Entry]
        BY TaskTypes DEF WorkerType, RegType
      <4> QED
        BY <2>13, <4>1, <4>2, NotedTypes DEF Store
    <3>2. WorkerType' /\ NoteType'
      BY <2>13, TaskTypes, TaskPut DEF Store, Done, WorkerType, NoteType, WorkerSteps
    <3> QED
      BY <2>13, <3>1, <3>2, Untouched DEF Store, RegType
  <2>14. ASSUME NEW k \in Keys, StoreForgotten(k) PROVE TypeOK'
    <3>1. WorkerType'
      BY <2>14, TaskTypes, TaskPut DEF StoreForgotten, Done, WorkerType, WorkerSteps
    <3>2. KumaType' /\ LeftType'
      BY <2>14, DeprovisionTypes DEF StoreForgotten, KumaType
    <3> QED
      BY <2>14, <3>1, <3>2, Untouched DEF StoreForgotten
  <2>15. CASE Save
    <3>1. RegType' /\ WorkerType'
      BY <2>15 DEF Save, RegType, WorkerType, WorkerSteps
    <3> QED
      BY <2>15, <3>1, Untouched DEF Save
  <2>16. CASE ForgetDrop
    <3>1. OpType'
      BY <2>16 DEF ForgetDrop, OpType, ForgetState
    <3>2. KumaType' /\ LeftType'
      BY <2>16, DeprovisionTypes DEF ForgetDrop, KumaType
    <3> QED
      BY <2>16, <3>1, <3>2, Untouched DEF ForgetDrop
  <2>17. CASE ForgetRemove
    <3>1. RegType' /\ WorkerType'
      BY <2>17, DropTypes DEF ForgetRemove, RegType, WorkerType
    <3>2. OpType'
      BY <2>17, BoundAssumption DEF ForgetRemove, OpType, ForgetIdle, ForgetState
    <3> QED
      BY <2>17, <3>1, <3>2, Untouched DEF ForgetRemove
  <2>18. ASSUME NEW m \in Mons, DeleteDoomed(m) PROVE TypeOK'
    <3>1. OpType'
      BY <2>18 DEF DeleteDoomed, OpType
    <3>2. KumaType' /\ LeftType'
      BY <2>18, DeprovisionTypes DEF DeleteDoomed, KumaType
    <3> QED
      BY <2>18, <3>1, <3>2, Untouched DEF DeleteDoomed
  <2>19. CASE SyncElapses
    <3>1. NoteType'
      BY <2>19 DEF SyncElapses, NoteType
    <3> QED
      BY <2>19, <3>1, Untouched DEF SyncElapses
  <2>20. ASSUME NEW k \in Keys, RetryElapses(k) PROVE TypeOK'
    <3>1. NoteType'
      BY <2>20 DEF RetryElapses, NoteType
    <3> QED
      BY <2>20, <3>1, Untouched DEF RetryElapses
  <2>21. ASSUME NEW k \in Keys, ForgetRead(k) PROVE TypeOK'
    <3>1. OpType'
      BY <2>21, EntryTypes DEF ForgetRead, OpType, ForgetState, RegType
    <3>2. LeftType'
      BY <2>21, SpendTypes DEF ForgetRead, Kinds
    <3> QED
      BY <2>21, <3>1, <3>2, Untouched DEF ForgetRead
  <2>22. ASSUME NEW k \in Keys, NEW want \in BOOLEAN, Switch(k, want) PROVE TypeOK'
    <3>1. RegType'
      <4>1. \A w \in {"on", "off"} : [reg EXCEPT ![k].watch = w] \in [Keys -> Entry]
        BY DEF RegType, Entry
      <4> QED
        BY <2>22, <4>1 DEF Switch, RegType
    <3>2. LeftType'
      BY <2>22, SpendTypes DEF Switch, Kinds
    <3>3. NoteType' /\ WorkerType'
      BY <2>22, FollowTypes DEF Switch, NoteType, WorkerType
    <3> QED
      BY <2>22, <3>1, <3>2, <3>3, Untouched DEF Switch
  <2>23. ASSUME NEW victims \in SUBSET live, Prune(victims) PROVE TypeOK'
    <3>1. RegType' /\ WorkerType'
      BY <2>23, DropTypes DEF Prune, RegType, WorkerType
    <3>2. Monitors(victims) \subseteq Mons
      BY EntryTypes DEF RegType, Monitors, Mons
    <3>3. OpType'
      BY <2>23, <3>2 DEF Prune, OpType
    <3>4. LeftType'
      BY <2>23, SpendTypes DEF Prune, Kinds
    <3> QED
      BY <2>23, <3>1, <3>3, <3>4, Untouched DEF Prune
  <2>24. ASSUME NEW picked \in SUBSET There, Tidy(picked) PROVE TypeOK'
    <3>1. OpType'
      BY <2>24 DEF Tidy, OpType, There
    <3>2. LeftType'
      BY <2>24, SpendTypes DEF Tidy, Kinds
    <3> QED
      BY <2>24, <3>1, <3>2, Untouched DEF Tidy
  <2>25. ASSUME NEW b \in BOOLEAN, SaveSettings(b) PROVE TypeOK'
    <3>1. OpType'
      BY <2>25 DEF SaveSettings, OpType
    <3>2. LeftType'
      BY <2>25, SpendTypes DEF SaveSettings, Kinds
    <3>3. OutOfStep(reg) \in SUBSET Keys
      BY DEF OutOfStep
    <3>4. NoteType' /\ WorkerType'
      BY <2>25, <3>3, FollowTypes DEF SaveSettings, NoteType, WorkerType
    <3> QED
      BY <2>25, <3>1, <3>2, <3>4, Untouched DEF SaveSettings
  <2>26. ASSUME NEW older \in BOOLEAN, Restore(older) PROVE TypeOK'
    <3>1. Seeded(bak) \in [Keys -> Entry]
      BY EntryTypes DEF Seeded, RegType
    <3>2. RegType'
      BY <2>26, <3>1 DEF Restore, RegType
    <3>3. LeftType'
      BY <2>26, SpendTypes DEF Restore, Kinds
    <3>4. NoteType' /\ WorkerType'
      BY <2>26, FollowTypes, DropTypes DEF Restore, NoteType, WorkerType
    <3> QED
      BY <2>26, <3>2, <3>3, <3>4, Untouched DEF Restore
  <2>27. CASE TakeBackup
    <3>1. RegType'
      BY <2>27 DEF TakeBackup, RegType
    <3>2. LeftType'
      BY <2>27, SpendTypes DEF TakeBackup, Kinds
    <3> QED
      BY <2>27, <3>1, <3>2, Untouched DEF TakeBackup
  <2>28. CASE Restart
    <3>1. RegType' /\ NoteType'
      BY <2>28 DEF Restart, RegType, NoteType
    <3>2. WorkerType'
      BY <2>28, TaskTypes DEF Restart, WorkerType, WorkerSteps, ListStates
    <3>3. OpType'
      BY <2>28, MonRange DEF Restart, OpType, ForgetIdle, ForgetState
    <3>4. LeftType'
      BY <2>28, SpendTypes DEF Restart, Kinds
    <3> QED
      BY <2>28, <3>1, <3>2, <3>3, <3>4, Untouched DEF Restart
  <2>29. CASE Reconcile
    <3>1. NoteType' /\ WorkerType'
      BY <2>29, FollowTypes DEF Reconcile, NoteType, WorkerType, OutOfStep
    <3> QED
      BY <2>29, <3>1, Untouched DEF Reconcile
  <2>30. ASSUME NEW k \in Keys, Appear(k) PROVE TypeOK'
    <3>1. RegType'
      BY <2>30, EntryTypes DEF Appear, RegType
    <3>2. LeftType'
      BY <2>30, SpendTypes DEF Appear, Kinds
    <3> QED
      BY <2>30, <3>1, <3>2, Untouched DEF Appear
  <2>31. ASSUME NEW old \in Keys, NEW new \in Keys, Rekey(old, new) PROVE TypeOK'
    <3>1. RegType'
      <4>1. [reg EXCEPT ![new] = reg[old], ![old] = Gone] \in [Keys -> Entry]
        BY EntryTypes DEF RegType
      <4> QED
        BY <2>31, <4>1 DEF Rekey, RegType
    <3>2. WorkerType'
      <4>1. ASSUME NEW k \in Keys PROVE [task[k] EXCEPT !.at = new] \in Task
        BY TaskTypes DEF WorkerType
      <4> QED
        BY <2>31, <4>1 DEF Rekey, WorkerType
    <3>3. LeftType'
      BY <2>31, SpendTypes DEF Rekey, Kinds
    <3> QED
      BY <2>31, <3>1, <3>2, <3>3, Untouched DEF Rekey
  <2>32. CASE KumaFails \/ KumaRecovers
    <3>1. KumaType'
      BY <2>32 DEF KumaFails, KumaRecovers, KumaType
    <3>2. LeftType'
      BY <2>32, SpendTypes, Untouched DEF KumaFails, KumaRecovers, Kinds
    <3> QED
      BY <2>32, <3>1, <3>2, Untouched DEF KumaFails, KumaRecovers
  <2>33. ASSUME NEW m \in Mons, UIDelete(m) \/ UIToggle(m) PROVE TypeOK'
    <3>1. Deleted(m) \in [Mons -> Monitor]
      BY MonitorTypes DEF KumaType, Deleted
    <3>2. [kuma EXCEPT ![m].active = ~@] \in [Mons -> Monitor]
      BY DEF KumaType, Monitor
    <3>3. KumaType'
      BY <2>33, <3>1, <3>2 DEF UIDelete, UIToggle, KumaType
    <3>4. LeftType'
      BY <2>33, SpendTypes DEF UIDelete, UIToggle, Kinds
    <3> QED
      BY <2>33, <3>3, <3>4, Untouched DEF UIDelete, UIToggle
  <2>34. CASE UNCHANGED vars
    BY <2>34, Untouched DEF vars
  <2>35. CASE Worker
    BY <2>1, <2>2, <2>3, <2>4, <2>5, <2>6, <2>7, <2>8, <2>9, <2>10, <2>11, <2>12, <2>13,
       <2>14, <2>15, <2>35 DEF Worker
  <2>36. CASE Background \/ Time
    BY <2>16, <2>17, <2>18, <2>19, <2>20, <2>36 DEF Background, Time
  <2>37. CASE Operator
    BY <2>21, <2>22, <2>23, <2>24, <2>25, <2>26, <2>27, <2>28, <2>37 DEF Operator
  <2>38. CASE Scan \/ KumaSide
    BY RekeysAssumption, <2>29, <2>30, <2>31, <2>32, <2>33, <2>38 DEF Scan, KumaSide
  <2> QED
    BY <2>34, <2>35, <2>36, <2>37, <2>38 DEF Next
<1> QED
  BY <1>1, <1>2, PTL DEF Spec

(***************************************************************************)
(* Quick on/off clicks (StaleTaskRequeued). By itself it is not inductive: *)
(* the worker may only empty the queue while it is at work on nothing      *)
(* (TaskPhase), and another device's entry must not come to sit under the  *)
(* key of a task (TaskLinked, TaskMoved). TaskMeant is the property,       *)
(* strengthened: what is not queued again still agrees with the switch.    *)
(***************************************************************************)
TaskPhase ==
    /\ wpc \in {"none", "take", "sync", "synced", "apply", "save"} =>
           \A k \in Keys : task[k].kind = "none"
    /\ wpc \in {"list", "add", "adding", "store"} =>
           \A k \in Keys : task[k].kind \in {"none", "create"}

TaskLinked == \A k \in Keys : task[k].at \in Keys => Known(task[k].at)

TaskMoved == \A k \in Keys : task[k].at \in {NoKey, k} \/ <<k, task[k].at>> \in Rekeys

TaskMeant ==
    \A k \in Keys : task[k].at = k =>
        /\ task[k].kind = "pause"  => reg[k].watch = "off" \/ k \in pending
        /\ task[k].kind = "resume" => reg[k].watch = "on" \/ k \in pending

TaskInv == TaskPhase /\ TaskLinked /\ TaskMoved /\ TaskMeant

LEMMA TaskInvInit == Init => TaskInv
BY KeysAssumption DEF Init, TaskInv, TaskPhase, TaskLinked, TaskMoved, TaskMeant, NoTask, Todo

\* Steps that leave the tasks and the switches alone and only add to the queue.
LEMMA TasksStill ==
    ASSUME TaskInv, UNCHANGED task, pending \subseteq pending',
           \A k \in Keys : reg'[k].watch = reg[k].watch,
           wpc' = wpc \/ (wpc = "none" /\ wpc' = "take")
    PROVE  TaskInv'
<1>1. TaskPhase'
  BY DEF TaskInv, TaskPhase
<1>2. TaskLinked' /\ TaskMoved' /\ TaskMeant'
  BY DEF TaskInv, TaskLinked, TaskMoved, TaskMeant, Known
<1> QED
  BY <1>1, <1>2 DEF TaskInv

\* No task is under way: the rest of the invariant asks for nothing but the phase.
LEMMA NoTasks ==
    ASSUME TypeOK', \A k \in Keys : task'[k] = NoTask,
           wpc' \in {"none", "take", "sync", "synced", "apply", "save"}
    PROVE  TaskInv'
<1>1. \A k \in Keys : task'[k].kind = "none" /\ task'[k].at = NoKey
  BY DEF NoTask, Todo
<1> QED
  BY <1>1, KeysAssumption DEF TaskInv, TaskPhase, TaskLinked, TaskMoved, TaskMeant

\* Entries leave the registry, and with them the links of the tasks.
LEMMA TasksDropped ==
    ASSUME TypeOK, TaskInv, NEW K, UNCHANGED <<wpc, pending>>,
           task' = Unlinked(K), reg' = Dropped(K)
    PROVE  TaskInv'
<1>1. \A k \in Keys : /\ task'[k].kind = task[k].kind
                      /\ task'[k].at = IF task[k].at \in K THEN NoKey ELSE task[k].at
  BY DEF Unlinked, TypeOK, WorkerType, Task
<1>2. \A k \in Keys : k \notin K => reg'[k] = reg[k]
  BY DEF Dropped
<1>3. TaskPhase'
  BY <1>1 DEF TaskInv, TaskPhase
<1>4. TaskLinked' /\ TaskMoved' /\ TaskMeant'
  BY <1>1, <1>2, KeysAssumption DEF TaskInv, TaskLinked, TaskMoved, TaskMeant, Known
<1> QED
  BY <1>3, <1>4 DEF TaskInv

\* Tasks are answered, finished or turned into creates; the switches stay.
LEMMA TasksKept ==
    ASSUME TaskInv, TaskPhase', pending \subseteq pending',
           \A k \in Keys : reg'[k].watch = reg[k].watch,
           \A k \in Keys :
              \/ task'[k].at = NoKey
              \/ task'[k].at = task[k].at /\ task'[k].kind = task[k].kind
              \/ /\ task'[k].at = task[k].at \/ (task'[k].at = k /\ Known(k))
                 /\ task'[k].kind \notin {"pause", "resume"}
    PROVE  TaskInv'
BY KeysAssumption DEF TaskInv, TaskLinked, TaskMoved, TaskMeant, Known

LEMMA WatchKept ==
    /\ \A m, s : \A e \in Entry : WithMonitor(e, m, s).watch = e.watch
    /\ \A m, c, s : \A k \in Keys : reg \in [Keys -> Entry] =>
          [reg EXCEPT ![c] = WithMonitor(@, m, s)][k].watch = reg[k].watch
<1>1. \A m, s : \A e \in Entry : WithMonitor(e, m, s).watch = e.watch
  BY DEF WithMonitor, Entry
<1>2. \A m, c, s : \A k \in Keys : reg \in [Keys -> Entry] =>
          [reg EXCEPT ![c] = WithMonitor(@, m, s)][k].watch = reg[k].watch
  BY <1>1
<1> QED
  BY <1>1, <1>2

\* What the worker does to its tasks.
LEMMA TaskParts ==
    /\ NoTask.kind = "none" /\ NoTask.at = NoKey
    /\ \A kind, m, at : Todo(kind, m, at).kind = kind /\ Todo(kind, m, at).at = at
    /\ \A r : \A t \in Task : [t EXCEPT !.res = r].kind = t.kind /\ [t EXCEPT !.res = r].at = t.at
    /\ \A m, r : \A t \in Task : WithAnswer(t, m, r).kind = t.kind /\ WithAnswer(t, m, r).at = t.at
BY DEF NoTask, Todo, WithAnswer, Task

LEMMA TaskInvWorker == TypeOK /\ TypeOK' /\ TaskInv /\ Worker => TaskInv'
<1> SUFFICES ASSUME TypeOK, TypeOK', TaskInv, Worker PROVE TaskInv'
  OBVIOUS
<1> USE DEF TypeOK
<1> DEFINE Idle == \A k \in Keys : task[k].kind = "none"
<1>1. ASSUME Idle, UNCHANGED task, \A k \in Keys : reg'[k].watch = reg[k].watch,
             wpc' \in {"none", "take", "sync", "synced", "apply", "save"}
      PROVE  TaskInv'
  <2>1. TaskPhase'
    BY <1>1 DEF TaskPhase
  <2>2. TaskLinked' /\ TaskMoved' /\ TaskMeant'
    BY <1>1 DEF TaskInv, TaskLinked, TaskMoved, TaskMeant, Known
  <2> QED
    BY <2>1, <2>2 DEF TaskInv
<1>2. CASE Take
  BY <1>1, <1>2 DEF Take, TaskInv, TaskPhase, regVars
<1>3. CASE SyncRead
  BY <1>1, <1>3 DEF SyncRead, TaskInv, TaskPhase, regVars
<1>4. CASE SyncApply
  <2>1. \A k \in Keys : Corrected[k].watch = reg[k].watch
    BY WatchKept DEF Corrected, RegType
  <2>2. \A k \in Keys : Corrected[k] \in Entry
    BY EntryTypes, MonRange DEF Corrected, RegType
  <2>3. \A k \in Keys : AdoptedBySync(Corrected)[k].watch = Corrected[k].watch
    BY <2>2, WatchKept DEF AdoptedBySync
  <2>4. Idle
    BY <1>4 DEF SyncApply, TaskInv, TaskPhase
  <2>5. wpc' \in {"take", "apply"} /\ UNCHANGED task /\ reg' = AdoptedBySync(Corrected)
    BY <1>4 DEF SyncApply
  <2> QED
    BY <2>1, <2>3, <2>4, <2>5, <1>1
<1>5. CASE Plan
  <2>1. CASE ~login
    BY <2>1, <1>1, <1>5 DEF Plan, TaskInv, TaskPhase, regVars
  <2>2. CASE login
    <3>1. \A k \in Keys :
            \/ task'[k].kind = "none" /\ task'[k].at = NoKey
            \/ Known(k) /\ task'[k].at = k /\ task'[k].kind = Need(reg, k)
      BY <1>5, <2>2, TaskParts DEF Plan
    <3>2. UNCHANGED reg /\ UNCHANGED pending
      BY <1>5 DEF Plan, regVars
    <3>3. TaskPhase'
      <4>1. wpc' = IF Toggles(task') # {} THEN "toggle"
                   ELSE IF Creates(task') # {} THEN "list" ELSE "take"
        BY <1>5, <2>2 DEF Plan
      <4>2. \A k \in Keys : task'[k].kind \in {"none", "pause", "resume", "create"}
        BY <3>1, NeedTypes
      <4> QED
        BY <4>1, <4>2 DEF TaskPhase, Toggles, Creates
    <3>4. \A k \in Keys : /\ Need(reg, k) = "pause" => reg[k].watch = "off"
                          /\ Need(reg, k) = "resume" => reg[k].watch = "on"
      BY DEF Need
    <3>5. TaskLinked' /\ TaskMoved' /\ TaskMeant'
      BY <3>1, <3>2, <3>4, KeysAssumption DEF TaskLinked, TaskMoved, TaskMeant, Known
    <3> QED
      BY <3>3, <3>5 DEF TaskInv
  <2> QED
    BY <2>1, <2>2
<1>6. CASE ToggleConnect
  <2>1. \A k \in Keys : task'[k].kind = task[k].kind /\ task'[k].at = task[k].at
    BY <1>6, TaskParts DEF ToggleConnect, WorkerType
  <2>2. TaskPhase'
    BY <1>6, <2>1 DEF ToggleConnect, TaskPhase
  <2> QED
    BY <1>6, <2>1, <2>2, TasksKept DEF ToggleConnect, regVars, noteVars
<1>7. ASSUME NEW k \in Keys, ToggleOne(k) PROVE TaskInv'
  <2>1. \A j \in Keys : task'[j].kind = task[j].kind /\ task'[j].at = task[j].at
    <3>1. Answer(k, "ok") \/ Answer(k, "gone") \/ Answer(k, "err")
      BY <1>7 DEF ToggleOne
    <3>2. \A r : Answer(k, r) =>
             \A j \in Keys : task'[j].kind = task[j].kind /\ task'[j].at = task[j].at
      BY TaskParts DEF Answer, WorkerType
    <3> QED
      BY <3>1, <3>2
  <2>2. TaskPhase'
    BY <1>7, <2>1 DEF ToggleOne, TaskPhase
  <2> QED
    BY <1>7, <2>1, <2>2, TasksKept DEF ToggleOne, regVars, noteVars
<1>8. CASE ToggleRefused
  BY <1>8, NoTasks DEF ToggleRefused
<1>9. ASSUME NEW k \in Keys, NoteToggle(k) PROVE TaskInv'
  <2> DEFINE c == Current(k)
  <2>1. \A j \in Keys : reg'[j].watch = reg[j].watch
    BY <1>9, WatchKept DEF NoteToggle, RegType
  <2>2. \A j \in Keys :
           \/ task'[j].at = NoKey
           \/ task'[j].at = task[j].at /\ task'[j].kind = task[j].kind
           \/ /\ task'[j].at = task[j].at \/ (task'[j].at = j /\ Known(j))
              /\ task'[j].kind \notin {"pause", "resume"}
    <3>1. task' = [task EXCEPT ![k] = NoTask] \/ task' = [task EXCEPT ![k] = Todo("create", 0, c)]
      BY <1>9 DEF NoteToggle
    <3>2. \A j \in Keys \ {k} : task'[j] = task[j]
      BY <3>1 DEF WorkerType
    <3>3. task'[k] = NoTask \/ task'[k] = Todo("create", 0, c)
      BY <3>1 DEF WorkerType
    <3>4. c = task[k].at \/ (c = k /\ Known(k))
      BY DEF Current
    <3> HIDE DEF c
    <3> QED
      BY <3>2, <3>3, <3>4, TaskParts
  <2>3. TaskPhase'
    <3>1. /\ wpc = "toggled"
          /\ IF Toggles(task') # {} THEN UNCHANGED wpc
             ELSE wpc' = IF Creates(task') # {} THEN "list" ELSE "save"
      BY <1>9 DEF NoteToggle
    <3>2. \A j \in Keys : task'[j].kind \in {"none", "pause", "resume", "create"}
      BY DEF WorkerType, Task
    <3> QED
      BY <3>1, <3>2 DEF TaskPhase, Toggles, Creates
  <2> QED
    BY <1>9, <2>1, <2>2, <2>3, TasksKept DEF NoteToggle
<1>10. CASE ListMarked
  <2>1. \A j \in Keys :
           \/ task'[j].at = NoKey /\ task'[j].kind = "none"
           \/ task'[j].at = task[j].at /\ task'[j].kind = task[j].kind
    <3>1. CASE ListRead
      <4> DEFINE mon(j) == CHOOSE m \in Marked(Listed, reg, j) : TRUE
                 res(j) == IF kuma[mon(j)].active THEN "adopt" ELSE "adoptPaused"
      <4>1. \A j \in Keys : \/ task'[j] = NoTask
                            \/ task'[j] = task[j]
                            \/ task'[j] = WithAnswer(task[j], mon(j), res(j))
        BY <1>10, <3>1 DEF ListMarked
      <4> HIDE DEF mon, res
      <4> QED
        BY <4>1, TaskParts DEF WorkerType
    <3>2. CASE task' = [j \in Keys |-> NoTask]
      BY <3>2, TaskParts
    <3> QED
      BY <1>10, <3>1, <3>2 DEF ListMarked
  <2>2. TaskPhase'
    <3>1. \A j \in Keys : task'[j].kind \in {"none", "create"}
      BY <1>10, <2>1 DEF ListMarked, TaskInv, TaskPhase
    <3>2. wpc' \in {"add", "store"} \/ (wpc' = "save" /\ Creates(task') = {})
          \/ (wpc' = "save" /\ task' = [j \in Keys |-> NoTask])
      BY <1>10 DEF ListMarked
    <3> QED
      BY <3>1, <3>2, TaskParts DEF TaskPhase, Creates
  <2> QED
    BY <1>10, <2>1, <2>2, TasksKept DEF ListMarked, regVars
<1>11. CASE AddConnect
  <2>1. \A k \in Keys : task'[k].kind = task[k].kind /\ task'[k].at = task[k].at
    BY <1>11, TaskParts DEF AddConnect, WorkerType
  <2>2. TaskPhase'
    BY <1>11, <2>1 DEF AddConnect, TaskInv, TaskPhase
  <2> QED
    BY <1>11, <2>1, <2>2, TasksKept DEF AddConnect, regVars, noteVars
<1>12. ASSUME NEW k \in Keys, AddOne(k) PROVE TaskInv'
  <2>1. \A j \in Keys : task'[j].kind = task[j].kind /\ task'[j].at = task[j].at
    <3>1. Answer(k, "err") \/ task' = [task EXCEPT ![k] = WithAnswer(@, made + 1, "ok")]
      BY <1>12 DEF AddOne
    <3>2. CASE Answer(k, "err")
      BY <3>2, TaskParts DEF Answer, WorkerType
    <3>3. CASE task' = [task EXCEPT ![k] = WithAnswer(@, made + 1, "ok")]
      BY <3>3, TaskParts DEF WorkerType
    <3> QED
      BY <3>1, <3>2, <3>3
  <2>2. TaskPhase'
    BY <1>12, <2>1 DEF AddOne, TaskInv, TaskPhase
  <2> QED
    BY <1>12, <2>1, <2>2, TasksKept DEF AddOne, regVars, noteVars
<1>13. ASSUME NEW k \in Keys, wpc = "store", Done(k), pending \subseteq pending',
              \A j \in Keys : reg'[j].watch = reg[j].watch
       PROVE  TaskInv'
  <2>1. \A j \in Keys : \/ task'[j].at = NoKey /\ task'[j].kind = "none"
                        \/ task'[j].at = task[j].at /\ task'[j].kind = task[j].kind
    BY <1>13, TaskParts DEF Done, WorkerType
  <2>2. TaskPhase'
    <3>1. \A j \in Keys : task'[j].kind \in {"none", "create"}
      BY <1>13, <2>1, SMTT(30) DEF TaskInv, TaskPhase
    <3> QED
      BY <1>13, <3>1 DEF Done, TaskPhase, Creates
  <2> QED
    BY <1>13, <2>1, <2>2, TasksKept
<1>14. ASSUME NEW k \in Keys, StoreFailed(k) \/ Store(k) \/ StoreForgotten(k) PROVE TaskInv'
  <2>1. \A j \in Keys : reg'[j].watch = reg[j].watch
    <3>1. CASE StoreFailed(k) \/ StoreForgotten(k)
      BY <3>1 DEF StoreFailed, StoreForgotten, regVars
    <3>2. CASE Store(k)
      BY <3>2, WatchKept DEF Store, RegType
    <3> QED
      BY <1>14, <3>1, <3>2
  <2> QED
    BY <1>14, <2>1, <1>13 DEF StoreFailed, Store, StoreForgotten, noteVars
<1>15. CASE Save
  BY <1>1, <1>15 DEF Save, TaskInv, TaskPhase
<1> QED
  BY <1>2, <1>3, <1>4, <1>5, <1>6, <1>7, <1>8, <1>9, <1>10, <1>11, <1>12, <1>14, <1>15 DEF Worker

LEMMA TaskInvOthers ==
    TypeOK /\ TypeOK' /\ TaskInv /\ (Background \/ Time \/ Operator \/ Scan \/ KumaSide) => TaskInv'
<1> SUFFICES ASSUME TypeOK, TypeOK', TaskInv, Background \/ Time \/ Operator \/ Scan \/ KumaSide
             PROVE TaskInv'
  OBVIOUS
<1> USE DEF TypeOK
<1>1. CASE ForgetDrop \/ \E m \in Mons : DeleteDoomed(m)
  BY <1>1, TasksStill DEF ForgetDrop, DeleteDoomed, regVars, noteVars, workerVars
<1>2. CASE ForgetRemove
  BY <1>2, TasksDropped DEF ForgetRemove, noteVars
<1>3. CASE Time
  BY <1>3, TasksStill DEF Time, SyncElapses, RetryElapses, regVars, workerVars
<1>4. CASE KumaSide
  BY <1>4, TasksStill DEF KumaSide, KumaFails, KumaRecovers, UIDelete, UIToggle,
                          regVars, noteVars, workerVars
<1>5. CASE TakeBackup \/ (\E k \in Keys : ForgetRead(k)) \/ \E picked \in SUBSET There : Tidy(picked)
  BY <1>5, TasksStill DEF TakeBackup, ForgetRead, Tidy, regVars, noteVars, workerVars
<1>6. CASE Reconcile \/ \E b \in BOOLEAN : SaveSettings(b)
  BY <1>6, TasksStill DEF Reconcile, SaveSettings, FollowKuma, regVars
<1>7. CASE \E victims \in SUBSET live : Prune(victims)
  BY <1>7, TasksDropped DEF Prune, noteVars
<1>8. CASE Restart
  BY <1>8, NoTasks DEF Restart
<1>9. ASSUME NEW older \in BOOLEAN, Restore(older) PROVE TaskInv'
  <2>1. \A k \in Keys : task'[k].kind = task[k].kind /\ task'[k].at = NoKey
    BY <1>9, KeysAssumption DEF Restore, Unlinked, WorkerType, Task
  <2>2. TaskPhase'
    BY <1>9, <2>1 DEF Restore, FollowKuma, TaskInv, TaskPhase
  <2> QED
    BY <2>1, <2>2, KeysAssumption DEF TaskInv, TaskLinked, TaskMoved, TaskMeant
<1>10. ASSUME NEW k \in Keys, Appear(k) PROVE TaskInv'
  <2>1. \A j \in Keys : Known(j) => reg'[j] = reg[j]
    BY <1>10 DEF Appear, RegType, Known
  <2>2. TaskPhase'
    BY <1>10 DEF Appear, TaskInv, TaskPhase, workerVars
  <2> QED
    BY <1>10, <2>1, <2>2
       DEF Appear, TaskInv, TaskLinked, TaskMoved, TaskMeant, Known, workerVars, noteVars
<1>11. ASSUME NEW k \in Keys, NEW want \in BOOLEAN, Switch(k, want) PROVE TaskInv'
  <2>1. /\ \A j \in Keys \ {k} : reg'[j] = reg[j]
        /\ reg'[k].watch = IF want THEN "on" ELSE "off"
    BY <1>11 DEF Switch, RegType, Entry
  <2>2. /\ UNCHANGED task /\ pending \subseteq pending'
        /\ Monitored(k) # want => k \in pending'
        /\ wpc' = wpc \/ (wpc = "none" /\ wpc' = "take")
    BY <1>11 DEF Switch, FollowKuma
  <2>3. TaskPhase'
    BY <2>2 DEF TaskInv, TaskPhase
  <2>4. TaskLinked' /\ TaskMoved'
    BY <2>1, <2>2 DEF TaskInv, TaskLinked, TaskMoved, Known
  <2>5. TaskMeant'
    BY <2>1, <2>2 DEF TaskInv, TaskMeant, Monitored
  <2> QED
    BY <2>3, <2>4, <2>5 DEF TaskInv
<1>12. ASSUME NEW old \in Keys, NEW new \in Keys, <<old, new>> \in Rekeys, Rekey(old, new)
       PROVE  TaskInv'
  <2>1. CASE UNCHANGED <<reg, task>>
    BY <2>1, <1>12, TasksStill DEF Rekey, noteVars
  <2>2. CASE Known(old) /\ ~Known(new)
    <3>1. \A p \in Rekeys : p[2] # old
      BY <1>12, RekeysAssumption
    <3>2. old # new
      BY <2>2
    <3>3. /\ reg'[new] = reg[old]
          /\ \A k \in Keys \ {old, new} : reg'[k] = reg[k]
      BY <1>12, <2>2, <3>2 DEF Rekey, RegType
    <3>4. \A k \in Keys : /\ task'[k].kind = task[k].kind
                          /\ task'[k].at = IF task[k].at = old THEN new ELSE task[k].at
      BY <1>12, <2>2, TaskParts DEF Rekey, WorkerType, Task
    <3>5. UNCHANGED <<wpc, pending>>
      BY <1>12 DEF Rekey, noteVars
    <3>6. \A k \in Keys : task[k].at # new
      BY <2>2 DEF TaskInv, TaskLinked
    <3>7. \A k \in Keys : task[k].at = old => k = old
      <4>1. \A k \in Keys : <<k, old>> \notin Rekeys
        BY <3>1
      <4> QED
        BY <4>1, KeysAssumption DEF TaskInv, TaskMoved
    <3>8. TaskPhase'
      BY <3>4, <3>5 DEF TaskInv, TaskPhase
    <3>9. TaskLinked' /\ TaskMoved'
      BY <2>2, <3>3, <3>4, <3>6, <3>7, <1>12, KeysAssumption DEF TaskInv, TaskLinked, TaskMoved, Known
    <3>10. TaskMeant'
      BY <3>2, <3>3, <3>4, <3>5, <3>6, <3>7 DEF TaskInv, TaskMeant
    <3> QED
      BY <3>8, <3>9, <3>10 DEF TaskInv
  <2> QED
    BY <1>12, <2>1, <2>2 DEF Rekey
<1>13. CASE \E p \in Rekeys : Rekey(p[1], p[2])
  <2>1. PICK p \in Rekeys : Rekey(p[1], p[2])
    BY <1>13
  <2>2. p[1] \in Keys /\ p[2] \in Keys /\ <<p[1], p[2]>> = p
    BY RekeysAssumption
  <2> QED
    BY <1>12, <2>1, <2>2
<1> QED
  BY <1>1, <1>2, <1>3, <1>4, <1>5, <1>6, <1>7, <1>8, <1>9, <1>10, <1>11, <1>13
     DEF Background, Operator, Scan

LEMMA TasksHold == Spec => [](TypeOK /\ TaskInv)
<1>1. TypeOK /\ TypeOK' /\ TaskInv /\ [Next]_vars => TaskInv'
  <2>1. TaskInv /\ UNCHANGED vars => TaskInv'
    BY TasksStill DEF vars, regVars, noteVars, workerVars
  <2> QED
    BY <2>1, TaskInvWorker, TaskInvOthers DEF Next
<1> QED
  BY <1>1, TaskInvInit, TypeCorrect, PTL DEF Spec

\* A pause or resume that the worker is carrying out against the switch as it is now is
\* always queued to be looked at again (monitoring.set_many, _apply).
THEOREM StaleTasksAreRequeued == Spec => []StaleTaskRequeued
<1>1. TaskInv => StaleTaskRequeued
  BY DEF TaskInv, TaskMeant, StaleTaskRequeued, Monitored
<1> QED
  BY <1>1, TasksHold, PTL

(***************************************************************************)
(* Whose monitor it is. A monitor carries the marker of the device it was  *)
(* made for, for ever; an answered task has a monitor with its own key's   *)
(* marker. The rest depends on what can happen to the entries:             *)
(*   - no device gains its MAC (no moves): an entry only ever records a    *)
(*     monitor with its own marker, also in the saved registry and in the  *)
(*     backup, so two entries cannot record one monitor;                   *)
(*   - no backup is restored: entries may move, but what a task is about   *)
(*     to record is recorded nowhere yet.                                  *)
(* With both, a restored entry can own, after a move, the monitor a task   *)
(* is about to record for the old key: nothing here excludes it.           *)
(***************************************************************************)
Answered(k) == task[k].kind = "create" /\ task[k].res \in {"ok", "adopt", "adoptPaused"}

MadeInOrder == \A m \in Mons : m > made => kuma[m].mark = NoKey /\ ~kuma[m].there

\* Every monitor that is there carries a device's marker.
AllMarked == \A m \in There : kuma[m].mark \in Keys

TaskMarks == \A k \in Keys : Answered(k) => task[k].mid \in Mons /\ kuma[task[k].mid].mark = k

MonInv == MadeInOrder /\ AllMarked /\ TaskMarks

\* What a step does to Kuma's monitors: one is deleted, paused or resumed, or the next is made.
LEMMA KumaShape ==
    ASSUME TypeOK, [Next]_vars
    PROVE  \/ UNCHANGED <<kuma, made>>
           \/ UNCHANGED made /\ \E m \in Mons : kuma' = Deleted(m)
           \/ UNCHANGED made /\ \E m \in Mons, b \in BOOLEAN : kuma' = [kuma EXCEPT ![m].active = b]
           \/ /\ made < MaxMon /\ made' = made + 1
              /\ \E k \in Keys : AddOne(k) /\ kuma' = [kuma EXCEPT ![made + 1] = NewMonitor(k)]
<1> DEFINE Goal ==
              \/ UNCHANGED <<kuma, made>>
              \/ UNCHANGED made /\ \E m \in Mons : kuma' = Deleted(m)
              \/ UNCHANGED made /\ \E m \in Mons, b \in BOOLEAN : kuma' = [kuma EXCEPT ![m].active = b]
              \/ /\ made < MaxMon /\ made' = made + 1
                 /\ \E k \in Keys : AddOne(k) /\ kuma' = [kuma EXCEPT ![made + 1] = NewMonitor(k)]
<1>0. kuma \in [Mons -> Monitor] /\ \A m \in 0..MaxMon : m \notin Mons => Deleted(m) = kuma
                                                 /\ \A b : [kuma EXCEPT ![m].active = b] = kuma
  <2>1. kuma \in [Mons -> Monitor]
    BY DEF TypeOK, KumaType
  <2> QED BY <2>1 DEF Deleted
<1>1. CASE UNCHANGED kumaVars
  BY <1>1 DEF kumaVars
<1>2. ASSUME NEW m \in 0..MaxMon, Deprovision(m), UNCHANGED made PROVE Goal
  <2>1. kuma' = kuma \/ kuma' = Deleted(m)
    BY <1>2 DEF Deprovision
  <2> QED BY <1>0, <1>2, <2>1
<1>3. ASSUME NEW k \in Keys, ToggleOne(k) PROVE Goal
  <2>1. task[k].mid \in 0..MaxMon
    BY TaskTypes DEF TypeOK, WorkerType
  <2>2. kuma' = kuma \/ \E b \in BOOLEAN : kuma' = [kuma EXCEPT ![task[k].mid].active = b]
    BY <1>3 DEF ToggleOne
  <2>3. UNCHANGED made
    BY <1>3 DEF ToggleOne
  <2> QED BY <1>0, <2>1, <2>2, <2>3
<1>4. ASSUME NEW k \in Keys, AddOne(k) PROVE Goal
  BY <1>4 DEF AddOne
<1>5. ASSUME NEW k \in Keys, StoreForgotten(k) PROVE Goal
  <2>1. task[k].mid \in 0..MaxMon
    BY TaskTypes DEF TypeOK, WorkerType
  <2> QED BY <1>2, <1>5, <2>1 DEF StoreForgotten
<1>6. CASE Worker
  BY <1>1, <1>3, <1>4, <1>5, <1>6
  DEF Worker, Take, SyncRead, SyncApply, Plan, ToggleConnect, ToggleRefused, NoteToggle, ListMarked,
      AddConnect, StoreFailed, Store, Save
<1>7. CASE Background
  <2>1. forget.mid \in 0..MaxMon
    BY DEF TypeOK, OpType, ForgetState
  <2>2. CASE ForgetDrop
    BY <1>2, <2>1, <2>2 DEF ForgetDrop
  <2>3. CASE ForgetRemove
    BY <1>1, <2>3 DEF ForgetRemove
  <2>4. ASSUME NEW m \in Mons, DeleteDoomed(m) PROVE Goal
    BY <1>2, <2>4, MonRange DEF DeleteDoomed
  <2> QED BY <1>7, <2>2, <2>3, <2>4 DEF Background
<1>8. CASE Time \/ Operator \/ Scan
  BY <1>1, <1>8
  DEF Time, SyncElapses, RetryElapses, Operator, ForgetRead, Switch, Prune, Tidy, SaveSettings, Restore,
      TakeBackup, Restart, Scan, Reconcile, Appear, Rekey
<1>9. CASE KumaSide
  <2>1. CASE KumaFails \/ KumaRecovers
    BY <2>1 DEF KumaFails, KumaRecovers
  <2>2. ASSUME NEW m \in Mons, UIDelete(m) PROVE Goal
    BY <2>2 DEF UIDelete
  <2>3. ASSUME NEW m \in Mons, UIToggle(m) PROVE Goal
    <3>1. kuma' = [kuma EXCEPT ![m].active = ~kuma[m].active] /\ UNCHANGED made
      BY <1>0, <2>3 DEF UIToggle
    <3> QED BY <3>1
  <2> QED BY <1>9, <2>1, <2>2, <2>3 DEF KumaSide
<1> QED BY <1>1, <1>6, <1>7, <1>8, <1>9 DEF Next, vars

\* Markers stay, what was deleted does not come back, and ids are given out in order.
LEMMA MonsMove ==
    ASSUME TypeOK, MadeInOrder, AllMarked, [Next]_vars
    PROVE  /\ MadeInOrder' /\ AllMarked'
           /\ \A m \in Mons : kuma[m].mark \in Keys => kuma'[m].mark = kuma[m].mark
           /\ \A m \in There' : m \in There \/ (m = made + 1 /\ \E k \in Keys : AddOne(k) /\ kuma'[m].mark = k)
<1>0. /\ kuma \in [Mons -> Monitor] /\ made \in Nat /\ MaxMon \in Nat /\ \A m \in Mons : m \in Nat
  BY BoundAssumption DEF TypeOK, KumaType, Mons
<1>1. CASE UNCHANGED <<kuma, made>>
  BY <1>1 DEF MadeInOrder, AllMarked, There
<1>2. ASSUME UNCHANGED made, NEW m \in Mons,
             kuma' = Deleted(m) \/ \E b \in BOOLEAN : kuma' = [kuma EXCEPT ![m].active = b]
      PROVE  /\ MadeInOrder' /\ AllMarked'
             /\ \A n \in Mons : kuma'[n].mark = kuma[n].mark
             /\ There' \subseteq There
  <2>1. \A n \in Mons : kuma'[n].mark = kuma[n].mark /\ (kuma'[n].there => kuma[n].there)
    BY <1>0, <1>2 DEF Deleted, Monitor
  <2> QED BY <1>2, <2>1 DEF MadeInOrder, AllMarked, There
<1>3. ASSUME NEW k \in Keys, AddOne(k), made < MaxMon, made' = made + 1,
             kuma' = [kuma EXCEPT ![made + 1] = NewMonitor(k)]
      PROVE  /\ MadeInOrder' /\ AllMarked'
             /\ \A m \in Mons : kuma[m].mark \in Keys => kuma'[m].mark = kuma[m].mark
             /\ \A m \in There' : m \in There \/ (m = made + 1 /\ kuma'[m].mark = k)
  <2>1. made + 1 \in Mons
    BY <1>0, <1>3 DEF Mons
  <2>2. kuma'[made + 1].mark = k /\ \A m \in Mons : m # made + 1 => kuma'[m] = kuma[m]
    BY <1>0, <1>3, <2>1 DEF NewMonitor
  <2>3. kuma[made + 1].mark \notin Keys
    BY <1>0, <2>1, KeysAssumption DEF MadeInOrder
  <2> QED BY <1>0, <1>3, <2>2, <2>3 DEF MadeInOrder, AllMarked, There
<1> QED BY <1>1, <1>2, <1>3, KumaShape

\* An answered task was answered before, or is answered now: by a new monitor, or by one that
\* carries its key's marker and that no entry records.
LEMMA AnswerShape ==
    ASSUME TypeOK, TaskInv, [Next]_vars, NEW k \in Keys, Answered(k)'
    PROVE  \/ Answered(k) /\ task'[k].mid = task[k].mid
           \/ AddOne(k) /\ made < MaxMon /\ task'[k].mid = made + 1
              /\ kuma' = [kuma EXCEPT ![made + 1] = NewMonitor(k)]
           \/ ListMarked /\ task'[k].mid \in Marked(Listed, reg, k)
<1>0. task \in [Keys -> Task]
  BY DEF TypeOK, WorkerType
<1>1. CASE UNCHANGED task
  BY <1>1 DEF Answered
<1>2. CASE task'[k] = NoTask
  BY <1>2 DEF Answered, NoTask, Todo
<1>3. ASSUME NEW K, task' = Unlinked(K) PROVE Answered(k) /\ task'[k].mid = task[k].mid
  <2>1. task'[k].kind = task[k].kind /\ task'[k].res = task[k].res /\ task'[k].mid = task[k].mid
    BY <1>0, <1>3 DEF Unlinked, Task
  <2> QED BY <2>1 DEF Answered
<1>4. CASE task'[k].res \in {"todo", "down", "err", "gone"}
  BY <1>4 DEF Answered
<1>5. ASSUME NEW j \in Keys, NEW t, task' = [task EXCEPT ![j] = t], k # j
      PROVE  Answered(k) /\ task'[k].mid = task[k].mid
  BY <1>0, <1>5 DEF Answered
<1>6. CASE Plan
  <2>1. UNCHANGED task \/ task'[k] = NoTask \/ task'[k] = Todo(Need(reg, k), reg[k].mid, k)
    BY <1>6 DEF Plan
  <2> QED BY <1>1, <1>2, <1>4, <2>1 DEF Todo
<1>7. CASE ToggleConnect \/ AddConnect
  <2>1. task'[k] = task[k] \/ task'[k] = [task[k] EXCEPT !.res = "down"]
    BY <1>7 DEF ToggleConnect, AddConnect
  <2>2. task'[k] = task[k] \/ task'[k].res = "down"
    BY <1>0, <2>1 DEF Task
  <2> QED BY <1>4, <2>2 DEF Answered
<1>8. ASSUME NEW j \in Keys, ToggleOne(j)
      PROVE  Answered(k) /\ task'[k].mid = task[k].mid
  <2>1. j \in Toggles(task)
    BY <1>8 DEF ToggleOne, Unanswered
  <2>2. PICK r : task' = [task EXCEPT ![j] = [task[j] EXCEPT !.res = r]]
    BY <1>0, <1>8 DEF ToggleOne, Answer
  <2>3. CASE k = j
    <3>1. task'[k].kind = task[k].kind
      BY <1>0, <2>2, <2>3 DEF Task
    <3> QED BY <2>1, <2>3, <3>1 DEF Answered, Toggles
  <2> QED BY <1>5, <2>2, <2>3
<1>9. ASSUME NEW j \in Keys, NoteToggle(j)
      PROVE  Answered(k) /\ task'[k].mid = task[k].mid
  <2>1. task' = [task EXCEPT ![j] = NoTask] \/ task' = [task EXCEPT ![j] = Todo("create", 0, Current(j))]
    BY <1>9 DEF NoteToggle
  <2>2. CASE k = j
    <3>1. task'[k].res = "todo"
      BY <1>0, <2>1, <2>2 DEF NoTask, Todo
    <3> QED BY <3>1 DEF Answered
  <2> QED BY <1>5, <2>1, <2>2
<1>10. CASE ToggleRefused \/ Restart
  BY <1>2, <1>10 DEF ToggleRefused, Restart, Answered, NoTask, Todo
<1>11. CASE ListMarked
  <2>1. CASE ListRead
    <3> DEFINE mon == CHOOSE m \in Marked(Listed, reg, k) : TRUE
               res == IF kuma[mon].active THEN "adopt" ELSE "adoptPaused"
    <3>1. \/ task'[k] = NoTask
          \/ task'[k] = task[k]
          \/ Marked(Listed, reg, k) # {} /\ task'[k] = WithAnswer(task[k], mon, res)
      BY <1>11, <2>1 DEF ListMarked
    <3>2. Marked(Listed, reg, k) # {} => mon \in Marked(Listed, reg, k)
      OBVIOUS
    <3> HIDE DEF mon, res
    <3>3. WithAnswer(task[k], mon, res).mid = mon
      BY <1>0 DEF WithAnswer, Task
    <3> QED BY <1>2, <1>11, <3>1, <3>2, <3>3 DEF Answered
  <2>2. CASE task' = [j \in Keys |-> NoTask]
    BY <1>2, <2>2 DEF Answered, NoTask, Todo
  <2> QED BY <1>11, <2>1, <2>2 DEF ListMarked
<1>12. ASSUME NEW j \in Keys, AddOne(j)
       PROVE  \/ Answered(k) /\ task'[k].mid = task[k].mid
              \/ AddOne(k) /\ made < MaxMon /\ task'[k].mid = made + 1
                 /\ kuma' = [kuma EXCEPT ![made + 1] = NewMonitor(k)]
  <2>1. CASE task' = [task EXCEPT ![j] = WithAnswer(task[j], made + 1, "ok")] /\ made < MaxMon
             /\ kuma' = [kuma EXCEPT ![made + 1] = NewMonitor(j)]
    <3>1. CASE k = j
      <4>1. task'[k] = WithAnswer(task[k], made + 1, "ok")
        BY <1>0, <2>1, <3>1
      <4>2. WithAnswer(task[k], made + 1, "ok").mid = made + 1
        BY <1>0 DEF WithAnswer, Task
      <4> QED BY <1>12, <2>1, <3>1, <4>1, <4>2
    <3> QED BY <1>5, <2>1, <3>1
  <2>2. CASE Answer(j, "err")
    <3>1. CASE k = j
      <4>1. task'[k].res = "err"
        BY <1>0, <2>2, <3>1 DEF Answer, Task
      <4> QED BY <4>1 DEF Answered
    <3>2. task' = [task EXCEPT ![j] = [task[j] EXCEPT !.res = "err"]]
      BY <1>0, <2>2 DEF Answer
    <3> QED BY <1>5, <3>1, <3>2
  <2> QED BY <1>12, <2>1, <2>2 DEF AddOne
<1>13. ASSUME NEW j \in Keys, StoreFailed(j) \/ Store(j) \/ StoreForgotten(j)
       PROVE  Answered(k) /\ task'[k].mid = task[k].mid
  <2>1. task' = [task EXCEPT ![j] = NoTask]
    BY <1>13 DEF StoreFailed, Store, StoreForgotten, Done
  <2>2. CASE k = j
    BY <1>0, <2>1, <2>2 DEF Answered, NoTask, Todo
  <2> QED BY <1>5, <2>1, <2>2
<1>14. CASE Worker
  BY <1>1, <1>6, <1>7, <1>8, <1>9, <1>10, <1>11, <1>12, <1>13, <1>14
  DEF Worker, Take, SyncRead, SyncApply, Save
<1>15. CASE Background
  BY <1>1, <1>3, <1>15 DEF Background, ForgetDrop, ForgetRemove, DeleteDoomed, workerVars
<1>16. CASE Time \/ KumaSide
  BY <1>1, <1>16
  DEF Time, SyncElapses, RetryElapses, KumaSide, KumaFails, KumaRecovers, UIDelete, UIToggle, workerVars
<1>17. CASE Operator
  BY <1>1, <1>3, <1>10, <1>17
  DEF Operator, ForgetRead, Switch, Prune, Tidy, SaveSettings, Restore, TakeBackup, workerVars
<1>18. ASSUME NEW old, NEW new, Rekey(old, new) PROVE Answered(k) /\ task'[k].mid = task[k].mid
  <2>1. CASE UNCHANGED task
    BY <2>1 DEF Answered
  <2>2. CASE task' = [j \in Keys |-> IF task[j].at = old THEN [task[j] EXCEPT !.at = new] ELSE task[j]]
    <3>1. task'[k].kind = task[k].kind /\ task'[k].res = task[k].res /\ task'[k].mid = task[k].mid
      BY <1>0, <2>2 DEF Task
    <3> QED BY <3>1 DEF Answered
  <2> QED BY <1>18, <2>1, <2>2 DEF Rekey
<1>19. CASE Scan
  BY <1>1, <1>18, <1>19 DEF Scan, Reconcile, Appear, workerVars
<1> QED BY <1>1, <1>14, <1>15, <1>16, <1>17, <1>19 DEF Next, vars, workerVars

\* What has run out does not come back.
LEMMA BudgetShrinks ==
    ASSUME TypeOK, [Next]_vars, NEW kind \in Kinds, left[kind] = 0
    PROVE  left'[kind] = 0
<1>0. left \in [Kinds -> Nat]
  BY DEF TypeOK, LeftType
<1>1. CASE UNCHANGED left
  BY <1>1
<1>2. ASSUME NEW other \in Kinds, Spend(other) PROVE left'[kind] = 0
  BY <1>0, <1>2 DEF Spend
<1>3. CASE CallWorks \/ CallMissed \/ CallFails \/ ListRead \/ ListMissing
  BY <1>1, <1>2, <1>3 DEF CallWorks, CallMissed, CallFails, ListRead, ListMissing, Kinds
<1>4. ASSUME NEW m, Deprovision(m) PROVE left'[kind] = 0
  BY <1>3, <1>4, SMTT(30) DEF Deprovision
<1>5. CASE Worker
  BY <1>1, <1>3, <1>4, <1>5
  DEF Worker, Take, SyncRead, SyncApply, Plan, ToggleConnect, ToggleOne, ToggleRefused, NoteToggle, ListMarked,
      AddConnect, AddOne, StoreFailed, Store, StoreForgotten, Save
<1>6. CASE Background \/ Time
  BY <1>1, <1>4, <1>6 DEF Background, ForgetDrop, ForgetRemove, DeleteDoomed, Time, SyncElapses, RetryElapses
<1>7. CASE Operator
  BY <1>2, <1>7
  DEF Operator, ForgetRead, Switch, Prune, Tidy, SaveSettings, Restore, TakeBackup, Restart, Kinds
<1>8. CASE Scan \/ KumaSide
  BY <1>1, <1>2, <1>8
  DEF Scan, Reconcile, Appear, Rekey, KumaSide, KumaFails, KumaRecovers, UIDelete, UIToggle, Kinds
<1> QED BY <1>1, <1>5, <1>6, <1>7, <1>8 DEF Next, vars

LEMMA EntryParts ==
    /\ \A m, s : \A e \in Entry : WithMonitor(e, m, s).mid = m
    /\ \A w : \A e \in Entry : [e EXCEPT !.watch = w].mid = e.mid
    /\ Gone.mid = 0 /\ Fresh.mid = 0
BY DEF WithMonitor, Entry, Gone, Fresh

\* What the read-back does to the recorded monitors: each is kept, forgotten, or, where there was
\* none, one with the key's marker that nobody records is adopted.
Adopts(k) ==
    /\ reg'[k].mid \in Mons /\ kuma[reg'[k].mid].mark = k
    /\ \A j \in Keys : Corrected[j].mid # reg'[k].mid

LEMMA SyncShape ==
    ASSUME TypeOK, SyncApply
    PROVE  /\ \A k \in Keys : Corrected[k].mid \in {0, reg[k].mid}
           /\ \A k \in Keys : reg'[k].mid = Corrected[k].mid \/ Adopts(k)
<1>0. reg \in [Keys -> Entry]
  BY DEF TypeOK, RegType
<1>1. \A k \in Keys : Corrected[k] \in Entry /\ Corrected[k].mid \in {0, reg[k].mid}
  BY <1>0, EntryTypes, EntryParts, MonRange DEF Corrected
<1>2. reg' = AdoptedBySync(Corrected)
  BY DEF SyncApply
<1>3. ASSUME NEW k \in Keys PROVE reg'[k].mid = Corrected[k].mid \/ Adopts(k)
  <2> DEFINE found == Marked(wlist, Corrected, k)
             mon == CHOOSE m \in found : TRUE
  <2>1. CASE reg'[k] = Corrected[k]
    BY <2>1
  <2>2. CASE found # {} /\ reg'[k] = WithMonitor(Corrected[k], mon, wlist[mon])
    <3>1. mon \in found
      BY <2>2
    <3>2. mon \in Mons /\ kuma[mon].mark = k /\ mon \notin Owned(Corrected)
      <4> HIDE DEF mon
      <4> QED BY <3>1 DEF Marked, First
    <3>3. reg'[k].mid = mon
      <4> HIDE DEF mon, found
      <4> QED BY <1>1, <2>2, EntryParts
    <3>4. mon # 0
      <4> HIDE DEF mon
      <4> QED BY <3>2, BoundAssumption DEF Mons
    <3>5. \A j \in Keys : Corrected[j].mid # mon
      <4> HIDE DEF mon
      <4> QED BY <3>2, <3>4 DEF Owned
    <3> QED BY <3>2, <3>3, <3>5 DEF Adopts
  <2> QED BY <1>2, <2>1, <2>2 DEF AdoptedBySync
<1> QED BY <1>1, <1>3

\* What a step does to the monitors the entries record.
LEMMA RegShape ==
    ASSUME TypeOK, TypeOK', [Next]_vars
    PROVE  /\ UNCHANGED disk \/ disk' = reg'
           /\ UNCHANGED bak \/ (bak' = reg /\ left["restore"] > 0)
           /\ \/ \A k \in Keys : reg'[k].mid \in {0, reg[k].mid}
              \/ reg' = disk /\ \A k \in Keys : task'[k] = NoTask
              \/ left["restore"] > 0 /\ \A k \in Keys : reg'[k].mid = bak[k].mid
              \/ left["move"] > 0 /\ \E old, new \in Keys : old # new /\ reg' = [reg EXCEPT ![new] = reg[old], ![old] = Gone]
              \/ SyncApply
              \/ \E k \in Keys : /\ Answered(k) /\ Store(k) /\ Current(k) \in Keys
                                 /\ reg'[Current(k)].mid = task[k].mid
                                 /\ \A j \in Keys : j # Current(k) => reg'[j] = reg[j]
<1> DEFINE Same == \A k \in Keys : reg'[k].mid \in {0, reg[k].mid}
<1>0. reg \in [Keys -> Entry] /\ disk \in [Keys -> Entry] /\ bak \in [Keys -> Entry] /\ task \in [Keys -> Task]
  BY SMTT(30) DEF TypeOK, RegType, WorkerType
<1>1. UNCHANGED disk \/ disk' = reg'
  BY ZenonT(60) DEF Next, Worker, Take, SyncRead, SyncApply, Plan, ToggleConnect, ToggleOne, ToggleRefused, NoteToggle, ListMarked,
      AddConnect, AddOne, StoreFailed, Store, StoreForgotten, Save, Background, ForgetDrop, ForgetRemove, DeleteDoomed,
      Time, SyncElapses, RetryElapses, Operator, ForgetRead, Switch, Prune, Tidy, SaveSettings, Restore, TakeBackup,
      Restart, Scan, Reconcile, Appear, Rekey, KumaSide, KumaFails, KumaRecovers, UIDelete, UIToggle, vars, regVars
<1>2. UNCHANGED bak \/ (bak' = reg /\ left["restore"] > 0)
  BY DEF Next, Worker, Take, SyncRead, SyncApply, Plan, ToggleConnect, ToggleOne, ToggleRefused, NoteToggle, ListMarked,
      AddConnect, AddOne, StoreFailed, Store, StoreForgotten, Save, Background, ForgetDrop, ForgetRemove, DeleteDoomed,
      Time, SyncElapses, RetryElapses, Operator, ForgetRead, Switch, Prune, Tidy, SaveSettings, Restore, TakeBackup,
      Restart, Scan, Reconcile, Appear, Rekey, KumaSide, KumaFails, KumaRecovers, UIDelete, UIToggle, vars, regVars, Spend
<1>3. CASE UNCHANGED reg
  BY <1>1, <1>2, <1>3
<1>4. ASSUME NEW K, reg' = Dropped(K) PROVE Same
  BY <1>0, <1>4, EntryParts DEF Dropped
<1>5. ASSUME NEW k \in Keys, NoteToggle(k) PROVE Same
  <2>1. UNCHANGED reg \/ \E c, s : \/ reg' = [reg EXCEPT ![c] = WithMonitor(reg[c], 0, s)]
                                  \/ reg' = [reg EXCEPT ![c] = WithMonitor(reg[c], reg[c].mid, s)]
    BY <1>0, <1>5 DEF NoteToggle
  <2> QED BY <1>0, <2>1, EntryParts
<1>6. ASSUME NEW k \in Keys, Store(k)
      PROVE  /\ Answered(k) /\ Current(k) \in Keys
             /\ reg'[Current(k)].mid = task[k].mid
             /\ \A j \in Keys : j # Current(k) => reg'[j] = reg[j]
  <2>1. Current(k) \in Keys \cup {NoKey}
    BY <1>0, TaskTypes DEF Current
  <2>2. Current(k) # NoKey /\ \E s : reg' = [reg EXCEPT ![Current(k)] = WithMonitor(reg[Current(k)], task[k].mid, s)]
    BY <1>0, <1>6 DEF Store
  <2>3. Answered(k)
    BY <1>6 DEF Store, Creates, Answered
  <2> QED BY <1>0, <2>1, <2>2, <2>3, EntryParts
<1>7. ASSUME NEW k \in Keys, NEW want \in BOOLEAN, Switch(k, want) PROVE Same
  BY <1>0, <1>7, EntryParts DEF Switch
<1>8. ASSUME NEW k \in Keys, Appear(k) PROVE Same
  BY <1>0, <1>8, EntryParts DEF Appear
<1>9. ASSUME NEW older \in BOOLEAN, Restore(older)
      PROVE  left["restore"] > 0 /\ \A k \in Keys : reg'[k].mid = bak[k].mid
  <2>1. \A k \in Keys : Seeded(bak)[k].mid = bak[k].mid
    BY <1>0, EntryParts DEF Seeded
  <2> QED BY <1>9, <2>1 DEF Restore, Spend
<1>10. CASE Restart
  BY <1>10 DEF Restart
<1>11. ASSUME NEW p \in Rekeys, Rekey(p[1], p[2])
       PROVE  UNCHANGED reg \/
              (left["move"] > 0 /\ \E old, new \in Keys : old # new /\ reg' = [reg EXCEPT ![new] = reg[old], ![old] = Gone])
  <2>1. p[1] \in Keys /\ p[2] \in Keys
    BY RekeysAssumption
  <2>2. p[1] # p[2]
    BY <1>11 DEF Rekey
  <2> QED BY <1>11, <2>1, <2>2 DEF Rekey, Spend
<1>12. CASE Worker
  <2>1. UNCHANGED reg \/ SyncApply \/ (\E k \in Keys : NoteToggle(k)) \/ (\E k \in Keys : Store(k))
    BY <1>12 DEF Worker, Take, SyncRead, Plan, ToggleConnect, ToggleOne, ToggleRefused, ListMarked,
          AddConnect, AddOne, StoreFailed, StoreForgotten, Save, regVars
  <2> QED BY <1>1, <1>2, <1>3, <1>5, <1>6, <2>1
<1>13. CASE Background \/ Time \/ KumaSide
  <2>1. UNCHANGED reg \/ \E K : reg' = Dropped(K)
    BY <1>13 DEF Background, ForgetDrop, ForgetRemove, DeleteDoomed, Time, SyncElapses, RetryElapses,
          KumaSide, KumaFails, KumaRecovers, UIDelete, UIToggle, regVars
  <2> QED BY <1>1, <1>2, <1>3, <1>4, <2>1
<1>14. CASE Operator
  <2>1. \/ UNCHANGED reg \/ (\E K : reg' = Dropped(K)) \/ Restart
        \/ \E k \in Keys, want \in BOOLEAN : Switch(k, want)
        \/ \E older \in BOOLEAN : Restore(older)
    BY <1>14 DEF Operator, ForgetRead, Prune, Tidy, SaveSettings, TakeBackup, regVars
  <2> QED BY <1>1, <1>2, <1>3, <1>4, <1>7, <1>9, <1>10, <2>1
<1>15. CASE Scan
  <2>1. UNCHANGED reg \/ (\E k \in Keys : Appear(k)) \/ \E p \in Rekeys : Rekey(p[1], p[2])
    BY <1>15 DEF Scan, Reconcile, regVars
  <2> QED BY <1>1, <1>2, <1>3, <1>8, <1>11, <2>1
<1> QED BY <1>3, <1>1, <1>2, <1>12, <1>13, <1>14, <1>15 DEF Next, vars, regVars

\* Where the entry a task read is found: under its own key, unless a device moved.
LEMMA AtShape ==
    ASSUME TypeOK, left["move"] = 0, [Next]_vars, NEW k \in Keys, task[k].at \in {NoKey, k}
    PROVE  task'[k].at \in {NoKey, k}
<1>0. task \in [Keys -> Task]
  BY DEF TypeOK, WorkerType
<1>1. CASE UNCHANGED task
  BY <1>1
<1>2. CASE task'[k] = NoTask
  BY <1>2, TaskParts
<1>3. ASSUME NEW K, task' = Unlinked(K) PROVE task'[k].at \in {NoKey, k}
  BY <1>0, <1>3 DEF Unlinked, Task
<1>4. ASSUME NEW j \in Keys, task' = [task EXCEPT ![j] = task'[j]], j = k => task'[j].at \in {NoKey, task[j].at, j}
      PROVE  task'[k].at \in {NoKey, k}
  BY <1>0, <1>4
<1>5. CASE Plan
  <2>1. UNCHANGED task \/ task'[k] = NoTask \/ task'[k] = Todo(Need(reg, k), reg[k].mid, k)
    BY <1>5 DEF Plan
  <2> QED BY <1>1, <1>2, <2>1, TaskParts
<1>6. CASE ToggleConnect \/ AddConnect
  <2>1. task'[k] = task[k] \/ task'[k] = [task[k] EXCEPT !.res = "down"]
    BY <1>6 DEF ToggleConnect, AddConnect
  <2>2. [task[k] EXCEPT !.res = "down"].at = task[k].at
    BY <1>0, TaskParts
  <2> QED BY <2>1, <2>2
<1>7. ASSUME NEW j \in Keys, NEW r, Answer(j, r) PROVE task'[k].at \in {NoKey, k}
  <2>1. task'[j] = [task[j] EXCEPT !.res = r] /\ task' = [task EXCEPT ![j] = task'[j]]
    BY <1>0, <1>7 DEF Answer
  <2>2. task'[j].at = task[j].at
    BY <1>0, <2>1, TaskParts
  <2> QED BY <1>4, <2>1, <2>2
<1>8. ASSUME NEW j \in Keys, NoteToggle(j) PROVE task'[k].at \in {NoKey, k}
  <2>1. task'[j] \in {NoTask, Todo("create", 0, Current(j))} /\ task' = [task EXCEPT ![j] = task'[j]]
    BY <1>0, <1>8 DEF NoteToggle
  <2>2. Current(j) \in {j, task[j].at}
    BY DEF Current
  <2>3. task'[j].at \in {NoKey, j, task[j].at}
    BY <2>1, <2>2, TaskParts
  <2> QED BY <1>4, <2>1, <2>3
<1>9. CASE ListMarked
  <2>1. CASE ListRead
    <3> DEFINE mon == CHOOSE m \in Marked(Listed, reg, k) : TRUE
               res == IF kuma[mon].active THEN "adopt" ELSE "adoptPaused"
    <3>1. task'[k] = NoTask \/ task'[k] = task[k] \/ task'[k] = WithAnswer(task[k], mon, res)
      BY <1>9, <2>1 DEF ListMarked
    <3> HIDE DEF mon, res
    <3> QED BY <1>0, <1>2, <3>1, TaskParts
  <2>2. CASE task' = [j \in Keys |-> NoTask]
    BY <1>2, <2>2
  <2> QED BY <1>9, <2>1, <2>2 DEF ListMarked
<1>10. ASSUME NEW j \in Keys, AddOne(j) PROVE task'[k].at \in {NoKey, k}
  <2>1. CASE Answer(j, "err")
    BY <1>7, <2>1
  <2>2. CASE task' = [task EXCEPT ![j] = WithAnswer(task[j], made + 1, "ok")]
    <3>1. task'[j].at = task[j].at /\ task' = [task EXCEPT ![j] = task'[j]]
      BY <1>0, <2>2, TaskParts
    <3> QED BY <1>4, <3>1
  <2> QED BY <1>10, <2>1, <2>2 DEF AddOne
<1>11. ASSUME NEW j \in Keys, Done(j) PROVE task'[k].at \in {NoKey, k}
  BY <1>0, <1>2, <1>4, <1>11, TaskParts DEF Done
<1>12. ~ \E p \in Rekeys : Rekey(p[1], p[2])
  BY DEF Rekey, Spend, TypeOK, LeftType
<1>13. CASE Worker
  BY <1>1, <1>2, <1>5, <1>6, <1>7, <1>8, <1>9, <1>10, <1>11, <1>13
  DEF Worker, Take, SyncRead, SyncApply, ToggleOne, ToggleRefused, StoreFailed, Store, StoreForgotten, Save
<1>14. CASE Background \/ Time \/ KumaSide
  BY <1>1, <1>3, <1>14
  DEF Background, ForgetDrop, ForgetRemove, DeleteDoomed, Time, SyncElapses, RetryElapses,
      KumaSide, KumaFails, KumaRecovers, UIDelete, UIToggle, workerVars
<1>15. CASE Operator \/ Scan
  BY <1>1, <1>2, <1>3, <1>12, <1>15
  DEF Operator, ForgetRead, Switch, Prune, Tidy, SaveSettings, Restore, TakeBackup, Restart,
      Scan, Reconcile, Appear, workerVars
<1> QED BY <1>1, <1>13, <1>14, <1>15 DEF Next, vars, workerVars

(***************************************************************************)
(* OneOwner, by markers or by what is recorded nowhere yet.                *)
(***************************************************************************)
OwnMark(r)  == \A k \in Keys : r[k].mid # 0 => r[k].mid \in Mons /\ kuma[r[k].mid].mark = k
SomeMark(r) == \A k \in Keys : r[k].mid # 0 => r[k].mid \in Mons /\ kuma[r[k].mid].mark \in Keys
Distinct(r) == \A j, k \in Keys : j # k /\ r[j].mid # 0 => r[j].mid # r[k].mid

\* No device moves: every entry records its own device's monitor.
AtHome == (\A k \in Keys : task[k].at \in {NoKey, k}) /\ OwnMark(reg) /\ OwnMark(disk) /\ OwnMark(bak)

\* No backup is restored: what a task is about to record, nobody has recorded.
Unrecorded ==
    /\ Distinct(reg) /\ Distinct(disk) /\ SomeMark(reg) /\ SomeMark(disk)
    /\ \A j, k \in Keys : Answered(k) => task[k].mid # reg[j].mid

StayHome   == left["move"] = 0
NoRestores == left["restore"] = 0

OwnerInv == MonInv /\ ((StayHome /\ AtHome) \/ (NoRestores /\ Unrecorded))

LEMMA StepMon == TypeOK /\ TaskInv /\ MonInv /\ [Next]_vars => MonInv'
<1> SUFFICES ASSUME TypeOK, TaskInv, MonInv, [Next]_vars PROVE MonInv'
  OBVIOUS
<1>1. MadeInOrder' /\ AllMarked' /\ \A m \in Mons : kuma[m].mark \in Keys => kuma'[m].mark = kuma[m].mark
  BY MonsMove DEF MonInv
<1>2. ASSUME NEW k \in Keys, Answered(k)' PROVE task'[k].mid \in Mons /\ kuma'[task'[k].mid].mark = k
  <2>1. CASE Answered(k) /\ task'[k].mid = task[k].mid
    BY <1>1, <2>1 DEF MonInv, TaskMarks
  <2>2. CASE made < MaxMon /\ task'[k].mid = made + 1 /\ kuma' = [kuma EXCEPT ![made + 1] = NewMonitor(k)]
    <3>1. made + 1 \in Mons /\ kuma \in [Mons -> Monitor]
      BY <2>2, MonRange DEF TypeOK, KumaType
    <3> QED BY <2>2, <3>1 DEF NewMonitor
  <2>3. CASE task'[k].mid \in Marked(Listed, reg, k)
    <3>1. task'[k].mid \in Mons /\ kuma[task'[k].mid].mark = k
      BY <2>3 DEF Marked, First
    <3> QED BY <1>1, <3>1
  <2> QED BY <1>2, <2>1, <2>2, <2>3, AnswerShape
<1> QED BY <1>1, <1>2 DEF MonInv, TaskMarks

LEMMA StepHome ==
    TypeOK /\ TypeOK' /\ MonInv /\ StayHome /\ AtHome /\ [Next]_vars => (StayHome /\ AtHome)'
<1> SUFFICES ASSUME TypeOK, TypeOK', MonInv, StayHome, AtHome, [Next]_vars PROVE StayHome' /\ AtHome'
  OBVIOUS
<1>1. StayHome'
  BY BudgetShrinks DEF StayHome, Kinds
<1>2. \A k \in Keys : task'[k].at \in {NoKey, k}
  BY AtShape DEF StayHome, AtHome
<1>3. \A m \in Mons : kuma[m].mark \in Keys => kuma'[m].mark = kuma[m].mark
  BY MonsMove DEF MonInv
<1>4. ASSUME NEW r, OwnMark(r) PROVE \A k \in Keys : r[k].mid # 0 => r[k].mid \in Mons /\ kuma'[r[k].mid].mark = k
  BY <1>3, <1>4 DEF OwnMark
<1>5. ASSUME NEW k \in Keys, reg'[k].mid # 0 PROVE reg'[k].mid \in Mons /\ kuma'[reg'[k].mid].mark = k
  <2>1. CASE reg'[k].mid \in {reg[k].mid, disk[k].mid, bak[k].mid}
    BY <1>4, <1>5, <2>1 DEF AtHome
  <2>2. CASE SyncApply
    <3>1. CASE reg'[k].mid \in {0, reg[k].mid}
      BY <1>5, <2>1, <3>1
    <3>2. CASE Adopts(k)
      BY <1>3, <3>2 DEF Adopts
    <3> QED BY <2>2, <3>1, <3>2, SyncShape
  <2>3. ASSUME NEW j \in Keys, Answered(j), Current(j) \in Keys, reg'[Current(j)].mid = task[j].mid,
               k # Current(j) => reg'[k] = reg[k]
        PROVE  reg'[k].mid \in Mons /\ kuma'[reg'[k].mid].mark = k
    <3>1. Current(j) = j
      BY <2>3, KeysAssumption DEF Current, AtHome
    <3> QED BY <1>3, <2>1, <2>3, <3>1 DEF MonInv, TaskMarks
  <2>4. ~ (left["move"] > 0)
    BY DEF StayHome
  <2> QED BY <1>5, <2>1, <2>2, <2>3, <2>4, RegShape
<1>6. \A k \in Keys : disk'[k].mid # 0 => disk'[k].mid \in Mons /\ kuma'[disk'[k].mid].mark = k
  BY <1>4, <1>5, RegShape DEF AtHome
<1>7. \A k \in Keys : bak'[k].mid # 0 => bak'[k].mid \in Mons /\ kuma'[bak'[k].mid].mark = k
  BY <1>4, RegShape DEF AtHome
<1> QED BY <1>1, <1>2, <1>5, <1>6, <1>7 DEF AtHome, OwnMark

LEMMA StepUnrecorded ==
    TypeOK /\ TypeOK' /\ TaskInv /\ MonInv /\ NoRestores /\ Unrecorded /\ [Next]_vars
        => (NoRestores /\ Unrecorded)'
<1> SUFFICES ASSUME TypeOK, TypeOK', TaskInv, MonInv, NoRestores, Unrecorded, [Next]_vars
             PROVE  NoRestores' /\ Unrecorded'
  OBVIOUS
<1>1. NoRestores' /\ ~ (left["restore"] > 0)
  BY BudgetShrinks DEF NoRestores, Kinds
<1>2. \A m \in Mons : m # 0 /\ (kuma[m].mark \in Keys => kuma'[m].mark = kuma[m].mark)
  BY MonsMove, BoundAssumption DEF MonInv, Mons
<1>3. /\ reg \in [Keys -> Entry] /\ Gone.mid = 0
      /\ \A k \in Keys : Answered(k) => task[k].mid \in Mons /\ kuma[task[k].mid].mark = k
  BY EntryParts DEF MonInv, TaskMarks, TypeOK, RegType
\* What the registry records is distinct, and marked.
<1>4. ASSUME NEW old \in Keys, NEW new \in Keys, old # new,
             reg' = [reg EXCEPT ![new] = reg[old], ![old] = Gone]
      PROVE  Distinct(reg') /\ \A k \in Keys : \E j \in Keys : reg'[k].mid \in {0, reg[j].mid}
  <2>1. reg'[old].mid = 0 /\ reg'[new].mid = reg[old].mid /\ \A k \in Keys : k \notin {old, new} => reg'[k] = reg[k]
    BY <1>3, <1>4
  <2> QED BY <2>1 DEF Distinct, Unrecorded
<1>5. Distinct(reg')
  <2>1. CASE \A k \in Keys : reg'[k].mid \in {0, reg[k].mid}
    BY <2>1 DEF Distinct, Unrecorded
  <2>2. CASE reg' = disk
    BY <2>2 DEF Unrecorded
  <2>3. CASE SyncApply
    <3>1. Distinct(Corrected)
      BY <2>3, SyncShape DEF Distinct, Unrecorded
    <3> SUFFICES ASSUME NEW j \in Keys, NEW k \in Keys, j # k, reg'[j].mid # 0 PROVE reg'[j].mid # reg'[k].mid
      BY DEF Distinct
    <3>2. CASE reg'[j].mid = Corrected[j].mid /\ reg'[k].mid = Corrected[k].mid
      BY <3>1, <3>2 DEF Distinct
    <3>3. CASE Adopts(j)
      BY <2>3, <3>3, SyncShape DEF Adopts
    <3>4. CASE Adopts(k)
      BY <2>3, <3>4, SyncShape DEF Adopts
    <3> QED BY <2>3, <3>2, <3>3, <3>4, SyncShape
  <2>4. ASSUME NEW k \in Keys, Answered(k), Current(k) \in Keys, reg'[Current(k)].mid = task[k].mid,
               \A j \in Keys : j # Current(k) => reg'[j] = reg[j]
        PROVE  Distinct(reg')
    BY <2>4 DEF Distinct, Unrecorded
  <2> QED BY <1>1, <1>4, <2>1, <2>2, <2>3, <2>4, RegShape
<1>6. ASSUME NEW k \in Keys, reg'[k].mid # 0 PROVE reg'[k].mid \in Mons /\ kuma'[reg'[k].mid].mark \in Keys
  <2>1. ASSUME NEW j \in Keys, reg'[k].mid \in {0, reg[j].mid, disk[j].mid}
        PROVE  reg'[k].mid \in Mons /\ kuma'[reg'[k].mid].mark \in Keys
    BY <1>2, <1>6, <2>1 DEF Unrecorded, SomeMark
  <2>2. CASE SyncApply
    BY <1>2, <2>1, <2>2, SyncShape DEF Adopts
  <2>3. ASSUME NEW j \in Keys, Answered(j), Current(j) \in Keys, reg'[Current(j)].mid = task[j].mid,
               k # Current(j) => reg'[k] = reg[k]
        PROVE  reg'[k].mid \in Mons /\ kuma'[reg'[k].mid].mark \in Keys
    BY <1>2, <1>3, <2>1, <2>3
  <2> QED BY <1>1, <1>4, <2>1, <2>2, <2>3, RegShape
<1>7. Distinct(disk') /\ SomeMark(disk)' /\ SomeMark(reg)'
  <2>1. \A k \in Keys : disk[k].mid # 0 => disk[k].mid \in Mons /\ kuma'[disk[k].mid].mark \in Keys
    BY <1>2 DEF Unrecorded, SomeMark
  <2> QED BY <1>5, <1>6, <2>1, RegShape DEF Unrecorded, SomeMark
\* What a task is about to record is not in it.
<1>8. ASSUME NEW j \in Keys, NEW k \in Keys, Answered(k)' PROVE task'[k].mid # reg'[j].mid
  <2>1. CASE Answered(k) /\ task'[k].mid = task[k].mid
    <3>0. task[k].mid # 0 /\ \A i \in Keys : task[k].mid # reg[i].mid
      BY <1>2, <1>3, <2>1 DEF Unrecorded
    <3>1. CASE \E i \in Keys : reg'[j].mid \in {0, reg[i].mid}
      BY <2>1, <3>0, <3>1
    <3>2. CASE \A i \in Keys : task'[i] = NoTask
      BY <1>8, <3>2 DEF Answered, NoTask, Todo
    <3>3. ~SyncApply
      BY <2>1 DEF SyncApply, TaskInv, TaskPhase, Answered
    <3>4. ASSUME NEW i \in Keys, Answered(i), Store(i), Current(i) \in Keys, reg'[Current(i)].mid = task[i].mid,
                 \A n \in Keys : n # Current(i) => reg'[n] = reg[n]
          PROVE  task'[k].mid # reg'[j].mid
      <4>1. i # k
        BY <1>8, <3>4 DEF Store, Done, Answered, NoTask, Todo, TypeOK, WorkerType
      <4>2. task[i].mid # task[k].mid
        BY <1>3, <2>1, <3>4, <4>1
      <4> QED BY <2>1, <3>0, <3>4, <4>2
    <3> QED BY <1>1, <1>4, <3>1, <3>2, <3>3, <3>4, RegShape
  <2>2. CASE AddOne(k) /\ made < MaxMon /\ task'[k].mid = made + 1
    <3>1. UNCHANGED reg /\ made + 1 \in Mons /\ made \in Nat
      BY <2>2, MonRange, BoundAssumption DEF AddOne, regVars, TypeOK, KumaType
    <3>2. kuma[made + 1].mark = NoKey
      BY <3>1 DEF MonInv, MadeInOrder
    <3> QED BY <1>2, <2>2, <3>1, <3>2, KeysAssumption DEF Unrecorded, SomeMark
  <2>3. CASE ListMarked /\ task'[k].mid \in Marked(Listed, reg, k)
    <3>1. UNCHANGED reg /\ task'[k].mid \in Mons /\ task'[k].mid \notin Owned(reg)
      BY <2>3 DEF ListMarked, regVars, Marked, First
    <3> QED BY <1>2, <3>1 DEF Owned
  <2> QED BY <1>8, <2>1, <2>2, <2>3, AnswerShape
<1> QED BY <1>1, <1>5, <1>7, <1>8 DEF Unrecorded

LEMMA InitOwner == Init /\ (StayHome \/ NoRestores) => OwnerInv
<1> SUFFICES ASSUME Init, StayHome \/ NoRestores PROVE OwnerInv
  OBVIOUS
<1>1. \A k \in Keys : reg[k].mid = 0 /\ disk[k].mid = 0 /\ bak[k].mid = 0 /\ task[k] = NoTask
  BY EntryParts DEF Init
<1>2. \A m \in Mons : kuma[m].mark = NoKey /\ ~kuma[m].there
  BY DEF Init, NoMonitor
<1> QED
  BY <1>1, <1>2, TaskParts
  DEF OwnerInv, MonInv, MadeInOrder, AllMarked, There, TaskMarks, Answered, AtHome, OwnMark, Unrecorded,
      Distinct, SomeMark

\* Two devices are never recorded as having the same monitor, whatever adopting, making monitors,
\* forgetting, pruning, crashing and syncing do: as long as no device moves to its MAC, or no
\* backup is restored (monitoring._sync, _provision, kuma.find_marked).
THEOREM OwnersDiffer == Spec /\ (StayHome \/ NoRestores) => []OneOwner
<1>1. TypeOK /\ TypeOK' /\ TaskInv /\ OwnerInv /\ [Next]_vars => OwnerInv'
  BY StepMon, StepHome, StepUnrecorded DEF OwnerInv
<1>2. OwnerInv => OneOwner
  BY KeysAssumption DEF OwnerInv, AtHome, OwnMark, Unrecorded, Distinct, OneOwner
<1> QED BY <1>1, <1>2, InitOwner, TasksHold, PTL DEF Spec

(***************************************************************************)
(* NoSecondMonitor, where no device moves and no backup is restored. What  *)
(* is about to be made has nothing recorded for its key (a monitor with    *)
(* the key's marker would be its own entry's, since entries are at home);  *)
(* after the list of kuma.provision_many's caller no monitor carries its   *)
(* marker, and nobody else makes one until it is made.                     *)
(***************************************************************************)
LEMMA Least == ASSUME NEW S, S \subseteq Nat, S # {} PROVE \E m \in S : \A n \in S : m <= n
<1> DEFINE Less == {p \in Nat \X Nat : p[1] < p[2]}
<1>1. IsWellFoundedOn(Less, Nat)
  BY NatLessThanWellFounded DEF OpToRel
<1>2. PICK m \in S : \A n \in S : ~ (<<n, m>> \in Less)
  <2> HIDE DEF Less
  <2> QED BY <1>1, WFMin
<1>3. ASSUME NEW n \in S PROVE ~ (n < m)
  <2>1. <<n, m>> \in Nat \X Nat /\ <<n, m>>[1] = n /\ <<n, m>>[2] = m
    OBVIOUS
  <2> QED BY <1>2, <2>1
<1> QED BY <1>3, SMT

Unmade(k) == task[k].kind = "create" /\ task[k].res = "todo"
Adding    == wpc \in {"add", "adding"}

OneEach       == \A m, n \in There : kuma[m].mark = kuma[n].mark => m = n
UnmadeOwnNone == \A k \in Keys : Unmade(k) => reg[k].mid = 0
NoneFound     == Adding => \A k \in Keys : Unmade(k) => \A m \in There : kuma[m].mark # k

MakeInv == OneEach /\ UnmadeOwnNone /\ NoneFound

\* A list that shows no unowned monitor with k's marker shows that Kuma has none, when k's entry
\* records none.
LEMMA NoneMarked ==
    ASSUME TypeOK, OwnMark(reg), NEW k \in Keys, reg[k].mid = 0, Marked(Listed, reg, k) = {}
    PROVE  \A m \in There : kuma[m].mark # k
<1> DEFINE S == {m \in Mons : Listed[m] # "absent" /\ kuma[m].mark = k /\ m \notin Owned(reg)}
<1>1. S = {}
  <2>1. S \subseteq Nat
    BY DEF Mons
  <2>2. \A m \in S : m \in Nat
    BY <2>1
  <2>3. ~ \E m \in S : \A n \in S : m <= n
    BY DEF Marked, First
  <2> HIDE DEF S
  <2> QED BY <2>1, <2>3, Least
<1>2. ASSUME NEW m \in There, kuma[m].mark = k PROVE FALSE
  <2>1. m \in Mons /\ Listed[m] # "absent"
    BY <1>2 DEF There, Listed
  <2>2. PICK j \in Keys : reg[j].mid = m /\ m # 0
    BY <1>1, <1>2, <2>1 DEF Owned
  <2>3. j = k
    BY <1>2, <2>2 DEF OwnMark
  <2> QED BY <2>2, <2>3
<1> QED BY <1>2

\* A task about to make a monitor was so before, or its entry records none now; the worker only
\* comes to making them by a list without k's marker.
LEMMA UnmadeShape ==
    ASSUME TypeOK, TaskInv, AtHome, StayHome, [Next]_vars, NEW k \in Keys, Unmade(k)'
    PROVE  \/ Unmade(k) /\ (Adding' => Adding \/ (ListMarked /\ Marked(Listed, reg, k) = {}))
           \/ reg'[k].mid = 0 /\ ~Adding'
<1> DEFINE Goal == \/ Unmade(k) /\ (Adding' => Adding \/ (ListMarked /\ Marked(Listed, reg, k) = {}))
                   \/ reg'[k].mid = 0 /\ ~Adding'
<1>0. task \in [Keys -> Task] /\ reg \in [Keys -> Entry]
  BY DEF TypeOK, WorkerType, RegType
<1>1. CASE UNCHANGED task /\ (Adding' => Adding)
  BY <1>1 DEF Unmade
<1>2. CASE task'[k] = NoTask
  BY <1>2 DEF Unmade, NoTask, Todo
<1>3. ASSUME NEW K, task' = Unlinked(K), Adding' => Adding PROVE Goal
  <2>1. task'[k].kind = task[k].kind /\ task'[k].res = task[k].res
    BY <1>0, <1>3 DEF Unlinked, Task
  <2> QED BY <1>3, <2>1 DEF Unmade
<1>4. CASE task'[k].res # "todo"
  BY <1>4 DEF Unmade
<1>5. ASSUME NEW j \in Keys, NEW t, task' = [task EXCEPT ![j] = t], k # j, Adding' => Adding PROVE Goal
  BY <1>0, <1>5 DEF Unmade
<1>6. CASE Plan
  <2>1. UNCHANGED task \/ task'[k] = NoTask \/ (task'[k] = Todo(Need(reg, k), reg[k].mid, k))
    BY <1>6 DEF Plan
  <2>2. UNCHANGED reg /\ ~Adding'
    BY <1>6 DEF Plan, regVars, Adding
  <2>3. CASE task'[k] = Todo(Need(reg, k), reg[k].mid, k)
    <3>1. Need(reg, k) = "create"
      BY <2>3 DEF Unmade, Todo
    <3> QED BY <2>2, <3>1 DEF Need
  <2> QED BY <1>1, <1>2, <2>1, <2>2, <2>3
<1>7. CASE ToggleConnect \/ AddConnect
  <2>1. task'[k] = task[k] \/ task'[k] = [task[k] EXCEPT !.res = "down"]
    BY <1>7 DEF ToggleConnect, AddConnect
  <2>2. task'[k] = task[k] \/ task'[k].res = "down"
    BY <1>0, <2>1 DEF Task
  <2>3. Adding' => Adding
    BY <1>7 DEF ToggleConnect, AddConnect, Adding
  <2> QED BY <1>4, <2>2, <2>3 DEF Unmade
<1>8. ASSUME NEW j \in Keys, ToggleOne(j) PROVE Goal
  <2>1. PICK r \in {"ok", "gone", "err"} : task' = [task EXCEPT ![j] = [task[j] EXCEPT !.res = r]]
    BY <1>0, <1>8 DEF ToggleOne, Answer
  <2>2. Adding' => Adding
    BY <1>8 DEF ToggleOne, Adding
  <2>3. CASE k = j
    <3>1. task'[k].res = r
      BY <1>0, <2>1, <2>3 DEF Task
    <3> QED BY <1>4, <3>1
  <2> QED BY <1>5, <2>1, <2>2, <2>3
<1>9. ASSUME NEW j \in Keys, NoteToggle(j) PROVE Goal
  <2>1. ~Adding'
    BY <1>9 DEF NoteToggle, Adding
  <2>2. CASE task' = [task EXCEPT ![j] = NoTask]
    BY <1>0, <1>2, <1>5, <2>1, <2>2
  <2>3. CASE /\ Current(j) # NoKey /\ reg' = [reg EXCEPT ![Current(j)] = WithMonitor(reg[Current(j)], 0, "absent")]
             /\ task' = [task EXCEPT ![j] = Todo("create", 0, Current(j))]
    <3>1. Current(j) = j
      BY <2>3 DEF Current, AtHome
    <3>2. reg'[j].mid = 0
      BY <1>0, <2>3, <3>1, EntryParts
    <3> QED BY <1>5, <2>1, <2>3, <3>2
  <2>4. \/ task' = [task EXCEPT ![j] = NoTask]
        \/ /\ Current(j) # NoKey /\ reg' = [reg EXCEPT ![Current(j)] = WithMonitor(reg[Current(j)], 0, "absent")]
           /\ task' = [task EXCEPT ![j] = Todo("create", 0, Current(j))]
    BY <1>0, <1>9 DEF NoteToggle
  <2> QED BY <2>2, <2>3, <2>4
<1>10. CASE ToggleRefused \/ Restart
  BY <1>2, <1>10 DEF ToggleRefused, Restart
<1>11. CASE ListMarked
  <2>1. CASE ListRead
    <3> DEFINE mon == CHOOSE m \in Marked(Listed, reg, k) : TRUE
               res == IF kuma[mon].active THEN "adopt" ELSE "adoptPaused"
    <3>1. \/ task'[k] = NoTask
          \/ task'[k] = task[k] /\ (task[k].kind # "create" \/ Marked(Listed, reg, k) = {})
          \/ task'[k] = WithAnswer(task[k], mon, res)
      BY <1>11, <2>1 DEF ListMarked, Creates
    <3>2. res # "todo"
      OBVIOUS
    <3> HIDE DEF mon, res
    <3>3. WithAnswer(task[k], mon, res).res = res
      BY <1>0 DEF WithAnswer, Task
    <3> QED BY <1>2, <1>4, <1>11, <3>1, <3>2, <3>3 DEF Unmade
  <2>2. CASE task' = [j \in Keys |-> NoTask]
    BY <1>2, <2>2
  <2> QED BY <1>11, <2>1, <2>2 DEF ListMarked
<1>12. ASSUME NEW j \in Keys, AddOne(j) PROVE Goal
  <2>1. Adding
    BY <1>12 DEF AddOne, Adding
  <2>2. PICK t : task' = [task EXCEPT ![j] = t] /\ (t = WithAnswer(task[j], made + 1, "ok") \/ t = [task[j] EXCEPT !.res = "err"])
    BY <1>0, <1>12 DEF AddOne, Answer
  <2>3. t.res # "todo"
    BY <1>0, <2>2 DEF WithAnswer, Task
  <2>4. CASE k = j
    BY <1>0, <1>4, <2>2, <2>3, <2>4
  <2> QED BY <1>5, <2>1, <2>2, <2>4
<1>13. ASSUME NEW j \in Keys, StoreFailed(j) \/ Store(j) \/ StoreForgotten(j) PROVE Goal
  <2>1. task' = [task EXCEPT ![j] = NoTask] /\ ~Adding'
    BY <1>13 DEF StoreFailed, Store, StoreForgotten, Done, Adding
  <2> QED BY <1>0, <1>2, <1>5, <2>1
<1>14. CASE Worker
  BY <1>1, <1>6, <1>7, <1>8, <1>9, <1>10, <1>11, <1>12, <1>13, <1>14
  DEF Worker, Take, SyncRead, SyncApply, Save, Adding
<1>15. CASE Background
  BY <1>1, <1>3, <1>15 DEF Background, ForgetDrop, ForgetRemove, DeleteDoomed, workerVars, Adding
<1>16. CASE Time \/ KumaSide
  BY <1>1, <1>16
  DEF Time, SyncElapses, RetryElapses, KumaSide, KumaFails, KumaRecovers, UIDelete, UIToggle, workerVars, Adding
<1>17. CASE Operator
  BY <1>1, <1>3, <1>10, <1>17
  DEF Operator, ForgetRead, Switch, Prune, Tidy, SaveSettings, Restore, TakeBackup, FollowKuma, workerVars, Adding
<1>18. ~ \E p \in Rekeys : Rekey(p[1], p[2])
  BY DEF Rekey, Spend, TypeOK, LeftType, StayHome
<1>19. CASE Scan
  BY <1>1, <1>18, <1>19 DEF Scan, Reconcile, Appear, FollowKuma, workerVars, Adding
<1> QED BY <1>1, <1>14, <1>15, <1>16, <1>17, <1>19 DEF Next, vars, workerVars, Adding

LEMMA StepMake ==
    TypeOK /\ TypeOK' /\ TaskInv /\ MonInv /\ StayHome /\ AtHome /\ NoRestores /\ MakeInv /\ [Next]_vars
        => MakeInv'
<1> SUFFICES ASSUME TypeOK, TypeOK', TaskInv, MonInv, StayHome, AtHome, NoRestores, MakeInv, [Next]_vars
             PROVE  MakeInv'
  OBVIOUS
<1>1. /\ \A m \in There : m \in Mons /\ kuma'[m].mark = kuma[m].mark
      /\ \A m \in There' : m \in There \/ (m = made + 1 /\ \E k \in Keys : AddOne(k) /\ kuma'[m].mark = k)
  BY MonsMove DEF MonInv, AllMarked, There
<1>2. ASSUME NEW k \in Keys, AddOne(k) PROVE Adding /\ Unmade(k) /\ \A m \in There : kuma[m].mark # k
  BY <1>2 DEF AddOne, Adding, Unmade, Unanswered, Creates, MakeInv, NoneFound
<1>3. OneEach'
  BY <1>1, <1>2 DEF MakeInv, OneEach
<1>4. ASSUME NEW k \in Keys, Unmade(k)' PROVE reg'[k].mid = 0
  <2>1. CASE Unmade(k)
    <3>0. reg[k].mid = 0
      BY <2>1 DEF MakeInv, UnmadeOwnNone
    <3>1. task'[k] # NoTask
      BY <1>4 DEF Unmade, NoTask, Todo
    <3>2. ~SyncApply
      BY <2>1 DEF SyncApply, TaskInv, TaskPhase, Unmade
    <3>3. ASSUME NEW j \in Keys, Store(j), \A i \in Keys : i # Current(j) => reg'[i] = reg[i]
          PROVE  reg'[k].mid = 0
      <4>1. Current(j) = j
        BY <3>3 DEF Store, Current, AtHome
      <4>2. k # j
        BY <2>1, <3>3 DEF Store, Unmade
      <4> QED BY <3>0, <3>3, <4>1, <4>2
    <3>4. ~ (left["restore"] > 0) /\ ~ (left["move"] > 0)
      BY DEF NoRestores, StayHome
    <3> QED BY <3>0, <3>1, <3>2, <3>3, <3>4, RegShape
  <2> QED BY <1>4, <2>1, UnmadeShape
<1>5. ASSUME Adding', NEW k \in Keys, Unmade(k)', NEW m \in There' PROVE kuma'[m].mark # k
  <2>1. Unmade(k) /\ (Adding \/ (ListMarked /\ Marked(Listed, reg, k) = {}))
    BY <1>5, UnmadeShape
  <2>2. \A n \in There : kuma[n].mark # k
    BY <2>1, NoneMarked DEF MakeInv, UnmadeOwnNone, NoneFound, AtHome
  <2>3. ~AddOne(k)
    <3>1. task \in [Keys -> Task]
      BY DEF TypeOK, WorkerType
    <3>2. \A r \in {"ok", "err"} : WithAnswer(task[k], made + 1, r).res = r /\ [task[k] EXCEPT !.res = r].res = r
      BY <3>1 DEF WithAnswer, Task
    <3> QED BY <1>5, <3>1, <3>2 DEF AddOne, Answer, Unmade
  <2> QED BY <1>1, <2>2, <2>3
<1> QED BY <1>3, <1>4, <1>5 DEF MakeInv, UnmadeOwnNone, NoneFound

\* Where no device moves and no backup is restored, Kuma never has two monitors that carry one
\* device's marker, whatever replies are lost and whenever the worker is stopped
\* (monitoring._provision, kuma.find_marked).
THEOREM NoSecondIsMade == Spec /\ StayHome /\ NoRestores => []NoSecondMonitor
<1> DEFINE Inv == MonInv /\ StayHome /\ NoRestores /\ AtHome /\ MakeInv
<1>1. Init /\ StayHome /\ NoRestores => Inv
  <2> SUFFICES ASSUME Init, StayHome, NoRestores PROVE Inv
    OBVIOUS
  <2>1. \A k \in Keys : ~Unmade(k)
    BY DEF Init, Unmade, NoTask, Todo
  <2>2. There = {} /\ ~Adding
    BY DEF Init, There, NoMonitor, Adding
  <2>3. MakeInv
    BY <2>1, <2>2 DEF MakeInv, OneEach, UnmadeOwnNone, NoneFound
  <2>4. MonInv /\ AtHome
    <3>1. \A k \in Keys : reg[k].mid = 0 /\ disk[k].mid = 0 /\ bak[k].mid = 0 /\ task[k] = NoTask
      BY EntryParts DEF Init
    <3>2. \A m \in Mons : kuma[m].mark = NoKey /\ ~kuma[m].there
      BY DEF Init, NoMonitor
    <3> QED BY <3>1, <3>2, TaskParts
        DEF MonInv, MadeInOrder, AllMarked, There, TaskMarks, Answered, AtHome, OwnMark
  <2> QED BY <2>3, <2>4
<1>2. TypeOK /\ TypeOK' /\ TaskInv /\ Inv /\ [Next]_vars => Inv'
  <2>1. TypeOK /\ NoRestores /\ [Next]_vars => NoRestores'
    BY BudgetShrinks DEF NoRestores, Kinds
  <2> QED BY <2>1, StepMon, StepHome, StepMake
<1>3. Inv => NoSecondMonitor
  BY DEF MakeInv, OneEach, NoSecondMonitor
<1> QED BY <1>1, <1>2, <1>3, TasksHold, PTL DEF Spec

(***************************************************************************)
(* RecordedExists, where nobody deletes monitors in Kuma's own UI or       *)
(* tidies them away, no device moves and no backup is restored, and where  *)
(* devices either all remain or, once forgotten or pruned, are not seen    *)
(* again and Netwatch does not restart: a list of monitors read before a   *)
(* deletion then has nobody to give the deleted one back to. Entries are   *)
(* at home, so it is enough that a monitor with a device's marker is only  *)
(* ever deleted once the device has no entry or is about to lose it        *)
(* (GoneAway), which whoever deletes one can tell (DropsOwn, DoomsGone).   *)
(***************************************************************************)
ForGood == left["seen"] = 0 /\ left["crash"] = 0
Remain  == left["forget"] = 0 /\ left["prune"] = 0
HandsOff == NoRestores /\ left["ui"] = 0 /\ left["tidy"] = 0

Forgetting(k) == forget.step = "remove" /\ forget.key = k
Away(k)       == ~Known(k) \/ Forgetting(k)

Blank(r)     == \A k \in Keys : r[k].watch = "none" => r[k].mid = 0
ListedKnown  == \A k \in live : Known(k)
DropsOwn     == forget.step = "drop" => /\ forget.key \in Keys
                                        /\ forget.mid \in Mons => kuma[forget.mid].mark = forget.key
DoomsGone    == \A m \in doomed : kuma[m].mark \in Keys /\ ~Known(kuma[m].mark)
GoneAway     == \A m \in Mons : kuma[m].mark \in Keys /\ ~kuma[m].there => Away(kuma[m].mark)

NobodyDeletes == forget.step = "idle" /\ doomed = {}
Linked        == \A k \in Keys : task[k].kind # "none" => task[k].at # NoKey
NoneGone      == \A m \in Mons : kuma[m].mark \in Keys => kuma[m].there

GoneInv == /\ Blank(reg) /\ Blank(disk)
           /\ \/ ForGood /\ ListedKnown /\ DropsOwn /\ DoomsGone /\ GoneAway
              \/ Remain /\ NobodyDeletes /\ Linked /\ NoneGone

\* Which entries come, and that where there is none no monitor is recorded.
Comes(k) == Known(k)' => Known(k) \/ k \in live \/ left["seen"] > 0 \/ left["crash"] > 0
Goes(k)  == Known(k) => \/ Known(k)'
                        \/ k = forget.key /\ ForgetRemove
                        \/ k \notin live' /\ left["prune"] > 0
                        \/ left["crash"] > 0

LEMMA KnownShape ==
    ASSUME TypeOK, TaskInv, StayHome, NoRestores, Blank(reg), Blank(disk), [Next]_vars
    PROVE  Blank(reg)' /\ Blank(disk)' /\ \A k \in Keys : Comes(k) /\ Goes(k)
<1> DEFINE Goal == Blank(reg)' /\ \A k \in Keys : Comes(k) /\ Goes(k)
<1> USE DEF Comes, Goes
<1>11. UNCHANGED disk \/ disk' = reg'
  BY DEF Next, Worker, Take, SyncRead, SyncApply, Plan, ToggleConnect, ToggleOne, ToggleRefused, NoteToggle, ListMarked,
      AddConnect, AddOne, StoreFailed, Store, StoreForgotten, Save, Background, ForgetDrop, ForgetRemove, DeleteDoomed,
      Time, SyncElapses, RetryElapses, Operator, ForgetRead, Switch, Prune, Tidy, SaveSettings, Restore, TakeBackup,
      Restart, Scan, Reconcile, Appear, Rekey, KumaSide, KumaFails, KumaRecovers, UIDelete, UIToggle, vars, regVars
<1> SUFFICES Goal
  BY <1>11 DEF Blank
<1>0. /\ reg \in [Keys -> Entry] /\ disk \in [Keys -> Entry] /\ task \in [Keys -> Task]
      /\ left \in [Kinds -> Nat]
  BY DEF TypeOK, RegType, WorkerType, LeftType
<1>1. CASE UNCHANGED reg
  BY <1>1 DEF Blank, Known
<1>2. ASSUME \A k \in Keys : reg'[k].watch = reg[k].watch,
             \A k \in Keys : reg'[k].watch = "none" => reg'[k].mid \in {0, reg[k].mid}
      PROVE  Goal
  BY <1>2 DEF Blank, Known
<1>3. ASSUME NEW K, reg' = Dropped(K),
             \A k \in Keys : k \in K => (k = forget.key /\ ForgetRemove) \/ (k \notin live' /\ left["prune"] > 0)
      PROVE  Goal
  BY <1>3 DEF Dropped, Gone, Blank, Known
<1>4. ASSUME NEW c, NEW m, NEW s, c \in Keys => Known(c), reg' = [reg EXCEPT ![c] = WithMonitor(reg[c], m, s)]
      PROVE  Goal
  <2>1. \A k \in Keys : reg'[k].watch = reg[k].watch
    BY <1>0, <1>4, WatchKept
  <2>2. \A k \in Keys : reg'[k].watch = "none" => reg'[k] = reg[k]
    BY <1>0, <1>4, <2>1 DEF Known
  <2> QED BY <1>2, <2>1, <2>2
<1>5. ASSUME NEW k \in Keys PROVE Current(k) \in Keys => Known(Current(k))
  BY DEF Current, TaskInv, TaskLinked
<1>6. CASE SyncApply
  <2>1. \A k \in Keys : Corrected[k] \in Entry /\ Corrected[k].mid \in {0, reg[k].mid} /\ Corrected[k].watch = reg[k].watch
    BY <1>0, EntryTypes, EntryParts, WatchKept, MonRange DEF Corrected
  <2>2. ASSUME NEW k \in Keys
        PROVE  reg'[k].watch = reg[k].watch /\ (reg'[k].watch = "none" => reg'[k].mid \in {0, reg[k].mid})
    <3>1. \/ reg'[k] = Corrected[k]
          \/ Corrected[k].watch # "none" /\ \E m, s : reg'[k] = WithMonitor(Corrected[k], m, s)
      BY <1>6 DEF SyncApply, AdoptedBySync
    <3> QED BY <2>1, <3>1, WatchKept
  <2> QED BY <1>2, <2>2
<1>7. CASE Worker
  <2>1. ASSUME NEW k \in Keys, NoteToggle(k) PROVE Goal
    <3>1. UNCHANGED reg \/ \E m, s : reg' = [reg EXCEPT ![Current(k)] = WithMonitor(reg[Current(k)], m, s)]
      BY <1>0, <2>1 DEF NoteToggle
    <3> QED BY <1>1, <1>4, <1>5, <3>1
  <2>2. ASSUME NEW k \in Keys, Store(k) PROVE Goal
    <3>1. \E m, s : reg' = [reg EXCEPT ![Current(k)] = WithMonitor(reg[Current(k)], m, s)]
      BY <1>0, <2>2 DEF Store
    <3> QED BY <1>4, <1>5, <3>1
  <2>3. UNCHANGED reg \/ SyncApply \/ (\E k \in Keys : NoteToggle(k)) \/ (\E k \in Keys : Store(k))
    BY <1>7 DEF Worker, Take, SyncRead, Plan, ToggleConnect, ToggleOne, ToggleRefused, ListMarked,
          AddConnect, AddOne, StoreFailed, StoreForgotten, Save, regVars
  <2> QED BY <1>1, <1>6, <2>1, <2>2, <2>3
<1>8. CASE Background \/ Time \/ KumaSide
  <2>1. UNCHANGED reg \/ ForgetRemove
    BY <1>8 DEF Background, ForgetDrop, DeleteDoomed, Time, SyncElapses, RetryElapses,
          KumaSide, KumaFails, KumaRecovers, UIDelete, UIToggle, regVars
  <2>2. ForgetRemove => reg' = Dropped({forget.key})
    BY DEF ForgetRemove
  <2> QED BY <1>1, <1>3, <2>1, <2>2
<1>9. CASE Operator
  <2>1. ASSUME NEW k \in Keys, NEW want \in BOOLEAN, Switch(k, want) PROVE Goal
    <3> DEFINE flag == IF want THEN "on" ELSE "off"
    <3>1. /\ reg' = [reg EXCEPT ![k].watch = flag] /\ (Known(k) \/ k \in live)
          /\ flag # "none"
      BY <2>1 DEF Switch
    <3> HIDE DEF flag
    <3>2. reg'[k].watch = flag /\ \A j \in Keys : j # k => reg'[j] = reg[j]
      BY <1>0, <3>1 DEF Entry
    <3> QED BY <3>1, <3>2 DEF Blank, Known
  <2>2. ASSUME NEW victims \in SUBSET live, Prune(victims) PROVE Goal
    <3>1. reg' = Dropped(victims) /\ live' = live \ victims /\ left["prune"] > 0
      BY <2>2 DEF Prune, Spend
    <3> QED BY <1>3, <3>1
  <2>3. CASE Restart
    BY <2>3 DEF Restart, Spend, Blank
  <2>4. ~ \E older \in BOOLEAN : Restore(older)
    BY DEF Restore, Spend, NoRestores
  <2>5. \/ UNCHANGED reg \/ (\E victims \in SUBSET live : Prune(victims)) \/ Restart
        \/ \E k \in Keys, want \in BOOLEAN : Switch(k, want)
    BY <1>9, <2>4 DEF Operator, ForgetRead, Tidy, SaveSettings, TakeBackup, regVars
  <2> QED BY <1>1, <2>1, <2>2, <2>3, <2>5
<1>10. CASE Scan
  <2>1. ASSUME NEW k \in Keys, Appear(k) PROVE Goal
    <3>1. left["seen"] > 0 /\ (UNCHANGED reg \/ (~Known(k) /\ reg' = [reg EXCEPT ![k] = Fresh]))
      BY <2>1 DEF Appear, Spend
    <3>2. CASE ~Known(k) /\ reg' = [reg EXCEPT ![k] = Fresh]
      BY <1>0, <3>1, <3>2, EntryParts DEF Blank, Known
    <3> QED BY <1>1, <3>1, <3>2
  <2>2. ~ \E p \in Rekeys : Rekey(p[1], p[2])
    BY DEF Rekey, Spend, StayHome
  <2> QED BY <1>1, <1>10, <2>1, <2>2 DEF Scan, Reconcile, regVars
<1> QED BY <1>1, <1>7, <1>8, <1>9, <1>10, SMTT(30) DEF Next, vars, regVars

\* Who deletes a monitor, where nobody does in Kuma's own UI.
LEMMA DeleteShape ==
    ASSUME TypeOK, HandsOff, [Next]_vars, NEW m \in Mons, kuma[m].there, ~kuma'[m].there
    PROVE  \/ ForgetDrop /\ m = forget.mid
           \/ m \in doomed
           \/ \E k \in Keys : StoreForgotten(k) /\ m = task[k].mid
<1>0. kuma \in [Mons -> Monitor] /\ kuma # kuma'
  BY DEF TypeOK, KumaType
<1>1. ASSUME NEW n, Deprovision(n) PROVE m = n
  <2>1. kuma' = kuma \/ kuma' = Deleted(n)
    BY <1>1 DEF Deprovision
  <2> QED BY <1>0, <2>1 DEF Deleted
<1>2. ASSUME NEW n, NEW b, kuma' = [kuma EXCEPT ![n].active = b] PROVE FALSE
  BY <1>0, <1>2 DEF Monitor
<1>3. ASSUME NEW k \in Keys, ToggleOne(k) PROVE FALSE
  <2>1. kuma' = kuma \/ \E b : kuma' = [kuma EXCEPT ![task[k].mid].active = b]
    BY <1>3 DEF ToggleOne
  <2> QED BY <1>0, <1>2, <2>1
<1>4. ASSUME NEW k \in Keys, AddOne(k) PROVE FALSE
  <2>1. kuma' = kuma \/ kuma' = [kuma EXCEPT ![made + 1] = NewMonitor(k)]
    BY <1>4 DEF AddOne
  <2> QED BY <1>0, <2>1 DEF NewMonitor
<1>5. CASE Worker
  <2>1. \/ UNCHANGED kuma
        \/ \E k \in Keys : ToggleOne(k) \/ AddOne(k) \/ StoreForgotten(k)
    BY <1>5 DEF Worker, Take, SyncRead, SyncApply, Plan, ToggleConnect, ToggleRefused, NoteToggle, ListMarked,
        AddConnect, StoreFailed, Store, Save, kumaVars
  <2>2. ASSUME NEW k \in Keys, StoreForgotten(k) PROVE m = task[k].mid
    BY <1>1, <2>2 DEF StoreForgotten
  <2> QED BY <1>0, <1>3, <1>4, <2>1, <2>2
<1>6. CASE Background
  BY <1>0, <1>1, <1>6 DEF Background, ForgetDrop, ForgetRemove, DeleteDoomed, kumaVars
<1>7. CASE Time \/ Operator \/ Scan
  BY <1>0, <1>7
  DEF Time, SyncElapses, RetryElapses, Operator, ForgetRead, Switch, Prune, Tidy, SaveSettings, Restore,
      TakeBackup, Restart, Scan, Reconcile, Appear, Rekey, kumaVars
<1>8. CASE KumaSide
  BY <1>0, <1>8 DEF KumaSide, KumaFails, KumaRecovers, UIDelete, UIToggle, Spend, HandsOff
<1> QED BY <1>0, <1>5, <1>6, <1>7, <1>8 DEF Next, vars, kumaVars

\* A monitor that is not there has had its marker before.
LEMMA MarkShape ==
    ASSUME TypeOK, MadeInOrder, AllMarked, [Next]_vars, NEW m \in Mons, kuma'[m].mark \in Keys, ~kuma'[m].there
    PROVE  kuma[m].mark = kuma'[m].mark
<1>0. kuma \in [Mons -> Monitor]
  BY DEF TypeOK, KumaType
<1>1. CASE \E n \in Mons : kuma' = Deleted(n)
  BY <1>0, <1>1 DEF Deleted, Monitor
<1>2. CASE \E n \in Mons, b \in BOOLEAN : kuma' = [kuma EXCEPT ![n].active = b]
  BY <1>0, <1>2 DEF Monitor
<1>3. CASE \E k \in Keys : kuma' = [kuma EXCEPT ![made + 1] = NewMonitor(k)]
  BY <1>0, <1>3 DEF NewMonitor
<1> QED BY <1>1, <1>2, <1>3, KumaShape

\* Who forgets, dooms and lists.
LEMMA OpShape ==
    ASSUME TypeOK, StayHome, HandsOff, [Next]_vars
    PROVE  /\ UNCHANGED forget \/ (\E k \in Keys : ForgetRead(k)) \/ ForgetDrop \/ ForgetRemove
              \/ (forget' = ForgetIdle /\ left["crash"] > 0)
           /\ doomed' \subseteq doomed \/ \E victims \in SUBSET live : Prune(victims)
           /\ live' \subseteq live \/ left["seen"] > 0
<1>0. live \subseteq Keys /\ left \in [Kinds -> Nat]
  BY SMTT(30) DEF TypeOK, RegType, LeftType
<1>1. CASE Worker
  BY <1>1 DEF Worker, Take, SyncRead, SyncApply, Plan, ToggleConnect, ToggleOne, ToggleRefused, NoteToggle, ListMarked,
      AddConnect, AddOne, StoreFailed, Store, StoreForgotten, Save, opVars, regVars
<1>2. CASE Background \/ Time \/ KumaSide
  BY <1>2 DEF Background, ForgetDrop, ForgetRemove, DeleteDoomed, Time, SyncElapses, RetryElapses,
      KumaSide, KumaFails, KumaRecovers, UIDelete, UIToggle, opVars, regVars
<1>3. CASE Operator
  <2>1. ~ (\E picked \in SUBSET There : Tidy(picked)) /\ ~ (\E b \in BOOLEAN : Restore(b))
    BY DEF Tidy, Restore, Spend, HandsOff, NoRestores
  <2>2. CASE Restart
    BY <2>2 DEF Restart, Spend, regVars
  <2>3. CASE \E victims \in SUBSET live : Prune(victims)
    BY <2>3 DEF Prune
  <2>4. CASE \E k \in Keys : ForgetRead(k)
    BY <2>4 DEF ForgetRead, regVars
  <2>5. CASE TakeBackup \/ (\E b \in BOOLEAN : SaveSettings(b)) \/ \E k \in Keys, want \in BOOLEAN : Switch(k, want)
    BY <2>5 DEF TakeBackup, SaveSettings, Switch, opVars, regVars
  <2> QED BY <1>3, <2>1, <2>2, <2>3, <2>4, <2>5 DEF Operator
<1>4. CASE Scan
  BY <1>4 DEF Scan, Reconcile, Appear, Rekey, Spend, StayHome, opVars, regVars
<1> QED BY <1>1, <1>2, <1>3, <1>4 DEF Next, vars, opVars, regVars

\* Devices that go, go for good.
LEMMA StepForGood ==
    ASSUME TypeOK, TypeOK', TaskInv, MonInv, StayHome, AtHome, HandsOff, Blank(reg), Blank(disk), [Next]_vars,
           ForGood, ListedKnown, DropsOwn, DoomsGone, GoneAway
    PROVE  (ForGood /\ ListedKnown /\ DropsOwn /\ DoomsGone /\ GoneAway)'
<1>0. /\ \A m \in Mons : kuma[m].mark \in Keys => kuma'[m].mark = kuma[m].mark
      /\ ~ (left["crash"] > 0) /\ ~ (left["seen"] > 0) /\ NoRestores /\ doomed \subseteq Mons
  BY MonsMove DEF MonInv, ForGood, HandsOff, TypeOK, OpType
<1>1. ForGood'
  BY BudgetShrinks DEF ForGood, Kinds
<1>2. \A k \in Keys : ~Known(k) => ~Known(k)'
  BY <1>0, KnownShape DEF Comes, Goes, ListedKnown
<1>3. \A k \in Keys : ForgetRemove /\ k = forget.key => ~Known(k)' /\ k \notin live'
  BY DEF ForgetRemove, Dropped, Known, Gone
<1>4. live' \subseteq live /\ live \subseteq Keys
  BY <1>0, OpShape DEF TypeOK, RegType
<1>5. ListedKnown'
  BY <1>0, <1>3, <1>4, KnownShape DEF Comes, Goes, ListedKnown
<1>6. DropsOwn'
  <2>1. CASE UNCHANGED forget
    BY <1>0, <2>1 DEF DropsOwn
  <2>2. ASSUME NEW k \in Keys, ForgetRead(k) PROVE DropsOwn'
    <3>1. forget'.key = k /\ forget'.mid = reg[k].mid /\ UNCHANGED kuma /\ (forget'.step = "drop" => reg[k].mid # 0)
      BY <2>2 DEF ForgetRead, kumaVars
    <3> QED BY <3>1 DEF DropsOwn, AtHome, OwnMark
  <2>3. CASE ForgetDrop \/ ForgetRemove
    BY <2>3 DEF ForgetDrop, ForgetRemove, ForgetIdle, DropsOwn, TypeOK, OpType, ForgetState
  <2> QED BY <1>0, <2>1, <2>2, <2>3, OpShape
<1>7. DoomsGone'
  <2>1. \A m \in doomed : kuma'[m].mark \in Keys /\ ~Known(kuma[m].mark)'
    BY <1>0, <1>2 DEF DoomsGone
  <2>2. ASSUME NEW victims \in SUBSET live, Prune(victims), NEW m \in doomed' \ doomed
        PROVE  kuma'[m].mark \in Keys /\ ~Known(kuma[m].mark)'
    <3>1. m \in Monitors(victims) /\ UNCHANGED kuma /\ reg' = Dropped(victims)
      BY <2>2 DEF Prune, kumaVars
    <3>2. PICK k \in victims : m = reg[k].mid /\ m # 0
      BY <3>1 DEF Monitors
    <3>3. k \in Keys /\ kuma[m].mark = k
      BY <1>4, <3>2 DEF AtHome, OwnMark
    <3> QED BY <3>1, <3>2, <3>3 DEF Dropped, Known, Gone
  <2> QED BY <2>1, <2>2, OpShape DEF DoomsGone
<1>8. GoneAway'
  <2> SUFFICES ASSUME NEW m \in Mons, kuma'[m].mark \in Keys, ~kuma'[m].there PROVE Away(kuma[m].mark)'
    BY DEF GoneAway
  <2>1. kuma'[m].mark = kuma[m].mark
    BY MarkShape DEF MonInv
  <2> DEFINE k == kuma[m].mark
  <2>2. CASE ~Known(k)
    BY <1>2, <2>1, <2>2 DEF Away
  <2>3. CASE Forgetting(k)
    <3>1. CASE UNCHANGED forget
      BY <2>1, <2>3, <3>1 DEF Away, Forgetting
    <3>2. CASE ForgetRemove
      BY <1>3, <2>1, <2>3, <3>2 DEF Away, Forgetting
    <3> QED BY <1>0, <2>3, <3>1, <3>2, OpShape DEF Forgetting, ForgetRead, ForgetDrop
  <2>4. CASE kuma[m].there
    <3>1. CASE ForgetDrop /\ m = forget.mid
      BY <2>1, <3>1 DEF ForgetDrop, DropsOwn, Away, Forgetting, TypeOK, OpType, ForgetState
    <3>2. CASE m \in doomed
      BY <2>2, <3>2 DEF DoomsGone
    <3>3. ASSUME NEW j \in Keys, StoreForgotten(j), m = task[j].mid PROVE ~Known(k)
      <4>1. Answered(j)
        BY <3>3 DEF StoreForgotten, Creates, Answered
      <4>2. k = j
        BY <3>3, <4>1 DEF MonInv, TaskMarks
      <4> QED BY <3>3, <4>2, KeysAssumption DEF StoreForgotten, Current
    <3> QED BY <2>2, <2>4, <3>1, <3>2, <3>3, DeleteShape
  <2> QED BY <2>1, <2>2, <2>3, <2>4 DEF GoneAway, Away
<1> QED BY <1>1, <1>5, <1>6, <1>7, <1>8

\* As long as no device goes, no task loses the entry it read.
LEMMA LinkShape ==
    ASSUME TypeOK, StayHome, NoRestores, Remain, NobodyDeletes, [Next]_vars,
           NEW k \in Keys, task[k].kind # "none" => task[k].at # NoKey
    PROVE  task'[k].kind # "none" => task'[k].at # NoKey
<1> DEFINE Goal == task'[k].kind # "none" => task'[k].at # NoKey
<1>0. task \in [Keys -> Task] /\ k # NoKey
  BY KeysAssumption DEF TypeOK, WorkerType
<1>1. CASE UNCHANGED task
  BY <1>1
<1>2. CASE task'[k] = NoTask
  BY <1>2, TaskParts
<1>4. ASSUME NEW j \in Keys, task' = [task EXCEPT ![j] = task'[j]],
             j = k => Goal
      PROVE  Goal
  BY <1>0, <1>4
<1>5. CASE Plan
  <2>1. UNCHANGED task \/ task'[k] = NoTask \/ task'[k] = Todo(Need(reg, k), reg[k].mid, k)
    BY <1>5 DEF Plan
  <2> QED BY <1>0, <1>1, <1>2, <2>1, TaskParts
<1>6. CASE ToggleConnect \/ AddConnect
  <2>1. task'[k] = task[k] \/ task'[k] = [task[k] EXCEPT !.res = "down"]
    BY <1>6 DEF ToggleConnect, AddConnect
  <2>2. [task[k] EXCEPT !.res = "down"].at = task[k].at /\ [task[k] EXCEPT !.res = "down"].kind = task[k].kind
    BY <1>0, TaskParts
  <2> QED BY <2>1, <2>2
<1>7. ASSUME NEW j \in Keys, NEW r, Answer(j, r) PROVE Goal
  <2>1. task'[j] = [task[j] EXCEPT !.res = r] /\ task' = [task EXCEPT ![j] = task'[j]]
    BY <1>0, <1>7 DEF Answer
  <2>2. task'[j].at = task[j].at /\ task'[j].kind = task[j].kind
    BY <1>0, <2>1, TaskParts
  <2> QED BY <1>4, <2>1, <2>2
<1>8. ASSUME NEW j \in Keys, NoteToggle(j) PROVE Goal
  <2>1. /\ task'[j] = NoTask \/ (Current(j) # NoKey /\ task'[j] = Todo("create", 0, Current(j)))
        /\ task' = [task EXCEPT ![j] = task'[j]]
    BY <1>0, <1>8 DEF NoteToggle
  <2> QED BY <1>4, <2>1, TaskParts
<1>9. CASE ListMarked
  <2>1. CASE ListRead
    <3> DEFINE mon == CHOOSE m \in Marked(Listed, reg, k) : TRUE
               res == IF kuma[mon].active THEN "adopt" ELSE "adoptPaused"
    <3>1. task'[k] = NoTask \/ task'[k] = task[k] \/ task'[k] = WithAnswer(task[k], mon, res)
      BY <1>9, <2>1 DEF ListMarked
    <3> HIDE DEF mon, res
    <3> QED BY <1>0, <1>2, <3>1, TaskParts
  <2>2. CASE task' = [j \in Keys |-> NoTask]
    BY <1>2, <2>2
  <2> QED BY <1>9, <2>1, <2>2 DEF ListMarked
<1>10. ASSUME NEW j \in Keys, AddOne(j) PROVE Goal
  <2>1. CASE Answer(j, "err")
    BY <1>7, <2>1
  <2>2. CASE task' = [task EXCEPT ![j] = WithAnswer(task[j], made + 1, "ok")]
    <3>1. task'[j].at = task[j].at /\ task'[j].kind = task[j].kind /\ task' = [task EXCEPT ![j] = task'[j]]
      BY <1>0, <2>2, TaskParts
    <3> QED BY <1>4, <3>1
  <2> QED BY <1>10, <2>1, <2>2 DEF AddOne
<1>11. ASSUME NEW j \in Keys, Done(j) PROVE Goal
  BY <1>0, <1>2, <1>4, <1>11, TaskParts DEF Done
<1>12. ~ (\E p \in Rekeys : Rekey(p[1], p[2])) /\ ~ (\E b \in BOOLEAN : Restore(b))
       /\ ~ (\E victims \in SUBSET live : Prune(victims)) /\ ~ForgetRemove
  BY SMTT(30) DEF Rekey, Restore, Prune, ForgetRemove, Spend, StayHome, NoRestores, Remain, NobodyDeletes
<1>13. CASE Worker
  BY <1>1, <1>2, <1>5, <1>6, <1>7, <1>8, <1>9, <1>10, <1>11, <1>13
  DEF Worker, Take, SyncRead, SyncApply, ToggleOne, ToggleRefused, StoreFailed, Store, StoreForgotten, Save
<1>14. CASE Background \/ Time \/ KumaSide
  BY <1>1, <1>12, <1>14
  DEF Background, ForgetDrop, DeleteDoomed, Time, SyncElapses, RetryElapses,
      KumaSide, KumaFails, KumaRecovers, UIDelete, UIToggle, workerVars
<1>15. CASE Operator \/ Scan
  BY <1>1, <1>2, <1>12, <1>15
  DEF Operator, ForgetRead, Switch, Tidy, SaveSettings, TakeBackup, Restart, Scan, Reconcile, Appear, workerVars
<1> QED BY <1>1, <1>13, <1>14, <1>15 DEF Next, vars, workerVars

\* No device goes.
LEMMA StepRemain ==
    ASSUME TypeOK, TypeOK', MonInv, StayHome, HandsOff, [Next]_vars, Remain, NobodyDeletes, Linked, NoneGone
    PROVE  (Remain /\ NobodyDeletes /\ Linked /\ NoneGone)'
<1>1. Remain'
  BY BudgetShrinks DEF Remain, Kinds
<1>2. NobodyDeletes'
  BY OpShape DEF NobodyDeletes, Remain, ForgetRead, ForgetDrop, ForgetRemove, ForgetIdle, Prune, Spend
<1>3. Linked'
  BY LinkShape DEF Linked, HandsOff
<1>4. NoneGone'
  <2> SUFFICES ASSUME NEW m \in Mons, kuma'[m].mark \in Keys, ~kuma'[m].there PROVE FALSE
    BY DEF NoneGone
  <2>1. kuma[m].there
    BY MarkShape DEF MonInv, NoneGone
  <2>2. ASSUME NEW k \in Keys, StoreForgotten(k) PROVE FALSE
    <3>1. task[k].kind # "none"
      BY <2>2 DEF StoreForgotten, Creates
    <3> QED BY <2>2, <3>1, KeysAssumption DEF StoreForgotten, Current, Linked
  <2> QED BY <2>1, <2>2, DeleteShape DEF NobodyDeletes, ForgetDrop
<1> QED BY <1>1, <1>2, <1>3, <1>4

\* A recorded monitor exists, but while its device is being forgotten: where no device moves, nobody
\* deletes monitors by hand and no backup is restored, and devices remain or go for good, whatever
\* calls fail and whenever the switch is turned (monitoring.deprovision, _sync, _provision,
\* scanner.delete_device, prune_devices).
THEOREM RecordedAreThere ==
    Spec /\ StayHome /\ HandsOff /\ (ForGood \/ Remain) => []RecordedExists
<1> DEFINE Inv == MonInv /\ StayHome /\ AtHome /\ HandsOff /\ GoneInv
<1>1. Init /\ StayHome /\ HandsOff /\ (ForGood \/ Remain) => Inv
  <2> SUFFICES ASSUME Init, StayHome, HandsOff, ForGood \/ Remain PROVE Inv
    OBVIOUS
  <2>1. \A k \in Keys : reg[k].mid = 0 /\ disk[k].mid = 0 /\ bak[k].mid = 0 /\ task[k] = NoTask
    BY EntryParts DEF Init
  <2>2. \A m \in Mons : kuma[m].mark = NoKey /\ ~kuma[m].there
    BY DEF Init, NoMonitor
  <2>3. MonInv /\ AtHome
    BY <2>1, <2>2, TaskParts DEF MonInv, MadeInOrder, AllMarked, There, TaskMarks, Answered, AtHome, OwnMark
  <2>4. ListedKnown
    BY DEF Init, ListedKnown, Known, Fresh, Gone
  <2>5. forget.step = "idle" /\ doomed = {}
    BY DEF Init, ForgetIdle
  <2>6. GoneInv
    BY <2>1, <2>2, <2>4, <2>5, TaskParts, KeysAssumption
    DEF GoneInv, Blank, DropsOwn, DoomsGone, GoneAway, NobodyDeletes, Linked, NoneGone
  <2> QED BY <2>3, <2>6
<1>2. TypeOK /\ TypeOK' /\ TaskInv /\ Inv /\ [Next]_vars => Inv'
  <2> SUFFICES ASSUME TypeOK, TypeOK', TaskInv, Inv, [Next]_vars PROVE Inv'
    OBVIOUS
  <2>1. HandsOff'
    BY BudgetShrinks DEF HandsOff, NoRestores, Kinds
  <2>2. Blank(reg)' /\ Blank(disk)'
    BY KnownShape DEF GoneInv, HandsOff
  <2>3. GoneInv'
    BY <2>2, StepForGood, StepRemain DEF GoneInv
  <2> QED BY <2>1, <2>3, StepMon, StepHome
<1>3. Inv => RecordedExists
  <2> SUFFICES ASSUME Inv, NEW k \in Keys, reg[k].mid # 0, ~kuma[reg[k].mid].there
               PROVE  forget.step = "remove" /\ forget.key = k
    BY DEF RecordedExists
  <2>1. reg[k].mid \in Mons /\ kuma[reg[k].mid].mark = k
    BY DEF AtHome, OwnMark
  <2>2. Known(k)
    BY DEF GoneInv, Blank, Known
  <2> QED BY <2>1, <2>2 DEF GoneInv, NoneGone, GoneAway, Away, Forgetting
<1> QED BY <1>1, <1>2, <1>3, TasksHold, PTL DEF Spec
=============================================================================
