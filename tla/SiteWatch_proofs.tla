-------------------------- MODULE SiteWatch_proofs --------------------------
(***************************************************************************)
(* What is proved about the scans of a site (ScanState), its switch        *)
(* monitor (SwitchMon), the changes of a switch's ports (SwitchPorts) and  *)
(* the logins of a camera (CamLogins): for any MACs, addresses, ports,     *)
(* people and passwords, any threshold and any number of events.           *)
(***************************************************************************)
EXTENDS ScanState, SwitchMon, SwitchPorts, CamLogins, TLAPS

(***************************************************************************)
(* Types                                                                   *)
(***************************************************************************)
LEMMA RecordTypes ==
    /\ Absent \in Record /\ Absent.ip = None
    /\ \A a \in IPs : Up(a) \in Record /\ Up(a).ip = a
    /\ \A r \in Record : /\ r.ip \in IPs \cup {None}
                         /\ [r EXCEPT !.online = FALSE] \in Record
                         /\ [r EXCEPT !.online = FALSE].ip = r.ip
    /\ Nobody \in [Keys -> Record]
    /\ \A k \in Keys : Nobody[k].ip = None
BY DEF Record, Absent, Up, Nobody

LEMMA KeyFacts == /\ None \notin Keys /\ IPs \subseteq Keys /\ Macs \subseteq Keys
                  /\ \A k \in Keys : k \in IPs \/ k \in Macs
                  /\ \A k \in IPs : k \notin Macs
BY KeysAssumption DEF Keys

Disk == [dev : [Keys -> Record], miss : [Keys -> Nat], seen : SUBSET Keys, reg : SUBSET Keys]

LEMMA SavedTypes ==
    \A s \in Disk :
        /\ s.dev \in [Keys -> Record] /\ s.miss \in [Keys -> Nat]
        /\ s.seen \in SUBSET Keys /\ s.reg \in SUBSET Keys
        /\ \A r \in SUBSET Keys : /\ [s EXCEPT !.reg = r] \in Disk
                                  /\ [s EXCEPT !.reg = r].dev = s.dev
                                  /\ [s EXCEPT !.reg = r].miss = s.miss
        /\ \A d \in [Keys -> Record], m \in [Keys -> Nat], n \in SUBSET Keys :
              /\ [s EXCEPT !.dev = d, !.miss = m, !.seen = n] \in Disk
              /\ [s EXCEPT !.dev = d, !.miss = m, !.seen = n].dev = d
              /\ [s EXCEPT !.dev = d, !.miss = m, !.seen = n].miss = m
BY ZenonT(60) DEF Disk

LEMMA SpendTypes ==
    ASSUME left \in [Kinds -> Nat], NEW kind \in Kinds, Spend(kind)
    PROVE  left' \in [Kinds -> Nat]
BY DEF Spend

LEMMA InitTypes == Init => TypeOK
<1> SUFFICES ASSUME Init PROVE TypeOK
  OBVIOUS
<1>1. ListType /\ PassType /\ TallyType /\ LogType
  BY RecordTypes DEF Init, ListType, PassType, TallyType, LogType, Steps
<1>2. DiskType
  BY <1>1, RecordTypes DEF Init, DiskType, ListType
<1>3. forgetting \in Keys \cup {None} /\ left \in [Kinds -> Nat]
  BY BoundAssumption DEF Init
<1> QED
  BY <1>1, <1>2, <1>3 DEF TypeOK

\* What Tally computes, by name.
Scanned == (Expected \cup Listed(found)) \ Superseded
Missed  == Scanned \ Listed(found)
Counted == [k \in Keys |-> IF k \in Scanned \cap Listed(found) THEN 0
                           ELSE IF k \in Missed THEN miss[k] + 1
                           ELSE IF k \in Superseded THEN 0 ELSE miss[k]]

LEMMA TallySteps ==
    ASSUME Tally
    PROVE  /\ step = "sweep" /\ step' = "log"
           /\ ups' = {k \in Scanned \cap Listed(found) : CameBack(k)}
           /\ downs' = {k \in Missed : Counted[k] = OfflineAfter}
           /\ result' = [k \in Keys |->
                  IF found[k].ip # None THEN found[k]
                  ELSE IF k \in Missed THEN [dev[k] EXCEPT !.online = FALSE]
                  ELSE Carried(Listed(dev) \ (Scanned \cup Superseded))[k]]
           /\ found' = [k \in Keys |-> IF k \in Missed THEN result'[k] ELSE found[k]]
           /\ miss' = [k \in Keys |-> IF k \in Listed(result') THEN Counted[k] ELSE 0]
           /\ seen' = seen \ Superseded
           /\ saved' = [saved EXCEPT !.reg = reg]
           /\ UNCHANGED <<dev, reg, scope, index, todo, fresh, heir, gated, forgetting, told, last, unsaid, left>>
<1>1. Scanned \ (Scanned \cap Listed(found)) = Missed
  BY DEF Missed
<1> QED
  BY <1>1 DEF Tally, Scanned, Missed, Counted, logVars

\* Steps that do not touch one of the parts.
LEMMA Untouched ==
    /\ ListType /\ UNCHANGED listVars => ListType'
    /\ DiskType /\ UNCHANGED saved => DiskType'
    /\ PassType /\ UNCHANGED <<step, passVars>> => PassType'
    /\ TallyType /\ UNCHANGED tallyVars => TallyType'
    /\ LogType /\ UNCHANGED logVars => LogType'
BY DEF ListType, DiskType, PassType, TallyType, LogType, listVars, passVars, tallyVars, logVars

LEMMA StepTypes == TypeOK /\ [Next]_vars => TypeOK'
<1> SUFFICES ASSUME TypeOK, [Next]_vars PROVE TypeOK'
  OBVIOUS
<1> USE RecordTypes, KeyFacts DEF TypeOK
<1>a. saved \in Disk
  BY DEF DiskType, Disk
<1>b. ASSUME saved' \in Disk PROVE DiskType'
  BY <1>b DEF DiskType, Disk
<1>c. \A r \in SUBSET Keys : [saved EXCEPT !.reg = r] \in Disk
  BY <1>a, SavedTypes
<1>1. ASSUME NEW addresses \in (SUBSET IPs) \ {{}}, Begin(addresses) PROVE TypeOK'
  <2>1. index' \in [IPs -> Keys \cup {None}]
    BY <1>1 DEF Begin, Indexes
  <2>2. PassType'
    BY <1>1, <2>1 DEF Begin, PassType, Steps
  <2>3. left' \in [Kinds -> Nat]
    BY <1>1, SpendTypes DEF Begin, Kinds
  <2> QED
    BY <1>1, <2>2, <2>3, Untouched DEF Begin
<1>2. ASSUME NEW a \in IPs, NEW m \in Macs \cup {None}, Sight(a, m) PROVE TypeOK'
  <2>1. KeyOf(a, m) \in Keys
    BY DEF KeyOf
  <2>2. OldKey(a, m) # None => m \in Macs
    BY DEF OldKey
  <2>3. PassType'
    BY <1>2, <2>1, <2>2 DEF Sight, PassType
  <2>4. ListType'
    BY <1>2, <2>1 DEF Sight, ListType, Moved
  <2>5. LogType'
    BY <1>2, <2>1 DEF Sight, LogType
  <2> QED
    BY <1>2, <2>3, <2>4, <2>5, Untouched DEF Sight
<1>3. CASE Gate
  <2>1. /\ found' \in [Keys -> Record]
        /\ fresh' \in SUBSET Keys /\ gated' \in SUBSET Keys
    BY <1>3 DEF Gate, PassType, Listed
  <2>2. PassType'
    BY <1>3, <2>1 DEF Gate, PassType, Steps
  <2>3. DiskType'
    BY <1>3, <1>b, <1>c DEF Gate, ListType
  <2>4. LogType'
    BY <1>3 DEF Gate, LogType, PassType
  <2> QED
    BY <1>3, <2>2, <2>3, <2>4, Untouched DEF Gate
<1>4. CASE Tally
  <2> USE <1>4, TallySteps
  <2>1. result' \in [Keys -> Record]
    BY DEF ListType, PassType, Carried
  <2>2. found' \in [Keys -> Record]
    BY <2>1 DEF PassType
  <2>3. Counted \in [Keys -> Nat]
    BY DEF Counted, ListType
  <2>4. ups' \in SUBSET Keys /\ downs' \in SUBSET Keys
    BY DEF Missed, Scanned, Expected, Listed
  <2>5. ListType'
    BY <2>3 DEF ListType
  <2>6. PassType'
    BY <2>2 DEF PassType, Steps
  <2>7. DiskType'
    <3>1. saved' = [saved EXCEPT !.reg = reg] /\ reg \in SUBSET Keys
      BY DEF ListType
    <3> HIDE <1>4
    <3> QED
      BY <3>1, <1>b, <1>c
  <2>8. LogType' /\ UNCHANGED <<forgetting, left>>
    BY DEF LogType
  <2> QED
    BY <2>1, <2>4, <2>5, <2>6, <2>7, <2>8 DEF TallyType
<1>5. CASE Log
  <2>1. LogType'
    BY <1>5 DEF Log, LogType, PassType
  <2>2. PassType'
    BY <1>5 DEF Log, PassType, Steps, passVars
  <2> QED
    BY <1>5, <2>1, <2>2, Untouched DEF Log
<1>6. CASE Baseline
  <2>1. ListType'
    BY <1>6 DEF Baseline, ListType, Listed
  <2>2. DiskType'
    BY <1>6, <2>1, <1>b, <1>c DEF Baseline, ListType
  <2>3. PassType'
    BY <1>6 DEF Baseline, PassType, Steps, passVars
  <2> QED
    BY <1>6, <2>1, <2>2, <2>3, Untouched DEF Baseline
<1>7. CASE Publish
  <2>1. ListType'
    BY <1>7 DEF Publish, ListType, TallyType
  <2>2. DiskType'
    BY <1>7, <2>1, <1>a, <1>b, SavedTypes DEF Publish, ListType
  <2>3. PassType' /\ TallyType'
    BY <1>7 DEF Publish, PassType, TallyType, Steps
  <2> QED
    BY <1>7, <2>1, <2>2, <2>3, Untouched DEF Publish
<1>8. ASSUME NEW k \in Keys, Forget(k) PROVE TypeOK'
  <2>1. ListType'
    BY <1>8 DEF Forget, ListType
  <2>2. DiskType'
    BY <1>8, <2>1, <1>b, <1>c DEF Forget, ListType
  <2>3. left' \in [Kinds -> Nat]
    BY <1>8, SpendTypes DEF Forget, Kinds
  <2> QED
    BY <1>8, <2>1, <2>2, <2>3, Untouched DEF Forget
<1>9. CASE ForgetLive
  <2>1. ListType'
    BY <1>9 DEF ForgetLive, Dropped, ListType
  <2>2. DiskType'
    BY <1>9, <2>1, <1>a, <1>b, SavedTypes DEF ForgetLive, ListType
  <2> QED
    BY <1>9, <2>1, <2>2, Untouched DEF ForgetLive
<1>10. ASSUME NEW K \in SUBSET Keys, Prune(K) PROVE TypeOK'
  <2>1. ListType'
    BY <1>10 DEF Prune, Dropped, ListType
  <2>2. DiskType'
    BY <1>10, <2>1, <1>b DEF Prune, ListType, Disk
  <2>3. left' \in [Kinds -> Nat]
    BY <1>10, SpendTypes DEF Prune, Kinds
  <2> QED
    BY <1>10, <2>1, <2>2, <2>3, Untouched DEF Prune
<1>11. CASE Restart
  <2>1. ListType'
    BY <1>11, <1>a, SavedTypes DEF Restart, ListType
  <2>2. PassType' /\ TallyType'
    BY <1>11 DEF Restart, PassType, TallyType, Steps
  <2>4. LogType'
    BY <1>11, <1>a, SavedTypes DEF Restart, LogType
  <2>3. left' \in [Kinds -> Nat] /\ forgetting' = None
    BY <1>11, SpendTypes DEF Restart, Kinds
  <2> QED
    BY <1>11, <2>1, <2>2, <2>3, <2>4, Untouched DEF Restart
<1>12. CASE UNCHANGED vars
  BY <1>12, Untouched DEF vars
<1> QED
  BY <1>1, <1>2, <1>3, <1>4, <1>5, <1>6, <1>7, <1>8, <1>9, <1>10, <1>11, <1>12
     DEF Next, Scan, Requests

\* Every list, counter, log entry and file keeps its type through scans, requests and
\* restarts: no scan puts a record without an address or under no key on the list.
THEOREM TypeCorrect == Spec => []TypeOK
<1>1. Init => TypeOK
  BY InitTypes
<1>2. TypeOK /\ [Next]_vars => TypeOK'
  BY StepTypes
<1> QED
  BY <1>1, <1>2, PTL DEF Spec

(***************************************************************************)
(* NoPhantom. By itself it is not inductive: a device gets two keys when   *)
(* a scan finds it under one and keeps the other from the old list. What   *)
(* rules that out is that the snapshot knows who sat where (Indexed), that *)
(* a scan finds an address once (Sighted: nobody found there has it to     *)
(* do), and that a MAC found where an address key sat supersedes that key. *)
(***************************************************************************)
\* A list without phantoms: an address key has that address, and then no MAC has it.
Clean(list) == \A a \in IPs : /\ list[a].ip \in {a, None}
                              /\ list[a].ip = a => \A m \in Macs : list[m].ip # a

Lists == Clean(dev) /\ Clean(saved.dev) /\ Clean(result)

Fallow == step = "idle" => found = Nobody

Looking == step \in {"look", "sweep"}

Indexed == Looking => \A a \in IPs :
               /\ dev[a].ip = a => index[a] = a
               /\ \A m \in Macs : dev[m].ip = a => index[a] \in Macs

Sighted == Looking => /\ Clean(found)
                      /\ \A a \in IPs :
                           /\ a \in todo => \A k \in Keys : found[k].ip # a
                           /\ found[a].ip = a => index[a] \notin Macs
                           /\ \A m \in Macs : found[m].ip = a /\ index[a] = a => heir[a] # None

PhantomInv == Lists /\ Fallow /\ Indexed /\ Sighted

LEMMA CleanLists ==
    /\ Clean(Nobody)
    /\ \A old, new \in [Keys -> Record] :
          Clean(old) /\ (\A k \in Keys : new[k].ip \in {old[k].ip, None}) => Clean(new)
BY RecordTypes, KeyFacts DEF Clean

\* A sighting under its key adds one record to what was found, at an address that was
\* still to do.
LEMMA SightKeeps ==
    ASSUME TypeOK, PhantomInv, NEW a \in IPs, NEW m \in Macs \cup {None}, Sight(a, m)
    PROVE  Sighted'
<1> DEFINE k == KeyOf(a, m)
<1>1. Looking /\ a \in todo
  BY DEF Sight, Looking
<1>2. k \in Keys /\ (k \in IPs => k = a /\ index[a] \notin Macs)
  BY KeyFacts DEF KeyOf, TypeOK, PassType
<1>3. \A j \in Keys : found'[j].ip = IF j = k THEN a ELSE found[j].ip
  BY <1>2, RecordTypes DEF Sight, TypeOK, PassType
<1>4. \A j \in Keys : found[j].ip # a
  BY <1>1 DEF PhantomInv, Sighted
<1>5. UNCHANGED index /\ todo' = todo \ {a}
  BY DEF Sight
<1>6. \A j \in Keys : heir[j] # None => heir'[j] # None
  BY KeyFacts DEF Sight, OldKey, TypeOK, PassType
<1>7. k \in Macs /\ index[a] = a => heir'[a] # None
  BY KeyFacts DEF Sight, OldKey, KeyOf, TypeOK, PassType
<1> HIDE DEF k
<1>8. Clean(found')
  BY <1>1, <1>2, <1>3, <1>4, KeyFacts DEF PhantomInv, Sighted, Clean
<1>9. \A b \in IPs : b \in todo' => \A j \in Keys : found'[j].ip # b
  BY <1>1, <1>2, <1>3, <1>5 DEF PhantomInv, Sighted
<1>10. \A b \in IPs : found'[b].ip = b => index'[b] \notin Macs
  BY <1>1, <1>2, <1>3, <1>5, KeyFacts DEF PhantomInv, Sighted
<1>11. \A b \in IPs, n \in Macs : found'[n].ip = b /\ index'[b] = b => heir'[b] # None
  BY <1>1, <1>2, <1>3, <1>5, <1>6, <1>7, KeyFacts DEF PhantomInv, Sighted
<1> QED
  BY <1>8, <1>9, <1>10, <1>11 DEF Sighted

LEMMA GateKeeps ==
    ASSUME TypeOK, PhantomInv, Gate
    PROVE  Sighted'
<1>1. Looking
  BY DEF Gate, Looking
<1>2. found' \in [Keys -> Record] /\ \A k \in Keys : found'[k].ip \in {found[k].ip, None}
  BY RecordTypes DEF Gate, TypeOK, PassType
<1>3. Clean(found')
  BY <1>1, <1>2, CleanLists DEF PhantomInv, Sighted, TypeOK, PassType
<1>4. UNCHANGED <<index, heir>> /\ \A b \in todo' : \A k \in Keys : found'[k].ip # b
  BY DEF Gate
<1> QED
  BY <1>1, <1>2, <1>3, <1>4, KeyFacts DEF PhantomInv, Sighted

\* The new list: what was found, and of the old list what was not superseded.
LEMMA TallyKeeps ==
    ASSUME TypeOK, PhantomInv, Tally
    PROVE  Clean(result')
<1>1. Looking
  BY TallySteps DEF Looking
<1>2. \A k \in Keys : \/ found[k].ip # None /\ result'[k].ip = found[k].ip
                      \/ found[k].ip = None /\ result'[k].ip = None
                      \/ found[k].ip = None /\ heir[k] = None /\ result'[k].ip = dev[k].ip
  <2> SUFFICES ASSUME NEW k \in Keys, found[k].ip = None
               PROVE  \/ result'[k].ip = None
                      \/ heir[k] = None /\ result'[k].ip = dev[k].ip
    BY TallySteps
  <2>1. dev[k] \in Record
    BY DEF TypeOK, ListType
  <2>2. CASE k \in Missed
    <3>1. heir[k] = None
      BY <2>2 DEF Missed, Scanned, Superseded
    <3>2. result'[k] = [dev[k] EXCEPT !.online = FALSE]
      BY <2>2, TallySteps
    <3> QED
      BY <2>1, <3>1, <3>2, RecordTypes
  <2>3. CASE k \notin Missed
    <3> DEFINE kept == Listed(dev) \ (Scanned \cup Superseded)
    <3>1. result'[k] = Carried(kept)[k]
      BY <2>3, TallySteps
    <3>2. result'[k] = IF k \in kept THEN dev[k] ELSE Absent
      BY <3>1 DEF Carried
    <3>3. k \in kept => heir[k] = None
      BY DEF Superseded
    <3> QED
      BY <3>2, <3>3, RecordTypes
  <2> QED
    BY <2>2, <2>3
<1>3. \A a \in IPs : result'[a].ip \in {a, None}
  BY <1>1, <1>2, KeyFacts DEF PhantomInv, Sighted, Lists, Clean
<1>4. ASSUME NEW a \in IPs, NEW m \in Macs, result'[a].ip = a, result'[m].ip = a
      PROVE  FALSE
  <2>1. a # None /\ a \in Keys /\ m \in Keys
    BY KeyFacts
  <2>2. CASE found[a].ip = a
    <3>1. index[a] \notin Macs /\ found[m].ip # a
      BY <1>1, <2>2 DEF PhantomInv, Sighted, Clean
    <3>2. dev[m].ip = a
      BY <3>1, <2>1, <1>2, <1>4
    <3> QED
      BY <3>1, <3>2, <1>1 DEF PhantomInv, Indexed
  <2>3. CASE found[a].ip # a
    <3>1. dev[a].ip = a /\ heir[a] = None
      BY <2>1, <2>3, <1>2, <1>4
    <3>2. index[a] = a
      BY <3>1, <1>1 DEF PhantomInv, Indexed
    <3>3. found[m].ip # a
      BY <3>1, <3>2, <1>1 DEF PhantomInv, Sighted
    <3>4. dev[m].ip = a
      BY <3>3, <2>1, <1>2, <1>4
    <3> QED
      BY <3>1, <3>4 DEF PhantomInv, Lists, Clean
  <2> QED
    BY <2>2, <2>3
<1> QED
  BY <1>3, <1>4 DEF Clean

\* Records only leave the list.
LEMMA DroppedKeeps ==
    ASSUME TypeOK, TypeOK', PhantomInv, NEW K \in SUBSET Keys, Dropped(K),
           saved'.dev \in {saved.dev, dev'}, UNCHANGED <<step, passVars, tallyVars>>
    PROVE  PhantomInv'
<1>1. \A k \in Keys : dev'[k].ip \in {dev[k].ip, None}
  BY RecordTypes DEF Dropped, TypeOK, ListType
<1>2. Clean(dev')
  BY <1>1, CleanLists DEF PhantomInv, Lists, TypeOK, ListType
<1>3. Lists'
  BY <1>2 DEF PhantomInv, Lists, tallyVars
<1>4. Indexed'
  BY <1>1, KeyFacts DEF PhantomInv, Indexed, Looking, passVars
<1>5. Fallow' /\ Sighted'
  BY DEF PhantomInv, Fallow, Sighted, Looking, passVars
<1> QED
  BY <1>3, <1>4, <1>5 DEF PhantomInv

LEMMA PhantomInit == Init => PhantomInv
<1> SUFFICES ASSUME Init PROVE PhantomInv
  OBVIOUS
<1>1. saved.dev = Nobody /\ dev = Nobody /\ result = Nobody /\ found = Nobody /\ step = "idle"
  BY DEF Init
<1> QED
  BY <1>1, CleanLists DEF PhantomInv, Lists, Fallow, Indexed, Sighted, Looking

LEMMA PhantomStep == TypeOK /\ TypeOK' /\ PhantomInv /\ [Next]_vars => PhantomInv'
<1> SUFFICES ASSUME TypeOK, TypeOK', PhantomInv, [Next]_vars PROVE PhantomInv'
  OBVIOUS
<1>a. saved \in Disk
  BY DEF TypeOK, DiskType, Disk
<1>b. \A r \in SUBSET Keys : [saved EXCEPT !.reg = r].dev = saved.dev
  BY <1>a, SavedTypes
<1>c. \A d \in [Keys -> Record], m \in [Keys -> Nat], n \in SUBSET Keys :
          [saved EXCEPT !.dev = d, !.miss = m, !.seen = n].dev = d
  BY <1>a DEF Disk
<1>d. /\ reg \in SUBSET Keys /\ reg' \in SUBSET Keys
      /\ dev' \in [Keys -> Record]
      /\ miss \in [Keys -> Nat] /\ miss' \in [Keys -> Nat]
      /\ seen \in SUBSET Keys /\ seen' \in SUBSET Keys
  BY DEF TypeOK, ListType
<1>1. ASSUME NEW addresses \in (SUBSET IPs) \ {{}}, Begin(addresses) PROVE PhantomInv'
  <2>1. found' = Nobody /\ Lists' /\ step' = "look" /\ UNCHANGED dev
    BY <1>1 DEF Begin, PhantomInv, Lists, Fallow, tallyVars, listVars
  <2>2. ASSUME NEW a \in IPs PROVE /\ dev[a].ip = a => index'[a] = a
                                   /\ \A m \in Macs : dev[m].ip = a => index'[a] \in Macs
    <3>1. Occupants(a) # {} => index'[a] \in Occupants(a)
      BY <1>1 DEF Begin, Indexes
    <3>2. \A b \in IPs : b \in Occupants(a) => b = a
      BY KeyFacts DEF Occupants, PhantomInv, Lists, Clean
    <3>3. a \in Occupants(a) => \A m \in Macs : m \notin Occupants(a)
      BY DEF Occupants, PhantomInv, Lists, Clean
    <3>4. \A k \in Keys : dev[k].ip = a <=> k \in Occupants(a)
      BY DEF Occupants
    <3>5. Occupants(a) \subseteq Keys
      BY DEF Occupants
    <3> QED
      BY <3>1, <3>2, <3>3, <3>4, <3>5, KeyFacts
  <2>3. Indexed'
    BY <2>1, <2>2 DEF Indexed
  <2>4. Sighted'
    BY <2>1, CleanLists, RecordTypes, KeyFacts DEF Sighted
  <2> QED
    BY <2>1, <2>3, <2>4 DEF PhantomInv, Fallow
<1>2. ASSUME NEW a \in IPs, NEW m \in Macs \cup {None}, Sight(a, m) PROVE PhantomInv'
  <2>1. Lists' /\ Indexed' /\ Fallow'
    BY <1>2 DEF Sight, PhantomInv, Lists, Indexed, Fallow, Looking, tallyVars
  <2> QED
    BY <1>2, <2>1, SightKeeps DEF PhantomInv
<1>3. CASE Gate
  <2>1. saved'.dev = saved.dev
    BY <1>3, <1>b, <1>d DEF Gate
  <2>2. Lists' /\ Indexed' /\ Fallow'
    BY <1>3, <2>1 DEF Gate, PhantomInv, Lists, Indexed, Fallow, Looking, tallyVars, listVars
  <2> QED
    BY <1>3, <2>2, GateKeeps DEF PhantomInv
<1>4. CASE Tally
  <2>1. saved' = [saved EXCEPT !.reg = reg] /\ step' = "log" /\ UNCHANGED dev
    BY <1>4, TallySteps
  <2>2. Clean(result')
    BY <1>4, TallyKeeps
  <2>3. saved'.dev = saved.dev
    BY <2>1, <1>b, <1>d
  <2> QED
    BY <2>1, <2>2, <2>3 DEF PhantomInv, Lists, Indexed, Fallow, Sighted, Looking
<1>5. CASE Log
  BY <1>5 DEF Log, PhantomInv, Lists, Indexed, Fallow, Sighted, Looking, tallyVars, listVars
<1>6. CASE Baseline
  <2>1. saved'.dev = saved.dev
    BY <1>6, <1>b, <1>d DEF Baseline
  <2> QED
    BY <1>6, <2>1 DEF Baseline, PhantomInv, Lists, Indexed, Fallow, Sighted, Looking, tallyVars
<1>7. CASE Publish
  <2>1. saved'.dev = dev'
    BY <1>7, <1>c, <1>d DEF Publish
  <2>2. dev' = result /\ found' = Nobody /\ result' = Nobody /\ step' = "idle"
    BY <1>7 DEF Publish
  <2> QED
    BY <2>1, <2>2, CleanLists DEF PhantomInv, Lists, Indexed, Fallow, Sighted, Looking
<1>8. ASSUME NEW k \in Keys, Forget(k) PROVE PhantomInv'
  <2>1. saved'.dev = saved.dev
    BY <1>8, <1>b, <1>d DEF Forget
  <2> QED
    BY <1>8, <2>1 DEF Forget, PhantomInv, Lists, Indexed, Fallow, Sighted, Looking, tallyVars,
       passVars
<1>9. CASE ForgetLive
  <2>1. saved'.dev = dev'
    BY <1>9, <1>c, <1>d DEF ForgetLive
  <2>2. forgetting \in Keys
    BY <1>9 DEF ForgetLive, TypeOK
  <2> QED
    BY <1>9, <2>1, <2>2, DroppedKeeps DEF ForgetLive
<1>10. ASSUME NEW K \in SUBSET Keys, Prune(K) PROVE PhantomInv'
  <2>1. saved'.dev = dev'
    BY <1>10 DEF Prune
  <2> QED
    BY <1>10, <2>1, DroppedKeeps DEF Prune
<1>11. CASE Restart
  <2>1. dev' = saved.dev /\ saved' = saved /\ found' = Nobody /\ result' = Nobody /\ step' = "idle"
    BY <1>11 DEF Restart
  <2> QED
    BY <2>1, CleanLists DEF PhantomInv, Lists, Indexed, Fallow, Sighted, Looking
<1>12. CASE UNCHANGED vars
  BY <1>12 DEF vars, PhantomInv, Lists, Indexed, Fallow, Sighted, Looking, tallyVars, passVars,
     listVars
<1> QED
  BY <1>1, <1>2, <1>3, <1>4, <1>5, <1>6, <1>7, <1>8, <1>9, <1>10, <1>11, <1>12
     DEF Next, Scan, Requests

\* A device is never listed both under its address and under its MAC at that address: a
\* scan that learns its MAC, by whatever way and after whatever restart, re-keys it.
THEOREM NoPhantomListed == Spec => []NoPhantom
<1>1. Init => TypeOK /\ PhantomInv
  BY InitTypes, PhantomInit
<1>2. TypeOK /\ PhantomInv /\ [Next]_vars => (TypeOK /\ PhantomInv)'
  BY StepTypes, PhantomStep
<1>3. PhantomInv => NoPhantom
  BY DEF PhantomInv, Lists, Clean, NoPhantom
<1> QED
  BY <1>1, <1>2, <1>3, PTL DEF Spec

(***************************************************************************)
(* OnlineAfterOffline. The counters of devices and the last event logged   *)
(* for them agree (Down), with one exception: between the counting and the *)
(* logging of a scan the events it is about to log are still to come.      *)
(***************************************************************************)
IsDown(k) == miss[k] >= OfflineAfter

Down == \A k \in Keys : IsDown(k) =>
            /\ last[k] = "offline" \/ (step = "log" /\ k \in downs)
            /\ step = "log" => k \notin ups

UpsWereDown == step = "log" => \A k \in ups : last[k] = "offline"

EventInv == Down /\ UpsWereDown

LEMMA CountTypes == ListType => \A k \in Keys : miss[k] \in Nat /\ OfflineAfter \in Nat \ {0}
BY AfterAssumption DEF ListType

\* Counters are left alone or start again, and nothing is logged.
LEMMA EventsStill ==
    ASSUME EventInv, TypeOK, \A k \in Keys : miss'[k] = miss[k] \/ miss'[k] = 0,
           UNCHANGED <<last, ups, downs>>, step' = step \/ (step # "log" /\ step' # "log")
    PROVE  EventInv'
BY CountTypes DEF EventInv, Down, UpsWereDown, IsDown, TypeOK

LEMMA EventInit == Init => EventInv
<1> SUFFICES ASSUME Init PROVE EventInv
  OBVIOUS
<1>1. \A k \in Keys : miss[k] = 0
  BY DEF Init
<1>2. step = "idle"
  BY DEF Init
<1> QED
  BY <1>1, <1>2, AfterAssumption DEF EventInv, Down, UpsWereDown, IsDown

LEMMA EventStep == TypeOK /\ EventInv /\ [Next]_vars => EventInv'
<1> SUFFICES ASSUME TypeOK, EventInv, [Next]_vars PROVE EventInv'
  OBVIOUS
<1>1. ASSUME NEW addresses \in (SUBSET IPs) \ {{}}, Begin(addresses) PROVE EventInv'
  BY <1>1, EventsStill DEF Begin, tallyVars, listVars, logVars
<1>2. ASSUME NEW a \in IPs, NEW m \in Macs \cup {None}, Sight(a, m) PROVE EventInv'
  BY <1>2, EventsStill DEF Sight, tallyVars
<1>3. CASE Gate
  BY <1>3, EventsStill DEF Gate, tallyVars, listVars, logVars
<1>4. CASE Tally
  <2>1. step = "sweep" /\ step' = "log" /\ UNCHANGED last
    BY <1>4, TallySteps
  <2>2. ASSUME NEW k \in Keys, IsDown(k)'
        PROVE  (last[k] = "offline" \/ k \in downs') /\ k \notin ups'
    <3>1. miss'[k] = Counted[k] /\ Counted[k] >= OfflineAfter
      BY <1>4, <2>2, TallySteps, AfterAssumption DEF IsDown
    <3>2. k \notin Scanned \cap Listed(found)
      BY <3>1, AfterAssumption DEF Counted
    <3>3. k \notin ups'
      BY <1>4, <3>2, TallySteps
    <3>4. CASE k \in Missed
      <4>1. Counted[k] = miss[k] + 1
        BY <3>2, <3>4 DEF Counted
      <4>2. Counted[k] = OfflineAfter \/ IsDown(k)
        BY <3>1, <4>1, CountTypes DEF IsDown, TypeOK
      <4>3. CASE Counted[k] = OfflineAfter
        BY <1>4, <3>4, <4>3, <3>3, TallySteps
      <4>4. CASE IsDown(k)
        BY <2>1, <4>4, <3>3 DEF EventInv, Down
      <4> QED
        BY <4>2, <4>3, <4>4
    <3>5. CASE k \notin Missed
      <4>1. Counted[k] = 0 \/ Counted[k] = miss[k]
        BY <3>2, <3>5 DEF Counted
      <4>2. IsDown(k)
        BY <3>1, <4>1, AfterAssumption DEF IsDown
      <4> QED
        BY <2>1, <4>2, <3>3 DEF EventInv, Down
    <3> QED
      BY <3>4, <3>5
  <2>3. ASSUME NEW k \in ups' PROVE last[k] = "offline"
    <3>1. k \in Keys /\ CameBack(k)
      BY <1>4, TallySteps DEF Listed
    <3>2. IsDown(k)
      BY <3>1 DEF CameBack, IsDown
    <3> QED
      BY <2>1, <3>1, <3>2 DEF EventInv, Down
  <2> QED
    BY <2>1, <2>2, <2>3 DEF EventInv, Down, UpsWereDown
<1>5. CASE Log
  <2>1. step = "log" /\ step' = "baseline" /\ UNCHANGED miss
    BY <1>5 DEF Log, listVars
  <2>2. \A k \in Keys : last'[k] = IF k \in ups THEN "online"
                                   ELSE IF k \in downs THEN "offline" ELSE last[k]
    BY <1>5 DEF Log
  <2> QED
    BY <2>1, <2>2 DEF EventInv, Down, UpsWereDown, IsDown
<1>6. CASE Baseline
  BY <1>6, EventsStill DEF Baseline, tallyVars, logVars
<1>7. CASE Publish
  <2>1. step = "publish" /\ step' = "idle" /\ UNCHANGED <<miss, last>>
    BY <1>7 DEF Publish, logVars
  <2> QED
    BY <2>1 DEF EventInv, Down, UpsWereDown, IsDown
<1>8. ASSUME NEW k \in Keys, Forget(k) PROVE EventInv'
  BY <1>8, EventsStill DEF Forget, tallyVars, logVars
<1>9. CASE ForgetLive
  BY <1>9, EventsStill DEF ForgetLive, Dropped, tallyVars, logVars
<1>10. ASSUME NEW K \in SUBSET Keys, Prune(K) PROVE EventInv'
  BY <1>10, EventsStill DEF Prune, Dropped, tallyVars, logVars
<1>11. CASE Restart
  <2>1. /\ step' = "idle" /\ miss' = saved.miss
        /\ \A k \in Keys : saved.miss[k] >= OfflineAfter => last'[k] = "offline"
    BY <1>11 DEF Restart
  <2> QED
    BY <2>1 DEF EventInv, Down, UpsWereDown, IsDown
<1>12. CASE UNCHANGED vars
  BY <1>12, EventsStill DEF vars, listVars, tallyVars, logVars
<1> QED
  BY <1>1, <1>2, <1>3, <1>4, <1>5, <1>6, <1>7, <1>8, <1>9, <1>10, <1>11, <1>12
     DEF Next, Scan, Requests

\* No return is logged for a device that is not logged as gone: miss counters, which scans
\* of single hosts, re-keying, forgetting and restarts touch or leave, stay in step with
\* the event log.
THEOREM ReturnsFollowLosses == Spec => OnlineAfterOffline
<1>1. Init => TypeOK /\ EventInv
  BY InitTypes, EventInit
<1>2. TypeOK /\ EventInv /\ [Next]_vars => (TypeOK /\ EventInv)'
  BY StepTypes, EventStep
<1>3. EventInv => (step = "log" => \A k \in ups : last[k] = "offline")
  BY DEF EventInv, UpsWereDown
<1> QED
  BY <1>1, <1>2, <1>3, PTL DEF Spec, OnlineAfterOffline

(***************************************************************************)
(* Every listed device was announced, and stays listed.                    *)
(***************************************************************************)
Known == told \cup unsaid

\* What is listed, saved or registered was announced; what this scan saw is fresh, or was.
\* At a restart the seen keys of the file are all taken for announced: saved.seen needs nothing.
KnownInv ==
    /\ Listed(dev) \cup Listed(saved.dev) \cup reg \cup saved.reg \subseteq Known
    /\ Looking => \A a \in IPs : index[a] # None => index[a] \in Known
FreshInv ==
    /\ seen \cup Listed(found) \cup Listed(result) \subseteq Known \cup fresh
    /\ step \in {"baseline", "publish"} => fresh \subseteq told
AnnounceInv == KnownInv /\ FreshInv

LEMMA SavedReg ==
    ASSUME DiskType, NEW r \in SUBSET Keys
    PROVE  [saved EXCEPT !.reg = r].dev = saved.dev /\ [saved EXCEPT !.reg = r].reg = r
  BY DEF DiskType

LEMMA AnnounceInit == Init => AnnounceInv
<1> SUFFICES ASSUME Init PROVE AnnounceInv
  OBVIOUS
<1>1. Listed(Nobody) = {}
  BY RecordTypes DEF Listed
<1>2. saved.dev = Nobody /\ saved.reg = {}
  BY DEF Init
<1> QED BY <1>1, <1>2 DEF Init, AnnounceInv, KnownInv, FreshInv, Looking

LEMMA BeginAnnounces ==
    ASSUME TypeOK, AnnounceInv, NEW addresses \in (SUBSET IPs) \ {{}}, Begin(addresses)
    PROVE  AnnounceInv'
<1>1. UNCHANGED <<dev, reg, seen, saved, found, result, fresh, told, unsaid>> /\ step' = "look"
  BY DEF Begin, listVars, tallyVars, logVars
<1>2. index' \in Indexes
  BY DEF Begin
<1>3. \A a \in IPs : index'[a] # None => index'[a] \in Listed(dev)
  BY <1>2, KeyFacts DEF Indexes, Occupants, Listed
<1> QED BY <1>1, <1>3 DEF AnnounceInv, KnownInv, FreshInv, Known

LEMMA SightAnnounces ==
    ASSUME TypeOK, AnnounceInv, NEW a \in IPs, NEW m \in Macs \cup {None}, Sight(a, m)
    PROVE  AnnounceInv'
<1> DEFINE k == KeyOf(a, m)
           old == OldKey(a, m)
<1>1. /\ found' = [found EXCEPT ![k] = Up(a)] /\ reg' = Moved(old, k)
      /\ fresh' = IF New(k, old, a) THEN fresh \cup {k} ELSE fresh
      /\ seen' = seen \cup {k}
      /\ told' = IF old \in told THEN told \cup {k} ELSE told
      /\ unsaid' = IF old \in unsaid THEN unsaid \cup {k} ELSE unsaid
      /\ UNCHANGED <<dev, saved, step, index, result>> /\ Looking
  BY DEF Sight, tallyVars, Looking
<1>2. old # None => old \in Known
  BY <1>1, KeyFacts DEF OldKey, AnnounceInv, KnownInv
<1>3. Known \subseteq Known' /\ (old # None => k \in Known')
  BY <1>1, <1>2 DEF Known
<1>4. None \notin seen /\ None \notin reg
  BY KeyFacts DEF TypeOK, ListType
<1>5. Moved(old, k) \subseteq Known'
  <2>1. reg \subseteq Known' BY <1>3 DEF AnnounceInv, KnownInv
  <2>2. old \in reg => k \in Known' BY <1>3, <1>4
  <2> QED BY <2>1, <2>2 DEF Moved
<1>6. k \in Known' \cup fresh'
  <2>1. CASE New(k, old, a) BY <1>1, <2>1
  <2>2. CASE ~New(k, old, a)
    <3>1. k \in seen \/ old \in seen \/ k \in Moved(old, k) BY <2>2 DEF New
    <3>2. seen \subseteq Known \cup fresh BY DEF AnnounceInv, FreshInv
    <3> QED BY <1>1, <1>3, <1>4, <1>5, <3>1, <3>2
  <2> QED BY <2>1, <2>2
<1>7. fresh \subseteq fresh' BY <1>1
<1> HIDE DEF k, old
<1>8. Listed(found') \subseteq Listed(found) \cup {k}
  BY <1>1 DEF Listed, TypeOK, PassType
<1>9. KnownInv'
  BY <1>1, <1>3, <1>5 DEF AnnounceInv, KnownInv, Looking
<1>10. FreshInv'
  BY <1>1, <1>3, <1>6, <1>7, <1>8 DEF AnnounceInv, FreshInv, Looking
<1> QED BY <1>9, <1>10 DEF AnnounceInv

LEMMA GateAnnounces ==
    ASSUME TypeOK, AnnounceInv, Gate
    PROVE  AnnounceInv'
<1>1. /\ UNCHANGED <<dev, reg, seen, index, result, told>>
      /\ step' = "sweep" /\ saved' = [saved EXCEPT !.reg = reg] /\ Looking
  BY DEF Gate, listVars, tallyVars, Looking
<1>2. saved'.dev = saved.dev /\ saved'.reg = reg
  BY <1>1, SavedReg DEF TypeOK, ListType
<1>3. PICK K \in SUBSET Listed(found) :
        /\ found' = [k \in Keys |-> IF k \in K THEN Absent ELSE found[k]]
        /\ fresh' = fresh \ K /\ unsaid' = unsaid \cup (K \cap fresh)
  BY DEF Gate
<1>4. Listed(found') \subseteq Listed(found)
  BY <1>3 DEF Listed, Absent
<1>5. Known \subseteq Known' /\ Known \cup fresh \subseteq Known' \cup fresh'
  BY <1>1, <1>3 DEF Known
<1>6. KnownInv'
  BY <1>1, <1>2, <1>5 DEF AnnounceInv, KnownInv, Looking
<1>7. FreshInv'
  BY <1>1, <1>4, <1>5 DEF AnnounceInv, FreshInv
<1> QED BY <1>6, <1>7 DEF AnnounceInv

LEMMA TallyAnnounces ==
    ASSUME TypeOK, AnnounceInv, Tally
    PROVE  AnnounceInv'
<1> USE TallySteps, RecordTypes
<1>1. UNCHANGED <<dev, reg, told, unsaid, fresh>> /\ step' = "log" /\ seen' \subseteq seen /\ saved' = [saved EXCEPT !.reg = reg]
  OBVIOUS
<1>2. saved'.dev = saved.dev /\ saved'.reg = reg
  BY <1>1, SavedReg DEF TypeOK, ListType
<1>3. Listed(result') \subseteq Listed(found) \cup Listed(dev)
  <2> SUFFICES ASSUME NEW k \in Keys, result'[k].ip # None, found[k].ip = None PROVE dev[k].ip # None
    BY DEF Listed
  <2>1. CASE k \in Missed
    BY <2>1 DEF Missed, Scanned, Expected, Listed
  <2>2. CASE k \notin Missed
    <3>1. result'[k] = Carried(Listed(dev) \ (Scanned \cup Superseded))[k] BY <2>2, ZenonT(60)
    <3> QED BY <3>1 DEF Carried, Absent
  <2> QED BY <2>1, <2>2
<1>4. Listed(found') \subseteq Listed(found) \cup Listed(result')
  <2>1. \A k \in Keys : found'[k] = result'[k] \/ found'[k] = found[k] OBVIOUS
  <2> QED BY <2>1 DEF Listed
<1>5. KnownInv'
  BY <1>1, <1>2 DEF AnnounceInv, KnownInv, Known, Looking
<1>6. FreshInv'
  BY <1>1, <1>3, <1>4 DEF AnnounceInv, KnownInv, FreshInv, Known
<1> QED BY <1>5, <1>6 DEF AnnounceInv

LEMMA EndAnnounces ==
    ASSUME TypeOK, AnnounceInv, Log \/ Baseline \/ Publish
    PROVE  AnnounceInv'
<1>1. CASE Log
  <2>1. UNCHANGED <<dev, reg, seen, saved, result, found, fresh, unsaid>> /\ step' = "baseline" /\ told' = told \cup fresh
    BY <1>1 DEF Log, listVars, passVars, tallyVars
  <2> QED BY <2>1 DEF AnnounceInv, KnownInv, FreshInv, Known, Looking
<1>2. CASE Baseline
  <2>1. /\ UNCHANGED <<dev, seen, result, found, fresh, told, unsaid>> /\ step = "baseline" /\ step' = "publish"
        /\ reg' = reg \cup Listed(found) /\ saved' = [saved EXCEPT !.reg = reg']
    BY <1>2 DEF Baseline, passVars, tallyVars, logVars
  <2>2. reg' \in SUBSET Keys
    BY <2>1 DEF TypeOK, ListType, Listed
  <2>3. saved'.dev = saved.dev /\ saved'.reg = reg'
    BY <2>1, <2>2, SavedReg DEF TypeOK
  <2> QED BY <2>1, <2>3 DEF AnnounceInv, KnownInv, FreshInv, Known, Looking
<1>3. CASE Publish
  <2>1. /\ step = "publish" /\ step' = "idle" /\ UNCHANGED <<seen, reg, told, unsaid, miss>>
        /\ dev' = result /\ found' = Nobody /\ result' = Nobody /\ fresh' = {}
        /\ saved' = [saved EXCEPT !.dev = dev', !.miss = miss, !.seen = seen]
    BY <1>3 DEF Publish, logVars
  <2>2. saved'.dev = result /\ saved'.reg = saved.reg
    BY <2>1 DEF TypeOK, DiskType
  <2>3. Listed(Nobody) = {}
    BY RecordTypes DEF Listed
  <2> QED BY <2>1, <2>2, <2>3 DEF AnnounceInv, KnownInv, FreshInv, Known, Looking
<1> QED BY <1>1, <1>2, <1>3

LEMMA DropAnnounces ==
    ASSUME TypeOK, AnnounceInv, (\E k \in Keys : Forget(k)) \/ ForgetLive \/ (\E K \in SUBSET Keys : Prune(K))
    PROVE  AnnounceInv'
<1>1. ASSUME NEW K \in SUBSET Keys, Dropped(K)
      PROVE  Listed(dev') \subseteq Listed(dev) /\ seen' \subseteq seen
  <2>1. \A k \in Keys : dev'[k] = Absent \/ dev'[k] = dev[k] BY <1>1 DEF Dropped
  <2> QED BY <1>1, <2>1 DEF Dropped, Listed, Absent
<1>2. /\ UNCHANGED <<step, index, found, fresh, result, told, unsaid>>
      /\ Listed(dev') \subseteq Listed(dev) /\ Listed(saved'.dev) \subseteq Listed(saved.dev) \cup Listed(dev)
      /\ seen' \subseteq seen /\ reg' \subseteq reg /\ saved'.reg \subseteq reg \cup saved.reg
  <2>1. CASE \E k \in Keys : Forget(k)
    <3>1. /\ UNCHANGED <<step, index, found, fresh, result, told, unsaid, dev, seen>>
          /\ reg' \subseteq reg /\ saved' = [saved EXCEPT !.reg = reg'] /\ reg' \in SUBSET Keys
      BY <2>1 DEF Forget, passVars, tallyVars, logVars, TypeOK, ListType
    <3>2. saved'.dev = saved.dev /\ saved'.reg = reg'
      BY <3>1, SavedReg DEF TypeOK
    <3> QED BY <3>1, <3>2
  <2>2. CASE ForgetLive
    <3>1. /\ UNCHANGED <<step, index, found, fresh, result, told, unsaid, reg>>
          /\ Dropped({forgetting}) /\ {forgetting} \in SUBSET Keys
          /\ saved' = [saved EXCEPT !.dev = dev', !.miss = miss', !.seen = seen']
      BY <2>2 DEF ForgetLive, passVars, tallyVars, logVars, TypeOK
    <3>2. saved'.dev = dev' /\ saved'.reg = saved.reg
      BY <3>1 DEF TypeOK, DiskType
    <3> QED BY <1>1, <3>1, <3>2
  <2>3. ASSUME NEW K \in SUBSET Keys, Prune(K)
        PROVE  /\ UNCHANGED <<step, index, found, fresh, result, told, unsaid>>
               /\ Dropped(K) /\ reg' = reg \ K /\ saved'.dev = dev' /\ saved'.reg = reg'
    BY <2>3 DEF Prune, passVars, tallyVars, logVars
  <2> QED BY <1>1, <2>1, <2>2, <2>3
<1> QED BY <1>2 DEF AnnounceInv, KnownInv, FreshInv, Known, Looking

LEMMA RestartAnnounces ==
    ASSUME TypeOK, AnnounceInv, Restart
    PROVE  AnnounceInv'
<1>1. /\ dev' = saved.dev /\ seen' = saved.seen /\ reg' = saved.reg /\ saved' = saved /\ step' = "idle"
      /\ found' = Nobody /\ fresh' = {} /\ result' = Nobody /\ told' = told /\ unsaid' = unsaid \cup (saved.seen \ told)
  BY DEF Restart
<1>2. Listed(Nobody) = {}
  BY RecordTypes DEF Listed
<1> QED BY <1>1, <1>2 DEF AnnounceInv, KnownInv, FreshInv, Known, Looking

LEMMA AnnounceStep == TypeOK /\ AnnounceInv /\ [Next]_vars => AnnounceInv'
<1> SUFFICES ASSUME TypeOK, AnnounceInv, [Next]_vars PROVE AnnounceInv'
  OBVIOUS
<1>1. CASE UNCHANGED vars
  BY <1>1 DEF vars, listVars, passVars, tallyVars, logVars, AnnounceInv, KnownInv, FreshInv, Known, Looking
<1>2. CASE Scan
  BY <1>2, BeginAnnounces, SightAnnounces, GateAnnounces, TallyAnnounces, EndAnnounces DEF Scan
<1>3. CASE Requests
  BY <1>3, DropAnnounces DEF Requests
<1>4. CASE Restart
  BY <1>4, RestartAnnounces
<1> QED BY <1>1, <1>2, <1>3, <1>4 DEF Next

\* Every listed device was announced as new, but for one whose first sighting the gate dropped
\* and for those of a scan that a restart cut short after a forgetting or pruning saved what it saw.
THEOREM NewAreAnnounced == Spec => []NewIsAnnounced
<1>1. AnnounceInv => NewIsAnnounced
  BY DEF NewIsAnnounced, AnnounceInv, KnownInv, Known
<1> QED BY <1>1, AnnounceInit, AnnounceStep, TypeCorrect, PTL DEF Spec

\* A superseded key's heir was found, and takes its place in the new list, unless the gate
\* dropped it.
HeirInv ==
    /\ Looking => \A k \in Keys : heir[k] # None => heir[k] \in Listed(found) \cup gated
    /\ step \in {"idle", "look"} => gated = {}
    /\ step \in {"log", "baseline", "publish"} =>
          \A k \in Listed(dev) \ Listed(result) : heir[k] \in Listed(result) \cup gated

LEMMA HeirStep == TypeOK /\ HeirInv /\ (step = "idle" => Superseded = {}) /\ [Next]_vars => HeirInv'
<1> SUFFICES ASSUME TypeOK, HeirInv, step = "idle" => Superseded = {}, [Next]_vars PROVE HeirInv'
  OBVIOUS
<1>1. CASE \E addresses \in (SUBSET IPs) \ {{}} : Begin(addresses)
  <2>1. step = "idle" /\ step' = "look" /\ UNCHANGED <<heir, gated>>
    BY <1>1 DEF Begin
  <2> QED BY <2>1 DEF HeirInv, Superseded
<1>2. ASSUME NEW a \in IPs, NEW m \in Macs \cup {None}, Sight(a, m) PROVE HeirInv'
  <2> DEFINE k == KeyOf(a, m)
             old == OldKey(a, m)
  <2>1. /\ Looking /\ step' = step /\ found' = [found EXCEPT ![k] = Up(a)]
        /\ heir' = IF old = None THEN heir ELSE [heir EXCEPT ![old] = m]
        /\ gated' = gated \ {k}
    BY <1>2 DEF Sight, Looking
  <2>2. k \in Keys /\ (old # None => m # None /\ k = m)
    BY KeyFacts DEF KeyOf, OldKey
  <2> HIDE DEF k, old
  <2>3. Listed(found) \cup {k} \subseteq Listed(found')
    BY <2>1, <2>2, RecordTypes, KeyFacts DEF Listed, TypeOK, PassType, Up
  <2>4. \A j \in Keys : heir'[j] = heir[j] \/ (old # None /\ heir'[j] = m)
    BY <2>1 DEF TypeOK, PassType
  <2>5. \A j \in Keys : heir'[j] # None => heir'[j] \in Listed(found') \cup gated'
    <3> SUFFICES ASSUME NEW j \in Keys, heir'[j] # None PROVE heir'[j] \in Listed(found') \cup gated'
      OBVIOUS
    <3>1. CASE heir'[j] = heir[j]
      <4>1. heir[j] \in Listed(found) \cup gated
        BY <2>1, <3>1 DEF HeirInv
      <4>2. CASE heir[j] \in Listed(found) BY <2>3, <3>1, <4>2
      <4>3. CASE heir[j] = k BY <2>3, <3>1, <4>3
      <4>4. CASE heir[j] \in gated \ {k}
        <5>1. heir[j] \in gated' BY <2>1, <4>4
        <5> QED BY <3>1, <5>1
      <4> QED BY <4>1, <4>2, <4>3, <4>4
    <3>2. CASE old # None /\ heir'[j] = m
      BY <2>2, <2>3, <3>2
    <3> QED BY <2>4, <3>1, <3>2
  <2>6. step' \in {"idle", "look"} => gated' = {}
    BY <2>1 DEF HeirInv
  <2> QED BY <2>1, <2>5, <2>6 DEF HeirInv, Looking
<1>3. CASE Gate
  <2>1. heir' = heir /\ step' = "sweep" /\ step = "look"
    BY <1>3 DEF Gate
  <2>2. Listed(found) \subseteq Listed(found') \cup gated'
    BY <1>3 DEF Gate, Listed
  <2>3. gated = {}
    BY <2>1 DEF HeirInv
  <2> QED BY <2>1, <2>2, <2>3 DEF HeirInv, Looking
<1>4. CASE Tally
  <2>1. step = "sweep" /\ step' = "log" /\ UNCHANGED <<heir, gated, dev>>
    BY <1>4, TallySteps
  <2>2. ASSUME NEW k \in Listed(dev), k \notin Listed(result')
        PROVE  heir[k] \in Listed(result') \cup gated
    <3>1. k \in Keys /\ dev[k].ip # None /\ dev[k] \in Record /\ result'[k].ip = None
      BY <2>2 DEF Listed, TypeOK, ListType
    <3>2. found[k].ip = None
      BY <1>4, <3>1, TallySteps
    <3>3. k \notin Missed
      BY <1>4, <3>1, <3>2, TallySteps, RecordTypes
    <3>4. k \notin Scanned
      BY <3>2, <3>3 DEF Missed, Listed
    <3>5. k \in Superseded
      <4>1. result'[k] = Carried(Listed(dev) \ (Scanned \cup Superseded))[k]
        BY <1>4, <3>1, <3>2, <3>3, TallySteps
      <4> QED BY <2>2, <3>1, <3>4, <4>1 DEF Carried
    <3>6. heir[k] \in Listed(found) \cup gated
      BY <2>1, <3>1, <3>5 DEF HeirInv, Looking, Superseded
    <3>7. Listed(found) \subseteq Listed(result')
      BY <1>4, TallySteps DEF Listed
    <3> QED BY <3>6, <3>7
  <2> QED BY <2>1, <2>2 DEF HeirInv, Looking
<1>5. CASE Log \/ Baseline
  <2>1. UNCHANGED <<dev, result, heir, gated>> /\ step \in {"log", "baseline"} /\ step' \in {"baseline", "publish"}
    BY <1>5 DEF Log, Baseline, listVars, passVars, tallyVars
  <2> QED BY <2>1 DEF HeirInv, Looking
<1>6. CASE Publish \/ Restart
  <2>1. step' = "idle" /\ gated' = {}
    BY <1>6 DEF Publish, Restart
  <2> QED BY <2>1 DEF HeirInv, Looking
<1>7. CASE Requests \/ UNCHANGED vars
  <2>1. UNCHANGED <<step, found, heir, gated, result>>
    BY <1>7 DEF Requests, Forget, ForgetLive, Prune, vars, passVars, tallyVars
  <2>2. Listed(dev') \subseteq Listed(dev)
    <3>1. dev' = dev \/ \E K \in SUBSET Keys : Dropped(K)
      BY <1>7 DEF Requests, Forget, ForgetLive, Prune, vars, listVars, TypeOK
    <3>2. ASSUME NEW K \in SUBSET Keys, Dropped(K) PROVE Listed(dev') \subseteq Listed(dev)
      <4>1. \A k \in Keys : dev'[k] = Absent \/ dev'[k] = dev[k] BY <3>2 DEF Dropped
      <4> QED BY <4>1 DEF Listed, Absent
    <3> QED BY <3>1, <3>2
  <2> QED BY <2>1, <2>2 DEF HeirInv, Looking
<1> QED BY <1>1, <1>2, <1>3, <1>4, <1>5, <1>6, <1>7 DEF Next, Scan

Unheired == step = "idle" => Superseded = {}

LEMMA UnheiredStep == Unheired /\ [Next]_vars => Unheired'
<1> SUFFICES ASSUME Unheired, [Next]_vars PROVE Unheired'
  OBVIOUS
<1>1. step' # "idle" \/ heir' = [k \in Keys |-> None] \/ UNCHANGED <<step, heir>>
  BY DEF Next, Scan, Requests, Begin, Sight, Gate, Tally, Log, Baseline, Publish, Forget, ForgetLive, Prune, Restart,
         vars, passVars
<1> QED BY <1>1 DEF Unheired, Superseded

\* Publishing a scan drops a device only for the key that it is listed under from now on, or for
\* one that the gate dropped in this very scan, whatever is forgotten and pruned while it scans.
THEOREM ListedStay == Spec => ListedUntilForgotten
<1> DEFINE A == step = "publish" /\ step' = "idle" /\ left' = left =>
                   \A k \in Listed(dev) \ Listed(dev') : heir[k] \in Listed(dev') \cup gated
<1>1. Init => HeirInv /\ Unheired
  BY DEF Init, HeirInv, Looking, Unheired, Superseded
<1>2. TypeOK /\ HeirInv /\ Unheired /\ [Next]_vars => (HeirInv /\ Unheired)'
  BY HeirStep, UnheiredStep DEF Unheired
<1>3. TypeOK /\ HeirInv /\ [Next]_vars => A
  <2> SUFFICES ASSUME TypeOK, HeirInv, [Next]_vars, step = "publish", step' = "idle", left' = left
               PROVE  \A k \in Listed(dev) \ Listed(dev') : heir[k] \in Listed(dev') \cup gated
    OBVIOUS
  <2>1. ~Restart
    BY DEF Restart, Spend, TypeOK, Kinds
  <2>2. dev' = result
    BY <2>1 DEF Next, Scan, Requests, Begin, Sight, Gate, Tally, Log, Baseline, Publish, Forget, ForgetLive, Prune,
                vars
  <2> QED BY <2>2 DEF HeirInv
<1> HIDE DEF A
<1>4. TypeOK /\ HeirInv /\ [Next]_vars => [A]_vars
  BY <1>3
<1>5. Spec => [][A]_vars
  BY <1>1, <1>2, <1>4, TypeCorrect, PTL DEF Spec
<1> QED BY <1>5 DEF ListedUntilForgotten, A

(***************************************************************************)
(* Changes of a switch's ports.                                            *)
(***************************************************************************)
PortStates == [Ports -> [Fields -> BOOLEAN]]

\* A request that was made.
Asks == [pc : {"check", "read", "write", "off", "over"}, port : Ports, field : Fields, to : BOOLEAN, cycle : BOOLEAN,
         back : BOOLEAN, saw : PortStates, result : {"none", "refused", "ok", "left off", "failed"},
         was : [Fields -> BOOLEAN], met : BOOLEAN, crossed : BOOLEAN]

PortTyped ==
    /\ ports \in PortStates /\ pi \in Ports /\ unknown \in BOOLEAN /\ driver \in {"field", "port", "list"}
    /\ ask \in [People -> Asks \cup {NoAsk}]

\* Whoever may write off has been kept from the Pi's port, and what a request saw of that port
\* and may write back has it on: while the Pi's port is known.
PiSafe(r, i) ==
    /\ \A f \in Fields : r.saw[i][f]
    /\ r.pc # "check" /\ (~r.to \/ r.cycle) => r.port # i
PiInv ==
    unknown \/ /\ \A f \in Fields : ports[pi][f]
               /\ \A a \in People : Under(a) => PiSafe(ask[a], pi)

\* Requests under way together are marked.
MarkInv ==
    \A a, b \in People : a # b /\ Under(a) /\ Under(b) =>
       ask[a].crossed /\ (ask[a].port = ask[b].port => ask[a].met)

\* What a request that met nobody is about to write back is what there is; and a power cycle
\* has changed nothing but the power.
Settled(r, S, d) ==
    /\ r.pc = "write" => r.saw[r.port] = S[r.port] /\ (d = "list" => r.saw = S)
    /\ r.cycle => /\ r.field = "poe" /\ (r.to <=> r.back) /\ (r.pc = "off" => ~r.back)
                  /\ IF r.back \/ r.pc = "off"
                     THEN r.was["poe"] /\ S[r.port] = [r.was EXCEPT !["poe"] = FALSE]
                     ELSE S[r.port] = r.was /\ (r.pc = "write" => r.was["poe"])
AloneInv == \A a \in People : Under(a) /\ Alone(a) => Settled(ask[a], ports, driver)

CrossInv == PortTyped /\ PiInv /\ MarkInv /\ AloneInv

\* The steps of a request: its task stays, and so does its view of the switch, but where said.
SameTask(s, r) == s.port = r.port /\ s.field = r.field /\ s.cycle = r.cycle /\ s.was = r.was
SameView(s, r) == s.to = r.to /\ s.back = r.back /\ s.saw = r.saw
SameMarks(s, r) == s.met = r.met /\ s.crossed = r.crossed

LEMMA AskTo ==
    ASSUME NEW r \in Asks, NEW pc \in {"check", "read", "write", "off", "over"}
    PROVE  LET s == [r EXCEPT !.pc = pc] IN
           s \in Asks /\ s.pc = pc /\ SameTask(s, r) /\ SameView(s, r) /\ SameMarks(s, r)
  BY DEF Asks, SameTask, SameView, SameMarks

LEMMA AskSees ==
    ASSUME NEW r \in Asks, NEW S \in PortStates
    PROVE  LET s == [r EXCEPT !.pc = "write", !.saw = S] IN
           /\ s \in Asks /\ s.pc = "write" /\ SameTask(s, r) /\ SameMarks(s, r)
           /\ s.to = r.to /\ s.back = r.back /\ s.saw = S
  BY DEF Asks, SameTask, SameMarks

LEMMA AskEnds ==
    ASSUME NEW r \in Asks, NEW x \in {"refused", "ok", "left off", "failed"}
    PROVE  LET s == [r EXCEPT !.pc = "over", !.result = x] IN
           s \in Asks /\ s.pc = "over" /\ s.port = r.port /\ s.result = x
  BY DEF Asks

LEMMA AskMarked ==
    ASSUME NEW r \in Asks, NEW m \in BOOLEAN
    PROVE  LET s == [r EXCEPT !.met = m, !.crossed = TRUE] IN
           s \in Asks /\ s.pc = r.pc /\ SameTask(s, r) /\ SameView(s, r) /\ s.met = m /\ s.crossed = TRUE
  BY DEF Asks, SameTask, SameView

LEMMA AskBacks ==
    ASSUME NEW r \in Asks
    PROVE  LET s == [r EXCEPT !.pc = "read", !.to = TRUE, !.back = TRUE] IN
           /\ s \in Asks /\ s.pc = "read" /\ SameTask(s, r) /\ SameMarks(s, r)
           /\ s.to = TRUE /\ s.back = TRUE /\ s.saw = r.saw
  BY DEF Asks, SameTask, SameMarks

LEMMA UnderWay == PortTyped => \A a \in People : /\ Under(a) => ask[a] \in Asks
                                                 /\ ask[a].pc # "none" => ask[a] \in Asks
  BY DEF PortTyped, Under, NoAsk

\* What a write leaves of each field.
LEMMA Written ==
    ASSUME PortTyped, NEW a \in People, ask[a] \in Asks
    PROVE  /\ Writes(a) \in PortStates
           /\ \A p \in Ports, f \in Fields : Writes(a)[p][f] =
                 IF p = ask[a].port /\ f = ask[a].field THEN ask[a].to
                 ELSE IF driver = "list" \/ (driver = "port" /\ p = ask[a].port) THEN ask[a].saw[p][f]
                 ELSE ports[p][f]
           /\ driver # "list" => \A p \in Ports \ {ask[a].port} : Writes(a)[p] = ports[p]
<1> DEFINE r == ask[a]
<1>1. r.port \in Ports /\ r.field \in Fields /\ r.to \in BOOLEAN /\ r.saw \in PortStates /\ ports \in PortStates
  BY DEF PortTyped, Asks
<1> HIDE DEF r
<1>2. CASE driver = "field"
  <2>1. Writes(a) = [ports EXCEPT ![r.port] = [ports[r.port] EXCEPT ![r.field] = r.to]]
    BY <1>1, <1>2 DEF Writes, r, PortStates
  <2> QED BY <1>1, <1>2, <2>1 DEF PortStates, r
<1>3. CASE driver = "port"
  <2>1. Writes(a) = [ports EXCEPT ![r.port] = [r.saw[r.port] EXCEPT ![r.field] = r.to]]
    BY <1>3 DEF Writes, r
  <2> QED BY <1>1, <1>3, <2>1 DEF PortStates, r
<1>4. CASE driver = "list"
  <2>1. Writes(a) = [r.saw EXCEPT ![r.port] = [r.saw[r.port] EXCEPT ![r.field] = r.to]]
    BY <1>1, <1>4 DEF Writes, r, PortStates
  <2> QED BY <1>1, <1>4, <2>1 DEF PortStates, r
<1> QED BY <1>2, <1>3, <1>4 DEF PortTyped

\* A step of one request that changes no port.
LEMMA OwnStep ==
    ASSUME CrossInv, NEW a \in People, Under(a), NEW s \in Asks, ask' = [ask EXCEPT ![a] = s],
           UNCHANGED <<driver, ports, pi>>, unknown' \in {unknown, TRUE},
           \/ s.pc = "over"
           \/ /\ s.port = ask[a].port /\ SameMarks(s, ask[a])
              /\ unknown' \/ PiSafe(s, pi)
              /\ Alone(a) => Settled(s, ports, driver)
    PROVE  CrossInv'
<1>1. /\ ask' \in [People -> Asks \cup {NoAsk}]
      /\ ask'[a] = s /\ \A b \in People \ {a} : ask'[b] = ask[b]
  BY DEF CrossInv, PortTyped
<1>2. PortTyped'
  BY <1>1 DEF CrossInv, PortTyped
<1>3. \A b \in People \ {a} : Under(b)' = Under(b) /\ Alone(b)' = Alone(b)
  BY <1>1 DEF Under, Alone
<1>4. Under(a)' => s.pc # "over" /\ Alone(a)' = Alone(a)
  BY <1>1 DEF Under, Alone, SameMarks
<1>5. PiInv'
  BY <1>1, <1>3, <1>4 DEF CrossInv, PiInv
<1>6. MarkInv'
  BY <1>1, <1>3, <1>4 DEF CrossInv, MarkInv, SameMarks
<1>7. AloneInv'
  <2> SUFFICES ASSUME NEW b \in People, Under(b)', Alone(b)'
               PROVE  Settled(ask[b], ports, driver)'
    BY DEF AloneInv
  <2>1. CASE b = a
    <3>1. Settled(s, ports, driver) BY <1>4, <2>1
    <3> QED BY <1>1, <2>1, <3>1 DEF Settled
  <2>2. CASE b # a
    <3>1. Settled(ask[b], ports, driver) BY <1>3, <2>2 DEF CrossInv, AloneInv
    <3> QED BY <1>1, <2>2, <3>1 DEF Settled
  <2> QED BY <2>1, <2>2
<1> QED BY <1>2, <1>5, <1>6, <1>7 DEF CrossInv

\* A step in which a request's write is done, or half done.
LEMMA WriteStep ==
    ASSUME CrossInv, NEW a \in People, ask[a].pc = "write", NEW s \in Asks, ask' = [ask EXCEPT ![a] = s],
           UNCHANGED <<driver, pi, unknown>>, ports' = Writes(a),
           \/ s.pc = "over"
           \/ /\ s.pc = "off" /\ ask[a].cycle /\ ~ask[a].back
              /\ SameTask(s, ask[a]) /\ SameView(s, ask[a]) /\ SameMarks(s, ask[a])
    PROVE  CrossInv'
<1> DEFINE r == ask[a]
<1>1. Under(a) /\ r \in Asks
  BY UnderWay DEF Under, CrossInv
<1>2. /\ ask' \in [People -> Asks \cup {NoAsk}]
      /\ ask'[a] = s /\ \A b \in People \ {a} : ask'[b] = ask[b]
  BY DEF CrossInv, PortTyped
<1>3. /\ ports' \in PortStates
      /\ \A p \in Ports, f \in Fields : ports'[p][f] =
            IF p = r.port /\ f = r.field THEN r.to
            ELSE IF driver = "list" \/ (driver = "port" /\ p = r.port) THEN r.saw[p][f]
            ELSE ports[p][f]
      /\ driver # "list" => \A p \in Ports \ {r.port} : ports'[p] = ports[p]
  BY <1>1, Written DEF CrossInv
<1>4. PortTyped'
  BY <1>2, <1>3 DEF CrossInv, PortTyped
<1>5. \A b \in People \ {a} : Under(b)' = Under(b) /\ Alone(b)' = Alone(b)
  BY <1>2 DEF Under, Alone
<1>6. Under(a)' => s.pc = "off" /\ Alone(a)' = Alone(a)
  BY <1>2 DEF Under, Alone, SameMarks
<1>7. PiInv'
  <2> SUFFICES ASSUME ~unknown PROVE PiInv'
    BY DEF PiInv
  <2>1. PiSafe(r, pi) /\ \A f \in Fields : ports[pi][f]
    BY <1>1 DEF CrossInv, PiInv
  <2>2. r.port = pi => r.to
    BY <2>1 DEF PiSafe
  <2>3. \A f \in Fields : ports'[pi'][f]
    <3>1. pi \in Ports BY DEF CrossInv, PortTyped
    <3> HIDE DEF r
    <3> QED BY <1>3, <2>1, <2>2, <3>1 DEF PiSafe
  <2>4. \A b \in People : Under(b)' => PiSafe(ask'[b], pi)
    <3> SUFFICES ASSUME NEW b \in People, Under(b)' PROVE PiSafe(ask'[b], pi)
      OBVIOUS
    <3>1. CASE b = a
      BY <1>2, <1>6, <2>1, <3>1 DEF PiSafe, SameTask, SameView
    <3>2. CASE b # a
      BY <1>2, <1>5, <3>2 DEF CrossInv, PiInv
    <3> QED BY <3>1, <3>2
  <2> QED BY <2>3, <2>4 DEF PiInv
<1>8. MarkInv'
  BY <1>1, <1>2, <1>5, <1>6 DEF CrossInv, MarkInv, SameMarks, SameTask
<1>9. AloneInv'
  <2> SUFFICES ASSUME NEW b \in People, Under(b)', Alone(b)'
               PROVE  Settled(ask'[b], ports', driver)
    BY DEF AloneInv
  <2>1. CASE b = a
    <3>1. s.pc = "off" /\ r.cycle /\ ~r.back /\ Alone(a) /\ Settled(r, ports, driver)
      BY <1>1, <1>6, <2>1 DEF CrossInv, AloneInv
    <3>2. /\ r.field = "poe" /\ ~r.to /\ r.was["poe"] /\ ports[r.port] = r.was /\ r.saw[r.port] = ports[r.port]
          /\ driver = "list" => r.saw = ports
      BY <3>1 DEF Settled
    <3>3. r.port \in Ports /\ r.was \in [Fields -> BOOLEAN] /\ r.to = FALSE
      BY <1>1, <3>2 DEF Asks
    <3> HIDE DEF r
    <3>4. ports'[r.port] = [r.was EXCEPT !["poe"] = FALSE]
      <4>1. \A f \in Fields : ports'[r.port][f] = IF f = "poe" THEN FALSE ELSE r.was[f]
        <5> TAKE f \in Fields
        <5>1. ports'[r.port][f] = IF f = r.field THEN r.to ELSE IF driver \in {"list", "port"} THEN r.saw[r.port][f]
                                 ELSE ports[r.port][f]
          BY <1>3, <3>3
        <5>2. r.saw[r.port][f] = r.was[f] /\ ports[r.port][f] = r.was[f]
          BY <3>2
        <5> QED BY <3>2, <3>3, <5>1, <5>2
      <4>2. ports'[r.port] \in [Fields -> BOOLEAN]
        BY <1>3, <3>3 DEF PortStates
      <4> QED BY <3>3, <4>1, <4>2, ZenonT(60)
    <3> QED BY <1>2, <2>1, <3>1, <3>2, <3>4 DEF Settled, SameTask, SameView, r
  <2>2. CASE b # a
    <3>1. Under(b) /\ Alone(b) /\ Settled(ask[b], ports, driver) /\ ask[b] \in Asks
      BY <1>5, <2>2, UnderWay DEF CrossInv, AloneInv
    <3>2. ask[b].crossed /\ (ask[b].port = r.port => ask[b].met)
      BY <1>1, <2>2, <3>1 DEF CrossInv, MarkInv
    <3>3. driver # "list" /\ ask[b].port # r.port /\ ask[b].port \in Ports
      BY <3>1, <3>2 DEF Alone, Asks
    <3>4. ports'[ask[b].port] = ports[ask[b].port]
      BY <1>3, <3>3
    <3> QED BY <1>2, <2>2, <3>1, <3>3, <3>4 DEF Settled
  <2> QED BY <2>1, <2>2
<1> QED BY <1>4, <1>7, <1>8, <1>9 DEF CrossInv

LEMMA RequestStep ==
    ASSUME CrossInv, NEW a \in People, NEW p \in Ports, NEW field \in Fields, NEW to \in BOOLEAN, NEW cycle \in BOOLEAN,
           Request(a, p, field, to, cycle)
    PROVE  CrossInv'
<1> DEFINE s == ask'[a]
<1>1. /\ ~Under(a) /\ (cycle => field = "poe" /\ ~to) /\ UNCHANGED <<driver, ports, pi, unknown>>
      /\ ports \in PortStates /\ ports[p] \in [Fields -> BOOLEAN] /\ pi \in Ports
  BY DEF Request, CrossInv, PortTyped, PortStates
<1>2. /\ s \in Asks /\ s.pc = (IF Cutting(s) THEN "check" ELSE "read")
      /\ s.port = p /\ s.field = field /\ s.to = to /\ s.cycle = cycle /\ ~s.back /\ s.saw = ports /\ s.was = ports[p]
      /\ s.met = (Meets(a, p) # {}) /\ s.crossed = (Crosses(a) # {})
  <2> DEFINE r == [pc |-> "read", port |-> p, field |-> field, to |-> to, cycle |-> cycle, back |-> FALSE,
                   saw |-> ports, result |-> "none", was |-> ports[p],
                   met |-> Meets(a, p) # {}, crossed |-> Crosses(a) # {}]
  <2>1. s = [r EXCEPT !.pc = IF Cutting(r) THEN "check" ELSE "read"]
    BY DEF Request
  <2>2. s = [pc |-> IF Cutting(r) THEN "check" ELSE "read", port |-> p, field |-> field, to |-> to, cycle |-> cycle, back |-> FALSE,
             saw |-> ports, result |-> "none", was |-> ports[p],
             met |-> Meets(a, p) # {}, crossed |-> Crosses(a) # {}]
    BY <2>1, ZenonT(60)
  <2>3. Cutting(r) = (cycle \/ ~to)
    BY DEF Cutting
  <2> HIDE DEF r
  <2> QED BY <1>1, <2>2, <2>3 DEF Asks, Cutting
<1>3. \A b \in People \ {a} :
         /\ Under(b) => /\ ask'[b] \in Asks /\ ask'[b].pc = ask[b].pc
                        /\ SameTask(ask'[b], ask[b]) /\ SameView(ask'[b], ask[b])
                        /\ ask'[b].met = (ask[b].met \/ ask[b].port = p) /\ ask'[b].crossed = TRUE
         /\ ~Under(b) => ask'[b] = ask[b]
  <2> TAKE b \in People \ {a}
  <2>1. ask'[b] = IF Under(b) THEN [ask[b] EXCEPT !.met = @ \/ b \in Meets(a, p), !.crossed = TRUE] ELSE ask[b]
    BY DEF Request
  <2>2. CASE Under(b)
    <3>1. ask[b] \in Asks /\ ask[b].met \in BOOLEAN
      BY <2>2, UnderWay DEF CrossInv, Asks
    <3>2. (b \in Meets(a, p)) <=> ask[b].port = p
      BY <2>2 DEF Meets
    <3> DEFINE m == ask[b].met \/ b \in Meets(a, p)
    <3>3. ask'[b] = [ask[b] EXCEPT !.met = m, !.crossed = TRUE] /\ m \in BOOLEAN /\ m = (ask[b].met \/ ask[b].port = p)
      BY <2>1, <2>2, <3>1, <3>2
    <3> HIDE DEF m
    <3>4. LET t == [ask[b] EXCEPT !.met = m, !.crossed = TRUE] IN
          /\ t \in Asks /\ t.pc = ask[b].pc /\ SameTask(t, ask[b]) /\ SameView(t, ask[b])
          /\ t.met = m /\ t.crossed = TRUE
      BY <3>1, <3>3, AskMarked, ZenonT(60)
    <3> QED BY <2>2, <3>3, <3>4
  <2> QED BY <2>1, <2>2
<1>4. ask' \in [People -> Asks \cup {NoAsk}]
  <2>1. \A b \in People : ask'[b] \in Asks \cup {NoAsk}
    BY <1>2, <1>3 DEF CrossInv, PortTyped
  <2>2. ask' = [b \in People |-> ask'[b]]
    BY DEF Request
  <2> HIDE DEF s
  <2> QED BY <2>1, <2>2
<1>5. \A b \in People \ {a} : Under(b)' = Under(b)
  BY <1>3 DEF Under
<1> HIDE DEF s
<1>6. PortTyped'
  BY <1>1, <1>4 DEF CrossInv, PortTyped
<1>7. PiInv'
  <2> SUFFICES ASSUME ~unknown PROVE PiInv'
    BY <1>1 DEF PiInv
  <2>1. /\ \A f \in Fields : ports[pi][f]
        /\ \A b \in People : Under(b) => PiSafe(ask[b], pi)
    BY DEF CrossInv, PiInv
  <2>2. PiSafe(s, pi)
    BY <1>2, <2>1 DEF PiSafe, Cutting
  <2>3. \A b \in People : Under(b)' => PiSafe(ask'[b], pi)
    <3> SUFFICES ASSUME NEW b \in People, Under(b)' PROVE PiSafe(ask'[b], pi)
      OBVIOUS
    <3>1. CASE b = a
      BY <2>2, <3>1 DEF s
    <3>2. CASE b # a
      <4>1. Under(b) /\ PiSafe(ask[b], pi) BY <1>5, <2>1, <3>2
      <4> QED BY <1>3, <3>2, <4>1 DEF PiSafe, SameTask, SameView
    <3> QED BY <3>1, <3>2
  <2> QED BY <1>1, <2>1, <2>3 DEF PiInv
<1>8. MarkInv'
  <2> SUFFICES ASSUME NEW b \in People, NEW c \in People, b # c, Under(b)', Under(c)'
               PROVE  ask'[b].crossed /\ (ask'[b].port = ask'[c].port => ask'[b].met)
    BY DEF MarkInv
  <2>1. CASE b = a
    <3>1. Under(c) /\ ask'[c].port = ask[c].port /\ c \in Crosses(a)
      BY <1>3, <1>5, <2>1 DEF SameTask, Crosses
    <3>2. s.crossed
      BY <1>2, <3>1
    <3>3. ask[c].port = p => s.met
      BY <1>2, <2>1, <3>1 DEF Meets
    <3> QED BY <1>2, <2>1, <3>1, <3>2, <3>3 DEF s
  <2>2. CASE b # a /\ c = a
    <3>1. Under(b)
      BY <1>5, <2>2
    <3>2. ask'[b].crossed /\ ask'[b].port = ask[b].port /\ ask'[b].met = (ask[b].met \/ ask[b].port = p)
      BY <1>3, <2>2, <3>1 DEF SameTask
    <3> QED BY <1>2, <2>2, <3>2 DEF s
  <2>3. CASE b # a /\ c # a
    <3>1. Under(b) /\ Under(c)
      BY <1>5, <2>3
    <3>2. ask[b].port = ask[c].port => ask[b].met
      BY <3>1 DEF CrossInv, MarkInv
    <3> QED BY <1>3, <2>3, <3>1, <3>2 DEF SameTask
  <2> QED BY <2>1, <2>2, <2>3
<1>9. AloneInv'
  <2> SUFFICES ASSUME NEW b \in People, Under(b)', Alone(b)'
               PROVE  Settled(ask'[b], ports, driver)
    BY <1>1 DEF AloneInv, Settled
  <2>1. CASE b = a
    <3>1. Settled(s, ports, driver)
      BY <1>1, <1>2 DEF Settled
    <3> QED BY <2>1, <3>1 DEF s
  <2>2. CASE b # a
    <3>1. Under(b) /\ Alone(b)
      BY <1>1, <1>3, <1>5, <2>2 DEF Alone
    <3>2. Settled(ask[b], ports, driver)
      BY <3>1 DEF CrossInv, AloneInv
    <3>3. ask'[b].pc = ask[b].pc /\ SameTask(ask'[b], ask[b]) /\ SameView(ask'[b], ask[b])
      BY <1>3, <2>2, <3>1
    <3> QED BY <3>2, <3>3 DEF Settled, SameTask, SameView
  <2> QED BY <2>1, <2>2
<1> QED BY <1>6, <1>7, <1>8, <1>9 DEF CrossInv

LEMMA EndStep ==
    ASSUME CrossInv, NEW a \in People, ask[a].pc \in {"check", "read", "write"},
           NEW x \in {"refused", "ok", "left off", "failed"}, Ends(a, x)
    PROVE  \E s \in Asks : s.pc = "over" /\ s.result = x /\ ask' = [ask EXCEPT ![a] = s]
<1>1. ask[a] \in Asks
  BY UnderWay DEF CrossInv
<1>2. ask' = [ask EXCEPT ![a] = [ask[a] EXCEPT !.pc = "over", !.result = x]]
  BY DEF Ends, CrossInv, PortTyped
<1> QED BY <1>1, <1>2, AskEnds

LEMMA ToStep ==
    ASSUME CrossInv, NEW a \in People, ask[a].pc # "none", NEW pc \in {"read", "off"}, To(a, pc)
    PROVE  \E s \in Asks : /\ s.pc = pc /\ ask' = [ask EXCEPT ![a] = s]
                           /\ SameTask(s, ask[a]) /\ SameView(s, ask[a]) /\ SameMarks(s, ask[a])
<1>1. ask[a] \in Asks
  BY UnderWay DEF CrossInv
<1>2. ask' = [ask EXCEPT ![a] = [ask[a] EXCEPT !.pc = pc]]
  BY DEF To, CrossInv, PortTyped
<1> DEFINE s == [ask[a] EXCEPT !.pc = pc]
<1>3. s \in Asks /\ s.pc = pc /\ SameTask(s, ask[a]) /\ SameView(s, ask[a]) /\ SameMarks(s, ask[a])
  BY <1>1, AskTo, ZenonT(60)
<1>4. ask' = [ask EXCEPT ![a] = s]
  BY <1>2
<1> HIDE DEF s
<1> QED BY <1>3, <1>4

LEMMA CheckStep == ASSUME CrossInv, NEW a \in People, CheckPort(a) PROVE CrossInv'
<1>1. /\ Under(a) /\ ask[a] \in Asks /\ ask[a].pc = "check" /\ UNCHANGED <<driver, ports, pi>>
      /\ unknown \in BOOLEAN
  BY UnderWay DEF CheckPort, Under, CrossInv, PortTyped
<1>2. PICK table \in BOOLEAN :
        /\ IF ask[a].port \in Protected(table) THEN Ends(a, "refused") ELSE To(a, "read")
        /\ unknown' = (unknown \/ (~table /\ ask[a].port = pi))
  BY DEF CheckPort
<1>3. unknown' \in {unknown, TRUE}
  BY <1>1, <1>2
<1>4. CASE ask[a].port \in Protected(table)
  <2>1. Ends(a, "refused") BY <1>2, <1>4
  <2>2. PICK s \in Asks : s.pc = "over" /\ ask' = [ask EXCEPT ![a] = s]
    BY <1>1, <2>1, EndStep
  <2> QED BY <1>1, <1>3, <2>2, OwnStep
<1>5. CASE ask[a].port \notin Protected(table)
  <2>1. To(a, "read") BY <1>2, <1>5
  <2>2. PICK s \in Asks : /\ s.pc = "read" /\ ask' = [ask EXCEPT ![a] = s]
                          /\ SameTask(s, ask[a]) /\ SameView(s, ask[a]) /\ SameMarks(s, ask[a])
    BY <1>1, <2>1, ToStep
  <2>3. unknown' \/ PiSafe(s, pi)
    <3>1. unknown' \/ ask[a].port # pi
      BY <1>2, <1>5 DEF Protected
    <3> QED BY <1>1, <1>3, <2>2, <3>1 DEF PiSafe, CrossInv, PiInv, SameTask, SameView
  <2>4. Alone(a) => Settled(s, ports, driver)
    <3>1. Alone(a) => Settled(ask[a], ports, driver)
      BY <1>1 DEF CrossInv, AloneInv
    <3> QED BY <1>1, <2>2, <3>1 DEF Settled, SameTask, SameView
  <2> QED BY <1>1, <1>3, <2>2, <2>3, <2>4, OwnStep DEF SameTask
<1> QED BY <1>4, <1>5

LEMMA LookStep == ASSUME CrossInv, NEW a \in People, Look(a) PROVE CrossInv'
<1>1. /\ Under(a) /\ ask[a] \in Asks /\ ask[a].pc = "read" /\ UNCHANGED <<driver, ports, pi, unknown>>
      /\ ports \in PortStates
  BY UnderWay DEF Look, Under, CrossInv, PortsUnchanged, PortTyped
<1>2. CASE ask[a].cycle /\ ~ask[a].back /\ ~ports[ask[a].port].poe
  <2>1. Ends(a, "refused") BY <1>2 DEF Look
  <2>2. PICK s \in Asks : s.pc = "over" /\ ask' = [ask EXCEPT ![a] = s]
    BY <1>1, <2>1, EndStep
  <2> QED BY <1>1, <2>2, OwnStep
<1>3. CASE ~(ask[a].cycle /\ ~ask[a].back /\ ~ports[ask[a].port].poe)
  <2>1. ask' = [ask EXCEPT ![a] = [ask[a] EXCEPT !.pc = "write", !.saw = ports]]
    BY <1>3 DEF Look, CrossInv, PortTyped
  <2>2. PICK s \in Asks : /\ s.pc = "write" /\ ask' = [ask EXCEPT ![a] = s] /\ s.saw = ports
                          /\ SameTask(s, ask[a]) /\ SameMarks(s, ask[a]) /\ s.to = ask[a].to /\ s.back = ask[a].back
    <3>1. LET t == [ask[a] EXCEPT !.pc = "write", !.saw = ports] IN
          /\ t \in Asks /\ t.pc = "write" /\ SameTask(t, ask[a]) /\ SameMarks(t, ask[a])
          /\ t.to = ask[a].to /\ t.back = ask[a].back /\ t.saw = ports
      BY <1>1, AskSees
    <3> QED BY <2>1, <3>1
  <2>3. unknown \/ PiSafe(s, pi)
    BY <1>1, <2>2 DEF PiSafe, CrossInv, PiInv, SameTask
  <2>4. Alone(a) => Settled(s, ports, driver)
    <3> SUFFICES ASSUME Alone(a) PROVE Settled(s, ports, driver)
      OBVIOUS
    <3>1. Settled(ask[a], ports, driver)
      BY <1>1 DEF CrossInv, AloneInv
    <3>2. s.cycle /\ ~s.back => ports[s.port] = s.was /\ s.was["poe"]
      BY <1>1, <1>3, <2>2, <3>1 DEF Settled, SameTask
    <3>3. s.cycle /\ s.back => s.was["poe"] /\ ports[s.port] = [s.was EXCEPT !["poe"] = FALSE]
      BY <1>1, <2>2, <3>1 DEF Settled, SameTask
    <3>4. s.cycle => s.field = "poe" /\ (s.to <=> s.back)
      BY <1>1, <2>2, <3>1 DEF Settled, SameTask
    <3> QED BY <2>2, <3>2, <3>3, <3>4 DEF Settled
  <2> QED BY <1>1, <2>2, <2>3, <2>4, OwnStep DEF SameTask
<1> QED BY <1>2, <1>3

LEMMA BackStep == ASSUME CrossInv, NEW a \in People, CycleBack(a) PROVE CrossInv'
<1>1. /\ Under(a) /\ ask[a] \in Asks /\ ask[a].pc = "off" /\ UNCHANGED <<driver, ports, pi, unknown>>
      /\ ask' = [ask EXCEPT ![a] = [ask[a] EXCEPT !.pc = "read", !.to = TRUE, !.back = TRUE]]
  BY UnderWay DEF CycleBack, Under, CrossInv, PortsUnchanged, PortTyped, Back
<1>2. PICK s \in Asks : /\ s.pc = "read" /\ ask' = [ask EXCEPT ![a] = s]
                        /\ SameTask(s, ask[a]) /\ SameMarks(s, ask[a]) /\ s.to = TRUE /\ s.back = TRUE
                        /\ s.saw = ask[a].saw
  BY <1>1, AskBacks
<1>3. unknown \/ PiSafe(s, pi)
  BY <1>1, <1>2 DEF PiSafe, CrossInv, PiInv, SameTask
<1>4. Alone(a) => Settled(s, ports, driver)
  <2>1. Alone(a) => Settled(ask[a], ports, driver)
    BY <1>1 DEF CrossInv, AloneInv
  <2> QED BY <1>1, <1>2, <2>1 DEF Settled, SameTask
<1> QED BY <1>1, <1>2, <1>3, <1>4, OwnStep DEF SameTask

LEMMA PutStep == ASSUME CrossInv, NEW a \in People, PutPort(a) PROVE CrossInv'
<1>1. ask[a] \in Asks /\ ask[a].pc = "write" /\ UNCHANGED <<driver, pi, unknown>> /\ ports' = Writes(a)
  BY UnderWay DEF PutPort, CrossInv
<1>2. CASE ask[a].cycle /\ ~ask[a].back
  <2>1. To(a, "off") BY <1>2 DEF PutPort
  <2> QED BY <1>1, <1>2, <2>1, ToStep, WriteStep
<1>3. CASE ~(ask[a].cycle /\ ~ask[a].back)
  <2>1. Ends(a, "ok") BY <1>3 DEF PutPort
  <2> QED BY <1>1, <2>1, EndStep, WriteStep
<1> QED BY <1>2, <1>3

LEMMA PutFailsStep == ASSUME CrossInv, NEW a \in People, PutFails(a) PROVE CrossInv'
<1>1. /\ Under(a) /\ ask[a] \in Asks /\ ask[a].pc = "write" /\ UNCHANGED <<driver, pi, unknown>>
      /\ ports' = ports \/ ports' = Writes(a)
      /\ Ends(a, Said(ask[a])) /\ Said(ask[a]) \in {"left off", "failed"}
  BY UnderWay DEF PutFails, CrossInv, Said, Under
<1>2. PICK s \in Asks : s.pc = "over" /\ ask' = [ask EXCEPT ![a] = s]
  BY <1>1, EndStep
<1>3. CASE ports' = ports
  BY <1>1, <1>2, <1>3, OwnStep
<1>4. CASE ports' = Writes(a)
  BY <1>1, <1>2, <1>4, WriteStep
<1> QED BY <1>1, <1>3, <1>4

LEMMA MoveStep == ASSUME CrossInv, NEW p \in Ports, MovePi(p) PROVE CrossInv'
<1>1. /\ UNCHANGED <<driver, ports, ask>> /\ pi' = p /\ (\A f \in Fields : ports[p][f])
      /\ unknown' = (unknown \/ \E a \in People : Under(a))
  BY DEF MovePi
<1>2. \A a \in People : Under(a)' = Under(a) /\ Alone(a)' = Alone(a)
  BY <1>1 DEF Under, Alone
<1>3. PortTyped' /\ MarkInv'
  BY <1>1, <1>2 DEF CrossInv, PortTyped, MarkInv
<1>4. PiInv'
  BY <1>1, <1>2 DEF CrossInv, PiInv
<1>5. AloneInv'
  BY <1>1, <1>2 DEF CrossInv, AloneInv, Settled
<1> QED BY <1>3, <1>4, <1>5 DEF CrossInv

LEMMA CrashStep == ASSUME CrossInv, PortCrash \/ UNCHANGED portvars PROVE CrossInv'
<1>1. UNCHANGED <<driver, ports, pi, unknown>> /\ (ask' = ask \/ ask' = [a \in People |-> NoAsk])
  BY DEF PortCrash, portvars
<1>2. PortTyped'
  BY <1>1 DEF CrossInv, PortTyped
<1>3. \A a \in People : Under(a)' => Under(a) /\ ask' = ask /\ Alone(a)' = Alone(a)
  BY <1>1 DEF Under, NoAsk, Alone
<1>4. PiInv' /\ MarkInv'
  BY <1>1, <1>3 DEF CrossInv, PiInv, MarkInv
<1>5. AloneInv'
  BY <1>1, <1>3 DEF CrossInv, AloneInv, Settled
<1> QED BY <1>2, <1>4, <1>5 DEF CrossInv

LEMMA CrossStep == CrossInv /\ [PortNext]_portvars => CrossInv'
  BY RequestStep, CheckStep, LookStep, PutStep, PutFailsStep, BackStep, CrashStep, MoveStep DEF PortNext

LEMMA CrossInit == PortInit => CrossInv
<1> SUFFICES ASSUME PortInit PROVE CrossInv
  OBVIOUS
<1>1. \A a \in People : ~Under(a)
  BY DEF PortInit, Under, NoAsk
<1>2. PortTyped
  BY DEF PortInit, PortTyped, PortStates
<1>3. PiInv
  BY <1>1 DEF PortInit, PiInv
<1> QED BY <1>1, <1>2, <1>3 DEF CrossInv, MarkInv, AloneInv

\* The port that the Pi is behind keeps its link and its power, however requests cross, fail or
\* are cut short, unless the cable was moved while one was under way, or one for that port was let
\* through on a reading without the table of MACs.
THEOREM PiStaysReachable == PortSpec => []PiReachable
<1>1. CrossInv => PiReachable
  BY DEF CrossInv, PiInv, PiReachable
<1> QED BY <1>1, CrossInit, CrossStep, PTL DEF PortSpec

\* Type correctness of the changes of ports.
THEOREM PortsTyped == PortSpec => []PortTypeOK
<1>1. CrossInv => PortTypeOK
  <2>1. ASSUME PortTyped PROVE PortTypeOK
    <3>1. ports \in [Ports -> [Fields -> BOOLEAN]] /\ pi \in Ports /\ {unknown} \subseteq BOOLEAN
      BY <2>1 DEF PortTyped, PortStates
    <3>2. ASSUME NEW a \in People PROVE ask[a].pc \in {"none", "check", "read", "write", "off", "over"}
      <4>1. ask[a] \in Asks \/ ask[a] = NoAsk
        BY <2>1 DEF PortTyped
      <4>2. ASSUME NEW r \in Asks PROVE r.pc \in {"check", "read", "write", "off", "over"}
        BY DEF Asks
      <4>3. CASE ask[a] \in Asks
        BY <4>2, <4>3
      <4>4. CASE ask[a] = NoAsk
        BY <4>4 DEF NoAsk
      <4> QED BY <4>1, <4>3, <4>4
    <3> QED BY <3>1, <3>2 DEF PortTypeOK
  <2> QED BY <2>1 DEF CrossInv
<1> QED BY <1>1, CrossInit, CrossStep, PTL DEF PortSpec

\* A step of PortNext that ends a request's own write, or a request, is that request's own.
LEMMA OthersStay ==
    ASSUME CrossInv, [PortNext]_portvars, NEW a \in People, Under(a)
    PROVE  \/ CheckPort(a) \/ Look(a) \/ PutPort(a) \/ PutFails(a) \/ CycleBack(a)
           \/ ask'[a].pc = "none" /\ ports' = ports
           \/ ask'[a] = ask[a]
           \/ ask'[a].pc = ask[a].pc /\ ports' = ports
<1>1. ask \in [People -> Asks \cup {NoAsk}] /\ ask[a] \in Asks
  BY UnderWay DEF CrossInv, PortTyped
<1>2. CASE UNCHANGED portvars \/ \E p \in Ports : MovePi(p)
  BY <1>2 DEF portvars, MovePi
<1>3. CASE PortCrash
  BY <1>3 DEF PortCrash, NoAsk
<1>4. ASSUME NEW b \in People, b # a, CheckPort(b) \/ Look(b) \/ PutPort(b) \/ PutFails(b) \/ CycleBack(b)
      PROVE  ask'[a] = ask[a]
  BY <1>1, <1>4 DEF CheckPort, Look, PutPort, PutFails, CycleBack, Ends, To
<1>5. ASSUME NEW b \in People, NEW p \in Ports, NEW f \in Fields, NEW to \in BOOLEAN, NEW cycle \in BOOLEAN,
             Request(b, p, f, to, cycle)
      PROVE  ask'[a].pc = ask[a].pc /\ ports' = ports
  <2>1. b # a /\ ports' = ports
    BY <1>5 DEF Request
  <2>2. ask'[a] = [ask[a] EXCEPT !.met = @ \/ a \in Meets(b, p), !.crossed = TRUE]
    BY <1>5, <2>1 DEF Request
  <2> QED BY <1>1, <2>1, <2>2 DEF Asks
<1> QED BY <1>2, <1>3, <1>4, <1>5 DEF PortNext

LEMMA WroteOnly ==
    ASSUME CrossInv, NEW a \in People, ask[a].pc = "write", Alone(a)
    PROVE  \A p \in Ports, f \in Fields :
              Writes(a)[p][f] = IF p = ask[a].port /\ f = ask[a].field THEN ask[a].to ELSE ports[p][f]
<1>1. Under(a) /\ ask[a] \in Asks
  BY UnderWay DEF CrossInv, Under
<1>2. ask[a].saw[ask[a].port] = ports[ask[a].port] /\ (driver = "list" => ask[a].saw = ports)
  BY <1>1 DEF CrossInv, AloneInv, Settled
<1> TAKE p \in Ports, f \in Fields
<1>3. Writes(a)[p][f] =
         IF p = ask[a].port /\ f = ask[a].field THEN ask[a].to
         ELSE IF driver = "list" \/ (driver = "port" /\ p = ask[a].port) THEN ask[a].saw[p][f]
         ELSE ports[p][f]
  BY <1>1, Written DEF CrossInv
<1> QED BY <1>2, <1>3

\* A request that no other crossed changes its own field of its own port and nothing else,
\* though the driver writes back the whole port, or all ports, as it read them before.
THEOREM WritesNothingElse == PortSpec => ChangesOnly
<1> DEFINE A == \A a \in People, p \in Ports, f \in Fields :
          ask[a].pc = "write" /\ ask'[a] # ask[a] /\ Alone(a) /\ <<p, f>> # <<ask[a].port, ask[a].field>>
          => ports'[p][f] = ports[p][f]
<1>1. CrossInv /\ [PortNext]_portvars => A
  <2> SUFFICES ASSUME CrossInv, [PortNext]_portvars, NEW a \in People, NEW p \in Ports, NEW f \in Fields,
                      ask[a].pc = "write", ask'[a] # ask[a], Alone(a), <<p, f>> # <<ask[a].port, ask[a].field>>
               PROVE  ports'[p][f] = ports[p][f]
    OBVIOUS
  <2>1. Under(a)
    BY SMTT(30) DEF Under
  <2>2. PutPort(a) \/ PutFails(a) \/ ports' = ports
    BY <2>1, OthersStay DEF CheckPort, Look, CycleBack
  <2>3. ports' = ports \/ ports' = Writes(a)
    BY <2>2 DEF PutPort, PutFails
  <2> QED BY <2>3, WroteOnly
<1> HIDE DEF A
<1>2. CrossInv /\ [PortNext]_portvars => [A]_portvars
  BY <1>1
<1>3. PortSpec => [][A]_portvars
  BY <1>2, CrossInit, CrossStep, PTL DEF PortSpec
<1> QED BY <1>3 DEF ChangesOnly, A

\* A power cycle that no other request for its port crossed (with a switch that takes the list of
\* all ports, no other at all), and that ends well, leaves the port as it was.
THEOREM CyclesRestore == PortSpec => CycleRestores
<1> DEFINE A == \A a \in People : Under(a) /\ ask[a].cycle /\ Alone(a) /\ ask'[a].pc = "over" /\ ask'[a].result = "ok"
                   => ports'[ask[a].port] = ask[a].was
<1>1. CrossInv /\ [PortNext]_portvars => A
  <2> SUFFICES ASSUME CrossInv, [PortNext]_portvars, NEW a \in People, Under(a), ask[a].cycle, Alone(a),
                      ask'[a].pc = "over", ask'[a].result = "ok"
               PROVE  ports'[ask[a].port] = ask[a].was
    OBVIOUS
  <2>1. ask[a] \in Asks /\ ask[a].pc # "over" /\ ask \in [People -> Asks \cup {NoAsk}]
    BY UnderWay DEF CrossInv, Under, PortTyped
  <2>2. ~ CycleBack(a)
    <3>1. LET t == [ask[a] EXCEPT !.pc = "read", !.to = TRUE, !.back = TRUE] IN t.pc = "read"
      BY <2>1, AskBacks
    <3>2. CycleBack(a) => ask'[a] = [ask[a] EXCEPT !.pc = "read", !.to = TRUE, !.back = TRUE]
      BY <2>1 DEF CycleBack, Back
    <3> QED BY <3>1, <3>2
  <2>3. ~ CheckPort(a) /\ ~ Look(a) /\ ~ PutFails(a)
    <3>1. ~ Ends(a, "refused") /\ ~ Ends(a, "left off") /\ ~ Ends(a, "failed")
      <4>1. ASSUME NEW x \in {"refused", "left off", "failed"}, Ends(a, x) PROVE FALSE
        <5>1. ask'[a] = [ask[a] EXCEPT !.pc = "over", !.result = x]
          BY <2>1, <4>1, SMTT(30) DEF Ends
        <5>2. LET t == [ask[a] EXCEPT !.pc = "over", !.result = x] IN t.result = x
          <6>1. x \in {"refused", "ok", "left off", "failed"} BY <4>1
          <6> QED BY <2>1, <6>1, AskEnds
        <5>3. ask'[a].result = x
          BY <5>1, <5>2
        <5> QED BY <4>1, <5>3
      <4> QED BY <4>1
    <3>2. ~ To(a, "read")
      BY <2>1 DEF To, Asks
    <3>3. ask' # [ask EXCEPT ![a] = [@ EXCEPT !.pc = "write", !.saw = ports]]
      <4>1. LET t == [ask[a] EXCEPT !.pc = "write", !.saw = ports] IN t.pc = "write"
        BY <2>1, AskSees DEF CrossInv, PortTyped
      <4>2. ask' = [ask EXCEPT ![a] = [@ EXCEPT !.pc = "write", !.saw = ports]]
            => ask'[a] = [ask[a] EXCEPT !.pc = "write", !.saw = ports]
        BY <2>1
      <4> QED BY <4>1, <4>2
    <3> QED BY <3>1, <3>2, <3>3 DEF CheckPort, Look, PutFails, Said
  <2>4. PutPort(a)
    BY <2>1, <2>2, <2>3, OthersStay
  <2>5. ~ To(a, "off")
    BY <2>1, ZenonT(60) DEF To, Asks
  <2>6. ports' = Writes(a) /\ ask[a].pc = "write" /\ ask[a].back
    BY <2>4, <2>5 DEF PutPort
  <2>7. /\ ask[a].field = "poe" /\ ask[a].to /\ ask[a].was["poe"]
        /\ ports[ask[a].port] = [ask[a].was EXCEPT !["poe"] = FALSE]
    BY <2>6 DEF CrossInv, AloneInv, Settled
  <2>8. Writes(a) \in PortStates /\ ask[a].port \in Ports /\ ask[a].was \in [Fields -> BOOLEAN] /\ ask[a].to = TRUE
        /\ ask[a].was["poe"] = TRUE
    BY <2>1, <2>7, Written DEF CrossInv, Asks, Fields
  <2>9. ASSUME NEW f \in Fields PROVE Writes(a)[ask[a].port][f] = ask[a].was[f]
    <3>1. Writes(a)[ask[a].port][f] = IF f = ask[a].field THEN ask[a].to ELSE ports[ask[a].port][f]
      BY <2>6, <2>8, WroteOnly
    <3> QED BY <2>7, <2>8, <3>1
  <2> QED BY <2>6, <2>8, <2>9 DEF PortStates
<1> HIDE DEF A
<1>2. CrossInv /\ [PortNext]_portvars => [A]_portvars
  BY <1>1
<1>3. PortSpec => [][A]_portvars
  BY <1>2, CrossInit, CrossStep, PTL DEF PortSpec
<1> QED BY <1>3 DEF CycleRestores, A

(***************************************************************************)
(* The switch monitor.                                                     *)
(***************************************************************************)
\* What people were told of each trouble is what the state on disk says, but between a message
\* and its file.
HeardInv ==
    \A t \in Troubles \ cut :
       heard[t] = IF round.pc = "fired" /\ round.found[t] # "ok" THEN round.found[t]
                  ELSE IF round.pc = "cleared" /\ round.found[t] = "ok" THEN "ok"
                  ELSE alert[t].level

\* What a round found is what its reading showed, then what is shown, then what was told.
FoundInv ==
    /\ round.pc \in {"clear", "cleared"} => \A t \in Troubles : round.found[t] # "ok" => alert[t].level = round.found[t]
    /\ round.pc \in {"fire", "fired", "clear", "cleared"} => problems = round.found
    /\ round.pc \notin {"idle", "asking"} /\ row.kind = "ok" /\ ~row.from => round.found = Bad("port", row.level)

QuietInv == Quiet => LET shown == Bad("port", row.level) IN
                     problems \in {shown, Fine} /\ \A t \in Troubles : alert[t].level = shown[t]

\* A reading that is being logged is the row of the switch, or that was dropped meanwhile.
SnapInv ==
    round.pc \in {"log", "persist"} =>
       /\ ~round.snap.none
       /\ row.kind # "new" => row.snap = round.snap
       /\ row.kind = "new" => logged.torn

\* The log's last word is the reading that the next one is compared with, in memory and on disk.
Knows(snap) == logged.link = snap.link /\ ~snap.none
LogInv ==
    ~logged.torn => /\ round.pc # "log" => Knows(row.snap)
                    /\ round.pc \in {"asking", "log"} => Knows(round.prev)
                    /\ round.pc # "persist" => Knows(rowDisk.snap)

MonInv == SwTypeOK /\ HeardInv /\ FoundInv /\ QuietInv /\ SnapInv /\ LogInv

Asking  == [pc : {"asking"}, prev : Snaps, login : Nat, good : BOOLEAN]
Logging == [pc : {"log", "persist"}, prev : Snaps, snap : Snaps, found : Finds]
Telling == [pc : {"publish", "fire", "fired", "clear", "cleared"}, found : Finds]

LEMMA RoundShapes ==
    ASSUME round \in Rounds
    PROVE  /\ round.pc = "idle" <=> round = NoRound
           /\ round.pc = "asking" => round \in Asking
           /\ round.pc \in {"log", "persist"} => round \in Logging
           /\ round.pc \in {"publish", "fire", "fired", "clear", "cleared"} => round \in Telling
  BY DEF Rounds, NoRound, Asking, Logging, Telling

LEMMA RoundSets == Asking \cup Logging \cup Telling \cup {NoRound} \subseteq Rounds
  BY DEF Rounds, NoRound, Asking, Logging, Telling

LEMMA BadFound ==
    ASSUME NEW t \in Troubles, NEW l \in Levels
    PROVE  /\ Bad(t, l) \in Finds /\ Bad(t, l)[t] = l
           /\ \A u \in Troubles \ {t} : Bad(t, l)[u] = "ok"
           /\ Fine \in Finds /\ \A u \in Troubles : Fine[u] = "ok"
  BY DEF Bad, Fine, Finds, Levels

LEMMA RowFields ==
    ASSUME NEW r \in Rows, NEW long \in BOOLEAN
    PROVE  /\ LET s == [r EXCEPT !.old = TRUE, !.long = long] IN
              s \in Rows /\ s.kind = r.kind /\ s.snap = r.snap /\ s.from = r.from /\ s.level = r.level
           /\ LET s == [r EXCEPT !.long = TRUE] IN s \in Rows /\ s.kind = r.kind /\ s.snap = r.snap
           /\ LET s == [r EXCEPT !.from = TRUE] IN s \in Rows /\ s.from = TRUE /\ s.snap = r.snap
<1>1. LET s == [r EXCEPT !.old = TRUE, !.long = long] IN
      s \in Rows /\ s.kind = r.kind /\ s.snap = r.snap /\ s.from = r.from /\ s.level = r.level
  BY DEF Rows
<1>2. LET s == [r EXCEPT !.long = TRUE] IN s \in Rows /\ s.kind = r.kind /\ s.snap = r.snap
  BY DEF Rows
<1>3. LET s == [r EXCEPT !.from = TRUE] IN s \in Rows /\ s.from = TRUE /\ s.snap = r.snap
  BY DEF Rows
<1> QED BY <1>1, <1>2, <1>3

LEMMA NoRowFields ==
    /\ NoRow \in Rows /\ NoRow.kind = "new" /\ NoRow.from = FALSE /\ NoRow.level = "ok"
    /\ LET s == [NoRow EXCEPT !.kind = "no_login"] IN s \in Rows /\ s.kind = "no_login"
  BY DEF NoRow, Rows, NoSnap, Snaps, Levels

\* Between rounds, and where a round does not look.
LEMMA SkipStep == ASSUME MonInv, Skip PROVE MonInv'
<1>1. /\ round = NoRound /\ round' = round /\ row' = row /\ problems' = Fine /\ round.pc = "idle"
      /\ UNCHANGED <<switch, rowDisk, alert, heard, logged, cut>>
  BY DEF Skip, SwUnchanged, NoRound
<1>2. SwTypeOK'
  BY <1>1, BadFound DEF MonInv, SwTypeOK, Levels, Finds, Fine
<1>3. HeardInv' /\ FoundInv' /\ SnapInv' /\ LogInv'
  BY <1>1 DEF MonInv, HeardInv, FoundInv, SnapInv, LogInv, Knows
<1>4. QuietInv'
  BY <1>1 DEF MonInv, QuietInv, Quiet
<1> QED BY <1>2, <1>3, <1>4 DEF MonInv

LEMMA NoLoginStep == ASSUME MonInv, NEW manual \in BOOLEAN, NoLogin(manual) PROVE MonInv'
<1>1. /\ round.pc = "idle" /\ row' \in Rows /\ row'.kind = "no_login" /\ logged'.torn = TRUE
      /\ logged' \in [link : BOOLEAN, torn : BOOLEAN] /\ round' = [pc |-> "publish", found |-> Fine]
      /\ UNCHANGED <<switch, rowDisk, problems, alert, heard, cut>>
  BY NoRowFields DEF NoLogin, NoRound, MonInv, SwTypeOK
<1>2. round'.pc = "publish" /\ round' \in Rounds
  BY <1>1, BadFound, RoundSets DEF Telling, Troubles, Levels
<1>3. SwTypeOK'
  BY <1>1, <1>2 DEF MonInv, SwTypeOK
<1>4. HeardInv'
  BY <1>1, <1>2 DEF MonInv, HeardInv
<1>5. FoundInv' /\ QuietInv' /\ SnapInv' /\ LogInv'
  BY <1>1, <1>2 DEF FoundInv, QuietInv, Quiet, SnapInv, LogInv, NoRound
<1> QED BY <1>3, <1>4, <1>5 DEF MonInv

LEMMA HoldStep == ASSUME MonInv, Hold PROVE MonInv'
<1>1. /\ round.pc = "idle" /\ row.kind = "auth_failed" /\ round' = [pc |-> "publish", found |-> Unreadable(row)]
      /\ UNCHANGED <<row, problems, switch, rowDisk, alert, heard, logged, cut>>
  BY DEF Hold, Held, NoRound, SwUnchanged
<1>2. round'.pc = "publish" /\ round' \in Rounds
  BY <1>1, BadFound, RoundSets DEF Telling, Unreadable, Troubles, Levels
<1>3. SwTypeOK'
  BY <1>1, <1>2 DEF MonInv, SwTypeOK
<1>4. HeardInv' /\ FoundInv' /\ QuietInv' /\ SnapInv' /\ LogInv'
  BY <1>1, <1>2 DEF MonInv, HeardInv, FoundInv, QuietInv, Quiet, SnapInv, LogInv, Knows, NoRound
<1> QED BY <1>3, <1>4 DEF MonInv

LEMMA ReadStep == ASSUME MonInv, NEW manual \in BOOLEAN, Read(manual) PROVE MonInv'
<1>1. /\ round.pc = "idle" /\ UNCHANGED <<row, problems, switch, rowDisk, alert, heard, logged, cut>>
      /\ round' = [pc |-> "asking", prev |-> row.snap, login |-> switch.logins, good |-> switch.login = "good"]
      /\ row \in Rows /\ switch.logins \in Nat
  BY DEF Read, NoRound, SwUnchanged, MonInv, SwTypeOK
<1>2. round'.pc = "asking" /\ round'.prev = row.snap /\ round' \in Rounds
  BY <1>1, RoundSets DEF Asking, Rows
<1>3. SwTypeOK'
  BY <1>1, <1>2 DEF MonInv, SwTypeOK
<1>4. HeardInv' /\ FoundInv' /\ QuietInv' /\ SnapInv' /\ LogInv'
  BY <1>1, <1>2 DEF MonInv, HeardInv, FoundInv, QuietInv, Quiet, SnapInv, LogInv, Knows, NoRound
<1> QED BY <1>3, <1>4 DEF MonInv

\* A round reads the switch.
LEMMA FailStep ==
    ASSUME MonInv, NEW kind \in {"auth_failed", "error"}, ReadFails(kind)
    PROVE  MonInv'
<1>1. /\ round.pc = "asking" /\ row' = FailedRow(kind) /\ rowDisk' = row'
      /\ round' = [pc |-> "publish", found |-> Unreadable(row')]
      /\ UNCHANGED <<switch, problems, alert, heard, logged, cut>>
  BY DEF ReadFails
<1>2. round \in Asking /\ round.prev \in Snaps /\ round.login \in Nat /\ row.long \in BOOLEAN
  BY <1>1, RoundShapes DEF MonInv, SwTypeOK, Asking, Rows
<1>3. row' \in Rows /\ row'.kind = kind /\ row'.snap = round.prev
  <2> DEFINE long == row.kind # "ok" /\ row.long
  <2>1. long \in BOOLEAN
    OBVIOUS
  <2>2. row' = [NoRow EXCEPT !.kind = kind, !.login = round.login, !.snap = round.prev, !.long = long]
    BY <1>1 DEF FailedRow
  <2> HIDE DEF long
  <2> QED BY <1>2, <2>1, <2>2 DEF NoRow, Rows, Levels
<1>4. Unreadable(row') \in Finds
  BY BadFound DEF Unreadable, Troubles, Levels
<1>5. round'.pc = "publish" /\ round' \in Rounds
  BY <1>1, <1>4, RoundSets DEF Telling
<1>6. SwTypeOK'
  BY <1>1, <1>3, <1>5 DEF MonInv, SwTypeOK
<1>7. HeardInv' /\ FoundInv' /\ QuietInv' /\ SnapInv'
  BY <1>1, <1>3, <1>5 DEF MonInv, HeardInv, FoundInv, QuietInv, Quiet, SnapInv, NoRound
<1>8. LogInv'
  BY <1>1, <1>3, <1>5 DEF MonInv, LogInv, Knows
<1> QED BY <1>6, <1>7, <1>8 DEF MonInv

LEMMA ReadsStep == ASSUME MonInv, Reads PROVE MonInv'
<1> DEFINE snap == [link |-> switch.link, memory |-> switch.link \/ round.prev.memory, none |-> FALSE]
<1>1. /\ round.pc = "asking" /\ row' = [NoRow EXCEPT !.kind = "ok", !.snap = snap, !.level = Level(snap)]
      /\ round' = [pc |-> "log", prev |-> round.prev, snap |-> row'.snap, found |-> Bad("port", row'.level)]
      /\ UNCHANGED <<problems, switch, rowDisk, alert, heard, logged, cut>>
  BY DEF Reads, SwUnchanged
<1>2. round \in Asking /\ round.prev \in Snaps /\ switch.link \in BOOLEAN
  BY <1>1, RoundShapes DEF MonInv, SwTypeOK, Asking
<1>3. snap \in Snaps /\ ~snap.none /\ Level(snap) \in Levels
  BY <1>2 DEF Snaps, Level, Levels
<1> HIDE DEF snap
<1>4. row' \in Rows /\ row'.kind = "ok" /\ row'.snap = snap /\ row'.level = Level(snap)
  BY <1>1, <1>3 DEF NoRow, Rows
<1>5. Bad("port", row'.level) \in Finds
  BY <1>3, <1>4, BadFound DEF Troubles
<1>6. round'.pc = "log" /\ round' \in Rounds /\ round'.prev = round.prev /\ round'.snap = snap
      /\ round'.found = Bad("port", row'.level)
  BY <1>1, <1>2, <1>3, <1>4, <1>5, RoundSets DEF Logging
<1>7. SwTypeOK'
  BY <1>1, <1>4, <1>6 DEF MonInv, SwTypeOK
<1>8. HeardInv' /\ FoundInv' /\ QuietInv' /\ SnapInv'
  BY <1>1, <1>3, <1>4, <1>6 DEF MonInv, HeardInv, FoundInv, QuietInv, Quiet, SnapInv, NoRound
<1>9. LogInv'
  BY <1>1, <1>6 DEF MonInv, LogInv, Knows
<1> QED BY <1>7, <1>8, <1>9 DEF MonInv

LEMMA LogStep == ASSUME MonInv, LogChanges PROVE MonInv'
<1>1. /\ round.pc = "log" /\ round' = [round EXCEPT !.pc = "persist"]
      /\ UNCHANGED <<switch, row, rowDisk, problems, alert, heard, cut>>
  BY DEF LogChanges
<1>2. round \in Logging /\ logged \in [link : BOOLEAN, torn : BOOLEAN]
  BY <1>1, RoundShapes DEF MonInv, SwTypeOK
<1>3. /\ round' \in Logging /\ round'.pc = "persist" /\ round'.prev = round.prev /\ round'.snap = round.snap
      /\ round'.found = round.found /\ round.snap \in Snaps /\ round' \in Rounds
  BY <1>1, <1>2, RoundSets DEF Logging
<1>4. /\ logged' \in [link : BOOLEAN, torn : BOOLEAN]
      /\ row.kind = "new" => logged'.torn
      /\ ~logged'.torn => logged'.link = round.snap.link
  <2>1. CASE ~round.prev.none /\ round.prev.link # round.snap.link
    <3>1. logged' = [link |-> round.snap.link, torn |-> row.kind = "new"]
      BY <2>1 DEF LogChanges
    <3>2. round.snap.link \in BOOLEAN
      BY <1>3 DEF Snaps
    <3> QED BY <3>1, <3>2
  <2>2. CASE ~(~round.prev.none /\ round.prev.link # round.snap.link)
    <3> DEFINE torn == logged.torn /\ (logged.link # round.snap.link \/ row.kind = "new")
    <3>1. logged' = [logged EXCEPT !.torn = torn]
      BY <2>2 DEF LogChanges
    <3>2. torn \in BOOLEAN /\ (row.kind = "new" => torn)
      BY <1>1, <1>2 DEF MonInv, SnapInv
    <3>3. ~torn => logged.link = round.snap.link
      BY <1>1, <2>2 DEF MonInv, LogInv, Knows
    <3> HIDE DEF torn
    <3> QED BY <1>2, <3>1, <3>2, <3>3
  <2> QED BY <2>1, <2>2
<1>5. SwTypeOK'
  BY <1>1, <1>3, <1>4 DEF MonInv, SwTypeOK
<1>6. HeardInv' /\ FoundInv' /\ QuietInv' /\ SnapInv'
  BY <1>1, <1>3, <1>4 DEF MonInv, HeardInv, FoundInv, QuietInv, Quiet, SnapInv, NoRound
<1>7. LogInv'
  BY <1>1, <1>3, <1>4 DEF MonInv, SnapInv, LogInv, Knows
<1> QED BY <1>5, <1>6, <1>7 DEF MonInv

LEMMA PersistStep == ASSUME MonInv, Persist PROVE MonInv'
<1>1. /\ round.pc = "persist" /\ rowDisk' = row /\ round' = [pc |-> "publish", found |-> round.found]
      /\ UNCHANGED <<switch, row, problems, alert, heard, logged, cut>>
  BY DEF Persist
<1>2. round \in Logging
  BY <1>1, RoundShapes DEF MonInv, SwTypeOK
<1>3. round'.pc = "publish" /\ round'.found = round.found /\ round' \in Rounds
  BY <1>1, <1>2, RoundSets DEF Logging, Telling
<1>4. SwTypeOK'
  BY <1>1, <1>3 DEF MonInv, SwTypeOK
<1>5. HeardInv' /\ FoundInv' /\ QuietInv' /\ SnapInv'
  BY <1>1, <1>3 DEF MonInv, HeardInv, FoundInv, QuietInv, Quiet, SnapInv, NoRound
<1>6. LogInv'
  BY <1>1, <1>3 DEF MonInv, LogInv, Knows
<1> QED BY <1>4, <1>5, <1>6 DEF MonInv

\* A round shows and tells what it found.
LEMMA ShowStep == ASSUME MonInv, ShowProblems PROVE MonInv'
<1>1. /\ round.pc = "publish" /\ problems' = round.found /\ round' = [pc |-> "fire", found |-> round.found]
      /\ UNCHANGED <<row, switch, rowDisk, alert, heard, logged, cut>>
  BY DEF ShowProblems, SwUnchanged
<1>2. round \in Telling
  BY <1>1, RoundShapes DEF MonInv, SwTypeOK
<1>3. round'.pc = "fire" /\ round'.found = round.found /\ round' \in Rounds /\ round.found \in Finds
  BY <1>1, <1>2, RoundSets DEF Telling
<1>4. SwTypeOK'
  BY <1>1, <1>3 DEF MonInv, SwTypeOK
<1>5. HeardInv' /\ FoundInv' /\ QuietInv' /\ SnapInv' /\ LogInv'
  BY <1>1, <1>3 DEF MonInv, HeardInv, FoundInv, QuietInv, Quiet, SnapInv, LogInv, Knows, NoRound
<1> QED BY <1>4, <1>5 DEF MonInv

LEMMA PushStep ==
    ASSUME MonInv, NEW T \in SUBSET Troubles, NEW l \in Finds,
           \/ Push("fire", T, l, "fired") /\ T = ToTell /\ l = round.found
           \/ Push("clear", T, l, "cleared") /\ T = Over /\ l = Fine
    PROVE  MonInv'
<1>1. /\ round.pc \in {"fire", "clear"} /\ heard' = [t \in Troubles |-> IF t \in T THEN l[t] ELSE heard[t]]
      /\ round' = [round EXCEPT !.pc = IF round.pc = "fire" THEN "fired" ELSE "cleared"] /\ cut' = cut \ T
      /\ UNCHANGED <<switch, row, rowDisk, problems, alert, logged>>
  BY DEF Push
<1>2. round \in Telling /\ heard \in Finds /\ cut \subseteq Troubles
  BY <1>1, RoundShapes DEF MonInv, SwTypeOK
<1>3. /\ round' \in Telling /\ round' \in Rounds /\ round'.found = round.found
      /\ round'.pc = IF round.pc = "fire" THEN "fired" ELSE "cleared"
  <2>1. round' \in Telling /\ round'.found = round.found /\ round'.pc = IF round.pc = "fire" THEN "fired" ELSE "cleared"
    BY <1>1, <1>2 DEF Telling
  <2> QED BY <2>1, RoundSets
<1>4. heard' \in Finds
  BY <1>1, <1>2 DEF Finds
<1>5. SwTypeOK'
  BY <1>1, <1>2, <1>3, <1>4 DEF MonInv, SwTypeOK
<1>6. FoundInv' /\ QuietInv' /\ SnapInv' /\ LogInv'
  BY <1>1, <1>3 DEF MonInv, FoundInv, QuietInv, Quiet, SnapInv, LogInv, Knows, NoRound
<1>7. HeardInv'
  <2> SUFFICES ASSUME NEW t \in Troubles, t \notin cut'
               PROVE  heard'[t] = IF round'.pc = "fired" /\ round'.found[t] # "ok" THEN round'.found[t]
                                  ELSE IF round'.pc = "cleared" /\ round'.found[t] = "ok" THEN "ok"
                                  ELSE alert'[t].level
    BY DEF HeardInv
  <2>1. t \notin T => t \notin cut /\ heard'[t] = heard[t] /\ heard[t] = alert[t].level
    BY <1>1 DEF MonInv, HeardInv
  <2>2. t \in T => heard'[t] = l[t]
    BY <1>1
  <2>3. CASE round.pc = "fire"
    <3>1. T = ToTell /\ l = round.found
      BY <2>3 DEF Push
    <3>2. t \in T => round.found[t] # "ok"
      BY <3>1 DEF ToTell
    <3>3. t \notin T /\ round.found[t] # "ok" => round.found[t] = alert[t].level
      BY <3>1 DEF ToTell
    <3> QED BY <1>1, <1>3, <2>1, <2>2, <2>3, <3>1, <3>2, <3>3
  <2>4. CASE round.pc = "clear"
    <3>1. T = Over /\ l = Fine
      BY <2>4 DEF Push
    <3>2. t \in T => round.found[t] = "ok" /\ l[t] = "ok"
      BY <3>1 DEF Over, Fine
    <3>3. t \notin T /\ round.found[t] = "ok" => alert[t].level = "ok"
      BY <3>1 DEF Over
    <3> QED BY <1>1, <1>3, <2>1, <2>2, <2>4, <3>2, <3>3
  <2> QED BY <1>1, <2>3, <2>4
<1> QED BY <1>5, <1>6, <1>7 DEF MonInv

\* What Keep leaves in the file.
LEMMA Kept ==
    ASSUME SwTypeOK, NEW T \in SUBSET Troubles, NEW l \in Finds,
           alert' = [t \in Troubles |-> IF t \in T THEN [level |-> l[t], old |-> FALSE] ELSE alert[t]]
    PROVE  /\ alert' \in [Troubles -> [level : Levels, old : BOOLEAN]]
           /\ \A t \in Troubles : alert'[t].level = IF t \in T THEN l[t] ELSE alert[t].level
<1>1. \A t \in Troubles : l[t] \in Levels /\ alert[t] \in [level : Levels, old : BOOLEAN]
  BY DEF Finds, SwTypeOK
<1> QED BY <1>1

LEMMA SaveFiredStep == ASSUME MonInv, SaveFired PROVE MonInv'
<1>1. /\ round.pc = "fired" /\ round' = [round EXCEPT !.pc = "clear"]
      /\ alert' = [t \in Troubles |-> IF t \in ToTell THEN [level |-> round.found[t], old |-> FALSE] ELSE alert[t]]
      /\ UNCHANGED <<switch, row, rowDisk, problems, heard, logged, cut>>
  BY DEF SaveFired, Keep
<1>2. round \in Telling /\ round.found \in Finds /\ SwTypeOK
  BY <1>1, RoundShapes DEF MonInv, SwTypeOK, Telling
<1>3. round' \in Rounds /\ round'.found = round.found /\ round'.pc = "clear"
  <2>1. round' \in Telling /\ round'.found = round.found /\ round'.pc = "clear"
    BY <1>1, <1>2 DEF Telling
  <2> QED BY <2>1, RoundSets
<1>4. /\ alert' \in [Troubles -> [level : Levels, old : BOOLEAN]]
      /\ \A t \in Troubles : alert'[t].level = IF t \in ToTell THEN round.found[t] ELSE alert[t].level
  <2>1. ToTell \in SUBSET Troubles BY DEF ToTell
  <2> QED BY <1>1, <1>2, <2>1, Kept
<1>5. \A t \in Troubles : alert'[t].level = IF round.found[t] # "ok" THEN round.found[t] ELSE alert[t].level
  BY <1>4 DEF ToTell
<1>6. SwTypeOK'
  BY <1>1, <1>2, <1>3, <1>4 DEF SwTypeOK
<1>7. HeardInv' /\ FoundInv'
  BY <1>1, <1>3, <1>5 DEF MonInv, HeardInv, FoundInv
<1>8. QuietInv' /\ SnapInv' /\ LogInv'
  BY <1>1, <1>3 DEF MonInv, QuietInv, Quiet, SnapInv, LogInv, Knows, NoRound
<1> QED BY <1>6, <1>7, <1>8 DEF MonInv

LEMMA SaveClearStep == ASSUME MonInv, SaveClear PROVE MonInv'
<1>1. /\ round.pc = "cleared" /\ round' = NoRound
      /\ alert' = [t \in Troubles |-> IF t \in Over THEN [level |-> Fine[t], old |-> FALSE] ELSE alert[t]]
      /\ UNCHANGED <<switch, row, rowDisk, problems, heard, logged, cut>>
  BY DEF SaveClear, Keep
<1>2. round \in Telling /\ round.found \in Finds /\ SwTypeOK
  BY <1>1, RoundShapes DEF MonInv, SwTypeOK, Telling
<1>3. round' \in Rounds /\ round'.pc = "idle"
  BY <1>1, RoundSets DEF NoRound
<1>4. /\ alert' \in [Troubles -> [level : Levels, old : BOOLEAN]]
      /\ \A t \in Troubles : alert'[t].level = IF t \in Over THEN "ok" ELSE alert[t].level
  <2>1. Over \in SUBSET Troubles BY DEF Over
  <2>2. Fine \in Finds /\ \A t \in Troubles : Fine[t] = "ok"
    BY BadFound DEF Troubles, Levels
  <2>3. /\ alert' \in [Troubles -> [level : Levels, old : BOOLEAN]]
        /\ \A t \in Troubles : alert'[t].level = IF t \in Over THEN Fine[t] ELSE alert[t].level
    BY <1>1, <1>2, <2>1, <2>2, Kept
  <2> QED BY <2>2, <2>3
<1>5. \A t \in Troubles : alert'[t].level = round.found[t]
  BY <1>1, <1>4 DEF MonInv, FoundInv, Over
<1>6. SwTypeOK'
  BY <1>1, <1>2, <1>3, <1>4 DEF SwTypeOK
<1>7. HeardInv'
  BY <1>1, <1>3, <1>4, <1>5 DEF MonInv, HeardInv, Over
<1>8. QuietInv'
  <2>1. row.kind = "ok" /\ ~row.from => problems = Bad("port", row.level) /\ round.found = problems
    BY <1>1 DEF MonInv, FoundInv
  <2> QED BY <1>1, <1>5, <2>1 DEF QuietInv, Quiet
<1>9. FoundInv' /\ SnapInv' /\ LogInv'
  BY <1>1, <1>3 DEF MonInv, FoundInv, SnapInv, LogInv, Knows
<1> QED BY <1>6, <1>7, <1>8, <1>9 DEF MonInv

\* The world.
LEMMA WorldStep ==
    ASSUME MonInv, switch' \in [link : BOOLEAN, answers : BOOLEAN, online : BOOLEAN, opted : BOOLEAN, usual : BOOLEAN,
                                logins : Nat, login : {"none", "good", "bad"}],
           UNCHANGED <<row, rowDisk, problems, alert, round, heard, logged, cut>>
    PROVE  MonInv'
  BY DEF MonInv, SwTypeOK, HeardInv, FoundInv, QuietInv, Quiet, SnapInv, LogInv, Knows

LEMMA TurnStep == ASSUME MonInv, NEW f \in {"link", "answers", "online", "opted"}, Turn(f) PROVE MonInv'
<1>1. switch' = [switch EXCEPT ![f] = ~switch[f]] /\ UNCHANGED <<row, rowDisk, problems, alert, round, heard, logged, cut>>
  BY DEF Turn
<1>2. switch' \in [link : BOOLEAN, answers : BOOLEAN, online : BOOLEAN, opted : BOOLEAN, usual : BOOLEAN,
                   logins : Nat, login : {"none", "good", "bad"}]
  BY <1>1 DEF MonInv, SwTypeOK
<1> QED BY <1>1, <1>2, WorldStep

LEMMA SwitchSteps == ASSUME MonInv, Ages \/ \E l \in {"none", "good", "bad"} : SaveSwitchLogin(l) PROVE MonInv'
<1>1. /\ switch' \in [link : BOOLEAN, answers : BOOLEAN, online : BOOLEAN, opted : BOOLEAN, usual : BOOLEAN,
                      logins : Nat, login : {"none", "good", "bad"}]
      /\ UNCHANGED <<row, rowDisk, problems, alert, round, heard, logged, cut>>
  <2>1. switch \in [link : BOOLEAN, answers : BOOLEAN, online : BOOLEAN, opted : BOOLEAN, usual : BOOLEAN,
                    logins : Nat, login : {"none", "good", "bad"}]
    BY DEF MonInv, SwTypeOK
  <2>2. CASE Ages
    BY <2>1, <2>2 DEF Ages
  <2>3. ASSUME NEW l \in {"none", "good", "bad"}, SaveSwitchLogin(l)
        PROVE  /\ switch' = [switch EXCEPT !.logins = switch.logins + 1, !.login = l]
               /\ UNCHANGED <<row, rowDisk, problems, alert, round, heard, logged, cut>>
    BY <2>3 DEF SaveSwitchLogin
  <2>4. switch.logins + 1 \in Nat
    BY <2>1
  <2>5. ASSUME NEW l \in {"none", "good", "bad"}, NEW n \in Nat
        PROVE  [switch EXCEPT !.logins = n, !.login = l]
                  \in [link : BOOLEAN, answers : BOOLEAN, online : BOOLEAN, opted : BOOLEAN, usual : BOOLEAN,
                       logins : Nat, login : {"none", "good", "bad"}]
    BY <2>1
  <2>6. CASE \E l \in {"none", "good", "bad"} : SaveSwitchLogin(l)
    <3>1. PICK l \in {"none", "good", "bad"} : SaveSwitchLogin(l)
      BY <2>6
    <3> DEFINE next == [switch EXCEPT !.logins = switch.logins + 1, !.login = l]
    <3>2. next \in [link : BOOLEAN, answers : BOOLEAN, online : BOOLEAN, opted : BOOLEAN, usual : BOOLEAN,
                    logins : Nat, login : {"none", "good", "bad"}]
      BY <2>4, <2>5
    <3>3. switch' = next /\ UNCHANGED <<row, rowDisk, problems, alert, round, heard, logged, cut>>
      BY <2>3, <3>1
    <3> HIDE DEF next
    <3> QED BY <3>2, <3>3
  <2> QED BY <2>2, <2>6
<1> QED BY <1>1, WorldStep

LEMMA QuarterStep == ASSUME MonInv, Quarter PROVE MonInv'
<1>1. row' = [row EXCEPT !.long = TRUE] /\ row.kind = "error" /\ row \in Rows
      /\ UNCHANGED <<switch, rowDisk, problems, alert, round, heard, logged, cut>>
  BY DEF Quarter, MonInv, SwTypeOK
<1>2. row' \in Rows /\ row'.kind = row.kind /\ row'.snap = row.snap
  BY <1>1 DEF Rows
<1>3. SwTypeOK'
  BY <1>1, <1>2 DEF MonInv, SwTypeOK
<1>4. HeardInv' /\ FoundInv' /\ QuietInv' /\ SnapInv' /\ LogInv'
  BY <1>1, <1>2 DEF MonInv, HeardInv, FoundInv, QuietInv, Quiet, SnapInv, LogInv, Knows
<1> QED BY <1>3, <1>4 DEF MonInv

LEMMA SixHoursStep == ASSUME MonInv, SixHours PROVE MonInv'
<1>1. /\ row' = [row EXCEPT !.old = TRUE, !.long = row.kind \in {"auth_failed", "error"}] /\ row \in Rows
      /\ alert' = [t \in Troubles |-> [alert[t] EXCEPT !.old = alert[t].level # "ok"]]
      /\ UNCHANGED <<switch, rowDisk, problems, round, heard, logged, cut>>
  BY DEF SixHours, MonInv, SwTypeOK
<1>2. row' \in Rows /\ row'.kind = row.kind /\ row'.snap = row.snap /\ row'.from = row.from /\ row'.level = row.level
  <2> DEFINE long == row.kind \in {"auth_failed", "error"}
  <2>1. long \in BOOLEAN /\ row' = [row EXCEPT !.old = TRUE, !.long = long]
    BY <1>1
  <2> HIDE DEF long
  <2>2. LET s == [row EXCEPT !.old = TRUE, !.long = long] IN
        s \in Rows /\ s.kind = row.kind /\ s.snap = row.snap /\ s.from = row.from /\ s.level = row.level
    BY <1>1, <2>1, RowFields, ZenonT(60)
  <2> QED BY <2>1, <2>2
<1>3. /\ alert' \in [Troubles -> [level : Levels, old : BOOLEAN]]
      /\ \A t \in Troubles : alert'[t].level = alert[t].level
  <2> DEFINE new(t) == [alert[t] EXCEPT !.old = alert[t].level # "ok"]
  <2>1. \A t \in Troubles : new(t) \in [level : Levels, old : BOOLEAN] /\ new(t).level = alert[t].level
    <3> TAKE t \in Troubles
    <3>1. alert[t] \in [level : Levels, old : BOOLEAN]
      BY DEF MonInv, SwTypeOK
    <3> QED BY <3>1
  <2>2. alert' = [t \in Troubles |-> new(t)]
    BY <1>1
  <2> HIDE DEF new
  <2> QED BY <2>1, <2>2
<1>4. SwTypeOK'
  BY <1>1, <1>2, <1>3 DEF MonInv, SwTypeOK
<1>5. HeardInv' /\ FoundInv' /\ QuietInv'
  BY <1>1, <1>2, <1>3 DEF MonInv, HeardInv, FoundInv, QuietInv, Quiet
<1>6. SnapInv' /\ LogInv'
  BY <1>1, <1>2 DEF MonInv, SnapInv, LogInv, Knows
<1> QED BY <1>4, <1>5, <1>6 DEF MonInv

LEMMA ForgetSwitchStep == ASSUME MonInv, ForgetSwitch PROVE MonInv'
<1>1. /\ switch' = [switch EXCEPT !.online = FALSE] /\ row' = NoRow /\ rowDisk' = NoRow
      /\ logged' = [logged EXCEPT !.torn = TRUE] /\ UNCHANGED <<problems, alert, round, heard, cut>>
  BY DEF ForgetSwitch
<1>2. SwTypeOK' /\ logged'.torn /\ row'.kind = "new"
  BY <1>1, NoRowFields DEF MonInv, SwTypeOK
<1>3. HeardInv' /\ FoundInv' /\ QuietInv' /\ SnapInv' /\ LogInv'
  BY <1>1, <1>2 DEF MonInv, HeardInv, FoundInv, QuietInv, Quiet, SnapInv, LogInv
<1> QED BY <1>2, <1>3 DEF MonInv

LEMMA RestartMonStep == ASSUME MonInv, RestartMon PROVE MonInv'
<1> DEFINE lost == CASE round.pc = "fired" -> ToTell [] round.pc = "cleared" -> Over [] OTHER -> {}
<1>1. /\ round' = NoRound /\ row' = [rowDisk EXCEPT !.from = TRUE] /\ problems' = Fine
      /\ logged' = [logged EXCEPT !.torn = @ \/ round.pc = "persist"] /\ cut' = cut \cup lost
      /\ UNCHANGED <<switch, rowDisk, alert, heard>>
  BY DEF RestartMon
<1>2. lost \subseteq Troubles
  BY DEF ToTell, Over
<1>3. round'.pc = "idle" /\ round' \in Rounds /\ Fine \in Finds
  BY <1>1, RoundSets, BadFound DEF NoRound, Troubles, Levels
<1>4. row' \in Rows /\ row'.from = TRUE /\ row'.snap = rowDisk.snap
  <2>1. rowDisk \in Rows BY DEF MonInv, SwTypeOK
  <2> QED BY <1>1, <2>1 DEF Rows
<1>5. logged' \in [link : BOOLEAN, torn : BOOLEAN] /\ logged'.link = logged.link
      /\ (logged'.torn <=> (logged.torn \/ round.pc = "persist"))
  <2>1. logged \in [link : BOOLEAN, torn : BOOLEAN] BY DEF MonInv, SwTypeOK
  <2> QED BY <1>1, <2>1
<1>6. SwTypeOK'
  <2> HIDE DEF lost
  <2> QED BY <1>1, <1>2, <1>3, <1>4, <1>5 DEF MonInv, SwTypeOK
<1>7. HeardInv'
  <2> SUFFICES ASSUME NEW t \in Troubles, t \notin cut, t \notin lost PROVE heard[t] = alert[t].level
    BY <1>1, <1>3 DEF HeardInv
  <2>1. CASE round.pc = "fired"
    BY <2>1 DEF MonInv, HeardInv, ToTell
  <2>2. CASE round.pc = "cleared"
    BY <2>2 DEF MonInv, HeardInv, Over
  <2> QED BY <2>1, <2>2 DEF MonInv, HeardInv
<1>8. FoundInv' /\ QuietInv' /\ SnapInv'
  BY <1>1, <1>3, <1>4 DEF FoundInv, QuietInv, Quiet, SnapInv
<1>9. LogInv'
  BY <1>1, <1>3, <1>4, <1>5 DEF MonInv, LogInv, Knows
<1> QED BY <1>6, <1>7, <1>8, <1>9 DEF MonInv

LEMMA MonInit == SwInit => MonInv
<1> SUFFICES ASSUME SwInit PROVE MonInv
  OBVIOUS
<1>1. round = NoRound /\ round.pc = "idle" /\ row = NoRow /\ row.kind = "new" /\ logged.torn
  BY NoRowFields DEF SwInit, NoRound
<1>2. Fine \in Finds /\ \A t \in Troubles : Fine[t] = "ok"
  BY BadFound DEF Troubles, Levels
<1>3. SwTypeOK
  BY <1>1, <1>2, NoRowFields, RoundSets DEF SwInit, SwTypeOK, Levels
<1>4. HeardInv
  BY <1>1, <1>2 DEF SwInit, HeardInv
<1> QED BY <1>1, <1>3, <1>4 DEF MonInv, FoundInv, QuietInv, Quiet, SnapInv, LogInv

LEMMA MonStep == MonInv /\ [SwNext]_swvars => MonInv'
<1> SUFFICES ASSUME MonInv, [SwNext]_swvars PROVE MonInv'
  OBVIOUS
<1>1. CASE Fire \/ Clear
  <2>1. ToTell \in SUBSET Troubles /\ Over \in SUBSET Troubles /\ Fine \in Finds
    BY BadFound DEF ToTell, Over, Troubles, Levels
  <2>2. CASE Fire
    <3>1. round \in Telling /\ round.found \in Finds
      BY <2>2, RoundShapes DEF Fire, Push, MonInv, SwTypeOK, Telling
    <3> QED BY <2>1, <2>2, <3>1, PushStep DEF Fire
  <2>3. CASE Clear
    BY <2>1, <2>3, PushStep DEF Clear
  <2> QED BY <1>1, <2>2, <2>3
<1>2. CASE UNCHANGED swvars
  BY <1>2, WorldStep DEF swvars, MonInv, SwTypeOK
<1>3. CASE Refuses \/ Unanswered
  BY <1>3, FailStep DEF Refuses, Unanswered
<1> QED BY <1>1, <1>2, <1>3, SkipStep, NoLoginStep, HoldStep, ReadStep, ReadsStep, LogStep, PersistStep, ShowStep,
           SaveFiredStep, SaveClearStep, TurnStep, SwitchSteps, QuarterStep, SixHoursStep, ForgetSwitchStep,
           RestartMonStep DEF SwNext

\* Every variable of the switch monitor keeps its type.
THEOREM MonitorTyped == SwSpec => []SwTypeOK
<1>1. MonInv => SwTypeOK
  BY DEF MonInv
<1> QED BY <1>1, MonInit, MonStep, PTL DEF SwSpec

\* Between rounds, when the last one read the switch, what people were told last of each trouble
\* is what that reading showed, whatever failed, restarted or was forgotten before; but for the
\* troubles that a stop cut off between their message and its file.
THEOREM TroublesToldTrue == SwSpec => []ToldTrue
<1>1. MonInv => ToldTrue
  BY DEF MonInv, QuietInv, HeardInv, ToldTrue, Quiet, NoRound
<1> QED BY <1>1, MonInit, MonStep, PTL DEF SwSpec

\* The log's last word on the port's link is what the last reading showed, through readings that
\* failed and restarts, but for a stop between writing the log and keeping the reading.
THEOREM LogIsTrue == SwSpec => []LogTrue
<1>1. MonInv => LogTrue
  BY DEF MonInv, LogInv, Knows, LogTrue, Quiet, NoRound
<1> QED BY <1>1, MonInit, MonStep, PTL DEF SwSpec

(***************************************************************************)
(* The logins of a camera.                                                 *)
(***************************************************************************)
\* Which steps a job of each kind goes through.
CreateSteps   == {"list", "post", "rights", "proof", "undo", "save", "slot"}
RemoveSteps   == {"list", "delete", "save", "slot"}
PasswordSteps == {"list", "pause", "write", "test", "save", "channel", "restore"}

Jobs == [kind : {"create", "remove", "password"}, pc : CreateSteps \cup RemoveSteps \cup PasswordSteps,
         login : Passwords, new : Passwords \cup {NoPassword}, was : Passwords \X BOOLEAN \X Stores, back : BOOLEAN,
         reached : BOOLEAN, bad : BOOLEAN, met : BOOLEAN, words : {"ok", "nothing", "no answer"}]

Running(kind) == job # NoJob /\ job.kind = kind

JobTyped ==
    /\ job \in Jobs \cup {NoJob}
    /\ store.user = "admin" => store.pw \in Passwords
    /\ Running("create") => job.pc \in CreateSteps
    /\ Running("remove") => job.pc \in RemoveSteps
    /\ Running("password") => job.pc \in PasswordSteps /\ job.new \in Passwords

\* What a job says of itself.
WordsInv ==
    /\ job.pc = "undo" => job.words \in {"nothing", "no answer"}
    /\ Running("password") => job.words \in {"ok", "nothing"}
    /\ Running("password") /\ job.pc \in {"list", "pause", "write", "test", "save", "channel"} => job.words = "ok" /\ ~job.bad
    /\ Running("password") /\ job.words = "nothing" => ~job.bad
    /\ Running("password") /\ ~job.reached => "channel" \in doubt
    /\ Running("password") => AdminLogin # NoPassword

\* The admin's password.
AdminInv ==
    "password" \notin doubt =>
       /\ AdminLogin = cam.admin \/ job.pc = "slot" \/ (Running("password") /\ job.pc \in {"test", "save"} /\ cam.admin = job.new)
       /\ Running("create") \/ Running("remove") => job.login = cam.admin
       /\ job.pc = "slot" => IF job.kind = "create" THEN store.user = "netwatch"
                             ELSE store.user = "admin" /\ store.pw = job.login

\* The user netwatch.
Made == Running("create") /\ job.pc \in {"rights", "proof", "undo", "save"}
UserInv ==
    {"user", "password"} \cap doubt = {} /\ "user" \notin bidden =>
       /\ store.user = "admin" /\ cam.net => Made
       /\ Running("remove") /\ job.pc = "save" => ~cam.net

LockInv ==
    "lock" \notin doubt => \/ cam.lock \/ "lock" \in bidden
                           \/ Running("password") /\ job.back /\ job.pc \in {"write", "test", "save", "channel", "restore"}

\* The recorder's channel.
ChannelInv ==
    /\ {"password", "channel"} \cap doubt = {} =>
          \/ chan = cam.admin \/ "channel" \in bidden
          \/ Running("password") /\ \/ job.pc = "test" /\ cam.admin = job.new
                                    \/ job.pc \in {"save", "channel"}
                                    \/ job.pc = "restore" /\ job.bad
    /\ Running("password") /\ job.pc \in {"save", "channel"} => cam.admin = job.new

\* What a job has done that nobody interfered with.
DoneInv ==
    /\ Made \/ (Running("create") /\ job.pc = "slot") => cam.net /\ job.login = cam.admin
    /\ Running("create") /\ job.pc = "post" => job.login = cam.admin
    /\ Running("remove") /\ job.pc = "delete" => job.login = cam.admin
    /\ Running("remove") /\ job.pc \in {"save", "slot"} => "user" \in doubt \/ (~cam.net /\ job.login = cam.admin)
    /\ job.pc = "slot" /\ ~job.met => IF job.kind = "create" THEN store.user = "netwatch" /\ store.pw = OwnPassword
                                      ELSE store.user = "admin" /\ store.pw = job.login
    /\ Running("password") /\ job.pc = "restore" /\ job.words = "ok" /\ ~job.bad => chan = cam.admin \/ "channel" \in doubt

\* ... and what it has not.
WasInv ==
    job # NoJob =>
       /\ ~job.met => \/ store = job.was[3] \/ job.pc \in {"slot", "channel"}
                      \/ job.pc = "restore" /\ job.words = "ok"
       /\ \/ cam.admin = job.was[1]
          \/ Running("password") /\ job.pc \in {"save", "channel"}
          \/ job.pc = "restore" /\ job.words = "ok"
          \/ job.pc = "test" /\ cam.admin = job.new
       /\ cam.net = job.was[2] \/ Made \/ (job.pc \in {"save", "slot"} /\ ~Running("password"))
       /\ Made \/ (Running("create") /\ job.pc = "post") => ~job.was[2]
       /\ Running("password") => job.was[2] = cam.net

LoginInv == LoginTypeOK /\ JobTyped /\ WordsInv /\ AdminInv /\ UserInv /\ LockInv /\ ChannelInv /\ DoneInv /\ WasInv
SameKind(r, q) == r.kind = q.kind /\ r.login = q.login /\ r.new = q.new /\ r.was = q.was /\ r.reached = q.reached /\ r.met = q.met
SameJob(r, q) == SameKind(r, q) /\ r.back = q.back /\ r.bad = q.bad /\ r.words = q.words

AllSteps == CreateSteps \cup RemoveSteps \cup PasswordSteps

LEMMA JobSteps ==
    ASSUME NEW r \in Jobs
    PROVE  /\ r # NoJob /\ NoJob.pc = "idle"
           /\ \A pc \in AllSteps : LET q == [r EXCEPT !.pc = pc] IN q \in Jobs /\ q.pc = pc /\ SameJob(q, r)
<1>1. r # NoJob /\ NoJob.pc = "idle"
  <2>1. r.pc # "idle" BY DEF Jobs, CreateSteps, RemoveSteps, PasswordSteps
  <2> QED BY <2>1 DEF NoJob
<1>2. \A pc \in AllSteps : LET q == [r EXCEPT !.pc = pc] IN q \in Jobs /\ q.pc = pc /\ SameJob(q, r)
  BY DEF Jobs, AllSteps, SameJob, SameKind
<1> QED BY <1>1, <1>2

LEMMA JobPauses ==
    ASSUME NEW r \in Jobs, NEW b \in BOOLEAN
    PROVE  LET q == [r EXCEPT !.pc = "write", !.back = b] IN
           q \in Jobs /\ q.pc = "write" /\ q.back = b /\ SameKind(q, r) /\ q.bad = r.bad /\ q.words = r.words
  BY DEF Jobs, AllSteps, SameKind, PasswordSteps

LEMMA JobBad ==
    ASSUME NEW r \in Jobs, NEW b \in BOOLEAN
    PROVE  LET q == [r EXCEPT !.pc = "restore", !.bad = b] IN
           q \in Jobs /\ q.pc = "restore" /\ q.bad = b /\ SameKind(q, r) /\ q.back = r.back /\ q.words = r.words
  BY DEF Jobs, AllSteps, SameKind, PasswordSteps

LEMMA JobMet ==
    ASSUME NEW r \in Jobs
    PROVE  LET q == [r EXCEPT !.met = TRUE] IN
           /\ q \in Jobs /\ q.pc = r.pc /\ q.met = TRUE /\ q.back = r.back /\ q.bad = r.bad /\ q.words = r.words
           /\ q.kind = r.kind /\ q.login = r.login /\ q.new = r.new /\ q.was = r.was /\ q.reached = r.reached
  BY DEF Jobs

LEMMA CamFields ==
    ASSUME NEW c \in Cams
    PROVE  /\ \A b \in BOOLEAN : LET d == [c EXCEPT !.net = b] IN d \in Cams /\ d.net = b /\ d.admin = c.admin /\ d.lock = c.lock
           /\ \A b \in BOOLEAN : LET d == [c EXCEPT !.lock = b] IN d \in Cams /\ d.lock = b /\ d.admin = c.admin /\ d.net = c.net
           /\ \A p \in Passwords : LET d == [c EXCEPT !.admin = p] IN d \in Cams /\ d.admin = p /\ d.lock = c.lock /\ d.net = c.net
  BY DEF Cams

LEMMA LoginTypes ==
    ASSUME LoginInv
    PROVE  /\ cam \in Cams /\ cam.admin \in Passwords /\ cam.net \in BOOLEAN /\ cam.lock \in BOOLEAN /\ store \in Stores
           /\ job.pc # "idle" => job \in Jobs /\ job # NoJob
  BY DEF LoginInv, LoginTypeOK, JobTyped, Cams, NoJob

LEMMA KindOf ==
    ASSUME LoginInv, job # NoJob
    PROVE  /\ job.kind \in {"create", "remove", "password"}
           /\ job.pc \in {"post", "rights", "proof", "undo"} => job.kind = "create"
           /\ job.pc = "delete" => job.kind = "remove"
           /\ job.pc = "slot" => job.kind # "password"
           /\ job.pc \in {"pause", "write", "test", "channel", "restore"} => job.kind = "password"
  BY DEF LoginInv, JobTyped, Jobs, Running, CreateSteps, RemoveSteps, PasswordSteps

USE DEF Running, Made, SameJob, SameKind, CreateSteps, RemoveSteps, PasswordSteps, AdminLogin

\* Making the user.
LEMMA RightsSet ==
    ASSUME LoginInv, SetRights
    PROVE  LoginInv'
<1>1. /\ job \in Jobs /\ job # NoJob /\ job.pc = "rights" /\ job' = [job EXCEPT !.pc = "proof"]
      /\ UNCHANGED <<cam, chan, store, bidden, doubt>>
  BY LoginTypes DEF SetRights, Proves, At, On, StoreUnchanged
<1>2. job' \in Jobs /\ job' # NoJob /\ job'.pc = "proof" /\ SameJob(job', job)
  <2>1. "proof" \in AllSteps
    BY DEF AllSteps
  <2>2. job \in Jobs /\ job' = [job EXCEPT !.pc = "proof"]
    BY <1>1
  <2> QED BY <2>1, <2>2, JobSteps
<1>3. LoginTypeOK' /\ JobTyped' /\ WordsInv'
  BY <1>2, <1>1 DEF LoginInv, LoginTypeOK, JobTyped, WordsInv
<1>4. AdminInv' /\ UserInv' /\ LockInv'
  BY <1>2, <1>1 DEF LoginInv, JobTyped, WordsInv, DoneInv, AdminInv, UserInv, LockInv
<1>5. ChannelInv' /\ DoneInv' /\ WasInv'
  BY <1>2, <1>1 DEF LoginInv, JobTyped, WordsInv, AdminInv, ChannelInv, DoneInv, WasInv
<1> QED BY <1>3, <1>4, <1>5 DEF LoginInv

LEMMA LoginProved ==
    ASSUME LoginInv, ProveLogin
    PROVE  LoginInv'
<1>1. /\ job \in Jobs /\ job # NoJob /\ job.pc = "proof" /\ job' = [job EXCEPT !.pc = "save"]
      /\ UNCHANGED <<cam, chan, store, bidden, doubt>>
  BY LoginTypes DEF ProveLogin, Proves, At, On, StoreUnchanged
<1>2. job' \in Jobs /\ job' # NoJob /\ job'.pc = "save" /\ SameJob(job', job)
  <2>1. "save" \in AllSteps
    BY DEF AllSteps
  <2>2. job \in Jobs /\ job' = [job EXCEPT !.pc = "save"]
    BY <1>1
  <2> QED BY <2>1, <2>2, JobSteps
<1>3. LoginTypeOK' /\ JobTyped' /\ WordsInv'
  BY <1>2, <1>1 DEF LoginInv, LoginTypeOK, JobTyped, WordsInv
<1>4. AdminInv' /\ UserInv' /\ LockInv'
  BY <1>2, <1>1 DEF LoginInv, JobTyped, WordsInv, DoneInv, AdminInv, UserInv, LockInv
<1>5. ChannelInv' /\ DoneInv' /\ WasInv'
  BY <1>2, <1>1 DEF LoginInv, JobTyped, WordsInv, AdminInv, ChannelInv, DoneInv, WasInv
<1> QED BY <1>3, <1>4, <1>5 DEF LoginInv

LEMMA UserPosted ==
    ASSUME LoginInv, PostUser
    PROVE  LoginInv'
<1>1. /\ job \in Jobs /\ job # NoJob /\ job.pc = "post" /\ job' = [job EXCEPT !.pc = "rights"]
      /\ cam' \in Cams /\ cam'.net = TRUE /\ cam'.admin = cam.admin /\ cam'.lock = cam.lock
      /\ UNCHANGED <<chan, store, bidden, doubt>>
  BY LoginTypes, CamFields DEF PostUser, At, On, StoreUnchanged
<1>2. job' \in Jobs /\ job' # NoJob /\ job'.pc = "rights" /\ SameJob(job', job)
  <2>1. "rights" \in AllSteps
    BY DEF AllSteps
  <2>2. job \in Jobs /\ job' = [job EXCEPT !.pc = "rights"]
    BY <1>1
  <2> QED BY <2>1, <2>2, JobSteps
<1>3. job.kind = "create"
  BY <1>1, KindOf, LoginTypes
<1>4. LoginTypeOK' /\ JobTyped' /\ WordsInv'
  BY <1>3, <1>2, <1>1 DEF LoginInv, LoginTypeOK, JobTyped, WordsInv
<1>5. AdminInv' /\ UserInv' /\ LockInv'
  <2>1. AdminInv'
    BY <1>3, <1>2, <1>1 DEF LoginInv, JobTyped, WordsInv, DoneInv, AdminInv, UserInv, LockInv
  <2>2. UserInv'
    BY <1>3, <1>2, <1>1 DEF LoginInv, JobTyped, WordsInv, DoneInv, AdminInv, UserInv, LockInv
  <2>3. LockInv'
    BY <1>3, <1>2, <1>1 DEF LoginInv, JobTyped, WordsInv, DoneInv, AdminInv, UserInv, LockInv
  <2> QED BY <2>1, <2>2, <2>3
<1>6. ChannelInv' /\ DoneInv' /\ WasInv'
  <2>1. ChannelInv'
    BY <1>3, <1>2, <1>1 DEF LoginInv, JobTyped, WordsInv, AdminInv, ChannelInv, DoneInv, WasInv
  <2>2. DoneInv'
    BY <1>3, <1>2, <1>1 DEF LoginInv, JobTyped, WordsInv, AdminInv, ChannelInv, DoneInv, WasInv
  <2>3. WasInv'
    BY <1>3, <1>2, <1>1 DEF LoginInv, JobTyped, WordsInv, AdminInv, ChannelInv, DoneInv, WasInv
  <2> QED BY <2>1, <2>2, <2>3
<1> QED BY <1>4, <1>5, <1>6 DEF LoginInv

\* A job that ends before it has changed anything.
LEMMA EndsUntouched ==
    ASSUME LoginInv, job \in Jobs, job.pc \in {"list", "post", "pause"}, job' = NoJob,
           UNCHANGED <<cam, chan, store, bidden, doubt>>
    PROVE  LoginInv'
<1>1. /\ job \in Jobs /\ job # NoJob /\ job.pc \in {"list", "post", "pause"} /\ job' = NoJob
      /\ job'.pc = "idle"
      /\ UNCHANGED <<cam, chan, store, bidden, doubt>>
  BY LoginTypes, JobSteps DEF NoJob
<1>2. LoginTypeOK' /\ JobTyped' /\ WordsInv'
  BY <1>1 DEF LoginInv, LoginTypeOK, JobTyped, WordsInv
<1>3. AdminInv' /\ UserInv' /\ LockInv'
  BY <1>1 DEF LoginInv, JobTyped, WordsInv, DoneInv, AdminInv, UserInv, LockInv
<1>4. ChannelInv' /\ DoneInv' /\ WasInv'
  BY <1>1 DEF LoginInv, JobTyped, WordsInv, AdminInv, ChannelInv, DoneInv, WasInv
<1> QED BY <1>2, <1>3, <1>4 DEF LoginInv

\* ... or that does not know what has become of the user.
LEMMA EndsInDoubt ==
    ASSUME LoginInv, job \in Jobs, job.pc \in {"post", "undo", "delete", "rights"}, job' = NoJob, doubt' = doubt \cup {"user"},
           NEW b \in BOOLEAN, cam' = [cam EXCEPT !.net = b], UNCHANGED <<chan, store, bidden>>
    PROVE  LoginInv'
<1>1. /\ job \in Jobs /\ job # NoJob /\ job.pc \in {"post", "undo", "delete", "rights"} /\ job' = NoJob
      /\ job'.pc = "idle"
      /\ cam' \in Cams /\ cam'.admin = cam.admin /\ cam'.lock = cam.lock /\ doubt' = doubt \cup {"user"}
      /\ UNCHANGED <<chan, store, bidden>>
  BY LoginTypes, JobSteps, CamFields DEF NoJob
<1>2. LoginTypeOK' /\ JobTyped' /\ WordsInv'
  BY <1>1 DEF LoginInv, LoginTypeOK, JobTyped, WordsInv
<1>3. AdminInv' /\ UserInv' /\ LockInv'
  BY <1>1 DEF LoginInv, JobTyped, WordsInv, DoneInv, AdminInv, UserInv, LockInv
<1>4. ChannelInv' /\ DoneInv' /\ WasInv'
  BY <1>1 DEF LoginInv, JobTyped, WordsInv, AdminInv, ChannelInv, DoneInv, WasInv
<1> QED BY <1>2, <1>3, <1>4 DEF LoginInv

LEMMA AccountUndone ==
    ASSUME LoginInv, NEW words \in {"nothing", "no answer"}, job \in Jobs, job.pc \in {"rights", "proof"},
           job' = [job EXCEPT !.pc = "undo", !.words = words], UNCHANGED <<cam, chan, store, bidden, doubt>>
    PROVE  LoginInv'
<1>1. /\ job \in Jobs /\ job # NoJob /\ job.pc \in {"rights", "proof"} /\ job' = [job EXCEPT !.pc = "undo", !.words = words]
      /\ UNCHANGED <<cam, chan, store, bidden, doubt>>
  BY LoginTypes DEF NoJob
<1>2. /\ job' \in Jobs /\ job'.pc = "undo" /\ job'.words = words
      /\ SameKind(job', job) /\ job'.back = job.back /\ job'.bad = job.bad
  <2>1. job' \in Jobs
    BY <1>1 DEF Jobs
  <2>2. job'.pc = "undo" /\ job'.words = words /\ job'.back = job.back /\ job'.bad = job.bad
    BY <1>1 DEF Jobs
  <2>3. SameKind(job', job)
    BY <1>1 DEF Jobs
  <2> QED BY <2>1, <2>2, <2>3
<1>3. /\ job' \in Jobs /\ job' # NoJob /\ job'.pc = "undo" /\ job'.words = words
      /\ SameKind(job', job) /\ job'.back = job.back /\ job'.bad = job.bad
  BY <1>2, JobSteps
<1>4. LoginTypeOK' /\ JobTyped' /\ WordsInv'
  BY <1>3, <1>1 DEF LoginInv, LoginTypeOK, JobTyped, WordsInv
<1>5. AdminInv' /\ UserInv' /\ LockInv'
  BY <1>3, <1>1, ZenonT(60) DEF LoginInv, JobTyped, WordsInv, DoneInv, AdminInv, UserInv, LockInv
<1>6. ChannelInv' /\ DoneInv' /\ WasInv'
  BY <1>3, <1>1, ZenonT(60) DEF LoginInv, JobTyped, WordsInv, AdminInv, ChannelInv, DoneInv, WasInv
<1> QED BY <1>4, <1>5, <1>6 DEF LoginInv

LEMMA UserUndone ==
    ASSUME LoginInv, UndoUser
    PROVE  LoginInv'
<1>1. /\ job \in Jobs /\ job # NoJob /\ job.pc = "undo" /\ job' = NoJob
      /\ job'.pc = "idle"
      /\ cam' \in Cams /\ ~cam'.net = TRUE /\ cam'.admin = cam.admin /\ cam'.lock = cam.lock
      /\ UNCHANGED <<chan, store, bidden, doubt>>
  BY LoginTypes, JobSteps, CamFields DEF UndoUser, EndsAs, NoJob, At, On, StoreUnchanged
<1>2. LoginTypeOK' /\ JobTyped' /\ WordsInv'
  BY <1>1 DEF LoginInv, LoginTypeOK, JobTyped, WordsInv
<1>3. AdminInv' /\ UserInv' /\ LockInv'
  BY <1>1 DEF LoginInv, JobTyped, WordsInv, DoneInv, AdminInv, UserInv, LockInv
<1>4. ChannelInv' /\ DoneInv' /\ WasInv'
  BY <1>1 DEF LoginInv, JobTyped, WordsInv, AdminInv, ChannelInv, DoneInv, WasInv
<1> QED BY <1>2, <1>3, <1>4 DEF LoginInv

LEMMA UserByHand ==
    ASSUME LoginInv, job \in Jobs, job.pc \in {"undo", "delete"}, job' = NoJob, bidden' = bidden \cup {"user"},
           UNCHANGED <<cam, chan, store, doubt>>
    PROVE  LoginInv'
<1>1. /\ job \in Jobs /\ job # NoJob /\ job.pc \in {"undo", "delete"} /\ job' = NoJob
      /\ job'.pc = "idle"
      /\ bidden' = bidden \cup {"user"} /\ UNCHANGED <<cam, chan, store, doubt>>
  BY LoginTypes, JobSteps DEF NoJob
<1>2. LoginTypeOK' /\ JobTyped' /\ WordsInv'
  BY <1>1 DEF LoginInv, LoginTypeOK, JobTyped, WordsInv
<1>3. AdminInv' /\ UserInv' /\ LockInv'
  BY <1>1 DEF LoginInv, JobTyped, WordsInv, DoneInv, AdminInv, UserInv, LockInv
<1>4. ChannelInv' /\ DoneInv' /\ WasInv'
  BY <1>1 DEF LoginInv, JobTyped, WordsInv, AdminInv, ChannelInv, DoneInv, WasInv
<1> QED BY <1>2, <1>3, <1>4 DEF LoginInv

\* Removing it, and saving either.
LEMMA UserDeleted ==
    ASSUME LoginInv, DeleteUser
    PROVE  LoginInv'
<1>1. /\ job \in Jobs /\ job # NoJob /\ job.pc = "delete" /\ job' = [job EXCEPT !.pc = "save"]
      /\ cam' \in Cams /\ ~cam'.net = TRUE /\ cam'.admin = cam.admin /\ cam'.lock = cam.lock
      /\ UNCHANGED <<chan, store, bidden, doubt>>
  BY LoginTypes, CamFields DEF DeleteUser, At, On, StoreUnchanged
<1>2. job' \in Jobs /\ job' # NoJob /\ job'.pc = "save" /\ SameJob(job', job)
  <2>1. "save" \in AllSteps
    BY DEF AllSteps
  <2>2. job \in Jobs /\ job' = [job EXCEPT !.pc = "save"]
    BY <1>1
  <2> QED BY <2>1, <2>2, JobSteps
<1>3. LoginTypeOK' /\ JobTyped' /\ WordsInv'
  BY <1>2, <1>1 DEF LoginInv, LoginTypeOK, JobTyped, WordsInv
<1>4. AdminInv' /\ UserInv' /\ LockInv'
  BY <1>2, <1>1 DEF LoginInv, JobTyped, WordsInv, DoneInv, AdminInv, UserInv, LockInv
<1>5. ChannelInv' /\ DoneInv' /\ WasInv'
  BY <1>2, <1>1 DEF LoginInv, JobTyped, WordsInv, AdminInv, ChannelInv, DoneInv, WasInv
<1> QED BY <1>3, <1>4, <1>5 DEF LoginInv

LEMMA ListCreates ==
    ASSUME LoginInv, job \in Jobs, job.pc = "list", job.kind = "create", job.login = cam.admin, cam.net = FALSE, On("post"),
           UNCHANGED <<cam, chan, store, bidden, doubt>>
    PROVE  LoginInv'
<1>1. /\ job \in Jobs /\ job # NoJob /\ job.pc = "list" /\ job' = [job EXCEPT !.pc = "post"]
      /\ job.kind = "create" /\ job.login = cam.admin /\ cam.net = FALSE
      /\ UNCHANGED <<cam, chan, store, bidden, doubt>>
  BY LoginTypes DEF On
<1>2. job' \in Jobs /\ job' # NoJob /\ job'.pc = "post" /\ SameJob(job', job)
  <2>1. "post" \in AllSteps
    BY DEF AllSteps
  <2>2. job \in Jobs /\ job' = [job EXCEPT !.pc = "post"]
    BY <1>1
  <2> QED BY <2>1, <2>2, JobSteps
<1>3. LoginTypeOK' /\ JobTyped' /\ WordsInv'
  BY <1>2, <1>1 DEF LoginInv, LoginTypeOK, JobTyped, WordsInv
<1>4. AdminInv' /\ UserInv' /\ LockInv'
  BY <1>2, <1>1 DEF LoginInv, JobTyped, WordsInv, DoneInv, AdminInv, UserInv, LockInv
<1>5. ChannelInv' /\ DoneInv' /\ WasInv'
  BY <1>2, <1>1 DEF LoginInv, JobTyped, WordsInv, AdminInv, ChannelInv, DoneInv, WasInv
<1> QED BY <1>3, <1>4, <1>5 DEF LoginInv

LEMMA ListChanges ==
    ASSUME LoginInv, job \in Jobs, job.pc = "list", job.kind = "password", job.login = cam.admin, On("pause"),
           UNCHANGED <<cam, chan, store, bidden, doubt>>
    PROVE  LoginInv'
<1>1. /\ job \in Jobs /\ job # NoJob /\ job.pc = "list" /\ job' = [job EXCEPT !.pc = "pause"]
      /\ job.kind = "password" /\ job.login = cam.admin
      /\ UNCHANGED <<cam, chan, store, bidden, doubt>>
  BY LoginTypes DEF On
<1>2. job' \in Jobs /\ job' # NoJob /\ job'.pc = "pause" /\ SameJob(job', job)
  <2>1. "pause" \in AllSteps
    BY DEF AllSteps
  <2>2. job \in Jobs /\ job' = [job EXCEPT !.pc = "pause"]
    BY <1>1
  <2> QED BY <2>1, <2>2, JobSteps
<1>3. LoginTypeOK' /\ JobTyped' /\ WordsInv'
  BY <1>2, <1>1 DEF LoginInv, LoginTypeOK, JobTyped, WordsInv
<1>4. AdminInv' /\ UserInv' /\ LockInv'
  BY <1>2, <1>1 DEF LoginInv, JobTyped, WordsInv, DoneInv, AdminInv, UserInv, LockInv
<1>5. ChannelInv' /\ DoneInv' /\ WasInv'
  BY <1>2, <1>1 DEF LoginInv, JobTyped, WordsInv, AdminInv, ChannelInv, DoneInv, WasInv
<1> QED BY <1>3, <1>4, <1>5 DEF LoginInv

LEMMA ListDeletes ==
    ASSUME LoginInv, job \in Jobs, job.pc = "list", job.kind = "remove", job.login = cam.admin, On("delete"),
           UNCHANGED <<cam, chan, store, bidden, doubt>>
    PROVE  LoginInv'
<1>1. /\ job \in Jobs /\ job # NoJob /\ job.pc = "list" /\ job' = [job EXCEPT !.pc = "delete"]
      /\ job.kind = "remove" /\ job.login = cam.admin
      /\ UNCHANGED <<cam, chan, store, bidden, doubt>>
  BY LoginTypes DEF On
<1>2. job' \in Jobs /\ job' # NoJob /\ job'.pc = "delete" /\ SameJob(job', job)
  <2>1. "delete" \in AllSteps
    BY DEF AllSteps
  <2>2. job \in Jobs /\ job' = [job EXCEPT !.pc = "delete"]
    BY <1>1
  <2> QED BY <2>1, <2>2, JobSteps
<1>3. LoginTypeOK' /\ JobTyped' /\ WordsInv'
  BY <1>2, <1>1 DEF LoginInv, LoginTypeOK, JobTyped, WordsInv
<1>4. AdminInv' /\ UserInv' /\ LockInv'
  BY <1>2, <1>1 DEF LoginInv, JobTyped, WordsInv, DoneInv, AdminInv, UserInv, LockInv
<1>5. ChannelInv' /\ DoneInv' /\ WasInv'
  BY <1>2, <1>1 DEF LoginInv, JobTyped, WordsInv, AdminInv, ChannelInv, DoneInv, WasInv
<1> QED BY <1>3, <1>4, <1>5 DEF LoginInv

LEMMA ListFindsNone ==
    ASSUME LoginInv, job \in Jobs, job.pc = "list", job.kind = "remove", job.login = cam.admin, cam.net = FALSE, On("save"),
           UNCHANGED <<cam, chan, store, bidden, doubt>>
    PROVE  LoginInv'
<1>1. /\ job \in Jobs /\ job # NoJob /\ job.pc = "list" /\ job' = [job EXCEPT !.pc = "save"]
      /\ job.kind = "remove" /\ job.login = cam.admin /\ cam.net = FALSE
      /\ UNCHANGED <<cam, chan, store, bidden, doubt>>
  BY LoginTypes DEF On
<1>2. job' \in Jobs /\ job' # NoJob /\ job'.pc = "save" /\ SameJob(job', job)
  <2>1. "save" \in AllSteps
    BY DEF AllSteps
  <2>2. job \in Jobs /\ job' = [job EXCEPT !.pc = "save"]
    BY <1>1
  <2> QED BY <2>1, <2>2, JobSteps
<1>3. LoginTypeOK' /\ JobTyped' /\ WordsInv'
  BY <1>2, <1>1 DEF LoginInv, LoginTypeOK, JobTyped, WordsInv
<1>4. AdminInv' /\ UserInv' /\ LockInv'
  BY <1>2, <1>1 DEF LoginInv, JobTyped, WordsInv, DoneInv, AdminInv, UserInv, LockInv
<1>5. ChannelInv' /\ DoneInv' /\ WasInv'
  BY <1>2, <1>1 DEF LoginInv, JobTyped, WordsInv, AdminInv, ChannelInv, DoneInv, WasInv
<1> QED BY <1>3, <1>4, <1>5 DEF LoginInv

LEMMA ListTakenForNone ==
    ASSUME LoginInv, job \in Jobs, job.pc = "list", job.kind = "remove", On("save"), doubt' = doubt \cup {"user"},
           UNCHANGED <<cam, chan, store, bidden>>
    PROVE  LoginInv'
<1>1. /\ job \in Jobs /\ job # NoJob /\ job.pc = "list" /\ job' = [job EXCEPT !.pc = "save"]
      /\ job.kind = "remove" /\ doubt' = doubt \cup {"user"} /\ UNCHANGED <<cam, chan, store, bidden>>
  BY LoginTypes DEF On
<1>2. job' \in Jobs /\ job' # NoJob /\ job'.pc = "save" /\ SameJob(job', job)
  <2>1. "save" \in AllSteps
    BY DEF AllSteps
  <2>2. job \in Jobs /\ job' = [job EXCEPT !.pc = "save"]
    BY <1>1
  <2> QED BY <2>1, <2>2, JobSteps
<1>3. LoginTypeOK' /\ JobTyped' /\ WordsInv'
  BY <1>2, <1>1 DEF LoginInv, LoginTypeOK, JobTyped, WordsInv
<1>4. AdminInv' /\ UserInv' /\ LockInv'
  BY <1>2, <1>1 DEF LoginInv, JobTyped, WordsInv, DoneInv, AdminInv, UserInv, LockInv
<1>5. ChannelInv' /\ DoneInv' /\ WasInv'
  BY <1>2, <1>1 DEF LoginInv, JobTyped, WordsInv, AdminInv, ChannelInv, DoneInv, WasInv
<1> QED BY <1>3, <1>4, <1>5 DEF LoginInv

LEMMA EndsUnsure ==
    ASSUME LoginInv, job \in Jobs, job.pc \in {"undo", "rights"}, job' = NoJob, doubt' = doubt \cup {"user"},
           UNCHANGED <<cam, chan, store, bidden>>
    PROVE  LoginInv'
<1>1. /\ job \in Jobs /\ job # NoJob /\ job.pc \in {"undo", "rights"} /\ job' = NoJob
      /\ job'.pc = "idle"
      /\ doubt' = doubt \cup {"user"} /\ UNCHANGED <<cam, chan, store, bidden>>
  BY LoginTypes, JobSteps DEF NoJob
<1>2. LoginTypeOK' /\ JobTyped' /\ WordsInv'
  BY <1>1 DEF LoginInv, LoginTypeOK, JobTyped, WordsInv
<1>3. AdminInv' /\ UserInv' /\ LockInv'
  BY <1>1 DEF LoginInv, JobTyped, WordsInv, DoneInv, AdminInv, UserInv, LockInv
<1>4. ChannelInv' /\ DoneInv' /\ WasInv'
  BY <1>1 DEF LoginInv, JobTyped, WordsInv, AdminInv, ChannelInv, DoneInv, WasInv
<1> QED BY <1>2, <1>3, <1>4 DEF LoginInv

LEMMA StoreFields ==
    ASSUME NEW s \in Stores
    PROVE  /\ LET t == [s EXCEPT !.user = "netwatch", !.pw = OwnPassword] IN
              t \in Stores /\ t.user = "netwatch" /\ t.pw = OwnPassword /\ t.slot = s.slot
           /\ \A p \in Passwords : LET t == [s EXCEPT !.user = "admin", !.pw = p] IN
              t \in Stores /\ t.user = "admin" /\ t.pw = p /\ t.slot = s.slot
           /\ \A p \in Passwords \cup {NoPassword} : LET t == [s EXCEPT !.slot = p] IN
              t \in Stores /\ t.user = s.user /\ t.pw = s.pw /\ t.slot = p
  BY DEF Stores

LEMMA LoginFields ==
    ASSUME LoginInv, job \in Jobs
    PROVE  /\ job.login \in Passwords /\ job.new \in Passwords \cup {NoPassword} /\ job.back \in BOOLEAN
           /\ job.kind = "password" => job.new \in Passwords
  BY LoginTypes, JobSteps DEF LoginInv, JobTyped, Jobs

LEMMA CreatedSaved ==
    ASSUME LoginInv, SaveAccount, job.kind = "create"
    PROVE  LoginInv'
<1>1. /\ job \in Jobs /\ job # NoJob /\ job.pc = "save" /\ job' = [job EXCEPT !.pc = "slot"]
      /\ job.kind = "create" /\ UNCHANGED <<cam, chan, bidden, doubt>>
      /\ store' \in Stores /\ store'.user = "netwatch" /\ store'.pw = OwnPassword /\ store'.slot = store.slot
  BY LoginTypes, StoreFields DEF SaveAccount, At, On, StoreUnchanged
<1>2. job' \in Jobs /\ job' # NoJob /\ job'.pc = "slot" /\ SameJob(job', job)
  <2>1. "slot" \in AllSteps
    BY DEF AllSteps
  <2>2. job \in Jobs /\ job' = [job EXCEPT !.pc = "slot"]
    BY <1>1
  <2> QED BY <2>1, <2>2, JobSteps
<1>3. LoginTypeOK' /\ JobTyped' /\ WordsInv'
  <2>1. LoginTypeOK'
    BY <1>2, <1>1 DEF LoginInv, LoginTypeOK, JobTyped, WordsInv
  <2>2. JobTyped'
    BY <1>2, <1>1 DEF LoginInv, LoginTypeOK, JobTyped, WordsInv
  <2>3. WordsInv'
    BY <1>2, <1>1 DEF LoginInv, LoginTypeOK, JobTyped, WordsInv
  <2> QED BY <2>1, <2>2, <2>3
<1>4. AdminInv' /\ UserInv' /\ LockInv'
  <2>1. AdminInv'
    BY <1>2, <1>1 DEF LoginInv, JobTyped, WordsInv, DoneInv, AdminInv, UserInv, LockInv
  <2>2. UserInv'
    BY <1>2, <1>1 DEF LoginInv, JobTyped, WordsInv, DoneInv, AdminInv, UserInv, LockInv
  <2>3. LockInv'
    BY <1>2, <1>1 DEF LoginInv, JobTyped, WordsInv, DoneInv, AdminInv, UserInv, LockInv
  <2> QED BY <2>1, <2>2, <2>3
<1>5. ChannelInv' /\ DoneInv' /\ WasInv'
  <2>1. ChannelInv'
    BY <1>2, <1>1 DEF LoginInv, JobTyped, WordsInv, AdminInv, ChannelInv, DoneInv, WasInv
  <2>2. DoneInv'
    BY <1>2, <1>1 DEF LoginInv, JobTyped, WordsInv, AdminInv, ChannelInv, DoneInv, WasInv
  <2>3. WasInv'
    BY <1>2, <1>1 DEF LoginInv, JobTyped, WordsInv, AdminInv, ChannelInv, DoneInv, WasInv
  <2> QED BY <2>1, <2>2, <2>3
<1> QED BY <1>3, <1>4, <1>5 DEF LoginInv

LEMMA RemovedSaved ==
    ASSUME LoginInv, SaveAccount, job.kind # "create"
    PROVE  LoginInv'
<1>1. /\ job \in Jobs /\ job # NoJob /\ job.pc = "save" /\ job' = [job EXCEPT !.pc = "slot"]
      /\ job.kind = "remove" /\ UNCHANGED <<cam, chan, bidden, doubt>>
      /\ job.login \in Passwords
      /\ store' = [store EXCEPT !.user = "admin", !.pw = job.login]
      /\ store' \in Stores /\ store'.user = "admin" /\ store'.pw = job.login /\ store'.slot = store.slot
  <2>1. job \in Jobs /\ job # NoJob /\ job.pc = "save" /\ job' = [job EXCEPT !.pc = "slot"]
    BY LoginTypes DEF SaveAccount, At, On, StoreUnchanged
  <2>2. job.kind = "remove" /\ UNCHANGED <<cam, chan, bidden, doubt>>
    BY <2>1, KindOf DEF SaveAccount, At, On, StoreUnchanged
  <2>3. job.login \in Passwords
    BY <2>1, LoginFields DEF SaveAccount, At, On, StoreUnchanged
  <2>4. store' = [store EXCEPT !.user = "admin", !.pw = job.login]
    BY <2>1, <2>2 DEF SaveAccount, At, On, StoreUnchanged
  <2>5. store' \in Stores /\ store'.user = "admin" /\ store'.pw = job.login /\ store'.slot = store.slot
    BY <2>3, <2>4, LoginTypes DEF Stores
  <2> QED BY <2>1, <2>2, <2>3, <2>4, <2>5
<1>2. job' \in Jobs /\ job' # NoJob /\ job'.pc = "slot" /\ SameJob(job', job)
  <2>1. "slot" \in AllSteps
    BY DEF AllSteps
  <2>2. job \in Jobs /\ job' = [job EXCEPT !.pc = "slot"]
    BY <1>1
  <2> QED BY <2>1, <2>2, JobSteps
<1>3. LoginTypeOK' /\ JobTyped' /\ WordsInv'
  <2>1. LoginTypeOK'
    BY <1>2, <1>1 DEF LoginInv, LoginTypeOK, JobTyped, WordsInv
  <2>2. JobTyped'
    BY <1>2, <1>1 DEF LoginInv, LoginTypeOK, JobTyped, WordsInv
  <2>3. WordsInv'
    BY <1>2, <1>1 DEF LoginInv, LoginTypeOK, JobTyped, WordsInv
  <2> QED BY <2>1, <2>2, <2>3
<1>4. AdminInv' /\ UserInv' /\ LockInv'
  <2>1. AdminInv'
    BY <1>2, <1>1 DEF LoginInv, JobTyped, WordsInv, DoneInv, AdminInv, UserInv, LockInv
  <2>2. UserInv'
    BY <1>2, <1>1 DEF LoginInv, JobTyped, WordsInv, DoneInv, AdminInv, UserInv, LockInv
  <2>3. LockInv'
    BY <1>2, <1>1 DEF LoginInv, JobTyped, WordsInv, DoneInv, AdminInv, UserInv, LockInv
  <2> QED BY <2>1, <2>2, <2>3
<1>5. ChannelInv' /\ DoneInv' /\ WasInv'
  <2>1. ChannelInv'
    BY <1>2, <1>1 DEF LoginInv, JobTyped, WordsInv, AdminInv, ChannelInv, DoneInv, WasInv
  <2>2. DoneInv'
    BY <1>2, <1>1 DEF LoginInv, JobTyped, WordsInv, AdminInv, ChannelInv, DoneInv, WasInv
  <2>3. WasInv'
    BY <1>2, <1>1 DEF LoginInv, JobTyped, WordsInv, AdminInv, ChannelInv, DoneInv, WasInv
  <2> QED BY <2>1, <2>2, <2>3
<1> QED BY <1>3, <1>4, <1>5 DEF LoginInv

LEMMA CreateEnds ==
    ASSUME LoginInv, SaveSlot, job.kind = "create"
    PROVE  LoginInv'
<1>1. /\ job \in Jobs /\ job # NoJob /\ job.pc = "slot" /\ job' = NoJob
      /\ job'.pc = "idle"
      /\ job.kind = "create" /\ UNCHANGED <<cam, chan, bidden, doubt>>
      /\ job.login \in Passwords
      /\ store' = [store EXCEPT !.slot = job.login]
      /\ store' \in Stores /\ store'.user = store.user /\ store'.pw = store.pw /\ store'.slot = job.login
  <2>1. job \in Jobs /\ job # NoJob /\ job.pc = "slot" /\ job' = NoJob
    BY LoginTypes DEF SaveSlot, KeptAdmin, EndsAs, At, On, StoreUnchanged
  <2>2. job'.pc = "idle"
    BY <2>1, JobSteps DEF SaveSlot, KeptAdmin, EndsAs, At, On, StoreUnchanged
  <2>3. job.kind = "create" /\ UNCHANGED <<cam, chan, bidden, doubt>>
    BY <2>1, KindOf DEF SaveSlot, KeptAdmin, EndsAs, At, On, StoreUnchanged
  <2>4. job.login \in Passwords
    BY <2>1, LoginFields DEF SaveSlot, KeptAdmin, EndsAs, At, On, StoreUnchanged
  <2>5. store' = [store EXCEPT !.slot = job.login]
    BY <2>3 DEF SaveSlot, KeptAdmin, EndsAs, At, On, StoreUnchanged
  <2>6. store' \in Stores /\ store'.user = store.user /\ store'.pw = store.pw /\ store'.slot = job.login
    BY <2>4, <2>5, LoginTypes DEF Stores
  <2> QED BY <2>1, <2>2, <2>3, <2>4, <2>5, <2>6
<1>2. LoginTypeOK' /\ JobTyped' /\ WordsInv'
  <2>1. LoginTypeOK'
    BY <1>1 DEF LoginInv, LoginTypeOK, JobTyped, WordsInv
  <2>2. JobTyped'
    BY <1>1 DEF LoginInv, LoginTypeOK, JobTyped, WordsInv
  <2>3. WordsInv'
    BY <1>1 DEF LoginInv, LoginTypeOK, JobTyped, WordsInv
  <2> QED BY <2>1, <2>2, <2>3
<1>3. AdminInv' /\ UserInv' /\ LockInv'
  <2>1. AdminInv'
    BY <1>1 DEF LoginInv, JobTyped, WordsInv, DoneInv, AdminInv, UserInv, LockInv
  <2>2. UserInv'
    BY <1>1 DEF LoginInv, JobTyped, WordsInv, DoneInv, AdminInv, UserInv, LockInv
  <2>3. LockInv'
    BY <1>1 DEF LoginInv, JobTyped, WordsInv, DoneInv, AdminInv, UserInv, LockInv
  <2> QED BY <2>1, <2>2, <2>3
<1>4. ChannelInv' /\ DoneInv' /\ WasInv'
  <2>1. ChannelInv'
    BY <1>1 DEF LoginInv, JobTyped, WordsInv, AdminInv, ChannelInv, DoneInv, WasInv
  <2>2. DoneInv'
    BY <1>1 DEF LoginInv, JobTyped, WordsInv, AdminInv, ChannelInv, DoneInv, WasInv
  <2>3. WasInv'
    BY <1>1 DEF LoginInv, JobTyped, WordsInv, AdminInv, ChannelInv, DoneInv, WasInv
  <2> QED BY <2>1, <2>2, <2>3
<1> QED BY <1>2, <1>3, <1>4 DEF LoginInv

LEMMA RemoveEnds ==
    ASSUME LoginInv, SaveSlot, job.kind # "create"
    PROVE  LoginInv'
<1>1. /\ job \in Jobs /\ job # NoJob /\ job.pc = "slot" /\ job' = NoJob
      /\ job'.pc = "idle"
      /\ job.kind = "remove" /\ UNCHANGED <<cam, chan, bidden, doubt>>
      /\ job.login \in Passwords
      /\ store' = [store EXCEPT !.slot = NoPassword]
      /\ store' \in Stores /\ store'.user = store.user /\ store'.pw = store.pw /\ store'.slot = NoPassword
  <2>1. job \in Jobs /\ job # NoJob /\ job.pc = "slot" /\ job' = NoJob
    BY LoginTypes DEF SaveSlot, KeptAdmin, EndsAs, At, On, StoreUnchanged
  <2>2. job'.pc = "idle"
    BY <2>1, JobSteps DEF SaveSlot, KeptAdmin, EndsAs, At, On, StoreUnchanged
  <2>3. job.kind = "remove" /\ UNCHANGED <<cam, chan, bidden, doubt>>
    BY <2>1, KindOf DEF SaveSlot, KeptAdmin, EndsAs, At, On, StoreUnchanged
  <2>4. job.login \in Passwords
    BY <2>1, LoginFields DEF SaveSlot, KeptAdmin, EndsAs, At, On, StoreUnchanged
  <2>5. store' = [store EXCEPT !.slot = NoPassword]
    BY <2>3 DEF SaveSlot, KeptAdmin, EndsAs, At, On, StoreUnchanged
  <2>6. store' \in Stores /\ store'.user = store.user /\ store'.pw = store.pw /\ store'.slot = NoPassword
    BY <2>4, <2>5, LoginTypes DEF Stores
  <2> QED BY <2>1, <2>2, <2>3, <2>4, <2>5, <2>6
<1>2. LoginTypeOK' /\ JobTyped' /\ WordsInv'
  <2>1. LoginTypeOK'
    BY <1>1 DEF LoginInv, LoginTypeOK, JobTyped, WordsInv
  <2>2. JobTyped'
    BY <1>1 DEF LoginInv, LoginTypeOK, JobTyped, WordsInv
  <2>3. WordsInv'
    BY <1>1 DEF LoginInv, LoginTypeOK, JobTyped, WordsInv
  <2> QED BY <2>1, <2>2, <2>3
<1>3. AdminInv' /\ UserInv' /\ LockInv'
  <2>1. AdminInv'
    BY <1>1 DEF LoginInv, JobTyped, WordsInv, DoneInv, AdminInv, UserInv, LockInv
  <2>2. UserInv'
    BY <1>1 DEF LoginInv, JobTyped, WordsInv, DoneInv, AdminInv, UserInv, LockInv
  <2>3. LockInv'
    BY <1>1 DEF LoginInv, JobTyped, WordsInv, DoneInv, AdminInv, UserInv, LockInv
  <2> QED BY <2>1, <2>2, <2>3
<1>4. ChannelInv' /\ DoneInv' /\ WasInv'
  <2>1. ChannelInv'
    BY <1>1 DEF LoginInv, JobTyped, WordsInv, AdminInv, ChannelInv, DoneInv, WasInv
  <2>2. DoneInv'
    BY <1>1 DEF LoginInv, JobTyped, WordsInv, AdminInv, ChannelInv, DoneInv, WasInv
  <2>3. WasInv'
    BY <1>1 DEF LoginInv, JobTyped, WordsInv, AdminInv, ChannelInv, DoneInv, WasInv
  <2> QED BY <2>1, <2>2, <2>3
<1> QED BY <1>2, <1>3, <1>4 DEF LoginInv

\* Starting a job.
JobKinds == {"create", "remove", "password"}
NewPasswords == Passwords \cup {NoPassword}

LEMMA JobStarts ==
    ASSUME LoginInv, AdminLogin # NoPassword, NEW kind \in JobKinds, NEW new \in NewPasswords
    PROVE  LET q == NewJob(kind, new) IN
           /\ q \in Jobs /\ q # NoJob /\ q.kind = kind /\ q.pc = "list" /\ q.login = AdminLogin /\ q.new = new
           /\ q.was = <<cam.admin, cam.net, store>> /\ q.reached = TRUE /\ q.bad = FALSE /\ q.met = FALSE /\ q.words = "ok"
<1> DEFINE q == NewJob(kind, new)
<1>1. AdminLogin \in Passwords
  BY LoginTypes DEF LoginInv, JobTyped, Stores
<1>2. <<cam.admin, cam.net, store>> \in Passwords \X BOOLEAN \X Stores
  BY LoginTypes
<1>3. q \in Jobs
  BY <1>1, <1>2 DEF NewJob, Jobs, JobKinds, NewPasswords
<1>4. /\ q.kind = kind /\ q.pc = "list" /\ q.login = AdminLogin /\ q.new = new
      /\ q.was = <<cam.admin, cam.net, store>> /\ q.reached = TRUE /\ q.bad = FALSE /\ q.met = FALSE /\ q.words = "ok"
  BY DEF NewJob
<1>5. q # NoJob
  BY <1>4 DEF NoJob
<1> QED BY <1>3, <1>4, <1>5

LEMMA NotReached ==
    ASSUME NEW r \in Jobs
    PROVE  LET q == [r EXCEPT !.reached = FALSE] IN
           /\ q \in Jobs /\ q.kind = r.kind /\ q.pc = r.pc /\ q.login = r.login /\ q.new = r.new
           /\ q.was = r.was /\ q.reached = FALSE /\ q.bad = r.bad /\ q.met = r.met /\ q.words = r.words
  BY DEF Jobs

LEMMA AccountStarts ==
    ASSUME LoginInv, NEW kind \in {"create", "remove"}, StartAccount(kind)
    PROVE  LoginInv'
<1>1. /\ job = NoJob /\ AdminLogin # NoPassword /\ job' = NewJob(kind, NoPassword)
      /\ UNCHANGED <<cam, chan, store, bidden, doubt>>
  BY DEF StartAccount, Idle
<1>2. /\ job' \in Jobs /\ job' # NoJob /\ job'.kind = kind /\ job'.pc = "list" /\ job'.login = AdminLogin
      /\ job'.was = <<cam.admin, cam.net, store>> /\ job'.reached = TRUE /\ job'.bad = FALSE /\ job'.words = "ok"
  <2>1. kind \in JobKinds /\ NoPassword \in NewPasswords
    BY DEF JobKinds, NewPasswords
  <2>2. LET q == NewJob(kind, NoPassword) IN
        /\ q \in Jobs /\ q # NoJob /\ q.kind = kind /\ q.pc = "list" /\ q.login = AdminLogin /\ q.new = NoPassword
        /\ q.was = <<cam.admin, cam.net, store>> /\ q.reached = TRUE /\ q.bad = FALSE /\ q.met = FALSE /\ q.words = "ok"
    BY <2>1, <1>1, JobStarts, ZenonT(60)
  <2> QED BY <2>2, <1>1
<1>3. job.pc = "idle" /\ job = NoJob
  BY <1>1 DEF NoJob
<1>4. LoginTypeOK' /\ JobTyped' /\ WordsInv'
  <2>1. LoginTypeOK'
    BY <1>3, <1>1, <1>2 DEF LoginInv, LoginTypeOK, JobTyped, WordsInv
  <2>2. JobTyped'
    BY <1>3, <1>1, <1>2 DEF LoginInv, LoginTypeOK, JobTyped, WordsInv
  <2>3. WordsInv'
    BY <1>3, <1>1, <1>2 DEF LoginInv, LoginTypeOK, JobTyped, WordsInv
  <2> QED BY <2>1, <2>2, <2>3
<1>5. AdminInv' /\ UserInv' /\ LockInv'
  <2>1. AdminInv'
    BY <1>3, <1>1, <1>2 DEF LoginInv, JobTyped, WordsInv, DoneInv, AdminInv, UserInv, LockInv
  <2>2. UserInv'
    BY <1>3, <1>1, <1>2 DEF LoginInv, JobTyped, WordsInv, DoneInv, AdminInv, UserInv, LockInv
  <2>3. LockInv'
    BY <1>3, <1>1, <1>2 DEF LoginInv, JobTyped, WordsInv, DoneInv, AdminInv, UserInv, LockInv
  <2> QED BY <2>1, <2>2, <2>3
<1>6. ChannelInv' /\ DoneInv' /\ WasInv'
  <2>1. ChannelInv'
    BY <1>3, <1>1, <1>2 DEF LoginInv, JobTyped, WordsInv, AdminInv, ChannelInv, DoneInv, WasInv
  <2>2. DoneInv'
    BY <1>3, <1>1, <1>2 DEF LoginInv, JobTyped, WordsInv, AdminInv, ChannelInv, DoneInv, WasInv
  <2>3. WasInv'
    BY <1>3, <1>1, <1>2 DEF LoginInv, JobTyped, WordsInv, AdminInv, ChannelInv, DoneInv, WasInv
  <2> QED BY <2>1, <2>2, <2>3
<1> QED BY <1>4, <1>5, <1>6 DEF LoginInv

LEMMA PasswordStarts ==
    ASSUME LoginInv, NEW new \in Passwords, StartPassword(new)
    PROVE  LoginInv'
<1>1. /\ job = NoJob /\ AdminLogin # NoPassword /\ UNCHANGED <<cam, chan, store, bidden>>
      /\ \/ job' = NewJob("password", new) /\ doubt' = doubt
         \/ job' = [NewJob("password", new) EXCEPT !.reached = FALSE] /\ doubt' = doubt \cup {"channel"}
  BY DEF StartPassword, Idle, Doubts
<1> DEFINE q == NewJob("password", new)
<1>2. /\ q \in Jobs /\ q # NoJob /\ q.kind = "password" /\ q.pc = "list" /\ q.login = AdminLogin /\ q.new = new
      /\ q.was = <<cam.admin, cam.net, store>> /\ q.reached = TRUE /\ q.bad = FALSE /\ q.met = FALSE /\ q.words = "ok"
  <2>1. AdminLogin \in Passwords
    BY <1>1, LoginTypes DEF LoginInv, JobTyped, Stores
  <2>2. <<cam.admin, cam.net, store>> \in Passwords \X BOOLEAN \X Stores
    BY LoginTypes
  <2>3. q \in Jobs
    BY <2>1, <2>2 DEF NewJob, Jobs
  <2>4. /\ q.kind = "password" /\ q.pc = "list" /\ q.login = AdminLogin /\ q.new = new
        /\ q.was = <<cam.admin, cam.net, store>> /\ q.reached = TRUE /\ q.bad = FALSE /\ q.met = FALSE /\ q.words = "ok"
    BY DEF NewJob
  <2>5. q # NoJob
    BY <2>4 DEF NoJob
  <2> QED BY <2>3, <2>4, <2>5
<1> HIDE DEF q
<1>3. LET r == [q EXCEPT !.reached = FALSE] IN
      /\ r \in Jobs /\ r.kind = q.kind /\ r.pc = q.pc /\ r.login = q.login /\ r.new = q.new
      /\ r.was = q.was /\ r.reached = FALSE /\ r.bad = q.bad /\ r.met = q.met /\ r.words = q.words
  BY <1>2, NotReached
<1>4. /\ job' \in Jobs /\ job' # NoJob /\ job'.kind = "password" /\ job'.pc = "list" /\ job'.login = AdminLogin /\ job'.new = new
      /\ job'.was = <<cam.admin, cam.net, store>> /\ job'.bad = FALSE /\ job'.words = "ok"
      /\ \/ job'.reached = TRUE /\ doubt' = doubt
         \/ job'.reached = FALSE /\ doubt' = doubt \cup {"channel"}
  <2>1. (job' = q /\ doubt' = doubt) \/ (job' = [q EXCEPT !.reached = FALSE] /\ doubt' = doubt \cup {"channel"})
    BY <1>1 DEF q
  <2>2. NoJob.pc = "idle"
    BY DEF NoJob
  <2> QED BY <2>1, <2>2, <1>2, <1>3
<1>5. job.pc = "idle" /\ job = NoJob
  BY <1>1 DEF NoJob
<1>6. LoginTypeOK' /\ JobTyped' /\ WordsInv'
  <2>1. LoginTypeOK'
    BY <1>5, <1>1, <1>4 DEF LoginInv, LoginTypeOK, JobTyped, WordsInv
  <2>2. JobTyped'
    BY <1>5, <1>1, <1>4 DEF LoginInv, LoginTypeOK, JobTyped, WordsInv
  <2>3. WordsInv'
    BY <1>5, <1>1, <1>4 DEF LoginInv, LoginTypeOK, JobTyped, WordsInv
  <2> QED BY <2>1, <2>2, <2>3
<1>7. AdminInv' /\ UserInv' /\ LockInv'
  <2>1. AdminInv'
    BY <1>5, <1>1, <1>4 DEF LoginInv, JobTyped, WordsInv, DoneInv, AdminInv, UserInv, LockInv
  <2>2. UserInv'
    BY <1>5, <1>1, <1>4 DEF LoginInv, JobTyped, WordsInv, DoneInv, AdminInv, UserInv, LockInv
  <2>3. LockInv'
    BY <1>5, <1>1, <1>4 DEF LoginInv, JobTyped, WordsInv, DoneInv, AdminInv, UserInv, LockInv
  <2> QED BY <2>1, <2>2, <2>3
<1>8. ChannelInv' /\ DoneInv' /\ WasInv'
  <2>1. ChannelInv'
    BY <1>5, <1>1, <1>4 DEF LoginInv, JobTyped, WordsInv, AdminInv, ChannelInv, DoneInv, WasInv
  <2>2. DoneInv'
    BY <1>5, <1>1, <1>4 DEF LoginInv, JobTyped, WordsInv, AdminInv, ChannelInv, DoneInv, WasInv
  <2>3. WasInv'
    BY <1>5, <1>1, <1>4 DEF LoginInv, JobTyped, WordsInv, AdminInv, ChannelInv, DoneInv, WasInv
  <2> QED BY <2>1, <2>2, <2>3
<1> QED BY <1>6, <1>7, <1>8 DEF LoginInv

LEMMA LockPaused ==
    ASSUME LoginInv, PauseLock
    PROVE  LoginInv'
<1>1. /\ job \in Jobs /\ job # NoJob /\ job.pc = "pause" /\ job' = [job EXCEPT !.pc = "write", !.back = cam.lock]
      /\ cam' \in Cams /\ cam'.lock = FALSE /\ cam'.admin = cam.admin /\ cam'.net = cam.net
      /\ UNCHANGED <<chan, store, bidden, doubt>> /\ cam.lock \in BOOLEAN
  BY LoginTypes, CamFields DEF PauseLock, At, StoreUnchanged
<1>2. /\ job' \in Jobs /\ job'.pc = "write" /\ job'.back = cam.lock
      /\ SameKind(job', job) /\ job'.bad = job.bad /\ job'.words = job.words
  BY <1>1, JobPauses, ZenonT(60)
<1>3. job' # NoJob /\ job.kind = "password"
  BY <1>1, <1>2, JobSteps, KindOf
<1>4. LoginTypeOK' /\ JobTyped' /\ WordsInv'
  <2>1. LoginTypeOK'
    BY <1>3, <1>1, <1>2 DEF LoginInv, LoginTypeOK, JobTyped, WordsInv
  <2>2. JobTyped'
    BY <1>3, <1>1, <1>2 DEF LoginInv, LoginTypeOK, JobTyped, WordsInv
  <2>3. WordsInv'
    BY <1>3, <1>1, <1>2 DEF LoginInv, LoginTypeOK, JobTyped, WordsInv
  <2> QED BY <2>1, <2>2, <2>3
<1>5. AdminInv' /\ UserInv' /\ LockInv'
  <2>1. AdminInv'
    BY <1>3, <1>1, <1>2 DEF LoginInv, JobTyped, WordsInv, DoneInv, AdminInv, UserInv, LockInv
  <2>2. UserInv'
    BY <1>3, <1>1, <1>2 DEF LoginInv, JobTyped, WordsInv, DoneInv, AdminInv, UserInv, LockInv
  <2>3. LockInv'
    BY <1>3, <1>1, <1>2 DEF LoginInv, JobTyped, WordsInv, DoneInv, AdminInv, UserInv, LockInv
  <2> QED BY <2>1, <2>2, <2>3
<1>6. ChannelInv' /\ DoneInv' /\ WasInv'
  <2>1. ChannelInv'
    BY <1>3, <1>1, <1>2 DEF LoginInv, JobTyped, WordsInv, AdminInv, ChannelInv, DoneInv, WasInv
  <2>2. DoneInv'
    BY <1>3, <1>1, <1>2 DEF LoginInv, JobTyped, WordsInv, AdminInv, ChannelInv, DoneInv, WasInv
  <2>3. WasInv'
    BY <1>3, <1>1, <1>2 DEF LoginInv, JobTyped, WordsInv, AdminInv, ChannelInv, DoneInv, WasInv
  <2> QED BY <2>1, <2>2, <2>3
<1> QED BY <1>4, <1>5, <1>6 DEF LoginInv

LEMMA LockLeftAlone ==
    ASSUME LoginInv, job \in Jobs, job.pc = "pause", On("write"), UNCHANGED <<cam, chan, store, bidden, doubt>>
    PROVE  LoginInv'
<1>1. /\ job \in Jobs /\ job # NoJob /\ job.pc = "pause" /\ job' = [job EXCEPT !.pc = "write"]
      /\ UNCHANGED <<cam, chan, store, bidden, doubt>>
  BY LoginTypes DEF On
<1>2. job' \in Jobs /\ job' # NoJob /\ job'.pc = "write" /\ SameJob(job', job)
  <2>1. "write" \in AllSteps
    BY DEF AllSteps
  <2>2. job \in Jobs /\ job' = [job EXCEPT !.pc = "write"]
    BY <1>1
  <2> QED BY <2>1, <2>2, JobSteps
<1>3. job.kind = "password"
  BY <1>1, KindOf, LoginTypes
<1>4. LoginTypeOK' /\ JobTyped' /\ WordsInv'
  BY <1>3, <1>2, <1>1 DEF LoginInv, LoginTypeOK, JobTyped, WordsInv
<1>5. AdminInv' /\ UserInv' /\ LockInv'
  BY <1>3, <1>2, <1>1 DEF LoginInv, JobTyped, WordsInv, DoneInv, AdminInv, UserInv, LockInv
<1>6. ChannelInv' /\ DoneInv' /\ WasInv'
  BY <1>3, <1>2, <1>1 DEF LoginInv, JobTyped, WordsInv, AdminInv, ChannelInv, DoneInv, WasInv
<1> QED BY <1>4, <1>5, <1>6 DEF LoginInv

LEMMA LockUnknown ==
    ASSUME LoginInv, job \in Jobs, job.pc = "pause", job' = NoJob, NEW b \in BOOLEAN, cam' = [cam EXCEPT !.lock = b],
           doubt' = doubt \cup {"lock"}, UNCHANGED <<chan, store, bidden>>
    PROVE  LoginInv'
<1>1. /\ job \in Jobs /\ job # NoJob /\ job.pc = "pause" /\ job' = NoJob
      /\ job'.pc = "idle"
      /\ cam' \in Cams /\ cam'.admin = cam.admin /\ cam'.net = cam.net
      /\ doubt' = doubt \cup {"lock"} /\ UNCHANGED <<chan, store, bidden>>
  BY LoginTypes, JobSteps, CamFields DEF NoJob
<1>2. job.kind = "password"
  BY <1>1, KindOf, LoginTypes
<1>3. LoginTypeOK' /\ JobTyped' /\ WordsInv'
  BY <1>2, <1>1, <1>1 DEF LoginInv, LoginTypeOK, JobTyped, WordsInv
<1>4. AdminInv' /\ UserInv' /\ LockInv'
  BY <1>2, <1>1, <1>1 DEF LoginInv, JobTyped, WordsInv, DoneInv, AdminInv, UserInv, LockInv
<1>5. ChannelInv' /\ DoneInv' /\ WasInv'
  BY <1>2, <1>1, <1>1 DEF LoginInv, JobTyped, WordsInv, AdminInv, ChannelInv, DoneInv, WasInv
<1> QED BY <1>3, <1>4, <1>5 DEF LoginInv

LEMMA PasswordTaken ==
    ASSUME LoginInv, job \in Jobs, job.pc = "write", On("test"), cam' = [cam EXCEPT !.admin = job.new], UNCHANGED <<chan, store, bidden, doubt>>
    PROVE  LoginInv'
<1>1. /\ job \in Jobs /\ job # NoJob /\ job.pc = "write" /\ job' = [job EXCEPT !.pc = "test"]
      /\ job.new \in Passwords
      /\ cam' \in Cams /\ cam'.admin = job.new /\ cam'.net = cam.net /\ cam'.lock = cam.lock
      /\ UNCHANGED <<chan, store, bidden, doubt>>
  <2>1. job \in Jobs /\ job # NoJob /\ job.pc = "write" /\ job' = [job EXCEPT !.pc = "test"]
    BY LoginTypes DEF On
  <2>2. job.new \in Passwords
    BY <2>1, LoginFields, KindOf DEF On
  <2>3. cam' \in Cams /\ cam'.admin = job.new /\ cam'.net = cam.net /\ cam'.lock = cam.lock
    BY <2>1, <2>2, LoginTypes, CamFields DEF On
  <2>4. UNCHANGED <<chan, store, bidden, doubt>>
    BY LoginTypes DEF On
  <2> QED BY <2>1, <2>2, <2>3, <2>4
<1>2. job' \in Jobs /\ job' # NoJob /\ job'.pc = "test" /\ SameJob(job', job)
  <2>1. "test" \in AllSteps
    BY DEF AllSteps
  <2>2. job \in Jobs /\ job' = [job EXCEPT !.pc = "test"]
    BY <1>1
  <2> QED BY <2>1, <2>2, JobSteps
<1>3. job.kind = "password"
  BY <1>1, KindOf, LoginTypes
<1>4. LoginTypeOK' /\ JobTyped' /\ WordsInv'
  <2>1. LoginTypeOK'
    BY <1>3, <1>2, <1>1 DEF LoginInv, LoginTypeOK, JobTyped, WordsInv
  <2>2. JobTyped'
    BY <1>3, <1>2, <1>1 DEF LoginInv, LoginTypeOK, JobTyped, WordsInv
  <2>3. WordsInv'
    BY <1>3, <1>2, <1>1 DEF LoginInv, LoginTypeOK, JobTyped, WordsInv
  <2> QED BY <2>1, <2>2, <2>3
<1>5. AdminInv' /\ UserInv' /\ LockInv'
  <2>1. AdminInv'
    BY <1>3, <1>2, <1>1 DEF LoginInv, JobTyped, WordsInv, DoneInv, AdminInv, UserInv, LockInv
  <2>2. UserInv'
    BY <1>3, <1>2, <1>1 DEF LoginInv, JobTyped, WordsInv, DoneInv, AdminInv, UserInv, LockInv
  <2>3. LockInv'
    BY <1>3, <1>2, <1>1 DEF LoginInv, JobTyped, WordsInv, DoneInv, AdminInv, UserInv, LockInv
  <2> QED BY <2>1, <2>2, <2>3
<1>6. ChannelInv' /\ DoneInv' /\ WasInv'
  <2>1. ChannelInv'
    BY <1>3, <1>2, <1>1 DEF LoginInv, JobTyped, WordsInv, AdminInv, ChannelInv, DoneInv, WasInv
  <2>2. DoneInv'
    BY <1>3, <1>2, <1>1 DEF LoginInv, JobTyped, WordsInv, AdminInv, ChannelInv, DoneInv, WasInv
  <2>3. WasInv'
    BY <1>3, <1>2, <1>1 DEF LoginInv, JobTyped, WordsInv, AdminInv, ChannelInv, DoneInv, WasInv
  <2> QED BY <2>1, <2>2, <2>3
<1> QED BY <1>4, <1>5, <1>6 DEF LoginInv

LEMMA PasswordSaidTaken ==
    ASSUME LoginInv, job \in Jobs, job.pc = "write", On("test"), UNCHANGED <<cam, chan, store, bidden, doubt>>
    PROVE  LoginInv'
<1>1. /\ job \in Jobs /\ job # NoJob /\ job.pc = "write" /\ job' = [job EXCEPT !.pc = "test"]
      /\ UNCHANGED <<cam, chan, store, bidden, doubt>>
  BY LoginTypes DEF On
<1>2. job' \in Jobs /\ job' # NoJob /\ job'.pc = "test" /\ SameJob(job', job)
  <2>1. "test" \in AllSteps
    BY DEF AllSteps
  <2>2. job \in Jobs /\ job' = [job EXCEPT !.pc = "test"]
    BY <1>1
  <2> QED BY <2>1, <2>2, JobSteps
<1>3. job.kind = "password"
  BY <1>1, KindOf, LoginTypes
<1>4. LoginTypeOK' /\ JobTyped' /\ WordsInv'
  BY <1>3, <1>2, <1>1 DEF LoginInv, LoginTypeOK, JobTyped, WordsInv
<1>5. AdminInv' /\ UserInv' /\ LockInv'
  BY <1>3, <1>2, <1>1 DEF LoginInv, JobTyped, WordsInv, DoneInv, AdminInv, UserInv, LockInv
<1>6. ChannelInv' /\ DoneInv' /\ WasInv'
  BY <1>3, <1>2, <1>1 DEF LoginInv, JobTyped, WordsInv, AdminInv, ChannelInv, DoneInv, WasInv
<1> QED BY <1>4, <1>5, <1>6 DEF LoginInv

LEMMA NothingToRestore ==
    ASSUME LoginInv, job \in Jobs, job.pc = "write" \/ (job.pc = "test" /\ cam.admin # job.new),
           job' = [job EXCEPT !.pc = "restore", !.words = "nothing"], UNCHANGED <<cam, chan, store, bidden, doubt>>
    PROVE  LoginInv'
<1>1. /\ job \in Jobs /\ job # NoJob /\ (job.pc = "write" \/ (job.pc = "test" /\ cam.admin # job.new)) /\ job' = [job EXCEPT !.pc = "restore", !.words = "nothing"]
      /\ UNCHANGED <<cam, chan, store, bidden, doubt>>
  BY LoginTypes DEF NoJob
<1>2. /\ job' \in Jobs /\ job'.pc = "restore" /\ job'.words = "nothing"
      /\ SameKind(job', job) /\ job'.back = job.back /\ job'.bad = job.bad
  <2>1. job' \in Jobs
    BY <1>1 DEF Jobs
  <2>2. job'.pc = "restore" /\ job'.words = "nothing" /\ job'.back = job.back /\ job'.bad = job.bad
    BY <1>1 DEF Jobs
  <2>3. SameKind(job', job)
    BY <1>1 DEF Jobs
  <2> QED BY <2>1, <2>2, <2>3
<1>3. /\ job' \in Jobs /\ job' # NoJob /\ job'.pc = "restore" /\ job'.words = "nothing"
      /\ SameKind(job', job) /\ job'.back = job.back /\ job'.bad = job.bad
  BY <1>2, JobSteps
<1>4. job.kind = "password"
  BY <1>1, KindOf, LoginTypes
<1>5. LoginTypeOK' /\ JobTyped' /\ WordsInv'
  <2>1. LoginTypeOK'
    BY <1>4, <1>3, <1>1 DEF LoginInv, LoginTypeOK, JobTyped, WordsInv
  <2>2. JobTyped'
    BY <1>4, <1>3, <1>1 DEF LoginInv, LoginTypeOK, JobTyped, WordsInv
  <2>3. WordsInv'
    BY <1>4, <1>3, <1>1 DEF LoginInv, LoginTypeOK, JobTyped, WordsInv
  <2> QED BY <2>1, <2>2, <2>3
<1>6. AdminInv' /\ UserInv' /\ LockInv'
  <2>1. AdminInv'
    BY <1>4, <1>3, <1>1, ZenonT(60) DEF LoginInv, JobTyped, WordsInv, DoneInv, AdminInv, UserInv, LockInv
  <2>2. UserInv'
    BY <1>4, <1>3, <1>1 DEF LoginInv, JobTyped, WordsInv, DoneInv, AdminInv, UserInv, LockInv
  <2>3. LockInv'
    BY <1>4, <1>3, <1>1 DEF LoginInv, JobTyped, WordsInv, DoneInv, AdminInv, UserInv, LockInv
  <2> QED BY <2>1, <2>2, <2>3
<1>7. ChannelInv' /\ DoneInv' /\ WasInv'
  <2>1. ChannelInv'
    BY <1>4, <1>3, <1>1 DEF LoginInv, JobTyped, WordsInv, AdminInv, ChannelInv, DoneInv, WasInv
  <2>2. DoneInv'
    BY <1>4, <1>3, <1>1 DEF LoginInv, JobTyped, WordsInv, AdminInv, ChannelInv, DoneInv, WasInv
  <2>3. WasInv'
    BY <1>4, <1>3, <1>1, ZenonT(60) DEF LoginInv, JobTyped, WordsInv, AdminInv, ChannelInv, DoneInv, WasInv
  <2> QED BY <2>1, <2>2, <2>3
<1> QED BY <1>5, <1>6, <1>7 DEF LoginInv

LEMMA PasswordInDoubt ==
    ASSUME LoginInv, job \in Jobs, job.pc \in {"write", "test"}, job' = NoJob, cam' \in Cams, cam'.net = cam.net,
           doubt' = doubt \cup {"password", "lock"}, UNCHANGED <<chan, store, bidden>>
    PROVE  LoginInv'
<1>1. /\ job \in Jobs /\ job # NoJob /\ job.pc \in {"write", "test"} /\ job' = NoJob
      /\ job'.pc = "idle"
      /\ cam' \in Cams /\ cam'.net = cam.net /\ doubt' = doubt \cup {"password", "lock"} /\ UNCHANGED <<chan, store, bidden>>
  BY LoginTypes, JobSteps DEF NoJob
<1>2. job.kind = "password"
  BY <1>1, KindOf, LoginTypes
<1>3. LoginTypeOK' /\ JobTyped' /\ WordsInv'
  BY <1>2, <1>1, <1>1 DEF LoginInv, LoginTypeOK, JobTyped, WordsInv
<1>4. AdminInv' /\ UserInv' /\ LockInv'
  BY <1>2, <1>1, <1>1 DEF LoginInv, JobTyped, WordsInv, DoneInv, AdminInv, UserInv, LockInv
<1>5. ChannelInv' /\ DoneInv' /\ WasInv'
  BY <1>2, <1>1, <1>1 DEF LoginInv, JobTyped, WordsInv, AdminInv, ChannelInv, DoneInv, WasInv
<1> QED BY <1>3, <1>4, <1>5 DEF LoginInv

LEMMA PasswordDenied ==
    ASSUME LoginInv, job \in Jobs, job.pc = "write", job' = NoJob,
           doubt' = doubt \cup {"lock"}, UNCHANGED <<cam, chan, store, bidden>>
    PROVE  LoginInv'
<1>1. /\ job \in Jobs /\ job # NoJob /\ job.pc = "write" /\ job' = NoJob
      /\ job'.pc = "idle"
      /\ doubt' = doubt \cup {"lock"} /\ UNCHANGED <<cam, chan, store, bidden>>
  BY LoginTypes, JobSteps DEF NoJob
<1>2. job.kind = "password"
  BY <1>1, KindOf, LoginTypes
<1>3. LoginTypeOK' /\ JobTyped' /\ WordsInv'
  BY <1>2, <1>1, <1>1 DEF LoginInv, LoginTypeOK, JobTyped, WordsInv
<1>4. AdminInv' /\ UserInv' /\ LockInv'
  BY <1>2, <1>1, <1>1 DEF LoginInv, JobTyped, WordsInv, DoneInv, AdminInv, UserInv, LockInv
<1>5. ChannelInv' /\ DoneInv' /\ WasInv'
  BY <1>2, <1>1, <1>1 DEF LoginInv, JobTyped, WordsInv, AdminInv, ChannelInv, DoneInv, WasInv
<1> QED BY <1>3, <1>4, <1>5 DEF LoginInv

LEMMA PasswordProved ==
    ASSUME LoginInv, job \in Jobs, job.pc = "test", cam.admin = job.new, On("save"), UNCHANGED <<cam, chan, store, bidden, doubt>>
    PROVE  LoginInv'
<1>1. /\ job \in Jobs /\ job # NoJob /\ job.pc = "test" /\ job' = [job EXCEPT !.pc = "save"]
      /\ cam.admin = job.new
      /\ UNCHANGED <<cam, chan, store, bidden, doubt>>
  BY LoginTypes DEF On
<1>2. job' \in Jobs /\ job' # NoJob /\ job'.pc = "save" /\ SameJob(job', job)
  <2>1. "save" \in AllSteps
    BY DEF AllSteps
  <2>2. job \in Jobs /\ job' = [job EXCEPT !.pc = "save"]
    BY <1>1
  <2> QED BY <2>1, <2>2, JobSteps
<1>3. job.kind = "password"
  BY <1>1, KindOf, LoginTypes
<1>4. LoginTypeOK' /\ JobTyped' /\ WordsInv'
  BY <1>3, <1>2, <1>1 DEF LoginInv, LoginTypeOK, JobTyped, WordsInv
<1>5. AdminInv' /\ UserInv' /\ LockInv'
  BY <1>3, <1>2, <1>1 DEF LoginInv, JobTyped, WordsInv, DoneInv, AdminInv, UserInv, LockInv
<1>6. ChannelInv' /\ DoneInv' /\ WasInv'
  BY <1>3, <1>2, <1>1 DEF LoginInv, JobTyped, WordsInv, AdminInv, ChannelInv, DoneInv, WasInv
<1> QED BY <1>4, <1>5, <1>6 DEF LoginInv

LEMMA SlotSavedReached ==
    ASSUME LoginInv, SavePassword, job.reached = TRUE, store.slot # NoPassword
    PROVE  LoginInv'
<1>1. /\ job \in Jobs /\ job # NoJob /\ job.pc = "save" /\ job' = [job EXCEPT !.pc = "channel"]
      /\ job.kind = "password" /\ job.reached = TRUE /\ store.slot # NoPassword /\ UNCHANGED <<cam, chan, bidden, doubt>>
      /\ job.new \in Passwords /\ job.new # NoPassword
      /\ store' = [store EXCEPT !.slot = job.new]
      /\ store' \in Stores /\ store'.slot = job.new /\ store'.user = store.user /\ store'.pw = store.pw
  <2>1. job \in Jobs /\ job # NoJob /\ job.pc = "save" /\ job' = [job EXCEPT !.pc = "channel"]
    BY LoginTypes DEF SavePassword, SavedWhere, SavedLogin, At, On, StoreUnchanged
  <2>2. job.kind = "password" /\ job.reached = TRUE /\ store.slot # NoPassword /\ UNCHANGED <<cam, chan, bidden, doubt>>
    BY <2>1 DEF SavePassword, SavedWhere, SavedLogin, At, On, StoreUnchanged
  <2>3. job.new \in Passwords /\ job.new # NoPassword
    BY <2>1, <2>2, LoginFields, LoginAssumption DEF SavePassword, SavedWhere, SavedLogin, At, On, StoreUnchanged
  <2>4. store' = [store EXCEPT !.slot = job.new]
    BY <2>2 DEF SavePassword, SavedWhere, SavedLogin, At, On, StoreUnchanged
  <2>5. store' \in Stores /\ store'.slot = job.new /\ store'.user = store.user /\ store'.pw = store.pw
    BY <2>3, <2>4, LoginTypes DEF Stores
  <2> QED BY <2>1, <2>2, <2>3, <2>4, <2>5
<1>2. job' \in Jobs /\ job' # NoJob /\ job'.pc = "channel" /\ SameJob(job', job)
  <2>1. "channel" \in AllSteps
    BY DEF AllSteps
  <2>2. job \in Jobs /\ job' = [job EXCEPT !.pc = "channel"]
    BY <1>1
  <2> QED BY <2>1, <2>2, JobSteps
<1>3. LoginTypeOK' /\ JobTyped' /\ WordsInv'
  <2>1. LoginTypeOK'
    BY <1>2, <1>1 DEF LoginInv, LoginTypeOK, JobTyped, WordsInv
  <2>2. JobTyped'
    BY <1>2, <1>1 DEF LoginInv, LoginTypeOK, JobTyped, WordsInv
  <2>3. WordsInv'
    BY <1>2, <1>1 DEF LoginInv, LoginTypeOK, JobTyped, WordsInv
  <2> QED BY <2>1, <2>2, <2>3
<1>4. AdminInv' /\ UserInv' /\ LockInv'
  <2>1. AdminInv'
    BY <1>2, <1>1 DEF LoginInv, JobTyped, WordsInv, ChannelInv, DoneInv, AdminInv, UserInv, LockInv
  <2>2. UserInv'
    BY <1>2, <1>1 DEF LoginInv, JobTyped, WordsInv, ChannelInv, DoneInv, AdminInv, UserInv, LockInv
  <2>3. LockInv'
    BY <1>2, <1>1 DEF LoginInv, JobTyped, WordsInv, ChannelInv, DoneInv, AdminInv, UserInv, LockInv
  <2> QED BY <2>1, <2>2, <2>3
<1>5. ChannelInv' /\ DoneInv' /\ WasInv'
  <2>1. ChannelInv'
    BY <1>2, <1>1 DEF LoginInv, JobTyped, WordsInv, AdminInv, ChannelInv, DoneInv, WasInv
  <2>2. DoneInv'
    BY <1>2, <1>1 DEF LoginInv, JobTyped, WordsInv, AdminInv, ChannelInv, DoneInv, WasInv
  <2>3. WasInv'
    BY <1>2, <1>1 DEF LoginInv, JobTyped, WordsInv, AdminInv, ChannelInv, DoneInv, WasInv
  <2> QED BY <2>1, <2>2, <2>3
<1> QED BY <1>3, <1>4, <1>5 DEF LoginInv

LEMMA LoginSavedReached ==
    ASSUME LoginInv, SavePassword, job.reached = TRUE, store.slot = NoPassword
    PROVE  LoginInv'
<1>1. /\ job \in Jobs /\ job # NoJob /\ job.pc = "save" /\ job' = [job EXCEPT !.pc = "channel"]
      /\ job.kind = "password" /\ job.reached = TRUE /\ store.slot = NoPassword /\ UNCHANGED <<cam, chan, bidden, doubt>>
      /\ job.new \in Passwords /\ job.new # NoPassword
      /\ store' = [store EXCEPT !.user = "admin", !.pw = job.new]
      /\ store' \in Stores /\ store'.slot = NoPassword /\ store'.user = "admin" /\ store'.pw = job.new
  <2>1. job \in Jobs /\ job # NoJob /\ job.pc = "save" /\ job' = [job EXCEPT !.pc = "channel"]
    BY LoginTypes DEF SavePassword, SavedWhere, SavedLogin, At, On, StoreUnchanged
  <2>2. job.kind = "password" /\ job.reached = TRUE /\ store.slot = NoPassword /\ UNCHANGED <<cam, chan, bidden, doubt>>
    BY <2>1 DEF SavePassword, SavedWhere, SavedLogin, At, On, StoreUnchanged
  <2>3. job.new \in Passwords /\ job.new # NoPassword
    BY <2>1, <2>2, LoginFields, LoginAssumption DEF SavePassword, SavedWhere, SavedLogin, At, On, StoreUnchanged
  <2>4. store' = [store EXCEPT !.user = "admin", !.pw = job.new]
    BY <2>2 DEF SavePassword, SavedWhere, SavedLogin, At, On, StoreUnchanged
  <2>5. store' \in Stores /\ store'.slot = NoPassword /\ store'.user = "admin" /\ store'.pw = job.new
    BY <2>3, <2>4, LoginTypes DEF Stores
  <2> QED BY <2>1, <2>2, <2>3, <2>4, <2>5
<1>2. job' \in Jobs /\ job' # NoJob /\ job'.pc = "channel" /\ SameJob(job', job)
  <2>1. "channel" \in AllSteps
    BY DEF AllSteps
  <2>2. job \in Jobs /\ job' = [job EXCEPT !.pc = "channel"]
    BY <1>1
  <2> QED BY <2>1, <2>2, JobSteps
<1>3. LoginTypeOK' /\ JobTyped' /\ WordsInv'
  <2>1. LoginTypeOK'
    BY <1>2, <1>1 DEF LoginInv, LoginTypeOK, JobTyped, WordsInv
  <2>2. JobTyped'
    BY <1>2, <1>1 DEF LoginInv, LoginTypeOK, JobTyped, WordsInv
  <2>3. WordsInv'
    BY <1>2, <1>1 DEF LoginInv, LoginTypeOK, JobTyped, WordsInv
  <2> QED BY <2>1, <2>2, <2>3
<1>4. AdminInv' /\ UserInv' /\ LockInv'
  <2>1. AdminInv'
    BY <1>2, <1>1 DEF LoginInv, JobTyped, WordsInv, ChannelInv, DoneInv, AdminInv, UserInv, LockInv
  <2>2. UserInv'
    BY <1>2, <1>1 DEF LoginInv, JobTyped, WordsInv, ChannelInv, DoneInv, AdminInv, UserInv, LockInv
  <2>3. LockInv'
    BY <1>2, <1>1 DEF LoginInv, JobTyped, WordsInv, ChannelInv, DoneInv, AdminInv, UserInv, LockInv
  <2> QED BY <2>1, <2>2, <2>3
<1>5. ChannelInv' /\ DoneInv' /\ WasInv'
  <2>1. ChannelInv'
    BY <1>2, <1>1 DEF LoginInv, JobTyped, WordsInv, AdminInv, ChannelInv, DoneInv, WasInv
  <2>2. DoneInv'
    BY <1>2, <1>1 DEF LoginInv, JobTyped, WordsInv, AdminInv, ChannelInv, DoneInv, WasInv
  <2>3. WasInv'
    BY <1>2, <1>1 DEF LoginInv, JobTyped, WordsInv, AdminInv, ChannelInv, DoneInv, WasInv
  <2> QED BY <2>1, <2>2, <2>3
<1> QED BY <1>3, <1>4, <1>5 DEF LoginInv

LEMMA SlotSavedMissed ==
    ASSUME LoginInv, SavePassword, job.reached = FALSE, store.slot # NoPassword
    PROVE  LoginInv'
<1>1. /\ job \in Jobs /\ job # NoJob /\ job.pc = "save" /\ job' = [job EXCEPT !.pc = "restore"]
      /\ job.kind = "password" /\ job.reached = FALSE /\ store.slot # NoPassword /\ UNCHANGED <<cam, chan, bidden, doubt>>
      /\ job.new \in Passwords /\ job.new # NoPassword
      /\ store' = [store EXCEPT !.slot = job.new]
      /\ store' \in Stores /\ store'.slot = job.new /\ store'.user = store.user /\ store'.pw = store.pw
  <2>1. job \in Jobs /\ job # NoJob /\ job.pc = "save" /\ job' = [job EXCEPT !.pc = "restore"]
    BY LoginTypes DEF SavePassword, SavedWhere, SavedLogin, At, On, StoreUnchanged
  <2>2. job.kind = "password" /\ job.reached = FALSE /\ store.slot # NoPassword /\ UNCHANGED <<cam, chan, bidden, doubt>>
    BY <2>1 DEF SavePassword, SavedWhere, SavedLogin, At, On, StoreUnchanged
  <2>3. job.new \in Passwords /\ job.new # NoPassword
    BY <2>1, <2>2, LoginFields, LoginAssumption DEF SavePassword, SavedWhere, SavedLogin, At, On, StoreUnchanged
  <2>4. store' = [store EXCEPT !.slot = job.new]
    BY <2>2 DEF SavePassword, SavedWhere, SavedLogin, At, On, StoreUnchanged
  <2>5. store' \in Stores /\ store'.slot = job.new /\ store'.user = store.user /\ store'.pw = store.pw
    BY <2>3, <2>4, LoginTypes DEF Stores
  <2> QED BY <2>1, <2>2, <2>3, <2>4, <2>5
<1>2. job' \in Jobs /\ job' # NoJob /\ job'.pc = "restore" /\ SameJob(job', job)
  <2>1. "restore" \in AllSteps
    BY DEF AllSteps
  <2>2. job \in Jobs /\ job' = [job EXCEPT !.pc = "restore"]
    BY <1>1
  <2> QED BY <2>1, <2>2, JobSteps
<1>3. LoginTypeOK' /\ JobTyped' /\ WordsInv'
  <2>1. LoginTypeOK'
    BY <1>2, <1>1 DEF LoginInv, LoginTypeOK, JobTyped, WordsInv
  <2>2. JobTyped'
    BY <1>2, <1>1 DEF LoginInv, LoginTypeOK, JobTyped, WordsInv
  <2>3. WordsInv'
    BY <1>2, <1>1 DEF LoginInv, LoginTypeOK, JobTyped, WordsInv
  <2> QED BY <2>1, <2>2, <2>3
<1>4. AdminInv' /\ UserInv' /\ LockInv'
  <2>1. AdminInv'
    BY <1>2, <1>1 DEF LoginInv, JobTyped, WordsInv, ChannelInv, DoneInv, AdminInv, UserInv, LockInv
  <2>2. UserInv'
    BY <1>2, <1>1 DEF LoginInv, JobTyped, WordsInv, ChannelInv, DoneInv, AdminInv, UserInv, LockInv
  <2>3. LockInv'
    BY <1>2, <1>1 DEF LoginInv, JobTyped, WordsInv, ChannelInv, DoneInv, AdminInv, UserInv, LockInv
  <2> QED BY <2>1, <2>2, <2>3
<1>5. ChannelInv' /\ DoneInv' /\ WasInv'
  <2>1. ChannelInv'
    BY <1>2, <1>1 DEF LoginInv, JobTyped, WordsInv, AdminInv, ChannelInv, DoneInv, WasInv
  <2>2. DoneInv'
    BY <1>2, <1>1 DEF LoginInv, JobTyped, WordsInv, AdminInv, ChannelInv, DoneInv, WasInv
  <2>3. WasInv'
    BY <1>2, <1>1 DEF LoginInv, JobTyped, WordsInv, AdminInv, ChannelInv, DoneInv, WasInv
  <2> QED BY <2>1, <2>2, <2>3
<1> QED BY <1>3, <1>4, <1>5 DEF LoginInv

LEMMA LoginSavedMissed ==
    ASSUME LoginInv, SavePassword, job.reached = FALSE, store.slot = NoPassword
    PROVE  LoginInv'
<1>1. /\ job \in Jobs /\ job # NoJob /\ job.pc = "save" /\ job' = [job EXCEPT !.pc = "restore"]
      /\ job.kind = "password" /\ job.reached = FALSE /\ store.slot = NoPassword /\ UNCHANGED <<cam, chan, bidden, doubt>>
      /\ job.new \in Passwords /\ job.new # NoPassword
      /\ store' = [store EXCEPT !.user = "admin", !.pw = job.new]
      /\ store' \in Stores /\ store'.slot = NoPassword /\ store'.user = "admin" /\ store'.pw = job.new
  <2>1. job \in Jobs /\ job # NoJob /\ job.pc = "save" /\ job' = [job EXCEPT !.pc = "restore"]
    BY LoginTypes DEF SavePassword, SavedWhere, SavedLogin, At, On, StoreUnchanged
  <2>2. job.kind = "password" /\ job.reached = FALSE /\ store.slot = NoPassword /\ UNCHANGED <<cam, chan, bidden, doubt>>
    BY <2>1 DEF SavePassword, SavedWhere, SavedLogin, At, On, StoreUnchanged
  <2>3. job.new \in Passwords /\ job.new # NoPassword
    BY <2>1, <2>2, LoginFields, LoginAssumption DEF SavePassword, SavedWhere, SavedLogin, At, On, StoreUnchanged
  <2>4. store' = [store EXCEPT !.user = "admin", !.pw = job.new]
    BY <2>2 DEF SavePassword, SavedWhere, SavedLogin, At, On, StoreUnchanged
  <2>5. store' \in Stores /\ store'.slot = NoPassword /\ store'.user = "admin" /\ store'.pw = job.new
    BY <2>3, <2>4, LoginTypes DEF Stores
  <2> QED BY <2>1, <2>2, <2>3, <2>4, <2>5
<1>2. job' \in Jobs /\ job' # NoJob /\ job'.pc = "restore" /\ SameJob(job', job)
  <2>1. "restore" \in AllSteps
    BY DEF AllSteps
  <2>2. job \in Jobs /\ job' = [job EXCEPT !.pc = "restore"]
    BY <1>1
  <2> QED BY <2>1, <2>2, JobSteps
<1>3. LoginTypeOK' /\ JobTyped' /\ WordsInv'
  <2>1. LoginTypeOK'
    BY <1>2, <1>1 DEF LoginInv, LoginTypeOK, JobTyped, WordsInv
  <2>2. JobTyped'
    BY <1>2, <1>1 DEF LoginInv, LoginTypeOK, JobTyped, WordsInv
  <2>3. WordsInv'
    BY <1>2, <1>1 DEF LoginInv, LoginTypeOK, JobTyped, WordsInv
  <2> QED BY <2>1, <2>2, <2>3
<1>4. AdminInv' /\ UserInv' /\ LockInv'
  <2>1. AdminInv'
    BY <1>2, <1>1 DEF LoginInv, JobTyped, WordsInv, ChannelInv, DoneInv, AdminInv, UserInv, LockInv
  <2>2. UserInv'
    BY <1>2, <1>1 DEF LoginInv, JobTyped, WordsInv, ChannelInv, DoneInv, AdminInv, UserInv, LockInv
  <2>3. LockInv'
    BY <1>2, <1>1 DEF LoginInv, JobTyped, WordsInv, ChannelInv, DoneInv, AdminInv, UserInv, LockInv
  <2> QED BY <2>1, <2>2, <2>3
<1>5. ChannelInv' /\ DoneInv' /\ WasInv'
  <2>1. ChannelInv'
    BY <1>2, <1>1 DEF LoginInv, JobTyped, WordsInv, AdminInv, ChannelInv, DoneInv, WasInv
  <2>2. DoneInv'
    BY <1>2, <1>1 DEF LoginInv, JobTyped, WordsInv, AdminInv, ChannelInv, DoneInv, WasInv
  <2>3. WasInv'
    BY <1>2, <1>1 DEF LoginInv, JobTyped, WordsInv, AdminInv, ChannelInv, DoneInv, WasInv
  <2> QED BY <2>1, <2>2, <2>3
<1> QED BY <1>3, <1>4, <1>5 DEF LoginInv

LEMMA ChannelPut ==
    ASSUME LoginInv, PutChannel
    PROVE  LoginInv'
<1>1. /\ job \in Jobs /\ job # NoJob /\ job.pc = "channel" /\ job' = [job EXCEPT !.pc = "restore"]
      /\ chan' = job.new /\ UNCHANGED <<cam, store, bidden, doubt>>
      /\ job.new \in Passwords /\ job.kind = "password"
  <2>1. job \in Jobs /\ job # NoJob /\ job.pc = "channel" /\ job' = [job EXCEPT !.pc = "restore"]
    BY LoginTypes DEF PutChannel, At, On, StoreUnchanged
  <2>2. chan' = job.new /\ UNCHANGED <<cam, store, bidden, doubt>>
    BY LoginTypes DEF PutChannel, At, On, StoreUnchanged
  <2>3. job.new \in Passwords /\ job.kind = "password"
    BY <2>1, KindOf, LoginFields DEF PutChannel, At, On, StoreUnchanged
  <2> QED BY <2>1, <2>2, <2>3
<1>2. job' \in Jobs /\ job' # NoJob /\ job'.pc = "restore" /\ SameJob(job', job)
  <2>1. "restore" \in AllSteps
    BY DEF AllSteps
  <2>2. job \in Jobs /\ job' = [job EXCEPT !.pc = "restore"]
    BY <1>1
  <2> QED BY <2>1, <2>2, JobSteps
<1>3. LoginTypeOK' /\ JobTyped' /\ WordsInv'
  <2>1. LoginTypeOK'
    BY <1>2, <1>1 DEF LoginInv, LoginTypeOK, JobTyped, WordsInv
  <2>2. JobTyped'
    BY <1>2, <1>1 DEF LoginInv, LoginTypeOK, JobTyped, WordsInv
  <2>3. WordsInv'
    BY <1>2, <1>1 DEF LoginInv, LoginTypeOK, JobTyped, WordsInv
  <2> QED BY <2>1, <2>2, <2>3
<1>4. AdminInv' /\ UserInv' /\ LockInv'
  <2>1. AdminInv'
    BY <1>2, <1>1 DEF LoginInv, JobTyped, WordsInv, DoneInv, AdminInv, UserInv, LockInv
  <2>2. UserInv'
    BY <1>2, <1>1 DEF LoginInv, JobTyped, WordsInv, DoneInv, AdminInv, UserInv, LockInv
  <2>3. LockInv'
    BY <1>2, <1>1 DEF LoginInv, JobTyped, WordsInv, DoneInv, AdminInv, UserInv, LockInv
  <2> QED BY <2>1, <2>2, <2>3
<1>5. ChannelInv' /\ DoneInv' /\ WasInv'
  <2>1. ChannelInv'
    BY <1>2, <1>1 DEF LoginInv, JobTyped, WordsInv, AdminInv, ChannelInv, DoneInv, WasInv
  <2>2. DoneInv'
    BY <1>2, <1>1 DEF LoginInv, JobTyped, WordsInv, AdminInv, ChannelInv, DoneInv, WasInv
  <2>3. WasInv'
    BY <1>2, <1>1 DEF LoginInv, JobTyped, WordsInv, AdminInv, ChannelInv, DoneInv, WasInv
  <2> QED BY <2>1, <2>2, <2>3
<1> QED BY <1>3, <1>4, <1>5 DEF LoginInv

LEMMA ChannelMissed ==
    ASSUME LoginInv, ChannelFails
    PROVE  LoginInv'
<1>1. /\ job \in Jobs /\ job # NoJob /\ job.pc = "channel" /\ job' = [job EXCEPT !.pc = "restore", !.bad = TRUE]
      /\ chan' \in {chan, job.new} /\ UNCHANGED <<cam, store, bidden, doubt>>
  BY LoginTypes DEF ChannelFails, At, ChannelBad
<1>2. /\ job' \in Jobs /\ job'.pc = "restore" /\ job'.bad = TRUE
      /\ SameKind(job', job) /\ job'.back = job.back /\ job'.words = job.words
  BY <1>1, JobBad
<1>3. job' # NoJob /\ job.kind = "password" /\ job.new \in Passwords
  BY <1>1, <1>2, JobSteps, KindOf, LoginFields
<1>4. LoginTypeOK' /\ JobTyped' /\ WordsInv'
  <2>1. LoginTypeOK'
    BY <1>3, <1>1, <1>2 DEF LoginInv, LoginTypeOK, JobTyped, WordsInv
  <2>2. JobTyped'
    BY <1>3, <1>1, <1>2 DEF LoginInv, LoginTypeOK, JobTyped, WordsInv
  <2>3. WordsInv'
    BY <1>3, <1>1, <1>2 DEF LoginInv, LoginTypeOK, JobTyped, WordsInv
  <2> QED BY <2>1, <2>2, <2>3
<1>5. AdminInv' /\ UserInv' /\ LockInv'
  <2>1. AdminInv'
    BY <1>3, <1>1, <1>2 DEF LoginInv, JobTyped, WordsInv, DoneInv, AdminInv, UserInv, LockInv
  <2>2. UserInv'
    BY <1>3, <1>1, <1>2 DEF LoginInv, JobTyped, WordsInv, DoneInv, AdminInv, UserInv, LockInv
  <2>3. LockInv'
    BY <1>3, <1>1, <1>2 DEF LoginInv, JobTyped, WordsInv, DoneInv, AdminInv, UserInv, LockInv
  <2> QED BY <2>1, <2>2, <2>3
<1>6. ChannelInv' /\ DoneInv' /\ WasInv'
  <2>1. ChannelInv'
    BY <1>3, <1>1, <1>2 DEF LoginInv, JobTyped, WordsInv, AdminInv, ChannelInv, DoneInv, WasInv
  <2>2. DoneInv'
    BY <1>3, <1>1, <1>2 DEF LoginInv, JobTyped, WordsInv, AdminInv, ChannelInv, DoneInv, WasInv
  <2>3. WasInv'
    BY <1>3, <1>1, <1>2 DEF LoginInv, JobTyped, WordsInv, AdminInv, ChannelInv, DoneInv, WasInv
  <2> QED BY <2>1, <2>2, <2>3
<1> QED BY <1>4, <1>5, <1>6 DEF LoginInv

LEMMA LockRestored ==
    ASSUME LoginInv, RestoreLock
    PROVE  LoginInv'
<1>1. /\ job \in Jobs /\ job # NoJob /\ job.pc = "restore" /\ job' = NoJob
      /\ job'.pc = "idle"
      /\ cam' \in Cams /\ cam'.admin = cam.admin /\ cam'.net = cam.net /\ (cam.lock \/ job.back => cam'.lock)
      /\ bidden' = bidden \cup (IF job.bad THEN {"channel"} ELSE {})
      /\ UNCHANGED <<chan, store, doubt>>
      /\ job.kind = "password" /\ job.bad \in BOOLEAN
  <2>1. job \in Jobs /\ job # NoJob /\ job.pc = "restore" /\ job' = NoJob
    BY LoginTypes DEF RestoreLock, Finishes, EndsAs, At, On, StoreUnchanged
  <2>2. job'.pc = "idle"
    BY <2>1, JobSteps DEF RestoreLock, Finishes, EndsAs, At, On, StoreUnchanged
  <2>3. cam' \in Cams /\ cam'.admin = cam.admin /\ cam'.net = cam.net /\ (cam.lock \/ job.back => cam'.lock)
    BY <2>1, LoginTypes DEF RestoreLock, Cams, Jobs
  <2>4. bidden' = bidden \cup (IF job.bad THEN {"channel"} ELSE {})
    BY LoginTypes DEF RestoreLock, Finishes, EndsAs, At, On, StoreUnchanged
  <2>5. UNCHANGED <<chan, store, doubt>>
    BY LoginTypes DEF RestoreLock, Finishes, EndsAs, At, On, StoreUnchanged
  <2>6. job.kind = "password" /\ job.bad \in BOOLEAN
    BY <2>1, KindOf DEF Jobs
  <2> QED BY <2>1, <2>2, <2>3, <2>4, <2>5, <2>6
<1>2. LoginTypeOK' /\ JobTyped' /\ WordsInv'
  <2>1. LoginTypeOK'
    BY <1>1 DEF LoginInv, LoginTypeOK, JobTyped, WordsInv
  <2>2. JobTyped'
    BY <1>1 DEF LoginInv, LoginTypeOK, JobTyped, WordsInv
  <2>3. WordsInv'
    BY <1>1 DEF LoginInv, LoginTypeOK, JobTyped, WordsInv
  <2> QED BY <2>1, <2>2, <2>3
<1>3. AdminInv' /\ UserInv' /\ LockInv'
  <2>1. AdminInv'
    BY <1>1 DEF LoginInv, JobTyped, WordsInv, DoneInv, AdminInv, UserInv, LockInv
  <2>2. UserInv'
    BY <1>1 DEF LoginInv, JobTyped, WordsInv, DoneInv, AdminInv, UserInv, LockInv
  <2>3. LockInv'
    BY <1>1 DEF LoginInv, JobTyped, WordsInv, DoneInv, AdminInv, UserInv, LockInv
  <2> QED BY <2>1, <2>2, <2>3
<1>4. ChannelInv' /\ DoneInv' /\ WasInv'
  <2>1. ChannelInv'
    BY <1>1 DEF LoginInv, JobTyped, WordsInv, AdminInv, ChannelInv, DoneInv, WasInv
  <2>2. DoneInv'
    BY <1>1 DEF LoginInv, JobTyped, WordsInv, AdminInv, ChannelInv, DoneInv, WasInv
  <2>3. WasInv'
    BY <1>1 DEF LoginInv, JobTyped, WordsInv, AdminInv, ChannelInv, DoneInv, WasInv
  <2> QED BY <2>1, <2>2, <2>3
<1> QED BY <1>2, <1>3, <1>4 DEF LoginInv

LEMMA LockNotRestored ==
    ASSUME LoginInv, RestoreFails
    PROVE  LoginInv'
<1>1. /\ job \in Jobs /\ job # NoJob /\ job.pc = "restore" /\ job' = NoJob
      /\ job'.pc = "idle"
      /\ bidden' = bidden \cup (IF job.bad THEN {"channel"} ELSE {})
                         \cup (IF job.words = "ok" THEN {"lock"} ELSE {})
      /\ doubt' = IF job.words = "nothing" THEN doubt \cup {"lock"} ELSE doubt
      /\ UNCHANGED <<cam, chan, store>>
      /\ job.kind = "password" /\ job.bad \in BOOLEAN
      /\ job.words \in {"ok", "nothing"}
  <2>1. job \in Jobs /\ job # NoJob /\ job.pc = "restore" /\ job' = NoJob
    BY LoginTypes DEF RestoreFails, Finishes, EndsAs, At, On, StoreUnchanged
  <2>2. job'.pc = "idle"
    BY <2>1, JobSteps DEF RestoreFails, Finishes, EndsAs, At, On, StoreUnchanged
  <2>3. bidden' = bidden \cup (IF job.bad THEN {"channel"} ELSE {})
                         \cup (IF job.words = "ok" THEN {"lock"} ELSE {})
    BY LoginTypes DEF RestoreFails, Finishes, EndsAs, At, On, StoreUnchanged
  <2>4. doubt' = IF job.words = "nothing" THEN doubt \cup {"lock"} ELSE doubt
    BY LoginTypes DEF RestoreFails, Finishes, EndsAs, At, On, StoreUnchanged
  <2>5. UNCHANGED <<cam, chan, store>>
    BY LoginTypes DEF RestoreFails, Finishes, EndsAs, At, On, StoreUnchanged
  <2>6. job.kind = "password" /\ job.bad \in BOOLEAN
    BY <2>1, KindOf DEF Jobs
  <2>7. job.words \in {"ok", "nothing"}
    BY <2>1, <2>6 DEF LoginInv, WordsInv
  <2> QED BY <2>1, <2>2, <2>3, <2>4, <2>5, <2>6, <2>7
<1>2. LoginTypeOK' /\ JobTyped' /\ WordsInv'
  <2>1. LoginTypeOK'
    BY <1>1 DEF LoginInv, LoginTypeOK, JobTyped, WordsInv
  <2>2. JobTyped'
    BY <1>1 DEF LoginInv, LoginTypeOK, JobTyped, WordsInv
  <2>3. WordsInv'
    BY <1>1 DEF LoginInv, LoginTypeOK, JobTyped, WordsInv
  <2> QED BY <2>1, <2>2, <2>3
<1>3. AdminInv' /\ UserInv' /\ LockInv'
  <2>1. AdminInv'
    BY <1>1 DEF LoginInv, JobTyped, WordsInv, DoneInv, AdminInv, UserInv, LockInv
  <2>2. UserInv'
    BY <1>1 DEF LoginInv, JobTyped, WordsInv, DoneInv, AdminInv, UserInv, LockInv
  <2>3. LockInv'
    BY <1>1 DEF LoginInv, JobTyped, WordsInv, DoneInv, AdminInv, UserInv, LockInv
  <2> QED BY <2>1, <2>2, <2>3
<1>4. ChannelInv' /\ DoneInv' /\ WasInv'
  <2>1. ChannelInv'
    BY <1>1 DEF LoginInv, JobTyped, WordsInv, AdminInv, ChannelInv, DoneInv, WasInv
  <2>2. DoneInv'
    BY <1>1 DEF LoginInv, JobTyped, WordsInv, AdminInv, ChannelInv, DoneInv, WasInv
  <2>3. WasInv'
    BY <1>1 DEF LoginInv, JobTyped, WordsInv, AdminInv, ChannelInv, DoneInv, WasInv
  <2> QED BY <2>1, <2>2, <2>3
<1> QED BY <1>2, <1>3, <1>4 DEF LoginInv

\* Besides the jobs.
LEMMA ChannelFixed ==
    ASSUME LoginInv, FixLogin
    PROVE  LoginInv'
<1>1. /\ job = NoJob /\ job.pc = "idle" /\ AdminLogin # NoPassword /\ chan' = AdminLogin /\ UNCHANGED <<cam, store, job, bidden, doubt>>
  BY DEF FixLogin, Idle, NoJob
<1>2. AdminLogin \in Passwords
  BY <1>1, LoginTypes DEF LoginInv, JobTyped, Stores
<1>3. LoginTypeOK' /\ JobTyped' /\ WordsInv'
  <2>1. LoginTypeOK'
    BY <1>2, <1>1 DEF LoginInv, LoginTypeOK, JobTyped, WordsInv
  <2>2. JobTyped'
    BY <1>2, <1>1 DEF LoginInv, LoginTypeOK, JobTyped, WordsInv
  <2>3. WordsInv'
    BY <1>2, <1>1 DEF LoginInv, LoginTypeOK, JobTyped, WordsInv
  <2> QED BY <2>1, <2>2, <2>3
<1>4. AdminInv' /\ UserInv' /\ LockInv'
  <2>1. AdminInv'
    BY <1>2, <1>1 DEF LoginInv, JobTyped, WordsInv, DoneInv, AdminInv, UserInv, LockInv
  <2>2. UserInv'
    BY <1>2, <1>1 DEF LoginInv, JobTyped, WordsInv, DoneInv, AdminInv, UserInv, LockInv
  <2>3. LockInv'
    BY <1>2, <1>1 DEF LoginInv, JobTyped, WordsInv, DoneInv, AdminInv, UserInv, LockInv
  <2> QED BY <2>1, <2>2, <2>3
<1>5. ChannelInv' /\ DoneInv' /\ WasInv'
  <2>1. ChannelInv'
    BY <1>2, <1>1 DEF LoginInv, JobTyped, WordsInv, AdminInv, ChannelInv, DoneInv, WasInv
  <2>2. DoneInv'
    BY <1>2, <1>1 DEF LoginInv, JobTyped, WordsInv, AdminInv, ChannelInv, DoneInv, WasInv
  <2>3. WasInv'
    BY <1>2, <1>1 DEF LoginInv, JobTyped, WordsInv, AdminInv, ChannelInv, DoneInv, WasInv
  <2> QED BY <2>1, <2>2, <2>3
<1> QED BY <1>3, <1>4, <1>5 DEF LoginInv

LEMMA AdminSaved ==
    ASSUME LoginInv, SaveAdmin
    PROVE  LoginInv'
<1>1. /\ cam.admin \in Passwords /\ store' = [store EXCEPT !.user = "admin", !.pw = cam.admin]
      /\ doubt' = doubt \cup {"user"} \cup (IF job = NoJob THEN {} ELSE {"password"})
      /\ job' = (IF job = NoJob THEN job ELSE [job EXCEPT !.met = TRUE]) /\ UNCHANGED <<cam, chan, bidden>>
  BY LoginTypes DEF SaveAdmin, Idle
<1>2. store' \in Stores /\ store'.user = "admin" /\ store'.pw = cam.admin /\ store'.slot = store.slot
  BY <1>1, LoginTypes DEF Stores
<1>3. job \in Jobs \cup {NoJob} /\ NoJob.pc = "idle"
  BY DEF LoginInv, JobTyped, NoJob
<1>4. CASE job = NoJob
  <2>1. job' = NoJob /\ doubt' = doubt \cup {"user"} /\ job.pc = "idle" /\ job'.pc = "idle"
    BY <1>1, <1>3, <1>4
  <2>2. LoginTypeOK' /\ JobTyped' /\ WordsInv'
    BY <2>1, <1>1, <1>2, <1>4 DEF LoginInv, LoginTypeOK, JobTyped, WordsInv
  <2>3. AdminInv' /\ UserInv' /\ LockInv'
    BY <2>1, <1>1, <1>2, <1>4 DEF LoginInv, JobTyped, AdminInv, UserInv, LockInv, Stores
  <2>4. ChannelInv' /\ DoneInv' /\ WasInv'
    BY <2>1, <1>1, <1>2, <1>4 DEF LoginInv, ChannelInv, DoneInv, WasInv
  <2> QED BY <2>2, <2>3, <2>4 DEF LoginInv
<1>5. CASE job # NoJob
  <2>1. job \in Jobs /\ job' = [job EXCEPT !.met = TRUE] /\ doubt' = doubt \cup {"user", "password"}
    BY <1>1, <1>3, <1>5
  <2>2. /\ job' \in Jobs /\ job'.pc = job.pc /\ job'.met = TRUE /\ job'.back = job.back /\ job'.bad = job.bad /\ job'.words = job.words
        /\ job'.kind = job.kind /\ job'.login = job.login /\ job'.new = job.new /\ job'.was = job.was /\ job'.reached = job.reached
    BY <2>1, JobMet
  <2>3. job' # NoJob
    BY <2>2, JobSteps
  <2>4. LoginTypeOK' /\ JobTyped'
    BY <2>1, <2>2, <2>3, <1>1, <1>2, <1>5 DEF LoginInv, LoginTypeOK, JobTyped
  <2>5. WordsInv'
    BY <2>1, <2>2, <2>3, <1>1, <1>2, <1>5, LoginAssumption, ZenonT(60) DEF LoginInv, WordsInv
  <2>6. AdminInv' /\ UserInv' /\ LockInv'
    BY <2>1, <2>2, <2>3, <1>1, <1>2, <1>5 DEF LoginInv, AdminInv, UserInv, LockInv
  <2>7. ChannelInv'
    BY <2>1, <2>2, <2>3, <1>1, <1>2, <1>5 DEF LoginInv, ChannelInv
  <2>8. DoneInv'
    BY <2>1, <2>2, <2>3, <1>1, <1>2, <1>5 DEF LoginInv, DoneInv
  <2>9. WasInv'
    BY <2>1, <2>2, <2>3, <1>1, <1>2, <1>5 DEF LoginInv, WasInv
  <2> QED BY <2>4, <2>5, <2>6, <2>7, <2>8, <2>9 DEF LoginInv
<1> QED BY <1>4, <1>5

LEMMA UserGoneByHand ==
    ASSUME LoginInv, RemoveByHand
    PROVE  LoginInv'
<1>1. /\ job = NoJob /\ job.pc = "idle" /\ bidden' = bidden \ {"user"} /\ UNCHANGED <<chan, store, job, doubt>>
      /\ cam' \in Cams /\ ~cam'.net = TRUE /\ cam'.admin = cam.admin /\ cam'.lock = cam.lock
  BY LoginTypes, CamFields DEF RemoveByHand, Idle, NoJob
<1>2. LoginTypeOK' /\ JobTyped' /\ WordsInv'
  <2>1. LoginTypeOK'
    BY <1>1 DEF LoginInv, LoginTypeOK, JobTyped, WordsInv
  <2>2. JobTyped'
    BY <1>1 DEF LoginInv, LoginTypeOK, JobTyped, WordsInv
  <2>3. WordsInv'
    BY <1>1 DEF LoginInv, LoginTypeOK, JobTyped, WordsInv
  <2> QED BY <2>1, <2>2, <2>3
<1>3. AdminInv' /\ UserInv' /\ LockInv'
  <2>1. AdminInv'
    BY <1>1 DEF LoginInv, JobTyped, WordsInv, DoneInv, AdminInv, UserInv, LockInv
  <2>2. UserInv'
    BY <1>1 DEF LoginInv, JobTyped, WordsInv, DoneInv, AdminInv, UserInv, LockInv
  <2>3. LockInv'
    BY <1>1 DEF LoginInv, JobTyped, WordsInv, DoneInv, AdminInv, UserInv, LockInv
  <2> QED BY <2>1, <2>2, <2>3
<1>4. ChannelInv' /\ DoneInv' /\ WasInv'
  <2>1. ChannelInv'
    BY <1>1 DEF LoginInv, JobTyped, WordsInv, AdminInv, ChannelInv, DoneInv, WasInv
  <2>2. DoneInv'
    BY <1>1 DEF LoginInv, JobTyped, WordsInv, AdminInv, ChannelInv, DoneInv, WasInv
  <2>3. WasInv'
    BY <1>1 DEF LoginInv, JobTyped, WordsInv, AdminInv, ChannelInv, DoneInv, WasInv
  <2> QED BY <2>1, <2>2, <2>3
<1> QED BY <1>2, <1>3, <1>4 DEF LoginInv

LEMMA ChangedByHand ==
    ASSUME LoginInv, NEW p \in Passwords, ChangeByHand(p)
    PROVE  LoginInv'
<1>1. /\ job = NoJob /\ job.pc = "idle" /\ doubt' = doubt \cup {"password", "channel"} /\ UNCHANGED <<chan, store, job, bidden>>
      /\ cam' \in Cams /\ cam'.admin = p /\ cam'.net = cam.net /\ cam'.lock = cam.lock
  BY LoginTypes, CamFields DEF ChangeByHand, Idle, NoJob, Doubts
<1>2. LoginTypeOK' /\ JobTyped' /\ WordsInv'
  <2>1. LoginTypeOK'
    BY <1>1 DEF LoginInv, LoginTypeOK, JobTyped, WordsInv
  <2>2. JobTyped'
    BY <1>1 DEF LoginInv, LoginTypeOK, JobTyped, WordsInv
  <2>3. WordsInv'
    BY <1>1 DEF LoginInv, LoginTypeOK, JobTyped, WordsInv
  <2> QED BY <2>1, <2>2, <2>3
<1>3. AdminInv' /\ UserInv' /\ LockInv'
  <2>1. AdminInv'
    BY <1>1 DEF LoginInv, JobTyped, WordsInv, DoneInv, AdminInv, UserInv, LockInv
  <2>2. UserInv'
    BY <1>1 DEF LoginInv, JobTyped, WordsInv, DoneInv, AdminInv, UserInv, LockInv
  <2>3. LockInv'
    BY <1>1 DEF LoginInv, JobTyped, WordsInv, DoneInv, AdminInv, UserInv, LockInv
  <2> QED BY <2>1, <2>2, <2>3
<1>4. ChannelInv' /\ DoneInv' /\ WasInv'
  <2>1. ChannelInv'
    BY <1>1 DEF LoginInv, JobTyped, WordsInv, AdminInv, ChannelInv, DoneInv, WasInv
  <2>2. DoneInv'
    BY <1>1 DEF LoginInv, JobTyped, WordsInv, AdminInv, ChannelInv, DoneInv, WasInv
  <2>3. WasInv'
    BY <1>1 DEF LoginInv, JobTyped, WordsInv, AdminInv, ChannelInv, DoneInv, WasInv
  <2> QED BY <2>1, <2>2, <2>3
<1> QED BY <1>2, <1>3, <1>4 DEF LoginInv

LEMMA JobStopped ==
    ASSUME LoginInv, StopNetwatch
    PROVE  LoginInv'
<1>1. /\ job' = NoJob /\ job'.pc = "idle" /\ doubt' = doubt \cup {"user", "password", "lock", "channel"}
      /\ UNCHANGED <<cam, chan, store, bidden>>
  BY DEF StopNetwatch, Idle, NoJob, EndsAs, Doubts
<1>2. LoginTypeOK' /\ JobTyped' /\ WordsInv'
  <2>1. LoginTypeOK'
    BY <1>1 DEF LoginInv, LoginTypeOK, JobTyped, WordsInv
  <2>2. JobTyped'
    BY <1>1 DEF LoginInv, LoginTypeOK, JobTyped, WordsInv
  <2>3. WordsInv'
    BY <1>1 DEF LoginInv, LoginTypeOK, JobTyped, WordsInv
  <2> QED BY <2>1, <2>2, <2>3
<1>3. AdminInv' /\ UserInv' /\ LockInv'
  <2>1. AdminInv'
    BY <1>1 DEF LoginInv, JobTyped, WordsInv, DoneInv, AdminInv, UserInv, LockInv
  <2>2. UserInv'
    BY <1>1 DEF LoginInv, JobTyped, WordsInv, DoneInv, AdminInv, UserInv, LockInv
  <2>3. LockInv'
    BY <1>1 DEF LoginInv, JobTyped, WordsInv, DoneInv, AdminInv, UserInv, LockInv
  <2> QED BY <2>1, <2>2, <2>3
<1>4. ChannelInv' /\ DoneInv' /\ WasInv'
  <2>1. ChannelInv'
    BY <1>1 DEF LoginInv, JobTyped, WordsInv, AdminInv, ChannelInv, DoneInv, WasInv
  <2>2. DoneInv'
    BY <1>1 DEF LoginInv, JobTyped, WordsInv, AdminInv, ChannelInv, DoneInv, WasInv
  <2>3. WasInv'
    BY <1>1 DEF LoginInv, JobTyped, WordsInv, AdminInv, ChannelInv, DoneInv, WasInv
  <2> QED BY <2>1, <2>2, <2>3
<1> QED BY <1>2, <1>3, <1>4 DEF LoginInv

\* Every step keeps the invariant.
LEMMA AccountKeeps ==
    ASSUME LoginInv, AccountJob
    PROVE  LoginInv'
<1>1. CASE \E kind \in {"create", "remove"} : StartAccount(kind)
  BY <1>1, AccountStarts
<1>2. CASE ListUsers
  <2>1. job \in Jobs /\ job.pc = "list" /\ job.kind \in {"create", "remove", "password"} /\ UNCHANGED <<cam, chan, store, bidden, doubt>>
    BY <1>2, LoginTypes, KindOf DEF ListUsers, At
  <2>2. CASE job' = NoJob
    BY <2>1, <2>2, EndsUntouched
  <2>3. CASE job.login = cam.admin /\ ~(job.kind = "create" /\ cam.net) /\ job' # NoJob
    <3>1. CASE job.kind = "create"
      <4>1. On("post") /\ cam.net = FALSE
        BY <1>2, <2>1, <2>3, <3>1, LoginTypes DEF ListUsers, EndsAs
      <4> QED BY <4>1, <2>1, <2>3, <3>1, ListCreates
    <3>2. CASE job.kind = "password"
      <4>1. On("pause")
        BY <1>2, <2>1, <2>3, <3>2 DEF ListUsers, EndsAs
      <4> QED BY <4>1, <2>1, <2>3, <3>2, ListChanges
    <3>3. CASE job.kind = "remove" /\ cam.net
      <4>1. On("delete")
        BY <1>2, <2>1, <2>3, <3>3 DEF ListUsers, EndsAs
      <4> QED BY <4>1, <2>1, <2>3, <3>3, ListDeletes
    <3>4. CASE job.kind = "remove" /\ ~cam.net
      <4>1. On("save") /\ cam.net = FALSE
        BY <1>2, <2>1, <2>3, <3>4, LoginTypes DEF ListUsers, EndsAs
      <4> QED BY <4>1, <2>1, <2>3, <3>4, ListFindsNone
    <3> QED BY <2>1, <3>1, <3>2, <3>3, <3>4
  <2> QED BY <1>2, <2>2, <2>3 DEF ListUsers, EndsAs
<1>3. CASE ListUnread
  <2>1. job \in Jobs /\ job.pc = "list" /\ UNCHANGED <<cam, chan, store, bidden>>
    BY <1>3, LoginTypes DEF ListUnread, LostAt, At
  <2>2. CASE job.kind = "remove"
    <3>1. On("save") /\ doubt' = doubt \cup {"user"}
      BY <1>3, <2>2 DEF ListUnread, Doubts
    <3> QED BY <3>1, <2>1, <2>2, ListTakenForNone
  <2>3. CASE job.kind # "remove"
    <3>1. job' = NoJob /\ UNCHANGED doubt
      BY <1>3, <2>3 DEF ListUnread, EndsAs
    <3> QED BY <3>1, <2>1, EndsUntouched
  <2> QED BY <2>2, <2>3
<1>4. CASE PostUser
  BY <1>4, UserPosted
<1>5. CASE PostRefused
  <2>1. job \in Jobs /\ job.pc \in {"list", "post", "pause"} /\ job' = NoJob /\ UNCHANGED <<cam, chan, store, bidden, doubt>>
    BY <1>5, LoginTypes DEF PostRefused, At, RefusedAt, LostAt, On, EndsAs, Doubts, StoreUnchanged, NoJob
  <2> QED BY <2>1, EndsUntouched
<1>6. CASE PostLost
  <2>1. PICK b \in BOOLEAN : cam' = [cam EXCEPT !.net = b]
    BY <1>6 DEF PostLost
  <2>2. job \in Jobs /\ job.pc \in {"post", "undo", "delete", "rights"} /\ job' = NoJob /\ doubt' = doubt \cup {"user"} /\ UNCHANGED <<chan, store, bidden>>
    BY <1>6, LoginTypes DEF PostLost, At, RefusedAt, LostAt, On, EndsAs, Doubts, StoreUnchanged, NoJob
  <2> QED BY <2>1, <2>2, EndsInDoubt
<1>7. CASE SetRights
  BY <1>7, RightsSet
<1>8. CASE ProveLogin
  BY <1>8, LoginProved
<1>9. CASE \E pc \in {"rights", "proof"} : AccountFails(pc) \/ AccountLost(pc)
  <2>1. PICK pc \in {"rights", "proof"} : AccountFails(pc) \/ AccountLost(pc)
    BY <1>9
  <2>2. PICK words \in {"nothing", "no answer"} : job' = [job EXCEPT !.pc = "undo", !.words = words]
    BY <2>1 DEF AccountFails, AccountLost, AfterFailure
  <2>3. job \in Jobs /\ job.pc \in {"rights", "proof"} /\ UNCHANGED <<cam, chan, store, bidden, doubt>>
    BY <2>1, LoginTypes DEF AccountFails, AccountLost, RefusedAt, LostAt, At, StoreUnchanged
  <2>4. CASE job' = [job EXCEPT !.pc = "undo", !.words = "nothing"]
    BY <2>3, <2>4, AccountUndone
  <2>5. CASE job' = [job EXCEPT !.pc = "undo", !.words = "no answer"]
    BY <2>3, <2>5, AccountUndone
  <2> QED BY <2>2, <2>4, <2>5
<1>10. CASE RightsDenied
  <2>1. job \in Jobs /\ job.pc \in {"undo", "rights"} /\ job' = NoJob /\ doubt' = doubt \cup {"user"} /\ UNCHANGED <<cam, chan, store, bidden>>
    BY <1>10, LoginTypes DEF RightsDenied, At, RefusedAt, LostAt, On, EndsAs, Doubts, StoreUnchanged, NoJob
  <2> QED BY <2>1, EndsUnsure
<1>11. CASE UndoUser
  BY <1>11, UserUndone
<1>12. CASE UndoRefused
  <2>1. CASE job.words = "nothing"
    <3>1. job \in Jobs /\ job.pc \in {"undo", "delete"} /\ job' = NoJob /\ bidden' = bidden \cup {"user"} /\ UNCHANGED <<cam, chan, store, doubt>>
      BY <1>12, <2>1, LoginTypes DEF UndoRefused, At, RefusedAt, LostAt, On, EndsAs, Doubts, StoreUnchanged, NoJob
    <3> QED BY <3>1, UserByHand
  <2>2. CASE job.words # "nothing"
    <3>1. job \in Jobs /\ job.pc \in {"undo", "rights"} /\ job' = NoJob /\ doubt' = doubt \cup {"user"} /\ UNCHANGED <<cam, chan, store, bidden>>
      BY <1>12, <2>2, LoginTypes DEF UndoRefused, At, RefusedAt, LostAt, On, EndsAs, Doubts, StoreUnchanged, NoJob
    <3> QED BY <3>1, EndsUnsure
  <2> QED BY <2>1, <2>2
<1>13. CASE UndoLost
  <2>1. PICK b \in BOOLEAN : cam' = [cam EXCEPT !.net = b]
    BY <1>13 DEF UndoLost
  <2>2. job \in Jobs /\ job.pc \in {"post", "undo", "delete", "rights"} /\ job' = NoJob /\ doubt' = doubt \cup {"user"} /\ UNCHANGED <<chan, store, bidden>>
    BY <1>13, LoginTypes DEF UndoLost, At, RefusedAt, LostAt, On, EndsAs, Doubts, StoreUnchanged, NoJob
  <2> QED BY <2>1, <2>2, EndsInDoubt
<1>14. CASE DeleteUser
  BY <1>14, UserDeleted
<1>15. CASE DeleteRefused
  <2>1. job \in Jobs /\ job.pc \in {"undo", "delete"} /\ job' = NoJob /\ bidden' = bidden \cup {"user"} /\ UNCHANGED <<cam, chan, store, doubt>>
    BY <1>15, LoginTypes DEF DeleteRefused, StopsRefused, At, RefusedAt, LostAt, On, EndsAs, Doubts, StoreUnchanged, NoJob
  <2> QED BY <2>1, UserByHand
<1>16. CASE DeleteLost
  <2>1. PICK b \in BOOLEAN : cam' = [cam EXCEPT !.net = b]
    BY <1>16 DEF DeleteLost
  <2>2. job \in Jobs /\ job.pc \in {"post", "undo", "delete", "rights"} /\ job' = NoJob /\ doubt' = doubt \cup {"user"} /\ UNCHANGED <<chan, store, bidden>>
    BY <1>16, LoginTypes DEF DeleteLost, At, RefusedAt, LostAt, On, EndsAs, Doubts, StoreUnchanged, NoJob
  <2> QED BY <2>1, <2>2, EndsInDoubt
<1>17. CASE SaveAccount
  BY <1>17, CreatedSaved, RemovedSaved
<1>18. CASE SaveSlot
  BY <1>18, CreateEnds, RemoveEnds
<1> QED BY <1>1, <1>2, <1>3, <1>4, <1>5, <1>6, <1>7, <1>8, <1>9, <1>10, <1>11, <1>12, <1>13, <1>14, <1>15, <1>16, <1>17, <1>18 DEF AccountJob


LEMMA PasswordKeeps ==
    ASSUME LoginInv, PasswordJob
    PROVE  LoginInv'
<1>1. CASE \E p \in Passwords : StartPassword(p)
  BY <1>1, PasswordStarts
<1>2. CASE PauseLock
  BY <1>2, LockPaused
<1>3. CASE PauseRefused
  <2>1. job \in Jobs /\ job.pc \in {"list", "post", "pause"} /\ job' = NoJob /\ UNCHANGED <<cam, chan, store, bidden, doubt>>
    BY <1>3, LoginTypes DEF PauseRefused, At, RefusedAt, LostAt, On, EndsAs, Doubts, StoreUnchanged, NoJob
  <2> QED BY <2>1, EndsUntouched
<1>4. CASE PauseLost
  <2>1. job \in Jobs /\ job.pc = "pause" /\ UNCHANGED <<chan, store, bidden>> /\ cam.lock \in BOOLEAN
    BY <1>4, LoginTypes DEF PauseLost, LostAt, At, StoreUnchanged
  <2>2. CASE On("write") /\ UNCHANGED <<cam, doubt>>
    BY <2>1, <2>2, LockLeftAlone
  <2>3. CASE job' = NoJob /\ doubt' = doubt \cup {"lock"} /\ \E on \in {cam.lock, FALSE} : cam' = [cam EXCEPT !.lock = on]
    <3>1. PICK b \in BOOLEAN : cam' = [cam EXCEPT !.lock = b]
      BY <2>1, <2>3
    <3> QED BY <3>1, <2>1, <2>3, LockUnknown
  <2> QED BY <1>4, <2>2, <2>3 DEF PauseLost, EndsAs, Doubts
<1>5. CASE WritePassword
  <2>1. job \in Jobs /\ job.pc = "write" /\ On("test") /\ UNCHANGED <<chan, store, bidden, doubt>>
    BY <1>5, LoginTypes DEF WritePassword, At, StoreUnchanged
  <2>2. CASE cam' = [cam EXCEPT !.admin = job.new]
    BY <2>1, <2>2, PasswordTaken
  <2>3. CASE UNCHANGED cam
    BY <2>1, <2>3, PasswordSaidTaken
  <2> QED BY <1>5, <2>2, <2>3 DEF WritePassword
<1>6. CASE WriteRefused
  <2>1. job.pc = "write" /\ job \in Jobs /\ job' = [job EXCEPT !.pc = "restore", !.words = "nothing"] /\ UNCHANGED <<cam, chan, store, bidden, doubt>>
    BY <1>6, LoginTypes DEF WriteRefused, NothingRestores, At, RefusedAt, LostAt, On, EndsAs, Doubts, StoreUnchanged, NoJob
  <2> QED BY <2>1, NothingToRestore
<1>7. CASE WriteDenied
  <2>1. job \in Jobs /\ job.pc = "write" /\ job' = NoJob /\ doubt' = doubt \cup {"lock"} /\ UNCHANGED <<cam, chan, store, bidden>>
    BY <1>7, LoginTypes DEF WriteDenied, At, RefusedAt, LostAt, On, EndsAs, Doubts, StoreUnchanged, NoJob
  <2> QED BY <2>1, PasswordDenied
<1>8. CASE WriteLost
  <2>1. job \in Jobs /\ job.pc \in {"write", "test"} /\ job' = NoJob /\ doubt' = doubt \cup {"password", "lock"} /\ UNCHANGED <<chan, store, bidden>>
    BY <1>8, LoginTypes DEF WriteLost, At, RefusedAt, LostAt, On, EndsAs, Doubts, StoreUnchanged, NoJob
  <2>2. job.new \in Passwords
    BY <2>1, KindOf, LoginTypes, LoginFields
  <2>3. PICK p \in Passwords : cam' = [cam EXCEPT !.admin = p]
    BY <1>8, <2>2, LoginTypes DEF WriteLost
  <2>4. cam' \in Cams /\ cam'.net = cam.net
    BY <2>3, LoginTypes, CamFields
  <2> QED BY <2>1, <2>4, PasswordInDoubt
<1>9. CASE TestNew
  <2>1. job \in Jobs /\ job.pc = "test" /\ UNCHANGED <<cam, chan, store, bidden, doubt>>
    BY <1>9, LoginTypes DEF TestNew, At, RefusedAt, LostAt, On, EndsAs, Doubts, StoreUnchanged, NoJob
  <2>2. CASE cam.admin = job.new
    <3>1. On("save")
      BY <1>9, <2>2 DEF TestNew
    <3> QED BY <3>1, <2>1, <2>2, PasswordProved
  <2>3. CASE cam.admin # job.new
    <3>1. job' = [job EXCEPT !.pc = "restore", !.words = "nothing"]
      BY <1>9, <2>3 DEF TestNew, NothingRestores
    <3> QED BY <3>1, <2>1, <2>3, NothingToRestore
  <2> QED BY <2>2, <2>3
<1>10. CASE TestLost
  <2>1. job \in Jobs /\ job.pc \in {"write", "test"} /\ job' = NoJob /\ doubt' = doubt \cup {"password", "lock"} /\ UNCHANGED <<chan, store, bidden>>
    BY <1>10, LoginTypes DEF TestLost, At, RefusedAt, LostAt, On, EndsAs, Doubts, StoreUnchanged, NoJob
  <2>2. cam' \in Cams /\ cam'.net = cam.net
    BY <1>10, LoginTypes DEF TestLost
  <2> QED BY <2>1, <2>2, PasswordInDoubt
<1>11. CASE SavePassword
  <2>1. job.reached \in BOOLEAN
    BY <1>11, LoginTypes DEF SavePassword, At, Jobs
  <2>2. CASE job.reached = TRUE /\ store.slot # NoPassword
    BY <1>11, <2>2, SlotSavedReached
  <2>3. CASE job.reached = TRUE /\ store.slot = NoPassword
    BY <1>11, <2>3, LoginSavedReached
  <2>4. CASE job.reached = FALSE /\ store.slot # NoPassword
    BY <1>11, <2>4, SlotSavedMissed
  <2>5. CASE job.reached = FALSE /\ store.slot = NoPassword
    BY <1>11, <2>5, LoginSavedMissed
  <2> QED BY <2>1, <2>2, <2>3, <2>4, <2>5
<1>12. CASE PutChannel
  BY <1>12, ChannelPut
<1>13. CASE ChannelFails
  BY <1>13, ChannelMissed
<1>14. CASE RestoreLock
  BY <1>14, LockRestored
<1>15. CASE RestoreFails
  BY <1>15, LockNotRestored
<1> QED BY <1>1, <1>2, <1>3, <1>4, <1>5, <1>6, <1>7, <1>8, <1>9, <1>10, <1>11, <1>12, <1>13, <1>14, <1>15 DEF PasswordJob


LEMMA BesidesKeeps ==
    ASSUME LoginInv, Besides
    PROVE  LoginInv'
<1>1. CASE FixLogin
  BY <1>1, ChannelFixed
<1>2. CASE SaveAdmin
  BY <1>2, AdminSaved
<1>3. CASE RemoveByHand
  BY <1>3, UserGoneByHand
<1>4. CASE StopNetwatch
  BY <1>4, JobStopped
<1>5. CASE \E p \in Passwords : ChangeByHand(p)
  BY <1>5, ChangedByHand
<1> QED BY <1>1, <1>2, <1>3, <1>4, <1>5 DEF Besides

LEMMA LoginBegins ==
    ASSUME LoginInit
    PROVE  LoginInv
<1>1. PICK p \in Passwords : /\ cam = [admin |-> p, net |-> FALSE, lock |-> TRUE] /\ chan = p
                             /\ store = [user |-> "admin", pw |-> p, slot |-> NoPassword]
  BY DEF LoginInit
<1>2. job = NoJob /\ job.pc = "idle" /\ bidden = {} /\ doubt = {}
  BY DEF LoginInit, NoJob
<1>3. /\ cam \in Cams /\ cam.admin = p /\ ~cam.net /\ cam.lock
      /\ store \in Stores /\ store.user = "admin" /\ store.pw = p /\ store.slot = NoPassword
  BY <1>1 DEF Cams, Stores
<1>4. LoginTypeOK /\ JobTyped /\ WordsInv
  BY <1>1, <1>2, <1>3 DEF LoginTypeOK, JobTyped, WordsInv
<1>5. AdminInv /\ UserInv /\ LockInv /\ ChannelInv /\ DoneInv /\ WasInv
  BY <1>1, <1>2, <1>3 DEF AdminInv, UserInv, LockInv, ChannelInv, DoneInv, WasInv
<1> QED BY <1>4, <1>5 DEF LoginInv

LEMMA LoginKeeps ==
    ASSUME LoginInv, [LoginNext]_loginvars
    PROVE  LoginInv'
<1>1. CASE LoginNext
  BY <1>1, AccountKeeps, PasswordKeeps, BesidesKeeps DEF LoginNext
<1>2. CASE UNCHANGED loginvars
  <2>1. UNCHANGED <<cam, chan, store, job, bidden, doubt>>
    BY <1>2 DEF loginvars
  <2>2. LoginTypeOK' /\ JobTyped' /\ WordsInv'
    BY <2>1 DEF LoginInv, LoginTypeOK, JobTyped, WordsInv
  <2>3. AdminInv' /\ UserInv' /\ LockInv'
    BY <2>1 DEF LoginInv, AdminInv, UserInv, LockInv
  <2>4. ChannelInv' /\ DoneInv' /\ WasInv'
    BY <2>1 DEF LoginInv, ChannelInv, DoneInv, WasInv
  <2> QED BY <2>2, <2>3, <2>4 DEF LoginInv
<1> QED BY <1>1, <1>2

\* The logins that are saved, the camera and its recorder only ever hold what they can hold.
THEOREM LoginsTyped == LoginSpec => []LoginTypeOK
<1>1. LoginInv => LoginTypeOK
  BY DEF LoginInv
<1> QED BY <1>1, LoginBegins, LoginKeeps, PTL DEF LoginSpec

\* After every job (hiksecurity.account, change_password) the camera, its logins and its recorder
\* are as Netwatch has them on record, or people were told what is left to do.
THEOREM LoginsAccounted == LoginSpec => []Accounted
<1>1. LoginInv => Accounted
  <2> SUFFICES ASSUME LoginInv PROVE Accounted
    OBVIOUS
  <2>1. Idle => job.pc = "idle" /\ job = NoJob
    BY DEF Idle, NoJob
  <2>2. AdminKnown
    BY <2>1 DEF AdminKnown, LoginInv, AdminInv
  <2>3. UserAccounted
    <3>1. store.user \in {"admin", "netwatch"}
      BY LoginTypes DEF Stores
    <3> QED BY <2>1, <3>1 DEF UserAccounted, LoginInv, UserInv
  <2>4. LockAccounted
    BY <2>1 DEF LockAccounted, LoginInv, LockInv
  <2>5. KnocksSpared
    BY <2>1 DEF KnocksSpared, LoginInv, ChannelInv
  <2> QED BY <2>2, <2>3, <2>4, <2>5 DEF Accounted
<1> QED BY <1>1, LoginBegins, LoginKeeps, PTL DEF LoginSpec

\* How a job can end that says that all went well, or that nothing was changed.
LEMMA JobEndings ==
    ASSUME LoginInv, [LoginNext]_loginvars, ~Idle, Idle', said' \in {"nothing", "ok"}
    PROVE  \/ job.pc \in {"list", "post", "pause"} /\ UNCHANGED <<cam, store>> /\ said' = "nothing"
           \/ UndoUser \/ SaveSlot \/ RestoreLock \/ RestoreFails
<1>1. job \in Jobs /\ job # NoJob /\ job' = NoJob /\ NoJob.pc = "idle"
  BY DEF LoginInv, JobTyped, Idle, NoJob
<1>2. /\ ~On("post") /\ ~On("pause") /\ ~On("delete") /\ ~On("save") /\ ~On("rights") /\ ~On("proof") /\ ~On("slot")
      /\ ~On("write") /\ ~On("test") /\ ~On("channel") /\ ~On("restore")
  <2>1. \A pc \in AllSteps : ~On(pc)
    BY <1>1, JobSteps DEF On
  <2> QED BY <2>1 DEF AllSteps
<1>3. /\ job' # [job EXCEPT !.pc = "undo", !.words = "nothing"] /\ job' # [job EXCEPT !.pc = "undo", !.words = "no answer"]
      /\ job' # [job EXCEPT !.pc = "restore", !.words = "nothing"] /\ job' # [job EXCEPT !.pc = "write", !.back = cam.lock]
      /\ job' # [job EXCEPT !.pc = "restore", !.bad = TRUE] /\ job' # [job EXCEPT !.met = TRUE]
  <2>1. job.pc # "idle"
    BY <1>1 DEF Jobs
  <2> QED BY <2>1, <1>1 DEF Jobs
<1>4. job.kind \in {"create", "remove", "password"}
  BY <1>1, KindOf
<1>5. CASE AccountJob
  <2>1. CASE (\E kind \in {"create", "remove"} : StartAccount(kind)) \/ PostUser \/ SetRights \/ ProveLogin \/ DeleteUser \/ SaveAccount
    BY <2>1, <1>2 DEF StartAccount, PostUser, SetRights, ProveLogin, Proves, DeleteUser, SaveAccount
  <2>2. CASE PostLost \/ RightsDenied \/ UndoLost \/ DeleteRefused \/ DeleteLost
    BY <2>2 DEF PostLost, RightsDenied, UndoLost, DeleteRefused, DeleteLost, StopsRefused, EndsAs
  <2>3. CASE ListUsers
    BY <2>3, <1>2, <1>4 DEF ListUsers, At, EndsAs
  <2>4. CASE ListUnread
    BY <2>4, <1>2 DEF ListUnread, LostAt, At, EndsAs
  <2>5. CASE PostRefused
    BY <2>5 DEF PostRefused, RefusedAt, At, EndsAs, StoreUnchanged
  <2>6. CASE \E pc \in {"rights", "proof"} : AccountFails(pc) \/ AccountLost(pc)
    BY <2>6, <1>3 DEF AccountFails, AccountLost, AfterFailure
  <2>7. CASE UndoRefused
    BY <2>7 DEF UndoRefused, RefusedAt, At, EndsAs, LoginInv, WordsInv
  <2>8. CASE UndoUser \/ SaveSlot
    BY <2>8
  <2> QED BY <1>5, <2>1, <2>2, <2>3, <2>4, <2>5, <2>6, <2>7, <2>8 DEF AccountJob
<1>6. CASE PasswordJob
  <2>1. CASE (\E p \in Passwords : StartPassword(p)) \/ WritePassword \/ SavePassword \/ PutChannel
    <3>1. ~On(IF job.reached THEN "channel" ELSE "restore")
      BY <1>2
    <3> QED BY <2>1, <3>1, <1>2 DEF StartPassword, WritePassword, SavePassword, PutChannel
  <2>2. CASE WriteDenied \/ WriteLost \/ TestLost
    BY <2>2 DEF WriteDenied, WriteLost, TestLost, EndsAs
  <2>3. CASE PauseLock \/ WriteRefused \/ ChannelFails
    BY <2>3, <1>3 DEF PauseLock, WriteRefused, NothingRestores, ChannelFails, ChannelBad
  <2>4. CASE TestNew
    BY <2>4, <1>2, <1>3 DEF TestNew, NothingRestores
  <2>5. CASE PauseRefused
    BY <2>5 DEF PauseRefused, RefusedAt, At, EndsAs, StoreUnchanged
  <2>6. CASE PauseLost
    BY <2>6, <1>2 DEF PauseLost, EndsAs
  <2>7. CASE RestoreLock \/ RestoreFails
    BY <2>7
  <2> QED BY <1>6, <2>1, <2>2, <2>3, <2>4, <2>5, <2>6, <2>7 DEF PasswordJob
<1>7. CASE Besides
  <2>1. CASE FixLogin \/ RemoveByHand \/ \E p \in Passwords : ChangeByHand(p)
    BY <2>1 DEF FixLogin, RemoveByHand, ChangeByHand
  <2>2. CASE SaveAdmin
    BY <2>2, <1>3 DEF SaveAdmin
  <2>3. CASE StopNetwatch
    BY <2>3 DEF StopNetwatch, EndsAs
  <2> QED BY <1>7, <2>1, <2>2, <2>3 DEF Besides
<1>8. CASE UNCHANGED loginvars
  BY <1>1, <1>8 DEF loginvars
<1> QED BY <1>5, <1>6, <1>7, <1>8 DEF LoginNext

\* A job that says that nothing (else) was changed left the admin's password, the user netwatch
\* and the saved logins as it found them.
THEOREM NothingIsNothing == LoginSpec => NothingChanged
<1>1. ASSUME LoginInv, [LoginNext]_loginvars, JobEnds("nothing")
      PROVE  <<cam'.admin, cam'.net, store'>> = job.was
  <2>1. job \in Jobs /\ job # NoJob /\ ~Idle /\ Idle' /\ said' = "nothing" /\ ~job.met /\ cam \in Cams
    BY <1>1 DEF JobEnds, Idle, LoginInv, LoginTypeOK, JobTyped
  <2>2. job.was = <<job.was[1], job.was[2], job.was[3]>> /\ job.was[2] \in BOOLEAN
    <3>1. job.was \in Passwords \X BOOLEAN \X Stores
      BY <2>1 DEF Jobs
    <3>2. \A w \in Passwords \X BOOLEAN \X Stores : w = <<w[1], w[2], w[3]>> /\ w[2] \in BOOLEAN
      OBVIOUS
    <3> QED BY <3>1, <3>2
  <2>3. CASE job.pc \in {"list", "post", "pause"} /\ UNCHANGED <<cam, store>>
    <3>1. store = job.was[3] /\ cam.admin = job.was[1] /\ cam.net = job.was[2]
      BY <1>1, <2>1, <2>3 DEF LoginInv, WasInv
    <3> QED BY <2>2, <2>3, <3>1
  <2>4. CASE UndoUser
    <3>1. job.pc = "undo" /\ cam'.admin = cam.admin /\ cam'.net = FALSE /\ store' = store
      BY <2>1, <2>4 DEF UndoUser, At, StoreUnchanged, Cams
    <3>2. job.kind = "create"
      BY <1>1, <2>1, <3>1, KindOf
    <3>3. store = job.was[3] /\ cam.admin = job.was[1] /\ job.was[2] = FALSE
      BY <1>1, <2>1, <2>2, <3>1, <3>2 DEF LoginInv, WasInv
    <3> QED BY <2>2, <3>1, <3>3
  <2>5. CASE RestoreLock \/ RestoreFails
    <3>1. job.pc = "restore" /\ cam'.admin = cam.admin /\ cam'.net = cam.net /\ store' = store /\ job.words # "ok"
      BY <2>1, <2>5 DEF RestoreLock, RestoreFails, Finishes, EndsAs, At, Cams
    <3>2. job.kind = "password"
      BY <1>1, <2>1, <3>1, KindOf
    <3>3. store = job.was[3] /\ cam.admin = job.was[1] /\ cam.net = job.was[2]
      BY <1>1, <2>1, <3>1, <3>2 DEF LoginInv, WasInv
    <3> QED BY <2>2, <3>1, <3>3
  <2>6. ~SaveSlot
    BY <2>1 DEF SaveSlot, EndsAs
  <2> QED BY <1>1, <2>1, <2>3, <2>4, <2>5, <2>6, JobEndings
<1>2. LoginInv /\ [LoginNext]_loginvars => (JobEnds("nothing") => <<cam'.admin, cam'.net, store'>> = job.was)
  BY <1>1
<1>3. LoginInv /\ [LoginNext]_loginvars => [JobEnds("nothing") => <<cam'.admin, cam'.net, store'>> = job.was]_loginvars
  BY <1>2
<1> QED BY <1>3, LoginBegins, LoginKeeps, PTL DEF LoginSpec, NothingChanged

\* A job that ends well leaves the camera, the saved logins and the recorder's channel in step.
THEOREM GoodEndsAreWhole == LoginSpec => EndsWhole
<1>1. ASSUME LoginInv, [LoginNext]_loginvars, JobEnds("ok")
      PROVE  InStep
  <2>1. job \in Jobs /\ job # NoJob /\ ~Idle /\ Idle' /\ said' = "ok" /\ ~job.met /\ cam \in Cams /\ store \in Stores
    BY <1>1 DEF JobEnds, Idle, LoginInv, LoginTypeOK, JobTyped
  <2>2. CASE UndoUser
    BY <1>1, <2>1, <2>2 DEF UndoUser, At, EndsAs, LoginInv, WordsInv
  <2>3. CASE SaveSlot
    <3>1. job.pc = "slot" /\ store' = [store EXCEPT !.slot = KeptAdmin] /\ UNCHANGED <<cam, chan, doubt>>
      BY <2>3 DEF SaveSlot, At
    <3>2. store' = [user |-> store.user, pw |-> store.pw, slot |-> KeptAdmin]
      BY <2>1, <3>1 DEF Stores
    <3>3. job.kind \in {"create", "remove"}
      BY <1>1, <2>1, <3>1, KindOf
    <3>4. CASE job.kind = "create"
      <4>1. cam.net /\ job.login = cam.admin /\ store.user = "netwatch" /\ store.pw = OwnPassword
        BY <1>1, <2>1, <3>1, <3>4 DEF LoginInv, DoneInv
      <4> QED BY <4>1, <3>1, <3>2, <3>4 DEF InStep, KeptAdmin
    <3>5. CASE job.kind = "remove"
      <4>1. /\ "user" \in doubt \/ (~cam.net /\ job.login = cam.admin)
            /\ store.user = "admin" /\ store.pw = job.login
        BY <1>1, <2>1, <3>1, <3>5 DEF LoginInv, DoneInv
      <4> QED BY <4>1, <3>1, <3>2, <3>5 DEF InStep, KeptAdmin
    <3> QED BY <3>3, <3>4, <3>5
  <2>4. CASE RestoreLock \/ RestoreFails
    <3>1. job.pc = "restore" /\ cam'.admin = cam.admin /\ UNCHANGED chan /\ (doubt' = doubt \/ doubt' = doubt \cup {"lock"})
      BY <2>1, <2>4 DEF RestoreLock, RestoreFails, Finishes, At, Cams
    <3>2. job.words = "ok" /\ ~job.bad
      BY <2>1, <2>4 DEF RestoreLock, RestoreFails, Finishes, EndsAs
    <3>3. job.kind = "password"
      BY <1>1, <2>1, <3>1, KindOf
    <3>4. chan = cam.admin \/ "channel" \in doubt
      BY <1>1, <2>1, <3>1, <3>2, <3>3 DEF LoginInv, DoneInv
    <3> QED BY <3>1, <3>3, <3>4 DEF InStep
  <2> QED BY <1>1, <2>1, <2>2, <2>3, <2>4, JobEndings
<1>2. LoginInv /\ [LoginNext]_loginvars => [JobEnds("ok") => InStep]_loginvars
  BY <1>1
<1> QED BY <1>2, LoginBegins, LoginKeeps, PTL DEF LoginSpec, EndsWhole
=============================================================================
