-------------------------- MODULE HubPoller_proofs --------------------------
(***************************************************************************)
(* Proofs about the hub's alerts and its cached device list, for every set *)
(* of devices, conflicts and rogue servers, every debounce and every       *)
(* number of polls, turns of the link, edits and restarts.                 *)
(***************************************************************************)
EXTENDS HubPoller, TLAPS

(***************************************************************************)
(* Types, one part of the state at a time.                                 *)
(***************************************************************************)
SiteTyped == link \in BOOLEAN /\ site \in Payload /\ acked \subseteq site.overlap /\ rogue \subseteq Rogues
OffTyped  == reach \in BOOLEAN /\ miss \in 0..OfflineAfter /\ alerted \in BOOLEAN
SnapTyped == snap \in Payload \cup {None} /\ snapDisk \in Payload \cup {None}
EdgeTyped == rogueSeen \subseteq Rogues /\ confSeen \subseteq Ips
OverTyped == over \in [Devs -> {NoEdit} \cup [field : Fields, to : BOOLEAN, late : BOOLEAN]]
MonTyped  == mon \in Watch \cup {None} /\ monDisk \in Watch \cup {None}
StTyped   == st \in Waits \cup Answers \cup Applied \cup Reports
DvTyped   == dv \in Waits \cup Lists \cup Pushes
EditTyped == edit \in {NoEdit} \cup [dev : Devs, field : Fields, to : BOOLEAN] /\ lastEdit \in [Devs -> Fields \cup {None}]
SaidTyped == told \in [Devs -> {"none", "off", "on"}] /\ siteTold \in {"none", "off", "on"} /\ counted \subseteq Devs /\ crashed \subseteq Devs
PageTyped == confTold \subseteq Ips /\ rogueTold \subseteq Rogues /\ paged \subseteq Ips \cup Rogues /\ fellBack \subseteq Ips

LEMMA TypeParts ==
    /\ TypeOK <=> /\ SiteTyped /\ OffTyped /\ SnapTyped /\ EdgeTyped /\ OverTyped /\ MonTyped
                  /\ StTyped /\ DvTyped /\ EditTyped /\ SaidTyped /\ PageTyped
    /\ TypeOK' <=> /\ SiteTyped' /\ OffTyped' /\ SnapTyped' /\ EdgeTyped' /\ OverTyped' /\ MonTyped'
                   /\ StTyped' /\ DvTyped' /\ EditTyped' /\ SaidTyped' /\ PageTyped'
BY DEF TypeOK, SiteTyped, OffTyped, SnapTyped, EdgeTyped, OverTyped, MonTyped, StTyped, DvTyped, EditTyped, SaidTyped, PageTyped

LEMMA Stays ==
    /\ SiteTyped /\ UNCHANGED siteVars => SiteTyped'
    /\ OffTyped /\ UNCHANGED offVars => OffTyped'
    /\ SnapTyped /\ UNCHANGED <<snap, snapDisk>> => SnapTyped'
    /\ EdgeTyped /\ UNCHANGED edgeVars => EdgeTyped'
    /\ OverTyped /\ UNCHANGED over => OverTyped'
    /\ MonTyped /\ UNCHANGED monVars => MonTyped'
    /\ StTyped /\ UNCHANGED st => StTyped'
    /\ DvTyped /\ UNCHANGED dv => DvTyped'
    /\ EditTyped /\ UNCHANGED <<edit, lastEdit>> => EditTyped'
    /\ SaidTyped /\ UNCHANGED <<told, siteTold, counted, crashed>> => SaidTyped'
    /\ PageTyped /\ UNCHANGED <<confTold, rogueTold, paged, fellBack>> => PageTyped'
BY DEF SiteTyped, OffTyped, SnapTyped, EdgeTyped, OverTyped, MonTyped, StTyped, DvTyped, EditTyped, SaidTyped, PageTyped,
       siteVars, offVars, edgeVars, monVars

\* What the site sends stays whole when one field of it changes.
LEMMA PayloadWhole ==
    ASSUME NEW p \in Payload
    PROVE  /\ p.there \in SUBSET Devs /\ p.dev \in [Devs -> Health] /\ p.val \in [Devs -> [Fields -> BOOLEAN]] /\ p.overlap \in SUBSET Ips
           /\ \A d \in Devs, h \in Health : [p EXCEPT !.dev[d] = h] \in Payload
           /\ \A d \in Devs, f \in Fields, b \in BOOLEAN : [p EXCEPT !.val[d][f] = b] \in Payload
           /\ \A S \in SUBSET Devs : [p EXCEPT !.there = S] \in Payload
           /\ \A S \in SUBSET Ips : [p EXCEPT !.overlap = S] \in Payload
           /\ \A v \in [Devs -> [Fields -> BOOLEAN]] : [p EXCEPT !.val = v] \in Payload
<1>1. p.there \in SUBSET Devs /\ p.dev \in [Devs -> Health] /\ p.val \in [Devs -> [Fields -> BOOLEAN]] /\ p.overlap \in SUBSET Ips
  BY DEF Payload
<1>3. p = [there |-> p.there, dev |-> p.dev, val |-> p.val, overlap |-> p.overlap]
  BY DEF Payload
<1>4. ASSUME NEW d \in Devs, NEW h \in Health PROVE [p EXCEPT !.dev[d] = h] \in Payload
  <2>1. [p.dev EXCEPT ![d] = h] \in [Devs -> Health]
    BY <1>1
  <2>2. [p EXCEPT !.dev[d] = h] = [there |-> p.there, dev |-> [p.dev EXCEPT ![d] = h], val |-> p.val, overlap |-> p.overlap]
    BY <1>3
  <2> DEFINE e == [p.dev EXCEPT ![d] = h]
  <2> HIDE DEF e
  <2> QED BY <1>1, <2>1, <2>2 DEF Payload, e
<1>5. ASSUME NEW v \in [Devs -> [Fields -> BOOLEAN]] PROVE [p EXCEPT !.val = v] \in Payload
  <2>1. [p EXCEPT !.val = v] = [there |-> p.there, dev |-> p.dev, val |-> v, overlap |-> p.overlap]
    BY <1>3
  <2> QED BY <1>1, <2>1 DEF Payload
<1>6. ASSUME NEW d \in Devs, NEW f \in Fields, NEW b \in BOOLEAN PROVE [p EXCEPT !.val[d][f] = b] \in Payload
  <2>1. [p.val EXCEPT ![d][f] = b] \in [Devs -> [Fields -> BOOLEAN]]
    <3>1. p.val[d] \in [Fields -> BOOLEAN]
      BY <1>1
    <3>2. [p.val[d] EXCEPT ![f] = b] \in [Fields -> BOOLEAN]
      BY <3>1
    <3> QED BY <1>1, <3>2
  <2>2. [p EXCEPT !.val[d][f] = b] = [p EXCEPT !.val = [p.val EXCEPT ![d][f] = b]]
    BY <1>3
  <2> QED BY <1>5, <2>1, <2>2
<1>7. ASSUME NEW S \in SUBSET Devs PROVE [p EXCEPT !.there = S] \in Payload
  <2>1. [p EXCEPT !.there = S] = [there |-> S, dev |-> p.dev, val |-> p.val, overlap |-> p.overlap]
    BY <1>3
  <2> QED BY <1>1, <2>1 DEF Payload
<1>8. ASSUME NEW S \in SUBSET Ips PROVE [p EXCEPT !.overlap = S] \in Payload
  <2>1. [p EXCEPT !.overlap = S] = [there |-> p.there, dev |-> p.dev, val |-> p.val, overlap |-> S]
    BY <1>3
  <2> QED BY <1>1, <2>1 DEF Payload
<1> QED BY <1>1, <1>4, <1>5, <1>6, <1>7, <1>8

\* What a poll's steps carry.
LEMMA StepsWhole ==
    /\ StTyped => /\ st.step = "got" => st \in Answers /\ st.ok \in BOOLEAN /\ st.rogue \in SUBSET Rogues
                  /\ st.step \in {"offline", "rogue", "conflicts"} =>
                        /\ st \in Applied /\ st.ok \in BOOLEAN /\ st.rogue \in SUBSET Rogues /\ st.blind \in BOOLEAN
                        /\ st.reckoned \in SUBSET Ips /\ st.say \in {"no", "offline", "online"}
                        /\ st.miss \in 0..OfflineAfter
                  /\ st.step = "conflict" => /\ st \in Reports /\ st.ok \in BOOLEAN /\ st.blind \in BOOLEAN
                                             /\ st.conf \in SUBSET Ips /\ st.own \in BOOLEAN
    /\ DvTyped => /\ dv.step \in {"got", "check"} => dv \in Lists /\ dv.data \in Payload
                  /\ dv.step = "push" => dv \in Pushes /\ dv.went \in SUBSET Devs /\ dv.back \in SUBSET Devs
    /\ Idle \in Waits /\ Idle.step = "idle"
<1>1. Idle \in Waits /\ Idle.step = "idle"
  BY DEF Idle, Waits
<1>2. ASSUME StTyped
      PROVE  /\ st.step = "got" => st \in Answers
             /\ st.step \in {"offline", "rogue", "conflicts"} => st \in Applied
             /\ st.step = "conflict" => st \in Reports
  BY <1>2 DEF StTyped, Waits, Answers, Applied, Reports
<1>3. ASSUME DvTyped
      PROVE  /\ dv.step \in {"got", "check"} => dv \in Lists
             /\ dv.step = "push" => dv \in Pushes
  BY <1>3 DEF DvTyped, Waits, Lists, Pushes
<1>4. /\ st \in Answers => st.ok \in BOOLEAN /\ st.rogue \in SUBSET Rogues
      /\ st \in Applied => /\ st.ok \in BOOLEAN /\ st.rogue \in SUBSET Rogues /\ st.blind \in BOOLEAN
                           /\ st.reckoned \in SUBSET Ips /\ st.say \in {"no", "offline", "online"}
                           /\ st.miss \in 0..OfflineAfter
      /\ st \in Reports => st.ok \in BOOLEAN /\ st.blind \in BOOLEAN /\ st.conf \in SUBSET Ips /\ st.own \in BOOLEAN
  BY DEF Answers, Applied, Reports
<1>5. /\ dv \in Lists => dv.data \in Payload
      /\ dv \in Pushes => dv.went \in SUBSET Devs /\ dv.back \in SUBSET Devs
  BY DEF Lists, Pushes
<1> QED BY <1>1, <1>2, <1>3, <1>4, <1>5

LEMMA TypesOfSite ==
    ASSUME TypeOK, \/ LinkTurns
                   \/ \E d \in Devs : DevTurns(d) \/ WatchTurns(d) \/ Forget(d)
                   \/ \E d \in Devs, f \in Fields : EditSite(d, f)
                   \/ \E i \in Ips : ConflictTurns(i)
                   \/ \E r \in Rogues : RogueTurns(r)
    PROVE  TypeOK'
<1>0. /\ SiteTyped /\ OffTyped /\ SnapTyped /\ EdgeTyped /\ OverTyped /\ MonTyped
      /\ StTyped /\ DvTyped /\ EditTyped /\ SaidTyped /\ PageTyped
  BY TypeParts
<1>s. site \in Payload /\ acked \subseteq site.overlap
  BY DEF TypeOK
<1>1. ASSUME SiteTyped', SnapTyped', EditTyped', SaidTyped', PageTyped', UNCHANGED <<offVars, edgeVars, over, monVars, st, dv>>
      PROVE  TypeOK'
  <2>1. OffTyped' /\ EdgeTyped' /\ OverTyped' /\ MonTyped' /\ StTyped' /\ DvTyped'
    BY <1>0, <1>1, Stays
  <2> QED BY <1>1, <2>1, TypeParts
<1>2. CASE LinkTurns
  <2>1. UNCHANGED <<offVars, edgeVars, over, monVars, st, dv, snap, snapDisk, edit, lastEdit, site, acked, rogue>>
    BY <1>2 DEF LinkTurns, hubVars
  <2>2. UNCHANGED <<told, siteTold, counted, crashed, confTold, rogueTold, paged, fellBack>>
    BY <1>2 DEF LinkTurns, toldVars
  <2>3. SiteTyped'
    BY <1>0, <1>2, <2>1 DEF LinkTurns, SiteTyped
  <2> QED BY <1>0, <1>1, <2>1, <2>2, <2>3, Stays
<1>3. ASSUME NEW d \in Devs, DevTurns(d) PROVE TypeOK'
  <2>1. UNCHANGED <<offVars, edgeVars, over, monVars, st, dv, snap, snapDisk, edit, lastEdit, link, acked, rogue>>
    BY <1>3 DEF DevTurns, hubVars
  <2>2. UNCHANGED <<told, siteTold, crashed, confTold, rogueTold, paged, fellBack>>
    BY <1>3 DEF DevTurns
  <2>3. PICK h \in {Worse(site.dev[d]), "up"} \ {site.dev[d]} :
            site' = [site EXCEPT !.dev[d] = h] /\ counted' = IF h = "down" THEN counted \cup {d} ELSE counted
    BY <1>3 DEF DevTurns
  <2>4. h \in Health
    BY <2>3 DEF Worse, Health
  <2>5. site' \in Payload /\ site'.overlap = site.overlap
    BY <1>s, <2>3, <2>4, PayloadWhole DEF Payload
  <2>6. SiteTyped'
    BY <1>0, <2>1, <2>5 DEF SiteTyped
  <2>7. SaidTyped'
    BY <1>0, <2>2, <2>3 DEF SaidTyped
  <2> QED BY <1>0, <1>1, <2>1, <2>2, <2>6, <2>7, Stays
<1>4. ASSUME NEW d \in Devs, WatchTurns(d) PROVE TypeOK'
  <2>1. UNCHANGED <<offVars, edgeVars, over, monVars, st, dv, snap, snapDisk, edit, link, acked, rogue>>
    BY <1>4 DEF WatchTurns, hubVars
  <2>2. UNCHANGED <<told, siteTold, counted, crashed, confTold, rogueTold, paged, fellBack>>
    BY <1>4 DEF WatchTurns, toldVars
  <2>3. site' = [site EXCEPT !.val[d]["watch"] = ~ site.val[d]["watch"]] /\ "watch" \in Fields
    BY <1>4 DEF WatchTurns, Fields
  <2>4. site' \in Payload /\ site'.overlap = site.overlap
    BY <1>s, <2>3, PayloadWhole DEF Payload
  <2>5. SiteTyped'
    BY <1>0, <2>1, <2>4 DEF SiteTyped
  <2>6. EditTyped'
    BY <1>0, <1>4, <2>1 DEF WatchTurns, EditTyped
  <2> QED BY <1>0, <1>1, <2>1, <2>2, <2>5, <2>6, Stays
<1>5. ASSUME NEW d \in Devs, Forget(d) PROVE TypeOK'
  <2>1. UNCHANGED <<offVars, edgeVars, over, monVars, st, dv, snapDisk, edit, lastEdit, link, acked, rogue>>
    BY <1>5 DEF Forget
  <2>2. UNCHANGED <<told, siteTold, counted, crashed, confTold, rogueTold, paged, fellBack>>
    BY <1>5 DEF Forget, toldVars
  <2>3. site.there \ {d} \in SUBSET Devs
    BY <1>s, PayloadWhole
  <2>4. site' \in Payload /\ site'.overlap = site.overlap
    BY <1>5, <1>s, <2>3, PayloadWhole DEF Forget, Payload
  <2>5. snap' \in Payload \cup {None}
    <3>1. CASE snap = None
      BY <1>5, <3>1 DEF Forget
    <3>2. CASE snap \in Payload
      <4>1. snap.there \ {d} \in SUBSET Devs
        BY <3>2, PayloadWhole
      <4>2. [snap EXCEPT !.there = snap.there \ {d}] \in Payload
        BY <3>2, <4>1, PayloadWhole
      <4>3. snap' = None \/ snap' = [snap EXCEPT !.there = snap.there \ {d}]
        BY <1>5 DEF Forget
      <4> QED BY <4>2, <4>3
    <3> QED BY <1>0, <3>1, <3>2 DEF SnapTyped
  <2>6. SiteTyped' /\ SnapTyped'
    BY <1>0, <2>1, <2>4, <2>5 DEF SiteTyped, SnapTyped
  <2> QED BY <1>0, <1>1, <2>1, <2>2, <2>6, Stays
<1>6. ASSUME NEW d \in Devs, NEW f \in Fields, EditSite(d, f) PROVE TypeOK'
  <2>1. UNCHANGED <<offVars, edgeVars, over, monVars, st, dv, snap, snapDisk, lastEdit, link, acked, rogue>>
    BY <1>6 DEF EditSite
  <2>2. UNCHANGED <<told, siteTold, counted, crashed, confTold, rogueTold, paged, fellBack>>
    BY <1>6 DEF EditSite, toldVars
  <2>3. site' = [site EXCEPT !.val[d][f] = ~ site.val[d][f]]
    BY <1>6 DEF EditSite
  <2>4. site' \in Payload /\ site'.overlap = site.overlap
    BY <1>s, <2>3, PayloadWhole DEF Payload
  <2>5. SiteTyped'
    BY <1>0, <2>1, <2>4 DEF SiteTyped
  <2>6. site'.val[d][f] \in BOOLEAN
    BY <2>4, PayloadWhole
  <2>7. EditTyped'
    BY <1>0, <1>6, <2>1, <2>6 DEF EditSite, EditTyped
  <2> QED BY <1>0, <1>1, <2>1, <2>2, <2>5, <2>7, Stays
<1>7. ASSUME NEW i \in Ips, ConflictTurns(i) PROVE TypeOK'
  <2>1. UNCHANGED <<offVars, edgeVars, over, monVars, st, dv, snap, snapDisk, edit, lastEdit, link, rogue>>
    BY <1>7 DEF ConflictTurns, hubVars
  <2>2. UNCHANGED <<told, siteTold, counted, crashed, rogueTold, paged>>
    BY <1>7 DEF ConflictTurns
  <2>3. site.overlap \in SUBSET Ips
    BY <1>s, PayloadWhole
  <2>4. site' \in Payload /\ acked' \subseteq site'.overlap
    <3>1. CASE site' = [site EXCEPT !.overlap = site.overlap \ {i}] /\ acked' = acked \ {i}
      <4>1. site' \in Payload /\ site'.overlap = site.overlap \ {i}
        BY <1>s, <2>3, <3>1, PayloadWhole DEF Payload
      <4> QED BY <1>s, <3>1, <4>1
    <3>2. CASE i \in site.overlap /\ acked' = acked \cup {i} /\ UNCHANGED site
      BY <1>s, <3>2
    <3>3. CASE site' = [site EXCEPT !.overlap = site.overlap \cup {i}] /\ acked' = acked
      <4>1. site' \in Payload /\ site'.overlap = site.overlap \cup {i}
        BY <1>s, <2>3, <3>3, PayloadWhole, ZenonT(60) DEF Payload
      <4> QED BY <1>s, <3>3, <4>1
    <3> QED BY <1>7, <3>1, <3>2, <3>3 DEF ConflictTurns
  <2>5. SiteTyped'
    BY <1>0, <2>1, <2>4 DEF SiteTyped
  <2>6. confTold' \subseteq confTold /\ fellBack' \subseteq fellBack
    BY <1>7 DEF ConflictTurns
  <2>7. PageTyped'
    BY <1>0, <2>2, <2>6 DEF PageTyped
  <2> QED BY <1>0, <1>1, <2>1, <2>2, <2>5, <2>7, Stays
<1>8. ASSUME NEW r \in Rogues, RogueTurns(r) PROVE TypeOK'
  <2>1. UNCHANGED <<offVars, edgeVars, over, monVars, st, dv, snap, snapDisk, edit, lastEdit, link, site, acked>>
    BY <1>8 DEF RogueTurns, hubVars
  <2>2. UNCHANGED <<told, siteTold, counted, crashed, confTold, paged, fellBack>>
    BY <1>8 DEF RogueTurns
  <2>3. SiteTyped' /\ PageTyped'
    BY <1>0, <1>8, <2>1, <2>2 DEF RogueTurns, SiteTyped, PageTyped
  <2> QED BY <1>0, <1>1, <2>1, <2>2, <2>3, Stays
<1> QED BY <1>2, <1>3, <1>4, <1>5, <1>6, <1>7, <1>8

LEMMA TypesOfStatus == ASSUME TypeOK, Status PROVE TypeOK'
<1>0. /\ SiteTyped /\ OffTyped /\ SnapTyped /\ EdgeTyped /\ OverTyped /\ MonTyped
      /\ StTyped /\ DvTyped /\ EditTyped /\ SaidTyped /\ PageTyped
  BY TypeParts
<1>1. UNCHANGED statusVars
  BY DEF Status, StAnswer, StApply, StOffline, StRogue, StConflicts, StConflict
<1>2. SiteTyped' /\ SnapTyped' /\ OverTyped' /\ MonTyped' /\ DvTyped' /\ EditTyped'
  BY <1>0, <1>1, Stays DEF statusVars
<1>3. ASSUME OffTyped', EdgeTyped', StTyped', SaidTyped', PageTyped' PROVE TypeOK'
  BY <1>2, <1>3, TypeParts
<1>4. UNCHANGED offVars => OffTyped'
  BY <1>0, Stays
<1>5. UNCHANGED edgeVars => EdgeTyped'
  BY <1>0, Stays
<1>6. UNCHANGED toldVars => SaidTyped' /\ PageTyped'
  BY <1>0, Stays DEF toldVars
<1>7. CASE StAnswer
  <2>1. st' \in Answers
    <3>1. st' = [step |-> "got", ok |-> TRUE, rogue |-> rogue] \/ st' = [step |-> "got", ok |-> FALSE, rogue |-> {}]
      BY <1>7 DEF StAnswer, Unanswered
    <3>2. rogue \in SUBSET Rogues
      BY <1>0 DEF SiteTyped
    <3>3. \A ok \in BOOLEAN, S \in SUBSET Rogues : [step |-> "got", ok |-> ok, rogue |-> S] \in Answers
      BY DEF Answers
    <3> QED BY <3>1, <3>2, <3>3
  <2>2. StTyped'
    BY <2>1 DEF StTyped
  <2> QED BY <1>3, <1>4, <1>5, <1>6, <1>7, <2>2 DEF StAnswer
<1>8. CASE StApply
  <2>1. st.ok \in BOOLEAN /\ st.rogue \in SUBSET Rogues
    BY <1>0, <1>8, StepsWhole DEF StApply
  <2>2. Fire(st.ok, alerted).say \in {"no", "offline", "online"} /\ Fire(st.ok, alerted).alerted \in BOOLEAN
    BY <1>0, <2>1 DEF Fire, OffTyped
  <2>3. miss' \in 0..OfflineAfter
    BY <1>0, <1>8, AfterAssumption DEF StApply, OffTyped
  <2>4. OffTyped'
    BY <1>8, <2>1, <2>2, <2>3 DEF StApply, OffTyped
  <2>5. (IF snap = None THEN {} ELSE snap.overlap) \in SUBSET Ips
    BY <1>0, PayloadWhole DEF SnapTyped
  <2>6. (Shown = {}) \in BOOLEAN
    BY SMT
  <2>7. st' \in Applied
    BY <1>8, <2>1, <2>2, <2>3, <2>5, <2>6 DEF StApply, Applied
  <2>8. StTyped'
    BY <2>7 DEF StTyped
  <2> QED BY <1>3, <1>5, <1>6, <1>8, <2>4, <2>8 DEF StApply
<1>9. CASE StOffline
  <2>1. st \in Applied
    BY <1>0, <1>9, StepsWhole DEF StOffline
  <2>2. st' \in Applied
    BY <1>9, <2>1 DEF StOffline, Applied
  <2>3. StTyped'
    BY <2>2 DEF StTyped
  <2>4. UNCHANGED <<reach, miss, edgeVars, told, confTold, rogueTold, paged, fellBack, counted, crashed>>
    BY <1>9 DEF StOffline
  <2>5. alerted' \in BOOLEAN /\ siteTold' \in {"none", "off", "on"}
    BY <1>0, <1>9 DEF StOffline, OffTyped, SaidTyped
  <2>6. OffTyped' /\ SaidTyped' /\ PageTyped'
    BY <1>0, <2>4, <2>5 DEF OffTyped, SaidTyped, PageTyped
  <2> QED BY <1>3, <1>5, <2>3, <2>4, <2>6
<1>10. CASE StRogue
  <2>1. st \in Applied /\ st.rogue \in SUBSET Rogues
    BY <1>0, <1>10, StepsWhole DEF StRogue
  <2>2. st' \in Applied
    BY <1>10, <2>1 DEF StRogue, Applied
  <2>3. StTyped'
    BY <2>2 DEF StTyped
  <2>4. EdgeTyped' /\ PageTyped'
    BY <1>0, <1>10, <2>1 DEF StRogue, EdgeTyped, PageTyped, News
  <2>5. SaidTyped'
    BY <1>0, <1>10 DEF StRogue, SaidTyped
  <2> QED BY <1>3, <1>4, <1>10, <2>3, <2>4, <2>5 DEF StRogue
<1>11. CASE StConflicts
  <2>1. st.ok \in BOOLEAN /\ st.blind \in BOOLEAN /\ st.reckoned \in SUBSET Ips
    BY <1>0, <1>11, StepsWhole DEF StConflicts
  <2>2. site.overlap \ acked \in SUBSET Ips
    BY <1>0, PayloadWhole DEF SiteTyped
  <2>3. st' \in Reports
    <3>1. \/ st' = [step |-> "conflict", ok |-> st.ok, blind |-> st.blind, conf |-> site.overlap \ acked, own |-> FALSE]
          \/ st' = [step |-> "conflict", ok |-> st.ok, blind |-> st.blind, conf |-> st.reckoned, own |-> TRUE]
      BY <1>11 DEF StConflicts
    <3>2. \A c \in SUBSET Ips, own \in BOOLEAN :
             [step |-> "conflict", ok |-> st.ok, blind |-> st.blind, conf |-> c, own |-> own] \in Reports
      BY <2>1 DEF Reports
    <3> QED BY <2>1, <2>2, <3>1, <3>2
  <2>4. StTyped'
    BY <2>3 DEF StTyped
  <2> QED BY <1>3, <1>4, <1>5, <1>6, <1>11, <2>4 DEF StConflicts
<1>12. CASE StConflict
  <2>1. st.conf \in SUBSET Ips
    BY <1>0, <1>12, StepsWhole DEF StConflict
  <2>2. StTyped'
    BY <1>12, StepsWhole DEF StConflict, StTyped
  <2>3. site.overlap \in SUBSET Ips
    BY <1>0, PayloadWhole DEF SiteTyped
  <2>4. EdgeTyped'
    BY <1>0, <1>12, <2>1 DEF StConflict, EdgeTyped
  <2>5. PageTyped'
    BY <1>0, <1>12, <2>1, <2>3 DEF StConflict, EdgeTyped, PageTyped, News
  <2>6. SaidTyped'
    BY <1>0, <1>12 DEF StConflict, SaidTyped
  <2> QED BY <1>3, <1>4, <1>12, <2>2, <2>4, <2>5, <2>6 DEF StConflict
<1> QED BY <1>7, <1>8, <1>9, <1>10, <1>11, <1>12 DEF Status

LEMMA PatchedWhole == ASSUME OverTyped, NEW p \in Payload PROVE Patched(p) \in Payload
<1> DEFINE v == [d \in Devs |-> IF over[d] # NoEdit /\ over[d].late /\ d \in p.there
                                THEN [p.val[d] EXCEPT ![over[d].field] = over[d].to] ELSE p.val[d]]
<1>1. ASSUME NEW d \in Devs PROVE v[d] \in [Fields -> BOOLEAN]
  <2>1. p.val[d] \in [Fields -> BOOLEAN]
    BY PayloadWhole
  <2>2. CASE over[d] # NoEdit
    <3>1. over[d].field \in Fields /\ over[d].to \in BOOLEAN
      BY <2>2 DEF OverTyped
    <3> QED BY <2>1, <3>1
  <2>3. CASE over[d] = NoEdit
    BY <2>1, <2>3
  <2> QED BY <2>2, <2>3
<1>2. v \in [Devs -> [Fields -> BOOLEAN]]
  BY <1>1
<1>3. Patched(p) = [p EXCEPT !.val = v]
  BY DEF Patched
<1> HIDE DEF v
<1> QED BY <1>2, <1>3, PayloadWhole

LEMMA WatchWhole ==
    ASSUME NEW mo \in SUBSET Devs, NEW down \in SUBSET Devs
    PROVE  [mon |-> mo, down |-> down] \in Watch
BY DEF Watch

\* What _check_monitored works with, after any list and any state.
LEMMA CheckWhole ==
    ASSUME MonTyped, NEW data \in Payload
    PROVE  /\ Memory \in Watch \cup {None} /\ Monitored(data) \in SUBSET Devs
           /\ Went(Memory, data) \in SUBSET Devs /\ Back(Memory, data) \in SUBSET Devs
           /\ StillDown(Memory, data) \in SUBSET Devs /\ StillDown(Memory, data) \subseteq Monitored(data)
<1>1. Memory \in Watch \cup {None}
  BY DEF MonTyped, Memory
<1>2. Memory # None => Memory.mon \in SUBSET Devs /\ Memory.down \in SUBSET Devs
  BY <1>1 DEF Watch
<1>3. data.there \in SUBSET Devs
  BY PayloadWhole
<1> QED BY <1>1, <1>2, <1>3 DEF Monitored, Went, Back, StillDown, ConfirmedDown, Answering

LEMMA TypesOfDevices == ASSUME TypeOK, Devices PROVE TypeOK'
<1>0. /\ SiteTyped /\ OffTyped /\ SnapTyped /\ EdgeTyped /\ OverTyped /\ MonTyped
      /\ StTyped /\ DvTyped /\ EditTyped /\ SaidTyped /\ PageTyped
  BY TypeParts
<1>1. UNCHANGED deviceVars
  BY DEF Devices, DvAnswer, DvApply, DvCheck, DvPush
<1>2. SiteTyped' /\ OffTyped' /\ EdgeTyped' /\ OverTyped' /\ StTyped' /\ EditTyped' /\ PageTyped'
  BY <1>0, <1>1, Stays DEF deviceVars
<1>3. ASSUME SnapTyped', MonTyped', DvTyped', SaidTyped' PROVE TypeOK'
  BY <1>2, <1>3, TypeParts
<1>4. UNCHANGED <<snap, snapDisk>> => SnapTyped'
  BY <1>0, Stays
<1>5. UNCHANGED monVars => MonTyped'
  BY <1>0, Stays
<1>6. UNCHANGED <<told, counted, crashed>> => SaidTyped'
  BY <1>0, <1>1, Stays DEF deviceVars
<1>7. CASE DvAnswer
  <2>1. dv' \in Waits \cup Lists
    BY <1>0, <1>7, StepsWhole DEF DvAnswer, Lists, SiteTyped
  <2>2. DvTyped'
    BY <2>1 DEF DvTyped
  <2> QED BY <1>3, <1>4, <1>5, <1>6, <1>7, <2>2 DEF DvAnswer
<1>8. CASE DvApply
  <2>1. Patched(dv.data) \in Payload
    BY <1>0, <1>8, StepsWhole, PatchedWhole DEF DvApply
  <2>2. SnapTyped' /\ snap' \in Payload
    BY <1>8, <2>1 DEF DvApply, SnapTyped
  <2>3. dv' \in Waits \cup Lists
    BY <1>8, <2>2, StepsWhole DEF DvApply, Lists
  <2>4. DvTyped'
    BY <2>3 DEF DvTyped
  <2> QED BY <1>3, <1>5, <1>6, <1>8, <2>2, <2>4 DEF DvApply
<1>9. CASE DvCheck
  <2>1. dv.data \in Payload
    BY <1>0, <1>9, StepsWhole DEF DvCheck
  <2>2. MonTyped'
    BY <1>0, <1>9, <2>1, CheckWhole, WatchWhole DEF DvCheck, MonTyped
  <2>3. dv' \in Pushes
    BY <1>0, <1>9, <2>1, CheckWhole DEF DvCheck, Pushes
  <2>4. DvTyped'
    BY <2>3 DEF DvTyped
  <2>5. SaidTyped'
    BY <1>0, <1>1, <1>9 DEF DvCheck, SaidTyped, deviceVars
  <2> QED BY <1>3, <1>4, <1>9, <2>2, <2>4, <2>5 DEF DvCheck
<1>10. CASE DvPush
  <2>1. DvTyped'
    BY <1>10, StepsWhole DEF DvPush, DvTyped
  <2>2. SaidTyped'
    BY <1>0, <1>1, <1>10 DEF DvPush, SaidTyped, deviceVars
  <2> QED BY <1>3, <1>4, <1>5, <1>10, <2>1, <2>2 DEF DvPush
<1> QED BY <1>7, <1>8, <1>9, <1>10 DEF Devices

LEMMA TypesOfHub == ASSUME TypeOK, Tick \/ EditSnap \/ Restart PROVE TypeOK'
<1>0. /\ SiteTyped /\ OffTyped /\ SnapTyped /\ EdgeTyped /\ OverTyped /\ MonTyped
      /\ StTyped /\ DvTyped /\ EditTyped /\ SaidTyped /\ PageTyped
  BY TypeParts
<1>1. CASE Tick
  <2>1. UNCHANGED <<siteVars, offVars, snap, edgeVars, monVars, snapDisk, edit, lastEdit>>
    BY <1>1 DEF Tick
  <2>2. UNCHANGED <<told, siteTold, counted, crashed, confTold, rogueTold, paged, fellBack>>
    BY <1>1 DEF Tick, toldVars
  <2>3. st' \in Waits /\ dv' \in Waits
    BY <1>1, StepsWhole DEF Tick, Waits
  <2>4. StTyped' /\ DvTyped'
    BY <2>3 DEF StTyped, DvTyped
  <2>5. OverTyped'
    <3>1. ASSUME NEW d \in Devs PROVE Aged(over)[d] \in {NoEdit} \cup [field : Fields, to : BOOLEAN, late : BOOLEAN]
      <4>1. over[d] = NoEdit \/ over[d] \in [field : Fields, to : BOOLEAN, late : BOOLEAN]
        BY <1>0 DEF OverTyped
      <4> QED BY <4>1 DEF Aged
    <3>2. over' = Aged(over)
      BY <1>1 DEF Tick
    <3> QED BY <3>1, <3>2 DEF OverTyped, Aged
  <2>6. SiteTyped' /\ OffTyped' /\ SnapTyped' /\ EdgeTyped' /\ MonTyped' /\ EditTyped' /\ SaidTyped' /\ PageTyped'
    BY <1>0, <2>1, <2>2, Stays
  <2> QED BY <2>4, <2>5, <2>6, TypeParts
<1>2. CASE EditSnap
  <2>1. UNCHANGED <<siteVars, offVars, edgeVars, monVars, st, dv, snapDisk>>
    BY <1>2 DEF EditSnap
  <2>2. UNCHANGED <<told, siteTold, counted, crashed, confTold, rogueTold, paged, fellBack>>
    BY <1>2 DEF EditSnap, toldVars
  <2>3. edit.dev \in Devs /\ edit.field \in Fields /\ edit.to \in BOOLEAN
    BY <1>0, <1>2 DEF EditSnap, EditTyped
  <2>4. OverTyped'
    BY <1>0, <1>2, <2>3 DEF EditSnap, OverTyped
  <2>5. EditTyped'
    BY <1>0, <1>2, <2>3 DEF EditSnap, EditTyped
  <2>6. snap' \in Payload \cup {None}
    <3>1. CASE snap = None
      BY <1>2, <3>1 DEF EditSnap
    <3>2. CASE snap \in Payload
      <4>1. [snap EXCEPT !.val[edit.dev][edit.field] = edit.to] \in Payload
        BY <2>3, <3>2, PayloadWhole
      <4>2. snap' = snap \/ snap' = [snap EXCEPT !.val[edit.dev][edit.field] = edit.to]
        BY <1>2 DEF EditSnap
      <4> QED BY <3>2, <4>1, <4>2
    <3> QED BY <1>0, <3>1, <3>2 DEF SnapTyped
  <2>7. SnapTyped'
    BY <1>0, <2>1, <2>6 DEF SnapTyped
  <2>8. SiteTyped' /\ OffTyped' /\ EdgeTyped' /\ MonTyped' /\ StTyped' /\ DvTyped' /\ SaidTyped' /\ PageTyped'
    BY <1>0, <2>1, <2>2, Stays
  <2> QED BY <2>4, <2>5, <2>7, <2>8, TypeParts
<1>3. CASE Restart
  <2>1. UNCHANGED <<siteVars, monDisk, snapDisk, counted>>
    BY <1>3 DEF Restart
  <2>2. OffTyped' /\ EdgeTyped'
    <3>1. reach' = FALSE /\ miss' = 0 /\ alerted' = FALSE /\ rogueSeen' = {} /\ confSeen' = {}
      BY <1>3 DEF Restart
    <3>2. 0 \in 0..OfflineAfter
      BY AfterAssumption
    <3> QED BY <3>1, <3>2 DEF OffTyped, EdgeTyped
  <2>3. SnapTyped' /\ MonTyped'
    BY <1>0, <1>3 DEF Restart, SnapTyped, MonTyped
  <2>4. StTyped' /\ DvTyped'
    BY <1>3, StepsWhole DEF Restart, StTyped, DvTyped
  <2>5. OverTyped' /\ EditTyped'
    BY <1>3 DEF Restart, OverTyped, EditTyped
  <2>6. PageTyped'
    BY <1>3 DEF Restart, PageTyped
  <2>7. crashed' \subseteq Devs
    BY <1>0, <1>3, StepsWhole DEF Restart, SaidTyped
  <2>8. SaidTyped'
    BY <1>0, <1>3, <2>1, <2>7 DEF Restart, SaidTyped
  <2>9. SiteTyped'
    BY <1>0, <2>1, Stays
  <2> QED BY <2>2, <2>3, <2>4, <2>5, <2>6, <2>8, <2>9, TypeParts
<1> QED BY <1>1, <1>2, <1>3

LEMMA TypeStep == TypeOK /\ [Next]_vars => TypeOK'
<1> SUFFICES ASSUME TypeOK, [Next]_vars PROVE TypeOK'
  OBVIOUS
<1>1. CASE UNCHANGED vars
  <2>1. UNCHANGED <<siteVars, offVars, snap, edgeVars, over, monVars, snapDisk, st, dv, edit, lastEdit, told, siteTold,
                    confTold, rogueTold, paged, fellBack, counted, crashed>>
    BY <1>1 DEF vars, toldVars
  <2> QED BY <2>1, Stays, TypeParts
<1> QED BY <1>1, TypesOfSite, TypesOfStatus, TypesOfDevices, TypesOfHub DEF Next

LEMMA TypeInit == Init => TypeOK
<1> SUFFICES ASSUME Init PROVE TypeOK
  OBVIOUS
<1>1. SiteTyped
  <2>1. site \in Payload
    BY DEF Init, Payload, Health
  <2> QED BY <2>1 DEF Init, SiteTyped
<1>2. OffTyped /\ SnapTyped /\ EdgeTyped /\ OverTyped /\ MonTyped
  <2>1. OffTyped
    <3>1. 0 \in 0..OfflineAfter
      BY AfterAssumption
    <3> QED BY <3>1 DEF Init, OffTyped
  <2>2. SnapTyped /\ EdgeTyped /\ MonTyped
    BY DEF Init, SnapTyped, EdgeTyped, MonTyped
  <2>3. OverTyped
    BY DEF Init, OverTyped
  <2> QED BY <2>1, <2>2, <2>3
<1>3. StTyped /\ DvTyped
  BY StepsWhole DEF Init, StTyped, DvTyped
<1>4. EditTyped /\ SaidTyped /\ PageTyped
  BY DEF Init, EditTyped, SaidTyped, PageTyped
<1> QED BY <1>1, <1>2, <1>3, <1>4, TypeParts

\* Type correctness: what a poll carries over an unlock is whole, whatever it meets.
THEOREM TypeCorrect == Spec => []TypeOK
<1> QED BY TypeInit, TypeStep, PTL DEF Spec

(***************************************************************************)
(* What people are told of outages. A device told as offline was counted   *)
(* as down by its site, and so was everything a list on its way says is    *)
(* down; and until its return is pushed, whoever was told as offline is    *)
(* remembered as down, in memory and on the disk alike.                    *)
(***************************************************************************)
CountedInv ==
    /\ \A d \in Devs : site.dev[d] = "down" => d \in counted
    /\ dv.step \in {"got", "check"} => \A d \in Devs : dv.data.dev[d] = "down" => d \in counted
    /\ dv.step = "push" => dv.went \subseteq counted /\ dv.went \cap dv.back = {}
    /\ NoFalseAlarm

RememberedInv ==
    /\ \A d \in Devs : told[d] = "off" =>
          /\ Memory # None
          /\ d \in Memory.down \/ (dv.step = "push" /\ d \in dv.back)
    /\ dv.step = "push" => Memory # None /\ dv.went \subseteq Memory.down
    /\ mon # None => mon = monDisk
    /\ NoOfflineTwice

\* Steps that outages do not depend on.
LEMMA QuietSteps ==
    ASSUME TypeOK,
           \/ UNCHANGED vars \/ LinkTurns \/ Status \/ EditSnap
           \/ \E d \in Devs : WatchTurns(d) \/ Forget(d)
           \/ \E d \in Devs, f \in Fields : EditSite(d, f)
           \/ \E i \in Ips : ConflictTurns(i)
           \/ \E r \in Rogues : RogueTurns(r)
    PROVE  UNCHANGED <<told, counted, dv, mon, monDisk>> /\ site'.dev = site.dev
<1>0. site \in Payload
  BY DEF TypeOK
<1>1. CASE UNCHANGED vars
  BY <1>1 DEF vars, siteVars, toldVars, monVars
<1>2. CASE LinkTurns
  BY <1>2 DEF LinkTurns, hubVars, toldVars, monVars
<1>3. CASE Status
  BY <1>3 DEF Status, StAnswer, StApply, StOffline, StRogue, StConflicts, StConflict, statusVars, siteVars, toldVars, monVars
<1>4. CASE EditSnap
  BY <1>4 DEF EditSnap, siteVars, toldVars, monVars
<1>5. ASSUME NEW d \in Devs, WatchTurns(d) \/ Forget(d)
      PROVE  UNCHANGED <<told, counted, dv, mon, monDisk>> /\ site'.dev = site.dev
  BY <1>0, <1>5 DEF WatchTurns, Forget, Payload, hubVars, toldVars, monVars
<1>6. ASSUME NEW d \in Devs, NEW f \in Fields, EditSite(d, f)
      PROVE  UNCHANGED <<told, counted, dv, mon, monDisk>> /\ site'.dev = site.dev
  BY <1>0, <1>6 DEF EditSite, Payload, toldVars, monVars
<1>7. ASSUME NEW i \in Ips, ConflictTurns(i)
      PROVE  UNCHANGED <<told, counted, dv, mon, monDisk>> /\ site'.dev = site.dev
  BY <1>0, <1>7 DEF ConflictTurns, Payload, hubVars, monVars
<1>8. ASSUME NEW r \in Rogues, RogueTurns(r)
      PROVE  UNCHANGED <<told, counted, dv, mon, monDisk>> /\ site'.dev = site.dev
  BY <1>8 DEF RogueTurns, hubVars, monVars
<1> QED BY <1>1, <1>2, <1>3, <1>4, <1>5, <1>6, <1>7, <1>8

LEMMA NextSplit ==
    ASSUME [Next]_vars
    PROVE  \/ UNCHANGED vars \/ LinkTurns \/ Status \/ EditSnap
           \/ \E d \in Devs : WatchTurns(d) \/ Forget(d)
           \/ \E d \in Devs, f \in Fields : EditSite(d, f)
           \/ \E i \in Ips : ConflictTurns(i)
           \/ \E r \in Rogues : RogueTurns(r)
           \/ Tick \/ Devices \/ Restart \/ \E d \in Devs : DevTurns(d)
BY DEF Next

LEMMA PatchKeeps == ASSUME NEW p \in Payload PROVE Patched(p).dev = p.dev /\ Patched(p).there = p.there
BY DEF Patched, Payload

LEMMA CountedStep == TypeOK /\ CountedInv /\ [Next]_vars => CountedInv'
<1> SUFFICES ASSUME TypeOK, CountedInv, [Next]_vars PROVE CountedInv'
  OBVIOUS
<1>0. site \in Payload /\ DvTyped /\ OverTyped
  BY TypeParts DEF TypeOK
<1>1. ASSUME UNCHANGED <<told, counted, dv>>, site'.dev = site.dev PROVE CountedInv'
  BY <1>1 DEF CountedInv, NoFalseAlarm
<1>2. CASE Tick
  <2>1. UNCHANGED <<told, counted, site>> /\ dv'.step \in {"idle", "asked"}
    BY <1>2 DEF Tick, Idle, toldVars, siteVars
  <2> QED BY <2>1 DEF CountedInv, NoFalseAlarm
<1>3. CASE Restart
  <2>1. UNCHANGED <<counted, site>> /\ dv'.step = "idle"
    BY <1>3 DEF Restart, Idle, siteVars
  <2>2. \A d \in Devs : told'[d] = "off" => told[d] = "off"
    BY <1>3 DEF Restart
  <2> QED BY <2>1, <2>2 DEF CountedInv, NoFalseAlarm
<1>4. ASSUME NEW d \in Devs, DevTurns(d) PROVE CountedInv'
  <2>1. UNCHANGED <<told, dv>>
    BY <1>4 DEF DevTurns, hubVars
  <2>2. PICK h : site' = [site EXCEPT !.dev[d] = h] /\ counted' = IF h = "down" THEN counted \cup {d} ELSE counted
    BY <1>4 DEF DevTurns
  <2>3. \A e \in Devs : site'.dev[e] = IF e = d THEN h ELSE site.dev[e]
    BY <1>0, <2>2, PayloadWhole DEF Payload
  <2> QED BY <2>1, <2>2, <2>3 DEF CountedInv, NoFalseAlarm
<1>5. CASE DvAnswer
  <2>1. UNCHANGED <<told, counted, site>>
    BY <1>5 DEF DvAnswer, deviceVars, siteVars
  <2>2. dv'.step = "idle" \/ (dv'.step = "got" /\ dv'.data = site)
    BY <1>5 DEF DvAnswer, Idle
  <2> QED BY <2>1, <2>2 DEF CountedInv, NoFalseAlarm
<1>6. CASE DvApply
  <2>1. UNCHANGED <<told, counted, site>>
    BY <1>6 DEF DvApply, deviceVars, siteVars
  <2>2. dv.step = "got" /\ Patched(dv.data).dev = dv.data.dev
    BY <1>0, <1>6, StepsWhole, PatchKeeps DEF DvApply
  <2>3. dv'.step = "idle" \/ (dv'.step = "check" /\ dv'.data = Patched(dv.data))
    BY <1>6 DEF DvApply, Idle
  <2> QED BY <2>1, <2>2, <2>3 DEF CountedInv, NoFalseAlarm
<1>7. CASE DvCheck
  <2>1. UNCHANGED <<counted, site>>
    BY <1>7 DEF DvCheck, deviceVars, siteVars
  <2>2. dv.step = "check" /\ dv'.step = "push" /\ dv'.went = Went(Memory, dv.data) /\ dv'.back = Back(Memory, dv.data)
    BY <1>7 DEF DvCheck
  <2>3. \A d \in Devs : told'[d] = "off" => told[d] = "off"
    BY <1>7 DEF DvCheck
  <2>4. dv.data \in Payload
    BY <1>0, <2>2, StepsWhole
  <2>5. Went(Memory, dv.data) \subseteq {d \in Devs : dv.data.dev[d] = "down"}
    BY <2>4, PayloadWhole DEF Went, ConfirmedDown, Monitored
  <2>6. Went(Memory, dv.data) \cap Back(Memory, dv.data) = {}
    BY DEF Went, Back, ConfirmedDown, Answering
  <2> QED BY <2>1, <2>2, <2>3, <2>5, <2>6 DEF CountedInv, NoFalseAlarm
<1>8. CASE DvPush
  <2>1. UNCHANGED site /\ dv.step = "push" /\ dv'.step = "idle"
    BY <1>8 DEF DvPush, deviceVars, siteVars, Idle
  <2>2. /\ \A d \in Devs : told'[d] = IF d \in dv.went THEN "off" ELSE IF d \in dv.back THEN "on" ELSE told[d]
        /\ counted' = (counted \ dv.back) \cup {d \in Devs : site.dev[d] = "down"}
    BY <1>8 DEF DvPush
  <2> QED BY <2>1, <2>2 DEF CountedInv, NoFalseAlarm
<1> QED BY <1>1, <1>2, <1>3, <1>4, <1>5, <1>6, <1>7, <1>8, NextSplit, QuietSteps DEF Devices

LEMMA RememberedStep == TypeOK /\ CountedInv /\ RememberedInv /\ [Next]_vars => RememberedInv'
<1> SUFFICES ASSUME TypeOK, CountedInv, RememberedInv, [Next]_vars PROVE RememberedInv'
  OBVIOUS
<1>0. DvTyped /\ MonTyped
  BY TypeParts
<1>1. ASSUME UNCHANGED <<told, dv, mon, monDisk>> PROVE RememberedInv'
  BY <1>1 DEF RememberedInv, NoOfflineTwice, Memory
<1>2. ASSUME UNCHANGED <<told, mon, monDisk>>, dv.step # "push", dv'.step # "push" PROVE RememberedInv'
  BY <1>2 DEF RememberedInv, NoOfflineTwice, Memory
<1>3. CASE Tick
  <2>1. UNCHANGED <<told, mon, monDisk>> /\ dv.step # "push" /\ dv'.step # "push"
    BY <1>3 DEF Tick, Idle, toldVars, monVars
  <2> QED BY <1>2, <2>1
<1>4. CASE DvAnswer \/ DvApply
  <2>1. UNCHANGED <<told, mon, monDisk>> /\ dv.step # "push" /\ dv'.step # "push"
    BY <1>4 DEF DvAnswer, DvApply, Idle, monVars
  <2> QED BY <1>2, <2>1
<1>5. ASSUME NEW d \in Devs, DevTurns(d) PROVE RememberedInv'
  BY <1>1, <1>5 DEF DevTurns, hubVars, monVars
<1>6. CASE Restart
  <2>1. mon' = None /\ UNCHANGED monDisk /\ dv'.step = "idle"
    BY <1>6 DEF Restart, Idle
  <2>2. \A d \in Devs : told'[d] = "off" => told[d] = "off" /\ ~(dv.step = "push" /\ d \in dv.back)
    BY <1>6 DEF Restart
  <2>3. Memory' = monDisk /\ (Memory # None => Memory = monDisk)
    BY <2>1 DEF Memory, RememberedInv
  <2> QED BY <2>1, <2>2, <2>3 DEF RememberedInv, NoOfflineTwice
<1>7. CASE DvCheck
  <2> DEFINE now == [mon |-> Monitored(dv.data), down |-> StillDown(Memory, dv.data)]
  <2>1. dv.step = "check" /\ dv.data \in Payload
    BY <1>0, <1>7, StepsWhole DEF DvCheck
  <2>2. mon' = now /\ monDisk' = now /\ now # None
    BY <1>0, <1>7, <2>1, CheckWhole, WatchWhole, NoneAssumption DEF DvCheck
  <2>3. dv'.step = "push" /\ dv'.went = Went(Memory, dv.data) /\ dv'.back = Back(Memory, dv.data)
    BY <1>7 DEF DvCheck
  <2>4. Memory' = now
    BY <2>2 DEF Memory
  <2>5. Went(Memory, dv.data) \subseteq StillDown(Memory, dv.data)
    BY DEF Went, StillDown
  <2>6. ASSUME NEW d \in Devs, told'[d] = "off"
        PROVE  /\ Memory # None /\ d \in Memory.down
               /\ d \in StillDown(Memory, dv.data) \/ d \in Back(Memory, dv.data)
    <3>1. told[d] = "off" /\ d \in Monitored(dv.data)
      BY <1>7, <2>6 DEF DvCheck
    <3>2. Memory # None /\ d \in Memory.down
      BY <2>1, <3>1 DEF RememberedInv
    <3>3. d \in StillDown(Memory, dv.data) \/ d \in Back(Memory, dv.data)
      BY <3>1, <3>2 DEF StillDown, Back
    <3> QED BY <3>2, <3>3
  <2>7. \A d \in Went(Memory, dv.data) : told'[d] # "off"
    <3>1. Went(Memory, dv.data) \subseteq Devs
      BY <1>0, <2>1, CheckWhole
    <3>2. \A d \in Went(Memory, dv.data) : Memory # None /\ d \notin Memory.down
      BY DEF Went
    <3> QED BY <2>6, <3>1, <3>2
  <2>8. now.down = StillDown(Memory, dv.data)
    OBVIOUS
  <2> HIDE DEF now
  <2> QED BY <2>2, <2>3, <2>4, <2>5, <2>6, <2>7, <2>8 DEF RememberedInv, NoOfflineTwice
<1>8. CASE DvPush
  <2>1. dv.step = "push" /\ dv'.step = "idle" /\ UNCHANGED <<mon, monDisk>>
    BY <1>8 DEF DvPush, Idle, monVars
  <2>2. \A d \in Devs : told'[d] = IF d \in dv.went THEN "off" ELSE IF d \in dv.back THEN "on" ELSE told[d]
    BY <1>8 DEF DvPush
  <2>3. Memory' = Memory
    BY <2>1 DEF Memory
  <2> QED BY <2>1, <2>2, <2>3 DEF RememberedInv, NoOfflineTwice
<1> QED BY <1>1, <1>3, <1>4, <1>5, <1>6, <1>7, <1>8, NextSplit, QuietSteps DEF Devices

\* What people are told of outages is true, and news, in any order of status and device polls,
\* turns of devices, edits and restarts.
THEOREM OutagesToldTrue == Spec => []OfflineTrue
<1>1. Init => TypeOK /\ CountedInv /\ RememberedInv
  <2> SUFFICES ASSUME Init PROVE CountedInv /\ RememberedInv
    BY TypeInit
  <2>1. dv.step = "idle"
    BY DEF Init, Idle
  <2> QED BY <2>1 DEF Init, CountedInv, RememberedInv, NoFalseAlarm, NoOfflineTwice
<1>2. TypeOK /\ CountedInv /\ RememberedInv /\ [Next]_vars => (TypeOK /\ CountedInv /\ RememberedInv)'
  BY TypeStep, CountedStep, RememberedStep
<1>3. CountedInv /\ RememberedInv => OfflineTrue
  BY DEF CountedInv, RememberedInv, OfflineTrue
<1> QED BY <1>1, <1>2, <1>3, PTL DEF Spec

(***************************************************************************)
(* The page. An edit is remembered until its device is edited again; a     *)
(* list asked for after the edit holds it, and over an older one it is     *)
(* put when the list comes in.                                             *)
(***************************************************************************)
Settled(d) == lastEdit[d] # None /\ edit.dev # d

Edited(p, d) == p.val[d][lastEdit[d]] = site.val[d][lastEdit[d]]

EditInv(d) ==
    /\ lastEdit[d] # None => over[d] # NoEdit /\ over[d].field = lastEdit[d]
    /\ Settled(d) => over[d].to = site.val[d][lastEdit[d]]
    /\ Settled(d) /\ snap # None /\ d \in snap.there \cap site.there => Edited(snap, d)
    /\ Settled(d) /\ dv.step = "got" /\ ~over[d].late /\ d \in dv.data.there \cap site.there => Edited(dv.data, d)

\* Nothing that an edit depends on changes, but for devices that are gone.
LEMMA EditSame ==
    ASSUME NEW d \in Devs, EditInv(d), UNCHANGED <<over, edit, lastEdit>>,
           site'.val[d] = site.val[d] \/ lastEdit[d] = None, site'.there \subseteq site.there,
           snap # None \/ snap' = None,
           snap' # None => snap'.val = snap.val /\ snap'.there \subseteq snap.there,
           dv'.step # "got" \/ (dv' = dv)
    PROVE  EditInv(d)'
BY DEF EditInv, Settled, Edited

LEMMA EditStep == TypeOK /\ [Next]_vars => \A d \in Devs : EditInv(d) => EditInv(d)'
<1> SUFFICES ASSUME TypeOK, [Next]_vars, NEW d \in Devs, EditInv(d) PROVE EditInv(d)'
  OBVIOUS
<1>0. site \in Payload /\ DvTyped /\ OverTyped /\ EditTyped /\ SnapTyped
  BY TypeParts DEF TypeOK
<1>e. edit = NoEdit \/ (edit.dev \in Devs /\ edit.field \in Fields)
  BY <1>0 DEF EditTyped
<1>1. ASSUME UNCHANGED <<over, edit, lastEdit, snap>>, UNCHANGED dv \/ dv'.step # "got",
             site'.val = site.val, site'.there = site.there
      PROVE  EditInv(d)'
  BY <1>1, EditSame
<1>2. CASE UNCHANGED vars \/ LinkTurns \/ Status
  <2>1. CASE UNCHANGED vars
    BY <1>1, <2>1 DEF vars, siteVars
  <2>2. CASE LinkTurns
    BY <1>1, <2>2 DEF LinkTurns, hubVars
  <2>3. CASE Status
    <3>1. UNCHANGED statusVars
      BY <2>3 DEF Status, StAnswer, StApply, StOffline, StRogue, StConflicts, StConflict
    <3> QED BY <1>1, <3>1 DEF statusVars, siteVars
  <2> QED BY <1>2, <2>1, <2>2, <2>3
<1>3. ASSUME NEW x, ConflictTurns(x) \/ RogueTurns(x) \/ DevTurns(x) PROVE EditInv(d)'
  <2>1. UNCHANGED <<over, edit, lastEdit, snap, dv>>
    BY <1>3 DEF ConflictTurns, RogueTurns, DevTurns, hubVars
  <2>2. site'.val = site.val /\ site'.there = site.there
    BY <1>0, <1>3 DEF ConflictTurns, RogueTurns, DevTurns, Payload
  <2> QED BY <1>1, <2>1, <2>2
<1>4. ASSUME NEW e \in Devs, Forget(e) PROVE EditInv(d)'
  <2>1. UNCHANGED <<over, edit, lastEdit, dv>>
    BY <1>4 DEF Forget
  <2>2. site'.val = site.val /\ site'.there \subseteq site.there
    BY <1>0, <1>4 DEF Forget, Payload
  <2>3. (snap # None \/ snap' = None) /\ (snap' # None => snap'.val = snap.val /\ snap'.there \subseteq snap.there)
    BY <1>0, <1>4 DEF Forget, SnapTyped, Payload
  <2> QED BY <2>1, <2>2, <2>3, EditSame
<1>5. ASSUME NEW e \in Devs, WatchTurns(e) PROVE EditInv(d)'
  <2>1. UNCHANGED <<over, edit, snap, dv>>
    BY <1>5 DEF WatchTurns, hubVars
  <2>2. site'.there = site.there
    BY <1>0, <1>5 DEF WatchTurns, Payload
  <2>3. lastEdit'[d] # None => lastEdit'[d] = lastEdit[d] /\ (d # e \/ lastEdit[d] # "watch")
    BY <1>0, <1>5 DEF WatchTurns, EditTyped
  <2>4. \A f \in Fields : d # e \/ f # "watch" => site'.val[d][f] = site.val[d][f]
    <3>1. site' = [site EXCEPT !.val[e]["watch"] = ~ site.val[e]["watch"]] /\ site.val \in [Devs -> [Fields -> BOOLEAN]]
      BY <1>0, <1>5, PayloadWhole DEF WatchTurns
    <3>2. site'.val = [site.val EXCEPT ![e]["watch"] = ~ site.val[e]["watch"]]
      BY <1>0, <3>1 DEF Payload
    <3> QED BY <3>1, <3>2
  <2>5. lastEdit'[d] # None => lastEdit[d] \in Fields /\ site'.val[d][lastEdit[d]] = site.val[d][lastEdit[d]]
    BY <1>0, <2>3, <2>4 DEF EditTyped
  <2> QED BY <2>1, <2>2, <2>3, <2>5 DEF EditInv, Settled, Edited
<1>6. ASSUME NEW e \in Devs, NEW f \in Fields, EditSite(e, f) PROVE EditInv(d)'
  <2>1. UNCHANGED <<over, snap, dv, lastEdit>> /\ edit'.dev = e
    BY <1>6 DEF EditSite
  <2>2. site'.there = site.there
    BY <1>0, <1>6 DEF EditSite, Payload
  <2>3. edit.dev = None /\ None # d
    BY <1>6, NoneAssumption DEF EditSite, NoEdit
  <2>4. d # e => site'.val[d] = site.val[d]
    <3>1. site' = [site EXCEPT !.val[e][f] = ~ site.val[e][f]] /\ site.val \in [Devs -> [Fields -> BOOLEAN]]
      BY <1>0, <1>6, PayloadWhole DEF EditSite
    <3>2. site'.val = [site.val EXCEPT ![e][f] = ~ site.val[e][f]]
      BY <1>0, <3>1 DEF Payload
    <3> QED BY <3>1, <3>2
  <2> QED BY <2>1, <2>2, <2>3, <2>4 DEF EditInv, Settled, Edited
<1>7. CASE EditSnap
  <2>1. UNCHANGED <<site, dv>> /\ edit' = NoEdit /\ edit # NoEdit
    BY <1>7 DEF EditSnap, siteVars
  <2>2. edit.dev \in Devs /\ edit.field \in Fields /\ None # d /\ edit'.dev = None
    BY <1>e, <2>1, NoneAssumption DEF NoEdit
  <2>3. CASE edit.dev # d
    <3>1. over'[d] = over[d] /\ lastEdit'[d] = lastEdit[d]
      BY <1>0, <1>7, <2>2, <2>3 DEF EditSnap, OverTyped, EditTyped
    <3>2. snap # None => snap'.there = snap.there /\ snap'.val[d] = snap.val[d]
      <4>1. CASE snap' = snap
        BY <4>1
      <4>2. CASE snap # None /\ snap' = [snap EXCEPT !.val[edit.dev][edit.field] = edit.to]
        <5>1. snap \in Payload /\ snap.val \in [Devs -> [Fields -> BOOLEAN]]
          BY <1>0, <4>2, PayloadWhole DEF SnapTyped
        <5>2. snap'.there = snap.there /\ snap'.val = [snap.val EXCEPT ![edit.dev][edit.field] = edit.to]
          BY <4>2, <5>1 DEF Payload
        <5> QED BY <2>2, <2>3, <5>1, <5>2
      <4> QED BY <1>7, <4>1, <4>2 DEF EditSnap
    <3>3. snap = None => snap' = None
      BY <1>7 DEF EditSnap
    <3> QED BY <2>1, <2>2, <2>3, <3>1, <3>2, <3>3 DEF EditInv, Settled, Edited
  <2>4. CASE edit.dev = d
    <3>1. over'[d] = [field |-> edit.field, to |-> edit.to, late |-> TRUE] /\ over'[d] # NoEdit
      BY <1>0, <1>7, <2>4 DEF EditSnap, OverTyped, NoEdit
    <3>2. lastEdit'[d] # None => lastEdit'[d] = edit.field /\ site.val[d][edit.field] = edit.to
      BY <1>0, <1>7, <2>4 DEF EditSnap, EditTyped
    <3>3. snap' # None /\ d \in snap'.there => snap'.val[d][edit.field] = edit.to
      <4>1. CASE snap' = snap /\ ~(snap # None /\ d \in snap.there)
        BY <4>1
      <4>2. CASE snap # None /\ snap' = [snap EXCEPT !.val[d][edit.field] = edit.to]
        <5>1. snap \in Payload /\ snap.val \in [Devs -> [Fields -> BOOLEAN]]
          BY <1>0, <4>2, PayloadWhole DEF SnapTyped
        <5>2. snap'.val = [snap.val EXCEPT ![d][edit.field] = edit.to]
          BY <4>2, <5>1 DEF Payload
        <5> QED BY <2>2, <5>1, <5>2
      <4> QED BY <1>7, <2>4, <4>1, <4>2 DEF EditSnap
    <3> QED BY <2>1, <3>1, <3>2, <3>3 DEF EditInv, Settled, Edited
  <2> QED BY <2>3, <2>4
<1>8. CASE Tick
  <2>1. UNCHANGED <<site, snap, edit, lastEdit>> /\ dv'.step # "got" /\ over' = Aged(over)
    BY <1>8 DEF Tick, Idle, siteVars
  <2>2. over[d] # NoEdit => over'[d] # NoEdit /\ over'[d].field = over[d].field /\ over'[d].to = over[d].to
    <3>1. over[d] # NoEdit => over[d] \in [field : Fields, to : BOOLEAN, late : BOOLEAN]
      BY <1>0 DEF OverTyped
    <3>2. over[d] # NoEdit => over'[d] = [over[d] EXCEPT !.late = FALSE]
      BY <2>1 DEF Aged
    <3>3. over[d] # NoEdit => over'[d] \in [field : Fields, to : BOOLEAN, late : BOOLEAN]
      BY <3>1, <3>2
    <3>4. NoEdit \notin [field : Fields, to : BOOLEAN, late : BOOLEAN]
      BY DEF NoEdit
    <3> QED BY <3>1, <3>2, <3>3, <3>4
  <2> QED BY <2>1, <2>2 DEF EditInv, Settled, Edited
<1>9. CASE Restart
  <2>1. lastEdit'[d] = None
    BY <1>9 DEF Restart
  <2> QED BY <2>1 DEF EditInv, Settled
<1>10. CASE DvAnswer
  <2>1. UNCHANGED <<site, snap, edit, lastEdit, over>>
    BY <1>10 DEF DvAnswer, deviceVars, siteVars
  <2>2. dv'.step # "got" \/ dv'.data = site
    BY <1>10 DEF DvAnswer, Idle
  <2> QED BY <2>1, <2>2 DEF EditInv, Settled, Edited
<1>11. CASE DvApply
  <2>1. UNCHANGED <<site, edit, lastEdit, over>> /\ dv'.step # "got" /\ dv.step = "got"
    BY <1>11 DEF DvApply, deviceVars, siteVars, Idle
  <2>2. dv.data \in Payload /\ snap' = Patched(dv.data)
    BY <1>0, <1>11, <2>1, StepsWhole DEF DvApply
  <2>3. snap'.there = dv.data.there
    BY <2>2, PatchKeeps
  <2>4. snap'.val[d] = IF over[d] # NoEdit /\ over[d].late /\ d \in dv.data.there
                       THEN [dv.data.val[d] EXCEPT ![over[d].field] = over[d].to] ELSE dv.data.val[d]
    BY <2>2 DEF Patched, Payload
  <2>5. dv.data.val[d] \in [Fields -> BOOLEAN]
    BY <2>2, PayloadWhole
  <2>6. lastEdit[d] # None => lastEdit[d] \in Fields
    BY <1>0 DEF EditTyped
  <2>7. ASSUME Settled(d), d \in snap'.there \cap site.there PROVE snap'.val[d][lastEdit[d]] = site.val[d][lastEdit[d]]
    <3>1. lastEdit[d] \in Fields /\ over[d] # NoEdit /\ over[d].field = lastEdit[d] /\ over[d].to = site.val[d][lastEdit[d]]
      BY <2>6, <2>7 DEF Settled, EditInv
    <3>2. CASE over[d].late
      BY <2>3, <2>4, <2>5, <2>7, <3>1, <3>2
    <3>3. CASE ~over[d].late
      BY <2>1, <2>3, <2>4, <2>7, <3>3 DEF EditInv, Edited
    <3> QED BY <3>2, <3>3
  <2> QED BY <2>1, <2>7 DEF EditInv, Settled, Edited
<1>12. CASE DvCheck \/ DvPush
  <2>1. UNCHANGED <<over, edit, lastEdit, snap, site>> /\ dv'.step # "got"
    BY <1>12 DEF DvCheck, DvPush, deviceVars, siteVars, Idle
  <2> QED BY <1>1, <2>1
<1> QED BY <1>2, <1>3, <1>4, <1>5, <1>6, <1>7, <1>8, <1>9, <1>10, <1>11, <1>12, NextSplit DEF Devices

\* The last edit of a device stays on the page although an older answer comes in after it.
THEOREM LastEditStays == Spec => []LastEditShown
<1> DEFINE Inv == \A d \in Devs : EditInv(d)
<1>1. Init => TypeOK /\ Inv
  BY TypeInit DEF Init, EditInv, Settled
<1>2. TypeOK /\ Inv /\ [Next]_vars => TypeOK' /\ Inv'
  BY TypeStep, EditStep
<1>3. Inv => LastEditShown
  <2> SUFFICES ASSUME Inv, NEW d \in Devs, lastEdit[d] # None, edit = NoEdit, snap # None, d \in snap.there \cap site.there
               PROVE  snap.val[d][lastEdit[d]] = site.val[d][lastEdit[d]]
    BY DEF LastEditShown
  <2>1. edit.dev # d
    BY NoneAssumption DEF NoEdit
  <2> QED BY <2>1 DEF EditInv, Settled, Edited
<1> HIDE DEF Inv
<1> QED BY <1>1, <1>2, <1>3, PTL DEF Spec

(***************************************************************************)
(* The alerts of a whole site: what is remembered of them is what was said *)
(* last, but between the answer and the alert.                             *)
(***************************************************************************)
SaidInv ==
    IF st.step = "offline"
    THEN LET fire == Fire(st.ok, siteTold = "off") IN st.say = fire.say /\ alerted = fire.alerted
    ELSE alerted <=> siteTold = "off"

LEMMA SaidStep == TypeOK /\ SaidInv /\ [Next]_vars => SaidInv'
<1> SUFFICES ASSUME TypeOK, SaidInv, [Next]_vars PROVE SaidInv'
  OBVIOUS
<1>1. ASSUME UNCHANGED <<alerted, siteTold>>, st' = st \/ (st.step # "offline" /\ st'.step # "offline") PROVE SaidInv'
  BY <1>1 DEF SaidInv
<1>2. CASE StApply
  <2>1. st.step = "got" /\ st'.step = "offline" /\ st'.ok = st.ok /\ UNCHANGED siteTold
    BY <1>2 DEF StApply, toldVars
  <2>2. st'.say = Fire(st.ok, alerted).say /\ alerted' = Fire(st.ok, alerted).alerted
    BY <1>2 DEF StApply
  <2>3. alerted = (siteTold = "off")
    BY <2>1 DEF SaidInv, TypeOK
  <2> QED BY <2>1, <2>2, <2>3 DEF SaidInv
<1>3. CASE StOffline
  <2>1. st.step = "offline" /\ st'.step # "offline"
    BY <1>3 DEF StOffline, TypeOK, Waits, Answers, Applied, Reports
  <2>2. st.say = Fire(st.ok, siteTold = "off").say /\ alerted = Fire(st.ok, siteTold = "off").alerted /\ st.ok \in BOOLEAN
    BY <2>1, TypeParts, StepsWhole DEF SaidInv
  <2>3. CASE st.say = "offline"
    <3>1. ~st.ok /\ siteTold # "off" /\ ~alerted
      BY <2>2, <2>3 DEF Fire
    <3> QED BY <1>3, <2>1, <2>3, <3>1 DEF StOffline, SaidInv
  <2>4. CASE st.say = "online"
    <3>1. st.ok /\ siteTold = "off" /\ ~alerted
      BY <2>2, <2>4 DEF Fire
    <3> QED BY <1>3, <2>1, <2>4, <3>1 DEF StOffline, SaidInv
  <2>5. CASE st.say # "offline" /\ st.say # "online"
    <3>1. alerted <=> siteTold = "off"
      BY <2>2, <2>5 DEF Fire
    <3>2. UNCHANGED <<alerted, siteTold>>
      BY <1>3, <2>5 DEF StOffline
    <3> QED BY <2>1, <3>1, <3>2 DEF SaidInv
  <2> QED BY <2>3, <2>4, <2>5
<1>4. CASE StAnswer \/ StRogue \/ StConflicts \/ StConflict
  <2>1. UNCHANGED <<alerted, siteTold>>
    BY <1>4 DEF StAnswer, StRogue, StConflicts, StConflict, offVars, toldVars
  <2>2. st.step # "offline" /\ st'.step # "offline"
    BY <1>4, TypeParts, StepsWhole DEF StAnswer, Unanswered, StRogue, StConflicts, StConflict, Idle, Applied
  <2> QED BY <1>1, <2>1, <2>2
<1>5. CASE Restart
  BY <1>5 DEF Restart, SaidInv, Idle
<1>6. CASE Tick
  <2>1. UNCHANGED <<alerted, siteTold>> /\ st.step # "offline" /\ st'.step # "offline"
    BY <1>6 DEF Tick, offVars, toldVars, Idle
  <2> QED BY <1>1, <2>1
<1>7. CASE UNCHANGED vars \/ LinkTurns \/ EditSnap \/ Devices
  <2>1. UNCHANGED <<alerted, siteTold, st>>
    BY <1>7 DEF vars, offVars, toldVars, LinkTurns, EditSnap, Devices, DvAnswer, DvApply, DvCheck, DvPush, hubVars, deviceVars
  <2> QED BY <1>1, <2>1
<1>8. ASSUME NEW x, NEW f, DevTurns(x) \/ WatchTurns(x) \/ Forget(x) \/ EditSite(x, f) \/ ConflictTurns(x) \/ RogueTurns(x) PROVE SaidInv'
  <2>1. UNCHANGED <<alerted, siteTold, st>>
    BY <1>8 DEF DevTurns, WatchTurns, Forget, EditSite, ConflictTurns, RogueTurns, hubVars, offVars, toldVars
  <2> QED BY <1>1, <2>1
<1> QED BY <1>2, <1>3, <1>4, <1>5, <1>6, <1>7, <1>8, NextSplit DEF Status

\* Between two starts of the hub site alerts alternate, for every debounce: no second "offline"
\* before "back online", no "back" without an "offline". A start forgets what was told of the
\* sites (poller.py:304): siteTold begins anew with it.
THEOREM SiteAlertsAlternate == Spec => SiteAlternates
<1>1. Init => TypeOK /\ SaidInv
  BY TypeInit DEF Init, SaidInv, Idle
<1>2. TypeOK /\ SaidInv /\ [Next]_vars => (TypeOK /\ SaidInv)'
  BY TypeStep, SaidStep
<1>3. TypeOK /\ SaidInv =>
        (st.step = "offline" =>
          /\ st.say = "offline" /\ st.miss >= OfflineAfter => siteTold # "off"
          /\ st.say = "online" => siteTold = "off")
  <2> SUFFICES ASSUME TypeOK, SaidInv, st.step = "offline"
               PROVE  (st.say = "offline" => siteTold # "off") /\ (st.say = "online" => siteTold = "off")
    OBVIOUS
  <2> QED BY DEF SaidInv, Fire
<1>4. TypeOK /\ SaidInv /\ [Next]_vars =>
        [st.step = "offline" /\ st'.step # "offline" /\ st'.step # "idle" =>
          /\ st.say = "offline" /\ st.miss >= OfflineAfter => siteTold # "off"
          /\ st.say = "online" => siteTold = "off"]_vars
  BY <1>3
<1> QED BY <1>1, <1>2, <1>4, PTL DEF Spec, SiteAlternates

(***************************************************************************)
(* Conflicts and rogue servers: what was paged and goes on is what the     *)
(* last poll saw, and what any answer on its way will see again.           *)
(***************************************************************************)
PagedInv ==
    /\ rogueTold \subseteq rogue \cap rogueSeen
    /\ st.step \in {"got", "offline", "rogue"} /\ st.ok => rogueTold \subseteq st.rogue
    /\ st.step = "rogue" => st.ok
    /\ confTold \subseteq site.overlap \ acked
    /\ confTold \subseteq confSeen \cup fellBack
    /\ st.step = "conflict" /\ ~st.own => confTold \subseteq st.conf

LEMMA PagedStep == TypeOK /\ PagedInv /\ [Next]_vars => PagedInv'
<1> SUFFICES ASSUME TypeOK, PagedInv, [Next]_vars PROVE PagedInv'
  OBVIOUS
<1>0. site \in Payload /\ StTyped
  BY TypeParts DEF TypeOK
<1>1. ASSUME UNCHANGED <<rogue, acked, st, rogueSeen, confSeen, confTold, rogueTold, fellBack>>, site'.overlap = site.overlap
      PROVE  PagedInv'
  BY <1>1 DEF PagedInv
<1>2. ASSUME UNCHANGED <<rogue, acked, rogueSeen, confSeen, confTold, rogueTold, fellBack, site>>, st'.step \in {"idle", "asked", "conflicts"}
      PROVE  PagedInv'
  BY <1>2 DEF PagedInv
<1>3. CASE UNCHANGED vars \/ LinkTurns \/ EditSnap \/ Devices
  <2>1. UNCHANGED <<rogue, acked, st, rogueSeen, confSeen, confTold, rogueTold, fellBack, site>>
    BY <1>3 DEF vars, siteVars, edgeVars, toldVars, LinkTurns, EditSnap, Devices, DvAnswer, DvApply, DvCheck, DvPush, hubVars, deviceVars
  <2> QED BY <1>1, <2>1
<1>4. ASSUME NEW x, NEW f, DevTurns(x) \/ WatchTurns(x) \/ Forget(x) \/ EditSite(x, f) PROVE PagedInv'
  <2>1. UNCHANGED <<rogue, acked, st, rogueSeen, confSeen, confTold, rogueTold, fellBack>>
    BY <1>4 DEF DevTurns, WatchTurns, Forget, EditSite, edgeVars, toldVars, hubVars
  <2>2. site'.overlap = site.overlap
    BY <1>0, <1>4 DEF DevTurns, WatchTurns, Forget, EditSite, Payload
  <2> QED BY <1>1, <2>1, <2>2
<1>5. ASSUME NEW i \in Ips, ConflictTurns(i) PROVE PagedInv'
  <2>1. UNCHANGED <<rogue, st, rogueSeen, confSeen, rogueTold>>
    BY <1>5 DEF ConflictTurns, hubVars, edgeVars
  <2>2. CASE i \in site.overlap
    <3>1. confTold' = confTold \ {i} /\ fellBack' = fellBack \ {i}
      BY <1>5, <2>2 DEF ConflictTurns
    <3>2. (site.overlap \ acked) \ {i} \subseteq site'.overlap \ acked'
      BY <1>0, <1>5, <2>2 DEF ConflictTurns, Payload
    <3> QED BY <2>1, <3>1, <3>2 DEF PagedInv
  <2>3. CASE i \notin site.overlap
    <3>1. UNCHANGED <<acked, confTold, fellBack>> /\ site.overlap \subseteq site'.overlap
      BY <1>0, <1>5, <2>3 DEF ConflictTurns, Payload
    <3> QED BY <2>1, <3>1 DEF PagedInv
  <2> QED BY <2>2, <2>3
<1>6. ASSUME NEW r \in Rogues, RogueTurns(r) PROVE PagedInv'
  <2>1. UNCHANGED <<site, acked, st, rogueSeen, confSeen, confTold, fellBack>>
    BY <1>6 DEF RogueTurns, hubVars, edgeVars
  <2>2. rogueTold' = rogueTold \ {r} /\ rogue \ {r} \subseteq rogue'
    BY <1>6 DEF RogueTurns
  <2> QED BY <2>1, <2>2 DEF PagedInv
<1>7. CASE Tick
  <2>1. UNCHANGED <<rogue, acked, rogueSeen, confSeen, confTold, rogueTold, fellBack, site>> /\ st'.step \in {"idle", "asked"}
    BY <1>7 DEF Tick, siteVars, edgeVars, toldVars, Idle
  <2> QED BY <1>2, <2>1
<1>8. CASE Restart
  BY <1>8 DEF Restart, PagedInv, Idle, siteVars
<1>9. CASE StAnswer
  <2>1. UNCHANGED <<rogue, acked, rogueSeen, confSeen, confTold, rogueTold, fellBack, site>>
    BY <1>9 DEF StAnswer, statusVars, siteVars, edgeVars, toldVars
  <2>2. st'.step = "got" /\ (st'.ok => st'.rogue = rogue)
    BY <1>9 DEF StAnswer, Unanswered
  <2> QED BY <2>1, <2>2 DEF PagedInv
<1>10. CASE StApply
  <2>1. UNCHANGED <<rogue, acked, rogueSeen, confSeen, confTold, rogueTold, fellBack, site>>
    BY <1>10 DEF StApply, statusVars, siteVars, edgeVars, toldVars
  <2>2. st.step = "got" /\ st'.step = "offline" /\ st'.ok = st.ok /\ st'.rogue = st.rogue
    BY <1>10 DEF StApply
  <2> QED BY <2>1, <2>2 DEF PagedInv
<1>11. CASE StOffline
  <2>1. UNCHANGED <<rogue, acked, rogueSeen, confSeen, confTold, rogueTold, fellBack, site>>
    BY <1>11 DEF StOffline, statusVars, siteVars, edgeVars
  <2>2. st.step = "offline" /\ st'.ok = st.ok /\ st'.rogue = st.rogue /\ st'.step = IF st.ok THEN "rogue" ELSE "conflicts"
    BY <1>0, <1>11, StepsWhole DEF StOffline, Applied
  <2> QED BY <2>1, <2>2 DEF PagedInv
<1>12. CASE StRogue
  <2>1. UNCHANGED <<rogue, acked, confSeen, confTold, fellBack, site>> /\ rogueSeen' = st.rogue
    BY <1>12 DEF StRogue, statusVars, siteVars
  <2>2. st.step = "rogue" /\ st.ok /\ st'.step = "conflicts"
    BY <1>0, <1>12, StepsWhole DEF StRogue, Applied, PagedInv
  <2>3. rogueTold' \subseteq rogueTold \cup (st.rogue \cap rogue)
    BY <1>12 DEF StRogue, News
  <2> QED BY <2>1, <2>2, <2>3 DEF PagedInv
<1>13. CASE StConflicts
  <2>1. UNCHANGED <<rogue, acked, rogueSeen, confSeen, confTold, rogueTold, fellBack, site>>
    BY <1>13 DEF StConflicts, statusVars, siteVars, edgeVars, toldVars
  <2>2. st'.step = "conflict" /\ (st'.own \/ st'.conf = site.overlap \ acked)
    BY <1>13 DEF StConflicts
  <2> QED BY <2>1, <2>2 DEF PagedInv
<1>14. CASE StConflict
  <2>1. UNCHANGED <<rogue, acked, rogueSeen, rogueTold, site>> /\ st'.step = "idle" /\ st.step = "conflict"
    BY <1>14 DEF StConflict, statusVars, siteVars, Idle
  <2>2. CASE ~Knows
    BY <1>14, <2>1, <2>2 DEF StConflict, PagedInv
  <2>3. CASE Knows
    <3>1. /\ confSeen' = st.conf /\ confTold' = confTold \cup (News(confSeen, st.conf) \cap (site.overlap \ acked))
          /\ fellBack' = (fellBack \ st.conf) \cup (IF st.own THEN confSeen \ st.conf ELSE {})
      BY <1>14, <2>3 DEF StConflict
    <3>2. confTold' \subseteq confSeen' \cup fellBack'
      <4>1. CASE st.own
        BY <3>1, <4>1 DEF PagedInv, News
      <4>2. CASE ~st.own
        BY <2>1, <3>1, <4>2 DEF PagedInv, News
      <4> QED BY <4>1, <4>2
    <3> QED BY <2>1, <3>1, <3>2 DEF PagedInv
  <2> QED BY <2>2, <2>3
<1> QED BY <1>3, <1>4, <1>5, <1>6, <1>7, <1>8, <1>9, <1>10, <1>11, <1>12, <1>13, <1>14, NextSplit DEF Status

\* Between two starts of the hub a conflict, and a rogue DHCP server, that goes on is paged once,
\* however many polls see it and whichever of their answers are lost. A start forgets what was
\* paged: confTold and rogueTold begin anew with it.
THEOREM OnePageEach == Spec => PagedOnce
<1> DEFINE Once ==
        /\ st.step = "conflict" /\ confSeen' # confSeen =>
             News(confSeen, st.conf) \cap confTold \subseteq fellBack
        /\ st.step = "rogue" /\ st'.step = "conflicts" => News(rogueSeen, st.rogue) \cap rogueTold = {}
<1>1. Init => TypeOK /\ PagedInv
  BY TypeInit DEF Init, PagedInv, Idle
<1>2. TypeOK /\ PagedInv /\ [Next]_vars => (TypeOK /\ PagedInv)'
  BY TypeStep, PagedStep
<1>3. PagedInv => Once
  BY DEF PagedInv, News
<1>4. TypeOK /\ PagedInv /\ [Next]_vars => [Once]_vars
  BY <1>3
<1> QED BY <1>1, <1>2, <1>4, PTL DEF Spec, PagedOnce
=============================================================================
