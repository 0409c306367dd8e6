------------------------------ MODULE Topology ------------------------------
(***************************************************************************)
(* The network diagram of a site (app/topology.py, app/topology_routes.py):*)
(* one document of groups, hand-added boxes, devices' places and wires. The*)
(* page that shows it draws by itself every wire a switch's address table  *)
(* proves; people edit it; the scanner tells it of devices that gain their *)
(* MAC or are forgotten.                                                   *)
(*                                                                         *)
(* Every change is made under the store's lock on a copy of the document,  *)
(* but a request reads the list of devices and the address tables before,  *)
(* and the scanner changes its list only after it has told the diagram.    *)
(* Names, positions, icons and the wireless links, which only people draw, *)
(* are left out; so is the rule that tells radios of one chain apart.      *)
(***************************************************************************)
EXTENDS Naturals, FiniteSets, Functions

CONSTANTS
    MacKeys, IpKeys,     \* devices keyed by MAC, and by address while their MAC is unknown
    Units,         \* switches and routers whose address tables are read
    Net,           \* network equipment: switches, routers, radios
    Ports,
    Boxes,         \* hand-added equipment
    Groups,
    Nil,
    UplinkMacs,    \* a port with so many addresses leads to another switch
    MaxLinks,
    AtFirst,       \* devices listed at first
    Moves,         \* pairs of an address and the MAC its device turns out to have
    Tables,        \* what the units may have learned: [Units -> [Ports -> SUBSET MacKeys]]
    TBudgets       \* bounds of events of each kind

ASSUME TopologyAssumption ==
    /\ MacKeys \cap IpKeys = {} /\ Boxes \cap (MacKeys \cup IpKeys) = {}
    /\ Units \subseteq Net /\ Net \subseteq MacKeys \cup IpKeys /\ Moves \subseteq IpKeys \X MacKeys
    /\ Nil \notin Groups \cup Ports /\ AtFirst \subseteq MacKeys \cup IpKeys
    /\ UplinkMacs \in Nat /\ MaxLinks \in Nat
    /\ IsFiniteSet(MacKeys) /\ IsFiniteSet(Units) /\ IsFiniteSet(Ports)
    /\ Tables \subseteq [Units -> [Ports -> SUBSET MacKeys]]

Devices == MacKeys \cup IpKeys
Things == Devices \cup Boxes
Lids == 1..MaxLinks

VARIABLES
    doc,        \* topology.json
    devices,    \* the scanner's list
    telling,    \* what the scanner told the diagram and has not done yet itself
    learned,    \* the units' tables
    request,    \* a request under way, with what it has read
    tleft,
    adrift,     \* unlisted devices whose drawing was left: pruned, or re-keyed and not listed (history)
    late,       \* devices wired up as they were leaving or gone (history)
    refused     \* drawn wires that somebody removed, by the key their unit had (history)

tvars == <<doc, devices, telling, learned, request, tleft, adrift, late, refused>>

Blank == [groups |-> {}, boxes |-> {}, nodes |-> <<>>, links |-> <<>>, dismissed |-> {}]
NoRequest == [step |-> "idle"]
Nothing == [kind |-> "none"]

TInit ==
    /\ tleft \in TBudgets
    /\ doc = Blank /\ devices = AtFirst /\ telling = Nothing /\ learned \in Tables
    /\ request = NoRequest /\ adrift = {} /\ late = {} /\ refused = {}

TSpend(kind) == tleft[kind] > 0 /\ tleft' = [tleft EXCEPT ![kind] = @ - 1]

----------------------------------------------------------------------------
(* The document and the edits of it. An edit answers the document it made  *)
(* and whether it went through.                                            *)

Goes(d)   == [ok |-> TRUE, doc |-> d]
Refuse(d) == [ok |-> FALSE, doc |-> d]

\* Store.mutate: an edit is made on a copy, kept only when it went through.
Outcome(was, edit) == IF edit.ok THEN edit.doc ELSE was

Unplaced == [group |-> Nil, hidden |-> FALSE]

\* d["nodes"].setdefault, for many.
WithNodes(nodes, ks) ==
    [k \in DOMAIN nodes \cup ks |-> IF k \in DOMAIN nodes THEN nodes[k] ELSE Unplaced]

EndsOf(l) == {l.a, l.b}

\* The links without those.
Cut(links, gone) == Restrict(links, DOMAIN links \ gone)

Touching(d, ks) == {i \in DOMAIN d.links : EndsOf(d.links[i]) \cap ks # {}}

\* create_link.
Link(a, ap, b, bp, sug) == [a |-> a, ap |-> ap, b |-> b, bp |-> bp, sug |-> sug]
Fresh(d) == CHOOSE i \in Lids : i \notin DOMAIN d.links
SamePorts(l, m) == {<<l.a, l.ap>>, <<l.b, l.bp>>} = {<<m.a, m.ap>>, <<m.b, m.bp>>}

CreateLink(d, known, l) ==
    IF \/ l.a = l.b \/ ~(EndsOf(l) \subseteq known \cup d.boxes)
       \/ Cardinality(DOMAIN d.links) >= MaxLinks
       \/ \E i \in DOMAIN d.links : SamePorts(d.links[i], l)
    THEN Refuse(d)
    ELSE LET nodes == WithNodes(d.nodes, EndsOf(l))
         IN  Goes([d EXCEPT !.links = [i \in DOMAIN @ \cup {Fresh(d)} |->
                                          IF i \in DOMAIN @ THEN @[i] ELSE l],
                            !.nodes = [k \in DOMAIN nodes |->
                                          IF k \in EndsOf(l) THEN [nodes[k] EXCEPT !.hidden = FALSE]
                                          ELSE nodes[k]]])

\* One after the other; one that is refused is passed over, and told. They come ordered by unit
\* and port; as only their number is bounded, any order will do.
CreateAll(d, known, links) ==
    LET after[done \in SUBSET links] ==
            IF done = {} THEN Goes(d)
            ELSE LET l    == CHOOSE x \in done : TRUE
                     e    == after[done \ {l}]
                     edit == CreateLink(e.doc, known, l)
                 IN  [ok |-> e.ok /\ edit.ok, doc |-> edit.doc]
    IN  after[links]

\* create_equipment: a box in a group, or in none.
CreateBox(d, v, g) ==
    Goes([d EXCEPT !.boxes = @ \cup {v},
                   !.nodes = [WithNodes(d.nodes, {v}) EXCEPT ![v] = [@ EXCEPT !.group = g]]])

\* delete_equipment, with its wires.
WithoutBox(d, v) ==
    [d EXCEPT !.boxes = @ \ {v}, !.nodes = Restrict(@, DOMAIN @ \ {v}),
              !.links = Cut(@, Touching(d, {v}))]

\* delete_group: its members go back to the review area.
WithoutGroup(d, g) ==
    [d EXCEPT !.groups = @ \ {g},
              !.nodes = [k \in DOMAIN @ |-> IF @[k].group = g THEN [@[k] EXCEPT !.group = Nil] ELSE @[k]]]

\* _set_group, or hidden; a hidden device leaves its group.
Placed(d, k, g) == [d EXCEPT !.nodes = [WithNodes(d.nodes, {k}) EXCEPT ![k] =
    [group |-> g, hidden |-> IF g = Nil THEN @.hidden ELSE FALSE]]]
Hidden(d, k) == [d EXCEPT !.nodes = [WithNodes(d.nodes, {k}) EXCEPT ![k] =
    [group |-> IF k \in Boxes THEN @.group ELSE Nil, hidden |-> TRUE]]]

\* delete_link: one drawn from the readings is dismissed too. Mutant: one that was edited is not.
DeleteLinkOnly(d, i) ==
    [d EXCEPT !.links = Cut(@, {i}),
              !.dismissed = IF d.links[i].sug # Nil /\ d.links[i].bp = Nil THEN @ \cup {d.links[i].sug} ELSE @]
WithoutLink(d, i) ==
    [d EXCEPT !.links = Cut(@, {i}),
              !.dismissed = @ \cup ({d.links[i].sug} \ {Nil})]

\* rekey: what was dismissed keeps the name the unit had. Mutant: the far ends of links keep the old key.
NodesRekeyed(nodes, old, new) ==
    [k \in (DOMAIN nodes \ {old}) \cup (IF old \in DOMAIN nodes THEN {new} ELSE {}) |->
        IF k \in DOMAIN nodes THEN nodes[k] ELSE nodes[old]]
Renamed(k, old, new) == IF k = old THEN new ELSE k

RekeyNear(d, old, new) ==
    [d EXCEPT !.nodes = NodesRekeyed(d.nodes, old, new),
              !.links = [i \in DOMAIN d.links |-> [d.links[i] EXCEPT !.a = Renamed(d.links[i].a, old, new)]]]

LinksRekeyed(links, old, new) ==
    [i \in DOMAIN links |-> [links[i] EXCEPT !.a = Renamed(links[i].a, old, new),
                                            !.b = Renamed(links[i].b, old, new)]]
Rekey(d, old, new) ==
    [d EXCEPT !.nodes = NodesRekeyed(d.nodes, old, new), !.links = LinksRekeyed(d.links, old, new)]

\* forget.
WithoutDevices(d, ks) ==
    [d EXCEPT !.nodes = Restrict(@, DOMAIN @ \ ks), !.links = Cut(@, Touching(d, ks))]

\* clear_orphans.
Cleared(d, known) ==
    [d EXCEPT !.nodes = Restrict(@, DOMAIN @ \cap known),
              !.links = Cut(@, {i \in DOMAIN @ : ~(EndsOf(@[i]) \subseteq known)})]

\* _replace: a discovered device takes over a box's place and wires.
Replaced(d, v, k) ==
    LET was   == IF v \in DOMAIN d.nodes THEN d.nodes[v] ELSE Unplaced
        is    == IF k \in DOMAIN d.nodes THEN d.nodes[k] ELSE Unplaced
        moved == LinksRekeyed(d.links, v, k)
    IN  [d EXCEPT !.boxes = @ \ {v},
                  !.nodes = [WithNodes(Restrict(d.nodes, DOMAIN d.nodes \ {v}), {k}) EXCEPT ![k] =
                                [group |-> IF is.group = Nil THEN was.group ELSE is.group,
                                 hidden |-> FALSE]],
                  !.links = Cut(moved, {i \in DOMAIN moved : moved[i].a = moved[i].b})]

----------------------------------------------------------------------------
(* What the address tables prove.                                          *)

\* _connected_via_passive: joined directly, or through at most three boxes.
Connected(d, a, b) ==
    LET adj(n) == UNION {EndsOf(d.links[i]) \ {n} : i \in {j \in DOMAIN d.links : n \in EndsOf(d.links[j])}}
        reach[n \in 0..3] == IF n = 0 THEN {a}
                             ELSE reach[n - 1] \cup ((UNION {adj(x) : x \in reach[n - 1]}) \cap d.boxes)
    IN  \E n \in reach[3] : b \in adj(n)

\* build: what is on the diagram of the devices there are.
OnDiagram(d, known) ==
    d.boxes \cup {k \in known :
        \/ Touching(d, {k}) # {}
        \/ k \notin DOMAIN d.nodes
        \/ d.nodes[k].group # Nil \/ ~d.nodes[k].hidden}

Wire(u, p, k) == [kind |-> "wire", unit |-> u, port |-> p, to |-> {k}]
Shared(u, p, ks) == [kind |-> "shared", unit |-> u, port |-> p, to |-> ks]

\* wired_from, for a port: what the addresses learned there prove.
Proof(d, known, tables, u, p) ==
    LET macs    == tables[u][p]
        on      == OnDiagram(d, known)
        inside  == (macs \cap known \cap on) \ {u}
        network == inside \cap Net
        first   == IF Cardinality(network) = 1 THEN network ELSE {}
        uplink  == Cardinality(macs) >= UplinkMacs
    IN  IF u \notin on \/ (macs \cap known) \ {u} = {} THEN {}
        ELSE IF uplink \/ Cardinality(macs) = 1 \/ first # {}
        THEN LET direct == IF Cardinality(macs) = 1 /\ ~uplink THEN inside ELSE first
             IN  {Wire(u, p, k) : k \in {x \in direct : ~Connected(d, u, x)}}
        ELSE IF \A k \in inside : Connected(d, u, k) THEN {} ELSE {Shared(u, p, inside)}

\* suggestions.
Suggestions(d, known, tables) ==
    (UNION {Proof(d, known, tables, u, p) : u \in Units \cap known, p \in Ports}) \ d.dismissed

\* accept_suggestion, auto_link_wired: those that are wires are drawn, where they can be.
WireOf(s) == Link(s.unit, s.port, CHOOSE k \in s.to : TRUE, Nil, s)
Wires(sugs) == {s \in sugs : s.kind = "wire"}
AcceptAll(d, known, sugs) == CreateAll(d, known, {WireOf(s) : s \in Wires(sugs)}).doc

\* insert_passive: a box between a shared port and devices seen there.
Insert(d, known, s, v, members) ==
    LET group == IF s.unit \in DOMAIN d.nodes THEN d.nodes[s.unit].group ELSE Nil
        up    == Link(s.unit, s.port, v, Nil, Nil)
        down  == {Link(v, Nil, k, Nil, Nil) : k \in members}
        wired == CreateAll(CreateBox(d, v, group).doc, known, {up} \cup down)
    IN  IF wired.ok THEN Goes([wired.doc EXCEPT !.dismissed = @ \cup {s}]) ELSE Refuse(d)

----------------------------------------------------------------------------
(* Requests that read the devices first.                                   *)

\* Devices wired up as they were leaving or gone.
Leaving == IF telling.kind = "none" THEN {} ELSE {telling.key}
Wired(d) == UNION {EndsOf(d.links[i]) : i \in DOMAIN d.links}
OnRecord(d) == Wired(d) \cup DOMAIN d.nodes
NoteLate(known) ==
    late' = late \cup ((known \ (devices \ Leaving)) \cap (OnRecord(doc') \ OnRecord(doc)))

Mutate(edit) == doc' = Outcome(doc, edit)

\* _inputs.
ReadInputs ==
    /\ request = NoRequest /\ TSpend("ask")
    /\ request' = [step |-> "read", devices |-> devices, tables |-> learned]
    /\ UNCHANGED <<doc, devices, telling, learned, adrift, late, refused>>

Replies == request' = NoRequest /\ UNCHANGED <<devices, telling, learned, adrift, refused>>
Answered == Replies /\ UNCHANGED tleft

Asked == request.step = "read"
Known == request.devices

\* _graph_payload: what is proved is drawn, everything on the diagram gets a place.
Draw ==
    /\ Asked
    /\ LET drawn == AcceptAll(doc, Known, Suggestions(doc, Known, request.tables))
       IN  doc' = [drawn EXCEPT !.nodes = WithNodes(@, OnDiagram(drawn, Known))]
    /\ NoteLate(Known) /\ Answered

\* api_suggestion: the suggestion is looked up, the lock let go, and then acted on.
PickOne ==
    /\ Asked
    /\ \E s \in Suggestions(doc, Known, request.tables) :
          request' = [step |-> "picked", devices |-> Known, sugs |-> {s}]
    /\ UNCHANGED <<doc, devices, telling, learned, tleft, adrift, late, refused>>

PickAll ==
    /\ Asked
    /\ request' = [step |-> "picked", devices |-> Known,
                   sugs |-> Wires(Suggestions(doc, Known, request.tables))]
    /\ UNCHANGED <<doc, devices, telling, learned, tleft, adrift, late, refused>>

\* api_suggestion accept, api_suggestions_accept_all.
AcceptPicked ==
    /\ request.step = "picked"
    /\ doc' = AcceptAll(doc, Known, request.sugs)
    /\ NoteLate(Known) /\ Answered

\* api_suggestion insert.
InsertBox(v, members) ==
    /\ request.step = "picked" /\ v \notin doc.boxes
    /\ \E s \in request.sugs :
          /\ s.kind = "shared" /\ members # {} /\ members \subseteq s.to
          /\ Mutate(Insert(doc, Known, s, v, members))
    /\ NoteLate(Known) /\ Answered

\* api_link_create.
ConnectTwo(a, b) ==
    /\ Asked /\ TSpend("connect")
    /\ Mutate(CreateLink(doc, Known, Link(a, Nil, b, Nil, Nil)))
    /\ NoteLate(Known) /\ Replies

\* api_node, api_layout: a device or box is put in a group or taken out of one, or hidden.
Place(k, g) ==
    /\ Asked /\ TSpend("place") /\ k \in Known \cup doc.boxes /\ g \in doc.groups \cup {Nil}
    /\ doc' = Placed(doc, k, g)
    /\ NoteLate(Known) /\ Replies

Hide(k) ==
    /\ Asked /\ TSpend("place") /\ k \in Known \cup doc.boxes
    /\ doc' = Hidden(doc, k)
    /\ NoteLate(Known) /\ Replies

\* api_equipment_replace.
TakeOver(v, k) ==
    /\ Asked /\ TSpend("replace") /\ v \in doc.boxes /\ k \in Known
    /\ doc' = Replaced(doc, v, k)
    /\ NoteLate(Known) /\ Replies

\* api_orphans_clear.
ClearOrphans ==
    /\ Asked /\ TSpend("clear")
    /\ doc' = Cleared(doc, Known \cup doc.boxes)
    /\ Replies /\ UNCHANGED late

----------------------------------------------------------------------------
(* Edits that need no devices.                                             *)

Edited == UNCHANGED <<devices, telling, learned, request, adrift, late>>
EditedOnly == Edited /\ UNCHANGED refused

AddGroup(g)   == TSpend("box") /\ g \notin doc.groups /\ doc' = [doc EXCEPT !.groups = @ \cup {g}] /\ EditedOnly
DropGroup(g)  == TSpend("box") /\ g \in doc.groups /\ doc' = WithoutGroup(doc, g) /\ EditedOnly
AddBox(v, g)  == /\ TSpend("box") /\ v \notin doc.boxes /\ g \in doc.groups \cup {Nil}
                 /\ Mutate(CreateBox(doc, v, g)) /\ EditedOnly
DropBox(v)    == TSpend("box") /\ v \in doc.boxes /\ doc' = WithoutBox(doc, v) /\ EditedOnly
DropLink(i)   == /\ TSpend("link") /\ i \in DOMAIN doc.links
                 /\ doc' = WithoutLink(doc, i)
                 /\ refused' = refused \cup ({doc.links[i].sug} \ {Nil}) /\ Edited

\* update_link: a port is named, or the ends are swapped.
NamePort(i, p) ==
    /\ TSpend("link") /\ i \in DOMAIN doc.links
    /\ doc' = [doc EXCEPT !.links[i].bp = p] /\ EditedOnly

Swap(i) ==
    /\ TSpend("link") /\ i \in DOMAIN doc.links
    /\ doc' = [doc EXCEPT !.links[i] = [@ EXCEPT !.a = doc.links[i].b, !.ap = doc.links[i].bp,
                                                  !.b = doc.links[i].a, !.bp = doc.links[i].ap]]
    /\ EditedOnly

\* dismiss, and taking that back, for one or all.
Dismiss(s) == TSpend("sug") /\ doc' = [doc EXCEPT !.dismissed = @ \cup {s}] /\ EditedOnly
UndoDismiss(ss) == /\ TSpend("sug") /\ ss # {}
               /\ doc' = [doc EXCEPT !.dismissed = @ \ ss] /\ refused' = refused \ ss /\ Edited

----------------------------------------------------------------------------
(* The scanner.                                                            *)

ScannerOnly == UNCHANGED <<learned, request, refused>>

\* A device is seen (again).
Seen(k) ==
    /\ TSpend("seen") /\ k \notin devices
    /\ devices' = devices \cup {k} /\ adrift' = adrift \ {k} /\ late' = late \ {k}
    /\ UNCHANGED <<doc, telling>> /\ ScannerOnly

\* _run_scan: in the middle of a scan a device known by its address gains its MAC, which may be
\* listed already, as it was at another address, ...
GainsMac(i, m) ==
    /\ TSpend("move") /\ telling = Nothing /\ <<i, m>> \in Moves /\ i \in devices
    /\ doc' = Rekey(doc, i, m) /\ telling' = [kind |-> "rekey", key |-> i, new |-> m]
    /\ UNCHANGED <<devices, adrift, late>> /\ ScannerOnly

\* ... and at its end the list is changed; unless the reachability gate takes the device off again,
\* or the scan fails, or the program stops before.
ScanEnds ==
    /\ telling.kind = "rekey"
    /\ \/ devices' = (devices \ {telling.key}) \cup {telling.new}
       \/ devices' = devices \ {telling.key}
       \/ UNCHANGED devices
    /\ telling' = Nothing /\ late' = late \ {telling.new}
    /\ adrift' = (adrift \ {telling.new}) \cup ({telling.new} \ devices')
    /\ UNCHANGED <<doc, tleft>> /\ ScannerOnly

\* delete_device: the diagram is told first, Kuma next, and then the device leaves the list.
ForgetBegins(k) ==
    /\ TSpend("forget") /\ telling = Nothing /\ k \in devices
    /\ doc' = WithoutDevices(doc, {k}) /\ telling' = [kind |-> "forget", key |-> k]
    /\ UNCHANGED <<devices, adrift, late>> /\ ScannerOnly

ForgetEnds ==
    /\ telling.kind = "forget"
    /\ devices' = devices \ {telling.key} /\ telling' = Nothing
    /\ UNCHANGED <<doc, tleft, adrift, late>> /\ ScannerOnly

\* prune_devices: the diagram is not told.
PruneOne(k) ==
    /\ TSpend("prune") /\ telling = Nothing /\ k \in devices
    /\ devices' = devices \ {k} /\ adrift' = adrift \cup {k}
    /\ UNCHANGED <<doc, telling, late>> /\ ScannerOnly

\* switchmon reads the tables again.
Learn(t) ==
    /\ TSpend("learn") /\ t # learned /\ learned' = t
    /\ UNCHANGED <<doc, devices, telling, request, adrift, late, refused>>

SuggestionIds == [kind : {"wire", "shared"}, unit : Units, port : Ports, to : SUBSET MacKeys]

TNext ==
    \/ ReadInputs \/ Draw \/ PickOne \/ PickAll \/ AcceptPicked \/ ClearOrphans
    \/ \E v \in Boxes, ks \in SUBSET MacKeys : InsertBox(v, ks)
    \/ \E a, b \in Things : ConnectTwo(a, b)
    \/ \E k \in Things : Hide(k) \/ \E g \in Groups \cup {Nil} : Place(k, g)
    \/ \E v \in Boxes : DropBox(v) \/ (\E k \in Devices : TakeOver(v, k))
                     \/ \E g \in Groups \cup {Nil} : AddBox(v, g)
    \/ \E g \in Groups : AddGroup(g) \/ DropGroup(g)
    \/ \E i \in Lids : DropLink(i) \/ Swap(i) \/ \E p \in Ports : NamePort(i, p)
    \/ \E s \in SuggestionIds : Dismiss(s) \/ UndoDismiss({s})
    \/ UndoDismiss(doc.dismissed)
    \/ \E k \in Devices : Seen(k) \/ ForgetBegins(k) \/ PruneOne(k)
    \/ \E m \in Moves : GainsMac(m[1], m[2])
    \/ ScanEnds \/ ForgetEnds
    \/ \E t \in Tables : Learn(t)

TSpec == TInit /\ [][TNext]_tvars

----------------------------------------------------------------------------
(* Properties.                                                             *)

\* Type correctness.
TTypeOK ==
    /\ doc.groups \subseteq Groups /\ doc.boxes \subseteq Boxes
    /\ DOMAIN doc.nodes \subseteq Things
    /\ \A k \in DOMAIN doc.nodes : doc.nodes[k] \in [group : Groups \cup {Nil}, hidden : BOOLEAN]
    /\ DOMAIN doc.links \subseteq Lids
    /\ \A i \in DOMAIN doc.links :
          /\ EndsOf(doc.links[i]) \subseteq Things
          /\ {doc.links[i].ap, doc.links[i].bp} \subseteq Ports \cup {Nil}
          /\ doc.links[i].sug = Nil \/ doc.links[i].sug \in SuggestionIds
    /\ doc.dismissed \subseteq SuggestionIds /\ refused \subseteq SuggestionIds
    /\ devices \subseteq Devices /\ adrift \subseteq Devices /\ late \subseteq Devices
    /\ learned \in Tables
    /\ request.step \in {"idle", "read", "picked"}
    /\ request.step # "idle" => request.devices \subseteq Devices

\* Whatever is deleted, replaced or edited while requests that read the diagram earlier come in,
\* no wire and no place is left of a box that is gone, and nothing sits in a group that is gone.
EndsExist ==
    /\ OnRecord(doc) \cap Boxes \subseteq doc.boxes
    /\ \A k \in DOMAIN doc.nodes : doc.nodes[k].group \in doc.groups \cup {Nil}

\* What the diagram keeps of devices that are not listed is of pruned ones, of ones that a scan
\* gave their MAC and did not list, or was drawn from a list read before they left: neither being
\* forgotten nor a re-keying that is gone through with leaves anything behind, under either key.
NothingDangles ==
    LET coming == IF telling.kind = "rekey" THEN {telling.new} ELSE {}
    IN  (OnRecord(doc) \cap Devices) \ (devices \cup coming) \subseteq adrift \cup late

\* The diagram has no loose ends, of boxes, groups or devices.
DiagramWhole == EndsExist /\ NothingDangles

\* A wire the diagram drew by itself and somebody removed, whatever was done to it before, is not
\* drawn again by showing the page, until somebody asks for it. It is known by its unit's key: a
\* switch that gains its MAC afterwards is a new unit, whose wires are all drawn.
NotDrawnAgain ==
    [][Draw => \A i \in DOMAIN doc'.links :
                  doc'.links[i].sug \in refused => i \in DOMAIN doc.links]_tvars

\* A box put between a port and the devices seen there comes with its wire to the port and to a
\* device, and settles the suggestion: what cannot be done whole is not begun.
ChangesWhole ==
    [][\A v \in (doc'.boxes \ doc.boxes) \cap Wired(doc') :
          \E s \in doc'.dismissed, i, j \in DOMAIN doc'.links :
              /\ s.kind = "shared"
              /\ EndsOf(doc'.links[i]) = {s.unit, v}
              /\ v \in EndsOf(doc'.links[j]) /\ EndsOf(doc'.links[j]) \cap s.to # {}]_tvars

\* What people drew, and what they removed, is kept to.
DrawnAsAsked == NotDrawnAgain /\ ChangesWhole

\* Forgetting a device removes its wires from the diagram.
ForgetRemoves == [][ForgetEnds => telling.key \notin Wired(doc')]_tvars
=============================================================================
