------------------------------ MODULE CamLive ------------------------------
(***************************************************************************)
(* Live video of cameras (app/camlive.py): one go2rtc relay for all views, *)
(* started for the first of them and stopped some time after the last.     *)
(* Opening, closing and stopping hold one lock; sending the video does     *)
(* not. A camera's login is in the relay for as long as its stream is.     *)
(*                                                                         *)
(* The relay may die, answer too late, refuse a stream or not hear a       *)
(* DELETE. Abstracted: which camera and stream, codecs, the bytes.         *)
(***************************************************************************)
EXTENDS Naturals, FiniteSets

CONSTANTS
    MaxViews,   \* MAX_VIEWS
    LBudget     \* bounds of "open" and of what the relay and viewers do

ASSUME ViewsAssumption == MaxViews \in Nat \ {0} /\ LBudget.open \in Nat

VARIABLES
    relay,      \* proc: "none", "up", or "dead" before anybody looked
    streams,    \* the streams it has
    lviews,     \* Live.views
    opening,    \* the open() that holds the lock, and how far it is
    pump,       \* each viewer: how far its video is
    timer,      \* _stop_timer: counting, or run out and waiting for the lock
    unheard,    \* streams whose DELETE got lost (history)
    lleft

lvars == <<relay, streams, lviews, opening, pump, timer, unheard, lleft>>

Names == 1..LBudget.open
Nobody == [name |-> 0, step |-> "free"]

LInit ==
    /\ relay = "none" /\ streams = {} /\ lviews = {} /\ unheard = {}
    /\ opening = Nobody /\ pump = [n \in Names |-> "none"]
    /\ timer = [counts |-> FALSE, ranOut |-> FALSE]
    /\ lleft = LBudget

LSpend(kind) == lleft[kind] > 0 /\ lleft' = [lleft EXCEPT ![kind] = @ - 1]

Unlocked == opening.step = "free"

\* _stop: the relay is gone and its streams with it.
Stopped == relay' = "none" /\ streams' = {} /\ unheard' = {}

\* _delete: the stream goes, unless the call is lost or nobody is there to hear it.
Deleted(n) ==
    \/ streams' = streams \ {n} /\ UNCHANGED <<unheard, lleft>>
    \/ relay = "up" /\ LSpend("lost") /\ unheard' = unheard \cup ({n} \cap streams) /\ UNCHANGED streams

Counting == [timer EXCEPT !.counts = TRUE]

\* _idle_later, when nobody is left.
IdleLater(views) == IF views = {} THEN Counting ELSE timer

\* open begins by closing views that last longer than any may: their viewers are stuck.
ClosesStuck(n) ==
    /\ Unlocked /\ n \in lviews /\ pump[n] = "stuck" /\ lleft["open"] > 0
    /\ Deleted(n) /\ lviews' = lviews \ {n} /\ timer' = IdleLater(lviews')
    /\ UNCHANGED <<relay, opening, pump>>

\* The lock, a place, and _ensure: a relay that does not answer in time is replaced, whoever
\* watches.
HasPlace == Cardinality(lviews) < MaxViews

Open(n) ==
    /\ Unlocked /\ LSpend("open") /\ \A m \in Names : m < n <=> pump[m] # "none"
    /\ pump' = [pump EXCEPT ![n] = "asked"]
    /\ HasPlace /\ \A m \in lviews : pump[m] # "stuck"
    /\ opening' = [name |-> n, step |-> "ensure"]
    /\ timer' = [timer EXCEPT !.counts = FALSE]
    /\ UNCHANGED <<relay, streams, lviews, unheard>>

Answers ==
    /\ opening.step = "ensure" /\ relay = "up"
    /\ opening' = [opening EXCEPT !.step = "put"]
    /\ UNCHANGED <<relay, streams, lviews, pump, timer, unheard, lleft>>

Replaces ==
    /\ opening.step = "ensure" /\ relay = "up" /\ LSpend("slow") /\ Stopped
    /\ UNCHANGED <<lviews, opening, pump, timer>>

Starts ==
    /\ opening.step = "ensure" /\ relay # "up"
    /\ relay' = "up" /\ opening' = [opening EXCEPT !.step = "put"]
    /\ UNCHANGED <<streams, lviews, pump, timer, unheard, lleft>>

NotStarted ==
    /\ opening.step = "ensure" /\ relay # "up"
    /\ LSpend("fail") /\ Stopped
    /\ opening' = Nobody /\ pump' = [pump EXCEPT ![opening.name] = "over"]
    /\ UNCHANGED <<lviews, timer>>

\* The stream is added, and looked up: only one that is there counts.
Put ==
    /\ opening.step = "put"
    /\ \/ relay = "up" /\ streams' = streams \cup {opening.name} /\ UNCHANGED lleft
       \/ relay = "up" /\ LSpend("refuse") /\ UNCHANGED streams
       \/ relay # "up" /\ UNCHANGED <<streams, lleft>>
    /\ opening' = [opening EXCEPT !.step = "look"]
    /\ UNCHANGED <<relay, lviews, pump, timer, unheard>>

Added ==
    /\ opening.step = "look" /\ relay = "up" /\ opening.name \in streams
    /\ lviews' = lviews \cup {opening.name}
    /\ pump' = [pump EXCEPT ![opening.name] = "given"] /\ opening' = Nobody
    /\ UNCHANGED <<relay, streams, timer, unheard, lleft>>

NotAdded ==
    /\ opening.step = "look"
    /\ opening.name \in streams => LSpend("slow")
    /\ opening.name \notin streams => UNCHANGED lleft
    /\ opening' = [opening EXCEPT !.step = "withdraw"]
    /\ UNCHANGED <<relay, streams, lviews, pump, timer, unheard>>

\* Mutant: a stream that is not there needs no DELETE.
WithdrawnNot(n) == UNCHANGED <<streams, unheard, lleft>>

Withdrawn(n) == Deleted(n)

Refused ==
    /\ opening.step = "withdraw" /\ Withdrawn(opening.name)
    /\ timer' = IdleLater(lviews)
    /\ pump' = [pump EXCEPT ![opening.name] = "over"] /\ opening' = Nobody
    /\ UNCHANGED <<relay, lviews>>

\* The video runs, until the relay ends it, the time is up or the viewer leaves; a viewer who
\* leaves before the first bytes never runs the pump.
Play(n) ==
    /\ pump[n] = "given" /\ pump' = [pump EXCEPT ![n] = IF n \in streams THEN "plays" ELSE "ending"]
    /\ UNCHANGED <<relay, streams, lviews, opening, timer, unheard, lleft>>

Sticks(n) ==
    /\ pump[n] = "plays" /\ LSpend("stuck") /\ pump' = [pump EXCEPT ![n] = "stuck"]
    /\ UNCHANGED <<relay, streams, lviews, opening, timer, unheard>>

Ends(n) ==
    /\ pump[n] \in {"given", "plays", "stuck"} /\ pump' = [pump EXCEPT ![n] = "ending"]
    /\ UNCHANGED <<relay, streams, lviews, opening, timer, unheard, lleft>>

\* close, by the pump or by the end of the response, whichever comes first.
Close(n) ==
    /\ Unlocked /\ pump[n] = "ending" /\ pump' = [pump EXCEPT ![n] = "over"]
    /\ IF n \in lviews THEN Deleted(n) /\ lviews' = lviews \ {n} /\ timer' = IdleLater(lviews')
                       ELSE UNCHANGED <<streams, unheard, lleft, lviews, timer>>
    /\ UNCHANGED <<relay, opening>>

\* _idle_later.stop: the timer runs out, and gets the lock in the end. Mutant: it stops the
\* relay without looking.
RunsOut ==
    /\ timer.counts /\ timer' = [counts |-> FALSE, ranOut |-> TRUE]
    /\ UNCHANGED <<relay, streams, lviews, opening, pump, unheard, lleft>>

Idle == lviews = {}

IdleStop ==
    /\ timer.ranOut /\ Unlocked /\ timer' = [timer EXCEPT !.ranOut = FALSE]
    /\ IF Idle THEN Stopped ELSE UNCHANGED <<relay, streams, unheard>>
    /\ UNCHANGED <<lviews, opening, pump, lleft>>

Dies ==
    /\ relay = "up" /\ LSpend("die") /\ relay' = "dead" /\ streams' = {} /\ unheard' = {}
    /\ UNCHANGED <<lviews, opening, pump, timer>>

LNext ==
    \/ Answers \/ Replaces \/ Starts \/ NotStarted \/ Put \/ Added \/ NotAdded \/ Refused
    \/ RunsOut \/ IdleStop \/ Dies
    \/ \E n \in Names : Open(n) \/ ClosesStuck(n) \/ Play(n) \/ Sticks(n) \/ Ends(n) \/ Close(n)

LSpec == LInit /\ [][LNext]_lvars

LTypeOK ==
    /\ relay \in {"none", "up", "dead"} /\ streams \subseteq Names /\ lviews \subseteq Names
    /\ unheard \subseteq Names
    /\ opening \in [name : Names \cup {0}, step : {"free", "ensure", "put", "look", "withdraw"}]
    /\ pump \in [Names -> {"none", "asked", "given", "plays", "stuck", "ending", "over"}]
    /\ timer \in [counts : BOOLEAN, ranOut : BOOLEAN]

(***************************************************************************)
(* Properties.                                                             *)
(***************************************************************************)
\* A login leaves the relay with its viewer: a stream is of a view, of the one being opened,
\* or its DELETE got lost.
LoginsGo == streams \subseteq lviews \cup unheard \cup (IF Unlocked THEN {} ELSE {opening.name})

\* No more views than MAX_VIEWS, though the place is looked for long before the view is kept.
PlacesKept == Cardinality(lviews) <= MaxViews
=============================================================================
