---------------------------- MODULE TimeKeeping -----------------------------
(***************************************************************************)
(* Time keeping of the hub (hub/app/timekeeping.py), one day of it: marks  *)
(* of work per minute, the builder that makes draft entries of them, and   *)
(* the operator who edits, approves, dismisses and types entries and       *)
(* presses the field buttons. The builder reads, thinks and writes; edits  *)
(* take no lock, and an import of Claude sessions builds in a process of   *)
(* its own, so that both may come in between.                              *)
(*                                                                         *)
(* A builder reads activity and entries one after the other; activity does *)
(* not depend on anything else here, so one moment stands for both. Seconds*)
(* within a minute, notes, kilometres, settings and billing are abstracted.*)
(***************************************************************************)
EXTENDS Naturals, FiniteSets, FiniteSetsExt

CONSTANTS
    Farms,      \* numbered; the hub's pages for all farms are Hub
    Day,        \* its length in minutes
    Gap,        \* idle_gap_min, dev_gap_min
    WifiGap,    \* wifi_gap_min
    KBudgets    \* bounds of marks, edits, typed entries, buttons, imports and minutes to come;
                \* "together" is a switch, "min" a setting: max(min_session_min, 1)

Hub == 0
StillOpen == 0

KKinds == {"mark", "edit", "type", "clock", "tick", "import", "together", "min"}

ASSUME DayAssumption ==
    /\ Farms \subseteq Nat \ {Hub} /\ IsFiniteSet(Farms) /\ Day \in Nat \ {0}
    /\ Gap \in Nat /\ WifiGap \in Nat
    /\ KBudgets \subseteq [KKinds -> Nat] /\ \A b \in KBudgets : b["tick"] <= Day

VARIABLES
    work, latest,   \* time_activity, remote: where each minute saw work, and where last
    phone, claude,     \* time_activity: the phone on a farm's Wi-Fi, Claude sessions
    entries,        \* time_entries
    nextEntry,
    now,            \* the minute it is
    plans,          \* of each process that builds: nothing, or what it will write
    builds,         \* builds since anything changed, up to 2 (history)
    kleft

kvars == <<work, latest, phone, claude, entries, nextEntry, now, plans, builds, kleft>>

Minutes == 0..(Day - 1)
Places == Farms \cup {Hub}
Processes == {"hub", "import"}
NoPlan == [step |-> "none"]

KInit ==
    /\ kleft \in KBudgets
    /\ work = [m \in Minutes |-> {}] /\ latest = [m \in Minutes |-> Hub]
    /\ phone = [f \in Farms |-> {}] /\ claude = {}
    /\ entries = [i \in {} |-> {}] /\ nextEntry = 1 /\ now = Day - kleft["tick"]
    /\ plans = [p \in Processes |-> NoPlan] /\ builds = 0

KSpend(kind) == kleft[kind] > 0 /\ kleft' = [kleft EXCEPT ![kind] = @ - 1]

\* What a builder read is old now; where "together" is 0 nothing comes between.
Changed ==
    /\ kleft["together"] = 0 => \A p \in Processes : plans[p] = NoPlan
    /\ builds' = 0
    /\ plans' = [p \in Processes |-> IF plans[p] = NoPlan THEN NoPlan ELSE [plans[p] EXCEPT !.fresh = FALSE]]

(***************************************************************************)
(* What a day's activity amounts to.                                       *)
(***************************************************************************)

RunStarts(where, gap) ==
    LET D == DOMAIN where IN
    {m \in D : LET before == {p \in D : p < m} IN
               before # {} => where[Max(before)] # where[m] \/ m - (Max(before) + 1) > gap}

\* sessions_of, the last loop of remote_timeline and, without a gap, _subtract.
Runs(where, gap) ==
    LET starts == RunStarts(where, gap)
        last(s) == Max({m \in DOMAIN where : m >= s /\ \A t \in starts : t > s => m < t})
    IN {[site |-> where[s], start |-> s, end |-> last(s) + 1] : s \in starts}

\* A farm beats the hub's pages, and the latest of the farms the others.
Owner(m) == IF work[m] \cap Farms = {} THEN Hub ELSE latest[m]

Active == {m \in Minutes : work[m] # {}}

\* A glance at the overview during a farm's work stays with the farm.
Placed ==
    LET place[m \in Minutes] ==
            LET prevs == {p \in Active : p < m /\ place[p] # Hub}
                nexts == {n \in Active : n > m /\ Owner(n) # Hub}
            IN IF Owner(m) = Hub /\ prevs # {} /\ nexts # {}
                  /\ place[Max(prevs)] = Owner(Min(nexts))
                  /\ m - Max(prevs) <= Gap /\ Min(nexts) - m <= Gap
               THEN place[Max(prevs)] ELSE Owner(m)
    IN [m \in Active |-> place[m]]

(***************************************************************************)
(* The builder.                                                            *)
(***************************************************************************)
AutoSources == {"auto", "wifi", "claude"}
Origin == [auto |-> "remote", wifi |-> "field", claude |-> "dev"]
Group == [remote |-> "remote", general |-> "remote", onsite |-> "field", travel |-> "field", dev |-> "dev"]

Frozen(e) == e.status # "draft" \/ e.edited \/ e.source \notin AutoSources

Covers(e) == {m \in Minutes : e.start <= m /\ m < (IF e.end = StillOpen THEN now ELSE e.end)}
Overlap(e, d) == Covers(e) \cap Covers(d) # {}

\* Mutant: an entry covers only the kind it has now.
HolesNow(g) ==
    UNION {Covers(entries[i]) : i \in {j \in DOMAIN entries : Frozen(entries[j]) /\ Group[entries[j].kind] = g}}

\* Frozen entries keep their group's time, and that of the activity they were built from.
Holes(g) ==
    UNION {Covers(entries[i]) : i \in {j \in DOMAIN entries :
               /\ Frozen(entries[j])
               /\ \/ Group[entries[j].kind] = g
                  \/ entries[j].source \in AutoSources /\ Origin[entries[j].source] = g}}

Draft(kind, source, r) ==
    [kind |-> kind, site |-> r.site, start |-> r.start, end |-> r.end,
     source |-> source, status |-> "draft", edited |-> FALSE]

\* The pieces of a session outside the holes.
Stretches(kind, source, sessions) ==
    UNION {{Draft(kind, source, p) :
               p \in Runs([m \in (r.start..(r.end - 1)) \ Holes(Origin[source]) |-> r.site], 0)} : r \in sessions}

LongEnough(drafts) == {d \in drafts : d.end - d.start >= kleft["min"]}

Visits == Stretches("onsite", "wifi", UNION {Runs([m \in phone[f] |-> f], WifiGap) : f \in Farms})

\* On-site time of any status but dismissed, and the visits found just now.
OnSite(f) ==
    UNION ({Covers(entries[i]) : i \in {j \in DOMAIN entries :
                /\ entries[j].kind = "onsite" /\ entries[j].site = f /\ entries[j].status # "dismissed"}}
           \cup {Covers(d) : d \in {v \in Visits : v.site = f}})

\* exclude: minutes on site at that farm, or at any for the hub's own pages.
Elsewhere == [p \in Places |-> IF p = Hub THEN UNION {OnSite(f) : f \in Farms} ELSE OnSite(p)]

RemoteWork ==
    LET placed == Placed
        else == Elsewhere
        kept == {m \in Active : m \notin else[placed[m]]}
    IN Runs([m \in kept |-> placed[m]], Gap)

Want ==
    Visits \cup LongEnough(Stretches("remote", "auto", RemoteWork))
           \cup LongEnough(Stretches("dev", "claude", Runs([m \in claude |-> Hub], Gap)))

Fits(i, d) == entries[i].kind = d.kind /\ entries[i].site = d.site /\ Overlap(entries[i], d)

First(S) ==
    CHOOSE i \in S : \A j \in S : \/ entries[i].start < entries[j].start
                                  \/ entries[i].start = entries[j].start /\ i <= j

\* Drafts that still match are updated in place: the first that fits and is not used yet.
Matches(want, old) ==
    LET upTo[m \in 0..Day] ==
            LET before == upTo[m - 1]
                fit(d) == {i \in old \ {x.id : x \in before} : Fits(i, d)}
            IN IF m = 0 THEN {}
               ELSE before \cup {[id |-> First(fit(d)), draft |-> d] :
                                    d \in {w \in want : w.start = m - 1 /\ fit(w) # {}}}
    IN upTo[Day]

Plan ==
    LET want == Want
        old == {i \in DOMAIN entries : ~Frozen(entries[i])}
        matched == Matches(want, old)
    IN [step |-> "write", fresh |-> TRUE,
        update |-> {x \in matched : entries[x.id].start # x.draft.start \/ entries[x.id].end # x.draft.end},
        insert |-> want \ {x.draft : x \in matched},
        delete |-> old \ {x.id : x \in matched}]

BuildRead(p) ==
    /\ plans[p] = NoPlan
    /\ IF p = "import" THEN KSpend("import") ELSE builds < 2 /\ UNCHANGED kleft
    /\ plans' = [plans EXCEPT ![p] = Plan]
    /\ UNCHANGED <<work, latest, phone, claude, entries, nextEntry, now, builds>>

\* It writes by id, whatever became of the entries since; an entry that is gone stays gone.
Written(plan) ==
    LET kept == DOMAIN entries \ plan.delete
        new == nextEntry..(nextEntry + Cardinality(plan.insert) - 1)
        named == CHOOSE f \in [new -> plan.insert] : \A i, j \in new : i # j => f[i] # f[j]
        moved(i) == CHOOSE x \in plan.update : x.id = i
    IN [i \in kept \cup new |->
            IF i \in new THEN named[i]
            ELSE IF \E x \in plan.update : x.id = i
            THEN [entries[i] EXCEPT !.start = moved(i).draft.start, !.end = moved(i).draft.end]
            ELSE entries[i]]

BuildWrite(p) ==
    LET plan == plans[p]
        others == [q \in Processes |-> IF q = p THEN NoPlan
                   ELSE IF plans[q] # NoPlan /\ entries' # entries THEN [plans[q] EXCEPT !.fresh = FALSE]
                   ELSE plans[q]]
    IN
    /\ plan # NoPlan
    /\ entries' = Written(plan) /\ nextEntry' = nextEntry + Cardinality(plan.insert)
    /\ plans' = others /\ builds' = IF plan.fresh THEN IF builds < 2 THEN builds + 1 ELSE 2 ELSE 0
    /\ UNCHANGED <<work, latest, phone, claude, now, kleft>>

(***************************************************************************)
(* Activity and time.                                                      *)
(***************************************************************************)
\* mark, of a minute that has begun; a late one may be older than what is there.
MarkRemote(m, p) ==
    /\ m < now /\ KSpend("mark") /\ Changed
    /\ work' = [work EXCEPT ![m] = @ \cup {p}]
    /\ \E l \in (IF p = Hub THEN {latest[m]}
                 ELSE {p} \cup (IF latest[m] \in Farms THEN {latest[m]} ELSE {})) :
           latest' = [latest EXCEPT ![m] = l]
    /\ UNCHANGED <<phone, claude, entries, nextEntry, now>>

MarkPhone(m, f) ==
    /\ m < now /\ KSpend("mark") /\ Changed /\ phone' = [phone EXCEPT ![f] = @ \cup {m}]
    /\ UNCHANGED <<work, latest, claude, entries, nextEntry, now>>

MarkDev(m) ==
    /\ m < now /\ KSpend("mark") /\ Changed /\ claude' = claude \cup {m}
    /\ UNCHANGED <<work, latest, phone, entries, nextEntry, now>>

Tick ==
    /\ KSpend("tick") /\ now' = now + 1 /\ Changed
    /\ UNCHANGED <<work, latest, phone, claude, entries, nextEntry>>

(***************************************************************************)
(* The operator.                                                           *)
(***************************************************************************)
EditsOnly == UNCHANGED <<work, latest, phone, claude, now>>

Approvable(e) == e.end # StillOpen /\ ~(e.kind = "remote" /\ e.site = Hub)

\* _clean_entry: general and dev time belong to no farm, field time to one.
CleanSite(kind, p) == IF kind \in {"dev", "general"} THEN Hub ELSE p
Clean(e) == e.kind \in {"onsite", "travel"} => e.site # Hub

\* update_entry: other times, another kind or farm, with or without approval.
EditOf(e, k, p, n, s) == [e EXCEPT !.kind = k, !.site = CleanSite(k, p), !.end = n, !.status = s, !.edited = TRUE]

Edits(e) ==
    {d \in {EditOf(e, k, p, n, s) :
               k \in {e.kind, "remote", "general"}, p \in {e.site} \cup Farms,
               n \in {e.end} \cup ((e.start + 1)..(e.start + 1)), s \in {e.status, "approved"}} :
        d # e /\ Clean(d) /\ (d.status = "approved" => Approvable(d))}

Update(i) ==
    /\ KSpend("edit") /\ Changed /\ EditsOnly
    /\ \E d \in Edits(entries[i]) : entries' = [entries EXCEPT ![i] = d]
    /\ UNCHANGED nextEntry

\* delete_entry: what a builder made is dismissed.
Delete(i) ==
    /\ KSpend("edit") /\ Changed /\ EditsOnly
    /\ entries' = IF entries[i].source \in AutoSources
                  THEN [entries EXCEPT ![i] = [@ EXCEPT !.status = "dismissed", !.edited = TRUE]]
                  ELSE [j \in DOMAIN entries \ {i} |-> entries[j]]
    /\ UNCHANGED nextEntry

ApproveDay ==
    /\ KSpend("edit") /\ Changed /\ EditsOnly
    /\ entries' = [i \in DOMAIN entries |->
                      IF entries[i].status = "draft" /\ Approvable(entries[i])
                      THEN [entries[i] EXCEPT !.status = "approved", !.edited = TRUE] ELSE entries[i]]
    /\ UNCHANGED nextEntry

Entered(e) == entries' = [i \in DOMAIN entries \cup {nextEntry} |-> IF i = nextEntry THEN e ELSE entries[i]]

\* add_entry.
Type(kind, p, s, e) ==
    /\ KSpend("type") /\ Changed /\ EditsOnly
    /\ s < e /\ e <= now
    /\ LET entry == [kind |-> kind, site |-> CleanSite(kind, p), start |-> s, end |-> e,
                     source |-> "manual", status |-> "approved", edited |-> FALSE]
       IN Clean(entry) /\ Approvable(entry) /\ Entered(entry)
    /\ nextEntry' = nextEntry + 1

\* clock: a button closes what is open and opens a drive or a visit.
Running(kinds) == {i \in DOMAIN entries : entries[i].end = StillOpen /\ entries[i].kind \in kinds}

Closed(ids) ==
    [i \in DOMAIN entries |->
        IF i \in ids THEN [entries[i] EXCEPT !.end = Max({now, entries[i].start + 1})] ELSE entries[i]]

Button(kind, f) ==
    [kind |-> kind, site |-> f, start |-> now, end |-> StillOpen,
     source |-> "button", status |-> "approved", edited |-> FALSE]

ClockOpens(kind, f) ==
    /\ KSpend("clock") /\ Changed /\ EditsOnly /\ now < Day
    /\ entries' = [i \in DOMAIN entries \cup {nextEntry} |->
                      IF i = nextEntry THEN Button(kind, f) ELSE Closed(Running({"travel", "onsite"}))[i]]
    /\ nextEntry' = nextEntry + 1

\* Leaving closes the visit, arriving home or stopping whatever runs.
ClockCloses(kinds) ==
    /\ kinds = {"onsite"} => Running(kinds) # {}
    /\ KSpend("clock") /\ Changed /\ EditsOnly
    /\ entries' = Closed(Running(kinds)) /\ UNCHANGED nextEntry

KNext ==
    \/ \E p \in Processes : BuildRead(p) \/ BuildWrite(p)
    \/ \E m \in Minutes : MarkDev(m) \/ (\E p \in Places : MarkRemote(m, p)) \/ (\E f \in Farms : MarkPhone(m, f))
    \/ Tick \/ ApproveDay
    \/ \E i \in DOMAIN entries : Update(i) \/ Delete(i)
    \/ \E k \in {"remote", "onsite", "travel"}, p \in Places, s, e \in 0..Day : Type(k, p, s, e)
    \/ \E k \in {"onsite", "travel"}, f \in Farms : ClockOpens(k, f)
    \/ \E kinds \in {{"onsite"}, {"travel", "onsite"}} : ClockCloses(kinds)

KSpec == KInit /\ [][KNext]_kvars

(***************************************************************************)
(* Properties.                                                             *)
(***************************************************************************)
Entry(e) ==
    /\ e.kind \in DOMAIN Group /\ e.site \in Places /\ e.start \in 0..Day
    /\ e.end = StillOpen \/ e.end \in (e.start + 1)..(Day + 1)
    /\ e.source \in AutoSources \cup {"manual", "button"}
    /\ e.status \in {"draft", "approved", "dismissed"} /\ e.edited \in BOOLEAN

\* Type correctness: an entry ends after it starts, however pieces were cut and drafts moved.
KTypeOK ==
    /\ work \in [Minutes -> SUBSET Places] /\ latest \in [Minutes -> Places]
    /\ phone \in [Farms -> SUBSET Minutes] /\ claude \subseteq Minutes
    /\ DOMAIN entries \subseteq 1..(nextEntry - 1) /\ \A i \in DOMAIN entries : Entry(entries[i])
    /\ now \in 0..Day /\ builds \in 0..2

\* The operator had a hand in it.
Settled(e) == e.status \in {"approved", "dismissed"} \/ e.edited \/ e.source \in {"manual", "button"}
Drafts(source) == {i \in DOMAIN entries : ~Settled(entries[i]) /\ entries[i].source = source}

\* "Never lays a new draft over its time": right after a build nothing came between, no draft
\* lies over a settled entry of its kind of work, or over one made of the same activity; nor
\* over another draft of the same activity, but for a phone seen at two farms.
DraftsClear ==
    builds >= 1 =>
        \A s \in AutoSources : \A i \in Drafts(s) : \A j \in DOMAIN entries \ {i} :
            Overlap(entries[i], entries[j]) =>
                IF Settled(entries[j]) THEN entries[j].source # s /\ Group[entries[j].kind] # Origin[s]
                ELSE entries[j].source # s \/ (s = "wifi" /\ entries[j].site # entries[i].site)

\* What is settled stays as it is through a build nothing came between.
FrozenStays ==
    [][(\E p \in Processes : plans[p] # NoPlan /\ plans'[p] = NoPlan /\ plans[p].fresh) =>
           \A i \in DOMAIN entries : Settled(entries[i]) => i \in DOMAIN entries' /\ entries'[i] = entries[i]]_kvars

\* A minute of work at a farm goes to one place: after two builds it is in exactly one draft,
\* of the farm worked for last in it, unless it is settled, was spent on site there or is part
\* of a stretch that is too short.
MinutePlaced ==
    builds = 2 =>
        \A m \in Active : work[m] \cap Farms # {} =>
            LET f == latest[m]
                here == {i \in Drafts("auto") : m \in Covers(entries[i])}
            IN \/ m \in Holes("remote") \/ m \in OnSite(f)
               \/ \E i \in here : here = {i} /\ entries[i].site = f
               \/ \E r \in RemoteWork : r.site = f /\ m \in Covers(r)
                      /\ \A p \in Runs([q \in (r.start..(r.end - 1)) \ Holes("remote") |-> f], 0) :
                             m \in Covers(p) => p.end - p.start < kleft["min"]

\* Builds settle: after two of them with nothing new, a third would write nothing.
BuildSettles == builds = 2 => Plan.update = {} /\ Plan.insert = {} /\ Plan.delete = {}

\* A day's minutes are each billed once, and building the day again changes nothing.
DayWhole == DraftsClear /\ MinutePlaced /\ BuildSettles
=============================================================================
