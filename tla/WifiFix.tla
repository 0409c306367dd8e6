------------------------------ MODULE WifiFix -------------------------------
(***************************************************************************)
(* Safe Wi-Fi fixes on one airOS radio (app/wififix.py).                   *)
(*                                                                         *)
(* Actors: requests that preview and apply, the job thread in Netwatch,    *)
(* the script it starts on the radio, the radio with its peers, somebody   *)
(* in the radio's own pages, and whatever restarts Netwatch or the radio.  *)
(* The script runs on the radio by itself: all Netwatch has of it is the   *)
(* last line of its state file, when the radio answers.                    *)
(*                                                                         *)
(* Abstracted: a fix edits one key (a real one a few, all in one `sed`     *)
(* pass); a peer count is what wstalist shows; a wait is over sooner or    *)
(* later; live readings are either there or not, and one of the transmit   *)
(* power may differ from what the wireless was given.                      *)
(***************************************************************************)
EXTENDS Naturals

CONSTANTS
    Keys,       \* settings a fix may edit
    KeyOf,      \* the one each fix edits
    Vals,       \* their values
    Good,       \* the value every key has at first: all peers can follow it
    Peers,      \* how many peers the radio has when all is well
    None,       \* no value, no configuration
    RadioKinds, \* the kinds of radio looked at
    Budgets     \* bounds, one record of Kinds a scenario

Kinds == {"fix", "preview", "restart", "reboot", "lost", "slow", "byhand", "fade", "flash", "expire", "misread"}

\* The fixes: what each must prove, besides the peers, before the radio may save it.
\* Power set to a value, country, NTP and the airOS 6 channel need a radio that knows the
\* soft restart's test mode.
Fixes == {"ac_mode", "country", "power", "channel"}
Proof(fix) == CASE fix = "ac_mode" -> "peers" [] fix = "country" -> "drop"
                [] fix = "power" -> "power"   [] fix = "channel" -> "channel"

\* What a radio can be: its soft restart applies the file or only stores it; whether applying
\* takes the link down; whether a live reading works; whether it shows a test mode; how many
\* peers can follow a changed setting.
Radios == [applies : BOOLEAN, drops : BOOLEAN, reads : BOOLEAN, test : BOOLEAN, reach : 0..Peers]

ASSUME PeersAssumption  == Peers \in Nat \ {0}
ASSUME ValsAssumption   == Good \in Vals /\ None \notin Vals \cup Keys
ASSUME FixAssumption    == KeyOf \in [Fixes -> Keys] /\ RadioKinds \subseteq Radios
ASSUME BudgetAssumption == Budgets \subseteq [Kinds -> Nat]

Configs == [Keys -> Vals]

Plan == [fix : Fixes, key : Keys, old : Vals, new : Vals, min : 1..Peers]

VARIABLES
    file,       \* /tmp/system.cfg
    flash,      \* what a reboot brings back
    live,       \* what the radio's wireless runs
    bak,        \* /tmp/nwfix.bak
    log,        \* last line of /tmp/nwfix.state; "none" if there is no file
    up,         \* peers associated now
    relinked,   \* the link went down since the last script applied its change
    scripts,    \* the scripts started on the radio, by number
    plans,      \* previewed plans whose token is good
    previews,   \* plans being made: past the "is a fix running" check
    job,        \* the job thread and what GET /api/wifi/fix shows
    radio,      \* what kind of radio it is: never changes
    left,       \* what is left of the bounds
    sneaked,    \* history: the file changed after the job looked at it again
    faded,      \* history: the link was down already when a script applied, or dropped by itself since
    misread,    \* history: the last power reading told otherwise than the wireless runs
    kept        \* history: the last change a script ended up keeping, saved or not

histVars  == <<sneaked, faded, misread, kept>>
radioVars == <<file, flash, live, bak, log, up, relinked, scripts, histVars>>
hubVars   == <<plans, previews, job>>
vars      == <<radioVars, hubVars, radio, left>>

Slots == 1..2

NoScript == [step |-> "none", line |-> "none"]
NoJob    == [step |-> "none", verdict |-> "none"]
NoChange == [key |-> None]

Running == {"starting", "start", "follow", "readback"}

Spend(kind) == left[kind] > 0 /\ left' = [left EXCEPT ![kind] = @ - 1]

Busy(s)    == scripts[s].step \notin {"none", "end"}
Scripting  == \E s \in Slots : Busy(s)

Init ==
    /\ flash = [k \in Keys |-> Good]
    /\ file = flash /\ live = flash /\ bak = None /\ log = "none"
    /\ up = Peers /\ relinked = FALSE
    /\ scripts = [s \in Slots |-> NoScript]
    /\ plans = {} /\ previews = {} /\ job = NoJob
    /\ radio \in RadioKinds /\ left \in Budgets
    /\ sneaked = FALSE /\ faded = FALSE /\ misread = FALSE /\ kept = NoChange

(***************************************************************************)
(* The radio and its peers.                                                *)
(***************************************************************************)

Reach(c) == IF \A k \in Keys : c[k] = Good THEN Peers ELSE radio.reach

AtMost(n) == IF up < n THEN up ELSE n

\* rc.softrestart test: reads the file, or a firmware without that mode does nothing.
SoftRestart(c) ==
    IF radio.applies
    THEN /\ live' = c
         /\ IF radio.drops THEN up' = 0 /\ relinked' = TRUE
            ELSE up' = AtMost(Reach(c)) /\ relinked' = (up' < up)
    ELSE UNCHANGED <<live, up>> /\ relinked' = FALSE

PeerBack ==
    /\ up < Reach(live) /\ up' = up + 1
    /\ UNCHANGED <<file, flash, live, bak, log, relinked, scripts, histVars, hubVars, radio, left>>

\* Rain, or a peer that reboots.
Fade ==
    /\ Spend("fade") /\ up > 0
    /\ up' = 0 /\ relinked' = TRUE /\ faded' = TRUE
    /\ UNCHANGED <<file, flash, live, bak, log, scripts, sneaked, misread, kept, hubVars, radio>>

\* The radio reboots: /tmp is gone, and every script with it.
Reboot ==
    /\ Spend("reboot")
    /\ file' = flash /\ live' = flash /\ bak' = None /\ log' = "none"
    /\ up' = 0 /\ relinked' = FALSE
    /\ scripts' = [s \in Slots |-> IF Busy(s) THEN [scripts[s] EXCEPT !.step = "end"] ELSE scripts[s]]
    /\ sneaked' = TRUE
    /\ UNCHANGED <<flash, faded, misread, kept, hubVars, radio>>

\* Somebody changes a setting in airOS and saves it there: one that all peers can follow, and
\* not while a script is at work.
ByHand(k, v) ==
    /\ Spend("byhand") /\ ~Scripting /\ file[k] # v
    /\ file' = [file EXCEPT ![k] = v] /\ flash' = file' /\ live' = file'
    /\ Reach(file') = Peers /\ sneaked' = TRUE
    /\ UNCHANGED <<bak, log, up, relinked, scripts, faded, misread, kept, hubVars, radio>>

(***************************************************************************)
(* Preview: the route refuses while a fix runs, then plan() reads the      *)
(* radio and remember() gives the plan a token.                            *)
(***************************************************************************)
PreviewAsked(fix, v) ==
    /\ job.step \notin Running
    /\ Spend("preview")
    /\ previews' = previews \cup {<<fix, v>>}
    /\ UNCHANGED <<radioVars, plans, job, radio>>

\* plan() needs a peer to prove the change against, a value that is new and, for the fixes
\* that prove themselves, a radio with a test mode and (channel) a reading that works.
PlanFor(fix, v) == [fix |-> fix, key |-> KeyOf[fix], old |-> file[KeyOf[fix]], new |-> v, min |-> up]

Plannable(fix, v) ==
    /\ up > 0 /\ file[KeyOf[fix]] # v
    /\ fix # "ac_mode" => radio.test
    /\ fix = "channel" => radio.reads

PreviewRead(fix, v) ==
    /\ <<fix, v>> \in previews
    /\ previews' = previews \ {<<fix, v>>}
    /\ plans' = plans \cup (IF Plannable(fix, v) THEN {PlanFor(fix, v)} ELSE {})
    /\ UNCHANGED <<radioVars, job, radio, left>>

Expire(p) == Spend("expire") /\ plans' = plans \ {p} /\ UNCHANGED <<radioVars, previews, job, radio>>

(***************************************************************************)
(* Apply: take() the token, start() one job a radio. The token is used up  *)
(* even if start() refuses.                                                *)
(***************************************************************************)
StartsJob(p) ==
    IF job.step \in Running THEN UNCHANGED job
    ELSE job' = [step |-> "starting", verdict |-> "none", plan |-> p, seen |-> "none", script |-> 0]

Apply(p) ==
    /\ p \in plans
    /\ plans' = plans \ {p}
    /\ StartsJob(p)
    /\ UNCHANGED <<radioVars, previews, radio, left>>

Ends(verdict) == job' = [job EXCEPT !.step = "done", !.verdict = verdict]

\* _run: read the radio again; refused if the planned key changed.
\* Mutant: it is not looked at again.
StaleNever(p) == FALSE
Stale(p)      == file[p.key] # p.old

Recheck ==
    /\ job.step = "starting"
    /\ IF Stale(job.plan) THEN Ends("refused") ELSE job' = [job EXCEPT !.step = "start"]
    /\ sneaked' = FALSE
    /\ UNCHANGED <<file, flash, live, bak, log, up, relinked, scripts, faded, misread, kept,
                   plans, previews, radio, left>>

\* One SSH command uploads the script, removes the old state file and starts it. Its answer
\* may be lost although it ran, and it may not have run at all.
\* (sneaked is history: what had changed by then.)
Started(s, p) == [scripts EXCEPT ![s] = [step |-> "backup", line |-> "none", plan |-> p,
                                         dropped |-> FALSE, sneaked |-> sneaked]]

\* rm -f nwfix.state. Mutant: the file of the last fix stays.
WipedNot(line) == line
Wiped(line)    == "none"

Launch ==
    /\ job.step = "start"
    /\ \/ \E s \in Slots :
            /\ scripts[s].step = "none" /\ \A t \in Slots : t < s => scripts[t].step # "none"
            /\ scripts' = Started(s, job.plan) /\ log' = Wiped(log)
            /\ \/ job' = [job EXCEPT !.step = "follow", !.script = s] /\ Spend("fix")
               \/ Ends("refused") /\ left["fix"] > 0 /\ left["lost"] > 0
                  /\ left' = [left EXCEPT !["fix"] = @ - 1, !["lost"] = @ - 1]
       \/ Ends("refused") /\ Spend("lost") /\ UNCHANGED <<scripts, log>>
    /\ UNCHANGED <<file, flash, live, bak, up, relinked, histVars, plans, previews, radio>>

(***************************************************************************)
(* The script on the radio.                                                *)
(***************************************************************************)
At(s, step)   == scripts[s].step = step
Goto(s, step) == scripts' = [scripts EXCEPT ![s].step = step]
Say(s, line)  == log' = line /\ scripts' = [scripts EXCEPT ![s].step = "end", ![s].line = line]

Backup(s) ==
    /\ At(s, "backup")
    /\ \/ bak' = file /\ log' = "going" /\ Goto(s, "edit") /\ UNCHANGED left
       \/ Say(s, "fail") /\ Spend("flash") /\ UNCHANGED bak
    /\ UNCHANGED <<file, flash, live, up, relinked, histVars, hubVars, radio>>

Edit(s) ==
    /\ At(s, "edit")
    /\ file' = [file EXCEPT ![scripts[s].plan.key] = scripts[s].plan.new]
    /\ Goto(s, "apply") /\ sneaked' = TRUE
    /\ UNCHANGED <<flash, live, bak, log, up, relinked, faded, misread, kept, hubVars, radio, left>>

TestRestart(s) ==
    /\ At(s, "apply")
    /\ SoftRestart(file) /\ faded' = (up < scripts[s].plan.min)
    /\ log' = "going" /\ Goto(s, "wait")
    /\ UNCHANGED <<file, flash, bak, sneaked, misread, kept, hubVars, radio, left>>

Enough(s) == up >= scripts[s].plan.min

\* Every 5 s for wait_s: too few peers is a drop seen, enough ends the wait.
Wait(s) ==
    /\ At(s, "wait")
    /\ IF Enough(s) THEN Goto(s, "hold")
       ELSE /\ ~scripts[s].dropped
            /\ scripts' = [scripts EXCEPT ![s].dropped = TRUE]
    /\ log' = "going"
    /\ UNCHANGED <<file, flash, live, bak, up, relinked, histVars, hubVars, radio, left>>

GiveUp(s) ==
    /\ At(s, "wait") /\ ~Enough(s) /\ scripts[s].dropped
    /\ Goto(s, "undo")
    /\ UNCHANGED <<file, flash, live, bak, log, up, relinked, histVars, hubVars, radio, left>>

\* Still there 20 s later?
Hold(s) ==
    /\ At(s, "hold")
    /\ Goto(s, IF Enough(s) THEN "verify" ELSE "undo") /\ log' = "going"
    /\ UNCHANGED <<file, flash, live, bak, up, relinked, histVars, hubVars, radio, left>>

\* The proof that the setting is live. An association time that starts again shows a drop
\* the wait missed, on radios that report it (airOS 6 reports another time).
Dropped(s)  == scripts[s].dropped
Relinks(s)  == Dropped(s) \/ relinked
OnAir(s)    == radio.reads /\ live[scripts[s].plan.key] = scripts[s].plan.new

\* livetx: it counts when it moved or when it is the new value, and it need not be what the
\* wireless was given. A country limit had it there before, or keeps it where it was; it drifts;
\* it was missing before the change.
ByReading(s) == Proof(scripts[s].plan.fix) = "power" /\ radio.reads

\* Mutant: peers that are back are proof enough.
IsLiveByPeers(s, relink, tells) == TRUE

IsLive(s, relink, tells) ==
    CASE Proof(scripts[s].plan.fix) = "peers"   -> TRUE
      [] Proof(scripts[s].plan.fix) = "drop"    -> relink
      [] Proof(scripts[s].plan.fix) = "channel" -> relink /\ OnAir(s)
      [] Proof(scripts[s].plan.fix) = "power"   -> IF radio.reads THEN tells ELSE Dropped(s)

Verify(s) ==
    /\ At(s, "verify")
    /\ \E relink \in {Dropped(s), Relinks(s)}, tells \in BOOLEAN :
          /\ Goto(s, IF IsLive(s, relink, tells) THEN "save" ELSE "undo")
          /\ misread' = (tells # OnAir(s))
          /\ IF misread' THEN ByReading(s) /\ Spend("misread") ELSE UNCHANGED left
    /\ UNCHANGED <<file, flash, live, bak, log, up, relinked, sneaked, faded, kept, hubVars, radio>>

\* cfgmtd writes the whole file, or fails.
Save(s) ==
    /\ At(s, "save")
    /\ \/ flash' = file /\ Say(s, "saved") /\ UNCHANGED left
       \/ Say(s, "notsaved") /\ Spend("flash") /\ UNCHANGED flash
    /\ kept' = [key |-> scripts[s].plan.key, fix |-> scripts[s].plan.fix, min |-> scripts[s].plan.min,
                wasLive |-> live[scripts[s].plan.key] = scripts[s].plan.new, faded |-> faded,
                misread |-> misread]
    /\ UNCHANGED <<file, live, bak, up, relinked, sneaked, faded, misread, hubVars, radio>>

\* Mutant: the edited file stays.
PutBackNothing == file
PutBack        == bak

Undo(s) ==
    /\ At(s, "undo")
    /\ file' = PutBack /\ Goto(s, "back") /\ sneaked' = TRUE
    /\ UNCHANGED <<flash, live, bak, log, up, relinked, faded, misread, kept, hubVars, radio, left>>

\* Mutant: the file is put back without the second soft restart.
BackQuietly(s) ==
    /\ At(s, "back") /\ Say(s, "reverted")
    /\ UNCHANGED <<file, flash, live, up, relinked, bak, histVars, hubVars, radio, left>>

Back(s) ==
    /\ At(s, "back")
    /\ SoftRestart(file)
    /\ Say(s, "reverted")
    /\ UNCHANGED <<file, flash, bak, histVars, hubVars, radio, left>>

Script(s) ==
    Backup(s) \/ Edit(s) \/ TestRestart(s) \/ Wait(s) \/ GiveUp(s) \/ Hold(s) \/ Verify(s)
    \/ Save(s) \/ Undo(s) \/ Back(s)

(***************************************************************************)
(* The job follows the state file over fresh SSH sessions, any of which    *)
(* may find nothing, until its last line is final or the deadline.         *)
(***************************************************************************)
Final == {"saved", "notsaved", "reverted", "fail"}

VerdictOf(line) ==
    CASE line = "reverted" -> "reverted" [] line = "notsaved" -> "not_saved"
      [] line = "fail" -> "failed"       [] OTHER -> "unknown"

Follow ==
    /\ job.step = "follow" /\ log \notin {"none", job.seen}
    /\ IF log = "saved" THEN job' = [job EXCEPT !.step = "readback", !.seen = log]
       ELSE IF log \in Final THEN Ends(VerdictOf(log))
       ELSE job' = [job EXCEPT !.seen = log]
    /\ UNCHANGED <<radioVars, plans, previews, radio, left>>

\* wait_s + 120 s have passed: longer than the script runs, unless its soft restarts hang.
Deadline ==
    /\ job.step = "follow"
    /\ IF Scripting THEN Spend("slow") ELSE UNCHANGED left
    /\ Ends("unknown")
    /\ UNCHANGED <<radioVars, plans, previews, radio>>

\* Read back: an SSH session that fails here raises the same FixError as a refusal.
Holds(p) == file[p.key] = p.new /\ up >= p.min /\ (p.fix = "channel" => live[p.key] = p.new)

ReadBack ==
    /\ job.step = "readback"
    /\ \/ Ends(IF Holds(job.plan) THEN "applied" ELSE "check") /\ UNCHANGED left
       \/ Ends("refused") /\ Spend("lost")
    /\ UNCHANGED <<radioVars, plans, previews, radio>>

\* Netwatch starts again: jobs and plans are in memory only.
Restart ==
    /\ Spend("restart")
    /\ plans' = {} /\ previews' = {} /\ job' = NoJob
    /\ UNCHANGED <<radioVars, radio>>

Job == Recheck \/ Launch \/ Follow \/ Deadline \/ ReadBack

Next ==
    \/ PeerBack \/ Fade \/ Reboot \/ \E k \in Keys, v \in Vals : ByHand(k, v)
    \/ \E f \in Fixes, v \in Vals : PreviewAsked(f, v) \/ PreviewRead(f, v)
    \/ \E p \in plans : Expire(p) \/ Apply(p)
    \/ Job \/ Restart
    \/ \E s \in Slots : Script(s)

Spec == Init /\ [][Next]_vars

\* The script's and the job's loops have a timer and peers that can hear the radio join it.
Fairness ==
    /\ WF_vars(PeerBack) /\ WF_vars(Job)
    /\ \A s \in Slots : WF_vars(Script(s))

FairSpec == Spec /\ Fairness

(***************************************************************************)
(* Properties.                                                             *)
(***************************************************************************)
PlanType   == plans \subseteq Plan /\ previews \subseteq Fixes \X Vals
Scripts    == [step : {"backup", "edit", "apply", "wait", "hold", "verify", "save", "undo", "back", "end"},
               line : {"none"} \cup Final, plan : Plan, dropped : BOOLEAN, sneaked : BOOLEAN]
ScriptType == scripts \in [Slots -> {NoScript} \cup Scripts]
Jobs       == [step : Running \cup {"done"}, plan : Plan, seen : {"none", "going"} \cup Final,
               script : Slots \cup {0},
               verdict : {"none", "refused", "applied", "check", "reverted", "not_saved", "failed", "unknown"}]
JobType    == job \in {NoJob} \cup Jobs
HistType   ==
    /\ sneaked \in BOOLEAN /\ faded \in BOOLEAN /\ misread \in BOOLEAN
    /\ kept \in {NoChange} \cup [key : Keys, fix : Fixes, min : 1..Peers, wasLive : BOOLEAN, faded : BOOLEAN,
                               misread : BOOLEAN]

\* Type correctness. The radio always holds one complete setting in each of its places.
TypeOK ==
    /\ file \in Configs /\ flash \in Configs /\ live \in Configs /\ bak \in Configs \cup {None}
    /\ log \in {"none", "going"} \cup Final
    /\ up \in 0..Peers /\ relinked \in BOOLEAN
    /\ radio \in RadioKinds /\ left \in [Kinds -> Nat]
    /\ PlanType /\ ScriptType /\ JobType /\ HistType

\* A fix that has to prove itself is only kept when the radio really runs the new value: no
\* radio that just stored the file gets it written to flash (docstring of wififix.py). Two
\* proofs can lie, and they are the only ones: a link that fades by itself while nothing was
\* applied, and, for the power, a reading that moved or showed the new value for another reason.
KeptWasLive ==
    kept # NoChange /\ Proof(kept.fix) # "peers" =>
        \/ kept.wasLive \/ kept.faded
        \/ Proof(kept.fix) = "power" /\ radio.reads /\ kept.misread

\* A preview is minutes old when it is applied. Whatever happened to the radio since, what a
\* script changes, and would put back, is what the preview showed; unless the radio changed
\* in the seconds between the job's second look and the script.
StalePlanRefused ==
    \A s \in Slots : scripts[s].step = "edit" =>
        bak[scripts[s].plan.key] = scripts[s].plan.old \/ scripts[s].sneaked

\* What the job tells the operator is what its own script did, not another one before it.
VerdictIsOwn ==
    [][job'.step = "done" /\ job.step \in {"follow", "readback"} =>
         /\ job'.verdict \in {"applied", "check"} => scripts[job.script].line = "saved"
         /\ job'.verdict = "reverted"  => scripts[job.script].line = "reverted"
         /\ job'.verdict = "not_saved" => scripts[job.script].line = "notsaved"]_vars

\* The radio can be read as SafeChange: tried and then kept with proof or put back, whoever
\* restarts, whatever Netwatch sees of it. A script between its edit and its end is the trial.
InTrial(steps) == \E s \in Slots : scripts[s].step \in steps

Safe == INSTANCE SafeChange WITH
            kept   <- flash,
            tried  <- file,
            before <- IF InTrial({"apply", "wait", "hold", "verify", "undo", "save"}) THEN bak ELSE file,
            phase  <- IF InTrial({"save"}) THEN "proven"
                      ELSE IF InTrial({"apply", "wait", "hold", "verify", "undo"}) THEN "trying" ELSE "idle"

ImplementsSafeChange == Safe!Spec

\* A fix never strands the radio: in the end as many peers are back as the last kept change
\* needed, or all of them, with or without Netwatch watching. (A kept change that was never
\* live is KeptWasLive's business.)
Needed ==
    IF kept = NoChange THEN Peers ELSE IF kept.wasLive THEN kept.min ELSE 0

NeverStranded == []<>(up >= Needed)

\* Every job ends with a verdict.
JobEnds == job.step \in Running ~> job.step \notin Running
=============================================================================
