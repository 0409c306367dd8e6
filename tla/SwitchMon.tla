----------------------------- MODULE SwitchMon ------------------------------
(***************************************************************************)
(* The switch monitor (app/switchmon.py) and one switch with one port that *)
(* is normally connected. A round of polling reads the switch with its     *)
(* saved login, logs what changed since the reading before, which it also  *)
(* keeps on disk, replaces the problems shown, and tells people of new     *)
(* troubles and of those that are over.                                    *)
(*                                                                         *)
(* Three troubles stand for all: the port has no link, the login is        *)
(* refused, the switch cannot be read. Rounds come at any time: the        *)
(* minutes between them are left out.                                      *)
(***************************************************************************)
EXTENDS Naturals

CONSTANT SwBudgets     \* bounds of events of each kind

VARIABLES
    switch,     \* the world: [link, answers, online, opted, usual, logins, login]
    row,        \* _last of the switch
    rowDisk,    \* the same in switchmon_last.json
    problems,   \* _problems
    alert,      \* _state, and switchmon_state.json: the level told of each trouble, and if long ago
    round,      \* the round under way
    swleft,
    heard,      \* history: what people were told last
    logged,     \* history: the last word of the log on the port, and if words may be missing
    cut         \* history: troubles told of just before a stop, and not since

swvars == <<switch, row, rowDisk, problems, alert, round, swleft, heard, logged, cut>>

Troubles == {"port", "login", "unread"}
Fine == [t \in Troubles |-> "ok"]
Bad(t, level) == [Fine EXCEPT ![t] = level]

\* No reading yet, and a reading that failed: the snapshot before it stays.
NoSnap == [link |-> TRUE, memory |-> FALSE, none |-> TRUE]
NoRow  == [kind |-> "new", snap |-> NoSnap, login |-> 0, long |-> FALSE, old |-> FALSE, from |-> FALSE, level |-> "ok"]
NoRound == [pc |-> "idle"]

SwInit ==
    /\ swleft \in SwBudgets
    /\ switch = [link |-> TRUE, answers |-> TRUE, online |-> TRUE, opted |-> TRUE, usual |-> TRUE,
                 logins |-> 1, login |-> "good"]
    /\ row = NoRow /\ rowDisk = NoRow /\ problems = Fine /\ alert = [t \in Troubles |-> [level |-> "ok", old |-> FALSE]]
    /\ round = NoRound /\ heard = Fine /\ logged = [link |-> TRUE, torn |-> TRUE] /\ cut = {}

SwSpend(kind) == swleft[kind] > 0 /\ swleft' = [swleft EXCEPT ![kind] = @ - 1]

----------------------------------------------------------------------------
(* One round.                                                              *)

\* targets.
Target == switch.online /\ switch.opted

\* _evaluate_unreadable. A missing login is not worth an alert.
Unreadable(r) ==
    CASE r.kind = "auth_failed" -> Bad("login", "warn")
      [] r.kind = "error" /\ r.long -> Bad("unread", "warn")
      [] OTHER -> Fine

\* A refused login waits for another one, for six hours, or for somebody who asks.
Held(manual) == /\ row.kind = "auth_failed" /\ ~manual /\ ~row.from
                /\ row.login = switch.logins /\ ~row.old

SwUnchanged == UNCHANGED <<switch, rowDisk, alert, swleft, heard, logged, cut>>

\* poll_round, of a switch that is offline or opted out.
Skip ==
    /\ round = NoRound /\ ~Target /\ problems' = Fine
    /\ UNCHANGED <<row, round>> /\ SwUnchanged

NoLogin(manual) ==
    /\ round = NoRound /\ Target /\ switch.login = "none"
    /\ row' = IF manual \/ row.old \/ row.kind # "no_login" THEN [NoRow EXCEPT !.kind = "no_login"] ELSE row
    /\ round' = [pc |-> "publish", found |-> Fine]
    /\ logged' = [logged EXCEPT !.torn = TRUE]
    /\ UNCHANGED <<switch, rowDisk, problems, alert, swleft, heard, cut>>

Hold ==
    /\ round = NoRound /\ Target /\ switch.login # "none" /\ Held(FALSE)
    /\ round' = [pc |-> "publish", found |-> Unreadable(row)]
    /\ UNCHANGED <<row, problems>> /\ SwUnchanged

Read(manual) ==
    /\ round = NoRound /\ Target /\ switch.login # "none" /\ ~Held(manual)
    /\ round' = [pc |-> "asking", prev |-> row.snap, login |-> switch.logins, good |-> switch.login = "good"]
    /\ UNCHANGED <<row, problems>> /\ SwUnchanged

\* _poll_one, of a switch that refuses the login or does not answer. Mutant: the snapshot of the
\* reading before is not kept.
LoseSnap(kind) ==
    [NoRow EXCEPT !.kind = kind, !.login = round.login, !.long = row.kind # "ok" /\ row.long]
FailedRow(kind) ==
    [NoRow EXCEPT !.kind = kind, !.login = round.login, !.snap = round.prev,
                  !.long = row.kind # "ok" /\ row.long]

ReadFails(kind) ==
    /\ round.pc = "asking" /\ row' = FailedRow(kind) /\ rowDisk' = row'
    /\ round' = [pc |-> "publish", found |-> Unreadable(row')]
    /\ UNCHANGED <<switch, problems, alert, swleft, heard, logged, cut>>

Refuses == ReadFails("auth_failed") /\ switch.answers /\ ~round.good
Unanswered == ReadFails("error") /\ ~switch.answers

\* _evaluate: a port that is normally connected has no link; the memory of what was plugged in
\* says how bad that is.
Level(snap) == IF snap.link \/ ~switch.usual THEN "ok" ELSE IF snap.memory THEN "crit" ELSE "warn"

\* ... and of one that answers. A port with a link shows its camera, which is remembered.
Reads ==
    /\ round.pc = "asking" /\ switch.answers /\ round.good
    /\ LET snap == [link |-> switch.link, memory |-> switch.link \/ round.prev.memory, none |-> FALSE]
       IN  row' = [NoRow EXCEPT !.kind = "ok", !.snap = snap, !.level = Level(snap)]
    /\ round' = [pc |-> "log", prev |-> round.prev, snap |-> row'.snap, found |-> Bad("port", row'.level)]
    /\ UNCHANGED <<problems>> /\ SwUnchanged

\* _changes and log_events. A first reading has nothing to compare.
LogChanges ==
    /\ round.pc = "log" /\ round' = [round EXCEPT !.pc = "persist"]
    /\ logged' = IF ~round.prev.none /\ round.prev.link # round.snap.link
                 THEN [link |-> round.snap.link, torn |-> row.kind = "new"]
                 ELSE [logged EXCEPT !.torn = @ /\ (logged.link # round.snap.link \/ row.kind = "new")]
    /\ UNCHANGED <<switch, row, rowDisk, problems, alert, swleft, heard, cut>>

Persist ==
    /\ round.pc = "persist" /\ rowDisk' = row
    /\ round' = [pc |-> "publish", found |-> round.found]
    /\ UNCHANGED <<switch, row, problems, alert, swleft, heard, logged, cut>>

ShowProblems ==
    /\ round.pc = "publish" /\ problems' = round.found
    /\ round' = [pc |-> "fire", found |-> round.found]
    /\ UNCHANGED row /\ SwUnchanged

\* _fire: what was told at this level within six hours is not told again.
ToTell == {t \in Troubles : round.found[t] # "ok" /\ (round.found[t] # alert[t].level \/ alert[t].old)}

\* _clear_stale. Mutant: what the round found is not looked at.
OverAnyway == {t \in Troubles : alert[t].level # "ok"}
Over == {t \in Troubles : round.found[t] = "ok" /\ alert[t].level # "ok"}

\* A message, and then the file.
Push(at, T, level, then) ==
    /\ round.pc = at
    /\ heard' = [t \in Troubles |-> IF t \in T THEN level[t] ELSE heard[t]]
    /\ round' = [round EXCEPT !.pc = then] /\ cut' = cut \ T
    /\ UNCHANGED <<switch, row, rowDisk, problems, alert, swleft, logged>>

Keep(at, T, level, then) ==
    /\ round.pc = at
    /\ alert' = [t \in Troubles |-> IF t \in T THEN [level |-> level[t], old |-> FALSE] ELSE alert[t]]
    /\ round' = then
    /\ UNCHANGED <<switch, row, rowDisk, problems, swleft, heard, logged, cut>>

Fire      == Push("fire", ToTell, round.found, "fired")
SaveFired == Keep("fired", ToTell, round.found, [round EXCEPT !.pc = "clear"])
Clear     == Push("clear", Over, Fine, "cleared")
SaveClear == Keep("cleared", Over, Fine, NoRound)

----------------------------------------------------------------------------
(* The world.                                                              *)

\* A link, a device list, a setting, an answer turns.
Turn(f) ==
    /\ SwSpend(f) /\ switch' = [switch EXCEPT ![f] = ~@]
    /\ UNCHANGED <<row, rowDisk, problems, alert, round, heard, logged, cut>>

\* The port was long without a link: that is how it usually looks now (history's baseline).
Ages ==
    /\ row.kind = "ok" /\ ~row.snap.link /\ SwSpend("age")
    /\ switch' = [switch EXCEPT !.usual = FALSE]
    /\ UNCHANGED <<row, rowDisk, problems, alert, round, heard, logged, cut>>

\* A login is saved, or removed.
SaveSwitchLogin(login) ==
    /\ SwSpend("save") /\ switch.login # login
    /\ switch' = [switch EXCEPT !.logins = @ + 1, !.login = login]
    /\ UNCHANGED <<row, rowDisk, problems, alert, round, heard, logged, cut>>

\* A quarter of an hour, and six hours.
Quarter ==
    /\ SwSpend("wait") /\ row.kind = "error" /\ ~row.long /\ row' = [row EXCEPT !.long = TRUE]
    /\ UNCHANGED <<switch, rowDisk, problems, alert, round, heard, logged, cut>>

SixHours ==
    /\ SwSpend("wait") /\ row' = [row EXCEPT !.old = TRUE, !.long = row.kind \in {"auth_failed", "error"}]
    /\ alert' = [t \in Troubles |-> [alert[t] EXCEPT !.old = alert[t].level # "ok"]]
    /\ UNCHANGED <<switch, rowDisk, problems, round, heard, logged, cut>>

\* forget: the device has left the list.
ForgetSwitch ==
    /\ SwSpend("forget") /\ switch.online /\ switch' = [switch EXCEPT !.online = FALSE]
    /\ row' = NoRow /\ rowDisk' = NoRow
    /\ logged' = [logged EXCEPT !.torn = TRUE]
    /\ UNCHANGED <<problems, alert, round, heard, cut>>

RestartMon ==
    /\ SwSpend("crash") /\ round' = NoRound
    /\ row' = [rowDisk EXCEPT !.from = TRUE] /\ problems' = Fine
    /\ logged' = [logged EXCEPT !.torn = @ \/ round.pc = "persist"]
    /\ cut' = cut \cup (CASE round.pc = "fired" -> ToTell [] round.pc = "cleared" -> Over [] OTHER -> {})
    /\ UNCHANGED <<switch, rowDisk, alert, heard>>

SwNext ==
    \/ Skip \/ Hold \/ Refuses \/ Unanswered \/ Reads
    \/ \E manual \in BOOLEAN : NoLogin(manual) \/ Read(manual)
    \/ LogChanges \/ Persist \/ ShowProblems \/ Fire \/ SaveFired \/ Clear \/ SaveClear
    \/ \E f \in {"link", "answers", "online", "opted"} : Turn(f)
    \/ \E l \in {"none", "good", "bad"} : SaveSwitchLogin(l)
    \/ Ages \/ Quarter \/ SixHours \/ ForgetSwitch \/ RestartMon

SwSpec == SwInit /\ [][SwNext]_swvars

----------------------------------------------------------------------------
(* Properties.                                                             *)

Levels == {"ok", "warn", "crit"}

Snaps  == [link : BOOLEAN, memory : BOOLEAN, none : BOOLEAN]
Rows   == [kind : {"new", "ok", "no_login", "auth_failed", "error"}, snap : Snaps, login : Nat, long : BOOLEAN,
           old : BOOLEAN, from : BOOLEAN, level : Levels]
Finds  == [Troubles -> Levels]
Rounds == {NoRound} \cup [pc : {"asking"}, prev : Snaps, login : Nat, good : BOOLEAN]
            \cup [pc : {"log", "persist"}, prev : Snaps, snap : Snaps, found : Finds]
            \cup [pc : {"publish", "fire", "fired", "clear", "cleared"}, found : Finds]

\* Type correctness.
SwTypeOK ==
    /\ switch \in [link : BOOLEAN, answers : BOOLEAN, online : BOOLEAN, opted : BOOLEAN, usual : BOOLEAN,
                   logins : Nat, login : {"none", "good", "bad"}]
    /\ row \in Rows /\ rowDisk \in Rows /\ round \in Rounds /\ problems \in Finds /\ heard \in Finds
    /\ alert \in [Troubles -> [level : Levels, old : BOOLEAN]]
    /\ logged \in [link : BOOLEAN, torn : BOOLEAN] /\ cut \subseteq Troubles

\* Between rounds, when the last one read the switch, what people were told last of each trouble
\* is what that reading showed, whatever was told, failed or restarted before.
Quiet == round = NoRound /\ row.kind = "ok" /\ ~row.from
ToldTrue ==
    Quiet => LET shown == Bad("port", row.level) IN
             /\ \A t \in Troubles \ cut : heard[t] = shown[t]
             /\ problems \in {shown, Fine} /\ \A t \in Troubles : alert[t].level = shown[t]

\* The log's last word on the port's link is what the last reading showed: it falls behind neither
\* through readings that failed nor through restarts, unless Netwatch stopped between writing the
\* log and keeping the reading, which may write a change twice, or the readings were dropped (a
\* removed login, a forgotten switch). It says nothing of the words before the last.
LogTrue == Quiet /\ ~logged.torn => logged.link = row.snap.link
=============================================================================
