----------------------------- MODULE MCCameras ------------------------------
(***************************************************************************)
(* Two tasks of the site that share nothing here, each moving on its own:  *)
(* changes of camera settings on devices a and b; and the pictures of one  *)
(* camera.                                                                 *)
(***************************************************************************)
EXTENDS CameraJobs, CamPics

CONSTANTS a, b

VARIABLE task

camvars == <<task, vars, pvars>>

Two == <<a, b>>

Nothing == [k \in Kinds |-> 0]

\* A job, its undo, and somebody who changes and undoes by hand.
ByHand    == [Nothing EXCEPT !.job = 1, !.undo = 1, !.hand = 2]
\* A job whose undo is asked for twice, and one change by hand.
Twice     == [Nothing EXCEPT !.job = 1, !.undo = 2, !.hand = 1]
\* Two jobs that are stopped, and devices that refuse or do not keep a document.
Stubborn  == [Nothing EXCEPT !.job = 1, !.undo = 1, !.stop = 1, !.refuse = 1, !.ignore = 1]
\* Devices that do not answer, and Netwatch starting again.
Mute      == [Nothing EXCEPT !.job = 1, !.undo = 1, !.lost = 1, !.crash = 1, !.hand = 1]
JobBudgets == {ByHand, Twice, Stubborn, Mute}

\* A Hikvision camera that sends pictures of any size, and another make with every way to it.
Hik == [hik |-> TRUE, sized |-> "honoured", small |-> TRUE, wide |-> FALSE, url |-> FALSE, shot |-> FALSE,
        stream |-> FALSE, rec |-> FALSE, recSub |-> FALSE, recMain |-> FALSE]
Other == [Hik EXCEPT !.hik = FALSE, !.url = TRUE, !.shot = TRUE, !.stream = TRUE]

\* On a recorder that sends small pictures, large ones only, or none; or on none.
Recorded(k, s, m) == [k EXCEPT !.rec = TRUE, !.recSub = s, !.recMain = m]
WithRecorders(k) == {k, Recorded(k, TRUE, TRUE), Recorded(k, FALSE, TRUE), Recorded(k, FALSE, FALSE)}
Makes == {Hik, [Hik EXCEPT !.sized = "refused", !.small = FALSE], [Hik EXCEPT !.sized = "ignored"],
          [Hik EXCEPT !.wide = TRUE],
          Other, [Other EXCEPT !.shot = FALSE], [Other EXCEPT !.url = FALSE, !.stream = FALSE]}
Usual == UNION {WithRecorders(k) : k \in Makes}
\* One without a stream, on a recorder that refuses it.
NoStream == Recorded([Other EXCEPT !.stream = FALSE], FALSE, FALSE)
SomeCameras == Usual \cup {NoStream}

NoLooks == [ask |-> 0, switch |-> 0, power |-> 0, fix |-> 0, retry |-> 0, bad |-> 0, odd |-> 0]
\* Every camera looked at twice, also while a device falls silent; the pictures switched
\* off; a wrong login; an answer that is no picture.
Views  == [NoLooks EXCEPT !.ask = 2, !.retry = 1]
Falls  == [NoLooks EXCEPT !.ask = 2, !.power = 1]
Offs   == [NoLooks EXCEPT !.ask = 2, !.switch = 3]
Logins == [NoLooks EXCEPT !.ask = 3, !.fix = 1, !.bad = 1]
Oddly  == [NoLooks EXCEPT !.ask = 2, !.odd = 1]
Looks  == {Views, Falls, Offs, Logins, Oddly}

SomeOf == CASE pleft \in {Views, Falls} -> Usual
            [] pleft = Offs -> {Recorded(Hik, TRUE, TRUE)}
            [] pleft = Logins -> {Hik, Other, Recorded(Other, FALSE, TRUE)}
            [] pleft = Oddly -> {Recorded(Hik, TRUE, TRUE), NoStream}

CamInit ==
    /\ Init /\ PInit /\ cam \in SomeOf /\ files = (IF pleft = Offs THEN {1} ELSE {})
    /\ \/ task = "jobs" /\ pleft = Offs
       \/ task = "pictures" /\ left = ByHand

Changing  == task = "jobs" /\ UNCHANGED <<task, pvars>>
Picturing == task = "pictures" /\ UNCHANGED <<task, vars>>

CamNext ==
    \/ Changing /\ \E x \in Actors : Change(x)
    \/ Changing /\ HandDone
    \/ Changing /\ BeginUndo
    \/ Changing /\ Stop
    \/ Changing /\ Worker
    \/ Changing /\ Crash
    \/ Changing /\ \E k \in Keys, i \in Docs, v \in Values : HandChange(k, i, v)
    \/ Changing /\ \E x \in DOMAIN log : HandUndo(x)
    \/ Changing /\ \E sof \in BOOLEAN : StartRule(sof)
    \/ Changing /\ \E j \in DOMAIN jobs : AskUndo(j)
    \/ Picturing /\ \E v \in Lenses, full \in BOOLEAN : Ask(v, full)
    \/ Picturing /\ \E v \in Lenses : SendOn(v)
    \/ Picturing /\ \E v \in Lenses : NotSent(v)
    \/ Picturing /\ \E v \in Lenses : Silent(v)
    \/ Picturing /\ \E v \in Lenses : Denied(v)
    \/ Picturing /\ \E v \in Lenses : Direct(v)
    \/ Picturing /\ \E v \in Lenses : Generic(v)
    \/ Picturing /\ \E v \in Lenses : Rtsp(v)
    \/ Picturing /\ \E v \in Lenses : FromRecorder(v)
    \/ Picturing /\ \E v \in Lenses : Odd(v)
    \/ Picturing /\ \E v \in Lenses : PutAway(v)
    \/ Picturing /\ \E v \in Lenses : Save(v)
    \/ Picturing /\ \E v \in Lenses : EndsBare(v)
    \/ Picturing /\ RoundOff
    \/ Picturing /\ RoundOn
    \/ Picturing /\ TurnPictures
    \/ Picturing /\ \E d \in {"camera", "recorder"} : TurnDevice(d)
    \/ Picturing /\ \E good \in BOOLEAN : SaveLogin(good)
    \/ Picturing /\ RetryRecorder

CamSpec == CamInit /\ [][CamNext]_camvars /\ WF_vars(JobsWork) /\ WF_pvars(PWorks)

\* Every job of changes ends and the next one can be started (hikbulk.py). And once the pictures
\* are switched off with no request under way, and no round has seen it yet, every picture is
\* gone in the end, from memory and disk, or they are switched on again (campics.py:1010): the
\* requests that ended before are the ones whose pictures go. What a request that is still under
\* way brings may stay, and with it what a purge it broke off left. One formula, for TLC to check
\* once: the jobs and the pictures of this composition never run in one behaviour.
EverythingEnds ==
    (run # 0 \/ (~on /\ ~purged /\ UnderWay = {})) ~> (run = 0 /\ (on \/ NothingKept))
=============================================================================
