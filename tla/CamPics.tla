------------------------------ MODULE CamPics ------------------------------
(***************************************************************************)
(* Camera pictures (app/campics.py): one camera with some lenses, perhaps  *)
(* on a recorder. A request for a lens' picture tries the ways to it one   *)
(* after the other and remembers what it learns about the camera: which    *)
(* small picture it can send, what its recorder refuses, which addresses   *)
(* it offers. Pictures stay in memory and, one per lens, on disk; switched *)
(* off in the settings, a background round deletes them.                   *)
(*                                                                         *)
(* A request that memory can answer changes nothing and is left out; of    *)
(* those that wait for the lens' lock the first one is shown. Sizes, ages  *)
(* and the limits of the memory are left out, so a picture may be read     *)
(* again, and saved again, at any time.                                    *)
(***************************************************************************)
EXTENDS Naturals, Sequences, FiniteSets

CONSTANTS
    Cameras,    \* what the camera and its recorder may be like
    Lenses,     \* 1 .. how many lenses it has
    Parallel,   \* device requests at once
    PBudgets    \* bounds of events of each kind

ASSUME CamPicsAssumption ==
    /\ IsFiniteSet(Lenses) /\ Lenses = 1..Cardinality(Lenses) /\ Parallel \in Nat \ {0}
    /\ Cameras \subseteq [hik : BOOLEAN, sized : {"honoured", "ignored", "refused"}, small : BOOLEAN, wide : BOOLEAN,
                          url : BOOLEAN, shot : BOOLEAN, stream : BOOLEAN,
                          rec : BOOLEAN, recSub : BOOLEAN, recMain : BOOLEAN]

VARIABLES
    cam,        \* the camera: [hik, sized, small, wide, url, shot, stream, rec, recSub, recMain]
    caps,       \* what is remembered of it
    recorder,   \* per lens, what is remembered of the recorder's channel
    login,      \* [no, good, seen]: the saved login's number, whether it is right, the last answer
    up,         \* which of camera and recorder answer
    on,         \* the switch in the settings
    purged,     \* _purged
    pics, files, \* the lenses with a picture in memory, on disk
    req,        \* per lens, the request under way
    pleft,
    wrong       \* how often the saved login was refused since its word was last lost (history)

pvars == <<cam, caps, recorder, login, up, on, purged, pics, files, req, pleft, wrong>>

NoReq == [pc |-> "idle"]

PInit ==
    /\ pleft \in PBudgets /\ cam \in Cameras
    /\ caps = [thumb |-> "unknown", url |-> "unknown", shot |-> "unknown", stream |-> "unknown"]
    /\ recorder = [v \in Lenses |-> "unknown"]
    /\ login = [no |-> 0, good |-> pleft.bad = 0, seen |-> "nothing"]
    /\ up = {"camera", "recorder"} /\ on = TRUE /\ purged = FALSE
    /\ pics = {} /\ files \in SUBSET Lenses
    /\ req = [v \in Lenses |-> NoReq] /\ wrong = 0

PSpend(kind) == pleft[kind] > 0 /\ pleft' = [pleft EXCEPT ![kind] = @ - 1]

----------------------------------------------------------------------------
(* Which ways there are.                                                   *)

\* hikisapi.refused.
LoginRefused == login.seen = "refused"

OwnOk  == cam.hik /\ ~LoginRefused
ShotOk == ~cam.hik /\ ~LoginRefused /\ caps.shot # "bad" /\ caps.url # "none"
RtspOk == ~cam.hik /\ ~LoginRefused /\ caps.stream # "none"
ViaOk  == cam.rec

\* _nvr_refuses, of the first lens, whose record is the camera's own.
NvrRefuses == recorder[1] = "bad"

\* _entry: the way that is tried first.
Route ==
    IF OwnOk /\ caps.thumb = "none" /\ ViaOk /\ ~NvrRefuses THEN "nvr"
    ELSE IF OwnOk THEN "direct"
    ELSE IF ShotOk THEN "own-generic"
    ELSE IF RtspOk THEN "own-rtsp"
    ELSE IF ViaOk THEN "nvr" ELSE "none"

\* _fetch: and the others after it.
If(w, p) == IF p THEN <<w>> ELSE <<>>
\* Mutant: a camera that answers itself has no other way.
OrderAlone(v, full) == IF Route = "direct" THEN <<Route>> ELSE <<Route>> \o If("nvr", ViaOk)
Order(v, full) ==
    IF full /\ v = 1 /\ Route = "nvr" /\ OwnOk /\ cam.wide THEN <<"direct", "nvr">>
    ELSE CASE Route = "direct" -> <<Route>> \o If("nvr", ViaOk)
           [] Route = "nvr" -> <<Route>> \o If("direct", OwnOk)
           [] Route = "own-generic" -> <<Route>> \o If("own-rtsp", RtspOk) \o If("nvr", ViaOk)
           [] Route = "own-rtsp" -> <<Route>> \o If("nvr", ViaOk)

----------------------------------------------------------------------------
(* A request.                                                              *)

\* picture, _picture: the settings and the list are read, and the lens' lock is taken.
Ask(v, full) ==
    /\ PSpend("ask") /\ on /\ req[v] = NoReq /\ Route # "none" /\ (v = 1 \/ cam.hik \/ cam.rec)
    /\ req' = [req EXCEPT ![v] = [pc |-> "try", full |-> full, order |-> Order(v, full),
                                   via |-> ViaOk, recFailed |-> FALSE, again |-> FALSE,
                                   login |-> login,
                                   hurt |-> up # {"camera", "recorder"} \/ ~login.good]]
    /\ UNCHANGED <<cam, caps, recorder, login, up, on, purged, pics, files, wrong>>

Way(v) == req[v].order[1]
Asking == {w \in Lenses : req[w].pc = "asking"}

\* The next way, after this one failed. A camera that passed its picture to a recorder that
\* failed is asked after all.
Onward(r) ==
    LET more == Tail(r.order) \o If("direct-again", Tail(r.order) = <<>> /\ Head(r.order) # "direct-again"
                                                   /\ r.again /\ r.recFailed)
    IN  [r EXCEPT !.pc = IF more = <<>> THEN "failed" ELSE "try", !.order = more]

Marked(v) == [req[v] EXCEPT !.recFailed = @ \/ Way(v) = "nvr"]
Fails(v) == req' = [req EXCEPT ![v] = Onward(Marked(v))]
Got(v)   == req' = [req EXCEPT ![v].pc = "put"]

\* Client.request: a login known to be refused is not sent. The recorder's own login is good.
Sent(v) == Way(v) = "nvr" \/ ~LoginRefused

\* The addresses of a camera that is not Hikvision's are looked up once; a lookup that is not
\* made for the login's sake is remembered as an answer that there is none.
LooksUp(v) == \/ Way(v) = "own-generic" /\ caps.url = "unknown"
              \/ Way(v) = "own-rtsp" /\ caps.stream = "unknown"
NoneThere(v) == IF ~LooksUp(v) THEN caps
                ELSE IF Way(v) = "own-generic" THEN [caps EXCEPT !.url = "none"]
                ELSE [caps EXCEPT !.stream = "none"]

PUnchanged == UNCHANGED <<cam, up, on, purged, pics, files, pleft>>

SendOn(v) ==
    /\ req[v].pc = "try" /\ Sent(v) /\ Cardinality(Asking) < Parallel
    /\ req' = [req EXCEPT ![v] = [@ EXCEPT !.pc = "asking", !.login = login]]
    /\ UNCHANGED <<caps, recorder, login, wrong>> /\ PUnchanged

NotSent(v) ==
    /\ req[v].pc = "try" /\ ~Sent(v)
    /\ caps' = NoneThere(v) /\ Fails(v)
    /\ UNCHANGED <<recorder, login, wrong>> /\ PUnchanged

\* The device does not answer. A lookup takes that for an answer, too.
Silent(v) ==
    /\ req[v].pc = "asking"
    /\ (IF Way(v) = "nvr" THEN "recorder" ELSE "camera") \notin up
    /\ caps' = NoneThere(v) /\ Fails(v)
    /\ UNCHANGED <<recorder, login, wrong>> /\ PUnchanged

\* The camera refuses or takes the login, which is noted; an older login's word takes the place
\* of that on the one saved now.
Noted(v, word) == [login EXCEPT !.seen = IF req[v].login.no = login.no THEN word ELSE "nothing"]
CamAnswers(v) == req[v].pc = "asking" /\ Way(v) # "nvr" /\ "camera" \in up

Denied(v) ==
    /\ CamAnswers(v) /\ ~req[v].login.good
    /\ login' = Noted(v, "refused")
    /\ wrong' = IF req[v].login.no = login.no THEN wrong + 1 ELSE 0
    /\ caps' = NoneThere(v) /\ Fails(v)
    /\ UNCHANGED recorder /\ PUnchanged

LetIn(v) == CamAnswers(v) /\ req[v].login.good /\ login' = Noted(v, "ok")
            /\ wrong' = IF req[v].login.no = login.no THEN wrong ELSE 0

\* _negotiate: the small picture a camera can send.
Small == IF cam.sized = "honoured" THEN "size" ELSE IF cam.small THEN "sub" ELSE "none"

\* A panorama's small pictures are crops: its recorder's is better, unless that has failed.
PassesOn(r) == r.via /\ ~r.recFailed /\ ~NvrRefuses

\* _fetch_direct.
Direct(v) ==
    /\ LetIn(v) /\ Way(v) \in {"direct", "direct-again"}
    /\ IF v > 1 \/ req[v].full
       THEN Got(v) /\ UNCHANGED caps
       ELSE /\ caps' = [caps EXCEPT !.thumb = IF cam.wide THEN "none" ELSE IF @ = "unknown" THEN Small ELSE @]
            /\ IF cam.wide /\ PassesOn(req[v])
               THEN req' = [req EXCEPT ![v] = Onward([@ EXCEPT !.again = TRUE])]
               ELSE Got(v)
    /\ UNCHANGED recorder /\ PUnchanged

\* _fetch_generic, with _snap_url.
Generic(v) ==
    /\ LetIn(v) /\ Way(v) = "own-generic"
    /\ LET asked == [caps EXCEPT !.url = IF @ = "unknown" THEN (IF cam.url THEN "known" ELSE "none") ELSE @]
       IN  IF asked.url = "known" /\ cam.shot
           THEN Got(v) /\ caps' = asked
           ELSE /\ Fails(v)
                /\ caps' = [asked EXCEPT !.shot = IF asked.url = "known" THEN "bad" ELSE @]
    /\ UNCHANGED recorder /\ PUnchanged

\* _fetch_rtsp, with _rtsp_url.
Rtsp(v) ==
    /\ LetIn(v) /\ Way(v) = "own-rtsp"
    /\ caps' = [caps EXCEPT !.stream = IF @ = "unknown" THEN (IF cam.stream THEN "known" ELSE "none") ELSE @]
    /\ IF caps'.stream = "known" THEN Got(v) ELSE Fails(v)
    /\ UNCHANGED recorder /\ PUnchanged

\* _fetch_nvr: the channel's small picture, else its large one; a channel that refuses both is
\* remembered.
FromRecorder(v) ==
    /\ req[v].pc = "asking" /\ Way(v) = "nvr" /\ "recorder" \in up
    /\ LET large == req[v].full \/ recorder[v] = "main"
           sent  == IF large THEN cam.recMain ELSE cam.recSub \/ cam.recMain
       IN  /\ IF sent THEN Got(v) ELSE Fails(v)
           /\ recorder' = [recorder EXCEPT ![v] = IF large \/ cam.recSub THEN @
                                                  ELSE IF cam.recMain THEN "main" ELSE "bad"]
    /\ UNCHANGED <<caps, login, wrong>> /\ PUnchanged

\* A device that is up answers once with something else than a picture, and that request goes on
\* as one that was hurt. What is remembered of it: the generic camera's way is bad, or has no
\* address; no small picture can be had; the recorder's channel is bad, or sends large ones only.
AnswersOdd(v) ==
    CASE Way(v) = "own-generic" -> {c \in {NoneThere(v), [caps EXCEPT !.url = "known", !.shot = "bad"]} :
                                        c.url = "known" => cam.url /\ caps.url # "none"}
      [] Way(v) = "own-rtsp"    -> {NoneThere(v), [caps EXCEPT !.stream = IF LooksUp(v) /\ cam.stream THEN "known" ELSE @]}
      [] Way(v) = "nvr"         -> {caps}
      [] OTHER -> {caps} \cup {c \in {[caps EXCEPT !.thumb = "none"]} : v = 1 /\ ~req[v].full}

AsksSmall(v) == ~req[v].full /\ recorder[v] # "main"

Odd(v) ==
    /\ req[v].pc = "asking" /\ PSpend("odd")
    /\ \/ LetIn(v)
       \/ Way(v) = "nvr" /\ "recorder" \in up /\ UNCHANGED <<login, wrong>>
    /\ caps' \in AnswersOdd(v)
    /\ \/ /\ req' = [req EXCEPT ![v] = Onward([Marked(v) EXCEPT !.hurt = TRUE])]
          /\ \/ UNCHANGED recorder
             \/ Way(v) = "nvr" /\ AsksSmall(v) /\ recorder' = [recorder EXCEPT ![v] = "bad"]
       \/ /\ Way(v) = "nvr" /\ AsksSmall(v) /\ cam.recMain
          /\ Got(v) /\ recorder' = [recorder EXCEPT ![v] = "main"]
    /\ UNCHANGED <<cam, up, on, purged, pics, files>>

\* _picture: the picture is kept in memory, ...
PutAway(v) ==
    /\ req[v].pc = "put"
    /\ pics' = pics \cup {v}
    /\ req' = [req EXCEPT ![v] = IF req[v].full THEN NoReq ELSE [@ EXCEPT !.pc = "save"]]
    /\ UNCHANGED <<cam, caps, recorder, login, up, on, purged, files, pleft, wrong>>

\* ... and on disk, unless the one there is young or the disk fails (_maybe_save).
Save(v) ==
    /\ req[v].pc = "save"
    /\ files' \in {files, files \cup {v}}
    /\ req' = [req EXCEPT ![v] = NoReq]
    /\ UNCHANGED <<cam, caps, recorder, login, up, on, purged, pics, pleft, wrong>>

EndsBare(v) ==
    /\ req[v].pc = "failed" /\ req' = [req EXCEPT ![v] = NoReq]
    /\ UNCHANGED <<caps, recorder, login, wrong>> /\ PUnchanged

----------------------------------------------------------------------------
(* The background round.                                                   *)

\* purge: a saving that renames its file meanwhile breaks it off, and the rest of the files stay.
\* Mutant: all files are left.
UnderWay == {v \in Lenses : req[v] # NoReq}
PurgeMemory == pics' = {} /\ UNCHANGED files
Purge == pics' = {} /\ files' \in SUBSET files /\ (UnderWay = {} => files' = {})

\* _round, with the pictures off: however the purge went, there is no other one.
RoundOff ==
    /\ ~on /\ ~purged /\ purged' = TRUE /\ Purge
    /\ UNCHANGED <<cam, caps, recorder, login, up, on, req, pleft, wrong>>

\* _round, with the pictures on: its own pictures are requests like any other.
RoundOn ==
    /\ on /\ purged /\ purged' = FALSE
    /\ UNCHANGED <<cam, caps, recorder, login, up, on, pics, files, req, pleft, wrong>>

----------------------------------------------------------------------------
(* What happens to it.                                                     *)

Hurt == req' = [v \in Lenses |-> IF req[v] = NoReq THEN NoReq ELSE [req[v] EXCEPT !.hurt = TRUE]]

TurnPictures ==
    /\ PSpend("switch") /\ on' = ~on
    /\ UNCHANGED <<cam, caps, recorder, login, up, purged, pics, files, req, wrong>>

\* Camera or recorder fall silent and come back.
TurnDevice(d) ==
    /\ PSpend("power") /\ Hurt
    /\ up' = IF d \in up THEN up \ {d} ELSE up \cup {d}
    /\ UNCHANGED <<cam, caps, recorder, login, on, purged, pics, files, wrong>>

\* Somebody saves another login, right or wrong.
SaveLogin(good) ==
    /\ PSpend("fix") /\ Hurt
    /\ login' = [no |-> login.no + 1, good |-> good, seen |-> "nothing"] /\ wrong' = 0
    /\ UNCHANGED <<cam, caps, recorder, up, on, purged, pics, files>>

\* NVR_BAD_RETRY is over.
RetryRecorder ==
    /\ PSpend("retry") /\ \E v \in Lenses : recorder[v] = "bad"
    /\ recorder' = [v \in Lenses |-> IF recorder[v] = "bad" THEN "unknown" ELSE recorder[v]]
    /\ UNCHANGED <<cam, caps, login, up, on, purged, pics, files, req, wrong>>

PWorks ==
    \/ RoundOff \/ RoundOn
    \/ \E v \in Lenses : \/ SendOn(v) \/ NotSent(v) \/ Silent(v) \/ Denied(v) \/ Direct(v)
                         \/ Generic(v) \/ Rtsp(v) \/ FromRecorder(v) \/ Odd(v) \/ PutAway(v) \/ Save(v) \/ EndsBare(v)

PNext ==
    \/ PWorks \/ TurnPictures \/ RetryRecorder
    \/ \E v \in Lenses, full \in BOOLEAN : Ask(v, full)
    \/ \E d \in {"camera", "recorder"} : TurnDevice(d)
    \/ \E good \in BOOLEAN : SaveLogin(good)

PSpec == PInit /\ [][PNext]_pvars

----------------------------------------------------------------------------
(* Properties.                                                             *)

\* A request that nothing got in the way of, neither a silent device nor a bad login, ends without
\* a picture only when there was none: the camera's own (a Hikvision camera always has one) and
\* its recorder's are tried, in whatever order what was learned before asks for. The exception is
\* what an earlier request gave up: an address that a lookup did not bring, a picture's address
\* that once, if only for a moment, sent something else (neither is asked for again, campics.py:664, 729).
NoWayMissed ==
    \A v \in Lenses : req[v].pc = "failed" /\ ~req[v].hurt =>
        /\ ~cam.hik
        /\ cam.rec => ~cam.recMain /\ (req[v].full \/ ~cam.recSub)
        /\ cam.url /\ cam.shot => caps.url = "none" \/ caps.shot = "bad"
        /\ cam.stream => caps.stream = "none"

\* A wrong login is sent to the camera no more often than there are requests at once: all but
\* those already on their way see that it was refused. That is once, as hikisapi.py:5-7 and
\* campics.py:31 have it, only where Parallel is 1; with more, two lenses looked at together send
\* it twice. (An answer to an older login, still under way when this one was saved, makes hikisapi
\* forget that once.)
TriesBounded == wrong <= Parallel

\* A request goes through every way to the picture, and tries no wrong login over and over.
RequestsSound == NoWayMissed /\ TriesBounded

\* No picture is left, neither in memory nor on disk.
NothingKept == pics = {} /\ files = {}
=============================================================================
