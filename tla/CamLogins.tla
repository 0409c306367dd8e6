----------------------------- MODULE CamLogins ------------------------------
(***************************************************************************)
(* The logins of a camera, and who knows them (app/hiksecurity.py,         *)
(* app/hikchannels.py, app/creds.py, with the jobs of app/hiksettings.py). *)
(* The camera has its admin, perhaps a user "netwatch", and a lock against *)
(* wrong passwords; a recorder logs in to it as admin with the password in *)
(* its channel. Netwatch saves one login and, beside it, the admin's when  *)
(* it uses its own user. One job at a time makes that user, removes it,    *)
(* or changes the admin's password; any request may be refused or get no   *)
(* answer, and Netwatch may stop.                                          *)
(*                                                                         *)
(* Left out: rules for passwords and rights, the one-try memory of logins  *)
(* (CamPics), and a camera that takes no password at all after a change.   *)
(***************************************************************************)
EXTENDS Naturals

CONSTANTS
    Passwords,    \* of the admin
    OwnPassword,  \* of the user netwatch
    NoPassword,
    LoginBudgets  \* bounds of events of each kind

ASSUME LoginAssumption == NoPassword \notin Passwords

VARIABLES
    cam,          \* [admin, net, lock]: the admin's password, is there a user netwatch, is the lock on
    chan,         \* the password in the recorder's channel
    store,        \* [user, pw, slot]: the saved login, and the admin's password beside it
    job,
    camleft,
    said,         \* how the last job ended, in its own words
    bidden,         \* history: what a job said is left to do by hand: "user", "lock", "channel"
    doubt         \* history: what an unanswered request, a stop or somebody by hand left unknown

loginvars == <<cam, chan, store, job, camleft, said, bidden, doubt>>

NoJob == [pc |-> "idle"]
Idle == job = NoJob

LoginInit ==
    /\ camleft \in LoginBudgets
    /\ \E p \in Passwords : /\ cam = [admin |-> p, net |-> FALSE, lock |-> TRUE] /\ chan = p
                            /\ store = [user |-> "admin", pw |-> p, slot |-> NoPassword]
    /\ job = NoJob /\ said = "none" /\ bidden = {} /\ doubt = {}

LoginSpend(kind) == camleft[kind] > 0 /\ camleft' = [camleft EXCEPT ![kind] = @ - 1]

\* admin_login.
AdminLogin == IF store.slot # NoPassword THEN store.slot
              ELSE IF store.user = "admin" THEN store.pw ELSE NoPassword

At(pc) == job.pc = pc
On(pc) == job' = [job EXCEPT !.pc = pc]
EndsAs(words) == job' = NoJob /\ said' = words
Doubts(D) == doubt' = doubt \cup D

\* A request that the camera refuses; one without an answer.
RefusedAt(pc) == At(pc) /\ LoginSpend("refuse")
LostAt(pc) == At(pc) /\ LoginSpend("lost")

----------------------------------------------------------------------------
(* account and password: one risky job at a time.                          *)

NewJob(kind, new) ==
    [kind |-> kind, pc |-> "list", login |-> AdminLogin, new |-> new, was |-> <<cam.admin, cam.net, store>>,
     back |-> FALSE, reached |-> TRUE, bad |-> FALSE, met |-> FALSE, words |-> "ok"]

StartAccount(kind) ==
    /\ Idle /\ LoginSpend("job")
    /\ \/ kind = "create" /\ store.user = "admin" /\ AdminLogin # NoPassword
       \/ kind = "remove" /\ store.user = "netwatch" /\ store.slot # NoPassword
    /\ job' = NewJob(kind, NoPassword)
    /\ UNCHANGED <<cam, chan, store, said, bidden, doubt>>

\* _channels_using leaves out a recorder that does not answer.
StartPassword(new) ==
    /\ Idle /\ AdminLogin \notin {NoPassword, new}
    /\ \/ LoginSpend("job") /\ job' = NewJob("password", new) /\ UNCHANGED doubt
       \/ /\ camleft.job > 0 /\ LoginSpend("lost") /\ Doubts({"channel"})
          /\ job' = [NewJob("password", new) EXCEPT !.reached = FALSE]
    /\ UNCHANGED <<cam, chan, store, said, bidden>>

\* The camera's list of users.
ListUsers ==
    /\ At("list")
    /\ \/ job.login # cam.admin /\ EndsAs("refused")
       \/ job.login = cam.admin /\ job.kind = "create" /\ cam.net /\ EndsAs("nothing")
       \/ /\ job.login = cam.admin /\ ~(job.kind = "create" /\ cam.net) /\ UNCHANGED said
          /\ On(CASE job.kind = "create" -> "post" [] job.kind = "password" -> "pause"
                  [] job.kind = "remove" -> IF cam.net THEN "delete" ELSE "save")
    /\ UNCHANGED <<cam, chan, store, camleft, bidden, doubt>>

\* No list is a list without users: a removal takes the user for gone.
ListUnread ==
    /\ LostAt("list")
    /\ IF job.kind = "remove" THEN On("save") /\ Doubts({"user"}) /\ UNCHANGED said
       ELSE EndsAs("nothing") /\ UNCHANGED doubt
    /\ UNCHANGED <<cam, chan, store, bidden>>

StoreUnchanged == UNCHANGED <<chan, store, bidden>>

\* create: the user, its rights, the proof that it can log in.
PostUser ==
    /\ At("post") /\ cam' = [cam EXCEPT !.net = TRUE] /\ On("rights")
    /\ UNCHANGED <<camleft, said, doubt>> /\ StoreUnchanged

PostRefused == RefusedAt("post") /\ EndsAs("nothing") /\ UNCHANGED <<cam, doubt>> /\ StoreUnchanged

PostLost ==
    /\ LostAt("post") /\ \E made \in BOOLEAN : cam' = [cam EXCEPT !.net = made]
    /\ EndsAs("no answer") /\ Doubts({"user"}) /\ StoreUnchanged

Proves(pc, then) == At(pc) /\ On(then) /\ UNCHANGED <<cam, camleft, said, doubt>> /\ StoreUnchanged
SetRights == Proves("rights", "proof")
ProveLogin == Proves("proof", "save")

\* Any failure now removes the user again.
AfterFailure(pc) == "undo"
AccountFails(pc) ==
    /\ RefusedAt(pc)
    /\ IF AfterFailure(pc) = "undo" THEN job' = [job EXCEPT !.pc = "undo", !.words = "nothing"] /\ UNCHANGED said
       ELSE EndsAs("nothing")
    /\ UNCHANGED <<cam, doubt>> /\ StoreUnchanged

AccountLost(pc) ==
    /\ LostAt(pc) /\ job' = [job EXCEPT !.pc = "undo", !.words = "no answer"]
    /\ UNCHANGED <<cam, said, doubt>> /\ StoreUnchanged

\* The camera takes the admin login no more: nothing is asked of it again, no removal either.
RightsDenied ==
    /\ RefusedAt("rights") /\ EndsAs("refused") /\ Doubts({"user"}) /\ UNCHANGED cam /\ StoreUnchanged

UndoUser ==
    /\ At("undo") /\ cam' = [cam EXCEPT !.net = FALSE] /\ EndsAs(job.words)
    /\ UNCHANGED <<camleft, doubt>> /\ StoreUnchanged

\* Only a failure that was the camera's word is told with "remove it on the device".
UndoRefused ==
    /\ RefusedAt("undo")
    /\ IF job.words = "nothing" THEN EndsAs("by hand") /\ bidden' = bidden \cup {"user"} /\ UNCHANGED doubt
       ELSE EndsAs(job.words) /\ Doubts({"user"}) /\ UNCHANGED bidden
    /\ UNCHANGED <<cam, chan, store>>

UndoLost ==
    /\ LostAt("undo") /\ \E left \in BOOLEAN : cam' = [cam EXCEPT !.net = left]
    /\ EndsAs("no answer") /\ Doubts({"user"}) /\ StoreUnchanged

\* remove.
DeleteUser ==
    /\ At("delete") /\ cam' = [cam EXCEPT !.net = FALSE] /\ On("save")
    /\ UNCHANGED <<camleft, said, doubt>> /\ StoreUnchanged

StopsRefused == EndsAs("by hand") /\ bidden' = bidden \cup {"user"}
DeleteRefused == RefusedAt("delete") /\ StopsRefused /\ UNCHANGED <<cam, chan, store, doubt>>

DeleteLost ==
    /\ LostAt("delete") /\ \E left \in BOOLEAN : cam' = [cam EXCEPT !.net = left]
    /\ EndsAs("no answer") /\ Doubts({"user"}) /\ StoreUnchanged

\* creds.set_ keeps the admin's password beside the login, creds.set_admin keeps or drops it.
KeptAdmin == IF job.kind = "create" THEN job.login ELSE NoPassword

SaveAccount ==
    /\ At("save") /\ job.kind # "password" /\ On("slot")
    /\ store' = IF job.kind = "create" THEN [store EXCEPT !.user = "netwatch", !.pw = OwnPassword]
                ELSE [store EXCEPT !.user = "admin", !.pw = job.login]
    /\ UNCHANGED <<cam, chan, camleft, said, bidden, doubt>>

SaveSlot ==
    /\ At("slot") /\ store' = [store EXCEPT !.slot = KeptAdmin] /\ EndsAs("ok")
    /\ UNCHANGED <<cam, chan, camleft, bidden, doubt>>

----------------------------------------------------------------------------
(* change_password.                                                        *)

PauseLock ==
    /\ At("pause") /\ job' = [job EXCEPT !.pc = "write", !.back = cam.lock] /\ cam' = [cam EXCEPT !.lock = FALSE]
    /\ UNCHANGED <<camleft, said, doubt>> /\ StoreUnchanged

PauseRefused == RefusedAt("pause") /\ cam.lock /\ EndsAs("nothing") /\ UNCHANGED <<cam, doubt>> /\ StoreUnchanged

\* The lock is not read: the job goes on without it; or it is not known to be paused.
PauseLost ==
    /\ LostAt("pause")
    /\ \/ On("write") /\ UNCHANGED <<cam, said, doubt>>
       \/ /\ \E on \in {cam.lock, FALSE} : cam' = [cam EXCEPT !.lock = on]
          /\ EndsAs("no answer") /\ Doubts({"lock"})
    /\ StoreUnchanged

\* The camera takes the new password, or only says so.
WritePassword ==
    /\ At("write") /\ On("test")
    /\ \/ cam' = [cam EXCEPT !.admin = job.new] /\ UNCHANGED camleft
       \/ LoginSpend("refuse") /\ UNCHANGED cam
    /\ UNCHANGED <<said, doubt>> /\ StoreUnchanged

NothingRestores == job' = [job EXCEPT !.pc = "restore", !.words = "nothing"] /\ UNCHANGED said
WriteRefused == RefusedAt("write") /\ NothingRestores /\ UNCHANGED <<cam, doubt>> /\ StoreUnchanged

\* A refused login ends the job where it is, with the lock paused.
WriteDenied == RefusedAt("write") /\ EndsAs("refused") /\ Doubts({"lock"}) /\ UNCHANGED cam /\ StoreUnchanged

WriteLost ==
    /\ LostAt("write") /\ \E p \in {cam.admin, job.new} : cam' = [cam EXCEPT !.admin = p]
    /\ EndsAs("no answer") /\ Doubts({"password", "lock"}) /\ StoreUnchanged

\* The new password is tried, and when it is refused the old one.
TestNew ==
    /\ At("test")
    /\ IF cam.admin = job.new THEN On("save") /\ UNCHANGED said ELSE NothingRestores
    /\ UNCHANGED <<cam, camleft, doubt>> /\ StoreUnchanged

TestLost ==
    /\ LostAt("test") /\ EndsAs("no answer") /\ Doubts({"password", "lock"}) /\ UNCHANGED cam /\ StoreUnchanged

\* The new password is saved where the admin's login is. Mutant: as the saved login.
SavedLogin(new) == [store EXCEPT !.user = "admin", !.pw = new]
SavedWhere(new) == IF store.slot # NoPassword THEN [store EXCEPT !.slot = new] ELSE SavedLogin(new)
SavePassword ==
    /\ At("save") /\ job.kind = "password" /\ store' = SavedWhere(job.new)
    /\ On(IF job.reached THEN "channel" ELSE "restore")
    /\ UNCHANGED <<cam, chan, camleft, said, bidden, doubt>>

PutChannel ==
    /\ At("channel") /\ chan' = job.new /\ On("restore")
    /\ UNCHANGED <<cam, store, camleft, said, bidden, doubt>>

\* The recorder refuses, does not answer, or does not get the camera back.
ChannelBad == TRUE
ChannelFails ==
    /\ At("channel") /\ (LoginSpend("refuse") \/ LoginSpend("lost")) /\ chan' \in {chan, job.new}
    /\ job' = [job EXCEPT !.pc = "restore", !.bad = ChannelBad]
    /\ UNCHANGED <<cam, store, said, bidden, doubt>>

Finishes(paused) ==
    /\ EndsAs(IF job.words = "ok" /\ (job.bad \/ paused) THEN "partial" ELSE job.words)
    /\ bidden' = bidden \cup (IF job.bad THEN {"channel"} ELSE {})
                    \cup (IF paused /\ job.words = "ok" THEN {"lock"} ELSE {})
    /\ doubt' = IF paused /\ job.words = "nothing" THEN doubt \cup {"lock"} ELSE doubt
    /\ UNCHANGED <<chan, store>>

RestoreLock ==
    /\ At("restore") /\ cam' = [cam EXCEPT !.lock = @ \/ job.back] /\ Finishes(FALSE) /\ UNCHANGED camleft
RestoreFails ==
    /\ At("restore") /\ job.back /\ (LoginSpend("refuse") \/ LoginSpend("lost")) /\ Finishes(TRUE) /\ UNCHANGED cam

----------------------------------------------------------------------------
(* Besides the jobs.                                                       *)

\* fix_login gives the recorder's channel the admin's password that Netwatch has.
FixLogin ==
    /\ Idle /\ AdminLogin # NoPassword /\ LoginSpend("fix") /\ chan' = AdminLogin
    /\ UNCHANGED <<cam, store, job, said, bidden, doubt>>

\* Somebody saves the admin's login for the camera; the password beside it stays.
SaveAdmin ==
    /\ LoginSpend("save") /\ store' = [store EXCEPT !.user = "admin", !.pw = cam.admin]
    /\ job' = IF Idle THEN job ELSE [job EXCEPT !.met = TRUE]
    /\ doubt' = doubt \cup {"user"} \cup (IF Idle THEN {} ELSE {"password"})
    /\ UNCHANGED <<cam, chan, said, bidden>>

\* Somebody removes the user on the camera's own page; or changes the admin's password there.
RemoveByHand ==
    /\ Idle /\ cam.net /\ LoginSpend("hand") /\ cam' = [cam EXCEPT !.net = FALSE] /\ bidden' = bidden \ {"user"}
    /\ UNCHANGED <<chan, store, job, said, doubt>>

ChangeByHand(p) ==
    /\ Idle /\ LoginSpend("hand") /\ cam' = [cam EXCEPT !.admin = p] /\ Doubts({"password", "channel"})
    /\ UNCHANGED <<chan, store, job, said, bidden>>

StopNetwatch ==
    /\ ~Idle /\ LoginSpend("crash") /\ EndsAs("none") /\ Doubts({"user", "password", "lock", "channel"})
    /\ UNCHANGED <<cam, chan, store, bidden>>

AccountJob ==
    \/ \E kind \in {"create", "remove"} : StartAccount(kind)
    \/ ListUsers \/ ListUnread \/ PostUser \/ PostRefused \/ PostLost \/ SetRights \/ ProveLogin
    \/ \E pc \in {"rights", "proof"} : AccountFails(pc) \/ AccountLost(pc)
    \/ RightsDenied \/ UndoUser \/ UndoRefused \/ UndoLost
    \/ DeleteUser \/ DeleteRefused \/ DeleteLost \/ SaveAccount \/ SaveSlot
PasswordJob ==
    \/ \E p \in Passwords : StartPassword(p)
    \/ PauseLock \/ PauseRefused \/ PauseLost
    \/ WritePassword \/ WriteRefused \/ WriteDenied \/ WriteLost \/ TestNew \/ TestLost
    \/ SavePassword \/ PutChannel \/ ChannelFails \/ RestoreLock \/ RestoreFails
Besides == FixLogin \/ SaveAdmin \/ RemoveByHand \/ StopNetwatch \/ \E p \in Passwords : ChangeByHand(p)

LoginNext == AccountJob \/ PasswordJob \/ Besides
LoginSpec == LoginInit /\ [][LoginNext]_loginvars

----------------------------------------------------------------------------
(* Properties.                                                             *)

Cams   == [admin : Passwords, net : BOOLEAN, lock : BOOLEAN]
Stores == [user : {"admin", "netwatch"}, pw : Passwords \cup {OwnPassword}, slot : Passwords \cup {NoPassword}]

\* Type correctness.
LoginTypeOK ==
    /\ cam \in Cams /\ chan \in Passwords /\ store \in Stores
    /\ bidden \subseteq {"user", "lock", "channel"} /\ doubt \subseteq {"user", "password", "lock", "channel"}

\* Netwatch never loses the admin's password: what admin_login gives is what the camera takes,
\* through every refusal, undo and repair, unless the answer that would have said so got lost,
\* Netwatch stopped within a job, or somebody changed it by hand.
AdminKnown == Idle /\ "password" \notin doubt => AdminLogin = cam.admin

\* A user netwatch on the camera is the one that Netwatch uses, or people were told to remove it.
UserAccounted == Idle /\ cam.net /\ {"user", "password"} \cap doubt = {} => store.user = "netwatch" \/ "user" \in bidden

\* The login lock is on again after every job, or people were told that it is not.
LockAccounted == Idle /\ "lock" \notin doubt => cam.lock \/ "lock" \in bidden

\* With the lock on, the recorder never knocks with an old password, which would lock it out,
\* unless people were told of the channel.
KnocksSpared ==
    Idle /\ {"password", "channel"} \cap doubt = {} /\ cam.lock => chan = cam.admin \/ "channel" \in bidden

\* After a job the camera, its logins and its recorder are as Netwatch has them on record, or
\* people were told what to do.
Accounted == AdminKnown /\ UserAccounted /\ LockAccounted /\ KnocksSpared

JobEnds(words) == ~Idle /\ Idle' /\ said' = words /\ ~job.met

\* A job that says nothing (else) was changed left the users, their passwords and the saved
\* logins as it found them.
NothingChanged == [][JobEnds("nothing") => <<cam'.admin, cam'.net, store'>> = job.was]_loginvars

\* A job that ends well leaves the camera, the saved logins and the channel in step, unless a
\* list of users that was not read may have hidden the user.
InStep ==
    CASE job.kind = "create" -> cam'.net /\ store' = [user |-> "netwatch", pw |-> OwnPassword, slot |-> cam'.admin]
      [] job.kind = "remove" -> \/ "user" \in doubt
                                \/ ~cam'.net /\ store' = [user |-> "admin", pw |-> cam'.admin, slot |-> NoPassword]
      [] job.kind = "password" -> chan' = cam'.admin \/ "channel" \in doubt
EndsWhole == [][JobEnds("ok") => InStep]_loginvars
=============================================================================
