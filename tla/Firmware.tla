------------------------------ MODULE Firmware ------------------------------
(***************************************************************************)
(* Firmware updates of cameras and recorders: the hub's library and jobs   *)
(* (hub/app/camfw.py), the copy a site keeps and the site's own job        *)
(* (app/hikfw.py), and the devices.                                        *)
(*                                                                         *)
(* A job of the hub runs on its own thread: backup, the file to the site   *)
(* in pieces, the site's job, following it. The site's job runs on its     *)
(* thread under the site's risky-work lock. Requests and answers between   *)
(* the two may be lost, either program may start again at any moment, and  *)
(* a device may refuse a file, not take it, or not come back.              *)
(*                                                                         *)
(* Files are numbers in the order of version and build, 0 is what a device *)
(* ran when it was bought; Ver is the version without the build, which is  *)
(* all the check after an update looks at. Abstracted: models and regions  *)
(* (every file fits every device), the hours of the night, progress        *)
(* counters.                                                               *)
(***************************************************************************)
EXTENDS Naturals, FiniteSets

CONSTANTS
    Sites, Devs,
    SiteOf,     \* the site of each device
    Files,
    Ver,        \* the version of each file
    None,
    Pieces,     \* pieces a file is sent in
    MaxMiss,    \* follow-up polls that may find another job, or none
    Rotten,     \* files damaged on the hub's own disk
    Budgets     \* bounds, one record of Kinds a scenario

Kinds == {"start", "lost", "damage", "site", "hub", "link", "refuse", "flaky", "dead", "remove"}

ASSUME FilesAssumption  == Files \subseteq Nat \ {0}
ASSUME VersionsAssumption ==
    /\ Ver \in [Files \cup {0} -> Nat]
    /\ \A f, g \in Files \cup {0} : f <= g => Ver[f] <= Ver[g]
ASSUME SitesAssumption  == SiteOf \in [Devs -> Sites]
ASSUME PiecesAssumption == Pieces \in Nat \ {0} /\ MaxMiss \in Nat
ASSUME RottenAssumption == Rotten \subseteq Files
ASSUME BudgetAssumption == Budgets \subseteq [Kinds -> Nat]

VARIABLES
    lib,        \* library.json: files offered
    proven,     \* files that were tried and checked
    req,        \* requests to start an update that are being looked at
    job,        \* _jobs: the newest update of each device
    link,       \* sites the hub reaches
    copy,       \* what each site has of each file
    sjob,       \* Firmware.jobs: the newest job of each device at its site
    lock,       \* _risky_lock: the device whose job holds it
    nextId,     \* ids of site jobs
    dev,        \* the devices
    saved,      \* devices with a recent configuration backup
    left

hubVars  == <<lib, proven, req, job, saved>>
siteVars == <<copy, sjob, lock, nextId>>
vars == <<hubVars, link, siteVars, dev, left>>

NoReq == [step |-> "none"]
NoJob == [state |-> "none"]
NoCopy == [n |-> 0, clean |-> TRUE, done |-> FALSE]

Spend(kind) == left[kind] > 0 /\ left' = [left EXCEPT ![kind] = @ - 1]

Init ==
    /\ lib = Files /\ proven = {} /\ saved = {}
    /\ req = [d \in Devs |-> NoReq] /\ job = [d \in Devs |-> NoJob]
    /\ link = Sites
    /\ copy = [s \in Sites |-> [f \in Files |-> NoCopy]]
    /\ sjob = [d \in Devs |-> NoJob] /\ lock = [s \in Sites |-> None] /\ nextId = 1
    /\ dev = [d \in Devs |-> [runs |-> 0, took |-> 0, up |-> TRUE, dead |-> FALSE]]
    /\ left \in Budgets

Linked(d)  == SiteOf[d] \in link
RunningAt(s) == {d \in Devs : SiteOf[d] = s /\ job[d].state = "running"}
RunningWith(f) == {d \in Devs : job[d].state = "running" /\ job[d].file = f}

(***************************************************************************)
(* Starting an update at the hub.                                          *)
(***************************************************************************)
\* What the two looks at the jobs refuse.
Busy(d) == RunningAt(SiteOf[d]) # {}
OnTestUnit(f) == f \notin proven /\ RunningWith(f) # {}

Ask(d, f) ==
    /\ Spend("start") /\ req[d] = NoReq /\ f \in lib
    /\ ~Busy(d) /\ ~OnTestUnit(f)
    /\ req' = [req EXCEPT ![d] = [step |-> "checked", file |-> f]]
    /\ UNCHANGED <<lib, proven, job, saved, link, siteVars, dev>>

\* preflight at the site: the device answers and runs something older than the file, if only by its build.
Passes(d, f) == dev[d].up /\ dev[d].runs < f

Preflight(d) ==
    /\ req[d].step = "checked"
    /\ \/ Linked(d) /\ Passes(d, req[d].file) /\ req' = [req EXCEPT ![d].step = "passed"] /\ UNCHANGED left
       \/ ~(Linked(d) /\ Passes(d, req[d].file)) /\ req' = [req EXCEPT ![d] = NoReq] /\ UNCHANGED left
       \/ Linked(d) /\ Spend("lost") /\ req' = [req EXCEPT ![d] = NoReq]
    /\ UNCHANGED <<lib, proven, job, saved, link, siteVars, dev>>

Commit(d) ==
    /\ req[d].step = "passed"
    /\ req' = [req EXCEPT ![d] = NoReq]
    /\ job' = IF Busy(d) THEN job
              ELSE [job EXCEPT ![d] = [state |-> "running", step |-> "backup", file |-> req[d].file,
                                       have |-> 0, sid |-> 0, miss |-> 0, result |-> None]]
    /\ UNCHANGED <<lib, proven, saved, link, siteVars, dev, left>>

\* remove, from the library.
Remove(f) ==
    /\ Spend("remove") /\ f \in lib /\ RunningWith(f) = {}
    /\ lib' = lib \ {f}
    /\ UNCHANGED <<proven, req, job, saved, link, siteVars, dev>>

(***************************************************************************)
(* The hub's job.                                                          *)
(***************************************************************************)
AtStep(d, step) == job[d].state = "running" /\ job[d].step = step

Done(d, result) == [job EXCEPT ![d].state = "done", ![d].result = result]
To(d, step) == [job EXCEPT ![d].step = step]

jobOnly == <<lib, req, link, dev>>

NoBackup(d) == Done(d, "failed")

Backup(d) ==
    /\ AtStep(d, "backup")
    /\ \/ /\ d \in saved \/ (Linked(d) /\ dev[d].up)
          /\ saved' = saved \cup {d} /\ job' = To(d, "ask") /\ UNCHANGED left
       \/ d \notin saved /\ ~(Linked(d) /\ dev[d].up) /\ job' = NoBackup(d) /\ UNCHANGED <<saved, left>>
       \/ d \notin saved /\ Spend("lost") /\ job' = NoBackup(d) /\ UNCHANGED saved
    /\ UNCHANGED <<jobOnly, proven, siteVars>>

Copy(d) == copy[SiteOf[d]][job[d].file]

StageAsk(d) ==
    /\ AtStep(d, "ask")
    /\ \/ /\ Linked(d) /\ UNCHANGED left
          /\ job' = IF Copy(d).done THEN To(d, "post") ELSE [To(d, "put") EXCEPT ![d].have = Copy(d).n]
       \/ ~Linked(d) /\ job' = Done(d, "failed") /\ UNCHANGED left
       \/ Linked(d) /\ Spend("lost") /\ job' = Done(d, "failed")
    /\ UNCHANGED <<jobOnly, proven, saved, siteVars>>

\* _drop_others, and what a whole copy needs to become the staged file.
DropOthers(s, f) == [g \in Files |-> IF g = f THEN copy[s][g] ELSE NoCopy]
Whole(c) == c.clean

\* stage_put: one piece at `at`; what the site has of the file afterwards, and of the others.
Put(s, f, at, clean) ==
    LET base == IF at = 0 /\ copy[s][f].n = 0 THEN DropOthers(s, f) ELSE copy[s]
        c    == [n |-> at + 1, clean |-> copy[s][f].clean /\ clean, done |-> FALSE] IN
    IF copy[s][f].done \/ at # copy[s][f].n THEN copy[s]
    ELSE [base EXCEPT ![f] = IF c.n < Pieces THEN c
                             ELSE IF Whole(c) THEN [c EXCEPT !.done = TRUE] ELSE NoCopy]

\* The answer puts the hub where the site is: also a piece out of order, a file that is
\* whole, and one that was damaged and begins again.
PutAnswered(d) ==
    LET s == SiteOf[d] f == job[d].file IN
    /\ AtStep(d, "put") /\ Linked(d) /\ f \in lib
    /\ \/ f \notin Rotten /\ copy' = [copy EXCEPT ![s] = Put(s, f, job[d].have, TRUE)] /\ UNCHANGED left
       \/ f \in Rotten /\ copy' = [copy EXCEPT ![s] = Put(s, f, job[d].have, FALSE)] /\ UNCHANGED left
       \/ Spend("damage") /\ copy' = [copy EXCEPT ![s] = Put(s, f, job[d].have, FALSE)]
    /\ job' = IF copy'[s][f].done THEN To(d, "post") ELSE [job EXCEPT ![d].have = copy'[s][f].n]
    /\ UNCHANGED <<jobOnly, proven, saved, sjob, lock, nextId>>

\* The site took the piece and its answer is lost: the hub sends it again.
PutLost(d) ==
    LET s == SiteOf[d] f == job[d].file IN
    /\ AtStep(d, "put") /\ Linked(d) /\ f \in lib /\ Spend("lost")
    /\ copy' = [copy EXCEPT ![s] = Put(s, f, job[d].have, f \notin Rotten)]
    /\ UNCHANGED <<jobOnly, job, proven, saved, sjob, lock, nextId>>

\* Too many tries in a row, or the file was removed from the library.
PutFails(d) ==
    /\ AtStep(d, "put") /\ (~Linked(d) \/ job[d].file \notin lib)
    /\ job' = Done(d, "failed")
    /\ UNCHANGED <<jobOnly, proven, saved, siteVars, left>>

\* Mutant: the site does not look whether one of its devices is being updated.
MayStartBusy(d, f) == copy[SiteOf[d]][f].done /\ Passes(d, f)

\* Firmware.start at the site.
SiteIdle(s) == lock[s] = None /\ \A d \in Devs : SiteOf[d] = s => sjob[d].state # "running"
MayStart(d, f) == copy[SiteOf[d]][f].done /\ Passes(d, f) /\ SiteIdle(SiteOf[d])

SiteStarts(d) ==
    /\ sjob' = [sjob EXCEPT ![d] = [state |-> "running", id |-> nextId, file |-> job[d].file,
                                    step |-> "open", ask |-> FALSE, result |-> None]]
    /\ lock' = [lock EXCEPT ![SiteOf[d]] = d] /\ nextId' = nextId + 1

Post(d) ==
    LET may == MayStart(d, job[d].file) IN
    /\ AtStep(d, "post")
    /\ \/ /\ Linked(d) /\ may /\ SiteStarts(d) /\ UNCHANGED left
          /\ job' = [To(d, "follow") EXCEPT ![d].sid = nextId]
       \/ Linked(d) /\ may /\ Spend("lost") /\ SiteStarts(d) /\ job' = Done(d, "failed")
       \/ ~(Linked(d) /\ may) /\ job' = Done(d, "failed") /\ UNCHANGED <<sjob, lock, nextId, left>>
    /\ UNCHANGED <<jobOnly, proven, saved, copy>>

IsMine(d) == sjob[d].state # "none" /\ sjob[d].id = job[d].sid

\* _mark, when the job has ended.
Proves(f, result) == proven' = IF result = "ok" /\ f \in lib THEN proven \cup {f} ELSE proven

FollowDone(d) ==
    /\ AtStep(d, "follow") /\ Linked(d) /\ IsMine(d) /\ sjob[d].state = "done"
    /\ job' = Done(d, sjob[d].result) /\ Proves(job[d].file, sjob[d].result)
    /\ UNCHANGED <<jobOnly, saved, siteVars, left>>

\* Another job, or none: the site has started again.
FollowMiss(d) ==
    /\ AtStep(d, "follow") /\ Linked(d) /\ ~IsMine(d)
    /\ job' = IF job[d].miss < MaxMiss THEN [job EXCEPT ![d].miss = @ + 1] ELSE Done(d, "failed")
    /\ UNCHANGED <<jobOnly, proven, saved, siteVars, left>>

\* Mutant: a site that does not answer is waited for.
OverdueNever(d) == FALSE

\* Forty-five minutes are over: the site cannot be reached until then, or its job takes longer.
Overdue(d) == ~Linked(d) \/ sjob[d].state = "running"

FollowOverdue(d) ==
    /\ AtStep(d, "follow") /\ Overdue(d)
    /\ job' = Done(d, "failed")
    /\ UNCHANGED <<jobOnly, proven, saved, siteVars, left>>

HubSteps(d) ==
    Backup(d) \/ StageAsk(d) \/ PutAnswered(d) \/ PutFails(d) \/ Post(d)
    \/ FollowDone(d) \/ FollowMiss(d) \/ FollowOverdue(d)

(***************************************************************************)
(* The site's job.                                                         *)
(***************************************************************************)
SiteAt(d, step) == sjob[d].state = "running" /\ sjob[d].step = step

SiteDone(d, result) ==
    /\ sjob' = [sjob EXCEPT ![d].state = "done", ![d].result = result]
    /\ lock' = [lock EXCEPT ![SiteOf[d]] = None]

siteOnly == <<hubVars, link, copy, nextId>>

\* A job's thread opens the staged file, unless a newer one has taken its place.
Open(d) ==
    /\ SiteAt(d, "open")
    /\ IF copy[SiteOf[d]][sjob[d].file].done
       THEN sjob' = [sjob EXCEPT ![d].step = "send"] /\ UNCHANGED lock
       ELSE SiteDone(d, "failed")
    /\ UNCHANGED <<siteOnly, dev, left>>

\* The device takes the file, asking for a restart or about to restart by itself; or it
\* refuses it; or it stops answering before it has all of it.
Send(d) ==
    /\ SiteAt(d, "send")
    /\ \/ /\ dev[d].up /\ UNCHANGED <<lock, left>>
          /\ dev' = [dev EXCEPT ![d].took = sjob[d].file]
          /\ \E ask \in BOOLEAN : sjob' = [sjob EXCEPT ![d].step = "restart", ![d].ask = ask]
       \/ dev[d].up /\ Spend("refuse") /\ SiteDone(d, "failed") /\ UNCHANGED dev
       \/ ~dev[d].up /\ SiteDone(d, "failed") /\ UNCHANGED <<dev, left>>
    /\ UNCHANGED siteOnly

\* The restart is sent when asked for, or when the device was not seen to restart by itself.
RestartDev(d) ==
    /\ SiteAt(d, "restart")
    /\ \/ dev' = [dev EXCEPT ![d].up = FALSE]
       \/ ~sjob[d].ask /\ ~dev[d].up /\ UNCHANGED dev
    /\ sjob' = [sjob EXCEPT ![d].step = "wait"]
    /\ UNCHANGED <<siteOnly, lock, left>>

Wait(d) ==
    /\ SiteAt(d, "wait")
    /\ \/ dev[d].up /\ sjob' = [sjob EXCEPT ![d].step = "check"] /\ UNCHANGED lock
       \/ dev[d].dead /\ SiteDone(d, "failed")
    /\ UNCHANGED <<siteOnly, dev, left>>

\* Mutant: an answer is taken for the new version.
TookAnyway(d) == TRUE

\* The version is what was asked for; its build is not looked at.
Took(d) == Ver[dev[d].runs] = Ver[sjob[d].file]

Check(d) ==
    /\ SiteAt(d, "check")
    /\ IF Took(d) THEN \E r \in {"ok", "warn"} : SiteDone(d, r) ELSE SiteDone(d, "failed")
    /\ UNCHANGED <<siteOnly, dev, left>>

SiteSteps(d) == Open(d) \/ Send(d) \/ RestartDev(d) \/ Wait(d) \/ Check(d)

(***************************************************************************)
(* Devices, links, and programs that start again.                          *)
(***************************************************************************)
\* A device that took a file may restart by itself.
SelfRestart(d) ==
    /\ dev[d].up /\ dev[d].took # 0
    /\ dev' = [dev EXCEPT ![d].up = FALSE]
    /\ UNCHANGED <<hubVars, link, siteVars, left>>

\* It comes back with the file it took, or with what it ran, or not at all.
Boots(d) ==
    /\ ~dev[d].up /\ ~dev[d].dead
    /\ \/ /\ dev' = [dev EXCEPT ![d] = [runs |-> IF @.took = 0 THEN @.runs ELSE @.took, took |-> 0,
                                        up |-> TRUE, dead |-> FALSE]]
          /\ UNCHANGED left
       \/ Spend("flaky") /\ dev' = [dev EXCEPT ![d].up = TRUE, ![d].took = 0]
       \/ Spend("dead") /\ dev' = [dev EXCEPT ![d].dead = TRUE]
    /\ UNCHANGED <<hubVars, link, siteVars>>

LinkTurns(s) ==
    /\ Spend("link")
    /\ link' = IF s \in link THEN link \ {s} ELSE link \cup {s}
    /\ UNCHANGED <<hubVars, siteVars, dev>>

\* Netwatch at the site starts again: its jobs are gone and the lock is free, its files stay.
SiteRestart(s) ==
    /\ Spend("site")
    /\ sjob' = [d \in Devs |-> IF SiteOf[d] = s THEN NoJob ELSE sjob[d]]
    /\ lock' = [lock EXCEPT ![s] = None]
    /\ UNCHANGED <<hubVars, link, copy, nextId, dev>>

\* _load_jobs: whatever ran is unknown.
HubRestart ==
    /\ Spend("hub")
    /\ req' = [d \in Devs |-> NoReq]
    /\ job' = [d \in Devs |-> IF job[d].state = "running"
                              THEN [job[d] EXCEPT !.state = "done", !.result = "unknown"] ELSE job[d]]
    /\ UNCHANGED <<lib, proven, saved, link, siteVars, dev>>

Next ==
    \/ HubRestart
    \/ \E d \in Devs : \/ Preflight(d) \/ Commit(d) \/ HubSteps(d) \/ PutLost(d)
                       \/ SiteSteps(d) \/ SelfRestart(d) \/ Boots(d)
                       \/ \E f \in Files : Ask(d, f)
    \/ \E f \in Files : Remove(f)
    \/ \E s \in Sites : LinkTurns(s) \/ SiteRestart(s)

Spec == Init /\ [][Next]_vars

\* Threads go on, and a device that restarts comes back or never will.
Fairness ==
    \A d \in Devs : WF_vars(HubSteps(d)) /\ WF_vars(SiteSteps(d)) /\ WF_vars(Boots(d))

FairSpec == Spec /\ Fairness

(***************************************************************************)
(* Properties.                                                             *)
(***************************************************************************)
Reqs == {NoReq} \cup [step : {"checked", "passed"}, file : Files]
Results == {None, "ok", "warn", "failed", "unknown"}
HubJobs == {NoJob} \cup [state : {"running", "done"}, step : {"backup", "ask", "put", "post", "follow"},
                         file : Files, have : 0..Pieces, sid : 0..nextId, miss : 0..MaxMiss, result : Results]
SiteJobs == {NoJob} \cup [state : {"running", "done"}, id : 1..nextId, file : Files, ask : BOOLEAN,
                          step : {"open", "send", "restart", "wait", "check"}, result : Results]
Copies == {c \in [n : 0..Pieces, clean : BOOLEAN, done : BOOLEAN] : c.done <=> c.n = Pieces}

\* Type correctness.
TypeOK ==
    /\ lib \subseteq Files /\ proven \subseteq Files /\ saved \subseteq Devs /\ link \subseteq Sites
    /\ req \in [Devs -> Reqs] /\ job \in [Devs -> HubJobs] /\ sjob \in [Devs -> SiteJobs]
    /\ copy \in [Sites -> [Files -> Copies]] /\ lock \in [Sites -> Devs \cup {None}] /\ nextId \in Nat
    /\ dev \in [Devs -> [runs : Files \cup {0}, took : Files \cup {0}, up : BOOLEAN, dead : BOOLEAN]]
    /\ left \in [Kinds -> Nat]

\* Never two updates at once on one site, whoever started them and whatever was lost: neither
\* in the hub's list nor among the jobs of the site, where one may still run that the hub no
\* longer knows of.
OneAtATime ==
    \A s \in Sites :
        /\ Cardinality(RunningAt(s)) <= 1
        /\ Cardinality({d \in Devs : SiteOf[d] = s /\ sjob[d].state = "running"}) <= 1

\* What a site keeps is one file, whole only as it was on the hub: no device is sent a damaged
\* or a mixed one.
OneFileStaged ==
    \A s \in Sites :
        /\ Cardinality({f \in Files : copy[s][f].n > 0}) <= 1
        /\ \A f \in Files : copy[s][f].done => copy[s][f].clean

\* No device gets a file that the hub has no configuration backup of.
BackedUp == \A d \in Devs : dev[d].took # 0 \/ dev[d].runs # 0 => d \in saved

\* A good verdict is about this update: the device is up and runs the version of the file when the
\* hub says so. Not the file itself: an update to another build that did not take is told as done.
VerdictTrue ==
    [][\A d \in Devs : job[d].state = "running" /\ job'[d].state = "done" /\ job'[d].result = "ok" =>
            dev[d].up /\ Ver[dev[d].runs] = Ver[job[d].file]]_vars

\* A file counts as proven only when some device came to run its version.
ProvenRan == \A f \in proven : \E d \in Devs : Ver[dev[d].runs] >= Ver[f]

\* Every update the hub started ends with a verdict, and the site's risky-work lock is given back.
VerdictComes == \A d \in Devs : job[d].state = "running" ~> job[d].state = "done"
LockFreed    == \A s \in Sites : lock[s] # None ~> lock[s] = None
UpdateEnds   == VerdictComes /\ LockFreed
=============================================================================
