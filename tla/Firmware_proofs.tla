--------------------------- MODULE Firmware_proofs ---------------------------
(***************************************************************************)
(* Proofs about Firmware, for any sites, devices, files, pieces and        *)
(* bounds.                                                                 *)
(***************************************************************************)
EXTENDS Firmware, FiniteSetTheorems, TLAPS

USE FilesAssumption, SitesAssumption, PiecesAssumption, RottenAssumption, BudgetAssumption

(***************************************************************************)
(* Types, variable by variable.                                            *)
(***************************************************************************)
HubRecords == [state : {"running", "done"}, step : {"backup", "ask", "put", "post", "follow"},
               file : Files, have : 0..Pieces, sid : 0..nextId, miss : 0..MaxMiss, result : Results]
SiteRecords == [state : {"running", "done"}, id : 1..nextId, file : Files, ask : BOOLEAN,
                step : {"open", "send", "restart", "wait", "check"}, result : Results]
DevStates == [runs : Files \cup {0}, took : Files \cup {0}, up : BOOLEAN, dead : BOOLEAN]

LibType  == lib \subseteq Files /\ proven \subseteq Files /\ saved \subseteq Devs /\ link \subseteq Sites
ReqType  == req \in [Devs -> Reqs]
JobType  == job \in [Devs -> HubJobs]
SjobType == sjob \in [Devs -> SiteJobs]
CopyType == copy \in [Sites -> [Files -> Copies]]
LockType == lock \in [Sites -> Devs \cup {None}] /\ nextId \in Nat \ {0}
DevType  == dev \in [Devs -> DevStates]
LeftType == left \in [Kinds -> Nat]

TypeInv ==
    LibType /\ ReqType /\ JobType /\ SjobType /\ CopyType /\ LockType /\ DevType /\ LeftType

LEMMA TypeInvTypes == TypeInv => TypeOK
BY DEF TypeInv, TypeOK, LibType, ReqType, JobType, SjobType, CopyType, LockType, DevType, LeftType,
       DevStates

LEMMA SpendTypes == ASSUME LeftType, NEW kind \in Kinds, Spend(kind) PROVE LeftType'
BY DEF LeftType, Spend

LEMMA Untouched ==
    /\ LibType /\ UNCHANGED <<lib, proven, saved, link>> => LibType'
    /\ ReqType /\ UNCHANGED req => ReqType'
    /\ JobType /\ UNCHANGED <<job, nextId>> => JobType'
    /\ SjobType /\ UNCHANGED <<sjob, nextId>> => SjobType'
    /\ CopyType /\ UNCHANGED copy => CopyType'
    /\ LockType /\ UNCHANGED <<lock, nextId>> => LockType'
    /\ DevType /\ UNCHANGED dev => DevType'
    /\ LeftType /\ UNCHANGED left => LeftType'
BY DEF LibType, ReqType, JobType, SjobType, CopyType, LockType, DevType, LeftType, HubJobs, SiteJobs

LEMMA InitTypes == Init => TypeInv
BY DEF Init, TypeInv, LibType, ReqType, JobType, SjobType, CopyType, LockType, DevType, LeftType,
       DevStates, Reqs, NoReq, HubJobs, NoJob, SiteJobs, Copies, NoCopy

\* A job that runs is a whole record.
LEMMA Whole1 ==
    ASSUME JobType, SjobType, NEW d \in Devs
    PROVE  /\ job[d].state \in {"running", "done"} => job[d] \in HubRecords
           /\ sjob[d].state \in {"running", "done"} => sjob[d] \in SiteRecords
           /\ job[d] \in HubRecords \/ job[d] = NoJob
           /\ sjob[d] \in SiteRecords \/ sjob[d] = NoJob
BY DEF JobType, SjobType, HubJobs, SiteJobs, HubRecords, SiteRecords, NoJob

LEMMA SetJob ==
    ASSUME JobType, nextId' = nextId, NEW d \in Devs, NEW j \in HubRecords,
           job' = [job EXCEPT ![d] = j]
    PROVE  JobType'
BY DEF JobType, HubJobs, HubRecords

LEMMA SetSjob ==
    ASSUME SjobType, nextId' = nextId, NEW d \in Devs, NEW j \in SiteRecords,
           sjob' = [sjob EXCEPT ![d] = j]
    PROVE  SjobType'
BY DEF SjobType, SiteJobs, SiteRecords


\* What Done and To do to a job that runs.
LEMMA DoneShape ==
    ASSUME JobType, SjobType, NEW d \in Devs, job[d].state = "running", NEW r \in Results,
           job' = Done(d, r)
    PROVE  /\ job'[d] \in HubRecords
           /\ job'[d] = [job[d] EXCEPT !.state = "done", !.result = r]
           /\ job' = [job EXCEPT ![d] = job'[d]]
BY Whole1 DEF HubRecords, Done, JobType

LEMMA ToShape ==
    ASSUME JobType, SjobType, NEW d \in Devs, job[d].state = "running",
           NEW x \in {"ask", "put", "post", "follow"}, job' = To(d, x)
    PROVE  /\ job'[d] \in HubRecords
           /\ job'[d] = [job[d] EXCEPT !.step = x]
           /\ job' = [job EXCEPT ![d] = job'[d]]
BY Whole1 DEF HubRecords, To, JobType

\* A piece keeps what a site has well formed: a file is whole only with its last piece.
LEMMA PutTypes ==
    ASSUME CopyType, NEW s \in Sites, NEW f \in Files, NEW at \in 0..Pieces, NEW clean \in BOOLEAN
    PROVE  Put(s, f, at, clean) \in [Files -> Copies]
<1> DEFINE c == [n |-> at + 1, clean |-> copy[s][f].clean /\ clean, done |-> FALSE]
           put == IF c.n < Pieces THEN c ELSE IF Whole(c) THEN [c EXCEPT !.done = TRUE] ELSE NoCopy
<1>1. copy[s] \in [Files -> Copies] /\ DropOthers(s, f) \in [Files -> Copies]
  BY DEF CopyType, DropOthers, NoCopy, Copies
<1>2. ASSUME at = copy[s][f].n, ~copy[s][f].done PROVE put \in Copies
  <2>1. copy[s][f] \in [n : 0..Pieces, clean : BOOLEAN, done : BOOLEAN] /\ copy[s][f].n # Pieces
    BY <1>1, <1>2 DEF Copies
  <2>2. at + 1 \in 0..Pieces /\ (copy[s][f].clean /\ clean) \in BOOLEAN
    BY <1>2, <2>1
  <2>3. CASE c.n < Pieces
    BY <2>2, <2>3 DEF Copies
  <2>4. CASE ~(c.n < Pieces)
    <3>1. c.n = Pieces
      BY <2>2, <2>4
    <3>2. [c EXCEPT !.done = TRUE] \in Copies
      BY <2>2, <3>1 DEF Copies
    <3> QED BY <2>4, <3>2 DEF Copies, NoCopy
  <2> QED BY <2>3, <2>4
<1> QED BY <1>1, <1>2 DEF Put

\* What the site has after a piece of the hub's job of device d.
Putting(d) ==
    \E clean \in BOOLEAN :
        copy' = [copy EXCEPT ![SiteOf[d]] = Put(SiteOf[d], job[d].file, job[d].have, clean)]

LEMMA PuttingTypes ==
    ASSUME CopyType, NEW d \in Devs, job[d] \in HubRecords, Putting(d)
    PROVE  CopyType'
<1>1. PICK clean \in BOOLEAN :
         copy' = [copy EXCEPT ![SiteOf[d]] = Put(SiteOf[d], job[d].file, job[d].have, clean)]
  BY DEF Putting
<1>2. SiteOf[d] \in Sites /\ job[d].file \in Files /\ job[d].have \in 0..Pieces
  BY DEF HubRecords
<1>3. Put(SiteOf[d], job[d].file, job[d].have, clean) \in [Files -> Copies]
  BY <1>2, PutTypes
<1> QED BY <1>1, <1>2, <1>3 DEF CopyType

(***************************************************************************)
(* What a step of the hub's job of device d does to the jobs.              *)
(***************************************************************************)
SiteStays == UNCHANGED <<sjob, lock, nextId>>

\* Whatever the step was.
HubMove(d) ==
    /\ job[d].state = "running" /\ job'[d].state \in {"running", "done"}
    /\ job'[d].file = job[d].file
    /\ job' = [job EXCEPT ![d] = job'[d]]
    /\ UNCHANGED <<lib, req, link, dev>>

HubJobType(d) ==
    IF nextId' = nextId THEN job'[d] \in HubRecords
    ELSE SiteStarts(d) /\ \/ job'[d] \in HubRecords
                          \/ job'[d] = [job[d] EXCEPT !.step = "follow", !.sid = nextId]

\* A file is sent only after the backup.
BackupFirst(d) ==
    /\ saved \subseteq saved' /\ saved' \subseteq Devs
    /\ job'[d].state = "running" => job'[d].step # "backup" /\ (job[d].step # "backup" \/ d \in saved')

\* The site's job is started by "post", and followed by its number.
SiteAsked(d) ==
    /\ SiteStays \/ (job[d].step = "post" /\ MayStart(d, job[d].file) /\ SiteStarts(d))
    /\ job'[d].state = "running" /\ job'[d].step = "follow" =>
           \/ job[d].step = "follow" /\ job'[d].sid = job[d].sid /\ SiteStays
           \/ job'[d].sid = nextId /\ SiteStarts(d)

\* Only a verdict that was read is a good one.
VerdictRead(d) ==
    /\ job'[d].state = "done" /\ job'[d].result = "ok" => FollowDone(d) /\ sjob[d].result = "ok"
    /\ \/ proven' = proven
       \/ /\ job'[d].state = "done" /\ job'[d].result = "ok"
          /\ proven' = proven \cup {job[d].file}

HubStep(d) == HubMove(d) /\ HubJobType(d) /\ BackupFirst(d) /\ SiteAsked(d) /\ VerdictRead(d)

LEMMA HubShape ==
    ASSUME TypeInv, NEW d \in Devs, HubSteps(d)
    PROVE  HubStep(d)
<1> USE DEF TypeInv
<1> DEFINE Same == UNCHANGED <<lib, req, link, dev, saved, proven>>
           Failed == job' = Done(d, "failed")
           Goes == HubMove(d) /\ HubJobType(d)
<1>0. job[d].state = "running" /\ job[d] \in HubRecords /\ saved \subseteq Devs
  BY Whole1 DEF HubSteps, AtStep, Backup, StageAsk, PutAnswered, PutFails, Post, FollowDone,
                FollowMiss, FollowOverdue, LibType
<1>1. ASSUME NEW r \in Results, job' = Done(d, r), SiteStays, UNCHANGED <<lib, req, link, dev>>
      PROVE  Goes /\ job'[d].state = "done" /\ job'[d].result = r
  <2>1. job'[d] \in HubRecords /\ job'[d] = [job[d] EXCEPT !.state = "done", !.result = r]
        /\ job' = [job EXCEPT ![d] = job'[d]]
    BY <1>0, <1>1, DoneShape
  <2> QED BY <1>0, <1>1, <2>1 DEF HubMove, HubJobType, HubRecords, SiteStays
<1>2. ASSUME Failed, SiteStays, Same
      PROVE  HubStep(d)
  <2>1. Goes /\ job'[d].state = "done" /\ job'[d].result = "failed"
    BY <1>1, <1>2 DEF Results
  <2> QED BY <1>0, <1>2, <2>1 DEF HubStep, BackupFirst, SiteAsked, VerdictRead
<1>3. ASSUME NEW x \in {"ask", "put", "post"}, SiteStays, UNCHANGED <<lib, req, link, dev>>,
             job' = To(d, x)
      PROVE  Goes /\ job'[d].state = "running" /\ job'[d].step = x
  <2>1. job'[d] \in HubRecords /\ job'[d] = [job[d] EXCEPT !.step = x]
        /\ job' = [job EXCEPT ![d] = job'[d]]
    BY <1>0, <1>3, ToShape
  <2> QED BY <1>0, <1>3, <2>1 DEF HubMove, HubJobType, HubRecords, SiteStays
<1>4. ASSUME NEW x \in {"put", "follow"}, NEW n \in 0..Pieces, NEW m \in 0..MaxMiss,
             SiteStays, UNCHANGED <<lib, req, link, dev>>,
             job' = [job EXCEPT ![d].step = x, ![d].have = n, ![d].miss = m]
      PROVE  Goes /\ job'[d].state = "running" /\ job'[d].step = x /\ job'[d].sid = job[d].sid
  <2>1. job'[d] = [job[d] EXCEPT !.step = x, !.have = n, !.miss = m]
        /\ job' = [job EXCEPT ![d] = job'[d]]
    BY <1>0, <1>4 DEF JobType
  <2>2. job'[d] \in HubRecords
    BY <1>0, <2>1 DEF HubRecords
  <2>3. job'[d].state = "running" /\ job'[d].step = x /\ job'[d].sid = job[d].sid
        /\ job'[d].file = job[d].file
    BY <1>0, <2>1 DEF HubRecords
  <2> QED BY <1>0, <1>4, <2>1, <2>2, <2>3 DEF HubMove, HubJobType, SiteStays
<1>5. CASE Backup(d)
  <2>1. CASE Failed /\ saved' = saved
    BY <1>2, <1>5, <2>1 DEF Backup, jobOnly, siteVars, SiteStays
  <2>2. CASE job' = To(d, "ask") /\ saved' = saved \cup {d}
    <3>1. SiteStays /\ UNCHANGED <<lib, req, link, dev, proven>>
      BY <1>5 DEF Backup, jobOnly, siteVars, SiteStays
    <3>2. Goes /\ job'[d].state = "running" /\ job'[d].step = "ask"
      BY <1>3, <2>2, <3>1
    <3> QED BY <1>0, <2>2, <3>1, <3>2 DEF HubStep, BackupFirst, SiteAsked, VerdictRead
  <2> QED BY <1>5, <2>1, <2>2 DEF Backup, NoBackup
<1>6. CASE StageAsk(d)
  <2>0. SiteStays /\ Same /\ job[d].step = "ask"
    BY <1>6 DEF StageAsk, AtStep, jobOnly, siteVars, SiteStays
  <2>1. CASE job' = To(d, "post")
    <3>1. Goes /\ job'[d].state = "running" /\ job'[d].step = "post"
      BY <1>3, <2>0, <2>1
    <3> QED BY <1>0, <2>0, <3>1 DEF HubStep, BackupFirst, SiteAsked, VerdictRead
  <2>2. CASE job' = [To(d, "put") EXCEPT ![d].have = Copy(d).n]
    <3>0. SiteOf[d] \in Sites /\ job[d].file \in Files /\ job[d].miss \in 0..MaxMiss
      BY <1>0 DEF HubRecords
    <3>4. copy[SiteOf[d]][job[d].file] \in Copies
      BY <3>0, ZenonT(60) DEF CopyType
    <3>1. Copy(d).n \in 0..Pieces /\ job[d].miss \in 0..MaxMiss
      BY <3>0, <3>4 DEF Copy, Copies
    <3>2. job' = [job EXCEPT ![d].step = "put", ![d].have = Copy(d).n, ![d].miss = job[d].miss]
      BY <1>0, <2>2 DEF To, JobType, HubRecords
    <3>3. Goes /\ job'[d].state = "running" /\ job'[d].step = "put"
      BY <1>4, <2>0, <3>1, <3>2
    <3> QED BY <1>0, <2>0, <3>3 DEF HubStep, BackupFirst, SiteAsked, VerdictRead
  <2> QED BY <1>2, <1>6, <2>0, <2>1, <2>2 DEF StageAsk
<1>7. CASE PutAnswered(d)
  <2>0. SiteStays /\ Same /\ job[d].step = "put"
    BY <1>7 DEF PutAnswered, AtStep, jobOnly, SiteStays
  <2>1. CASE job' = To(d, "post")
    <3>1. Goes /\ job'[d].state = "running" /\ job'[d].step = "post"
      BY <1>3, <2>0, <2>1
    <3> QED BY <1>0, <2>0, <3>1 DEF HubStep, BackupFirst, SiteAsked, VerdictRead
  <2>2. CASE job' = [job EXCEPT ![d].have = copy'[SiteOf[d]][job[d].file].n]
    <3> DEFINE n == copy'[SiteOf[d]][job[d].file].n
    <3>1. Putting(d)
      BY <1>7 DEF PutAnswered, Putting
    <3>0. SiteOf[d] \in Sites /\ job[d].file \in Files /\ job[d].miss \in 0..MaxMiss
      BY <1>0 DEF HubRecords
    <3>5. CopyType'
      BY <1>0, <3>1, PuttingTypes
    <3>2. n \in 0..Pieces /\ job[d].miss \in 0..MaxMiss
      BY <3>0, <3>5, ZenonT(60) DEF CopyType, Copies
    <3>3. job' = [job EXCEPT ![d].step = "put", ![d].have = n, ![d].miss = job[d].miss]
      BY <1>0, <2>0, <2>2 DEF JobType, HubRecords
    <3> HIDE DEF n
    <3>4. Goes /\ job'[d].state = "running" /\ job'[d].step = "put"
      BY <1>4, <2>0, <3>2, <3>3
    <3> QED BY <1>0, <2>0, <3>4 DEF HubStep, BackupFirst, SiteAsked, VerdictRead
  <2> QED BY <1>7, <2>1, <2>2 DEF PutAnswered
<1>8. CASE PutFails(d)
  BY <1>2, <1>8 DEF PutFails, jobOnly, siteVars, SiteStays
<1>9. CASE Post(d)
  <2>1. CASE SiteStays
    BY <1>2, <1>9, <2>1 DEF Post, jobOnly, SiteStarts, SiteStays, LockType
  <2>2. CASE SiteStarts(d) /\ MayStart(d, job[d].file)
    <3>0. Same /\ nextId' # nextId /\ job[d].step = "post"
      BY <1>9, <2>2 DEF Post, jobOnly, AtStep, SiteStarts, LockType
    <3>1. CASE Failed
      <4>1. job'[d] \in HubRecords /\ job'[d] = [job[d] EXCEPT !.state = "done", !.result = "failed"]
            /\ job' = [job EXCEPT ![d] = job'[d]]
        BY <1>0, <3>1, DoneShape DEF Results
      <4>2. job'[d].state = "done" /\ job'[d].result = "failed" /\ job'[d].file = job[d].file
        BY <1>0, <4>1 DEF HubRecords
      <4> QED
        BY <1>0, <2>2, <3>0, <4>1, <4>2, SMTT(30)
        DEF HubStep, HubMove, HubJobType, BackupFirst, SiteAsked, VerdictRead
    <3>2. CASE job' = [To(d, "follow") EXCEPT ![d].sid = nextId]
      <4>1. job'[d] = [job[d] EXCEPT !.step = "follow", !.sid = nextId]
            /\ job' = [job EXCEPT ![d] = job'[d]]
        BY <1>0, <3>2 DEF To, JobType
      <4>2. job'[d].state = "running" /\ job'[d].step = "follow" /\ job'[d].file = job[d].file
            /\ job'[d].sid = nextId
        BY <1>0, <4>1 DEF HubRecords
      <4> QED
        BY <1>0, <2>2, <3>0, <4>1, <4>2
        DEF HubStep, HubMove, HubJobType, BackupFirst, SiteAsked, VerdictRead
    <3> QED BY <1>9, <3>0, <3>1, <3>2 DEF Post
  <2> QED BY <1>9, <2>1, <2>2 DEF Post, SiteStays
<1>10. CASE FollowDone(d)
  <2>0. SiteStays /\ UNCHANGED <<lib, req, link, dev, saved>>
    BY <1>10 DEF FollowDone, jobOnly, siteVars, SiteStays
  <2>1. sjob[d].result \in Results
    BY <1>10, Whole1 DEF FollowDone, SiteRecords
  <2>2. Goes /\ job'[d].state = "done" /\ job'[d].result = sjob[d].result
    BY <1>1, <1>10, <2>0, <2>1 DEF FollowDone
  <2> QED BY <1>0, <1>10, <2>0, <2>2 DEF HubStep, BackupFirst, SiteAsked, VerdictRead, FollowDone, Proves
<1>11. CASE FollowMiss(d)
  <2>0. SiteStays /\ Same /\ job[d].step = "follow"
    BY <1>11 DEF FollowMiss, AtStep, jobOnly, siteVars, SiteStays
  <2>1. CASE job[d].miss < MaxMiss /\ job' = [job EXCEPT ![d].miss = @ + 1]
    <3> DEFINE m == job[d].miss + 1
    <3>1. m \in 0..MaxMiss /\ job[d].have \in 0..Pieces
      BY <1>0, <2>1 DEF HubRecords
    <3>2. job' = [job EXCEPT ![d].step = "follow", ![d].have = job[d].have, ![d].miss = m]
      BY <1>0, <2>0, <2>1 DEF JobType, HubRecords
    <3> HIDE DEF m
    <3>3. Goes /\ job'[d].state = "running" /\ job'[d].step = "follow" /\ job'[d].sid = job[d].sid
      BY <1>4, <2>0, <3>1, <3>2
    <3> QED BY <1>0, <2>0, <3>3 DEF HubStep, BackupFirst, SiteAsked, VerdictRead
  <2> QED BY <1>2, <1>11, <2>0, <2>1 DEF FollowMiss
<1>12. CASE FollowOverdue(d)
  BY <1>2, <1>12 DEF FollowOverdue, jobOnly, siteVars, SiteStays
<1> QED BY <1>5, <1>6, <1>7, <1>8, <1>9, <1>10, <1>11, <1>12 DEF HubSteps

(***************************************************************************)
(* What a step of the site's job of device d does.                         *)
(***************************************************************************)
DevMove(d) ==
    \/ UNCHANGED dev
    \/ /\ SiteAt(d, "send") /\ dev[d].up /\ sjob'[d].state = "running" /\ sjob'[d].step = "restart"
       /\ dev' = [dev EXCEPT ![d].took = sjob[d].file]
    \/ /\ SiteAt(d, "restart") /\ sjob'[d].state = "running" /\ sjob'[d].step = "wait"
       /\ dev' = [dev EXCEPT ![d].up = FALSE]

SiteStep(d) ==
    /\ sjob[d].state = "running" /\ sjob'[d] \in SiteRecords
    /\ sjob' = [sjob EXCEPT ![d] = sjob'[d]]
    /\ sjob'[d].file = sjob[d].file /\ sjob'[d].id = sjob[d].id
    /\ lock' \in [Sites -> Devs \cup {None}]
    /\ DevMove(d)
    /\ sjob'[d].state = "running" /\ sjob'[d].step = "wait" => ~dev'[d].up
    /\ sjob'[d].state = "running" /\ sjob'[d].step = "check" => SiteAt(d, "wait") /\ dev[d].up
    /\ sjob'[d].state = "done" /\ sjob'[d].result = "ok" => SiteAt(d, "check") /\ Took(d)
    /\ UNCHANGED <<hubVars, link, copy, nextId>>

LEMMA SiteShape ==
    ASSUME TypeInv, NEW d \in Devs, SiteSteps(d)
    PROVE  SiteStep(d)
<1> USE DEF TypeInv
<1>0. sjob[d].state = "running" /\ sjob[d] \in SiteRecords /\ lock \in [Sites -> Devs \cup {None}]
      /\ dev \in [Devs -> DevStates]
  BY Whole1 DEF SiteSteps, SiteAt, Open, Send, RestartDev, Wait, Check, LockType, DevType
<1>1. ASSUME NEW r \in Results, SiteDone(d, r), UNCHANGED <<dev, siteOnly>>,
             r = "ok" => SiteAt(d, "check") /\ Took(d)
      PROVE  SiteStep(d)
  <2>1. sjob'[d] = [sjob[d] EXCEPT !.state = "done", !.result = r]
        /\ sjob' = [sjob EXCEPT ![d] = sjob'[d]]
    BY <1>0, <1>1 DEF SiteDone, SjobType
  <2>2. sjob'[d] \in SiteRecords /\ sjob'[d].state = "done" /\ sjob'[d].result = r
        /\ sjob'[d].file = sjob[d].file /\ sjob'[d].id = sjob[d].id
    BY <1>0, <2>1 DEF SiteRecords
  <2> QED BY <1>0, <1>1, <2>1, <2>2 DEF SiteStep, SiteDone, DevMove, siteOnly
<1>2. ASSUME NEW x \in {"send", "restart", "wait", "check"}, NEW ask \in BOOLEAN,
             sjob' = [sjob EXCEPT ![d].step = x, ![d].ask = ask]
      PROVE  /\ sjob' = [sjob EXCEPT ![d] = sjob'[d]] /\ sjob'[d] \in SiteRecords
             /\ sjob'[d].state = "running" /\ sjob'[d].step = x
             /\ sjob'[d].file = sjob[d].file /\ sjob'[d].id = sjob[d].id
  <2>1. sjob'[d] = [sjob[d] EXCEPT !.step = x, !.ask = ask] /\ sjob' = [sjob EXCEPT ![d] = sjob'[d]]
    BY <1>2 DEF SjobType
  <2> QED BY <1>0, <2>1 DEF SiteRecords
<1>3. ASSUME NEW x \in {"send", "restart", "wait", "check"}, sjob' = [sjob EXCEPT ![d].step = x]
      PROVE  sjob' = [sjob EXCEPT ![d].step = x, ![d].ask = sjob[d].ask] /\ sjob[d].ask \in BOOLEAN
  BY <1>0, <1>3 DEF SjobType, SiteRecords
<1>4. CASE Open(d)
  <2>1. CASE sjob' = [sjob EXCEPT ![d].step = "send"] /\ UNCHANGED lock
    BY <1>0, <1>2, <1>3, <1>4, <2>1 DEF Open, SiteStep, DevMove, siteOnly
  <2> QED BY <1>1, <1>4, <2>1 DEF Open, Results
<1>5. CASE Send(d)
  <2>1. ASSUME NEW ask \in BOOLEAN, sjob' = [sjob EXCEPT ![d].step = "restart", ![d].ask = ask],
               dev[d].up, UNCHANGED lock, dev' = [dev EXCEPT ![d].took = sjob[d].file]
        PROVE  SiteStep(d)
    BY <1>0, <1>2, <1>5, <2>1 DEF Send, SiteStep, DevMove, siteOnly
  <2> QED BY <1>1, <1>5, <2>1 DEF Send, Results, siteOnly
<1>6. CASE RestartDev(d)
  <2>1. ~dev'[d].up
    BY <1>0, <1>6 DEF RestartDev, DevStates
  <2> QED BY <1>0, <1>2, <1>3, <1>6, <2>1 DEF RestartDev, SiteStep, DevMove, siteOnly
<1>7. CASE Wait(d)
  <2>1. CASE dev[d].up /\ sjob' = [sjob EXCEPT ![d].step = "check"] /\ UNCHANGED lock
    BY <1>0, <1>2, <1>3, <1>7, <2>1 DEF Wait, SiteStep, DevMove, siteOnly
  <2> QED BY <1>1, <1>7, <2>1 DEF Wait, Results, siteOnly
<1>8. CASE Check(d)
  BY <1>1, <1>8 DEF Check, Results, siteOnly
<1> QED BY <1>4, <1>5, <1>6, <1>7, <1>8 DEF SiteSteps

(***************************************************************************)
(* Every step keeps the types.                                             *)
(***************************************************************************)
LEMMA HubTypes ==
    ASSUME TypeInv, NEW d \in Devs, HubSteps(d)
    PROVE  TypeInv'
<1> USE DEF TypeInv
<1>1. HubStep(d)
  BY HubShape
<1>2. job[d] \in HubRecords
  BY <1>1, Whole1 DEF HubStep, HubMove
<1>3. LeftType'
  BY SpendTypes, Untouched DEF HubSteps, Backup, StageAsk, PutAnswered, PutFails, Post, FollowDone,
       FollowMiss, FollowOverdue, Kinds
<1>4. CopyType'
  <2>1. UNCHANGED copy \/ Putting(d)
    BY DEF HubSteps, Backup, StageAsk, PutAnswered, PutFails, Post, FollowDone, FollowMiss,
           FollowOverdue, siteVars, Putting
  <2> QED BY <1>2, <2>1, PuttingTypes, Untouched
<1>5. LibType' /\ ReqType' /\ DevType'
  BY <1>1, <1>2, Untouched DEF HubStep, HubMove, BackupFirst, VerdictRead, LibType, HubRecords
<1>6. CASE SiteStays
  <2>1. JobType'
    BY <1>1, <1>6, SetJob DEF HubStep, HubMove, HubJobType, SiteStays
  <2> QED BY <1>3, <1>4, <1>5, <1>6, <2>1, Untouched DEF SiteStays
<1>7. CASE SiteStarts(d)
  <2>0. nextId \in Nat \ {0} /\ nextId' = nextId + 1 /\ job[d].file \in Files
    BY <1>2, <1>7 DEF SiteStarts, LockType, HubRecords
  <2>1. LockType'
    BY <1>7, <2>0 DEF SiteStarts, LockType
  <2>2. SjobType'
    <3>1. [state |-> "running", id |-> nextId, file |-> job[d].file, step |-> "open",
           ask |-> FALSE, result |-> None] \in SiteJobs'
      BY <2>0 DEF SiteJobs, Results
    <3>2. \A e \in Devs : sjob[e] \in SiteJobs'
      BY <2>0 DEF SjobType, SiteJobs
    <3> QED BY <1>7, <3>1, <3>2 DEF SiteStarts, SjobType
  <2>3. JobType'
    <3>1. job'[d] \in HubJobs'
      <4>1. CASE job'[d] \in HubRecords
        BY <2>0, <4>1 DEF HubRecords, HubJobs
      <4>2. CASE job'[d] = [job[d] EXCEPT !.step = "follow", !.sid = nextId]
        <5>1. nextId \in 0..nextId' /\ 0..nextId \subseteq 0..nextId'
          BY <2>0
        <5>2. job'[d] \in [state : {"running", "done"}, step : {"backup", "ask", "put", "post", "follow"},
                 file : Files, have : 0..Pieces, sid : 0..nextId', miss : 0..MaxMiss, result : Results]
          BY <1>2, <4>2, <5>1 DEF HubRecords
        <5> QED BY <5>2 DEF HubJobs
      <4> QED BY <1>1, <2>0, <4>1, <4>2 DEF HubStep, HubJobType
    <3>2. \A e \in Devs : job[e] \in HubJobs'
      BY <2>0 DEF JobType, HubJobs
    <3> QED BY <1>1, <3>1, <3>2 DEF HubStep, HubMove, JobType
  <2> QED BY <1>3, <1>4, <1>5, <2>1, <2>2, <2>3
<1> QED BY <1>1, <1>6, <1>7 DEF HubStep, SiteAsked

LEMMA DevTypes ==
    \A x \in DevStates :
        /\ \A f \in Files : [x EXCEPT !.took = f] \in DevStates
        /\ [x EXCEPT !.up = FALSE] \in DevStates /\ [x EXCEPT !.dead = TRUE] \in DevStates
        /\ [x EXCEPT !.up = TRUE, !.took = 0] \in DevStates
        /\ [runs |-> IF x.took = 0 THEN x.runs ELSE x.took, took |-> 0, up |-> TRUE, dead |-> FALSE]
             \in DevStates
BY DEF DevStates

LEMMA StepTypes == TypeInv /\ [Next]_vars => TypeInv'
<1> SUFFICES ASSUME TypeInv, [Next]_vars PROVE TypeInv'
  OBVIOUS
<1> USE DEF TypeInv, siteVars
<1>1. CASE HubRestart
  <2>1. LeftType'
    BY <1>1, SpendTypes DEF HubRestart, Kinds
  <2>2. ReqType'
    BY <1>1 DEF HubRestart, ReqType, Reqs
  <2>3. JobType'
    <3>1. \A d \in Devs : job[d].state = "running" =>
              [job[d] EXCEPT !.state = "done", !.result = "unknown"] \in HubRecords
      BY Whole1, ZenonT(60) DEF HubRecords, Results
    <3>2. \A d \in Devs : job'[d] \in HubJobs
      BY <1>1, <3>1 DEF HubRestart, JobType, HubJobs, HubRecords
    <3> QED BY <1>1, <3>2 DEF HubRestart, JobType, HubJobs
  <2> QED BY <1>1, <2>1, <2>2, <2>3, Untouched DEF HubRestart
<1>2. ASSUME NEW d \in Devs, Preflight(d) \/ \E f \in Files : Ask(d, f) PROVE TypeInv'
  <2>1. LeftType'
    BY <1>2, SpendTypes, Untouched DEF Preflight, Ask, Kinds
  <2>2. ReqType'
    BY <1>2 DEF Preflight, Ask, ReqType, Reqs, NoReq
  <2> QED BY <1>2, <2>1, <2>2, Untouched DEF Preflight, Ask
<1>3. ASSUME NEW d \in Devs, Commit(d) PROVE TypeInv'
  <2>1. ReqType' /\ req[d].file \in Files
    BY <1>3 DEF Commit, ReqType, Reqs, NoReq
  <2>2. [state |-> "running", step |-> "backup", file |-> req[d].file,
         have |-> 0, sid |-> 0, miss |-> 0, result |-> None] \in HubRecords
    BY <2>1 DEF HubRecords, Results, LockType
  <2>3. JobType'
    BY <1>3, <2>2, SetJob, Untouched DEF Commit
  <2> QED BY <1>3, <2>1, <2>3, Untouched DEF Commit
<1>4. ASSUME NEW f \in Files, Remove(f) PROVE TypeInv'
  BY <1>4, SpendTypes, Untouched DEF Remove, Kinds, LibType
<1>5. ASSUME NEW d \in Devs, PutLost(d) PROVE TypeInv'
  <2>1. Putting(d) /\ job[d] \in HubRecords
    BY <1>5, Whole1 DEF PutLost, Putting, AtStep
  <2>2. LeftType'
    BY <1>5, SpendTypes DEF PutLost, Kinds
  <2> QED BY <1>5, <2>1, <2>2, PuttingTypes, Untouched DEF PutLost, jobOnly
<1>6. ASSUME NEW d \in Devs, SiteSteps(d) PROVE TypeInv'
  <2>1. SiteStep(d)
    BY <1>6, SiteShape
  <2>2. SjobType' /\ LockType'
    BY <2>1, SetSjob DEF SiteStep, LockType
  <2>3. DevType'
    <3>1. SiteAt(d, "send") => sjob[d].file \in Files
      BY Whole1 DEF SiteAt, SiteRecords
    <3>2. CASE dev' = [dev EXCEPT ![d].took = sjob[d].file] /\ SiteAt(d, "send")
      BY <3>1, <3>2, DevTypes DEF DevType
    <3>3. CASE dev' = [dev EXCEPT ![d].up = FALSE]
      BY <3>3, DevTypes DEF DevType
    <3> QED BY <2>1, <3>2, <3>3, Untouched DEF SiteStep, DevMove
  <2>4. LeftType'
    BY <1>6, SpendTypes, Untouched DEF SiteSteps, Open, Send, RestartDev, Wait, Check, Kinds
  <2> QED BY <2>1, <2>2, <2>3, <2>4, Untouched DEF SiteStep, hubVars
<1>7. ASSUME NEW d \in Devs, SelfRestart(d) \/ Boots(d) PROVE TypeInv'
  <2>1. LeftType'
    BY <1>7, SpendTypes, Untouched DEF SelfRestart, Boots, Kinds
  <2>2. DevType'
    <3>0. dev[d] \in DevStates
      BY DEF DevType
    <3>1. CASE dev' = [dev EXCEPT ![d].up = FALSE]
      BY <3>0, <3>1, DevTypes DEF DevType
    <3>2. CASE dev' = [dev EXCEPT ![d] = [runs |-> IF @.took = 0 THEN @.runs ELSE @.took, took |-> 0,
                                          up |-> TRUE, dead |-> FALSE]]
      BY <3>0, <3>2, DevTypes DEF DevType
    <3>3. CASE dev' = [dev EXCEPT ![d].up = TRUE, ![d].took = 0]
      BY <3>0, <3>3, DevTypes DEF DevType
    <3>4. CASE dev' = [dev EXCEPT ![d].dead = TRUE]
      BY <3>0, <3>4, DevTypes DEF DevType
    <3> QED BY <1>7, <3>1, <3>2, <3>3, <3>4 DEF SelfRestart, Boots
  <2> QED BY <1>7, <2>1, <2>2, Untouched DEF SelfRestart, Boots, hubVars
<1>8. ASSUME NEW s \in Sites, LinkTurns(s) PROVE TypeInv'
  BY <1>8, SpendTypes, Untouched DEF LinkTurns, Kinds, LibType, hubVars
<1>9. ASSUME NEW s \in Sites, SiteRestart(s) PROVE TypeInv'
  <2>1. SjobType' /\ LockType'
    BY <1>9 DEF SiteRestart, SjobType, LockType, SiteJobs
  <2> QED BY <1>9, <2>1, SpendTypes, Untouched DEF SiteRestart, Kinds, hubVars
<1>10. CASE UNCHANGED vars
  BY <1>10, Untouched DEF vars, hubVars
<1> QED
  BY <1>1, <1>2, <1>3, <1>4, <1>5, <1>6, <1>7, <1>8, <1>9, <1>10, HubTypes DEF Next

\* A hub job, a request, a site's job, its copies and the devices stay what they are meant to be:
\* no step of either program, of a device or of the link leaves a record half written.
THEOREM TypeCorrect == Spec => []TypeOK
<1>1. Spec => []TypeInv
  BY InitTypes, StepTypes, PTL DEF Spec
<1> QED BY <1>1, TypeInvTypes, PTL

(***************************************************************************)
(* One update at a time on a site. The hub looks at its jobs and adds one  *)
(* in one go (Commit); the site looks at its jobs and at its lock.         *)
(***************************************************************************)
Alone ==
    \A d, e \in Devs : SiteOf[d] = SiteOf[e] =>
        /\ job[d].state = "running" /\ job[e].state = "running" => d = e
        /\ sjob[d].state = "running" /\ sjob[e].state = "running" => d = e

LEMMA AtMostOne == ASSUME NEW S, \A d, e \in S : d = e PROVE Cardinality(S) <= 1
<1>1. CASE S = {}
  BY <1>1, FS_EmptySet
<1>2. CASE S # {}
  <2>0. PICK d \in S : TRUE
    BY <1>2
  <2>1. S = {d}
    BY <2>0
  <2>2. Cardinality({d}) = 1
    BY FS_Singleton
  <2> QED BY <2>1, <2>2
<1> QED BY <1>1, <1>2

LEMMA AloneAlone == Alone => OneAtATime
<1> SUFFICES ASSUME Alone, NEW s \in Sites
             PROVE  /\ Cardinality(RunningAt(s)) <= 1
                    /\ Cardinality({d \in Devs : SiteOf[d] = s /\ sjob[d].state = "running"}) <= 1
  BY DEF OneAtATime
<1>1. \A d, e \in RunningAt(s) : d = e
  BY DEF Alone, RunningAt
<1>2. \A d, e \in {x \in Devs : SiteOf[x] = s /\ sjob[x].state = "running"} : d = e
  BY DEF Alone
<1> QED BY <1>1, <1>2, AtMostOne

LEMMA StepAlone == TypeInv /\ Alone /\ [Next]_vars => Alone'
<1> SUFFICES ASSUME TypeInv, Alone, [Next]_vars PROVE Alone'
  OBVIOUS
<1> USE DEF TypeInv, JobType, SjobType
<1>1. ASSUME UNCHANGED sjob, \A d \in Devs : job'[d].state = "running" => job[d].state = "running"
      PROVE  Alone'
  BY <1>1 DEF Alone
<1>2. ASSUME UNCHANGED job, \A d \in Devs : sjob'[d].state = "running" => sjob[d].state = "running"
      PROVE  Alone'
  BY <1>2 DEF Alone
<1>3. CASE HubRestart
  BY <1>1, <1>3 DEF HubRestart, siteVars
<1>4. ASSUME NEW d \in Devs, Preflight(d) \/ PutLost(d) \/ SelfRestart(d) \/ Boots(d)
                             \/ \E f \in Files : Ask(d, f)
      PROVE  Alone'
  BY <1>1, <1>4 DEF Preflight, PutLost, SelfRestart, Boots, Ask, siteVars, hubVars, jobOnly
<1>5. ASSUME NEW d \in Devs, Commit(d) PROVE Alone'
  <2>1. CASE Busy(d)
    BY <1>1, <1>5, <2>1 DEF Commit, siteVars
  <2>2. CASE ~Busy(d)
    <3>1. \A e \in Devs : SiteOf[e] = SiteOf[d] => job[e].state # "running"
      BY <2>2 DEF Busy, RunningAt
    <3>2. UNCHANGED sjob /\ \A e \in Devs : e # d => job'[e] = job[e]
      BY <1>5, <2>2 DEF Commit, siteVars
    <3> QED BY <3>1, <3>2 DEF Alone
  <2> QED BY <2>1, <2>2
<1>6. ASSUME NEW d \in Devs, HubSteps(d) PROVE Alone'
  <2>1. HubStep(d)
    BY <1>6, HubShape
  <2>2. \A e \in Devs : job'[e].state = "running" => job[e].state = "running"
    BY <2>1 DEF HubStep, HubMove
  <2>3. CASE SiteStays
    BY <1>1, <2>2, <2>3 DEF SiteStays
  <2>4. CASE MayStart(d, job[d].file) /\ SiteStarts(d)
    <3>1. \A e \in Devs : SiteOf[e] = SiteOf[d] => sjob[e].state # "running"
      BY <2>4 DEF MayStart, SiteIdle
    <3>2. \A e \in Devs : e # d => sjob'[e] = sjob[e]
      BY <2>4 DEF SiteStarts
    <3> QED BY <2>2, <3>1, <3>2 DEF Alone
  <2> QED BY <2>1, <2>3, <2>4 DEF HubStep, SiteAsked
<1>7. ASSUME NEW d \in Devs, SiteSteps(d) PROVE Alone'
  <2>1. SiteStep(d)
    BY <1>7, SiteShape
  <2>2. \A e \in Devs : sjob'[e].state = "running" => sjob[e].state = "running"
    BY <2>1 DEF SiteStep
  <2> QED BY <1>2, <2>1, <2>2 DEF SiteStep, hubVars
<1>8. ASSUME NEW s \in Sites, LinkTurns(s) PROVE Alone'
  BY <1>1, <1>8 DEF LinkTurns, hubVars, siteVars
<1>9. ASSUME NEW s \in Sites, SiteRestart(s) PROVE Alone'
  BY <1>2, <1>9 DEF SiteRestart, hubVars, NoJob
<1>10. ASSUME NEW f \in Files, Remove(f) PROVE Alone'
  BY <1>1, <1>10 DEF Remove, siteVars
<1>11. CASE UNCHANGED vars
  BY <1>1, <1>11 DEF vars, hubVars, siteVars
<1> QED
  BY <1>3, <1>4, <1>5, <1>6, <1>7, <1>8, <1>9, <1>10, <1>11 DEF Next

\* At most one update runs on a site, in the hub's list and among the site's own jobs, whoever
\* asked for it, whatever answer was lost and whichever program started again in between.
THEOREM UpdatesAlone == Spec => []OneAtATime
<1>1. Init => Alone
  BY DEF Init, Alone, NoJob
<1>2. Spec => [](TypeInv /\ Alone)
  BY <1>1, InitTypes, StepTypes, StepAlone, PTL DEF Spec
<1> QED BY <1>2, AloneAlone, PTL

(***************************************************************************)
(* What a good verdict says. A device that answers after the restart has   *)
(* no file left to come up with (Settled), so the version it has then it   *)
(* still runs when the hub reads the verdict; and the job that is followed *)
(* by its number has this update's file (Followed).                        *)
(***************************************************************************)
Settled ==
    \A d \in Devs :
        /\ SiteAt(d, "wait") /\ dev[d].up => dev[d].took = 0
        /\ SiteAt(d, "check") => dev[d].up /\ dev[d].took = 0
        /\ sjob[d].state = "done" /\ sjob[d].result = "ok" =>
               dev[d].up /\ dev[d].took = 0 /\ Ver[dev[d].runs] = Ver[sjob[d].file]

Followed == \A d \in Devs : AtStep(d, "follow") /\ IsMine(d) => sjob[d].file = job[d].file

LEMMA StepSettled == TypeInv /\ Settled /\ [Next]_vars => Settled'
<1> SUFFICES ASSUME TypeInv, Settled, [Next]_vars PROVE Settled'
  OBVIOUS
<1> USE DEF TypeInv, SjobType, DevType, SiteAt
<1>1. ASSUME UNCHANGED <<sjob, dev>> PROVE Settled'
  BY <1>1 DEF Settled
<1>2. CASE HubRestart
  BY <1>1, <1>2 DEF HubRestart, siteVars
<1>3. ASSUME NEW d \in Devs, Preflight(d) \/ Commit(d) \/ PutLost(d) \/ \E f \in Files : Ask(d, f)
      PROVE  Settled'
  BY <1>1, <1>3 DEF Preflight, Commit, PutLost, Ask, siteVars, jobOnly
<1>4. ASSUME NEW d \in Devs, HubSteps(d) PROVE Settled'
  <2>1. HubStep(d)
    BY <1>4, HubShape
  <2>2. CASE SiteStays
    BY <1>1, <2>1, <2>2 DEF HubStep, HubMove, SiteStays
  <2>3. CASE SiteStarts(d)
    <3>1. UNCHANGED dev /\ sjob'[d].state = "running" /\ sjob'[d].step = "open"
          /\ \A e \in Devs : e # d => sjob'[e] = sjob[e]
      BY <2>1, <2>3 DEF HubStep, HubMove, SiteStarts
    <3> QED BY <3>1 DEF Settled
  <2> QED BY <2>1, <2>2, <2>3 DEF HubStep, SiteAsked
<1>5. ASSUME NEW d \in Devs, SiteSteps(d) PROVE Settled'
  <2>1. SiteStep(d)
    BY <1>5, SiteShape
  <2>2. \A e \in Devs : e # d => sjob'[e] = sjob[e] /\ dev'[e] = dev[e]
    BY <2>1 DEF SiteStep, DevMove
  <2>3. sjob'[d].state \in {"running", "done"}
    BY <2>1 DEF SiteStep, SiteRecords
  <2>4. CASE sjob'[d].state = "running"
    <3>1. sjob'[d].step = "check" => dev'[d].up /\ dev'[d].took = 0
      BY <2>1, <2>4 DEF SiteStep, DevMove, Settled
    <3>2. sjob'[d].step = "wait" => ~dev'[d].up
      BY <2>1, <2>4 DEF SiteStep
    <3> QED BY <2>2, <2>4, <3>1, <3>2 DEF Settled
  <2>5. CASE sjob'[d].state = "done"
    <3>1. sjob'[d].result = "ok" =>
              dev'[d].up /\ dev'[d].took = 0 /\ Ver[dev'[d].runs] = Ver[sjob'[d].file]
      BY <2>1, <2>5 DEF SiteStep, DevMove, Settled, Took
    <3> QED BY <2>2, <2>5, <3>1 DEF Settled
  <2> QED BY <2>3, <2>4, <2>5
<1>6. ASSUME NEW d \in Devs, SelfRestart(d) PROVE Settled'
  <2>1. UNCHANGED sjob /\ dev[d].took # 0 /\ dev[d].up
        /\ \A e \in Devs : e # d => dev'[e] = dev[e]
    BY <1>6 DEF SelfRestart, siteVars
  <2>2. ~dev'[d].up
    BY <1>6 DEF SelfRestart, DevStates
  <2> QED BY <2>1, <2>2 DEF Settled
<1>7. ASSUME NEW d \in Devs, Boots(d) PROVE Settled'
  <2>1. UNCHANGED sjob /\ ~dev[d].up /\ \A e \in Devs : e # d => dev'[e] = dev[e]
    BY <1>7 DEF Boots, siteVars
  <2>2. dev[d] \in DevStates
    OBVIOUS
  <2>3. dev'[d].up => dev'[d].took = 0
    BY <1>7, <2>1, <2>2 DEF Boots, DevStates
  <2> QED BY <2>1, <2>3 DEF Settled
<1>8. ASSUME NEW s \in Sites, LinkTurns(s) \/ SiteRestart(s) PROVE Settled'
  <2>1. UNCHANGED dev /\ \A e \in Devs : sjob'[e] = sjob[e] \/ sjob'[e] = NoJob
    BY <1>8 DEF LinkTurns, SiteRestart, siteVars
  <2> QED BY <2>1 DEF Settled, NoJob
<1>9. ASSUME NEW f \in Files, Remove(f) PROVE Settled'
  BY <1>1, <1>9 DEF Remove, siteVars
<1>10. CASE UNCHANGED vars
  BY <1>1, <1>10 DEF vars, siteVars
<1> QED BY <1>2, <1>3, <1>4, <1>5, <1>6, <1>7, <1>8, <1>9, <1>10 DEF Next

LEMMA StepFollowed == TypeInv /\ Followed /\ [Next]_vars => Followed'
<1> SUFFICES ASSUME TypeInv, Followed, [Next]_vars PROVE Followed'
  OBVIOUS
<1> USE DEF TypeInv, JobType, SjobType, AtStep, IsMine
<1>1. ASSUME UNCHANGED <<job, sjob>> PROVE Followed'
  BY <1>1 DEF Followed
<1>2. CASE HubRestart
  <2>1. \A d \in Devs : job'[d].state # "running"
    BY <1>2, Whole1 DEF HubRestart, HubRecords, NoJob
  <2> QED BY <2>1 DEF Followed
<1>3. ASSUME NEW d \in Devs, Preflight(d) \/ PutLost(d) \/ SelfRestart(d) \/ Boots(d)
                             \/ \E f \in Files : Ask(d, f)
      PROVE  Followed'
  BY <1>1, <1>3 DEF Preflight, PutLost, SelfRestart, Boots, Ask, siteVars, hubVars, jobOnly
<1>4. ASSUME NEW d \in Devs, Commit(d) PROVE Followed'
  <2>1. UNCHANGED sjob /\ \A e \in Devs : job'[e] = job[e] \/ job'[e].step = "backup"
    BY <1>4 DEF Commit, siteVars
  <2> QED BY <2>1 DEF Followed
<1>5. ASSUME NEW d \in Devs, HubSteps(d) PROVE Followed'
  <2>1. HubStep(d)
    BY <1>5, HubShape
  <2>2. \A e \in Devs : e # d => job'[e] = job[e] /\ sjob'[e] = sjob[e]
    BY <2>1 DEF HubStep, HubMove, SiteAsked, SiteStays, SiteStarts
  <2>3. CASE job[d].step = "follow" /\ job'[d].sid = job[d].sid /\ SiteStays
    BY <2>1, <2>2, <2>3 DEF HubStep, HubMove, SiteStays, Followed
  <2>4. CASE SiteStarts(d)
    <3>1. sjob'[d].file = job'[d].file
      BY <2>1, <2>4 DEF HubStep, HubMove, SiteStarts
    <3> QED BY <2>2, <3>1 DEF Followed
  <2>5. CASE ~(job'[d].state = "running" /\ job'[d].step = "follow")
    BY <2>2, <2>5 DEF Followed
  <2> QED BY <2>1, <2>3, <2>4, <2>5 DEF HubStep, SiteAsked
<1>6. ASSUME NEW d \in Devs, SiteSteps(d) PROVE Followed'
  <2>1. SiteStep(d)
    BY <1>6, SiteShape
  <2>2. UNCHANGED job /\ \A e \in Devs : sjob'[e].file = sjob[e].file /\ sjob'[e].id = sjob[e].id
                                         /\ (sjob'[e].state # "none" => sjob[e].state # "none")
    BY <2>1 DEF SiteStep, hubVars
  <2> QED BY <2>2 DEF Followed
<1>7. ASSUME NEW s \in Sites, LinkTurns(s) \/ SiteRestart(s) PROVE Followed'
  <2>1. UNCHANGED job /\ \A e \in Devs : sjob'[e] = sjob[e] \/ sjob'[e] = NoJob
    BY <1>7 DEF LinkTurns, SiteRestart, siteVars, hubVars
  <2> QED BY <2>1 DEF Followed, NoJob
<1>8. ASSUME NEW f \in Files, Remove(f) PROVE Followed'
  BY <1>1, <1>8 DEF Remove, siteVars
<1>9. CASE UNCHANGED vars
  BY <1>1, <1>9 DEF vars, hubVars, siteVars
<1> QED BY <1>2, <1>3, <1>4, <1>5, <1>6, <1>7, <1>8, <1>9 DEF Next

LEMMA StepVerdict ==
    TypeInv /\ Settled /\ Followed /\ [Next]_vars =>
        \A d \in Devs : job[d].state = "running" /\ job'[d].state = "done" /\ job'[d].result = "ok" =>
            dev[d].up /\ Ver[dev[d].runs] = Ver[job[d].file]
<1> SUFFICES ASSUME TypeInv, Settled, Followed, [Next]_vars, NEW d \in Devs,
                    job[d].state = "running", job'[d].state = "done", job'[d].result = "ok"
             PROVE  dev[d].up /\ Ver[dev[d].runs] = Ver[job[d].file]
  OBVIOUS
<1> USE DEF TypeInv, JobType
<1>1. CASE HubSteps(d)
  <2>1. FollowDone(d) /\ sjob[d].result = "ok"
    BY <1>1, HubShape DEF HubStep, VerdictRead
  <2> QED BY <2>1 DEF FollowDone, Settled, Followed
<1>2. CASE HubRestart
  <2>1. job'[d].result = "unknown"
    BY <1>2, Whole1, ZenonT(60) DEF HubRestart, HubRecords
  <2> QED BY <2>1
<1>3. ASSUME NEW e \in Devs, e # d, HubSteps(e) PROVE FALSE
  BY <1>3, HubShape DEF HubStep, HubMove
<1>4. ASSUME NEW e \in Devs, Commit(e) PROVE FALSE
  BY <1>4 DEF Commit
<1>5. ASSUME NEW e \in Devs, SiteSteps(e) PROVE FALSE
  BY <1>5, SiteShape DEF SiteStep, hubVars
<1> QED
  BY <1>1, <1>2, <1>3, <1>4, <1>5
  DEF Next, Preflight, PutLost, SelfRestart, Boots, Ask, Remove, LinkTurns, SiteRestart,
      hubVars, jobOnly, vars

\* When the hub says that an update went well, the device runs that update's version at this very
\* moment: not the verdict of an older job, and not a version it restarted away from since. The
\* build is not checked by the program, and the theorem does not speak of it.
THEOREM GoodVerdictTrue == Spec => VerdictTrue
<1>1. Init => Settled /\ Followed
  BY DEF Init, Settled, Followed, SiteAt, AtStep, NoJob
<1>2. Spec => [](TypeInv /\ Settled /\ Followed)
  BY <1>1, InitTypes, StepTypes, StepSettled, StepFollowed, PTL DEF Spec
<1> QED BY <1>2, StepVerdict, PTL DEF Spec, VerdictTrue

(***************************************************************************)
(* What a site keeps of the files.                                         *)
(***************************************************************************)
OneCopy ==
    \A s \in Sites : /\ \A f, g \in Files : copy[s][f].n > 0 /\ copy[s][g].n > 0 => f = g
                     /\ \A f \in Files : copy[s][f].done => copy[s][f].clean

LEMMA PutOne ==
    ASSUME CopyType, OneCopy, NEW s \in Sites, NEW f \in Files, NEW at \in 0..Pieces,
           NEW clean \in BOOLEAN, NEW after, after = Put(s, f, at, clean)
    PROVE  /\ \A g, h \in Files : after[g].n > 0 /\ after[h].n > 0 => g = h
           /\ \A g \in Files : after[g].done => after[g].clean
<1> DEFINE c == [n |-> at + 1, clean |-> copy[s][f].clean /\ clean, done |-> FALSE]
           put == IF c.n < Pieces THEN c ELSE IF Whole(c) THEN [c EXCEPT !.done = TRUE] ELSE NoCopy
           base == IF at = 0 /\ copy[s][f].n = 0 THEN DropOthers(s, f) ELSE copy[s]
<1>0. copy[s] \in [Files -> Copies] /\ DropOthers(s, f) \in [Files -> Copies]
  BY DEF CopyType, DropOthers, NoCopy, Copies
<1>1. CASE after = copy[s]
  BY <1>1 DEF OneCopy
<1>2. CASE after = [base EXCEPT ![f] = put] /\ at = copy[s][f].n
  <2>1. after[f] = put /\ \A g \in Files : g # f => after[g] = base[g]
    BY <1>0, <1>2
  <2>2. \A g \in Files : g # f => base[g].n = 0 /\ ~base[g].done
    <3> SUFFICES ASSUME NEW g \in Files, g # f PROVE base[g].n = 0 /\ ~base[g].done
      OBVIOUS
    <3>1. CASE at = 0
      BY <1>2, <3>1 DEF DropOthers, NoCopy
    <3>2. CASE at # 0
      <4>1. copy[s][g] \in Copies /\ copy[s][f].n > 0
        BY <1>0, <1>2, <3>2
      <4>2. copy[s][g].n = 0
        BY <4>1 DEF OneCopy, Copies
      <4> QED BY <3>2, <4>1, <4>2 DEF Copies
    <3> QED BY <3>1, <3>2
  <2>3. put.done => put.clean
    BY SMTT(30) DEF Whole, NoCopy
  <2> QED BY <2>1, <2>2, <2>3
<1> QED BY <1>1, <1>2 DEF Put

LEMMA StepCopy == TypeInv /\ OneCopy /\ [Next]_vars => OneCopy'
<1> SUFFICES ASSUME TypeInv, OneCopy, [Next]_vars PROVE OneCopy'
  OBVIOUS
<1> USE DEF TypeInv
<1>1. CASE UNCHANGED copy
  BY <1>1 DEF OneCopy
<1>2. ASSUME NEW d \in Devs, PutAnswered(d) \/ PutLost(d) PROVE OneCopy'
  <2>1. PICK clean \in BOOLEAN :
           copy' = [copy EXCEPT ![SiteOf[d]] = Put(SiteOf[d], job[d].file, job[d].have, clean)]
    BY <1>2 DEF PutAnswered, PutLost
  <2>2. job[d] \in HubRecords
    BY <1>2, Whole1 DEF PutAnswered, PutLost, AtStep
  <2>3. SiteOf[d] \in Sites /\ job[d].file \in Files /\ job[d].have \in 0..Pieces
    BY <2>2 DEF HubRecords
  <2>4. copy'[SiteOf[d]] = Put(SiteOf[d], job[d].file, job[d].have, clean)
        /\ \A s \in Sites : s # SiteOf[d] => copy'[s] = copy[s]
    BY <2>1, <2>3 DEF CopyType
  <2> DEFINE after == copy'[SiteOf[d]]
  <2> HIDE DEF after
  <2>5. /\ \A g, h \in Files : after[g].n > 0 /\ after[h].n > 0 => g = h
        /\ \A g \in Files : after[g].done => after[g].clean
    <3>1. after = Put(SiteOf[d], job[d].file, job[d].have, clean)
      BY <2>4 DEF after
    <3>2. CopyType /\ OneCopy
      OBVIOUS
    <3>3. CopyType /\ OneCopy /\ SiteOf[d] \in Sites /\ job[d].file \in Files /\ job[d].have \in 0..Pieces =>
             /\ \A g, h \in Files : after[g].n > 0 /\ after[h].n > 0 => g = h
             /\ \A g \in Files : after[g].done => after[g].clean
      BY ONLY <3>1, PutOne, clean \in BOOLEAN
    <3> QED BY <2>3, <3>2, <3>3
  <2> USE DEF after
  <2> QED BY <2>4, <2>5 DEF OneCopy
<1>3. ASSUME NEW d \in Devs, SiteSteps(d) PROVE UNCHANGED copy
  BY <1>3, SiteShape DEF SiteStep
<1> QED
  BY <1>1, <1>2, <1>3
  DEF Next, HubRestart, Preflight, Commit, HubSteps, Backup, StageAsk, PutFails, Post, FollowDone,
      FollowMiss, FollowOverdue, SelfRestart, Boots, Ask, Remove, LinkTurns, SiteRestart, siteVars, vars

\* A site keeps one file at a time, and a file it calls whole is the hub's file: pieces that were
\* damaged, sent again or of another update never make a file that a device is given.
THEOREM StagedWhole == Spec => []OneFileStaged
<1>1. Init => OneCopy
  BY DEF Init, OneCopy, NoCopy
<1>2. Spec => [](TypeInv /\ OneCopy)
  BY <1>1, InitTypes, StepTypes, StepCopy, PTL DEF Spec
<1>3. OneCopy => OneFileStaged
  <2> SUFFICES ASSUME OneCopy, NEW s \in Sites
               PROVE  Cardinality({f \in Files : copy[s][f].n > 0}) <= 1
    BY DEF OneFileStaged, OneCopy
  <2>1. \A f, g \in {x \in Files : copy[s][x].n > 0} : f = g
    BY DEF OneCopy
  <2> QED BY <2>1, AtMostOne
<1> QED BY <1>2, <1>3, PTL

(***************************************************************************)
(* No file without a backup: the backup is the first step of a job, and    *)
(* what is under way at a site came from a job that made it.               *)
(***************************************************************************)
Saved ==
    \A d \in Devs :
        /\ job[d].state = "running" /\ job[d].step # "backup" => d \in saved
        /\ sjob[d].state = "running" => d \in saved
        /\ dev[d].took # 0 \/ dev[d].runs # 0 => d \in saved

LEMMA StepSaved == TypeInv /\ Saved /\ [Next]_vars => Saved'
<1> SUFFICES ASSUME TypeInv, Saved, [Next]_vars PROVE Saved'
  OBVIOUS
<1> USE DEF TypeInv, JobType, SjobType, DevType
<1>1. ASSUME UNCHANGED <<saved, dev>>, \A d \in Devs : job'[d] = job[d] \/ job'[d].state # "running",
             \A d \in Devs : sjob'[d] = sjob[d] \/ sjob'[d].state # "running"
      PROVE  Saved'
  BY <1>1 DEF Saved
<1>2. CASE HubRestart
  <2>1. \A d \in Devs : job'[d] = job[d] \/ job'[d].state # "running"
    BY <1>2, Whole1 DEF HubRestart, HubRecords
  <2> QED BY <1>1, <1>2, <2>1 DEF HubRestart, siteVars
<1>3. ASSUME NEW d \in Devs, Preflight(d) \/ PutLost(d) \/ \E f \in Files : Ask(d, f) PROVE Saved'
  BY <1>1, <1>3 DEF Preflight, PutLost, Ask, siteVars, hubVars, jobOnly
<1>4. ASSUME NEW d \in Devs, Commit(d) PROVE Saved'
  <2>1. UNCHANGED <<saved, dev, sjob>> /\ \A e \in Devs : job'[e] = job[e] \/ job'[e].step = "backup"
    BY <1>4 DEF Commit, siteVars
  <2> QED BY <2>1 DEF Saved
<1>5. ASSUME NEW d \in Devs, HubSteps(d) PROVE Saved'
  <2>1. HubStep(d)
    BY <1>5, HubShape
  <2>2. \A e \in Devs : e # d => job'[e] = job[e] /\ sjob'[e] = sjob[e]
    BY <2>1 DEF HubStep, HubMove, SiteAsked, SiteStays, SiteStarts
  <2>3. UNCHANGED dev /\ saved \subseteq saved'
    BY <2>1 DEF HubStep, HubMove, BackupFirst
  <2>4. job'[d].state = "running" => job'[d].step # "backup" /\ d \in saved'
    BY <2>1, <2>3 DEF HubStep, HubMove, BackupFirst, Saved
  <2>5. sjob'[d].state = "running" => sjob[d].state = "running" \/ d \in saved
    BY <2>1 DEF HubStep, HubMove, SiteAsked, SiteStays, Saved
  <2> QED BY <2>2, <2>3, <2>4, <2>5 DEF Saved
<1>6. ASSUME NEW d \in Devs, SiteSteps(d) PROVE Saved'
  <2>1. SiteStep(d)
    BY <1>6, SiteShape
  <2>2. UNCHANGED <<job, saved>> /\ sjob[d].state = "running"
        /\ \A e \in Devs : e # d => sjob'[e] = sjob[e] /\ dev'[e] = dev[e]
    BY <2>1 DEF SiteStep, hubVars, DevMove
  <2> QED BY <2>2 DEF Saved
<1>7. ASSUME NEW d \in Devs, SelfRestart(d) \/ Boots(d) PROVE Saved'
  <2>1. UNCHANGED <<job, sjob, saved>> /\ \A e \in Devs : e # d => dev'[e] = dev[e]
    BY <1>7 DEF SelfRestart, Boots, hubVars, siteVars
  <2>2. dev[d] \in DevStates
    OBVIOUS
  <2>3. dev'[d].took # 0 \/ dev'[d].runs # 0 => dev[d].took # 0 \/ dev[d].runs # 0
    BY <1>7, <2>2 DEF SelfRestart, Boots, DevStates
  <2> QED BY <2>1, <2>3 DEF Saved
<1>8. ASSUME NEW s \in Sites, LinkTurns(s) \/ SiteRestart(s) PROVE Saved'
  <2>1. UNCHANGED <<job, dev, saved>> /\ \A e \in Devs : sjob'[e] = sjob[e] \/ sjob'[e] = NoJob
    BY <1>8 DEF LinkTurns, SiteRestart, siteVars, hubVars
  <2> QED BY <1>1, <2>1 DEF NoJob
<1>9. ASSUME NEW f \in Files, Remove(f) PROVE Saved'
  BY <1>1, <1>9 DEF Remove, siteVars
<1>10. CASE UNCHANGED vars
  BY <1>1, <1>10 DEF vars, hubVars, siteVars
<1> QED BY <1>2, <1>3, <1>4, <1>5, <1>6, <1>7, <1>8, <1>9, <1>10 DEF Next

\* A device has a new version, or a file it will come up with, only when the hub holds a backup of
\* its configuration: also when the hub forgot the job, or the site runs one the hub gave up.
THEOREM NoFileWithoutBackup == Spec => []BackedUp
<1>1. Init => Saved
  BY DEF Init, Saved, NoJob
<1>2. Spec => [](TypeInv /\ Saved)
  BY <1>1, InitTypes, StepTypes, StepSaved, PTL DEF Spec
<1>3. Saved => BackedUp
  BY DEF Saved, BackedUp
<1> QED BY <1>2, <1>3, PTL

(***************************************************************************)
(* A proven file is one whose version some device came to run. That device *)
(* never goes back below it: what it is about to come up with, and what is *)
(* on its way to it, is no older.                                          *)
(***************************************************************************)
Beyond(d, f) ==
    /\ Ver[dev[d].runs] >= Ver[f] /\ (dev[d].took # 0 => Ver[dev[d].took] >= Ver[f])
    /\ sjob[d].state = "running" => Ver[sjob[d].file] >= Ver[f]

Shown == \A f \in proven : \E d \in Devs : Beyond(d, f)

LEMMA Versions == \A v \in Files \cup {0} : v \in Nat /\ Ver[v] \in Nat
BY VersionsAssumption

LEMMA StaysBeyond ==
    ASSUME TypeInv, [Next]_vars, NEW d \in Devs, NEW f \in Files, Beyond(d, f)
    PROVE  Beyond(d, f)'
<1> USE DEF TypeInv, SjobType, DevType
<1>0. dev[d] \in DevStates /\ f \in Nat /\ Ver[f] \in Nat
  BY Versions
<1>1. ASSUME dev'[d] = dev[d], sjob'[d] = sjob[d] \/ sjob'[d].state # "running" PROVE Beyond(d, f)'
  BY <1>1 DEF Beyond
<1>2. CASE HubRestart
  BY <1>1, <1>2 DEF HubRestart, siteVars
<1>3. ASSUME NEW e \in Devs, Preflight(e) \/ Commit(e) \/ PutLost(e) \/ \E g \in Files : Ask(e, g)
      PROVE  Beyond(d, f)'
  BY <1>1, <1>3 DEF Preflight, Commit, PutLost, Ask, siteVars, jobOnly
<1>4. ASSUME NEW e \in Devs, HubSteps(e) PROVE Beyond(d, f)'
  <2>1. HubStep(e) /\ UNCHANGED dev
    BY <1>4, HubShape DEF HubStep, HubMove
  <2>2. CASE sjob'[d] = sjob[d]
    BY <1>1, <2>1, <2>2
  <2>3. CASE sjob'[d] # sjob[d]
    <3>1. e = d /\ MayStart(d, job[d].file) /\ SiteStarts(d)
      BY <2>1, <2>3 DEF HubStep, SiteAsked, SiteStays, SiteStarts
    <3>2. job[d].file \in Files
      BY <2>1, <3>1, Whole1 DEF HubStep, HubMove, HubRecords
    <3>3. sjob'[d].file = job[d].file /\ dev[d].runs < job[d].file
      BY <3>1 DEF MayStart, Passes, SiteStarts
    <3>0. dev[d].runs \in Files \cup {0}
      BY <1>0 DEF DevStates
    <3>4. dev[d].runs \in Nat /\ job[d].file \in Nat
      BY <3>0, <3>2, Versions
    <3>6. Ver[dev[d].runs] >= Ver[f] /\ Ver[dev[d].runs] <= Ver[job[d].file]
      BY <3>0, <3>2, <3>3, <3>4, VersionsAssumption DEF Beyond
    <3>7. Ver[dev[d].runs] \in Nat /\ Ver[job[d].file] \in Nat
      BY <3>0, <3>2, Versions
    <3>5. Ver[job[d].file] >= Ver[f]
      BY <1>0, <3>6, <3>7
    <3> QED BY <2>1, <3>3, <3>5 DEF Beyond
  <2> QED BY <2>2, <2>3
<1>5. ASSUME NEW e \in Devs, SiteSteps(e) PROVE Beyond(d, f)'
  <2>1. SiteStep(e)
    BY <1>5, SiteShape
  <2>2. CASE e = d
    <3>1. dev'[d].runs = dev[d].runs /\ dev'[d].took \in {dev[d].took, sjob[d].file}
      BY <1>0, <2>1, <2>2 DEF SiteStep, DevMove, DevStates
    <3> QED BY <2>1, <2>2, <3>1 DEF SiteStep, Beyond
  <2>3. CASE e # d
    BY <1>1, <2>1, <2>3 DEF SiteStep, DevMove
  <2> QED BY <2>2, <2>3
<1>6. ASSUME NEW e \in Devs, SelfRestart(e) \/ Boots(e) PROVE Beyond(d, f)'
  <2>1. UNCHANGED sjob
    BY <1>6 DEF SelfRestart, Boots, siteVars
  <2>2. CASE dev'[d] = dev[d]
    BY <1>1, <2>1, <2>2
  <2>3. CASE dev'[d] # dev[d]
    <3>1. dev'[d].runs \in {dev[d].runs, dev[d].took} /\ dev'[d].took \in {dev[d].took, 0}
          /\ (dev'[d].runs = dev[d].took => dev[d].took # 0 \/ dev[d].runs = 0)
      BY <1>0, <1>6, <2>3 DEF SelfRestart, Boots, DevStates
    <3> QED BY <1>0, <2>1, <3>1 DEF Beyond, DevStates
  <2> QED BY <2>2, <2>3
<1>7. ASSUME NEW s \in Sites, LinkTurns(s) \/ SiteRestart(s) PROVE Beyond(d, f)'
  BY <1>1, <1>7 DEF LinkTurns, SiteRestart, siteVars, NoJob
<1>8. ASSUME NEW g \in Files, Remove(g) PROVE Beyond(d, f)'
  BY <1>1, <1>8 DEF Remove, siteVars
<1>9. CASE UNCHANGED vars
  BY <1>1, <1>9 DEF vars, siteVars
<1> QED BY <1>2, <1>3, <1>4, <1>5, <1>6, <1>7, <1>8, <1>9 DEF Next

LEMMA StepShown == TypeInv /\ Settled /\ Followed /\ Shown /\ [Next]_vars => Shown'
<1> SUFFICES ASSUME TypeInv, Settled, Followed, Shown, [Next]_vars, NEW f \in proven'
             PROVE  \E d \in Devs : Beyond(d, f)'
  BY DEF Shown
<1>1. CASE f \in proven
  BY <1>1, StaysBeyond DEF Shown, TypeInv, LibType
<1>2. CASE f \notin proven
  <2>1. PICK d \in Devs : HubSteps(d)
    BY <1>2, SiteShape
    DEF Next, HubRestart, Preflight, Commit, PutLost, SiteStep, SelfRestart, Boots, Ask, Remove,
        LinkTurns, SiteRestart, hubVars, jobOnly, vars
  <2>2. HubStep(d)
    BY <2>1, HubShape
  <2>3. f = job[d].file /\ FollowDone(d) /\ sjob[d].result = "ok" /\ UNCHANGED dev
    BY <1>2, <2>2 DEF HubStep, HubMove, VerdictRead
  <2>4. dev[d].took = 0 /\ Ver[dev[d].runs] = Ver[f] /\ sjob[d].state = "done" /\ UNCHANGED sjob
    BY <2>3 DEF FollowDone, Settled, Followed, siteVars
  <2>5. f \in Files /\ Ver[f] \in Nat
    BY <2>2, <2>3, Whole1, Versions DEF HubStep, HubMove, HubRecords, TypeInv
  <2> QED BY <2>3, <2>4, <2>5, SMTT(30) DEF Beyond
<1> QED BY <1>1, <1>2

\* A file the hub offers to every device as tried is one whose version a device really came to
\* run, and that device still runs that version or a newer one.
THEOREM ProvenFilesRan == Spec => []ProvenRan
<1>1. Init => Settled /\ Followed /\ Shown
  BY DEF Init, Settled, Followed, Shown, SiteAt, AtStep, NoJob
<1>2. Spec => [](TypeInv /\ Settled /\ Followed /\ Shown)
  BY <1>1, InitTypes, StepTypes, StepSettled, StepFollowed, StepShown, PTL DEF Spec
<1>3. Shown => ProvenRan
  BY DEF Shown, ProvenRan, Beyond
<1> QED BY <1>2, <1>3, PTL
=============================================================================
