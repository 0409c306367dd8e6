--------------------------- MODULE WifiFix_proofs ---------------------------
(***************************************************************************)
(* Proofs about WifiFix, for any settings, values, number of peers, kinds  *)
(* of radio and bounds.                                                    *)
(***************************************************************************)
EXTENDS WifiFix, TLAPS

USE PeersAssumption, ValsAssumption, FixAssumption, BudgetAssumption

(***************************************************************************)
(* Types, group by group.                                                  *)
(***************************************************************************)
FileType == file \in Configs /\ flash \in Configs /\ live \in Configs /\ bak \in Configs \cup {None}
LogType  == log \in {"none", "going"} \cup Final
LinkType == up \in 0..Peers /\ relinked \in BOOLEAN
LeftType == radio \in RadioKinds /\ left \in [Kinds -> Nat]

TypeInv ==
    FileType /\ LogType /\ LinkType /\ LeftType /\ PlanType /\ ScriptType /\ JobType /\ HistType

LEMMA TypeInvTypes == TypeInv => TypeOK
BY DEF TypeInv, TypeOK, FileType, LogType, LinkType, LeftType

LEMMA SpendTypes ==
    ASSUME LeftType, NEW kind \in Kinds, Spend(kind), UNCHANGED radio PROVE LeftType'
BY DEF LeftType, Spend

LEMMA Untouched ==
    /\ FileType /\ UNCHANGED <<file, flash, live, bak>> => FileType'
    /\ LogType /\ UNCHANGED log => LogType'
    /\ LinkType /\ UNCHANGED <<up, relinked>> => LinkType'
    /\ LeftType /\ UNCHANGED <<radio, left>> => LeftType'
    /\ PlanType /\ UNCHANGED <<plans, previews>> => PlanType'
    /\ ScriptType /\ UNCHANGED scripts => ScriptType'
    /\ JobType /\ UNCHANGED job => JobType'
    /\ HistType /\ UNCHANGED histVars => HistType'
BY DEF FileType, LogType, LinkType, LeftType, PlanType, ScriptType, JobType, HistType, histVars

LEMMA InitTypes == Init => TypeInv
<1> SUFFICES ASSUME Init PROVE TypeInv
  OBVIOUS
<1>1. FileType
  BY DEF Init, FileType, Configs
<1>2. LogType /\ LinkType
  <2>1. up = Peers /\ relinked = FALSE /\ log = "none"
    BY DEF Init
  <2>2. Peers \in 0..Peers
    OBVIOUS
  <2> QED BY <2>1, <2>2 DEF LogType, LinkType
<1>4. LeftType /\ PlanType
  BY DEF Init, LeftType, PlanType
<1>5. HistType
  BY DEF Init, HistType
<1>3. ScriptType /\ JobType
  BY DEF Init, ScriptType, JobType
<1> QED BY <1>1, <1>2, <1>3, <1>4, <1>5 DEF TypeInv

\* A script that was started, and a job, are whole records; a planned change fits the settings.
LEMMA Whole ==
    /\ ScriptType => \A s \in Slots : scripts[s].step # "none" => scripts[s] \in Scripts
    /\ JobType => (job.step # "none" => job \in Jobs)
    /\ \A p \in Plan : p.key \in Keys /\ p.new \in Vals /\ p.min \in 1..Peers /\ p.fix \in Fixes
BY DEF ScriptType, JobType, NoScript, NoJob, Plan

LEMMA ScriptMoves ==
    ASSUME NEW x \in Scripts
    PROVE  /\ \A st \in {"edit", "apply", "wait", "hold", "verify", "save", "undo", "back", "end"} :
                 [x EXCEPT !.step = st] \in Scripts
           /\ \A l \in Final : [x EXCEPT !.step = "end", !.line = l] \in Scripts
           /\ [x EXCEPT !.dropped = TRUE] \in Scripts
<1>1. \A st \in {"edit", "apply", "wait", "hold", "verify", "save", "undo", "back", "end"} :
          [x EXCEPT !.step = st] \in Scripts
  BY DEF Scripts
<1>2. \A l \in Final : [x EXCEPT !.step = "end", !.line = l] \in Scripts
  BY DEF Scripts
<1>3. [x EXCEPT !.dropped = TRUE] \in Scripts
  BY DEF Scripts
<1> QED BY <1>1, <1>2, <1>3

\* What a change of one script leaves of it.
LEMMA ScriptKeeps ==
    ASSUME NEW x \in Scripts
    PROVE  /\ \A st : LET y == [x EXCEPT !.step = st] IN
                  y.step = st /\ y.plan = x.plan /\ y.line = x.line /\ y.dropped = x.dropped
                  /\ y.sneaked = x.sneaked
           /\ \A l : LET y == [x EXCEPT !.step = "end", !.line = l] IN y.step = "end" /\ y.line = l
           /\ LET y == [x EXCEPT !.dropped = TRUE] IN
                  y.step = x.step /\ y.plan = x.plan /\ y.line = x.line /\ y.dropped /\ y.sneaked = x.sneaked
BY DEF Scripts

LEMMA SetScript ==
    ASSUME ScriptType, NEW s \in Slots, NEW x \in Scripts, scripts' = [scripts EXCEPT ![s] = x]
    PROVE  ScriptType'
BY DEF ScriptType

\* What Goto and Say do to the scripts.
LEMMA GotoShape ==
    ASSUME ScriptType, NEW s \in Slots, scripts[s] \in Scripts,
           NEW st \in {"edit", "apply", "wait", "hold", "verify", "save", "undo", "back"}, Goto(s, st)
    PROVE  /\ ScriptType' /\ scripts' = [scripts EXCEPT ![s] = scripts'[s]]
           /\ scripts'[s] = [scripts[s] EXCEPT !.step = st]
<1>1. scripts'[s] = [scripts[s] EXCEPT !.step = st] /\ scripts' = [scripts EXCEPT ![s] = scripts'[s]]
  BY DEF Goto, ScriptType
<1>2. [scripts[s] EXCEPT !.step = st] \in Scripts
  BY ScriptMoves
<1>3. scripts'[s] \in Scripts
  BY <1>1, <1>2
<1> QED BY <1>1, <1>3, SetScript

LEMMA SayShape ==
    ASSUME ScriptType, NEW s \in Slots, scripts[s] \in Scripts, NEW l \in Final, Say(s, l)
    PROVE  /\ ScriptType' /\ LogType' /\ scripts' = [scripts EXCEPT ![s] = scripts'[s]]
           /\ scripts'[s] = [scripts[s] EXCEPT !.step = "end", !.line = l] /\ log' = l
<1>1. scripts'[s] = [scripts[s] EXCEPT !.step = "end", !.line = l]
      /\ scripts' = [scripts EXCEPT ![s] = scripts'[s]]
  BY DEF Say, ScriptType
<1>2. [scripts[s] EXCEPT !.step = "end", !.line = l] \in Scripts
  BY ScriptMoves
<1>3. scripts'[s] \in Scripts
  BY <1>1, <1>2
<1> QED BY <1>1, <1>3, SetScript DEF Say, LogType

\* A soft restart leaves a complete setting live.
LEMMA SoftTypes ==
    ASSUME FileType, LinkType, LeftType, NEW c \in Configs, SoftRestart(c), UNCHANGED <<file, flash, bak>>
    PROVE  FileType' /\ LinkType'
<1>1. radio.reach \in 0..Peers /\ Reach(c) \in 0..Peers
  BY DEF LeftType, Radios, Reach
<1>2. up \in 0..Peers /\ AtMost(Reach(c)) \in 0..Peers
  BY <1>1 DEF LinkType, AtMost
<1>3. CASE radio.applies
  <2>1. up' \in {0, AtMost(Reach(c))}
    BY <1>3 DEF SoftRestart
  <2>2. relinked' = TRUE \/ relinked' = (up' < up)
    BY <1>3 DEF SoftRestart
  <2>3. relinked' \in BOOLEAN
    <3>1. CASE relinked' = TRUE
      BY <3>1
    <3>2. CASE relinked' = (up' < up)
      BY <3>2, SMT
    <3> QED BY <2>2, <3>1, <3>2
  <2> QED BY <1>2, <1>3, <2>1, <2>3 DEF SoftRestart, FileType, LinkType
<1> QED BY <1>3 DEF SoftRestart, FileType, LinkType

(***************************************************************************)
(* What one step of script s does to the scripts: on to another step (A),  *)
(* or its last word.                                                       *)
(***************************************************************************)
Moves(s) ==
    /\ Busy(s) /\ scripts[s] \in Scripts /\ scripts'[s] \in Scripts
    /\ scripts' = [scripts EXCEPT ![s] = scripts'[s]]
    /\ scripts'[s].plan = scripts[s].plan /\ scripts'[s].sneaked = scripts[s].sneaked
    /\ \/ scripts'[s].line = scripts[s].line /\ log' \in {log, "going"} /\ scripts'[s].step # "none"
       \/ scripts'[s].step = "end" /\ scripts'[s].line \in Final /\ log' = scripts'[s].line
    /\ UNCHANGED <<hubVars, radio>>

Steps == {"edit", "apply", "wait", "hold", "verify", "save", "undo", "back"}

LEMMA GotoMoves ==
    ASSUME ScriptType, NEW s \in Slots, Busy(s), NEW st \in Steps, Goto(s, st), log' \in {log, "going"},
           UNCHANGED <<hubVars, radio>>
    PROVE  Moves(s) /\ scripts'[s] = [scripts[s] EXCEPT !.step = st] /\ scripts'[s].step = st
           /\ scripts'[s].dropped = scripts[s].dropped
<1>1. scripts[s] \in Scripts
  BY Whole DEF Busy
<1>2. scripts' = [scripts EXCEPT ![s] = scripts'[s]] /\ scripts'[s] = [scripts[s] EXCEPT !.step = st]
      /\ ScriptType'
  BY <1>1, GotoShape DEF Steps
<1>3. /\ scripts'[s].step = st /\ scripts'[s].plan = scripts[s].plan
      /\ scripts'[s].line = scripts[s].line /\ scripts'[s].sneaked = scripts[s].sneaked
      /\ scripts'[s].dropped = scripts[s].dropped
  BY <1>1, <1>2, ScriptKeeps
<1>5. [scripts[s] EXCEPT !.step = st] \in Scripts
  BY <1>1, ScriptMoves DEF Steps
<1>4. scripts'[s] \in Scripts
  BY <1>2, <1>5
<1> QED BY <1>1, <1>2, <1>3, <1>4 DEF Moves, Steps

LEMMA SayMoves ==
    ASSUME ScriptType, NEW s \in Slots, Busy(s), NEW l \in Final, Say(s, l), UNCHANGED <<hubVars, radio>>
    PROVE  Moves(s) /\ scripts'[s].step = "end" /\ log' = l /\ scripts'[s].line = l
<1>1. scripts[s] \in Scripts
  BY Whole DEF Busy
<1>2. scripts' = [scripts EXCEPT ![s] = scripts'[s]]
      /\ scripts'[s] = [scripts[s] EXCEPT !.step = "end", !.line = l] /\ log' = l
  BY <1>1, SayShape
<1>3. /\ scripts'[s].step = "end" /\ scripts'[s].plan = scripts[s].plan
      /\ scripts'[s].line = l /\ scripts'[s].sneaked = scripts[s].sneaked
  BY <1>1, <1>2 DEF Scripts
<1>5. [scripts[s] EXCEPT !.step = "end", !.line = l] \in Scripts
  BY <1>1, ScriptMoves
<1>4. scripts'[s] \in Scripts
  BY <1>2, <1>5
<1> QED BY <1>1, <1>2, <1>3, <1>4 DEF Moves

\* The wait that sees too few peers stays where it is, and remembers it.
LEMMA DropMoves ==
    ASSUME ScriptType, NEW s \in Slots, Busy(s), scripts' = [scripts EXCEPT ![s].dropped = TRUE],
           log' = "going", UNCHANGED <<hubVars, radio>>
    PROVE  Moves(s) /\ scripts'[s].step = scripts[s].step /\ scripts'[s].dropped
<1>1. scripts[s] \in Scripts
  BY Whole DEF Busy
<1>2. scripts' = [scripts EXCEPT ![s] = scripts'[s]] /\ scripts'[s] = [scripts[s] EXCEPT !.dropped = TRUE]
  BY DEF ScriptType
<1>3. /\ scripts'[s].step = scripts[s].step /\ scripts'[s].plan = scripts[s].plan
      /\ scripts'[s].line = scripts[s].line /\ scripts'[s].sneaked = scripts[s].sneaked
      /\ scripts'[s].dropped
  BY <1>1, <1>2 DEF Scripts
<1>4. scripts'[s] \in Scripts
  BY <1>1, <1>2, ScriptMoves
<1> QED BY <1>1, <1>2, <1>3, <1>4 DEF Moves, Busy

LEMMA ScriptShape ==
    ASSUME ScriptType, NEW s \in Slots, Script(s)
    PROVE  Moves(s)
<1> USE DEF At, Busy, hubVars
<1>1. CASE Backup(s)
  BY <1>1, GotoMoves, SayMoves DEF Backup, Steps, Final
<1>2. CASE Edit(s)
  BY <1>2, GotoMoves DEF Edit, Steps
<1>3. CASE TestRestart(s)
  BY <1>3, GotoMoves DEF TestRestart, Steps
<1>4. CASE Wait(s)
  <2>1. CASE Goto(s, "hold")
    BY <1>4, <2>1, GotoMoves DEF Wait, Steps
  <2>2. CASE scripts' = [scripts EXCEPT ![s].dropped = TRUE]
    BY <1>4, <2>2, DropMoves DEF Wait
  <2> QED BY <1>4, <2>1, <2>2 DEF Wait
<1>5. CASE GiveUp(s)
  BY <1>5, GotoMoves DEF GiveUp, Steps
<1>6. CASE Hold(s)
  BY <1>6, GotoMoves DEF Hold, Steps
<1>7. CASE Verify(s)
  <2>1. Goto(s, "save") \/ Goto(s, "undo")
    BY <1>7 DEF Verify
  <2> QED BY <1>7, <2>1, GotoMoves DEF Verify, Steps
<1>8. CASE Save(s)
  BY <1>8, SayMoves DEF Save, Final
<1>9. CASE Undo(s)
  BY <1>9, GotoMoves DEF Undo, Steps
<1>10. CASE Back(s)
  BY <1>10, SayMoves DEF Back, Final
<1> QED BY <1>1, <1>2, <1>3, <1>4, <1>5, <1>6, <1>7, <1>8, <1>9, <1>10 DEF Script

(***************************************************************************)
(* Every step keeps the types. Past its first step a script has a backup   *)
(* to put back: only a reboot takes it away, and every script with it.     *)
(***************************************************************************)
HasBackup == \A s \in Slots : scripts[s].step \in Steps => bak \in Configs

SetConfig == \A c \in Configs : \A k \in Keys : \A v \in Vals : [c EXCEPT ![k] = v] \in Configs

LEMMA ConfigSet == SetConfig
BY DEF SetConfig, Configs

LEMMA ScriptTypes ==
    ASSUME TypeInv, HasBackup, NEW s \in Slots, Script(s)
    PROVE  TypeInv' /\ HasBackup'
<1> USE DEF TypeInv
<1>1. Moves(s)
  BY ScriptShape
<1>2. ScriptType' /\ PlanType' /\ JobType'
  BY <1>1, SetScript, Untouched DEF Moves, hubVars
<1>3. LogType'
  BY <1>1 DEF Moves, LogType
<1>4. LeftType'
  BY <1>1, SpendTypes, Untouched
  DEF Script, Backup, Edit, TestRestart, Wait, GiveUp, Hold, Verify, Save, Undo, Back, Moves, Kinds
<1>5. scripts[s].plan \in Plan /\ scripts[s].plan.key \in Keys /\ scripts[s].plan.new \in Vals
      /\ scripts[s].plan.min \in 1..Peers /\ scripts[s].plan.fix \in Fixes
  BY <1>1, Whole DEF Moves, Scripts
<1>6. \A t \in Slots : t # s => scripts'[t] = scripts[t]
  BY <1>1 DEF Moves, ScriptType
<1>7. FileType' /\ HasBackup'
  <2>1. CASE Backup(s)
    <3>1. CASE bak' = file /\ UNCHANGED <<file, flash, live>>
      BY <3>1 DEF FileType, HasBackup
    <3>2. CASE Say(s, "fail") /\ UNCHANGED <<file, flash, live, bak>>
      <4>1. scripts'[s].step = "end"
        BY <1>1, <2>1, <3>2, SayMoves DEF Backup, Moves, Final, hubVars
      <4> QED BY <1>6, <3>2, <4>1, Untouched DEF HasBackup, Steps
    <3> QED BY <2>1, <3>1, <3>2 DEF Backup
  <2>2. CASE Edit(s)
    <3>1. file' \in Configs
      BY <1>5, <2>2, ConfigSet DEF Edit, FileType, SetConfig
    <3> QED BY <1>6, <2>2, <3>1 DEF Edit, At, FileType, HasBackup, Steps
  <2>3. CASE TestRestart(s)
    BY <1>6, <2>3, SoftTypes DEF TestRestart, At, FileType, HasBackup, Steps
  <2>4. CASE Wait(s) \/ GiveUp(s) \/ Hold(s) \/ Verify(s)
    <3>1. UNCHANGED <<file, flash, live, bak>> /\ scripts[s].step \in Steps
      BY <2>4 DEF Wait, GiveUp, Hold, Verify, At, Steps
    <3> QED BY <1>6, <3>1, Untouched DEF HasBackup
  <2>5. CASE Save(s)
    <3>1. UNCHANGED <<file, live, bak>> /\ flash' \in {file, flash} /\ scripts[s].step \in Steps
      BY <2>5 DEF Save, At, Steps
    <3> QED BY <1>6, <3>1 DEF HasBackup, FileType
  <2>6. CASE Undo(s)
    <3>1. UNCHANGED <<flash, live, bak>> /\ file' = bak /\ scripts[s].step \in Steps
      BY <2>6 DEF Undo, PutBack, At, Steps
    <3> QED BY <1>6, <3>1 DEF HasBackup, FileType
  <2>7. CASE Back(s)
    <3>1. UNCHANGED <<file, flash, bak>> /\ SoftRestart(file) /\ scripts[s].step \in Steps
      BY <2>7 DEF Back, At, Steps
    <3> QED BY <1>6, <3>1, SoftTypes DEF HasBackup, FileType
  <2> QED BY <2>1, <2>2, <2>3, <2>4, <2>5, <2>6, <2>7 DEF Script
<1>8. LinkType'
  <2>1. CASE TestRestart(s) \/ Back(s)
    BY <2>1, SoftTypes DEF TestRestart, Back, FileType
  <2>2. CASE UNCHANGED <<up, relinked>>
    BY <2>2, Untouched
  <2> QED BY <2>1, <2>2 DEF Script, Backup, Edit, Wait, GiveUp, Hold, Verify, Save, Undo
<1>9. HistType'
  <2>1. CASE Save(s)
    <3>1. (live[scripts[s].plan.key] = scripts[s].plan.new) \in BOOLEAN
      BY SMT
    <3>2. kept' \in [key : Keys, fix : Fixes, min : 1..Peers, wasLive : BOOLEAN, faded : BOOLEAN,
                           misread : BOOLEAN]
      BY <1>5, <2>1, <3>1 DEF Save, HistType
    <3> QED BY <2>1, <3>2 DEF Save, HistType
  <2>2. CASE TestRestart(s)
    <3>1. faded' = (up < scripts[s].plan.min) /\ UNCHANGED <<sneaked, misread, kept>>
      BY <2>2 DEF TestRestart
    <3>2. faded' \in BOOLEAN
      BY <3>1, SMT
    <3> QED BY <3>1, <3>2 DEF HistType
  <2>3. CASE UNCHANGED <<faded, misread, kept>> /\ sneaked' \in {sneaked, TRUE}
    BY <2>3 DEF HistType
  <2>4. CASE Verify(s)
    <3>1. PICK tells \in BOOLEAN : misread' = (tells # OnAir(s))
      BY <2>4 DEF Verify
    <3>2. misread' \in BOOLEAN
      BY <3>1, Zenon
    <3> QED BY <2>4, <3>2 DEF Verify, HistType
  <2> QED BY <2>1, <2>2, <2>3, <2>4 DEF Script, Backup, Edit, Wait, GiveUp, Hold, Undo, Back, histVars
<1> QED BY <1>2, <1>3, <1>4, <1>7, <1>8, <1>9

(***************************************************************************)
(* The job, the requests, the radio and whatever starts again.             *)
(***************************************************************************)
LEMMA JobMoves ==
    ASSUME NEW j \in Jobs
    PROVE  /\ \A v \in {"refused", "applied", "check", "reverted", "not_saved", "failed", "unknown"} :
                 [j EXCEPT !.step = "done", !.verdict = v] \in Jobs
           /\ [j EXCEPT !.step = "start"] \in Jobs
           /\ \A s \in Slots : [j EXCEPT !.step = "follow", !.script = s] \in Jobs
           /\ \A l \in {"none", "going"} \cup Final : [j EXCEPT !.step = "readback", !.seen = l] \in Jobs
                                                      /\ [j EXCEPT !.seen = l] \in Jobs
<1>1. \A v \in {"refused", "applied", "check", "reverted", "not_saved", "failed", "unknown"} :
          [j EXCEPT !.step = "done", !.verdict = v] \in Jobs
  BY DEF Jobs
<1>2. [j EXCEPT !.step = "start"] \in Jobs
  BY DEF Jobs, Running
<1>3. \A s \in Slots : [j EXCEPT !.step = "follow", !.script = s] \in Jobs
  BY DEF Jobs, Running
<1>4. \A l \in {"none", "going"} \cup Final : [j EXCEPT !.step = "readback", !.seen = l] \in Jobs
                                              /\ [j EXCEPT !.seen = l] \in Jobs
  BY DEF Jobs, Running
<1> QED BY <1>1, <1>2, <1>3, <1>4

LEMMA Verdicts ==
    \A l : VerdictOf(l) \in {"reverted", "not_saved", "failed", "unknown"}
BY DEF VerdictOf

LEMMA StartedTypes ==
    ASSUME ScriptType, sneaked \in BOOLEAN, NEW s \in Slots, NEW p \in Plan, scripts' = Started(s, p)
    PROVE  ScriptType' /\ scripts'[s].step = "backup" /\ scripts'[s].plan = p
           /\ scripts'[s].line = "none" /\ scripts'[s].sneaked = sneaked
           /\ \A t \in Slots : t # s => scripts'[t] = scripts[t]
<1> DEFINE x == [step |-> "backup", line |-> "none", plan |-> p, dropped |-> FALSE, sneaked |-> sneaked]
<1>1. x \in Scripts
  BY DEF Scripts
<1>2. scripts' = [scripts EXCEPT ![s] = x]
  BY DEF Started
<1> QED BY <1>1, <1>2, SetScript DEF ScriptType

LEMMA JobTypes ==
    ASSUME TypeInv, HasBackup, Job
    PROVE  TypeInv' /\ HasBackup'
<1> USE DEF TypeInv
<1>0. job \in Jobs /\ job.plan \in Plan
  BY Whole DEF Job, Recheck, Launch, Follow, Deadline, ReadBack, Jobs
<1>1. CASE Recheck
  <2>1. job' \in Jobs
    BY <1>0, <1>1, JobMoves DEF Recheck, Ends
  <2> QED BY <1>1, <2>1, Untouched DEF Recheck, JobType, HistType, HasBackup
<1>2. CASE Launch
  <2>1. job' \in Jobs
    <3>1. [job EXCEPT !.step = "done", !.verdict = "refused"] \in Jobs
      BY <1>0, JobMoves, ZenonT(60)
    <3>2. \A s \in Slots : [job EXCEPT !.step = "follow", !.script = s] \in Jobs
      BY <1>0, JobMoves
    <3> QED BY <1>2, <3>1, <3>2, ZenonT(60) DEF Launch, Ends
  <2>2. LeftType'
    <3>1. CASE left' = [left EXCEPT !["fix"] = @ - 1, !["lost"] = @ - 1] /\ left["fix"] > 0 /\ left["lost"] > 0
      <4>1. left' \in [Kinds -> Nat]
        <5>1. left \in [Kinds -> Nat] /\ left["fix"] - 1 \in Nat /\ left["lost"] - 1 \in Nat
          BY <3>1 DEF LeftType, Kinds
        <5> QED BY <3>1, <5>1
      <4> QED BY <1>2, <4>1 DEF Launch, LeftType
    <3> QED BY <1>2, <3>1, SpendTypes DEF Launch, Kinds
  <2>4. LogType'
    BY <1>2 DEF Launch, LogType, Wiped
  <2>3. ScriptType' /\ HasBackup'
    <3>1. CASE UNCHANGED scripts
      BY <1>2, <3>1, Untouched, ZenonT(60) DEF Launch, HasBackup
    <3>2. CASE \E s \in Slots : scripts' = Started(s, job.plan)
      BY <1>0, <1>2, <3>2, StartedTypes, ZenonT(60) DEF Launch, HasBackup, HistType, Steps
    <3> QED BY <1>2, <3>1, <3>2 DEF Launch
  <2> QED BY <1>2, <2>1, <2>2, <2>3, <2>4, Untouched DEF Launch, JobType
<1>3. CASE Follow
  <2>1. job' \in Jobs
    <3>1. [job EXCEPT !.step = "readback", !.seen = log] \in Jobs /\ [job EXCEPT !.seen = log] \in Jobs
      BY <1>0, JobMoves, ZenonT(60) DEF LogType
    <3>2. [job EXCEPT !.step = "done", !.verdict = VerdictOf(log)] \in Jobs
      BY <1>0, JobMoves, Verdicts
    <3> QED BY <1>3, <3>1, <3>2 DEF Follow, Ends
  <2> QED BY <1>3, <2>1, Untouched DEF Follow, JobType, radioVars, histVars, HasBackup
<1>4. CASE Deadline
  <2>1. job' \in Jobs
    BY <1>0, <1>4, JobMoves DEF Deadline, Ends
  <2>2. LeftType'
    BY <1>4, SpendTypes, Untouched DEF Deadline, Kinds
  <2> QED BY <1>4, <2>1, <2>2, Untouched, SMTT(30) DEF Deadline, JobType, radioVars, histVars, HasBackup
<1>5. CASE ReadBack
  <2>1. job' \in Jobs
    BY <1>0, <1>5, JobMoves DEF ReadBack, Ends
  <2>2. LeftType'
    BY <1>5, SpendTypes, Untouched DEF ReadBack, Kinds
  <2> QED BY <1>5, <2>1, <2>2, Untouched, SMTT(30) DEF ReadBack, JobType, radioVars, histVars, HasBackup
<1> QED BY <1>1, <1>2, <1>3, <1>4, <1>5 DEF Job

LEMMA StepTypes == TypeInv /\ HasBackup /\ [Next]_vars => TypeInv' /\ HasBackup'
<1> SUFFICES ASSUME TypeInv, HasBackup, [Next]_vars PROVE TypeInv' /\ HasBackup'
  OBVIOUS
<1> USE DEF TypeInv
<1>1. CASE PeerBack
  <2>1. radio.reach \in 0..Peers /\ Reach(live) \in 0..Peers
    BY DEF LeftType, Radios, Reach
  <2>2. LinkType'
    BY <1>1, <2>1 DEF PeerBack, LinkType
  <2> QED BY <1>1, <2>2, Untouched DEF PeerBack, hubVars, HasBackup
<1>2. CASE Fade
  <2>1. LinkType' /\ HistType'
    BY <1>2 DEF Fade, LinkType, HistType
  <2> QED BY <1>2, <2>1, SpendTypes, Untouched DEF Fade, Kinds, hubVars, HasBackup
<1>3. CASE Reboot
  <2>1. FileType' /\ LogType' /\ LinkType' /\ HistType' /\ LeftType'
    <3>1. FileType' /\ LogType'
      BY <1>3 DEF Reboot, FileType, LogType
    <3>2. LinkType'
      <4>1. up' = 0 /\ relinked' = FALSE
        BY <1>3 DEF Reboot
      <4>2. 0 \in 0..Peers
        BY PeersAssumption
      <4>3. up' \in 0..Peers
        BY <4>1, <4>2
      <4>4. relinked' \in BOOLEAN
        BY <4>1
      <4> QED BY <4>3, <4>4 DEF LinkType
    <3>3. HistType' /\ LeftType'
      BY <1>3, SpendTypes DEF Reboot, HistType, Kinds
    <3> QED BY <3>1, <3>2, <3>3
  <2>2. ScriptType' /\ HasBackup'
    <3>1. \A s \in Slots : scripts'[s] \in {NoScript} \cup Scripts /\ scripts'[s].step \notin Steps
      <4> SUFFICES ASSUME NEW s \in Slots
                   PROVE  scripts'[s] \in {NoScript} \cup Scripts /\ scripts'[s].step \notin Steps
        OBVIOUS
      <4>1. CASE Busy(s)
        <5>1. scripts[s] \in Scripts
          BY <4>1, Whole DEF Busy
        <5>2. [scripts[s] EXCEPT !.step = "end"] \in Scripts
          BY <5>1, ScriptMoves
        <5>3. [scripts[s] EXCEPT !.step = "end"].step = "end"
          BY <5>1, ScriptKeeps
        <5>4. scripts'[s] = [scripts[s] EXCEPT !.step = "end"]
          BY <1>3, <4>1 DEF Reboot
        <5> QED BY <5>2, <5>3, <5>4 DEF Steps
      <4>2. CASE ~Busy(s)
        BY <1>3, <4>2 DEF Reboot, Busy, Steps, ScriptType
      <4> QED BY <4>1, <4>2
    <3>2. scripts' = [s \in Slots |-> scripts'[s]]
      BY <1>3 DEF Reboot
    <3> QED BY <3>1, <3>2 DEF ScriptType, HasBackup
  <2> QED BY <1>3, <2>1, <2>2, Untouched DEF Reboot, hubVars
<1>4. ASSUME NEW k \in Keys, NEW v \in Vals, ByHand(k, v) PROVE TypeInv' /\ HasBackup'
  <2>1. FileType' /\ HistType'
    BY <1>4, ConfigSet DEF ByHand, FileType, SetConfig, HistType
  <2> QED BY <1>4, <2>1, SpendTypes, Untouched DEF ByHand, Kinds, hubVars, HasBackup
<1>5. ASSUME NEW f \in Fixes, NEW v \in Vals, PreviewAsked(f, v) PROVE TypeInv' /\ HasBackup'
  BY <1>5, SpendTypes, Untouched DEF PreviewAsked, PlanType, Kinds, radioVars, histVars, HasBackup
<1>6. ASSUME NEW f \in Fixes, NEW v \in Vals, PreviewRead(f, v) PROVE TypeInv' /\ HasBackup'
  <2>1. KeyOf[f] \in Keys /\ file[KeyOf[f]] \in Vals
    BY DEF FileType, Configs
  <2>2. Plannable(f, v) => PlanFor(f, v) \in Plan
    BY <2>1 DEF Plannable, PlanFor, Plan, LinkType
  <2>3. PlanType'
    BY <1>6, <2>2 DEF PreviewRead, PlanType
  <2> QED BY <1>6, <2>3, Untouched DEF PreviewRead, radioVars, histVars, HasBackup
<1>7. ASSUME NEW p \in plans, Expire(p) PROVE TypeInv' /\ HasBackup'
  BY <1>7, SpendTypes, Untouched DEF Expire, PlanType, Kinds, radioVars, histVars, HasBackup
<1>8. ASSUME NEW p \in plans, Apply(p) PROVE TypeInv' /\ HasBackup'
  <2>1. JobType'
    BY <1>8 DEF Apply, StartsJob, JobType, Jobs, PlanType, Running
  <2> QED BY <1>8, <2>1, Untouched DEF Apply, PlanType, radioVars, histVars, HasBackup
<1>9. CASE Restart
  BY <1>9, SpendTypes, Untouched DEF Restart, PlanType, JobType, Kinds, radioVars, histVars, HasBackup
<1>10. CASE UNCHANGED vars
  BY <1>10, Untouched DEF vars, radioVars, hubVars, HasBackup
<1> QED
  BY <1>1, <1>2, <1>3, <1>4, <1>5, <1>6, <1>7, <1>8, <1>9, <1>10, JobTypes, ScriptTypes DEF Next

\* The radio's settings are always whole, a plan, a script and the job are what they are meant to
\* be, whatever is lost, reboots or starts again, also with two scripts at work.
THEOREM TypeCorrect == Spec => []TypeOK
<1>1. Init => HasBackup
  BY DEF Init, HasBackup, NoScript, Steps
<1>2. Spec => [](TypeInv /\ HasBackup)
  BY <1>1, InitTypes, StepTypes, PTL DEF Spec
<1> QED BY <1>2, TypeInvTypes, PTL

(***************************************************************************)
(* One script at a time. Nothing on the radio refuses a second script:     *)
(* Netwatch has to know how the first one ended. It does not when it was   *)
(* started again, when the answer of the start was lost or when a script   *)
(* outlasted the job; what follows is proved for behaviours in which no    *)
(* second script is started while one is at work, and NoOverlap says when  *)
(* that is sure.                                                           *)
(***************************************************************************)
OneScript == \A s, t \in Slots : Busy(s) /\ Busy(t) => s = t

InTest == {"wait", "hold", "verify", "save"}

\* The job's second look still holds, unless the file changed since.
Fresh == job.step = "start" => file[job.plan.key] = job.plan.old \/ sneaked

\* Before the edit the file is as it was previewed, and the backup as the file.
Untried(s) ==
    /\ scripts[s].step \in {"backup", "edit"} =>
           file[scripts[s].plan.key] = scripts[s].plan.old \/ scripts[s].sneaked
    /\ scripts[s].step = "edit" => bak = file
    /\ scripts[s].step \in {"backup", "edit", "apply"} => ~scripts[s].dropped

\* From then on the file has the new value, and a radio that applies it runs the file; one that
\* only stores it has shown nothing, if its link was there and stayed.
Tried(s) ==
    /\ scripts[s].step \in {"apply"} \cup InTest => file[scripts[s].plan.key] = scripts[s].plan.new
    /\ scripts[s].step \in InTest /\ radio.applies => live = file
    /\ scripts[s].step \in InTest /\ ~radio.applies /\ ~faded =>
           up >= scripts[s].plan.min /\ ~scripts[s].dropped /\ ~relinked

\* A proof was seen before it is saved.
Proved(s) ==
    scripts[s].step = "save" /\ Proof(scripts[s].plan.fix) # "peers" =>
        \/ live[scripts[s].plan.key] = scripts[s].plan.new \/ faded
        \/ ByReading(s) /\ misread

Sound == Fresh /\ \A s \in Slots : Untried(s) /\ Tried(s) /\ Proved(s)

LEMMA OthersSound ==
    ASSUME NEW t \in Slots, ~Busy(t)
    PROVE  Untried(t) /\ Tried(t) /\ Proved(t)
BY DEF Busy, Untried, Tried, Proved, InTest

\* A step of a script keeps what is known of that script.
LEMMA ScriptSound ==
    ASSUME TypeInv, NEW s \in Slots, Script(s), Untried(s), Tried(s), Proved(s)
    PROVE  (Untried(s) /\ Tried(s) /\ Proved(s))'
<1>1. Moves(s) /\ scripts'[s].plan = scripts[s].plan /\ scripts'[s].sneaked = scripts[s].sneaked
      /\ UNCHANGED radio
  BY ScriptShape DEF TypeInv, Moves
<1>2. scripts[s].plan.key \in Keys /\ scripts[s].plan.min \in 1..Peers /\ up \in 0..Peers
      /\ scripts[s].plan.fix \in Fixes /\ file \in Configs /\ ScriptType
  BY <1>1, Whole DEF Moves, Scripts, TypeInv, LinkType, FileType
<1> USE DEF At, Busy, Steps
<1>3. CASE Backup(s)
  <2>1. CASE bak' = file /\ Goto(s, "edit") /\ UNCHANGED file /\ log' = "going"
    <3>1. scripts'[s].step = "edit" /\ scripts'[s].dropped = scripts[s].dropped
      BY <1>2, <1>3, <2>1, GotoMoves DEF Backup, hubVars
    <3> QED BY <1>1, <1>3, <2>1, <3>1 DEF Backup, Untried, Tried, Proved, InTest
  <2>2. CASE Say(s, "fail")
    <3>1. scripts'[s].step = "end"
      BY <1>2, <1>3, <2>2, SayMoves DEF Backup, Final, hubVars
    <3> QED BY <3>1 DEF Untried, Tried, Proved, InTest
  <2> QED BY <1>3, <2>1, <2>2 DEF Backup
<1>4. CASE Edit(s)
  <2>1. scripts'[s].step = "apply" /\ scripts'[s].dropped = scripts[s].dropped
    BY <1>2, <1>4, GotoMoves DEF Edit, hubVars
  <2>2. file'[scripts[s].plan.key] = scripts[s].plan.new
    BY <1>2, <1>4 DEF Edit, Configs
  <2> QED BY <1>1, <1>4, <2>1, <2>2 DEF Edit, Untried, Tried, Proved, InTest
<1>5. CASE TestRestart(s)
  <2>1. scripts'[s].step = "wait" /\ scripts'[s].dropped = scripts[s].dropped
    BY <1>2, <1>5, GotoMoves DEF TestRestart, hubVars
  <2>2. UNCHANGED file /\ SoftRestart(file) /\ faded' = (up < scripts[s].plan.min)
    BY <1>5 DEF TestRestart
  <2>3. ~scripts[s].dropped /\ file[scripts[s].plan.key] = scripts[s].plan.new
    BY <1>5 DEF TestRestart, Untried, Tried
  <2>4. CASE radio.applies
    BY <1>1, <2>1, <2>2, <2>3, <2>4 DEF SoftRestart, Untried, Tried, Proved, InTest
  <2>5. CASE ~radio.applies
    <3>1. up' = up /\ relinked' = FALSE
      BY <2>2, <2>5 DEF SoftRestart
    <3>3. up < scripts[s].plan.min => faded'
      BY <2>2, Zenon
    <3>2. ~faded' => up >= scripts[s].plan.min
      BY <1>2, <3>3
    <3> QED BY <1>1, <2>1, <2>2, <2>3, <2>5, <3>1, <3>2 DEF Untried, Tried, Proved, InTest
  <2> QED BY <2>4, <2>5
<1>6. CASE Wait(s)
  <2>1. CASE Goto(s, "hold")
    <3>1. scripts'[s].step = "hold" /\ scripts'[s].dropped = scripts[s].dropped
      BY <1>2, <1>6, <2>1, GotoMoves DEF Wait, hubVars
    <3> QED BY <1>1, <1>6, <3>1 DEF Wait, Untried, Tried, Proved, InTest, histVars
  <2>2. CASE scripts' = [scripts EXCEPT ![s].dropped = TRUE] /\ ~Enough(s)
    <3>1. scripts'[s].step = "wait"
      BY <1>2, <1>6, <2>2, DropMoves DEF Wait, hubVars
    <3>2. ~(up >= scripts[s].plan.min)
      BY <2>2 DEF Enough
    <3>3. radio.applies \/ faded
      BY <1>6, <3>2 DEF Wait, Tried, InTest
    <3> QED BY <1>1, <1>6, <3>1, <3>3 DEF Wait, Untried, Tried, Proved, InTest, histVars
  <2> QED BY <1>6, <2>1, <2>2 DEF Wait
<1>7. CASE GiveUp(s)
  <2>1. scripts'[s].step = "undo"
    BY <1>2, <1>7, GotoMoves DEF GiveUp, hubVars
  <2> QED BY <2>1 DEF Untried, Tried, Proved, InTest
<1>8. CASE Hold(s)
  <2>1. scripts'[s].step \in {"verify", "undo"} /\ scripts'[s].dropped = scripts[s].dropped
    BY <1>2, <1>8, GotoMoves DEF Hold, hubVars
  <2> QED BY <1>1, <1>8, <2>1 DEF Hold, Untried, Tried, Proved, InTest, histVars
<1>9. CASE Verify(s)
  <2>1. PICK relink \in {Dropped(s), Relinks(s)}, tells \in BOOLEAN :
            /\ Goto(s, IF IsLive(s, relink, tells) THEN "save" ELSE "undo")
            /\ misread' = (tells # OnAir(s)) /\ (misread' => ByReading(s))
    BY <1>9 DEF Verify
  <2>2. UNCHANGED <<file, live, up, relinked, faded>> /\ scripts[s].step = "verify"
    BY <1>9 DEF Verify
  <2>3. CASE IsLive(s, relink, tells)
    <3>1. scripts'[s].step = "save" /\ scripts'[s].dropped = scripts[s].dropped
      BY <1>2, <1>9, <2>1, <2>3, GotoMoves DEF Verify, hubVars
    <3>2. radio.applies => live[scripts[s].plan.key] = scripts[s].plan.new
      BY <2>2 DEF Tried, InTest
    <3>3. ~radio.applies /\ ~faded => ~Dropped(s) /\ ~Relinks(s)
      BY <2>2 DEF Tried, InTest, Dropped, Relinks
    <3>4. Proof(scripts[s].plan.fix) # "peers" => OnAir(s) \/ tells \/ Dropped(s) \/ relink
      <4>1. CASE scripts[s].plan.fix = "ac_mode"
        BY <4>1 DEF Proof
      <4>2. CASE scripts[s].plan.fix = "country"
        <5>1. Proof(scripts[s].plan.fix) = "drop"
          BY <4>2 DEF Proof
        <5> QED BY <2>3, <5>1 DEF IsLive
      <4>3. CASE scripts[s].plan.fix = "power"
        <5>1. Proof(scripts[s].plan.fix) = "power"
          BY <4>3 DEF Proof
        <5> QED BY <2>3, <5>1 DEF IsLive
      <4>4. CASE scripts[s].plan.fix = "channel"
        <5>1. Proof(scripts[s].plan.fix) = "channel"
          BY <4>4 DEF Proof
        <5> QED BY <2>3, <5>1 DEF IsLive
      <4> QED BY <1>2, <4>1, <4>2, <4>3, <4>4 DEF Fixes
    <3>5. relink => Relinks(s)
      BY DEF Relinks
    <3>6. tells => OnAir(s) \/ (misread' /\ ByReading(s))
      BY <2>1
    <3>7. Proof(scripts[s].plan.fix) # "peers" =>
              \/ live[scripts[s].plan.key] = scripts[s].plan.new \/ faded
              \/ misread' /\ ByReading(s)
      BY <3>2, <3>3, <3>4, <3>5, <3>6 DEF OnAir
    <3>8. ByReading(s)' <=> ByReading(s)
      BY <1>1 DEF ByReading
    <3>9. Untried(s)' /\ Tried(s)'
      BY <1>1, <2>2, <3>1 DEF Untried, Tried, InTest
    <3>10. Proved(s)'
      BY <1>1, <2>2, <3>7, <3>8 DEF Proved
    <3> QED BY <3>9, <3>10
  <2>4. CASE ~IsLive(s, relink, tells)
    <3>1. scripts'[s].step = "undo"
      BY <1>2, <1>9, <2>1, <2>4, GotoMoves DEF Verify, hubVars
    <3> QED BY <3>1 DEF Untried, Tried, Proved, InTest
  <2> QED BY <2>3, <2>4
<1>10. CASE Save(s)
  <2>1. scripts'[s].step = "end"
    BY <1>2, <1>10, SayMoves DEF Save, Final, hubVars
  <2> QED BY <2>1 DEF Untried, Tried, Proved, InTest
<1>11. CASE Undo(s)
  <2>1. scripts'[s].step = "back"
    BY <1>2, <1>11, GotoMoves DEF Undo, hubVars
  <2> QED BY <2>1 DEF Untried, Tried, Proved, InTest
<1>12. CASE Back(s)
  <2>1. scripts'[s].step = "end"
    BY <1>2, <1>12, SayMoves DEF Back, Final, hubVars
  <2> QED BY <2>1 DEF Untried, Tried, Proved, InTest
<1> QED
  BY <1>3, <1>4, <1>5, <1>6, <1>7, <1>8, <1>9, <1>10, <1>11, <1>12 DEF Script

\* Nothing that leaves the scripts, the settings and the link alone, or that finds no script at
\* work, changes what is known of them.
LEMMA StillSound ==
    ASSUME Sound,
           UNCHANGED <<scripts, file, live, bak, radio, up, relinked, faded, misread>>
    PROVE  \A s \in Slots : (Untried(s) /\ Tried(s) /\ Proved(s))'
BY DEF Sound, Untried, Tried, Proved, ByReading, InTest

LEMMA IdleSound ==
    ASSUME \A s \in Slots : ~Busy(s)'
    PROVE  \A s \in Slots : (Untried(s) /\ Tried(s) /\ Proved(s))'
BY DEF Busy, Untried, Tried, Proved, InTest

LEMMA LookStays ==
    ASSUME Fresh, job'.step = "start" => job' = job,
           (UNCHANGED <<file, sneaked>>) \/ sneaked'
    PROVE  Fresh'
BY DEF Fresh

LEMMA ScriptFresh ==
    ASSUME TypeInv, Fresh, NEW s \in Slots, Script(s)
    PROVE  Fresh'
<1>1. UNCHANGED job
  BY ScriptShape DEF TypeInv, Moves, hubVars
<1>2. (UNCHANGED <<file, sneaked>>) \/ sneaked'
  BY DEF Script, Backup, Edit, TestRestart, Wait, GiveUp, Hold, Verify, Save, Undo, Back, histVars
<1> QED BY <1>1, <1>2, LookStays

LEMMA JobSound ==
    ASSUME TypeInv, Sound, OneScript', Job
    PROVE  Sound'
<1>0. job \in Jobs
  BY Whole DEF Job, Recheck, Launch, Follow, Deadline, ReadBack, TypeInv
<1>1. CASE Recheck
  <2>1. job'.step = "start" => job'.plan = job.plan /\ ~Stale(job.plan) /\ UNCHANGED file
    BY <1>0, <1>1 DEF Recheck, Ends, Jobs
  <2>2. Fresh'
    BY <2>1 DEF Fresh, Stale
  <2> QED BY <1>1, <2>2, StillSound DEF Recheck, Sound
<1>2. CASE Launch
  <2>1. job'.step # "start"
    BY <1>0, <1>2 DEF Launch, Ends, Jobs
  <2>2. CASE UNCHANGED scripts
    BY <1>2, <2>1, <2>2, StillSound DEF Launch, Sound, Fresh, histVars
  <2>3. ASSUME NEW s \in Slots, scripts' = Started(s, job.plan) PROVE Sound'
    <3>1. /\ scripts'[s].step = "backup" /\ scripts'[s].plan = job.plan /\ scripts'[s].sneaked = sneaked
          /\ ~scripts'[s].dropped /\ \A t \in Slots : t # s => scripts'[t] = scripts[t]
      BY <2>3 DEF Started, TypeInv, ScriptType
    <3>2. \A t \in Slots : t # s => ~Busy(t)'
      BY <3>1, SMTT(30) DEF OneScript, Busy
    <3>3. Untried(s)' /\ Tried(s)' /\ Proved(s)'
      BY <1>2, <3>1 DEF Launch, Sound, Fresh, Untried, Tried, Proved, InTest
    <3>4. \A t \in Slots : t # s => (Untried(t) /\ Tried(t) /\ Proved(t))'
      BY <3>2 DEF Busy, Untried, Tried, Proved, InTest
    <3> QED BY <2>1, <3>3, <3>4 DEF Sound, Fresh
  <2> QED BY <1>2, <2>2, <2>3 DEF Launch
<1>3. CASE Follow \/ Deadline \/ ReadBack
  <2>1. job'.step # "start"
    BY <1>0, <1>3 DEF Follow, Deadline, ReadBack, Ends, Jobs
  <2> QED
    BY <1>3, <2>1, StillSound DEF Follow, Deadline, ReadBack, radioVars, histVars, Sound, Fresh
<1> QED BY <1>1, <1>2, <1>3 DEF Job

LEMMA StepSound ==
    TypeInv /\ Sound /\ OneScript /\ OneScript' /\ [Next]_vars => Sound'
<1> SUFFICES ASSUME TypeInv, Sound, OneScript, OneScript', [Next]_vars PROVE Sound'
  OBVIOUS
<1>1. CASE PeerBack
  <2>1. up' \in Nat /\ up \in Nat /\ up' >= up /\ UNCHANGED <<scripts, file, live, bak, relinked, faded, misread, radio, job, sneaked>>
    BY <1>1 DEF PeerBack, TypeInv, LinkType, histVars, hubVars
  <2>2. \A s \in Slots : scripts[s].step \in InTest => scripts[s].plan.min \in Nat
    BY Whole DEF TypeInv, InTest, Scripts
  <2> QED BY <2>1, <2>2 DEF Sound, Fresh, Untried, Tried, Proved, ByReading
<1>2. CASE Fade
  BY <1>2 DEF Fade, Sound, Fresh, Untried, Tried, Proved, ByReading, hubVars
<1>3. CASE Reboot
  <2>1. \A s \in Slots : scripts'[s].step \in {"none", "end"}
    <3> SUFFICES ASSUME NEW s \in Slots PROVE scripts'[s].step \in {"none", "end"}
      OBVIOUS
    <3>1. CASE Busy(s)
      <4>1. scripts[s] \in Scripts
        BY <3>1, Whole DEF Busy, TypeInv
      <4> QED BY <1>3, <3>1, <4>1 DEF Reboot, Scripts
    <3>2. CASE ~Busy(s)
      BY <1>3, <3>2 DEF Reboot, Busy
    <3> QED BY <3>1, <3>2
  <2>2. Fresh'
    BY <1>3 DEF Reboot, Fresh
  <2> QED BY <2>1, <2>2 DEF Sound, Untried, Tried, Proved, InTest
<1>4. ASSUME NEW k \in Keys, NEW v \in Vals, ByHand(k, v) PROVE Sound'
  <2>1. \A s \in Slots : ~Busy(s)'
    BY <1>4 DEF ByHand, Scripting, Busy
  <2> QED BY <1>4, <2>1, IdleSound DEF ByHand, Sound, Fresh
<1>5. ASSUME NEW f \in Fixes, NEW v \in Vals, PreviewAsked(f, v) \/ PreviewRead(f, v) PROVE Sound'
  BY <1>5, StillSound DEF PreviewAsked, PreviewRead, radioVars, histVars, Sound, Fresh
<1>6. ASSUME NEW p \in plans, Expire(p) PROVE Sound'
  BY <1>6, StillSound DEF Expire, radioVars, histVars, Sound, Fresh
<1>7. ASSUME NEW p \in plans, Apply(p) PROVE Sound'
  <2>1. job'.step = "start" => job' = job
    BY <1>7 DEF Apply, StartsJob
  <2> QED BY <1>7, <2>1, StillSound, LookStays DEF Apply, radioVars, histVars, Sound
<1>8. CASE Restart
  BY <1>8, StillSound DEF Restart, radioVars, histVars, Sound, Fresh, NoJob
<1>9. ASSUME NEW s \in Slots, Script(s) PROVE Sound'
  <2>1. Moves(s)
    BY <1>9, ScriptShape DEF TypeInv
  <2>2. \A t \in Slots : t # s => ~Busy(t) /\ scripts'[t] = scripts[t]
    BY <2>1 DEF Moves, OneScript, TypeInv, ScriptType
  <2>3. \A t \in Slots : t # s => (Untried(t) /\ Tried(t) /\ Proved(t))'
    BY <2>2 DEF Busy, Untried, Tried, Proved, InTest
  <2>4. (Untried(s) /\ Tried(s) /\ Proved(s))'
    BY <1>9, ScriptSound DEF Sound
  <2>5. Fresh'
    BY <1>9, ScriptFresh DEF Sound
  <2> QED BY <2>3, <2>4, <2>5 DEF Sound
<1>10. CASE UNCHANGED vars
  BY <1>10, StillSound DEF vars, radioVars, histVars, hubVars, Sound, Fresh
<1> QED
  BY <1>1, <1>2, <1>3, <1>4, <1>5, <1>6, <1>7, <1>8, <1>9, <1>10, JobSound DEF Next

LEMMA InitSound == Init => Sound
BY DEF Init, Sound, Fresh, Untried, Tried, Proved, InTest, NoScript, NoJob

\* What a script changes, and would put back, is what the preview showed, unless the file changed
\* in the seconds between the job's second look and the script.
THEOREM StalePlansRefused == Spec /\ []OneScript => []StalePlanRefused
<1>1. Init => HasBackup
  BY DEF Init, HasBackup, NoScript, Steps
<1>2. Spec /\ []OneScript => [](TypeInv /\ HasBackup /\ Sound)
  BY <1>1, InitTypes, InitSound, StepTypes, StepSound, PTL DEF Spec
<1>3. Sound => StalePlanRefused
  BY DEF Sound, Untried, StalePlanRefused
<1> QED BY <1>2, <1>3, PTL

LEMMA StepKept ==
    TypeInv /\ Sound /\ KeptWasLive /\ [Next]_vars => KeptWasLive'
<1> SUFFICES ASSUME TypeInv, Sound, KeptWasLive, [Next]_vars PROVE KeptWasLive'
  OBVIOUS
<1>1. CASE UNCHANGED <<kept, radio>>
  BY <1>1 DEF KeptWasLive
<1>2. ASSUME NEW s \in Slots, Save(s) PROVE KeptWasLive'
  <2>1. kept'.fix = scripts[s].plan.fix /\ (live[scripts[s].plan.key] = scripts[s].plan.new => kept'.wasLive)
        /\ (faded => kept'.faded) /\ kept'.misread = misread /\ radio' = radio
    BY <1>2 DEF Save
  <2>2. Proof(scripts[s].plan.fix) # "peers" =>
            \/ live[scripts[s].plan.key] = scripts[s].plan.new \/ faded
            \/ Proof(scripts[s].plan.fix) = "power" /\ radio.reads /\ misread
    BY <1>2 DEF Save, At, Sound, Proved, ByReading
  <2> QED BY <2>1, <2>2 DEF KeptWasLive
<1> QED
  BY <1>1, <1>2
  DEF Next, PeerBack, Fade, Reboot, ByHand, PreviewAsked, PreviewRead, Expire, Apply, Job, Recheck,
      Launch, Follow, Deadline, ReadBack, Restart, Script, Backup, Edit, TestRestart, Wait, GiveUp,
      Hold, Verify, Undo, Back, radioVars, histVars, vars

\* A change that has to prove itself is kept only when the radio runs it, for every radio, also one
\* that stores the file and says nothing; only a link that fails by itself can stand in for it, and,
\* for the power of a radio that reports one, a reading that is not what the wireless was given.
THEOREM KeptIsLive == Spec /\ []OneScript => []KeptWasLive
<1>1. Init => HasBackup /\ KeptWasLive
  BY DEF Init, HasBackup, NoScript, Steps, KeptWasLive
<1>2. Spec /\ []OneScript => [](TypeInv /\ HasBackup /\ Sound /\ KeptWasLive)
  BY <1>1, InitTypes, InitSound, StepTypes, StepSound, StepKept, PTL DEF Spec
<1> QED BY <1>2, PTL

(***************************************************************************)
(* Whose line the job reads. The state file is wiped when a script is      *)
(* started, and while the job follows its script no other one is at work:  *)
(* a last line in the file is that script's.                               *)
(***************************************************************************)
Following == {"follow", "readback"}

OwnLine ==
    /\ \A s \in Slots : Busy(s) => scripts[s].line = "none"
    /\ job.step \in Following =>
           /\ job.script \in Slots /\ \A t \in Slots : Busy(t) => t = job.script
           /\ log \in Final => scripts[job.script].line = log
           /\ job.step = "readback" => scripts[job.script].line = "saved"

LEMMA OwnStays ==
    ASSUME OwnLine, UNCHANGED <<scripts, log>>, job'.step \in Following => job' = job
    PROVE  OwnLine'
BY DEF OwnLine, Busy

LEMMA JobOwn ==
    ASSUME TypeInv, OwnLine, OneScript', Job
    PROVE  OwnLine'
<1>0. job \in Jobs
  BY Whole DEF Job, Recheck, Launch, Follow, Deadline, ReadBack, TypeInv
<1>1. CASE Recheck
  <2>1. job'.step \notin Following
    BY <1>0, <1>1 DEF Recheck, Ends, Jobs, Following
  <2> QED BY <1>1, <2>1, OwnStays DEF Recheck
<1>2. CASE Launch
  <2>1. CASE UNCHANGED <<scripts, log>> /\ Ends("refused")
    <3>1. job'.step = "done"
      BY <1>0, <2>1 DEF Ends, Jobs
    <3> QED BY <2>1, <3>1, OwnStays DEF Following
  <2>2. ASSUME NEW s \in Slots, scripts' = Started(s, job.plan), log' = "none",
               job' = [job EXCEPT !.step = "follow", !.script = s] \/ Ends("refused")
        PROVE  OwnLine'
    <3>1. scripts'[s].step = "backup" /\ scripts'[s].line = "none"
          /\ \A t \in Slots : t # s => scripts'[t] = scripts[t]
      BY <2>2 DEF Started, TypeInv, ScriptType
    <3>2. \A t \in Slots : Busy(t)' => t = s
      BY <3>1 DEF OneScript, Busy
    <3>3. (job'.step = "follow" /\ job'.script = s) \/ job'.step = "done"
      BY <1>0, <2>2 DEF Ends, Jobs
    <3> QED BY <2>2, <3>1, <3>2, <3>3 DEF OwnLine, Following, Final
  <2> QED BY <1>2, <2>1, <2>2 DEF Launch, Wiped
<1>3. CASE Follow
  <2>1. CASE log = "saved"
    <3>1. job'.step = "readback" /\ job'.script = job.script /\ job.step = "follow"
          /\ UNCHANGED <<scripts, log>>
      BY <1>0, <1>3, <2>1 DEF Follow, Jobs, radioVars
    <3>2. scripts[job.script].line = "saved"
      BY <2>1, <3>1 DEF OwnLine, Following, Final
    <3> QED BY <3>1, <3>2 DEF OwnLine, Following, Busy
  <2>2. CASE log # "saved"
    <3>1. job'.step = "done" \/ (job'.step = "follow" /\ job'.script = job.script)
      BY <1>0, <1>3, <2>2 DEF Follow, Ends, Jobs
    <3> QED BY <1>3, <3>1 DEF Follow, radioVars, OwnLine, Following, Busy
  <2> QED BY <2>1, <2>2
<1>4. CASE Deadline \/ ReadBack
  <2>1. job'.step = "done"
    BY <1>0, <1>4 DEF Deadline, ReadBack, Ends, Jobs
  <2> QED BY <1>4, <2>1, OwnStays DEF Deadline, ReadBack, radioVars, Following
<1> QED BY <1>1, <1>2, <1>3, <1>4 DEF Job

LEMMA StepOwn == TypeInv /\ OwnLine /\ OneScript' /\ [Next]_vars => OwnLine'
<1> SUFFICES ASSUME TypeInv, OwnLine, OneScript', [Next]_vars PROVE OwnLine'
  OBVIOUS
<1>1. ASSUME NEW s \in Slots, Script(s) PROVE OwnLine'
  <2>1. Moves(s) /\ UNCHANGED job
    BY <1>1, ScriptShape DEF TypeInv, Moves, hubVars
  <2>2. \A t \in Slots : t # s => scripts'[t] = scripts[t]
    BY <2>1 DEF Moves, TypeInv, ScriptType
  <2>3. scripts[s].line = "none"
    BY <2>1 DEF Moves, OwnLine
  <2>4. Busy(s)' => scripts'[s].line = "none"
    BY <2>1, <2>3 DEF Moves, Busy
  <2>5. ASSUME job.step \in Following PROVE s = job.script /\ job.step # "readback"
                                            /\ (log' \in Final => scripts'[s].line = log')
    <3>1. s = job.script
      BY <2>1, <2>5 DEF Moves, OwnLine
    <3>2. log \notin Final /\ job.step # "readback"
      BY <2>3, <2>5, <3>1 DEF OwnLine, Final
    <3> QED BY <2>1, <3>1, <3>2 DEF Moves, Final
  <2> QED BY <2>1, <2>2, <2>4, <2>5 DEF OwnLine, Busy
<1>2. CASE Reboot
  <2>1. \A s \in Slots : scripts'[s].line = scripts[s].line /\ ~Busy(s)'
    <3> SUFFICES ASSUME NEW s \in Slots PROVE scripts'[s].line = scripts[s].line /\ ~Busy(s)'
      OBVIOUS
    <3>1. CASE Busy(s)
      <4>1. scripts[s] \in Scripts
        BY <3>1, Whole DEF Busy, TypeInv
      <4>2. scripts'[s] = [scripts[s] EXCEPT !.step = "end"]
        BY <1>2, <3>1 DEF Reboot
      <4> QED BY <4>1, <4>2 DEF Scripts, Busy
    <3>2. CASE ~Busy(s)
      BY <1>2, <3>2 DEF Reboot, Busy
    <3> QED BY <3>1, <3>2
  <2> QED BY <1>2, <2>1 DEF Reboot, OwnLine, Final, hubVars
<1>3. ASSUME NEW p \in plans, Apply(p) PROVE OwnLine'
  <2>1. job'.step \in Following => job' = job
    BY <1>3 DEF Apply, StartsJob, Following
  <2> QED BY <1>3, <2>1, OwnStays DEF Apply, radioVars
<1>4. CASE Restart
  BY <1>4, OwnStays DEF Restart, radioVars, NoJob, Following
<1> QED
  BY <1>1, <1>2, <1>3, <1>4, JobOwn, OwnStays
  DEF Next, PeerBack, Fade, ByHand, PreviewAsked, PreviewRead, Expire, radioVars, hubVars, vars

LEMMA InitOwn == Init => OwnLine
BY DEF Init, OwnLine, NoScript, NoJob, Following

LEMMA StepVerdict ==
    TypeInv /\ OwnLine /\ [Next]_vars =>
        (job'.step = "done" /\ job.step \in {"follow", "readback"} =>
             /\ job'.verdict \in {"applied", "check"} => scripts[job.script].line = "saved"
             /\ job'.verdict = "reverted"  => scripts[job.script].line = "reverted"
             /\ job'.verdict = "not_saved" => scripts[job.script].line = "notsaved")
<1> SUFFICES ASSUME TypeInv, OwnLine, [Next]_vars, job'.step = "done", job.step \in {"follow", "readback"}
             PROVE  /\ job'.verdict \in {"applied", "check"} => scripts[job.script].line = "saved"
                    /\ job'.verdict = "reverted"  => scripts[job.script].line = "reverted"
                    /\ job'.verdict = "not_saved" => scripts[job.script].line = "notsaved"
  OBVIOUS
<1>0. job \in Jobs
  BY Whole DEF TypeInv
<1>1. CASE Follow
  <2>1. log \in Final /\ log # "saved" /\ job'.verdict = VerdictOf(log) /\ job.step = "follow"
    BY <1>0, <1>1 DEF Follow, Ends, Jobs
  <2>2. scripts[job.script].line = log
    BY <2>1 DEF OwnLine, Following
  <2> QED BY <2>1, <2>2 DEF VerdictOf, Final
<1>2. CASE Deadline
  <2>1. job'.verdict = "unknown"
    BY <1>0, <1>2 DEF Deadline, Ends, Jobs
  <2> QED BY <2>1
<1>3. CASE ReadBack
  <2>1. job'.verdict \in {"applied", "check", "refused"} /\ job.step = "readback"
    BY <1>0, <1>3 DEF ReadBack, Ends, Jobs
  <2> QED BY <2>1 DEF OwnLine, Following
<1>4. job' # job
  OBVIOUS
<1>5. ASSUME NEW s \in Slots, Script(s) PROVE FALSE
  BY <1>5, <1>4, ScriptShape DEF TypeInv, Moves, hubVars
<1>6. ASSUME NEW p \in plans, Apply(p) PROVE FALSE
  BY <1>6, <1>4 DEF Apply, StartsJob
<1>7. CASE Recheck \/ Launch
  BY <1>7 DEF Recheck, Launch
<1>8. CASE Restart
  BY <1>8 DEF Restart, NoJob
<1>9. CASE PeerBack \/ Fade \/ Reboot \/ (\E k \in Keys, v \in Vals : ByHand(k, v))
  BY <1>9, <1>4 DEF PeerBack, Fade, Reboot, ByHand, hubVars
<1>10. CASE \E f \in Fixes, v \in Vals : PreviewAsked(f, v) \/ PreviewRead(f, v)
  BY <1>10, <1>4 DEF PreviewAsked, PreviewRead
<1>11. CASE (\E p \in plans : Expire(p)) \/ UNCHANGED vars
  BY <1>11, <1>4 DEF Expire, vars, hubVars
<1> QED
  BY <1>1, <1>2, <1>3, <1>5, <1>6, <1>7, <1>8, <1>9, <1>10, <1>11 DEF Next, Job

\* What the job tells the operator is what its own script did, not another one before it.
THEOREM VerdictsOwn == Spec /\ []OneScript => VerdictIsOwn
<1>1. Init => HasBackup
  BY DEF Init, HasBackup, NoScript, Steps
<1>2. Spec /\ []OneScript => [](TypeInv /\ HasBackup /\ OwnLine)
  BY <1>1, InitTypes, InitOwn, StepTypes, StepOwn, PTL DEF Spec
<1> QED BY <1>2, StepVerdict, PTL DEF Spec, VerdictIsOwn

(***************************************************************************)
(* When one script at a time is certain. Either only one is ever started,  *)
(* or Netwatch learns how each one ends: no answer to a start is lost, no  *)
(* script outlives the job's deadline, and Netwatch is not started again.  *)
(***************************************************************************)
OnlyOne == left["fix"] <= 1
Watched == left["lost"] = 0 /\ left["slow"] = 0 /\ left["restart"] = 0

Calm == OnlyOne \/ Watched

Unused(s) == scripts[s].step = "none"

\* There was no script yet, or no other one can follow it.
LastOne ==
    /\ left["fix"] <= 1
    /\ (\A s \in Slots : Unused(s)) \/ left["fix"] = 0
    /\ \A s, t \in Slots : ~Unused(s) /\ ~Unused(t) => s = t

\* The job is behind every script that is still at work.
Escorted == Watched /\ \A s \in Slots : Busy(s) => job.step = "follow" /\ job.script = s

LEMMA CalmOne == LastOne \/ Escorted => OneScript
BY DEF LastOne, Escorted, OneScript, Busy, Unused

LEMMA InitCalm == Init /\ Calm => LastOne \/ Escorted
BY DEF Init, Calm, OnlyOne, LastOne, Unused, Escorted, Busy, NoScript

\* What the steps outside the scripts leave of the bounds.
LEMMA SpendLess ==
    ASSUME LeftType, [Next]_vars
    PROVE  /\ \A k \in Kinds : left'[k] \in Nat /\ left'[k] <= left[k]
           /\ Launch \/ (left'["fix"] = left["fix"])
<1> USE DEF LeftType, Kinds
<1>1. \A k \in Kinds : Spend(k) => left'[k] = left[k] - 1 /\ left[k] > 0
                                 /\ \A j \in Kinds : j # k => left'[j] = left[j]
  BY DEF Spend
<1>2. CASE UNCHANGED left
  BY <1>2
<1>3. CASE \E k \in Kinds : k # "fix" /\ Spend(k)
  BY <1>1, <1>3
<1>4. CASE Launch
  <2>1. CASE \E k \in Kinds : Spend(k)
    BY <1>1, <1>4, <2>1
  <2>2. CASE left["fix"] > 0 /\ left["lost"] > 0 /\ left' = [left EXCEPT !["fix"] = @ - 1, !["lost"] = @ - 1]
    BY <1>4, <2>2
  <2> QED BY <1>4, <2>1, <2>2 DEF Launch
<1>5. ASSUME NEW s \in Slots, Script(s) PROVE UNCHANGED left \/ Spend("flash") \/ Spend("misread")
  BY <1>5 DEF Script, Backup, Edit, TestRestart, Wait, GiveUp, Hold, Verify, Save, Undo, Back
<1>6. CASE Job
  BY <1>2, <1>3, <1>4, <1>6 DEF Job, Recheck, Follow, Deadline, ReadBack
<1> QED
  BY <1>2, <1>3, <1>5, <1>6
  DEF Next, PeerBack, Fade, Reboot, ByHand, PreviewAsked, PreviewRead, Expire, Apply, Restart, vars

\* Only Launch starts a script, and nothing else makes one busy.
LEMMA NoNewScript ==
    ASSUME TypeInv, [Next]_vars, ~Launch
    PROVE  \A s \in Slots : (Unused(s) => Unused(s)') /\ (Busy(s)' => Busy(s))
<1>1. ASSUME NEW s \in Slots, Script(s)
      PROVE  \A t \in Slots : (Unused(t) => Unused(t)') /\ (Busy(t)' => Busy(t))
  <2>1. Busy(s) /\ \A t \in Slots : t # s => scripts'[t] = scripts[t]
    BY <1>1, ScriptShape DEF Moves, TypeInv, ScriptType
  <2> QED BY <2>1 DEF Unused, Busy
<1>2. CASE Reboot
  <2> SUFFICES ASSUME NEW t \in Slots PROVE (Unused(t) => Unused(t)') /\ ~Busy(t)'
    OBVIOUS
  <2>1. CASE Busy(t)
    <3>1. scripts[t] \in Scripts
      BY <2>1, Whole DEF Busy, TypeInv
    <3>2. scripts'[t] = [scripts[t] EXCEPT !.step = "end"]
      BY <1>2, <2>1 DEF Reboot
    <3> QED BY <2>1, <3>1, <3>2 DEF Scripts, Busy, Unused
  <2>2. CASE ~Busy(t)
    BY <1>2, <2>2 DEF Reboot, Busy, Unused
  <2> QED BY <2>1, <2>2
<1>3. CASE UNCHANGED scripts
  BY <1>3 DEF Unused, Busy
<1>4. CASE Recheck \/ Follow \/ Deadline \/ ReadBack
  BY <1>3, <1>4 DEF Recheck, Follow, Deadline, ReadBack, radioVars
<1> QED
  BY <1>1, <1>2, <1>3, <1>4
  DEF Next, Job, PeerBack, Fade, ByHand, PreviewAsked, PreviewRead, Expire, Apply, Restart, radioVars, vars

LEMMA LaunchShape ==
    ASSUME TypeInv, Launch
    PROVE  \/ \E s \in Slots :
               /\ left["fix"] > 0 /\ left'["fix"] = left["fix"] - 1
               /\ scripts'[s].step = "backup" /\ \A t \in Slots : t # s => scripts'[t] = scripts[t]
               /\ (job'.step = "follow" /\ job'.script = s) \/ left["lost"] > 0
           \/ UNCHANGED scripts /\ left["lost"] > 0
<1>1. job \in Jobs /\ job.plan \in Plan
  BY Whole DEF Launch, TypeInv, Jobs
<1>2. CASE UNCHANGED scripts /\ Spend("lost")
  BY <1>2 DEF Spend
<1>3. ASSUME NEW s \in Slots, scripts' = Started(s, job.plan),
             \/ job' = [job EXCEPT !.step = "follow", !.script = s] /\ Spend("fix")
             \/ left["fix"] > 0 /\ left["lost"] > 0
                /\ left' = [left EXCEPT !["fix"] = @ - 1, !["lost"] = @ - 1]
      PROVE  /\ left["fix"] > 0 /\ left'["fix"] = left["fix"] - 1
             /\ scripts'[s].step = "backup" /\ \A t \in Slots : t # s => scripts'[t] = scripts[t]
             /\ (job'.step = "follow" /\ job'.script = s) \/ left["lost"] > 0
  <2>1. scripts'[s].step = "backup" /\ \A t \in Slots : t # s => scripts'[t] = scripts[t]
    BY <1>1, <1>3, StartedTypes DEF TypeInv, HistType
  <2>2. left["fix"] > 0 /\ left'["fix"] = left["fix"] - 1
    BY <1>3 DEF TypeInv, LeftType, Kinds, Spend
  <2>3. (job'.step = "follow" /\ job'.script = s) \/ left["lost"] > 0
    BY <1>1, <1>3 DEF Jobs
  <2> QED BY <2>1, <2>2, <2>3
<1> QED BY <1>2, <1>3 DEF Launch

LEMMA StepCalm ==
    TypeInv /\ OwnLine /\ (LastOne \/ Escorted) /\ [Next]_vars => (LastOne \/ Escorted)'
<1> SUFFICES ASSUME TypeInv, OwnLine, LastOne \/ Escorted, [Next]_vars PROVE LastOne' \/ Escorted'
  OBVIOUS
<1>0. \A k \in Kinds : left[k] \in Nat /\ left'[k] \in Nat /\ left'[k] <= left[k]
  BY SpendLess DEF TypeInv, LeftType
<1>1. CASE Launch
  <2>1. CASE LastOne
    <3>1. CASE UNCHANGED scripts
      BY <1>0, <2>1, <3>1 DEF LastOne, Unused, Kinds
    <3>2. ASSUME NEW s \in Slots, left["fix"] > 0, left'["fix"] = left["fix"] - 1,
                 \A t \in Slots : t # s => scripts'[t] = scripts[t]
          PROVE  LastOne'
      BY <1>0, <2>1, <3>2 DEF LastOne, Unused, Kinds
    <3> QED BY <1>1, <3>1, <3>2, LaunchShape
  <2>2. CASE Escorted
    <3>1. left["lost"] = 0 /\ \A t \in Slots : ~Busy(t)
      BY <1>1, <2>2 DEF Escorted, Watched, Launch
    <3>2. PICK s \in Slots : /\ \A t \in Slots : t # s => scripts'[t] = scripts[t]
                             /\ job'.step = "follow" /\ job'.script = s
      BY <1>0, <1>1, <3>1, LaunchShape
    <3>3. Watched'
      BY <1>0, <2>2 DEF Escorted, Watched, Kinds
    <3> QED BY <3>1, <3>2, <3>3 DEF Escorted, Busy
  <2> QED BY <2>1, <2>2
<1>2. CASE ~Launch
  <2>1. \A s \in Slots : (Unused(s) => Unused(s)') /\ (Busy(s)' => Busy(s))
    BY <1>2, NoNewScript
  <2>2. CASE LastOne
    BY <1>0, <2>1, <2>2 DEF LastOne, Kinds
  <2>3. CASE Escorted
    <3>1. Watched'
      BY <1>0, <2>3 DEF Escorted, Watched, Kinds
    <3>2. CASE \A s \in Slots : ~Busy(s)
      BY <2>1, <3>1, <3>2 DEF Escorted
    <3>3. ASSUME NEW s \in Slots, Busy(s) PROVE job'.step = "follow" /\ job'.script = job.script
      <4>1. job.step = "follow" /\ job.script = s /\ job \in Jobs /\ left["slow"] = 0 /\ left["restart"] = 0
        BY <2>3, <3>3, Whole DEF Escorted, Watched, TypeInv
      <4>2. ~Restart /\ ~Deadline
        BY <3>3, <4>1 DEF Restart, Deadline, Spend, Scripting
      <4>3. log \notin Final
        BY <3>3, <4>1 DEF OwnLine, Following, Final
      <4>4. ~Recheck /\ ~ReadBack
        BY <4>1 DEF Recheck, ReadBack
      <4>5. CASE Follow
        BY <4>1, <4>3, <4>5 DEF Follow, Jobs, Final
      <4>6. CASE UNCHANGED job
        BY <4>1, <4>6
      <4>7. ASSUME NEW t \in Slots, Script(t) PROVE UNCHANGED job
        BY <4>7, ScriptShape DEF TypeInv, Moves, hubVars
      <4>8. ASSUME NEW p \in plans, Apply(p) PROVE UNCHANGED job
        BY <4>1, <4>8 DEF Apply, StartsJob, Running
      <4>9. CASE PeerBack \/ Fade \/ Reboot \/ (\E k \in Keys, v \in Vals : ByHand(k, v))
        BY <4>6, <4>9 DEF PeerBack, Fade, Reboot, ByHand, hubVars
      <4>10. CASE \E f \in Fixes, v \in Vals : PreviewAsked(f, v) \/ PreviewRead(f, v)
        BY <4>6, <4>10 DEF PreviewAsked, PreviewRead
      <4>11. CASE (\E p \in plans : Expire(p)) \/ UNCHANGED vars
        BY <4>6, <4>11 DEF Expire, vars, hubVars
      <4> QED
        BY <1>2, <4>2, <4>4, <4>5, <4>6, <4>7, <4>8, <4>9, <4>10, <4>11 DEF Next, Job
    <3>4. \A s \in Slots : Busy(s)' => job'.step = "follow" /\ job'.script = s
      BY <2>1, <2>3, <3>3 DEF Escorted
    <3> QED BY <3>1, <3>4 DEF Escorted
  <2> QED BY <2>2, <2>3
<1> QED BY <1>1, <1>2

\* Under either of them no script ever runs beside another.
THEOREM OneAlone == Spec /\ Calm => []OneScript
<1>1. Init => HasBackup
  BY DEF Init, HasBackup, NoScript, Steps
<1>2. TypeInv /\ OwnLine /\ (LastOne \/ Escorted) /\ [Next]_vars => OwnLine' /\ (LastOne \/ Escorted)'
  <2>1. (LastOne \/ Escorted)' => OneScript'
    BY CalmOne, PTL
  <2> QED BY <2>1, StepCalm, StepOwn
<1>3. Spec /\ Calm => [](TypeInv /\ HasBackup /\ OwnLine /\ (LastOne \/ Escorted))
  BY <1>1, <1>2, InitTypes, InitOwn, InitCalm, StepTypes, PTL DEF Spec
<1> QED BY <1>3, CalmOne, PTL

(***************************************************************************)
(* The radio as SafeChange, step by step. Under OneScript the one script   *)
(* that is at work decides the phase: from its edit to its end it is the   *)
(* trial, and its backup is what undoing brings back.                      *)
(***************************************************************************)
Trial == {"apply", "wait", "hold", "verify", "undo", "save"}

\* Does a script of sc stand at one of these steps?
Stands(sc, steps) == \E s \in Slots : sc[s].step \in steps

\* The phase all the scripts make, and the one a single script makes.
PhaseOf(sc)   == IF Stands(sc, {"save"}) THEN "proven"
                 ELSE IF Stands(sc, {"apply", "wait", "hold", "verify", "undo"}) THEN "trying" ELSE "idle"
PhaseAt(step) == IF step = "save" THEN "proven" ELSE IF step \in Trial THEN "trying" ELSE "idle"

\* The abstract variables that are not the radio's own.
Phase  == PhaseOf(scripts)
Before == IF Stands(scripts, Trial) THEN bak ELSE file

\* The abstract steps, by what they do to the four abstract variables.
LEMMA SafeSteps ==
    /\ Init => Safe!Init
    /\ UNCHANGED <<flash, file, Before, Phase>> => UNCHANGED Safe!vars
    /\ Phase = "idle" /\ Phase' = "trying" /\ Before' = file /\ UNCHANGED flash => Safe!Try(file')
    /\ Phase = "trying" /\ Phase' = "proven" /\ UNCHANGED <<flash, file, Before>> => Safe!Prove
    /\ Phase = "proven" /\ Phase' = "idle" /\ Before' = file /\ flash' \in {file, flash} /\ UNCHANGED file
           => Safe!Keep
    /\ Phase = "trying" /\ Phase' = "idle" /\ file' = Before /\ UNCHANGED <<flash, Before>> => Safe!Undo
    /\ Phase' = "idle" /\ Before' = flash /\ file' = flash /\ UNCHANGED flash => Safe!PowerCycle
    /\ Phase = "idle" /\ Phase' = "idle" /\ Before' = file' /\ flash' = file' => Safe!ByHand(file')
<1> USE DEF Phase, Before, PhaseOf, Stands, Trial, InTrial
<1>1. ASSUME Init PROVE Safe!Init
  <2>1. \A s \in Slots : scripts[s].step = "none"
    BY <1>1 DEF Init, NoScript
  <2>2. flash \in Configs /\ file = flash
    BY <1>1 DEF Init, Configs
  <2> QED BY <2>1, <2>2 DEF Safe!Init
<1>2. UNCHANGED <<flash, file, Before, Phase>> => UNCHANGED Safe!vars
  BY DEF Safe!vars
<1>3. Phase = "idle" /\ Phase' = "trying" /\ Before' = file /\ UNCHANGED flash => Safe!Try(file')
  BY DEF Safe!Try
<1>4. Phase = "trying" /\ Phase' = "proven" /\ UNCHANGED <<flash, file, Before>> => Safe!Prove
  BY DEF Safe!Prove
<1>5. Phase = "proven" /\ Phase' = "idle" /\ Before' = file /\ flash' \in {file, flash} /\ UNCHANGED file
          => Safe!Keep
  BY DEF Safe!Keep
<1>6. Phase = "trying" /\ Phase' = "idle" /\ file' = Before /\ UNCHANGED <<flash, Before>> => Safe!Undo
  BY DEF Safe!Undo
<1>7. Phase' = "idle" /\ Before' = flash /\ file' = flash /\ UNCHANGED flash => Safe!PowerCycle
  BY DEF Safe!PowerCycle
<1>8. Phase = "idle" /\ Phase' = "idle" /\ Before' = file' /\ flash' = file' => Safe!ByHand(file')
  BY DEF Safe!ByHand
<1> QED BY <1>1, <1>2, <1>3, <1>4, <1>5, <1>6, <1>7, <1>8

\* One script decides, when the others are not at work.
LEMMA OneDecides ==
    ASSUME NEW sc, NEW s \in Slots, \A t \in Slots : t # s => sc[t].step \in {"none", "end"}
    PROVE  PhaseOf(sc) = PhaseAt(sc[s].step) /\ (Stands(sc, Trial) <=> sc[s].step \in Trial)
BY DEF PhaseOf, PhaseAt, Stands, Trial

LEMMA NoneDecides ==
    ASSUME NEW sc, \A t \in Slots : sc[t].step \notin Trial
    PROVE  PhaseOf(sc) = "idle" /\ ~Stands(sc, Trial)
BY DEF PhaseOf, Stands, Trial

\* What a step of script s is in SafeChange.
LEMMA ScriptSafe ==
    ASSUME TypeInv, HasBackup, Sound, OneScript, NEW s \in Slots, Script(s), TypeInv'
    PROVE  [Safe!Next]_(Safe!vars)
<1>1. Moves(s) /\ \A t \in Slots : t # s => scripts'[t] = scripts[t] /\ scripts[t].step \in {"none", "end"}
  BY ScriptShape DEF TypeInv, Moves, ScriptType, OneScript, Busy
<1>2. /\ Phase = PhaseAt(scripts[s].step) /\ Phase' = PhaseAt(scripts'[s].step)
      /\ Before = IF scripts[s].step \in Trial THEN bak ELSE file
      /\ Before' = IF scripts'[s].step \in Trial THEN bak' ELSE file'
  BY <1>1, OneDecides DEF Phase, Before
<1> USE DEF PhaseAt, Trial, At, Steps, Busy, hubVars
<1>3. CASE Backup(s)
  <2>1. scripts'[s].step \in {"edit", "end"} /\ UNCHANGED <<flash, file>>
    BY <1>3, GotoMoves, SayMoves DEF Backup, TypeInv, Final
  <2> QED BY <1>2, <1>3, <2>1, SafeSteps DEF Backup
<1>4. CASE Edit(s)
  <2>1. scripts'[s].step = "apply" /\ UNCHANGED <<flash, bak>>
    BY <1>4, GotoMoves DEF Edit, TypeInv
  <2>2. bak = file /\ scripts[s].step = "edit"
    BY <1>4 DEF Edit, Sound, Untried
  <2>3. Safe!Try(file')
    BY <1>2, <2>1, <2>2, SafeSteps
  <2> QED BY <2>3 DEF Safe!Next, TypeInv, FileType
<1>5. CASE TestRestart(s)
  <2>1. scripts'[s].step = "wait" /\ scripts[s].step = "apply" /\ UNCHANGED <<flash, file, bak>>
    BY <1>5, GotoMoves DEF TestRestart, TypeInv
  <2> QED BY <1>2, <2>1, SafeSteps
<1>6. CASE Wait(s)
  <2>1. scripts'[s].step \in {"wait", "hold"} /\ scripts[s].step = "wait" /\ UNCHANGED <<flash, file, bak>>
    <3>1. CASE Goto(s, "hold")
      BY <1>6, <3>1, GotoMoves DEF Wait, TypeInv
    <3>2. CASE scripts' = [scripts EXCEPT ![s].dropped = TRUE]
      BY <1>6, <3>2, DropMoves DEF Wait, TypeInv
    <3> QED BY <1>6, <3>1, <3>2 DEF Wait
  <2> QED BY <1>2, <2>1, SafeSteps
<1>7. CASE GiveUp(s)
  <2>1. scripts'[s].step = "undo" /\ scripts[s].step = "wait" /\ UNCHANGED <<flash, file, bak>>
    BY <1>7, GotoMoves DEF GiveUp, TypeInv
  <2> QED BY <1>2, <2>1, SafeSteps
<1>8. CASE Hold(s)
  <2>1. scripts'[s].step \in {"verify", "undo"} /\ scripts[s].step = "hold" /\ UNCHANGED <<flash, file, bak>>
    BY <1>8, GotoMoves DEF Hold, TypeInv
  <2> QED BY <1>2, <2>1, SafeSteps
<1>9. CASE Verify(s)
  <2>1. scripts[s].step = "verify" /\ UNCHANGED <<flash, file, bak>>
    BY <1>9 DEF Verify
  <2>2. CASE Goto(s, "save")
    <3>1. scripts'[s].step = "save"
      BY <1>9, <2>2, GotoMoves DEF Verify, TypeInv
    <3> QED BY <1>2, <2>1, <3>1, SafeSteps DEF Safe!Next
  <2>3. CASE Goto(s, "undo")
    <3>1. scripts'[s].step = "undo"
      BY <1>9, <2>3, GotoMoves DEF Verify, TypeInv
    <3> QED BY <1>2, <2>1, <3>1, SafeSteps
  <2> QED BY <1>9, <2>2, <2>3 DEF Verify
<1>10. CASE Save(s)
  <2>1. scripts'[s].step = "end" /\ scripts[s].step = "save" /\ flash' \in {file, flash} /\ UNCHANGED file
    BY <1>10, SayMoves DEF Save, TypeInv, Final
  <2>2. Safe!Keep
    BY <1>2, <2>1, SafeSteps
  <2> QED BY <2>2 DEF Safe!Next
<1>11. CASE Undo(s)
  <2>1. scripts'[s].step = "back" /\ scripts[s].step = "undo" /\ file' = bak /\ UNCHANGED <<flash, bak>>
    BY <1>11, GotoMoves DEF Undo, PutBack, TypeInv
  <2>2. Safe!Undo
    BY <1>2, <2>1, SafeSteps
  <2> QED BY <2>2 DEF Safe!Next
<1>12. CASE Back(s)
  <2>1. scripts'[s].step = "end" /\ scripts[s].step = "back" /\ UNCHANGED <<flash, file>>
    BY <1>12, SayMoves DEF Back, TypeInv, Final
  <2> QED BY <1>2, <2>1, SafeSteps
<1> QED BY <1>3, <1>4, <1>5, <1>6, <1>7, <1>8, <1>9, <1>10, <1>11, <1>12 DEF Script

LEMMA StepSafe ==
    TypeInv /\ HasBackup /\ Sound /\ OneScript /\ TypeInv' /\ [Next]_vars => [Safe!Next]_(Safe!vars)
<1> SUFFICES ASSUME TypeInv, HasBackup, Sound, OneScript, TypeInv', [Next]_vars PROVE [Safe!Next]_(Safe!vars)
  OBVIOUS
<1>1. ASSUME UNCHANGED <<flash, file, bak, scripts>> PROVE UNCHANGED Safe!vars
  BY <1>1, SafeSteps DEF Phase, Before
<1>2. CASE Reboot
  <2>1. ASSUME NEW t \in Slots PROVE scripts'[t].step \notin Trial
    <3>1. CASE Busy(t)
      <4>1. scripts[t] \in Scripts
        BY <3>1, Whole DEF Busy, TypeInv
      <4>2. scripts'[t] = [scripts[t] EXCEPT !.step = "end"]
        BY <1>2, <3>1 DEF Reboot
      <4> QED BY <4>1, <4>2 DEF Scripts, Trial
    <3>2. CASE ~Busy(t)
      BY <1>2, <3>2 DEF Reboot, Busy, Trial
    <3> QED BY <3>1, <3>2
  <2>2. Phase' = "idle" /\ Before' = file'
    BY <2>1, NoneDecides DEF Phase, Before
  <2>3. Safe!PowerCycle
    BY <1>2, <2>2, SafeSteps DEF Reboot
  <2> QED BY <2>3 DEF Safe!Next
<1>3. ASSUME NEW k \in Keys, NEW v \in Vals, ByHand(k, v) PROVE Safe!Next
  <2>1. \A t \in Slots : scripts[t].step \notin Trial
    BY <1>3 DEF ByHand, Scripting, Busy, Trial
  <2>2. Phase = "idle" /\ Phase' = "idle" /\ Before' = file'
    BY <1>3, <2>1, NoneDecides DEF Phase, Before, ByHand
  <2>3. Safe!ByHand(file')
    BY <1>3, <2>2, SafeSteps DEF ByHand
  <2> QED BY <2>3 DEF Safe!Next, TypeInv, FileType
<1>4. CASE Launch
  <2>1. CASE UNCHANGED scripts
    BY <1>1, <1>4, <2>1 DEF Launch
  <2>2. ASSUME NEW s \in Slots, scripts[s].step = "none", scripts' = Started(s, job.plan)
        PROVE  UNCHANGED Safe!vars
    <3>1. job.plan \in Plan
      BY <1>4, Whole DEF Launch, TypeInv, Jobs
    <3>2. scripts'[s].step = "backup" /\ \A t \in Slots : t # s => scripts'[t] = scripts[t]
      BY <2>2, <3>1, StartedTypes, SMTT(30) DEF TypeInv, HistType
    <3>3. UNCHANGED <<Phase, Before>>
      BY <1>4, <2>2, <3>2 DEF Phase, Before, PhaseOf, Stands, Trial, Launch
    <3> QED BY <1>4, <3>3, SafeSteps DEF Launch
  <2> QED BY <1>4, <2>1, <2>2 DEF Launch
<1>5. CASE Recheck \/ Follow \/ Deadline \/ ReadBack
  BY <1>1, <1>5 DEF Recheck, Follow, Deadline, ReadBack, radioVars
<1> QED
  BY <1>1, <1>2, <1>3, <1>4, <1>5, ScriptSafe
  DEF Next, Job, PeerBack, Fade, PreviewAsked, PreviewRead, Expire, Apply, Restart, radioVars, vars

\* The radio, with its scripts, does nothing SafeChange does not allow: whatever is tried is kept
\* with a proof or put back, and a power cycle at any moment brings back what was kept last.
THEOREM RadioIsSafe == Spec /\ []OneScript => ImplementsSafeChange
<1>1. Init => HasBackup
  BY DEF Init, HasBackup, NoScript, Steps
<1>2. Init => Safe!Init
  BY SafeSteps
<1>3. Spec /\ []OneScript => [](TypeInv /\ HasBackup /\ Sound)
  BY <1>1, InitTypes, InitSound, StepTypes, StepSound, PTL DEF Spec
<1>4. Spec /\ []OneScript => Safe!Spec
  BY <1>2, <1>3, StepSafe, PTL DEF Spec, Safe!Spec
<1> QED BY <1>4 DEF ImplementsSafeChange

\* With OneAlone: the same without the hypothesis, when only one fix is ever applied or Netwatch
\* learns how each one ends.
THEOREM CalmSafe ==
    Spec /\ Calm => []KeptWasLive /\ []StalePlanRefused /\ VerdictIsOwn /\ ImplementsSafeChange
BY OneAlone, KeptIsLive, StalePlansRefused, VerdictsOwn, RadioIsSafe
=============================================================================
