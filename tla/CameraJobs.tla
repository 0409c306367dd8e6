---------------------------- MODULE CameraJobs ----------------------------
(***************************************************************************)
(* Changes of camera settings (app/hiksettings.py: Settings.apply, undo,   *)
(* Log) and the jobs made of them (app/hikbulk.py: Jobs).                  *)
(*                                                                         *)
(* A change reads a section of the device, writes the documents that must  *)
(* differ one after the other, reads them back and enters the change in    *)
(* the log, under the lock of its device. Two actors make changes: the     *)
(* worker of the one running job, and a person, who may change or undo by  *)
(* hand at any moment. Devices may not answer, refuse a document or not    *)
(* keep it, and Netwatch may start again.                                  *)
(*                                                                         *)
(* A device has one section of Docs documents with one value each. The     *)
(* rule wants Wanted everywhere. Abstracted: which sections and values a   *)
(* device offers, logins and routes, risky work, the check and copy jobs,  *)
(* whose changes are the same.                                             *)
(***************************************************************************)
EXTENDS Naturals, Sequences, FiniteSets

CONSTANTS
    Devs,       \* a sequence: the order of a job's items
    NDocs, Values, Wanted,
    NoHolder,
    Budgets     \* bounds, one record of Kinds a scenario

Kinds == {"job", "undo", "hand", "stop", "lost", "refuse", "ignore", "crash"}
Actors == {"worker", "person"}

Docs == 1..NDocs
Keys == {Devs[i] : i \in DOMAIN Devs}

ASSUME DocsAssumption == NDocs \in Nat \ {0} /\ Wanted \in Values /\ 0 \in Values
ASSUME DevsAssumption == Devs \in Seq(Keys)
ASSUME HolderAssumption == NoHolder \notin Actors

VARIABLES
    dev,        \* what each device's documents hold
    lock,       \* _locks
    op,         \* the change each actor is making
    log,        \* camera_changes.json
    jobs,       \* Jobs.jobs
    disk,       \* camera_jobs.json
    run,        \* _run: the index of the running job, or 0
    worker,     \* where its thread is
    stop,       \* _stop
    asked,      \* the job somebody asked to undo, after the checks, or 0
    blind,      \* devices a change of which was cut off, with what it had written in no log (history)
    left

jobVars == <<jobs, disk, run, worker, stop, asked>>
vars == <<dev, lock, op, log, jobVars, blind, left>>

NoOp == [step |-> "none"]
NoWork == [pc |-> "idle", i |-> 0]

Spend(kind) == left[kind] > 0 /\ left' = [left EXCEPT ![kind] = @ - 1]

Init ==
    /\ dev = [k \in Keys |-> [i \in Docs |-> 0]] /\ lock = [k \in Keys |-> NoHolder]
    /\ op = [a \in Actors |-> NoOp] /\ log = <<>>
    /\ jobs = <<>> /\ disk = <<>> /\ run = 0 /\ worker = NoWork /\ stop = FALSE /\ asked = 0
    /\ blind = {} /\ left \in Budgets

(***************************************************************************)
(* One change: Settings.apply.                                             *)
(***************************************************************************)
NewOp(k, want, expect, undoOf) ==
    [step |-> "asked", key |-> k, want |-> want, expect |-> expect, undoOf |-> undoOf,
     before |-> <<>>, written |-> {}, err |-> FALSE]

Over(a, result, cid) == [op EXCEPT ![a] = [step |-> "over", result |-> result, cid |-> cid]]

Part(f, S) == [i \in S |-> f[i]]

LockFree(k, a) == lock[k] = NoHolder

Moved(now, expect) == \E i \in DOMAIN expect : now[i] # expect[i]

\* The lock, the section, and what of it must be changed.
Begin(a) ==
    LET k == op[a].key now == dev[k]
        differ == {i \in DOMAIN op[a].want : op[a].want[i] # now[i]} IN
    /\ op[a].step = "asked"
    /\ IF ~LockFree(k, a) THEN op' = Over(a, "failed", 0) /\ UNCHANGED <<lock, left>>
       ELSE \/ /\ ~Moved(now, op[a].expect) /\ differ # {}
               /\ lock' = [lock EXCEPT ![k] = a] /\ UNCHANGED left
               /\ op' = [op EXCEPT ![a].step = "write", ![a].want = Part(@, differ), ![a].before = Part(now, differ)]
            \/ /\ ~Moved(now, op[a].expect) /\ differ = {}
               /\ op' = Over(a, "unchanged", 0) /\ UNCHANGED <<lock, left>>
            \/ Moved(now, op[a].expect) /\ op' = Over(a, "failed", 0) /\ UNCHANGED <<lock, left>>
            \/ Spend("lost") /\ op' = Over(a, "failed", 0) /\ UNCHANGED lock
    /\ UNCHANGED <<dev, log, jobVars, blind>>

Released(a) == [lock EXCEPT ![op[a].key] = IF @ = a THEN NoHolder ELSE @]
ToWrite(a) == DOMAIN op[a].want \ op[a].written

\* The next document: taken, taken and not kept, or refused (twice); or no answer to it, or the
\* login refused (401), which ends the change where it is, without a word in the log.
Write(a) ==
    LET k == op[a].key
        i == CHOOSE x \in ToWrite(a) : \A y \in ToWrite(a) : x <= y IN
    /\ op[a].step = "write"
    /\ \/ /\ \/ dev' = [dev EXCEPT ![k][i] = op[a].want[i]] /\ UNCHANGED left
             \/ Spend("ignore") /\ UNCHANGED dev
          /\ op' = [op EXCEPT ![a].written = @ \cup {i}, ![a].step = IF ToWrite(a) = {i} THEN "back" ELSE @]
          /\ UNCHANGED <<lock, blind>>
       \/ /\ Spend("refuse") /\ op' = [op EXCEPT ![a].step = "back", ![a].err = TRUE]
          /\ UNCHANGED <<dev, lock, blind>>
       \/ /\ Spend("lost") /\ op' = Over(a, "failed", 0) /\ lock' = Released(a) /\ blind' = blind \cup {k}
          /\ \/ dev' = [dev EXCEPT ![k][i] = op[a].want[i]]
             \/ UNCHANGED dev
       \/ /\ Spend("refuse") /\ op' = Over(a, "failed", 0) /\ lock' = Released(a) /\ UNCHANGED dev
          /\ blind' = IF op[a].written # {} THEN blind \cup {k} ELSE blind
    /\ UNCHANGED <<log, jobVars>>

LogEntry(a) ==
    [key |-> op[a].key, before |-> Part(op[a].before, op[a].written), after |-> Part(op[a].want, op[a].written),
     now |-> Part(dev[op[a].key], op[a].written), undoneBy |-> 0]

\* Mutant: the change that was undone is not marked.
LoggedNoMark(a) == Append(log, LogEntry(a))

\* log.add and log.mark.
Logged(a) ==
    [c \in 1..(Len(log) + 1) |->
        IF c > Len(log) THEN LogEntry(a)
        ELSE IF c = op[a].undoOf THEN [log[c] EXCEPT !.undoneBy = Len(log) + 1] ELSE log[c]]

\* Read back and log, if anything was written. The device may not answer that either, or refuse
\* the login.
Back(a) ==
    LET kept == \A i \in DOMAIN op[a].want : i \in op[a].written /\ dev[op[a].key][i] = op[a].want[i] IN
    /\ op[a].step = "back" /\ lock' = Released(a)
    /\ \/ /\ op[a].written # {} /\ log' = Logged(a) /\ UNCHANGED <<blind, left>>
          /\ op' = Over(a, IF kept /\ ~op[a].err THEN "ok" ELSE "partial", Len(log) + 1)
       \/ op[a].written = {} /\ op' = Over(a, "failed", 0) /\ UNCHANGED <<log, blind, left>>
       \/ /\ Spend("lost") /\ op' = Over(a, "failed", 0) /\ UNCHANGED log
          /\ blind' = IF op[a].written # {} THEN blind \cup {op[a].key} ELSE blind
    /\ UNCHANGED <<dev, jobVars>>

Change(a) == Begin(a) \/ Write(a) \/ Back(a)

\* Settings.undo: the values before, where the ones after are still there.
Undo(c) == NewOp(log[c].key, log[c].before, log[c].after, c)

MayUndo(c) == log[c].undoneBy = 0

(***************************************************************************)
(* A person.                                                               *)
(***************************************************************************)
HandChange(k, i, v) ==
    /\ Spend("hand") /\ op["person"] = NoOp /\ dev[k][i] # v
    /\ op' = [op EXCEPT !["person"] = NewOp(k, [x \in {i} |-> v], Part(dev[k], {i}), 0)]
    /\ UNCHANGED <<dev, lock, log, jobVars, blind>>

HandUndo(c) ==
    /\ Spend("hand") /\ op["person"] = NoOp /\ MayUndo(c)
    /\ op' = [op EXCEPT !["person"] = Undo(c)]
    /\ UNCHANGED <<dev, lock, log, jobVars, blind>>

HandDone ==
    /\ op["person"].step = "over" /\ op' = [op EXCEPT !["person"] = NoOp]
    /\ UNCHANGED <<dev, lock, log, jobVars, blind, left>>

(***************************************************************************)
(* Jobs.                                                                   *)
(***************************************************************************)
Item(k, undo) == [key |-> k, status |-> "pending", cid |-> 0, undo |-> undo]
Job(kind, items, sof, undoOf) ==
    [kind |-> kind, state |-> "queued", items |-> items, sof |-> sof, note |-> FALSE, undoOf |-> undoOf, undoneBy |-> 0]

\* _begin.
JobStarts(job) ==
    /\ jobs' = Append(jobs, job) /\ disk' = jobs' /\ run' = Len(jobs) + 1
    /\ stop' = FALSE /\ worker' = [pc |-> "top", i |-> 1]

Others == <<dev, lock, op, log, blind>>

StartRule(sof) ==
    /\ Spend("job") /\ run = 0
    /\ JobStarts(Job("rule", [i \in DOMAIN Devs |-> Item(Devs[i], 0)], sof, 0))
    /\ UNCHANGED <<Others, asked>>

\* The items of a job that changed something, newest first.
Changed(items) ==
    LET upTo[i \in 0..Len(items)] ==
            IF i = 0 THEN <<>>
            ELSE IF items[i].cid # 0 THEN <<Item(items[i].key, items[i].cid)>> \o upTo[i - 1] ELSE upTo[i - 1]
    IN upTo[Len(items)]

\* start_undo: the checks, and then _begin.
AskUndo(j) ==
    /\ Spend("undo") /\ asked = 0
    /\ jobs[j].kind = "rule" /\ jobs[j].undoneBy = 0 /\ jobs[j].state \in {"done", "stopped"} /\ Changed(jobs[j].items) # <<>>
    /\ asked' = j
    /\ UNCHANGED <<Others, jobs, disk, run, worker, stop>>

BeginUndo ==
    /\ asked # 0 /\ asked' = 0
    /\ IF run = 0 THEN JobStarts(Job("undo", Changed(jobs[asked].items), FALSE, asked))
       ELSE UNCHANGED <<jobs, disk, run, worker, stop>>
    /\ UNCHANGED <<Others, left>>

Stop ==
    /\ Spend("stop") /\ run # 0 /\ stop' = TRUE
    /\ UNCHANGED <<Others, jobs, disk, run, worker, asked>>

This == jobs[run]
JobTo(state, note) == [jobs EXCEPT ![run].state = state, ![run].note = note]

\* Before an item: the end of the list, or stopped by hand.
Top ==
    /\ run # 0 /\ worker.pc = "top"
    /\ IF stop /\ worker.i <= Len(This.items)
       THEN jobs' = JobTo("stopped", TRUE) /\ worker' = [worker EXCEPT !.pc = "end"]
       ELSE IF worker.i > Len(This.items) THEN jobs' = JobTo("done", FALSE) /\ worker' = [worker EXCEPT !.pc = "end"]
       ELSE jobs' = [jobs EXCEPT ![run].state = "running"] /\ worker' = [worker EXCEPT !.pc = "pause"]
    /\ UNCHANGED <<Others, disk, run, stop, asked, left>>

\* The pause between devices is over: the next one is changed, or was undone already.
NextItem ==
    LET it == This.items[worker.i] IN
    /\ run # 0 /\ worker.pc = "pause" /\ worker' = [worker EXCEPT !.pc = "item"]
    /\ jobs' = [jobs EXCEPT ![run].items[worker.i].status = "running"]
    /\ op' = IF This.kind = "rule" THEN [op EXCEPT !["worker"] = NewOp(it.key, [i \in Docs |-> Wanted], <<>>, 0)]
             ELSE IF MayUndo(it.undo) THEN [op EXCEPT !["worker"] = Undo(it.undo)]
             ELSE Over("worker", "failed", 0)
    /\ UNCHANGED <<dev, lock, log, blind, disk, run, stop, asked, left>>

Took ==
    LET o == op["worker"] i == worker.i status == o.result
        done == [jobs EXCEPT ![run].items[i].status = status, ![run].items[i].cid = o.cid] IN
    /\ run # 0 /\ worker.pc = "item" /\ o.step = "over"
    /\ op' = [op EXCEPT !["worker"] = NoOp] /\ disk' = done
    /\ IF status = "failed" /\ This.sof
       THEN jobs' = [done EXCEPT ![run].state = "stopped", ![run].note = TRUE] /\ worker' = [worker EXCEPT !.pc = "end"]
       ELSE jobs' = done /\ worker' = [pc |-> "top", i |-> i + 1]
    /\ UNCHANGED <<dev, lock, log, blind, run, stop, asked, left>>

Skipped(items) ==
    [i \in DOMAIN items |-> IF items[i].status = "pending" THEN [items[i] EXCEPT !.status = "skipped"] ELSE items[i]]
Bad(items) == \E i \in DOMAIN items : items[i].status \in {"failed", "partial", "skipped"}

Freed == 0

\* The end of the job's thread: the job it undid is marked with it.
End ==
    LET items == Skipped(This.items)
        own == [jobs EXCEPT ![run].items = items] IN
    /\ run # 0 /\ worker.pc = "end" /\ worker' = NoWork /\ run' = Freed
    /\ jobs' = IF This.kind = "undo"
               THEN [own EXCEPT ![This.undoOf].undoneBy = run, ![This.undoOf].note = @ \/ Bad(items)] ELSE own
    /\ disk' = jobs'
    /\ UNCHANGED <<Others, stop, asked, left>>

Worker == Top \/ NextItem \/ Took \/ End

Loaded(js) ==
    [j \in DOMAIN js |-> IF js[j].state \in {"queued", "running"} THEN [js[j] EXCEPT !.state = "stopped", !.note = TRUE]
                         ELSE js[j]]

Crash ==
    /\ Spend("crash")
    /\ blind' = blind \cup {op[a].key : a \in {x \in Actors : op[x].step \in {"write", "back"}}}
    /\ op' = [a \in Actors |-> NoOp] /\ lock' = [k \in Keys |-> NoHolder]
    /\ jobs' = Loaded(disk) /\ run' = 0 /\ worker' = NoWork /\ stop' = FALSE /\ asked' = 0
    /\ UNCHANGED <<dev, log, disk>>

Next ==
    \/ \E a \in Actors : Change(a)
    \/ HandDone \/ BeginUndo \/ Stop \/ Worker \/ Crash
    \/ \E k \in Keys, i \in Docs, v \in Values : HandChange(k, i, v)
    \/ \E c \in DOMAIN log : HandUndo(c)
    \/ \E sof \in BOOLEAN : StartRule(sof)
    \/ \E j \in DOMAIN jobs : AskUndo(j)

Spec == Init /\ [][Next]_vars

\* The worker's thread goes on; nobody has to ask for anything.
JobsWork == Worker \/ Change("worker")

FairSpec == Spec /\ WF_vars(JobsWork)

(***************************************************************************)
(* Properties.                                                             *)
(***************************************************************************)
Results == {"ok", "partial", "unchanged", "failed"}
Rows == UNION {[S -> Values] : S \in SUBSET Docs}
Fulls == [step : {"asked", "write", "back"}, key : Keys, want : Rows, expect : Rows, before : Rows,
          undoOf : Nat, written : SUBSET Docs, err : BOOLEAN]
Overs == [step : {"over"}, result : Results, cid : Nat]
LogEntries == [key : Keys, before : Rows, after : Rows, now : Rows, undoneBy : Nat]
Items == [key : Keys, status : Results \cup {"pending", "running", "skipped"}, cid : Nat, undo : Nat]
JobRecs == [kind : {"rule", "undo"}, state : {"queued", "running", "done", "stopped"}, items : Seq(Items),
            sof : BOOLEAN, note : BOOLEAN, undoOf : Nat, undoneBy : Nat]

\* Type correctness.
TypeOK ==
    /\ dev \in [Keys -> [Docs -> Values]] /\ lock \in [Keys -> Actors \cup {NoHolder}] /\ blind \subseteq Keys
    /\ op \in [Actors -> {NoOp} \cup Overs \cup Fulls]
    /\ Len(log) \in Nat /\ log \in [1..Len(log) -> LogEntries]
    /\ jobs \in Seq(JobRecs) /\ disk \in Seq(JobRecs) /\ run \in 0..Len(jobs) /\ asked \in 0..Len(jobs)
    /\ worker \in [pc : {"idle", "top", "pause", "item", "end"}, i : Nat]

\* What the log says a document holds: what its last change read back.
LastSays(k, i) ==
    LET on == {c \in DOMAIN log : log[c].key = k /\ i \in DOMAIN log[c].now} IN
    IF on = {} THEN 0 ELSE log[CHOOSE c \in on : \A b \in on : b <= c].now[i]

\* The log is in the order of the changes and tells what the device holds, whoever changed it
\* and however the changes crossed, as long as no change of the device was cut off after it had
\* begun to write: by no answer, by a refused login, or by a restart of the program.
HistoryTrue == \A k \in Keys \ blind : lock[k] = NoHolder => \A i \in Docs : dev[k][i] = LastSays(k, i)

\* An undo puts back what was there before only over what its change wrote: what somebody
\* changed since stays.
UndoOverOwn ==
    [][\A a \in Actors, k \in Keys, i \in Docs :
          op[a].step = "write" /\ op[a].undoOf # 0 /\ op[a].key = k /\ dev'[k][i] # dev[k][i] /\ op'[a] # op[a]
          => dev[k][i] = log[op[a].undoOf].after[i] /\ dev'[k][i] = log[op[a].undoOf].before[i]]_vars

\* A job that is shown as undone, without the note that the undo did not fully work, has every
\* change of its items undone.
UndoneIsUndone ==
    \A j \in DOMAIN jobs : jobs[j].undoneBy # 0 /\ ~jobs[j].note =>
        \A i \in DOMAIN jobs[j].items : jobs[j].items[i].cid # 0 => log[jobs[j].items[i].cid].undoneBy # 0

\* A job that is not the running one is not shown as running, also after a restart: it can be
\* undone.
NoneStuck == \A j \in DOMAIN jobs : jobs[j].state \in {"queued", "running"} => j = run

\* The log and the jobs say what became of the devices.
ChangesAccounted == HistoryTrue /\ UndoneIsUndone /\ NoneStuck
=============================================================================
