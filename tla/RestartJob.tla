----------------------------- MODULE RestartJob -----------------------------
(***************************************************************************)
(* Restarting one device and proving that it restarted (app/restart.py).   *)
(*                                                                         *)
(* There is one job record for the device and one thread for each restart; *)
(* the thread writes its news into whatever record is there. The network   *)
(* is the witness: the device has to go quiet and to answer again, each    *)
(* for Agree probes in a row before a deadline. A probe may miss a device  *)
(* that is up; a device may ignore the command, take its time, lose its    *)
(* power, or never come back.                                              *)
(*                                                                         *)
(* Time is counted in probes (POLL_S). Abstracted: which protocol carries  *)
(* the command, and the wording of the verdicts.                           *)
(***************************************************************************)
EXTENDS Naturals, FiniteSets

CONSTANTS
    DownPolls, UpPolls,     \* DOWN_WAIT_S and UP_WAIT_S in probes
    RBudget                 \* bounds of "start", "flaky" and "power"

ASSUME PollsAssumption == DownPolls \in Nat \ {0} /\ UpPolls \in Nat \ {0}
ASSUME RBudgetAssumption == RBudget \in [start : Nat, flaky : Nat, power : Nat]

VARIABLES
    rjob,       \* _jobs[key]: the record and the restart it was made for
    rthread,    \* the thread of each restart
    rdev,       \* the device: whether it is up, and whether it will restart
    rseen,      \* what it did since each restart was sent (history)
    rleft

rvars == <<rjob, rthread, rdev, rseen, rleft>>

Restarts == 1..RBudget.start

NoJob == [id |-> 0, done |-> TRUE, verdict |-> ""]
NoThread == [pc |-> "none", agree |-> 0, polls |-> 0]

RInit ==
    /\ rjob = NoJob /\ rthread = [j \in Restarts |-> NoThread]
    /\ rdev = [up |-> TRUE, todo |-> FALSE]
    /\ rseen = [j \in Restarts |-> "nothing"]
    /\ rleft = RBudget

RSpend(kind) == rleft[kind] > 0 /\ rleft' = [rleft EXCEPT ![kind] = @ - 1]

At(j, pc) == rthread[j].pc = pc
To(j, pc) == [rthread EXCEPT ![j] = [pc |-> pc, agree |-> 0, polls |-> 0]]

\* Mutant: a restart may be started beside another.
AlwaysFree == TRUE

Free == rjob.done

\* start.
Start(j) ==
    /\ RSpend("start") /\ Free /\ \A i \in Restarts : i < j <=> ~At(i, "none")
    /\ rjob' = [id |-> j, done |-> FALSE, verdict |-> ""] /\ rthread' = To(j, "testing")
    /\ UNCHANGED <<rdev, rseen>>

\* _finish: the record that is there now is done.
Finish(j, verdict) ==
    /\ rjob' = [id |-> rjob.id, done |-> TRUE, verdict |-> verdict] /\ rthread' = To(j, "done")

\* The login is tried first; there may be nothing to try it with, and then the restart is sent untested.
Test(j) ==
    /\ At(j, "testing")
    /\ \/ rthread' = To(j, "sending") /\ UNCHANGED rjob
       \/ rdev.up /\ Finish(j, "auth_failed")
       \/ \E verdict \in {"unreachable", "failed"} : Finish(j, verdict)
    /\ UNCHANGED <<rdev, rseen, rleft>>

\* _send: reported as sent, and then done by the device or ignored, or refused. Over SSH a command
\* that timed out or never got a session (124, 255) is reported as sent too: the device may be off.
Send(j) ==
    /\ At(j, "sending")
    /\ \/ /\ rthread' = To(j, "waiting_down") /\ UNCHANGED rjob
          /\ rseen' = [rseen EXCEPT ![j] = IF rdev.up THEN "sent" ELSE "quiet"]
       \/ \E verdict \in {"auth_failed", "failed"} : Finish(j, verdict) /\ UNCHANGED rseen
    /\ \E acts \in BOOLEAN : rdev' = [rdev EXCEPT !.todo = @ \/ (acts /\ rdev.up)]
    /\ UNCHANGED rleft

Agree == 2

Deadline(j) ==
    rthread[j].polls >= (IF At(j, "waiting_down") THEN DownPolls ELSE UpPolls)

\* One turn of _settle.
Poll(j, reading) ==
    LET want == At(j, "waiting_up")
        agree == IF reading = want THEN rthread[j].agree + 1 ELSE 0 IN
    /\ rthread[j].pc \in {"waiting_down", "waiting_up"} /\ ~Deadline(j)
    /\ \/ reading = rdev.up /\ UNCHANGED rleft
       \/ ~reading /\ rdev.up /\ RSpend("flaky")
    /\ IF agree < Agree
       THEN rthread' = [rthread EXCEPT ![j] = [pc |-> @.pc, agree |-> agree,
                           polls |-> IF @.polls < DownPolls + UpPolls THEN @.polls + 1 ELSE @.polls]]
            /\ UNCHANGED rjob
       ELSE IF want THEN Finish(j, "restarted")
       ELSE rthread' = To(j, "waiting_up") /\ UNCHANGED rjob
    /\ UNCHANGED <<rdev, rseen>>

GiveUp(j) ==
    /\ rthread[j].pc \in {"waiting_down", "waiting_up"} /\ Deadline(j)
    /\ Finish(j, IF At(j, "waiting_down") THEN "no_downtime" ELSE "still_down")
    /\ UNCHANGED <<rdev, rseen, rleft>>

\* on_done(state(key)): the record that is there by then, and a scan of the device.
OnDone(j) ==
    /\ At(j, "done") /\ rthread' = To(j, "over")
    /\ UNCHANGED <<rjob, rdev, rseen, rleft>>

RThread(j) == Test(j) \/ Send(j) \/ (\E reading \in BOOLEAN : Poll(j, reading)) \/ GiveUp(j) \/ OnDone(j)

\* The device: goes down for the restart, or without power, and comes back, or not.
GoesDown ==
    /\ rdev.up
    /\ \/ rdev.todo /\ UNCHANGED rleft
       \/ ~rdev.todo /\ RSpend("power")
    /\ rdev' = [up |-> FALSE, todo |-> FALSE]
    /\ rseen' = [j \in Restarts |-> IF rseen[j] = "sent" THEN "quiet" ELSE rseen[j]]
    /\ UNCHANGED <<rjob, rthread>>

ComesUp ==
    /\ ~rdev.up /\ rdev' = [rdev EXCEPT !.up = TRUE]
    /\ rseen' = [j \in Restarts |-> IF rseen[j] = "quiet" THEN "back" ELSE rseen[j]]
    /\ UNCHANGED <<rjob, rthread, rleft>>

RNext == (\E j \in Restarts : Start(j) \/ RThread(j)) \/ GoesDown \/ ComesUp

RSpec == RInit /\ [][RNext]_rvars

(***************************************************************************)
(* Properties.                                                             *)
(***************************************************************************)
Verdicts == {"", "auth_failed", "unreachable", "failed", "no_downtime", "still_down", "restarted"}
Records == [id : 0..RBudget.start, done : BOOLEAN, verdict : Verdicts]

RTypeOK ==
    /\ rjob \in Records /\ rdev \in [up : BOOLEAN, todo : BOOLEAN]
    /\ rthread \in [Restarts -> [pc : {"none", "testing", "sending", "waiting_down", "waiting_up", "done", "over"},
                                 agree : 0..1, polls : 0..(DownPolls + UpPolls)]]
    /\ rseen \in [Restarts -> {"nothing", "sent", "quiet", "back"}]
    /\ rleft \in [start : Nat, flaky : Nat, power : Nat]

\* Only the round trip is reported as restarted (restart.py:11-12): the device really was off the
\* network and came back after the command was reported as sent, although one probe may be wrong.
\* It does not say that the command was the cause: a device that lost its power has made the trip too.
RestartProved == rjob.verdict = "restarted" => rseen[rjob.id] = "back"

\* The record belongs to the restart it was made for: it is done exactly when that restart's own
\* thread has ended, so no restart is shown as over, or with a verdict, because of another one.
VerdictOwn == rjob.id # 0 => (rjob.done <=> rthread[rjob.id].pc \in {"done", "over"})

\* What the page shows of a restart is true, and of that restart.
RestartTrue == RestartProved /\ VerdictOwn
=============================================================================
