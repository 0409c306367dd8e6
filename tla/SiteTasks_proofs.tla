-------------------------- MODULE SiteTasks_proofs --------------------------
(***************************************************************************)
(* What is proved about the tasks of a site that run on their own: the     *)
(* restart of a device (RestartJob), the repair of the VPN (VpnHeal), the  *)
(* DHCP guard (DhcpGuard), live video (CamLive), the changes and jobs of   *)
(* camera settings (CameraJobs) and the pictures of a camera (CamPics),    *)
(* and about the network diagram that people and the scanner edit          *)
(* (Topology), each for every number of restarts, servers, viewers,        *)
(* devices, jobs, lenses and boxes and for every length of its waits.      *)
(***************************************************************************)
EXTENDS RestartJob, VpnHeal, DhcpGuard, CamLive, CameraJobs, CamPics, Topology,
        FiniteSetTheorems, WellFoundedInduction, TLAPS

(***************************************************************************)
(* Restarting a device.                                                    *)
(***************************************************************************)

\* The thread of a restart that is under way.
Active(j) == rthread[j].pc \in {"testing", "sending", "waiting_down", "waiting_up"}

\* The record is of the one thread that is under way, and has no verdict before that one ends.
JobInv ==
    /\ \A j \in Restarts : Active(j) => rjob.id = j /\ ~rjob.done
    /\ ~rjob.done => rjob.id \in Restarts /\ Active(rjob.id) /\ rjob.verdict = ""
    /\ \A j \in Restarts : rjob.id = j => ~At(j, "none")

\* What is noted of a device after the command is what it did, and a thread that waits for it to
\* come back has seen it off: only a probe that was wrong could have said so too soon, once.
SeenInv ==
    \A j \in Restarts :
       /\ rseen[j] = "sent" => rdev.up
       /\ rseen[j] = "quiet" => ~rdev.up
       /\ At(j, "waiting_down") => rseen[j] # "nothing"
       /\ At(j, "waiting_up") => rseen[j] \in {"quiet", "back"}
       /\ At(j, "waiting_down") /\ rthread[j].agree = 1 /\ rseen[j] = "sent" => rleft.flaky = 0

\* The verdict that stands in the record.
ToldInv == rjob.verdict = "restarted" => rjob.id \in Restarts /\ rseen[rjob.id] = "back"

FewWrong == rleft.flaky <= 1

RInv == RTypeOK /\ JobInv /\ SeenInv /\ ToldInv /\ FewWrong

LEMMA RestartInit == RBudget.flaky <= 1 /\ RInit => RInv
<1> SUFFICES ASSUME RBudget.flaky <= 1, RInit PROVE RInv
  OBVIOUS
<1>1. 0 \in 0..RBudget.start /\ 0 \in 0..(DownPolls + UpPolls)
  BY PollsAssumption, RBudgetAssumption
<1>2. rjob \in Records
  BY <1>1 DEF RInit, NoJob, Records, Verdicts
<1>3. RTypeOK
  BY <1>1, <1>2, RBudgetAssumption DEF RInit, NoThread, RTypeOK
<1>4. JobInv /\ ToldInv
  <2>1. \A j \in Restarts : j # 0 /\ rthread[j].pc = "none"
    BY RBudgetAssumption DEF RInit, NoThread, Restarts
  <2>2. rjob.id = 0 /\ rjob.done = TRUE /\ rjob.verdict = ""
    BY DEF RInit, NoJob
  <2> QED BY <2>1, <2>2 DEF JobInv, ToldInv, Active, At
<1>5. SeenInv /\ FewWrong
  BY DEF RInit, SeenInv, FewWrong, NoThread, At
<1> QED BY <1>3, <1>4, <1>5 DEF RInv

\* What a thread may write.
LEMMA JobsTyped ==
    /\ \A j \in Restarts : [id |-> j, done |-> FALSE, verdict |-> ""] \in Records
    /\ \A v \in Verdicts : rjob \in Records => [id |-> rjob.id, done |-> TRUE, verdict |-> v] \in Records
<1>1. \A j \in Restarts : j \in 0..RBudget.start
  BY RBudgetAssumption DEF Restarts
<1>2. \A j \in Restarts : [id |-> j, done |-> FALSE, verdict |-> ""] \in Records
  BY <1>1 DEF Records, Verdicts
<1>3. \A v \in Verdicts : rjob \in Records => [id |-> rjob.id, done |-> TRUE, verdict |-> v] \in Records
  BY DEF Records
<1> QED BY <1>2, <1>3

LEMMA ThreadsTyped == RTypeOK => \A j \in Restarts :
    \A pc \in {"testing", "sending", "waiting_up", "waiting_down", "done", "over"} :
        [rthread EXCEPT ![j] = [pc |-> pc, agree |-> 0, polls |-> 0]] \in
          [Restarts -> [pc : {"none", "testing", "sending", "waiting_down", "waiting_up", "done", "over"},
                        agree : 0..1, polls : 0..(DownPolls + UpPolls)]]
<1>1. 0 \in 0..1 /\ 0 \in 0..(DownPolls + UpPolls)
  BY PollsAssumption
<1> QED BY <1>1 DEF RTypeOK

LEMMA RSpendTyped == ASSUME NEW kind \in {"start", "flaky", "power"}, RTypeOK, RSpend(kind)
                     PROVE  /\ rleft' \in [start : Nat, flaky : Nat, power : Nat]
                            /\ rleft'.flaky = IF kind = "flaky" THEN rleft.flaky - 1 ELSE rleft.flaky
                            /\ rleft[kind] > 0
  BY DEF RTypeOK, RSpend

LEMMA StartKeeps == ASSUME RInv, NEW j \in Restarts, Start(j) PROVE RInv'
<1> USE DEF RInv
<1>1. RTypeOK' /\ FewWrong'
  BY JobsTyped, ThreadsTyped, RSpendTyped DEF Start, To, RTypeOK, FewWrong
<1>2. At(j, "none") /\ rjob.done
  <2>1. j \in Int /\ ~(j < j)
    BY RBudgetAssumption DEF Restarts
  <2> QED BY <2>1 DEF Start, Free
<1>3. \A i \in Restarts : ~Active(i)
  BY <1>2 DEF JobInv
<1>4. /\ rthread'[j].pc = "testing" /\ \A i \in Restarts \ {j} : rthread'[i] = rthread[i]
      /\ rjob' = [id |-> j, done |-> FALSE, verdict |-> ""]
  BY DEF Start, To, RTypeOK
<1>5. JobInv'
  BY <1>3, <1>4 DEF JobInv, Active, At
<1>6. rleft'.flaky = rleft.flaky /\ UNCHANGED <<rdev, rseen>>
  BY RSpendTyped DEF Start
<1>7. SeenInv'
  BY <1>4, <1>6 DEF SeenInv, At
<1> QED BY <1>1, <1>4, <1>5, <1>7 DEF ToldInv

\* A thread that ends: the record was its own.
LEMMA EndKeeps == ASSUME RInv, NEW j \in Restarts, NEW verdict \in Verdicts, Active(j), Finish(j, verdict),
                         verdict = "restarted" => rseen'[j] = "back",
                         rleft' \in [start : Nat, flaky : Nat, power : Nat], rleft'.flaky <= rleft.flaky,
                         rdev' \in [up : BOOLEAN, todo : BOOLEAN], rdev'.up = rdev.up, UNCHANGED rseen
                  PROVE  RInv'
<1> USE DEF RInv
<1>1. rjob' \in Records /\ RTypeOK'
  <2>1. rjob' \in Records
    BY JobsTyped DEF Finish, RTypeOK
  <2>2. rthread' \in [Restarts -> [pc : {"none", "testing", "sending", "waiting_down", "waiting_up", "done", "over"},
                                   agree : 0..1, polls : 0..(DownPolls + UpPolls)]]
    BY ThreadsTyped DEF Finish, To
  <2> QED BY <2>1, <2>2 DEF RTypeOK
<1>2. rjob.id = j
  BY DEF JobInv
<1>3. rjob'.id = j /\ rjob'.done = TRUE /\ rjob'.verdict = verdict
  BY <1>2 DEF Finish, RTypeOK, Records
<1>4. rthread'[j].pc = "done" /\ \A i \in Restarts \ {j} : rthread'[i] = rthread[i] /\ ~Active(i)
  BY <1>2 DEF Finish, To, RTypeOK, JobInv
<1>5. JobInv'
  BY <1>3, <1>4, ZenonT(60) DEF JobInv, Active, At
<1>6. SeenInv'
  BY <1>4 DEF SeenInv, At, Active
<1>7. FewWrong' /\ ToldInv'
  BY <1>3 DEF FewWrong, ToldInv, RTypeOK
<1> QED BY <1>1, <1>5, <1>6, <1>7

LEMMA TestKeeps == ASSUME RInv, NEW j \in Restarts, Test(j) PROVE RInv'
<1> USE DEF RInv
<1>1. CASE rthread' = To(j, "sending") /\ UNCHANGED rjob
  <2>1. RTypeOK'
    BY <1>1, ThreadsTyped DEF Test, To, RTypeOK
  <2>2. rthread'[j].pc = "sending" /\ At(j, "testing") /\ \A i \in Restarts \ {j} : rthread'[i] = rthread[i]
    BY <1>1 DEF Test, To, RTypeOK
  <2>3. JobInv' /\ SeenInv'
    BY <1>1, <2>2, ZenonT(60) DEF Test, JobInv, SeenInv, Active, At
  <2> QED BY <1>1, <2>1, <2>3 DEF Test, ToldInv, FewWrong
<1>2. ASSUME NEW verdict \in {"auth_failed", "unreachable", "failed"}, Finish(j, verdict) PROVE RInv'
  <2>1. Active(j) /\ verdict \in Verdicts /\ verdict # "restarted"
    BY DEF Test, Active, At, Verdicts
  <2>2. /\ rleft' \in [start : Nat, flaky : Nat, power : Nat] /\ rleft'.flaky <= rleft.flaky
        /\ rdev' \in [up : BOOLEAN, todo : BOOLEAN] /\ rdev'.up = rdev.up /\ UNCHANGED rseen
    BY DEF Test, RTypeOK
  <2> HIDE DEF RInv
  <2> QED BY <1>2, <2>1, <2>2, EndKeeps
<1> QED BY <1>1, <1>2 DEF Test

LEMMA SendKeeps == ASSUME RInv, NEW j \in Restarts, Send(j) PROVE RInv'
<1> USE DEF RInv
<1>1. At(j, "sending") /\ UNCHANGED rleft
  BY DEF Send
<1>2. rdev' \in [up : BOOLEAN, todo : BOOLEAN] /\ rdev'.up = rdev.up
  <2>1. PICK acts \in BOOLEAN : rdev' = [rdev EXCEPT !.todo = @ \/ (acts /\ rdev.up)]
    BY DEF Send
  <2>2. (rdev.todo \/ (acts /\ rdev.up)) \in BOOLEAN
    OBVIOUS
  <2>3. rdev' = [up |-> rdev.up, todo |-> rdev.todo \/ (acts /\ rdev.up)]
    BY <2>1 DEF RTypeOK
  <2> HIDE DEF RInv
  <2> QED BY <2>2, <2>3 DEF RInv, RTypeOK
<1> DEFINE seen == IF rdev.up THEN "sent" ELSE "quiet"
<1>3. CASE rthread' = To(j, "waiting_down") /\ rseen' = [rseen EXCEPT ![j] = seen] /\ UNCHANGED rjob
  <2>1. RTypeOK'
    BY <1>1, <1>2, <1>3, ThreadsTyped DEF To, RTypeOK
  <2>2. /\ rthread'[j].pc = "waiting_down" /\ rthread'[j].agree = 0 /\ rseen'[j] = seen
        /\ \A i \in Restarts \ {j} : rthread'[i] = rthread[i] /\ rseen'[i] = rseen[i]
    BY <1>3 DEF To, RTypeOK
  <2>3. Active(j) /\ rjob.verdict = ""
    BY <1>1 DEF JobInv, Active, At
  <2>4. JobInv'
    BY <1>1, <1>3, <2>2, <2>3 DEF JobInv, Active, At
  <2>5. SeenInv'
    BY <1>1, <1>2, <1>3, <2>2 DEF SeenInv, At
  <2> QED BY <1>1, <1>3, <2>1, <2>3, <2>4, <2>5 DEF ToldInv, FewWrong
<1>4. ASSUME NEW verdict \in {"auth_failed", "failed"}, Finish(j, verdict), UNCHANGED rseen PROVE RInv'
  <2>1. Active(j) /\ verdict \in Verdicts /\ verdict # "restarted"
    BY <1>1 DEF Active, At, Verdicts
  <2>2. rleft' \in [start : Nat, flaky : Nat, power : Nat] /\ rleft'.flaky <= rleft.flaky
    BY <1>1 DEF RTypeOK
  <2> HIDE DEF RInv
  <2> QED BY <1>2, <1>4, <2>1, <2>2, EndKeeps
<1> QED BY <1>3, <1>4 DEF Send

\* A reading that differs from what the device is can only be a probe that missed it.
LEMMA Readings == ASSUME RInv, NEW j \in Restarts, NEW reading \in BOOLEAN, Poll(j, reading)
                  PROVE  /\ rleft' \in [start : Nat, flaky : Nat, power : Nat] /\ rleft'.flaky <= rleft.flaky
                         /\ \/ reading = rdev.up /\ rleft' = rleft
                            \/ ~reading /\ rdev.up /\ rleft.flaky = 1 /\ rleft'.flaky = 0
                         /\ UNCHANGED <<rdev, rseen>>
<1>1. CASE reading = rdev.up /\ UNCHANGED rleft
  BY <1>1 DEF Poll, RInv, RTypeOK
<1>2. CASE ~reading /\ rdev.up /\ RSpend("flaky")
  <2>1. rleft.flaky \in Nat /\ rleft.flaky <= 1 /\ rleft.flaky > 0
    BY <1>2, RSpendTyped DEF RInv, RTypeOK, FewWrong
  <2>2. rleft'.flaky = 0 /\ rleft' \in [start : Nat, flaky : Nat, power : Nat]
    BY <1>2, <2>1, RSpendTyped DEF RInv
  <2>3. rleft.flaky = 1 /\ rleft'.flaky <= rleft.flaky
    BY <2>1, <2>2
  <2> QED BY <1>2, <2>2, <2>3 DEF Poll
<1> QED BY <1>1, <1>2 DEF Poll

LEMMA PollKeeps == ASSUME RInv, NEW j \in Restarts, NEW reading \in BOOLEAN, Poll(j, reading) PROVE RInv'
<1> DEFINE want == At(j, "waiting_up")
           agree == IF reading = want THEN rthread[j].agree + 1 ELSE 0
<1>0. rthread[j].pc \in {"waiting_down", "waiting_up"} /\ Active(j)
  BY DEF Poll, Active
<1>1. rthread[j].agree \in 0..1 /\ rthread[j].polls \in 0..(DownPolls + UpPolls)
  BY DEF RInv, RTypeOK
<1>2. CASE agree < Agree
  <2> DEFINE polls == IF rthread[j].polls < DownPolls + UpPolls THEN rthread[j].polls + 1 ELSE rthread[j].polls
  <2>1. /\ rthread' = [rthread EXCEPT ![j] = [pc |-> rthread[j].pc, agree |-> agree, polls |-> polls]]
        /\ UNCHANGED rjob
    BY <1>2 DEF Poll, RInv, RTypeOK
  <2>2. agree \in 0..1 /\ polls \in 0..(DownPolls + UpPolls)
    BY <1>1, <1>2, PollsAssumption DEF Agree
  <2> HIDE DEF agree, polls
  <2>3. [pc |-> rthread[j].pc, agree |-> agree, polls |-> polls] \in
            [pc : {"none", "testing", "sending", "waiting_down", "waiting_up", "done", "over"},
             agree : 0..1, polls : 0..(DownPolls + UpPolls)]
    BY <1>0, <2>2
  <2>3a. rthread' \in [Restarts -> [pc : {"none", "testing", "sending", "waiting_down", "waiting_up", "done", "over"},
                                     agree : 0..1, polls : 0..(DownPolls + UpPolls)]]
    BY <2>1, <2>3 DEF RInv, RTypeOK
  <2>4. RTypeOK'
    BY <2>1, <2>3a, Readings DEF RInv, RTypeOK
  <2>5. /\ rthread'[j].pc = rthread[j].pc /\ rthread'[j].agree = agree
        /\ \A i \in Restarts \ {j} : rthread'[i] = rthread[i]
    BY <2>1 DEF RInv, RTypeOK
  <2>6. JobInv'
    BY <2>1, <2>5, ZenonT(60) DEF RInv, JobInv, Active, At
  <2>7. At(j, "waiting_down") /\ agree = 1 /\ rseen[j] = "sent" => rleft'.flaky = 0
    <3> SUFFICES ASSUME At(j, "waiting_down"), agree = 1, rseen[j] = "sent" PROVE rleft'.flaky = 0
      OBVIOUS
    <3>1. reading = FALSE /\ rdev.up
      BY DEF agree, At, RInv, SeenInv
    <3> QED BY <3>1, Readings
  <2>8. \A i \in Restarts : rleft.flaky = 0 => rleft'.flaky = 0
    BY Readings DEF RInv, RTypeOK
  <2>9. SeenInv'
    <3>1. UNCHANGED <<rdev, rseen>>
      BY Readings
    <3> QED BY <2>5, <2>7, <2>8, <3>1 DEF RInv, SeenInv, At
  <2>10. FewWrong'
    BY Readings DEF RInv, RTypeOK, FewWrong
  <2> QED BY <2>1, <2>4, <2>6, <2>9, <2>10, Readings DEF RInv, ToldInv
<1>3. CASE ~(agree < Agree)
  <2>1. reading = want /\ rthread[j].agree = 1
    BY <1>1, <1>3 DEF Agree
  <2>2. CASE want
    <3>1. rdev.up /\ rseen[j] = "back"
      BY <2>1, <2>2, Readings DEF RInv, SeenInv, At
    <3>2. Finish(j, "restarted")
      BY <1>3, <2>2 DEF Poll
    <3>3. "restarted" \in Verdicts
      BY DEF Verdicts
    <3>4. rdev' \in [up : BOOLEAN, todo : BOOLEAN] /\ rdev'.up = rdev.up /\ rseen'[j] = "back"
      <4>1. rdev \in [up : BOOLEAN, todo : BOOLEAN]
        BY DEF RInv, RTypeOK
      <4> QED BY <3>1, <4>1, Readings
    <3> QED BY <1>0, <3>2, <3>3, <3>4, Readings, EndKeeps
  <2>3. CASE ~want
    <3>1. rthread' = To(j, "waiting_up") /\ UNCHANGED rjob
      BY <1>3, <2>3 DEF Poll
    <3>2. At(j, "waiting_down") /\ ~reading
      BY <1>0, <2>1, <2>3 DEF At
    <3>3. rseen[j] \in {"quiet", "back"}
      <4>1. rseen[j] # "nothing" /\ (rseen[j] = "sent" => rdev.up /\ rleft.flaky = 0)
        BY <2>1, <3>2 DEF RInv, SeenInv
      <4>2. rseen[j] # "sent"
        BY <3>2, <4>1, Readings
      <4> QED BY <4>1, <4>2 DEF RInv, RTypeOK
    <3>4. RTypeOK'
      BY <3>1, ThreadsTyped, Readings DEF RInv, RTypeOK, To
    <3>5. rthread'[j].pc = "waiting_up" /\ \A i \in Restarts \ {j} : rthread'[i] = rthread[i]
      BY <3>1 DEF To, RInv, RTypeOK
    <3>6. JobInv'
      BY <1>0, <3>1, <3>5 DEF RInv, JobInv, Active, At
    <3>7. FewWrong' /\ \A i \in Restarts : rleft.flaky = 0 => rleft'.flaky = 0
      BY Readings DEF RInv, RTypeOK, FewWrong
    <3>8. SeenInv'
      <4>1. UNCHANGED <<rdev, rseen>>
        BY Readings
      <4> QED BY <3>3, <3>5, <3>7, <4>1 DEF RInv, SeenInv, At
    <3> QED BY <3>1, <3>4, <3>6, <3>7, <3>8, Readings DEF RInv, ToldInv
  <2> QED BY <2>2, <2>3
<1> QED BY <1>2, <1>3

LEMMA ThreadKeeps == ASSUME RInv, NEW j \in Restarts, RThread(j) PROVE RInv'
<1>1. CASE GiveUp(j)
  <2>1. PICK verdict \in {"no_downtime", "still_down"} : Finish(j, verdict)
    BY <1>1 DEF GiveUp
  <2>2. Active(j) /\ verdict \in Verdicts /\ verdict # "restarted"
    BY <1>1 DEF GiveUp, Active, Verdicts
  <2>3. /\ rleft' \in [start : Nat, flaky : Nat, power : Nat] /\ rleft'.flaky <= rleft.flaky
        /\ rdev' \in [up : BOOLEAN, todo : BOOLEAN] /\ rdev'.up = rdev.up /\ UNCHANGED rseen
    BY <1>1 DEF GiveUp, RInv, RTypeOK
  <2> QED BY <2>1, <2>2, <2>3, EndKeeps
<1>2. CASE OnDone(j)
  <2>1. rthread'[j].pc = "over" /\ \A i \in Restarts \ {j} : rthread'[i] = rthread[i]
    BY <1>2 DEF OnDone, To, RInv, RTypeOK
  <2>2. RTypeOK'
    BY <1>2, ThreadsTyped DEF OnDone, To, RInv, RTypeOK
  <2>3. ~Active(j)
    BY <1>2 DEF OnDone, Active, At
  <2>4. JobInv' /\ SeenInv'
    BY <1>2, <2>1, <2>3, ZenonT(60) DEF OnDone, RInv, JobInv, SeenInv, Active, At
  <2> QED BY <1>2, <2>2, <2>4 DEF OnDone, RInv, ToldInv, FewWrong
<1> QED BY <1>1, <1>2, TestKeeps, SendKeeps, PollKeeps DEF RThread

LEMMA DeviceKeeps == ASSUME RInv, GoesDown \/ ComesUp PROVE RInv'
<1>1. rleft' \in [start : Nat, flaky : Nat, power : Nat] /\ rleft'.flaky = rleft.flaky /\ UNCHANGED <<rjob, rthread>>
  BY RSpendTyped DEF RInv, RTypeOK, GoesDown, ComesUp
<1>2. /\ rdev' \in [up : BOOLEAN, todo : BOOLEAN] /\ rdev'.up = ~rdev.up
      /\ rseen' \in [Restarts -> {"nothing", "sent", "quiet", "back"}]
  <2>1. rseen' \in [Restarts -> {"nothing", "sent", "quiet", "back"}]
    BY DEF RInv, RTypeOK, GoesDown, ComesUp
  <2>2. CASE GoesDown
    BY <2>1, <2>2 DEF GoesDown
  <2>3. CASE ComesUp
    <3>1. rdev' = [up |-> TRUE, todo |-> rdev.todo] /\ rdev.todo \in BOOLEAN /\ rdev.up = FALSE
      BY <2>3 DEF RInv, RTypeOK, ComesUp
    <3> QED BY <2>1, <3>1
  <2> QED BY <2>2, <2>3
<1>3. RTypeOK' /\ FewWrong' /\ JobInv'
  BY <1>1, <1>2 DEF RInv, RTypeOK, FewWrong, JobInv, Active, At
<1>4. \A j \in Restarts : rseen'[j] = IF rdev.up /\ rseen[j] = "sent" THEN "quiet"
                                      ELSE IF ~rdev.up /\ rseen[j] = "quiet" THEN "back" ELSE rseen[j]
  BY DEF RInv, RTypeOK, SeenInv, GoesDown, ComesUp
<1>5. SeenInv' /\ ToldInv'
  BY <1>1, <1>2, <1>4 DEF RInv, RTypeOK, SeenInv, ToldInv, At
<1> QED BY <1>3, <1>5 DEF RInv

\* The verdict "restarted" is given only for a device that was off the network and came back after
\* that command was reported as sent (whether or not the command was the cause), and the record is
\* always of the restart it was made for: for any number of restarts and any deadlines, while at
\* most one probe of a device that is up gets no answer.
THEOREM RestartsToldTrue == ASSUME RBudget.flaky <= 1 PROVE RSpec => []RestartTrue
<1>1. RInit => RInv
  BY RestartInit
<1>2. RInv /\ [RNext]_rvars => RInv'
  <2> SUFFICES ASSUME RInv, [RNext]_rvars PROVE RInv'
    OBVIOUS
  <2>1. CASE UNCHANGED rvars
    BY <2>1 DEF rvars, RInv, RTypeOK, JobInv, SeenInv, ToldInv, FewWrong, Active, At
  <2> QED BY <2>1, StartKeeps, ThreadKeeps, DeviceKeeps DEF RNext
<1>3. RInv => RestartTrue
  <2> SUFFICES ASSUME RInv PROVE RestartTrue
    OBVIOUS
  <2>1. rjob.id # 0 => rjob.id \in Restarts
    BY RBudgetAssumption DEF RInv, RTypeOK, Records, Restarts
  <2>2. rjob.id # 0 => rthread[rjob.id].pc \in {"none", "testing", "sending", "waiting_down", "waiting_up", "done", "over"}
    BY <2>1 DEF RInv, RTypeOK
  <2> QED BY <2>1, <2>2 DEF RInv, JobInv, ToldInv, Active, At, RestartTrue, RestartProved, VerdictOwn
<1> QED BY <1>1, <1>2, <1>3, PTL DEF RSpec

(***************************************************************************)
(* The repair of the VPN.                                                  *)
(***************************************************************************)

\* While the repair counts, the silence there was and the wait there is make up the time it has
\* to hold before a step.
PatienceInv == heal.down => hquiet + heal.wait >= After + 1

LEMMA HealTyped == \A d \in BOOLEAN, w \in 0..Cap, n \in 0..2 :
                      [down |-> d, wait |-> w, steps |-> n] \in [down : BOOLEAN, wait : 0..Cap, steps : 0..2]
  OBVIOUS

LEMMA HealInit == HInit => HTypeOK /\ PatienceInv
<1> SUFFICES ASSUME HInit PROVE HTypeOK /\ PatienceInv
  OBVIOUS
<1>1. 0 \in 0..Cap
  BY AfterAssumption DEF Cap
<1> QED BY <1>1, HealTyped DEF HInit, HTypeOK, PatienceInv, Faults, Resting

LEMMA Clock == HTypeOK => /\ \A n \in 0..Cap : More(n) \in 0..Cap /\ Less(n) \in 0..Cap
                          /\ \A n \in 0..Cap : More(n) >= n /\ (n < After + 1 => More(n) = n + 1)
                          /\ \A n \in 0..Cap : Less(n) = IF n = 0 THEN 0 ELSE n - 1
                          /\ After \in 0..Cap /\ Repeat \in 0..Cap /\ 0 \in 0..Cap
  BY AfterAssumption DEF Cap, More, Less

LEMMA BeatKeeps == HTypeOK /\ PatienceInv /\ Beat => HTypeOK' /\ PatienceInv' /\ heal'.steps <= heal.steps
<1> SUFFICES ASSUME HTypeOK, PatienceInv, Beat PROVE HTypeOK' /\ PatienceInv' /\ heal'.steps <= heal.steps
  OBVIOUS
<1>0. heal \in [down : BOOLEAN, wait : 0..Cap, steps : 0..2] /\ hquiet \in 0..Cap
  BY DEF HTypeOK
<1>1. CASE heal' = Resting
  <2>1. hquiet' \in 0..Cap
    BY <1>0, Clock DEF Beat
  <2>2. heal' = [down |-> FALSE, wait |-> 0, steps |-> 0]
    BY <1>1 DEF Resting
  <2>3. heal' \in [down : BOOLEAN, wait : 0..Cap, steps : 0..2]
    BY <2>2, Clock, HealTyped
  <2> QED BY <1>0, <2>1, <2>2, <2>3 DEF Beat, HTypeOK, PatienceInv
<1>2. CASE heal' = [heal EXCEPT !.wait = Less(@)] /\ hquiet' = More(hquiet)
  <2>1. heal' \in [down : BOOLEAN, wait : 0..Cap, steps : 0..2] /\ hquiet' \in 0..Cap
    BY <1>0, <1>2, Clock
  <2>2. heal'.down = heal.down /\ heal'.wait = Less(heal.wait) /\ heal'.steps = heal.steps
    BY <1>0, <1>2
  <2>3. heal.down => More(hquiet) + Less(heal.wait) >= After + 1
    BY <1>0, Clock, AfterAssumption DEF PatienceInv
  <2> QED BY <1>0, <1>2, <2>1, <2>2, <2>3 DEF Beat, HTypeOK, PatienceInv
<1>3. CASE heal' = [down |-> TRUE, wait |-> After, steps |-> 0] /\ hquiet' = More(hquiet)
  <2>1. heal' \in [down : BOOLEAN, wait : 0..Cap, steps : 0..2] /\ hquiet' \in 0..Cap
    BY <1>0, <1>3, Clock
  <2>2. More(hquiet) + After >= After + 1
    BY <1>0, Clock, AfterAssumption
  <2> QED BY <1>0, <1>3, <2>1, <2>2 DEF Beat, HTypeOK, PatienceInv
<1> QED BY <1>1, <1>2, <1>3 DEF Beat, Forgotten, HubUp, HTypeOK

LEMMA HStepKeeps == ASSUME HTypeOK, PatienceInv, NEW works \in BOOLEAN, Step(works)
                    PROVE  HTypeOK' /\ PatienceInv' /\ hquiet >= After
<1>0. heal \in [down : BOOLEAN, wait : 0..Cap, steps : 0..2] /\ hquiet \in 0..Cap /\ hfault \in Faults
  BY DEF HTypeOK
<1> DEFINE wait == WaitAfter(TheStep)
           steps == IF heal.steps < 2 THEN heal.steps + 1 ELSE heal.steps
<1>1. wait \in {After, Repeat} /\ wait >= 1 /\ wait \in 0..Cap /\ steps \in 0..2
  BY <1>0, AfterAssumption DEF WaitAfter, Cap
<1>2. heal'.down = heal.down /\ heal'.wait = wait /\ heal' \in [down : BOOLEAN, wait : 0..Cap, steps : 0..2]
  <2>1. heal' = [heal EXCEPT !.steps = steps, !.wait = wait]
    BY DEF Step
  <2> HIDE DEF wait, steps
  <2> QED BY <1>0, <1>1, <2>1
<1>3. hquiet >= After
  BY <1>0, AfterAssumption DEF Step, Due, PatienceInv
<1>4. hquiet' \in 0..Cap /\ hquiet' >= After + 1
  BY <1>0, <1>3, AfterAssumption DEF Step, More, Cap
<1>5. hfault' \in Faults
  BY <1>0 DEF Step, Faults
<1> HIDE DEF wait, steps
<1>6. PatienceInv'
  <2>1. wait \in Nat /\ wait >= 1 /\ hquiet' \in Nat /\ hquiet' >= After + 1
    BY <1>1, <1>4, AfterAssumption DEF Cap
  <2>2. \A q, w \in Nat : q >= After + 1 => q + w >= After + 1
    BY AfterAssumption
  <2>3. hquiet' + wait >= After + 1
    BY <2>1, <2>2
  <2> QED BY <1>2, <2>3 DEF PatienceInv
<1> QED BY <1>2, <1>3, <1>4, <1>5, <1>6 DEF Step, HTypeOK

LEMMA WorldKeeps == ASSUME HTypeOK, PatienceInv, FaultComes \/ HubBack \/ NetTurns \/ WgTurns \/ HealCrash \/ UNCHANGED hvars
                    PROVE  HTypeOK' /\ PatienceInv' /\ heal'.steps <= heal.steps
<1>1. CASE HealCrash
  <2>1. heal' \in [down : BOOLEAN, wait : 0..Cap, steps : 0..2] /\ ~heal'.down /\ heal'.steps = 0
    BY <1>1, Clock, HealTyped DEF HealCrash, Resting
  <2> QED BY <1>1, <2>1 DEF HealCrash, HTypeOK, PatienceInv
<1>2. CASE FaultComes \/ HubBack \/ NetTurns \/ WgTurns \/ UNCHANGED hvars
  <2>1. UNCHANGED <<heal, hquiet>> /\ hfault' \in Faults /\ hnet' \in BOOLEAN /\ hwg' \in BOOLEAN
    BY <1>2 DEF FaultComes, HubBack, NetTurns, WgTurns, hvars, HTypeOK, Faults
  <2> QED BY <2>1 DEF HTypeOK, PatienceInv
<1> QED BY <1>1, <1>2

\* The repair is gentle, whatever its times are: no step before the hub was silent for After
\* heartbeats, and an internet that fails meanwhile starts the clock again.
THEOREM RepairIsPatient == HSpec => StepsPatient
<1>1. HInit => HTypeOK /\ PatienceInv
  BY HealInit
<1>2. HTypeOK /\ PatienceInv /\ [HNext]_hvars => (HTypeOK /\ PatienceInv)' /\ (heal'.steps > heal.steps => hquiet >= After)
  <2> SUFFICES ASSUME HTypeOK, PatienceInv, [HNext]_hvars
               PROVE  (HTypeOK /\ PatienceInv)' /\ (heal'.steps > heal.steps => hquiet >= After)
    OBVIOUS
  <2>1. heal'.steps <= heal.steps /\ HTypeOK' => ~(heal'.steps > heal.steps)
    BY DEF HTypeOK
  <2>2. CASE Beat
    BY <2>1, <2>2, BeatKeeps
  <2>3. CASE \E works \in BOOLEAN : Step(works)
    BY <2>3, HStepKeeps
  <2>4. CASE FaultComes \/ HubBack \/ NetTurns \/ WgTurns \/ HealCrash \/ UNCHANGED hvars
    BY <2>1, <2>4, WorldKeeps
  <2> QED BY <2>2, <2>3, <2>4 DEF HNext, Heartbeat
<1>3. HTypeOK /\ PatienceInv /\ [HNext]_hvars => [heal'.steps > heal.steps => hquiet >= After]_hvars
  BY <1>2
<1> QED BY <1>1, <1>2, <1>3, PTL DEF HSpec, StepsPatient

(***************************************************************************)
(* The DHCP guard.                                                         *)
(***************************************************************************)

\* A check that is under way, and what it holds.
Probing(c) == c.pc = "probe" /\ c = [pc |-> "probe", allowed |-> c.allowed]
Tracking(c) ==
    /\ c.pc = "track" /\ c = [pc |-> "track", allowed |-> c.allowed, heard |-> c.heard]
    /\ DOMAIN c.heard \subseteq Servers /\ \A m \in DOMAIN c.heard : c.heard[m] \in Levels

\* One check at a time, with the servers allowed when it began.
CheckInv ==
    /\ DOMAIN gcheck = Checkers
    /\ \A t \in Checkers : gcheck[t] = NoCheck \/ Probing(gcheck[t]) \/ Tracking(gcheck[t])
    /\ \A t \in Checkers : gcheck[t] # NoCheck => gbusy /\ gcheck[t].allowed \subseteq gcfg.allowed
    /\ \A t, u \in Checkers : gcheck[t] # NoCheck /\ gcheck[u] # NoCheck => t = u

\* The misses a suspect has are checks that did not hear it, one of which may have to be noted yet.
MissesInv ==
    \A m \in Servers \ gcfg.allowed : Listed(m) =>
       /\ ~HeardOnly(m) => glist[m].misses <= gsilent[m]
       /\ \A t \in Checkers : gcheck[t].pc = "track" /\ m \notin DOMAIN gcheck[t].heard =>
             glist[m].misses + 1 <= gsilent[m]

GInv == GTypeOK /\ CheckInv /\ MissesInv

LEMMA GuardInit == GInit => GInv
<1> SUFFICES ASSUME GInit PROVE GInv
  OBVIOUS
<1>1. 0 \in 0..GoneAfter /\ Unlisted = Unlisted
  BY GoneAssumption
<1>2. gcfg \in [on : BOOLEAN, allowed : SUBSET Servers]
  BY DEF GInit
<1>3. GTypeOK
  BY <1>1, <1>2 DEF GInit, GTypeOK, NoCheck
<1>4. \A t \in Checkers : gcheck[t] = NoCheck /\ gcheck[t].pc = "idle"
  BY DEF GInit, NoCheck
<1>5. \A m \in Servers : ~Listed(m)
  BY DEF GInit, Listed
<1>6. DOMAIN gcheck = Checkers
  BY DEF GInit
<1> QED BY <1>3, <1>4, <1>5, <1>6 DEF GInv, CheckInv, MissesInv

\* An entry of the list.
Entry == [level : Levels, misses : 0..(GoneAfter - 1)]

LEMMA Entries == GTypeOK => \A m \in Servers : Listed(m) =>
                    /\ glist[m] \in Entry /\ glist[m].misses \in Nat /\ glist[m].misses < GoneAfter
                    /\ gsilent[m] \in 0..GoneAfter
<1> SUFFICES ASSUME GTypeOK, NEW m \in Servers, Listed(m)
             PROVE  /\ glist[m] \in Entry /\ glist[m].misses \in Nat /\ glist[m].misses < GoneAfter
                    /\ gsilent[m] \in 0..GoneAfter
  OBVIOUS
<1>1. glist[m] \in Entry /\ gsilent[m] \in 0..GoneAfter
  BY DEF GTypeOK, Listed, Entry
<1> QED BY <1>1, GoneAssumption DEF Entry

\* What leaves the list, and what was heard, as it is.
LEMMA MissesFrame ==
    ASSUME GInv, UNCHANGED <<glist, gsilent>>, gcfg.allowed \subseteq gcfg'.allowed,
           \A t \in Checkers : gcheck'[t] = gcheck[t] \/ (gcheck[t].pc # "track" /\ gcheck'[t].pc # "track")
    PROVE  MissesInv'
<1>1. \A m : HeardOnly(m)' <=> HeardOnly(m)
  BY DEF HeardOnly
<1>2. \A m : Listed(m)' <=> Listed(m)
  BY DEF Listed
<1> QED BY <1>1, <1>2 DEF GInv, MissesInv

LEMMA NoneProbes == ASSUME GInv, NEW t \in Checkers, gcheck[t].pc # "idle"
                    PROVE  gcheck[t] # NoCheck /\ gbusy /\ \A u \in Checkers \ {t} : gcheck[u] = NoCheck
<1>1. gcheck[t] # NoCheck
  BY DEF NoCheck
<1> QED BY <1>1 DEF GInv, CheckInv

LEMMA BeginKeeps == ASSUME GInv, NEW t \in Checkers, CheckBegin(t) PROVE GInv'
<1> DEFINE c == [pc |-> "probe", allowed |-> gcfg.allowed]
<1>1. /\ UNCHANGED <<gserv, gcfg, glist, gallow, glast, gsilent>> /\ gbusy' = TRUE
      /\ gcheck' = [gcheck EXCEPT ![t] = c] /\ \A u \in Checkers : gcheck[u] = NoCheck
  BY DEF GInv, CheckInv, CheckBegin, MayBegin
<1>2. c.pc = "probe" /\ Probing(c) /\ c.allowed = gcfg.allowed /\ c # NoCheck /\ NoCheck.pc = "idle"
  BY DEF Probing, NoCheck
<1> HIDE DEF c
<1>3. \A u \in Checkers : gcheck'[u] = IF u = t THEN c ELSE NoCheck
  BY <1>1 DEF GInv, CheckInv
<1>4. GTypeOK'
  BY <1>1, <1>2, <1>3 DEF GInv, GTypeOK
<1>5. CheckInv'
  <2>1. DOMAIN gcheck' = Checkers
    BY <1>1 DEF GInv, CheckInv
  <2> QED BY <1>1, <1>2, <1>3, <2>1 DEF CheckInv
<1>6. MissesInv'
  BY <1>1, <1>2, <1>3, MissesFrame
<1> QED BY <1>4, <1>5, <1>6 DEF GInv

LEMMA ProbeKeeps == ASSUME GInv, NEW t \in Checkers, Probe(t) PROVE GInv'
<1>1. PICK S \in SUBSET Serving :
         /\ gcheck' = [gcheck EXCEPT ![t] = Heard(t, S)]
         /\ gsilent' = [m \in Servers |-> IF m \in S THEN 0 ELSE IF gsilent[m] < GoneAfter THEN gsilent[m] + 1 ELSE GoneAfter]
  BY DEF Probe
<1>2. UNCHANGED <<gserv, gcfg, gbusy, glist, gallow, glast>> /\ gcheck[t].pc = "probe"
  BY DEF Probe
<1> DEFINE c == Heard(t, S)
<1>3. /\ Tracking(c) /\ c # NoCheck /\ c.pc = "track" /\ c.allowed = gcheck[t].allowed
      /\ DOMAIN c.heard = S
  <2>1. S \subseteq Servers /\ \A m \in S : gserv[m] \in Levels
    BY DEF Serving, GInv, GTypeOK
  <2>2. c = [pc |-> "track", allowed |-> gcheck[t].allowed, heard |-> [m \in S |-> gserv[m]]]
    BY DEF Heard
  <2> HIDE DEF c
  <2>3. c.pc = "track" /\ c.allowed = gcheck[t].allowed /\ c.heard = [m \in S |-> gserv[m]]
    BY <2>2
  <2>4. DOMAIN c.heard = S /\ \A m \in S : c.heard[m] = gserv[m]
    BY <2>3
  <2>5. c # NoCheck
    BY <2>3 DEF NoCheck
  <2> QED BY <2>1, <2>2, <2>3, <2>4, <2>5 DEF Tracking
<1> HIDE DEF c
<1>4. \A u \in Checkers : gcheck'[u] = IF u = t THEN c ELSE NoCheck
  BY <1>1, <1>2, NoneProbes DEF GInv, CheckInv, c
<1>5. \A m \in Servers : /\ gsilent'[m] \in 0..GoneAfter
                         /\ m \notin S => (\A n \in Nat : n < GoneAfter /\ n <= gsilent[m] => n + 1 <= gsilent'[m])
  BY <1>1, GoneAssumption DEF GInv, GTypeOK
<1>6. GTypeOK'
  <2>1. gsilent' \in [Servers -> 0..GoneAfter]
    BY <1>1, <1>5
  <2>2. \A u \in Checkers : gcheck'[u].pc \in {"idle", "probe", "track"}
    BY <1>3, <1>4 DEF NoCheck
  <2> QED BY <1>2, <2>1, <2>2 DEF GInv, GTypeOK
<1>7. CheckInv'
  <2>1. DOMAIN gcheck' = Checkers
    BY <1>1 DEF GInv, CheckInv
  <2>2. gbusy /\ c.allowed \subseteq gcfg.allowed
    BY <1>2, <1>3, NoneProbes DEF GInv, CheckInv
  <2> QED BY <1>2, <1>3, <1>4, <2>1, <2>2 DEF CheckInv
<1>8. MissesInv'
  <2> SUFFICES ASSUME NEW m \in Servers \ gcfg.allowed, Listed(m)
               PROVE  /\ ~HeardOnly(m)' => glist[m].misses <= gsilent'[m]
                      /\ m \notin S => glist[m].misses + 1 <= gsilent'[m]
    BY <1>2, <1>3, <1>4 DEF MissesInv, Listed, NoCheck
  <2>1. glist[m].misses \in Nat /\ glist[m].misses < GoneAfter
    BY Entries DEF GInv
  <2>2. ~HeardOnly(m)
    <3>1. \A u \in Checkers : gcheck[u].pc # "track"
      BY <1>2, NoneProbes DEF NoCheck
    <3> QED BY <3>1 DEF HeardOnly
  <2>3. glist[m].misses <= gsilent[m]
    BY <2>2 DEF GInv, MissesInv
  <2>4. m \notin S => glist[m].misses + 1 <= gsilent'[m]
    BY <1>5, <2>1, <2>3
  <2>5. m \in S => HeardOnly(m)'
    BY <1>3, <1>4 DEF HeardOnly
  <2>6. glist[m].misses + 1 <= gsilent'[m] => glist[m].misses <= gsilent'[m]
    BY <1>5, <2>1
  <2> QED BY <2>4, <2>5, <2>6
<1> QED BY <1>6, <1>7, <1>8 DEF GInv

LEMMA FailKeeps == ASSUME GInv, NEW t \in Checkers, ProbeFails(t) PROVE GInv'
<1>1. Failed(t) /\ gcheck[t].pc = "probe" /\ UNCHANGED <<gserv, gcfg, glist, gallow, glast, gsilent>>
  BY DEF ProbeFails
<1>2. gcheck[t] # NoCheck /\ gbusy' = FALSE /\ \A u \in Checkers : gcheck'[u] = NoCheck
  BY <1>1, NoneProbes DEF Failed, GInv, CheckInv
<1>3. NoCheck.pc = "idle"
  BY DEF NoCheck
<1>4. CheckInv'
  BY <1>2, <1>1 DEF Failed, GInv, CheckInv
<1>5. MissesInv'
  BY <1>1, <1>2, <1>3, NoneProbes, MissesFrame
<1> QED BY <1>1, <1>2, <1>3, <1>4, <1>5 DEF GInv, GTypeOK

\* The list after a check, and what was told.
LEMMA NotedIs == ASSUME GInv, NEW t \in Checkers, Track(t), NEW m \in Servers
               PROVE  /\ m \in Suspects(t) => glist'[m] \in Entry /\ glist'[m].misses = 0
                      /\ m \notin Suspects(t) /\ Listed(m) /\ m \notin Gone(t) =>
                            glist'[m] \in Entry /\ glist'[m].misses = glist[m].misses + 1
                      /\ m \notin Suspects(t) /\ ~(Listed(m) /\ m \notin Gone(t)) => glist'[m] = Unlisted
                      /\ glast'[m] \in Levels \/ glast'[m] = glast[m] \/ (glast'[m] = "gone" /\ m \in Gone(t))
<1> DEFINE heard == gcheck[t].heard
<1>1. Tracking(gcheck[t])
  BY DEF Track, GInv, CheckInv, Probing, NoCheck
<1>2. m \in Suspects(t) => heard[m] \in Levels
  BY <1>1 DEF Tracking, Suspects
<1>3. CASE m \in Suspects(t)
  <2>1. glist'[m] = [level |-> heard[m], misses |-> 0]
    BY <1>3 DEF Track
  <2>2. 0 \in 0..(GoneAfter - 1)
    BY GoneAssumption
  <2>3. glist'[m] \in Entry /\ glist'[m].misses = 0
    BY <1>2, <1>3, <2>1, <2>2 DEF Entry
  <2>4. m \notin Gone(t)
    BY <1>3 DEF Gone
  <2>5. glast'[m] \in Levels \/ glast'[m] = glast[m]
    BY <1>2, <1>3, <2>4 DEF Track
  <2> QED BY <1>3, <2>3, <2>5
<1>4. CASE m \notin Suspects(t)
  <2>1. glast'[m] = glast[m] \/ (glast'[m] = "gone" /\ m \in Gone(t))
    BY <1>4 DEF Track
  <2>2. ASSUME Listed(m), m \notin Gone(t) PROVE glist'[m] \in Entry /\ glist'[m].misses = glist[m].misses + 1
    <3>1. glist[m] \in Entry /\ glist[m].misses \in Nat
      BY <2>2, Entries DEF GInv
    <3>2. glist[m].misses + 1 \in 0..(GoneAfter - 1)
      BY <1>4, <2>2, <3>1, GoneAssumption DEF Gone
    <3>3. glist'[m] = [glist[m] EXCEPT !.misses = glist[m].misses + 1]
      BY <1>4, <2>2 DEF Track
    <3> QED BY <3>1, <3>2, <3>3 DEF Entry
  <2>3. ~(Listed(m) /\ m \notin Gone(t)) => glist'[m] = Unlisted
    BY <1>4 DEF Track
  <2> QED BY <1>4, <2>1, <2>2, <2>3
<1> QED BY <1>3, <1>4

\* Who is gone after a check was not heard, nor at the GoneAfter - 1 checks before.
LEMMA GoneSilent == ASSUME GInv, NEW t \in Checkers, Track(t), NEW m \in Servers \ gcfg.allowed, m \notin Suspects(t), Listed(m)
                    PROVE  /\ glist[m].misses + 1 <= gsilent[m]
                           /\ m \in Gone(t) => gsilent[m] >= GoneAfter
<1>1. gcheck[t].pc = "track" /\ gcheck[t] # NoCheck
  BY DEF Track, NoCheck
<1>2. m \notin DOMAIN gcheck[t].heard
  BY <1>1 DEF Suspects, GInv, CheckInv
<1>3. glist[m].misses + 1 <= gsilent[m]
  BY <1>1, <1>2 DEF GInv, MissesInv
<1>4. m \in Gone(t) => glist[m].misses + 1 >= GoneAfter
  BY DEF Gone
<1>5. glist[m].misses \in Nat /\ gsilent[m] \in 0..GoneAfter
  BY Entries DEF GInv
<1> QED BY <1>3, <1>4, <1>5, GoneAssumption

LEMMA TrackKeeps == ASSUME GInv, NEW t \in Checkers, Track(t)
                    PROVE  /\ GInv'
                           /\ \A m \in Servers \ gcfg.allowed :
                                 glast'[m] = "gone" /\ glast[m] # "gone" => gsilent[m] >= GoneAfter
<1>1. /\ gcheck' = [gcheck EXCEPT ![t] = NoCheck] /\ gbusy' = FALSE
      /\ UNCHANGED <<gserv, gcfg, gallow, gsilent, gleft>> /\ gcheck[t].pc = "track"
  BY DEF Track
<1>2. gcheck[t] # NoCheck /\ NoCheck.pc = "idle"
  BY <1>1 DEF NoCheck
<1>3. DOMAIN gcheck' = Checkers /\ \A u \in Checkers : gcheck'[u] = NoCheck
  BY <1>1, <1>2 DEF GInv, CheckInv
<1>4. CheckInv'
  BY <1>1, <1>3 DEF CheckInv
<1>5. GTypeOK'
  <2>1. DOMAIN glist' = Servers /\ glist' = [m \in Servers |-> glist'[m]]
    BY DEF Track
  <2>2. glist' \in [Servers -> [level : Levels, misses : 0..(GoneAfter - 1)] \cup {Unlisted}]
    BY <2>1, NotedIs DEF Entry
  <2>3. DOMAIN glast' = Servers /\ glast' = [m \in Servers |-> glast'[m]]
    BY DEF Track
  <2>4. glast' \in [Servers -> Levels \cup {"none", "gone"}]
    BY <2>3, NotedIs DEF GInv, GTypeOK
  <2> QED BY <1>1, <1>2, <1>3, <2>2, <2>4 DEF GInv, GTypeOK
<1>6. MissesInv'
  <2> SUFFICES ASSUME NEW m \in Servers \ gcfg.allowed, Listed(m)' PROVE glist'[m].misses <= gsilent'[m]
    BY <1>1, <1>2, <1>3 DEF MissesInv
  <2>1. gsilent'[m] = gsilent[m] /\ gsilent[m] \in 0..GoneAfter
    BY <1>1 DEF GInv, GTypeOK
  <2>2. CASE m \in Suspects(t)
    BY <2>1, <2>2, NotedIs, GoneAssumption
  <2>3. CASE m \notin Suspects(t)
    <3>1. Listed(m) /\ m \notin Gone(t)
      BY <2>3, NotedIs DEF Listed
    <3> QED BY <2>1, <2>3, <3>1, NotedIs, GoneSilent
  <2> QED BY <2>2, <2>3
<1>7. ASSUME NEW m \in Servers \ gcfg.allowed, glast'[m] = "gone", glast[m] # "gone" PROVE gsilent[m] >= GoneAfter
  <2>1. m \in Gone(t)
    BY <1>7, NotedIs DEF Levels
  <2>2. Listed(m) /\ m \notin Suspects(t)
    BY <2>1 DEF Gone
  <2> QED BY <2>1, <2>2, GoneSilent
<1> QED BY <1>4, <1>5, <1>6, <1>7 DEF GInv

LEMMA AllowKeeps == ASSUME GInv, NEW m \in Servers, Allow(m) PROVE GInv'
<1>1. /\ gallow' = {m} /\ glist' = [glist EXCEPT ![m] = Unlisted]
      /\ UNCHANGED <<gserv, gcfg, gbusy, gcheck, glast, gsilent>>
  BY DEF Allow
<1>2. \A n \in Servers : glist'[n] = IF n = m THEN Unlisted ELSE glist[n]
  BY <1>1 DEF GInv, GTypeOK
<1>3. GTypeOK'
  BY <1>1 DEF GInv, GTypeOK
<1>4. CheckInv'
  BY <1>1 DEF GInv, CheckInv
<1>5. MissesInv'
  <2>1. \A n \in Servers : Listed(n)' => Listed(n) /\ glist'[n] = glist[n]
    BY <1>2 DEF Listed
  <2>2. \A n : HeardOnly(n)' <=> HeardOnly(n)
    BY <1>1 DEF HeardOnly
  <2> QED BY <1>1, <2>1, <2>2 DEF GInv, MissesInv
<1> QED BY <1>3, <1>4, <1>5 DEF GInv

LEMMA GuardCrashKeeps == ASSUME GInv, GuardCrash PROVE GInv'
<1>1. /\ gbusy' = FALSE /\ gcheck' = [t \in Checkers |-> NoCheck] /\ gallow' = {}
      /\ gsilent' = [m \in Servers |-> IF HeardOnly(m) THEN GoneAfter ELSE gsilent[m]]
      /\ UNCHANGED <<gserv, gcfg, glist, glast>>
  BY DEF GuardCrash
<1>2. NoCheck.pc = "idle"
  BY DEF NoCheck
<1>3. GoneAfter \in 0..GoneAfter
  BY GoneAssumption
<1>4. gsilent' \in [Servers -> 0..GoneAfter]
  BY <1>1, <1>3 DEF GInv, GTypeOK
<1>5. GTypeOK'
  BY <1>1, <1>2, <1>4 DEF GInv, GTypeOK
<1>6. CheckInv'
  BY <1>1 DEF CheckInv
<1>7. MissesInv'
  <2> SUFFICES ASSUME NEW m \in Servers \ gcfg.allowed, Listed(m) PROVE glist[m].misses <= gsilent'[m]
    BY <1>1, <1>2 DEF MissesInv, Listed
  <2>1. glist[m].misses \in Nat /\ glist[m].misses < GoneAfter
    BY Entries DEF GInv
  <2>2. ~HeardOnly(m) => glist[m].misses <= gsilent[m]
    BY DEF GInv, MissesInv
  <2> QED BY <1>1, <2>1, <2>2, GoneAssumption
<1> QED BY <1>5, <1>6, <1>7 DEF GInv

LEMMA OthersKeep == ASSUME GInv, (\E m \in Servers : Turn(m)) \/ AllowSave \/ Switch \/ UNCHANGED gvars PROVE GInv'
<1>1. UNCHANGED <<gbusy, gcheck, glist, glast, gsilent>>
  BY DEF Turn, AllowSave, Switch, gvars
<1>2. gserv' \in [Servers -> {"none"} \cup Levels] /\ gallow' \in SUBSET Servers
  BY DEF Turn, AllowSave, Switch, gvars, GInv, GTypeOK
<1>3. gcfg' \in [on : BOOLEAN, allowed : SUBSET Servers] /\ gcfg.allowed \subseteq gcfg'.allowed
  BY ZenonT(60) DEF Turn, AllowSave, Switch, gvars, GInv, GTypeOK
<1>4. GTypeOK'
  BY <1>1, <1>2, <1>3 DEF GInv, GTypeOK
<1>5. CheckInv'
  BY <1>1, <1>3 DEF GInv, CheckInv
<1>6. MissesInv'
  BY <1>1, <1>3, MissesFrame
<1> QED BY <1>4, <1>5, <1>6 DEF GInv

\* A server that nobody allowed is reported gone only after GoneAfter probes in a row that worked
\* and did not hear it, for any number of servers and however many checks fail, are asked for at
\* once, or are cut off.
THEOREM GoneIsGone == GSpec => GoneTrue
<1> DEFINE GoneWasSilent == \A m \in Servers \ gcfg.allowed :
                        glast'[m] = "gone" /\ glast[m] # "gone" => gsilent[m] >= GoneAfter
<1>1. GInit => GInv
  BY GuardInit
<1>2. GInv /\ [GNext]_gvars => GInv' /\ GoneWasSilent
  <2> SUFFICES ASSUME GInv, [GNext]_gvars PROVE GInv' /\ GoneWasSilent
    OBVIOUS
  <2>1. glast' = glast => GoneWasSilent
    OBVIOUS
  <2>2. ASSUME NEW t \in Checkers, CheckBegin(t) \/ Probe(t) \/ ProbeFails(t) PROVE GInv' /\ glast' = glast
    BY <2>2, BeginKeeps, ProbeKeeps, FailKeeps DEF CheckBegin, Probe, ProbeFails
  <2>3. ASSUME NEW t \in Checkers, Track(t) PROVE GInv' /\ GoneWasSilent
    BY <2>3, TrackKeeps
  <2>4. ASSUME NEW m \in Servers, Allow(m) PROVE GInv' /\ glast' = glast
    BY <2>4, AllowKeeps DEF Allow
  <2>5. CASE GuardCrash
    BY <2>1, <2>5, GuardCrashKeeps DEF GuardCrash
  <2>6. CASE (\E m \in Servers : Turn(m)) \/ AllowSave \/ Switch \/ UNCHANGED gvars
    <3>1. glast' = glast
      BY <2>6 DEF Turn, AllowSave, Switch, gvars
    <3> QED BY <2>1, <2>6, <3>1, OthersKeep
  <2> HIDE DEF GoneWasSilent
  <2> QED BY <2>1, <2>2, <2>3, <2>4, <2>5, <2>6 DEF GNext
<1>3. GInv /\ [GNext]_gvars => [GoneWasSilent]_gvars
  BY <1>2
<1> QED BY <1>1, <1>2, <1>3, PTL DEF GSpec, GoneTrue

(***************************************************************************)
(* Live video.                                                             *)
(***************************************************************************)

\* Logins are where they should be, and while a place is looked for nobody else takes it.
ViewInv ==
    /\ LTypeOK /\ (~Unlocked => opening.name \in Names) /\ LoginsGo
    /\ Cardinality(lviews) <= (IF Unlocked THEN MaxViews ELSE MaxViews - 1)

LEMMA NamesFinite == LTypeOK => IsFiniteSet(lviews) /\ Cardinality(lviews) \in Nat
<1>1. IsFiniteSet(Names)
  BY ViewsAssumption, FS_Interval DEF Names
<1>2. LTypeOK => IsFiniteSet(lviews)
  BY <1>1, FS_Subset DEF LTypeOK
<1> QED BY <1>2, FS_CardinalityType

\* The lock's holder.
Openings == [name : Names \cup {0}, step : {"free", "ensure", "put", "look", "withdraw"}]

LEMMA OpeningSteps ==
    ASSUME opening \in Openings
    PROVE  /\ \A step \in {"ensure", "put", "look", "withdraw"} :
                 /\ [opening EXCEPT !.step = step] \in Openings
                 /\ [opening EXCEPT !.step = step].name = opening.name
                 /\ [opening EXCEPT !.step = step].step = step
           /\ \A n \in Names : [name |-> n, step |-> "ensure"] \in Openings
           /\ Nobody \in Openings /\ Nobody.step = "free"
  BY DEF Openings, Nobody

\* A DELETE takes the stream, or is lost.
LEMMA DeletedGoes == ASSUME NEW n, LTypeOK, Deleted(n)
                     PROVE  /\ streams' \subseteq Names /\ unheard' \subseteq Names
                            /\ streams' \subseteq streams /\ unheard \subseteq unheard'
                            /\ n \in streams' => n \in unheard'
  BY DEF LTypeOK, Deleted

LEMMA Timers == timer \in [counts : BOOLEAN, ranOut : BOOLEAN] =>
    /\ \A views : IdleLater(views) \in [counts : BOOLEAN, ranOut : BOOLEAN]
    /\ [timer EXCEPT !.counts = FALSE] \in [counts : BOOLEAN, ranOut : BOOLEAN]
    /\ [timer EXCEPT !.ranOut = FALSE] \in [counts : BOOLEAN, ranOut : BOOLEAN]
  BY DEF IdleLater, Counting

LEMMA ViewInit == LInit => ViewInv
<1> SUFFICES ASSUME LInit PROVE ViewInv
  OBVIOUS
<1>1. Cardinality(lviews) = 0
  BY FS_EmptySet DEF LInit
<1>2. LTypeOK /\ Unlocked
  BY DEF LInit, LTypeOK, Nobody, Unlocked
<1>3. Cardinality(lviews) <= MaxViews
  BY <1>1, ViewsAssumption
<1> QED BY <1>2, <1>3 DEF ViewInv, LInit, LoginsGo

\* The open() that holds the lock goes on.
LEMMA OpenerKeeps == ASSUME ViewInv, Answers \/ Replaces \/ Starts \/ Put \/ NotAdded PROVE ViewInv'
<1>1. opening \in Openings /\ ~Unlocked /\ opening.name \in Names
  BY DEF ViewInv, LTypeOK, Openings, Unlocked, Answers, Replaces, Starts, Put, NotAdded
<1>2. opening' \in Openings /\ opening'.name = opening.name /\ ~Unlocked'
  <2>1. CASE Replaces
    BY <1>1, <2>1 DEF Replaces, Unlocked
  <2>2. CASE Answers \/ Starts \/ Put \/ NotAdded
    <3>1. PICK step \in {"ensure", "put", "look", "withdraw"} : opening' = [opening EXCEPT !.step = step]
      BY <2>2 DEF Answers, Starts, Put, NotAdded
    <3> QED BY <1>1, <3>1, OpeningSteps DEF Unlocked
  <2> QED BY <2>1, <2>2
<1>3. UNCHANGED <<lviews, pump, timer>> /\ relay' \in {"none", "up", "dead"}
  BY DEF ViewInv, LTypeOK, Answers, Replaces, Starts, Put, NotAdded, Stopped
<1>4. streams' \subseteq streams \cup {opening.name} /\ (unheard' = unheard \/ (streams' = {} /\ unheard' = {}))
  BY DEF Answers, Replaces, Starts, Put, NotAdded, Stopped
<1>5. LTypeOK'
  BY <1>1, <1>2, <1>3, <1>4 DEF ViewInv, LTypeOK, Openings
<1>6. LoginsGo'
  BY <1>1, <1>2, <1>3, <1>4 DEF ViewInv, LoginsGo
<1> QED BY <1>1, <1>2, <1>3, <1>5, <1>6 DEF ViewInv

\* It ends, with a view or without.
LEMMA OpenEnds == ASSUME ViewInv, NotStarted \/ Added \/ Refused PROVE ViewInv'
<1>1. opening \in Openings /\ ~Unlocked /\ opening.name \in Names
  BY DEF ViewInv, LTypeOK, Openings, Unlocked, NotStarted, Added, Refused
<1>2. opening' \in Openings /\ Unlocked'
  BY <1>1, OpeningSteps DEF Unlocked, NotStarted, Added, Refused
<1>3. Cardinality(lviews) \in Nat /\ IsFiniteSet(lviews) /\ Cardinality(lviews) <= MaxViews - 1
  BY <1>1, NamesFinite DEF ViewInv
<1>4. /\ pump' \in [Names -> {"none", "asked", "given", "plays", "stuck", "ending", "over"}]
      /\ timer' \in [counts : BOOLEAN, ranOut : BOOLEAN] /\ relay' \in {"none", "up", "dead"}
  <2>1. pump' \in [Names -> {"none", "asked", "given", "plays", "stuck", "ending", "over"}]
    BY DEF ViewInv, LTypeOK, NotStarted, Added, Refused
  <2>2. timer' \in [counts : BOOLEAN, ranOut : BOOLEAN]
    BY Timers DEF ViewInv, LTypeOK, NotStarted, Added, Refused
  <2>3. relay' \in {"none", "up", "dead"}
    BY DEF ViewInv, LTypeOK, NotStarted, Added, Refused, Stopped
  <2> QED BY <2>1, <2>2, <2>3
<1>5. lviews' \subseteq Names /\ Cardinality(lviews') <= MaxViews
  <2>1. CASE lviews' = lviews
    BY <1>3, <2>1, ViewsAssumption DEF ViewInv, LTypeOK
  <2>2. CASE lviews' = lviews \cup {opening.name}
    <3>1. Cardinality(lviews') \in {Cardinality(lviews), Cardinality(lviews) + 1}
      BY <1>3, <2>2, FS_AddElement
    <3> QED BY <1>1, <1>3, <2>2, <3>1, ViewsAssumption DEF ViewInv, LTypeOK
  <2> QED BY <2>1, <2>2 DEF NotStarted, Added, Refused
<1>6. streams' \subseteq Names /\ unheard' \subseteq Names /\ streams' \subseteq lviews' \cup unheard'
  <2>1. CASE NotStarted
    BY <2>1 DEF NotStarted, Stopped
  <2>2. CASE Added
    BY <1>1, <2>2 DEF Added, ViewInv, LTypeOK, LoginsGo
  <2>3. CASE Refused
    <3>1. Deleted(opening.name) /\ lviews' = lviews
      BY <2>3 DEF Refused, Withdrawn
    <3> QED BY <1>1, <3>1, DeletedGoes DEF ViewInv, LoginsGo
  <2> QED BY <2>1, <2>2, <2>3
<1>7. LTypeOK'
  BY <1>2, <1>4, <1>5, <1>6 DEF LTypeOK, Openings
<1> QED BY <1>2, <1>5, <1>6, <1>7 DEF ViewInv, LoginsGo

\* A view that is closed, with the lock.
LEMMA CloseKeeps == ASSUME ViewInv, NEW n \in Names, ClosesStuck(n) \/ Close(n) PROVE ViewInv'
<1>1. Unlocked /\ opening' = opening /\ relay' = relay
  BY DEF ClosesStuck, Close
<1>2. /\ pump' \in [Names -> {"none", "asked", "given", "plays", "stuck", "ending", "over"}]
      /\ timer' \in [counts : BOOLEAN, ranOut : BOOLEAN]
  <2>1. pump' \in [Names -> {"none", "asked", "given", "plays", "stuck", "ending", "over"}]
    BY DEF ViewInv, LTypeOK, ClosesStuck, Close
  <2>2. timer' \in [counts : BOOLEAN, ranOut : BOOLEAN]
    BY Timers DEF ViewInv, LTypeOK, ClosesStuck, Close
  <2> QED BY <2>1, <2>2
<1>3. CASE lviews' = lviews \ {n} /\ Deleted(n)
  <2>1. lviews' \subseteq Names /\ IsFiniteSet(lviews)
    BY <1>3, NamesFinite DEF ViewInv, LTypeOK
  <2>2. Cardinality(lviews') <= MaxViews
    <3>1. Cardinality(lviews') \in {Cardinality(lviews), Cardinality(lviews) - 1}
      BY <1>3, <2>1, FS_RemoveElement
    <3> QED BY <1>1, <3>1, NamesFinite, ViewsAssumption DEF ViewInv
  <2>3. LTypeOK'
    BY <1>1, <1>2, <1>3, <2>1, DeletedGoes DEF ViewInv, LTypeOK
  <2>4. LoginsGo'
    BY <1>1, <1>3, DeletedGoes DEF ViewInv, LoginsGo, Unlocked
  <2> QED BY <1>1, <2>2, <2>3, <2>4 DEF ViewInv, Unlocked
<1>4. CASE UNCHANGED <<streams, unheard, lviews>>
  <2>1. LTypeOK'
    BY <1>1, <1>2, <1>4 DEF ViewInv, LTypeOK
  <2> QED BY <1>1, <1>4, <2>1 DEF ViewInv, LoginsGo, Unlocked
<1> QED BY <1>3, <1>4 DEF ClosesStuck, Close

\* A viewer who comes: the lock is free, and there is a place.
LEMMA OpenKeeps == ASSUME ViewInv, NEW n \in Names, Open(n) PROVE ViewInv'
<1>1. opening' \in Openings /\ opening'.name = n /\ ~Unlocked' /\ Unlocked
  BY OpeningSteps DEF Open, Unlocked, ViewInv, LTypeOK, Openings
<1>2. UNCHANGED <<relay, streams, lviews, unheard>> /\ Cardinality(lviews) < MaxViews
  BY DEF Open, HasPlace
<1>3. Cardinality(lviews) <= MaxViews - 1
  BY <1>2, NamesFinite, ViewsAssumption DEF ViewInv
<1>4. LTypeOK'
  BY <1>1, <1>2 DEF Open, ViewInv, LTypeOK, Openings
<1> QED BY <1>1, <1>2, <1>3, <1>4 DEF ViewInv, LoginsGo

\* The viewers, the timer and the relay itself.
LEMMA RestKeeps ==
    ASSUME ViewInv, (\E n \in Names : Play(n) \/ Sticks(n) \/ Ends(n)) \/ RunsOut \/ IdleStop \/ Dies \/ UNCHANGED lvars
    PROVE  ViewInv'
<1>1. UNCHANGED <<opening, lviews>> /\ (UNCHANGED <<streams, unheard>> \/ (streams' = {} /\ unheard' = {}))
  BY DEF Play, Sticks, Ends, RunsOut, IdleStop, Dies, Stopped, lvars
<1>2. pump' \in [Names -> {"none", "asked", "given", "plays", "stuck", "ending", "over"}]
  BY DEF ViewInv, LTypeOK, Play, Sticks, Ends, RunsOut, IdleStop, Dies, lvars
<1>3. timer' \in [counts : BOOLEAN, ranOut : BOOLEAN] /\ relay' \in {"none", "up", "dead"}
  <2>1. timer' \in [counts : BOOLEAN, ranOut : BOOLEAN]
    <3>1. timer' = timer \/ timer' = [counts |-> FALSE, ranOut |-> TRUE] \/ timer' = [timer EXCEPT !.ranOut = FALSE]
      BY DEF Play, Sticks, Ends, RunsOut, IdleStop, Dies, lvars
    <3>2. [counts |-> FALSE, ranOut |-> TRUE] \in [counts : BOOLEAN, ranOut : BOOLEAN]
      OBVIOUS
    <3>3. timer \in [counts : BOOLEAN, ranOut : BOOLEAN]
      BY DEF ViewInv, LTypeOK
    <3> QED BY <3>1, <3>2, <3>3, Timers
  <2>2. relay' \in {"none", "up", "dead"}
    <3>1. relay' = relay \/ relay' = "none" \/ relay' = "dead"
      BY DEF Play, Sticks, Ends, RunsOut, IdleStop, Dies, Stopped, lvars
    <3> QED BY <3>1 DEF ViewInv, LTypeOK
  <2> QED BY <2>1, <2>2
<1>4. LTypeOK'
  BY <1>1, <1>2, <1>3 DEF ViewInv, LTypeOK
<1> QED BY <1>1, <1>4 DEF ViewInv, LoginsGo, Unlocked

LEMMA ViewStep == ViewInv /\ [LNext]_lvars => ViewInv'
<1> SUFFICES ASSUME ViewInv, [LNext]_lvars PROVE ViewInv'
  OBVIOUS
<1>1. CASE Answers \/ Replaces \/ Starts \/ Put \/ NotAdded \/ NotStarted \/ Added \/ Refused
  BY <1>1, OpenerKeeps, OpenEnds
<1>2. ASSUME NEW n \in Names, Open(n) \/ ClosesStuck(n) \/ Close(n) PROVE ViewInv'
  BY <1>2, OpenKeeps, CloseKeeps
<1>3. CASE (\E n \in Names : Play(n) \/ Sticks(n) \/ Ends(n)) \/ RunsOut \/ IdleStop \/ Dies \/ UNCHANGED lvars
  BY <1>3, RestKeeps
<1> QED BY <1>1, <1>2, <1>3 DEF LNext

\* A camera's login does not outlive its viewer in the relay, but where a DELETE got lost:
\* for any number of viewers, whatever the relay refuses, answers late or forgets.
THEOREM LoginsAreWithdrawn == LSpec => []LoginsGo
<1>1. ViewInv => LoginsGo
  BY DEF ViewInv
<1> QED BY <1>1, ViewInit, ViewStep, PTL DEF LSpec

\* There are never more views than MAX_VIEWS, although starting the relay and adding the stream
\* lie between the look for a place and the view.
THEOREM PlacesAreKept == LSpec => []PlacesKept
<1>1. ViewInv => PlacesKept
  <2> SUFFICES ASSUME ViewInv PROVE Cardinality(lviews) <= MaxViews
    BY DEF PlacesKept
  <2> QED BY NamesFinite, ViewsAssumption DEF ViewInv
<1> QED BY <1>1, ViewInit, ViewStep, PTL DEF LSpec

(***************************************************************************)
(* Changes of camera settings. A change in the middle of its writes holds  *)
(* the lock of its device, and only it does; what it has not written yet   *)
(* is what it read.                                                        *)
(***************************************************************************)
Busy(a) == op[a].step \in {"write", "back"}

LocksHeld ==
    /\ \A a \in Actors : Busy(a) => lock[op[a].key] = a
    /\ \A k \in Keys : lock[k] # NoHolder => Busy(lock[k]) /\ op[lock[k]].key = k

\* Of what is in the log, every document was changed by the change.
LogSound ==
    \A c \in DOMAIN log :
        /\ DOMAIN log[c].before = DOMAIN log[c].after /\ DOMAIN log[c].before # {}
        /\ \A i \in DOMAIN log[c].before : log[c].before[i] # log[c].after[i]

\* A change asked for has written nothing, and an undo is of a change in the log.
AskedSound(o) ==
    /\ o.written = {}
    /\ o.undoOf # 0 =>
          /\ o.undoOf \in DOMAIN log /\ o.key = log[o.undoOf].key
          /\ o.want = log[o.undoOf].before /\ o.expect = log[o.undoOf].after

WriteSound(a) ==
    /\ DOMAIN op[a].want = DOMAIN op[a].before /\ DOMAIN op[a].want # {} /\ op[a].written \subseteq DOMAIN op[a].want
    /\ \A i \in DOMAIN op[a].want : op[a].want[i] # op[a].before[i]
    /\ \A i \in ToWrite(a) : dev[op[a].key][i] = op[a].before[i]
    /\ op[a].step = "write" => ToWrite(a) # {}
    /\ op[a].undoOf # 0 =>
          /\ op[a].undoOf \in DOMAIN log /\ op[a].key = log[op[a].undoOf].key
          /\ DOMAIN op[a].want \subseteq DOMAIN log[op[a].undoOf].before
          /\ \A i \in DOMAIN op[a].want : /\ op[a].want[i] = log[op[a].undoOf].before[i]
                                          /\ op[a].before[i] = log[op[a].undoOf].after[i]

OpsSound == \A a \in Actors : (op[a].step = "asked" => AskedSound(op[a])) /\ (Busy(a) => WriteSound(a))

\* The changes that the log has of a document, of which one is the newest.
ChangesOf(k, i) == {c \in DOMAIN log : log[c].key = k /\ i \in DOMAIN log[c].now}
HaveNewest == \A k \in Keys, i \in Docs : ChangesOf(k, i) # {} =>
                  \E c \in ChangesOf(k, i) : \A b \in ChangesOf(k, i) : b <= c

\* What the log says a device holds is there, but for what a change under way has written.
UntouchedTold ==
    \A k \in Keys \ blind, i \in Docs :
        (lock[k] # NoHolder => i \notin op[lock[k]].written) => dev[k][i] = LastSays(k, i)

ChangeInv == LocksHeld /\ LogSound /\ OpsSound /\ HaveNewest /\ UntouchedTold

(***************************************************************************)
(* Jobs of changes.                                                        *)
(***************************************************************************)
\* The jobs name changes of the log and earlier jobs.
JobsSound(js) ==
    \A j \in DOMAIN js :
        /\ \A m \in DOMAIN js[j].items : js[j].items[m].cid \in 0..Len(log)
        /\ js[j].kind = "undo" =>
              /\ js[j].undoOf \in 1..(j - 1)
              /\ \A m \in DOMAIN js[j].items : js[j].items[m].undo \in DOMAIN log

\* What UndoneIsUndone says, also of the jobs on disk.
AllUndone(js) ==
    \A j \in DOMAIN js : js[j].undoneBy # 0 /\ ~js[j].note =>
        \A m \in DOMAIN js[j].items : js[j].items[m].cid # 0 => log[js[j].items[m].cid].undoneBy # 0

\* Where the worker is.
WorkerSound ==
    /\ worker.pc # "item" => op["worker"] = NoOp
    /\ op["worker"].step = "over" => op["worker"].cid \in 0..Len(log)
    /\ worker.pc = "top" => worker.i # 0
    /\ worker.pc \in {"pause", "item"} => run # 0 /\ worker.i \in DOMAIN jobs[run].items
    /\ run # 0 => jobs[run].undoneBy = 0
    /\ run # 0 /\ worker.pc = "end" => jobs[run].state \in {"done", "stopped"}

\* The undo that runs is of every change its job made, and what it says of one is so.
UndoSound ==
    run # 0 /\ jobs[run].kind = "undo" =>
        LET items == jobs[run].items of == jobs[jobs[run].undoOf].items IN
        /\ \A m \in DOMAIN of : of[m].cid # 0 => \E n \in DOMAIN items : items[n].undo = of[m].cid
        /\ \A n \in DOMAIN items :
              /\ items[n].status = "ok" => log[items[n].undo].undoneBy # 0
              /\ items[n].status # "unchanged"
              /\ items[n].status = "running" => worker.pc = "item" /\ worker.i = n
        /\ worker.pc = "item" =>
              LET o == op["worker"] c == items[worker.i].undo IN
              /\ o.step \in {"asked", "write", "back"} => o.undoOf = c
              /\ o.step = "over" => o.result # "unchanged" /\ (o.result = "ok" => log[c].undoneBy # 0)

JobsInv ==
    /\ JobsSound(jobs) /\ JobsSound(disk) /\ AllUndone(jobs) /\ AllUndone(disk)
    /\ NoneStuck /\ WorkerSound /\ UndoSound

CameraInv == TypeOK /\ ChangeInv /\ JobsInv

LEMMA LeastOne == ASSUME NEW S, S \subseteq Nat, S # {} PROVE \E m \in S : \A n \in S : m <= n
<1> DEFINE Lower == {p \in Nat \X Nat : p[1] < p[2]}
<1>1. IsWellFoundedOn(Lower, Nat)
  BY NatLessThanWellFounded DEF OpToRel
<1>2. PICK m \in S : \A n \in S : ~ (<<n, m>> \in Lower)
  <2> HIDE DEF Lower
  <2> QED BY <1>1, WFMin
<1>3. ASSUME NEW n \in S PROVE ~ (n < m)
  <2>1. <<n, m>> \in Nat \X Nat /\ <<n, m>>[1] = n /\ <<n, m>>[2] = m
    OBVIOUS
  <2> QED BY <1>2, <2>1
<1> QED BY <1>3, SMT

LEMMA ActorsTwo == Actors = {"worker", "person"} /\ NoHolder \notin Actors
BY HolderAssumption DEF Actors

\* An actor in the middle of a change, and one that has asked for it.
LEMMA FullOp == ASSUME TypeOK, NEW a \in Actors, op[a].step \in {"asked", "write", "back"} PROVE op[a] \in Fulls
<1>1. op[a] \in {NoOp} \cup Overs \cup Fulls
  BY DEF TypeOK
<1>2. op[a] # NoOp
  BY DEF NoOp
<1>3. op[a] \notin Overs
  BY DEF Overs
<1> QED BY <1>1, <1>2, <1>3

LEMMA OverOp == ASSUME TypeOK, NEW a \in Actors, op[a].step = "over" PROVE op[a] \in Overs
<1>1. op[a] \in {NoOp} \cup Overs \cup Fulls
  BY DEF TypeOK
<1>2. op[a] # NoOp
  BY DEF NoOp
<1>3. op[a] \notin Fulls
  BY DEF Fulls
<1> QED BY <1>1, <1>2, <1>3

\* An actor that is not in the middle of a change takes up or drops one.
LEMMA TakenUp ==
    ASSUME TypeOK, ChangeInv, NEW x \in Actors, ~Busy(x), NEW o \in {NoOp} \cup Overs \cup Fulls,
           op' = [op EXCEPT ![x] = o], o.step \notin {"write", "back"}, o.step = "asked" => AskedSound(o),
           UNCHANGED <<dev, lock, log, blind>>
    PROVE  ChangeInv'
<1>1. op'[x] = o /\ \A a \in Actors \ {x} : op'[a] = op[a]
  BY DEF TypeOK
<1>2. \A a \in Actors : Busy(a)' => a # x /\ Busy(a)
  BY <1>1 DEF Busy
<1>3. \A a \in Actors : Busy(a) => a # x /\ Busy(a)' /\ op'[a] = op[a]
  BY <1>1 DEF Busy
<1>4. LocksHeld'
  <2>1. \A a \in Actors : Busy(a)' => lock'[op'[a].key] = a
    BY <1>1, <1>2 DEF ChangeInv, LocksHeld
  <2>2. \A k \in Keys : lock[k] # NoHolder => lock[k] \in Actors
    BY DEF TypeOK
  <2>3. ASSUME NEW k \in Keys, lock'[k] # NoHolder PROVE Busy(lock[k])' /\ op'[lock[k]].key = k
    BY <1>3, <2>2, <2>3 DEF ChangeInv, LocksHeld
  <2> QED BY <2>1, <2>3 DEF LocksHeld, Busy
<1>5. LogSound' /\ HaveNewest'
  BY DEF ChangeInv, LogSound, HaveNewest, ChangesOf
<1>6. OpsSound'
  <2>1. ASSUME NEW a \in Actors, op'[a].step = "asked" PROVE AskedSound(op[a])'
    <3>1. CASE a = x
      BY <1>1, <2>1, <3>1 DEF AskedSound
    <3>2. CASE a # x
      BY <1>1, <2>1, <3>2 DEF AskedSound, ChangeInv, OpsSound
    <3> QED BY <3>1, <3>2
  <2>2. ASSUME NEW a \in Actors, Busy(a)' PROVE WriteSound(a)'
    <3>1. op'[a] = op[a] /\ WriteSound(a)
      BY <1>1, <1>2, <2>2 DEF ChangeInv, OpsSound
    <3> QED BY <3>1 DEF WriteSound, ToWrite
  <2> QED BY <2>1, <2>2 DEF OpsSound
<1>7. UntouchedTold'
  <2> SUFFICES ASSUME NEW k \in Keys \ blind, NEW i \in Docs, lock[k] # NoHolder => i \notin op'[lock[k]].written
               PROVE  dev[k][i] = LastSays(k, i)
    BY DEF UntouchedTold, LastSays
  <2>1. lock[k] # NoHolder => op'[lock[k]] = op[lock[k]]
    BY <1>3 DEF ChangeInv, LocksHeld, TypeOK
  <2> QED BY <2>1 DEF ChangeInv, UntouchedTold
<1> QED BY <1>4, <1>5, <1>6, <1>7 DEF ChangeInv

LEMMA PartTyped == ASSUME NEW f \in Rows, NEW S, S \subseteq DOMAIN f
                   PROVE  Part(f, S) \in Rows /\ DOMAIN Part(f, S) = S /\ \A i \in S : Part(f, S)[i] = f[i]
<1>1. PICK D \in SUBSET Docs : f \in [D -> Values]
  BY DEF Rows
<1>2. S \in SUBSET Docs /\ Part(f, S) \in [S -> Values]
  BY <1>1 DEF Part
<1>3. Part(f, S) \in Rows
  BY <1>2 DEF Rows
<1> QED BY <1>3 DEF Part

LEMMA DevicesTyped == ASSUME TypeOK, NEW k \in Keys PROVE dev[k] \in Rows /\ DOMAIN dev[k] = Docs
<1>1. dev[k] \in [Docs -> Values] /\ Docs \in SUBSET Docs
  BY DEF TypeOK
<1> QED BY <1>1 DEF Rows

\* What is left to do of a change that has its lock.
DifferOf(a) == {i \in DOMAIN op[a].want : op[a].want[i] # dev[op[a].key][i]}

Locks(a) ==
    /\ op[a].step = "asked" /\ lock[op[a].key] = NoHolder
    /\ ~Moved(dev[op[a].key], op[a].expect) /\ DifferOf(a) # {}
    /\ lock' = [lock EXCEPT ![op[a].key] = a] /\ UNCHANGED <<dev, log, blind>>
    /\ op' = [op EXCEPT ![a].step = "write", ![a].want = Part(@, DifferOf(a)),
                        ![a].before = Part(dev[op[a].key], DifferOf(a))]

LEMMA LocksOp == ASSUME TypeOK, ChangeInv, NEW a \in Actors, Locks(a)
    PROVE  /\ op' \in [Actors -> {NoOp} \cup Overs \cup Fulls] /\ op'[a] \in Fulls
           /\ op'[a].step = "write" /\ op'[a].key = op[a].key /\ op'[a].undoOf = op[a].undoOf
           /\ op'[a].written = op[a].written
           /\ DifferOf(a) \subseteq Docs /\ DOMAIN op'[a].want = DifferOf(a) /\ DOMAIN op'[a].before = DifferOf(a)
           /\ \A i \in DifferOf(a) : op'[a].want[i] = op[a].want[i] /\ op'[a].before[i] = dev[op[a].key][i]
           /\ \A b \in Actors \ {a} : op'[b] = op[b]
<1>1. op[a] \in Fulls
  BY FullOp DEF Locks
<1>2. op[a].key \in Keys /\ op[a].want \in Rows
  BY <1>1 DEF Fulls
<1>3. DOMAIN op[a].want \subseteq Docs
  BY <1>2 DEF Rows
<1> DEFINE W == Part(op[a].want, DifferOf(a)) B == Part(dev[op[a].key], DifferOf(a))
<1>4. DifferOf(a) \subseteq DOMAIN op[a].want /\ DifferOf(a) \subseteq Docs
  BY <1>3 DEF DifferOf
<1>5. W \in Rows /\ DOMAIN W = DifferOf(a) /\ \A i \in DifferOf(a) : W[i] = op[a].want[i]
  BY <1>2, <1>4, PartTyped
<1>6. B \in Rows /\ DOMAIN B = DifferOf(a) /\ \A i \in DifferOf(a) : B[i] = dev[op[a].key][i]
  BY <1>2, <1>4, PartTyped, DevicesTyped
<1>7. op'[a] = [op[a] EXCEPT !.step = "write", !.want = W, !.before = B] /\ \A b \in Actors \ {a} : op'[b] = op[b]
  BY DEF Locks, TypeOK
<1>8. op'[a] \in Fulls /\ op'[a].step = "write" /\ op'[a].key = op[a].key /\ op'[a].undoOf = op[a].undoOf
      /\ op'[a].written = op[a].written /\ op'[a].want = W /\ op'[a].before = B
  <2> HIDE DEF W, B
  <2> QED BY <1>1, <1>5, <1>6, <1>7 DEF Fulls
<1>9. op' \in [Actors -> {NoOp} \cup Overs \cup Fulls]
  <2>1. op' = [op EXCEPT ![a] = op'[a]]
    BY <1>7 DEF Locks, TypeOK
  <2> QED BY <1>8, <2>1 DEF TypeOK
<1> QED BY <1>4, <1>5, <1>6, <1>7, <1>8, <1>9

LEMMA LocksKeeps == ASSUME TypeOK, ChangeInv, NEW a \in Actors, Locks(a) PROVE ChangeInv'
<1> DEFINE k == op[a].key
<1>1. op[a] \in Fulls /\ k \in Keys
  BY FullOp DEF Locks, Fulls
<1>2. lock'[k] = a /\ \A h \in Keys \ {k} : lock'[h] = lock[h]
  BY <1>1 DEF Locks, TypeOK
<1>3. \A b \in Actors : Busy(b) => b # a /\ op[b].key # k
  BY ActorsTwo DEF Locks, ChangeInv, LocksHeld, Busy
<1>4. \A b \in Actors \ {a} : op'[b] = op[b]
  BY LocksOp
<1>5. op'[a].step = "write" /\ op'[a].key = k /\ Busy(a)'
  BY LocksOp DEF Busy
<1>10. UNCHANGED <<dev, log, blind>>
  BY DEF Locks
<1>6. LocksHeld'
  <2>1. ASSUME NEW b \in Actors, Busy(b)' PROVE lock'[op'[b].key] = b
    <3>1. CASE b = a
      BY <1>2, <1>5, <3>1
    <3>2. CASE b # a
      <4>1. op'[b] = op[b] /\ Busy(b)
        BY <1>4, <2>1, <3>2 DEF Busy
      <4>2. op[b] \in Fulls
        BY <4>1, FullOp DEF Busy
      <4> QED BY <1>2, <1>3, <4>1, <4>2 DEF ChangeInv, LocksHeld, Fulls
    <3> QED BY <3>1, <3>2
  <2>2. ASSUME NEW h \in Keys, lock'[h] # NoHolder
        PROVE  op'[lock'[h]].step \in {"write", "back"} /\ op'[lock'[h]].key = h
    <3>1. CASE h = k
      BY <1>2, <1>5, <3>1
    <3>2. CASE h # k
      <4>1. lock'[h] = lock[h] /\ lock[h] \in Actors
        BY <1>2, <2>2, <3>2 DEF TypeOK
      <4>2. Busy(lock[h]) /\ op[lock[h]].key = h
        BY <2>2, <4>1 DEF ChangeInv, LocksHeld
      <4>3. op'[lock[h]] = op[lock[h]]
        BY <1>3, <1>4, <4>1, <4>2
      <4> QED BY <4>1, <4>2, <4>3 DEF Busy
    <3> QED BY <3>1, <3>2
  <2> QED BY <2>1, <2>2 DEF LocksHeld, Busy
<1>7. LogSound' /\ HaveNewest'
  BY DEF Locks, ChangeInv, LogSound, HaveNewest, ChangesOf
<1>8. OpsSound'
  <2>1. ASSUME NEW b \in Actors \ {a} PROVE (op'[b].step = "asked" => AskedSound(op[b])') /\ (Busy(b)' => WriteSound(b)')
    <3>1. op'[b] = op[b]
      BY <1>4
    <3>2. op[b].step = "asked" => AskedSound(op[b])
      BY DEF ChangeInv, OpsSound
    <3>3. Busy(b) => WriteSound(b)
      BY DEF ChangeInv, OpsSound
    <3>4. op'[b].step = "asked" => AskedSound(op[b])'
      BY <1>10, <3>1, <3>2 DEF AskedSound
    <3>5. Busy(b)' => WriteSound(b)'
      BY <1>10, <3>1, <3>3 DEF Busy, WriteSound, ToWrite
    <3> QED BY <3>4, <3>5
  <2>2. WriteSound(a)'
    <3>4. op'[a].written = {}
      BY LocksOp DEF Locks, ChangeInv, OpsSound, AskedSound
    <3>1. ToWrite(a)' = DifferOf(a)
      BY <3>4, LocksOp DEF ToWrite
    <3>2. \A i \in DifferOf(a) : op'[a].want[i] # op'[a].before[i]
      BY LocksOp DEF DifferOf
    <3>3. op'[a].undoOf # 0 =>
             /\ op'[a].undoOf \in DOMAIN log' /\ op'[a].key = log'[op'[a].undoOf].key
             /\ DOMAIN op'[a].want \subseteq DOMAIN log'[op'[a].undoOf].before
             /\ \A i \in DOMAIN op'[a].want : /\ op'[a].want[i] = log'[op'[a].undoOf].before[i]
                                              /\ op'[a].before[i] = log'[op'[a].undoOf].after[i]
      <4> SUFFICES ASSUME op[a].undoOf # 0
                   PROVE  /\ op[a].undoOf \in DOMAIN log /\ op[a].key = log[op[a].undoOf].key
                          /\ DifferOf(a) \subseteq DOMAIN log[op[a].undoOf].before
                          /\ \A i \in DifferOf(a) : /\ op[a].want[i] = log[op[a].undoOf].before[i]
                                                    /\ dev[k][i] = log[op[a].undoOf].after[i]
        BY <1>10, LocksOp
      <4>1. /\ op[a].undoOf \in DOMAIN log /\ op[a].key = log[op[a].undoOf].key
            /\ op[a].want = log[op[a].undoOf].before /\ op[a].expect = log[op[a].undoOf].after
        BY DEF Locks, ChangeInv, OpsSound, AskedSound
      <4>2. DOMAIN op[a].expect = DOMAIN op[a].want
        BY <4>1 DEF ChangeInv, LogSound
      <4>3. \A i \in DOMAIN op[a].expect : dev[k][i] = op[a].expect[i]
        BY DEF Locks, Moved
      <4> QED BY <4>1, <4>2, <4>3 DEF DifferOf
    <3>5. \A i \in DifferOf(a) : dev'[op'[a].key][i] = op'[a].before[i]
      BY <1>10, LocksOp
    <3>6. DifferOf(a) # {}
      BY DEF Locks
    <3> QED BY <3>1, <3>2, <3>3, <3>4, <3>5, <3>6, LocksOp, SMTT(30) DEF WriteSound
  <2> QED BY <1>5, <2>1, <2>2 DEF OpsSound
<1>9. UntouchedTold'
  <2> SUFFICES ASSUME NEW h \in Keys \ blind, NEW i \in Docs, lock'[h] # NoHolder => i \notin op'[lock'[h]].written
               PROVE  dev[h][i] = LastSays(h, i)
    BY DEF Locks, UntouchedTold, LastSays
  <2>1. CASE h = k
    BY <2>1 DEF Locks, ChangeInv, UntouchedTold
  <2>2. CASE h # k
    <3>1. lock'[h] = lock[h] /\ (lock[h] # NoHolder => op'[lock[h]] = op[lock[h]])
      BY <1>2, <1>3, <1>4, <2>2 DEF ChangeInv, LocksHeld, TypeOK
    <3> QED BY <3>1 DEF ChangeInv, UntouchedTold
  <2> QED BY <2>1, <2>2
<1> QED BY <1>6, <1>7, <1>8, <1>9 DEF ChangeInv

\* The device of a change under way has no other under way.
LEMMA OthersElsewhere ==
    ASSUME TypeOK, ChangeInv, NEW a \in Actors, Busy(a)
    PROVE  /\ op[a] \in Fulls /\ op[a].key \in Keys /\ lock[op[a].key] = a /\ WriteSound(a)
           /\ \A b \in Actors \ {a} : Busy(b) => op[b] \in Fulls /\ op[b].key # op[a].key
           /\ \A h \in Keys \ {op[a].key} : lock[h] # NoHolder => lock[h] \in Actors \ {a}
<1>1. op[a] \in Fulls
  BY FullOp DEF Busy
<1>2. \A b \in Actors \ {a} : Busy(b) => op[b] \in Fulls
  BY FullOp DEF Busy
<1>3. \A h \in Keys : lock[h] # NoHolder => lock[h] \in Actors
  BY DEF TypeOK
<1> QED BY <1>1, <1>2, <1>3 DEF ChangeInv, LocksHeld, OpsSound, Fulls

\* A change goes on: a document more is written, or it goes over to reading back.
LEMMA GoesOn ==
    ASSUME TypeOK, ChangeInv, NEW a \in Actors, Busy(a), UNCHANGED <<lock, log, blind>>,
           op'[a].step \in {"write", "back"}, op'[a].key = op[a].key, op'[a].want = op[a].want,
           op'[a].before = op[a].before, op'[a].undoOf = op[a].undoOf,
           op[a].written \subseteq op'[a].written, op'[a].written \subseteq DOMAIN op[a].want,
           op'[a].step = "write" => ToWrite(a)' # {},
           \A b \in Actors \ {a} : op'[b] = op[b],
           \A h \in Keys \ {op[a].key} : dev'[h] = dev[h],
           \A i \in Docs \ op'[a].written : dev'[op[a].key][i] = dev[op[a].key][i]
    PROVE  ChangeInv'
<1> DEFINE k == op[a].key
<1>1. /\ op[a] \in Fulls /\ k \in Keys /\ lock[k] = a /\ WriteSound(a)
      /\ \A b \in Actors \ {a} : Busy(b) => op[b] \in Fulls /\ op[b].key # k
      /\ \A h \in Keys \ {k} : lock[h] # NoHolder => lock[h] \in Actors \ {a}
  BY OthersElsewhere
<1>2. \A b \in Actors : Busy(b) <=> op'[b].step \in {"write", "back"}
  BY DEF Busy
<1>3. LocksHeld'
  <2>1. \A b \in Actors : op'[b].step \in {"write", "back"} => lock'[op'[b].key] = b
    BY <1>1, <1>2 DEF ChangeInv, LocksHeld
  <2>2. \A h \in Keys : lock'[h] # NoHolder =>
            op'[lock'[h]].step \in {"write", "back"} /\ op'[lock'[h]].key = h
    BY <1>1, <1>2 DEF ChangeInv, LocksHeld
  <2> QED BY <2>1, <2>2 DEF LocksHeld, Busy
<1>4. LogSound' /\ HaveNewest'
  BY DEF ChangeInv, LogSound, HaveNewest, ChangesOf
<1>5. OpsSound'
  <2>1. ASSUME NEW b \in Actors \ {a} PROVE (op'[b].step = "asked" => AskedSound(op[b])') /\ (Busy(b)' => WriteSound(b)')
    <3>1. op'[b] = op[b]
      OBVIOUS
    <3>2. op'[b].step = "asked" => AskedSound(op[b])'
      BY <3>1 DEF ChangeInv, OpsSound, AskedSound
    <3>3. ASSUME Busy(b)' PROVE WriteSound(b)'
      <4>1. WriteSound(b) /\ op[b] \in Fulls /\ op[b].key \in Keys \ {k}
        BY <1>1, <3>1, <3>3 DEF ChangeInv, OpsSound, Busy, Fulls
      <4>2. dev'[op[b].key] = dev[op[b].key]
        BY <4>1
      <4> QED BY <3>1, <4>1, <4>2 DEF WriteSound, ToWrite
    <3> QED BY <3>2, <3>3
  <2>2. WriteSound(a)'
    <3>1. DOMAIN op[a].want \subseteq Docs
      BY <1>1 DEF Fulls, Rows
    <3>2. ToWrite(a)' \subseteq ToWrite(a) /\ \A i \in ToWrite(a)' : i \in Docs \ op'[a].written
      BY <3>1 DEF ToWrite
    <3>3. \A i \in ToWrite(a)' : dev'[k][i] = op[a].before[i]
      BY <1>1, <3>2 DEF WriteSound
    <3> QED BY <1>1, <3>3 DEF WriteSound
  <2> QED BY <2>1, <2>2 DEF OpsSound, Busy
<1>6. UntouchedTold'
  <2> SUFFICES ASSUME NEW h \in Keys \ blind, NEW i \in Docs, lock[h] # NoHolder => i \notin op'[lock[h]].written
               PROVE  dev'[h][i] = LastSays(h, i)
    BY DEF UntouchedTold, LastSays
  <2>1. CASE h = k
    <3>1. i \notin op'[a].written /\ i \notin op[a].written
      BY <1>1, <2>1, ActorsTwo
    <3> QED BY <1>1, <2>1, <3>1 DEF ChangeInv, UntouchedTold
  <2>2. CASE h # k
    <3>1. lock[h] # NoHolder => op'[lock[h]] = op[lock[h]]
      BY <1>1, <2>2
    <3> QED BY <2>2, <3>1 DEF ChangeInv, UntouchedTold
  <2> QED BY <2>1, <2>2
<1> QED BY <1>3, <1>4, <1>5, <1>6 DEF ChangeInv

\* What stays of locks and changes when one is over: those of the others.
LEMMA LocksGiven ==
    ASSUME TypeOK, ChangeInv, NEW a \in Actors, Busy(a), NEW o \in Overs, op' = [op EXCEPT ![a] = o],
           lock' = Released(a)
    PROVE  /\ LocksHeld' /\ lock'[op[a].key] = NoHolder
           /\ \A b \in Actors \ {a} : op'[b] = op[b]
           /\ \A h \in Keys \ {op[a].key} : lock'[h] = lock[h] /\ (lock[h] # NoHolder => lock[h] \in Actors \ {a})
           /\ op'[a].step = "over"
<1> DEFINE k == op[a].key
<1>1. /\ op[a] \in Fulls /\ k \in Keys /\ lock[k] = a
      /\ \A b \in Actors \ {a} : Busy(b) => op[b] \in Fulls /\ op[b].key # k
      /\ \A h \in Keys \ {k} : lock[h] # NoHolder => lock[h] \in Actors \ {a}
  BY OthersElsewhere
<1>2. lock'[k] = NoHolder /\ \A h \in Keys \ {k} : lock'[h] = lock[h]
  BY <1>1 DEF Released, TypeOK
<1>3. op'[a] = o /\ \A b \in Actors \ {a} : op'[b] = op[b]
  BY DEF TypeOK
<1>4. o.step = "over"
  BY DEF Overs
<1>5. \A b \in Actors : op'[b].step \in {"write", "back"} => b # a /\ Busy(b)
  BY <1>3, <1>4 DEF Busy
<1>6. \A b \in Actors : op'[b].step \in {"write", "back"} => lock'[op'[b].key] = b
  <2> SUFFICES ASSUME NEW b \in Actors, op'[b].step \in {"write", "back"} PROVE lock'[op'[b].key] = b
    OBVIOUS
  <2>1. b # a /\ op'[b] = op[b] /\ op[b].key \in Keys \ {k}
    BY <1>1, <1>3, <1>5 DEF Fulls
  <2> QED BY <1>2, <1>5, <2>1 DEF ChangeInv, LocksHeld
<1>7. \A h \in Keys : lock'[h] # NoHolder => op'[lock'[h]].step \in {"write", "back"} /\ op'[lock'[h]].key = h
  <2> SUFFICES ASSUME NEW h \in Keys, lock'[h] # NoHolder
               PROVE  op'[lock'[h]].step \in {"write", "back"} /\ op'[lock'[h]].key = h
    OBVIOUS
  <2>1. h # k /\ lock'[h] = lock[h] /\ lock[h] \in Actors \ {a}
    BY <1>1, <1>2
  <2> QED BY <1>3, <2>1 DEF ChangeInv, LocksHeld, Busy
<1> QED BY <1>1, <1>2, <1>3, <1>4, <1>6, <1>7 DEF LocksHeld, Busy

\* A change ends and is not logged: it has written nothing, or its device went silent.
LEMMA NotLogged ==
    ASSUME TypeOK, ChangeInv, NEW a \in Actors, Busy(a), NEW o \in Overs, op' = [op EXCEPT ![a] = o],
           lock' = Released(a), log' = log, blind \subseteq blind',
           \A h \in Keys \ {op[a].key} : dev'[h] = dev[h],
           op[a].key \in blind' \/ (op[a].written = {} /\ dev' = dev)
    PROVE  ChangeInv'
<1> DEFINE k == op[a].key
<1>1. /\ op[a] \in Fulls /\ k \in Keys /\ lock[k] = a
      /\ \A b \in Actors \ {a} : Busy(b) => op[b] \in Fulls /\ op[b].key # k
  BY OthersElsewhere
<1>2. /\ LocksHeld' /\ \A b \in Actors \ {a} : op'[b] = op[b]
      /\ \A h \in Keys \ {k} : lock'[h] = lock[h] /\ (lock[h] # NoHolder => lock[h] \in Actors \ {a})
      /\ op'[a].step = "over"
  BY LocksGiven
<1>3. LogSound' /\ HaveNewest'
  BY DEF ChangeInv, LogSound, HaveNewest, ChangesOf
<1>4. OpsSound'
  <2>1. ASSUME NEW b \in Actors \ {a} PROVE (op'[b].step = "asked" => AskedSound(op[b])') /\ (Busy(b)' => WriteSound(b)')
    <3>1. op'[b] = op[b]
      BY <1>2
    <3>2. op'[b].step = "asked" => AskedSound(op[b])'
      BY <3>1 DEF ChangeInv, OpsSound, AskedSound
    <3>3. ASSUME Busy(b)' PROVE WriteSound(b)'
      <4>1. WriteSound(b) /\ op[b] \in Fulls /\ op[b].key \in Keys \ {k}
        BY <1>1, <3>1, <3>3 DEF ChangeInv, OpsSound, Busy, Fulls
      <4>2. dev'[op[b].key] = dev[op[b].key]
        BY <4>1
      <4> QED BY <3>1, <4>1, <4>2 DEF WriteSound, ToWrite
    <3> QED BY <3>2, <3>3
  <2> QED BY <1>2, <2>1 DEF OpsSound, Busy
<1>5. UntouchedTold'
  <2> SUFFICES ASSUME NEW h \in Keys \ blind', NEW i \in Docs, lock'[h] # NoHolder => i \notin op'[lock'[h]].written
               PROVE  dev'[h][i] = LastSays(h, i)
    BY DEF UntouchedTold, LastSays
  <2>1. CASE h = k
    <3>1. op[a].written = {} /\ dev' = dev
      BY <2>1
    <3> QED BY <1>1, <2>1, <3>1 DEF ChangeInv, UntouchedTold
  <2>2. CASE h # k
    <3>1. lock'[h] = lock[h] /\ (lock[h] # NoHolder => op'[lock[h]] = op[lock[h]])
      BY <1>2, <2>2
    <3> QED BY <2>2, <3>1 DEF ChangeInv, UntouchedTold
  <2> QED BY <2>1, <2>2
<1> QED BY <1>2, <1>3, <1>4, <1>5 DEF ChangeInv

LEMMA NewestIs == ASSUME NEW S, S \subseteq Nat, NEW c \in S, \A b \in S : b <= c
                  PROVE  (CHOOSE x \in S : \A b \in S : b <= x) = c
<1> DEFINE m == CHOOSE x \in S : \A b \in S : b <= x
<1>1. m \in S /\ \A b \in S : b <= m
  OBVIOUS
<1> HIDE DEF m
<1>2. m \in Nat /\ c \in Nat /\ m <= c /\ c <= m
  BY <1>1
<1>3. m = c
  BY <1>2
<1> QED BY <1>3 DEF m

\* The log with one change more.
LEMMA LoggedIs ==
    ASSUME TypeOK, ChangeInv, NEW a \in Actors, Busy(a), op[a].written # {}, log' = Logged(a)
    PROVE  /\ Len(log') = Len(log) + 1 /\ log' \in [1..(Len(log) + 1) -> LogEntries]
           /\ \A c \in DOMAIN log :
                 /\ c \in DOMAIN log' /\ log'[c].key = log[c].key /\ log'[c].now = log[c].now
                 /\ log'[c].before = log[c].before /\ log'[c].after = log[c].after
                 /\ log'[c].undoneBy = IF c = op[a].undoOf THEN Len(log) + 1 ELSE log[c].undoneBy
           /\ log'[Len(log) + 1].key = op[a].key
           /\ DOMAIN log'[Len(log) + 1].now = op[a].written
           /\ DOMAIN log'[Len(log) + 1].before = op[a].written /\ DOMAIN log'[Len(log) + 1].after = op[a].written
           /\ \A i \in op[a].written : /\ log'[Len(log) + 1].now[i] = dev[op[a].key][i]
                                       /\ log'[Len(log) + 1].before[i] = op[a].before[i]
                                       /\ log'[Len(log) + 1].after[i] = op[a].want[i]
<1> DEFINE n == Len(log) e == LogEntry(a)
<1>1. n \in Nat /\ log \in [1..n -> LogEntries]
  BY DEF TypeOK
<1>2. op[a] \in Fulls /\ op[a].key \in Keys /\ op[a].want \in Rows /\ op[a].before \in Rows
      /\ op[a].written \subseteq DOMAIN op[a].want /\ op[a].written \subseteq DOMAIN op[a].before
  BY OthersElsewhere DEF Fulls, WriteSound
<1>3. op[a].written \subseteq DOMAIN dev[op[a].key] /\ dev[op[a].key] \in Rows
  BY <1>2, DevicesTyped DEF Fulls
<1>4. /\ e \in LogEntries /\ e.key = op[a].key
      /\ DOMAIN e.now = op[a].written /\ DOMAIN e.before = op[a].written /\ DOMAIN e.after = op[a].written
      /\ \A i \in op[a].written : /\ e.now[i] = dev[op[a].key][i] /\ e.before[i] = op[a].before[i]
                                  /\ e.after[i] = op[a].want[i]
  <2>1. /\ Part(op[a].before, op[a].written) \in Rows /\ Part(op[a].want, op[a].written) \in Rows
        /\ Part(dev[op[a].key], op[a].written) \in Rows
    BY <1>2, <1>3, PartTyped
  <2>2. e \in LogEntries /\ e.key = op[a].key
    BY <1>2, <2>1 DEF LogEntry, LogEntries
  <2> QED BY <2>2 DEF LogEntry, Part
<1>5. log' = [c \in 1..(n + 1) |-> IF c > n THEN e
                                   ELSE IF c = op[a].undoOf THEN [log[c] EXCEPT !.undoneBy = n + 1] ELSE log[c]]
  BY DEF Logged
<1> HIDE DEF n, e
<1>6. \A c \in 1..n :
         /\ c \in 1..(n + 1) /\ c # n + 1
         /\ log'[c] = IF c = op[a].undoOf THEN [log[c] EXCEPT !.undoneBy = n + 1] ELSE log[c]
  BY <1>1, <1>5
<1>7. n + 1 \in 1..(n + 1) /\ log'[n + 1] = e
  BY <1>1, <1>5
<1>8. \A c \in 1..n : [log[c] EXCEPT !.undoneBy = n + 1] \in LogEntries
  BY <1>1 DEF LogEntries
<1>9. \A c \in 1..(n + 1) : c = n + 1 \/ c \in 1..n
  BY <1>1
<1>10. log' \in [1..(n + 1) -> LogEntries]
  BY <1>1, <1>4, <1>5, <1>6, <1>7, <1>8, <1>9
<1>11. Len(log') = n + 1
  BY <1>1, <1>5
<1>12. \A c \in 1..n :
         /\ log'[c].key = log[c].key /\ log'[c].now = log[c].now
         /\ log'[c].before = log[c].before /\ log'[c].after = log[c].after
         /\ log'[c].undoneBy = IF c = op[a].undoOf THEN n + 1 ELSE log[c].undoneBy
  BY <1>1, <1>6, ZenonT(60) DEF LogEntries
<1>13. DOMAIN log = 1..n /\ DOMAIN log' = 1..(n + 1)
  BY <1>1, <1>10
<1> QED BY <1>4, <1>6, <1>7, <1>10, <1>11, <1>12, <1>13 DEF n

\* A change is read back and logged.
LEMMA LogsKeeps ==
    ASSUME TypeOK, ChangeInv, NEW a \in Actors, Busy(a), NEW o \in Overs, op' = [op EXCEPT ![a] = o],
           lock' = Released(a), log' = Logged(a), op[a].written # {}, UNCHANGED <<dev, blind>>
    PROVE  ChangeInv'
<1> DEFINE k == op[a].key n == Len(log) W == op[a].written
<1>1. /\ op[a] \in Fulls /\ k \in Keys /\ lock[k] = a /\ WriteSound(a) /\ W \subseteq Docs
      /\ \A b \in Actors \ {a} : Busy(b) => op[b] \in Fulls /\ op[b].key # k
  BY OthersElsewhere DEF Fulls
<1>2. /\ LocksHeld' /\ \A b \in Actors \ {a} : op'[b] = op[b]
      /\ \A h \in Keys \ {k} : lock'[h] = lock[h] /\ (lock[h] # NoHolder => lock[h] \in Actors \ {a})
      /\ op'[a].step = "over"
  BY LocksGiven
<1>3. n \in Nat /\ DOMAIN log = 1..n /\ DOMAIN log' = 1..(n + 1)
  BY LoggedIs DEF TypeOK
<1>4. /\ \A c \in DOMAIN log : log'[c].key = log[c].key /\ log'[c].now = log[c].now
                            /\ log'[c].before = log[c].before /\ log'[c].after = log[c].after
      /\ log'[n + 1].key = k /\ DOMAIN log'[n + 1].now = W
      /\ DOMAIN log'[n + 1].before = W /\ DOMAIN log'[n + 1].after = W
      /\ \A i \in W : /\ log'[n + 1].now[i] = dev[k][i] /\ log'[n + 1].before[i] = op[a].before[i]
                      /\ log'[n + 1].after[i] = op[a].want[i]
  BY LoggedIs
<1>5. LogSound'
  <2> SUFFICES ASSUME NEW c \in DOMAIN log'
               PROVE  /\ DOMAIN log'[c].before = DOMAIN log'[c].after /\ DOMAIN log'[c].before # {}
                      /\ \A i \in DOMAIN log'[c].before : log'[c].before[i] # log'[c].after[i]
    BY DEF LogSound
  <2>1. CASE c \in DOMAIN log
    BY <1>4, <2>1 DEF ChangeInv, LogSound
  <2>2. CASE c = n + 1
    <3>1. \A i \in W : op[a].want[i] # op[a].before[i]
      BY <1>1 DEF WriteSound
    <3> QED BY <1>4, <2>2, <3>1
  <2> QED BY <1>3, <2>1, <2>2
<1>6. OpsSound'
  <2>1. ASSUME NEW b \in Actors \ {a} PROVE (op'[b].step = "asked" => AskedSound(op[b])') /\ (Busy(b)' => WriteSound(b)')
    <3>1. op'[b] = op[b]
      BY <1>2
    <3>2. \A c \in DOMAIN log : c \in DOMAIN log'
      BY <1>3
    <3>3. op'[b].step = "asked" => AskedSound(op[b])'
      BY <1>4, <3>1, <3>2 DEF ChangeInv, OpsSound, AskedSound
    <3>4. Busy(b)' => WriteSound(b)'
      <4>1. Busy(b) => WriteSound(b)
        BY DEF ChangeInv, OpsSound
      <4> QED BY <1>4, <3>1, <3>2, <4>1 DEF Busy, WriteSound, ToWrite
    <3> QED BY <3>3, <3>4
  <2> QED BY <1>2, <2>1 DEF OpsSound, Busy
<1>7. \A h \in Keys, i \in Docs :
          ChangesOf(h, i)' = ChangesOf(h, i) \cup (IF h = k /\ i \in W THEN {n + 1} ELSE {})
  <2> SUFFICES ASSUME NEW h \in Keys, NEW i \in Docs
               PROVE  ChangesOf(h, i)' = ChangesOf(h, i) \cup (IF h = k /\ i \in W THEN {n + 1} ELSE {})
    OBVIOUS
  <2>1. \A c \in DOMAIN log : c \in DOMAIN log' /\ (c \in ChangesOf(h, i)' <=> c \in ChangesOf(h, i))
    BY <1>3, <1>4 DEF ChangesOf
  <2>2. n + 1 \in DOMAIN log' /\ (n + 1 \in ChangesOf(h, i)' <=> h = k /\ i \in W)
    BY <1>3, <1>4 DEF ChangesOf
  <2>3. \A c \in DOMAIN log' : c \in DOMAIN log \/ c = n + 1
    BY <1>3
  <2>4. ChangesOf(h, i)' \subseteq DOMAIN log' /\ ChangesOf(h, i) \subseteq DOMAIN log
    BY DEF ChangesOf
  <2> HIDE DEF n, W, k
  <2> QED BY <2>1, <2>2, <2>3, <2>4
<1>8. \A h \in Keys, i \in Docs : h = k /\ i \in W => \A b \in ChangesOf(h, i)' : b <= n + 1
  <2>1. \A h \in Keys, i \in Docs : ChangesOf(h, i)' \subseteq 1..(n + 1)
    BY <1>3 DEF ChangesOf
  <2>2. \A b \in 1..(n + 1) : b <= n + 1
    BY <1>3
  <2> HIDE DEF n, W, k
  <2> QED BY <2>1, <2>2
<1>9. HaveNewest'
  <2> SUFFICES ASSUME NEW h \in Keys, NEW i \in Docs, ChangesOf(h, i)' # {}
               PROVE  \E c \in ChangesOf(h, i)' : \A b \in ChangesOf(h, i)' : b <= c
    BY DEF HaveNewest
  <2>1. CASE h = k /\ i \in W
    <3>1. n + 1 \in ChangesOf(h, i)'
      BY <1>7, <2>1
    <3> QED BY <1>8, <2>1, <3>1
  <2>2. CASE ~(h = k /\ i \in W)
    <3>1. (IF h = k /\ i \in W THEN {n + 1} ELSE {}) = {}
      BY <2>2
    <3>2. ChangesOf(h, i)' = ChangesOf(h, i)
      BY <1>7, <3>1
    <3> QED BY <3>2 DEF ChangeInv, HaveNewest
  <2> QED BY <2>1, <2>2
<1>10. \A h \in Keys, i \in Docs : ChangesOf(h, i) \subseteq Nat /\ ChangesOf(h, i)' \subseteq Nat
  <2>1. 1..n \subseteq Nat /\ 1..(n + 1) \subseteq Nat
    BY <1>3
  <2> QED BY <1>3, <2>1 DEF ChangesOf
<1>11. ASSUME NEW h \in Keys, NEW i \in Docs, h = k /\ i \in W PROVE LastSays(h, i)' = dev[h][i]
  <2>1. n + 1 \in ChangesOf(h, i)' /\ \A b \in ChangesOf(h, i)' : b <= n + 1
    BY <1>7, <1>8, <1>11
  <2> DEFINE S == ChangesOf(h, i)'
  <2>2. S \subseteq Nat /\ n + 1 \in S /\ \A b \in S : b <= n + 1
    BY <1>10, <2>1
  <2>3. (CHOOSE x \in S : \A b \in S : b <= x) = n + 1
    <3> HIDE DEF S, n
    <3> QED BY <2>2, NewestIs
  <2>4. LastSays(h, i)' = IF S = {} THEN 0 ELSE log'[CHOOSE x \in S : \A b \in S : b <= x].now[i]
    BY DEF LastSays, ChangesOf
  <2> HIDE DEF S, n
  <2> QED BY <1>4, <1>11, <2>2, <2>3, <2>4
<1>12. ASSUME NEW h \in Keys, NEW i \in Docs, ~(h = k /\ i \in W) PROVE LastSays(h, i)' = LastSays(h, i)
  <2> DEFINE S == ChangesOf(h, i)
  <2>1. ChangesOf(h, i)' = S
    BY <1>7, <1>12
  <2>2. LastSays(h, i)' = IF S = {} THEN 0 ELSE log'[CHOOSE x \in S : \A b \in S : b <= x].now[i]
    <3>1. LastSays(h, i)' = IF ChangesOf(h, i)' = {} THEN 0
                            ELSE log'[CHOOSE x \in ChangesOf(h, i)' : \A b \in ChangesOf(h, i)' : b <= x].now[i]
      BY DEF LastSays, ChangesOf
    <3> HIDE DEF S
    <3> QED BY <2>1, <3>1
  <2>3. LastSays(h, i) = IF S = {} THEN 0 ELSE log[CHOOSE x \in S : \A b \in S : b <= x].now[i]
    BY DEF LastSays, ChangesOf
  <2>4. CASE S = {}
    <3> HIDE DEF S
    <3> QED BY <2>2, <2>3, <2>4
  <2>5. CASE S # {}
    <3>1. PICK c \in S : \A b \in S : b <= c
      BY <2>5 DEF ChangeInv, HaveNewest
    <3>2. S \subseteq Nat /\ c \in DOMAIN log
      BY <1>10 DEF ChangesOf
    <3>3. (CHOOSE x \in S : \A b \in S : b <= x) = c
      <4> HIDE DEF S
      <4> QED BY <3>1, <3>2, NewestIs
    <3> HIDE DEF S
    <3> QED BY <1>4, <2>2, <2>3, <2>5, <3>2, <3>3
  <2> QED BY <2>4, <2>5
<1>13. UntouchedTold'
  <2> SUFFICES ASSUME NEW h \in Keys \ blind, NEW i \in Docs, lock'[h] # NoHolder => i \notin op'[lock'[h]].written
               PROVE  dev[h][i] = LastSays(h, i)'
    BY DEF UntouchedTold
  <2>1. CASE h = k /\ i \in W
    BY <1>11, <2>1
  <2>2. CASE h = k /\ i \notin W
    BY <1>1, <1>12, <2>2 DEF ChangeInv, UntouchedTold
  <2>3. CASE h # k
    <3>1. lock'[h] = lock[h] /\ (lock[h] # NoHolder => op'[lock[h]] = op[lock[h]])
      BY <1>2, <2>3
    <3> QED BY <1>12, <2>3, <3>1 DEF ChangeInv, UntouchedTold
  <2> QED BY <2>1, <2>2, <2>3
<1> QED BY <1>2, <1>5, <1>6, <1>9, <1>13 DEF ChangeInv

LEMMA OverTyped == ASSUME NEW a \in Actors, NEW result \in Results, NEW cid \in Nat
                   PROVE  /\ [step |-> "over", result |-> result, cid |-> cid] \in Overs
                          /\ Over(a, result, cid) = [op EXCEPT ![a] = [step |-> "over", result |-> result, cid |-> cid]]
BY DEF Over, Overs

LEMMA OverIsOne == ASSUME NEW a \in Actors, NEW result \in Results, NEW cid \in Nat
                   PROVE  \E o \in Overs : Over(a, result, cid) = [op EXCEPT ![a] = o]
<1> DEFINE o == [step |-> "over", result |-> result, cid |-> cid]
<1>1. o \in Overs /\ Over(a, result, cid) = [op EXCEPT ![a] = o]
  BY OverTyped
<1> HIDE DEF o
<1> QED BY <1>1

LEMMA OpTyped == ASSUME TypeOK, NEW a \in Actors, NEW o \in {NoOp} \cup Overs \cup Fulls
                 PROVE  [op EXCEPT ![a] = o] \in [Actors -> {NoOp} \cup Overs \cup Fulls]
BY DEF TypeOK

LEMMA ChangeBegins == ASSUME TypeOK, ChangeInv, NEW a \in Actors, Begin(a) PROVE TypeOK' /\ ChangeInv'
<1> DEFINE k == op[a].key
<1>1. op[a] \in Fulls /\ k \in Keys /\ ~Busy(a) /\ op[a].step = "asked"
  BY FullOp DEF Begin, Fulls, Busy
<1>2. UNCHANGED <<dev, log, blind, jobs, disk, run, worker, asked>>
  BY DEF Begin, jobVars
<1>3. ASSUME NEW result \in Results, op' = Over(a, result, 0), UNCHANGED lock PROVE TypeOK' /\ ChangeInv'
  <2> DEFINE o == [step |-> "over", result |-> result, cid |-> 0]
  <2>1. o \in Overs /\ op' = [op EXCEPT ![a] = o] /\ o.step = "over"
    BY <1>3, OverTyped
  <2> HIDE DEF o
  <2>2. TypeOK'
    BY <1>2, <1>3, <2>1, OpTyped DEF TypeOK
  <2>3. ChangeInv'
    BY <1>1, <1>2, <1>3, <2>1, TakenUp
  <2> QED BY <2>2, <2>3
<1>4. ASSUME Locks(a) PROVE TypeOK' /\ ChangeInv'
  <2>1. op' \in [Actors -> {NoOp} \cup Overs \cup Fulls]
    BY <1>4, LocksOp
  <2>2. lock' \in [Keys -> Actors \cup {NoHolder}]
    BY <1>1, <1>4 DEF Locks, TypeOK
  <2>3. TypeOK'
    BY <1>2, <2>1, <2>2 DEF TypeOK
  <2> QED BY <1>4, <2>3, LocksKeeps
<1>5. CASE ~LockFree(k, a)
  <2>1. op' = Over(a, "failed", 0) /\ UNCHANGED lock
    BY <1>5 DEF Begin
  <2> QED BY <1>3, <2>1 DEF Results
<1>6. CASE LockFree(k, a)
  <2>1. \/ Locks(a)
        \/ op' = Over(a, "unchanged", 0) /\ UNCHANGED lock
        \/ op' = Over(a, "failed", 0) /\ UNCHANGED lock
    BY <1>6 DEF Begin, Locks, LockFree, DifferOf
  <2> QED BY <1>3, <1>4, <2>1, SMTT(30) DEF Results
<1> QED BY <1>5, <1>6

LEMMA ReleasedTyped == ASSUME TypeOK, NEW a \in Actors, Busy(a) PROVE Released(a) \in [Keys -> Actors \cup {NoHolder}]
BY FullOp DEF Released, TypeOK, Busy, Fulls

\* The document that is written next.
LEMMA NextToWrite ==
    ASSUME TypeOK, ChangeInv, NEW a \in Actors, op[a].step = "write"
    PROVE  (CHOOSE x \in ToWrite(a) : \A y \in ToWrite(a) : x <= y) \in ToWrite(a) /\ ToWrite(a) \subseteq Docs
<1>1. op[a] \in Fulls /\ WriteSound(a)
  BY OthersElsewhere DEF Busy
<1>2. ToWrite(a) \subseteq Docs /\ ToWrite(a) # {}
  BY <1>1 DEF WriteSound, Fulls, Rows, ToWrite
<1>3. ToWrite(a) \subseteq Nat
  BY <1>2, DocsAssumption DEF Docs
<1>4. \E x \in ToWrite(a) : \A y \in ToWrite(a) : x <= y
  BY <1>2, <1>3, LeastOne
<1> QED BY <1>2, <1>4

LEMMA DocTyped == ASSUME TypeOK, NEW k \in Keys, NEW i \in Docs, NEW v \in Values
                  PROVE  /\ [dev EXCEPT ![k][i] = v] \in [Keys -> [Docs -> Values]]
                         /\ \A h \in Keys \ {k} : [dev EXCEPT ![k][i] = v][h] = dev[h]
                         /\ [dev EXCEPT ![k][i] = v][k][i] = v
                         /\ \A j \in Docs \ {i} : [dev EXCEPT ![k][i] = v][k][j] = dev[k][j]
BY DEF TypeOK

LEMMA ChangeWrites == ASSUME TypeOK, ChangeInv, NEW a \in Actors, Write(a) PROVE TypeOK' /\ ChangeInv'
<1> DEFINE k == op[a].key i == CHOOSE x \in ToWrite(a) : \A y \in ToWrite(a) : x <= y
           Done == [dev EXCEPT ![k][i] = op[a].want[i]]
<1>1. Busy(a) /\ op[a].step = "write" /\ UNCHANGED <<log, jobs, disk, run, worker, asked>>
  BY DEF Write, Busy, jobVars
<1>2. op[a] \in Fulls /\ k \in Keys /\ WriteSound(a)
  BY <1>1, OthersElsewhere
<1>3. i \in ToWrite(a) /\ i \in Docs
  BY <1>1, NextToWrite
<1>4. op[a].want[i] \in Values /\ i \in DOMAIN op[a].want
  <2>1. PICK S \in SUBSET Docs : op[a].want \in [S -> Values]
    BY <1>2 DEF Fulls, Rows
  <2>2. i \in DOMAIN op[a].want
    BY <1>3 DEF ToWrite
  <2> QED BY <2>1, <2>2
<1>5. /\ Done \in [Keys -> [Docs -> Values]] /\ \A h \in Keys \ {k} : Done[h] = dev[h]
      /\ \A j \in Docs \ {i} : Done[k][j] = dev[k][j]
  BY <1>2, <1>3, <1>4, DocTyped
<1>6. \/ /\ dev' = Done \/ dev' = dev
         /\ op' = [op EXCEPT ![a].written = @ \cup {i}, ![a].step = IF ToWrite(a) = {i} THEN "back" ELSE @]
         /\ UNCHANGED <<lock, blind>>
      \/ op' = [op EXCEPT ![a].step = "back", ![a].err = TRUE] /\ UNCHANGED <<dev, lock, blind>>
      \/ /\ op' = Over(a, "failed", 0) /\ lock' = Released(a) /\ (dev' = Done \/ dev' = dev)
         /\ blind' = blind \cup {k} \/ (blind' = blind /\ op[a].written = {} /\ dev' = dev)
  BY DEF Write
<1>7. dev' = Done \/ dev' = dev
  BY <1>6
<1> HIDE DEF i, Done
<1>8. /\ dev' \in [Keys -> [Docs -> Values]] /\ \A h \in Keys \ {k} : dev'[h] = dev[h]
      /\ \A j \in Docs \ {i} : dev'[k][j] = dev[k][j]
  BY <1>5, <1>7 DEF TypeOK
<1>9. CASE /\ op' = [op EXCEPT ![a].written = @ \cup {i}, ![a].step = IF ToWrite(a) = {i} THEN "back" ELSE @]
           /\ UNCHANGED <<lock, blind>>
  <2> DEFINE o == [op[a] EXCEPT !.written = @ \cup {i}, !.step = IF ToWrite(a) = {i} THEN "back" ELSE @]
  <2>1. op' = [op EXCEPT ![a] = o]
    BY <1>9 DEF TypeOK
  <2>2. /\ o \in Fulls /\ o.step = (IF ToWrite(a) = {i} THEN "back" ELSE "write") /\ o.written = op[a].written \cup {i}
        /\ o.key = k /\ o.want = op[a].want /\ o.before = op[a].before /\ o.undoOf = op[a].undoOf
    BY <1>1, <1>2, <1>3 DEF Fulls
  <2> HIDE DEF o
  <2>3. op'[a] = o /\ \A b \in Actors \ {a} : op'[b] = op[b]
    BY <2>1 DEF TypeOK
  <2>4. op[a].written \subseteq op'[a].written /\ op'[a].written \subseteq DOMAIN op[a].want
    BY <1>2, <1>4, <2>2, <2>3 DEF WriteSound
  <2>5. op'[a].step = "write" => ToWrite(a)' # {}
    <3>1. ToWrite(a)' = ToWrite(a) \ {i}
      BY <2>2, <2>3 DEF ToWrite
    <3> QED BY <1>3, <2>2, <2>3, <3>1
  <2>6. \A j \in Docs \ op'[a].written : dev'[k][j] = dev[k][j]
    BY <1>8, <2>2, <2>3
  <2>7. op'[a].step \in {"write", "back"}
    BY <2>2, <2>3
  <2>8. ChangeInv'
    BY <1>1, <1>8, <1>9, <2>2, <2>3, <2>4, <2>5, <2>6, <2>7, GoesOn
  <2>9. TypeOK'
    <3>1. op' \in [Actors -> {NoOp} \cup Overs \cup Fulls]
      BY <2>1, <2>2, OpTyped
    <3>2. dev' \in [Keys -> [Docs -> Values]]
      BY <1>8
    <3> QED BY <1>1, <1>9, <3>1, <3>2 DEF TypeOK
  <2> QED BY <2>8, <2>9
<1>10. CASE op' = [op EXCEPT ![a].step = "back", ![a].err = TRUE] /\ UNCHANGED <<dev, lock, blind>>
  <2> DEFINE o == [op[a] EXCEPT !.step = "back", !.err = TRUE]
  <2>1. op' = [op EXCEPT ![a] = o]
    BY <1>10 DEF TypeOK
  <2>2. /\ o \in Fulls /\ o.step = "back" /\ o.written = op[a].written
        /\ o.key = k /\ o.want = op[a].want /\ o.before = op[a].before /\ o.undoOf = op[a].undoOf
    BY <1>2 DEF Fulls
  <2> HIDE DEF o
  <2>3. op'[a] = o /\ \A b \in Actors \ {a} : op'[b] = op[b]
    BY <2>1 DEF TypeOK
  <2>4. op[a].written \subseteq op'[a].written /\ op'[a].written \subseteq DOMAIN op[a].want
    BY <1>2, <2>2, <2>3 DEF WriteSound
  <2>5. op'[a].step \in {"write", "back"} /\ op'[a].step # "write"
    BY <2>2, <2>3
  <2>6. (\A h \in Keys \ {k} : dev'[h] = dev[h]) /\ \A j \in Docs \ op'[a].written : dev'[k][j] = dev[k][j]
    BY <1>10
  <2>7. ChangeInv'
    BY <1>1, <1>10, <2>2, <2>3, <2>4, <2>5, <2>6, GoesOn
  <2>8. TypeOK'
    BY <1>1, <1>10, <2>1, <2>2, OpTyped, ZenonT(60) DEF TypeOK
  <2> QED BY <2>7, <2>8
<1>11. CASE /\ op' = Over(a, "failed", 0) /\ lock' = Released(a)
            /\ blind' = blind \cup {k} \/ (blind' = blind /\ op[a].written = {} /\ dev' = dev)
  <2> DEFINE o == [step |-> "over", result |-> "failed", cid |-> 0]
  <2>1. o \in Overs /\ op' = [op EXCEPT ![a] = o]
    BY <1>11, OverTyped DEF Results
  <2> HIDE DEF o
  <2>2. blind' \subseteq Keys /\ blind \subseteq blind' /\ (k \in blind' \/ (op[a].written = {} /\ dev' = dev))
    BY <1>2, <1>11 DEF TypeOK
  <2>3. TypeOK'
    BY <1>1, <1>8, <1>11, <2>1, <2>2, OpTyped, ReleasedTyped DEF TypeOK
  <2>4. ChangeInv'
    BY <1>1, <1>8, <1>11, <2>1, <2>2, NotLogged
  <2> QED BY <2>3, <2>4
<1> QED BY <1>6, <1>9, <1>10, <1>11

LEMMA ChangeReadsBack == ASSUME TypeOK, ChangeInv, NEW a \in Actors, Back(a) PROVE TypeOK' /\ ChangeInv'
<1> DEFINE k == op[a].key
<1>1. Busy(a) /\ lock' = Released(a) /\ UNCHANGED <<dev, jobs, disk, run, worker, asked>>
  BY DEF Back, Busy, jobVars
<1>2. op[a] \in Fulls /\ k \in Keys
  BY <1>1, OthersElsewhere
<1>3. Len(log) + 1 \in Nat /\ 0 \in Nat
  BY DEF TypeOK
<1>4. \/ /\ op[a].written # {} /\ log' = Logged(a) /\ UNCHANGED blind
         /\ op' = Over(a, "ok", Len(log) + 1) \/ op' = Over(a, "partial", Len(log) + 1)
      \/ op[a].written = {} /\ op' = Over(a, "failed", 0) /\ UNCHANGED <<log, blind>>
      \/ /\ op' = Over(a, "failed", 0) /\ UNCHANGED log
         /\ blind' = IF op[a].written # {} THEN blind \cup {k} ELSE blind
  BY DEF Back
<1>5. CASE /\ op[a].written # {} /\ log' = Logged(a) /\ UNCHANGED blind
           /\ op' = Over(a, "ok", Len(log) + 1) \/ op' = Over(a, "partial", Len(log) + 1)
  <2>1. PICK o \in Overs : op' = [op EXCEPT ![a] = o]
    <3>1. "ok" \in Results /\ "partial" \in Results
      BY DEF Results
    <3>2. \A r \in Results : \E o \in Overs : Over(a, r, Len(log) + 1) = [op EXCEPT ![a] = o]
      BY <1>3, OverIsOne
    <3> QED BY <1>5, <3>1, <3>2
  <2>2. Len(log') \in Nat /\ log' \in [1..Len(log') -> LogEntries]
    BY <1>1, <1>3, <1>5, LoggedIs
  <2>3. TypeOK'
    BY <1>1, <1>5, <2>1, <2>2, OpTyped, ReleasedTyped DEF TypeOK
  <2>4. ChangeInv'
    BY <1>1, <1>5, <2>1, LogsKeeps
  <2> QED BY <2>3, <2>4
<1>6. CASE /\ op' = Over(a, "failed", 0) /\ UNCHANGED log
           /\ (blind' = blind /\ op[a].written = {}) \/ blind' = blind \cup {k}
  <2>1. PICK o \in Overs : op' = [op EXCEPT ![a] = o]
    <3>1. "failed" \in Results
      BY DEF Results
    <3>2. \E o \in Overs : Over(a, "failed", 0) = [op EXCEPT ![a] = o]
      BY <1>3, <3>1, OverIsOne
    <3> QED BY <1>6, <3>2
  <2>2. blind' \subseteq Keys /\ blind \subseteq blind' /\ (k \in blind' \/ (op[a].written = {} /\ dev' = dev))
    BY <1>1, <1>2, <1>6 DEF TypeOK
  <2>3. TypeOK'
    BY <1>1, <1>6, <2>1, <2>2, OpTyped, ReleasedTyped DEF TypeOK
  <2>4. ChangeInv'
    BY <1>1, <1>6, <2>1, <2>2, NotLogged
  <2> QED BY <2>3, <2>4
<1> QED BY <1>4, <1>5, <1>6

\* What an undo of a job asks for: each change of its items, once more and newest first.
UpTo(items, g, i) ==
    IF i = 0 THEN <<>>
    ELSE IF items[i].cid # 0 THEN <<Item(items[i].key, items[i].cid)>> \o g[i - 1] ELSE g[i - 1]

UndoesOf(items, i, s) ==
    /\ s \in Seq(Items)
    /\ \A n \in 1..Len(s) : s[n].status = "pending" /\ s[n].cid = 0
                            /\ \E m \in 1..i : items[m].cid # 0 /\ s[n].undo = items[m].cid
    /\ \A m \in 1..i : items[m].cid # 0 => \E n \in 1..Len(s) : s[n].undo = items[m].cid

LEMMA UndoesMore ==
    ASSUME NEW items \in Seq(Items), NEW i \in 1..Len(items), NEW s, UndoesOf(items, i - 1, s)
    PROVE  UndoesOf(items, i, IF items[i].cid # 0 THEN <<Item(items[i].key, items[i].cid)>> \o s ELSE s)
<1> DEFINE it == Item(items[i].key, items[i].cid)
<1>1. i \in Nat /\ i - 1 \in Nat /\ \A m \in 1..i : m = i \/ m \in 1..(i - 1)
  OBVIOUS
<1>2. \A m \in 1..(i - 1) : m \in 1..i
  BY <1>1
<1>3. items[i] \in Items /\ i \in 1..i
  BY <1>1
<1>4. it \in Items /\ it.status = "pending" /\ it.cid = 0 /\ it.undo = items[i].cid
  BY <1>3 DEF Items, Item
<1>5. CASE items[i].cid = 0
  <2>1. \A n \in 1..Len(s) : s[n].status = "pending" /\ s[n].cid = 0
                             /\ \E m \in 1..i : items[m].cid # 0 /\ s[n].undo = items[m].cid
    BY <1>2 DEF UndoesOf
  <2>2. ASSUME NEW m \in 1..i, items[m].cid # 0 PROVE \E n \in 1..Len(s) : s[n].undo = items[m].cid
    <3>1. m \in 1..(i - 1)
      BY <1>1, <1>5, <2>2
    <3> QED BY <2>2, <3>1 DEF UndoesOf
  <2>3. UndoesOf(items, i, s)
    BY <2>1, <2>2 DEF UndoesOf
  <2> QED BY <1>5, <2>3
<1>6. CASE items[i].cid # 0
  <2> DEFINE t == <<it>> \o s
  <2> HIDE DEF it
  <2>1. s \in Seq(Items) /\ Len(s) \in Nat
    BY DEF UndoesOf
  <2>2. t \in Seq(Items) /\ Len(t) = Len(s) + 1 /\ t[1] = it
    BY <1>4, <2>1
  <2>3. \A n \in 1..Len(s) : n + 1 \in 1..Len(t) /\ t[n + 1] = s[n]
    BY <1>4, <2>1
  <2>4. \A n \in 1..Len(t) : n = 1 \/ (n - 1 \in 1..Len(s) /\ t[n] = s[n - 1])
    BY <1>4, <2>1, <2>2
  <2> HIDE DEF t
  <2>5. ASSUME NEW n \in 1..Len(t)
        PROVE  t[n].status = "pending" /\ t[n].cid = 0 /\ \E m \in 1..i : items[m].cid # 0 /\ t[n].undo = items[m].cid
    <3>1. CASE n = 1
      BY <1>3, <1>4, <1>6, <2>2, <3>1
    <3>2. CASE n - 1 \in 1..Len(s) /\ t[n] = s[n - 1]
      BY <1>2, <3>2 DEF UndoesOf
    <3> QED BY <2>4, <3>1, <3>2
  <2>6. ASSUME NEW m \in 1..i, items[m].cid # 0 PROVE \E n \in 1..Len(t) : t[n].undo = items[m].cid
    <3>1. CASE m = i
      <4>1. 1 \in 1..Len(t)
        BY <2>1, <2>2
      <4> QED BY <1>4, <2>2, <3>1, <4>1
    <3>2. CASE m \in 1..(i - 1)
      <4>1. PICK n \in 1..Len(s) : s[n].undo = items[m].cid
        BY <2>6, <3>2 DEF UndoesOf
      <4> QED BY <2>3, <4>1
    <3> QED BY <1>1, <3>1, <3>2
  <2>7. UndoesOf(items, i, t)
    BY <2>2, <2>5, <2>6 DEF UndoesOf
  <2> QED BY <1>6, <2>7 DEF t, it
<1> QED BY <1>5, <1>6

\* What the recursion of Changed is over: it has a solution for every length.
Solves(items, n, g) == g = [j \in 0..n |-> UpTo(items, g, j)]

LEMMA UpToExists == ASSUME NEW items \in Seq(Items), NEW i \in 0..Len(items) PROVE \E g : Solves(items, i, g)
<1> DEFINE P(n) == \E g : Solves(items, n, g)
           Missed == {n \in 0..Len(items) : ~P(n)}
<1>1. Len(items) \in Nat
  OBVIOUS
<1>2. Missed \subseteq Nat
  OBVIOUS
<1>3. ASSUME Missed # {} PROVE FALSE
  <2>1. PICK n \in Missed : \A m \in Missed : n <= m
    <3> HIDE DEF Missed
    <3> QED BY <1>2, <1>3, LeastOne
  <2>2. n \in 0..Len(items) /\ ~P(n)
    OBVIOUS
  <2>3. CASE n = 0
    <3> DEFINE g == [j \in 0..0 |-> <<>>]
    <3>1. g = [j \in 0..0 |-> UpTo(items, g, j)]
      BY DEF UpTo
    <3> HIDE DEF g
    <3> QED BY <2>2, <2>3, <3>1 DEF Solves
  <2>4. CASE n # 0
    <3>1. n \in 1..Len(items) /\ n - 1 \in 0..Len(items) /\ ~(n <= n - 1) /\ n - 1 \in 0..n /\ n \in 0..n
      BY <2>2, <2>4
    <3>2. P(n - 1)
      BY <2>1, <3>1
    <3>3. PICK g : Solves(items, n - 1, g)
      BY <3>2
    <3> DEFINE f == [j \in 0..n |-> IF j = n THEN UpTo(items, g, n) ELSE g[j]]
    <3>4. f[n] = UpTo(items, g, n) /\ \A j \in 0..(n - 1) : f[j] = g[j]
      BY <3>1
    <3>5. \A j \in 0..n : f[j] = UpTo(items, f, j)
      <4> SUFFICES ASSUME NEW j \in 0..n PROVE f[j] = UpTo(items, f, j)
        OBVIOUS
      <4>1. CASE j = n
        <5>1. f[n - 1] = g[n - 1] /\ n - 1 \in 0..(n - 1)
          BY <3>1, <3>4
        <5> HIDE DEF f
        <5> QED BY <2>4, <3>4, <4>1, <5>1 DEF UpTo
      <4>2. CASE j # n
        <5>1. j \in 0..(n - 1) /\ (j # 0 => j - 1 \in 0..(n - 1))
          BY <4>2
        <5>2. f[j] = g[j] /\ (j # 0 => f[j - 1] = g[j - 1])
          BY <3>4, <5>1
        <5>3. g[j] = UpTo(items, g, j)
          BY <3>3, <5>1 DEF Solves
        <5> HIDE DEF f
        <5> QED BY <5>2, <5>3 DEF UpTo
      <4> QED BY <4>1, <4>2
    <3>6. f = [j \in 0..n |-> UpTo(items, f, j)]
      BY <3>5
    <3> HIDE DEF f
    <3> QED BY <2>2, <3>6 DEF Solves
  <2> QED BY <2>3, <2>4
<1> QED BY <1>3

LEMMA SolutionUndoes ==
    ASSUME NEW items \in Seq(Items), NEW n \in Nat, n <= Len(items), NEW g, Solves(items, n, g)
    PROVE  UndoesOf(items, n, g[n])
<1> DEFINE Missed == {i \in 0..n : ~UndoesOf(items, i, g[i])}
<1>1. \A i \in 0..n : g[i] = UpTo(items, g, i)
  BY DEF Solves
<1>2. Missed \subseteq Nat
  OBVIOUS
<1>3. ASSUME Missed # {} PROVE FALSE
  <2>1. PICK i \in Missed : \A m \in Missed : i <= m
    <3> HIDE DEF Missed
    <3> QED BY <1>2, <1>3, LeastOne
  <2>2. i \in 0..n /\ ~UndoesOf(items, i, g[i])
    OBVIOUS
  <2>3. CASE i = 0
    <3>1. g[0] = <<>>
      BY <1>1, <2>3 DEF UpTo
    <3>2. UndoesOf(items, 0, <<>>)
      BY DEF UndoesOf
    <3> QED BY <2>2, <2>3, <3>1, <3>2
  <2>4. CASE i # 0
    <3>1. i \in 1..Len(items) /\ i - 1 \in 0..n /\ ~(i <= i - 1)
      BY <2>2, <2>4
    <3>2. UndoesOf(items, i - 1, g[i - 1])
      BY <2>1, <3>1
    <3>3. UndoesOf(items, i, UpTo(items, g, i))
      BY <2>4, <3>1, <3>2, UndoesMore DEF UpTo
    <3> QED BY <1>1, <2>2, <3>3
  <2> QED BY <2>3, <2>4
<1> QED BY <1>3

LEMMA ChangedIs == ASSUME NEW items \in Seq(Items) PROVE UndoesOf(items, Len(items), Changed(items))
<1> DEFINE n == Len(items) u == CHOOSE g : Solves(items, n, g)
<1>1. n \in Nat /\ n \in 0..n /\ n <= Len(items)
  OBVIOUS
<1>2. Solves(items, n, u)
  BY <1>1, UpToExists
<1>3. Changed(items) = u[n]
  BY DEF Changed, UpTo, Solves
<1> HIDE DEF u
<1>4. UndoesOf(items, n, u[n])
  BY <1>1, <1>2, SolutionUndoes
<1> QED BY <1>3, <1>4


LEMMA JobTyped == ASSUME TypeOK, NEW j \in DOMAIN jobs
                  PROVE  /\ jobs[j] \in JobRecs /\ jobs[j].items \in Seq(Items) /\ j \in 1..Len(jobs)
                         /\ \A m \in DOMAIN jobs[j].items : jobs[j].items[m] \in Items
<1>1. jobs[j] \in JobRecs /\ j \in 1..Len(jobs)
  BY DEF TypeOK
<1>2. jobs[j].items \in Seq(Items)
  BY <1>1 DEF JobRecs
<1> QED BY <1>1, <1>2

LEMMA RunTyped == ASSUME TypeOK, run # 0 PROVE run \in DOMAIN jobs
BY DEF TypeOK

\* The log only grows, and what is undone stays so.
Grows == /\ Len(log) \in Nat /\ Len(log') \in Nat /\ Len(log) <= Len(log')
         /\ DOMAIN log = 1..Len(log) /\ DOMAIN log' = 1..Len(log')
         /\ \A c \in DOMAIN log : log[c].undoneBy # 0 => log'[c].undoneBy # 0

LEMMA LogGrows == ASSUME TypeOK, ChangeInv, log' = log \/ \E a \in Actors : Back(a) PROVE Grows
<1>1. Len(log) \in Nat /\ DOMAIN log = 1..Len(log)
  BY DEF TypeOK
<1>2. CASE log' = log
  BY <1>1, <1>2 DEF Grows
<1>3. ASSUME NEW a \in Actors, Back(a), log' # log PROVE Grows
  <2>1. Busy(a) /\ op[a].written # {} /\ log' = Logged(a)
    BY <1>3 DEF Back, Busy
  <2>2. /\ Len(log') = Len(log) + 1 /\ DOMAIN log' = 1..(Len(log) + 1)
        /\ \A c \in DOMAIN log :
              log'[c].undoneBy = IF c = op[a].undoOf THEN Len(log) + 1 ELSE log[c].undoneBy
    BY <2>1, LoggedIs
  <2>3. Len(log) + 1 # 0
    BY <1>1
  <2> QED BY <1>1, <2>2, <2>3 DEF Grows
<1> QED BY <1>2, <1>3

LEMMA StaysSound ==
    ASSUME NEW js, Grows, JobsSound(js), AllUndone(js)
    PROVE  /\ \A j \in DOMAIN js :
                 /\ \A m \in DOMAIN js[j].items : js[j].items[m].cid \in 0..Len(log')
                 /\ js[j].kind = "undo" =>
                       /\ js[j].undoOf \in 1..(j - 1)
                       /\ \A m \in DOMAIN js[j].items : js[j].items[m].undo \in DOMAIN log'
           /\ \A j \in DOMAIN js : js[j].undoneBy # 0 /\ ~js[j].note =>
                 \A m \in DOMAIN js[j].items : js[j].items[m].cid # 0 => log'[js[j].items[m].cid].undoneBy # 0
<1>1. \A c \in 0..Len(log) : c \in 0..Len(log') /\ (c # 0 => c \in DOMAIN log)
  BY DEF Grows
<1>2. \A c \in DOMAIN log : c \in DOMAIN log'
  BY DEF Grows
<1> QED BY <1>1, <1>2 DEF Grows, JobsSound, AllUndone

LEMMA KeptSound == ASSUME Grows, JobsSound(jobs), AllUndone(jobs), JobsSound(disk), AllUndone(disk)
                   PROVE  /\ jobs' = jobs => JobsSound(jobs)' /\ AllUndone(jobs)'
                          /\ disk' = disk => JobsSound(disk)' /\ AllUndone(disk)'
                          /\ disk' = jobs => JobsSound(disk)' /\ AllUndone(disk)'
<1>1. jobs' = jobs => JobsSound(jobs)' /\ AllUndone(jobs)'
  BY StaysSound DEF JobsSound, AllUndone
<1>2. disk' = disk => JobsSound(disk)' /\ AllUndone(disk)'
  BY StaysSound, SMTT(30) DEF JobsSound, AllUndone
<1>3. disk' = jobs => JobsSound(disk)' /\ AllUndone(disk)'
  BY StaysSound DEF JobsSound, AllUndone
<1> QED BY <1>1, <1>2, <1>3

\* What a step of an undo comes to: it never finds nothing to do, and one that went well has
\* marked the change it undid.
LEMMA UndoAnswers ==
    ASSUME TypeOK, ChangeInv, NEW a \in Actors, Change(a), op[a].undoOf # 0
    PROVE  /\ op[a].step \in {"asked", "write", "back"} /\ op'[a].step \in {"asked", "write", "back", "over"}
           /\ op'[a].step # "over" => op'[a].undoOf = op[a].undoOf
           /\ op'[a].step = "over" =>
                 /\ op'[a].result # "unchanged"
                 /\ op'[a].result = "ok" => log'[op[a].undoOf].undoneBy # 0
<1>1. op[a].step \in {"asked", "write", "back"} /\ op[a] \in Fulls
  BY FullOp DEF Change, Begin, Write, Back
<1>2. \A r \in Results, c \in Nat : op' = Over(a, r, c) => op'[a] = [step |-> "over", result |-> r, cid |-> c]
  BY DEF Over, TypeOK
<1>3. ASSUME op' = Over(a, "failed", 0)
      PROVE  op'[a].step = "over" /\ op'[a].result = "failed"
  <2>1. "failed" \in Results /\ 0 \in Nat
    BY DEF Results
  <2>2. op'[a] = [step |-> "over", result |-> "failed", cid |-> 0]
    BY <1>2, <1>3, <2>1
  <2> QED BY <2>2
<1>4. CASE Begin(a)
  <2>1. op[a].step = "asked"
    BY <1>4 DEF Begin
  <2>2. ~Moved(dev[op[a].key], op[a].expect) => DifferOf(a) # {}
    <3>1. /\ op[a].undoOf \in DOMAIN log
          /\ op[a].want = log[op[a].undoOf].before /\ op[a].expect = log[op[a].undoOf].after
      BY <2>1 DEF ChangeInv, OpsSound, AskedSound
    <3>2. /\ DOMAIN op[a].expect = DOMAIN op[a].want /\ DOMAIN op[a].want # {}
          /\ \A i \in DOMAIN op[a].want : op[a].want[i] # op[a].expect[i]
      BY <3>1 DEF ChangeInv, LogSound
    <3>3. PICK i \in DOMAIN op[a].want : TRUE
      BY <3>2
    <3> QED BY <3>2, <3>3 DEF Moved, DifferOf
  <2>3. \/ Locks(a)
        \/ op' = Over(a, "failed", 0)
    BY <1>4, <2>2 DEF Begin, Locks, LockFree, DifferOf
  <2>4. CASE Locks(a)
    BY <1>1, <2>4, LocksOp
  <2> QED BY <1>1, <1>3, <2>3, <2>4
<1>5. CASE Write(a)
  <2>1. \/ \E W : \E s \in {"write", "back"} : op' = [op EXCEPT ![a].written = W, ![a].step = s]
        \/ op' = [op EXCEPT ![a].step = "back", ![a].err = TRUE]
        \/ op' = Over(a, "failed", 0)
    BY <1>5 DEF Write
  <2>2. CASE \E W : \E s \in {"write", "back"} : op' = [op EXCEPT ![a].written = W, ![a].step = s]
    <3>3. PICK W : \E s \in {"write", "back"} : op' = [op EXCEPT ![a].written = W, ![a].step = s]
      BY <2>2
    <3>1. PICK s \in {"write", "back"} : op' = [op EXCEPT ![a].written = W, ![a].step = s]
      BY <3>3
    <3>2. op'[a] = [op[a] EXCEPT !.written = W, !.step = s]
      BY <3>1 DEF TypeOK
    <3>4. op'[a].step = s /\ op'[a].undoOf = op[a].undoOf
      BY <1>1, <3>2 DEF Fulls
    <3> QED BY <1>1, <3>4
  <2>3. CASE op' = [op EXCEPT ![a].step = "back", ![a].err = TRUE]
    <3>1. op'[a] = [op[a] EXCEPT !.step = "back", !.err = TRUE]
      BY <2>3 DEF TypeOK
    <3>2. op'[a].step = "back" /\ op'[a].undoOf = op[a].undoOf
      BY <1>1, <3>1 DEF Fulls
    <3> QED BY <1>1, <3>2
  <2> QED BY <1>1, <1>3, <2>1, <2>2, <2>3
<1>6. CASE Back(a)
  <2>1. Busy(a) /\ WriteSound(a)
    BY <1>6, OthersElsewhere DEF Back, Busy
  <2>2. \/ /\ op[a].written # {} /\ log' = Logged(a)
           /\ op' = Over(a, "ok", Len(log) + 1) \/ op' = Over(a, "partial", Len(log) + 1)
        \/ op' = Over(a, "failed", 0)
    BY <1>6 DEF Back
  <2>3. CASE /\ op[a].written # {} /\ log' = Logged(a)
             /\ op' = Over(a, "ok", Len(log) + 1) \/ op' = Over(a, "partial", Len(log) + 1)
    <3>1. Len(log) + 1 \in Nat /\ Len(log) + 1 # 0 /\ "ok" \in Results /\ "partial" \in Results
      BY DEF TypeOK, Results
    <3>2. op'[a].step = "over" /\ op'[a].result \in {"ok", "partial"}
      <4>1. op'[a] = [step |-> "over", result |-> "ok", cid |-> Len(log) + 1]
            \/ op'[a] = [step |-> "over", result |-> "partial", cid |-> Len(log) + 1]
        BY <1>2, <2>3, <3>1
      <4> QED BY <4>1
    <3>3. op[a].undoOf \in DOMAIN log
      BY <2>1 DEF WriteSound
    <3>4. log'[op[a].undoOf].undoneBy = Len(log) + 1
      BY <2>1, <2>3, <3>3, LoggedIs
    <3> QED BY <1>1, <3>1, <3>2, <3>4
  <2> QED BY <1>1, <1>3, <2>2, <2>3
<1> QED BY <1>4, <1>5, <1>6 DEF Change

\* The number that a change ends with is that of its entry in the log.
LEMMA OverCid == ASSUME TypeOK, ChangeInv, NEW a \in Actors, Change(a), op'[a].step = "over"
                 PROVE  op'[a].cid \in 0..Len(log')
<1>1. Grows
  BY LogGrows DEF Change, Begin, Write
<1>2. \A r, c : op' = Over(a, r, c) => op'[a].cid = c
  BY SMTT(30) DEF Over, TypeOK
<1>3. op[a].step \in {"asked", "write", "back"} /\ op[a] \in Fulls
  BY FullOp DEF Change, Begin, Write, Back
<1>4. CASE Begin(a)
  <2>1. Locks(a) \/ op' = Over(a, "failed", 0) \/ op' = Over(a, "unchanged", 0)
    BY <1>4 DEF Begin, Locks, LockFree, DifferOf
  <2>2. ~Locks(a)
    BY LocksOp
  <2> QED BY <1>1, <1>2, <2>1, <2>2 DEF Grows
<1>5. CASE Write(a)
  <2>1. \/ \E W : \E s \in {"write", "back"} : op' = [op EXCEPT ![a].written = W, ![a].step = s]
        \/ op' = [op EXCEPT ![a].step = "back", ![a].err = TRUE]
        \/ op' = Over(a, "failed", 0)
    BY <1>5 DEF Write
  <2>2. ~ \E W : \E s \in {"write", "back"} : op' = [op EXCEPT ![a].written = W, ![a].step = s]
    <3> SUFFICES ASSUME NEW W, NEW s \in {"write", "back"}, op' = [op EXCEPT ![a].written = W, ![a].step = s]
                 PROVE  FALSE
      OBVIOUS
    <3>1. op'[a] = [op[a] EXCEPT !.written = W, !.step = s]
      BY DEF TypeOK
    <3>2. op'[a].step = s
      BY <1>3, <3>1, ZenonT(60) DEF Fulls
    <3> QED BY <3>2
  <2>3. op' = [op EXCEPT ![a].step = "back", ![a].err = TRUE] => op'[a].step = "back"
    BY <1>3 DEF TypeOK, Fulls
  <2>4. op' = Over(a, "failed", 0)
    BY <2>1, <2>2, <2>3
  <2> QED BY <1>1, <1>2, <2>4 DEF Grows
<1>6. CASE Back(a)
  <2>1. \/ op[a].written # {} /\ log' = Logged(a)
           /\ (op' = Over(a, "ok", Len(log) + 1) \/ op' = Over(a, "partial", Len(log) + 1))
        \/ op' = Over(a, "failed", 0)
    BY <1>6 DEF Back
  <2>2. Busy(a)
    BY <1>6 DEF Back, Busy
  <2>3. ASSUME op[a].written # {}, log' = Logged(a) PROVE Len(log) + 1 \in 0..Len(log')
    <3>1. Len(log') = Len(log) + 1
      BY <2>2, <2>3, LoggedIs
    <3> QED BY <1>1, <3>1 DEF Grows
  <2> QED BY <1>1, <1>2, <2>1, <2>3 DEF Grows
<1> QED BY <1>4, <1>5, <1>6, SMTT(30) DEF Change

LEMMA JobsThroughChange == ASSUME CameraInv, NEW a \in Actors, Change(a) PROVE JobsInv'
<1> USE DEF CameraInv
<1>1. UNCHANGED <<jobs, disk, run, worker>>
  BY ZenonT(60) DEF Change, Begin, Write, Back, jobVars
<1>2. Grows
  BY LogGrows, ZenonT(60) DEF Change, Begin, Write
<1>3. \A b \in Actors \ {a} : op'[b] = op[b]
  BY ZenonT(60) DEF Change, Begin, Write, Back, Over, TypeOK
<1>4. op[a].step \in {"asked", "write", "back"}
  BY DEF Change, Begin, Write, Back
<1>5. JobsSound(jobs)' /\ AllUndone(jobs)' /\ JobsSound(disk)' /\ AllUndone(disk)'
  BY <1>1, <1>2, KeptSound DEF JobsInv
<1>6. NoneStuck'
  BY <1>1 DEF JobsInv, NoneStuck
<1>7. WorkerSound'
  <2>1. worker.pc # "item" => a # "worker"
    BY <1>4 DEF JobsInv, WorkerSound, NoOp
  <2>2. worker.pc # "item" => op'["worker"] = NoOp
    BY <1>3, <2>1, ActorsTwo DEF JobsInv, WorkerSound
  <2>3. op'["worker"].step = "over" => op'["worker"].cid \in 0..Len(log')
    <3>1. CASE a # "worker"
      <4>1. op'["worker"] = op["worker"]
        BY <1>3, <3>1, ActorsTwo
      <4> QED BY <1>2, <4>1 DEF JobsInv, WorkerSound, Grows
    <3>2. CASE a = "worker"
      BY <1>2, <3>2, OverCid, SMTT(30) DEF Grows
    <3> QED BY <3>1, <3>2
  <2> QED BY <1>1, <2>2, <2>3 DEF JobsInv, WorkerSound
<1>8. UndoSound'
  <2> SUFFICES ASSUME run # 0, jobs[run].kind = "undo" PROVE UndoSound'
    BY <1>1 DEF UndoSound
  <2> DEFINE items == jobs[run].items of == jobs[jobs[run].undoOf].items
  <2>1. \A n \in DOMAIN items : items[n].undo \in DOMAIN log
    BY RunTyped DEF JobsInv, JobsSound
  <2>2. \A n \in DOMAIN items : log[items[n].undo].undoneBy # 0 => log'[items[n].undo].undoneBy # 0
    BY <1>2, <2>1, SMTT(30) DEF Grows
  <2>3. ASSUME worker.pc = "item", a # "worker"
        PROVE  /\ op'["worker"].step \in {"asked", "write", "back"} => op'["worker"].undoOf = items[worker.i].undo
               /\ op'["worker"].step = "over" =>
                     /\ op'["worker"].result # "unchanged"
                     /\ op'["worker"].result = "ok" => log'[items[worker.i].undo].undoneBy # 0
    <3>1. op'["worker"] = op["worker"]
      BY <1>3, <2>3, ActorsTwo
    <3>2. worker.i \in DOMAIN items
      BY <2>3 DEF JobsInv, WorkerSound
    <3> QED BY <2>2, <2>3, <3>1, <3>2 DEF JobsInv, UndoSound
  <2>4. ASSUME worker.pc = "item", a = "worker"
        PROVE  /\ op'["worker"].step \in {"asked", "write", "back"} => op'["worker"].undoOf = items[worker.i].undo
               /\ op'["worker"].step = "over" =>
                     /\ op'["worker"].result # "unchanged"
                     /\ op'["worker"].result = "ok" => log'[items[worker.i].undo].undoneBy # 0
    <3>1. op["worker"].undoOf = items[worker.i].undo /\ worker.i \in DOMAIN items
      BY <1>4, <2>4 DEF JobsInv, UndoSound, WorkerSound
    <3>2. op["worker"].undoOf # 0
      BY <1>2, <2>1, <3>1, SMTT(30) DEF Grows
    <3> QED BY <2>4, <3>1, <3>2, UndoAnswers
  <2> HIDE DEF items, of
  <2>5. /\ \A m \in DOMAIN of : of[m].cid # 0 => \E n \in DOMAIN items : items[n].undo = of[m].cid
        /\ \A n \in DOMAIN items :
              /\ items[n].status = "ok" => log'[items[n].undo].undoneBy # 0
              /\ items[n].status # "unchanged"
              /\ items[n].status = "running" => worker.pc = "item" /\ worker.i = n
    BY <2>2 DEF JobsInv, UndoSound, items, of
  <2> QED BY <1>1, <2>3, <2>4, <2>5, SMTT(30) DEF UndoSound, items, of
<1> QED BY <1>5, <1>6, <1>7, <1>8 DEF JobsInv


(***************************************************************************)
(* A person, and the worker of the running job.                            *)
(***************************************************************************)
LEMMA AskedIs ==
    ASSUME NEW k \in Keys, NEW want \in Rows, NEW expect \in Rows, NEW c \in Nat
    PROVE  NewOp(k, want, expect, c) \in Fulls /\ NewOp(k, want, expect, c).step = "asked"
           /\ NewOp(k, want, expect, c).written = {} /\ NewOp(k, want, expect, c).undoOf = c
           /\ NewOp(k, want, expect, c).key = k /\ NewOp(k, want, expect, c).want = want
           /\ NewOp(k, want, expect, c).expect = expect
<1>1. <<>> \in Rows
  <2>1. {} \in SUBSET Docs /\ <<>> \in [{} -> Values]
    OBVIOUS
  <2> QED BY <2>1 DEF Rows
<1> QED BY <1>1 DEF NewOp, Fulls

LEMMA UndoIs ==
    ASSUME TypeOK, ChangeInv, NEW c \in DOMAIN log
    PROVE  Undo(c) \in Fulls /\ AskedSound(Undo(c)) /\ Undo(c).step = "asked" /\ Undo(c).undoOf = c
<1>1. log[c] \in LogEntries /\ c \in Nat
  BY DEF TypeOK
<1>2. log[c].key \in Keys /\ log[c].before \in Rows /\ log[c].after \in Rows
  BY <1>1 DEF LogEntries
<1> QED BY <1>1, <1>2, AskedIs DEF Undo, AskedSound

\* Only what an actor is at changes.
LEMMA OnlyOp ==
    ASSUME CameraInv, NEW x \in Actors, ~Busy(x), NEW o \in {NoOp} \cup Overs \cup Fulls,
           op' = [op EXCEPT ![x] = o], o.step \notin {"write", "back"}, o.step = "asked" => AskedSound(o),
           UNCHANGED <<dev, lock, log, blind, jobs, disk, run, worker, asked>>, x # "worker"
    PROVE  CameraInv'
<1> USE DEF CameraInv
<1>1. ChangeInv'
  BY TakenUp
<1>2. TypeOK'
  BY OpTyped DEF TypeOK
<1>3. op'["worker"] = op["worker"]
  BY ActorsTwo DEF TypeOK
<1>4. Grows
  BY LogGrows
<1>5. JobsSound(jobs)' /\ AllUndone(jobs)' /\ JobsSound(disk)' /\ AllUndone(disk)'
  BY <1>4, KeptSound, SMTT(30) DEF JobsInv
<1>6. NoneStuck' /\ WorkerSound' /\ UndoSound'
  BY <1>3 DEF JobsInv, NoneStuck, WorkerSound, UndoSound
<1> QED BY <1>1, <1>2, <1>5, <1>6 DEF JobsInv

LEMMA PersonKeeps ==
    ASSUME CameraInv, \/ HandDone
                      \/ \E k \in Keys, i \in Docs, v \in Values : HandChange(k, i, v)
                      \/ \E c \in DOMAIN log : HandUndo(c)
    PROVE  CameraInv'
<1>1. "person" \in Actors /\ "person" # "worker"
  BY ActorsTwo
<1>2. CASE HandDone
  <2>1. ~Busy("person") /\ op' = [op EXCEPT !["person"] = NoOp] /\ NoOp.step = "none"
        /\ UNCHANGED <<dev, lock, log, blind, jobs, disk, run, worker, asked>>
    BY <1>2 DEF HandDone, Busy, NoOp, jobVars
  <2>2. NoOp \in {NoOp} \cup Overs \cup Fulls /\ NoOp.step \notin {"write", "back", "asked"}
    BY <2>1
  <2> QED BY <1>1, <2>1, <2>2, OnlyOp
<1>3. ASSUME NEW k \in Keys, NEW i \in Docs, NEW v \in Values, HandChange(k, i, v) PROVE CameraInv'
  <2> DEFINE o == NewOp(k, [x \in {i} |-> v], Part(dev[k], {i}), 0)
  <2>1. [x \in {i} |-> v] \in Rows
    <3>1. {i} \in SUBSET Docs /\ [x \in {i} |-> v] \in [{i} -> Values]
      OBVIOUS
    <3> QED BY <3>1 DEF Rows
  <2>2. Part(dev[k], {i}) \in Rows
    BY PartTyped, DevicesTyped DEF CameraInv
  <2>3. o \in Fulls /\ o.step = "asked" /\ o.written = {} /\ o.undoOf = 0
    <3> DEFINE w == [x \in {i} |-> v] e == Part(dev[k], {i})
    <3>1. w \in Rows /\ e \in Rows /\ 0 \in Nat
      BY <2>1, <2>2
    <3> HIDE DEF w, e
    <3>2. NewOp(k, w, e, 0) \in Fulls /\ NewOp(k, w, e, 0).step = "asked" /\ NewOp(k, w, e, 0).written = {}
          /\ NewOp(k, w, e, 0).undoOf = 0
      BY <3>1, AskedIs
    <3> QED BY <3>2 DEF w, e
  <2>4. op' = [op EXCEPT !["person"] = o] /\ ~Busy("person")
        /\ UNCHANGED <<dev, lock, log, blind, jobs, disk, run, worker, asked>>
    BY <1>3 DEF HandChange, Busy, NoOp, jobVars
  <2> HIDE DEF o
  <2>5. AskedSound(o)
    BY <2>3 DEF AskedSound
  <2> QED BY <1>1, <2>3, <2>4, <2>5, OnlyOp
<1>4. ASSUME NEW c \in DOMAIN log, HandUndo(c) PROVE CameraInv'
  <2>1. op' = [op EXCEPT !["person"] = Undo(c)] /\ ~Busy("person")
        /\ UNCHANGED <<dev, lock, log, blind, jobs, disk, run, worker, asked>>
    BY <1>4 DEF HandUndo, Busy, NoOp, jobVars
  <2>2. Undo(c) \in Fulls /\ AskedSound(Undo(c)) /\ Undo(c).step = "asked"
    BY UndoIs DEF CameraInv
  <2> QED BY <1>1, <2>1, <2>2, OnlyOp
<1> QED BY <1>2, <1>3, <1>4

\* Only jobs change; changes stay as they are.
LEMMA ChangesStay == ASSUME ChangeInv, UNCHANGED <<dev, lock, op, log, blind>> PROVE ChangeInv'
<1>1. LocksHeld'
  BY DEF ChangeInv, LocksHeld, Busy
<1>2. LogSound' /\ HaveNewest'
  BY DEF ChangeInv, LogSound, HaveNewest, ChangesOf
<1>3. OpsSound'
  BY DEF ChangeInv, OpsSound, AskedSound, WriteSound, ToWrite, Busy
<1>4. UntouchedTold'
  BY DEF ChangeInv, UntouchedTold, LastSays
<1> QED BY <1>1, <1>2, <1>3, <1>4 DEF ChangeInv

\* The record of the running job is replaced: kind, items and their undos stay.
SameJob(old, new) ==
    /\ new \in JobRecs /\ new.kind = old.kind /\ new.undoOf = old.undoOf /\ new.undoneBy = old.undoneBy
    /\ DOMAIN new.items = DOMAIN old.items
    /\ \A m \in DOMAIN old.items : new.items[m].cid \in 0..Len(log) /\ new.items[m].undo = old.items[m].undo

LEMMA RunReplaced ==
    ASSUME CameraInv, run # 0, NEW rec, SameJob(jobs[run], rec), NEW js, js = [jobs EXCEPT ![run] = rec]
    PROVE  /\ js \in Seq(JobRecs) /\ Len(js) = Len(jobs) /\ js[run] = rec /\ \A j \in DOMAIN jobs \ {run} : js[j] = jobs[j]
           /\ JobsSound(js) /\ AllUndone(js)
<1> USE DEF CameraInv
<1>1. run \in DOMAIN jobs /\ jobs \in Seq(JobRecs) /\ rec \in JobRecs
  BY RunTyped DEF TypeOK, SameJob
<1>2. js \in Seq(JobRecs) /\ Len(js) = Len(jobs)
  BY <1>1
<1>3. js[run] = rec /\ \A j \in DOMAIN jobs \ {run} : js[j] = jobs[j]
  BY <1>1
<1>4. DOMAIN js = DOMAIN jobs
  OBVIOUS
<1>5. JobsSound(js)
  <2> SUFFICES ASSUME NEW j \in DOMAIN jobs
               PROVE  /\ \A m \in DOMAIN js[j].items : js[j].items[m].cid \in 0..Len(log)
                      /\ js[j].kind = "undo" =>
                            /\ js[j].undoOf \in 1..(j - 1)
                            /\ \A m \in DOMAIN js[j].items : js[j].items[m].undo \in DOMAIN log
    BY <1>4 DEF JobsSound
  <2>1. /\ \A m \in DOMAIN jobs[j].items : jobs[j].items[m].cid \in 0..Len(log)
        /\ jobs[j].kind = "undo" =>
              /\ jobs[j].undoOf \in 1..(j - 1)
              /\ \A m \in DOMAIN jobs[j].items : jobs[j].items[m].undo \in DOMAIN log
    BY DEF JobsInv, JobsSound
  <2>2. CASE j = run
    BY <1>3, <2>1, <2>2 DEF SameJob
  <2>3. CASE j # run
    BY <1>3, <2>1, <2>3
  <2> QED BY <2>2, <2>3
<1>6. AllUndone(js)
  <2> SUFFICES ASSUME NEW j \in DOMAIN jobs, js[j].undoneBy # 0, ~js[j].note
               PROVE  \A m \in DOMAIN js[j].items : js[j].items[m].cid # 0 => log[js[j].items[m].cid].undoneBy # 0
    BY <1>4 DEF AllUndone
  <2>1. j # run
    BY <1>3 DEF JobsInv, WorkerSound, SameJob
  <2> QED BY <1>3, <2>1 DEF JobsInv, AllUndone
<1> QED BY <1>2, <1>3, <1>5, <1>6

\* What a step of the worker leaves to show, when the running job stays what it is.
LEMMA WorkerShows ==
    ASSUME CameraInv, run # 0, NEW rec, SameJob(jobs[run], rec), jobs' = [jobs EXCEPT ![run] = rec],
           UNCHANGED <<log, run, asked>>,
           \/ disk' = disk
           \/ \E r : SameJob(jobs[run], r) /\ disk' = [jobs EXCEPT ![run] = r],
           worker' \in [pc : {"idle", "top", "pause", "item", "end"}, i : Nat],
           ChangeInv', op' \in [Actors -> {NoOp} \cup Overs \cup Fulls], UNCHANGED <<dev, lock, blind>>,
           WorkerSound', UndoSound'
    PROVE  CameraInv'
<1> USE DEF CameraInv
<1>1. /\ jobs' \in Seq(JobRecs) /\ Len(jobs') = Len(jobs)
      /\ jobs'[run] = rec /\ (\A j \in DOMAIN jobs \ {run} : jobs'[j] = jobs[j])
      /\ JobsSound(jobs') /\ AllUndone(jobs')
  BY RunReplaced
<1>2. disk' \in Seq(JobRecs) /\ JobsSound(disk') /\ AllUndone(disk')
  <2>1. CASE disk' = disk
    BY <2>1 DEF TypeOK, JobsInv
  <2>2. ASSUME NEW r, SameJob(jobs[run], r), disk' = [jobs EXCEPT ![run] = r]
        PROVE  disk' \in Seq(JobRecs) /\ JobsSound(disk') /\ AllUndone(disk')
    BY <2>2, RunReplaced
  <2> QED BY <2>1, <2>2
<1>3. TypeOK'
  BY <1>1, <1>2, SMTT(30) DEF TypeOK
<1>4. JobsSound(jobs)' /\ AllUndone(jobs)' /\ JobsSound(disk)' /\ AllUndone(disk)'
  BY <1>1, <1>2 DEF JobsSound, AllUndone
<1>5. NoneStuck'
  <2>1. DOMAIN jobs' = DOMAIN jobs
    OBVIOUS
  <2> QED BY <1>1, <2>1 DEF JobsInv, NoneStuck
<1> QED BY <1>3, <1>4, <1>5 DEF JobsInv


LEMMA RunKind == ASSUME CameraInv, run # 0
                 PROVE  /\ run \in DOMAIN jobs /\ jobs[run] \in JobRecs /\ jobs[run].items \in Seq(Items) /\ jobs[run].undoneBy = 0
                        /\ \A m \in DOMAIN jobs[run].items : jobs[run].items[m] \in Items
                                                             /\ jobs[run].items[m].cid \in 0..Len(log)
                        /\ jobs[run].kind = "undo" =>
                              /\ jobs[run].undoOf \in DOMAIN jobs /\ jobs[run].undoOf # run
                              /\ \A m \in DOMAIN jobs[run].items : jobs[run].items[m].undo \in DOMAIN log
<1> USE DEF CameraInv
<1>1. run \in DOMAIN jobs /\ run \in 1..Len(jobs) /\ DOMAIN jobs = 1..Len(jobs) /\ Len(jobs) \in Nat
  BY RunTyped DEF TypeOK
<1>2. /\ jobs[run] \in JobRecs /\ jobs[run].items \in Seq(Items)
      /\ \A m \in DOMAIN jobs[run].items : jobs[run].items[m] \in Items
  BY <1>1, JobTyped
<1>3. /\ \A m \in DOMAIN jobs[run].items : jobs[run].items[m].cid \in 0..Len(log)
      /\ jobs[run].kind = "undo" =>
            /\ jobs[run].undoOf \in 1..(run - 1)
            /\ \A m \in DOMAIN jobs[run].items : jobs[run].items[m].undo \in DOMAIN log
  BY <1>1 DEF JobsInv, JobsSound
<1>4. \A j \in 1..(run - 1) : j \in 1..Len(jobs) /\ j # run
  BY <1>1
<1>5. jobs[run].undoneBy = 0
  BY DEF JobsInv, WorkerSound
<1> QED BY <1>1, <1>2, <1>3, <1>4, <1>5

\* Another state and note.
LEMMA Restated ==
    ASSUME CameraInv, run # 0, NEW state \in {"running", "stopped", "done"}, NEW note \in BOOLEAN
    PROVE  LET rec == [jobs[run] EXCEPT !.state = state, !.note = note] IN
           SameJob(jobs[run], rec) /\ rec.state = state /\ rec.items = jobs[run].items /\ rec.undoneBy = 0
BY RunKind DEF SameJob, JobRecs

LEMMA TopKeeps == ASSUME CameraInv, Top PROVE CameraInv'
<1> DEFINE R == jobs[run]
<1>1. run # 0 /\ worker.pc = "top" /\ UNCHANGED <<dev, lock, op, log, blind, disk, run, asked>>
  BY DEF Top, Others
<1>2. R \in JobRecs /\ run \in DOMAIN jobs
  BY <1>1, RunKind, SMTT(30)
<1>3. PICK state \in {"running", "stopped", "done"}, note \in BOOLEAN :
         /\ jobs' = [jobs EXCEPT ![run] = [R EXCEPT !.state = state, !.note = note]]
         /\ IF state = "running" THEN worker' = [worker EXCEPT !.pc = "pause"] /\ worker.i <= Len(R.items)
            ELSE worker' = [worker EXCEPT !.pc = "end"]
  <2>1. CASE stop /\ worker.i <= Len(R.items)
    BY <2>1 DEF Top, This, JobTo
  <2>2. CASE ~(stop /\ worker.i <= Len(R.items)) /\ worker.i > Len(R.items)
    BY <2>2 DEF Top, This, JobTo
  <2>3. CASE ~(stop /\ worker.i <= Len(R.items)) /\ ~(worker.i > Len(R.items))
    <3>1. jobs' = [jobs EXCEPT ![run].state = "running"] /\ worker' = [worker EXCEPT !.pc = "pause"]
      BY <2>3 DEF Top, This
    <3>2. R.note \in BOOLEAN /\ [R EXCEPT !.state = "running"] = [R EXCEPT !.state = "running", !.note = R.note]
      BY <1>2 DEF JobRecs
    <3>3. Len(R.items) \in Nat /\ worker.i \in Nat
      BY <1>1, RunKind DEF CameraInv, TypeOK
    <3>4. worker.i <= Len(R.items)
      BY <2>3, <3>3
    <3>5. jobs' = [jobs EXCEPT ![run] = [R EXCEPT !.state = "running", !.note = R.note]]
      BY <3>1, <3>2
    <3> QED BY <3>1, <3>2, <3>4, <3>5
  <2> QED BY <2>1, <2>2, <2>3
<1> DEFINE rec == [R EXCEPT !.state = state, !.note = note]
<1>4. SameJob(R, rec) /\ rec.state = state /\ rec.items = R.items /\ rec.undoneBy = 0
  BY <1>1, Restated, ZenonT(60)
<1> HIDE DEF rec
<1>5. jobs' = [jobs EXCEPT ![run] = rec]
  BY <1>3 DEF rec
<1>6. jobs'[run] = rec /\ \A j \in DOMAIN jobs \ {run} : jobs'[j] = jobs[j]
  BY <1>1, <1>4, <1>5, RunReplaced
<1>7. worker' \in [pc : {"idle", "top", "pause", "item", "end"}, i : Nat] /\ worker'.i = worker.i
      /\ worker'.pc = IF state = "running" THEN "pause" ELSE "end"
  BY <1>3 DEF CameraInv, TypeOK
<1>8. WorkerSound'
  <2>1. op["worker"] = NoOp /\ NoOp.step = "none" /\ worker.i # 0
    BY <1>1 DEF CameraInv, JobsInv, WorkerSound, NoOp
  <2>2. state = "running" => worker.i \in DOMAIN R.items
    <3>1. Len(R.items) \in Nat /\ worker.i \in Nat /\ DOMAIN R.items = 1..Len(R.items)
      BY <1>1, RunKind, SMTT(30) DEF CameraInv, TypeOK
    <3> QED BY <1>3, <2>1, <3>1
  <2> QED BY <1>1, <1>4, <1>6, <1>7, <2>1, <2>2 DEF WorkerSound
<1>9. UndoSound'
  <2> SUFFICES ASSUME R.kind = "undo" PROVE UndoSound'
    BY <1>1, <1>4, <1>6 DEF UndoSound, SameJob
  <2>1. jobs'[R.undoOf] = jobs[R.undoOf] /\ rec.undoOf = R.undoOf
    BY <1>1, <1>4, <1>6, RunKind DEF SameJob
  <2>2. \A n \in DOMAIN R.items : R.items[n].status # "running"
    BY <1>1 DEF CameraInv, JobsInv, UndoSound
  <2> QED BY <1>1, <1>4, <1>6, <1>7, <2>1, <2>2 DEF CameraInv, JobsInv, UndoSound
<1>10. ChangeInv'
  BY <1>1, ChangesStay DEF CameraInv
<1>11. op' \in [Actors -> {NoOp} \cup Overs \cup Fulls]
  BY <1>1 DEF CameraInv, TypeOK
<1> QED BY <1>1, <1>4, <1>5, <1>7, <1>8, <1>9, <1>10, <1>11, WorkerShows


\* Another item.
LEMMA ItemReplaced ==
    ASSUME CameraInv, run # 0, NEW m \in DOMAIN jobs[run].items, NEW new \in Items,
           new.cid \in 0..Len(log), new.undo = jobs[run].items[m].undo
    PROVE  LET rec == [jobs[run] EXCEPT !.items = [@ EXCEPT ![m] = new]] IN
           /\ SameJob(jobs[run], rec) /\ rec.undoneBy = 0 /\ rec.items[m] = new
           /\ \A n \in DOMAIN jobs[run].items \ {m} : rec.items[n] = jobs[run].items[n]
<1> DEFINE R == jobs[run] its == [R.items EXCEPT ![m] = new] rec == [R EXCEPT !.items = its]
<1>1. /\ R \in JobRecs /\ R.items \in Seq(Items) /\ R.undoneBy = 0
      /\ \A n \in DOMAIN R.items : R.items[n].cid \in 0..Len(log)
  BY RunKind
<1> HIDE DEF R
<1>2. its \in Seq(Items) /\ DOMAIN its = DOMAIN R.items /\ its[m] = new
      /\ \A n \in DOMAIN R.items \ {m} : its[n] = R.items[n]
  BY <1>1 DEF R
<1> HIDE DEF its
<1>3. rec \in JobRecs /\ rec.items = its /\ rec.kind = R.kind /\ rec.undoOf = R.undoOf /\ rec.undoneBy = R.undoneBy
  BY <1>1, <1>2 DEF JobRecs
<1> HIDE DEF rec
<1>4. SameJob(R, rec)
  <2>1. \A n \in DOMAIN R.items : rec.items[n].cid \in 0..Len(log) /\ rec.items[n].undo = R.items[n].undo
    BY <1>1, <1>2, <1>3 DEF R
  <2> QED BY <1>2, <1>3, <2>1 DEF SameJob
<1>5. SameJob(R, rec) /\ rec.undoneBy = 0 /\ rec.items[m] = new
      /\ \A n \in DOMAIN R.items \ {m} : rec.items[n] = R.items[n]
  BY <1>1, <1>2, <1>3, <1>4
<1> QED BY <1>5 DEF rec, its, R

LEMMA NextItemKeeps == ASSUME CameraInv, NextItem PROVE CameraInv'
<1> DEFINE R == jobs[run] i == worker.i it == R.items[i] new == [it EXCEPT !.status = "running"]
           rec == [R EXCEPT !.items = [@ EXCEPT ![i] = new]]
<1>1. /\ run # 0 /\ worker.pc = "pause" /\ UNCHANGED <<dev, lock, log, blind, disk, run, asked>>
      /\ i \in DOMAIN R.items /\ op["worker"] = NoOp
  BY DEF NextItem, CameraInv, JobsInv, WorkerSound
<1>2. run \in DOMAIN jobs /\ R \in JobRecs /\ it \in Items /\ it.cid \in 0..Len(log)
      /\ (R.kind = "undo" => it.undo \in DOMAIN log)
  BY <1>1, RunKind
<1>3. new \in Items /\ new.status = "running" /\ new.cid = it.cid /\ new.undo = it.undo
  BY <1>2 DEF Items
<1>4. jobs' = [jobs EXCEPT ![run] = rec]
  BY <1>1, <1>2 DEF NextItem
<1> HIDE DEF new
<1>5. /\ SameJob(R, rec) /\ rec.undoneBy = 0 /\ rec.items[i] = new
      /\ \A n \in DOMAIN R.items \ {i} : rec.items[n] = R.items[n]
  BY <1>1, <1>2, <1>3, ItemReplaced
<1> HIDE DEF rec
<1>6. jobs'[run] = rec /\ \A j \in DOMAIN jobs \ {run} : jobs'[j] = jobs[j]
  BY <1>1, <1>4, <1>5, RunReplaced
<1>7. worker' \in [pc : {"idle", "top", "pause", "item", "end"}, i : Nat] /\ worker'.i = i /\ worker'.pc = "item"
  BY DEF NextItem, CameraInv, TypeOK
<1>8. \E o \in {NoOp} \cup Overs \cup Fulls :
         /\ op' = [op EXCEPT !["worker"] = o]
         /\ \/ o.step = "asked" /\ AskedSound(o) /\ (R.kind = "undo" => o.undoOf = it.undo)
            \/ o.step = "over" /\ o.result = "failed" /\ o.cid = 0
  <2>1. CASE R.kind = "rule"
    <3> DEFINE w == [d \in Docs |-> Wanted] e == <<>>
    <3>1. w \in Rows /\ e \in Rows /\ 0 \in Nat /\ it.key \in Keys
      <4>1. Docs \in SUBSET Docs /\ w \in [Docs -> Values] /\ {} \in SUBSET Docs /\ e \in [{} -> Values]
        BY DocsAssumption
      <4> QED BY <1>2, <4>1 DEF Rows, Items
    <3>2. op' = [op EXCEPT !["worker"] = NewOp(it.key, w, e, 0)]
      BY <2>1 DEF NextItem, This
    <3> HIDE DEF w, e, it
    <3>3. NewOp(it.key, w, e, 0) \in Fulls /\ NewOp(it.key, w, e, 0).step = "asked"
          /\ NewOp(it.key, w, e, 0).written = {} /\ NewOp(it.key, w, e, 0).undoOf = 0
      BY <3>1, AskedIs
    <3>4. AskedSound(NewOp(it.key, w, e, 0)) /\ R.kind # "undo"
      BY <2>1, <3>3 DEF AskedSound
    <3> QED BY <3>2, <3>3, <3>4
  <2>2. CASE R.kind # "rule" /\ MayUndo(it.undo)
    <3>1. op' = [op EXCEPT !["worker"] = Undo(it.undo)]
      BY <2>2 DEF NextItem, This
    <3>2. it.undo \in DOMAIN log
      BY <1>2, <2>2 DEF JobRecs
    <3> HIDE DEF it
    <3>3. Undo(it.undo) \in Fulls /\ AskedSound(Undo(it.undo)) /\ Undo(it.undo).step = "asked"
          /\ Undo(it.undo).undoOf = it.undo
      BY <3>2, UndoIs DEF CameraInv
    <3> QED BY <3>1, <3>3
  <2>3. CASE R.kind # "rule" /\ ~MayUndo(it.undo)
    <3> DEFINE o == [step |-> "over", result |-> "failed", cid |-> 0]
    <3>1. op' = Over("worker", "failed", 0)
      BY <2>3 DEF NextItem, This
    <3>2. o \in Overs /\ op' = [op EXCEPT !["worker"] = o]
      BY <3>1, OverTyped, ActorsTwo DEF Results
    <3>3. o.step = "over" /\ o.result = "failed" /\ o.cid = 0
      OBVIOUS
    <3> HIDE DEF o
    <3> QED BY <3>2, <3>3
  <2> QED BY <2>1, <2>2, <2>3
<1>9. PICK o \in {NoOp} \cup Overs \cup Fulls :
         /\ op' = [op EXCEPT !["worker"] = o]
         /\ \/ o.step = "asked" /\ AskedSound(o) /\ (R.kind = "undo" => o.undoOf = it.undo)
            \/ o.step = "over" /\ o.result = "failed" /\ o.cid = 0
  BY <1>8
<1>10. "worker" \in Actors /\ ~Busy("worker") /\ o.step \notin {"write", "back"} /\ (o.step = "asked" => AskedSound(o))
  BY <1>1, <1>9, ActorsTwo DEF Busy, NoOp
<1>11. ChangeInv'
  BY <1>1, <1>9, <1>10, TakenUp DEF CameraInv
<1>12. op'["worker"] = o /\ op' \in [Actors -> {NoOp} \cup Overs \cup Fulls]
  BY <1>9, <1>10, OpTyped DEF CameraInv, TypeOK
<1>13. WorkerSound'
  <2>1. o.step = "over" => o.cid \in 0..Len(log')
    BY <1>1, <1>9 DEF CameraInv, TypeOK
  <2>2. worker'.i \in DOMAIN rec.items
    BY <1>1, <1>5, <1>7 DEF SameJob
  <2> QED BY <1>1, <1>5, <1>6, <1>7, <1>12, <2>1, <2>2 DEF WorkerSound
<1>14. UndoSound'
  <2> SUFFICES ASSUME R.kind = "undo" PROVE UndoSound'
    BY <1>1, <1>5, <1>6 DEF UndoSound, SameJob
  <2>1. jobs'[R.undoOf] = jobs[R.undoOf] /\ rec.undoOf = R.undoOf /\ DOMAIN rec.items = DOMAIN R.items
        /\ \A n \in DOMAIN R.items : rec.items[n].undo = R.items[n].undo
    BY <1>1, <1>5, <1>6, RunKind DEF SameJob
  <2>2. \A n \in DOMAIN R.items : R.items[n].status # "running"
    BY <1>1 DEF CameraInv, JobsInv, UndoSound
  <2>3. \A n \in DOMAIN R.items : /\ rec.items[n].status = "ok" => log[R.items[n].undo].undoneBy # 0
                                  /\ rec.items[n].status # "unchanged"
                                  /\ rec.items[n].status = "running" => n = i
    <3>1. \A n \in DOMAIN R.items : /\ R.items[n].status = "ok" => log[R.items[n].undo].undoneBy # 0
                                    /\ R.items[n].status # "unchanged"
      BY <1>1 DEF CameraInv, JobsInv, UndoSound
    <3> QED BY <1>3, <1>5, <2>2, <3>1
  <2>4. \A m \in DOMAIN jobs[R.undoOf].items : jobs[R.undoOf].items[m].cid # 0 =>
            \E n \in DOMAIN R.items : R.items[n].undo = jobs[R.undoOf].items[m].cid
    BY <1>1 DEF CameraInv, JobsInv, UndoSound
  <2>5. rec.items[i].undo = it.undo
    BY <1>1, <2>1
  <2> HIDE DEF R, it, i
  <2>6. /\ \A m \in DOMAIN jobs'[rec.undoOf].items : jobs'[rec.undoOf].items[m].cid # 0 =>
              \E n \in DOMAIN rec.items : rec.items[n].undo = jobs'[rec.undoOf].items[m].cid
        /\ \A n \in DOMAIN rec.items :
              /\ rec.items[n].status = "ok" => log'[rec.items[n].undo].undoneBy # 0
              /\ rec.items[n].status # "unchanged"
              /\ rec.items[n].status = "running" => worker'.pc = "item" /\ worker'.i = n
    BY <1>1, <1>7, <2>1, <2>3, <2>4
  <2>7. /\ o.step \in {"asked", "write", "back"} => o.undoOf = it.undo
        /\ o.step = "over" => o.result # "unchanged" /\ (o.result = "ok" => log'[it.undo].undoneBy # 0)
    BY <1>9
  <2> QED BY <1>1, <1>6, <1>7, <1>12, <2>5, <2>6, <2>7 DEF UndoSound
<1> QED BY <1>1, <1>4, <1>5, <1>7, <1>11, <1>12, <1>13, <1>14, WorkerShows


LEMMA TookKeeps == ASSUME CameraInv, Took PROVE CameraInv'
<1> DEFINE R == jobs[run] i == worker.i it == R.items[i] o == op["worker"]
           new == [it EXCEPT !.status = o.result, !.cid = o.cid]
           one == [R EXCEPT !.items = [@ EXCEPT ![i] = new]]
<1>1. /\ run # 0 /\ worker.pc = "item" /\ o.step = "over" /\ UNCHANGED <<dev, lock, log, blind, run, asked>>
      /\ i \in DOMAIN R.items /\ o.cid \in 0..Len(log) /\ op' = [op EXCEPT !["worker"] = NoOp]
  BY DEF Took, CameraInv, JobsInv, WorkerSound
<1>2. run \in DOMAIN jobs /\ R \in JobRecs /\ it \in Items
  BY <1>1, RunKind
<1>3. o.result \in Results /\ o.cid \in Nat
  BY <1>1, OverOp, ActorsTwo DEF CameraInv, Overs
<1>4. new \in Items /\ new.status = o.result /\ new.cid = o.cid /\ new.undo = it.undo
  BY <1>2, <1>3 DEF Items
<1>5. /\ disk' = [jobs EXCEPT ![run] = one]
      /\ \/ jobs' = [jobs EXCEPT ![run] = [one EXCEPT !.state = "stopped", !.note = TRUE]]
            /\ worker' = [worker EXCEPT !.pc = "end"]
         \/ jobs' = [jobs EXCEPT ![run] = one] /\ worker' = [pc |-> "top", i |-> i + 1]
  <2> DEFINE done == [jobs EXCEPT ![run].items[i].status = o.result, ![run].items[i].cid = o.cid]
  <2>1. done = [jobs EXCEPT ![run] = one]
    BY <1>1, <1>2, ZenonT(60)
  <2>2. /\ disk' = done
        /\ \/ jobs' = [done EXCEPT ![run].state = "stopped", ![run].note = TRUE] /\ worker' = [worker EXCEPT !.pc = "end"]
           \/ jobs' = done /\ worker' = [pc |-> "top", i |-> i + 1]
    BY DEF Took
  <2> HIDE DEF done, one
  <2>3. [done EXCEPT ![run].state = "stopped", ![run].note = TRUE]
           = [jobs EXCEPT ![run] = [one EXCEPT !.state = "stopped", !.note = TRUE]]
    BY <1>2, <2>1
  <2> QED BY <2>1, <2>2, <2>3
<1> HIDE DEF new
<1>6. /\ SameJob(R, one) /\ one.undoneBy = 0 /\ one.items[i] = new
      /\ \A n \in DOMAIN R.items \ {i} : one.items[n] = R.items[n]
  BY <1>1, <1>3, <1>4, ItemReplaced
<1> HIDE DEF one
<1>7. PICK rec : /\ SameJob(R, rec) /\ rec.items = one.items /\ rec.undoneBy = 0 /\ jobs' = [jobs EXCEPT ![run] = rec]
                 /\ \/ rec.state = "stopped" /\ worker' = [worker EXCEPT !.pc = "end"]
                    \/ worker' = [pc |-> "top", i |-> i + 1]
  <2>1. CASE /\ jobs' = [jobs EXCEPT ![run] = [one EXCEPT !.state = "stopped", !.note = TRUE]]
             /\ worker' = [worker EXCEPT !.pc = "end"]
    <3> DEFINE rec == [one EXCEPT !.state = "stopped", !.note = TRUE]
    <3>1. /\ rec \in JobRecs /\ rec.items = one.items /\ rec.undoneBy = one.undoneBy /\ rec.undoOf = one.undoOf
          /\ rec.kind = one.kind /\ rec.state = "stopped"
      BY <1>6 DEF SameJob, JobRecs
    <3> HIDE DEF rec
    <3>2. SameJob(R, rec)
      BY <1>6, <3>1 DEF SameJob
    <3> QED BY <1>6, <2>1, <3>1, <3>2 DEF rec
  <2>2. CASE jobs' = [jobs EXCEPT ![run] = one] /\ worker' = [pc |-> "top", i |-> i + 1]
    BY <1>6, <2>2
  <2> QED BY <1>5, <2>1, <2>2
<1>8. jobs'[run] = rec /\ \A j \in DOMAIN jobs \ {run} : jobs'[j] = jobs[j]
  BY <1>1, <1>7, RunReplaced
<1>9. worker' \in [pc : {"idle", "top", "pause", "item", "end"}, i : Nat]
      /\ worker'.pc \in {"top", "end"} /\ (worker'.pc = "top" => worker'.i # 0) /\ (worker'.pc = "end" => rec.state = "stopped")
  BY <1>7 DEF CameraInv, TypeOK
<1>10. "worker" \in Actors /\ ~Busy("worker") /\ NoOp.step = "none"
  BY <1>1, ActorsTwo DEF Busy, NoOp
<1>11. ChangeInv'
  <2>1. NoOp.step \notin {"write", "back", "asked"} /\ NoOp \in {NoOp} \cup Overs \cup Fulls
    BY <1>10
  <2> QED BY <1>1, <1>10, <2>1, TakenUp DEF CameraInv
<1>12. op'["worker"] = NoOp /\ op' \in [Actors -> {NoOp} \cup Overs \cup Fulls]
  BY <1>1, <1>10, OpTyped DEF CameraInv, TypeOK
<1>13. WorkerSound'
  BY <1>1, <1>7, <1>8, <1>9, <1>10, <1>12 DEF WorkerSound
<1>14. UndoSound'
  <2> SUFFICES ASSUME R.kind = "undo" PROVE UndoSound'
    BY <1>1, <1>7, <1>8 DEF UndoSound, SameJob
  <2>1. jobs'[R.undoOf] = jobs[R.undoOf] /\ rec.undoOf = R.undoOf /\ DOMAIN rec.items = DOMAIN R.items
        /\ \A n \in DOMAIN R.items : rec.items[n].undo = R.items[n].undo
    BY <1>1, <1>7, <1>8, RunKind DEF SameJob
  <2>2. \A n \in DOMAIN R.items : /\ R.items[n].status = "ok" => log[R.items[n].undo].undoneBy # 0
                                  /\ R.items[n].status # "unchanged"
                                  /\ R.items[n].status = "running" => n = i
    BY <1>1 DEF CameraInv, JobsInv, UndoSound
  <2>3. o.result # "unchanged" /\ (o.result = "ok" => log[it.undo].undoneBy # 0)
    BY <1>1 DEF CameraInv, JobsInv, UndoSound
  <2>4. \A n \in DOMAIN R.items : /\ rec.items[n].status = "ok" => log[R.items[n].undo].undoneBy # 0
                                  /\ rec.items[n].status \notin {"unchanged", "running"}
    <3> SUFFICES ASSUME NEW n \in DOMAIN R.items
                 PROVE  /\ rec.items[n].status = "ok" => log[R.items[n].undo].undoneBy # 0
                        /\ rec.items[n].status \notin {"unchanged", "running"}
      OBVIOUS
    <3>1. CASE n = i
      BY <1>3, <1>4, <1>6, <1>7, <2>3, <3>1 DEF Results
    <3>2. CASE n # i
      BY <1>6, <1>7, <2>2, <3>2, SMTT(30)
    <3> QED BY <3>1, <3>2
  <2>5. \A m \in DOMAIN jobs[R.undoOf].items : jobs[R.undoOf].items[m].cid # 0 =>
            \E n \in DOMAIN R.items : R.items[n].undo = jobs[R.undoOf].items[m].cid
    BY <1>1 DEF CameraInv, JobsInv, UndoSound
  <2> HIDE DEF R, it, i, o
  <2>6. /\ \A m \in DOMAIN jobs'[rec.undoOf].items : jobs'[rec.undoOf].items[m].cid # 0 =>
              \E n \in DOMAIN rec.items : rec.items[n].undo = jobs'[rec.undoOf].items[m].cid
        /\ \A n \in DOMAIN rec.items :
              /\ rec.items[n].status = "ok" => log'[rec.items[n].undo].undoneBy # 0
              /\ rec.items[n].status \notin {"unchanged", "running"}
    BY <1>1, <2>1, <2>4, <2>5
  <2> QED BY <1>1, <1>8, <1>9, <2>6, SMTT(30) DEF UndoSound
<1> QED BY <1>1, <1>5, <1>6, <1>7, <1>9, <1>11, <1>12, <1>13, <1>14, WorkerShows


LEMMA SkippedIs ==
    ASSUME NEW items \in Seq(Items)
    PROVE  /\ Skipped(items) \in Seq(Items) /\ DOMAIN Skipped(items) = DOMAIN items
           /\ \A n \in DOMAIN items :
                 /\ Skipped(items)[n].cid = items[n].cid /\ Skipped(items)[n].undo = items[n].undo
                 /\ Skipped(items)[n].status = IF items[n].status = "pending" THEN "skipped" ELSE items[n].status
<1>1. DOMAIN items = 1..Len(items) /\ Len(items) \in Nat /\ \A n \in DOMAIN items : items[n] \in Items
  OBVIOUS
<1>2. \A n \in DOMAIN items :
         Skipped(items)[n] = IF items[n].status = "pending" THEN [items[n] EXCEPT !.status = "skipped"] ELSE items[n]
  BY DEF Skipped
<1>3. ASSUME NEW n \in DOMAIN items
      PROVE  /\ Skipped(items)[n] \in Items
             /\ Skipped(items)[n].cid = items[n].cid /\ Skipped(items)[n].undo = items[n].undo
             /\ Skipped(items)[n].status = IF items[n].status = "pending" THEN "skipped" ELSE items[n].status
  BY <1>1, <1>2 DEF Items
<1>4. Skipped(items) \in [1..Len(items) -> Items]
  <2>1. Skipped(items) = [n \in 1..Len(items) |-> Skipped(items)[n]]
    BY <1>1 DEF Skipped
  <2> QED BY <1>1, <1>3, <2>1
<1>5. Skipped(items) \in Seq(Items)
  BY <1>1, <1>4
<1> QED BY <1>1, <1>3, <1>4, <1>5

\* The end of a job, and what it is for the job it undid.
LEMMA JobEndKeeps == ASSUME CameraInv, End PROVE CameraInv'
<1> DEFINE R == jobs[run] items == Skipped(R.items) rec == [R EXCEPT !.items = items]
           own == [jobs EXCEPT ![run] = rec] of == R.undoOf
           told == [jobs[of] EXCEPT !.undoneBy = run, !.note = @ \/ Bad(items)]
<1>1. /\ run # 0 /\ worker.pc = "end" /\ worker' = NoWork /\ run' = 0 /\ disk' = jobs'
      /\ UNCHANGED <<dev, lock, op, log, blind, asked>>
  BY DEF End, Freed, Others
<1>2. /\ run \in DOMAIN jobs /\ R \in JobRecs /\ R.items \in Seq(Items) /\ R.undoneBy = 0
      /\ \A m \in DOMAIN R.items : R.items[m] \in Items /\ R.items[m].cid \in 0..Len(log)
      /\ (R.kind = "undo" => of \in DOMAIN jobs /\ of # run)
  BY <1>1, RunKind
<1>3. /\ items \in Seq(Items) /\ DOMAIN items = DOMAIN R.items
      /\ \A n \in DOMAIN R.items :
            /\ items[n].cid = R.items[n].cid /\ items[n].undo = R.items[n].undo
            /\ items[n].status = IF R.items[n].status = "pending" THEN "skipped" ELSE R.items[n].status
  BY <1>2, SkippedIs
<1> HIDE DEF items
<1>4. SameJob(R, rec) /\ rec.state = R.state /\ rec.items = items /\ rec.undoneBy = 0
  BY <1>2, <1>3 DEF SameJob, JobRecs
<1>5. jobs' = IF R.kind = "undo" THEN [own EXCEPT ![of] = told] ELSE own
  <2>1. jobs' = IF R.kind = "undo" THEN [own EXCEPT ![of].undoneBy = run, ![of].note = @ \/ Bad(items)] ELSE own
    BY DEF End, This, items
  <2>2. R.kind = "undo" => own[of] = jobs[of] /\ of \in DOMAIN own
    BY <1>2
  <2>3. R.kind = "undo" => [own EXCEPT ![of].undoneBy = run, ![of].note = @ \/ Bad(items)] = [own EXCEPT ![of] = told]
    <3> HIDE DEF own, of
    <3> QED BY <2>2
  <2> QED BY <2>1, <2>3
<1> HIDE DEF rec
<1>6. /\ own \in Seq(JobRecs) /\ Len(own) = Len(jobs) /\ own[run] = rec /\ DOMAIN own = DOMAIN jobs
      /\ \A j \in DOMAIN jobs \ {run} : own[j] = jobs[j]
      /\ JobsSound(own) /\ AllUndone(own)
  BY <1>1, <1>4, RunReplaced
<1> HIDE DEF own
<1>7. R.kind = "undo" => /\ told \in JobRecs /\ told.items = jobs[of].items /\ told.state = jobs[of].state
                         /\ told.kind = jobs[of].kind /\ told.undoOf = jobs[of].undoOf
                         /\ told.note = (jobs[of].note \/ Bad(items))
  <2> SUFFICES ASSUME R.kind = "undo"
               PROVE  /\ told \in JobRecs /\ told.items = jobs[of].items /\ told.state = jobs[of].state
                      /\ told.kind = jobs[of].kind /\ told.undoOf = jobs[of].undoOf
                      /\ told.note = (jobs[of].note \/ Bad(items))
    OBVIOUS
  <2>1. jobs[of] \in JobRecs /\ run \in Nat
    BY <1>2, JobTyped DEF CameraInv, TypeOK
  <2>2. (jobs[of].note \/ Bad(items)) \in BOOLEAN
    OBVIOUS
  <2> DEFINE b == jobs[of].note \/ Bad(items)
  <2>3. told = [jobs[of] EXCEPT !.undoneBy = run, !.note = b]
    OBVIOUS
  <2> HIDE DEF b, of
  <2>4. [jobs[of] EXCEPT !.undoneBy = run, !.note = b] \in JobRecs
    BY <2>1, <2>2 DEF JobRecs, b
  <2>5. told.note = b
    BY <2>1, <2>3 DEF JobRecs
  <2> QED BY <2>1, <2>3, <2>4, <2>5 DEF JobRecs, b
<1>8. R.kind = "undo" => /\ jobs'[of] = told /\ \A j \in DOMAIN jobs \ {of} : jobs'[j] = own[j]
  BY <1>2, <1>5, <1>6
<1>9. DOMAIN jobs' = DOMAIN jobs /\ jobs' \in Seq(JobRecs) /\ Len(jobs') = Len(jobs)
  <2> HIDE DEF told, of
  <2>1. CASE R.kind = "undo"
    <3>1. of \in DOMAIN own /\ told \in JobRecs /\ jobs' = [own EXCEPT ![of] = told]
      BY <1>2, <1>5, <1>6, <1>7, <2>1
    <3> QED BY <1>6, <3>1
  <2>2. CASE R.kind # "undo"
    BY <1>5, <1>6, <2>2
  <2> QED BY <2>1, <2>2
<1> HIDE DEF told, of
<1>10. \A j \in DOMAIN jobs : jobs'[j].items = own[j].items /\ jobs'[j].kind = own[j].kind
                              /\ jobs'[j].undoOf = own[j].undoOf /\ jobs'[j].state = jobs[j].state
  <2>1. \A j \in DOMAIN jobs : own[j].state = jobs[j].state
    BY <1>4, <1>6
  <2>2. R.kind = "undo" => own[of] = jobs[of]
    BY <1>2, <1>6
  <2>3. CASE R.kind = "undo"
    BY <1>7, <1>8, <2>1, <2>2, <2>3
  <2>4. CASE R.kind # "undo"
    BY <1>5, <2>1, <2>4
  <2> QED BY <2>3, <2>4
<1>11. JobsSound(jobs)'
  BY <1>1, <1>6, <1>9, <1>10 DEF JobsSound
<1>12. AllUndone(jobs)'
  <2> SUFFICES ASSUME NEW j \in DOMAIN jobs, jobs'[j].undoneBy # 0, ~jobs'[j].note,
                      NEW m \in DOMAIN own[j].items, own[j].items[m].cid # 0
               PROVE  log[own[j].items[m].cid].undoneBy # 0
    BY <1>1, <1>9, <1>10, SMTT(30) DEF AllUndone
  <2>1. CASE R.kind = "undo" /\ j = of
    <3>1. ~Bad(items) /\ own[j].items = jobs[of].items
      BY <1>2, <1>6, <1>7, <1>8, <2>1
    <3>2. PICK n \in DOMAIN R.items : R.items[n].undo = own[j].items[m].cid
      BY <1>1, <2>1, <3>1 DEF CameraInv, JobsInv, UndoSound, of
    <3>3. R.items[n].status \notin {"unchanged", "running"}
      BY <1>1, <2>1 DEF CameraInv, JobsInv, UndoSound
    <3>4. items[n].status \notin {"failed", "partial", "skipped"}
      BY <1>3, <3>1 DEF Bad
    <3>5. R.items[n].status \in Results \cup {"pending", "running", "skipped"}
      BY <1>2 DEF Items
    <3>6. R.items[n].status = "ok"
      BY <1>3, <3>3, <3>4, <3>5 DEF Results
    <3> QED BY <1>1, <2>1, <3>2, <3>6 DEF CameraInv, JobsInv, UndoSound
  <2>2. CASE ~(R.kind = "undo" /\ j = of)
    <3>1. jobs'[j] = own[j]
      BY <1>5, <1>8, <2>2
    <3> QED BY <1>6, <3>1 DEF AllUndone
  <2> QED BY <2>1, <2>2
<1>13. JobsSound(disk)' /\ AllUndone(disk)'
  BY <1>1, <1>11, <1>12 DEF JobsSound, AllUndone
<1>14. NoneStuck'
  <2>1. \A j \in DOMAIN jobs : jobs[j].state \notin {"queued", "running"}
    <3>1. jobs[run].state \in {"done", "stopped"}
      BY <1>1 DEF CameraInv, JobsInv, WorkerSound
    <3> QED BY <3>1 DEF CameraInv, JobsInv, NoneStuck
  <2> QED BY <1>9, <1>10, <2>1 DEF NoneStuck
<1>15. WorkerSound' /\ UndoSound'
  <2>1. op["worker"] = NoOp /\ NoOp.step = "none"
    BY <1>1 DEF CameraInv, JobsInv, WorkerSound, NoOp
  <2> QED BY <1>1, <2>1 DEF WorkerSound, UndoSound, NoWork
<1>16. TypeOK'
  BY <1>1, <1>9 DEF CameraInv, TypeOK, NoWork
<1>17. ChangeInv'
  BY <1>1, ChangesStay DEF CameraInv
<1> QED BY <1>11, <1>12, <1>13, <1>14, <1>15, <1>16, <1>17 DEF CameraInv, JobsInv


\* A job begins.
LEMMA JobBegins ==
    ASSUME CameraInv, run = 0, NEW job \in JobRecs, JobStarts(job), UNCHANGED Others, asked' \in 0..Len(jobs),
           job.undoneBy = 0,
           \A n \in DOMAIN job.items : job.items[n].cid = 0 /\ job.items[n].status = "pending",
           job.kind = "undo" =>
               /\ job.undoOf \in DOMAIN jobs /\ \A n \in DOMAIN job.items : job.items[n].undo \in DOMAIN log
               /\ \A m \in DOMAIN jobs[job.undoOf].items : jobs[job.undoOf].items[m].cid # 0 =>
                      \E n \in DOMAIN job.items : job.items[n].undo = jobs[job.undoOf].items[m].cid
    PROVE  CameraInv'
<1> DEFINE k == Len(jobs) + 1
<1>1. /\ jobs' = Append(jobs, job) /\ disk' = jobs' /\ run' = k /\ worker' = [pc |-> "top", i |-> 1]
      /\ UNCHANGED <<dev, lock, op, log, blind>>
  BY DEF JobStarts, Others
<1>2. jobs \in Seq(JobRecs) /\ Len(jobs) \in Nat /\ DOMAIN jobs = 1..Len(jobs) /\ DOMAIN log = 1..Len(log) /\ Len(log) \in Nat
  BY DEF CameraInv, TypeOK
<1>3. /\ jobs' \in Seq(JobRecs) /\ Len(jobs') = k /\ jobs'[k] = job /\ DOMAIN jobs' = 1..k
      /\ \A j \in DOMAIN jobs : jobs'[j] = jobs[j]
  BY <1>1, <1>2
<1>4. /\ \A j \in 1..k : j = k \/ j \in DOMAIN jobs
      /\ k \in 1..k /\ k \notin DOMAIN jobs /\ k # 0 /\ k \in Nat
      /\ DOMAIN jobs = 1..(k - 1)
  BY <1>2
<1> HIDE DEF k
<1>5. JobsSound(jobs)'
  <2> SUFFICES ASSUME NEW j \in 1..k
               PROVE  /\ \A m \in DOMAIN jobs'[j].items : jobs'[j].items[m].cid \in 0..Len(log)
                      /\ jobs'[j].kind = "undo" =>
                            /\ jobs'[j].undoOf \in 1..(j - 1)
                            /\ \A m \in DOMAIN jobs'[j].items : jobs'[j].items[m].undo \in DOMAIN log
    BY <1>1, <1>3 DEF JobsSound
  <2>1. CASE j = k
    <3>1. \A m \in DOMAIN job.items : job.items[m].cid \in 0..Len(log)
      BY <1>2
    <3> QED BY <1>3, <1>4, <2>1, <3>1
  <2>2. CASE j \in DOMAIN jobs
    BY <1>3, <2>2 DEF CameraInv, JobsInv, JobsSound
  <2> QED BY <1>4, <2>1, <2>2
<1>6. AllUndone(jobs)'
  <2> SUFFICES ASSUME NEW j \in 1..k, jobs'[j].undoneBy # 0, ~jobs'[j].note,
                      NEW m \in DOMAIN jobs'[j].items, jobs'[j].items[m].cid # 0
               PROVE  log[jobs'[j].items[m].cid].undoneBy # 0
    BY <1>1, <1>3 DEF AllUndone
  <2>1. j \in DOMAIN jobs /\ jobs'[j] = jobs[j]
    BY <1>3, <1>4, SMTT(30)
  <2> QED BY <2>1 DEF CameraInv, JobsInv, AllUndone
<1>7. JobsSound(disk)' /\ AllUndone(disk)'
  BY <1>1, <1>5, <1>6 DEF JobsSound, AllUndone
<1>8. NoneStuck'
  <2>1. \A j \in DOMAIN jobs : jobs[j].state \notin {"queued", "running"}
    BY <1>2 DEF CameraInv, JobsInv, NoneStuck
  <2> QED BY <1>1, <1>3, <1>4, <2>1 DEF NoneStuck
<1>9. op["worker"] = NoOp /\ NoOp.step = "none"
  BY DEF CameraInv, JobsInv, WorkerSound, NoOp
<1>10. WorkerSound'
  BY <1>1, <1>3, <1>9 DEF WorkerSound
<1>11. UndoSound'
  <2> SUFFICES ASSUME job.kind = "undo" PROVE UndoSound'
    BY <1>1, <1>3 DEF UndoSound
  <2>1. jobs'[job.undoOf] = jobs[job.undoOf]
    BY <1>3
  <2> QED BY <1>1, <1>3, <2>1 DEF UndoSound
<1>12. TypeOK'
  <2>1. run' \in 0..Len(jobs') /\ asked' \in 0..Len(jobs')
    BY <1>1, <1>2, <1>3 DEF k
  <2>2. worker' \in [pc : {"idle", "top", "pause", "item", "end"}, i : Nat]
    BY <1>1
  <2> QED BY <1>1, <1>3, <2>1, <2>2 DEF CameraInv, TypeOK
<1>13. ChangeInv'
  BY <1>1, ChangesStay DEF CameraInv
<1> QED BY <1>5, <1>6, <1>7, <1>8, <1>10, <1>11, <1>12, <1>13 DEF CameraInv, JobsInv

LEMMA RuleStarts == ASSUME CameraInv, NEW sof \in BOOLEAN, StartRule(sof) PROVE CameraInv'
<1> DEFINE items == [i \in DOMAIN Devs |-> Item(Devs[i], 0)] job == Job("rule", items, sof, 0)
<1>1. run = 0 /\ JobStarts(job) /\ UNCHANGED Others /\ asked' \in 0..Len(jobs)
  BY DEF StartRule, CameraInv, TypeOK
<1>2. Devs \in Seq(Keys) /\ DOMAIN Devs = 1..Len(Devs) /\ Len(Devs) \in Nat
  BY DevsAssumption
<1>3. \A i \in DOMAIN Devs : items[i] \in Items /\ items[i].cid = 0 /\ items[i].status = "pending"
  BY <1>2 DEF Item, Items
<1>4. items \in Seq(Items) /\ DOMAIN items = DOMAIN Devs
  <2>1. items \in [1..Len(Devs) -> Items]
    BY <1>2, <1>3
  <2> QED BY <1>2, <2>1
<1> HIDE DEF items
<1>5. job \in JobRecs /\ job.items = items /\ job.undoneBy = 0 /\ job.kind = "rule"
  BY <1>4 DEF Job, JobRecs
<1> HIDE DEF job
<1> QED BY <1>1, <1>3, <1>4, <1>5, JobBegins

LEMMA UndoBegins == ASSUME CameraInv, BeginUndo PROVE CameraInv'
<1> DEFINE of == jobs[asked].items items == Changed(of) job == Job("undo", items, FALSE, asked)
<1>1. asked \in DOMAIN jobs /\ asked \in Nat
  BY DEF BeginUndo, CameraInv, TypeOK
<1>2. of \in Seq(Items) /\ \A m \in DOMAIN of : of[m].cid \in 0..Len(log)
  BY <1>1, JobTyped DEF CameraInv, JobsInv, JobsSound
<1>3. DOMAIN log = 1..Len(log) /\ Len(log) \in Nat /\ DOMAIN of = 1..Len(of)
  BY <1>2 DEF CameraInv, TypeOK
<1>4. UndoesOf(of, Len(of), items)
  BY <1>2, ChangedIs
<1> HIDE DEF of, items
<1>5. items \in Seq(Items) /\ DOMAIN items = 1..Len(items)
  BY <1>4 DEF UndoesOf
<1>6. \A n \in DOMAIN items : items[n].status = "pending" /\ items[n].cid = 0 /\ items[n].undo \in DOMAIN log
  <2> SUFFICES ASSUME NEW n \in DOMAIN items
               PROVE  items[n].status = "pending" /\ items[n].cid = 0 /\ items[n].undo \in DOMAIN log
    OBVIOUS
  <2>1. PICK m \in 1..Len(of) : of[m].cid # 0 /\ items[n].undo = of[m].cid
    BY <1>4, <1>5 DEF UndoesOf
  <2>2. of[m].cid \in 0..Len(log)
    BY <1>2, <1>3
  <2>3. items[n].undo \in DOMAIN log
    BY <1>3, <2>1, <2>2
  <2> QED BY <1>4, <1>5, <2>3 DEF UndoesOf
<1>7. \A m \in DOMAIN of : of[m].cid # 0 => \E n \in DOMAIN items : items[n].undo = of[m].cid
  BY <1>3, <1>4, <1>5 DEF UndoesOf
<1>8. CASE run = 0
  <2>1. JobStarts(job) /\ UNCHANGED Others /\ asked' \in 0..Len(jobs)
    BY <1>8 DEF BeginUndo, of, items, CameraInv, TypeOK
  <2>2. job \in JobRecs /\ job.items = items /\ job.undoneBy = 0 /\ job.kind = "undo" /\ job.undoOf = asked
    BY <1>1, <1>5 DEF Job, JobRecs
  <2> HIDE DEF job
  <2> QED BY <1>1, <1>6, <1>7, <1>8, <2>1, <2>2, JobBegins DEF of
<1>9. CASE run # 0
  <2>1. asked' = 0 /\ UNCHANGED <<dev, lock, op, log, blind, jobs, disk, run, worker, stop>>
    BY <1>9 DEF BeginUndo, Others
  <2>2. ChangeInv'
    BY <2>1, ChangesStay DEF CameraInv
  <2>3. TypeOK'
    BY <2>1, SMTT(30) DEF CameraInv, TypeOK
  <2>4. JobsInv'
    BY <2>1 DEF CameraInv, JobsInv, JobsSound, AllUndone, NoneStuck, WorkerSound, UndoSound
  <2> QED BY <2>2, <2>3, <2>4 DEF CameraInv
<1> QED BY <1>8, <1>9

\* Asking for an undo, and asking a job to stop.
LEMMA AskingKeeps == ASSUME CameraInv, Stop \/ (\E j \in DOMAIN jobs : AskUndo(j)) \/ UNCHANGED vars PROVE CameraInv'
<1>1. UNCHANGED <<dev, lock, op, log, blind, jobs, disk, run, worker>> /\ asked' \in 0..Len(jobs)
  BY DEF Stop, AskUndo, Others, vars, jobVars, CameraInv, TypeOK
<1>2. ChangeInv'
  BY <1>1, ChangesStay DEF CameraInv
<1>3. TypeOK'
  BY <1>1, SMTT(30) DEF CameraInv, TypeOK
<1>4. JobsInv'
  BY <1>1 DEF CameraInv, JobsInv, JobsSound, AllUndone, NoneStuck, WorkerSound, UndoSound
<1> QED BY <1>2, <1>3, <1>4 DEF CameraInv

LEMMA LoadedIs ==
    ASSUME NEW js \in Seq(JobRecs)
    PROVE  /\ Loaded(js) \in Seq(JobRecs) /\ DOMAIN Loaded(js) = DOMAIN js
           /\ \A j \in DOMAIN js :
                 /\ Loaded(js)[j].items = js[j].items /\ Loaded(js)[j].kind = js[j].kind
                 /\ Loaded(js)[j].undoOf = js[j].undoOf /\ Loaded(js)[j].undoneBy = js[j].undoneBy
                 /\ js[j].note => Loaded(js)[j].note
                 /\ Loaded(js)[j].state \notin {"queued", "running"}
<1>1. DOMAIN js = 1..Len(js) /\ Len(js) \in Nat /\ \A j \in DOMAIN js : js[j] \in JobRecs
  OBVIOUS
<1>2. \A j \in DOMAIN js : Loaded(js)[j] = IF js[j].state \in {"queued", "running"}
                                           THEN [js[j] EXCEPT !.state = "stopped", !.note = TRUE] ELSE js[j]
  BY DEF Loaded
<1>3. ASSUME NEW j \in DOMAIN js
      PROVE  /\ Loaded(js)[j] \in JobRecs
             /\ Loaded(js)[j].items = js[j].items /\ Loaded(js)[j].kind = js[j].kind
             /\ Loaded(js)[j].undoOf = js[j].undoOf /\ Loaded(js)[j].undoneBy = js[j].undoneBy
             /\ js[j].note => Loaded(js)[j].note
             /\ Loaded(js)[j].state \notin {"queued", "running"}
  <2>1. CASE js[j].state \in {"queued", "running"}
    <3> DEFINE rec == [js[j] EXCEPT !.state = "stopped", !.note = TRUE]
    <3>1. /\ rec \in JobRecs /\ rec.items = js[j].items /\ rec.kind = js[j].kind /\ rec.undoOf = js[j].undoOf
          /\ rec.undoneBy = js[j].undoneBy /\ rec.state = "stopped" /\ rec.note = TRUE
      BY <1>1 DEF JobRecs
    <3>2. Loaded(js)[j] = rec
      BY <1>2, <2>1
    <3> HIDE DEF rec
    <3> QED BY <3>1, <3>2
  <2>2. CASE js[j].state \notin {"queued", "running"}
    BY <1>1, <1>2, <2>2
  <2> QED BY <2>1, <2>2
<1>4. Loaded(js) \in [1..Len(js) -> JobRecs]
  <2>1. Loaded(js) = [j \in 1..Len(js) |-> Loaded(js)[j]]
    BY <1>1 DEF Loaded
  <2> QED BY <1>1, <1>3, <2>1
<1>5. Loaded(js) \in Seq(JobRecs)
  BY <1>1, <1>4
<1> QED BY <1>1, <1>3, <1>4, <1>5

\* Netwatch starts again: the changes under way are dropped, and the jobs are those on disk.
LEMMA CameraCrashKeeps == ASSUME CameraInv, Crash PROVE CameraInv'
<1> DEFINE cut == {op[a].key : a \in {x \in Actors : op[x].step \in {"write", "back"}}}
<1>1. /\ op' = [a \in Actors |-> NoOp] /\ lock' = [k \in Keys |-> NoHolder] /\ blind' = blind \cup cut
      /\ jobs' = Loaded(disk) /\ run' = 0 /\ worker' = NoWork /\ asked' = 0 /\ UNCHANGED <<dev, log, disk>>
  BY DEF Crash
<1>2. NoOp.step = "none" /\ \A a \in Actors : op'[a] = NoOp
  BY <1>1 DEF NoOp
<1>3. disk \in Seq(JobRecs)
  BY DEF CameraInv, TypeOK
<1>4. /\ jobs' \in Seq(JobRecs) /\ DOMAIN jobs' = DOMAIN disk
      /\ \A j \in DOMAIN disk :
            /\ jobs'[j].items = disk[j].items /\ jobs'[j].kind = disk[j].kind
            /\ jobs'[j].undoOf = disk[j].undoOf /\ jobs'[j].undoneBy = disk[j].undoneBy
            /\ disk[j].note => jobs'[j].note
            /\ jobs'[j].state \notin {"queued", "running"}
  BY <1>1, <1>3, LoadedIs
<1>5. JobsSound(jobs)'
  BY <1>1, <1>4 DEF CameraInv, JobsInv, JobsSound
<1>6. AllUndone(jobs)'
  BY <1>1, <1>4 DEF CameraInv, JobsInv, AllUndone
<1>7. JobsSound(disk)' /\ AllUndone(disk)'
  BY <1>1 DEF CameraInv, JobsInv, JobsSound, AllUndone
<1>8. NoneStuck' /\ WorkerSound' /\ UndoSound'
  BY <1>1, <1>2, <1>4, ActorsTwo DEF NoneStuck, WorkerSound, UndoSound, NoWork
<1>9. cut \subseteq Keys /\ \A k \in Keys \ cut : lock[k] = NoHolder
  <2>1. \A a \in Actors : op[a].step \in {"write", "back"} => op[a].key \in Keys
    BY FullOp DEF CameraInv, Fulls
  <2>2. \A k \in Keys : lock[k] # NoHolder => lock[k] \in Actors
    BY DEF CameraInv, TypeOK
  <2> QED BY <2>1, <2>2 DEF CameraInv, ChangeInv, LocksHeld, Busy
<1> HIDE DEF cut
<1>10. TypeOK'
  <2>1. op' \in [Actors -> {NoOp} \cup Overs \cup Fulls] /\ lock' \in [Keys -> Actors \cup {NoHolder}]
    BY <1>1
  <2>2. worker' \in [pc : {"idle", "top", "pause", "item", "end"}, i : Nat] /\ blind' \subseteq Keys
    BY <1>1, <1>9 DEF NoWork, CameraInv, TypeOK
  <2>3. run' \in 0..Len(jobs') /\ asked' \in 0..Len(jobs')
    BY <1>1, <1>4
  <2> QED BY <1>1, <1>4, <2>1, <2>2, <2>3 DEF CameraInv, TypeOK
<1>11. ChangeInv'
  <2>1. LocksHeld' /\ OpsSound'
    BY <1>1, <1>2 DEF LocksHeld, OpsSound, Busy
  <2>2. LogSound' /\ HaveNewest'
    BY <1>1 DEF CameraInv, ChangeInv, LogSound, HaveNewest, ChangesOf
  <2>3. UntouchedTold'
    BY <1>1, <1>9 DEF CameraInv, ChangeInv, UntouchedTold, LastSays
  <2> QED BY <2>1, <2>2, <2>3 DEF ChangeInv
<1> QED BY <1>5, <1>6, <1>7, <1>8, <1>10, <1>11 DEF CameraInv, JobsInv


LEMMA CameraInit == Init => CameraInv
<1> SUFFICES ASSUME Init PROVE CameraInv
  OBVIOUS
<1>1. /\ dev = [k \in Keys |-> [i \in Docs |-> 0]] /\ lock = [k \in Keys |-> NoHolder]
      /\ op = [a \in Actors |-> NoOp] /\ log = <<>> /\ jobs = <<>> /\ disk = <<>> /\ run = 0 /\ worker = NoWork
      /\ asked = 0 /\ blind = {}
  BY DEF Init
<1>2. NoOp.step = "none" /\ \A a \in Actors : op[a] = NoOp
  BY <1>1 DEF NoOp
<1>3. TypeOK
  <2>1. dev \in [Keys -> [Docs -> Values]]
    BY <1>1, DocsAssumption
  <2>2. log \in [1..Len(log) -> LogEntries] /\ Len(log) \in Nat
    BY <1>1
  <2> QED BY <1>1, <2>1, <2>2 DEF TypeOK, NoWork
<1>4. LocksHeld /\ LogSound /\ OpsSound
  BY <1>1, <1>2 DEF LocksHeld, LogSound, OpsSound, Busy
<1>5. HaveNewest /\ UntouchedTold
  BY <1>1 DEF HaveNewest, ChangesOf, UntouchedTold, LastSays
<1>6. JobsInv
  BY <1>1, <1>2, ActorsTwo DEF JobsInv, JobsSound, AllUndone, NoneStuck, WorkerSound, UndoSound, NoWork
<1> QED BY <1>3, <1>4, <1>5, <1>6 DEF CameraInv, ChangeInv

LEMMA CameraStep == CameraInv /\ [Next]_vars => CameraInv'
<1> SUFFICES ASSUME CameraInv, [Next]_vars PROVE CameraInv'
  OBVIOUS
<1>1. ASSUME NEW a \in Actors, Change(a) PROVE CameraInv'
  <2>1. TypeOK' /\ ChangeInv'
    BY <1>1, ChangeBegins, ChangeWrites, ChangeReadsBack DEF Change, CameraInv
  <2>2. JobsInv'
    BY <1>1, JobsThroughChange
  <2> QED BY <2>1, <2>2 DEF CameraInv
<1>2. CASE Worker
  BY <1>2, TopKeeps, NextItemKeeps, TookKeeps, JobEndKeeps DEF Worker
<1>3. CASE \/ HandDone
           \/ \E k \in Keys, i \in Docs, v \in Values : HandChange(k, i, v)
           \/ \E c \in DOMAIN log : HandUndo(c)
  BY <1>3, PersonKeeps
<1>4. ASSUME NEW sof \in BOOLEAN, StartRule(sof) PROVE CameraInv'
  BY <1>4, RuleStarts
<1>5. CASE BeginUndo \/ Crash
  BY <1>5, UndoBegins, CameraCrashKeeps
<1>6. CASE Stop \/ (\E j \in DOMAIN jobs : AskUndo(j)) \/ UNCHANGED vars
  BY <1>6, AskingKeeps
<1> QED BY <1>1, <1>2, <1>3, <1>4, <1>5, <1>6 DEF Next

\* The devices, the log, the jobs and what is on disk have the shape the code gives them.
THEOREM CamerasTyped == Spec => []TypeOK
<1>1. CameraInv => TypeOK
  BY DEF CameraInv
<1> QED BY <1>1, CameraInit, CameraStep, PTL DEF Spec

\* The log and the jobs say what became of the devices (hiksettings.Log, hikbulk.Jobs): for any
\* number of devices, documents and jobs, however the changes of the worker and of people cross,
\* whatever document a device refuses or does not keep, and wherever Netwatch starts again. The log
\* is not vouched for on devices a change of which was cut off after it had begun to write.
THEOREM ChangesAreAccounted == Spec => []ChangesAccounted
<1>1. CameraInv => ChangesAccounted
  <2> SUFFICES ASSUME CameraInv PROVE ChangesAccounted
    OBVIOUS
  <2>1. HistoryTrue
    BY DEF CameraInv, ChangeInv, UntouchedTold, HistoryTrue
  <2>2. UndoneIsUndone
    BY DEF CameraInv, JobsInv, AllUndone, UndoneIsUndone
  <2> QED BY <2>1, <2>2 DEF CameraInv, JobsInv, ChangesAccounted
<1> QED BY <1>1, CameraInit, CameraStep, PTL DEF Spec

\* An undo that writes a document finds in it what the change it undoes had put there, and puts
\* back what was there before (hiksettings.undo, apply's check of the expected values).
THEOREM UndoesWriteOverTheirOwn == Spec => UndoOverOwn
<1>1. ASSUME CameraInv, Next, NEW a \in Actors, NEW k \in Keys, NEW i \in Docs, op[a].step = "write",
             op[a].undoOf # 0, op[a].key = k, dev'[k][i] # dev[k][i], op'[a] # op[a]
      PROVE  dev[k][i] = log[op[a].undoOf].after[i] /\ dev'[k][i] = log[op[a].undoOf].before[i]
  <2> DEFINE x == CHOOSE x \in ToWrite(a) : \A y \in ToWrite(a) : x <= y
  <2>1. Busy(a) /\ WriteSound(a) /\ op[a] \in Fulls
    BY <1>1, OthersElsewhere DEF CameraInv, Busy
  <2>2. x \in ToWrite(a) /\ x \in Docs
    BY <1>1, NextToWrite, SMTT(30) DEF CameraInv
  <2>3. \E b \in Actors : Write(b)
    <3>1. dev' # dev
      BY <1>1
    <3> QED BY <1>1, <3>1
            DEF Next, Change, Begin, Back, HandDone, BeginUndo, Stop, Worker, Top, NextItem, Took, End, Crash,
                HandChange, HandUndo, StartRule, AskUndo, Others
  <2>4. PICK b \in Actors : Write(b)
    BY <2>3
  <2>5. b = a
    <3>1. \/ \E W : \E s \in {"write", "back"} : op' = [op EXCEPT ![b].written = W, ![b].step = s]
          \/ op' = [op EXCEPT ![b].step = "back", ![b].err = TRUE]
          \/ op' = Over(b, "failed", 0)
      BY <2>4 DEF Write
    <3>2. ASSUME b # a PROVE op'[a] = op[a]
      <4>1. \A o : op' = [op EXCEPT ![b] = o] => op'[a] = op[a]
        BY <3>2 DEF CameraInv, TypeOK
      <4>2. \E o : op' = [op EXCEPT ![b] = o]
        <5>1. b \in DOMAIN op
          BY <1>1 DEF CameraInv, TypeOK
        <5>2. ASSUME NEW W, NEW s \in {"write", "back"}, op' = [op EXCEPT ![b].written = W, ![b].step = s]
              PROVE  \E o : op' = [op EXCEPT ![b] = o]
          <6>1. op' = [op EXCEPT ![b] = [op[b] EXCEPT !.written = W, !.step = s]]
            BY <5>1, <5>2
          <6> QED BY <6>1
        <5>3. ASSUME op' = [op EXCEPT ![b].step = "back", ![b].err = TRUE] PROVE \E o : op' = [op EXCEPT ![b] = o]
          <6>1. op' = [op EXCEPT ![b] = [op[b] EXCEPT !.step = "back", !.err = TRUE]]
            BY <5>1, <5>3
          <6> QED BY <6>1
        <5>4. ASSUME op' = Over(b, "failed", 0) PROVE \E o : op' = [op EXCEPT ![b] = o]
          BY <5>4 DEF Over
        <5> QED BY <3>1, <5>2, <5>3, <5>4
      <4> QED BY <4>1, <4>2
    <3> QED BY <1>1, <3>2
  <2>6. dev' = [dev EXCEPT ![k][x] = op[a].want[x]]
    <3>1. dev' # dev
      BY <1>1
    <3> QED BY <1>1, <2>4, <2>5, <3>1 DEF Write
  <2> HIDE DEF x
  <2>7. i = x /\ dev'[k][i] = op[a].want[i]
    BY <1>1, <2>2, <2>6 DEF CameraInv, TypeOK
  <2>8. i \in DOMAIN op[a].want /\ i \in ToWrite(a)
    BY <2>2, <2>7 DEF ToWrite
  <2> QED BY <1>1, <2>1, <2>7, <2>8 DEF WriteSound
<1>2. CameraInv /\ [Next]_vars =>
        [\A a \in Actors, k \in Keys, i \in Docs :
            op[a].step = "write" /\ op[a].undoOf # 0 /\ op[a].key = k /\ dev'[k][i] # dev[k][i] /\ op'[a] # op[a]
            => dev[k][i] = log[op[a].undoOf].after[i] /\ dev'[k][i] = log[op[a].undoOf].before[i]]_vars
  BY <1>1
<1> QED BY <1>2, CameraInit, CameraStep, PTL DEF Spec, UndoOverOwn

(***************************************************************************)
(* Pictures of a camera. A request that nothing got in the way of has yet  *)
(* to try every way it did not find closed, and what it finds closed stays *)
(* so.                                                                     *)
(***************************************************************************)
OwnWays == {"own-generic", "own-rtsp", "nvr"}
Ways == OwnWays \cup {"direct", "direct-again"}
LoginWords == [no : Nat, good : BOOLEAN, seen : {"nothing", "ok", "refused"}]
PicReq == [pc : {"try", "asking", "put", "save", "failed"}, full : BOOLEAN, order : Seq(Ways), via : BOOLEAN,
           recFailed : BOOLEAN, again : BOOLEAN, login : LoginWords, hurt : BOOLEAN]
CapWords == [thumb : {"unknown", "size", "sub", "none"}, url : {"unknown", "known", "none"},
             shot : {"unknown", "bad"}, stream : {"unknown", "known", "none"}]
Seeks(r) == r.pc \in {"try", "asking"}

\* The login a request is sent with is the one saved now, or an older one.
OfLogin(r, l) == r.login.no <= l.no /\ (r.login.no = l.no => (r.login.good <=> l.good))

PicTypes ==
    /\ cam \in Cameras /\ req \in [Lenses -> PicReq \cup {NoReq}]
    /\ \A v \in Lenses : req[v] # NoReq => OfLogin(req[v], login) /\ (Seeks(req[v]) => req[v].order # <<>>)
    /\ login \in LoginWords /\ (LoginRefused => ~login.good)
    /\ caps \in CapWords /\ recorder \in [Lenses -> {"unknown", "main", "bad"}]

\* Those who are about to learn whether the login saved now is refused.
Knocking == {v \in Asking : Way(v) # "nvr" /\ req[v].login.no = login.no}

TriesFew ==
    /\ Cardinality(Asking) <= Parallel /\ wrong \in Nat
    /\ IF LoginRefused THEN wrong + Cardinality(Knocking) <= Parallel ELSE wrong = 0

\* What is remembered of camera and recorder is so.
CapsTrue ==
    \A v \in Lenses : recorder[v] = "main" => cam.recMain

\* The ways that cannot lead to a picture any more.
Shut(full) ==
    {way \in OwnWays : /\ way = "own-generic" => (cam.url /\ cam.shot => caps.url = "none" \/ caps.shot = "bad")
                       /\ way = "own-rtsp" => (cam.stream => caps.stream = "none")
                       /\ way = "nvr" => (cam.rec => ~cam.recMain /\ (full \/ ~cam.recSub))}

\* A camera of another make: what is not shut is still to be tried.
TriesRest(order, again, shut) ==
    /\ ~again /\ order \in Seq(OwnWays)
    /\ \A way \in OwnWays : (\E i \in DOMAIN order : order[i] = way) \/ way \in shut

\* A Hikvision camera is asked itself in the end.
AsksItself(r) ==
    \/ r.order = <<"direct", "nvr">> \/ r.order = <<"nvr", "direct">>
    \/ r.order = <<"direct">> /\ (r.recFailed \/ ~r.via)
    \/ r.order = <<"nvr">> /\ r.again
    \/ r.order = <<"direct-again">> /\ r.recFailed

HopeLeft(r) ==
    /\ Seeks(r) => IF cam.hik THEN AsksItself(r) ELSE TriesRest(r.order, r.again, Shut(r.full))
    /\ r.pc = "failed" => ~cam.hik /\ Shut(r.full) = OwnWays

Unhurt(r) == up = {"camera", "recorder"} /\ login.good /\ r.login.good /\ HopeLeft(r)

WaysSound == \A v \in Lenses : req[v] # NoReq /\ ~req[v].hurt => Unhurt(req[v])

PicInv == PicTypes /\ TriesFew /\ CapsTrue /\ WaysSound

\* A request that goes on to its next way, or has none left.
LEMMA TailOf ==
    ASSUME NEW S, NEW s \in Seq(S), s # <<>>
    PROVE  /\ Head(s) = s[1] /\ s[1] \in S /\ 1 \in DOMAIN s /\ Tail(s) \in Seq(S)
           /\ \A i \in DOMAIN s : i = 1 \/ \E j \in DOMAIN Tail(s) : Tail(s)[j] = s[i]
           /\ Tail(s) = <<>> => DOMAIN s = {1}
<1>1. Head(s) = s[1] /\ s[1] \in S /\ 1 \in DOMAIN s /\ Tail(s) \in Seq(S)
  OBVIOUS
<1>2. ASSUME NEW i \in DOMAIN s, i # 1 PROVE i - 1 \in DOMAIN Tail(s) /\ Tail(s)[i - 1] = s[i]
  BY <1>2
<1>3. Tail(s) = <<>> => DOMAIN s = {1}
  <2> DEFINE t == Tail(s)
  <2>1. t \in Seq(S) /\ Len(t) = Len(s) - 1 /\ Len(s) \in Nat
    BY <1>1
  <2>4. t = Tail(s)
    OBVIOUS
  <2> HIDE DEF t
  <2>2. ASSUME t = <<>> PROVE Len(s) = 1
    <3>1. Len(t) = 0
      BY <2>2
    <3> QED BY <2>1, <3>1
  <2>3. Len(s) = 1 => DOMAIN s = {1}
    BY DOMAIN s = 1 .. Len(s)
  <2> QED BY <2>2, <2>3, <2>4
<1> QED BY <1>1, <1>2, <1>3

\* What is added to a sequence.
MoreWays(r) == Tail(r.order) \o If("direct-again", Tail(r.order) = <<>> /\ Head(r.order) # "direct-again" /\ r.again /\ r.recFailed)

LEMMA OnwardIs ==
    ASSUME NEW r \in PicReq
    PROVE  Onward(r) = [r EXCEPT !.pc = IF MoreWays(r) = <<>> THEN "failed" ELSE "try", !.order = MoreWays(r)]
BY DEF Onward, MoreWays

LEMMA OnwardTyped ==
    ASSUME NEW r \in PicReq, r.order # <<>>
    PROVE  /\ Onward(r) \in PicReq /\ Onward(r).pc \in {"try", "failed"}
           /\ Onward(r).order = MoreWays(r) /\ (Onward(r).pc = "failed" <=> MoreWays(r) = <<>>)
           /\ Onward(r).login = r.login /\ Onward(r).hurt = r.hurt /\ Onward(r).full = r.full
           /\ Onward(r).recFailed = r.recFailed /\ Onward(r).again = r.again /\ Onward(r).via = r.via
<1>1. Tail(r.order) \in Seq(Ways)
  BY TailOf DEF PicReq
<1>2. ASSUME NEW p \in BOOLEAN PROVE If("direct-again", p) \in Seq(Ways)
  <2>1. "direct-again" \in Ways
    BY DEF Ways
  <2> QED BY <2>1 DEF If
<1>3. MoreWays(r) \in Seq(Ways)
  <2> DEFINE p == Tail(r.order) = <<>> /\ Head(r.order) # "direct-again" /\ r.again /\ r.recFailed
  <2>1. p \in BOOLEAN
    BY DEF PicReq
  <2>2. MoreWays(r) = Tail(r.order) \o If("direct-again", p)
    BY DEF MoreWays
  <2> HIDE DEF p
  <2>3. If("direct-again", p) \in Seq(Ways)
    BY <1>2, <2>1
  <2> QED BY <1>1, <2>2, <2>3
<1> HIDE DEF MoreWays
<1> QED BY <1>3, OnwardIs, ZenonT(60) DEF PicReq

\* Of another make: the way that failed is shut now.
LEMMA OnwardTries ==
    ASSUME NEW r \in PicReq, r.order # <<>>, NEW shut \in SUBSET OwnWays, TriesRest(r.order, r.again, shut), Head(r.order) \in shut
    PROVE  /\ MoreWays(r) # <<>> => TriesRest(MoreWays(r), r.again, shut)
           /\ MoreWays(r) = <<>> => shut = OwnWays
<1>1. r.order \in Seq(OwnWays) /\ ~r.again
  BY DEF TriesRest
<1>2. /\ Head(r.order) = r.order[1] /\ Tail(r.order) \in Seq(OwnWays)
      /\ \A i \in DOMAIN r.order : i = 1 \/ \E j \in DOMAIN Tail(r.order) : Tail(r.order)[j] = r.order[i]
      /\ Tail(r.order) = <<>> => DOMAIN r.order = {1}
  BY <1>1, TailOf
<1>3. MoreWays(r) = Tail(r.order)
  BY <1>1, <1>2 DEF MoreWays, If
<1>4. ASSUME NEW way \in OwnWays, way \notin shut PROVE \E i \in DOMAIN MoreWays(r) : MoreWays(r)[i] = way
  <2>1. PICK i \in DOMAIN r.order : r.order[i] = way
    BY <1>4 DEF TriesRest
  <2>2. i # 1
    BY <1>2, <1>4, <2>1
  <2> QED BY <1>2, <1>3, <2>1, <2>2
<1>5. ASSUME MoreWays(r) = <<>> PROVE shut = OwnWays
  <2>1. DOMAIN MoreWays(r) = {}
    BY <1>5
  <2> QED BY <1>4, <2>1
<1> QED BY <1>1, <1>2, <1>3, <1>4, <1>5 DEF TriesRest
LEMMA Orders ==
    /\ Len(<<"direct">>) = 1 /\ <<"direct">>[1] = "direct" /\ Head(<<"direct">>) = "direct" /\ Tail(<<"direct">>) = <<>> /\ <<"direct">> # <<>>
    /\ Len(<<"nvr">>) = 1 /\ <<"nvr">>[1] = "nvr" /\ Head(<<"nvr">>) = "nvr" /\ Tail(<<"nvr">>) = <<>> /\ <<"nvr">> # <<>>
    /\ Len(<<"direct-again">>) = 1 /\ <<"direct-again">>[1] = "direct-again" /\ Head(<<"direct-again">>) = "direct-again" /\ Tail(<<"direct-again">>) = <<>> /\ <<"direct-again">> # <<>>
    /\ Len(<<"direct", "nvr">>) = 2 /\ <<"direct", "nvr">>[1] = "direct" /\ Head(<<"direct", "nvr">>) = "direct" /\ Tail(<<"direct", "nvr">>) = <<"nvr">> /\ <<"direct", "nvr">> # <<>>
    /\ Len(<<"nvr", "direct">>) = 2 /\ <<"nvr", "direct">>[1] = "nvr" /\ Head(<<"nvr", "direct">>) = "nvr" /\ Tail(<<"nvr", "direct">>) = <<"direct">> /\ <<"nvr", "direct">> # <<>>
OBVIOUS

\* A Hikvision camera that passed its picture to the recorder, or whose recorder failed.
LEMMA OnwardAsks ==
    ASSUME NEW r \in PicReq, AsksItself([r EXCEPT !.recFailed = FALSE]) \/ AsksItself(r),
           \/ r.order[1] = "nvr" /\ r.recFailed
           \/ r.order[1] \in {"direct", "direct-again"} /\ r.again /\ r.via /\ ~r.recFailed
    PROVE  MoreWays(r) # <<>> /\ AsksItself([r EXCEPT !.order = MoreWays(r)])
<1>1. CASE r.order = <<"direct", "nvr">>
  <2>1. Tail(r.order) = <<"nvr">> /\ <<"nvr">> # <<>>
    BY <1>1, Orders
  <2>2. MoreWays(r) = <<"nvr">> \o <<>>
    BY <2>1 DEF MoreWays, If
  <2>3. MoreWays(r) = <<"nvr">>
    BY <2>2
  <2>4. r.again
    BY <1>1, Orders
  <2> QED BY <2>1, <2>3, <2>4 DEF AsksItself, PicReq
<1>2. CASE r.order = <<"nvr", "direct">>
  <2>1. Tail(r.order) = <<"direct">> /\ <<"direct">> # <<>> /\ r.order[1] = "nvr"
    BY <1>2, Orders
  <2>2. MoreWays(r) = <<"direct">> \o <<>>
    BY <2>1 DEF MoreWays, If
  <2>3. MoreWays(r) = <<"direct">>
    BY <2>2
  <2>4. r.recFailed
    BY <2>1
  <2> QED BY <2>1, <2>3, <2>4 DEF AsksItself, PicReq
<1>3. CASE r.order = <<"direct">>
  <2>1. r.order[1] = "direct" /\ Len(r.order) = 1
    BY <1>3, Orders
  <2>2. r.order # <<"direct", "nvr">> /\ r.order # <<"nvr", "direct">> /\ r.order # <<"nvr">> /\ r.order # <<"direct-again">>
    BY <2>1, Orders
  <2>3. r.again /\ r.via /\ ~r.recFailed
    BY <2>1
  <2> QED BY <2>2, <2>3 DEF AsksItself, PicReq
<1>4. CASE r.order = <<"nvr">>
  <2>1. /\ r.order[1] = "nvr" /\ Head(r.order) = "nvr" /\ Tail(r.order) = <<>> /\ Len(r.order) = 1
        /\ <<"direct-again">> # <<>>
    BY <1>4, Orders
  <2>2. r.order # <<"direct", "nvr">> /\ r.order # <<"nvr", "direct">> /\ r.order # <<"direct">> /\ r.order # <<"direct-again">>
    BY <2>1, Orders
  <2>3. r.again /\ r.recFailed
    BY <2>1, <2>2 DEF AsksItself, PicReq
  <2>4. MoreWays(r) = <<>> \o <<"direct-again">>
    BY <2>1, <2>3 DEF MoreWays, If
  <2>5. MoreWays(r) = <<"direct-again">>
    BY <2>4
  <2> QED BY <2>1, <2>3, <2>5 DEF AsksItself, PicReq
<1>5. CASE r.order = <<"direct-again">>
  <2>1. r.order[1] = "direct-again" /\ Len(r.order) = 1
    BY <1>5, Orders
  <2>2. r.order # <<"direct", "nvr">> /\ r.order # <<"nvr", "direct">> /\ r.order # <<"direct">> /\ r.order # <<"nvr">>
    BY <2>1, Orders
  <2>3. r.again /\ r.via /\ ~r.recFailed
    BY <2>1
  <2> QED BY <2>2, <2>3 DEF AsksItself, PicReq
<1>6. \/ r.order = <<"direct", "nvr">> \/ r.order = <<"nvr", "direct">> \/ r.order = <<"direct">>
      \/ r.order = <<"nvr">> \/ r.order = <<"direct-again">>
  BY DEF AsksItself, PicReq
<1> QED BY <1>1, <1>2, <1>3, <1>4, <1>5, <1>6

\* What one request does to the types.
LEMMA MoveTyped ==
    ASSUME PicTypes, NEW v \in Lenses, NEW q \in PicReq \cup {NoReq},
           q # NoReq => OfLogin(q, login) /\ (Seeks(q) => q.order # <<>>),
           req' = [req EXCEPT ![v] = q], cam' = cam, caps' \in CapWords, recorder' \in [Lenses -> {"unknown", "main", "bad"}],
           login' \in LoginWords, login'.no = login.no, login'.good = login.good, LoginRefused' => ~login.good
    PROVE  PicTypes'
<1>1. ASSUME NEW u \in Lenses, req'[u] # NoReq
      PROVE  OfLogin(req'[u], login') /\ (Seeks(req'[u]) => req'[u].order # <<>>)
  <2>1. OfLogin(req'[u], login) /\ (Seeks(req'[u]) => req'[u].order # <<>>)
    BY <1>1 DEF PicTypes
  <2> QED BY <2>1 DEF OfLogin
<1> QED BY <1>1 DEF PicTypes, LoginRefused

\* How many ask.
LEMMA AskingFinite == IsFiniteSet(Asking) /\ IsFiniteSet(Knocking) /\ Knocking \subseteq Asking
<1>1. Knocking \subseteq Asking /\ Asking \subseteq Lenses
  BY DEF Knocking, Asking
<1>2. IsFiniteSet(Lenses)
  BY CamPicsAssumption
<1> QED BY <1>1, <1>2, FS_Subset

LEMMA MoveOut ==
    ASSUME PicTypes, NEW v \in Lenses, NEW q \in PicReq \cup {NoReq}, q.pc # "asking",
           req' = [req EXCEPT ![v] = q], login'.no = login.no
    PROVE  Asking' = Asking \ {v} /\ Knocking' = Knocking \ {v}
BY DEF PicTypes, Asking, Knocking, Way

LEMMA Fewer ==
    /\ \A v \in Lenses : Cardinality(Asking \ {v}) <= Cardinality(Asking)
    /\ \A v \in Lenses : Cardinality(Knocking \ {v}) = Cardinality(Knocking) - (IF v \in Knocking THEN 1 ELSE 0)
    /\ Cardinality(Knocking) <= Cardinality(Asking) /\ Cardinality(Knocking) \in Nat /\ Cardinality(Asking) \in Nat
<1>1. Cardinality(Asking) \in Nat /\ Cardinality(Knocking) \in Nat
  BY AskingFinite, FS_CardinalityType
<1>2. Cardinality(Knocking) <= Cardinality(Asking)
  BY AskingFinite, FS_Subset
<1>3. ASSUME NEW v \in Lenses PROVE Cardinality(Asking \ {v}) <= Cardinality(Asking)
  <2>1. Cardinality(Asking \ {v}) = IF v \in Asking THEN Cardinality(Asking) - 1 ELSE Cardinality(Asking)
    BY AskingFinite, FS_RemoveElement
  <2> QED BY <1>1, <2>1
<1>4. ASSUME NEW v \in Lenses
      PROVE  Cardinality(Knocking \ {v}) = Cardinality(Knocking) - (IF v \in Knocking THEN 1 ELSE 0)
  <2>1. Cardinality(Knocking \ {v}) = IF v \in Knocking THEN Cardinality(Knocking) - 1 ELSE Cardinality(Knocking)
    BY AskingFinite, FS_RemoveElement
  <2> QED BY <1>1, <2>1
<1> QED BY <1>1, <1>2, <1>3, <1>4

LEMMA MoveTries ==
    ASSUME PicTypes, TriesFew, NEW v \in Lenses, NEW q \in PicReq \cup {NoReq}, q.pc # "asking",
           req' = [req EXCEPT ![v] = q], login' = login, wrong' = wrong
    PROVE  TriesFew'
<1>1. Asking' = Asking \ {v} /\ Knocking' = Knocking \ {v}
  BY MoveOut
<1>2. Cardinality(Asking \ {v}) <= Parallel
  <2>1. Cardinality(Asking \ {v}) \in Nat
    BY AskingFinite, FS_RemoveElement, FS_CardinalityType
  <2> QED BY <2>1, Fewer, CamPicsAssumption DEF TriesFew
<1>3. Cardinality(Knocking \ {v}) \in Int /\ Cardinality(Knocking \ {v}) <= Cardinality(Knocking)
  BY Fewer
<1> QED BY <1>1, <1>2, <1>3, Fewer, CamPicsAssumption DEF TriesFew, LoginRefused

\* What was found closed stays closed.
CapsGrow == /\ caps.url = "none" => caps'.url = "none"
            /\ caps.shot = "bad" => caps'.shot = "bad"
            /\ caps.stream = "none" => caps'.stream = "none"

LEMMA ShutGrows ==
    ASSUME CapsGrow, cam' = cam, NEW full
    PROVE  Shut(full) \subseteq Shut(full)'
BY DEF CapsGrow, Shut, OwnWays

LEMMA StaysUnhurt ==
    ASSUME NEW r \in PicReq, Unhurt(r), CapsGrow, cam' = cam, up' = up, login'.good = login.good
    PROVE  Unhurt(r)'
<1>1. Shut(r.full) \subseteq Shut(r.full)' /\ Shut(r.full)' \subseteq OwnWays
  <2>1. Shut(r.full)' \subseteq OwnWays
    BY DEF Shut
  <2> QED BY <2>1, ShutGrows
<1>2. Seeks(r) /\ ~cam.hik => TriesRest(r.order, r.again, Shut(r.full)')
  BY <1>1 DEF Unhurt, HopeLeft, TriesRest
<1>3. r.pc = "failed" => Shut(r.full)' = OwnWays
  BY <1>1 DEF Unhurt, HopeLeft
<1>4. HopeLeft(r)'
  BY <1>2, <1>3 DEF Unhurt, HopeLeft, AsksItself, Seeks
<1> QED BY <1>4 DEF Unhurt

LEMMA MoveUnhurt ==
    ASSUME PicTypes, WaysSound, NEW v \in Lenses, NEW q \in PicReq \cup {NoReq}, req' = [req EXCEPT ![v] = q],
           q # NoReq /\ ~q.hurt => Unhurt(q)',
           CapsGrow, cam' = cam, up' = up, login'.good = login.good
    PROVE  WaysSound'
<1>1. ASSUME NEW u \in Lenses, req'[u] # NoReq, ~req'[u].hurt PROVE Unhurt(req[u])'
  <2>1. PICK r \in PicReq : r = req'[u]
    BY <1>1 DEF PicTypes
  <2>2. Unhurt(r)'
    <3>1. CASE u = v
      BY <1>1, <2>1, <3>1 DEF PicTypes
    <3>2. CASE u # v
      <4>1. r = req[u] /\ Unhurt(req[u])
        BY <1>1, <2>1, <3>2 DEF PicTypes, WaysSound
      <4>2. Unhurt(r)
        BY <4>1
      <4> QED BY <4>2, StaysUnhurt
    <3> QED BY <3>1, <3>2
  <2> QED BY <2>1, <2>2
<1> QED BY <1>1 DEF WaysSound

\* A request whose way leads nowhere.
LEMMA NextWayUnhurt ==
    ASSUME NEW r \in PicReq, r.order # <<>>, Seeks(r), Unhurt(r),
           CapsGrow, cam' = cam, cam.hik \in BOOLEAN, up' = up, login'.good = login.good,
           IF cam.hik THEN r.order[1] = "nvr" ELSE r.order[1] \in Shut(r.full)',
           NEW q \in PicReq, q = [r EXCEPT !.recFailed = @ \/ r.order[1] = "nvr"]
    PROVE  Unhurt(Onward(q))'
<1>1. /\ q.order = r.order /\ q.again = r.again /\ q.via = r.via /\ q.full = r.full /\ q.login = r.login /\ q.hurt = r.hurt
      /\ q.recFailed = (r.recFailed \/ r.order[1] = "nvr")
  BY DEF PicReq
<1>2. PICK n \in PicReq : n = Onward(q)
  BY <1>1, OnwardTyped
<1>3. /\ n.pc \in {"try", "failed"} /\ n.order = MoreWays(q) /\ (n.pc = "failed" <=> MoreWays(q) = <<>>)
      /\ n.login = r.login /\ n.full = r.full /\ n.again = r.again /\ n.recFailed = q.recFailed /\ n.via = r.via
  BY <1>1, <1>2, OnwardTyped
<1>4. CASE cam.hik
  <2>1. AsksItself(r) /\ q.order[1] = "nvr" /\ q.recFailed
    BY <1>1, <1>4 DEF Unhurt, HopeLeft
  <2>2. AsksItself([q EXCEPT !.recFailed = FALSE]) \/ AsksItself(q)
    BY <1>1, <2>1 DEF AsksItself, PicReq
  <2>3. MoreWays(q) # <<>> /\ AsksItself([q EXCEPT !.order = MoreWays(q)])
    BY <2>1, <2>2, OnwardAsks
  <2>4. AsksItself(n)
    BY <1>1, <1>3, <2>3 DEF AsksItself, PicReq
  <2>5. HopeLeft(n)'
    BY <1>3, <1>4, <2>3, <2>4 DEF HopeLeft, AsksItself
  <2> QED BY <1>2, <1>3, <2>5 DEF Unhurt
<1>5. CASE ~cam.hik
  <2>1. TriesRest(r.order, r.again, Shut(r.full)) /\ Shut(r.full) \subseteq Shut(r.full)' /\ Shut(r.full)' \subseteq OwnWays
    <3>1. Shut(r.full)' \subseteq OwnWays
      BY DEF Shut
    <3> QED BY <1>5, <3>1, ShutGrows DEF Unhurt, HopeLeft
  <2> DEFINE shut == Shut(r.full)'
  <2>2. TriesRest(q.order, q.again, shut)
    BY <1>1, <2>1 DEF TriesRest
  <2>3. Head(q.order) \in shut
    <3>1. Head(q.order) = q.order[1]
      BY <1>1, TailOf DEF PicReq
    <3> QED BY <1>1, <1>5, <3>1
  <2>4. /\ MoreWays(q) # <<>> => TriesRest(MoreWays(q), q.again, shut)
        /\ MoreWays(q) = <<>> => shut = OwnWays
    <3> HIDE DEF shut
    <3>1. shut \in SUBSET OwnWays /\ q.order # <<>>
      BY <1>1, <2>1 DEF shut
    <3> QED BY <2>2, <2>3, <3>1, OnwardTries
  <2>5. HopeLeft(n)'
    BY <1>1, <1>3, <1>5, <2>4 DEF HopeLeft, Seeks
  <2> QED BY <1>2, <1>3, <2>5 DEF Unhurt
<1> QED BY <1>4, <1>5

LEMMA FailsMoves ==
    ASSUME PicTypes, WaysSound, NEW v \in Lenses, Seeks(req[v]), Fails(v),
           CapsGrow, cam' = cam, up' = up, login'.good = login.good,
           ~req[v].hurt => IF cam.hik THEN Way(v) = "nvr"
                           ELSE \A full \in BOOLEAN : full = req[v].full => Way(v) \in Shut(full)'
    PROVE  \E q \in PicReq : /\ q.pc # "asking" /\ req' = [req EXCEPT ![v] = q] /\ OfLogin(q, login)
                              /\ (Seeks(q) => q.order # <<>>) /\ (~q.hurt => Unhurt(q)')
<1>1. PICK r \in PicReq : r = req[v]
  BY DEF PicTypes, Seeks, NoReq
<1>2. PICK q \in PicReq : q = [r EXCEPT !.recFailed = @ \/ r.order[1] = "nvr"]
  BY DEF PicReq
<1>3. /\ r.order # <<>> /\ OfLogin(r, login) /\ (~r.hurt => Unhurt(r)) /\ cam.hik \in BOOLEAN /\ req[v] # NoReq
  BY <1>1, CamPicsAssumption DEF PicTypes, Seeks, NoReq, WaysSound
<1>4. q.order = r.order /\ q.hurt = r.hurt /\ q.login = r.login
  BY <1>2 DEF PicReq
<1>5. PICK n \in PicReq : n = Onward(q)
  BY <1>3, <1>4, OnwardTyped
<1>6. n.pc \in {"try", "failed"} /\ (n.pc = "failed" <=> n.order = <<>>) /\ n.login = r.login /\ n.hurt = r.hurt
  BY <1>3, <1>4, <1>5, OnwardTyped
<1>7. req' = [req EXCEPT ![v] = n]
  <2>1. Marked(v) = q
    BY <1>1, <1>2 DEF Marked, Way
  <2> QED BY <1>5, <2>1 DEF Fails
<1>8. ASSUME ~r.hurt PROVE Unhurt(n)'
  <2>1. Unhurt(r) /\ Seeks(r)
    BY <1>1, <1>3, <1>8
  <2>2. IF cam.hik THEN r.order[1] = "nvr" ELSE r.order[1] \in Shut(r.full)'
    BY <1>1, <1>8 DEF Way, PicReq
  <2>3. Unhurt(Onward(q))'
    BY <1>2, <1>3, <2>1, <2>2, NextWayUnhurt
  <2> QED BY <1>5, <2>3
<1> QED BY <1>3, <1>6, <1>7, <1>8 DEF OfLogin, Seeks

\* What an answer does to the rest.
Settles == /\ cam' = cam /\ up' = up /\ caps' \in CapWords /\ CapsGrow
           /\ recorder' \in [Lenses -> {"unknown", "main", "bad"}]
           /\ login' \in LoginWords /\ login'.no = login.no /\ login'.good = login.good /\ (LoginRefused' => ~login.good)

LEMMA MoveKeeps ==
    ASSUME PicTypes, TriesFew, WaysSound, Settles, NEW v \in Lenses, NEW q \in PicReq \cup {NoReq}, q.pc # "asking",
           req' = [req EXCEPT ![v] = q],
           q # NoReq => OfLogin(q, login) /\ (Seeks(q) => q.order # <<>>) /\ (~q.hurt => Unhurt(q)')
    PROVE  /\ PicTypes' /\ WaysSound' /\ Asking' = Asking \ {v} /\ Knocking' = Knocking \ {v}
           /\ (login' = login /\ wrong' = wrong => TriesFew')
<1>1. PicTypes'
  BY MoveTyped DEF Settles
<1>2. WaysSound'
  BY MoveUnhurt DEF Settles
<1>3. Asking' = Asking \ {v} /\ Knocking' = Knocking \ {v}
  BY MoveOut DEF Settles
<1>4. login' = login /\ wrong' = wrong => TriesFew'
  BY MoveTries
<1> QED BY <1>1, <1>2, <1>3, <1>4

LEMMA FailsKeeps ==
    ASSUME PicTypes, TriesFew, WaysSound, Settles, NEW v \in Lenses, Seeks(req[v]), Fails(v),
           ~req[v].hurt => IF cam.hik THEN Way(v) = "nvr"
                           ELSE \A full \in BOOLEAN : full = req[v].full => Way(v) \in Shut(full)'
    PROVE  /\ PicTypes' /\ WaysSound' /\ Asking' = Asking \ {v} /\ Knocking' = Knocking \ {v}
           /\ (login' = login /\ wrong' = wrong => TriesFew')
<1>1. PICK q \in PicReq : /\ q.pc # "asking" /\ req' = [req EXCEPT ![v] = q] /\ OfLogin(q, login)
                          /\ (Seeks(q) => q.order # <<>>) /\ (~q.hurt => Unhurt(q)')
  BY FailsMoves DEF Settles
<1> QED BY <1>1, MoveKeeps

LEMMA GotKeeps ==
    ASSUME PicTypes, TriesFew, WaysSound, Settles, NEW v \in Lenses, Seeks(req[v]), Got(v)
    PROVE  /\ PicTypes' /\ WaysSound' /\ Asking' = Asking \ {v} /\ Knocking' = Knocking \ {v}
           /\ (login' = login /\ wrong' = wrong => TriesFew')
<1>1. PICK r \in PicReq : r = req[v]
  BY DEF PicTypes, Seeks, NoReq
<1>2. PICK q \in PicReq : q = [r EXCEPT !.pc = "put"]
  BY DEF PicReq
<1>3. OfLogin(r, login) /\ (~r.hurt => Unhurt(r))
  BY <1>1 DEF PicTypes, Seeks, NoReq, WaysSound
<1>4. q.pc = "put" /\ q.login = r.login /\ q.hurt = r.hurt
  BY <1>2 DEF PicReq
<1>5. ~q.hurt => Unhurt(q)'
  BY <1>3, <1>4 DEF Unhurt, HopeLeft, Seeks, Settles
<1>6. req' = [req EXCEPT ![v] = q]
  BY <1>1, <1>2 DEF Got
<1>7. OfLogin(q, login) /\ ~Seeks(q) /\ q.pc # "asking"
  BY <1>3, <1>4 DEF OfLogin, Seeks
<1> QED BY <1>5, <1>6, <1>7, MoveKeeps

\* A request that asks has a record.
LEMMA ReqIs ==
    ASSUME PicTypes, WaysSound, NEW v \in Lenses, Seeks(req[v])
    PROVE  /\ req[v] \in PicReq /\ req[v].order # <<>> /\ OfLogin(req[v], login) /\ (~req[v].hurt => Unhurt(req[v]))
           /\ Way(v) \in Ways /\ cam.hik \in BOOLEAN
<1>1. /\ req[v] \in PicReq /\ req[v].order # <<>> /\ OfLogin(req[v], login) /\ (~req[v].hurt => Unhurt(req[v]))
      /\ cam.hik \in BOOLEAN
  BY CamPicsAssumption DEF PicTypes, Seeks, NoReq, WaysSound
<1>2. req[v].order[1] \in Ways
  BY <1>1, TailOf DEF PicReq
<1> QED BY <1>1, <1>2 DEF Way

\* Which way an unhurt request can be on.
LEMMA WayIs ==
    ASSUME PicTypes, WaysSound, NEW v \in Lenses, Seeks(req[v]), ~req[v].hurt
    PROVE  IF cam.hik THEN Way(v) \in {"direct", "nvr", "direct-again"} ELSE Way(v) \in OwnWays
<1>1. req[v] \in PicReq /\ req[v].order # <<>> /\ Unhurt(req[v]) /\ cam.hik \in BOOLEAN
  BY ReqIs
<1>2. CASE cam.hik
  <2>1. AsksItself(req[v])
    BY <1>1, <1>2 DEF Unhurt, HopeLeft
  <2> QED BY <1>2, <2>1, Orders DEF AsksItself, Way
<1>3. CASE ~cam.hik
  <2>1. req[v].order \in Seq(OwnWays)
    BY <1>1, <1>3 DEF Unhurt, HopeLeft, TriesRest
  <2>2. req[v].order[1] \in OwnWays
    BY <1>1, <2>1, TailOf
  <2> QED BY <1>3, <2>2 DEF Way
<1> QED BY <1>1, <1>2, <1>3

LEMMA NoneThereIs ==
    ASSUME caps \in CapWords, NEW v \in Lenses, caps' = NoneThere(v)
    PROVE  caps' \in CapWords /\ CapsGrow /\ caps'.shot = caps.shot
BY DEF NoneThere, CapWords, CapsGrow

LEMMA NotSentKeeps ==
    ASSUME PicInv, NEW v \in Lenses, NotSent(v)
    PROVE  PicInv'
<1>1. caps' \in CapWords /\ CapsGrow /\ caps'.shot = caps.shot
  BY NoneThereIs DEF PicInv, PicTypes, NotSent
<1>2. Settles
  BY <1>1 DEF PicInv, PicTypes, NotSent, PUnchanged, Settles, LoginRefused
<1>3. Seeks(req[v]) /\ Fails(v) /\ login' = login /\ wrong' = wrong
  BY DEF NotSent, Seeks
<1>4. req[v].hurt
  <2>1. LoginRefused /\ ~login.good
    BY DEF NotSent, Sent, PicInv, PicTypes
  <2> QED BY <1>3, <2>1, ReqIs DEF PicInv, Unhurt
<1>5. PicTypes' /\ WaysSound' /\ TriesFew'
  BY <1>2, <1>3, <1>4, FailsKeeps DEF PicInv
<1>6. CapsTrue'
  BY <1>1 DEF PicInv, CapsTrue, NotSent, PUnchanged
<1> QED BY <1>5, <1>6 DEF PicInv

LEMMA SilentKeeps ==
    ASSUME PicInv, NEW v \in Lenses, Silent(v)
    PROVE  PicInv'
<1>1. caps' \in CapWords /\ CapsGrow /\ caps'.shot = caps.shot
  BY NoneThereIs DEF PicInv, PicTypes, Silent
<1>2. Settles
  BY <1>1 DEF PicInv, PicTypes, Silent, PUnchanged, Settles, LoginRefused
<1>3. Seeks(req[v]) /\ Fails(v) /\ login' = login /\ wrong' = wrong
  BY DEF Silent, Seeks
<1>4. req[v].hurt
  <2>1. up # {"camera", "recorder"}
    BY DEF Silent
  <2> QED BY <1>3, <2>1, ReqIs DEF PicInv, Unhurt
<1>5. PicTypes' /\ WaysSound' /\ TriesFew'
  BY <1>2, <1>3, <1>4, FailsKeeps DEF PicInv
<1>6. CapsTrue'
  BY <1>1 DEF PicInv, CapsTrue, Silent, PUnchanged
<1> QED BY <1>5, <1>6 DEF PicInv

\* The answer to a login.
LEMMA NotedIsLogin ==
    ASSUME PicTypes, NEW v \in Lenses, NEW word \in {"ok", "refused"}, login' = Noted(v, word)
    PROVE  /\ login' \in LoginWords /\ login'.no = login.no /\ login'.good = login.good
           /\ login'.seen = IF req[v].login.no = login.no THEN word ELSE "nothing"
BY DEF Noted, PicTypes, LoginWords

LEMMA DeniedKeeps ==
    ASSUME PicInv, NEW v \in Lenses, Denied(v)
    PROVE  PicInv'
<1>1. caps' \in CapWords /\ CapsGrow /\ caps'.shot = caps.shot
  BY NoneThereIs DEF PicInv, PicTypes, Denied
<1>2. Seeks(req[v]) /\ Fails(v) /\ v \in Asking /\ Way(v) # "nvr" /\ ~req[v].login.good
  BY DEF Denied, Seeks, CamAnswers, Asking
<1>3. /\ login' \in LoginWords /\ login'.no = login.no /\ login'.good = login.good
      /\ login'.seen = IF req[v].login.no = login.no THEN "refused" ELSE "nothing"
  BY NotedIsLogin DEF PicInv, Denied
<1>4. req[v].hurt /\ OfLogin(req[v], login)
  BY <1>2, ReqIs DEF PicInv, Unhurt
<1>5. Settles
  BY <1>1, <1>2, <1>3, <1>4 DEF PicInv, PicTypes, Denied, PUnchanged, Settles, LoginRefused, OfLogin
<1>6. PicTypes' /\ WaysSound' /\ Asking' = Asking \ {v} /\ Knocking' = Knocking \ {v}
  BY <1>2, <1>4, <1>5, FailsKeeps DEF PicInv
<1>7. Cardinality(Asking \ {v}) <= Parallel
  <2>1. Cardinality(Asking \ {v}) \in Nat
    BY AskingFinite, FS_RemoveElement, FS_CardinalityType
  <2> QED BY <2>1, Fewer, CamPicsAssumption DEF PicInv, TriesFew
<1>8. CASE req[v].login.no = login.no
  <2>1. v \in Knocking /\ wrong' = wrong + 1 /\ LoginRefused'
    BY <1>2, <1>3, <1>8 DEF Knocking, Denied, LoginRefused
  <2>2. Cardinality(Knocking \ {v}) = Cardinality(Knocking) - 1
    BY <2>1, Fewer
  <2>3. wrong + Cardinality(Knocking) <= Parallel /\ wrong \in Nat
    BY Fewer, CamPicsAssumption DEF PicInv, TriesFew
  <2>4. TriesFew'
    BY <1>6, <1>7, <2>1, <2>2, <2>3, Fewer, CamPicsAssumption DEF TriesFew
  <2>5. CapsTrue'
    BY <1>1 DEF PicInv, CapsTrue, Denied, PUnchanged
  <2> QED BY <1>6, <2>4, <2>5 DEF PicInv
<1>9. CASE req[v].login.no # login.no
  <2>1. wrong' = 0 /\ ~LoginRefused'
    BY <1>3, <1>9 DEF Denied, LoginRefused
  <2>2. TriesFew'
    BY <1>6, <1>7, <2>1 DEF TriesFew
  <2>3. CapsTrue'
    BY <1>1 DEF PicInv, CapsTrue, Denied, PUnchanged
  <2> QED BY <1>6, <2>2, <2>3 DEF PicInv
<1> QED BY <1>8, <1>9

\* A camera that lets a request in did not refuse the login saved now.
LEMMA LetInSettles ==
    ASSUME PicInv, NEW v \in Lenses, LetIn(v)
    PROVE  /\ Seeks(req[v]) /\ Way(v) # "nvr"
           /\ login' \in LoginWords /\ login'.no = login.no /\ login'.good = login.good /\ ~LoginRefused' /\ wrong' = 0
<1>1. Seeks(req[v]) /\ req[v].login.good /\ Way(v) # "nvr"
  BY DEF LetIn, Seeks, CamAnswers
<1>2. /\ login' \in LoginWords /\ login'.no = login.no /\ login'.good = login.good
      /\ login'.seen = IF req[v].login.no = login.no THEN "ok" ELSE "nothing"
  BY NotedIsLogin DEF PicInv, LetIn
<1>3. wrong' = 0
  <2>1. CASE req[v].login.no = login.no
    <3>1. ~LoginRefused
      BY <1>1, <2>1, ReqIs DEF PicInv, PicTypes, OfLogin
    <3> QED BY <2>1, <3>1 DEF PicInv, TriesFew, LetIn
  <2>2. CASE req[v].login.no # login.no
    BY <2>2 DEF LetIn
  <2> QED BY <2>1, <2>2
<1> QED BY <1>1, <1>2, <1>3 DEF LoginRefused

LEMMA LetInTries ==
    ASSUME PicInv, NEW v \in Lenses, LetIn(v), Asking' = Asking \ {v}
    PROVE  TriesFew'
<1>1. Cardinality(Asking \ {v}) <= Parallel
  <2>1. Cardinality(Asking \ {v}) \in Nat
    BY AskingFinite, FS_RemoveElement, FS_CardinalityType
  <2> QED BY <2>1, Fewer, CamPicsAssumption DEF PicInv, TriesFew
<1> QED BY <1>1, LetInSettles DEF TriesFew

LEMMA DirectKeeps ==
    ASSUME PicInv, NEW v \in Lenses, Direct(v)
    PROVE  PicInv'
<1>1. LetIn(v) /\ Way(v) \in {"direct", "direct-again"}
  BY DEF Direct
<1>2. caps' \in CapWords /\ CapsGrow /\ caps'.shot = caps.shot
  BY DEF Direct, PicInv, PicTypes, CapWords, CapsGrow, Small
<1>3. Settles /\ Seeks(req[v])
  BY <1>1, <1>2, LetInSettles DEF PicInv, PicTypes, Direct, PUnchanged, Settles
<1>4. PicTypes' /\ WaysSound' /\ Asking' = Asking \ {v}
  <2>1. CASE Got(v)
    BY <1>3, <2>1, GotKeeps DEF PicInv
  <2>2. CASE PassesOn(req[v]) /\ req' = [req EXCEPT ![v] = Onward([@ EXCEPT !.again = TRUE])]
    <3>1. PICK r \in PicReq : r = req[v]
      BY <1>3, ReqIs DEF PicInv
    <3>2. PICK q \in PicReq : q = [r EXCEPT !.again = TRUE]
      BY DEF PicReq
    <3>3. r.order # <<>> /\ OfLogin(r, login) /\ (~r.hurt => Unhurt(r)) /\ cam.hik \in BOOLEAN /\ r.via /\ ~r.recFailed
      BY <1>3, <2>2, <3>1, ReqIs DEF PicInv, PassesOn
    <3>4. /\ q.order = r.order /\ q.hurt = r.hurt /\ q.login = r.login /\ q.again /\ q.via /\ ~q.recFailed
      BY <3>2, <3>3 DEF PicReq
    <3>5. PICK n \in PicReq : n = Onward(q)
      BY <3>3, <3>4, OnwardTyped
    <3>6. /\ n.pc \in {"try", "failed"} /\ (n.pc = "failed" <=> n.order = <<>>) /\ n.login = r.login /\ n.hurt = r.hurt
          /\ n.order = MoreWays(q) /\ n.again = q.again /\ n.recFailed = q.recFailed /\ n.via = q.via
      BY <3>3, <3>4, <3>5, OnwardTyped, ZenonT(60)
    <3>7. req' = [req EXCEPT ![v] = n]
      BY <2>2, <3>1, <3>2, <3>5
    <3>8. ASSUME ~r.hurt PROVE Unhurt(n)'
      <4>1. cam.hik
        BY <1>1, <1>3, <3>1, <3>8, WayIs DEF PicInv, OwnWays
      <4>2. AsksItself(r) /\ q.order[1] \in {"direct", "direct-again"}
        BY <1>1, <1>3, <3>1, <3>3, <3>4, <3>8, <4>1 DEF Unhurt, HopeLeft, Seeks, Way
      <4>3. AsksItself([q EXCEPT !.recFailed = FALSE]) \/ AsksItself(q)
        BY <3>2, <4>2 DEF AsksItself, PicReq
      <4>4. MoreWays(q) # <<>> /\ AsksItself([q EXCEPT !.order = MoreWays(q)])
        BY <3>4, <4>2, <4>3, OnwardAsks
      <4>5. AsksItself(n) /\ n.pc # "failed"
        BY <3>4, <3>6, <4>4 DEF AsksItself, PicReq
      <4> QED BY <1>3, <3>3, <3>6, <3>8, <4>1, <4>5 DEF Unhurt, HopeLeft, AsksItself, Settles
    <3>9. OfLogin(n, login) /\ (Seeks(n) => n.order # <<>>) /\ n.pc # "asking"
      BY <3>3, <3>6 DEF OfLogin, Seeks
    <3> QED BY <1>3, <3>6, <3>7, <3>8, <3>9, MoveKeeps DEF PicInv
  <2> QED BY <2>1, <2>2 DEF Direct
<1>5. CapsTrue'
  BY <1>2 DEF PicInv, CapsTrue, Direct, PUnchanged
<1> QED BY <1>1, <1>4, <1>5, LetInTries DEF PicInv

LEMMA GenericKeeps ==
    ASSUME PicInv, NEW v \in Lenses, Generic(v)
    PROVE  PicInv'
<1>1. LetIn(v) /\ Way(v) = "own-generic"
  BY DEF Generic
<1> DEFINE looked == [caps EXCEPT !.url = IF @ = "unknown" THEN (IF cam.url THEN "known" ELSE "none") ELSE @]
<1>2. /\ looked \in CapWords /\ looked.stream = caps.stream /\ looked.shot = caps.shot
      /\ (caps.url = "none" => looked.url = "none") /\ (cam.url => looked.url \in {"known", caps.url})
      /\ (caps.url = "unknown" /\ cam.url => looked.url = "known") /\ looked.url \in {"known", "none"}
  BY DEF PicInv, PicTypes, CapWords
<1>3. \/ Got(v) /\ caps' = looked
      \/ /\ Fails(v) /\ ~(looked.url = "known" /\ cam.shot)
         /\ caps' = [looked EXCEPT !.shot = IF looked.url = "known" THEN "bad" ELSE @]
  BY DEF Generic
<1> HIDE DEF looked
<1>4. caps' \in CapWords /\ caps'.url = looked.url /\ caps'.stream = caps.stream
  BY <1>2, <1>3 DEF CapWords
<1>5. CapsGrow
  BY <1>2, <1>3, <1>4 DEF CapsGrow, CapWords
<1>6. Settles /\ Seeks(req[v])
  BY <1>1, <1>4, <1>5, LetInSettles DEF PicInv, PicTypes, Generic, PUnchanged, Settles
<1>7. PicTypes' /\ WaysSound' /\ Asking' = Asking \ {v}
  <2>1. CASE Got(v)
    BY <1>6, <2>1, GotKeeps DEF PicInv
  <2>2. CASE Fails(v) /\ ~(looked.url = "known" /\ cam.shot)
    <3>1. \A full : "own-generic" \in Shut(full)'
      BY <1>2, <1>4, <1>6, <2>2 DEF Shut, OwnWays, Settles
    <3>2. ~req[v].hurt => ~cam.hik
      BY <1>1, <1>6, WayIs DEF PicInv
    <3> QED BY <1>1, <1>6, <2>2, <3>1, <3>2, FailsKeeps DEF PicInv
  <2> QED BY <1>3, <2>1, <2>2
<1>9. CapsTrue'
  BY DEF PicInv, CapsTrue, Generic, PUnchanged
<1> QED BY <1>1, <1>7, <1>9, LetInTries DEF PicInv

LEMMA RtspKeeps ==
    ASSUME PicInv, NEW v \in Lenses, Rtsp(v)
    PROVE  PicInv'
<1>1. LetIn(v) /\ Way(v) = "own-rtsp"
  BY DEF Rtsp
<1>2. /\ caps' \in CapWords /\ CapsGrow /\ caps'.shot = caps.shot
      /\ caps'.stream # "known" => (cam.stream => caps'.stream = "none")
  BY DEF Rtsp, PicInv, PicTypes, CapWords, CapsGrow
<1>3. Settles /\ Seeks(req[v])
  BY <1>1, <1>2, LetInSettles DEF PicInv, PicTypes, Rtsp, PUnchanged, Settles
<1>4. PicTypes' /\ WaysSound' /\ Asking' = Asking \ {v}
  <2>1. CASE Got(v)
    BY <1>3, <2>1, GotKeeps DEF PicInv
  <2>2. CASE Fails(v) /\ caps'.stream # "known"
    <3>1. \A full : "own-rtsp" \in Shut(full)'
      BY <1>2, <1>3, <2>2 DEF Shut, OwnWays, Settles
    <3>2. ~req[v].hurt => ~cam.hik
      BY <1>1, <1>3, WayIs DEF PicInv
    <3> QED BY <1>1, <1>3, <2>2, <3>1, <3>2, FailsKeeps DEF PicInv
  <2> QED BY <2>1, <2>2 DEF Rtsp
<1>5. CapsTrue'
  BY <1>2 DEF PicInv, CapsTrue, Rtsp, PUnchanged
<1> QED BY <1>1, <1>4, <1>5, LetInTries DEF PicInv

LEMMA FromRecorderKeeps ==
    ASSUME PicInv, NEW v \in Lenses, FromRecorder(v)
    PROVE  PicInv'
<1>1. /\ Seeks(req[v]) /\ Way(v) = "nvr" /\ caps' = caps /\ login' = login /\ wrong' = wrong
      /\ cam' = cam /\ up' = up
  BY DEF FromRecorder, Seeks, PUnchanged
<1> DEFINE large == req[v].full \/ recorder[v] = "main"
           sent  == IF large THEN cam.recMain ELSE cam.recSub \/ cam.recMain
<1>2. /\ IF sent THEN Got(v) ELSE Fails(v)
      /\ recorder' = [recorder EXCEPT ![v] = IF large \/ cam.recSub THEN @ ELSE IF cam.recMain THEN "main" ELSE "bad"]
  BY DEF FromRecorder
<1>3. recorder' \in [Lenses -> {"unknown", "main", "bad"}]
  BY <1>2 DEF PicInv, PicTypes
<1>4. CapsTrue'
  BY <1>1, <1>2 DEF PicInv, CapsTrue, PicTypes
<1>5. ~sent => ~cam.recMain /\ (req[v].full \/ ~cam.recSub)
  BY DEF PicInv, CapsTrue
<1> HIDE DEF large, sent
<1>6. Settles
  BY <1>1, <1>3 DEF PicInv, PicTypes, Settles, CapsGrow, LoginRefused
<1>7. PicTypes' /\ WaysSound' /\ TriesFew'
  <2>1. CASE sent
    BY <1>1, <1>2, <1>6, <2>1, GotKeeps DEF PicInv
  <2>2. CASE ~sent
    <3>1. \A full : full = req[v].full => "nvr" \in Shut(full)'
      BY <1>1, <1>5, <2>2 DEF Shut, OwnWays
    <3> QED BY <1>1, <1>2, <1>6, <2>2, <3>1, FailsKeeps DEF PicInv
  <2> QED BY <2>1, <2>2
<1> QED BY <1>4, <1>7 DEF PicInv

LEMMA SendOnKeeps ==
    ASSUME PicInv, NEW v \in Lenses, SendOn(v)
    PROVE  PicInv'
<1>1. Settles /\ Seeks(req[v]) /\ req[v].pc = "try" /\ login' = login /\ wrong' = wrong /\ caps' = caps /\ recorder' = recorder
  BY DEF PicInv, PicTypes, SendOn, PUnchanged, Settles, CapsGrow, Seeks, LoginRefused
<1>2. PICK r \in PicReq : r = req[v]
  BY <1>1, ReqIs DEF PicInv
<1>3. PICK q \in PicReq : q = [r EXCEPT !.pc = "asking", !.login = login]
  BY DEF PicInv, PicTypes, PicReq
<1>4. req' = [req EXCEPT ![v] = q]
  BY <1>2, <1>3 DEF SendOn
<1>5. /\ q.pc = "asking" /\ q.login = login /\ q.order = r.order /\ q.hurt = r.hurt /\ q.full = r.full
      /\ q.again = r.again /\ q.recFailed = r.recFailed /\ q.via = r.via
  BY <1>3 DEF PicReq
<1>6. r.order # <<>> /\ (~r.hurt => Unhurt(r)) /\ Seeks(r)
  BY <1>1, <1>2, ReqIs DEF PicInv
<1>7. ASSUME ~q.hurt PROVE Unhurt(q)'
  <2>1. Unhurt(r) /\ CapsGrow
    BY <1>1, <1>5, <1>6, <1>7 DEF Settles
  <2>2. Unhurt(q)
    BY <1>5, <1>6, <2>1 DEF Unhurt, HopeLeft, AsksItself, Seeks
  <2> QED BY <1>1, <2>2, StaysUnhurt DEF Settles
<1>8. OfLogin(q, login) /\ q.order # <<>>
  BY <1>5, <1>6 DEF OfLogin, PicInv, PicTypes, LoginWords
<1>9. PicTypes' /\ WaysSound'
  BY <1>1, <1>4, <1>7, <1>8, MoveTyped, MoveUnhurt DEF PicInv, Settles
<1>10. Asking' = Asking \cup {v} /\ v \notin Asking
  BY <1>1, <1>4, <1>5 DEF Asking, PicInv, PicTypes
<1>11. Cardinality(Asking') <= Parallel
  <2>1. Cardinality(Asking \cup {v}) = Cardinality(Asking) + 1
    BY <1>10, AskingFinite, FS_AddElement
  <2>2. Cardinality(Asking) < Parallel
    BY DEF SendOn
  <2> QED BY <1>10, <2>1, <2>2, Fewer, CamPicsAssumption
<1>12. LoginRefused => Knocking' = Knocking
  BY <1>1, <1>2, <1>4, <1>5 DEF SendOn, Sent, Knocking, Asking, Way, PicInv, PicTypes
<1>13. TriesFew'
  BY <1>1, <1>11, <1>12 DEF PicInv, TriesFew, LoginRefused
<1>14. CapsTrue'
  BY <1>1 DEF PicInv, CapsTrue, Settles
<1> QED BY <1>9, <1>13, <1>14 DEF PicInv

\* An answer that is no picture hurts the request.
LEMMA OddKeeps ==
    ASSUME PicInv, NEW v \in Lenses, Odd(v)
    PROVE  PicInv'
<1>1. req[v].pc = "asking" /\ Seeks(req[v])
  BY DEF Odd, Seeks
<1>2. caps' \in AnswersOdd(v) /\ Way(v) \in Ways
  BY <1>1, ReqIs DEF Odd, PicInv
<1>3. NoneThere(v) \in CapWords /\ caps \in CapWords /\ NoneThere(v).shot = caps.shot
      /\ (caps.url = "none" => NoneThere(v).url = "none") /\ (caps.stream = "none" => NoneThere(v).stream = "none")
  BY DEF PicInv, PicTypes, NoneThere, CapWords
<1>4. caps' \in CapWords /\ CapsGrow
  <2>1. CASE Way(v) = "own-generic"
    BY <1>2, <1>3, <2>1 DEF AnswersOdd, CapsGrow, CapWords
  <2>2. CASE Way(v) = "own-rtsp"
    BY <1>2, <1>3, <2>2 DEF AnswersOdd, CapsGrow, CapWords, LooksUp
  <2>3. CASE Way(v) = "nvr"
    BY <1>2, <1>3, <2>3 DEF AnswersOdd, CapsGrow, CapWords
  <2>4. CASE Way(v) \in {"direct", "direct-again"}
    <3>1. AnswersOdd(v) \subseteq {caps, [caps EXCEPT !.thumb = "none"]}
      BY <2>4 DEF AnswersOdd
    <3>2. [caps EXCEPT !.thumb = "none"] \in CapWords
      BY <1>3 DEF CapWords
    <3> QED BY <1>2, <1>3, <3>1, <3>2 DEF CapsGrow, CapWords
  <2> QED BY <1>2, <2>1, <2>2, <2>3, <2>4 DEF Ways, OwnWays
<1>5. /\ login' \in LoginWords /\ login'.no = login.no /\ login'.good = login.good
      /\ LoginRefused' => ~login.good
  <2>1. CASE LetIn(v)
    BY <2>1, LetInSettles
  <2>2. CASE login' = login
    BY <2>2 DEF PicInv, PicTypes, LoginRefused
  <2> QED BY <2>1, <2>2 DEF Odd
<1>6. recorder' \in [Lenses -> {"unknown", "main", "bad"}] /\ CapsTrue'
  BY DEF Odd, PicInv, PicTypes, CapsTrue
<1>7. Settles
  BY <1>4, <1>5, <1>6 DEF Odd, Settles
<1>8. /\ PicTypes' /\ WaysSound' /\ Asking' = Asking \ {v}
      /\ (login' = login /\ wrong' = wrong => TriesFew')
  <2>1. CASE Got(v)
    BY <1>1, <1>7, <2>1, GotKeeps DEF PicInv
  <2>2. CASE req' = [req EXCEPT ![v] = Onward([Marked(v) EXCEPT !.hurt = TRUE])]
    <3>1. PICK r \in PicReq : r = req[v]
      BY <1>1, ReqIs DEF PicInv
    <3>2. PICK m \in PicReq : m = [r EXCEPT !.recFailed = @ \/ r.order[1] = "nvr"]
      BY DEF PicReq
    <3>3. PICK q \in PicReq : q = [m EXCEPT !.hurt = TRUE]
      BY DEF PicReq
    <3>4. q.order = r.order /\ q.login = r.login /\ q.hurt /\ r.order # <<>> /\ OfLogin(r, login)
      BY <1>1, <3>1, <3>2, <3>3, ReqIs DEF PicReq, PicInv
    <3>5. PICK n \in PicReq : n = Onward(q)
      BY <3>4, OnwardTyped
    <3>6. n.pc \in {"try", "failed"} /\ (n.pc = "failed" <=> n.order = <<>>) /\ n.login = r.login /\ n.hurt
      BY <3>4, <3>5, OnwardTyped
    <3>7. req' = [req EXCEPT ![v] = n]
      <4>1. Marked(v) = m
        BY <3>1, <3>2 DEF Marked, Way
      <4> QED BY <2>2, <3>3, <3>5, <4>1
    <3>8. n.pc # "asking" /\ OfLogin(n, login) /\ (Seeks(n) => n.order # <<>>)
      BY <3>4, <3>6 DEF OfLogin, Seeks
    <3> QED BY <1>7, <3>6, <3>7, <3>8, MoveKeeps DEF PicInv
  <2> QED BY <2>1, <2>2 DEF Odd
<1>9. TriesFew'
  BY <1>8, LetInTries DEF Odd
<1> QED BY <1>6, <1>8, <1>9 DEF PicInv

\* The end of a request.
LEMMA EndsKeep ==
    ASSUME PicInv, NEW v \in Lenses, PutAway(v) \/ Save(v) \/ EndsBare(v)
    PROVE  PicInv'
<1>1. /\ Settles /\ login' = login /\ wrong' = wrong /\ caps' = caps /\ recorder' = recorder
      /\ req[v].pc \in {"put", "save", "failed"}
  BY DEF PicInv, PicTypes, PutAway, Save, EndsBare, PUnchanged, Settles, CapsGrow, LoginRefused
<1>2. /\ req[v] \in PicReq /\ OfLogin(req[v], login) /\ (~req[v].hurt => Unhurt(req[v]))
  BY <1>1 DEF PicInv, PicTypes, NoReq, WaysSound
<1>3. \E q \in PicReq \cup {NoReq} : q.pc # "asking" /\ req' = [req EXCEPT ![v] = q] /\ (q # NoReq => q = [req[v] EXCEPT !.pc = "save"])
  <2>1. CASE req' = [req EXCEPT ![v] = NoReq]
    BY <2>1 DEF NoReq
  <2>2. CASE req' = [req EXCEPT ![v] = [req[v] EXCEPT !.pc = "save"]]
    <3>1. PICK q \in PicReq : q = [req[v] EXCEPT !.pc = "save"]
      BY <1>2 DEF PicReq
    <3> QED BY <1>2, <2>2, <3>1 DEF PicReq
  <2> QED BY <2>1, <2>2 DEF PutAway, Save, EndsBare
<1>4. PICK q \in PicReq \cup {NoReq} :
         q.pc # "asking" /\ req' = [req EXCEPT ![v] = q] /\ (q # NoReq => q = [req[v] EXCEPT !.pc = "save"])
  BY <1>3
<1>5. q # NoReq => q.pc = "save" /\ q.login = req[v].login /\ q.hurt = req[v].hurt
  BY <1>2, <1>4 DEF PicReq
<1>6. q # NoReq => OfLogin(q, login) /\ (Seeks(q) => q.order # <<>>) /\ (~q.hurt => Unhurt(q)')
  BY <1>1, <1>2, <1>5 DEF OfLogin, Seeks, Unhurt, HopeLeft, Settles
<1>7. PicTypes' /\ WaysSound' /\ TriesFew'
  BY <1>1, <1>4, <1>6, MoveKeeps DEF PicInv
<1>8. CapsTrue'
  BY <1>1 DEF PicInv, CapsTrue, Settles
<1> QED BY <1>7, <1>8 DEF PicInv

\* Sequences of one way and another.
Has(s, w) == \E i \in DOMAIN s : s[i] = w

LEMMA Joined ==
    ASSUME NEW S, NEW a \in S, NEW b \in S
    PROVE  <<a>> \o <<b>> = <<a, b>> /\ <<a, b>> \in Seq(S) /\ <<a>> \in Seq(S) /\ <<a>> \o <<>> = <<a>>
<1> DEFINE x == <<a>> \o <<b>>
<1>1. x \in Seq(S) /\ Len(x) = 2 /\ x[1] = a /\ x[2] = b
  OBVIOUS
<1> HIDE DEF x
<1>2. x = <<a, b>>
  BY <1>1
<1>3. <<a, b>> \in Seq(S) /\ <<a>> \in Seq(S) /\ <<a>> \o <<>> = <<a>>
  OBVIOUS
<1> QED BY <1>2, <1>3 DEF x

LEMMA MayAdd ==
    ASSUME NEW S, NEW s \in Seq(S), NEW w \in S, NEW p \in BOOLEAN
    PROVE  /\ s \o If(w, p) \in Seq(S) /\ (p => Has(s \o If(w, p), w)) /\ (s # <<>> => s \o If(w, p) # <<>>)
           /\ \A x \in S : Has(s, x) => Has(s \o If(w, p), x)
<1>1. CASE p
  <2>1. s \o If(w, p) = s \o <<w>>
    BY <1>1 DEF If
  <2> DEFINE t == s \o <<w>>
  <2>2. t \in Seq(S) /\ Len(t) = Len(s) + 1 /\ t[Len(s) + 1] = w /\ \A i \in 1..Len(s) : t[i] = s[i]
    OBVIOUS
  <2> HIDE DEF t
  <2>3. DOMAIN t = 1..Len(s) + 1 /\ DOMAIN s = 1..Len(s) /\ Len(s) \in Nat
    BY <2>2
  <2>4. t # <<>>
    BY <2>2
  <2> QED BY <2>1, <2>2, <2>3, <2>4 DEF Has, t
<1>2. CASE ~p
  <2>1. s \o If(w, p) = s \o <<>>
    BY <1>2 DEF If
  <2>2. s \o <<>> = s
    OBVIOUS
  <2> QED BY <1>2, <2>1, <2>2
<1> QED BY <1>1, <1>2

LEMMA OneWay == \A w : Has(<<w>>, w)
BY DEF Has

\* The ways a request starts with.
LEMMA OrderSound ==
    ASSUME PicTypes, CapsTrue, NEW v \in Lenses, NEW full \in BOOLEAN, Route # "none"
    PROVE  /\ Order(v, full) \in Seq(Ways) /\ Order(v, full) # <<>>
           /\ login.good /\ cam.hik =>
                 \/ Order(v, full) \in {<<"direct", "nvr">>, <<"nvr", "direct">>}
                 \/ Order(v, full) = <<"direct">> /\ ~cam.rec
           /\ login.good /\ ~cam.hik => TriesRest(Order(v, full), FALSE, Shut(full))
<1>1. /\ cam.hik \in BOOLEAN /\ cam.rec \in BOOLEAN /\ cam.url \in BOOLEAN /\ cam.shot \in BOOLEAN /\ cam.stream \in BOOLEAN
      /\ (LoginRefused => ~login.good)
  BY CamPicsAssumption DEF PicTypes
<1>2. "direct" \in Ways /\ "nvr" \in Ways /\ OwnWays \subseteq Ways /\ "nvr" \in OwnWays /\ "own-generic" \in OwnWays /\ "own-rtsp" \in OwnWays
  BY DEF Ways, OwnWays
<1>3. /\ "own-generic" \in Shut(full) <=> (cam.url /\ cam.shot => caps.url = "none" \/ caps.shot = "bad")
      /\ "own-rtsp" \in Shut(full) <=> (cam.stream => caps.stream = "none")
      /\ ~cam.rec => "nvr" \in Shut(full)
  BY <1>2 DEF Shut
<1>4. CASE cam.hik
  <2> DEFINE order == Order(v, full)
  <2>1. \/ order = <<"direct", "nvr">> \/ order = <<"nvr">> \o If("direct", OwnOk)
        \/ order = <<"direct">> \o If("nvr", ViaOk)
    BY <1>4 DEF Order, Route, ShotOk, RtspOk
  <2>2. /\ <<"direct">> \o <<"nvr">> = <<"direct", "nvr">> /\ <<"nvr">> \o <<"direct">> = <<"nvr", "direct">>
        /\ <<"direct">> \o <<>> = <<"direct">> /\ <<"nvr">> \o <<>> = <<"nvr">>
        /\ <<"direct", "nvr">> \in Seq(Ways) /\ <<"nvr", "direct">> \in Seq(Ways) /\ <<"direct">> \in Seq(Ways) /\ <<"nvr">> \in Seq(Ways)
    BY <1>2, Joined
  <2>3. /\ login.good => OwnOk
        /\ If("direct", OwnOk) = IF OwnOk THEN <<"direct">> ELSE <<>>
        /\ If("nvr", ViaOk) = IF cam.rec THEN <<"nvr">> ELSE <<>>
    BY <1>1, <1>4 DEF If, ViaOk, OwnOk
  <2> HIDE DEF order
  <2>4. /\ order \in {<<"direct", "nvr">>, <<"nvr", "direct">>, <<"direct">>, <<"nvr">>}
        /\ order = <<"direct">> => ~cam.rec
        /\ login.good => order # <<"nvr">>
    BY <2>1, <2>2, <2>3, Orders
  <2>5. order \in Seq(Ways) /\ order # <<>>
    BY <2>2, <2>4, Orders
  <2> QED BY <1>4, <2>4, <2>5 DEF order
<1>5. CASE ~cam.hik
  <2>1. ~OwnOk /\ Route \in OwnWays /\ ViaOk = cam.rec /\ RtspOk \in BOOLEAN /\ OwnOk \in BOOLEAN
    BY <1>5 DEF OwnOk, Route, ViaOk, RtspOk, OwnWays
  <2>2. Route = "own-generic" => /\ Order(v, full) = (<<Route>> \o If("own-rtsp", RtspOk)) \o If("nvr", cam.rec)
    BY <2>1 DEF Order
  <2>3. Route = "own-rtsp" => Order(v, full) = <<Route>> \o If("nvr", cam.rec)
    BY <2>1 DEF Order
  <2>4. Route = "nvr" => Order(v, full) = <<Route>> \o If("direct", FALSE) /\ cam.rec
    BY <2>1 DEF Order, Route, ShotOk, RtspOk
  <2>5. <<Route>> \in Seq(OwnWays) /\ <<Route>> # <<>> /\ Has(<<Route>>, Route)
    BY <2>1, OneWay
  <2>6. CASE Route = "own-generic"
    <3> DEFINE one == <<Route>> \o If("own-rtsp", RtspOk)
    <3>1. one \in Seq(OwnWays) /\ one # <<>> /\ Has(one, Route) /\ (RtspOk => Has(one, "own-rtsp"))
      BY <1>2, <2>1, <2>5, MayAdd
    <3> HIDE DEF one
    <3>2. /\ one \o If("nvr", cam.rec) \in Seq(OwnWays) /\ one \o If("nvr", cam.rec) # <<>> /\ Has(one \o If("nvr", cam.rec), Route)
          /\ (RtspOk => Has(one \o If("nvr", cam.rec), "own-rtsp")) /\ (cam.rec => Has(one \o If("nvr", cam.rec), "nvr"))
      <4>1. /\ one \o If("nvr", cam.rec) \in Seq(OwnWays) /\ one \o If("nvr", cam.rec) # <<>>
            /\ (cam.rec => Has(one \o If("nvr", cam.rec), "nvr"))
            /\ \A x \in OwnWays : Has(one, x) => Has(one \o If("nvr", cam.rec), x)
        BY <1>1, <1>2, <3>1, MayAdd
      <4> QED BY <1>2, <2>1, <3>1, <4>1
    <3>3. /\ Order(v, full) \in Seq(OwnWays) /\ Order(v, full) # <<>> /\ Has(Order(v, full), "own-generic")
          /\ (RtspOk => Has(Order(v, full), "own-rtsp")) /\ (cam.rec => Has(Order(v, full), "nvr"))
      BY <2>2, <2>6, <3>2 DEF one
    <3>4. login.good /\ ~RtspOk => "own-rtsp" \in Shut(full)
      BY <1>1, <1>3, <1>5 DEF RtspOk
    <3>5. login.good => \A way \in OwnWays : Has(Order(v, full), way) \/ way \in Shut(full)
      BY <1>3, <3>3, <3>4 DEF OwnWays
    <3> QED BY <1>2, <1>5, <3>3, <3>5 DEF TriesRest, Has
  <2>7. CASE Route = "own-rtsp"
    <3>1. /\ Order(v, full) \in Seq(OwnWays) /\ Order(v, full) # <<>> /\ Has(Order(v, full), "own-rtsp")
          /\ (cam.rec => Has(Order(v, full), "nvr"))
      <4>1. /\ <<Route>> \o If("nvr", cam.rec) \in Seq(OwnWays) /\ <<Route>> \o If("nvr", cam.rec) # <<>>
            /\ (cam.rec => Has(<<Route>> \o If("nvr", cam.rec), "nvr"))
            /\ \A x \in OwnWays : Has(<<Route>>, x) => Has(<<Route>> \o If("nvr", cam.rec), x)
        BY <1>1, <1>2, <2>5, MayAdd
      <4> QED BY <2>1, <2>3, <2>5, <2>7, <4>1
    <3>2. login.good => "own-generic" \in Shut(full)
      BY <1>1, <1>3, <1>5, <2>7 DEF Route, ShotOk
    <3>3. login.good => \A way \in OwnWays : Has(Order(v, full), way) \/ way \in Shut(full)
      BY <1>3, <3>1, <3>2 DEF OwnWays
    <3> QED BY <1>2, <1>5, <3>1, <3>3 DEF TriesRest, Has
  <2>8. CASE Route = "nvr"
    <3>1. Order(v, full) = <<Route>>
      <4>1. If("direct", FALSE) = <<>>
        BY DEF If
      <4>2. <<Route>> \o <<>> = <<Route>>
        BY <2>1, Joined
      <4> QED BY <2>4, <2>8, <4>1, <4>2
    <3>2. login.good => "own-generic" \in Shut(full) /\ "own-rtsp" \in Shut(full)
      BY <1>1, <1>3, <1>5, <2>8, <2>1 DEF Route, ShotOk, RtspOk
    <3>3. login.good => \A way \in OwnWays : Has(Order(v, full), way) \/ way \in Shut(full)
      BY <2>5, <2>8, <3>1, <3>2 DEF OwnWays
    <3> QED BY <1>2, <1>5, <2>5, <3>1, <3>3 DEF TriesRest, Has
  <2> QED BY <2>1, <2>6, <2>7, <2>8 DEF OwnWays
<1> QED BY <1>1, <1>4, <1>5

LEMMA AskKeeps ==
    ASSUME PicInv, NEW v \in Lenses, NEW full \in BOOLEAN, Ask(v, full)
    PROVE  PicInv'
<1>1. Settles /\ req[v] = NoReq /\ login' = login /\ wrong' = wrong /\ caps' = caps /\ recorder' = recorder /\ Route # "none"
  BY DEF PicInv, PicTypes, Ask, Settles, CapsGrow, LoginRefused
<1> DEFINE hurt == up # {"camera", "recorder"} \/ ~login.good
           new  == [pc |-> "try", full |-> full, order |-> Order(v, full), via |-> ViaOk, recFailed |-> FALSE,
                    again |-> FALSE, login |-> login, hurt |-> hurt]
<1>2. req' = [req EXCEPT ![v] = new]
  BY DEF Ask
<1>3. hurt \in BOOLEAN /\ (~hurt => up = {"camera", "recorder"} /\ login.good)
  BY DEF PicInv, PicTypes, LoginWords
<1> HIDE DEF hurt
<1>4. /\ Order(v, full) \in Seq(Ways) /\ Order(v, full) # <<>>
      /\ login.good /\ cam.hik =>
            \/ Order(v, full) \in {<<"direct", "nvr">>, <<"nvr", "direct">>}
            \/ Order(v, full) = <<"direct">> /\ ~cam.rec
      /\ login.good /\ ~cam.hik => TriesRest(Order(v, full), FALSE, Shut(full))
  BY <1>1, OrderSound DEF PicInv
<1>5. ViaOk \in BOOLEAN /\ ViaOk = cam.rec /\ cam.hik \in BOOLEAN /\ login \in LoginWords
  BY CamPicsAssumption DEF PicInv, PicTypes, ViaOk
<1>6. PICK q \in PicReq : q = new
  BY <1>3, <1>4, <1>5 DEF PicReq
<1>7. /\ q.pc = "try" /\ q.full = full /\ q.order = Order(v, full) /\ q.via = cam.rec /\ q.again = FALSE
      /\ q.login = login /\ q.hurt = hurt
  BY <1>5, <1>6
<1>8. ASSUME ~q.hurt PROVE Unhurt(q)
  <2>1. login.good /\ up = {"camera", "recorder"}
    BY <1>3, <1>7, <1>8
  <2>2. cam.hik => AsksItself(q)
    BY <1>4, <1>7, <2>1 DEF AsksItself
  <2>3. ~cam.hik => TriesRest(q.order, q.again, Shut(q.full))
    BY <1>4, <1>7, <2>1
  <2> QED BY <1>7, <2>1, <2>2, <2>3 DEF Unhurt, HopeLeft
<1>9. ~q.hurt => Unhurt(q)'
  BY <1>1, <1>8, StaysUnhurt DEF Settles
<1>10. OfLogin(q, login) /\ q.order # <<>> /\ q.pc # "asking"
  BY <1>4, <1>5, <1>7 DEF OfLogin, LoginWords
<1>11. PicTypes' /\ WaysSound' /\ TriesFew'
  BY <1>1, <1>2, <1>6, <1>9, <1>10, MoveKeeps DEF PicInv
<1>12. CapsTrue'
  BY <1>1 DEF PicInv, CapsTrue, Settles
<1> QED BY <1>11, <1>12 DEF PicInv

\* What happens to every request at once: a device that falls silent, and another login.
LEMMA HurtKeeps ==
    ASSUME PicInv, Hurt, login' \in LoginWords,
           \/ login' = login /\ wrong' = wrong
           \/ login'.no = login.no + 1 /\ ~LoginRefused' /\ wrong' = 0,
           UNCHANGED <<cam, caps, recorder>>
    PROVE  PicInv'
<1>1. \A v \in Lenses : /\ req[v] = NoReq => req'[v] = NoReq
                        /\ req[v] # NoReq => req[v] \in PicReq /\ req'[v] = [req[v] EXCEPT !.hurt = TRUE]
  BY DEF Hurt, PicInv, PicTypes
<1>2. ASSUME NEW v \in Lenses, req[v] # NoReq
      PROVE  /\ req'[v] \in PicReq /\ req'[v].pc = req[v].pc /\ req'[v].order = req[v].order
             /\ req'[v].login = req[v].login /\ req'[v].hurt /\ req'[v] # NoReq
  BY <1>1, <1>2 DEF PicReq, NoReq
<1>3. req' = [v \in Lenses |-> req'[v]]
  BY DEF Hurt
<1>4. req' \in [Lenses -> PicReq \cup {NoReq}]
  BY <1>1, <1>2, <1>3
<1>5. ASSUME NEW v \in Lenses, req'[v] # NoReq
      PROVE  OfLogin(req'[v], login') /\ (Seeks(req'[v]) => req'[v].order # <<>>)
  <2>1. req[v] # NoReq /\ req[v] \in PicReq /\ OfLogin(req[v], login) /\ (Seeks(req[v]) => req[v].order # <<>>)
    BY <1>1, <1>5 DEF PicInv, PicTypes
  <2>2. req[v].login.no \in Nat /\ login.no \in Nat
    BY <2>1 DEF PicReq, LoginWords, PicInv, PicTypes
  <2> QED BY <1>2, <2>1, <2>2 DEF OfLogin, Seeks
<1>6. PicTypes'
  BY <1>4, <1>5 DEF PicInv, PicTypes, LoginRefused
<1>7. Asking' = Asking /\ (login' = login => Knocking' = Knocking)
  BY <1>1, <1>2 DEF Asking, Knocking, Way, NoReq
<1>8. TriesFew' /\ CapsTrue'
  BY <1>7 DEF PicInv, TriesFew, CapsTrue, LoginRefused
<1>9. WaysSound'
  BY <1>1, <1>2 DEF WaysSound
<1> QED BY <1>6, <1>8, <1>9 DEF PicInv

LEMMA PicsRest ==
    ASSUME PicInv, UNCHANGED <<cam, caps, login, up, req, wrong>>,
           \/ recorder' = recorder
           \/ recorder' = [v \in Lenses |-> IF recorder[v] = "bad" THEN "unknown" ELSE recorder[v]]
    PROVE  PicInv'
<1>1. PicTypes'
  BY DEF PicInv, PicTypes, OfLogin, Seeks, LoginRefused
<1>2. TriesFew'
  BY DEF PicInv, TriesFew, LoginRefused, Asking, Knocking, Way
<1>3. CapsTrue'
  BY DEF PicInv, CapsTrue
<1>4. WaysSound'
  BY DEF PicInv, WaysSound, Unhurt, HopeLeft, AsksItself, Seeks, Shut
<1> QED BY <1>1, <1>2, <1>3, <1>4 DEF PicInv

\* PicInv is inductive.
THEOREM PicturesKept == PSpec => []PicInv
<1>1. PInit => PicInv
  <2> SUFFICES ASSUME PInit PROVE PicInv
    OBVIOUS
  <2>1. /\ req = [v \in Lenses |-> NoReq] /\ cam \in Cameras /\ login \in LoginWords /\ ~LoginRefused /\ wrong = 0
        /\ caps = [thumb |-> "unknown", url |-> "unknown", shot |-> "unknown", stream |-> "unknown"]
        /\ recorder = [v \in Lenses |-> "unknown"]
    BY DEF PInit, LoginWords, LoginRefused
  <2>2. PicTypes /\ CapsTrue /\ WaysSound
    BY <2>1 DEF PicTypes, CapWords, CapsTrue, WaysSound
  <2>3. Asking = {}
    BY <2>1 DEF Asking, NoReq
  <2>4. TriesFew
    BY <2>1, <2>3, FS_EmptySet, CamPicsAssumption DEF TriesFew
  <2> QED BY <2>2, <2>4 DEF PicInv
<1>2. ASSUME PicInv, [PNext]_pvars PROVE PicInv'
  <2>1. CASE UNCHANGED pvars
    BY <1>2, <2>1, PicsRest DEF pvars
  <2>2. ASSUME NEW v \in Lenses,
               \/ SendOn(v) \/ NotSent(v) \/ Silent(v) \/ Denied(v) \/ Direct(v)
               \/ Generic(v) \/ Rtsp(v) \/ FromRecorder(v) \/ Odd(v) \/ PutAway(v) \/ Save(v) \/ EndsBare(v)
        PROVE  PicInv'
    BY <1>2, <2>2, SendOnKeeps, NotSentKeeps, SilentKeeps, DeniedKeeps, DirectKeeps, GenericKeeps, RtspKeeps,
       FromRecorderKeeps, OddKeeps, EndsKeep
  <2>3. CASE RoundOff
    BY <1>2, <2>3, PicsRest DEF RoundOff, Purge
  <2>4. CASE RoundOn \/ TurnPictures \/ RetryRecorder
    BY <1>2, <2>4, PicsRest DEF RoundOn, TurnPictures, RetryRecorder
  <2>5. ASSUME NEW v \in Lenses, NEW full \in BOOLEAN, Ask(v, full) PROVE PicInv'
    BY <1>2, <2>5, AskKeeps
  <2>6. ASSUME NEW d \in {"camera", "recorder"}, TurnDevice(d) PROVE PicInv'
    <3>1. login' = login /\ login' \in LoginWords
      BY <1>2, <2>6 DEF TurnDevice, PicInv, PicTypes
    <3> QED BY <1>2, <2>6, <3>1, HurtKeeps DEF TurnDevice
  <2>7. ASSUME NEW good \in BOOLEAN, SaveLogin(good) PROVE PicInv'
    <3>1. login' \in LoginWords /\ login'.no = login.no + 1 /\ ~LoginRefused'
      BY <1>2, <2>7 DEF SaveLogin, PicInv, PicTypes, LoginWords, LoginRefused
    <3> QED BY <1>2, <2>7, <3>1, HurtKeeps DEF SaveLogin
  <2> QED BY <1>2, <2>1, <2>2, <2>3, <2>4, <2>5, <2>6, <2>7 DEF PNext, PWorks
<1> QED BY <1>1, <1>2, PTL DEF PSpec

\* A request that nothing got in the way of ends without a picture only when there is none, or when
\* an earlier request gave the address of a camera of another make up for good, be it for one
\* answer that was no picture. And a wrong login is sent no more often than there are requests at
\* once: only once, as hikisapi.py:5-7 says, where Parallel is 1.
THEOREM RequestsAreSound == PSpec => []RequestsSound
<1>1. PicInv => RequestsSound
  <2> SUFFICES ASSUME PicInv PROVE RequestsSound
    OBVIOUS
  <2>1. ASSUME NEW v \in Lenses, req[v].pc = "failed", ~req[v].hurt
        PROVE  /\ ~cam.hik
               /\ cam.rec => ~cam.recMain /\ (req[v].full \/ ~cam.recSub)
               /\ cam.url /\ cam.shot => caps.url = "none" \/ caps.shot = "bad"
               /\ cam.stream => caps.stream = "none"
    <3>1. Unhurt(req[v])
      BY <2>1 DEF PicInv, WaysSound, NoReq
    <3>2. ~cam.hik /\ Shut(req[v].full) = OwnWays
      BY <2>1, <3>1 DEF Unhurt, HopeLeft
    <3> QED BY <3>2 DEF Shut, OwnWays
  <2>2. wrong <= Parallel
    BY Fewer, CamPicsAssumption DEF PicInv, TriesFew
  <2> QED BY <2>1, <2>2 DEF RequestsSound, NoWayMissed, TriesBounded
<1> QED BY <1>1, PicturesKept, PTL

(***************************************************************************)
(* The network diagram.                                                    *)
(***************************************************************************)

\* What a document is made of.
Spots == [group : Groups \cup {Nil}, hidden : BOOLEAN]
Links == [a : Things, ap : Ports \cup {Nil}, b : Things, bp : Ports \cup {Nil}, sug : SuggestionIds \cup {Nil}]
Spotted == UNION {[S -> Spots] : S \in SUBSET Things}
Linking == UNION {[S -> Links] : S \in SUBSET Lids}
Diagrams == [groups : SUBSET Groups, boxes : SUBSET Boxes, nodes : Spotted, links : Linking,
         dismissed : SUBSET SuggestionIds]

LEMMA SpottedIs == \A f : f \in Spotted <=> DOMAIN f \subseteq Things /\ f \in [DOMAIN f -> Spots]
BY DEF Spotted

LEMMA LinkingIs == \A f : f \in Linking <=> DOMAIN f \subseteq Lids /\ f \in [DOMAIN f -> Links]
BY DEF Linking

\* No loose end of boxes and groups.
Whole(d) ==
    /\ d \in Diagrams
    /\ \A i \in DOMAIN d.links : EndsOf(d.links[i]) \cap Boxes \subseteq d.boxes
    /\ DOMAIN d.nodes \cap Boxes \subseteq d.boxes
    /\ \A k \in DOMAIN d.nodes : d.nodes[k].group \in d.groups \cup {Nil}

LEMMA WiredIs == ASSUME NEW d PROVE \A x : x \in Wired(d) <=> \E i \in DOMAIN d.links : x \in EndsOf(d.links[i])
BY DEF Wired

LEMMA WholeEnds == Whole(doc) => EndsExist
BY WiredIs DEF Whole, EndsExist, OnRecord

\* An edit made e of d: it knows of no device but those on d and among ks.
Keeps(d, e, ks) ==
    /\ Whole(e)
    /\ OnRecord(e) \subseteq OnRecord(d) \cup ks \cup Boxes
    /\ d.dismissed \subseteq e.dismissed

LEMMA KeepsBy ==
    ASSUME NEW d, NEW e, NEW ks, Whole(e), d.dismissed \subseteq e.dismissed,
           DOMAIN e.nodes \subseteq OnRecord(d) \cup ks \cup Boxes,
           \A i \in DOMAIN e.links : EndsOf(e.links[i]) \subseteq OnRecord(d) \cup ks \cup Boxes
    PROVE  Keeps(d, e, ks)
BY WiredIs DEF Keeps, OnRecord

\* Drawing some of those wires: what there was stays as it was.
Draws(d, e, ls) ==
    /\ e.groups = d.groups /\ e.boxes = d.boxes /\ e.dismissed = d.dismissed
    /\ \A i \in DOMAIN d.links : i \in DOMAIN e.links /\ e.links[i] = d.links[i]
    /\ \A i \in DOMAIN e.links : i \in DOMAIN d.links \/ e.links[i] \in ls

LEMMA FreshIs ==
    ASSUME NEW d \in Diagrams, ~(Cardinality(DOMAIN d.links) >= MaxLinks)
    PROVE  Fresh(d) \in Lids /\ Fresh(d) \notin DOMAIN d.links
<1>1. DOMAIN d.links \subseteq Lids
  BY LinkingIs DEF Diagrams
<1>2. DOMAIN d.links # Lids
  <2>1. MaxLinks \in Nat /\ 1 \in Int /\ MaxLinks \in Int
    BY TopologyAssumption
  <2>2. Cardinality(1..MaxLinks) = IF 1 > MaxLinks THEN 0 ELSE MaxLinks - 1 + 1
    BY <2>1, FS_Interval
  <2>3. Cardinality(1..MaxLinks) = MaxLinks
    BY <2>1, <2>2
  <2> QED BY <2>1, <2>3 DEF Lids
<1> QED BY <1>1, <1>2 DEF Fresh

LEMMA CreateLinkShape ==
    ASSUME NEW d, Whole(d), NEW known, known \subseteq Devices, NEW l \in Links
    PROVE  LET e == CreateLink(d, known, l)
           IN  /\ e.ok \in BOOLEAN
               /\ Keeps(d, e.doc, known) /\ Draws(d, e.doc, {l})
               /\ e.ok => \E i \in DOMAIN e.doc.links : e.doc.links[i] = l
<1> DEFINE e == CreateLink(d, known, l)
           nodes == WithNodes(d.nodes, EndsOf(l))
           links == [i \in DOMAIN d.links \cup {Fresh(d)} |-> IF i \in DOMAIN d.links THEN d.links[i] ELSE l]
           spots == [k \in DOMAIN nodes |-> IF k \in EndsOf(l) THEN [nodes[k] EXCEPT !.hidden = FALSE]
                                          ELSE nodes[k]]
<1>0. /\ d \in Diagrams /\ d.nodes \in Spotted /\ d.links \in Linking
      /\ DOMAIN d.nodes \subseteq Things /\ d.nodes \in [DOMAIN d.nodes -> Spots]
      /\ DOMAIN d.links \subseteq Lids /\ d.links \in [DOMAIN d.links -> Links]
  BY SpottedIs, LinkingIs DEF Whole, Diagrams
<1>1. CASE e = Refuse(d)
  <2>1. e.ok = FALSE /\ e.doc = d
    BY <1>1 DEF Refuse
  <2>2. Keeps(d, d, known) /\ Draws(d, d, {l})
    BY WiredIs DEF Keeps, Draws, OnRecord
  <2> QED BY <2>1, <2>2
<1>2. CASE e # Refuse(d)
  <2> DEFINE f == [d EXCEPT !.links = links, !.nodes = spots]
  <2>1. /\ e = Goes(f)
        /\ EndsOf(l) \subseteq known \cup d.boxes
        /\ ~(Cardinality(DOMAIN d.links) >= MaxLinks)
    BY <1>0, <1>2 DEF CreateLink, Diagrams
  <2>2. Fresh(d) \in Lids /\ Fresh(d) \notin DOMAIN d.links
    BY <1>0, <2>1, FreshIs
  <2>3. e.ok = TRUE /\ e.doc = f
    BY <2>1 DEF Goes
  <2>4. /\ f.links = links /\ f.nodes = spots /\ f.groups = d.groups /\ f.boxes = d.boxes
        /\ f.dismissed = d.dismissed
    BY <1>0 DEF Diagrams
  <2>5. DOMAIN links = DOMAIN d.links \cup {Fresh(d)} /\ links[Fresh(d)] = l
        /\ \A i \in DOMAIN d.links : links[i] = d.links[i]
    BY <2>2
  <2>6. /\ DOMAIN spots = DOMAIN d.nodes \cup EndsOf(l)
        /\ \A k \in DOMAIN spots : spots[k] \in Spots
        /\ \A k \in DOMAIN spots : spots[k].group \in d.groups \cup {Nil}
    <3>1. DOMAIN nodes = DOMAIN d.nodes \cup EndsOf(l)
      BY DEF WithNodes
    <3>2. \A k \in DOMAIN nodes : nodes[k] \in Spots /\ nodes[k].group \in d.groups \cup {Nil}
      BY <1>0 DEF WithNodes, Unplaced, Spots, Whole
    <3> HIDE DEF nodes
    <3> QED BY <3>1, <3>2 DEF Spots
  <2>7. EndsOf(l) \subseteq Things
    BY DEF EndsOf, Links
  <2>8. links \in Linking /\ spots \in Spotted
    BY <1>0, <2>2, <2>5, <2>6, <2>7, SpottedIs, LinkingIs
  <2> HIDE DEF links, spots
  <2>9. f \in Diagrams
    BY <1>0, <2>8 DEF Diagrams
  <2> HIDE DEF f
  <2>10. known \cap Boxes = {}
    BY TopologyAssumption DEF Devices
  <2>11. Whole(f)
    BY <2>1, <2>4, <2>5, <2>6, <2>9, <2>10 DEF Whole
  <2>12. d.boxes \subseteq Boxes
    BY <1>0 DEF Diagrams
  <2>13. \A i \in DOMAIN d.links : EndsOf(d.links[i]) \subseteq OnRecord(d)
    BY WiredIs DEF OnRecord
  <2>14. Keeps(d, f, known)
    BY <2>1, <2>4, <2>5, <2>6, <2>11, <2>12, <2>13, KeepsBy DEF OnRecord
  <2>15. Draws(d, f, {l})
    BY <2>4, <2>5 DEF Draws
  <2>16. f.links[Fresh(d)] = l /\ Fresh(d) \in DOMAIN f.links
    BY <2>4, <2>5
  <2> QED BY <2>3, <2>14, <2>15, <2>16
<1> QED BY <1>1, <1>2

\* CreateAll's recursive function: its one equation, and that some function solves it.
AllStep(d, known, f, done) ==
    IF done = {} THEN Goes(d)
    ELSE LET l    == CHOOSE x \in done : TRUE
             e    == f[done \ {l}]
             edit == CreateLink(e.doc, known, l)
         IN  [ok |-> e.ok /\ edit.ok, doc |-> edit.doc]
Upto(ls, n) == {S \in SUBSET ls : Cardinality(S) <= n}
AllSolves(d, known, f, D) == f = [done \in D |-> AllStep(d, known, f, done)]

LEMMA OneLess ==
    ASSUME NEW ls, IsFiniteSet(ls), NEW done \in SUBSET ls, done # {}
    PROVE  LET l == CHOOSE x \in done : TRUE
           IN  /\ l \in done /\ done \ {l} \in SUBSET ls
               /\ Cardinality(done) \in Nat /\ Cardinality(done) # 0
               /\ Cardinality(done \ {l}) = Cardinality(done) - 1
<1> DEFINE l == CHOOSE x \in done : TRUE
<1>1. l \in done
  OBVIOUS
<1>2. IsFiniteSet(done)
  BY FS_Subset
<1>3. Cardinality(done) \in Nat /\ Cardinality(done) # 0
  BY <1>2, FS_CardinalityType, FS_EmptySet
<1>4. Cardinality(done \ {l}) = Cardinality(done) - 1
  <2> HIDE DEF l
  <2> QED BY <1>1, <1>2, FS_RemoveElement
<1> QED BY <1>1, <1>3, <1>4

LEMMA AllExists ==
    ASSUME NEW d, NEW known, NEW ls, IsFiniteSet(ls), NEW n \in Nat
    PROVE  \E f : AllSolves(d, known, f, Upto(ls, n))
<1> DEFINE P(k) == \E f : AllSolves(d, known, f, Upto(ls, k))
           Missed == {k \in Nat : ~P(k)}
<1>1. Missed \subseteq Nat
  OBVIOUS
<1>2. ASSUME Missed # {} PROVE FALSE
  <2>1. PICK k \in Missed : \A j \in Missed : k <= j
    <3> HIDE DEF Missed
    <3> QED BY <1>1, <1>2, LeastOne
  <2>2. k \in Nat /\ ~P(k)
    OBVIOUS
  <2>0. ASSUME NEW S \in SUBSET ls PROVE IsFiniteSet(S) /\ Cardinality(S) \in Nat
    BY <2>0, FS_Subset, FS_CardinalityType
  <2>3. CASE k = 0
    <3> DEFINE f == [S \in Upto(ls, 0) |-> Goes(d)]
    <3>1. ASSUME NEW S \in Upto(ls, 0) PROVE S = {}
      <4>1. S \in SUBSET ls /\ Cardinality(S) <= 0
        BY DEF Upto
      <4>2. IsFiniteSet(S) /\ Cardinality(S) = 0
        BY <2>0, <4>1
      <4> QED BY <4>2, FS_EmptySet
    <3>2. f = [S \in Upto(ls, 0) |-> AllStep(d, known, f, S)]
      BY <3>1 DEF AllStep
    <3> HIDE DEF f
    <3> QED BY <2>2, <2>3, <3>2 DEF AllSolves
  <2>4. CASE k # 0
    <3>1. k - 1 \in Nat /\ ~(k <= k - 1)
      BY <2>2, <2>4
    <3>2. PICK g : AllSolves(d, known, g, Upto(ls, k - 1))
      BY <2>1, <3>1
    <3> DEFINE f == [S \in Upto(ls, k) |-> AllStep(d, known, g, S)]
    <3>3. \A S \in Upto(ls, k - 1) : S \in Upto(ls, k)
      <4>1. ASSUME NEW S \in Upto(ls, k - 1) PROVE S \in Upto(ls, k)
        <5>1. S \in SUBSET ls /\ Cardinality(S) <= k - 1
          BY DEF Upto
        <5>2. Cardinality(S) <= k
          BY <2>0, <2>2, <5>1
        <5> QED BY <5>1, <5>2 DEF Upto
      <4> QED BY <4>1
    <3>4. \A S \in Upto(ls, k - 1) : f[S] = g[S]
      BY <3>2, <3>3 DEF AllSolves
    <3> HIDE DEF f
    <3>5. ASSUME NEW S \in Upto(ls, k) PROVE AllStep(d, known, g, S) = AllStep(d, known, f, S)
      <4>1. CASE S = {}
        BY <4>1 DEF AllStep
      <4>2. CASE S # {}
        <5> DEFINE l == CHOOSE x \in S : TRUE
        <5>1. S \in SUBSET ls /\ Cardinality(S) <= k
          BY DEF Upto
        <5>2. S \ {l} \in SUBSET ls /\ Cardinality(S \ {l}) = Cardinality(S) - 1 /\ Cardinality(S) \in Nat
          BY <4>2, <5>1, OneLess
        <5> HIDE DEF l
        <5>3. S \ {l} \in Upto(ls, k - 1)
          BY <2>2, <5>1, <5>2 DEF Upto
        <5>4. f[S \ {l}] = g[S \ {l}]
          BY <3>4, <5>3
        <5> QED BY <4>2, <5>4 DEF AllStep, l
      <4> QED BY <4>1, <4>2
    <3>6. f = [S \in Upto(ls, k) |-> AllStep(d, known, f, S)]
      BY <3>5 DEF f
    <3> QED BY <2>2, <3>6 DEF AllSolves
  <2> QED BY <2>3, <2>4
<1> QED BY <1>2

AllBy(d, known, ls, f) == /\ \A S \in SUBSET ls : f[S] = AllStep(d, known, f, S)
                          /\ CreateAll(d, known, ls) = f[ls]

LEMMA CreateAllIs ==
    ASSUME NEW d, NEW known, NEW ls, IsFiniteSet(ls)
    PROVE  \E f : AllBy(d, known, ls, f)
<1> DEFINE f == CHOOSE g : AllSolves(d, known, g, SUBSET ls)
<1>1. Upto(ls, Cardinality(ls)) = SUBSET ls
  BY FS_Subset DEF Upto
<1>2. AllSolves(d, known, f, SUBSET ls)
  <2> DEFINE n == Cardinality(ls)
  <2>0. n \in Nat
    BY FS_CardinalityType
  <2>1. \E g : AllSolves(d, known, g, Upto(ls, n))
    <3> HIDE DEF n
    <3> QED BY <2>0, AllExists
  <2>2. \E g : AllSolves(d, known, g, SUBSET ls)
    BY <1>1, <2>1
  <2> QED BY <2>2
<1>3. CreateAll(d, known, ls) = f[ls]
  BY DEF CreateAll, AllSolves, AllStep
<1>4. \A S \in SUBSET ls : f[S] = AllStep(d, known, f, S)
  <2> HIDE DEF f
  <2> QED BY <1>2 DEF AllSolves
<1> HIDE DEF f
<1> QED BY <1>3, <1>4 DEF AllBy

\* What drawing a set of wires comes to.
Drawn(d, known, ls, e) ==
    /\ e.ok \in BOOLEAN
    /\ Keeps(d, e.doc, known) /\ Draws(d, e.doc, ls)
    /\ e.ok => \A l \in ls : \E i \in DOMAIN e.doc.links : e.doc.links[i] = l

LEMMA DrawnOneMore ==
    ASSUME NEW d, NEW known, known \subseteq Devices, NEW ls, ls \subseteq Links, NEW l \in ls,
           NEW e, Drawn(d, known, ls \ {l}, e)
    PROVE  LET edit == CreateLink(e.doc, known, l)
           IN  Drawn(d, known, ls, [ok |-> e.ok /\ edit.ok, doc |-> edit.doc])
<1> DEFINE edit == CreateLink(e.doc, known, l)
           g == [ok |-> e.ok /\ edit.ok, doc |-> edit.doc]
<1>1. /\ e.ok \in BOOLEAN /\ Keeps(d, e.doc, known) /\ Draws(d, e.doc, ls \ {l}) /\ Whole(e.doc)
      /\ e.ok => \A m \in ls \ {l} : \E i \in DOMAIN e.doc.links : e.doc.links[i] = m
  BY DEF Drawn, Keeps
<1>2. /\ edit.ok \in BOOLEAN /\ Keeps(e.doc, edit.doc, known) /\ Draws(e.doc, edit.doc, {l})
      /\ edit.ok => \E i \in DOMAIN edit.doc.links : edit.doc.links[i] = l
  <2>1. l \in Links
    OBVIOUS
  <2> QED BY <1>1, <2>1, CreateLinkShape
<1> HIDE DEF edit
<1>3. Keeps(d, edit.doc, known)
  BY <1>1, <1>2 DEF Keeps
<1>4. Draws(d, edit.doc, ls)
  BY <1>1, <1>2 DEF Draws
<1>5. e.ok /\ edit.ok => \A m \in ls : \E i \in DOMAIN edit.doc.links : edit.doc.links[i] = m
  <2> SUFFICES ASSUME e.ok, edit.ok, NEW m \in ls
               PROVE  \E i \in DOMAIN edit.doc.links : edit.doc.links[i] = m
    OBVIOUS
  <2>1. CASE m = l
    BY <1>2, <2>1
  <2>2. CASE m # l
    <3>1. PICK i \in DOMAIN e.doc.links : e.doc.links[i] = m
      BY <1>1, <2>2
    <3> QED BY <1>2, <3>1 DEF Draws
  <2> QED BY <2>1, <2>2
<1>6. g.ok = (e.ok /\ edit.ok) /\ g.ok \in BOOLEAN /\ g.doc = edit.doc
  BY <1>1, <1>2
<1> HIDE DEF g
<1>7. Drawn(d, known, ls, g)
  BY <1>3, <1>4, <1>5, <1>6 DEF Drawn
<1> QED BY <1>7 DEF g, edit

LEMMA CreateAllShape ==
    ASSUME NEW d, Whole(d), NEW known, known \subseteq Devices, NEW ls, IsFiniteSet(ls), ls \subseteq Links
    PROVE  Drawn(d, known, ls, CreateAll(d, known, ls))
<1>0. PICK f : AllBy(d, known, ls, f)
  BY CreateAllIs
<1>1. /\ \A S \in SUBSET ls : f[S] = AllStep(d, known, f, S)
      /\ CreateAll(d, known, ls) = f[ls]
  BY <1>0 DEF AllBy
<1> DEFINE Amiss == {S \in SUBSET ls : ~Drawn(d, known, S, f[S])}
           Sizes == {n \in Nat : \E S \in Amiss : Cardinality(S) = n}
<1>2. ASSUME Amiss # {} PROVE FALSE
  <2>1. \A S \in Amiss : S \in SUBSET ls /\ Cardinality(S) \in Nat
    BY FS_Subset, FS_CardinalityType
  <2>2. Sizes # {} /\ Sizes \subseteq Nat
    BY <1>2, <2>1
  <2>3. PICK n \in Sizes : \A m \in Sizes : n <= m
    <3> HIDE DEF Sizes
    <3> QED BY <2>2, LeastOne
  <2>4. PICK S \in Amiss : Cardinality(S) = n
    OBVIOUS
  <2>5. CASE S = {}
    <3>1. f[S] = Goes(d)
      BY <1>1, <2>1, <2>5 DEF AllStep
    <3>2. Goes(d).ok = TRUE /\ Goes(d).doc = d
      BY DEF Goes
    <3>3. Keeps(d, d, known) /\ Draws(d, d, {})
      BY WiredIs DEF Keeps, Draws, OnRecord
    <3> QED BY <2>5, <3>1, <3>2, <3>3 DEF Drawn
  <2>6. CASE S # {}
    <3> DEFINE l == CHOOSE x \in S : TRUE
    <3>1. /\ l \in S /\ S \ {l} \in SUBSET ls
          /\ Cardinality(S) \in Nat /\ Cardinality(S) # 0
          /\ Cardinality(S \ {l}) = Cardinality(S) - 1
      BY <2>1, <2>6, OneLess
    <3>2. f[S] = LET e == f[S \ {l}]
                     edit == CreateLink(e.doc, known, l)
                 IN  [ok |-> e.ok /\ edit.ok, doc |-> edit.doc]
      BY <1>1, <2>1, <2>6 DEF AllStep
    <3> HIDE DEF l
    <3>3. Cardinality(S \ {l}) \in Nat /\ ~(n <= Cardinality(S \ {l}))
      BY <2>4, <3>1
    <3>4. S \ {l} \notin Amiss
      BY <2>3, <3>3
    <3>5. Drawn(d, known, S \ {l}, f[S \ {l}])
      BY <3>1, <3>4
    <3>6. S \subseteq Links
      BY <2>1
    <3> DEFINE before == f[S \ {l}]
               edit == CreateLink(before.doc, known, l)
    <3>7. Drawn(d, known, S, [ok |-> before.ok /\ edit.ok, doc |-> edit.doc])
      <4> HIDE DEF before
      <4>1. Drawn(d, known, S \ {l}, before)
        BY <3>5 DEF before
      <4> QED BY <3>1, <3>6, <4>1, DrawnOneMore
    <3>8. Drawn(d, known, S, f[S])
      BY <3>2, <3>7
    <3> QED BY <3>8
  <2> QED BY <2>5, <2>6
<1> QED BY <1>1, <1>2

\* What the tables prove: finitely many things, each with an end.
Proven == {s \in SuggestionIds : s.to # {}}

LEMMA ImageFinite ==
    ASSUME NEW S, IsFiniteSet(S), NEW f, DOMAIN f = S
    PROVE  IsFiniteSet({f[x] : x \in S})
<1> DEFINE T == {f[x] : x \in S}
           g == [x \in S |-> f[x]]
<1>1. g \in Surjection(S, T)
  BY DEF Surjection
<1> HIDE DEF T, g
<1>2. IsFiniteSet(T)
  BY <1>1, FS_Surjection
<1> QED BY <1>2 DEF T

LEMMA IdsFinite == IsFiniteSet(SuggestionIds)
<1> DEFINE D == (({"wire", "shared"} \X Units) \X (Ports \X SUBSET MacKeys))
           f == [x \in D |-> [kind |-> x[1][1], unit |-> x[1][2], port |-> x[2][1], to |-> x[2][2]]]
           T == {f[x] : x \in D}
<1>1. IsFiniteSet({"wire"}) /\ IsFiniteSet({"wire"} \cup {"shared"}) /\ {"wire"} \cup {"shared"} = {"wire", "shared"}
  BY FS_Singleton, FS_AddElement
<1>2. IsFiniteSet({"wire", "shared"} \X Units)
  BY <1>1, FS_Product, TopologyAssumption
<1>3. IsFiniteSet(Ports \X SUBSET MacKeys)
  BY FS_SUBSET, FS_Product, TopologyAssumption
<1>4. IsFiniteSet(D)
  <2> DEFINE A == {"wire", "shared"} \X Units
             B == Ports \X SUBSET MacKeys
  <2>1. IsFiniteSet(A) /\ IsFiniteSet(B)
    BY <1>2, <1>3
  <2> HIDE DEF A, B
  <2>2. IsFiniteSet(A \X B)
    BY <2>1, FS_Product
  <2> QED BY <2>2 DEF A, B
<1>5. IsFiniteSet(T)
  <2>1. DOMAIN f = D
    OBVIOUS
  <2> HIDE DEF D, f
  <2> QED BY <1>4, <2>1, ImageFinite
<1>6. ASSUME NEW s \in SuggestionIds PROVE s \in T
  <2> DEFINE x == <<<<s.kind, s.unit>>, <<s.port, s.to>>>>
  <2>1. x \in D /\ s = [kind |-> x[1][1], unit |-> x[1][2], port |-> x[2][1], to |-> x[2][2]]
    BY DEF SuggestionIds
  <2>2. f[x] = s
    BY <2>1
  <2> HIDE DEF D, f, x
  <2> QED BY <2>1, <2>2
<1>7. SuggestionIds \subseteq T
  BY <1>6
<1> HIDE DEF T
<1> QED BY <1>5, <1>7, FS_Subset

LEMMA SuggestedIs ==
    ASSUME NEW d, NEW known, NEW tables \in Tables
    PROVE  Suggestions(d, known, tables) \subseteq Proven /\ Suggestions(d, known, tables) \cap d.dismissed = {}
<1>1. ASSUME NEW u \in Units, NEW p \in Ports PROVE Proof(d, known, tables, u, p) \subseteq Proven
  <2> DEFINE macs == tables[u][p]
             inside == (macs \cap known \cap OnDiagram(d, known)) \ {u}
  <2>1. macs \subseteq MacKeys
    BY TopologyAssumption
  <2>2. inside \subseteq MacKeys /\ inside \cap Net \subseteq inside
    BY <2>1
  <2>3. ASSUME NEW s \in Proof(d, known, tables, u, p)
        PROVE  \/ \E k \in inside : s = Wire(u, p, k)
               \/ inside # {} /\ s = Shared(u, p, inside)
    BY <2>3 DEF Proof
  <2> HIDE DEF inside
  <2> QED BY <2>2, <2>3 DEF Proven, SuggestionIds, Wire, Shared
<1>2. ASSUME NEW s \in Suggestions(d, known, tables) PROVE s \in Proven /\ s \notin d.dismissed
  <2>1. s \notin d.dismissed
    BY DEF Suggestions
  <2> DEFINE All == {Proof(d, known, tables, u, p) : u \in Units \cap known, p \in Ports}
  <2>5. Suggestions(d, known, tables) = (UNION All) \ d.dismissed
    BY DEF Suggestions
  <2>2. s \in UNION All
    <3> HIDE DEF All
    <3> QED BY <2>5
  <2>3. PICK T \in All : s \in T
    BY <2>2
  <2>4. PICK u \in Units, p \in Ports : T = Proof(d, known, tables, u, p)
    BY <2>3
  <2> QED BY <1>1, <2>1, <2>3, <2>4
<1> QED BY <1>2

LEMMA WireLinks == ASSUME NEW s \in Proven PROVE WireOf(s) \in Links /\ WireOf(s).sug = s
<1> DEFINE k == CHOOSE x \in s.to : TRUE
<1>1. k \in s.to
  BY DEF Proven
<1> HIDE DEF k
<1>2. k \in Things /\ s.unit \in Things /\ s.port \in Ports /\ s \in SuggestionIds
  BY <1>1, TopologyAssumption DEF Proven, SuggestionIds, Things, Devices
<1>3. WireOf(s) = Link(s.unit, s.port, k, Nil, s)
  BY DEF WireOf, k
<1> QED BY <1>2, <1>3 DEF Link, Links

LEMMA AcceptAllShape ==
    ASSUME NEW d, Whole(d), NEW known, known \subseteq Devices, NEW sugs, sugs \subseteq Proven
    PROVE  LET e == AcceptAll(d, known, sugs)
           IN  /\ Keeps(d, e, known)
               /\ e.boxes = d.boxes /\ e.dismissed = d.dismissed
               /\ \A i \in DOMAIN d.links : i \in DOMAIN e.links
               /\ \A i \in DOMAIN e.links : i \in DOMAIN d.links \/ e.links[i].sug \in sugs
<1> DEFINE W == Wires(sugs)
           ls == {WireOf(s) : s \in W}
           f == [s \in W |-> WireOf(s)]
<1>1. W \subseteq sugs /\ W \subseteq SuggestionIds
  BY DEF Wires, Proven
<1>2. IsFiniteSet(W)
  BY <1>1, IdsFinite, FS_Subset
<1>3. ls = {f[s] : s \in W} /\ DOMAIN f = W
  OBVIOUS
<1>4. IsFiniteSet(ls)
  <2> HIDE DEF W, ls, f
  <2> QED BY <1>2, <1>3, ImageFinite
<1>5. ls \subseteq Links /\ \A l \in ls : l.sug \in sugs
  BY <1>1, WireLinks
<1>6. AcceptAll(d, known, sugs) = CreateAll(d, known, ls).doc
  BY DEF AcceptAll
<1> HIDE DEF ls, W, f
<1>7. Drawn(d, known, ls, CreateAll(d, known, ls))
  BY <1>4, <1>5, CreateAllShape
<1> QED BY <1>5, <1>6, <1>7 DEF Drawn, Draws

\* The edits one by one. Each is made on a document without loose ends.
LEMMA Parts ==
    ASSUME NEW d, Whole(d)
    PROVE  /\ d \in Diagrams /\ d.groups \subseteq Groups /\ d.boxes \subseteq Boxes /\ d.dismissed \subseteq SuggestionIds
           /\ d.nodes \in [DOMAIN d.nodes -> Spots] /\ DOMAIN d.nodes \subseteq Things
           /\ d.links \in [DOMAIN d.links -> Links] /\ DOMAIN d.links \subseteq Lids
           /\ \A i \in DOMAIN d.links : EndsOf(d.links[i]) \subseteq OnRecord(d) /\ EndsOf(d.links[i]) \subseteq Things
           /\ DOMAIN d.nodes \subseteq OnRecord(d)
           /\ \A k \in DOMAIN d.nodes : d.nodes[k].group \in Groups \cup {Nil} /\ d.nodes[k].hidden \in BOOLEAN
<1>1. d \in Diagrams /\ d.nodes \in Spotted /\ d.links \in Linking
  BY DEF Whole, Diagrams
<1>2. \A i \in DOMAIN d.links : EndsOf(d.links[i]) \subseteq OnRecord(d)
  BY WiredIs DEF OnRecord
<1>3. \A l \in Links : EndsOf(l) \subseteq Things
  BY DEF Links, EndsOf
<1> QED BY <1>1, <1>2, <1>3, SpottedIs, LinkingIs DEF Diagrams, OnRecord, Spots

LEMMA Things3 == Devices \cap Boxes = {} /\ Things = Devices \cup Boxes
BY TopologyAssumption DEF Devices, Things

\* A document from its parts.
LEMMA WholeBy ==
    ASSUME NEW e, e = [groups |-> e.groups, boxes |-> e.boxes, nodes |-> e.nodes, links |-> e.links,
                       dismissed |-> e.dismissed],
           e.groups \subseteq Groups, e.boxes \subseteq Boxes, e.dismissed \subseteq SuggestionIds,
           DOMAIN e.nodes \subseteq Things, e.nodes \in [DOMAIN e.nodes -> Spots],
           DOMAIN e.links \subseteq Lids, e.links \in [DOMAIN e.links -> Links],
           \A i \in DOMAIN e.links : EndsOf(e.links[i]) \cap Boxes \subseteq e.boxes,
           DOMAIN e.nodes \cap Boxes \subseteq e.boxes,
           \A k \in DOMAIN e.nodes : e.nodes[k].group \in e.groups \cup {Nil}
    PROVE  Whole(e)
<1>1. e.nodes \in Spotted /\ e.links \in Linking
  BY SpottedIs, LinkingIs
<1>2. e \in Diagrams
  BY <1>1 DEF Diagrams
<1> QED BY <1>2 DEF Whole

LEMMA RecordIs ==
    ASSUME NEW d, Whole(d)
    PROVE  d = [groups |-> d.groups, boxes |-> d.boxes, nodes |-> d.nodes, links |-> d.links, dismissed |-> d.dismissed]
BY DEF Whole, Diagrams

\* One node is set anew, of a device among ks or a box there is.
LEMMA NodeSet ==
    ASSUME NEW d, Whole(d), NEW ks, NEW e, NEW k \in Things,
           k \in ks \cup e.boxes, NEW spot \in Spots, spot.group \in d.groups \cup {Nil},
           d.boxes \subseteq e.boxes, e.boxes \subseteq Boxes,
           e.nodes = [WithNodes(d.nodes, {k}) EXCEPT ![k] = spot],
           e = [groups |-> d.groups, boxes |-> e.boxes, nodes |-> e.nodes, links |-> d.links, dismissed |-> d.dismissed],
           ks \subseteq Devices
    PROVE  Keeps(d, e, ks)
<1> DEFINE nodes == [WithNodes(d.nodes, {k}) EXCEPT ![k] = spot]
<1>1. /\ e.groups = d.groups /\ e.nodes = nodes /\ e.links = d.links /\ e.dismissed = d.dismissed
      /\ e = [groups |-> e.groups, boxes |-> e.boxes, nodes |-> e.nodes, links |-> e.links, dismissed |-> e.dismissed]
  OBVIOUS
<1>2. /\ DOMAIN nodes = DOMAIN d.nodes \cup {k}
      /\ \A j \in DOMAIN nodes : nodes[j] = IF j = k THEN spot ELSE d.nodes[j]
      /\ nodes \in [DOMAIN nodes -> Spots]
  BY Parts DEF WithNodes
<1> HIDE DEF nodes
<1>3. Whole(e)
  <2>1. e.groups \subseteq Groups /\ e.boxes \subseteq Boxes /\ e.dismissed \subseteq SuggestionIds
    BY <1>1, Parts
  <2>2. DOMAIN e.nodes \subseteq Things /\ e.nodes \in [DOMAIN e.nodes -> Spots]
    BY <1>1, <1>2, Parts
  <2>3. DOMAIN e.links \subseteq Lids /\ e.links \in [DOMAIN e.links -> Links]
    BY <1>1, Parts
  <2>4. \A i \in DOMAIN e.links : EndsOf(e.links[i]) \cap Boxes \subseteq e.boxes
    BY <1>1 DEF Whole
  <2>5. DOMAIN e.nodes \cap Boxes \subseteq e.boxes
    BY <1>1, <1>2, Things3 DEF Whole
  <2>6. \A j \in DOMAIN e.nodes : e.nodes[j].group \in e.groups \cup {Nil}
    BY <1>1, <1>2 DEF Whole
  <2> QED BY <1>1, <2>1, <2>2, <2>3, <2>4, <2>5, <2>6, WholeBy
<1> QED BY <1>1, <1>2, <1>3, Parts, KeepsBy

LEMMA PlacedKeeps ==
    ASSUME NEW d, Whole(d), NEW ks, ks \subseteq Devices, NEW k, k \in ks \cup d.boxes,
           NEW g \in d.groups \cup {Nil}
    PROVE  Keeps(d, Placed(d, k, g), ks)
<1> DEFINE was == WithNodes(d.nodes, {k})[k]
           spot == [group |-> g, hidden |-> IF g = Nil THEN was.hidden ELSE FALSE]
           e == [d EXCEPT !.nodes = [WithNodes(d.nodes, {k}) EXCEPT ![k] = spot]]
<1>1. k \in Things /\ k \in ks \cup d.boxes
  BY Parts, Things3
<1>2. Placed(d, k, g) = e
  BY DEF Placed
<1>6. was \in Spots /\ was.group \in d.groups \cup {Nil}
  BY Parts DEF Spots, Unplaced, Whole, WithNodes
<1> HIDE DEF was
<1>3. spot \in Spots /\ spot.group = g
  BY <1>6, Parts DEF Spots
<1>4. /\ e.boxes = d.boxes /\ d.boxes \subseteq Boxes /\ e.nodes = [WithNodes(d.nodes, {k}) EXCEPT ![k] = spot]
      /\ e = [groups |-> d.groups, boxes |-> e.boxes, nodes |-> e.nodes, links |-> d.links, dismissed |-> d.dismissed]
  <2> DEFINE nodes == [WithNodes(d.nodes, {k}) EXCEPT ![k] = spot]
  <2>1. e = [d EXCEPT !.nodes = nodes]
    OBVIOUS
  <2> HIDE DEF e, nodes
  <2>2. d = [groups |-> d.groups, boxes |-> d.boxes, nodes |-> d.nodes, links |-> d.links, dismissed |-> d.dismissed]
    BY RecordIs
  <2>3. e = [groups |-> d.groups, boxes |-> d.boxes, nodes |-> nodes, links |-> d.links, dismissed |-> d.dismissed]
    BY <2>1, <2>2
  <2>4. e.boxes = d.boxes /\ e.nodes = nodes
    BY <2>3
  <2>5. d.boxes \subseteq Boxes
    BY Parts
  <2> QED BY <2>3, <2>4, <2>5 DEF nodes
<1> HIDE DEF spot, e
<1>5. Keeps(d, e, ks)
  BY <1>1, <1>3, <1>4, NodeSet
<1> QED BY <1>2, <1>5

LEMMA HiddenKeeps ==
    ASSUME NEW d, Whole(d), NEW ks, ks \subseteq Devices, NEW k, k \in ks \cup d.boxes
    PROVE  Keeps(d, Hidden(d, k), ks)
<1> DEFINE was == WithNodes(d.nodes, {k})[k]
           spot == [group |-> IF k \in Boxes THEN was.group ELSE Nil, hidden |-> TRUE]
           e == [d EXCEPT !.nodes = [WithNodes(d.nodes, {k}) EXCEPT ![k] = spot]]
<1>1. k \in Things /\ k \in ks \cup d.boxes
  BY Parts, Things3
<1>2. Hidden(d, k) = e
  BY DEF Hidden
<1>6. was \in Spots /\ was.group \in d.groups \cup {Nil}
  BY Parts DEF Spots, Unplaced, Whole, WithNodes
<1> HIDE DEF was
<1>3. spot \in Spots /\ spot.group \in d.groups \cup {Nil}
  BY <1>6 DEF Spots
<1>4. /\ e.boxes = d.boxes /\ d.boxes \subseteq Boxes /\ e.nodes = [WithNodes(d.nodes, {k}) EXCEPT ![k] = spot]
      /\ e = [groups |-> d.groups, boxes |-> e.boxes, nodes |-> e.nodes, links |-> d.links, dismissed |-> d.dismissed]
  <2> DEFINE nodes == [WithNodes(d.nodes, {k}) EXCEPT ![k] = spot]
  <2>1. e = [d EXCEPT !.nodes = nodes]
    OBVIOUS
  <2> HIDE DEF e, nodes
  <2>2. d = [groups |-> d.groups, boxes |-> d.boxes, nodes |-> d.nodes, links |-> d.links, dismissed |-> d.dismissed]
    BY RecordIs
  <2>3. e = [groups |-> d.groups, boxes |-> d.boxes, nodes |-> nodes, links |-> d.links, dismissed |-> d.dismissed]
    BY <2>1, <2>2
  <2>4. e.boxes = d.boxes /\ e.nodes = nodes
    BY <2>3
  <2>5. d.boxes \subseteq Boxes
    BY Parts
  <2> QED BY <2>3, <2>4, <2>5 DEF nodes
<1> HIDE DEF spot, e
<1>5. Keeps(d, e, ks)
  BY <1>1, <1>3, <1>4, NodeSet
<1> QED BY <1>2, <1>5

LEMMA CreateBoxKeeps ==
    ASSUME NEW d, Whole(d), NEW v \in Boxes, NEW g \in d.groups \cup {Nil}
    PROVE  LET e == CreateBox(d, v, g)
           IN  /\ e = Goes(e.doc) /\ Keeps(d, e.doc, {}) /\ e.doc.boxes = d.boxes \cup {v}
               /\ e.doc.links = d.links /\ e.doc.dismissed = d.dismissed
<1> DEFINE was == WithNodes(d.nodes, {v})[v]
           spot == [was EXCEPT !.group = g]
           e == [d EXCEPT !.boxes = d.boxes \cup {v}, !.nodes = [WithNodes(d.nodes, {v}) EXCEPT ![v] = spot]]
<1>1. CreateBox(d, v, g) = Goes(e)
  BY DEF CreateBox
<1>2. was \in Spots
  BY Parts DEF Spots, Unplaced, WithNodes
<1> HIDE DEF was
<1>6. spot \in Spots /\ spot.group = g
  BY <1>2, Parts DEF Spots
<1>3. /\ e.boxes = d.boxes \cup {v} /\ d.boxes \subseteq Boxes
      /\ e = [groups |-> d.groups, boxes |-> e.boxes, nodes |-> e.nodes, links |-> d.links, dismissed |-> d.dismissed]
      /\ e.nodes = [WithNodes(d.nodes, {v}) EXCEPT ![v] = spot]
      /\ e.links = d.links /\ e.dismissed = d.dismissed
  <2> DEFINE nodes == [WithNodes(d.nodes, {v}) EXCEPT ![v] = spot]
  <2>1. e = [d EXCEPT !.boxes = d.boxes \cup {v}, !.nodes = nodes]
    OBVIOUS
  <2> HIDE DEF e, nodes
  <2>2. d = [groups |-> d.groups, boxes |-> d.boxes, nodes |-> d.nodes, links |-> d.links, dismissed |-> d.dismissed]
    BY RecordIs
  <2>3. e = [groups |-> d.groups, boxes |-> d.boxes \cup {v}, nodes |-> nodes, links |-> d.links, dismissed |-> d.dismissed]
    BY <2>1, <2>2
  <2>4. e.boxes = d.boxes \cup {v} /\ e.nodes = nodes /\ e.links = d.links /\ e.dismissed = d.dismissed
    BY <2>3
  <2>5. d.boxes \subseteq Boxes
    BY Parts
  <2> QED BY <2>3, <2>4, <2>5 DEF nodes
<1> HIDE DEF spot, e
<1>4. Keeps(d, e, {})
  <2>1. v \in Things /\ v \in {} \cup e.boxes /\ e.boxes \subseteq Boxes /\ {} \subseteq Devices
    BY <1>3, Things3
  <2>2. d.boxes \subseteq e.boxes
    BY <1>3
  <2>3. spot \in Spots /\ spot.group \in d.groups \cup {Nil}
    BY <1>6
  <2>4. /\ e.nodes = [WithNodes(d.nodes, {v}) EXCEPT ![v] = spot]
        /\ e = [groups |-> d.groups, boxes |-> e.boxes, nodes |-> e.nodes, links |-> d.links, dismissed |-> d.dismissed]
    BY <1>3
  <2> DEFINE ks == {}
  <2>5. v \in ks \cup e.boxes /\ ks \subseteq Devices
    BY <2>1
  <2> HIDE DEF ks
  <2>6. Keeps(d, e, ks)
    BY <2>1, <2>2, <2>3, <2>4, <2>5, NodeSet
  <2> QED BY <2>6 DEF ks
<1>5. Goes(e).doc = e
  BY DEF Goes
<1> QED BY <1>1, <1>3, <1>4, <1>5

\* Any other edit, from the parts of the document it makes.
Made(g, b, n, l, s) == [groups |-> g, boxes |-> b, nodes |-> n, links |-> l, dismissed |-> s]

LEMMA MadeIs == \A g, b, n, l, s :
    LET e == Made(g, b, n, l, s)
    IN  e.groups = g /\ e.boxes = b /\ e.nodes = n /\ e.links = l /\ e.dismissed = s
BY DEF Made

\* Nothing in those parts is about anything but what is on d, among ks, or a box among b.
Fits(d, ks, g, b, n, l, s) ==
    /\ Whole(d) /\ ks \subseteq Devices
    /\ g \subseteq Groups /\ b \subseteq Boxes /\ s \subseteq SuggestionIds /\ d.dismissed \subseteq s
    /\ n \in [DOMAIN n -> Spots] /\ DOMAIN n \subseteq OnRecord(d) \cup ks \cup Boxes /\ DOMAIN n \cap Boxes \subseteq b
    /\ \A k \in DOMAIN n : n[k].group \in g \cup {Nil}
    /\ l \in [DOMAIN l -> Links] /\ DOMAIN l \subseteq Lids
    /\ \A i \in DOMAIN l : /\ EndsOf(l[i]) \cap Boxes \subseteq b
                           /\ EndsOf(l[i]) \subseteq OnRecord(d) \cup ks \cup Boxes

LEMMA MadeKeeps ==
    ASSUME NEW d, NEW ks, NEW g, NEW b, NEW n, NEW l, NEW s, Fits(d, ks, g, b, n, l, s)
    PROVE  Keeps(d, Made(g, b, n, l, s), ks)
<1> DEFINE e == Made(g, b, n, l, s)
<1> USE DEF Fits
<1>1. /\ e.groups = g /\ e.boxes = b /\ e.nodes = n /\ e.links = l /\ e.dismissed = s
      /\ e = [groups |-> e.groups, boxes |-> e.boxes, nodes |-> e.nodes, links |-> e.links, dismissed |-> e.dismissed]
  BY DEF Made
<1> HIDE DEF e
<1>2. OnRecord(d) \cup ks \cup Boxes \subseteq Things
  <2>1. Wired(d) \subseteq Things
    BY Parts, WiredIs
  <2> QED BY <2>1, Parts, Things3 DEF OnRecord
<1>3. DOMAIN n \subseteq Things
  BY <1>2
<1>5. \A i \in DOMAIN e.links : EndsOf(e.links[i]) \cap Boxes \subseteq e.boxes
  BY <1>1
<1>6. DOMAIN e.nodes \cap Boxes \subseteq e.boxes
  BY <1>1
<1>7. \A k \in DOMAIN e.nodes : e.nodes[k].group \in e.groups \cup {Nil}
  BY <1>1
<1>8. Whole(e)
  BY <1>1, <1>3, <1>5, <1>6, <1>7, WholeBy
<1>9. /\ DOMAIN e.nodes \subseteq OnRecord(d) \cup ks \cup Boxes
      /\ \A i \in DOMAIN e.links : EndsOf(e.links[i]) \subseteq OnRecord(d) \cup ks \cup Boxes
  BY <1>1
<1>10. Keeps(d, e, ks)
  BY <1>1, <1>8, <1>9, KeepsBy
<1> QED BY <1>10 DEF e

LEMMA CutIs == ASSUME NEW d, Whole(d), NEW gone
               PROVE  LET l == Cut(d.links, gone)
                      IN  /\ l \in [DOMAIN l -> Links] /\ DOMAIN l = DOMAIN d.links \ gone /\ DOMAIN l \subseteq Lids
                          /\ \A i \in DOMAIN l : l[i] = d.links[i]
BY Parts DEF Cut, Restrict

LEMMA RestrictIs == ASSUME NEW d, Whole(d), NEW S, S \subseteq DOMAIN d.nodes
                    PROVE  LET n == Restrict(d.nodes, S)
                           IN  /\ n \in [DOMAIN n -> Spots] /\ DOMAIN n = S
                               /\ \A k \in S : n[k] = d.nodes[k]
BY Parts DEF Restrict

LEMMA WithoutBoxKeeps ==
    ASSUME NEW d, Whole(d), NEW v \in Boxes, NEW ks, ks = {}
    PROVE  Keeps(d, WithoutBox(d, v), ks) /\ WithoutBox(d, v).boxes \subseteq d.boxes
<1> DEFINE n == Restrict(d.nodes, DOMAIN d.nodes \ {v})
           l == Cut(d.links, Touching(d, {v}))
           e == WithoutBox(d, v)
<1>1. e = Made(d.groups, d.boxes \ {v}, n, l, d.dismissed)
  <2>1. d = [groups |-> d.groups, boxes |-> d.boxes, nodes |-> d.nodes, links |-> d.links, dismissed |-> d.dismissed]
    BY RecordIs
  <2>2. e = [d EXCEPT !.boxes = d.boxes \ {v}, !.nodes = n, !.links = l]
    BY DEF WithoutBox
  <2> HIDE DEF e, n, l
  <2> QED BY <2>1, <2>2 DEF Made
<1>2. /\ n \in [DOMAIN n -> Spots] /\ DOMAIN n = DOMAIN d.nodes \ {v}
      /\ \A k \in DOMAIN n : n[k] = d.nodes[k]
  <2>1. DOMAIN d.nodes \ {v} \subseteq DOMAIN d.nodes
    OBVIOUS
  <2> QED BY <2>1, RestrictIs
<1>3. /\ l \in [DOMAIN l -> Links] /\ DOMAIN l \subseteq Lids /\ DOMAIN l = DOMAIN d.links \ Touching(d, {v})
      /\ \A i \in DOMAIN l : l[i] = d.links[i]
  BY CutIs
<1> HIDE DEF n, l, e
<1>4. /\ DOMAIN n \subseteq OnRecord(d) \cup ks \cup Boxes /\ DOMAIN n \cap Boxes \subseteq d.boxes \ {v}
      /\ \A k \in DOMAIN n : n[k].group \in d.groups \cup {Nil}
  BY <1>2, Parts DEF Whole
<1>5. \A i \in DOMAIN l : EndsOf(l[i]) \cap Boxes \subseteq d.boxes \ {v} /\ EndsOf(l[i]) \subseteq OnRecord(d) \cup ks \cup Boxes
  <2>1. ASSUME NEW i \in DOMAIN l
        PROVE  i \in DOMAIN d.links /\ l[i] = d.links[i] /\ v \notin EndsOf(l[i])
    BY <1>3 DEF Touching
  <2> QED BY <2>1, Parts DEF Whole
<1>6. d.groups \subseteq Groups /\ d.boxes \ {v} \subseteq Boxes /\ d.dismissed \subseteq SuggestionIds /\ d.dismissed \subseteq d.dismissed /\ ks \subseteq Devices
  BY Parts
<1>7. Fits(d, ks, d.groups, d.boxes \ {v}, n, l, d.dismissed)
  BY <1>2, <1>3, <1>4, <1>5, <1>6 DEF Fits
<1> QED BY <1>1, <1>7, MadeIs, MadeKeeps DEF e

LEMMA WithoutGroupKeeps ==
    ASSUME NEW d, Whole(d), NEW g, NEW ks, ks = {}
    PROVE  Keeps(d, WithoutGroup(d, g), ks)
<1> DEFINE n == [k \in DOMAIN d.nodes |-> IF d.nodes[k].group = g THEN [d.nodes[k] EXCEPT !.group = Nil]
                                         ELSE d.nodes[k]]
           e == WithoutGroup(d, g)
<1>1. e = Made(d.groups \ {g}, d.boxes, n, d.links, d.dismissed)
  <2>1. d = [groups |-> d.groups, boxes |-> d.boxes, nodes |-> d.nodes, links |-> d.links, dismissed |-> d.dismissed]
    BY RecordIs
  <2>2. e = [d EXCEPT !.groups = d.groups \ {g}, !.nodes = n]
    BY DEF WithoutGroup
  <2> HIDE DEF e, n
  <2> QED BY <2>1, <2>2 DEF Made
<1>2. /\ n \in [DOMAIN n -> Spots] /\ DOMAIN n = DOMAIN d.nodes
      /\ \A k \in DOMAIN n : n[k].group \in (d.groups \ {g}) \cup {Nil}
  BY Parts DEF Spots, Whole
<1> HIDE DEF n, e
<1>3. Fits(d, ks, d.groups \ {g}, d.boxes, n, d.links, d.dismissed)
  BY <1>2, Parts DEF Fits, Whole
<1> QED BY <1>1, <1>3, MadeKeeps DEF e

LEMMA WithoutLinkKeeps ==
    ASSUME NEW d, Whole(d), NEW i \in DOMAIN d.links, NEW ks, ks = {}
    PROVE  /\ Keeps(d, WithoutLink(d, i), ks) /\ WithoutLink(d, i).boxes = d.boxes
           /\ WithoutLink(d, i).dismissed = d.dismissed \cup ({d.links[i].sug} \ {Nil})
<1> DEFINE l == Cut(d.links, {i})
           s == d.dismissed \cup ({d.links[i].sug} \ {Nil})
           e == WithoutLink(d, i)
<1>1. e = Made(d.groups, d.boxes, d.nodes, l, s)
  <2>1. d = [groups |-> d.groups, boxes |-> d.boxes, nodes |-> d.nodes, links |-> d.links, dismissed |-> d.dismissed]
    BY RecordIs
  <2>2. e = [d EXCEPT !.links = l, !.dismissed = s]
    BY DEF WithoutLink
  <2> HIDE DEF e, l, s
  <2> QED BY <2>1, <2>2 DEF Made
<1>2. /\ l \in [DOMAIN l -> Links] /\ DOMAIN l \subseteq Lids /\ DOMAIN l = DOMAIN d.links \ {i}
      /\ \A j \in DOMAIN l : l[j] = d.links[j]
  BY CutIs
<1>3. s \subseteq SuggestionIds
  <2>1. d.links[i] \in Links
    BY Parts
  <2> QED BY <2>1, Parts DEF Links
<1> HIDE DEF l, e
<1>4. Fits(d, ks, d.groups, d.boxes, d.nodes, l, s)
  BY <1>2, <1>3, Parts DEF Fits, Whole
<1> HIDE DEF s
<1>5. e.boxes = d.boxes /\ e.dismissed = s
  BY <1>1, MadeIs
<1> QED BY <1>1, <1>4, <1>5, MadeKeeps DEF e, s

LEMMA WithoutDevicesKeeps ==
    ASSUME NEW d, Whole(d), NEW gone, gone \subseteq Devices, NEW ks, ks = {}
    PROVE  LET e == WithoutDevices(d, gone)
           IN  /\ Keeps(d, e, ks) /\ OnRecord(e) \cap gone = {} /\ e.boxes = d.boxes
               /\ OnRecord(e) \subseteq OnRecord(d)
<1> DEFINE n == Restrict(d.nodes, DOMAIN d.nodes \ gone)
           l == Cut(d.links, Touching(d, gone))
           e == WithoutDevices(d, gone)
<1>1. e = Made(d.groups, d.boxes, n, l, d.dismissed)
  <2>1. d = [groups |-> d.groups, boxes |-> d.boxes, nodes |-> d.nodes, links |-> d.links, dismissed |-> d.dismissed]
    BY RecordIs
  <2>2. e = [d EXCEPT !.nodes = n, !.links = l]
    BY DEF WithoutDevices
  <2> HIDE DEF e, n, l
  <2> QED BY <2>1, <2>2 DEF Made
<1>2. /\ n \in [DOMAIN n -> Spots] /\ DOMAIN n = DOMAIN d.nodes \ gone
      /\ \A k \in DOMAIN n : n[k] = d.nodes[k]
  <2>1. DOMAIN d.nodes \ gone \subseteq DOMAIN d.nodes
    OBVIOUS
  <2> QED BY <2>1, RestrictIs
<1>3. /\ l \in [DOMAIN l -> Links] /\ DOMAIN l \subseteq Lids /\ DOMAIN l = DOMAIN d.links \ Touching(d, gone)
      /\ \A i \in DOMAIN l : l[i] = d.links[i]
  BY CutIs, ZenonT(60)
<1> HIDE DEF n, l, e
<1>4. \A i \in DOMAIN l : i \in DOMAIN d.links /\ l[i] = d.links[i] /\ EndsOf(l[i]) \cap gone = {}
  BY <1>3 DEF Touching
<1>5. Fits(d, ks, d.groups, d.boxes, n, l, d.dismissed)
  BY <1>2, <1>3, <1>4, Parts DEF Fits, Whole
<1>6. e.boxes = d.boxes /\ e.nodes = n /\ e.links = l
  BY <1>1, MadeIs
<1>7. OnRecord(e) \cap gone = {} /\ OnRecord(e) \subseteq OnRecord(d)
  <2>1. \A x \in Wired(e) : x \notin gone /\ x \in OnRecord(d)
    BY <1>4, <1>6, WiredIs, Parts
  <2> QED BY <1>2, <1>6, <2>1, Parts DEF OnRecord
<1> QED BY <1>1, <1>5, <1>6, <1>7, MadeKeeps DEF e

LEMMA ClearedKeeps ==
    ASSUME NEW d, Whole(d), NEW known, NEW ks, ks = {}
    PROVE  Keeps(d, Cleared(d, known), ks) /\ OnRecord(Cleared(d, known)) \subseteq OnRecord(d)
           /\ Cleared(d, known).boxes = d.boxes
<1> DEFINE cut == {i \in DOMAIN d.links : ~(EndsOf(d.links[i]) \subseteq known)}
           n == Restrict(d.nodes, DOMAIN d.nodes \cap known)
           l == Cut(d.links, cut)
           e == Cleared(d, known)
<1>1. e = Made(d.groups, d.boxes, n, l, d.dismissed)
  <2>1. d = [groups |-> d.groups, boxes |-> d.boxes, nodes |-> d.nodes, links |-> d.links, dismissed |-> d.dismissed]
    BY RecordIs
  <2>2. e = [d EXCEPT !.nodes = n, !.links = l]
    BY DEF Cleared
  <2> HIDE DEF e, n, l
  <2> QED BY <2>1, <2>2 DEF Made
<1>2. /\ n \in [DOMAIN n -> Spots] /\ DOMAIN n = DOMAIN d.nodes \cap known
      /\ \A k \in DOMAIN n : n[k] = d.nodes[k]
  <2>1. DOMAIN d.nodes \cap known \subseteq DOMAIN d.nodes
    OBVIOUS
  <2> QED BY <2>1, RestrictIs
<1>3. /\ l \in [DOMAIN l -> Links] /\ DOMAIN l \subseteq Lids /\ DOMAIN l = DOMAIN d.links \ cut
      /\ \A i \in DOMAIN l : l[i] = d.links[i]
  BY CutIs
<1> HIDE DEF n, l, e, cut
<1>4. \A i \in DOMAIN l : i \in DOMAIN d.links /\ l[i] = d.links[i]
  BY <1>3
<1>5. Fits(d, ks, d.groups, d.boxes, n, l, d.dismissed)
  BY <1>2, <1>3, <1>4, Parts DEF Fits, Whole
<1>6. e.boxes = d.boxes /\ e.nodes = n /\ e.links = l
  BY <1>1, MadeIs
<1>7. OnRecord(e) \subseteq OnRecord(d)
  <2>1. \A x \in Wired(e) : x \in OnRecord(d)
    BY <1>4, <1>6, WiredIs, Parts
  <2> QED BY <1>2, <1>6, <2>1, Parts DEF OnRecord
<1> QED BY <1>1, <1>5, <1>6, <1>7, MadeKeeps DEF e

\* A key takes another's place at the ends of wires.
LEMMA LinksRekeyedIs ==
    ASSUME NEW d, Whole(d), NEW old, NEW new \in Things
    PROVE  LET l == LinksRekeyed(d.links, old, new)
           IN  /\ l \in [DOMAIN l -> Links] /\ DOMAIN l = DOMAIN d.links
               /\ \A i \in DOMAIN l : EndsOf(l[i]) \subseteq (EndsOf(d.links[i]) \ {old}) \cup {new}
<1> DEFINE l == LinksRekeyed(d.links, old, new)
<1>1. /\ DOMAIN l = DOMAIN d.links /\ l = [i \in DOMAIN d.links |-> l[i]]
      /\ \A i \in DOMAIN l : l[i] = [d.links[i] EXCEPT !.a = Renamed(d.links[i].a, old, new),
                                                      !.b = Renamed(d.links[i].b, old, new)]
  BY DEF LinksRekeyed
<1>2. ASSUME NEW m \in Links
      PROVE  LET r == [m EXCEPT !.a = Renamed(m.a, old, new), !.b = Renamed(m.b, old, new)]
             IN  r \in Links /\ EndsOf(r) \subseteq (EndsOf(m) \ {old}) \cup {new}
  <2>1. /\ Renamed(m.a, old, new) \in Things /\ Renamed(m.b, old, new) \in Things
        /\ Renamed(m.a, old, new) \in ({m.a} \ {old}) \cup {new}
        /\ Renamed(m.b, old, new) \in ({m.b} \ {old}) \cup {new}
    BY DEF Renamed, Links
  <2> QED BY <2>1 DEF Links, EndsOf
<1> HIDE DEF l
<1>3. ASSUME NEW i \in DOMAIN l
      PROVE  l[i] \in Links /\ EndsOf(l[i]) \subseteq (EndsOf(d.links[i]) \ {old}) \cup {new}
  <2>1. d.links[i] \in Links
    BY <1>1, Parts, ZenonT(60)
  <2> QED BY <1>1, <1>2, <2>1
<1>4. l \in [DOMAIN l -> Links]
  BY <1>1, <1>3
<1> QED BY <1>1, <1>3, <1>4, ZenonT(60) DEF l

LEMMA RekeyKeeps ==
    ASSUME NEW d, Whole(d), NEW old \in Devices, NEW new \in Devices, old # new, NEW ks, ks = {new}
    PROVE  LET e == Rekey(d, old, new)
           IN  /\ Keeps(d, e, ks) /\ old \notin OnRecord(e) /\ e.boxes = d.boxes
               /\ OnRecord(e) \subseteq OnRecord(d) \cup {new}
<1> DEFINE n == NodesRekeyed(d.nodes, old, new)
           l == LinksRekeyed(d.links, old, new)
           e == Rekey(d, old, new)
<1>1. e = Made(d.groups, d.boxes, n, l, d.dismissed)
  <2>1. d = [groups |-> d.groups, boxes |-> d.boxes, nodes |-> d.nodes, links |-> d.links, dismissed |-> d.dismissed]
    BY RecordIs
  <2>2. e = [d EXCEPT !.nodes = n, !.links = l]
    BY DEF Rekey
  <2> HIDE DEF e, n, l
  <2> QED BY <2>1, <2>2 DEF Made
<1>2. /\ n \in [DOMAIN n -> Spots] /\ DOMAIN n \subseteq (DOMAIN d.nodes \ {old}) \cup {new}
      /\ \A k \in DOMAIN n : n[k].group \in d.groups \cup {Nil}
  BY Parts DEF NodesRekeyed, Whole
<1>3. /\ l \in [DOMAIN l -> Links] /\ DOMAIN l = DOMAIN d.links
      /\ \A i \in DOMAIN l : EndsOf(l[i]) \subseteq (EndsOf(d.links[i]) \ {old}) \cup {new}
  BY LinksRekeyedIs, Things3
<1> HIDE DEF n, l, e
<1>4. new \notin Boxes
  BY Things3
<1>5. Fits(d, ks, d.groups, d.boxes, n, l, d.dismissed)
  <2>1. /\ DOMAIN n \subseteq OnRecord(d) \cup ks \cup Boxes /\ DOMAIN n \cap Boxes \subseteq d.boxes
    BY <1>2, <1>4, Parts DEF Whole
  <2>2. \A i \in DOMAIN l : /\ EndsOf(l[i]) \cap Boxes \subseteq d.boxes
                            /\ EndsOf(l[i]) \subseteq OnRecord(d) \cup ks \cup Boxes
    BY <1>3, <1>4, Parts DEF Whole
  <2> QED BY <1>2, <1>3, <2>1, <2>2, Parts DEF Fits
<1>6. e.boxes = d.boxes /\ e.nodes = n /\ e.links = l
  BY <1>1, MadeIs
<1>7. old \notin OnRecord(e) /\ OnRecord(e) \subseteq OnRecord(d) \cup {new}
  <2>1. \A x \in Wired(e) : x # old /\ x \in OnRecord(d) \cup {new}
    <3>1. \A i \in DOMAIN l : EndsOf(l[i]) \subseteq (OnRecord(d) \ {old}) \cup {new}
      BY <1>3, Parts
    <3> QED BY <1>6, <3>1, WiredIs
  <2> QED BY <1>2, <1>6, <2>1, Parts DEF OnRecord
<1> QED BY <1>1, <1>5, <1>6, <1>7, MadeKeeps DEF e

LEMMA ReplacedKeeps ==
    ASSUME NEW d, Whole(d), NEW v \in d.boxes, NEW k \in Devices, NEW ks, ks \subseteq Devices, k \in ks
    PROVE  Keeps(d, Replaced(d, v, k), ks) /\ Replaced(d, v, k).boxes \subseteq d.boxes
<1> DEFINE was   == IF v \in DOMAIN d.nodes THEN d.nodes[v] ELSE Unplaced
           is    == IF k \in DOMAIN d.nodes THEN d.nodes[k] ELSE Unplaced
           moved == LinksRekeyed(d.links, v, k)
           loops == {i \in DOMAIN moved : moved[i].a = moved[i].b}
           spot  == [group |-> IF is.group = Nil THEN was.group ELSE is.group, hidden |-> FALSE]
           rest  == Restrict(d.nodes, DOMAIN d.nodes \ {v})
           n     == [WithNodes(rest, {k}) EXCEPT ![k] = spot]
           l     == Cut(moved, loops)
           e     == Replaced(d, v, k)
<1>1. e = Made(d.groups, d.boxes \ {v}, n, l, d.dismissed)
  <2>1. d = [groups |-> d.groups, boxes |-> d.boxes, nodes |-> d.nodes, links |-> d.links, dismissed |-> d.dismissed]
    BY RecordIs
  <2>2. e = [d EXCEPT !.boxes = d.boxes \ {v}, !.nodes = n, !.links = l]
    BY DEF Replaced
  <2> HIDE DEF e, n, l
  <2> QED BY <2>1, <2>2 DEF Made
<1>2. was.group \in d.groups \cup {Nil} /\ is.group \in d.groups \cup {Nil}
  BY DEF Unplaced, Whole
<1> HIDE DEF was, is
<1>3. spot \in Spots /\ spot.group \in d.groups \cup {Nil}
  BY <1>2, Parts DEF Spots
<1> HIDE DEF spot
<1>4. /\ n \in [DOMAIN n -> Spots] /\ DOMAIN n = (DOMAIN d.nodes \ {v}) \cup {k}
      /\ \A j \in DOMAIN n : n[j].group \in d.groups \cup {Nil}
  <2>1. DOMAIN d.nodes \ {v} \subseteq DOMAIN d.nodes
    OBVIOUS
  <2>2. /\ rest \in [DOMAIN rest -> Spots] /\ DOMAIN rest = DOMAIN d.nodes \ {v}
        /\ \A j \in DOMAIN rest : rest[j].group \in d.groups \cup {Nil}
    <3>1. /\ rest \in [DOMAIN rest -> Spots] /\ DOMAIN rest = DOMAIN d.nodes \ {v}
          /\ \A j \in DOMAIN rest : rest[j] = d.nodes[j]
      BY <2>1, RestrictIs
    <3> HIDE DEF rest
    <3> QED BY <3>1 DEF Whole
  <2> HIDE DEF rest
  <2>3. /\ DOMAIN n = DOMAIN rest \cup {k}
        /\ \A j \in DOMAIN n : n[j] = IF j = k THEN spot ELSE rest[j]
        /\ n = [j \in DOMAIN n |-> n[j]]
    BY DEF WithNodes
  <2> HIDE DEF n
  <2>4. \A j \in DOMAIN n : n[j] \in Spots /\ n[j].group \in d.groups \cup {Nil}
    BY <1>3, <2>2, <2>3
  <2> QED BY <2>2, <2>3, <2>4
<1>5. /\ moved \in [DOMAIN moved -> Links] /\ DOMAIN moved = DOMAIN d.links
      /\ \A i \in DOMAIN moved : EndsOf(moved[i]) \subseteq (EndsOf(d.links[i]) \ {v}) \cup {k}
  BY LinksRekeyedIs, Things3
<1> HIDE DEF moved, loops, n
<1>6. /\ l \in [DOMAIN l -> Links] /\ DOMAIN l \subseteq DOMAIN d.links
      /\ \A i \in DOMAIN l : EndsOf(l[i]) \subseteq (EndsOf(d.links[i]) \ {v}) \cup {k}
  BY <1>5 DEF Cut, Restrict
<1> HIDE DEF l, e
<1>7. k \notin Boxes
  BY Things3
<1>8. Fits(d, ks, d.groups, d.boxes \ {v}, n, l, d.dismissed)
  <2>1. /\ DOMAIN n \subseteq OnRecord(d) \cup ks \cup Boxes /\ DOMAIN n \cap Boxes \subseteq d.boxes \ {v}
    BY <1>4, <1>7, Parts DEF Whole
  <2>2. \A i \in DOMAIN l : /\ EndsOf(l[i]) \cap Boxes \subseteq d.boxes \ {v}
                            /\ EndsOf(l[i]) \subseteq OnRecord(d) \cup ks \cup Boxes
    BY <1>6, <1>7, Parts DEF Whole
  <2> QED BY <1>4, <1>6, <2>1, <2>2, Parts DEF Fits
<1> QED BY <1>1, <1>8, MadeIs, MadeKeeps DEF e

LEMMA LinkEditKeeps ==
    ASSUME NEW d, Whole(d), NEW i \in DOMAIN d.links, NEW m \in Links, EndsOf(m) = EndsOf(d.links[i]),
           NEW ks, ks = {}, NEW e, e = [d EXCEPT !.links = [d.links EXCEPT ![i] = m]]
    PROVE  Keeps(d, e, ks) /\ e.boxes = d.boxes /\ e.dismissed = d.dismissed
<1> DEFINE l == [d.links EXCEPT ![i] = m]
<1>1. e = Made(d.groups, d.boxes, d.nodes, l, d.dismissed)
  <2>1. d = [groups |-> d.groups, boxes |-> d.boxes, nodes |-> d.nodes, links |-> d.links, dismissed |-> d.dismissed]
    BY RecordIs
  <2>2. e = [d EXCEPT !.links = l]
    OBVIOUS
  <2> HIDE DEF l
  <2> QED BY <2>1, <2>2 DEF Made
<1>2. /\ l \in [DOMAIN l -> Links] /\ DOMAIN l = DOMAIN d.links
      /\ \A j \in DOMAIN l : EndsOf(l[j]) = EndsOf(d.links[j])
  BY Parts
<1> HIDE DEF l
<1>3. Fits(d, ks, d.groups, d.boxes, d.nodes, l, d.dismissed)
  BY <1>2, Parts DEF Fits, Whole
<1> QED BY <1>1, <1>3, MadeIs, MadeKeeps

LEMMA GroupAddedKeeps ==
    ASSUME NEW d, Whole(d), NEW g \in Groups, NEW ks, ks = {}, NEW e, e = [d EXCEPT !.groups = d.groups \cup {g}]
    PROVE  Keeps(d, e, ks) /\ e.boxes = d.boxes
<1>1. e = Made(d.groups \cup {g}, d.boxes, d.nodes, d.links, d.dismissed)
  <2>1. d = [groups |-> d.groups, boxes |-> d.boxes, nodes |-> d.nodes, links |-> d.links, dismissed |-> d.dismissed]
    BY RecordIs
  <2> QED BY <2>1 DEF Made
<1>2. Fits(d, ks, d.groups \cup {g}, d.boxes, d.nodes, d.links, d.dismissed)
  BY Parts DEF Fits, Whole
<1>3. Keeps(d, e, ks)
  BY <1>1, <1>2, MadeKeeps
<1>4. e.boxes = d.boxes
  BY <1>1, MadeIs
<1> QED BY <1>3, <1>4

LEMMA DismissedKeeps ==
    ASSUME NEW d, Whole(d), NEW s, s \subseteq SuggestionIds, NEW e, e = [d EXCEPT !.dismissed = s]
    PROVE  /\ Whole(e) /\ OnRecord(e) = OnRecord(d) /\ e.boxes = d.boxes /\ e.dismissed = s
           /\ e.links = d.links
<1>1. /\ e.boxes = d.boxes /\ e.dismissed = s /\ e.links = d.links /\ e.nodes = d.nodes /\ e.groups = d.groups
      /\ e \in Diagrams
  BY DEF Whole, Diagrams
<1>2. Whole(e)
  BY <1>1 DEF Whole
<1>3. OnRecord(e) = OnRecord(d)
  BY <1>1 DEF OnRecord, Wired
<1> QED BY <1>1, <1>2, <1>3

LEMMA InsertKeeps ==
    ASSUME NEW d, Whole(d), NEW known, known \subseteq Devices, NEW s \in Proven, NEW v \in Boxes,
           NEW members, members \subseteq s.to, members # {}
    PROVE  LET e == Insert(d, known, s, v, members)
           IN  /\ e.ok \in BOOLEAN /\ Keeps(d, e.doc, known)
               /\ e.doc.boxes \subseteq d.boxes \cup {v}
               /\ e.ok => /\ s \in e.doc.dismissed
                          /\ \E i \in DOMAIN e.doc.links : EndsOf(e.doc.links[i]) = {s.unit, v}
                          /\ \E j \in DOMAIN e.doc.links :
                                v \in EndsOf(e.doc.links[j]) /\ EndsOf(e.doc.links[j]) \cap s.to # {}
               /\ ~e.ok => e.doc = d
<1> DEFINE group == IF s.unit \in DOMAIN d.nodes THEN d.nodes[s.unit].group ELSE Nil
           upper == Link(s.unit, s.port, v, Nil, Nil)
           f     == [k \in members |-> Link(v, Nil, k, Nil, Nil)]
           down  == {Link(v, Nil, k, Nil, Nil) : k \in members}
           ls    == {upper} \cup down
           boxed == CreateBox(d, v, group).doc
           wired == CreateAll(boxed, known, ls)
           w     == wired.doc
           end   == [w EXCEPT !.dismissed = w.dismissed \cup {s}]
           e     == Insert(d, known, s, v, members)
<1>1. e = IF wired.ok THEN Goes(end) ELSE Refuse(d)
  BY DEF Insert
<1>2. group \in d.groups \cup {Nil}
  BY DEF Whole
<1>3. /\ Keeps(d, boxed, {}) /\ boxed.boxes = d.boxes \cup {v} /\ boxed.dismissed = d.dismissed
  <2> HIDE DEF group
  <2> QED BY <1>2, CreateBoxKeeps
<1>4. /\ s.unit \in Things /\ s.port \in Ports /\ v \in Things /\ members \subseteq MacKeys /\ MacKeys \subseteq Things
      /\ s \in SuggestionIds /\ s.to \subseteq MacKeys
  BY TopologyAssumption DEF Proven, SuggestionIds, Things, Devices
<1>5. upper \in Links /\ down \subseteq Links
  BY <1>4 DEF Link, Links
<1>6. IsFiniteSet(ls)
  <2>1. IsFiniteSet(members)
    BY <1>4, TopologyAssumption, FS_Subset
  <2>2. down = {f[k] : k \in members} /\ DOMAIN f = members
    OBVIOUS
  <2>3. IsFiniteSet(down)
    <3> HIDE DEF down, f
    <3> QED BY <2>1, <2>2, ImageFinite
  <2>4. ls = down \cup {upper}
    OBVIOUS
  <2> HIDE DEF ls, down, upper
  <2> QED BY <2>3, <2>4, FS_AddElement
<1>7. ls \subseteq Links /\ upper \in ls /\ \A k \in members : Link(v, Nil, k, Nil, Nil) \in ls
  BY <1>5
<1>8. EndsOf(upper) = {s.unit, v} /\ \A k \in members : EndsOf(Link(v, Nil, k, Nil, Nil)) = {v, k}
  BY DEF Link, EndsOf
<1> HIDE DEF boxed, ls, upper
<1>9. Drawn(boxed, known, ls, wired)
  BY <1>3, <1>6, <1>7, CreateAllShape DEF Keeps
<1> HIDE DEF wired, e
<1>10. /\ Whole(w) /\ w.boxes = d.boxes \cup {v} /\ w.dismissed = d.dismissed
       /\ OnRecord(w) \subseteq OnRecord(d) \cup known \cup Boxes
       /\ wired.ok \in BOOLEAN
  BY <1>3, <1>9 DEF Drawn, Draws, Keeps
<1>11. CASE wired.ok
  <2> HIDE DEF w
  <2>1. e.ok = TRUE /\ e.doc = end
    BY <1>1, <1>11 DEF Goes
  <2>2. w.dismissed \cup {s} \subseteq SuggestionIds
    BY <1>4, <1>10, Parts
  <2>3. /\ Whole(end) /\ OnRecord(end) = OnRecord(w) /\ end.boxes = w.boxes
        /\ end.dismissed = w.dismissed \cup {s} /\ end.links = w.links
    BY <1>10, <2>2, DismissedKeeps
  <2> HIDE DEF end
  <2>4. Keeps(d, end, known)
    BY <1>10, <2>3 DEF Keeps
  <2>5. PICK i \in DOMAIN w.links : w.links[i] = upper
    BY <1>7, <1>9, <1>11 DEF Drawn, w
  <2>6. PICK k : k \in members
    OBVIOUS
  <2>7. PICK j \in DOMAIN w.links : w.links[j] = Link(v, Nil, k, Nil, Nil)
    BY <1>7, <1>9, <1>11, <2>6 DEF Drawn, w
  <2>8. \E x \in DOMAIN end.links : EndsOf(end.links[x]) = {s.unit, v}
    BY <1>8, <2>3, <2>5
  <2>9. \E x \in DOMAIN end.links : v \in EndsOf(end.links[x]) /\ EndsOf(end.links[x]) \cap s.to # {}
    BY <1>8, <2>3, <2>6, <2>7
  <2>10. end.boxes \subseteq d.boxes \cup {v} /\ s \in end.dismissed
    BY <1>10, <2>3
  <2> QED BY <2>1, <2>4, <2>8, <2>9, <2>10 DEF e
<1>12. CASE ~wired.ok
  <2>1. e.ok = FALSE /\ e.doc = d
    BY <1>1, <1>12 DEF Refuse
  <2>2. Keeps(d, d, known)
    BY DEF Keeps
  <2> QED BY <2>1, <2>2 DEF e
<1> QED BY <1>10, <1>11, <1>12

(***************************************************************************)
(* The inductive invariant. A request holds devices and proven wires only. *)
(* Whom the scanner is telling of is still listed, and on the diagram only *)
(* when a request drew it since (Telling). What was refused is dismissed.  *)
(***************************************************************************)
Requesting ==
    /\ request.step \in {"idle", "read", "picked"}
    /\ request.step # "idle" => request.devices \subseteq Devices
    /\ request.step = "read" => request.tables \in Tables
    /\ request.step = "picked" => request.sugs \subseteq Proven

Telling ==
    /\ telling.kind \in {"none", "rekey", "forget"}
    /\ telling.kind # "none" => /\ telling.key \in devices
                                /\ telling.key \in OnRecord(doc) => telling.key \in late
    /\ telling.kind = "rekey" => <<telling.key, telling.new>> \in Moves

Listing == devices \subseteq Devices /\ adrift \subseteq Devices /\ late \subseteq Devices /\ learned \in Tables

DiagramInv == Whole(doc) /\ Listing /\ Requesting /\ Telling /\ NothingDangles /\ refused \subseteq doc.dismissed

LEMMA DiagramInit == TInit => DiagramInv
<1> SUFFICES ASSUME TInit PROVE DiagramInv
  OBVIOUS
<1>1. /\ doc.groups = {} /\ doc.boxes = {} /\ doc.nodes = <<>> /\ doc.links = <<>> /\ doc.dismissed = {}
      /\ doc = [groups |-> doc.groups, boxes |-> doc.boxes, nodes |-> doc.nodes, links |-> doc.links,
                dismissed |-> doc.dismissed]
  BY DEF TInit, Blank
<1>2. DOMAIN doc.nodes = {} /\ DOMAIN doc.links = {} /\ doc.nodes \in [{} -> Spots] /\ doc.links \in [{} -> Links]
  BY <1>1
<1>3. Whole(doc)
  BY <1>1, <1>2, WholeBy
<1>4. OnRecord(doc) = {}
  BY <1>2, WiredIs DEF OnRecord
<1>5. /\ devices = AtFirst /\ telling.kind = "none" /\ learned \in Tables /\ request.step = "idle"
      /\ adrift = {} /\ late = {} /\ refused = {}
  BY DEF TInit, Nothing, NoRequest
<1>6. AtFirst \subseteq Devices
  BY TopologyAssumption DEF Devices
<1> QED BY <1>3, <1>4, <1>5, <1>6 DEF DiagramInv, Listing, Requesting, Telling, NothingDangles

\* An edit by a person or by the page, made for devices ks that were listed when it was asked.
EditOf(ks) ==
    /\ Whole(doc') /\ OnRecord(doc') \subseteq OnRecord(doc) \cup ks \cup Boxes
    /\ UNCHANGED <<devices, telling, learned, adrift>>
    /\ late' = late \cup ((ks \ (devices \ Leaving)) \cap (OnRecord(doc') \ OnRecord(doc)))
    /\ refused' \subseteq doc'.dismissed

LEMMA EditStep ==
    ASSUME DiagramInv, NEW ks, ks \subseteq Devices, EditOf(ks), Requesting'
    PROVE  DiagramInv'
<1> USE DEF DiagramInv
<1>1. Listing'
  BY DEF Listing, EditOf
<1>2. \A k \in Devices : k \in OnRecord(doc') /\ k \notin OnRecord(doc) => k \in ks
  BY Things3 DEF EditOf
<1>3. Telling'
  <2>1. telling.kind # "none" => Leaving = {telling.key}
    BY DEF Leaving
  <2>2. telling.kind # "none" /\ telling.key \in OnRecord(doc') => telling.key \in late'
    BY <1>2, <2>1 DEF Telling, EditOf, Listing
  <2> QED BY <2>2 DEF Telling, EditOf
<1>4. NothingDangles'
  BY <1>2 DEF NothingDangles, EditOf
<1> QED BY <1>1, <1>3, <1>4 DEF EditOf

LEMMA RequestStep ==
    ASSUME DiagramInv, Keeps(doc, doc', Known), Known \subseteq Devices, NoteLate(Known), Replies
    PROVE  DiagramInv'
<1>1. EditOf(Known)
  BY DEF EditOf, Keeps, NoteLate, Replies, DiagramInv
<1>2. Requesting'
  BY DEF Requesting, Replies, NoRequest
<1> QED BY <1>1, <1>2, EditStep

LEMMA PlainStep ==
    ASSUME DiagramInv, NEW ks, ks = {}, Keeps(doc, doc', ks), UNCHANGED <<devices, telling, learned, adrift, late>>,
           refused' \subseteq doc'.dismissed, Requesting'
    PROVE  DiagramInv'
<1>1. EditOf(ks)
  BY DEF EditOf, Keeps
<1> QED BY <1>1, EditStep

LEMMA EditedStep ==
    ASSUME DiagramInv, NEW ks, ks = {}, Keeps(doc, doc', ks), EditedOnly
    PROVE  DiagramInv'
<1>1. refused' \subseteq doc'.dismissed
  BY DEF Keeps, EditedOnly, DiagramInv
<1>2. Requesting'
  BY DEF Requesting, EditedOnly, Edited, DiagramInv
<1> QED BY <1>1, <1>2, PlainStep DEF EditedOnly, Edited

\* The actions one by one.
LEMMA KeepsTwice ==
    ASSUME NEW d, NEW e, NEW f, NEW ks, Keeps(d, e, ks), Keeps(e, f, ks)
    PROVE  Keeps(d, f, ks)
BY DEF Keeps

\* Everything on the diagram gets a place.
LEMMA WithNodesKeeps ==
    ASSUME NEW d, Whole(d), NEW ks, ks \subseteq Devices, NEW S, S \subseteq ks \cup d.boxes,
           NEW e, e = [d EXCEPT !.nodes = WithNodes(d.nodes, S)]
    PROVE  Keeps(d, e, ks) /\ e.boxes = d.boxes /\ e.links = d.links
<1> DEFINE n == WithNodes(d.nodes, S)
<1>1. e = Made(d.groups, d.boxes, n, d.links, d.dismissed)
  <2>1. d = [groups |-> d.groups, boxes |-> d.boxes, nodes |-> d.nodes, links |-> d.links, dismissed |-> d.dismissed]
    BY RecordIs
  <2>2. e = [d EXCEPT !.nodes = n]
    OBVIOUS
  <2> HIDE DEF n
  <2> QED BY <2>1, <2>2 DEF Made
<1>2. /\ DOMAIN n = DOMAIN d.nodes \cup S /\ n = [k \in DOMAIN n |-> n[k]]
      /\ \A k \in DOMAIN n : n[k] = IF k \in DOMAIN d.nodes THEN d.nodes[k] ELSE Unplaced
  BY DEF WithNodes
<1> HIDE DEF n
<1>3. Unplaced \in Spots /\ Unplaced.group = Nil
  BY DEF Unplaced, Spots
<1>4. n \in [DOMAIN n -> Spots] /\ \A k \in DOMAIN n : n[k].group \in d.groups \cup {Nil}
  <2>1. \A k \in DOMAIN n : n[k] \in Spots /\ n[k].group \in d.groups \cup {Nil}
    BY <1>2, <1>3, Parts DEF Whole
  <2> QED BY <1>2, <2>1
<1>5. S \cap Boxes \subseteq d.boxes
  BY Things3
<1>6. Fits(d, ks, d.groups, d.boxes, n, d.links, d.dismissed)
  <2>1. /\ DOMAIN n \subseteq OnRecord(d) \cup ks \cup Boxes /\ DOMAIN n \cap Boxes \subseteq d.boxes
    BY <1>2, <1>5, Parts DEF Whole
  <2>2. \A i \in DOMAIN d.links : /\ EndsOf(d.links[i]) \cap Boxes \subseteq d.boxes
                                  /\ EndsOf(d.links[i]) \subseteq OnRecord(d) \cup ks \cup Boxes
    BY Parts DEF Whole
  <2> QED BY <1>4, <2>1, <2>2, Parts DEF Fits
<1> QED BY <1>1, <1>6, MadeIs, MadeKeeps

LEMMA KnownIs == ASSUME DiagramInv, Asked \/ request.step = "picked" PROVE Known \subseteq Devices
BY DEF DiagramInv, Requesting, Asked, Known

LEMMA DrawStep ==
    ASSUME DiagramInv, Draw
    PROVE  /\ DiagramInv' /\ doc'.boxes \subseteq doc.boxes
           /\ \A i \in DOMAIN doc'.links : i \in DOMAIN doc.links \/ doc'.links[i].sug \notin doc.dismissed
<1> DEFINE sugs == Suggestions(doc, Known, request.tables)
           drawn == AcceptAll(doc, Known, sugs)
           S == OnDiagram(drawn, Known)
<1>1. Known \subseteq Devices /\ request.tables \in Tables /\ Whole(doc)
  BY KnownIs DEF DiagramInv, Requesting, Draw, Asked
<1>2. sugs \subseteq Proven /\ sugs \cap doc.dismissed = {}
  BY <1>1, SuggestedIs
<1>3. doc' = [drawn EXCEPT !.nodes = WithNodes(drawn.nodes, S)]
  BY DEF Draw
<1> HIDE DEF sugs
<1>4. /\ Keeps(doc, drawn, Known) /\ drawn.boxes = doc.boxes
      /\ \A i \in DOMAIN drawn.links : i \in DOMAIN doc.links \/ drawn.links[i].sug \in sugs
  BY <1>1, <1>2, AcceptAllShape
<1> HIDE DEF drawn
<1>5. S \subseteq Known \cup drawn.boxes
  BY DEF OnDiagram
<1> HIDE DEF S
<1>6. Keeps(drawn, doc', Known) /\ doc'.boxes = drawn.boxes /\ doc'.links = drawn.links
  BY <1>1, <1>3, <1>4, <1>5, WithNodesKeeps DEF Keeps
<1>7. Keeps(doc, doc', Known)
  BY <1>4, <1>6, KeepsTwice
<1>8. DiagramInv'
  BY <1>1, <1>7, RequestStep DEF Draw, Answered
<1> QED BY <1>2, <1>4, <1>6, <1>8

LEMMA PickSteps ==
    ASSUME DiagramInv, PickOne \/ PickAll
    PROVE  DiagramInv' /\ doc' = doc
<1> DEFINE all == Suggestions(doc, Known, request.tables)
<1>1. Asked /\ UNCHANGED <<doc, devices, telling, learned, adrift, late, refused>>
  BY DEF PickOne, PickAll
<1>2. Known \subseteq Devices /\ request.tables \in Tables
  BY <1>1, KnownIs DEF DiagramInv, Requesting, Asked
<1>3. all \subseteq Proven
  BY <1>2, SuggestedIs
<1>4. \E sugs \in SUBSET all : request' = [step |-> "picked", devices |-> Known, sugs |-> sugs]
  <2>1. CASE PickOne
    BY <2>1 DEF PickOne
  <2>2. CASE PickAll
    BY <2>2 DEF PickAll, Wires
  <2> QED BY <2>1, <2>2
<1> HIDE DEF all
<1>5. Requesting'
  BY <1>2, <1>3, <1>4 DEF Requesting
<1> QED BY <1>1, <1>5 DEF DiagramInv, Listing, Telling, NothingDangles, Leaving

LEMMA AcceptStep ==
    ASSUME DiagramInv, AcceptPicked
    PROVE  DiagramInv' /\ doc'.boxes \subseteq doc.boxes
<1>1. Known \subseteq Devices /\ request.sugs \subseteq Proven /\ Whole(doc)
  BY KnownIs DEF DiagramInv, Requesting, AcceptPicked
<1>2. Keeps(doc, doc', Known) /\ doc'.boxes = doc.boxes
  BY <1>1, AcceptAllShape DEF AcceptPicked
<1> QED BY <1>1, <1>2, RequestStep DEF AcceptPicked, Answered

\* What ChangesWhole says of one step.
Settled(d, e) ==
    \A v \in (e.boxes \ d.boxes) \cap Wired(e) :
        \E s \in e.dismissed, i, j \in DOMAIN e.links :
            /\ s.kind = "shared"
            /\ EndsOf(e.links[i]) = {s.unit, v}
            /\ v \in EndsOf(e.links[j]) /\ EndsOf(e.links[j]) \cap s.to # {}

LEMMA InsertStep ==
    ASSUME DiagramInv, NEW v \in Boxes, NEW ks \in SUBSET MacKeys, InsertBox(v, ks)
    PROVE  DiagramInv' /\ Settled(doc, doc')
<1>1. Known \subseteq Devices /\ request.sugs \subseteq Proven /\ Whole(doc)
  BY KnownIs DEF DiagramInv, Requesting, InsertBox
<1>2. PICK s \in request.sugs :
          s.kind = "shared" /\ ks # {} /\ ks \subseteq s.to /\ Mutate(Insert(doc, Known, s, v, ks))
  BY DEF InsertBox
<1> DEFINE e == Insert(doc, Known, s, v, ks)
<1>3. /\ e.ok \in BOOLEAN /\ Keeps(doc, e.doc, Known)
      /\ e.doc.boxes \subseteq doc.boxes \cup {v}
      /\ e.ok => /\ s \in e.doc.dismissed
                 /\ \E i \in DOMAIN e.doc.links : EndsOf(e.doc.links[i]) = {s.unit, v}
                 /\ \E j \in DOMAIN e.doc.links :
                       v \in EndsOf(e.doc.links[j]) /\ EndsOf(e.doc.links[j]) \cap s.to # {}
      /\ ~e.ok => e.doc = doc
  <2>1. s \in Proven /\ ks \subseteq s.to /\ ks # {} /\ Known \subseteq Devices
    BY <1>1, <1>2
  <2> HIDE DEF e
  <2> QED BY <1>1, <2>1, InsertKeeps DEF e
<1>4. doc' = IF e.ok THEN e.doc ELSE doc
  BY <1>2 DEF Mutate, Outcome
<1> HIDE DEF e
<1>5. doc' = e.doc
  BY <1>3, <1>4
<1>6. DiagramInv'
  BY <1>1, <1>3, <1>5, RequestStep DEF InsertBox, Answered
<1>7. Settled(doc, doc')
  <2>1. CASE e.ok
    BY <1>2, <1>3, <1>5, <2>1 DEF Settled
  <2>2. CASE ~e.ok
    BY <1>3, <1>5, <2>2 DEF Settled
  <2> QED BY <1>3, <2>1, <2>2
<1> QED BY <1>6, <1>7

LEMMA ConnectStep ==
    ASSUME DiagramInv, NEW a \in Things, NEW b \in Things, ConnectTwo(a, b)
    PROVE  DiagramInv' /\ doc'.boxes \subseteq doc.boxes
<1> DEFINE l == Link(a, Nil, b, Nil, Nil)
           e == CreateLink(doc, Known, l)
<1>1. Known \subseteq Devices /\ Whole(doc)
  BY KnownIs DEF DiagramInv, ConnectTwo
<1>2. l \in Links
  BY DEF Link, Links
<1>3. Mutate(e)
  BY DEF ConnectTwo
<1> HIDE DEF l
<1>4. e.ok \in BOOLEAN /\ Keeps(doc, e.doc, Known) /\ Draws(doc, e.doc, {l})
  BY <1>1, <1>2, CreateLinkShape
<1> HIDE DEF e
<1>5. doc' = IF e.ok THEN e.doc ELSE doc
  BY <1>3 DEF Mutate, Outcome
<1>6. Keeps(doc, doc, Known)
  BY <1>1 DEF Keeps
<1>7. Keeps(doc, doc', Known) /\ doc'.boxes = doc.boxes
  BY <1>4, <1>5, <1>6 DEF Draws
<1> QED BY <1>1, <1>7, RequestStep DEF ConnectTwo

LEMMA PlaceSteps ==
    ASSUME DiagramInv, NEW k, Hide(k) \/ \E g \in Groups \cup {Nil} : Place(k, g)
    PROVE  DiagramInv' /\ doc'.boxes \subseteq doc.boxes
<1>1. /\ Asked /\ NoteLate(Known) /\ Replies /\ k \in Known \cup doc.boxes
      /\ \/ doc' = Hidden(doc, k)
         \/ \E g \in doc.groups \cup {Nil} : doc' = Placed(doc, k, g)
  BY DEF Hide, Place
<1>2. Known \subseteq Devices /\ Whole(doc)
  BY <1>1, KnownIs DEF DiagramInv
<1>3. Keeps(doc, doc', Known)
  BY <1>1, <1>2, HiddenKeeps, PlacedKeeps
<1>4. doc'.boxes = doc.boxes
  <2>1. doc \in Diagrams
    BY <1>2 DEF Whole
  <2>2. Hidden(doc, k).boxes = doc.boxes
    BY <2>1 DEF Hidden, Diagrams
  <2>3. \A g : Placed(doc, k, g).boxes = doc.boxes
    BY <2>1 DEF Placed, Diagrams
  <2> QED BY <1>1, <2>2, <2>3
<1> QED BY <1>1, <1>2, <1>3, <1>4, RequestStep

LEMMA TakeOverStep ==
    ASSUME DiagramInv, NEW v \in Boxes, NEW k \in Devices, TakeOver(v, k)
    PROVE  DiagramInv' /\ doc'.boxes \subseteq doc.boxes
<1>1. Known \subseteq Devices /\ Whole(doc)
  BY KnownIs DEF DiagramInv, TakeOver
<1>2. Keeps(doc, doc', Known) /\ doc'.boxes \subseteq doc.boxes
  BY <1>1, ReplacedKeeps DEF TakeOver
<1> QED BY <1>1, <1>2, RequestStep DEF TakeOver

LEMMA ClearStep ==
    ASSUME DiagramInv, ClearOrphans
    PROVE  DiagramInv' /\ doc'.boxes \subseteq doc.boxes
<1>1. Whole(doc)
  BY DEF DiagramInv
<1>2. Keeps(doc, doc', {}) /\ OnRecord(doc') \subseteq OnRecord(doc)
  BY <1>1, ClearedKeeps DEF ClearOrphans
<1>3. doc'.boxes = doc.boxes
  BY <1>1 DEF ClearOrphans, Cleared, Whole, Diagrams
<1>4. refused' \subseteq doc'.dismissed
  BY <1>2 DEF ClearOrphans, Replies, DiagramInv, Keeps
<1>5. Requesting'
  BY DEF Requesting, ClearOrphans, Replies, NoRequest
<1> QED BY <1>2, <1>3, <1>4, <1>5, PlainStep DEF ClearOrphans, Replies

LEMMA GroupSteps ==
    ASSUME DiagramInv, NEW g \in Groups, AddGroup(g) \/ DropGroup(g)
    PROVE  DiagramInv' /\ doc'.boxes \subseteq doc.boxes
<1>1. Whole(doc) /\ EditedOnly
  BY DEF DiagramInv, AddGroup, DropGroup
<1>2. Keeps(doc, doc', {}) /\ doc'.boxes = doc.boxes
  <2>1. CASE AddGroup(g)
    BY <1>1, <2>1, GroupAddedKeeps DEF AddGroup
  <2>2. CASE DropGroup(g)
    <3>1. doc' = WithoutGroup(doc, g)
      BY <2>2 DEF DropGroup
    <3>2. WithoutGroup(doc, g).boxes = doc.boxes
      BY <1>1 DEF WithoutGroup, Whole, Diagrams
    <3> QED BY <1>1, <3>1, <3>2, WithoutGroupKeeps
  <2> QED BY <2>1, <2>2
<1> QED BY <1>1, <1>2, EditedStep

LEMMA DropBoxStep ==
    ASSUME DiagramInv, NEW v \in Boxes, DropBox(v)
    PROVE  DiagramInv' /\ doc'.boxes \subseteq doc.boxes
<1>1. Whole(doc)
  BY DEF DiagramInv
<1>2. Keeps(doc, doc', {}) /\ doc'.boxes \subseteq doc.boxes
  BY <1>1, WithoutBoxKeeps DEF DropBox
<1> QED BY <1>2, EditedStep DEF DropBox

LEMMA AddBoxStep ==
    ASSUME DiagramInv, NEW v \in Boxes, NEW g, AddBox(v, g)
    PROVE  DiagramInv' /\ Settled(doc, doc')
<1> DEFINE e == CreateBox(doc, v, g)
<1>1. Whole(doc) /\ v \notin doc.boxes /\ g \in doc.groups \cup {Nil} /\ Mutate(e) /\ EditedOnly
  BY DEF DiagramInv, AddBox
<1>2. e = Goes(e.doc) /\ Keeps(doc, e.doc, {}) /\ e.doc.boxes = doc.boxes \cup {v} /\ e.doc.links = doc.links
  BY <1>1, CreateBoxKeeps
<1> HIDE DEF e
<1>3. doc' = e.doc
  <2>1. e.ok = TRUE
    BY <1>2 DEF Goes
  <2> QED BY <1>1, <2>1 DEF Mutate, Outcome
<1>4. DiagramInv'
  BY <1>1, <1>2, <1>3, EditedStep
<1>5. v \notin Wired(doc')
  <2>1. \A i \in DOMAIN doc.links : v \notin EndsOf(doc.links[i])
    BY <1>1 DEF Whole
  <2> QED BY <1>2, <1>3, <2>1, WiredIs
<1>6. Settled(doc, doc')
  BY <1>2, <1>3, <1>5 DEF Settled
<1> QED BY <1>4, <1>6

LEMMA DropLinkStep ==
    ASSUME DiagramInv, NEW i, DropLink(i)
    PROVE  DiagramInv' /\ doc'.boxes \subseteq doc.boxes
<1>1. /\ Whole(doc) /\ i \in DOMAIN doc.links /\ doc' = WithoutLink(doc, i) /\ Edited
      /\ refused' = refused \cup ({doc.links[i].sug} \ {Nil})
  BY DEF DiagramInv, DropLink
<1>2. /\ Keeps(doc, doc', {}) /\ doc'.boxes = doc.boxes
      /\ doc'.dismissed = doc.dismissed \cup ({doc.links[i].sug} \ {Nil})
  BY <1>1, WithoutLinkKeeps
<1>3. refused' \subseteq doc'.dismissed
  BY <1>1, <1>2 DEF DiagramInv
<1>4. Requesting'
  BY <1>1 DEF Requesting, Edited, DiagramInv
<1> QED BY <1>1, <1>2, <1>3, <1>4, PlainStep DEF Edited

LEMMA LinkSteps ==
    ASSUME DiagramInv, NEW i, Swap(i) \/ \E p \in Ports : NamePort(i, p)
    PROVE  DiagramInv' /\ doc'.boxes \subseteq doc.boxes
<1>1. Whole(doc) /\ i \in DOMAIN doc.links /\ EditedOnly
  BY DEF DiagramInv, Swap, NamePort
<1>2. doc.links[i] \in Links
  BY <1>1, Parts
<1>3. \E m \in Links : /\ EndsOf(m) = EndsOf(doc.links[i])
                       /\ doc' = [doc EXCEPT !.links = [doc.links EXCEPT ![i] = m]]
  <2>1. CASE Swap(i)
    <3> DEFINE l == doc.links[i]
               m == [l EXCEPT !.a = l.b, !.ap = l.bp, !.b = l.a, !.bp = l.ap]
    <3>1. doc' = [doc EXCEPT !.links = [doc.links EXCEPT ![i] = m]]
      BY <2>1 DEF Swap
    <3>2. m \in Links /\ EndsOf(m) = EndsOf(l)
      BY <1>2 DEF Links, EndsOf
    <3> QED BY <3>1, <3>2
  <2>2. ASSUME NEW p \in Ports, NamePort(i, p)
        PROVE  \E m \in Links : /\ EndsOf(m) = EndsOf(doc.links[i])
                                /\ doc' = [doc EXCEPT !.links = [doc.links EXCEPT ![i] = m]]
    <3> DEFINE l == doc.links[i]
               m == [l EXCEPT !.bp = p]
    <3>1. doc' = [doc EXCEPT !.links = [doc.links EXCEPT ![i] = m]]
      BY <2>2 DEF NamePort
    <3>2. m \in Links /\ EndsOf(m) = EndsOf(l)
      BY <1>2 DEF Links, EndsOf
    <3> QED BY <3>1, <3>2
  <2> QED BY <2>1, <2>2
<1>4. PICK m \in Links : /\ EndsOf(m) = EndsOf(doc.links[i])
                         /\ doc' = [doc EXCEPT !.links = [doc.links EXCEPT ![i] = m]]
  BY <1>3
<1>5. Keeps(doc, doc', {}) /\ doc'.boxes = doc.boxes
  BY <1>1, <1>4, LinkEditKeeps
<1> QED BY <1>1, <1>5, EditedStep

LEMMA DismissSteps ==
    ASSUME DiagramInv, \/ \E s \in SuggestionIds : Dismiss(s) \/ UndoDismiss({s})
                       \/ UndoDismiss(doc.dismissed)
    PROVE  DiagramInv' /\ doc'.boxes \subseteq doc.boxes
<1>1. Whole(doc)
  BY DEF DiagramInv
<1>2. \E S \in SUBSET SuggestionIds :
          /\ doc' = [doc EXCEPT !.dismissed = S] /\ Edited /\ refused' \subseteq S
  <2>1. ASSUME NEW s \in SuggestionIds, Dismiss(s)
        PROVE  /\ doc.dismissed \cup {s} \subseteq SuggestionIds
               /\ doc' = [doc EXCEPT !.dismissed = doc.dismissed \cup {s}] /\ Edited
               /\ refused' \subseteq doc.dismissed \cup {s}
    BY <1>1, <2>1, Parts DEF Dismiss, EditedOnly, DiagramInv
  <2>2. ASSUME NEW ss, UndoDismiss(ss)
        PROVE  /\ doc.dismissed \ ss \subseteq SuggestionIds
               /\ doc' = [doc EXCEPT !.dismissed = doc.dismissed \ ss] /\ Edited
               /\ refused' \subseteq doc.dismissed \ ss
    BY <1>1, <2>2, Parts DEF UndoDismiss, DiagramInv
  <2>3. CASE \E s \in SuggestionIds : Dismiss(s)
    BY <2>1, <2>3
  <2>4. CASE \E ss : UndoDismiss(ss)
    BY <2>2, <2>4
  <2> QED BY <2>3, <2>4
<1>3. PICK S \in SUBSET SuggestionIds :
          /\ doc' = [doc EXCEPT !.dismissed = S] /\ Edited /\ refused' \subseteq S
  BY <1>2
<1>4. Whole(doc') /\ OnRecord(doc') = OnRecord(doc) /\ doc'.boxes = doc.boxes /\ doc'.dismissed = S
  BY <1>1, <1>3, DismissedKeeps
<1>5. EditOf({})
  BY <1>3, <1>4 DEF EditOf, Edited
<1>6. Requesting'
  BY <1>3 DEF Requesting, Edited, DiagramInv
<1>7. DiagramInv'
  BY <1>5, <1>6, EditStep
<1> QED BY <1>4, <1>7

\* A device of the scanner's that the diagram is told of.
LEMMA GainsStep ==
    ASSUME DiagramInv, NEW m \in Moves, GainsMac(m[1], m[2])
    PROVE  DiagramInv' /\ doc'.boxes \subseteq doc.boxes
<1> DEFINE old == m[1]
           new == m[2]
<1>1. /\ old \in Devices /\ new \in Devices /\ old # new /\ <<old, new>> \in Moves
  BY TopologyAssumption DEF Devices
<1> HIDE DEF old, new
<1>2. /\ telling = Nothing /\ old \in devices /\ doc' = Rekey(doc, old, new)
      /\ telling' = [kind |-> "rekey", key |-> old, new |-> new]
      /\ UNCHANGED <<devices, adrift, late, learned, request, refused>>
  BY DEF GainsMac, ScannerOnly, old, new
<1>3. Whole(doc)
  BY DEF DiagramInv
<1>4. /\ Keeps(doc, doc', {new}) /\ old \notin OnRecord(doc') /\ doc'.boxes = doc.boxes
      /\ OnRecord(doc') \subseteq OnRecord(doc) \cup {new}
  BY <1>1, <1>2, <1>3, RekeyKeeps
<1>5. Whole(doc') /\ refused' \subseteq doc'.dismissed
  BY <1>2, <1>4 DEF Keeps, DiagramInv
<1>6. Listing' /\ Requesting' /\ Telling'
  BY <1>1, <1>2, <1>4 DEF Listing, Requesting, Telling, DiagramInv
<1>7. NothingDangles'
  <2>1. telling.kind = "none" /\ telling'.kind = "rekey" /\ telling'.new = new
    BY <1>2 DEF Nothing
  <2> QED BY <1>2, <1>4, <2>1 DEF NothingDangles, DiagramInv
<1> QED BY <1>4, <1>5, <1>6, <1>7 DEF DiagramInv

LEMMA ForgetStep ==
    ASSUME DiagramInv, NEW k \in Devices, ForgetBegins(k)
    PROVE  DiagramInv' /\ doc'.boxes \subseteq doc.boxes
<1>1. /\ telling = Nothing /\ k \in devices /\ doc' = WithoutDevices(doc, {k})
      /\ telling' = [kind |-> "forget", key |-> k]
      /\ UNCHANGED <<devices, adrift, late, learned, request, refused>>
  BY DEF ForgetBegins, ScannerOnly
<1>2. Whole(doc)
  BY DEF DiagramInv
<1>3. /\ Keeps(doc, doc', {}) /\ OnRecord(doc') \cap {k} = {} /\ doc'.boxes = doc.boxes
      /\ OnRecord(doc') \subseteq OnRecord(doc)
  BY <1>1, <1>2, WithoutDevicesKeeps
<1>4. Whole(doc') /\ refused' \subseteq doc'.dismissed
  BY <1>1, <1>3 DEF Keeps, DiagramInv
<1>5. Listing' /\ Requesting' /\ Telling'
  BY <1>1, <1>3 DEF Listing, Requesting, Telling, DiagramInv
<1>6. NothingDangles'
  <2>1. telling.kind = "none" /\ telling'.kind = "forget"
    BY <1>1 DEF Nothing
  <2> QED BY <1>1, <1>3, <2>1 DEF NothingDangles, DiagramInv
<1> QED BY <1>3, <1>4, <1>5, <1>6 DEF DiagramInv

LEMMA ListSteps ==
    ASSUME DiagramInv, \/ ScanEnds \/ ForgetEnds
                       \/ \E k \in Devices : Seen(k) \/ PruneOne(k)
    PROVE  DiagramInv' /\ doc' = doc
<1>1. UNCHANGED <<doc, learned, request, refused>>
  BY DEF ScanEnds, ForgetEnds, Seen, PruneOne, ScannerOnly
<1>2. Listing' /\ Telling' /\ NothingDangles'
  <2>0. Listing /\ Telling /\ NothingDangles
    BY DEF DiagramInv
  <2>1. CASE ScanEnds
    <3>1. telling.key \in OnRecord(doc) => telling.key \in late
      BY <2>0, <2>1 DEF Telling, ScanEnds
    <3>2. telling.new \in Devices /\ telling.kind = "rekey" /\ telling'.kind = "none"
      BY <2>0, <2>1, TopologyAssumption DEF Telling, ScanEnds, Nothing, Devices
    <3>3. telling.key # telling.new
      BY <2>0, <3>2, TopologyAssumption DEF Telling
    <3> QED BY <1>1, <2>0, <2>1, <3>1, <3>2, <3>3 DEF ScanEnds, Listing, Telling, NothingDangles
  <2>2. CASE ForgetEnds
    <3>1. telling.kind = "forget" /\ telling'.kind = "none" /\ (telling.key \in OnRecord(doc) => telling.key \in late)
      BY <2>0, <2>2 DEF Telling, ForgetEnds, Nothing
    <3> QED BY <1>1, <2>0, <2>2, <3>1 DEF ForgetEnds, Listing, Telling, NothingDangles
  <2>3. ASSUME NEW k \in Devices, Seen(k) PROVE Listing' /\ Telling' /\ NothingDangles'
    <3>1. telling.kind # "none" => telling.key # k
      BY <2>0, <2>3 DEF Telling, Seen
    <3> QED BY <1>1, <2>0, <2>3, <3>1 DEF Seen, Listing, Telling, NothingDangles
  <2>4. ASSUME NEW k \in Devices, PruneOne(k) PROVE Listing' /\ Telling' /\ NothingDangles'
    <3>1. telling.kind = "none"
      BY <2>4 DEF PruneOne, Nothing
    <3> QED BY <1>1, <2>0, <2>4, <3>1 DEF PruneOne, Listing, Telling, NothingDangles
  <2> QED BY <2>1, <2>2, <2>3, <2>4
<1> QED BY <1>1, <1>2 DEF DiagramInv, Requesting

LEMMA ReadingSteps ==
    ASSUME DiagramInv, ReadInputs \/ \E t \in Tables : Learn(t)
    PROVE  DiagramInv' /\ doc' = doc
<1>1. /\ UNCHANGED <<doc, devices, telling, adrift, late, refused>> /\ learned' \in Tables
      /\ request' \in {request, [step |-> "read", devices |-> devices, tables |-> learned]}
  BY DEF ReadInputs, Learn, DiagramInv, Listing
<1>2. Listing' /\ Requesting'
  BY <1>1 DEF DiagramInv, Listing, Requesting
<1> QED BY <1>1, <1>2 DEF DiagramInv, Telling, NothingDangles

\* Every step but two takes boxes away or leaves them, and those two answer for what they add.
LEMMA DiagramStep ==
    ASSUME DiagramInv, [TNext]_tvars
    PROVE  DiagramInv' /\ Settled(doc, doc')
<1>0. doc'.boxes \subseteq doc.boxes => Settled(doc, doc')
  BY DEF Settled
<1>1. CASE UNCHANGED tvars
  BY <1>0, <1>1 DEF tvars, DiagramInv, Listing, Requesting, Telling, NothingDangles, Leaving
<1>2. CASE ReadInputs \/ \E t \in Tables : Learn(t)
  BY <1>0, <1>2, ReadingSteps
<1>3. CASE Draw
  BY <1>0, <1>3, DrawStep
<1>4. CASE PickOne \/ PickAll
  BY <1>0, <1>4, PickSteps
<1>5. CASE AcceptPicked
  BY <1>0, <1>5, AcceptStep
<1>6. CASE ClearOrphans
  BY <1>0, <1>6, ClearStep
<1>7. CASE \E v \in Boxes, ks \in SUBSET MacKeys : InsertBox(v, ks)
  BY <1>7, InsertStep
<1>8. CASE \E a, b \in Things : ConnectTwo(a, b)
  BY <1>0, <1>8, ConnectStep
<1>9. CASE \E k \in Things : Hide(k) \/ \E g \in Groups \cup {Nil} : Place(k, g)
  BY <1>0, <1>9, PlaceSteps
<1>10. CASE \E v \in Boxes : DropBox(v) \/ \E k \in Devices : TakeOver(v, k)
  BY <1>0, <1>10, DropBoxStep, TakeOverStep
<1>11. CASE \E v \in Boxes : \E g \in Groups \cup {Nil} : AddBox(v, g)
  BY <1>11, AddBoxStep
<1>12. CASE \E g \in Groups : AddGroup(g) \/ DropGroup(g)
  BY <1>0, <1>12, GroupSteps
<1>13. CASE \E i \in Lids : DropLink(i) \/ Swap(i) \/ \E p \in Ports : NamePort(i, p)
  BY <1>0, <1>13, DropLinkStep, LinkSteps
<1>14. CASE (\E s \in SuggestionIds : Dismiss(s) \/ UndoDismiss({s})) \/ UndoDismiss(doc.dismissed)
  BY <1>0, <1>14, DismissSteps
<1>15. CASE (\E k \in Devices : Seen(k) \/ PruneOne(k)) \/ ScanEnds \/ ForgetEnds
  BY <1>0, <1>15, ListSteps
<1>16. CASE \E k \in Devices : ForgetBegins(k)
  BY <1>0, <1>16, ForgetStep
<1>17. CASE \E m \in Moves : GainsMac(m[1], m[2])
  BY <1>0, <1>17, GainsStep
<1> QED
  BY <1>1, <1>2, <1>3, <1>4, <1>5, <1>6, <1>7, <1>8, <1>9, <1>10, <1>11, <1>12, <1>13, <1>14, <1>15,
     <1>16, <1>17 DEF TNext

LEMMA DiagramAlways == TSpec => []DiagramInv
<1>1. TInit => DiagramInv
  BY DiagramInit
<1>2. DiagramInv /\ [TNext]_tvars => DiagramInv'
  BY DiagramStep
<1> QED BY <1>1, <1>2, PTL DEF TSpec

\* TTypeOK: the diagram, what a request has read and the scanner's list
\* are of the kinds the module says.
THEOREM DiagramTyped == TSpec => []TTypeOK
<1>1. DiagramInv => TTypeOK
  <2> SUFFICES ASSUME DiagramInv PROVE TTypeOK
    OBVIOUS
  <2>1. Whole(doc) /\ Listing /\ Requesting /\ refused \subseteq doc.dismissed
    BY DEF DiagramInv
  <2>2. /\ doc.groups \subseteq Groups /\ doc.boxes \subseteq Boxes /\ doc.dismissed \subseteq SuggestionIds
        /\ doc.nodes \in [DOMAIN doc.nodes -> Spots] /\ DOMAIN doc.nodes \subseteq Things
        /\ doc.links \in [DOMAIN doc.links -> Links] /\ DOMAIN doc.links \subseteq Lids
        /\ \A i \in DOMAIN doc.links : EndsOf(doc.links[i]) \subseteq Things
    BY <2>1, Parts
  <2>3. \A l \in Links : {l.ap, l.bp} \subseteq Ports \cup {Nil} /\ l.sug \in SuggestionIds \cup {Nil}
    BY DEF Links
  <2> QED BY <2>1, <2>2, <2>3 DEF TTypeOK, Spots, Listing, Requesting
<1> QED BY <1>1, DiagramAlways, PTL

\* DiagramWhole: whatever is deleted, replaced, re-keyed, forgotten or
\* edited while requests that read the devices earlier come in, no wire
\* and no place is left of a box that is gone, nothing sits in a group
\* that is gone, and of devices that are not listed only pruned ones, ones
\* that a scan gave their MAC and then did not list, and ones drawn from a
\* list read before they left are still on the diagram (store.mutate,
\* rekey, forget, delete_equipment, _replace, delete_group, _run_scan).
THEOREM DiagramsAreWhole == TSpec => []DiagramWhole
<1>1. DiagramInv => DiagramWhole
  BY WholeEnds DEF DiagramInv, DiagramWhole
<1> QED BY <1>1, DiagramAlways, PTL

\* DrawnAsAsked: showing the diagram draws no wire that somebody removed,
\* as long as its switch keeps its key, and a box is put between a port
\* and its devices whole or not at all (delete_link, auto_link_wired, insert_passive).
THEOREM DiagramsAreDrawnAsAsked == TSpec => DrawnAsAsked
<1>1. DiagramInv /\ [TNext]_tvars =>
          [Draw => \A i \in DOMAIN doc'.links :
                      doc'.links[i].sug \in refused => i \in DOMAIN doc.links]_tvars
  BY DrawStep DEF DiagramInv
<1>2. DiagramInv /\ [TNext]_tvars =>
          [\A v \in (doc'.boxes \ doc.boxes) \cap Wired(doc') :
             \E s \in doc'.dismissed, i, j \in DOMAIN doc'.links :
                 /\ s.kind = "shared"
                 /\ EndsOf(doc'.links[i]) = {s.unit, v}
                 /\ v \in EndsOf(doc'.links[j]) /\ EndsOf(doc'.links[j]) \cap s.to # {}]_tvars
  BY DiagramStep DEF Settled
<1>3. TSpec => NotDrawnAgain
  BY <1>1, DiagramAlways, PTL DEF TSpec, NotDrawnAgain
<1>4. TSpec => ChangesWhole
  BY <1>2, DiagramAlways, PTL DEF TSpec, ChangesWhole
<1> QED BY <1>3, <1>4 DEF DrawnAsAsked
=============================================================================
