---------------------------- MODULE MCKumaFollow ----------------------------
(***************************************************************************)
(* Small instances of KumaFollow: a scenario lets a few events of some     *)
(* kinds happen and none of the others; a run takes a set of scenarios.    *)
(***************************************************************************)
EXTENDS KumaFollow, TLC

CONSTANTS cam, nvr

None == [k \in Kinds |-> 0]

CamMoves == {<<cam, nvr>>}

\* Quick switching while Kuma fails and somebody works in Kuma's own UI ...
Clicks   == [None EXCEPT !.switch = 2, !.fault = 1, !.ui = 1]
\* ... while the Kuma login is saved, removed and saved again ...
Setup    == [None EXCEPT !.switch = 1, !.settings = 2, !.fault = 1]
\* ... while the app restarts.
Crash    == [None EXCEPT !.switch = 2, !.crash = 1, !.fault = 1]
\* Devices are forgotten one by one, or pruned and seen again.
Forget   == [None EXCEPT !.switch = 3, !.forget = 2]
Pruned   == [None EXCEPT !.switch = 3, !.prune = 2, !.seen = 1, !.prunes = 1]
\* A device gains its MAC, another one takes its address.
Move     == [None EXCEPT !.switch = 2, !.seen = 1, !.move = 1, !.fault = 1]
\* A backup is taken and restored, while devices move or are switched.
Moved    == [None EXCEPT !.switch = 1, !.restore = 2, !.seen = 1, !.move = 1]
Restored == [None EXCEPT !.switch = 2, !.restore = 2, !.seen = 1]
\* Left-overs are tidied away.
Tidied   == [None EXCEPT !.switch = 2, !.tidy = 1, !.fault = 1]

FollowScenarios  == {Clicks, Setup, Crash, Restored, Tidied}
OwnScenarios     == {Forget, Pruned, Move, Moved}
\* The shortest way to a monitor nobody owns.
OrphanScenarios  == {[None EXCEPT !.switch = 1, !.forget = 1]}
=============================================================================
