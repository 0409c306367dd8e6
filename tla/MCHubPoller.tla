----------------------------- MODULE MCHubPoller ----------------------------
(***************************************************************************)
(* Small instances of HubPoller.                                           *)
(***************************************************************************)
EXTENDS HubPoller

Nothing == [k \in Kinds |-> 0]

\* A device that goes and comes, taken off the list or put on it, with a hub that starts
\* again and a link that fails.
Alerts == [Nothing EXCEPT !.dev = 4, !.watch = 1, !.restart = 1]
Outage == [Nothing EXCEPT !.link = 2, !.dev = 2, !.restart = 1]

\* Conflicts and rogue servers, several at a time, with answers that get lost.
Alarms == [Nothing EXCEPT !.conflict = 2, !.lost = 1]
Mixed  == [Nothing EXCEPT !.rogue = 2, !.conflict = 1, !.restart = 1]

\* Edits and a device forgotten while polls are under way.
Edits  == [Nothing EXCEPT !.edit = 2]
Forgot == [Nothing EXCEPT !.edit = 1, !.forget = 1, !.link = 1]

PollBudgets == {Alerts, Outage, Alarms, Mixed, Edits, Forgot}
=============================================================================
