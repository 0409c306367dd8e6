----------------------------- MODULE MCFirmware -----------------------------
(***************************************************************************)
(* Small instances of Firmware.                                            *)
(***************************************************************************)
EXTENDS Firmware

CONSTANTS a, b, here

\* The files are two builds of one version.
TwoBuilds == [f \in {0, 1, 2} |-> IF f = 0 THEN 0 ELSE 1]
OneSite == [d \in Devs |-> here]

Nothing == [k \in Kinds |-> 0]

\* Two updates asked for while the hub starts again, with a lost message.
HubStarts == [Nothing EXCEPT !.start = 2, !.hub = 1, !.lost = 1]
\* The same with the site starting again.
SiteStartsAgain == [Nothing EXCEPT !.start = 2, !.site = 1, !.lost = 1]
\* Files that are damaged on the way, and one that is removed from the library.
Damaged  == [Nothing EXCEPT !.start = 2, !.damage = 1, !.remove = 1]
\* Devices that refuse a file, do not take it or do not survive it.
Devices == [Nothing EXCEPT !.start = 2, !.refuse = 1, !.flaky = 1, !.dead = 1]
\* A link that fails and comes back.
Offline == [Nothing EXCEPT !.start = 2, !.link = 2]
UpdateBudgets == {HubStarts, SiteStartsAgain, Damaged, Devices, Offline}
=============================================================================
