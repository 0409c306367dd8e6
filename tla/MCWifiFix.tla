------------------------------ MODULE MCWifiFix -----------------------------
(***************************************************************************)
(* Small instances of WifiFix: two settings of two values, two peers.      *)
(***************************************************************************)
EXTENDS WifiFix

CONSTANTS freq, power, v1, v2

\* Country may set the power too; the mode stands for the settings of the wireless itself.
KeyOfFix == [fix \in Fixes |-> IF fix \in {"power", "country"} THEN power ELSE freq]

\* Radios that apply a change, with and without dropping the link; radios that only store it;
\* and a radio without test mode.
Applying == [applies : {TRUE}, drops : BOOLEAN, reads : BOOLEAN, test : {TRUE}, reach : {0, 1}]
Storing  == [applies : {FALSE}, drops : {FALSE}, reads : BOOLEAN, test : {TRUE}, reach : {0}]
Plain    == [applies : {TRUE}, drops : {TRUE}, reads : {FALSE}, test : {FALSE}, reach : {0, 2}]
SomeRadios == Applying \cup Storing \cup Plain

Nothing == [k \in Kinds |-> 0]

\* Two fixes one after the other, with the radio changed by hand; one fix with everything
\* that can go wrong around it.
TwoFixes == [Nothing EXCEPT !.fix = 2, !.preview = 2, !.byhand = 1, !.expire = 1]
Trouble  == [Nothing EXCEPT !.fix = 1, !.preview = 1, !.restart = 1, !.reboot = 1, !.lost = 1,
                            !.slow = 1, !.flash = 1, !.fade = 1, !.misread = 1]
FixBudgets == {TwoFixes, Trouble}
=============================================================================
