---------------------------- MODULE MCNetRevert -----------------------------
(***************************************************************************)
(* A small instance of NetRevert: two connections, two addresses, and the  *)
(* scenarios of the run.                                                   *)
(***************************************************************************)
EXTENDS NetRevert

CONSTANTS o1, o2, a1, a2, eth0, wlan0

Nothing == [k \in Kinds |-> 0]

\* Two requests run at the same time, and the app is started again.
Together == [Nothing EXCEPT !.apply = 2, !.restart = 1, !.together = 1]
\* One operator, while restoring fails; while the requests' own calls fail.
NotRestored == [Nothing EXCEPT !.apply = 2, !.restart = 2, !.revert = 1, !.boot = 1]
NotApplied  == [Nothing EXCEPT !.apply = 2, !.restart = 1, !.read = 1, !.modify = 1,
                               !.up = 1, !.dhcp = 1]

Scenarios == {Together, NotRestored, NotApplied}
=============================================================================
