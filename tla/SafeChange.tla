----------------------------- MODULE SafeChange -----------------------------
(***************************************************************************)
(* What "preview, confirm, apply with auto-undo" promises of one radio     *)
(* (the docstring of app/wififix.py, without any of its mechanism).        *)
(* A setting is tried without being kept; it is kept only once it has been *)
(* proved to work; otherwise, or when the power fails, what was there      *)
(* before is there again. Nothing in here can get stuck half-way.          *)
(***************************************************************************)
CONSTANT Configs    \* complete settings of the radio

VARIABLES
    kept,       \* what a reboot brings back
    tried,      \* what the radio holds now
    before,     \* what undoing brings back
    phase       \* "idle", "trying" or "proven"

vars == <<kept, tried, before, phase>>

TypeOK ==
    /\ kept \in Configs /\ tried \in Configs /\ before \in Configs
    /\ phase \in {"idle", "trying", "proven"}

Init == kept \in Configs /\ tried = kept /\ before = kept /\ phase = "idle"

Try(c) ==
    /\ phase = "idle"
    /\ tried' = c /\ before' = tried /\ phase' = "trying"
    /\ UNCHANGED kept

Prove ==
    /\ phase = "trying" /\ phase' = "proven"
    /\ UNCHANGED <<kept, tried, before>>

\* Writing flash may fail: the setting then stays as it is, unsaved.
Keep ==
    /\ phase = "proven" /\ phase' = "idle"
    /\ kept' \in {tried, kept} /\ before' = tried
    /\ UNCHANGED tried

Undo ==
    /\ phase = "trying" /\ phase' = "idle"
    /\ tried' = before
    /\ UNCHANGED <<kept, before>>

PowerCycle == tried' = kept /\ before' = kept /\ phase' = "idle" /\ UNCHANGED kept

\* Somebody changes and saves a setting in airOS itself.
ByHand(c) ==
    /\ phase = "idle"
    /\ kept' = c /\ tried' = c /\ before' = c
    /\ UNCHANGED phase

Next ==
    \/ \E c \in Configs : Try(c) \/ ByHand(c)
    \/ Prove \/ Keep \/ Undo \/ PowerCycle

Spec == Init /\ [][Next]_vars
=============================================================================
