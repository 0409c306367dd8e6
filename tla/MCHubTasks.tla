----------------------------- MODULE MCHubTasks -----------------------------
(***************************************************************************)
(* Two tasks of the hub that share nothing here, each moving on its own:   *)
(* tunnels to devices, for operators op1 and op2 with one connection, to a     *)
(* recorder of the site and to the site Pi itself; and the day's time      *)
(* keeping.                                                                *)
(***************************************************************************)
EXTENDS Tunnels, TimeKeeping

CONSTANTS op1, op2, c, recorder

VARIABLE task

hubvars == <<task, tvars, kvars>>

Never ==
    [mark |-> 0, edit |-> 0, type |-> 0, clock |-> 0, tick |-> 0, import |-> 0, together |-> 0, min |-> 1]

\* Days of three minutes of work; edits, typed entries and buttons on shorter ones; an import
\* and edits that come between what a builder reads and what it writes.
Days == {[Never EXCEPT !.mark = 3],
         [Never EXCEPT !.mark = 2, !.edit = 1, !.min = 2],
         [Never EXCEPT !.mark = 1, !.type = 1],
         [Never EXCEPT !.mark = 1, !.edit = 2, !.import = 1, !.together = 1],
         [Never EXCEPT !.mark = 1, !.clock = 2, !.tick = 1]}

HubInit ==
    /\ TInit /\ KInit
    /\ task = "time" \/ (task = "tunnels" /\ kleft = [Never EXCEPT !.mark = 3])

Tunnelling == task = "tunnels" /\ UNCHANGED <<task, kvars>>
Timing == task = "time" /\ UNCHANGED <<task, tvars>>

HubNext ==
    \/ Tunnelling /\ THubRestart
    \/ Tunnelling /\ TSiteRestart
    \/ Tunnelling /\ \E w \in Operators : SiteOpen(w)
    \/ Tunnelling /\ \E w \in Operators : Unreachable(w)
    \/ Tunnelling /\ \E w \in Operators : HubOpen(w)
    \/ Tunnelling /\ \E w \in Operators : OpenDirect(w)
    \/ Tunnelling /\ \E w \in Operators, d \in Targets \cup {Pi} : TAsk(w, d)
    \/ Tunnelling /\ \E w \in Operators, x \in Conns, i \in Ids : Connect(x, w, i)
    \/ Tunnelling /\ \E i \in Ids : HubClose(i)
    \/ Tunnelling /\ \E i \in Ids : HubReap(i)
    \/ Tunnelling /\ \E i \in Ids : HubStop(i)
    \/ Tunnelling /\ \E i \in Ids : SiteClose(i)
    \/ Tunnelling /\ \E i \in Ids : SiteReap(i)
    \/ Tunnelling /\ \E i \in Ids : SiteStop(i)
    \/ Tunnelling /\ \E x \in Conns : Handlers(x)
    \/ Tunnelling /\ \E x \in Conns : HangUp(x)
    \/ Timing /\ \E x \in Processes : BuildRead(x)
    \/ Timing /\ \E x \in Processes : BuildWrite(x)
    \/ Timing /\ \E m \in Minutes, w \in Places : MarkRemote(m, w)
    \/ Timing /\ \E m \in Minutes, f \in Farms : MarkPhone(m, f)
    \/ Timing /\ \E m \in Minutes : MarkDev(m)
    \/ Timing /\ Tick
    \/ Timing /\ ApproveDay
    \/ Timing /\ \E i \in DOMAIN entries : Update(i)
    \/ Timing /\ \E i \in DOMAIN entries : Delete(i)
    \/ Timing /\ \E k \in {"remote", "onsite", "travel"}, w \in Places, s, e \in 0..Day : Type(k, w, s, e)
    \/ Timing /\ \E k \in {"onsite", "travel"}, f \in Farms : ClockOpens(k, f)
    \/ Timing /\ \E kinds \in {{"onsite"}, {"travel", "onsite"}} : ClockCloses(kinds)

HubSpec == HubInit /\ [][HubNext]_hubvars /\ WF_tvars(Threads)
=============================================================================
