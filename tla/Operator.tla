------------------------------ MODULE Operator ------------------------------
(***************************************************************************)
(* What the operator of the server meets: the two panels of the web        *)
(* console, the telnet port and the process with its pid file.             *)
(*                                                                         *)
(* The four parts share no state (they meet only in the pushes they make,  *)
(* which are the business of Dispatch), so nothing that one of them does   *)
(* depends on where the others are.  A behaviour of this specification is  *)
(* a behaviour of one of them, chosen at the start, while the others stay  *)
(* in an initial state.                                                    *)
(***************************************************************************)
EXTENDS Overview, RoomsPanel, Telnet, Lifecycle

VARIABLES part  \* the part that moves

vars == <<part, overviewVars, panelVars, telnetVars, lifecycleVars>>

Init ==
    /\ part \in {"overview", "panel", "telnet", "process"}
    /\ OverviewInit
    /\ PanelInit
    /\ part # "panel" => allowed
    /\ TelnetInit
    /\ LifecycleInit

OnlyOverview ==
    /\ part = "overview"
    /\ UNCHANGED <<part, panelVars, telnetVars, lifecycleVars>>

OnlyPanel ==
    /\ part = "panel"
    /\ UNCHANGED <<part, overviewVars, telnetVars, lifecycleVars>>

OnlyTelnet ==
    /\ part = "telnet"
    /\ UNCHANGED <<part, overviewVars, panelVars, lifecycleVars>>

OnlyProcess ==
    /\ part = "process"
    /\ UNCHANGED <<part, overviewVars, panelVars, telnetVars>>

Next ==
    \/ OverviewNext /\ OnlyOverview
    \/ PanelNext /\ OnlyPanel
    \/ TelnetNext /\ OnlyTelnet
    \/ LifecycleNext /\ OnlyProcess

Spec == Init /\ [][Next]_vars

\* The timer of the overview fires again and again and its requests are
\* answered.  The goroutines of a telnet session wake up, and a full
\* broadcast_Q serves them in turn.  broadcast() gets the token if it is
\* returned again and again: a channel serves its waiting goroutines in turn.
\* That another push returns the token is not assumed.
Fairness ==
    /\ \A p \in Polls : /\ WF_vars(Refresh(p) /\ OnlyOverview)
                        /\ WF_vars(PollStep(p) /\ OnlyOverview)
    /\ \A k \in Reads : SF_vars(SendSlice(k) /\ OnlyTelnet)
    /\ WF_vars(BroadcastStep /\ OnlyTelnet)
    /\ SF_vars(TakeToken /\ OnlyTelnet)

FairSpec == Spec /\ Fairness

----------------------------------------------------------------------------

\* Once pushes stop, the overview ends up with the number of them, and stays
\* with it, in spite of answers that come late and of requests that fail.
OverviewCatchesUp == part = "overview" => <>[](view_cnt = total_msg_cnt)

\* Everything a Read returned is handed to the rooms in the end, also what came
\* just before the telnet session was closed, unless another push keeps the
\* token for ever (a send of broadcast_peers to a full connection has no end).
TelnetPushed ==
    part = "telnet" =>
        \A k \in Reads :
            (sender[k] = "sleeping") ~>
                \/ last[k] # 0 /\ token # "broadcast"
                \/ [](token = "other")

\* The variables of all parts have their types: among them, no chart, channel
\* or answer outgrows its bound.
TypeOK == OverviewTypeOK /\ PanelTypeOK /\ TelnetTypeOK /\ LifecycleTypeOK
=============================================================================
