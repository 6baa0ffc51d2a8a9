------------------------------ MODULE Overview ------------------------------
(***************************************************************************)
(* The overview of the web console (skytimeOverviewCtl in                  *)
(* static/scripts/main.js) and the handler it polls (apiOverview in        *)
(* server/apis.go).                                                        *)
(*                                                                         *)
(* The page asks for /api/overview twice when it is opened, then every     *)
(* three seconds and whenever the button is pressed, and never waits for   *)
(* the answers: they may come in any order, late or not at all.  The       *)
(* handler reads the counters of the server one after the other, while     *)
(* pushes change them.                                                     *)
(***************************************************************************)
EXTENDS Integers, Sequences

CONSTANTS
    Polls,      \* the requests that can be under way at once
    MaxPoints,  \* the points of the chart before one is shifted out (20)
    PushTime,   \* milliseconds a push takes
    MaxMsgs,    \* bound: pushes
    MaxLost,    \* bound: requests that fail
    NoView      \* the page has shown nothing yet

ASSUME OverviewConstants ==
    /\ MaxPoints \in Nat
    /\ PushTime \in Nat
    /\ MaxMsgs \in Nat
    /\ MaxLost \in Nat
    /\ NoView \notin Nat

VARIABLES
    total_msg_cnt,       \* stats.total_msg_cnt
    total_consume_time,  \* stats.total_consume_time
    pushing,             \* a push is between the two updates of the counters
    poll,                \* where a request for /api/overview is
    answer_cnt,          \* total_br_msg_cnt of its answer
    answer_ops,          \* ops of its answer
    view_cnt,            \* $scope.total_br_msg_cnt
    view_ops,            \* $scope.ops
    chart,               \* chartOps.series[0].data
    failed,              \* how many requests have failed
    overtaken            \* history: requests during which another was shown

statVars == <<total_msg_cnt, total_consume_time, pushing>>
answerVars == <<answer_cnt, answer_ops>>
viewVars == <<view_cnt, view_ops, chart>>
overviewVars == <<statVars, poll, answerVars, viewVars, failed, overtaken>>

\* The chart never holds more than MaxPoints + 1 points, however many polls
\* there are.
OverviewTypeOK ==
    /\ total_msg_cnt \in 0 .. MaxMsgs
    /\ total_consume_time \in Nat
    /\ pushing \in BOOLEAN
    /\ poll \in [Polls -> {"free", "sent", "handling", "answered"}]
    /\ answer_cnt \in [Polls -> 0 .. MaxMsgs]
    /\ answer_ops \in [Polls -> Nat]
    /\ view_cnt \in Nat \cup {NoView}
    /\ view_ops \in Nat \cup {NoView}
    /\ chart \in Seq(Nat) /\ Len(chart) <= MaxPoints + 1
    /\ failed \in 0 .. MaxLost
    /\ overtaken \subseteq Polls

\* refresh() has been called twice, by the controller and by autoUpdate.
OverviewInit ==
    /\ total_msg_cnt = 0
    /\ total_consume_time = 0
    /\ pushing = FALSE
    /\ \E s, t \in Polls :
          /\ s # t
          /\ poll = [p \in Polls |-> IF p \in {s, t} THEN "sent" ELSE "free"]
    /\ answer_cnt = [p \in Polls |-> 0]
    /\ answer_ops = [p \in Polls |-> 0]
    /\ view_cnt = NoView
    /\ view_ops = NoView
    /\ chart = <<>>
    /\ failed = 0
    /\ overtaken = {}

----------------------------------------------------------------------------
(* The server                                                              *)

\* A push counts itself when it has the token, and adds the time it took
\* before it gives the token back.
PushStarts ==
    /\ ~pushing
    /\ total_msg_cnt < MaxMsgs
    /\ total_msg_cnt' = total_msg_cnt + 1
    /\ pushing' = TRUE
    /\ UNCHANGED <<total_consume_time, poll, answerVars, viewVars, failed,
                   overtaken>>

PushEnds ==
    /\ pushing
    /\ total_consume_time' = total_consume_time + PushTime
    /\ pushing' = FALSE
    /\ UNCHANGED <<total_msg_cnt, poll, answerVars, viewVars, failed, overtaken>>

\* info["ops"], pushes per whole second of pushing.
Ops(cnt, time) ==
    IF cnt > 0 /\ time > 1000 THEN cnt \div (time \div 1000) ELSE 0

\* Mutant of ReadCount: the counter is kept in too few bits.
ReadCountNarrow(p) ==
    /\ poll[p] = "sent"
    /\ answer_cnt' = [answer_cnt EXCEPT ![p] = total_msg_cnt % 2]
    /\ poll' = [poll EXCEPT ![p] = "handling"]
    /\ UNCHANGED <<statVars, answer_ops, viewVars, failed, overtaken>>

\* apiOverview reads the count, and later the counters for ops.
ReadCount(p) ==
    /\ poll[p] = "sent"
    /\ answer_cnt' = [answer_cnt EXCEPT ![p] = total_msg_cnt]
    /\ poll' = [poll EXCEPT ![p] = "handling"]
    /\ UNCHANGED <<statVars, answer_ops, viewVars, failed, overtaken>>

ReadOps(p) ==
    /\ poll[p] = "handling"
    /\ answer_ops' =
          [answer_ops EXCEPT ![p] = Ops(total_msg_cnt, total_consume_time)]
    /\ poll' = [poll EXCEPT ![p] = "answered"]
    /\ UNCHANGED <<statVars, answer_cnt, viewVars, failed, overtaken>>

----------------------------------------------------------------------------
(* The page                                                                *)

\* refresh(): the button, or autoUpdate, which has set its next timer before.
\* Bound: no request is made while all of Polls are under way.
Refresh(p) ==
    /\ poll[p] = "free"
    /\ poll' = [poll EXCEPT ![p] = "sent"]
    /\ UNCHANGED <<statVars, answerVars, viewVars, failed, overtaken>>

\* The request is over: what is kept of it is forgotten, so that the next one
\* starts afresh.
Over(p) ==
    /\ poll' = [poll EXCEPT ![p] = "free"]
    /\ answer_cnt' = [answer_cnt EXCEPT ![p] = 0]
    /\ answer_ops' = [answer_ops EXCEPT ![p] = 0]

\* Mutant of RefreshChart: the oldest point stays.
RefreshChartGrows(data) == chart' = Append(chart, data)

\* refreshChart(data): a full series loses its first point, then the new one
\* is added.
RefreshChart(data) ==
    chart' = Append(IF Len(chart) > MaxPoints THEN Tail(chart) ELSE chart, data)

\* Mutant of ShowAnswer: only the first answer is shown.
ShowAnswerOnce(p) ==
    /\ poll[p] = "answered"
    /\ view_cnt = NoView
    /\ view_cnt' = answer_cnt[p]
    /\ view_ops' = answer_ops[p]
    /\ RefreshChart(answer_ops[p])
    /\ Over(p)
    /\ overtaken' = {q \in Polls \ {p} : poll[q] # "free"}
    /\ UNCHANGED <<statVars, failed>>

\* The success callback: the answer replaces what is shown, whatever it was.
\* (The server always sends an ops that is at least 0.)
ShowAnswer(p) ==
    /\ poll[p] = "answered"
    /\ view_cnt' = answer_cnt[p]
    /\ view_ops' = answer_ops[p]
    /\ RefreshChart(answer_ops[p])
    /\ Over(p)
    /\ overtaken' = {q \in Polls \ {p} : poll[q] # "free"}
    /\ UNCHANGED <<statVars, failed>>

\* The request fails on its way or on its way back.  refresh() has no error
\* callback: the page shows what it showed.
PollFails(p) ==
    /\ poll[p] # "free"
    /\ failed < MaxLost
    /\ failed' = failed + 1
    /\ Over(p)
    /\ overtaken' = overtaken \ {p}
    /\ UNCHANGED <<statVars, viewVars>>

----------------------------------------------------------------------------

PollStep(p) == ReadCount(p) \/ ReadOps(p) \/ ShowAnswer(p)

OverviewNext ==
    \/ PushStarts \/ PushEnds
    \/ \E p \in Polls : Refresh(p) \/ PollStep(p) \/ PollFails(p)

----------------------------------------------------------------------------

\* Answers that overtake each other are the only reason for the number of
\* pushes on the page, which is cumulative, to go down: the answer that is
\* shown then belongs to a request during which another answer was shown.
BackOnlyOvertaken ==
    [][\A p \in Polls :
          ShowAnswer(p) /\ view_cnt # NoView /\ answer_cnt[p] < view_cnt
              => p \in overtaken]_overviewVars
=============================================================================
