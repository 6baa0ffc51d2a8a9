----------------------------- MODULE MCOperator -----------------------------
(* Small instances of Operator for TLC.                                    *)
EXTENDS Operator, TLC

CONSTANTS d1, d2, pA

Value(a, m) == [as |-> a, n |-> m]

\* Fields nobody touched, and a range that begins with a cleared field and ends
\* past the last room.
MCRangeTasks ==
    {[from |-> Value("string", -1), to |-> Value("string", -1)],
     [from |-> Value("null", 0), to |-> Value("number", 2)]}

\* "0, 1", with the space, and "1,2", where there is no room 2.
MCSetTasks ==
    {{[room |-> 0, space |-> FALSE], [room |-> 1, space |-> TRUE]},
     {[room |-> 1, space |-> FALSE], [room |-> 2, space |-> FALSE]}}

\* Everything is tried in d1, and the peers of a room are viewed beside it.
MCKindsOf == d1 :> Kinds @@ d2 :> {"view"}

MCRoomOf == pA :> 0

MCDigits == 1 :> <<9, 8>> @@ 2 :> <<9, 9>> @@ 3 :> <<7>>
=============================================================================
