------------------------------ MODULE RoomFeed ------------------------------
(***************************************************************************)
(* What the rooms promise to the connections registered in them, without   *)
(* goroutines, channels and maps (hub.run in server/hub.go): a room        *)
(* publishes messages one after the other, and a member gets every message *)
(* published since it joined, once and in order, or stops being a member.  *)
(* A room goes on to the next message when all its members have the one    *)
(* before.                                                                 *)
(***************************************************************************)
EXTENDS Naturals, Sequences

CONSTANTS
    Clients,   \* those that may join
    Places,    \* the rooms
    Texts,     \* the messages
    PlaceOf    \* the room a client joins

VARIABLES
    log,       \* the messages published in a room
    member,    \* the clients that are members of their room
    start,     \* how many messages there were when a client joined
    given      \* the messages a client has got

feedVars == <<log, member, start, given>>

FeedInit ==
    /\ log = [r \in Places |-> <<>>]
    /\ member = {}
    /\ start = [c \in Clients |-> 0]
    /\ given = [c \in Clients |-> <<>>]

UpToDate(c) == start[c] + Len(given[c]) = Len(log[PlaceOf[c]])

Publish(r, m) ==
    /\ \A c \in member : PlaceOf[c] = r => UpToDate(c)
    /\ log' = [log EXCEPT ![r] = Append(@, m)]
    /\ UNCHANGED <<member, start, given>>

\* A client joins once.  It may take the place of another.
Join(c, gone) ==
    /\ c \notin member /\ given[c] = <<>>
    /\ member' = (member \ gone) \cup {c}
    /\ start' = [start EXCEPT ![c] = Len(log[PlaceOf[c]])]
    /\ UNCHANGED <<log, given>>

Deliver(c) ==
    /\ c \in member /\ ~UpToDate(c)
    /\ given' = [given EXCEPT ![c] =
          Append(@, log[PlaceOf[c]][start[c] + Len(@) + 1])]
    /\ UNCHANGED <<log, member, start>>

Leave(c) ==
    /\ c \in member
    /\ member' = member \ {c}
    /\ UNCHANGED <<log, start, given>>

FeedNext ==
    \/ \E r \in Places, m \in Texts : Publish(r, m)
    \/ \E c \in Clients : \/ Deliver(c) \/ Leave(c)
                          \/ \E d \in Clients : Join(c, {d})

FeedSpec == FeedInit /\ [][FeedNext]_feedVars

\* A member that has not got all that was published gets it, or leaves.
Served ==
    \A c \in Clients :
        (c \in member /\ ~UpToDate(c)) ~> (c \notin member \/ UpToDate(c))
=============================================================================
