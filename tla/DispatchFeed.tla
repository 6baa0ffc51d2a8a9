---------------------------- MODULE DispatchFeed ----------------------------
(***************************************************************************)
(* Dispatch implements RoomFeed: the rooms, goroutines and channels of     *)
(* hub.go give every registered connection the feed that RoomFeed          *)
(* promises, whatever pushes, unregister requests and full channels come   *)
(* in between.                                                             *)
(***************************************************************************)
EXTENDS Dispatch

\* The log of a room is what its goroutine has taken from h.broadcast; what a
\* connection has been given is in c.send, or has been taken out of it.
Feed == INSTANCE RoomFeed WITH
    Clients <- Conns,
    Places  <- Rooms,
    Texts   <- Msgs,
    PlaceOf <- [c \in Conns |-> HubRoom(c)],
    log     <- feed,
    member  <- {c \in Conns : IsRegistered(c)},
    start   <- since,
    given   <- [c \in Conns |-> RoomMsgs(Given(c))]

\* Every step of the server is a step of RoomFeed or changes nothing in it: a
\* registered connection gets every message its room takes, once and in order,
\* and before the room takes the next one; none is given to a connection that
\* is not registered (hub.run).
ImplementsRoomFeed == Feed!FeedSpec

\* A registered connection gets the message its room is handing out, or is
\* dropped from the map: hub.run waits for no connection.  The process may
\* end by a panic instead.
FeedServed == <>(panic # "no") \/ Feed!Served
=============================================================================
