------------------------------ MODULE Dispatch ------------------------------
(***************************************************************************)
(* The pushes of the SkyTime server (hub_rooms.broadcast, broadcast_rooms  *)
(* and broadcast_peers in server/hub.go, started by the handlers of        *)
(* server/apis.go and server/skytime.go), composed with the rooms and the  *)
(* connections of Hub.                                                     *)
(*                                                                         *)
(* A push is one message.  "all" pushes are queued in broadcast_Q and      *)
(* served one at a time by the goroutine broadcast(); a "rooms" or "peers" *)
(* push has a goroutine of its own.  All of them hold broadcast_mu, a      *)
(* channel of capacity one used as a lock, while they number the message   *)
(* and hand it out: to the rooms' queues, or, for "peers", straight to the *)
(* channel of a connection found in a map that the room's goroutine owns.  *)
(***************************************************************************)
EXTENDS Hub, SequencesExt

CONSTANTS
    RoomIds,       \* the room ids a request may name; not all of them exist
    Kind,          \* "all", "rooms" or "peers", per push
    Targets,       \* the list a "rooms" or a "peers" push names
    BroadcastCap,  \* capacity of h.broadcast (4096)
    QueueCap       \* capacity of broadcast_Q (40960)

ASSUME DispatchConstants ==
    /\ Rooms \subseteq RoomIds
    /\ IsFiniteSet(Rooms)
    /\ Kind \in [Msgs -> {"all", "rooms", "peers"}]
    /\ DOMAIN Targets = Msgs
    /\ \A m \in Msgs : Targets[m] \in IF Kind[m] = "peers" THEN Seq(PeerIds)
                                                           ELSE Seq(RoomIds)
    /\ BroadcastCap \in Nat \ {0}
    /\ QueueCap \in Nat \ {0}

VARIABLES
    broadcast_Q,   \* hr.broadcast_Q
    broadcast_mu,  \* the token is in hr.broadcast_mu: nobody pushes
    total_msg_cnt, \* hr.stats.total_msg_cnt
    msg_id,        \* push_msg.msg_id, 0 before the message is numbered
    job,           \* program counter of the goroutine serving the push
    todo,          \* the targets its loop has not reached yet
    hit            \* the connection a "peers" push found, NoConn if none

pushVars == <<broadcast_Q, broadcast_mu, total_msg_cnt, msg_id, job, todo, hit>>
vars == <<hubVars, pushVars>>

JobStates == {"new", "queued", "waiting", "sending", "direct", "done"}
TargetIds == RoomIds \cup PeerIds

TypeOK ==
    /\ HubTypeOK
    /\ \A r \in Rooms : Len(broadcast[r]) <= BroadcastCap
    /\ broadcast_Q \in Seq(Msgs)
    /\ Len(broadcast_Q) <= QueueCap
    /\ broadcast_mu \in BOOLEAN
    /\ total_msg_cnt \in Nat
    /\ msg_id \in [Msgs -> Nat]
    /\ job \in [Msgs -> JobStates]
    /\ todo \in [Msgs -> Seq(TargetIds)]
    /\ hit \in [Msgs -> Conns \cup {NoConn}]

Init ==
    /\ HubInit
    /\ broadcast_Q = <<>>
    /\ broadcast_mu = TRUE
    /\ total_msg_cnt = 0
    /\ msg_id = [m \in Msgs |-> 0]
    /\ job = [m \in Msgs |-> "new"]
    /\ todo = [m \in Msgs |-> <<>>]
    /\ hit = [m \in Msgs |-> NoConn]

----------------------------------------------------------------------------
(* How a push gets to broadcast_mu                                         *)

\* The goroutine of /push, /api/broadcast_all or a telnet line has slept its
\* 100 ms and puts the message in broadcast_Q.
Submit(m) ==
    /\ Kind[m] = "all"
    /\ job[m] = "new"
    /\ Len(broadcast_Q) < QueueCap
    /\ broadcast_Q' = Append(broadcast_Q, m)
    /\ job' = [job EXCEPT ![m] = "queued"]
    /\ UNCHANGED <<hubVars, broadcast_mu, total_msg_cnt, msg_id, todo, hit>>

\* broadcast() is a single goroutine: it takes the next message when it is
\* through with the one before.
TakeQueued ==
    /\ broadcast_Q # <<>>
    /\ \A m \in Msgs : Kind[m] = "all" => job[m] \notin {"waiting", "sending"}
    /\ job' = [job EXCEPT ![Head(broadcast_Q)] = "waiting"]
    /\ broadcast_Q' = Tail(broadcast_Q)
    /\ UNCHANGED <<hubVars, broadcast_mu, total_msg_cnt, msg_id, todo, hit>>

\* The goroutine of /api/broadcast_range, broadcast_set or broadcast_peers
\* has slept and calls broadcast_rooms or broadcast_peers.
CallPush(m) ==
    /\ Kind[m] # "all"
    /\ job[m] = "new"
    /\ job' = [job EXCEPT ![m] = "waiting"]
    /\ UNCHANGED <<hubVars, broadcast_Q, broadcast_mu, total_msg_cnt, msg_id,
                   todo, hit>>

----------------------------------------------------------------------------
(* The critical section                                                    *)

\* broadcast() ranges over the map hr.rooms, in any order; the other two
\* follow the list of the request.
Order(m) == IF Kind[m] = "all" THEN SetToSeqs(Rooms) ELSE {Targets[m]}

\* Mutant of Lock: the token is not waited for.
LockUnguarded(m) ==
    /\ job[m] = "waiting"
    /\ broadcast_mu' = FALSE
    /\ total_msg_cnt' = total_msg_cnt + 1
    /\ msg_id' = [msg_id EXCEPT ![m] = total_msg_cnt + 1]
    /\ \E s \in Order(m) : todo' = [todo EXCEPT ![m] = s]
    /\ job' = [job EXCEPT ![m] = "sending"]
    /\ UNCHANGED <<hubVars, broadcast_Q, hit>>

\* <-hr.broadcast_mu, and the message gets the next number.
Lock(m) ==
    /\ job[m] = "waiting"
    /\ broadcast_mu
    /\ broadcast_mu' = FALSE
    /\ total_msg_cnt' = total_msg_cnt + 1
    /\ msg_id' = [msg_id EXCEPT ![m] = total_msg_cnt + 1]
    /\ \E s \in Order(m) : todo' = [todo EXCEPT ![m] = s]
    /\ job' = [job EXCEPT ![m] = "sending"]
    /\ UNCHANGED <<hubVars, broadcast_Q, hit>>

\* The next target of a push that is in its loop.
AtTarget(m, t) ==
    /\ job[m] = "sending"
    /\ todo[m] # <<>>
    /\ t = Head(todo[m])

NextTarget(m) == todo' = [todo EXCEPT ![m] = Tail(@)]

\* h.broadcast <- push_msg: waits while the room's queue is full.
PushRoom(m, r) ==
    /\ Kind[m] # "peers"
    /\ AtTarget(m, r)
    /\ Len(broadcast[r]) < BroadcastCap
    /\ broadcast' = [broadcast EXCEPT ![r] = Append(@, m)]
    /\ NextTarget(m)
    /\ UNCHANGED <<registryVars, fanoutVars, send, closed, connVars, panic,
                   historyVars, broadcast_Q, broadcast_mu, total_msg_cnt,
                   msg_id, job, hit>>

\* A room id that does not exist is passed over.
SkipRoom(m, t) ==
    /\ Kind[m] # "peers"
    /\ AtTarget(m, t)
    /\ t \notin Rooms
    /\ NextTarget(m)
    /\ UNCHANGED <<hubVars, broadcast_Q, broadcast_mu, total_msg_cnt, msg_id,
                   job, hit>>

\* c := hr.rooms[room_id].connections[peer_id]; c != nil
HitPeer(m, p) ==
    /\ Kind[m] = "peers"
    /\ AtTarget(m, p)
    /\ connections[p] # NoConn
    /\ hit' = [hit EXCEPT ![m] = connections[p]]
    /\ job' = [job EXCEPT ![m] = "direct"]
    /\ UNCHANGED <<hubVars, broadcast_Q, broadcast_mu, total_msg_cnt, msg_id,
                   todo>>

\* The same read finds nil.
MissPeer(m, p) ==
    /\ Kind[m] = "peers"
    /\ AtTarget(m, p)
    /\ connections[p] = NoConn
    /\ NextTarget(m)
    /\ UNCHANGED <<hubVars, broadcast_Q, broadcast_mu, total_msg_cnt, msg_id,
                   job, hit>>

\* The goroutine of room r is where its next step writes h.connections.
WritesMap(r) ==
    \/ /\ current[r] = NoMsg
       /\ \E c \in Conns : /\ HubRoom(c) = r
                          /\ \/ reader[c] = "register"
                             \/ /\ reader[c] = "unregister"
                                /\ connections[PeerOf[c]] # NoConn
    \/ \E c \in pending[r] : ~SendReady(c)

\* The read of the map has no lock: if it meets a write, the Go runtime ends
\* the process (concurrent map read and map write).
MapRace(m, p) ==
    /\ Kind[m] = "peers"
    /\ AtTarget(m, p)
    /\ WritesMap(RoomOf[p])
    /\ panic' = "map_race"
    /\ UNCHANGED <<registryVars, broadcast, fanoutVars, send, closed, connVars,
                   historyVars, pushVars>>

\* c.send <- push_msg: waits while the channel is full, and panics if it is
\* or gets closed meanwhile.
DirectSend(m) ==
    LET c == hit[m] IN
    /\ job[m] = "direct"
    /\ SendReady(c)
    /\ SendTo(c, m)
    /\ hit' = [hit EXCEPT ![m] = NoConn]
    /\ job' = [job EXCEPT ![m] = "sending"]
    /\ NextTarget(m)
    /\ UNCHANGED <<registryVars, broadcast, fanoutVars, closed, connVars,
                   historyVars, broadcast_Q, broadcast_mu, total_msg_cnt,
                   msg_id>>

\* hr.broadcast_mu <- true
Unlock(m) ==
    /\ job[m] = "sending"
    /\ todo[m] = <<>>
    /\ broadcast_mu' = TRUE
    /\ job' = [job EXCEPT ![m] = "done"]
    /\ UNCHANGED <<hubVars, broadcast_Q, total_msg_cnt, msg_id, todo, hit>>

----------------------------------------------------------------------------

PushStep(m) ==
    \/ CallPush(m) \/ Submit(m) \/ Lock(m) \/ Unlock(m) \/ DirectSend(m)
    \/ \E r \in Rooms : PushRoom(m, r)
    \/ \E t \in RoomIds : SkipRoom(m, t)
    \/ \E p \in PeerIds : HitPeer(m, p) \/ MissPeer(m, p) \/ MapRace(m, p)

HubNext ==
    /\ \/ \E c \in Conns : ConnStep(c)
       \/ \E r \in Rooms : HubStep(r)
    /\ UNCHANGED pushVars

\* A panic in any of these goroutines ends the process.
Next ==
    /\ panic = "no"
    /\ HubNext \/ TakeQueued \/ \E m \in Msgs : PushStep(m)

Spec == Init /\ [][Next]_vars

\* The goroutines of the server run when they can: the hubs, the pushes, the
\* broadcast loop, and a reader whose socket has been closed.  Nothing is
\* assumed of the peers, of the application server, or of the writers, which
\* wait for the peers.
Fairness ==
    /\ \A r \in Rooms :
          WF_vars(panic = "no" /\ HubStep(r) /\ UNCHANGED pushVars)
    /\ \A m \in Msgs : WF_vars(panic = "no" /\ PushStep(m))
    /\ WF_vars(panic = "no" /\ TakeQueued)
    /\ \A c \in Conns : WF_vars(/\ panic = "no"
                                /\ ~WsOpen(c)
                                /\ ReadFails(c)
                                /\ UNCHANGED pushVars)

FairSpec == Spec /\ Fairness
----------------------------------------------------------------------------
(* Safety                                                                  *)

\* An entry of a room's map names a connection of that peer_id whose channel
\* is open and whose own unregister request has not been served, whatever
\* connections with the same peer_id come and go (hub.run, the only place
\* that writes the map and closes channels).
RegistrySound ==
    \A p \in PeerIds : connections[p] # NoConn =>
        /\ PeerOf[connections[p]] = p
        /\ ~closed[connections[p]]
        /\ reader[connections[p]] \in {"online", "reading", "acking",
                                       "unregister"}

\* The range loop of hub.run never reaches a closed channel: what it has left
\* to serve is registered, in this room and open, although connections are
\* dropped while the loop runs.
FanoutSound ==
    \A r \in Rooms : \A c \in pending[r] :
        HubRoom(c) = r /\ IsRegistered(c) /\ ~closed[c]

\* h.peercnt never falls below the number of entries in the room's map, so
\* it never becomes negative, even when a peer_id is registered twice.
PeercntCovers ==
    \A r \in Rooms : peercnt[r] >= Cardinality(Registered(r))

\* h.peercnt, which `stats` prints as the number of connected peers, is the
\* number of entries in the room's map.
PeercntExact ==
    \A r \in Rooms : peercnt[r] = Cardinality(Registered(r))

\* The goroutines of a connection run and its channel is open.
IsActive(c) ==
    /\ reader[c] \in {"reading", "acking"}
    /\ writer[c] = "select"
    /\ ~closed[c]

\* Where no peer_id is repeated, a connection whose goroutines run and whose
\* channel is open is the one the map has for its peer_id: pushes to that peer
\* reach it.
ActiveRegistered == \A c \in Conns : IsActive(c) => IsRegistered(c)

\* The newest connection of a peer_id, which is the one the map names, stays in
\* the map while its goroutines run and its channel is open, unless a newer one
\* takes its place: hub.run removes only connections that it closes.
NewestStays ==
    [][\A c \in Conns : IsRegistered(c) /\ IsActive(c) /\ IsActive(c)'
                            => connections'[PeerOf[c]] # NoConn]_vars

\* hub.run closes no channel twice (the process would panic), as long as no
\* peer_id is repeated: a connection that has been dropped from the map, and
\* its channel closed, is not found there when its reader unregisters it.
NoDoubleClose == panic # "close_of_closed"

\* No goroutine sends on a closed channel, so the server keeps running and
\* keeps its connections.
NoSendOnClosed == panic # "send_on_closed"

IsRoomMsg(m) == Kind[m] # "peers"
IsPeerMsg(m) == Kind[m] = "peers"

\* What a connection has been given: what its writer has taken from c.send,
\* and what is still in it.
Given(c) == out[c] \o send[c]

\* How many of the first i messages of s came by way of the room, and where
\* the k-th of those is.
RoomCount(s, i) == Cardinality({j \in 1 .. i : IsRoomMsg(s[j])})
RoomPlace(s, k) ==
    {i \in 1 .. Len(s) : IsRoomMsg(s[i]) /\ RoomCount(s, i) = k}

\* The messages of s that came by way of the room, in their order.  (This is
\* SelectSeq(s, IsRoomMsg), without recursion.)
RoomMsgs(s) ==
    [k \in 1 .. RoomCount(s, Len(s)) |-> s[CHOOSE i \in RoomPlace(s, k) : TRUE]]

\* A connection that is still registered has been given, in its channel or
\* already through it, exactly the messages its room took from h.broadcast
\* since it was registered, each once and in that order; "peers" pushes may
\* come anywhere between them.
FeedComplete ==
    \A c \in Conns : IsRegistered(c) =>
        LET r == HubRoom(c)
            given == IF c \in pending[r] THEN Len(feed[r]) - 1 ELSE Len(feed[r])
        IN  RoomMsgs(Given(c))
              = SubSeq(feed[r], since[c] + 1, given)

\* At most one push is between <-broadcast_mu and broadcast_mu <- true, it
\* holds the token, and it has the last number given out.
OnePusher ==
    /\ \A m, n \in Msgs : job[m] \in {"sending", "direct"}
                            /\ job[n] \in {"sending", "direct"} => m = n
    /\ \A m \in Msgs : job[m] \in {"sending", "direct"} =>
                            ~broadcast_mu /\ msg_id[m] = total_msg_cnt

Ascending(s) ==
    \A i, k \in DOMAIN s : i < k => msg_id[s[i]] <= msg_id[s[k]]

\* Every room takes the messages pushed to it in ascending order of msg_id,
\* whichever goroutines push them and however long they wait for the token or
\* for room in h.broadcast.
FeedOrdered == \A r \in Rooms : Ascending(feed[r] \o broadcast[r])

\* The messages pushed to a connection directly are in its channel, and come
\* out of it, in ascending order of msg_id.
DirectOrdered ==
    \A c \in Conns :
        LET s == Given(c) IN
        \A i, k \in DOMAIN s :
            i < k /\ IsPeerMsg(s[i]) /\ IsPeerMsg(s[k])
                => msg_id[s[i]] <= msg_id[s[k]]
----------------------------------------------------------------------------
(* Liveness                                                                *)

\* A push to peers is waiting for room in the channel of a connection, with
\* the token in its hand.
Stalled == \E m \in Msgs : job[m] = "direct" /\ ~SendReady(hit[m])

\* A push that has been queued or called is handed out to all its targets,
\* however slow or dead the connections are, unless the process panics or one
\* direct send of broadcast_peers waits for ever: nothing else in the pushes,
\* the rooms and their queues stops them for each other.
PushesFinish ==
    \A m \in Msgs :
        job[m] # "new" ~> (job[m] = "done" \/ panic # "no" \/ []Stalled)

\* A connection whose writer has returned leaves the room's map, unless the
\* process panics before.
InactiveLeaves ==
    \A c \in Conns :
        writer[c] = "done" ~> (~IsRegistered(c) \/ panic # "no")
=============================================================================
