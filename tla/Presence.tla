------------------------------ MODULE Presence ------------------------------
(***************************************************************************)
(* What the server counts and what it tells the application server         *)
(* (websocketHandler, hub_rooms.register, unregister and                   *)
(* cron_detect_all_peers in server/skytime.go and server/hub.go, callApi   *)
(* in server/utils.go).                                                    *)
(*                                                                         *)
(* Every connection reports client_online.json when it has been registered *)
(* and client_offline.json when it has been unregistered, and counts       *)
(* itself in total_peer_cnt, which no lock protects.  A background job     *)
(* walks over the maps of all rooms and reports every peer it finds as     *)
(* online once more.  A report whose call fails is not repeated.           *)
(*                                                                         *)
(* The background job reads maps that other goroutines write.  If the Go   *)
(* runtime notices, the process ends (MapRace in Dispatch); the behaviours *)
(* here are those up to there.                                             *)
(***************************************************************************)
EXTENDS Integers, FiniteSets

CONSTANTS
    Conns,           \* the connections
    PeerIds,         \* values of the peer_id header
    PeerOf,          \* c.peer_id
    NumRooms,        \* len(rooms_ids)
    RoomOf,          \* get_room_id, as a position in rooms_ids
    max_conn_limit,  \* the setting
    max_detect_peer_interval, \* the setting, -1 where the file has none
    MaxFails,        \* bound: calls to the application server that fail
    NoConn,          \* nil
    NoPeer           \* the background job is in no call

ASSUME PresenceConstants ==
    /\ PeerOf \in [Conns -> PeerIds]
    /\ NumRooms \in Nat
    /\ RoomOf \in [PeerIds -> 1 .. NumRooms]
    /\ max_conn_limit \in Nat
    /\ max_detect_peer_interval \in Int
    /\ MaxFails \in Nat
    /\ NoConn \notin Conns
    /\ NoPeer \notin PeerIds

VARIABLES
    connections,     \* the maps h.connections of all rooms
    total_peer_cnt,  \* hr.stats.total_peer_cnt
    session,         \* program counter of the handler, then of the reader
    loaded,          \* the value an unfinished ++ or -- has read
    room,            \* the room the background job is in, 0 while it waits
    must,            \* what its range loop over the room is bound to reach
    seen,            \* what it has reached
    calling,         \* the peer it is reporting, NoPeer if none
    online,          \* external: the peers the application server holds online
    fails,           \* how many calls have failed
    lost,            \* history: peers with an offline report that never arrived
    told             \* history: who made the last report on a peer

sweepVars == <<room, must, seen, calling>>
serverVars == <<online, fails, lost, told>>
vars == <<connections, total_peer_cnt, session, loaded, sweepVars, serverVars>>

Phases == {"idle", "register", "up", "up_store", "online", "running",
           "unregister", "down", "down_store", "offline", "done"}

TypeOK ==
    /\ connections \in [PeerIds -> Conns \cup {NoConn}]
    /\ total_peer_cnt \in Int
    /\ session \in [Conns -> Phases]
    /\ loaded \in [Conns -> Int]
    /\ room \in 0 .. NumRooms
    /\ must \subseteq {p \in PeerIds : RoomOf[p] = room}
    /\ seen \subseteq PeerIds
    /\ calling \in PeerIds \cup {NoPeer}
    /\ online \subseteq PeerIds
    /\ fails \in 0 .. MaxFails
    /\ lost \subseteq PeerIds
    /\ told \in [PeerIds -> {"nobody", "session", "sweep"}]

Init ==
    /\ connections = [p \in PeerIds |-> NoConn]
    /\ total_peer_cnt = 0
    /\ session = [c \in Conns |-> "idle"]
    /\ loaded = [c \in Conns |-> 0]
    /\ room = 0
    /\ must = {}
    /\ seen = {}
    /\ calling = NoPeer
    /\ online = {}
    /\ fails = 0
    /\ lost = {}
    /\ told = [p \in PeerIds |-> "nobody"]

Goto(c, phase) == session' = [session EXCEPT ![c] = phase]

----------------------------------------------------------------------------
(* callApi: the caller waits for the answer, without a limit               *)

\* A report on p arrives at the application server.
Arrives(p, who, isOnline) ==
    /\ online' = IF isOnline THEN online \cup {p} ELSE online \ {p}
    /\ told' = [told EXCEPT ![p] = who]
    /\ UNCHANGED lost

\* A call returns.  One that returns an error may have arrived or not.
CallApi(p, who, isOnline, ok) ==
    /\ ok \/ fails < MaxFails
    /\ fails' = IF ok THEN fails ELSE fails + 1
    /\ \/ Arrives(p, who, isOnline)
       \/ /\ ~ok
          /\ lost' = IF isOnline THEN lost ELSE lost \cup {p}
          /\ UNCHANGED <<online, told>>

----------------------------------------------------------------------------
(* websocketHandler and register                                           *)

\* The address filter, the upgrade or the limit.
Reject(c) ==
    /\ session[c] = "idle"
    /\ Goto(c, "done")
    /\ UNCHANGED <<connections, total_peer_cnt, loaded, sweepVars, serverVars>>

Accept(c) ==
    /\ session[c] = "idle"
    /\ total_peer_cnt <= max_conn_limit
    /\ Goto(c, "register")
    /\ UNCHANGED <<connections, total_peer_cnt, loaded, sweepVars, serverVars>>

\* The room enters c.  A range loop of the background job in that room may
\* reach the new entry or not.
HubRegister(c) ==
    /\ session[c] = "register"
    /\ connections' = [connections EXCEPT ![PeerOf[c]] = c]
    /\ seen' = IF connections[PeerOf[c]] = NoConn THEN seen \ {PeerOf[c]} ELSE seen
    /\ Goto(c, "up")
    /\ UNCHANGED <<total_peer_cnt, loaded, room, must, calling, serverVars>>

\* total_peer_cnt++ and total_peer_cnt--, which read and write without a lock.
LoadCount(c) ==
    /\ session[c] \in {"up", "down"}
    /\ loaded' = [loaded EXCEPT ![c] = total_peer_cnt]
    /\ Goto(c, IF session[c] = "up" THEN "up_store" ELSE "down_store")
    /\ UNCHANGED <<connections, total_peer_cnt, sweepVars, serverVars>>

StoreCount(c) ==
    /\ session[c] \in {"up_store", "down_store"}
    /\ total_peer_cnt' = IF session[c] = "up_store" THEN loaded[c] + 1
                                                   ELSE loaded[c] - 1
    /\ loaded' = [loaded EXCEPT ![c] = 0]
    /\ Goto(c, IF session[c] = "up_store" THEN "online" ELSE "offline")
    /\ UNCHANGED <<connections, sweepVars, serverVars>>

\* client_online.json; whatever it returns, the two goroutines of the
\* connection are started.
CallOnline(c, ok) ==
    /\ session[c] = "online"
    /\ CallApi(PeerOf[c], "session", TRUE, ok)
    /\ Goto(c, "running")
    /\ UNCHANGED <<connections, total_peer_cnt, loaded, sweepVars>>

----------------------------------------------------------------------------
(* The end of a connection, and unregister                                 *)

ReadFails(c) ==
    /\ session[c] = "running"
    /\ Goto(c, "unregister")
    /\ UNCHANGED <<connections, total_peer_cnt, loaded, sweepVars, serverVars>>

\* The entry of p goes.
Delete(p) ==
    /\ connections' = [connections EXCEPT ![p] = NoConn]
    /\ must' = must \ {p}

\* A room drops a connection whose channel is full.
HubDrop(p) ==
    /\ connections[p] # NoConn
    /\ Delete(p)
    /\ UNCHANGED <<total_peer_cnt, session, loaded, room, seen, calling,
                   serverVars>>

\* Mutant of HubUnregister: a connection that is not in the map any more is
\* taken for one that has been dealt with.
HubUnregisterSilent(c) ==
    /\ session[c] = "unregister"
    /\ Delete(PeerOf[c])
    /\ Goto(c, IF connections[PeerOf[c]] = NoConn THEN "done" ELSE "down")
    /\ UNCHANGED <<total_peer_cnt, loaded, room, seen, calling, serverVars>>

\* The room deletes the entry, if there is one; in both cases the connection
\* is counted and reported.
HubUnregister(c) ==
    /\ session[c] = "unregister"
    /\ Delete(PeerOf[c])
    /\ Goto(c, "down")
    /\ UNCHANGED <<total_peer_cnt, loaded, room, seen, calling, serverVars>>

CallOffline(c, ok) ==
    /\ session[c] = "offline"
    /\ CallApi(PeerOf[c], "session", FALSE, ok)
    /\ Goto(c, "done")
    /\ UNCHANGED <<connections, total_peer_cnt, loaded, sweepVars>>

----------------------------------------------------------------------------
(* xheartbeat and cron_detect_all_peers                                    *)

RegisteredIn(r) == {p \in PeerIds : RoomOf[p] = r /\ connections[p] # NoConn}

\* Mutant of EnterRoom: the end of rooms_ids is missed.
EnterRoomPast(r) ==
    /\ room' = r
    /\ must' = RegisteredIn(r)
    /\ seen' = {}

\* The range loop over the map of room r begins; after the last room the job
\* waits for its ticker.
EnterRoom(r) ==
    /\ room' = IF r <= NumRooms THEN r ELSE 0
    /\ must' = IF r <= NumRooms THEN RegisteredIn(r) ELSE {}
    /\ seen' = {}

\* main starts the background job for a positive interval only.
DetectsPeers == max_detect_peer_interval > 0

\* Its ticker fires.
SweepTick ==
    /\ DetectsPeers
    /\ room = 0
    /\ EnterRoom(1)
    /\ UNCHANGED <<connections, total_peer_cnt, session, loaded, calling,
                   serverVars>>

\* The loop reaches an entry: one that was there at its beginning, or a newer
\* one.
SweepPeer(p) ==
    /\ calling = NoPeer
    /\ p \in RegisteredIn(room) \ seen
    /\ calling' = p
    /\ seen' = seen \cup {p}
    /\ must' = must \ {p}
    /\ UNCHANGED <<connections, total_peer_cnt, session, loaded, room,
                   serverVars>>

\* client_online.json returns; an error ends the walk.
SweepReturns(ok) ==
    /\ calling # NoPeer
    /\ CallApi(calling, "sweep", TRUE, ok)
    /\ calling' = NoPeer
    /\ IF ok THEN UNCHANGED <<room, must, seen>>
             ELSE room' = 0 /\ must' = {} /\ seen' = {}
    /\ UNCHANGED <<connections, total_peer_cnt, session, loaded>>

\* Mutant of SweepNextRoom: the last room is left out.
SweepNextRoomShort ==
    /\ room # 0
    /\ calling = NoPeer
    /\ must = {}
    /\ EnterRoom(IF room + 1 < NumRooms THEN room + 1 ELSE NumRooms + 1)
    /\ UNCHANGED <<connections, total_peer_cnt, session, loaded, calling,
                   serverVars>>

\* The loop over a room ends.
SweepNextRoom ==
    /\ room # 0
    /\ calling = NoPeer
    /\ must = {}
    /\ EnterRoom(room + 1)
    /\ UNCHANGED <<connections, total_peer_cnt, session, loaded, calling,
                   serverVars>>

----------------------------------------------------------------------------

SessionStep(c) ==
    \/ Reject(c) \/ Accept(c) \/ HubRegister(c) \/ LoadCount(c) \/ StoreCount(c)
    \/ ReadFails(c) \/ HubUnregister(c)
    \/ \E ok \in BOOLEAN : CallOnline(c, ok) \/ CallOffline(c, ok)

SweepStep ==
    \/ SweepTick \/ SweepNextRoom
    \/ \E p \in PeerIds : SweepPeer(p)
    \/ \E ok \in BOOLEAN : SweepReturns(ok)

Next ==
    \/ \E c \in Conns : SessionStep(c)
    \/ \E p \in PeerIds : HubDrop(p)
    \/ SweepStep

Spec == Init /\ [][Next]_vars

\* The background job goes on, and the application server answers it.
FairSpec == Spec /\ WF_vars(SweepStep)

----------------------------------------------------------------------------

\* When the last connection of a peer_id is gone, and its offline reports have
\* arrived, the application server holds the peer offline, in whatever order
\* the connections of that peer_id came, replaced each other, were dropped by
\* their room and left; unless the last report was a belated one of the
\* background job.
GoneIsOffline ==
    \A p \in online \ lost :
        \/ \E c \in Conns : /\ PeerOf[c] = p
                            /\ session[c] \notin {"idle", "done"}
        \/ told[p] = "sweep"

\* Where it is configured, the background job repairs what late or lost reports
\* have spoilt: a peer that stays registered is again and again held online, if
\* calls do not fail for ever.
RegisteredIsOnline ==
    DetectsPeers =>
        \A p \in PeerIds :
            <>[](connections[p] # NoConn) => []<>(p \in online)

Counted(c) == session[c] \in {"online", "running", "unregister"}

\* When no connection is just being counted, total_peer_cnt, which `stats`
\* prints as the number of connected peers, is the number of connections that
\* have been registered and not yet unregistered.
CountSettles ==
    (\A c \in Conns : session[c] \notin {"up", "up_store", "down", "down_store"})
        => total_peer_cnt = Cardinality({c \in Conns : Counted(c)})
=============================================================================
