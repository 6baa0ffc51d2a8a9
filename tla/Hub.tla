-------------------------------- MODULE Hub --------------------------------
(***************************************************************************)
(* The hub rooms of the SkyTime server and the websocket connections they  *)
(* serve (server/hub.go, websocketHandler of server/skytime.go).           *)
(*                                                                         *)
(* A room is a `hub`: one goroutine that owns a map from peer_id to        *)
(* connection and serves, one at a time, register requests, unregister     *)
(* requests and broadcast messages.  A connection is three goroutines: the *)
(* HTTP handler that registers it, then a reader (checkPongMessage) that   *)
(* unregisters it when the socket fails, and a writer (writeRTO or         *)
(* writePump) that drains the channel `send`.  The handler ends where the  *)
(* reader starts, so one program counter, `reader`, serves for both.       *)
(*                                                                         *)
(* This module has the state and the actions; Dispatch adds the pushes     *)
(* that feed them and the specification.                                   *)
(***************************************************************************)
EXTENDS Integers, Sequences, FiniteSets

CONSTANTS
    Conns,       \* the *connection objects that websocketHandler may create
    PeerIds,     \* values of the peer_id header
    Rooms,       \* hr.rooms, by room id
    Msgs,        \* the push_msg_t values
    PeerOf,      \* c.peer_id, fixed when the connection is created
    RoomOf,      \* get_room_id: the consistent hash of a peer_id
    SendCap,     \* capacity of c.send (4096)
    AckRto,      \* enable_ack_rto > 0: the writer is writeRTO, else writePump
    ClientAcks,  \* the peers send ACK frames (msg_type 3)
    NoConn,      \* nil
    NoMsg        \* the hub goroutine is in its select

ASSUME HubConstants ==
    /\ PeerOf \in [Conns -> PeerIds]
    /\ RoomOf \in [PeerIds -> Rooms]
    /\ SendCap \in Nat \ {0}
    /\ AckRto \in BOOLEAN
    /\ ClientAcks \in BOOLEAN
    /\ NoConn \notin Conns
    /\ NoMsg \notin Msgs

VARIABLES
    connections, \* the maps h.connections of all rooms: peer_id -> connection
    peercnt,     \* h.peercnt of every room
    broadcast,   \* the buffered channel h.broadcast of every room
    current,     \* the message a hub is handing out, NoMsg in the select
    pending,     \* the connections its range loop has not reached yet
    send,        \* the buffered channel c.send
    closed,      \* close(c.send) has been called
    reader,      \* program counter of the handler, then of the reader
    writer,      \* program counter of the writer goroutine
    panic,       \* "no", or the panic that ended the process
    feed,        \* history: the messages a hub has taken from h.broadcast
    since,       \* history: how many of them before c was registered
    out          \* history: the messages the writer has taken from c.send

connVars == <<reader, writer>>
registryVars == <<connections, peercnt>>
fanoutVars == <<current, pending>>
historyVars == <<feed, since, out>>
hubVars == <<connections, peercnt, broadcast, current, pending, send, closed,
             reader, writer, panic, feed, since, out>>

ReaderStates == {"idle", "register", "online", "reading", "acking",
                 "unregister", "offline", "done"}
WriterStates == {"none", "select", "done"}
Panics == {"no", "send_on_closed", "close_of_closed", "map_race"}

HubTypeOK ==
    /\ connections \in [PeerIds -> Conns \cup {NoConn}]
    /\ peercnt \in [Rooms -> Int]
    /\ broadcast \in [Rooms -> Seq(Msgs)]
    /\ current \in [Rooms -> Msgs \cup {NoMsg}]
    /\ pending \in [Rooms -> SUBSET Conns]
    /\ send \in [Conns -> Seq(Msgs)]
    /\ \A c \in Conns : Len(send[c]) <= SendCap
    /\ closed \in [Conns -> BOOLEAN]
    /\ reader \in [Conns -> ReaderStates]
    /\ writer \in [Conns -> WriterStates]
    /\ panic \in Panics
    /\ feed \in [Rooms -> Seq(Msgs)]
    /\ since \in [Conns -> Nat]
    /\ out \in [Conns -> Seq(Msgs)]

HubInit ==
    /\ connections = [p \in PeerIds |-> NoConn]
    /\ peercnt = [r \in Rooms |-> 0]
    /\ broadcast = [r \in Rooms |-> <<>>]
    /\ current = [r \in Rooms |-> NoMsg]
    /\ pending = [r \in Rooms |-> {}]
    /\ send = [c \in Conns |-> <<>>]
    /\ closed = [c \in Conns |-> FALSE]
    /\ reader = [c \in Conns |-> "idle"]
    /\ writer = [c \in Conns |-> "none"]
    /\ panic = "no"
    /\ feed = [r \in Rooms |-> <<>>]
    /\ since = [c \in Conns |-> 0]
    /\ out = [c \in Conns |-> <<>>]

HubRoom(c) == RoomOf[PeerOf[c]]

PeersOfRoom(r) == {p \in PeerIds : RoomOf[p] = r}

\* The peer_ids a room's map holds an entry for.
Registered(r) == {p \in PeersOfRoom(r) : connections[p] # NoConn}

IsRegistered(c) == connections[PeerOf[c]] = c

\* Mutant of WsOpen: a writer that returns without closing ws.
WsOpenAfterWriter(c) == reader[c] # "done"

\* c.ws is closed by whichever of the two goroutines returns first.
WsOpen(c) == writer[c] # "done" /\ reader[c] # "done"

----------------------------------------------------------------------------
(* The HTTP handler of /ws, and register                                   *)

\* The address filter, the upgrade or the connection limit refuses the peer.
Reject(c) ==
    /\ reader[c] = "idle"
    /\ reader' = [reader EXCEPT ![c] = "done"]
    /\ UNCHANGED <<registryVars, broadcast, fanoutVars, send, closed, writer,
                   panic, historyVars>>

\* The connection object is made; the handler waits on room.register.
Accept(c) ==
    /\ reader[c] = "idle"
    /\ reader' = [reader EXCEPT ![c] = "register"]
    /\ UNCHANGED <<registryVars, broadcast, fanoutVars, send, closed, writer,
                   panic, historyVars>>

\* The call to client_online.json returns, and only then the two goroutines
\* of the connection are started.
StartPumps(c) ==
    /\ reader[c] = "online"
    /\ reader' = [reader EXCEPT ![c] = "reading"]
    /\ writer' = [writer EXCEPT ![c] = "select"]
    /\ UNCHANGED <<registryVars, broadcast, fanoutVars, send, closed, panic,
                   historyVars>>

----------------------------------------------------------------------------
(* The hub goroutine                                                       *)

\* case c := <-h.register.  An entry of the same peer_id is overwritten.
HubRegister(c) ==
    LET r == HubRoom(c) IN
    /\ current[r] = NoMsg
    /\ reader[c] = "register"
    /\ connections' = [connections EXCEPT ![PeerOf[c]] = c]
    /\ peercnt' = [peercnt EXCEPT ![r] = @ + 1]
    /\ reader' = [reader EXCEPT ![c] = "online"]
    /\ since' = [since EXCEPT ![c] = Len(feed[r])]
    /\ UNCHANGED <<broadcast, fanoutVars, send, closed, writer, panic, feed,
                   out>>

\* close(c.send): closing it a second time is a panic.
CloseSend(c) ==
    /\ closed' = [closed EXCEPT ![c] = TRUE]
    /\ panic' = IF closed[c] THEN "close_of_closed" ELSE panic

\* Mutant of HubUnregister: the reader edits the map itself instead of asking
\* the hub goroutine, so it does not wait for the end of a range loop.
HubUnregisterUnsynchronized(c) ==
    LET r == HubRoom(c) IN
    /\ reader[c] = "unregister"
    /\ connections[PeerOf[c]] # NoConn
    /\ connections' = [connections EXCEPT ![PeerOf[c]] = NoConn]
    /\ CloseSend(c)
    /\ peercnt' = [peercnt EXCEPT ![r] = @ - 1]
    /\ reader' = [reader EXCEPT ![c] = "offline"]
    /\ UNCHANGED <<broadcast, fanoutVars, send, writer, historyVars>>

\* case c := <-h.unregister, when the map has an entry for the peer_id: the
\* entry goes, whichever connection it names.
HubUnregister(c) ==
    LET r == HubRoom(c) IN
    /\ current[r] = NoMsg
    /\ reader[c] = "unregister"
    /\ connections[PeerOf[c]] # NoConn
    /\ connections' = [connections EXCEPT ![PeerOf[c]] = NoConn]
    /\ CloseSend(c)
    /\ peercnt' = [peercnt EXCEPT ![r] = @ - 1]
    /\ reader' = [reader EXCEPT ![c] = "offline"]
    /\ UNCHANGED <<broadcast, fanoutVars, send, writer, historyVars>>

\* Mutants of HubUnregisterAbsent: the counter, or the channel, is treated as
\* if the entry had been there.
HubUnregisterAbsentCounts(c) ==
    /\ current[HubRoom(c)] = NoMsg
    /\ reader[c] = "unregister"
    /\ connections[PeerOf[c]] = NoConn
    /\ peercnt' = [peercnt EXCEPT ![HubRoom(c)] = @ - 1]
    /\ reader' = [reader EXCEPT ![c] = "offline"]
    /\ UNCHANGED <<connections, broadcast, fanoutVars, send, closed, writer,
                   panic, historyVars>>

HubUnregisterAbsentCloses(c) ==
    /\ current[HubRoom(c)] = NoMsg
    /\ reader[c] = "unregister"
    /\ connections[PeerOf[c]] = NoConn
    /\ CloseSend(c)
    /\ reader' = [reader EXCEPT ![c] = "offline"]
    /\ UNCHANGED <<registryVars, broadcast, fanoutVars, send, writer,
                   historyVars>>

\* The same case when the map has no entry: nothing changes in the hub.
HubUnregisterAbsent(c) ==
    /\ current[HubRoom(c)] = NoMsg
    /\ reader[c] = "unregister"
    /\ connections[PeerOf[c]] = NoConn
    /\ reader' = [reader EXCEPT ![c] = "offline"]
    /\ UNCHANGED <<registryVars, broadcast, fanoutVars, send, closed, writer,
                   panic, historyVars>>

\* case m := <-h.broadcast: the range loop over the map begins.
HubTake(r) ==
    LET conns == {connections[p] : p \in Registered(r)} IN
    /\ current[r] = NoMsg
    /\ broadcast[r] # <<>>
    /\ broadcast' = [broadcast EXCEPT ![r] = Tail(@)]
    /\ pending' = [pending EXCEPT ![r] = conns]
    /\ current' = [current EXCEPT ![r] =
                       IF conns = {} THEN NoMsg ELSE Head(broadcast[r])]
    /\ feed' = [feed EXCEPT ![r] = Append(@, Head(broadcast[r]))]
    /\ UNCHANGED <<registryVars, send, closed, connVars, panic, since, out>>

\* The range loop leaves c behind; after the last one the select is entered.
LoopPast(r, c) ==
    /\ pending' = [pending EXCEPT ![r] = @ \ {c}]
    /\ current' = [current EXCEPT ![r] =
                       IF pending[r] = {c} THEN NoMsg ELSE @]

\* c.send <- m can go ahead: there is room, or the channel is closed, and
\* then the send is a panic.
SendReady(c) == closed[c] \/ Len(send[c]) < SendCap

SendTo(c, m) ==
    /\ panic' = IF closed[c] THEN "send_on_closed" ELSE panic
    /\ send' = IF closed[c] THEN send ELSE [send EXCEPT ![c] = Append(@, m)]

\* Mutant of HubSend: off by one in the capacity of the channel.
HubSendOverfull(r, c) ==
    /\ c \in pending[r]
    /\ closed[c] \/ Len(send[c]) <= SendCap
    /\ SendTo(c, current[r])
    /\ LoopPast(r, c)
    /\ UNCHANGED <<registryVars, broadcast, closed, connVars, historyVars>>

\* case c.send <- m of the inner select.
HubSend(r, c) ==
    /\ c \in pending[r]
    /\ SendReady(c)
    /\ SendTo(c, current[r])
    /\ LoopPast(r, c)
    /\ UNCHANGED <<registryVars, broadcast, closed, connVars, historyVars>>

\* Mutants of HubDrop: the entry stays in the map; the counter is left alone;
\* the channel stays open; the message is skipped and the connection kept;
\* or the hub waits for room in the channel.
HubDropKeepsEntry(r, c) ==
    /\ c \in pending[r]
    /\ ~SendReady(c)
    /\ CloseSend(c)
    /\ LoopPast(r, c)
    /\ UNCHANGED <<registryVars, broadcast, send, connVars, historyVars>>

HubDropUncounted(r, c) ==
    /\ c \in pending[r]
    /\ ~SendReady(c)
    /\ CloseSend(c)
    /\ connections' = [connections EXCEPT ![PeerOf[c]] = NoConn]
    /\ LoopPast(r, c)
    /\ UNCHANGED <<peercnt, broadcast, send, connVars, historyVars>>

HubDropLeavesOpen(r, c) ==
    /\ c \in pending[r]
    /\ ~SendReady(c)
    /\ connections' = [connections EXCEPT ![PeerOf[c]] = NoConn]
    /\ peercnt' = [peercnt EXCEPT ![r] = @ - 1]
    /\ LoopPast(r, c)
    /\ UNCHANGED <<broadcast, send, closed, panic, connVars, historyVars>>

HubDropSkips(r, c) ==
    /\ c \in pending[r]
    /\ ~SendReady(c)
    /\ LoopPast(r, c)
    /\ UNCHANGED <<registryVars, broadcast, send, closed, panic, connVars,
                   historyVars>>

HubDropWaits(r, c) == FALSE

\* default of the inner select: a connection whose channel is full is
\* closed and forgotten.
HubDrop(r, c) ==
    /\ c \in pending[r]
    /\ ~SendReady(c)
    /\ CloseSend(c)
    /\ connections' = [connections EXCEPT ![PeerOf[c]] = NoConn]
    /\ peercnt' = [peercnt EXCEPT ![r] = @ - 1]
    /\ LoopPast(r, c)
    /\ UNCHANGED <<broadcast, send, connVars, historyVars>>

----------------------------------------------------------------------------
(* The writer goroutine: writeRTO, or writePump without AckRto             *)

\* case message, ok := <-c.send with ok.  writeRTO drops a write error,
\* writePump returns on it.
WriteMsg(c) ==
    /\ writer[c] = "select"
    /\ send[c] # <<>>
    /\ send' = [send EXCEPT ![c] = Tail(@)]
    /\ out' = [out EXCEPT ![c] = Append(@, Head(send[c]))]
    /\ \/ /\ WsOpen(c) \/ AckRto
          /\ UNCHANGED writer
       \/ /\ ~AckRto
          /\ writer' = [writer EXCEPT ![c] = "done"]
    /\ UNCHANGED <<registryVars, broadcast, fanoutVars, closed, reader, panic,
                   feed, since>>

\* The same case without ok: the channel is closed and drained.
WriteClose(c) ==
    /\ writer[c] = "select"
    /\ send[c] = <<>>
    /\ closed[c]
    /\ writer' = [writer EXCEPT ![c] = "done"]
    /\ UNCHANGED <<registryVars, broadcast, fanoutVars, send, closed, reader,
                   panic, historyVars>>

\* case <-ping_ticker.C when the ping cannot be written.
PingFails(c) ==
    /\ writer[c] = "select"
    /\ writer' = [writer EXCEPT ![c] = "done"]
    /\ UNCHANGED <<registryVars, broadcast, fanoutVars, send, closed, reader,
                   panic, historyVars>>

----------------------------------------------------------------------------
(* The reader goroutine: checkPongMessage                                  *)

\* An ACK frame is read; the reader waits on c.recv_ack_seq.
ReadAck(c) ==
    /\ ClientAcks
    /\ reader[c] = "reading"
    /\ WsOpen(c)
    /\ reader' = [reader EXCEPT ![c] = "acking"]
    /\ UNCHANGED <<registryVars, broadcast, fanoutVars, send, closed, writer,
                   panic, historyVars>>

\* case ack_seq := <-c.recv_ack_seq of writeRTO; writePump has no such case.
TakeAck(c) ==
    /\ AckRto
    /\ reader[c] = "acking"
    /\ writer[c] = "select"
    /\ reader' = [reader EXCEPT ![c] = "reading"]
    /\ UNCHANGED <<registryVars, broadcast, fanoutVars, send, closed, writer,
                   panic, historyVars>>

\* ReadMessage fails: the peer left, no pong came in time, or ws is closed.
\* The deferred call waits on room.unregister.
ReadFails(c) ==
    /\ reader[c] = "reading"
    /\ reader' = [reader EXCEPT ![c] = "unregister"]
    /\ UNCHANGED <<registryVars, broadcast, fanoutVars, send, closed, writer,
                   panic, historyVars>>

\* The call to client_offline.json returns, and ws is closed.
ReaderEnds(c) ==
    /\ reader[c] = "offline"
    /\ reader' = [reader EXCEPT ![c] = "done"]
    /\ UNCHANGED <<registryVars, broadcast, fanoutVars, send, closed, writer,
                   panic, historyVars>>

----------------------------------------------------------------------------

ConnStep(c) ==
    \/ Reject(c) \/ Accept(c) \/ StartPumps(c)
    \/ WriteMsg(c) \/ WriteClose(c) \/ PingFails(c)
    \/ ReadAck(c) \/ TakeAck(c) \/ ReadFails(c) \/ ReaderEnds(c)

HubStep(r) ==
    \/ \E c \in {d \in Conns : HubRoom(d) = r} :
          HubRegister(c) \/ HubUnregister(c) \/ HubUnregisterAbsent(c)
    \/ HubTake(r)
    \/ \E c \in pending[r] : HubSend(r, c) \/ HubDrop(r, c)
=============================================================================
