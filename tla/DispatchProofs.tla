--------------------------- MODULE DispatchProofs ---------------------------
(***************************************************************************)
(* Proofs about Dispatch, for any number of connections, peers, rooms and  *)
(* pushes and any capacity of the channels.                                *)
(***************************************************************************)
EXTENDS Dispatch, FiniteSetTheorems, TLAPS

----------------------------------------------------------------------------
(* Type correctness                                                        *)

\* A hub is in its select exactly when its range loop has nothing left.
LoopInv == \A r \in Rooms : current[r] = NoMsg <=> pending[r] = {}

\* A push that has found a connection is a "peers" push in its loop.
DirectInv ==
    \A m \in Msgs : job[m] = "direct" =>
        Kind[m] = "peers" /\ todo[m] # <<>> /\ hit[m] \in Conns

\* What the channel operations do to a queue.
LEMMA QueuePut ==
    ASSUME NEW S, NEW q \in Seq(S), NEW e \in S
    PROVE  Append(q, e) \in Seq(S) /\ Len(Append(q, e)) = Len(q) + 1
OBVIOUS

\* Taking the oldest element of a channel that is not empty.
LEMMA QueueGet ==
    ASSUME NEW S, NEW q \in Seq(S), q # <<>>
    PROVE  /\ Head(q) \in S
           /\ Tail(q) \in Seq(S)
           /\ Len(Tail(q)) = Len(q) - 1
           /\ Len(q) \in Nat
OBVIOUS

\* Facts about the one action that draws a list of targets: what broadcast()
\* and the other two follow is a list of targets.
LEMMA OrderType ==
    ASSUME NEW m \in Msgs, NEW s \in Order(m)
    PROVE  s \in Seq(TargetIds)
<1>1. CASE Kind[m] = "all"
  <2>1. Cardinality(Rooms) \in Nat
    BY FS_CardinalityType, DispatchConstants DEF DispatchConstants
  <2>2. s \in [1 .. Cardinality(Rooms) -> Rooms]
    BY <1>1 DEF Order, SetToSeqs
  <2>3. s \in [1 .. Cardinality(Rooms) -> TargetIds]
    BY <2>2, DispatchConstants DEF DispatchConstants, TargetIds
  <2> QED BY <2>1, <2>3
<1>2. CASE Kind[m] # "all"
  <2>1. s = Targets[m]
    BY <1>2 DEF Order
  <2>2. s \in Seq(PeerIds) \/ s \in Seq(RoomIds)
    BY <2>1, DispatchConstants DEF DispatchConstants
  <2> QED BY <2>2 DEF TargetIds
<1> QED BY <1>1, <1>2

\* The freshly started rooms of Newhub and hub_rooms.run are well typed.
LEMMA TypeInit == Init => TypeOK
<1> SUFFICES ASSUME Init PROVE TypeOK
  OBVIOUS
<1> USE HubConstants, DispatchConstants DEF HubConstants, DispatchConstants
<1>1. HubTypeOK
  BY DEF Init, HubInit, HubTypeOK, ReaderStates, WriterStates, Panics
<1>2. \A r \in Rooms : Len(broadcast[r]) <= BroadcastCap
  BY DEF Init, HubInit
<1> QED BY <1>1, <1>2 DEF Init, TypeOK, JobStates

\* One step of a connection keeps the types of the hub's variables.
LEMMA TypeConnStep ==
    ASSUME HubTypeOK, NEW c \in Conns, ConnStep(c)
    PROVE  HubTypeOK' /\ UNCHANGED broadcast
<1> USE DEF registryVars, connVars, fanoutVars, historyVars, HubTypeOK,
            ReaderStates, WriterStates
<1>1. CASE Reject(c) \/ Accept(c) \/ StartPumps(c)
  BY <1>1 DEF Reject, Accept, StartPumps
<1>2. CASE WriteMsg(c)
  <2>1. /\ Head(send[c]) \in Msgs
        /\ Tail(send[c]) \in Seq(Msgs)
        /\ Len(Tail(send[c])) <= SendCap
    <3>1. send[c] \in Seq(Msgs) /\ send[c] # <<>> /\ Len(send[c]) <= SendCap
      BY <1>2 DEF WriteMsg
    <3> QED BY <3>1, QueueGet, HubConstants DEF HubConstants
  <2>2. out' \in [Conns -> Seq(Msgs)]
    <3>1. Append(out[c], Head(send[c])) \in Seq(Msgs)
      BY <2>1
    <3> QED BY <1>2, <3>1 DEF WriteMsg
  <2>3. /\ send' \in [Conns -> Seq(Msgs)]
        /\ \A d \in Conns : Len(send'[d]) <= SendCap
    BY <1>2, <2>1 DEF WriteMsg
  <2>4. writer' \in [Conns -> WriterStates]
    BY <1>2 DEF WriteMsg
  <2> QED BY <1>2, <2>2, <2>3, <2>4 DEF WriteMsg
<1>3. CASE WriteClose(c) \/ PingFails(c)
  BY <1>3 DEF WriteClose, PingFails
<1>4. CASE ReadAck(c) \/ TakeAck(c) \/ ReadFails(c) \/ ReaderEnds(c)
  BY <1>4 DEF ReadAck, TakeAck, ReadFails, ReaderEnds
<1> QED BY <1>1, <1>2, <1>3, <1>4 DEF ConnStep

TypedSend ==
    /\ send' \in [Conns -> Seq(Msgs)]
    /\ \A c \in Conns : Len(send'[c]) <= SendCap
    /\ panic' \in Panics

\* c.send <- m keeps c.send within its capacity, whether it panics or not.
LEMMA SendType ==
    ASSUME HubTypeOK, NEW c \in Conns, NEW m \in Msgs,
           SendReady(c), SendTo(c, m)
    PROVE  TypedSend
<1>1. CASE closed[c]
  BY <1>1 DEF HubTypeOK, SendTo, TypedSend, Panics
<1>2. CASE ~closed[c]
  <2>1. /\ Append(send[c], m) \in Seq(Msgs)
        /\ Len(Append(send[c], m)) <= SendCap
    <3>1. send[c] \in Seq(Msgs) /\ Len(send[c]) < SendCap
      BY <1>2 DEF SendReady, HubTypeOK
    <3> QED BY <3>1, QueuePut, HubConstants DEF HubConstants
  <2> QED BY <1>2, <2>1 DEF HubTypeOK, SendTo, TypedSend
<1> QED BY <1>1, <1>2

\* Every case of the select in hub.run keeps the types.
LEMMA TypeHubStep ==
    ASSUME HubTypeOK, LoopInv, NEW r \in Rooms, HubStep(r)
    PROVE  /\ HubTypeOK'
           /\ \/ UNCHANGED broadcast
              \/ \A q \in Rooms : Len(broadcast'[q]) <= Len(broadcast[q])
<1> USE HubConstants
        DEF registryVars, connVars, fanoutVars, historyVars, HubTypeOK,
            ReaderStates, WriterStates, Panics, HubConstants
<1>1. ASSUME NEW c \in Conns, HubRegister(c)
      PROVE  HubTypeOK' /\ UNCHANGED broadcast
  <2>1. PeerOf[c] \in PeerIds /\ HubRoom(c) \in Rooms
    BY DEF HubRoom
  <2> QED BY <1>1, <2>1, SMTT(30) DEF HubRegister
<1>2. ASSUME NEW c \in Conns, HubUnregister(c) \/ HubUnregisterAbsent(c)
      PROVE  HubTypeOK' /\ UNCHANGED broadcast
  <2>1. PeerOf[c] \in PeerIds /\ HubRoom(c) \in Rooms
    BY DEF HubRoom
  <2>2. CASE HubUnregister(c)
    <3>1. closed' \in [Conns -> BOOLEAN] /\ panic' \in Panics
      BY <2>2 DEF HubUnregister, CloseSend
    <3>2. /\ connections' = [connections EXCEPT ![PeerOf[c]] = NoConn]
          /\ peercnt' = [peercnt EXCEPT ![HubRoom(c)] = @ - 1]
          /\ reader' = [reader EXCEPT ![c] = "offline"]
          /\ UNCHANGED <<broadcast, fanoutVars, send, writer, historyVars>>
      BY <2>2 DEF HubUnregister
    <3>3. connections' \in [PeerIds -> Conns \cup {NoConn}]
      BY <2>1, <3>2
    <3>4. peercnt' \in [Rooms -> Int]
      BY <2>1, <3>2
    <3>5. reader' \in [Conns -> ReaderStates]
      BY <3>2
    <3> QED BY <3>1, <3>2, <3>3, <3>4, <3>5
  <2>3. CASE HubUnregisterAbsent(c)
    BY <2>1, <2>3 DEF HubUnregisterAbsent
  <2> QED BY <1>2, <2>2, <2>3
<1>3. CASE HubTake(r)
  <2>1. {connections[p] : p \in Registered(r)} \subseteq Conns
    BY DEF Registered, PeersOfRoom
  <2>2. /\ Head(broadcast[r]) \in Msgs
        /\ Tail(broadcast[r]) \in Seq(Msgs)
        /\ Len(Tail(broadcast[r])) <= Len(broadcast[r])
    <3>1. broadcast[r] \in Seq(Msgs) /\ broadcast[r] # <<>>
      BY <1>3 DEF HubTake
    <3> QED BY <3>1, QueueGet
  <2>3. Append(feed[r], Head(broadcast[r])) \in Seq(Msgs)
    BY <2>2
  <2>4. feed' \in [Rooms -> Seq(Msgs)]
    BY <1>3, <2>3 DEF HubTake
  <2>5. /\ pending' \in [Rooms -> SUBSET Conns]
        /\ current' \in [Rooms -> Msgs \cup {NoMsg}]
    BY <1>3, <2>1, <2>2 DEF HubTake
  <2>6. /\ broadcast' \in [Rooms -> Seq(Msgs)]
        /\ \A q \in Rooms : Len(broadcast'[q]) <= Len(broadcast[q])
    BY <1>3, <2>2 DEF HubTake
  <2> QED BY <1>3, <2>4, <2>5, <2>6 DEF HubTake
<1>4. ASSUME NEW c \in pending[r], HubSend(r, c)
      PROVE  HubTypeOK' /\ UNCHANGED broadcast
  <2>1. c \in Conns /\ current[r] \in Msgs
    BY DEF LoopInv
  <2>2. SendTo(c, current[r]) /\ SendReady(c)
    BY <1>4 DEF HubSend
  <2>3. TypedSend
    BY <2>1, <2>2, SendType
  <2> QED BY <1>4, <2>1, <2>3 DEF HubSend, LoopPast, TypedSend
<1>5. ASSUME NEW c \in pending[r], HubDrop(r, c)
      PROVE  HubTypeOK' /\ UNCHANGED broadcast
  <2>1. c \in Conns /\ PeerOf[c] \in PeerIds
    OBVIOUS
  <2>2. /\ pending' \in [Rooms -> SUBSET Conns]
        /\ current' \in [Rooms -> Msgs \cup {NoMsg}]
    BY <1>5 DEF HubDrop, LoopPast
  <2>3. closed' \in [Conns -> BOOLEAN] /\ panic' \in Panics
    BY <1>5 DEF HubDrop, CloseSend
  <2>4. /\ connections' \in [PeerIds -> Conns \cup {NoConn}]
        /\ peercnt' \in [Rooms -> Int]
    BY <1>5, <2>1 DEF HubDrop
  <2> QED BY <1>5, <2>2, <2>3, <2>4 DEF HubDrop
<1> HIDE DEF HubTypeOK, HubConstants
<1> QED BY <1>1, <1>2, <1>3, <1>4, <1>5 DEF HubStep

\* What a push has left to do is a list of targets after one of them is done.
LEMMA NextTargetType ==
    ASSUME TypeOK, NEW m \in Msgs, todo[m] # <<>>, NextTarget(m)
    PROVE  todo' \in [Msgs -> Seq(TargetIds)]
<1>1. Tail(todo[m]) \in Seq(TargetIds)
  BY QueueGet DEF TypeOK
<1> QED BY <1>1 DEF NextTarget, TypeOK

\* Every step of broadcast, broadcast_rooms and broadcast_peers keeps the
\* types: the queues of the rooms stay within their capacity.
LEMMA TypePushStep ==
    ASSUME TypeOK, DirectInv, NEW m \in Msgs, PushStep(m)
    PROVE  TypeOK'
<1> USE HubConstants, DispatchConstants
        DEF registryVars, connVars, fanoutVars, historyVars, hubVars, pushVars,
            JobStates, TypeOK, HubTypeOK, HubConstants, DispatchConstants
<1>1. CASE CallPush(m)
  BY <1>1 DEF CallPush
<1>2. CASE Submit(m)
  <2>1. /\ Append(broadcast_Q, m) \in Seq(Msgs)
        /\ Len(Append(broadcast_Q, m)) <= QueueCap
    BY <1>2, QueuePut DEF Submit
  <2> QED BY <1>2, <2>1 DEF Submit
<1>3. CASE Lock(m)
  <2>1. PICK s \in Order(m) : todo' = [todo EXCEPT ![m] = s]
    BY <1>3 DEF Lock
  <2>2. s \in Seq(TargetIds)
    BY OrderType
  <2>3. todo' \in [Msgs -> Seq(TargetIds)]
    BY <2>1, <2>2
  <2>4. /\ broadcast_mu' = FALSE
        /\ total_msg_cnt' = total_msg_cnt + 1
        /\ msg_id' = [msg_id EXCEPT ![m] = total_msg_cnt + 1]
        /\ job' = [job EXCEPT ![m] = "sending"]
        /\ UNCHANGED <<hubVars, broadcast_Q, hit>>
    BY <1>3 DEF Lock
  <2>5. HubTypeOK' /\ UNCHANGED broadcast
    BY <2>4
  <2>6. /\ total_msg_cnt' \in Nat
        /\ msg_id' \in [Msgs -> Nat]
    BY <2>4
  <2>7. job' \in [Msgs -> JobStates]
    BY <2>4
  <2> HIDE DEF HubTypeOK
  <2> QED BY <2>3, <2>4, <2>5, <2>6, <2>7
<1>4. CASE Unlock(m)
  BY <1>4 DEF Unlock
<1>5. CASE DirectSend(m)
  <2>1. hit[m] \in Conns /\ todo[m] # <<>>
    BY <1>5 DEF DirectSend, DirectInv
  <2>2. TypedSend
    BY <1>5, <2>1, SendType DEF DirectSend
  <2>3. todo' \in [Msgs -> Seq(TargetIds)]
    BY <1>5, <2>1, NextTargetType DEF DirectSend
  <2> QED BY <1>5, <2>2, <2>3 DEF DirectSend, TypedSend
<1>6. ASSUME NEW r \in Rooms, PushRoom(m, r)
      PROVE  TypeOK'
  <2>1. todo' \in [Msgs -> Seq(TargetIds)]
    BY <1>6, NextTargetType DEF PushRoom, AtTarget
  <2>2. /\ Append(broadcast[r], m) \in Seq(Msgs)
        /\ Len(Append(broadcast[r], m)) <= BroadcastCap
    <3>1. broadcast[r] \in Seq(Msgs) /\ Len(broadcast[r]) < BroadcastCap
      BY <1>6 DEF PushRoom
    <3> QED BY <3>1, QueuePut
  <2>3. /\ broadcast' \in [Rooms -> Seq(Msgs)]
        /\ \A q \in Rooms : Len(broadcast'[q]) <= BroadcastCap
    BY <1>6, <2>2 DEF PushRoom
  <2> QED BY <1>6, <2>1, <2>3 DEF PushRoom
<1>7. ASSUME NEW t \in RoomIds, SkipRoom(m, t)
      PROVE  TypeOK'
  <2>1. todo' \in [Msgs -> Seq(TargetIds)]
    BY <1>7, NextTargetType DEF SkipRoom, AtTarget
  <2> QED BY <1>7, <2>1 DEF SkipRoom
<1>8. ASSUME NEW p \in PeerIds, HitPeer(m, p)
      PROVE  TypeOK'
  BY <1>8 DEF HitPeer
<1>9. ASSUME NEW p \in PeerIds, MissPeer(m, p)
      PROVE  TypeOK'
  <2>1. todo' \in [Msgs -> Seq(TargetIds)]
    BY <1>9, NextTargetType DEF MissPeer, AtTarget
  <2> QED BY <1>9, <2>1 DEF MissPeer
<1>10. ASSUME NEW p \in PeerIds, MapRace(m, p)
       PROVE  TypeOK'
  BY <1>10 DEF MapRace, Panics
<1> QED
  BY <1>1, <1>2, <1>3, <1>4, <1>5, <1>6, <1>7, <1>8, <1>9, <1>10 DEF PushStep

\* The receive from broadcast_Q in broadcast() keeps the types.
LEMMA TypeTakeQueued ==
    ASSUME TypeOK, TakeQueued
    PROVE  TypeOK'
<1>1. /\ Head(broadcast_Q) \in Msgs
      /\ Tail(broadcast_Q) \in Seq(Msgs)
      /\ Len(Tail(broadcast_Q)) <= QueueCap
  BY QueueGet, DispatchConstants DEF TakeQueued, TypeOK, DispatchConstants
<1>2. job' \in [Msgs -> JobStates]
  BY <1>1 DEF TakeQueued, TypeOK, JobStates
<1>3. HubTypeOK' /\ UNCHANGED broadcast
  BY DEF TakeQueued, TypeOK, HubTypeOK, hubVars
<1> QED BY <1>1, <1>2, <1>3 DEF TakeQueued, TypeOK

\* Every step of the server keeps the types.
LEMMA TypeStep ==
    ASSUME TypeOK, LoopInv, DirectInv, [Next]_vars
    PROVE  TypeOK'
<1>1. ASSUME HubTypeOK', UNCHANGED pushVars,
             \/ UNCHANGED broadcast
             \/ \A q \in Rooms : Len(broadcast'[q]) <= Len(broadcast[q])
      PROVE  TypeOK'
  <2>1. \A q \in Rooms : Len(broadcast'[q]) <= BroadcastCap
    <3> SUFFICES ASSUME NEW q \in Rooms PROVE Len(broadcast'[q]) <= BroadcastCap
      OBVIOUS
    <3>1. broadcast[q] \in Seq(Msgs) /\ broadcast'[q] \in Seq(Msgs)
      BY <1>1 DEF TypeOK, HubTypeOK
    <3>2. Len(broadcast[q]) <= BroadcastCap /\ BroadcastCap \in Nat
      BY DispatchConstants DEF TypeOK, DispatchConstants
    <3> QED BY <1>1, <3>1, <3>2
  <2> QED BY <1>1, <2>1 DEF TypeOK, pushVars
<1>2. ASSUME NEW c \in Conns, ConnStep(c), UNCHANGED pushVars
      PROVE  TypeOK'
  BY <1>1, <1>2, TypeConnStep DEF TypeOK
<1>3. ASSUME NEW r \in Rooms, HubStep(r), UNCHANGED pushVars
      PROVE  TypeOK'
  BY <1>1, <1>3, TypeHubStep DEF TypeOK
<1>4. CASE UNCHANGED vars
  BY <1>4 DEF vars, hubVars, pushVars, TypeOK, HubTypeOK
<1> QED
  BY <1>2, <1>3, <1>4, TypeTakeQueued, TypePushStep DEF Next, HubNext

\* A hub has a message in hand exactly while its range loop has connections
\* left; no step of any goroutine changes that.
LEMMA LoopStep ==
    ASSUME TypeOK, LoopInv, [Next]_vars
    PROVE  LoopInv'
<1> USE DEF fanoutVars, LoopInv
<1>1. ASSUME NEW c \in Conns, ConnStep(c)
      PROVE  LoopInv'
  BY <1>1 DEF ConnStep, Reject, Accept, StartPumps, WriteMsg, WriteClose,
              PingFails, ReadAck, TakeAck, ReadFails, ReaderEnds
<1>2. ASSUME NEW r \in Rooms, HubTake(r)
      PROVE  LoopInv'
  <2>1. Head(broadcast[r]) # NoMsg
    <3>1. broadcast[r] \in Seq(Msgs) /\ broadcast[r] # <<>>
      BY <1>2 DEF HubTake, TypeOK, HubTypeOK
    <3> QED BY <3>1, QueueGet, HubConstants DEF HubConstants
  <2>2. /\ current \in [Rooms -> Msgs \cup {NoMsg}]
        /\ pending \in [Rooms -> SUBSET Conns]
    BY DEF TypeOK, HubTypeOK
  <2> QED BY <1>2, <2>1, <2>2 DEF HubTake
<1>3. ASSUME NEW r \in Rooms, NEW c \in pending[r], LoopPast(r, c)
      PROVE  LoopInv'
  <2>1. /\ current \in [Rooms -> Msgs \cup {NoMsg}]
        /\ pending \in [Rooms -> SUBSET Conns]
    BY DEF TypeOK, HubTypeOK
  <2> QED BY <1>3, <2>1 DEF LoopPast
<1>4. ASSUME NEW r \in Rooms, HubStep(r)
      PROVE  LoopInv'
  BY <1>2, <1>3, <1>4 DEF HubStep, HubRegister, HubUnregister,
                          HubUnregisterAbsent, HubSend, HubDrop
<1>5. ASSUME NEW m \in Msgs, PushStep(m)
      PROVE  LoopInv'
  BY <1>5 DEF PushStep, CallPush, Submit, Lock, Unlock, DirectSend, PushRoom,
              SkipRoom, HitPeer, MissPeer, MapRace, hubVars
<1>6. CASE TakeQueued \/ UNCHANGED vars
  BY <1>6 DEF TakeQueued, vars, hubVars
<1> QED BY <1>1, <1>4, <1>5, <1>6 DEF Next, HubNext

\* A push that is about to send directly has a connection to send to.
LEMMA DirectStep ==
    ASSUME TypeOK, DirectInv, [Next]_vars
    PROVE  DirectInv'
<1>1. CASE UNCHANGED pushVars
  BY <1>1 DEF pushVars, DirectInv
<1>2. CASE TakeQueued
  <2>1. Head(broadcast_Q) \in Msgs
    BY <1>2, QueueGet DEF TakeQueued, TypeOK
  <2> QED BY <1>2, <2>1 DEF TakeQueued, TypeOK, DirectInv
<1>3. ASSUME NEW m \in Msgs, PushStep(m)
      PROVE  DirectInv'
  <2> USE DEF TypeOK, DirectInv
  <2>1. CASE CallPush(m) \/ Submit(m) \/ Unlock(m)
    BY <2>1 DEF CallPush, Submit, Unlock
  <2>2. CASE Lock(m)
    <3>1. PICK s \in Order(m) : todo' = [todo EXCEPT ![m] = s]
      BY <2>2 DEF Lock
    <3>2. job' = [job EXCEPT ![m] = "sending"] /\ UNCHANGED hit
      BY <2>2 DEF Lock
    <3> QED BY <3>1, <3>2
  <2>3. CASE DirectSend(m)
    BY <2>3 DEF DirectSend, NextTarget
  <2>4. ASSUME NEW t, PushRoom(m, t) \/ SkipRoom(m, t) \/ MissPeer(m, t)
        PROVE  DirectInv'
    BY <2>4 DEF PushRoom, SkipRoom, MissPeer, AtTarget, NextTarget
  <2>5. ASSUME NEW p \in PeerIds, HitPeer(m, p)
        PROVE  DirectInv'
    <3>1. connections[p] \in Conns
      BY <2>5 DEF HitPeer, HubTypeOK
    <3> QED BY <2>5, <3>1 DEF HitPeer, AtTarget
  <2>6. ASSUME NEW p \in PeerIds, MapRace(m, p)
        PROVE  DirectInv'
    BY <2>6 DEF MapRace, pushVars
  <2> QED BY <1>3, <2>1, <2>2, <2>3, <2>4, <2>5, <2>6 DEF PushStep
<1> QED BY <1>1, <1>2, <1>3 DEF Next, HubNext, vars

\* The variables of the server always have the types TypeOK gives them; in
\* particular no channel ever holds more than its capacity.
THEOREM TypeCorrect == Spec => [](TypeOK /\ LoopInv /\ DirectInv)
<1>1. Init => TypeOK /\ LoopInv /\ DirectInv
  BY TypeInit DEF Init, HubInit, LoopInv, DirectInv
<1>2. TypeOK /\ LoopInv /\ DirectInv /\ [Next]_vars
        => (TypeOK /\ LoopInv /\ DirectInv)'
  BY TypeStep, LoopStep, DirectStep
<1> QED BY <1>1, <1>2, PTL DEF Spec
----------------------------------------------------------------------------
(* The registry and the range loop                                         *)

\* A connection that has not been registered has an open channel.
Fresh == \A c \in Conns : reader[c] \in {"idle", "register"} => ~closed[c]

RegistryInv == RegistrySound /\ FanoutSound /\ Fresh

\* What the entries of the maps say about rooms: an entry belongs to the
\* connection's own peer_id, so connections of different rooms, and different
\* registered connections, have different peer_ids.
LEMMA PeersDiffer ==
    ASSUME HubTypeOK, RegistrySound, NEW c \in Conns, NEW d \in Conns,
           PeerOf[c] = PeerOf[d]
    PROVE  /\ HubRoom(c) = HubRoom(d)
           /\ IsRegistered(c) /\ IsRegistered(d) => c = d
BY DEF HubRoom, IsRegistered

\* The goroutines of a connection leave the room's map alone and do not undo
\* what it says of them.
LEMMA RegistryConnStep ==
    ASSUME HubTypeOK, RegistryInv, NEW c \in Conns, ConnStep(c)
    PROVE  RegistryInv'
<1> USE DEF RegistryInv, registryVars, fanoutVars, connVars
<1>1. /\ UNCHANGED <<connections, pending, closed>>
      /\ \/ UNCHANGED reader
         \/ \E pc \in ReaderStates :
               /\ reader' = [reader EXCEPT ![c] = pc]
               /\ reader[c] \in {"online", "reading", "acking"} =>
                     pc \in {"reading", "acking", "unregister"}
               /\ reader[c] \in {"online", "reading", "acking", "idle",
                                 "register", "offline"}
               /\ pc \in {"idle", "register"} => reader[c] = "idle"
  BY DEF ConnStep, Reject, Accept, StartPumps, WriteMsg, WriteClose, PingFails,
         ReadAck, TakeAck, ReadFails, ReaderEnds, ReaderStates
<1>2. reader \in [Conns -> ReaderStates]
  BY DEF HubTypeOK
<1>3. RegistrySound'
  BY <1>1, <1>2, HubConstants DEF RegistrySound, HubTypeOK, HubConstants
<1>4. FanoutSound'
  BY <1>1 DEF FanoutSound, IsRegistered
<1>5. Fresh'
  BY <1>1, <1>2 DEF Fresh
<1> QED BY <1>3, <1>4, <1>5

\* Facts every hub step needs.
LEMMA RegisteredHere ==
    ASSUME HubTypeOK, NEW c \in Conns
    PROVE  /\ PeerOf[c] \in PeerIds
           /\ HubRoom(c) \in Rooms
           /\ c # NoConn
BY HubConstants DEF HubConstants, HubRoom

\* The register case of hub.run: a new connection's channel is open, and a
\* connection it replaces is in no range loop.
LEMMA RegistryRegister ==
    ASSUME HubTypeOK, LoopInv, RegistryInv, NEW c \in Conns, HubRegister(c)
    PROVE  RegistryInv'
<1>1. PeerOf[c] \in PeerIds /\ HubRoom(c) \in Rooms /\ c # NoConn
  BY RegisteredHere
<1>2. /\ connections' = [connections EXCEPT ![PeerOf[c]] = c]
      /\ reader' = [reader EXCEPT ![c] = "online"]
      /\ UNCHANGED <<pending, closed>>
      /\ reader[c] = "register"
      /\ pending[HubRoom(c)] = {}
  BY <1>1 DEF HubRegister, LoopInv, fanoutVars
<1>3. ~closed[c]
  BY <1>2 DEF RegistryInv, Fresh
<1>4. RegistrySound'
  <2> SUFFICES ASSUME NEW p \in PeerIds, connections'[p] # NoConn
               PROVE  /\ PeerOf[connections'[p]] = p
                      /\ ~closed'[connections'[p]]
                      /\ reader'[connections'[p]] \in {"online", "reading",
                                                       "acking", "unregister"}
    BY DEF RegistrySound
  <2>1. CASE p = PeerOf[c]
    BY <1>1, <1>2, <1>3, <2>1 DEF HubTypeOK
  <2>2. CASE p # PeerOf[c]
    <3>1. connections'[p] = connections[p] /\ connections[p] \in Conns
      BY <1>2, <2>2 DEF HubTypeOK
    <3>2. connections[p] # c
      BY <2>2, <3>1 DEF RegistryInv, RegistrySound
    <3> QED BY <1>2, <3>1, <3>2 DEF RegistryInv, RegistrySound, HubTypeOK
  <2> QED BY <2>1, <2>2
<1>5. FanoutSound'
  <2> SUFFICES ASSUME NEW r \in Rooms, NEW d \in pending'[r]
               PROVE  HubRoom(d) = r /\ IsRegistered(d)' /\ ~closed'[d]
    BY DEF FanoutSound
  <2>1. d \in Conns /\ HubRoom(d) = r /\ IsRegistered(d) /\ ~closed[d]
    BY <1>2 DEF RegistryInv, FanoutSound, HubTypeOK
  <2>2. PeerOf[d] # PeerOf[c]
    BY <1>1, <1>2, <2>1 DEF HubRoom
  <2>3. PeerOf[d] \in PeerIds
    BY <2>1, RegisteredHere
  <2> QED BY <1>2, <2>1, <2>2, <2>3 DEF IsRegistered, HubTypeOK
<1>6. Fresh'
  BY <1>2 DEF RegistryInv, Fresh, HubTypeOK
<1> QED BY <1>4, <1>5, <1>6 DEF RegistryInv

\* The unregister case of hub.run: no entry is left that names the connection
\* whose channel is closed.
LEMMA RegistryUnregister ==
    ASSUME HubTypeOK, LoopInv, RegistryInv, NEW c \in Conns,
           HubUnregister(c) \/ HubUnregisterAbsent(c)
    PROVE  RegistryInv'
<1>1. PeerOf[c] \in PeerIds /\ HubRoom(c) \in Rooms /\ c # NoConn
  BY RegisteredHere
<1>2. /\ connections' = [connections EXCEPT ![PeerOf[c]] = NoConn]
      /\ reader' = [reader EXCEPT ![c] = "offline"]
      /\ closed' = [closed EXCEPT ![c] = TRUE] \/ UNCHANGED closed
      /\ UNCHANGED pending
      /\ reader[c] = "unregister"
      /\ pending[HubRoom(c)] = {}
  <2>1. CASE HubUnregister(c)
    BY <1>1, <2>1 DEF HubUnregister, CloseSend, LoopInv, fanoutVars
  <2>2. CASE HubUnregisterAbsent(c)
    BY <1>1, <2>2 DEF HubUnregisterAbsent, LoopInv, fanoutVars, registryVars,
                      HubTypeOK
  <2> QED BY <2>1, <2>2
<1>3. RegistrySound'
  <2> SUFFICES ASSUME NEW p \in PeerIds, connections'[p] # NoConn
               PROVE  /\ PeerOf[connections'[p]] = p
                      /\ ~closed'[connections'[p]]
                      /\ reader'[connections'[p]] \in {"online", "reading",
                                                       "acking", "unregister"}
    BY DEF RegistrySound
  <2>1. p # PeerOf[c]
    BY <1>1, <1>2 DEF HubTypeOK
  <2>2. connections'[p] = connections[p] /\ connections[p] \in Conns
    BY <1>2, <2>1 DEF HubTypeOK
  <2>3. connections[p] # c
    BY <2>1, <2>2 DEF RegistryInv, RegistrySound
  <2> QED BY <1>2, <2>2, <2>3 DEF RegistryInv, RegistrySound, HubTypeOK
<1>4. FanoutSound'
  <2> SUFFICES ASSUME NEW r \in Rooms, NEW d \in pending'[r]
               PROVE  HubRoom(d) = r /\ IsRegistered(d)' /\ ~closed'[d]
    BY DEF FanoutSound
  <2>1. d \in Conns /\ HubRoom(d) = r /\ IsRegistered(d) /\ ~closed[d]
    BY <1>2 DEF RegistryInv, FanoutSound, HubTypeOK
  <2>2. PeerOf[d] # PeerOf[c]
    BY <1>1, <1>2, <2>1 DEF HubRoom
  <2>3. PeerOf[d] \in PeerIds
    BY <2>1, RegisteredHere
  <2> QED BY <1>2, <2>1, <2>2, <2>3 DEF IsRegistered, HubTypeOK
<1>5. Fresh'
  BY <1>2 DEF RegistryInv, Fresh, HubTypeOK
<1> QED BY <1>3, <1>4, <1>5 DEF RegistryInv

\* The broadcast case of hub.run begins with the registered connections.
LEMMA RegistryTake ==
    ASSUME HubTypeOK, RegistryInv, NEW r \in Rooms, HubTake(r)
    PROVE  RegistryInv'
<1>1. /\ pending' = [pending EXCEPT ![r] =
                         {connections[p] : p \in Registered(r)}]
      /\ UNCHANGED <<connections, closed, reader>>
  BY DEF HubTake, registryVars, connVars
<1>2. FanoutSound'
  <2> SUFFICES ASSUME NEW q \in Rooms, NEW d \in pending'[q]
               PROVE  HubRoom(d) = q /\ IsRegistered(d)' /\ ~closed'[d]
    BY DEF FanoutSound
  <2>1. CASE q # r
    BY <1>1, <2>1 DEF RegistryInv, FanoutSound, IsRegistered, HubTypeOK
  <2>2. CASE q = r
    <3>1. PICK p \in Registered(r) : d = connections[p]
      BY <1>1, <2>2 DEF HubTypeOK
    <3>2. p \in PeerIds /\ RoomOf[p] = r /\ connections[p] # NoConn
      BY DEF Registered, PeersOfRoom
    <3>3. PeerOf[d] = p /\ ~closed[d]
      BY <3>1, <3>2 DEF RegistryInv, RegistrySound
    <3> QED BY <1>1, <2>2, <3>1, <3>2, <3>3 DEF HubRoom, IsRegistered
  <2> QED BY <2>1, <2>2
<1> QED BY <1>1, <1>2 DEF RegistryInv, RegistrySound, Fresh

\* A successful send of the inner select changes neither map nor channels'
\* being open.
LEMMA RegistrySend ==
    ASSUME HubTypeOK, RegistryInv, NEW r \in Rooms, NEW c \in pending[r],
           HubSend(r, c)
    PROVE  RegistryInv'
<1>1. /\ pending' = [pending EXCEPT ![r] = @ \ {c}]
      /\ UNCHANGED <<connections, closed, reader>>
  BY DEF HubSend, LoopPast, registryVars, connVars
<1>2. \A q \in Rooms : pending'[q] \subseteq pending[q]
  BY <1>1 DEF HubTypeOK
<1> QED BY <1>1, <1>2 DEF RegistryInv, RegistrySound, FanoutSound, Fresh,
                          IsRegistered

\* The default of the inner select: the closed connection leaves the map and
\* the range loop together.
LEMMA RegistryDrop ==
    ASSUME HubTypeOK, RegistryInv, NEW r \in Rooms, NEW c \in pending[r],
           HubDrop(r, c)
    PROVE  RegistryInv'
<1>1. c \in Conns /\ HubRoom(c) = r /\ IsRegistered(c) /\ ~closed[c]
  BY DEF RegistryInv, FanoutSound, HubTypeOK
<1>2. PeerOf[c] \in PeerIds /\ c # NoConn
  BY <1>1, RegisteredHere
<1>3. /\ connections' = [connections EXCEPT ![PeerOf[c]] = NoConn]
      /\ closed' = [closed EXCEPT ![c] = TRUE]
      /\ pending' = [pending EXCEPT ![r] = @ \ {c}]
      /\ UNCHANGED reader
  BY DEF HubDrop, CloseSend, LoopPast, connVars
<1>4. RegistrySound'
  <2> SUFFICES ASSUME NEW p \in PeerIds, connections'[p] # NoConn
               PROVE  /\ PeerOf[connections'[p]] = p
                      /\ ~closed'[connections'[p]]
                      /\ reader'[connections'[p]] \in {"online", "reading",
                                                       "acking", "unregister"}
    BY DEF RegistrySound
  <2>1. p # PeerOf[c]
    BY <1>2, <1>3 DEF HubTypeOK
  <2>2. connections'[p] = connections[p] /\ connections[p] \in Conns
    BY <1>3, <2>1 DEF HubTypeOK
  <2>3. connections[p] # c
    BY <2>1, <2>2 DEF RegistryInv, RegistrySound
  <2> QED BY <1>3, <2>2, <2>3 DEF RegistryInv, RegistrySound, HubTypeOK
<1>5. FanoutSound'
  <2> SUFFICES ASSUME NEW q \in Rooms, NEW d \in pending'[q]
               PROVE  HubRoom(d) = q /\ IsRegistered(d)' /\ ~closed'[d]
    BY DEF FanoutSound
  <2>1. d \in pending[q] /\ (q = r => d # c)
    BY <1>3 DEF HubTypeOK
  <2>2. d \in Conns /\ HubRoom(d) = q /\ IsRegistered(d) /\ ~closed[d]
    BY <2>1 DEF RegistryInv, FanoutSound, HubTypeOK
  <2>3. d # c
    BY <1>1, <2>1, <2>2
  <2>4. PeerOf[d] # PeerOf[c]
    BY <1>1, <2>2, <2>3, PeersDiffer DEF RegistryInv
  <2>5. PeerOf[d] \in PeerIds
    BY <2>2, RegisteredHere
  <2> QED BY <1>3, <2>2, <2>3, <2>4, <2>5 DEF IsRegistered, HubTypeOK
<1>6. Fresh'
  <2>1. reader[c] \notin {"idle", "register"}
    BY <1>1, <1>2 DEF RegistryInv, RegistrySound, IsRegistered
  <2> QED BY <1>3, <2>1 DEF RegistryInv, Fresh, HubTypeOK
<1> QED BY <1>4, <1>5, <1>6 DEF RegistryInv

\* The pushes touch neither the maps nor the loops nor the readers.
LEMMA RegistryFrame ==
    ASSUME RegistryInv, UNCHANGED <<connections, pending, closed, reader>>
    PROVE  RegistryInv'
BY DEF RegistryInv, RegistrySound, FanoutSound, Fresh, IsRegistered

\* No push writes a room's map, its counter, or the state of a connection.
LEMMA PushFrame ==
    ASSUME NEW m \in Msgs, PushStep(m)
    PROVE  UNCHANGED <<connections, peercnt, pending, closed, reader, writer>>
BY DEF PushStep, CallPush, Submit, Lock, Unlock, DirectSend, PushRoom, SkipRoom,
       HitPeer, MissPeer, MapRace, hubVars, registryVars, fanoutVars, connVars

\* Every step of the server keeps the registry sound.
LEMMA RegistryStep ==
    ASSUME TypeOK, LoopInv, RegistryInv, [Next]_vars
    PROVE  RegistryInv'
<1>1. HubTypeOK
  BY DEF TypeOK
<1>2. ASSUME NEW r \in Rooms, HubStep(r)
      PROVE  RegistryInv'
  BY <1>1, <1>2, RegistryRegister, RegistryUnregister, RegistryTake,
     RegistrySend, RegistryDrop DEF HubStep
<1>3. CASE TakeQueued \/ UNCHANGED vars
  BY <1>3, RegistryFrame DEF TakeQueued, vars, hubVars
<1> QED
  BY <1>1, <1>2, <1>3, RegistryConnStep, PushFrame, RegistryFrame
     DEF Next, HubNext

\* The invariant of the hubs and the pushes that the properties rest on.
HubInv == TypeOK /\ LoopInv /\ DirectInv /\ RegistryInv

\* The inductive invariant is kept by every step.
LEMMA HubInvStep ==
    ASSUME HubInv, [Next]_vars
    PROVE  HubInv'
BY TypeStep, LoopStep, DirectStep, RegistryStep DEF HubInv

\* The inductive invariant holds initially.
LEMMA HubInvInit == Init => HubInv
BY TypeInit DEF Init, HubInit, HubInv, LoopInv, DirectInv, RegistryInv,
                RegistrySound, FanoutSound, Fresh

\* The inductive invariant holds throughout every behaviour.
LEMMA HubInvariant == Spec => []HubInv
BY HubInvInit, HubInvStep, PTL DEF Spec

\* An entry of a room's map always names an open connection of that peer_id,
\* for any pattern of connections sharing peer_ids.
THEOREM RegistryCorrect == Spec => []RegistrySound
BY HubInvariant, PTL DEF HubInv, RegistryInv

\* The range loop of hub.run never reaches a closed channel, so no hub ever
\* panics on a send.
THEOREM FanoutCorrect == Spec => []FanoutSound
BY HubInvariant, PTL DEF HubInv, RegistryInv
----------------------------------------------------------------------------
(* The lock of the pushes                                                  *)

\* Every step keeps the pushes apart: only the one that has the token of
\* broadcast_mu gets into the section and gives out a number.
LEMMA PusherStep ==
    ASSUME TypeOK, OnePusher, [Next]_vars
    PROVE  OnePusher'
<1> USE DEF OnePusher
<1>1. CASE UNCHANGED pushVars
  BY <1>1 DEF pushVars
<1>2. CASE TakeQueued
  <2>1. Head(broadcast_Q) \in Msgs
    BY <1>2, QueueGet DEF TakeQueued, TypeOK
  <2> QED BY <1>2, <2>1 DEF TakeQueued, TypeOK
<1>3. ASSUME NEW m \in Msgs, PushStep(m)
      PROVE  OnePusher'
  <2> USE DEF TypeOK
  <2>1. CASE CallPush(m) \/ Submit(m)
    <3>1. /\ job' = [job EXCEPT ![m] = "queued"]
             \/ job' = [job EXCEPT ![m] = "waiting"]
          /\ UNCHANGED <<broadcast_mu, total_msg_cnt, msg_id>>
      BY <2>1 DEF CallPush, Submit
    <3> QED BY <3>1
  <2>2. CASE Lock(m)
    <3>1. /\ broadcast_mu
          /\ broadcast_mu' = FALSE
          /\ total_msg_cnt' = total_msg_cnt + 1
          /\ msg_id' = [msg_id EXCEPT ![m] = total_msg_cnt + 1]
          /\ job' = [job EXCEPT ![m] = "sending"]
      BY <2>2 DEF Lock
    <3>2. \A n \in Msgs : job[n] \notin {"sending", "direct"}
      BY <3>1
    <3> QED BY <3>1, <3>2
  <2>3. CASE Unlock(m)
    BY <2>3 DEF Unlock
  <2>4. CASE DirectSend(m)
    BY <2>4 DEF DirectSend
  <2>5. ASSUME NEW t, PushRoom(m, t) \/ SkipRoom(m, t) \/ MissPeer(m, t)
        PROVE  OnePusher'
    BY <2>5 DEF PushRoom, SkipRoom, MissPeer
  <2>6. ASSUME NEW p \in PeerIds, HitPeer(m, p)
        PROVE  OnePusher'
    BY <2>6 DEF HitPeer, AtTarget
  <2>7. ASSUME NEW p \in PeerIds, MapRace(m, p)
        PROVE  OnePusher'
    BY <2>7 DEF MapRace, pushVars
  <2> QED BY <1>3, <2>1, <2>2, <2>3, <2>4, <2>5, <2>6, <2>7 DEF PushStep
<1> QED BY <1>1, <1>2, <1>3 DEF Next, HubNext, vars

\* The channel broadcast_mu is a lock: one push at a time numbers its message
\* and hands it out, however many requests are served concurrently.
THEOREM PusherCorrect == Spec => []OnePusher
<1>1. Init => OnePusher
  BY DEF Init, OnePusher
<1>2. HubInv /\ OnePusher /\ [Next]_vars => OnePusher'
  BY PusherStep DEF HubInv
<1> QED BY <1>1, <1>2, HubInvariant, PTL DEF Spec
----------------------------------------------------------------------------
(* The counters of the rooms                                               *)

FiniteRegistry == \A r \in Rooms : IsFiniteSet(Registered(r))

\* How a change of one entry changes the sets of registered peers.
LEMMA RegisteredAdd ==
    ASSUME HubTypeOK, NEW c \in Conns,
           connections' = [connections EXCEPT ![PeerOf[c]] = c]
    PROVE  \A r \in Rooms :
               Registered(r)' = IF r = HubRoom(c)
                                THEN Registered(r) \cup {PeerOf[c]}
                                ELSE Registered(r)
<1>1. PeerOf[c] \in PeerIds /\ c # NoConn
  BY RegisteredHere
<1> QED BY <1>1 DEF Registered, PeersOfRoom, HubRoom, HubTypeOK

\* delete(h.connections, peer_id) takes one peer_id out of one room.
LEMMA RegisteredRemove ==
    ASSUME HubTypeOK, NEW c \in Conns,
           connections' = [connections EXCEPT ![PeerOf[c]] = NoConn]
    PROVE  \A r \in Rooms :
               Registered(r)' = IF r = HubRoom(c)
                                THEN Registered(r) \ {PeerOf[c]}
                                ELSE Registered(r)
<1>1. PeerOf[c] \in PeerIds
  BY RegisteredHere
<1> QED BY <1>1 DEF Registered, PeersOfRoom, HubRoom, HubTypeOK

\* Every step registers one connection, removes one entry that is there, or
\* leaves the maps and the counters alone.
Registers(c) ==
    /\ reader[c] = "register"
    /\ connections' = [connections EXCEPT ![PeerOf[c]] = c]
    /\ peercnt' = [peercnt EXCEPT ![HubRoom(c)] = @ + 1]

Removes(c) ==
    /\ connections[PeerOf[c]] # NoConn
    /\ connections' = [connections EXCEPT ![PeerOf[c]] = NoConn]
    /\ peercnt' = [peercnt EXCEPT ![HubRoom(c)] = @ - 1]

\* The three places of hub.run that write the map are the only ones that
\* write peercnt.
LEMMA RegistryChanges ==
    ASSUME HubInv, [Next]_vars
    PROVE  \/ \E c \in Conns : Registers(c) \/ Removes(c)
           \/ UNCHANGED <<connections, peercnt>>
<1>1. ASSUME NEW c \in Conns, ConnStep(c)
      PROVE  UNCHANGED <<connections, peercnt>>
  BY <1>1 DEF ConnStep, Reject, Accept, StartPumps, WriteMsg, WriteClose,
              PingFails, ReadAck, TakeAck, ReadFails, ReaderEnds, registryVars
<1>2. ASSUME NEW r \in Rooms, NEW c \in pending[r], HubDrop(r, c)
      PROVE  c \in Conns /\ Removes(c)
  <2>1. c \in Conns /\ HubRoom(c) = r /\ IsRegistered(c)
    BY DEF HubInv, TypeOK, HubTypeOK, RegistryInv, FanoutSound
  <2>2. c # NoConn
    BY <2>1, HubConstants DEF HubConstants
  <2> QED BY <1>2, <2>1, <2>2 DEF HubDrop, Removes, IsRegistered
<1>3. ASSUME NEW r \in Rooms, HubStep(r)
      PROVE  \/ \E c \in Conns : Registers(c) \/ Removes(c)
             \/ UNCHANGED <<connections, peercnt>>
  BY <1>2, <1>3 DEF HubStep, HubRegister, HubUnregister, HubUnregisterAbsent,
                    HubTake, HubSend, Registers, Removes, registryVars
<1>4. CASE TakeQueued \/ UNCHANGED vars
  BY <1>4 DEF TakeQueued, vars, hubVars
<1> QED BY <1>1, <1>3, <1>4, PushFrame DEF Next, HubNext

\* peercnt keeps covering the map: it is decremented only where an entry goes.
LEMMA PeercntStep ==
    ASSUME HubInv, FiniteRegistry, PeercntCovers, [Next]_vars
    PROVE  FiniteRegistry' /\ PeercntCovers'
<1>1. HubTypeOK
  BY DEF HubInv, TypeOK
<1> SUFFICES ASSUME NEW r \in Rooms
             PROVE  /\ IsFiniteSet(Registered(r)')
                    /\ peercnt'[r] >= Cardinality(Registered(r)')
  BY DEF FiniteRegistry, PeercntCovers
<1>2. /\ IsFiniteSet(Registered(r))
      /\ Cardinality(Registered(r)) \in Nat
      /\ peercnt[r] >= Cardinality(Registered(r))
      /\ peercnt[r] \in Int
  BY <1>1, FS_CardinalityType DEF FiniteRegistry, PeercntCovers, HubTypeOK
<1>3. CASE UNCHANGED <<connections, peercnt>>
  BY <1>2, <1>3 DEF Registered
<1>4. ASSUME NEW c \in Conns, Registers(c)
      PROVE  /\ IsFiniteSet(Registered(r)')
             /\ peercnt'[r] >= Cardinality(Registered(r)')
  <2>1. Registered(r)' = IF r = HubRoom(c) THEN Registered(r) \cup {PeerOf[c]}
                                           ELSE Registered(r)
    BY <1>1, <1>4, RegisteredAdd DEF Registers
  <2>2. peercnt'[r] = IF r = HubRoom(c) THEN peercnt[r] + 1 ELSE peercnt[r]
    BY <1>1, <1>4 DEF Registers, HubTypeOK
  <2>3. /\ IsFiniteSet(Registered(r) \cup {PeerOf[c]})
        /\ Cardinality(Registered(r) \cup {PeerOf[c]})
              <= Cardinality(Registered(r)) + 1
        /\ Cardinality(Registered(r) \cup {PeerOf[c]}) \in Nat
    <3>1. IsFiniteSet(Registered(r) \cup {PeerOf[c]})
      BY <1>2, FS_AddElement
    <3>2. Cardinality(Registered(r) \cup {PeerOf[c]}) =
            IF PeerOf[c] \in Registered(r) THEN Cardinality(Registered(r))
                                           ELSE Cardinality(Registered(r)) + 1
      BY <1>2, FS_AddElement
    <3> QED BY <1>2, <3>1, <3>2
  <2> QED BY <1>2, <2>1, <2>2, <2>3
<1>5. ASSUME NEW c \in Conns, Removes(c)
      PROVE  /\ IsFiniteSet(Registered(r)')
             /\ peercnt'[r] >= Cardinality(Registered(r)')
  <2>1. Registered(r)' = IF r = HubRoom(c) THEN Registered(r) \ {PeerOf[c]}
                                           ELSE Registered(r)
    BY <1>1, <1>5, RegisteredRemove DEF Removes
  <2>2. peercnt'[r] = IF r = HubRoom(c) THEN peercnt[r] - 1 ELSE peercnt[r]
    BY <1>1, <1>5 DEF Removes, HubTypeOK
  <2>3. r = HubRoom(c) => PeerOf[c] \in Registered(r)
    BY <1>1, <1>5, RegisteredHere DEF Removes, Registered, PeersOfRoom, HubRoom
  <2>4. /\ IsFiniteSet(Registered(r) \ {PeerOf[c]})
        /\ r = HubRoom(c) => Cardinality(Registered(r) \ {PeerOf[c]})
                               = Cardinality(Registered(r)) - 1
    BY <1>2, <2>3, FS_RemoveElement
  <2> QED BY <1>2, <2>1, <2>2, <2>4
<1> QED BY <1>3, <1>4, <1>5, RegistryChanges

\* The counters of Newhub are those of empty maps.
LEMMA PeercntInit == Init => FiniteRegistry /\ PeercntCovers /\ PeercntExact
<1> SUFFICES ASSUME Init, NEW r \in Rooms
             PROVE  /\ IsFiniteSet(Registered(r))
                    /\ peercnt[r] = Cardinality(Registered(r))
                    /\ peercnt[r] >= Cardinality(Registered(r))
  BY DEF FiniteRegistry, PeercntCovers, PeercntExact
<1>1. Registered(r) = {} /\ peercnt[r] = 0
  BY DEF Init, HubInit, Registered, PeersOfRoom
<1> QED BY <1>1, FS_EmptySet

\* A room's counter is never below the number of its entries, for any pattern
\* of connections sharing peer_ids.
THEOREM PeercntCorrect == Spec => []PeercntCovers
<1>1. HubInv /\ FiniteRegistry /\ PeercntCovers /\ [Next]_vars
        => (FiniteRegistry /\ PeercntCovers)'
  BY PeercntStep
<1> QED BY <1>1, PeercntInit, HubInvariant, PTL DEF Spec
----------------------------------------------------------------------------
(* When no two connections have the same peer_id                           *)

DistinctPeers == \A c, d \in Conns : PeerOf[c] = PeerOf[d] => c = d

\* Then an entry under a connection's peer_id is that connection.
LEMMA OwnEntry ==
    ASSUME DistinctPeers, HubInv, NEW c \in Conns,
           connections[PeerOf[c]] # NoConn
    PROVE  IsRegistered(c) /\ ~closed[c]
<1>1. PeerOf[c] \in PeerIds
  BY HubConstants DEF HubConstants
<1>2. /\ connections[PeerOf[c]] \in Conns
      /\ PeerOf[connections[PeerOf[c]]] = PeerOf[c]
      /\ ~closed[connections[PeerOf[c]]]
  BY <1>1 DEF HubInv, TypeOK, HubTypeOK, RegistryInv, RegistrySound
<1> QED BY <1>2 DEF DistinctPeers, IsRegistered

\* With distinct peer_ids, the close of the unregister case and the close of
\* the inner select meet an open channel.
LEMMA NoDoubleCloseStep ==
    ASSUME DistinctPeers, HubInv, NoDoubleClose, [Next]_vars
    PROVE  NoDoubleClose'
<1> USE DEF NoDoubleClose
<1>1. ASSUME NEW c \in Conns, ConnStep(c)
      PROVE  UNCHANGED panic
  BY <1>1 DEF ConnStep, Reject, Accept, StartPumps, WriteMsg, WriteClose,
              PingFails, ReadAck, TakeAck, ReadFails, ReaderEnds
<1>2. ASSUME NEW r \in Rooms, HubStep(r)
      PROVE  NoDoubleClose'
  <2>1. ASSUME NEW c \in Conns, HubUnregister(c)
        PROVE  NoDoubleClose'
    BY <2>1, OwnEntry DEF HubUnregister, CloseSend
  <2>2. ASSUME NEW c \in pending[r], HubDrop(r, c)
        PROVE  NoDoubleClose'
    <3>1. ~closed[c]
      BY DEF HubInv, RegistryInv, FanoutSound
    <3> QED BY <2>2, <3>1 DEF HubDrop, CloseSend
  <2> QED BY <1>2, <2>1, <2>2 DEF HubStep, HubRegister, HubUnregisterAbsent,
                                  HubTake, HubSend, SendTo
<1>3. ASSUME NEW m \in Msgs, PushStep(m)
      PROVE  NoDoubleClose'
  BY <1>3 DEF PushStep, CallPush, Submit, Lock, Unlock, DirectSend, SendTo,
              PushRoom, SkipRoom, HitPeer, MissPeer, MapRace, hubVars
<1>4. CASE TakeQueued \/ UNCHANGED vars
  BY <1>4 DEF TakeQueued, vars, hubVars
<1> QED BY <1>1, <1>2, <1>3, <1>4 DEF Next, HubNext

\* Without repeated peer_ids no channel is closed twice: hub.run's two places
\* that close one, the unregister case and the overflow case, exclude each
\* other.
THEOREM NoDoubleCloseCorrect ==
    ASSUME DistinctPeers
    PROVE  Spec => []NoDoubleClose
<1>1. Init => NoDoubleClose
  BY DEF Init, HubInit, NoDoubleClose
<1>2. HubInv /\ NoDoubleClose /\ [Next]_vars => NoDoubleClose'
  BY NoDoubleCloseStep
<1> QED BY <1>1, <1>2, HubInvariant, PTL DEF Spec

\* With distinct peer_ids, peercnt is incremented only where an entry is new.
LEMMA ExactStep ==
    ASSUME DistinctPeers, HubInv, FiniteRegistry, PeercntExact, [Next]_vars
    PROVE  PeercntExact'
<1>1. HubTypeOK
  BY DEF HubInv, TypeOK
<1> SUFFICES ASSUME NEW r \in Rooms
             PROVE  peercnt'[r] = Cardinality(Registered(r)')
  BY DEF PeercntExact
<1>2. /\ IsFiniteSet(Registered(r))
      /\ peercnt[r] = Cardinality(Registered(r))
  BY DEF FiniteRegistry, PeercntExact
<1>3. CASE UNCHANGED <<connections, peercnt>>
  BY <1>2, <1>3 DEF Registered
<1>4. ASSUME NEW c \in Conns, Registers(c)
      PROVE  peercnt'[r] = Cardinality(Registered(r)')
  <2>1. Registered(r)' = IF r = HubRoom(c) THEN Registered(r) \cup {PeerOf[c]}
                                           ELSE Registered(r)
    BY <1>1, <1>4, RegisteredAdd DEF Registers
  <2>2. peercnt'[r] = IF r = HubRoom(c) THEN peercnt[r] + 1 ELSE peercnt[r]
    BY <1>1, <1>4 DEF Registers, HubTypeOK
  <2>3. connections[PeerOf[c]] = NoConn
    <3>1. PeerOf[c] \in PeerIds
      BY HubConstants DEF HubConstants
    <3>2. ~IsRegistered(c)
      BY <1>1, <1>4, <3>1, RegisteredHere
         DEF Registers, HubInv, RegistryInv, RegistrySound, IsRegistered
    <3> QED BY <3>2, OwnEntry
  <2>4. PeerOf[c] \notin Registered(r)
    BY <2>3 DEF Registered
  <2>5. Cardinality(Registered(r) \cup {PeerOf[c]})
          = Cardinality(Registered(r)) + 1
    BY <1>2, <2>4, FS_AddElement
  <2> QED BY <1>2, <2>1, <2>2, <2>5
<1>5. ASSUME NEW c \in Conns, Removes(c)
      PROVE  peercnt'[r] = Cardinality(Registered(r)')
  <2>1. Registered(r)' = IF r = HubRoom(c) THEN Registered(r) \ {PeerOf[c]}
                                           ELSE Registered(r)
    BY <1>1, <1>5, RegisteredRemove DEF Removes
  <2>2. peercnt'[r] = IF r = HubRoom(c) THEN peercnt[r] - 1 ELSE peercnt[r]
    BY <1>1, <1>5 DEF Removes, HubTypeOK
  <2>3. r = HubRoom(c) => PeerOf[c] \in Registered(r)
    BY <1>1, <1>5, RegisteredHere DEF Removes, Registered, PeersOfRoom, HubRoom
  <2>4. r = HubRoom(c) => Cardinality(Registered(r) \ {PeerOf[c]})
                            = Cardinality(Registered(r)) - 1
    BY <1>2, <2>3, FS_RemoveElement
  <2> QED BY <1>2, <2>1, <2>2, <2>4
<1> QED BY <1>3, <1>4, <1>5, RegistryChanges

\* Without repeated peer_ids h.peercnt, which `stats` prints, is the number of
\* the room's entries.
THEOREM PeercntExactCorrect ==
    ASSUME DistinctPeers
    PROVE  Spec => []PeercntExact
<1>1. HubInv /\ FiniteRegistry /\ PeercntCovers /\ [Next]_vars
        => (FiniteRegistry /\ PeercntCovers)'
  BY PeercntStep
<1>2. HubInv /\ FiniteRegistry /\ PeercntExact /\ [Next]_vars => PeercntExact'
  BY ExactStep
<1> QED BY <1>1, <1>2, PeercntInit, HubInvariant, PTL DEF Spec

\* From its registration on a connection with an open channel is registered.
OpenRegistered ==
    \A c \in Conns :
        /\ reader[c] \in {"online", "reading", "acking", "unregister"}
        /\ ~closed[c]
        => IsRegistered(c)

\* With distinct peer_ids, only closing its channel or its own unregister
\* request takes a connection out of the map.
LEMMA OpenRegisteredStep ==
    ASSUME DistinctPeers, HubInv, OpenRegistered, [Next]_vars
    PROVE  OpenRegistered'
<1>1. HubTypeOK
  BY DEF HubInv, TypeOK
<1> USE DEF registryVars, connVars
<1>2. CASE UNCHANGED <<connections, closed, reader>>
  BY <1>2 DEF OpenRegistered, IsRegistered
<1>3. ASSUME NEW c \in Conns, ConnStep(c)
      PROVE  OpenRegistered'
  <2>1. /\ UNCHANGED <<connections, closed>>
        /\ \/ UNCHANGED reader
           \/ \E pc \in ReaderStates :
                 /\ reader' = [reader EXCEPT ![c] = pc]
                 /\ pc \in {"online", "reading", "acking", "unregister"} =>
                       reader[c] \in {"online", "reading", "acking"}
    BY <1>3 DEF ConnStep, Reject, Accept, StartPumps, WriteMsg, WriteClose,
                PingFails, ReadAck, TakeAck, ReadFails, ReaderEnds, ReaderStates
  <2> QED BY <1>1, <2>1 DEF OpenRegistered, IsRegistered, HubTypeOK
<1>4. ASSUME NEW c \in Conns, HubRegister(c)
      PROVE  OpenRegistered'
  <2>1. \A d \in Conns : PeerOf[d] = PeerOf[c] => d = c
    BY DEF DistinctPeers
  <2>2. \A d \in Conns : PeerOf[d] \in PeerIds
    BY HubConstants DEF HubConstants
  <2> QED BY <1>1, <1>4, <2>1, <2>2
             DEF HubRegister, OpenRegistered, IsRegistered, HubTypeOK
<1>5. ASSUME NEW c \in Conns, HubUnregister(c) \/ HubUnregisterAbsent(c)
      PROVE  OpenRegistered'
  <2>1. \A d \in Conns : PeerOf[d] = PeerOf[c] => d = c
    BY DEF DistinctPeers
  <2>2. /\ reader' = [reader EXCEPT ![c] = "offline"]
        /\ \A d \in Conns : d # c => closed'[d] = closed[d]
        /\ \A d \in Conns : d # c => connections'[PeerOf[d]] = connections[PeerOf[d]]
    <3>1. \A d \in Conns : PeerOf[d] \in PeerIds
      BY HubConstants DEF HubConstants
    <3>2. CASE HubUnregister(c)
      <4>1. /\ reader' = [reader EXCEPT ![c] = "offline"]
            /\ closed' = [closed EXCEPT ![c] = TRUE]
            /\ connections' = [connections EXCEPT ![PeerOf[c]] = NoConn]
        BY <3>2 DEF HubUnregister, CloseSend
      <4> QED BY <1>1, <2>1, <3>1, <4>1 DEF HubTypeOK
    <3>3. CASE HubUnregisterAbsent(c)
      BY <3>3 DEF HubUnregisterAbsent
    <3> QED BY <1>5, <3>2, <3>3
  <2> QED BY <1>1, <2>2 DEF OpenRegistered, IsRegistered, HubTypeOK
<1>6. ASSUME NEW r \in Rooms, NEW c \in pending[r], HubDrop(r, c)
      PROVE  OpenRegistered'
  <2>1. c \in Conns
    BY <1>1 DEF HubTypeOK
  <2>2. \A d \in Conns : PeerOf[d] = PeerOf[c] => d = c
    BY <2>1 DEF DistinctPeers
  <2>3. /\ UNCHANGED reader
        /\ closed'[c]
        /\ \A d \in Conns : d # c => closed'[d] = closed[d]
        /\ \A d \in Conns : d # c => connections'[PeerOf[d]] = connections[PeerOf[d]]
    BY <1>1, <1>6, <2>1, <2>2 DEF HubDrop, CloseSend, HubTypeOK
  <2> QED BY <2>3 DEF OpenRegistered, IsRegistered
<1>7. ASSUME NEW r \in Rooms, HubStep(r)
      PROVE  OpenRegistered'
  BY <1>2, <1>4, <1>5, <1>6, <1>7 DEF HubStep, HubTake, HubSend
<1>8. CASE TakeQueued \/ UNCHANGED vars
  BY <1>2, <1>8 DEF TakeQueued, vars, hubVars
<1> QED BY <1>2, <1>3, <1>7, <1>8, PushFrame DEF Next, HubNext

\* Without repeated peer_ids a running connection with an open channel is the
\* one its room's map has, so pushes reach it.
THEOREM ActiveRegisteredCorrect ==
    ASSUME DistinctPeers
    PROVE  Spec => []ActiveRegistered
<1>1. Init => OpenRegistered
  BY DEF Init, HubInit, OpenRegistered
<1>2. HubInv /\ OpenRegistered /\ [Next]_vars => OpenRegistered'
  BY OpenRegisteredStep
<1>3. OpenRegistered => ActiveRegistered
  BY DEF OpenRegistered, ActiveRegistered, IsActive
<1> QED BY <1>1, <1>2, <1>3, HubInvariant, PTL DEF Spec
=============================================================================
