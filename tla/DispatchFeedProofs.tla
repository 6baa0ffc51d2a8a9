------------------------- MODULE DispatchFeedProofs -------------------------
(***************************************************************************)
(* Proofs about what the connections get: the order of the messages, that  *)
(* a registered connection misses none of its room's, and that Dispatch    *)
(* implements RoomFeed.                                                    *)
(***************************************************************************)
EXTENDS DispatchFeed, DispatchProofs, SequenceTheorems

----------------------------------------------------------------------------
(* The room messages of a sequence                                         *)

\* The count is a number, whatever the sequence.
LEMMA CountType ==
    ASSUME NEW s, NEW i \in Nat
    PROVE  /\ IsFiniteSet({j \in 1 .. i : IsRoomMsg(s[j])})
           /\ RoomCount(s, i) \in Nat
<1>1. IsFiniteSet(1 .. i)
  BY FS_Interval
<1>2. IsFiniteSet({j \in 1 .. i : IsRoomMsg(s[j])})
  BY <1>1, FS_Subset
<1> QED BY <1>2, FS_CardinalityType DEF RoomCount

\* The count grows with the part of the sequence it is taken of.
LEMMA CountGrows ==
    ASSUME NEW s, NEW i \in Nat, NEW k \in Nat, i <= k
    PROVE  RoomCount(s, i) <= RoomCount(s, k)
<1>1. {j \in 1 .. i : IsRoomMsg(s[j])} \subseteq {j \in 1 .. k : IsRoomMsg(s[j])}
  OBVIOUS
<1> QED BY <1>1, CountType, FS_Subset DEF RoomCount

\* What one more message adds to the count.
LEMMA CountAppend ==
    ASSUME NEW s \in Seq(Msgs), NEW m \in Msgs
    PROVE  LET t == Append(s, m) IN
           /\ \A i \in 0 .. Len(s) : RoomCount(t, i) = RoomCount(s, i)
           /\ RoomCount(t, Len(s) + 1) =
                 RoomCount(s, Len(s)) + (IF IsRoomMsg(m) THEN 1 ELSE 0)
<1> DEFINE t == Append(s, m)
           n == Len(s)
           S == {j \in 1 .. n : IsRoomMsg(s[j])}
<1>1. n \in Nat /\ \A j \in 1 .. n : t[j] = s[j]
  OBVIOUS
<1>2. t[n + 1] = m
  OBVIOUS
<1>3. ASSUME NEW i \in 0 .. n
      PROVE  RoomCount(t, i) = RoomCount(s, i)
  <2>1. {j \in 1 .. i : IsRoomMsg(t[j])} = {j \in 1 .. i : IsRoomMsg(s[j])}
    BY <1>1
  <2> QED BY <2>1 DEF RoomCount
<1> HIDE DEF t
<1>4. CASE IsRoomMsg(m)
  <2>1. {j \in 1 .. (n + 1) : IsRoomMsg(t[j])} = S \cup {n + 1}
    BY <1>1, <1>2, <1>4
  <2>2. IsFiniteSet(S) /\ n + 1 \notin S
    <3>1. IsFiniteSet(S)
      BY <1>1, CountType
    <3>2. n + 1 \notin 1 .. n
      BY <1>1
    <3> QED BY <3>1, <3>2
  <2>3. Cardinality(S \cup {n + 1}) = Cardinality(S) + 1
    BY <2>2, FS_AddElement
  <2> QED BY <1>3, <1>4, <2>1, <2>3 DEF RoomCount, t
<1>5. CASE ~IsRoomMsg(m)
  <2>1. {j \in 1 .. (n + 1) : IsRoomMsg(t[j])} = S
    BY <1>1, <1>2, <1>5
  <2>2. RoomCount(s, n) \in Nat
    BY <1>1, CountType
  <2>3. RoomCount(t, n + 1) = RoomCount(s, n)
    BY <2>1 DEF RoomCount
  <2> QED BY <1>3, <1>5, <2>2, <2>3 DEF t
<1> QED BY <1>4, <1>5

\* The places of the messages that were there before do not move, and those
\* of a new one are past them.
LEMMA PlaceAppend ==
    ASSUME NEW s \in Seq(Msgs), NEW m \in Msgs,
           NEW k \in 1 .. RoomCount(s, Len(s))
    PROVE  RoomPlace(Append(s, m), k) = RoomPlace(s, k)
<1> DEFINE t == Append(s, m)
           n == Len(s)
<1>1. /\ n \in Nat /\ Len(t) = n + 1
      /\ \A j \in 1 .. n : t[j] = s[j]
      /\ t[n + 1] = m
      /\ RoomCount(s, n) \in Nat
  <2>1. n \in Nat
    OBVIOUS
  <2>2. RoomCount(s, n) \in Nat
    BY <2>1, CountType
  <2> QED BY <2>1, <2>2
<1>2. /\ \A i \in 1 .. n : RoomCount(t, i) = RoomCount(s, i)
      /\ RoomCount(t, n + 1) = RoomCount(s, n) + (IF IsRoomMsg(m) THEN 1 ELSE 0)
  BY <1>1, CountAppend
<1> HIDE DEF t, n
<1>3. ASSUME NEW i \in 1 .. n + 1
      PROVE  (IsRoomMsg(t[i]) /\ RoomCount(t, i) = k)
                <=> i \in 1 .. n /\ IsRoomMsg(s[i]) /\ RoomCount(s, i) = k
  <2>1. CASE i \in 1 .. n
    BY <1>1, <1>2, <2>1
  <2>2. CASE i = n + 1
    <3>1. k < RoomCount(s, n) + 1
      BY <1>1 DEF n
    <3>2. IsRoomMsg(t[i]) => RoomCount(t, i) = RoomCount(s, n) + 1
      BY <1>1, <1>2, <2>2
    <3> QED BY <1>1, <2>2, <3>1, <3>2
  <2> QED BY <1>1, <2>1, <2>2
<1> QED BY <1>1, <1>3 DEF RoomPlace, t, n

\* An empty channel has no messages of the room.
LEMMA RoomMsgsEmpty == RoomMsgs(<<>>) = <<>>
<1>1. {j \in 1 .. 0 : IsRoomMsg((<<>>)[j])} = {}
  OBVIOUS
<1>2. RoomCount(<<>>, 0) = 0
  BY <1>1, FS_EmptySet DEF RoomCount
<1> QED BY <1>2 DEF RoomMsgs

\* As many as are counted.
LEMMA RoomMsgsLen ==
    ASSUME NEW s \in Seq(Msgs)
    PROVE  Len(RoomMsgs(s)) = RoomCount(s, Len(s)) /\ Len(RoomMsgs(s)) \in Nat
<1>1. Len(s) \in Nat
  OBVIOUS
<1>2. RoomCount(s, Len(s)) \in Nat
  BY <1>1, CountType
<1> QED BY <1>2 DEF RoomMsgs

\* Every room message of s that is counted has a place in s.
Placed(s) == \A k \in 1 .. RoomCount(s, Len(s)) : RoomPlace(s, k) # {}

\* It still has when one more message is put in.
LEMMA PlacedAppend ==
    ASSUME NEW s \in Seq(Msgs), NEW m \in Msgs, Placed(s)
    PROVE  Placed(Append(s, m))
<1> DEFINE t == Append(s, m)
           n == Len(s)
<1>1. n \in Nat /\ Len(t) = n + 1 /\ t[n + 1] = m
  OBVIOUS
<1>2. RoomCount(s, n) \in Nat
  BY <1>1, CountType
<1>3. RoomCount(t, n + 1) = RoomCount(s, n) + (IF IsRoomMsg(m) THEN 1 ELSE 0)
  BY CountAppend
<1>4. ASSUME NEW k \in 1 .. RoomCount(t, n + 1)
      PROVE  RoomPlace(t, k) # {}
  <2>1. CASE k \in 1 .. RoomCount(s, n)
    BY <2>1, PlaceAppend DEF Placed
  <2>2. CASE k \notin 1 .. RoomCount(s, n)
    <3>1. IsRoomMsg(m) /\ k = RoomCount(t, n + 1)
      BY <1>2, <1>3, <2>2
    <3>2. n + 1 \in RoomPlace(t, k)
      BY <1>1, <3>1 DEF RoomPlace
    <3> QED BY <3>2
  <2> QED BY <2>1, <2>2
<1> QED BY <1>1, <1>4 DEF Placed

\* A message put into a channel is added to the room messages exactly if it is
\* the room's.
LEMMA RoomMsgsAppend ==
    ASSUME NEW s \in Seq(Msgs), NEW m \in Msgs, Placed(s)
    PROVE  RoomMsgs(Append(s, m)) =
              IF IsRoomMsg(m) THEN Append(RoomMsgs(s), m) ELSE RoomMsgs(s)
<1> DEFINE t == Append(s, m)
           n == Len(s)
           N == RoomCount(s, n)
           K == RoomCount(t, n + 1)
           At(q, k) == CHOOSE i \in RoomPlace(q, k) : TRUE
<1>1. /\ n \in Nat /\ Len(t) = n + 1
      /\ \A j \in 1 .. n : t[j] = s[j]
      /\ t[n + 1] = m
  OBVIOUS
<1>2. N \in Nat
  BY <1>1, CountType
<1>3. K = N + (IF IsRoomMsg(m) THEN 1 ELSE 0)
  BY CountAppend
<1>4. RoomMsgs(s) = [k \in 1 .. N |-> s[At(s, k)]]
  BY DEF RoomMsgs
<1>5. RoomMsgs(t) = [k \in 1 .. K |-> t[At(t, k)]]
  BY <1>1 DEF RoomMsgs
<1>6. ASSUME NEW k \in 1 .. N
      PROVE  t[At(t, k)] = s[At(s, k)]
  <2>1. At(t, k) = At(s, k)
    BY PlaceAppend
  <2>2. At(s, k) \in 1 .. n
    <3>1. RoomPlace(s, k) # {}
      BY DEF Placed
    <3>2. At(s, k) \in RoomPlace(s, k)
      BY <3>1
    <3> QED BY <3>2 DEF RoomPlace
  <2> QED BY <1>1, <2>1, <2>2
<1>7. CASE IsRoomMsg(m)
  <2>1. K = N + 1
    BY <1>2, <1>3, <1>7
  <2>2. t[At(t, K)] = m
    <3>1. n + 1 \in RoomPlace(t, K)
      BY <1>1, <1>7 DEF RoomPlace
    <3>2. ASSUME NEW i \in RoomPlace(t, K)
          PROVE  i = n + 1
      <4>1. i \in 1 .. n + 1 /\ RoomCount(t, i) = N + 1
        BY <1>1, <2>1, <3>2 DEF RoomPlace
      <4>2. ASSUME i \in 1 .. n PROVE FALSE
        <5>1. RoomCount(t, i) = RoomCount(s, i)
          BY <1>1, <4>2, CountAppend
        <5>2. RoomCount(s, i) <= N
          BY <1>1, <4>2, CountGrows
        <5> QED BY <1>2, <4>1, <5>1, <5>2
      <4> QED BY <1>1, <4>1, <4>2
    <3>3. At(t, K) \in RoomPlace(t, K)
      BY <3>1
    <3> QED BY <1>1, <3>2, <3>3
  <2> HIDE DEF t, n, N, K, At
  <2>3. RoomMsgs(t) = [k \in 1 .. N + 1 |-> IF k = N + 1 THEN m ELSE s[At(s, k)]]
    <3>1. \A k \in 1 .. K : t[At(t, k)] = IF k = N + 1 THEN m ELSE s[At(s, k)]
      BY <1>2, <1>6, <2>1, <2>2
    <3> QED BY <1>5, <2>1, <3>1
  <2>4. Append(RoomMsgs(s), m)
          = [k \in 1 .. N + 1 |-> IF k = N + 1 THEN m ELSE s[At(s, k)]]
    BY <1>2, <1>4
  <2> QED BY <1>7, <2>3, <2>4 DEF t
<1>8. CASE ~IsRoomMsg(m)
  <2>1. K = N
    BY <1>2, <1>3, <1>8
  <2> HIDE DEF t, n, N, K, At
  <2>2. RoomMsgs(t) = RoomMsgs(s)
    BY <1>4, <1>5, <1>6, <2>1
  <2> QED BY <1>8, <2>2 DEF t
<1> QED BY <1>7, <1>8
----------------------------------------------------------------------------
(* What a step does to the queues                                          *)

\* The messages a room has taken and those that wait for it.
Fed(r) == feed[r] \o broadcast[r]

\* Both are sequences of messages.
LEMMA FedType ==
    ASSUME TypeOK
    PROVE  /\ \A r \in Rooms : Fed(r) \in Seq(Msgs)
           /\ \A c \in Conns : Given(c) \in Seq(Msgs)
BY DEF TypeOK, HubTypeOK, Fed, Given

\* The oldest element of one queue moves to the end of another.
LEMMA QueueMove ==
    ASSUME NEW S, NEW p \in Seq(S), NEW q \in Seq(S), q # <<>>
    PROVE  Append(p, Head(q)) \o Tail(q) = p \o q
OBVIOUS

\* An element at the end of the second queue is at the end of both.
LEMMA QueueEnd ==
    ASSUME NEW S, NEW p \in Seq(S), NEW q \in Seq(S), NEW e \in S
    PROVE  p \o Append(q, e) = Append(p \o q, e)
OBVIOUS

\* The goroutines of a connection neither add a message nor lose one.
LEMMA ConnKeeps ==
    ASSUME TypeOK, NEW c \in Conns, ConnStep(c)
    PROVE  /\ UNCHANGED <<feed, broadcast, since, connections, pending, current>>
           /\ \A d \in Conns : Given(d)' = Given(d)
<1> USE DEF registryVars, fanoutVars, historyVars, connVars
<1>1. CASE WriteMsg(c)
  <2>1. send[c] \in Seq(Msgs) /\ out[c] \in Seq(Msgs) /\ send[c] # <<>>
    BY <1>1 DEF WriteMsg, TypeOK, HubTypeOK
  <2>2. Append(out[c], Head(send[c])) \o Tail(send[c]) = out[c] \o send[c]
    BY <2>1, QueueMove
  <2>3. /\ send' = [send EXCEPT ![c] = Tail(send[c])]
        /\ out' = [out EXCEPT ![c] = Append(out[c], Head(send[c]))]
    BY <1>1 DEF WriteMsg
  <2>4. \A d \in Conns : Given(d)' = Given(d)
    BY <2>2, <2>3 DEF Given, TypeOK, HubTypeOK
  <2> QED BY <1>1, <2>4 DEF WriteMsg
<1>2. CASE ~WriteMsg(c)
  BY <1>2 DEF ConnStep, Reject, Accept, StartPumps, WriteClose, PingFails,
              ReadAck, TakeAck, ReadFails, ReaderEnds, Given
<1> QED BY <1>1, <1>2

\* Where a message put into c.send ends up.
LEMMA SendGives ==
    ASSUME TypeOK, NEW c \in Conns, NEW m \in Msgs, SendTo(c, m), UNCHANGED out
    PROVE  \A d \in Conns :
              Given(d)' = IF d = c /\ ~closed[c] THEN Append(Given(d), m)
                                                 ELSE Given(d)
<1> SUFFICES ASSUME NEW d \in Conns
             PROVE  Given(d)' = IF d = c /\ ~closed[c] THEN Append(Given(d), m)
                                                       ELSE Given(d)
  OBVIOUS
<1>1. out[d] \in Seq(Msgs) /\ send[d] \in Seq(Msgs)
  BY DEF TypeOK, HubTypeOK
<1>2. out[d] \o Append(send[d], m) = Append(out[d] \o send[d], m)
  <2>1. \A p, q \in Seq(Msgs), e \in Msgs : p \o Append(q, e) = Append(p \o q, e)
    BY QueueEnd
  <2> QED BY <1>1, <2>1
<1>3. send'[d] = IF d = c /\ ~closed[c] THEN Append(send[d], m) ELSE send[d]
  BY DEF SendTo, TypeOK, HubTypeOK
<1> QED BY <1>2, <1>3 DEF Given

\* A hub hands on the message it has in hand, to a connection whose channel is
\* open.
LEMMA HubSendGives ==
    ASSUME HubInv, NEW r \in Rooms, NEW c \in pending[r], HubSend(r, c)
    PROVE  /\ c \in Conns /\ current[r] \in Msgs
           /\ \A d \in Conns :
                 Given(d)' = IF d = c THEN Append(Given(d), current[r])
                                      ELSE Given(d)
<1>1. c \in Conns /\ current[r] \in Msgs /\ ~closed[c]
  BY DEF HubInv, LoopInv, TypeOK, HubTypeOK, RegistryInv, FanoutSound
<1>2. SendTo(c, current[r]) /\ UNCHANGED out
  BY DEF HubSend, historyVars
<1> QED BY <1>1, <1>2, SendGives DEF HubInv

\* The other cases of the select in hub.run put nothing into c.send, and the
\* room's queue only passes from one side of Fed to the other.
LEMMA HubKeeps ==
    ASSUME TypeOK, NEW r \in Rooms,
           \/ \E c \in Conns : \/ HubRegister(c) \/ HubUnregister(c)
                               \/ HubUnregisterAbsent(c)
           \/ HubTake(r)
           \/ \E c \in pending[r] : HubDrop(r, c)
    PROVE  /\ \A d \in Conns : Given(d)' = Given(d)
           /\ \A q \in Rooms : Fed(q)' = Fed(q)
<1>1. UNCHANGED <<send, out>>
  BY DEF HubRegister, HubUnregister, HubUnregisterAbsent, HubTake, HubDrop,
         historyVars
<1>2. CASE HubTake(r)
  <2>1. feed[r] \in Seq(Msgs) /\ broadcast[r] \in Seq(Msgs) /\ broadcast[r] # <<>>
    BY <1>2 DEF HubTake, TypeOK, HubTypeOK
  <2>2. Append(feed[r], Head(broadcast[r])) \o Tail(broadcast[r]) = Fed(r)
    BY <2>1, QueueMove DEF Fed
  <2>3. /\ broadcast' = [broadcast EXCEPT ![r] = Tail(broadcast[r])]
        /\ feed' = [feed EXCEPT ![r] = Append(feed[r], Head(broadcast[r]))]
    BY <1>2 DEF HubTake
  <2>4. \A q \in Rooms : Fed(q)' = Fed(q)
    BY <2>2, <2>3 DEF Fed, TypeOK, HubTypeOK
  <2> QED BY <1>1, <2>4 DEF Given
<1>3. CASE ~HubTake(r)
  BY <1>1, <1>3 DEF HubRegister, HubUnregister, HubUnregisterAbsent, HubDrop,
                    historyVars, Given, Fed
<1> QED BY <1>2, <1>3

\* A push puts its message at the end of a room's queue, or into the channel
\* of the connection it has found, and touches nothing else of the rooms.
LEMMA PushGives ==
    ASSUME HubInv, NEW m \in Msgs, PushStep(m)
    PROVE  /\ UNCHANGED <<feed, since, current, connections, pending, reader>>
           /\ \A d \in Conns :
                 \/ Given(d)' = Given(d)
                 \/ /\ job[m] = "direct" /\ IsPeerMsg(m) /\ d = hit[m]
                    /\ Given(d)' = Append(Given(d), m)
           /\ \A r \in Rooms :
                 \/ Fed(r)' = Fed(r)
                 \/ /\ job[m] = "sending" /\ IsRoomMsg(m)
                    /\ Fed(r)' = Append(Fed(r), m)
<1> USE DEF hubVars, registryVars, fanoutVars, historyVars, connVars
<1>1. CASE DirectSend(m)
  <2>1. /\ job[m] = "direct" /\ IsPeerMsg(m) /\ hit[m] \in Conns
        /\ SendTo(hit[m], m) /\ UNCHANGED out
    BY <1>1 DEF DirectSend, HubInv, DirectInv, IsPeerMsg
  <2>2. \A d \in Conns : \/ Given(d)' = Given(d)
                         \/ d = hit[m] /\ Given(d)' = Append(Given(d), m)
    BY <2>1, SendGives DEF HubInv
  <2>3. \A r \in Rooms : Fed(r)' = Fed(r)
    BY <1>1 DEF DirectSend, Fed
  <2> QED BY <1>1, <2>1, <2>2, <2>3 DEF DirectSend
<1>2. ASSUME NEW q \in Rooms, PushRoom(m, q)
      PROVE  /\ UNCHANGED <<feed, since, current, connections, pending, reader,
                            out, send>>
             /\ \A r \in Rooms :
                   \/ Fed(r)' = Fed(r)
                   \/ /\ job[m] = "sending" /\ IsRoomMsg(m)
                      /\ Fed(r)' = Append(Fed(r), m)
  <2>1. /\ UNCHANGED <<feed, since, current, connections, pending, reader,
                       out, send>>
        /\ job[m] = "sending" /\ IsRoomMsg(m)
        /\ broadcast' = [broadcast EXCEPT ![q] = Append(broadcast[q], m)]
    BY <1>2 DEF PushRoom, AtTarget, IsRoomMsg
  <2>2. ASSUME NEW r \in Rooms
        PROVE  Fed(r)' = Fed(r) \/ Fed(r)' = Append(Fed(r), m)
    <3>1. feed[r] \in Seq(Msgs) /\ broadcast[r] \in Seq(Msgs)
      BY DEF HubInv, TypeOK, HubTypeOK
    <3>2. \A x, y \in Seq(Msgs), e \in Msgs : x \o Append(y, e) = Append(x \o y, e)
      BY QueueEnd
    <3>3. broadcast'[r] = broadcast[r] \/ broadcast'[r] = Append(broadcast[r], m)
      BY <2>1 DEF HubInv, TypeOK, HubTypeOK
    <3> QED BY <2>1, <3>1, <3>2, <3>3 DEF Fed
  <2> QED BY <2>1, <2>2
<1>3. CASE UNCHANGED <<feed, since, current, connections, pending, reader,
                       broadcast, out, send>>
  BY <1>3 DEF Given, Fed
<1> QED
  BY <1>1, <1>2, <1>3
     DEF PushStep, CallPush, Submit, Lock, Unlock, SkipRoom, HitPeer, MissPeer,
         MapRace, Given
----------------------------------------------------------------------------
(* The order of the messages                                               *)

\* The push has not got a number yet.
Early(m) == job[m] \in {"new", "queued", "waiting"}

\* broadcast_Q holds every message once, and none that has been taken out.
QueueInv ==
    \A i \in DOMAIN broadcast_Q :
        /\ job[broadcast_Q[i]] = "queued"
        /\ \A k \in DOMAIN broadcast_Q : broadcast_Q[i] = broadcast_Q[k] => i = k

\* Nothing has a number above the last one given out.
NumberInv == \A m \in Msgs : msg_id[m] <= total_msg_cnt

\* A message in a queue of a room or a connection has got its number.
LateInv ==
    /\ \A r \in Rooms : \A i \in DOMAIN Fed(r) : ~Early(Fed(r)[i])
    /\ \A c \in Conns : \A i \in DOMAIN Given(c) : ~Early(Given(c)[i])

\* What a room hands out is the last message it has taken; rooms take nothing
\* that was pushed to peers.
SourceInv ==
    \A r \in Rooms :
        /\ current[r] # NoMsg => /\ feed[r] # <<>>
                                 /\ current[r] = feed[r][Len(feed[r])]
        /\ \A i \in DOMAIN Fed(r) : IsRoomMsg(Fed(r)[i])

\* A push that has its number keeps it, and a new number is the largest.
LEMMA Numbering ==
    ASSUME HubInv, OnePusher, QueueInv, NumberInv, [Next]_vars
    PROVE  /\ NumberInv' /\ QueueInv'
           /\ \A m \in Msgs : ~Early(m) => ~Early(m)' /\ msg_id'[m] = msg_id[m]
<1> USE DEF NumberInv, QueueInv, Early
<1>0. TypeOK
  BY DEF HubInv
<1>1. CASE UNCHANGED pushVars
  BY <1>1 DEF pushVars
<1>2. CASE TakeQueued
  <2>1. broadcast_Q \in Seq(Msgs) /\ broadcast_Q # <<>>
    BY <1>0, <1>2 DEF TakeQueued, TypeOK
  <2>2. /\ Head(broadcast_Q) = broadcast_Q[1] /\ 1 \in DOMAIN broadcast_Q
        /\ Head(broadcast_Q) \in Msgs
        /\ \A i \in DOMAIN Tail(broadcast_Q) :
              /\ i + 1 \in DOMAIN broadcast_Q /\ i + 1 # 1
              /\ Tail(broadcast_Q)[i] = broadcast_Q[i + 1]
    BY <2>1
  <2>3. /\ job' = [job EXCEPT ![Head(broadcast_Q)] = "waiting"]
        /\ broadcast_Q' = Tail(broadcast_Q)
        /\ UNCHANGED <<total_msg_cnt, msg_id>>
    BY <1>2 DEF TakeQueued
  <2>4. job \in [Msgs -> JobStates] /\ job[Head(broadcast_Q)] = "queued"
    BY <1>0, <2>2 DEF TypeOK
  <2>5. \A i \in DOMAIN Tail(broadcast_Q) :
           /\ Tail(broadcast_Q)[i] \in Msgs
           /\ Tail(broadcast_Q)[i] # Head(broadcast_Q)
    BY <2>1, <2>2
  <2>6. \A i \in DOMAIN Tail(broadcast_Q) : job'[Tail(broadcast_Q)[i]] = "queued"
    BY <2>2, <2>3, <2>4, <2>5
  <2>7. QueueInv'
    <3> SUFFICES ASSUME NEW i \in DOMAIN Tail(broadcast_Q),
                        NEW k \in DOMAIN Tail(broadcast_Q),
                        Tail(broadcast_Q)[i] = Tail(broadcast_Q)[k]
                 PROVE  i = k
      BY <2>3, <2>6
    <3>1. i + 1 = k + 1
      BY <2>2
    <3> QED BY <2>1, <3>1
  <2> QED BY <2>3, <2>4, <2>7
<1>3. ASSUME NEW m \in Msgs, Lock(m)
      PROVE  /\ NumberInv' /\ QueueInv'
             /\ \A n \in Msgs : ~Early(n) => ~Early(n)' /\ msg_id'[n] = msg_id[n]
  <2>1. /\ job[m] = "waiting"
        /\ job' = [job EXCEPT ![m] = "sending"]
        /\ total_msg_cnt' = total_msg_cnt + 1
        /\ msg_id' = [msg_id EXCEPT ![m] = total_msg_cnt + 1]
        /\ UNCHANGED broadcast_Q
    BY <1>3 DEF Lock
  <2>2. broadcast_Q \in Seq(Msgs) /\ job \in [Msgs -> JobStates]
        /\ msg_id \in [Msgs -> Nat] /\ total_msg_cnt \in Nat
    BY <1>0 DEF TypeOK
  <2>3. \A i \in DOMAIN broadcast_Q : broadcast_Q[i] \in Msgs /\ broadcast_Q[i] # m
    BY <2>1, <2>2
  <2>4. QueueInv'
    BY <2>1, <2>2, <2>3
  <2>5. NumberInv'
    BY <2>1, <2>2
  <2>6. \A n \in Msgs : ~Early(n) => ~Early(n)' /\ msg_id'[n] = msg_id[n]
    BY <2>1, <2>2
  <2> QED BY <2>4, <2>5, <2>6
<1>4. ASSUME NEW m \in Msgs, Submit(m)
      PROVE  /\ NumberInv' /\ QueueInv'
             /\ \A n \in Msgs : ~Early(n) => ~Early(n)' /\ msg_id'[n] = msg_id[n]
  <2>1. /\ job[m] = "new"
        /\ job' = [job EXCEPT ![m] = "queued"]
        /\ broadcast_Q' = Append(broadcast_Q, m)
        /\ UNCHANGED <<msg_id, total_msg_cnt>>
    BY <1>4 DEF Submit
  <2>2. broadcast_Q \in Seq(Msgs) /\ job \in [Msgs -> JobStates]
    BY <1>0 DEF TypeOK
  <2>3. \A i \in DOMAIN broadcast_Q : broadcast_Q[i] \in Msgs /\ broadcast_Q[i] # m
    BY <2>1, <2>2
  <2>4. \A i \in DOMAIN broadcast_Q' :
           \/ i \in DOMAIN broadcast_Q /\ broadcast_Q'[i] = broadcast_Q[i]
           \/ i = Len(broadcast_Q) + 1 /\ broadcast_Q'[i] = m
    BY <2>1, <2>2
  <2>5. QueueInv'
    BY <2>1, <2>2, <2>3, <2>4
  <2> QED BY <2>1, <2>2, <2>5
<1>5. ASSUME NEW m \in Msgs, PushStep(m), ~Lock(m), ~Submit(m)
      PROVE  /\ NumberInv' /\ QueueInv'
             /\ \A n \in Msgs : ~Early(n) => ~Early(n)' /\ msg_id'[n] = msg_id[n]
  <2>1. UNCHANGED <<msg_id, total_msg_cnt, broadcast_Q>>
    BY <1>5 DEF PushStep, CallPush, Unlock, DirectSend, PushRoom, SkipRoom,
                HitPeer, MissPeer, MapRace, pushVars
  <2>2. \/ UNCHANGED job
        \/ job[m] = "new" /\ job' = [job EXCEPT ![m] = "waiting"]
        \/ /\ job[m] \in {"sending", "direct"}
           /\ \E j \in {"sending", "direct", "done"} : job' = [job EXCEPT ![m] = j]
    BY <1>5 DEF PushStep, CallPush, Unlock, DirectSend, PushRoom, SkipRoom,
                HitPeer, MissPeer, MapRace, AtTarget, pushVars
  <2>3. broadcast_Q \in Seq(Msgs) /\ job \in [Msgs -> JobStates]
    BY <1>0 DEF TypeOK
  <2>4. \A i \in DOMAIN broadcast_Q : broadcast_Q[i] \in Msgs
    BY <2>3
  <2>5. QueueInv'
    BY <2>1, <2>2, <2>3, <2>4
  <2>6. \A n \in Msgs : ~Early(n) => ~Early(n)'
    BY <2>2, <2>3
  <2> QED BY <2>1, <2>5, <2>6
<1> QED BY <1>1, <1>2, <1>3, <1>4, <1>5 DEF Next, HubNext, vars

\* What any step does to the messages of a room.
LEMMA FedEffect ==
    ASSUME HubInv, [Next]_vars, NEW r \in Rooms
    PROVE  \/ Fed(r)' = Fed(r)
           \/ \E m \in Msgs : /\ job[m] = "sending" /\ IsRoomMsg(m)
                              /\ Fed(r)' = Append(Fed(r), m)
<1>0. TypeOK
  BY DEF HubInv
<1>1. ASSUME NEW c \in Conns, ConnStep(c)
      PROVE  Fed(r)' = Fed(r)
  BY <1>0, <1>1, ConnKeeps DEF Fed
<1>2. ASSUME NEW q \in Rooms, HubStep(q)
      PROVE  Fed(r)' = Fed(r)
  <2>1. ASSUME NEW c \in pending[q], HubSend(q, c)
        PROVE  Fed(r)' = Fed(r)
    BY <2>1 DEF HubSend, historyVars, Fed
  <2> QED BY <1>0, <1>2, <2>1, HubKeeps DEF HubStep
<1>3. CASE TakeQueued \/ UNCHANGED vars
  BY <1>3 DEF TakeQueued, vars, hubVars, Fed
<1>4. ASSUME NEW m \in Msgs, PushStep(m)
      PROVE  \/ Fed(r)' = Fed(r)
             \/ /\ job[m] = "sending" /\ IsRoomMsg(m)
                /\ Fed(r)' = Append(Fed(r), m)
  BY <1>4, PushGives
<1> QED BY <1>1, <1>2, <1>3, <1>4 DEF Next, HubNext

\* What any step does to the messages a connection has been given.
LEMMA GivenEffect ==
    ASSUME HubInv, [Next]_vars, NEW c \in Conns
    PROVE  \/ Given(c)' = Given(c)
           \/ \E r \in Rooms : /\ c \in pending[r] /\ current[r] \in Msgs
                               /\ HubSend(r, c)
                               /\ Given(c)' = Append(Given(c), current[r])
           \/ \E m \in Msgs : /\ job[m] = "direct" /\ IsPeerMsg(m) /\ hit[m] = c
                              /\ Given(c)' = Append(Given(c), m)
<1>0. TypeOK
  BY DEF HubInv
<1>1. ASSUME NEW d \in Conns, ConnStep(d)
      PROVE  Given(c)' = Given(c)
  BY <1>0, <1>1, ConnKeeps
<1>2. ASSUME NEW r \in Rooms, HubStep(r)
      PROVE  \/ Given(c)' = Given(c)
             \/ /\ c \in pending[r] /\ current[r] \in Msgs
                /\ HubSend(r, c)
                /\ Given(c)' = Append(Given(c), current[r])
  <2>1. ASSUME NEW d \in pending[r], HubSend(r, d)
        PROVE  \/ Given(c)' = Given(c)
               \/ /\ c \in pending[r] /\ current[r] \in Msgs
                  /\ HubSend(r, c)
                  /\ Given(c)' = Append(Given(c), current[r])
    BY <2>1, HubSendGives
  <2> QED BY <1>0, <1>2, <2>1, HubKeeps DEF HubStep
<1>3. CASE TakeQueued \/ UNCHANGED vars
  BY <1>3 DEF TakeQueued, vars, hubVars, Given
<1>4. ASSUME NEW m \in Msgs, PushStep(m)
      PROVE  \/ Given(c)' = Given(c)
             \/ /\ job[m] = "direct" /\ IsPeerMsg(m) /\ hit[m] = c
                /\ Given(c)' = Append(Given(c), m)
  BY <1>4, PushGives
<1> QED BY <1>1, <1>2, <1>3, <1>4 DEF Next, HubNext

\* A hub takes what it hands out from its own queue.
LEMMA SourceStep ==
    ASSUME HubInv, SourceInv, [Next]_vars
    PROVE  SourceInv'
<1>0. TypeOK
  BY DEF HubInv
<1>1. ASSUME NEW r \in Rooms
      PROVE  \A i \in DOMAIN Fed(r)' : IsRoomMsg(Fed(r)'[i])
  <2>1. Fed(r) \in Seq(Msgs)
    BY <1>0, FedType
  <2>2. \A i \in DOMAIN Fed(r) : IsRoomMsg(Fed(r)[i])
    BY DEF SourceInv
  <2>3. CASE Fed(r)' = Fed(r)
    BY <2>2, <2>3
  <2>4. ASSUME NEW m \in Msgs, IsRoomMsg(m), Fed(r)' = Append(Fed(r), m)
        PROVE  \A i \in DOMAIN Fed(r)' : IsRoomMsg(Fed(r)'[i])
    <3>1. \A i \in DOMAIN Append(Fed(r), m) :
             \/ Append(Fed(r), m)[i] = m
             \/ i \in DOMAIN Fed(r) /\ Append(Fed(r), m)[i] = Fed(r)[i]
      BY <2>1
    <3> QED BY <2>2, <2>4, <3>1
  <2> QED BY <2>3, <2>4, FedEffect
<1>2. ASSUME NEW r \in Rooms, current'[r] # NoMsg
      PROVE  feed'[r] # <<>> /\ current'[r] = feed'[r][Len(feed'[r])]
  <2>0. /\ feed \in [Rooms -> Seq(Msgs)] /\ current \in [Rooms -> Msgs \cup {NoMsg}]
        /\ broadcast \in [Rooms -> Seq(Msgs)]
    BY <1>0 DEF TypeOK, HubTypeOK
  <2>1. CASE feed'[r] = feed[r] /\ current'[r] = current[r]
    BY <1>2, <2>1 DEF SourceInv
  <2>2. ASSUME NEW q \in Rooms, HubTake(q)
        PROVE  feed'[r] # <<>> /\ current'[r] = feed'[r][Len(feed'[r])]
    <3>1. CASE q # r
      BY <2>0, <2>1, <2>2, <3>1 DEF HubTake
    <3>2. CASE q = r
      <4>1. feed'[r] = Append(feed[r], Head(broadcast[r]))
        BY <2>0, <2>2, <3>2 DEF HubTake
      <4>2. current'[r] = Head(broadcast[r])
        BY <1>2, <2>0, <2>2, <3>2 DEF HubTake
      <4>3. feed[r] \in Seq(Msgs) /\ Head(broadcast[r]) \in Msgs
        BY <2>0, <2>2, <3>2, QueueGet DEF HubTake
      <4> QED BY <4>1, <4>2, <4>3
    <3> QED BY <3>1, <3>2
  <2>3. ASSUME NEW q \in Rooms, NEW c \in pending[q],
               HubSend(q, c) \/ HubDrop(q, c)
        PROVE  feed'[r] = feed[r] /\ current'[r] = current[r]
    BY <1>2, <2>0, <2>3 DEF HubSend, HubDrop, LoopPast, historyVars
  <2>4. ASSUME NEW q \in Rooms, HubStep(q)
        PROVE  feed'[r] # <<>> /\ current'[r] = feed'[r][Len(feed'[r])]
    BY <2>1, <2>2, <2>3, <2>4
       DEF HubStep, HubRegister, HubUnregister, HubUnregisterAbsent, fanoutVars,
           historyVars
  <2>5. CASE TakeQueued \/ UNCHANGED vars
    BY <2>1, <2>5 DEF TakeQueued, vars, hubVars
  <2> QED BY <1>0, <2>1, <2>4, <2>5, ConnKeeps, PushGives DEF Next, HubNext
<1> QED BY <1>1, <1>2 DEF SourceInv

\* The message a hub has in hand is one of those it has taken.
LEMMA InHand ==
    ASSUME TypeOK, SourceInv, NEW r \in Rooms, current[r] # NoMsg
    PROVE  \E i \in DOMAIN Fed(r) : current[r] = Fed(r)[i]
<1>1. /\ feed[r] \in Seq(Msgs) /\ broadcast[r] \in Seq(Msgs)
      /\ feed[r] # <<>> /\ current[r] = feed[r][Len(feed[r])]
  BY DEF TypeOK, HubTypeOK, SourceInv
<1>2. /\ Len(feed[r]) \in DOMAIN (feed[r] \o broadcast[r])
      /\ (feed[r] \o broadcast[r])[Len(feed[r])] = feed[r][Len(feed[r])]
  <2>1. \A p, q \in Seq(Msgs) : p # <<>> => /\ Len(p) \in DOMAIN (p \o q)
                                           /\ (p \o q)[Len(p)] = p[Len(p)]
    OBVIOUS
  <2> QED BY <1>1, <2>1
<1> QED BY <1>1, <1>2 DEF Fed

\* A sequence of messages with numbers that gets one more such message.
LEMMA LateAppend ==
    ASSUME NEW s \in Seq(Msgs), NEW m \in Msgs,
           \A i \in DOMAIN s : ~Early(s[i]),
           ~Early(m), \A n \in Msgs : ~Early(n) => ~Early(n)'
    PROVE  /\ \A i \in DOMAIN s : ~Early(s[i])'
           /\ \A i \in DOMAIN Append(s, m) : ~Early(Append(s, m)[i])'
<1>1. \A i \in DOMAIN s : s[i] \in Msgs
  OBVIOUS
<1>2. \A i \in DOMAIN Append(s, m) : \/ Append(s, m)[i] = m
                                     \/ i \in DOMAIN s /\ Append(s, m)[i] = s[i]
  OBVIOUS
<1>3. \A i \in DOMAIN s : ~Early(s[i])'
  BY <1>1
<1> QED BY <1>2, <1>3

\* Only messages with a number get into a queue of a room or a connection.
LEMMA LateStep ==
    ASSUME HubInv, OnePusher, QueueInv, NumberInv, SourceInv, LateInv, [Next]_vars
    PROVE  LateInv'
<1>0. /\ TypeOK
      /\ \A m \in Msgs : ~Early(m) => ~Early(m)'
  BY Numbering DEF HubInv
<1>1. ASSUME NEW s \in Seq(Msgs), \A i \in DOMAIN s : ~Early(s[i])
      PROVE  \A i \in DOMAIN s : ~Early(s[i])'
  <2>1. \A i \in DOMAIN s : s[i] \in Msgs
    OBVIOUS
  <2> QED BY <1>0, <1>1, <2>1 DEF Early
<1>2. ASSUME NEW r \in Rooms, NEW i \in DOMAIN Fed(r)'
      PROVE  ~Early(Fed(r)[i])'
  <2>1. Fed(r) \in Seq(Msgs) /\ \A k \in DOMAIN Fed(r) : ~Early(Fed(r)[k])
    BY <1>0, FedType DEF LateInv
  <2>2. CASE Fed(r)' = Fed(r)
    BY <1>1, <1>2, <2>1, <2>2 DEF Early
  <2>3. ASSUME NEW m \in Msgs, job[m] = "sending", Fed(r)' = Append(Fed(r), m)
        PROVE  ~Early(Fed(r)[i])'
    <3>1. ~Early(m)
      BY <2>3 DEF Early
    <3>2. \A k \in DOMAIN Append(Fed(r), m) : job'[Append(Fed(r), m)[k]] \notin
             {"new", "queued", "waiting"}
      BY <1>0, <2>1, <3>1, LateAppend DEF Early
    <3> QED BY <1>2, <2>3, <3>2 DEF Early
  <2> QED BY <2>2, <2>3, FedEffect
<1>3. ASSUME NEW c \in Conns, NEW i \in DOMAIN Given(c)'
      PROVE  ~Early(Given(c)[i])'
  <2>1. Given(c) \in Seq(Msgs) /\ \A k \in DOMAIN Given(c) : ~Early(Given(c)[k])
    BY <1>0, FedType DEF LateInv
  <2>2. CASE Given(c)' = Given(c)
    BY <1>1, <1>3, <2>1, <2>2 DEF Early
  <2>3. ASSUME NEW m \in Msgs, ~Early(m), Given(c)' = Append(Given(c), m)
        PROVE  ~Early(Given(c)[i])'
    <3>1. \A k \in DOMAIN Append(Given(c), m) : job'[Append(Given(c), m)[k]] \notin
             {"new", "queued", "waiting"}
      BY <1>0, <2>1, <2>3, LateAppend DEF Early
    <3> QED BY <1>3, <2>3, <3>1 DEF Early
  <2>4. ASSUME NEW r \in Rooms, current[r] \in Msgs,
               Given(c)' = Append(Given(c), current[r])
        PROVE  ~Early(Given(c)[i])'
    <3>1. current[r] # NoMsg
      BY <2>4, HubConstants DEF HubConstants
    <3>2. ~Early(current[r])
      BY <1>0, <3>1, InHand DEF LateInv
    <3> QED BY <2>3, <2>4, <3>2
  <2>5. ASSUME NEW m \in Msgs, job[m] = "direct", Given(c)' = Append(Given(c), m)
        PROVE  ~Early(Given(c)[i])'
    BY <2>3, <2>5 DEF Early
  <2> QED BY <2>2, <2>4, <2>5, GivenEffect
<1> QED BY <1>2, <1>3 DEF LateInv

\* A message with the last number may follow any others.
LEMMA AscendingAppend ==
    ASSUME TypeOK, OnePusher, NumberInv, NEW s \in Seq(Msgs), NEW m \in Msgs,
           job[m] \in {"sending", "direct"},
           \A i \in DOMAIN s : msg_id'[s[i]] = msg_id[s[i]],
           msg_id'[m] = msg_id[m]
    PROVE  /\ \A i \in DOMAIN s : msg_id'[s[i]] <= msg_id'[m]
           /\ Append(s, m)[Len(s) + 1] = m
           /\ \A i \in DOMAIN Append(s, m) :
                 \/ i = Len(s) + 1
                 \/ i \in DOMAIN s /\ Append(s, m)[i] = s[i]
<1>1. msg_id[m] = total_msg_cnt
  BY DEF OnePusher
<1>2. \A i \in DOMAIN s : s[i] \in Msgs
  OBVIOUS
<1>3. \A i \in DOMAIN s : msg_id[s[i]] <= total_msg_cnt
  BY <1>2 DEF NumberInv
<1> QED BY <1>1, <1>3

\* The rooms' queues and what was taken from them stay in order.
LEMMA FeedOrderedStep ==
    ASSUME HubInv, OnePusher, QueueInv, NumberInv, LateInv, FeedOrdered,
           [Next]_vars
    PROVE  FeedOrdered'
<1>0. /\ TypeOK
      /\ \A m \in Msgs : ~Early(m) => msg_id'[m] = msg_id[m]
  BY Numbering DEF HubInv
<1> SUFFICES ASSUME NEW r \in Rooms
             PROVE  Ascending(Fed(r))'
  BY DEF FeedOrdered, Fed
<1>1. Fed(r) \in Seq(Msgs) /\ Ascending(Fed(r))
  BY <1>0, FedType DEF FeedOrdered, Fed
<1>2. \A i \in DOMAIN Fed(r) : Fed(r)[i] \in Msgs /\ ~Early(Fed(r)[i])
  BY <1>1 DEF LateInv
<1>3. \A i \in DOMAIN Fed(r) : msg_id'[Fed(r)[i]] = msg_id[Fed(r)[i]]
  BY <1>0, <1>2
<1>4. CASE Fed(r)' = Fed(r)
  BY <1>1, <1>3, <1>4 DEF Ascending
<1>5. ASSUME NEW m \in Msgs, job[m] = "sending", Fed(r)' = Append(Fed(r), m)
      PROVE  Ascending(Fed(r))'
  <2> DEFINE s == Fed(r)
             t == Append(Fed(r), m)
  <2>1. msg_id'[m] = msg_id[m] /\ msg_id'[m] \in Nat
    BY <1>0, <1>5 DEF Early, TypeOK
  <2>2. /\ \A i \in DOMAIN s : msg_id'[s[i]] <= msg_id'[m]
        /\ t[Len(s) + 1] = m
        /\ \A i \in DOMAIN t : i = Len(s) + 1 \/ (i \in DOMAIN s /\ t[i] = s[i])
    BY <1>0, <1>1, <1>3, <1>5, <2>1, AscendingAppend
  <2>3. \A i \in DOMAIN s : i \in Nat /\ i < Len(s) + 1
    BY <1>1
  <2>4. \A i, k \in DOMAIN s : i < k => msg_id'[s[i]] <= msg_id'[s[k]]
    BY <1>1, <1>3 DEF Ascending
  <2>5. Len(s) \in Nat
    BY <1>1
  <2> HIDE DEF s, t
  <2>6. \A i, k \in DOMAIN t : i < k => msg_id'[t[i]] <= msg_id'[t[k]]
    BY <2>1, <2>2, <2>3, <2>4, <2>5
  <2> QED BY <1>5, <2>6 DEF Ascending, t
<1> QED BY <1>4, <1>5, FedEffect

\* What is pushed to a connection directly goes into its channel in the order
\* of the numbers; a message its room gives it does not disturb that order.
LEMMA DirectOrderedStep ==
    ASSUME HubInv, OnePusher, QueueInv, NumberInv, LateInv, SourceInv,
           DirectOrdered, [Next]_vars
    PROVE  DirectOrdered'
<1>0. /\ TypeOK
      /\ \A m \in Msgs : ~Early(m) => msg_id'[m] = msg_id[m]
  BY Numbering DEF HubInv
<1> DEFINE Direct(s, num) ==
              \A i, k \in DOMAIN s :
                 i < k /\ IsPeerMsg(s[i]) /\ IsPeerMsg(s[k])
                    => num[s[i]] <= num[s[k]]
<1> SUFFICES ASSUME NEW c \in Conns
             PROVE  Direct(Given(c)', msg_id')
  BY DEF DirectOrdered, IsPeerMsg
<1>1. Given(c) \in Seq(Msgs) /\ Direct(Given(c), msg_id)
  BY <1>0, FedType DEF DirectOrdered
<1>2. \A i \in DOMAIN Given(c) : Given(c)[i] \in Msgs /\ ~Early(Given(c)[i])
  BY <1>1 DEF LateInv
<1>3. \A i \in DOMAIN Given(c) : msg_id'[Given(c)[i]] = msg_id[Given(c)[i]]
  BY <1>0, <1>2
<1>4. Direct(Given(c), msg_id')
  BY <1>1, <1>3
<1>5. ASSUME NEW m \in Msgs, Given(c)' = Append(Given(c), m),
             IsPeerMsg(m) => \A i \in DOMAIN Given(c) :
                                 msg_id'[Given(c)[i]] <= msg_id'[m]
      PROVE  Direct(Given(c)', msg_id')
  <2> DEFINE s == Given(c)
             t == Append(Given(c), m)
  <2>1. /\ Len(s) \in Nat
        /\ t[Len(s) + 1] = m
        /\ \A i \in DOMAIN t : i = Len(s) + 1 \/ (i \in DOMAIN s /\ t[i] = s[i])
        /\ \A i \in DOMAIN s : i \in Nat /\ i < Len(s) + 1
    BY <1>1
  <2>2. Direct(s, msg_id')
    BY <1>4
  <2>3. IsPeerMsg(m) => \A i \in DOMAIN s : msg_id'[s[i]] <= msg_id'[m]
    BY <1>5
  <2> HIDE DEF s, t
  <2>4. Direct(t, msg_id')
    BY <2>1, <2>2, <2>3
  <2> QED BY <1>5, <2>4 DEF t
<1>6. ASSUME NEW r \in Rooms, current[r] \in Msgs,
             Given(c)' = Append(Given(c), current[r])
      PROVE  Direct(Given(c)', msg_id')
  <2>1. current[r] # NoMsg
    BY <1>6, HubConstants DEF HubConstants
  <2>2. IsRoomMsg(current[r])
    BY <1>0, <2>1, InHand DEF SourceInv
  <2> QED BY <1>5, <1>6, <2>2 DEF IsRoomMsg, IsPeerMsg
<1>7. ASSUME NEW m \in Msgs, job[m] = "direct",
             Given(c)' = Append(Given(c), m)
      PROVE  Direct(Given(c)', msg_id')
  <2>1. msg_id'[m] = msg_id[m]
    BY <1>0, <1>7 DEF Early
  <2>2. \A i \in DOMAIN Given(c) : msg_id'[Given(c)[i]] <= msg_id'[m]
    BY <1>0, <1>1, <1>3, <1>7, <2>1, AscendingAppend
  <2> HIDE DEF Direct
  <2> QED BY <1>5, <1>7, <2>2
<1> HIDE DEF Direct
<1>8. CASE Given(c)' = Given(c)
  BY <1>4, <1>8
<1> QED BY <1>6, <1>7, <1>8, GivenEffect

\* What the order of the messages rests on: one push at a time has the token,
\* so the message it hands out has the largest number so far, and nothing gets
\* into a queue without a number.
OrderInv ==
    /\ HubInv /\ OnePusher /\ QueueInv /\ NumberInv /\ LateInv /\ SourceInv
    /\ FeedOrdered /\ DirectOrdered

\* Nothing has been pushed when the server starts.
LEMMA OrderInit == Init => OrderInv
<1> SUFFICES ASSUME Init PROVE OrderInv
  OBVIOUS
<1>1. /\ \A r \in Rooms : feed[r] = <<>> /\ broadcast[r] = <<>> /\ current[r] = NoMsg
      /\ \A c \in Conns : out[c] = <<>> /\ send[c] = <<>>
      /\ broadcast_Q = <<>>
  BY DEF Init, HubInit
<1>2. (\A r \in Rooms : Fed(r) = <<>>) /\ (\A c \in Conns : Given(c) = <<>>)
  BY <1>1 DEF Fed, Given
<1>3. OnePusher /\ QueueInv /\ NumberInv
  BY <1>1 DEF Init, OnePusher, QueueInv, NumberInv
<1>4. LateInv /\ SourceInv
  BY <1>1, <1>2 DEF LateInv, SourceInv
<1>5. FeedOrdered
  <2>1. \A r \in Rooms : feed[r] \o broadcast[r] = <<>>
    BY <1>2 DEF Fed
  <2>2. Ascending(<<>>)
    BY DEF Ascending
  <2> QED BY <2>1, <2>2 DEF FeedOrdered
<1>6. DirectOrdered
  BY <1>2 DEF DirectOrdered
<1> QED BY <1>3, <1>4, <1>5, <1>6, HubInvInit DEF OrderInv

\* Every step keeps the order.
LEMMA OrderStep ==
    ASSUME OrderInv, [Next]_vars
    PROVE  OrderInv'
<1>1. HubInv' /\ OnePusher'
  BY HubInvStep, PusherStep DEF OrderInv, HubInv
<1>2. QueueInv' /\ NumberInv' /\ LateInv' /\ SourceInv'
  BY Numbering, LateStep, SourceStep DEF OrderInv
<1>3. FeedOrdered' /\ DirectOrdered'
  BY FeedOrderedStep, DirectOrderedStep DEF OrderInv
<1> QED BY <1>1, <1>2, <1>3 DEF OrderInv

\* Every behaviour of the server keeps the order.
LEMMA OrderInvariant == Spec => []OrderInv
BY OrderInit, OrderStep, PTL DEF Spec

\* Every room takes its messages in ascending order of msg_id, whichever of
\* broadcast, broadcast_rooms and their goroutines hand them out.
THEOREM FeedOrderedCorrect == Spec => []FeedOrdered
BY OrderInvariant, PTL DEF OrderInv

\* What broadcast_peers sends to a connection is in its channel, and comes out
\* of it, in ascending order of msg_id.
THEOREM DirectOrderedCorrect == Spec => []DirectOrdered
BY OrderInvariant, PTL DEF OrderInv
----------------------------------------------------------------------------
(* No message of its room passes a connection by                           *)

\* The room messages a connection has been given.
FromRoom(c) == RoomMsgs(Given(c))

\* How many of the messages its room has taken c has been offered.
Offered(c) ==
    IF c \in pending[HubRoom(c)] THEN Len(feed[HubRoom(c)]) - 1
                                 ELSE Len(feed[HubRoom(c)])

\* Nothing is given to a connection before it is registered, and no push has
\* found it in the map.
BornInv ==
    /\ \A c \in Conns : reader[c] \in {"idle", "register"} => Given(c) = <<>>
    /\ \A m \in Msgs : job[m] = "direct" =>
          reader[hit[m]] \notin {"idle", "register"}

\* The parts of a channel that came from the room can be told.
PlacedInv == \A c \in Conns : Placed(Given(c))

\* A registered connection has what its room took since it was registered.
MatchInv ==
    \A c \in Conns : IsRegistered(c) =>
        /\ since[c] <= Offered(c)
        /\ FromRoom(c) = SubSeq(feed[HubRoom(c)], since[c] + 1, Offered(c))

\* What FromRoom is after a step, from what has been given.
LEMMA FromRoomNext ==
    ASSUME NEW c \in Conns
    PROVE  /\ FromRoom(c)' = RoomMsgs(Given(c)')
           /\ Placed(Given(c))' = Placed(Given(c)')
BY DEF FromRoom, RoomMsgs, RoomCount, RoomPlace, IsRoomMsg, Placed

\* The three ways in which what a connection has been given may change: not at
\* all, by a message pushed to it, by the message its hub has in hand.
LEMMA FromRoomCases ==
    ASSUME TypeOK, SourceInv, PlacedInv, NEW c \in Conns
    PROVE  /\ Given(c)' = Given(c)
                 => Placed(Given(c))' /\ FromRoom(c)' = FromRoom(c)
           /\ \A m \in Msgs :
                 IsPeerMsg(m) /\ Given(c)' = Append(Given(c), m)
                    => Placed(Given(c))' /\ FromRoom(c)' = FromRoom(c)
           /\ \A r \in Rooms :
                 current[r] \in Msgs /\ Given(c)' = Append(Given(c), current[r])
                    => /\ Placed(Given(c))'
                       /\ FromRoom(c)' = Append(FromRoom(c), current[r])
<1>1. Given(c) \in Seq(Msgs) /\ Placed(Given(c))
  BY FedType DEF PlacedInv
<1>2. \A m \in Msgs :
         /\ Placed(Append(Given(c), m))
         /\ RoomMsgs(Append(Given(c), m)) =
               IF IsRoomMsg(m) THEN Append(RoomMsgs(Given(c)), m)
                               ELSE RoomMsgs(Given(c))
  BY <1>1, PlacedAppend, RoomMsgsAppend
<1>3. CASE Given(c)' = Given(c)
  BY <1>1, <1>3, FromRoomNext DEF FromRoom
<1>4. ASSUME NEW m \in Msgs, IsPeerMsg(m), Given(c)' = Append(Given(c), m)
      PROVE  Placed(Given(c))' /\ FromRoom(c)' = FromRoom(c)
  <2>1. ~IsRoomMsg(m)
    BY <1>4 DEF IsPeerMsg, IsRoomMsg
  <2>2. Placed(Given(c)') /\ RoomMsgs(Given(c)') = RoomMsgs(Given(c))
    BY <1>2, <1>4, <2>1
  <2> QED BY <2>2, FromRoomNext DEF FromRoom
<1>5. ASSUME NEW r \in Rooms, current[r] \in Msgs,
             Given(c)' = Append(Given(c), current[r])
      PROVE  /\ Placed(Given(c))'
             /\ FromRoom(c)' = Append(FromRoom(c), current[r])
  <2>1. current[r] # NoMsg
    BY <1>5, HubConstants DEF HubConstants
  <2>2. IsRoomMsg(current[r])
    BY <2>1, InHand DEF SourceInv
  <2>3. /\ Placed(Given(c)')
        /\ RoomMsgs(Given(c)') = Append(RoomMsgs(Given(c)), current[r])
    BY <1>2, <1>5, <2>2
  <2> QED BY <2>3, FromRoomNext DEF FromRoom
<1> QED BY <1>3, <1>4, <1>5

\* What a step does to the reader of a connection: it does not come back to
\* where it was before it was registered.
LEMMA ReaderEffect ==
    ASSUME HubInv, [Next]_vars, NEW c \in Conns, reader[c] \notin {"idle", "register"}
    PROVE  reader'[c] \notin {"idle", "register"}
<1>0. reader \in [Conns -> ReaderStates]
  BY DEF HubInv, TypeOK, HubTypeOK
<1> USE DEF connVars
<1>1. ASSUME NEW d \in Conns, ConnStep(d)
      PROVE  reader'[c] \notin {"idle", "register"}
  BY <1>0, <1>1 DEF ConnStep, Reject, Accept, StartPumps, WriteMsg, WriteClose,
                    PingFails, ReadAck, TakeAck, ReadFails, ReaderEnds
<1>2. ASSUME NEW r \in Rooms, HubStep(r)
      PROVE  reader'[c] \notin {"idle", "register"}
  BY <1>0, <1>2 DEF HubStep, HubRegister, HubUnregister, HubUnregisterAbsent,
                    HubTake, HubSend, HubDrop
<1>3. CASE TakeQueued \/ UNCHANGED vars
  BY <1>3 DEF TakeQueued, vars, hubVars
<1> QED BY <1>1, <1>2, <1>3, PushGives DEF Next, HubNext

\* A connection gets nothing before it is registered.
LEMMA BornStep ==
    ASSUME HubInv, BornInv, [Next]_vars
    PROVE  BornInv'
<1>0. TypeOK /\ RegistrySound /\ FanoutSound /\ DirectInv
  BY DEF HubInv, RegistryInv
<1>1. ASSUME NEW c \in Conns, reader'[c] \in {"idle", "register"}
      PROVE  Given(c)' = <<>>
  <2>1. reader[c] \in {"idle", "register"}
    BY <1>1, ReaderEffect
  <2>2. Given(c) = <<>>
    BY <2>1 DEF BornInv
  <2>3. \A r \in Rooms : c \notin pending[r]
    <3> SUFFICES ASSUME NEW r \in Rooms, c \in pending[r] PROVE FALSE
      OBVIOUS
    <3>1. IsRegistered(c) /\ PeerOf[c] \in PeerIds /\ c # NoConn
      BY <1>0, HubConstants DEF FanoutSound, HubConstants
    <3> QED BY <1>0, <2>1, <3>1 DEF RegistrySound, IsRegistered
  <2>4. \A m \in Msgs : job[m] = "direct" => hit[m] # c
    BY <2>1 DEF BornInv
  <2> QED BY <2>2, <2>3, <2>4, GivenEffect
<1>2. ASSUME NEW m \in Msgs, job'[m] = "direct"
      PROVE  reader'[hit'[m]] \notin {"idle", "register"}
  <2>1. CASE job[m] = "direct" /\ hit'[m] = hit[m]
    <3>1. hit[m] \in Conns /\ reader[hit[m]] \notin {"idle", "register"}
      BY <1>0, <2>1 DEF BornInv, DirectInv
    <3> QED BY <2>1, <3>1, ReaderEffect
  <2>2. ASSUME NEW p \in PeerIds, HitPeer(m, p)
        PROVE  reader'[hit'[m]] \notin {"idle", "register"}
    <3>1. hit'[m] = connections[p] /\ connections[p] # NoConn /\ UNCHANGED reader
      BY <1>0, <2>2 DEF HitPeer, hubVars, TypeOK
    <3>2. reader[connections[p]] \notin {"idle", "register"}
      BY <1>0, <3>1 DEF RegistrySound
    <3> QED BY <3>1, <3>2
  <2>3. CASE UNCHANGED pushVars
    BY <1>2, <2>1, <2>3 DEF pushVars
  <2>4. CASE TakeQueued
    <3>1. Head(broadcast_Q) \in Msgs
      BY <1>0, <2>4, QueueGet DEF TakeQueued, TypeOK
    <3> QED BY <1>0, <1>2, <2>1, <2>4, <3>1 DEF TakeQueued, TypeOK
  <2>5. ASSUME NEW n \in Msgs, PushStep(n)
        PROVE  \/ job[m] = "direct" /\ hit'[m] = hit[m]
               \/ \E p \in PeerIds : HitPeer(m, p)
    <3>1. job \in [Msgs -> JobStates] /\ hit \in [Msgs -> Conns \cup {NoConn}]
      BY <1>0 DEF TypeOK
    <3>2. ASSUME NEW p \in PeerIds, HitPeer(n, p)
          PROVE  \/ job[m] = "direct" /\ hit'[m] = hit[m]
                 \/ HitPeer(m, p)
      <4>1. CASE n = m
        BY <3>2, <4>1
      <4>2. CASE n # m
        BY <1>2, <3>1, <3>2, <4>2 DEF HitPeer
      <4> QED BY <4>1, <4>2
    <3>3. ASSUME ~\E p \in PeerIds : HitPeer(n, p)
          PROVE  job[m] = "direct" /\ hit'[m] = hit[m]
      BY <1>2, <2>5, <3>1, <3>3
         DEF PushStep, CallPush, Submit, Lock, Unlock, DirectSend, PushRoom,
             SkipRoom, MissPeer, MapRace, pushVars
    <3> QED BY <3>2, <3>3
  <2> QED BY <2>1, <2>2, <2>3, <2>4, <2>5 DEF Next, HubNext, vars
<1> QED BY <1>1, <1>2 DEF BornInv

\* Every room message in a channel keeps its place.
LEMMA PlacedStep ==
    ASSUME HubInv, SourceInv, PlacedInv, [Next]_vars
    PROVE  PlacedInv'
<1> SUFFICES ASSUME NEW c \in Conns PROVE Placed(Given(c))'
  BY DEF PlacedInv
<1> QED BY FromRoomCases, GivenEffect DEF HubInv

\* Nothing happens to what the connections have from their rooms.
SameFromRoom == \A d \in Conns : FromRoom(d)' = FromRoom(d)

\* The steps of the server, as far as a room's feed is concerned.
LEMMA FeedCases ==
    ASSUME HubInv, SourceInv, PlacedInv, [Next]_vars
    PROVE  \/ UNCHANGED <<feed, since, connections, pending>> /\ SameFromRoom
           \/ \E c \in Conns : (HubRegister(c) \/ HubUnregister(c)) /\ SameFromRoom
           \/ \E r \in Rooms : HubTake(r) /\ SameFromRoom
           \/ \E r \in Rooms : \E c \in pending[r] : HubDrop(r, c) /\ SameFromRoom
           \/ \E r \in Rooms : \E c \in pending[r] :
                 /\ HubSend(r, c)
                 /\ \A d \in Conns : FromRoom(d)' = IF d = c
                                                    THEN Append(FromRoom(d), current[r])
                                                    ELSE FromRoom(d)
<1>0. TypeOK
  BY DEF HubInv
<1>1. (\A d \in Conns : Given(d)' = Given(d)) => SameFromRoom
  BY <1>0, FromRoomCases DEF SameFromRoom
<1>2. ASSUME NEW c \in Conns, ConnStep(c)
      PROVE  UNCHANGED <<feed, since, connections, pending>> /\ SameFromRoom
  BY <1>0, <1>1, <1>2, ConnKeeps
<1>3. ASSUME NEW m \in Msgs, PushStep(m)
      PROVE  UNCHANGED <<feed, since, connections, pending>> /\ SameFromRoom
  BY <1>0, <1>3, PushGives, FromRoomCases DEF SameFromRoom
<1>4. CASE TakeQueued \/ UNCHANGED vars
  BY <1>1, <1>4 DEF TakeQueued, vars, hubVars, Given
<1>5. ASSUME NEW r \in Rooms, NEW c \in pending[r], HubSend(r, c)
      PROVE  \A d \in Conns : FromRoom(d)' = IF d = c
                                             THEN Append(FromRoom(d), current[r])
                                             ELSE FromRoom(d)
  BY <1>0, <1>5, HubSendGives, FromRoomCases
<1>6. ASSUME NEW c \in Conns, HubUnregisterAbsent(c)
      PROVE  UNCHANGED <<feed, since, connections, pending>>
  BY <1>6 DEF HubUnregisterAbsent, registryVars, fanoutVars, historyVars
<1>7. ASSUME NEW r \in Rooms, HubStep(r),
             ~\E c \in pending[r] : HubSend(r, c)
      PROVE  /\ SameFromRoom
             /\ \/ UNCHANGED <<feed, since, connections, pending>>
                \/ \E c \in Conns : HubRegister(c) \/ HubUnregister(c)
                \/ HubTake(r)
                \/ \E c \in pending[r] : HubDrop(r, c)
  <2>1. \/ \E c \in Conns : \/ HubRegister(c) \/ HubUnregister(c)
                            \/ HubUnregisterAbsent(c)
        \/ HubTake(r)
        \/ \E c \in pending[r] : HubDrop(r, c)
    BY <1>7 DEF HubStep
  <2>2. SameFromRoom
    BY <1>0, <1>1, <2>1, HubKeeps
  <2> QED BY <1>6, <2>1, <2>2
<1> QED BY <1>2, <1>3, <1>4, <1>5, <1>7 DEF Next, HubNext

\* What SubSeq does at the end of a sequence that grows.
LEMMA SubSeqEnd ==
    ASSUME NEW s \in Seq(Msgs), NEW m \in Msgs, NEW a \in Nat, a <= Len(s)
    PROVE  /\ SubSeq(Append(s, m), a + 1, Len(s)) = SubSeq(s, a + 1, Len(s))
           /\ SubSeq(s, Len(s) + 1, Len(s)) = <<>>
           /\ Len(SubSeq(s, a + 1, Len(s))) = Len(s) - a
           /\ s # <<>> /\ a <= Len(s) - 1
                 => /\ SubSeq(s, a + 1, Len(s)) =
                          Append(SubSeq(s, a + 1, Len(s) - 1), s[Len(s)])
                    /\ Len(SubSeq(s, a + 1, Len(s) - 1)) = Len(s) - 1 - a
<1> DEFINE n == Len(s)
<1>1. n \in Nat /\ a + 1 \in Int /\ \A i \in 1 .. n : s[i] \in Msgs
  OBVIOUS
<1>2. SubSeq(s, n + 1, n) = <<>>
  BY <1>1, SubSeqEmpty
<1>3. SubSeq(Append(s, m), a + 1, n) = SubSeq(s, a + 1, n)
  <2>1. CASE a = n
    BY <1>1, <2>1, SubSeqEmpty
  <2>2. CASE a # n
    <3>1. a + 1 \in 1 .. n /\ n \in 1 .. n
      BY <1>1, <2>2
    <3>2. Append(s, m) = s \o <<m>> /\ <<m>> \in Seq(Msgs)
      BY AppendIsConcat
    <3> HIDE DEF n
    <3> QED BY <3>1, <3>2, SubSeqOfConcat1 DEF n
  <2> QED BY <2>1, <2>2
<1>4. Len(SubSeq(s, a + 1, n)) = n - a
  <2>1. \A i \in (a + 1) .. n : s[i] \in Msgs
    BY <1>1
  <2>2. Len(SubSeq(s, a + 1, n)) = IF a + 1 <= n THEN n - (a + 1) + 1 ELSE 0
    BY <1>1, <2>1, SubSeqProperties
  <2> QED BY <1>1, <2>2
<1>5. ASSUME s # <<>>, a <= n - 1
      PROVE  /\ SubSeq(s, a + 1, n) = Append(SubSeq(s, a + 1, n - 1), s[n])
             /\ Len(SubSeq(s, a + 1, n - 1)) = n - 1 - a
  <2>1. a + 1 \in 1 .. n /\ n \in (a + 1) .. n /\ n - 1 \in Int /\ s[n] \in Msgs
    BY <1>1, <1>5
  <2>2. SubSeq(s, a + 1, n) = SubSeq(s, a + 1, n - 1) \o <<s[n]>>
    BY <2>1, SubSeqRecursiveSecond
  <2>3. \A i \in (a + 1) .. (n - 1) : s[i] \in Msgs
    BY <1>1
  <2>4. /\ SubSeq(s, a + 1, n - 1) \in Seq(Msgs)
        /\ Len(SubSeq(s, a + 1, n - 1)) = IF a + 1 <= n - 1 THEN n - 1 - (a + 1) + 1
                                                           ELSE 0
    BY <1>1, <2>1, <2>3, SubSeqProperties
  <2>5. Append(SubSeq(s, a + 1, n - 1), s[n]) = SubSeq(s, a + 1, n - 1) \o <<s[n]>>
    BY <2>1, <2>4, AppendIsConcat
  <2>6. Len(SubSeq(s, a + 1, n - 1)) = n - 1 - a
    BY <1>1, <1>5, <2>4
  <2> QED BY <2>2, <2>5, <2>6
<1> QED BY <1>2, <1>3, <1>4, <1>5

\* What MatchInv says of one connection.
Matches(c) ==
    /\ since[c] <= Offered(c)
    /\ FromRoom(c) = SubSeq(feed[HubRoom(c)], since[c] + 1, Offered(c))

\* A connection for which nothing changes keeps what it has.
LEMMA MatchKeeps ==
    ASSUME NEW c \in Conns, Matches(c), FromRoom(c)' = FromRoom(c),
           since'[c] = since[c], feed'[HubRoom(c)] = feed[HubRoom(c)],
           c \in pending'[HubRoom(c)] <=> c \in pending[HubRoom(c)]
    PROVE  Matches(c)'
<1>1. HubRoom(c)' = HubRoom(c)
  BY DEF HubRoom
<1>2. Offered(c)' = Offered(c)
  BY <1>1 DEF Offered
<1> QED BY <1>1, <1>2 DEF Matches

\* Types of what Matches is about.
LEMMA MatchType ==
    ASSUME TypeOK, NEW c \in Conns
    PROVE  /\ HubRoom(c) \in Rooms /\ PeerOf[c] \in PeerIds /\ c # NoConn
           /\ feed[HubRoom(c)] \in Seq(Msgs) /\ Len(feed[HubRoom(c)]) \in Nat
           /\ since[c] \in Nat
<1>1. HubRoom(c) \in Rooms /\ PeerOf[c] \in PeerIds /\ c # NoConn
  BY RegisteredHere DEF TypeOK
<1>2. feed[HubRoom(c)] \in Seq(Msgs) /\ since[c] \in Nat
  BY <1>1 DEF TypeOK, HubTypeOK
<1> QED BY <1>1, <1>2

\* The register case of hub.run: nothing of the room has been offered yet to
\* the connection that is new.
LEMMA MatchRegister ==
    ASSUME HubInv, BornInv, MatchInv, SameFromRoom, NEW c \in Conns, HubRegister(c)
    PROVE  MatchInv'
<1>0. TypeOK /\ LoopInv
  BY DEF HubInv
<1>1. /\ HubRoom(c) \in Rooms /\ PeerOf[c] \in PeerIds
      /\ feed[HubRoom(c)] \in Seq(Msgs) /\ Len(feed[HubRoom(c)]) \in Nat
  BY <1>0, MatchType
<1>2. /\ reader[c] = "register" /\ current[HubRoom(c)] = NoMsg
      /\ connections' = [connections EXCEPT ![PeerOf[c]] = c]
      /\ since' = [since EXCEPT ![c] = Len(feed[HubRoom(c)])]
      /\ UNCHANGED <<feed, pending>>
  BY DEF HubRegister, fanoutVars
<1>3. since \in [Conns -> Nat] /\ connections \in [PeerIds -> Conns \cup {NoConn}]
  BY <1>0 DEF TypeOK, HubTypeOK
<1>4. Matches(c)'
  <2>1. FromRoom(c)' = <<>>
    BY <1>2, RoomMsgsEmpty DEF SameFromRoom, FromRoom, BornInv
  <2>2. c \notin pending'[HubRoom(c)]
    BY <1>0, <1>1, <1>2 DEF LoopInv
  <2>3. HubRoom(c)' = HubRoom(c)
    BY DEF HubRoom
  <2>4. Offered(c)' = Len(feed[HubRoom(c)]) /\ since'[c] = Len(feed[HubRoom(c)])
    BY <1>2, <1>3, <2>2, <2>3 DEF Offered
  <2>5. \A s \in Seq(Msgs) : SubSeq(s, Len(s) + 1, Len(s)) = <<>>
    BY SubSeqEmpty
  <2>6. SubSeq(feed[HubRoom(c)], Len(feed[HubRoom(c)]) + 1, Len(feed[HubRoom(c)])) = <<>>
    BY <1>1, <2>5
  <2> QED BY <1>1, <1>2, <2>1, <2>3, <2>4, <2>6 DEF Matches
<1>5. ASSUME NEW d \in Conns, d # c, IsRegistered(d)'
      PROVE  Matches(d)'
  <2>1. PeerOf[d] \in PeerIds
    BY <1>0, MatchType
  <2>2. IsRegistered(d)
    BY <1>1, <1>2, <1>3, <1>5, <2>1 DEF IsRegistered
  <2>3. Matches(d)
    BY <2>2 DEF MatchInv, Matches
  <2>4. since'[d] = since[d] /\ FromRoom(d)' = FromRoom(d)
    BY <1>2, <1>3, <1>5 DEF SameFromRoom
  <2> QED BY <1>2, <2>3, <2>4, MatchKeeps
<1> QED BY <1>4, <1>5 DEF MatchInv, Matches

\* The two cases in which an entry leaves the map.
LEMMA MatchRemove ==
    ASSUME HubInv, MatchInv, SameFromRoom,
           NEW c \in Conns, UNCHANGED <<feed, since>>,
           connections' = [connections EXCEPT ![PeerOf[c]] = NoConn],
           \A r \in Rooms, d \in Conns :
              d # c => (d \in pending'[r] <=> d \in pending[r]),
           c \in pending'[HubRoom(c)] => c \in pending[HubRoom(c)]
    PROVE  MatchInv'
<1>0. TypeOK
  BY DEF HubInv
<1> SUFFICES ASSUME NEW d \in Conns, IsRegistered(d)' PROVE Matches(d)'
  BY DEF MatchInv, Matches
<1>1. PeerOf[d] \in PeerIds /\ d # NoConn /\ HubRoom(d) \in Rooms
      /\ connections \in [PeerIds -> Conns \cup {NoConn}]
  BY <1>0, MatchType DEF TypeOK, HubTypeOK
<1>2. IsRegistered(d) /\ PeerOf[d] # PeerOf[c]
  BY <1>1 DEF IsRegistered
<1>3. Matches(d)
  BY <1>2 DEF MatchInv, Matches
<1>4. FromRoom(d)' = FromRoom(d) /\ d # c
  BY <1>2 DEF SameFromRoom
<1> QED BY <1>1, <1>3, <1>4, MatchKeeps

\* The broadcast case of hub.run: the loop begins with all those that are
\* registered, and none of them has been left out before.
LEMMA MatchTake ==
    ASSUME HubInv, MatchInv, SameFromRoom, NEW r \in Rooms, HubTake(r)
    PROVE  MatchInv'
<1>0. TypeOK /\ LoopInv
  BY DEF HubInv
<1>1. /\ current[r] = NoMsg /\ broadcast[r] # <<>>
      /\ pending' = [pending EXCEPT ![r] = {connections[p] : p \in Registered(r)}]
      /\ feed' = [feed EXCEPT ![r] = Append(feed[r], Head(broadcast[r]))]
      /\ UNCHANGED <<connections, since>>
  BY DEF HubTake, registryVars
<1>2. /\ feed \in [Rooms -> Seq(Msgs)] /\ pending \in [Rooms -> SUBSET Conns]
      /\ broadcast[r] \in Seq(Msgs)
  BY <1>0 DEF TypeOK, HubTypeOK
<1>3. Head(broadcast[r]) \in Msgs /\ pending[r] = {}
  BY <1>0, <1>1, <1>2, QueueGet DEF LoopInv
<1> SUFFICES ASSUME NEW d \in Conns, IsRegistered(d)' PROVE Matches(d)'
  BY DEF MatchInv, Matches
<1>4. IsRegistered(d) /\ Matches(d) /\ FromRoom(d)' = FromRoom(d)
      /\ since'[d] = since[d]
  BY <1>1 DEF MatchInv, Matches, IsRegistered, SameFromRoom
<1>5. CASE HubRoom(d) # r
  <2>1. HubRoom(d) \in Rooms
    BY <1>0, MatchType
  <2>2. feed'[HubRoom(d)] = feed[HubRoom(d)]
        /\ pending'[HubRoom(d)] = pending[HubRoom(d)]
    BY <1>1, <1>2, <1>5, <2>1
  <2> QED BY <1>4, <2>2, MatchKeeps
<1>6. CASE HubRoom(d) = r
  <2>1. PeerOf[d] \in Registered(r) /\ connections[PeerOf[d]] = d
    BY <1>0, <1>4, <1>6, MatchType DEF IsRegistered, Registered, PeersOfRoom, HubRoom
  <2>2. d \in pending'[r] /\ d \notin pending[r]
    BY <1>1, <1>2, <1>3, <2>1
  <2>3. HubRoom(d)' = r
    BY <1>6 DEF HubRoom
  <2> DEFINE s == feed[r]
             m == Head(broadcast[r])
  <2>4. feed'[r] = Append(s, m) /\ s \in Seq(Msgs) /\ m \in Msgs
    BY <1>1, <1>2, <1>3
  <2>5. since[d] \in Nat /\ since[d] <= Len(s)
        /\ FromRoom(d) = SubSeq(s, since[d] + 1, Len(s))
    BY <1>0, <1>4, <1>6, <2>2, MatchType DEF Matches, Offered
  <2> HIDE DEF s, m
  <2>6. Len(Append(s, m)) - 1 = Len(s)
    BY <2>4
  <2>7. Offered(d)' = Len(s)
    BY <2>2, <2>3, <2>4, <2>6 DEF Offered
  <2>8. SubSeq(Append(s, m), since[d] + 1, Len(s)) = SubSeq(s, since[d] + 1, Len(s))
    BY <2>4, <2>5, SubSeqEnd
  <2> QED BY <1>4, <2>3, <2>4, <2>5, <2>7, <2>8 DEF Matches
<1> QED BY <1>5, <1>6

\* The send of the inner select: the connection the loop leaves behind has
\* the message, too.
LEMMA MatchSend ==
    ASSUME HubInv, SourceInv, MatchInv, NEW r \in Rooms, NEW c \in pending[r],
           HubSend(r, c),
           \A d \in Conns : FromRoom(d)' = IF d = c THEN Append(FromRoom(d), current[r])
                                                    ELSE FromRoom(d)
    PROVE  MatchInv'
<1>0. TypeOK /\ LoopInv /\ c \in Conns /\ HubRoom(c) = r /\ IsRegistered(c)
  BY DEF HubInv, TypeOK, HubTypeOK, RegistryInv, FanoutSound
<1>1. /\ pending' = [pending EXCEPT ![r] = pending[r] \ {c}]
      /\ UNCHANGED <<connections, since, feed>>
  BY DEF HubSend, LoopPast, registryVars, historyVars
<1>2. /\ feed[r] \in Seq(Msgs) /\ pending \in [Rooms -> SUBSET Conns]
      /\ current[r] # NoMsg /\ feed[r] # <<>>
      /\ current[r] = feed[r][Len(feed[r])]
  BY <1>0 DEF TypeOK, HubTypeOK, LoopInv, SourceInv
<1> SUFFICES ASSUME NEW d \in Conns, IsRegistered(d)' PROVE Matches(d)'
  BY DEF MatchInv, Matches
<1>3. IsRegistered(d) /\ Matches(d)
      /\ since'[d] = since[d]
  BY <1>1 DEF MatchInv, Matches, IsRegistered
<1>4. CASE d # c
  BY <1>1, <1>2, <1>3, <1>4, MatchKeeps
<1>5. CASE d = c
  <2> DEFINE s == feed[r]
             n == Len(feed[r])
  <2>1. c \in pending[r] /\ c \notin pending'[r]
    BY <1>1, <1>2
  <2>2. since[c] \in Nat /\ n \in Nat
    BY <1>0, MatchType
  <2>3. since[c] <= n - 1 /\ FromRoom(c) = SubSeq(s, since[c] + 1, n - 1)
    BY <1>0, <1>3, <1>5, <2>1 DEF Matches, Offered
  <2>4. SubSeq(s, since[c] + 1, n) = Append(SubSeq(s, since[c] + 1, n - 1), s[n])
    <3>1. \A q \in Seq(Msgs), e \in Msgs, a \in Nat :
             q # <<>> /\ a <= Len(q) - 1 /\ a <= Len(q) =>
                SubSeq(q, a + 1, Len(q)) = Append(SubSeq(q, a + 1, Len(q) - 1), q[Len(q)])
      BY SubSeqEnd
    <3>2. current[r] \in Msgs
      BY <1>0, <1>2 DEF TypeOK, HubTypeOK
    <3>3. since[c] <= n
      BY <2>2, <2>3
    <3> QED BY <1>2, <2>2, <2>3, <3>1, <3>2, <3>3
  <2>5. FromRoom(c)' = SubSeq(s, since[c] + 1, n)
    BY <1>0, <1>2, <2>3, <2>4
  <2>6. HubRoom(c)' = r
    BY <1>0 DEF HubRoom
  <2>7. Offered(c)' = n
    BY <1>1, <2>1, <2>6 DEF Offered
  <2>8. since[c] <= n
    BY <2>2, <2>3
  <2> QED BY <1>1, <1>5, <2>5, <2>6, <2>7, <2>8 DEF Matches
<1> QED BY <1>4, <1>5

\* Every step keeps the registered connections' part of the feed.
LEMMA MatchStep ==
    ASSUME HubInv, SourceInv, PlacedInv, BornInv, MatchInv, [Next]_vars
    PROVE  MatchInv'
<1>1. CASE UNCHANGED <<feed, since, connections, pending>> /\ SameFromRoom
  <2> SUFFICES ASSUME NEW d \in Conns, IsRegistered(d)' PROVE Matches(d)'
    BY DEF MatchInv, Matches
  <2>1. IsRegistered(d) /\ Matches(d)
    BY <1>1 DEF MatchInv, Matches, IsRegistered
  <2> QED BY <1>1, <2>1, MatchKeeps DEF SameFromRoom
<1>2. ASSUME NEW c \in Conns, HubUnregister(c), SameFromRoom
      PROVE  MatchInv'
  <2>1. UNCHANGED <<feed, since, pending>>
        /\ connections' = [connections EXCEPT ![PeerOf[c]] = NoConn]
    BY <1>2 DEF HubUnregister, fanoutVars, historyVars
  <2> QED BY <1>2, <2>1, MatchRemove
<1>3. ASSUME NEW r \in Rooms, NEW c \in pending[r], HubDrop(r, c), SameFromRoom
      PROVE  MatchInv'
  <2>1. c \in Conns /\ pending \in [Rooms -> SUBSET Conns]
    BY DEF HubInv, TypeOK, HubTypeOK
  <2>2. UNCHANGED <<feed, since>>
        /\ connections' = [connections EXCEPT ![PeerOf[c]] = NoConn]
        /\ pending' = [pending EXCEPT ![r] = pending[r] \ {c}]
    BY <1>3 DEF HubDrop, LoopPast, historyVars
  <2>3. \A q \in Rooms : pending'[q] \subseteq pending[q]
                        /\ \A d \in pending[q] : d # c => d \in pending'[q]
    BY <2>1, <2>2
  <2>4. HubRoom(c) \in Rooms
    BY <2>1, MatchType DEF HubInv
  <2> QED BY <1>3, <2>1, <2>2, <2>3, <2>4, MatchRemove
<1> QED BY <1>1, <1>2, <1>3, FeedCases, MatchRegister, MatchTake, MatchSend

\* What FeedComplete needs: the order of the room's queue (SourceInv), that a
\* connection starts with nothing (BornInv), and that every message in its
\* channel can be told (PlacedInv).
FeedInv == HubInv /\ SourceInv /\ BornInv /\ PlacedInv /\ MatchInv

\* No connection is registered when the server starts.
LEMMA FeedInvInit == Init => FeedInv
<1> SUFFICES ASSUME Init PROVE FeedInv
  OBVIOUS
<1>1. HubInv /\ SourceInv
  BY OrderInit DEF OrderInv
<1>2. \A c \in Conns : Given(c) = <<>> /\ ~IsRegistered(c)
  <2>1. \A c \in Conns : out[c] = <<>> /\ send[c] = <<>>
    BY DEF Init, HubInit
  <2>2. \A c \in Conns : PeerOf[c] \in PeerIds /\ c # NoConn
    BY HubConstants DEF HubConstants
  <2>3. \A p \in PeerIds : connections[p] = NoConn
    BY DEF Init, HubInit
  <2> QED BY <2>1, <2>2, <2>3 DEF Given, IsRegistered
<1>3. Placed(<<>>)
  <2>1. {j \in 1 .. 0 : IsRoomMsg((<<>>)[j])} = {}
    OBVIOUS
  <2>2. RoomCount(<<>>, 0) = 0
    BY <2>1, FS_EmptySet DEF RoomCount
  <2> QED BY <2>2 DEF Placed
<1>4. BornInv
  BY <1>2 DEF Init, BornInv
<1> QED BY <1>1, <1>2, <1>3, <1>4 DEF FeedInv, PlacedInv, MatchInv

\* Every step keeps it.
LEMMA FeedInvStep ==
    ASSUME FeedInv, [Next]_vars
    PROVE  FeedInv'
BY HubInvStep, SourceStep, BornStep, PlacedStep, MatchStep DEF FeedInv

\* Every behaviour of the server has it.
LEMMA FeedInvariant == Spec => []FeedInv
BY FeedInvInit, FeedInvStep, PTL DEF Spec

\* A registered connection has been given exactly the messages its room took
\* since it was registered, each once and in that order, whatever connections
\* are registered, replaced, unregistered and dropped by hub.run meanwhile.
THEOREM FeedCompleteCorrect == Spec => []FeedComplete
<1>1. MatchInv => FeedComplete
  BY DEF MatchInv, FeedComplete, Offered, FromRoom
<1> QED BY <1>1, FeedInvariant, PTL DEF FeedInv
----------------------------------------------------------------------------
(* Dispatch implements RoomFeed                                            *)

\* A registered connection is up to date in the sense of RoomFeed exactly if
\* the range loop of its room has not to reach it any more.
LEMMA UpToDateIff ==
    ASSUME FeedInv, NEW c \in Conns, IsRegistered(c)
    PROVE  /\ Len(FromRoom(c)) \in Nat
           /\ since[c] + Len(FromRoom(c)) = Offered(c)
           /\ since[c] + Len(FromRoom(c)) = Len(feed[HubRoom(c)])
                 <=> c \notin pending[HubRoom(c)]
<1> DEFINE r == HubRoom(c)
           s == feed[r]
<1>0. TypeOK
  BY DEF FeedInv, HubInv
<1>1. s \in Seq(Msgs) /\ Len(s) \in Nat /\ since[c] \in Nat /\ r \in Rooms
  BY <1>0, MatchType
<1>2. Matches(c)
  BY DEF FeedInv, MatchInv, Matches
<1>3. Len(FromRoom(c)) \in Nat
  BY <1>0, FedType, RoomMsgsLen DEF FromRoom
<1>4. \A q \in Seq(Msgs), m \in Msgs, a \in Nat :
         a <= Len(q) => /\ Len(SubSeq(q, a + 1, Len(q))) = Len(q) - a
                        /\ q # <<>> /\ a <= Len(q) - 1 =>
                              Len(SubSeq(q, a + 1, Len(q) - 1)) = Len(q) - 1 - a
  BY SubSeqEnd
<1>5. CASE c \in pending[r]
  <2>1. s # <<>> /\ current[r] \in Msgs
    BY <1>0, <1>1, <1>5 DEF FeedInv, SourceInv, HubInv, LoopInv, TypeOK, HubTypeOK
  <2>2. since[c] <= Len(s) - 1 /\ FromRoom(c) = SubSeq(s, since[c] + 1, Len(s) - 1)
        /\ Offered(c) = Len(s) - 1
    BY <1>2, <1>5 DEF Matches, Offered
  <2> HIDE DEF s
  <2>3. since[c] <= Len(s)
    BY <1>1, <2>2
  <2>4. Len(FromRoom(c)) = Len(s) - 1 - since[c]
    BY <1>1, <1>4, <2>1, <2>2, <2>3
  <2> QED BY <1>1, <1>3, <1>5, <2>2, <2>4 DEF s
<1>6. CASE c \notin pending[r]
  <2>1. since[c] <= Len(s) /\ FromRoom(c) = SubSeq(s, since[c] + 1, Len(s))
        /\ Offered(c) = Len(s)
    BY <1>2, <1>6 DEF Matches, Offered
  <2> HIDE DEF s
  <2>2. Len(FromRoom(c)) = Len(s) - since[c]
    <3>1. CASE Len(s) = 0
      <4>1. SubSeq(s, since[c] + 1, Len(s)) = <<>>
        BY <1>1, <3>1, SubSeqEmpty
      <4> QED BY <1>1, <2>1, <3>1, <4>1
    <3>2. CASE Len(s) # 0
      <4>1. s[1] \in Msgs
        BY <1>1, <3>2
      <4> QED BY <1>1, <1>4, <2>1, <4>1
    <3> QED BY <3>1, <3>2
  <2> QED BY <1>1, <1>3, <1>6, <2>1, <2>2 DEF s
<1> QED BY <1>5, <1>6

\* The state of RoomFeed that a state of the server stands for.
Members == {c \in Conns : IsRegistered(c)}
GivenMap == [c \in Conns |-> FromRoom(c)]
PlaceMap == [c \in Conns |-> HubRoom(c)]

\* RoomFeed's actions, with the state of the server put in.
LEMMA FeedActions ==
    /\ \A r, m : Feed!Publish(r, m) <=>
          /\ \A c \in Members : PlaceMap[c] = r =>
                since[c] + Len(GivenMap[c]) = Len(feed[PlaceMap[c]])
          /\ feed' = [feed EXCEPT ![r] = Append(@, m)]
          /\ Members' = Members /\ since' = since /\ GivenMap' = GivenMap
    /\ \A c, d : Feed!Join(c, {d}) <=>
          /\ c \notin Members /\ GivenMap[c] = <<>>
          /\ Members' = (Members \ {d}) \cup {c}
          /\ since' = [since EXCEPT ![c] = Len(feed[PlaceMap[c]])]
          /\ feed' = feed /\ GivenMap' = GivenMap
    /\ \A c : Feed!Deliver(c) <=>
          /\ c \in Members
          /\ ~(since[c] + Len(GivenMap[c]) = Len(feed[PlaceMap[c]]))
          /\ GivenMap' = [GivenMap EXCEPT ![c] =
                Append(@, feed[PlaceMap[c]][since[c] + Len(@) + 1])]
          /\ feed' = feed /\ Members' = Members /\ since' = since
    /\ \A c : Feed!Leave(c) <=>
          /\ c \in Members
          /\ Members' = Members \ {c}
          /\ feed' = feed /\ since' = since /\ GivenMap' = GivenMap
    /\ UNCHANGED Feed!feedVars <=>
          feed' = feed /\ Members' = Members /\ since' = since /\ GivenMap' = GivenMap
BY DEF Members, GivenMap, PlaceMap, FromRoom, Feed!Publish, Feed!Join,
       Feed!Deliver, Feed!Leave, Feed!UpToDate, Feed!feedVars

\* When no connection's part changes, RoomFeed's `given` does not.
LEMMA GivenMapSame ==
    ASSUME SameFromRoom
    PROVE  GivenMap' = GivenMap
BY DEF SameFromRoom, GivenMap

\* HubRegister is Join: the connection the map had for the peer_id, if any,
\* makes room for the new one.
LEMMA RegisterJoins ==
    ASSUME FeedInv, SameFromRoom, NEW c \in Conns, HubRegister(c)
    PROVE  \E d \in Conns : Feed!Join(c, {d})
<1>0. TypeOK /\ RegistrySound
  BY DEF FeedInv, HubInv, RegistryInv
<1>1. /\ reader[c] = "register"
      /\ connections' = [connections EXCEPT ![PeerOf[c]] = c]
      /\ since' = [since EXCEPT ![c] = Len(feed[HubRoom(c)])]
      /\ feed' = feed
  BY DEF HubRegister
<1>2. /\ PeerOf[c] \in PeerIds /\ c # NoConn
      /\ connections \in [PeerIds -> Conns \cup {NoConn}]
  BY <1>0, MatchType DEF TypeOK, HubTypeOK
<1>3. c \notin Members
  BY <1>0, <1>1, <1>2 DEF Members, IsRegistered, RegistrySound
<1>4. GivenMap[c] = <<>> /\ PlaceMap[c] = HubRoom(c)
  BY <1>1, RoomMsgsEmpty DEF GivenMap, PlaceMap, FromRoom, FeedInv, BornInv
<1> DEFINE d == IF connections[PeerOf[c]] = NoConn THEN c ELSE connections[PeerOf[c]]
<1>5. d \in Conns
  BY <1>2
<1>6. ASSUME NEW e \in Conns
      PROVE  IsRegistered(e)' <=> (IsRegistered(e) /\ e # d) \/ e = c
  <2>1. PeerOf[e] \in PeerIds /\ e # NoConn
    BY <1>0, MatchType
  <2>2. connections[PeerOf[c]] # NoConn => PeerOf[connections[PeerOf[c]]] = PeerOf[c]
    BY <1>0, <1>2 DEF RegistrySound
  <2>3. CASE e = c
    BY <1>1, <1>2, <2>3 DEF IsRegistered
  <2>4. CASE e # c /\ PeerOf[e] = PeerOf[c]
    BY <1>1, <1>2, <2>1, <2>4 DEF IsRegistered
  <2>5. CASE PeerOf[e] # PeerOf[c]
    BY <1>1, <1>2, <2>1, <2>2, <2>5 DEF IsRegistered
  <2> QED BY <2>3, <2>4, <2>5
<1> HIDE DEF d
<1>7. Members' = (Members \ {d}) \cup {c}
  BY <1>6 DEF Members
<1> QED BY <1>1, <1>3, <1>4, <1>5, <1>7, GivenMapSame, FeedActions

\* HubUnregister and HubDrop are Leave.
LEMMA RemoveLeaves ==
    ASSUME FeedInv, SameFromRoom, NEW c \in Conns, connections[PeerOf[c]] # NoConn,
           connections' = [connections EXCEPT ![PeerOf[c]] = NoConn],
           UNCHANGED <<feed, since>>
    PROVE  \E d \in Conns : Feed!Leave(d)
<1>0. TypeOK /\ RegistrySound
  BY DEF FeedInv, HubInv, RegistryInv
<1>1. /\ PeerOf[c] \in PeerIds
      /\ connections \in [PeerIds -> Conns \cup {NoConn}]
  BY <1>0, MatchType DEF TypeOK, HubTypeOK
<1> DEFINE d == connections[PeerOf[c]]
<1>2. d \in Conns /\ PeerOf[d] = PeerOf[c] /\ d \in Members
  BY <1>0, <1>1 DEF RegistrySound, Members, IsRegistered
<1>3. ASSUME NEW e \in Conns
      PROVE  IsRegistered(e)' <=> IsRegistered(e) /\ e # d
  <2>1. PeerOf[e] \in PeerIds /\ e # NoConn
    BY <1>0, MatchType
  <2> QED BY <1>1, <1>2, <2>1 DEF IsRegistered
<1> HIDE DEF d
<1>4. Members' = Members \ {d}
  BY <1>3 DEF Members
<1> QED BY <1>2, <1>4, GivenMapSame, FeedActions

\* HubTake is Publish: all the room's connections have the message before.
LEMMA TakePublishes ==
    ASSUME FeedInv, SameFromRoom, NEW r \in Rooms, HubTake(r)
    PROVE  \E m \in Msgs : Feed!Publish(r, m)
<1>0. TypeOK /\ LoopInv
  BY DEF FeedInv, HubInv
<1>1. /\ current[r] = NoMsg /\ broadcast[r] # <<>> /\ broadcast[r] \in Seq(Msgs)
      /\ feed' = [feed EXCEPT ![r] = Append(@, Head(broadcast[r]))]
      /\ UNCHANGED <<connections, since>>
  BY <1>0 DEF HubTake, registryVars, TypeOK, HubTypeOK
<1>2. Head(broadcast[r]) \in Msgs /\ pending[r] = {}
  BY <1>0, <1>1, QueueGet DEF LoopInv
<1>3. Members' = Members
  BY <1>1 DEF Members, IsRegistered
<1>4. ASSUME NEW c \in Members, PlaceMap[c] = r
      PROVE  since[c] + Len(GivenMap[c]) = Len(feed[PlaceMap[c]])
  <2>1. c \in Conns /\ IsRegistered(c) /\ HubRoom(c) = r
    BY <1>4 DEF Members, PlaceMap
  <2>2. since[c] + Len(FromRoom(c)) = Len(feed[HubRoom(c)])
    BY <1>2, <2>1, UpToDateIff
  <2> QED BY <2>1, <2>2 DEF GivenMap, PlaceMap
<1> QED BY <1>1, <1>2, <1>3, <1>4, GivenMapSame, FeedActions

\* HubSend is Deliver: the message in hand is the one that the connection is
\* to get next.
LEMMA SendDelivers ==
    ASSUME FeedInv, NEW r \in Rooms, NEW c \in pending[r], HubSend(r, c),
           \A d \in Conns : FromRoom(d)' = IF d = c THEN Append(FromRoom(d), current[r])
                                                    ELSE FromRoom(d)
    PROVE  c \in Conns /\ Feed!Deliver(c)
<1>0. TypeOK /\ LoopInv /\ c \in Conns /\ HubRoom(c) = r /\ IsRegistered(c)
  BY DEF FeedInv, HubInv, TypeOK, HubTypeOK, RegistryInv, FanoutSound
<1>1. UNCHANGED <<connections, since, feed>>
  BY DEF HubSend, registryVars, historyVars
<1>2. Members' = Members /\ c \in Members
  BY <1>0, <1>1 DEF Members, IsRegistered
<1>3. current[r] = feed[r][Len(feed[r])]
  BY <1>0 DEF FeedInv, SourceInv, LoopInv
<1>4. /\ Len(FromRoom(c)) \in Nat /\ Len(feed[r]) \in Nat /\ since[c] \in Nat
      /\ since[c] + Len(FromRoom(c)) = Len(feed[r]) - 1
  BY <1>0, UpToDateIff, MatchType DEF Offered
<1>5. since[c] + Len(FromRoom(c)) + 1 = Len(feed[r])
      /\ ~(since[c] + Len(FromRoom(c)) = Len(feed[r]))
  BY <1>4
<1>6. GivenMap[c] = FromRoom(c) /\ PlaceMap[c] = r
  BY <1>0 DEF GivenMap, PlaceMap
<1>7. GivenMap' = [GivenMap EXCEPT ![c] = Append(FromRoom(c), current[r])]
  BY <1>0 DEF GivenMap
<1>8. GivenMap' = [GivenMap EXCEPT ![c] =
                     Append(@, feed[PlaceMap[c]][since[c] + Len(@) + 1])]
  BY <1>3, <1>5, <1>6, <1>7
<1> QED BY <1>0, <1>1, <1>2, <1>5, <1>6, <1>8, FeedActions

\* Every step of the server is a step of RoomFeed or leaves it alone.
LEMMA FeedRefined ==
    ASSUME FeedInv, [Next]_vars
    PROVE  [Feed!FeedNext]_(Feed!feedVars)
<1>0. HubInv /\ SourceInv /\ PlacedInv
  BY DEF FeedInv
<1>1. CASE UNCHANGED <<feed, since, connections, pending>> /\ SameFromRoom
  <2>1. Members' = Members
    BY <1>1 DEF Members, IsRegistered
  <2> QED BY <1>1, <2>1, GivenMapSame, FeedActions
<1>2. ASSUME NEW c \in Conns, HubRegister(c), SameFromRoom
      PROVE  Feed!FeedNext
  BY <1>2, RegisterJoins DEF Feed!FeedNext
<1>3. ASSUME NEW c \in Conns, HubUnregister(c), SameFromRoom
      PROVE  Feed!FeedNext
  <2>1. /\ connections[PeerOf[c]] # NoConn
        /\ connections' = [connections EXCEPT ![PeerOf[c]] = NoConn]
        /\ UNCHANGED <<feed, since>>
    BY <1>3 DEF HubUnregister, historyVars
  <2> QED BY <1>3, <2>1, RemoveLeaves DEF Feed!FeedNext
<1>4. ASSUME NEW r \in Rooms, NEW c \in pending[r], HubDrop(r, c), SameFromRoom
      PROVE  Feed!FeedNext
  <2>1. c \in Conns /\ IsRegistered(c) /\ c # NoConn
    BY <1>0, HubConstants
       DEF HubInv, TypeOK, HubTypeOK, RegistryInv, FanoutSound, HubConstants
  <2>2. /\ connections[PeerOf[c]] # NoConn
        /\ connections' = [connections EXCEPT ![PeerOf[c]] = NoConn]
        /\ UNCHANGED <<feed, since>>
    BY <1>4, <2>1 DEF HubDrop, historyVars, IsRegistered
  <2> QED BY <1>4, <2>1, <2>2, RemoveLeaves DEF Feed!FeedNext
<1>5. ASSUME NEW r \in Rooms, HubTake(r), SameFromRoom
      PROVE  Feed!FeedNext
  BY <1>5, TakePublishes DEF Feed!FeedNext
<1>6. ASSUME NEW r \in Rooms, NEW c \in pending[r], HubSend(r, c),
             \A d \in Conns : FromRoom(d)' = IF d = c
                                             THEN Append(FromRoom(d), current[r])
                                             ELSE FromRoom(d)
      PROVE  Feed!FeedNext
  BY <1>6, SendDelivers DEF Feed!FeedNext
<1> QED BY <1>0, <1>1, <1>2, <1>3, <1>4, <1>5, <1>6, FeedCases

\* The freshly started server stands for a RoomFeed without members.
LEMMA FeedInitRefined == Init => Feed!FeedInit
<1> SUFFICES ASSUME Init PROVE Feed!FeedInit
  OBVIOUS
<1>1. /\ feed = [r \in Rooms |-> <<>>] /\ since = [c \in Conns |-> 0]
      /\ \A c \in Conns : out[c] = <<>> /\ send[c] = <<>>
      /\ \A p \in PeerIds : connections[p] = NoConn
  BY DEF Init, HubInit
<1>2. \A c \in Conns : RoomMsgs(Given(c)) = <<>>
  <2>1. \A c \in Conns : Given(c) = <<>>
    BY <1>1 DEF Given
  <2> QED BY <2>1, RoomMsgsEmpty
<1>3. \A c \in Conns : ~IsRegistered(c)
  BY <1>1, HubConstants DEF HubConstants, IsRegistered
<1>4. {c \in Conns : IsRegistered(c)} = {}
  BY <1>3
<1> QED BY <1>1, <1>2, <1>4 DEF Feed!FeedInit

\* The rooms, goroutines and channels of hub.go implement the feed that
\* RoomFeed promises: every message of the room once and in order, to those
\* that are registered and to nobody else, and no message before all of them
\* have the one before.
THEOREM RoomFeedImplemented == Spec => ImplementsRoomFeed
<1>1. FeedInv /\ [Next]_vars => [Feed!FeedNext]_(Feed!feedVars)
  BY FeedRefined
<1> QED BY <1>1, FeedInitRefined, FeedInvariant, PTL
           DEF Spec, ImplementsRoomFeed, Feed!FeedSpec
=============================================================================
