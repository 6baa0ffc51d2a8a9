--------------------------- MODULE PresenceProofs ---------------------------
(***************************************************************************)
(* Proofs about Presence, for any connections sharing any peer_ids, any    *)
(* rooms and any number of failing calls.                                  *)
(***************************************************************************)
EXTENDS Presence, TLAPS

----------------------------------------------------------------------------
(* Type correctness                                                        *)

\* What the application server holds after a call: callApi reports on the
\* peer of the connection and on no other.
LEMMA CallTypes ==
    ASSUME TypeOK, NEW p \in PeerIds, NEW who \in {"session", "sweep"},
           NEW isOnline \in BOOLEAN, NEW ok \in BOOLEAN,
           CallApi(p, who, isOnline, ok)
    PROVE  /\ online' \subseteq PeerIds /\ fails' \in 0 .. MaxFails
           /\ lost' \subseteq PeerIds
           /\ told' \in [PeerIds -> {"nobody", "session", "sweep"}]
<1> USE PresenceConstants DEF TypeOK, PresenceConstants
<1>1. fails' \in 0 .. MaxFails
  BY DEF CallApi
<1>2. CASE Arrives(p, who, isOnline)
  BY <1>1, <1>2 DEF Arrives
<1>3. CASE /\ lost' = IF isOnline THEN lost ELSE lost \cup {p}
           /\ UNCHANGED <<online, told>>
  BY <1>1, <1>3
<1> QED BY <1>2, <1>3 DEF CallApi

\* Every step of a connection's handler and reader keeps the types.
LEMMA TypeSession ==
    ASSUME TypeOK, NEW c \in Conns, SessionStep(c)
    PROVE  TypeOK'
<1> USE PresenceConstants
        DEF TypeOK, PresenceConstants, Phases, Goto, sweepVars, serverVars
<1>1. CASE Reject(c) \/ Accept(c) \/ ReadFails(c)
  BY <1>1 DEF Reject, Accept, ReadFails
<1>2. CASE HubRegister(c)
  BY <1>2 DEF HubRegister
<1>3. CASE LoadCount(c) \/ StoreCount(c)
  BY <1>3 DEF LoadCount, StoreCount
<1>4. CASE HubUnregister(c)
  BY <1>4 DEF HubUnregister, Delete
<1>5. ASSUME NEW ok \in BOOLEAN, CallOnline(c, ok) \/ CallOffline(c, ok)
      PROVE  TypeOK'
  <2>1. /\ online' \subseteq PeerIds /\ fails' \in 0 .. MaxFails
        /\ lost' \subseteq PeerIds
        /\ told' \in [PeerIds -> {"nobody", "session", "sweep"}]
    <3> HIDE DEF TypeOK, PresenceConstants
    <3>1. PeerOf[c] \in PeerIds
      BY DEF PresenceConstants
    <3> QED BY <1>5, <3>1, CallTypes DEF CallOnline, CallOffline
  <2> QED BY <1>5, <2>1 DEF CallOnline, CallOffline
<1> QED BY <1>1, <1>2, <1>3, <1>4, <1>5 DEF SessionStep

\* The background job keeps the types: what it is bound to reach is in the
\* room it is in, and it is in a room that exists.
LEMMA TypeSweep ==
    ASSUME TypeOK, SweepStep
    PROVE  TypeOK'
<1> USE PresenceConstants
        DEF TypeOK, PresenceConstants, sweepVars, serverVars, RegisteredIn
<1>1. CASE SweepTick \/ SweepNextRoom
  BY <1>1 DEF SweepTick, SweepNextRoom, EnterRoom
<1>2. ASSUME NEW p \in PeerIds, SweepPeer(p)
      PROVE  TypeOK'
  BY <1>2 DEF SweepPeer
<1>3. ASSUME NEW ok \in BOOLEAN, SweepReturns(ok)
      PROVE  TypeOK'
  <2>1. /\ online' \subseteq PeerIds /\ fails' \in 0 .. MaxFails
        /\ lost' \subseteq PeerIds
        /\ told' \in [PeerIds -> {"nobody", "session", "sweep"}]
    <3>1. calling \in PeerIds
      BY <1>3 DEF SweepReturns
    <3> QED BY <1>3, <3>1, CallTypes, ZenonT(60) DEF SweepReturns
  <2> QED BY <1>3, <2>1 DEF SweepReturns
<1> QED BY <1>1, <1>2, <1>3 DEF SweepStep

\* Every step keeps the types.
LEMMA TypeStep ==
    ASSUME TypeOK, [Next]_vars
    PROVE  TypeOK'
<1>1. ASSUME NEW p \in PeerIds, HubDrop(p)
      PROVE  TypeOK'
  BY <1>1 DEF HubDrop, Delete, TypeOK, serverVars
<1>2. CASE UNCHANGED vars
  BY <1>2 DEF vars, TypeOK, sweepVars, serverVars
<1> QED BY <1>1, <1>2, TypeSession, TypeSweep DEF Next

\* The variables have their types: the walk of cron_detect_all_peers stays
\* within rooms_ids, and owes only peers of the room it is in.
THEOREM TypeCorrect == Spec => []TypeOK
<1>1. Init => TypeOK
  BY PresenceConstants DEF Init, TypeOK, Phases, PresenceConstants
<1> QED BY <1>1, TypeStep, PTL DEF Spec
----------------------------------------------------------------------------
(* Reports                                                                 *)

\* A connection of p is somewhere between its acceptance and its last report.
Alive(p) == \E c \in Conns : PeerOf[c] = p /\ session[c] \notin {"idle", "done"}

\* Every step but the last report of a connection keeps its peer alive.
LEMMA AliveKeeps ==
    ASSUME TypeOK, [Next]_vars, NEW p \in PeerIds, Alive(p),
           ~\E c \in Conns, ok \in BOOLEAN : PeerOf[c] = p /\ CallOffline(c, ok)
    PROVE  Alive(p)'
<1>1. PICK c \in Conns : PeerOf[c] = p /\ session[c] \notin {"idle", "done"}
  BY DEF Alive
<1>2. session \in [Conns -> Phases]
  BY DEF TypeOK
<1>3. ASSUME NEW d \in Conns, SessionStep(d)
      PROVE  session'[c] \notin {"idle", "done"}
  BY <1>1, <1>2, <1>3 DEF SessionStep, Reject, Accept, HubRegister, LoadCount,
     StoreCount, ReadFails, HubUnregister, CallOnline, CallOffline, Goto
<1>4. SweepStep => UNCHANGED session
  BY DEF SweepStep, SweepTick, SweepNextRoom, SweepPeer, SweepReturns
<1>5. \A q \in PeerIds : HubDrop(q) => UNCHANGED session
  BY DEF HubDrop
<1>6. UNCHANGED vars => UNCHANGED session
  BY DEF vars
<1>7. session'[c] \notin {"idle", "done"}
  <2>1. CASE \E d \in Conns : SessionStep(d)
    BY <1>3, <2>1
  <2>2. CASE UNCHANGED session
    BY <1>1, <2>2
  <2> QED BY <1>4, <1>5, <1>6, <2>1, <2>2 DEF Next
<1> QED BY <1>1, <1>7 DEF Alive

\* What a report changes on the application server.
LEMMA CallEffect ==
    ASSUME TypeOK, NEW p \in PeerIds, NEW who \in {"session", "sweep"},
           NEW isOnline \in BOOLEAN, NEW ok \in BOOLEAN,
           CallApi(p, who, isOnline, ok)
    PROVE  /\ \A q \in PeerIds : q # p => /\ q \in online' <=> q \in online
                                          /\ q \in lost' <=> q \in lost
                                          /\ told'[q] = told[q]
           /\ isOnline => \/ told'[p] = who
                          \/ UNCHANGED <<online, lost, told>>
           /\ ~isOnline => p \notin online' \/ p \in lost'
BY DEF CallApi, Arrives, TypeOK

\* Every step of every goroutine keeps GoneIsOffline.
LEMMA GoneStep ==
    ASSUME TypeOK, GoneIsOffline, [Next]_vars
    PROVE  GoneIsOffline'
<1> SUFFICES ASSUME NEW p \in PeerIds, p \in online', p \notin lost',
                    told'[p] # "sweep"
             PROVE  Alive(p)'
  BY TypeStep DEF GoneIsOffline, Alive, TypeOK
<1>1. p \in online /\ p \notin lost /\ told[p] # "sweep" => Alive(p)
  BY DEF GoneIsOffline, Alive
<1>2. CASE UNCHANGED <<online, lost, told>>
            /\ ~\E c \in Conns, ok \in BOOLEAN : PeerOf[c] = p /\ CallOffline(c, ok)
  BY <1>1, <1>2, AliveKeeps
<1>3. ASSUME NEW c \in Conns, NEW ok \in BOOLEAN, CallOnline(c, ok)
      PROVE  Alive(p)'
  <2>1. PeerOf[c] \in PeerIds /\ CallApi(PeerOf[c], "session", TRUE, ok)
    BY <1>3, PresenceConstants DEF CallOnline, PresenceConstants
  <2>2. CASE PeerOf[c] = p
    BY <1>3, <2>2 DEF CallOnline, Goto, Alive, TypeOK
  <2>3. CASE PeerOf[c] # p
    <3>1. Alive(p)
      BY <1>1, <2>1, <2>3, CallEffect
    <3>2. ~\E d \in Conns, o \in BOOLEAN : PeerOf[d] = p /\ CallOffline(d, o)
      BY <1>3, <2>3 DEF CallOnline, CallOffline, Goto, TypeOK
    <3> QED BY <3>1, <3>2, AliveKeeps
  <2> QED BY <2>2, <2>3
<1>4. ASSUME NEW c \in Conns, NEW ok \in BOOLEAN, CallOffline(c, ok)
      PROVE  Alive(p)'
  <2>1. PeerOf[c] \in PeerIds /\ CallApi(PeerOf[c], "session", FALSE, ok)
    BY <1>4, PresenceConstants DEF CallOffline, PresenceConstants
  <2>2. PeerOf[c] # p
    BY <2>1, CallEffect
  <2>3. Alive(p)
    BY <1>1, <2>1, <2>2, CallEffect
  <2>4. ~\E d \in Conns, o \in BOOLEAN : PeerOf[d] = p /\ CallOffline(d, o)
    BY <1>4, <2>2 DEF CallOffline, Goto, TypeOK
  <2> QED BY <2>3, <2>4, AliveKeeps
<1>5. ASSUME NEW ok \in BOOLEAN, SweepReturns(ok)
      PROVE  Alive(p)'
  <2>1. calling \in PeerIds /\ CallApi(calling, "sweep", TRUE, ok)
    BY <1>5 DEF SweepReturns, TypeOK
  <2>2. Alive(p)
    <3>1. CASE calling = p
      <4>1. UNCHANGED <<online, lost, told>>
        BY <2>1, <3>1, CallEffect
      <4> QED BY <1>1, <4>1
    <3>2. CASE calling # p
      <4>1. p \in online /\ p \notin lost /\ told[p] # "sweep"
        BY <2>1, <3>2, CallEffect
      <4> QED BY <1>1, <4>1
    <3> QED BY <3>1, <3>2
  <2>3. ~\E d \in Conns, o \in BOOLEAN : PeerOf[d] = p /\ CallOffline(d, o)
    BY <1>5 DEF SweepReturns, CallOffline, Goto, TypeOK
  <2> QED BY <2>2, <2>3, AliveKeeps
<1>6. ASSUME ~\E c \in Conns, ok \in BOOLEAN : CallOnline(c, ok) \/ CallOffline(c, ok),
             ~\E ok \in BOOLEAN : SweepReturns(ok)
      PROVE  UNCHANGED <<online, lost, told>>
  BY <1>6 DEF Next, SessionStep, Reject, Accept, HubRegister, LoadCount,
     StoreCount, ReadFails, HubUnregister, SweepStep, SweepTick, SweepNextRoom,
     SweepPeer, HubDrop, serverVars, vars
<1> QED BY <1>2, <1>3, <1>4, <1>5, <1>6

\* When the last connection of a peer_id is gone and its offline reports have
\* arrived, the application server holds the peer offline, except for a report
\* of cron_detect_all_peers that came after them.
THEOREM GoneIsOfflineCorrect == Spec => []GoneIsOffline
<1>1. Init => GoneIsOffline
  BY DEF Init, GoneIsOffline
<1>2. TypeOK /\ GoneIsOffline /\ [Next]_vars => GoneIsOffline'
  BY GoneStep
<1> QED BY <1>1, <1>2, TypeCorrect, PTL DEF Spec
=============================================================================
