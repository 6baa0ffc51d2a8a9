---------------------------- MODULE MCDispatch ----------------------------
(* Small instances of Dispatch for TLC.                                    *)
EXTENDS DispatchFeed

CONSTANTS c1, c2, pA, pB, r1, r2, r9, mAll, mAll2, mRooms, mPeers,
          mPeers2

\* pA in room r1, pB in room r2.
RoomOfAB == pA :> r1 @@ pB :> r2
RoomOfOne == pA :> r1 @@ pB :> r1

\* c2 is a second connection with the peer_id of c1.
Repeated == c1 :> pA @@ c2 :> pA
Distinct == c1 :> pA @@ c2 :> pB
Alone == c1 :> pA

KindOf == mAll :> "all" @@ mAll2 :> "all" @@ mRooms :> "rooms"
            @@ mPeers :> "peers" @@ mPeers2 :> "peers"
TargetsOf == mAll :> <<>> @@ mAll2 :> <<>> @@ mRooms :> <<r1, r9, r1>>
            @@ mPeers :> <<pA, pB>> @@ mPeers2 :> <<pA>>
MCKind == [m \in Msgs |-> KindOf[m]]
MCTargets == [m \in Msgs |-> TargetsOf[m]]
============================================================================
