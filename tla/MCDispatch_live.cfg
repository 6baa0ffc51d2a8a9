SPECIFICATION FairSpec
CONSTANTS
    c1 = c1 c2 = c2 pA = pA pB = pB r1 = r1 r2 = r2 r9 = r9
    mAll = mAll mAll2 = mAll2 mRooms = mRooms mPeers = mPeers
    mPeers2 = mPeers2
    NoConn = NoConn NoMsg = NoMsg
    Conns = {c1}
    PeerIds = {pA, pB}
    Rooms = {r1}
    RoomIds = {r1, r2, r9}
    Msgs = {mAll, mRooms, mPeers}
    PeerOf <- Alone
    RoomOf <- RoomOfOne
    Kind <- MCKind
    Targets <- MCTargets
    SendCap = 1
    BroadcastCap = 1
    QueueCap = 1
    AckRto = FALSE
    ClientAcks = FALSE
INVARIANTS FeedOrdered
PROPERTIES PushesFinish InactiveLeaves FeedServed
CHECK_DEADLOCK FALSE
