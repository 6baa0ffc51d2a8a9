SPECIFICATION Spec
CONSTANTS
    c1 = c1 c2 = c2 pA = pA pB = pB r1 = r1 r2 = r2 r9 = r9
    mAll = mAll mAll2 = mAll2 mRooms = mRooms mPeers = mPeers
    mPeers2 = mPeers2
    NoConn = NoConn NoMsg = NoMsg
    Conns = {c1, c2}
    PeerIds = {pA, pB}
    Rooms = {r1, r2}
    RoomIds = {r1, r2, r9}
    Msgs = {mPeers}
    PeerOf <- Distinct
    RoomOf <- RoomOfAB
    Kind <- MCKind
    Targets <- MCTargets
    SendCap = 1
    BroadcastCap = 1
    QueueCap = 1
    AckRto = TRUE
    ClientAcks = FALSE
INVARIANTS NoSendOnClosed
CHECK_DEADLOCK FALSE
