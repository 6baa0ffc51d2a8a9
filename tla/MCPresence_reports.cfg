SPECIFICATION FairSpec
CONSTANTS
    c1 = c1 c2 = c2 pA = pA
    NoConn = NoConn NoPeer = NoPeer
    Conns = {c1, c2}
    PeerIds = {pA}
    PeerOf <- SamePeer
    NumRooms = 2
    RoomOf <- SecondRoom
    max_conn_limit = 1
    max_detect_peer_interval = 3600
    MaxFails = 2
INVARIANTS TypeOK GoneIsOffline
PROPERTIES RegisteredIsOnline
CHECK_DEADLOCK FALSE
