SPECIFICATION FairSpec
CONSTANTS
    Polls = {1, 2}
    MaxPoints = 1
    PushTime = 1500
    MaxMsgs = 2
    MaxLost = 1
    NoView = NoView
    d1 = d1 d2 = d2 pA = pA
    Dialogs = {d1, d2}
    KindsOf <- MCKindsOf
    NumRooms = 2
    Peers = {pA}
    RoomOf <- MCRoomOf
    RangeTasks <- MCRangeTasks
    SetTasks <- MCSetTasks
    MaxQueries = 2
    MaxMoves = 1
    MaxFails = 1
    NoTask = NoTask
    BufSize = 2
    MaxReads = 3
    TelnetCap = 1
    Pids = {1, 2, 3}
    Digits <- MCDigits
INVARIANTS TypeOK ListFresh OwnPeers PushWithinNamed AlertTells TelnetBody PidFileNames
PROPERTIES BackOnlyOvertaken OverviewCatchesUp TelnetPushed
CHECK_DEADLOCK FALSE
