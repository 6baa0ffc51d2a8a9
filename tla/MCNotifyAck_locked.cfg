SPECIFICATION FairSpec
CONSTANTS
    c1 = c1 c2 = c2
    Conns = {c1, c2}
    Settings = {0, 1}
    NotifyCap = 2
    MaxNotify = 3
INVARIANTS TypeOK NoConcurrentWrite NotifyInOrder
PROPERTIES NotifyQueued LocksTaken
CHECK_DEADLOCK FALSE
