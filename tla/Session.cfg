SPECIFICATION FairSpec
CONSTANTS
    t1 = t1
    t2 = t2
    c1 = c1
    c2 = c2
    Torrents = {t1, t2}
    Connections = {c1, c2}
    MaxConnections = 1
INVARIANTS
    TypeOK
    NothingConnectsWhileStopped
    ConnectionsAreCounted
    SlotsAreHeld
    ForgottenWhenGone
PROPERTY StopReturnsOnceStarted
CHECK_DEADLOCK FALSE
