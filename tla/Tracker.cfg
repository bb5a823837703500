SPECIFICATION FairSpec
CONSTANTS
    Peers = {p1, p2}
    Torrents = {h1}
    Busy = {p1}
    LongRequests = {p1}
    Cuts = {2, 3}
INVARIANTS
    TypeOK
    AloneGetsItself
    EventsInOrder
PROPERTY RequestsAreAnswered
CHECK_DEADLOCK FALSE
