SPECIFICATION Spec
CONSTANTS
    x = x
    y = y
    Uploads = {x, y}
    Downloads = {"d"}
    BlockLength = 1
    HeaderLength = 1
    MaxPending = 4
    MaxMessages = 2
    MaxRequests = 2
SYMMETRY Symmetry
INVARIANTS
    TypeOK
    PeerIsNotStranded
    PeerLearnsChoking
    NoBlockWhileChoked
    QueueIsBounded
    NothingAwaitedWhileChoked
CHECK_DEADLOCK FALSE
