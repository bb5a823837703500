SPECIFICATION Spec
CONSTANTS
    Uploads = {"x"}
    Downloads = {"d"}
    BlockLength = 1
    HeaderLength = 1
    MaxPending = 4
    MaxMessages = 2
    MaxRequests = 2
INVARIANTS
    BitFieldComesFirst
CHECK_DEADLOCK FALSE
