SPECIFICATION Spec
CONSTANTS
    Uploads = {"x"}
    Downloads = {"d", "e"}
    BlockLength = 1
    HeaderLength = 1
    MaxPending = 4
    MaxMessages = 2
    MaxRequests = 2
INVARIANTS
    AwaitedBlocksAreTimed
CHECK_DEADLOCK FALSE
