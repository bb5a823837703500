SPECIFICATION Spec
CONSTANTS
    c1 = c1
    c2 = c2
    Clients = {c1, c2}
    Careless = {}
    TotalLength = 3
    PieceLength = 2
    BlockSize = 1
    MaxBlocksInProgress = 2
    MaxBlocksInMultiMode = 1
    WarmUpPieces = 2
PROPERTIES
    ChokedPieceIsOffered
CHECK_DEADLOCK FALSE
