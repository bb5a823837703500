SPECIFICATION Spec
CONSTANTS
    c1 = c1
    c2 = c2
    Clients = {c1, c2}
    Careless = {}
    TotalLength = 3
    PieceLength = 2
    BlockSize = 1
    MaxBlocksInProgress = 2
    MaxBlocksInMultiMode = 1
    WarmUpPieces = 2
SYMMETRY Symmetry
INVARIANTS
    TypeOK
    PiecesPartitioned
    NoDanglingPiece
    OneVerificationEach
    CompletedAreGenuine
    QuotaRespected
    RequestedIsAwaited
    InProgressIsOwned
    FullPiecesAreVerified
    NeverEndgame
    InterestIsShown
CHECK_DEADLOCK FALSE
