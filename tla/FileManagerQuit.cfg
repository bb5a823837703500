SPECIFICATION FairSpec
CONSTANTS
    NumPieces = 1
    BlocksPerPiece = 1
    MaxReads = 0
    MaxIoErrors = 0
PROPERTIES
    DestructorReturns
CHECK_DEADLOCK FALSE
