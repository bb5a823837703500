SPECIFICATION FairSpec
CONSTANTS
    NumPieces = 2
    BlocksPerPiece = 1
    MaxReads = 1
    MaxIoErrors = 1
INVARIANTS
    TypeOK
    NoLostWakeUp
    OneAnswerEach
    VerdictsSeeEveryWrite
    VerifiedOnDisk
    CompletedReadsIntact
CHECK_DEADLOCK FALSE
PROPERTIES
    ReadsAnswered
    VerdictsArrive
    FirstVerificationEnds
    ImplementsFileStore
