SPECIFICATION FairSpec
CONSTANTS
    Clients = {c1, c2, c3}
    MaxUploads = 1
INVARIANTS
    TypeOK
    UploadsAreBounded
PROPERTY NobodyStarves
