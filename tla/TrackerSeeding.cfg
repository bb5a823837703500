SPECIFICATION FairSpec
CONSTANTS
    Peers = {p1}
    Torrents = {h1}
    Busy = {p1}
    LongRequests = {}
    Cuts = {}
CHECK_DEADLOCK FALSE
PROPERTY SeedingIsAnnounced
