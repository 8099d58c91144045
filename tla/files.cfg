\* Two operations, a change of the file, an end of the connection.
CONSTANTS
    Ops = {o1, o2}
    Requests <- SomeRequests
    Chunk = 2
    MaxActive = 2
    MaxChanges = 1
    MaxDrops = 1
SPECIFICATION FairSpec
INVARIANTS TypeOK ResultIsTrue
PROPERTIES TempsGo ImplementsFiles
CHECK_DEADLOCK FALSE
