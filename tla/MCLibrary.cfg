SPECIFICATION FairSpec
CONSTANTS
    s1 = s1
    s2 = s2
    d1 = d1
    d2 = d2
    Sources <- MCSources
    Contents = {c1, c2}
    NoContent = NoContent
    MaxSequence = 10
    Directories <- MCDirectories
    DirectoryOf <- MCDirectoryOf
    Threads = {call}
    MaxScans = 2
    MaxEvents = 2
    CallsInterleave = FALSE
INVARIANTS
    TypeOK
PROPERTIES
    
    CompletedScanAgrees
    RemovedIsGone
    
CHECK_DEADLOCK FALSE
