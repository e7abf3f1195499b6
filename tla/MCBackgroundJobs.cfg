SPECIFICATION FairSpec
CONSTANTS
    LastItem = 2
    Evidences = {e1}
    Missing = Missing
    Asked = Asked
    Requested = {1}
    Threads = {t1, t2}
    Nobody = Nobody
    Window = 1
    Batch = 1
    Budget = 2
    Retained = 1
    MaxSettings = 1
    MaxEvents = 2
    LongRuns = FALSE
INVARIANTS
    TypeOK
    WindowKept
    OneRunner
PROPERTIES
    ReceiptsStand
    EvidenceExamined
CHECK_DEADLOCK FALSE
