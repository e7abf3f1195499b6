SPECIFICATION FairSpec
CONSTANTS
    Callers = {c1}
    PlanSize = 1
    MaxAttempts = 2
    MaxFaults = 0
PROPERTIES
    CancellingEnds
