SPECIFICATION FairSpec
CONSTANTS
    Callers = {c1}
    PlanSize = 2
    MaxAttempts = 3
    MaxFaults = 2
INVARIANTS
    TypeOK
    EvidenceComplete
PROPERTIES
    
    
    OutcomeSettles
    
