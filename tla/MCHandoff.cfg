SPECIFICATION Spec
CONSTANTS
    p1 = p1  p2 = p2  k1 = k1  k2 = k2  k3 = k3  k4 = k4  i1 = i1  i2 = i2
    tv = tv  tablet = tablet  phone = phone  watch = watch
    Callers = {p1}
    Sessions <- OneSession
    Targets = {tv, tablet}
    Actors = {phone, watch}
    Keys = {k1, k2, k3}
    Commands = {"volume", "handoff", "sleep_timer"}
    Items = {i1}
    Missing = {}
    Queues <- OneItem
    Reports = {"playing"}
    Outcomes = {}
    Authorities = {"endpoint_preferred"}
    LeaseTerm = 1
    Freshness = 1
    SleepFor = 1
    MaxTime = 2
    MaxRevision = 1
    MaxEndpointRevision = 1
SYMMETRY Symmetry
INVARIANTS LevelsCoalesced
PROPERTIES AppliedInOrder 
