SPECIFICATION Spec
CONSTANTS
    p1 = p1  p2 = p2  k1 = k1  k2 = k2  k3 = k3  k4 = k4  i1 = i1  i2 = i2
    tv = tv  tablet = tablet  phone = phone  watch = watch
    Callers = {p1}
    Sessions <- OneSession
    Targets = {tv}
    Actors = {phone}
    Keys = {k1, k2}
    Commands = {"play", "volume", "next", "previous"}
    Items = {i1, i2}
    Missing = {i2}
    Queues <- AnyQueue
    Reports = {"playing", "ended"}
    Outcomes = {"failed"}
    Authorities = {"endpoint_preferred", "coordinator_preferred"}
    LeaseTerm = 1
    Freshness = 1
    SleepFor = 1
    MaxTime = 1
    MaxRevision = 3
    MaxEndpointRevision = 2
SYMMETRY Symmetry
INVARIANTS
    AckedPrefixSettled
    ActiveItemQueued
PROPERTIES
    ObservationsAdvance
    PendingShieldsState
    ImplementsStream
