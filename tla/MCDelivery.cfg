SPECIFICATION ShellSpec
CONSTANTS
    p1 = p1  k1 = k1  k2 = k2  k3 = k3  i1 = i1  i2 = i2  tv = tv  tablet = tablet
    Callers = {p1, tv}
    Sessions <- OneSession
    Targets = {tv}
    Actors = {"phone"}
    Keys = {k1, k2}
    Commands = {"play", "stop"}
    Items = {i1}
    Missing = {}
    Queues <- OneItem
    Reports <- EveryState
    Outcomes = {}
    Authorities = {"endpoint_preferred"}
    LeaseTerm = 1
    Freshness = 1
    SleepFor = 1
    MaxTime = 1
    MaxRevision = 1
    MaxEndpointRevision = 12
PROPERTIES CommandsSettle StopLeavesInbox HonestReportSettles
