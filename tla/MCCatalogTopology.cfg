SPECIFICATION FairSpec
CONSTANTS
    s1 = s1
    s2 = s2
    c1 = c1
    c2 = c2
    worker = worker
    tool = tool
    Sources = {s1}
    Contents = {c1}
    NoContent = NoContent
    MaxSequence = 2
    Pullers = {worker}
    Instances = {i1, i2}
    Elsewhere = Elsewhere
    Nowhere = Nowhere
    Topologies = {i1, i2, Elsewhere, Nowhere}
    Folders <- MCFolders
    FoldersOf <- MCFoldersOf
    PageLimit = 2
PROPERTIES
    
    AvailabilitySettles
