SPECIFICATION Spec
CONSTANTS
    s1 = s1
    s2 = s2
    c1 = c1
    c2 = c2
    worker = worker
    tool = tool
    Sources <- MCSources
    Contents = {c1, c2}
    NoContent = NoContent
    MaxSequence = 3
    Pullers = {worker, tool}
    Instances = {i1}
    Elsewhere = Elsewhere
    Nowhere = Nowhere
    Topologies = {Elsewhere, Nowhere}
    Folders <- MCFolders
    FoldersOf <- MCFoldersOf
    PageLimit = 2
SYMMETRY MCSymmetry
INVARIANTS
    TypeOK
    
    
    ProjectionsFollowItems
PROPERTIES
    ImplementsLibrary
