\* Every kind of request and fault, one change of the directory.
SPECIFICATION Spec
CONSTANTS
    Root <- MCRoot
    Files <- MCFiles
    Links <- MCLinks
    Dirs <- MCDirs
    Order <- MCOrder
    SizeOf <- MCSizeOf
    Lines <- MCLines
    Trees <- MCTrees
    Faults = {"refused", "cut", "reset", "io"}
    MaxChanges = 1
INVARIANTS
    TypeOK
    RequestsInv
    ListingInv
    ListingBounds
    PlainNamesServed
    ShownIsListed
    ShownCanBeFetched

    
