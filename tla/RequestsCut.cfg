\* The response to LIST is cut short.
SPECIFICATION Spec
CONSTANTS
    Root <- MCRoot
    Files <- MCFiles
    Links <- MCLinks
    Dirs <- MCDirs
    Order <- MCOrder
    SizeOf <- MCSizeOf
    Lines <- OnlyList
    Trees <- CleanTrees
    Faults = {"cut"}
    MaxChanges = 0
INVARIANT ListedInFull
