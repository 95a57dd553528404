\* A link to nothing in the media directory; nothing changes or fails.
SPECIFICATION Spec
CONSTANTS
    Root <- MCRoot
    Files <- MCFiles
    Links <- MCLinks
    Dirs <- MCDirs
    Order <- MCOrder
    SizeOf <- MCSizeOf
    Lines <- OnlyList
    Trees <- MCTrees
    Faults = {}
    MaxChanges = 0
INVARIANT EveryFileListed
