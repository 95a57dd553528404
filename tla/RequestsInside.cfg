\* What a GET opens, with a link that leads out of the media directory.
SPECIFICATION Spec
CONSTANTS
    Root <- MCRoot
    Files <- MCFiles
    Links <- MCLinks
    Dirs <- MCDirs
    Order <- MCOrder
    SizeOf <- MCSizeOf
    Lines <- MCLines
    Trees <- MCTrees
    Faults = {}
    MaxChanges = 0
INVARIANT ServedInside
