\* No fault, or every fault; sizes of one and two digits, chunks that do and do
\* not divide them.
SPECIFICATION FairSpec
CONSTANTS
    FileSizes = {0, 3, 10}
    MaxSize = 11
    ChunkSize = 3
    ClientChunk = 4
    BufCap = 2
    FaultSets = {{}, {"shrink", "grow", "unlink", "denied", "reset", "stop",
                      "die", "disk", "cut", "timeout"}}
    MaxFileChanges = 1
INVARIANTS
    TypeOK
    StreamInv
    TransferIntegrity
    SendsWithinAnnounced
    SavedOnSuccess
PROPERTIES
    TransferSpec
    TransferSucceeds
    ClientEnds
    SessionEnds
