\* Another thread owns the server and calls stop(), as the tests do.
SPECIFICATION FairSpec
CONSTANTS
    MaxSessions = 3
    ExternalStop = TRUE
    SignalTargets = {}
    MaxSignals = 0
INVARIANTS
    TypeOK
    CleanupNeverWaitsForClient
    IteratorsValid
    EndedSessionsReaped
    NoThreadLeak
    NoDescriptorLeak
    StopFindsListener
PROPERTIES
    LifecycleSpec
    ShutdownCompletes
