\* Two signals, delivered to the main thread or to a worker, and perhaps another
\* thread that calls stop(). The system may stop: a handler can wait for a mutex
\* that its own thread holds, or whose holder is joining its thread.
SPECIFICATION FairSpec
CONSTANTS
    MaxSessions = 2
    ExternalStop = TRUE
    SignalTargets = {0, 1}
    MaxSignals = 2
CHECK_DEADLOCK FALSE
INVARIANTS
    IInv
    NoThreadLeak
    OnlyOneStopper
    DanglingOnlyAfterFailedStart
PROPERTIES
    SignalShutdownCompletes
