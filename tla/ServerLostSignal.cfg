\* A signal before is_running_ is set.
SPECIFICATION FairSpec
CONSTANTS
    MaxSessions = 2
    ExternalStop = FALSE
    SignalTargets = {0}
    MaxSignals = 1
CHECK_DEADLOCK FALSE
PROPERTY SignalEndsServer
