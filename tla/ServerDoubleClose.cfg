\* stop() against the end of run().
SPECIFICATION Spec
CONSTANTS
    MaxSessions = 2
    ExternalStop = TRUE
    SignalTargets = {}
    MaxSignals = 0
CHECK_DEADLOCK FALSE
INVARIANT NoDoubleClose
