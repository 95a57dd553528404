\* A signal between accept() and the push of the new worker.
SPECIFICATION Spec
CONSTANTS
    MaxSessions = 2
    ExternalStop = FALSE
    SignalTargets = {0}
    MaxSignals = 1
CHECK_DEADLOCK FALSE
INVARIANT EveryWorkerJoined
