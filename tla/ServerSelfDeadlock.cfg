\* A signal while the main thread holds workers_mutex_, on that thread or on the
\* worker it joins.
SPECIFICATION Spec
CONSTANTS
    MaxSessions = 2
    ExternalStop = FALSE
    SignalTargets = {0, 1}
    MaxSignals = 1
CHECK_DEADLOCK FALSE
INVARIANT HandlerNeverWaitsForItself
