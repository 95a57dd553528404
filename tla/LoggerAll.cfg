\* Two workers and main; a signal on any of them at any moment. The system may
\* stop: a handler can wait for the mutex its own thread holds.
SPECIFICATION FairSpec
CONSTANTS
    Workers = {1, 2}
    Levels = {0, 2}
    MaxLogs = 1
    MaxSignals = 1
CHECK_DEADLOCK FALSE
INVARIANTS
    TypeOK
    SinksAgree
PROPERTIES
    CallsReturn
