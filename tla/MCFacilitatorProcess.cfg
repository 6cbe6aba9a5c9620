CONSTANTS
    Requests = {h1, h2, h3}
    MaxCalls = 2
    MaxFailures = 1
    MaxDrops = 2
    MaxSignals = 2
    MaxRestarts = 1
    None = none

SPECIFICATION Spec

INVARIANTS
    ProcessTypeOK
    OneConnection

PROPERTIES
    NobodyLeftWaiting
    SignalEnds

\* the process has ended, or every request is answered
CHECK_DEADLOCK FALSE
