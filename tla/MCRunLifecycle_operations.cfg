SPECIFICATION LifecycleSpec
CONSTANTS
    Runs = {r1}
    Peers = {p1}
    Requests = {q1, q2}
    MaxRetries = 2
    MaxCancels = 1
    MaxTroubles = 1
CONSTRAINT TwoEvents
INVARIANTS OneLoopPerRun
PROPERTIES OutcomeSpec 
CHECK_DEADLOCK FALSE
