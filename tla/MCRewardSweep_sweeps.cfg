SPECIFICATION Spec
CONSTANTS
    Nodes = {n1}
    Others = {n2}
    Coupons = {c1, c2, c3}
    Bad = {c1}
    Terms = {2}
    ChunkSize = 2
    Margin = 1
    ReadsPerSweep = 1
    MaxVotes = 1
    MaxFaults = 1
    MaxTime = 2
INVARIANTS AlarmStands
PROPERTIES HealthyPaid UrgentFirst
CHECK_DEADLOCK FALSE
