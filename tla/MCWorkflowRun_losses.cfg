SPECIFICATION FairSpec
CONSTANTS
    Kind = "Kick"
    Peers = {p1, p2}
    PartyThreshold = 2
    Lossy = FALSE
    LateDelivery = FALSE
    PersistMayFail = FALSE
    StepMayFail = FALSE
    MayLeave = {p1, p2}
    MayDie = {p1}
    MaxCrashes = 0
    MaxStepFailures = 2

PROPERTIES NotParked Completes
CHECK_DEADLOCK FALSE
