SPECIFICATION Spec
CONSTANTS
    Kind = "Contracts"
    Peers = {p1, p2}
    PartyThreshold = 2
    Lossy = TRUE
    LateDelivery = TRUE
    PersistMayFail = TRUE
    StepMayFail = TRUE
    MayLeave = {}
    MayDie = {}
    MaxCrashes = 1
    MaxStepFailures = 2
SYMMETRY PeerSymmetry
CONSTRAINT FaultsBeforeRestart
INVARIANTS SubmitsQuorum RowNotAhead NoStepSkipped
PROPERTIES GatesRespected
CHECK_DEADLOCK FALSE
