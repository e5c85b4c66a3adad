SPECIFICATION FairSpec
CONSTANTS
    Contracts = {c1}
    MaxAttempts = 2
    MaxChanges = 4
    MaxCrashes = 1
INVARIANTS CompletedMeansGone CleanedBeforeLeaving HeldUntilGone
PROPERTY HoldReleased
CHECK_DEADLOCK FALSE
