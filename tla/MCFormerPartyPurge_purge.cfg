SPECIFICATION FairSpec
CONSTANTS
    Parties = {p1, p2}
    Returning = {p1}
    MaxRemovals = 2
    OtherMoves = {FALSE}
    CallsFail = TRUE
INVARIANTS PurgeRunsAlone SucceededMeansPurged
PROPERTIES CurrentContractsKept PurgeEnds
CHECK_DEADLOCK FALSE
