SPECIFICATION Spec
CONSTANTS
    Sizes = {0, 2}
    BlockTries = 2
    FirstTries = 2
    MaxAttempts = 2
    MaxTimeouts = 2
    MaxCrashes = 1
    MaxResumes = 1
    MaxBreaks = 1
    CantonFails = TRUE
INVARIANTS ImportedIsOneExport OffWhileHostingWithoutAcs PartialIsQuarantined
PROPERTIES ImportEnds
CHECK_DEADLOCK FALSE
