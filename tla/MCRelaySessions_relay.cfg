SPECIFICATION FairSpec
CONSTANTS
    Imports = {r1}
    Exports = {e1}
    Budget = 1
    MaxSeq = 2
    MaxImports = 2
    MaxStreams = 1
INVARIANT OneImport
PROPERTIES HoldSpec ImportsEnd
CHECK_DEADLOCK FALSE
