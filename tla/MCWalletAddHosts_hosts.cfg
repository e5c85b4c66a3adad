\* The same add is driven twice, one of the sources prepares something else.
SPECIFICATION Spec
CONSTANTS
    Wallets = {w1, w2}
    Sources = {s1, s2}
    Joiners = {j1}
    Liars = {s1}
    Nothing = Nothing
    Sizes = {0, 2}
    MaxExports = 4
    MaxPolls = 1
CHECK_DEADLOCK FALSE
INVARIANTS SignsTheAdd ReplicatedMeansLive
SYMMETRY Symmetry
