SPECIFICATION Spec
CONSTANTS
    p1 = p1
    a = a  b = b  c = c
    Party = {a, b, c}
    Proposal = {p1}
    Cid = {k1, k2}
    SelfActions <- Actions
    InitMembers = {a, b}
    InitThreshold = 2
    InitTimeout = 1
    InitProposers = {c}
    MinTimeout = 1
    MaxTime = 2
SYMMETRY CidSymmetry
INVARIANTS ProposersNotMembers ExecutedOnce
PROPERTIES RulesChangeNeedsQuorum ExecutionNeedsQuorum
CHECK_DEADLOCK FALSE
