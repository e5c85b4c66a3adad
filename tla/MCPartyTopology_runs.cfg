SPECIFICATION TopologySpec
CONSTANTS
    Nodes = {a, b, c, d}
    Members = {a, b, c}
    Departed = {e}
    Legacy = TRUE
    NamespaceThreshold = 2
    ConfirmationThreshold = 2
    Coordinators = {a}
    Runs = {r1, r2}
    Kinds = {"Kick", "AddParty", "ChangeThreshold"}
    Asked = {1, 2}
    ReplayMayFail = TRUE
    MaxRetries = 1
SYMMETRY Symmetric
INVARIANTS KeysFollowHosts QuorumReachable
PROPERTIES NoLostUpdate PeerConsents 
CHECK_DEADLOCK FALSE
