SPECIFICATION Spec
CONSTANTS
    n1 = n1
    n2 = n2
    n3 = n3
    Nodes = {n1, n2, n3}
    NoNode = NoNode
    Owners = {n1, NoNode}
    MaxSerial = 4
    MaxWrites = 2
SYMMETRY Alike
INVARIANTS CanTransact ActingHoldsContracts
CHECK_DEADLOCK FALSE
