CONSTANTS
    u1 = u1
    u2 = u2
    u3 = u3
    r1 = r1
    r2 = r2
    Users <- ThreeUsers
    Requests <- TwoRequests
    Asks <- StatedAsks
    First = u1
SPECIFICATION Spec
SYMMETRY Symmetric
INVARIANT AdminRemains
CHECK_DEADLOCK FALSE
