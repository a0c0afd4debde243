CONSTANTS
    la = la
    lb = lb
    g1 = g1
    g2 = g2
    g3 = g3
    c1 = c1
    c2 = c2
    NONE = NONE
    L2Ps = {la, lb}
    PTGs = {g1, g2, g3}
    PtgL2p <- MCPtgL2p
    Pool <- MCPool
    MaxUserSubnets = 1
SPECIFICATION Spec
INVARIANT TypeOK PtgHasL2pSubnets
PROPERTY ImplementsAlloc
CHECK_DEADLOCK FALSE
