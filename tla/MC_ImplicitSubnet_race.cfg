CONSTANTS
    la = la
    lb = lb
    g1 = g1
    g2 = g2
    g3 = g3
    c1 = c1
    c2 = c2
    NONE = NONE
    L2Ps = {la, lb}
    PTGs = {g1, g2, g3}
    PtgL2p <- MCPtgL2p
    Pool <- MCPool
    MaxUserSubnets = 0
SPECIFICATION Spec
INVARIANT NoOverlapInL3p
CHECK_DEADLOCK FALSE
