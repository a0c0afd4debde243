\* Route validation and APIC routed networks over serial segment and L3P requests
CONSTANTS
    e1 = e1
    e2 = e2
    e3 = e3
    l1 = l1
    l2 = l2
    dflt = dflt
    d1 = d1
    d2 = d2
    gin = gin
    gin2 = gin2
    gout = gout
    NONE = NONE
    Segments = {e1, e2}
    L3Ps = {l1, l2}
    Dests = {dflt, d1, d2}
    Dflt = dflt
    NextHops = {NONE, gin, gin2, gout}
    Managed = {e1, e2}
    Exposed = {e2}
    Gw <- MCGw
    InCidr <- MCInCidr
    PoolOverlap <- MCPoolOverlap
    CidrOverlap <- MCCidrOverlap
    RouteSets <- MCRouteSets
SPECIFICATION Spec
INVARIANT TypeOK
INVARIANT RoutesOutsideL3PPools
