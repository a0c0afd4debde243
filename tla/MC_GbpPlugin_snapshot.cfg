\* REPEATABLE READ transactions of two API workers overlapping freely.
CONSTANTS
    Tenants = {ta}
    Ids = {l3p, l2p, ptg, pt, nsp, pc, pr, pa, prs, prs2, es, np}
    l3p = l3p
    l2p = l2p
    ptg = ptg
    pt = pt
    nsp = nsp
    pc = pc
    pr = pr
    pa = pa
    prs = prs
    prs2 = prs2
    es = es
    np = np
    KindOf <- MCKindOf
    Workers = {w1, w2}
    NONE = NONE
    Isolation = "snapshot"
SYMMETRY WorkerSymmetry
CONSTRAINT OneChainLive
SPECIFICATION Spec
INVARIANT TypeOK
