\* delete_policy_target_group racing the binding of a PT's port.
CONSTANTS
    Tenants = {ta, tb}
    Ids = {l3p, l2p, ptg, pt}
    l3p = l3p
    l2p = l2p
    ptg = ptg
    pt = pt
    nsp = nsp
    pc = pc
    pr = pr
    pa = pa
    prs = prs
    prs2 = prs2
    es = es
    np = np
    KindOf <- MCKindOf
    Workers = {w1, w2}
    NONE = NONE
    Isolation = "snapshot"
SYMMETRY TenantSymmetry
SPECIFICATION Spec
PROPERTY PtgDeleteSparesBoundTargets
