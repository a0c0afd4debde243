\* Two concurrent create_address_scope requests naming one VRF DN (snapshot).
CONSTANTS
    Scopes = {s1, s2, s3}
    Vrfs = {v1}
    BadDn = BadDn
    Workers = {w1, w2}
    NONE = NONE
    Isolation = "snapshot"
SYMMETRY ScopeSymmetry
SPECIFICATION Spec
INVARIANT VrfUniquePerVersion
