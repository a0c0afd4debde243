\* A PTG, an external policy, a policy rule and a rule set, one request
\* in flight at a time: a rule's classifier changes after a rule set
\* lists it.
CONSTANTS
    g1 = g1
    x1 = x1
    r1 = r1
    r2 = r2
    u1 = u1
    u2 = u2
    Rules = {u1}
    s1 = s1
    s2 = s2
    NONE = NONE
    PTGs = {g1}
    EPs = {x1}
    Prs = {r1}
    Segs = {s1, s2}
    Managed = {s1}
    MaxInFlight = 1
SPECIFICATION Spec
INVARIANT SubjectsMatchRulesWhenIdle
