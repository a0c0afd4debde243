\* Validation and repair passes over every scope, with external changes.
CONSTANTS
    epg = epg
    vrf = vrf
    bind = bind
    l3p = l3p
    bd = bd
    ta = ta
    tb = tb
    Objects = {epg, vrf, bind, l3p, bd}
    Expected = {bind, l3p, bd}
    Monitored = {vrf, bd}
    BindingObjs = {bind}
    Unsupported = {"l3_policy"}
    TypeOf <- MCTypeOf
    TenantOf <- MCTenantOf
    ResourceTypes = {"network", "port", "l3_policy"}
    Tenants = {ta, tb}
    NONE = NONE
SPECIFICATION Spec
INVARIANT TypeOK
INVARIANT CleanReportIsTrue
 
