\* The endpoint detail builders against their reference definitions
CONSTANTS
    x1 = x1
    x2 = x2
    c1 = c1
    Addrs = {x1, x2}
    Cidrs = {c1}
    Members <- MCMembers
    Macs = {m1, m2}
    s1 = s1
    s2 = s2
    Subnets = {s1, s2}
    SubnetVersion <- MCSubnetVersion
    DnsServers = {dn1, dn2}
    Gateways = {x1}
    Nets = {n1}
    MaxRows = 2
    OptValues <- MCOptValues
    IntOf <- MCIntOf
    Mtus = {1500}
    PromiscuousTypes = {dhcp}
    Owners = {dhcp, compute}
    SecurityGroups = {sg1}
    QosPolicies = {q1}
    NONE = NONE
SPECIFICATION Spec
INVARIANT TypeOK
INVARIANT AapsActiveExactlyOwned
INVARIANT HostSnatForUnmappedAddrs
INVARIANT SubnetDetailsAsPromised
