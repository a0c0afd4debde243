\* The handler against concurrent binding changes: safety and termination
CONSTANTS
    p1 = p1
    p2 = p2
    h1 = h1
    h2 = h2
    d1 = d1
    dx = dx
    a1 = a1
    a2 = a2
    Ports = {p1, p2}
    Hosts = {h1, h2}
    Devices = {d1, dx}
    Agents = {a1, a2}
    MatchOf <- MCMatchOf
    AgentHost <- MCAgentHost
    MaxChanges = 2
    NONE = NONE
SPECIFICATION Spec
INVARIANT TypeOK
PROPERTY DetailsOnlyForRequestingHost
 
