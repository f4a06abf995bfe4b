SPECIFICATION FairSpec
CONSTANTS
    d1 = d1  d2 = d2  a1 = a1  a2 = a2  p1 = p1  p2 = p2  k1 = k1  k2 = k2  k3 = k3
    Nobody = Nobody  Dead = Dead  Nothing = Nothing
    Daemons <- MCDaemons
    Agent = d1
    Addrs <- MCAddrs
    DefaultAddr = a1
    Ports <- MCPorts
    Fallback = p1
    Override = Nothing
    NumTools = 2
    Tokens <- MCTokens
    ReadErrors = TRUE
    MaxFaults = 1
INVARIANTS TypeOK TokenOnFile CallbacksAreServed
PROPERTIES TokenIsKept RegistrationsMaintained LaunchdHeals
