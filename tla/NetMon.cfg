CONSTANTS
    agent = agent
    c1 = c1
    c2 = c2
    c3 = c3
    ip1 = ip1
    ip2 = ip2
    ip3 = ip3
    x = x
    p = p
    none = none
    https = https
    dns = dns
    tcp = tcp
    udp = udp
    Agents = {agent}
    Local = local
    Conns <- MCConns
    Addrs = {ip1, ip2, ip3}
    AddrOf <- MCAddrOf
    Proto <- MCProto
    Port <- MCPort
    Names = {x, agent}
    Ptr <- MCPtr
    Procs = {p}
    None = none
    Batches <- MCBatches
    Limit = 1
    Ttl = 2
    MaxCollects = 2
    MaxFaults = 1
    MaxFlows = 2
    TopLimit = 1
    MaxTop = 2
    GraphLimit = 2
SPECIFICATION FairSpec
CHECK_DEADLOCK FALSE
INVARIANTS
    TypeOK
    CountsAreSightings
    ViewsShowSightings
    HistoryIsBacked
PROPERTIES
    RowsForgetOnlyLocally
    LastSeenAdvances
    EveryAddressIsTried
    NamesReachHistory
