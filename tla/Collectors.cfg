CONSTANTS
    tcp = tcp
    tcp6 = tcp6
    udp = udp
    listener = listener
    p1 = p1
    p2 = p2
    curl = curl
    dig = dig
    Pids <- MCPids
    Programs <- MCPrograms
    None = none
    Socks <- MCSocks
    Proto <- MCProto
    Remote <- MCRemote
    MaxChanges = 1
SPECIFICATION RoundSpec
SYMMETRY Symmetry
CHECK_DEADLOCK FALSE
INVARIANTS
    Attributed
    OpenConnectionsAreFound
    StatesAreOfTheirProcess
