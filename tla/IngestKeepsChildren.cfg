CONSTANTS
    a1 = a1
    a2 = a2
    m1 = m1
    m2 = m2
    Agents <- MCAgents
    Mounts <- MCMounts
    DiskLists <- MCDiskLists
    OtherIds <- MCOtherIds
    Retention = 1
    Recent = 1
    MaxTime = 1
    MaxIngests = 2
    MaxFaults = 0
    MaxRestarts = 0
SPECIFICATION Spec
INVARIANT
    IngestKeepsChildren
