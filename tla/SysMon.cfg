CONSTANTS
    a1 = a1
    a2 = a2
    m1 = m1
    m2 = m2
    Agents <- MCAgents
    Mounts <- MCMounts
    DiskLists <- MCDiskLists
    OtherIds <- MCOtherIds
    Retention = 1
    Recent = 1
    MaxTime = 3
    MaxIngests = 3
    MaxFaults = 1
    MaxRestarts = 1
SPECIFICATION FairSpec
INVARIANTS
    AgentsAreShownOnce
    DisksStayWithTheirSnapshot
    FreshSnapshotsAreWhole
    OrphansHaveACause
PROPERTY
    OldSnapshotsGo
