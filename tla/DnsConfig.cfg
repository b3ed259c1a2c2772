CONSTANTS
    isp = isp
    google = google
    Resolvers <- MCResolvers
    Public <- MCPublic
    Dhcp <- MCDhcp
    Loopback = loopback
    MaxFaults = 1
    MaxKills = 2
    MaxRoams = 2
SPECIFICATION Spec
INVARIANTS
    TypeOK
    StrandedHasACause
    RunsRestoreResolvers
PROPERTY
    LinuxStopFreesHost
