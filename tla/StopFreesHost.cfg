CONSTANTS
    isp = isp
    google = google
    Resolvers <- MCResolvers
    Public <- MCPublic
    Dhcp <- MCDhcp
    Loopback = loopback
    MaxFaults = 0
    MaxKills = 1
    MaxRoams = 0
SPECIFICATION Spec
PROPERTY
    StopFreesHost
