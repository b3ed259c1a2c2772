CONSTANTS
    MaxFaults = 1
SPECIFICATION FairSpec
INVARIANTS
    TypeOK
    CutOffHasACause
    ConnectedMeansSetUp
PROPERTIES
    StatusFollows
