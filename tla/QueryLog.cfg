CONSTANTS
    h1 = h1
    h2 = h2
    Handlers <- MCHandlers
    Cap = 2
    Drop = 1
    MaxQueries = 3
    MaxFaults = 2
    MaxRestarts = 1
SPECIFICATION FairSpec
CHECK_DEADLOCK FALSE
INVARIANTS
    AtMostOnce
    BufferKeepsNewest
    AnswersAreLogged
    SentWasCommitted
    NoLossWithoutCause
PROPERTIES
    RefinesLossyLog
    EntriesSettle
