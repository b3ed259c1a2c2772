CONSTANTS
    a = a
    b = b
    c = c
    d = d
    localhost = localhost
    comment = comment
    h1 = h1
    h2 = h2
    Sink = sink
    Labels <- MCLabels
    Names <- MCNames
    LocalLabels <- MCLocalLabels
    Files <- MCFiles
    BlockRules <- MCBlockRules
    AllowRules <- MCAllowRules
    Handlers <- MCHandlers
SPECIFICATION Spec
PROPERTIES
    AnswerIsPolicy
    LocalNamesNeedARule
