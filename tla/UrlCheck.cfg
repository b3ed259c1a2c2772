CONSTANTS
    u1 = u1
    u2 = u2
    h1 = h1
    h2 = h2
    Urls <- MCUrls
    Checkers <- MCCheckers
    MaxAdds = 3
    MaxAnswers = 3
    MaxFaults = 1
SYMMETRY MCSymmetry
SPECIFICATION Spec
CHECK_DEADLOCK FALSE
INVARIANTS
    HistoryIsOfItsUrl
    ShownIsNewest
