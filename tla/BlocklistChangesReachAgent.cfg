CONSTANTS
    d1 = d1
    d2 = d2
    d3 = d3
    l1 = l1
    l2 = l2
    Domains <- MCDomains
    RuleDomains <- MCRuleDomains
    FirstRules <- MCFirstRules
    Lists <- MCLists
    Content <- MCContent
    DefaultList = l1
    MaxEdits = 1
    MaxFaults = 1
    MaxCrashes = 1
SPECIFICATION FairSpec
PROPERTY
    BlocklistChangesReachAgent
