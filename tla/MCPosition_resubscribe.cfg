\* One mint; the listener's stream may close and its re-subscribe may fail.
CONSTANTS
    m1 = m1
    m2 = m2
    c1 = c1
    None = None
    Mints <- MCOneMint
    Creators <- MCCreators
    CreatorOf <- MCOneCreatorOf
    FillPrice = 100
    Prices <- MCPrices
    FillBalances <- MCFillBalances
    MaxTasks = 4
    ListenerFaults <- StreamFaults

SPECIFICATION FairSpec

PROPERTY ExitsKeepListening

CHECK_DEADLOCK FALSE
