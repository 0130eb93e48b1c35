CONSTANTS
    m1 = m1
    m2 = m2
    c1 = c1
    None = None
    Mints <- MCOneMint
    Creators <- MCCreators
    CreatorOf <- MCOneCreatorOf
    FillPrice = 100
    Prices <- MCPrices
    FillBalances <- MCFillBalances
    MaxTasks = 4
    ListenerFaults <- AllFaults


SPECIFICATION FairSpec

PROPERTY StopLossBlacklists LifecycleRefined

\* Once every launch is handled and every task has run, nothing is enabled.
CHECK_DEADLOCK FALSE
