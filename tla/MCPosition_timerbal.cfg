CONSTANTS
    m1 = m1
    m2 = m2
    c1 = c1
    None = None
    Mints <- MCOneMint
    Creators <- MCCreators
    CreatorOf <- MCOneCreatorOf
    FillPrice = 100
    Prices <- MCPrices
    FillBalances <- MCFillBalances
    MaxTasks = 4
    ListenerFaults <- NoFaults


SPECIFICATION Spec

INVARIANT TimerSellWithinBalance

CHECK_DEADLOCK FALSE
