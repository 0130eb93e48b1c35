CONSTANTS
    m1 = m1
    m2 = m2
    c1 = c1
    None = None
    Mints <- MCMints
    Creators <- MCCreators
    CreatorOf <- MCCreatorOf
    FillPrice = 100
    Prices <- MCPrices
    FillBalances <- MCFillBalances
    MaxTasks = 4
    ListenerFaults <- NoFaults

SPECIFICATION Spec

INVARIANT TypeOK
INVARIANT PartialAccounting
INVARIANT ClosedPositionFullyOffered


\* Once every launch is handled and every task has run, nothing is enabled.
CHECK_DEADLOCK FALSE
