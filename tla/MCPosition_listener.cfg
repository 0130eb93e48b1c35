\* Two mints: a panic on the first one's curve comes before the second launch.
CONSTANTS
    m1 = m1
    m2 = m2
    c1 = c1
    None = None
    Mints <- MCMints
    Creators <- MCCreators
    CreatorOf <- MCCreatorOf
    FillPrice = 100
    Prices <- MCPrices
    FillBalances <- MCFillBalances
    MaxTasks = 4
    ListenerFaults <- PanicFault


SPECIFICATION Spec

PROPERTY GateMeansListening

CHECK_DEADLOCK FALSE
