\* Stream drops, failing INSERTs, two-trade transactions and a panicking
\* payload, five chain transactions of one mint.
CONSTANTS
    m1 = m1
    None = None
    Mints <- MCMints
    SolAmts <- MCSolAmts
    TokAmts <- MCTokAmts
    MaxTradesPerTx = 2
    MaxTxs = 5
    DbCanFail = TRUE
    StreamCanFail = TRUE
    ParseCanPanic = TRUE
SPECIFICATION Spec
INVARIANT TypeOK SellOutAccounted
\* After a parse panic the analyzer process has ended: nothing is enabled
\* once the chain's transactions are used up.
CHECK_DEADLOCK FALSE
