\* A perfect stream and database: every transaction arrives, every INSERT
\* succeeds, one trade per transaction.
CONSTANTS
    m1 = m1
    None = None
    Mints <- MCMints
    SolAmts <- MCSolAmts
    TokAmts <- MCTokAmts
    MaxTradesPerTx = 1
    MaxTxs = 5
    DbCanFail = FALSE
    StreamCanFail = FALSE
    ParseCanPanic = FALSE
SPECIFICATION Spec
INVARIANT OneRowPerMint
\* The chain stops after MaxTxs transactions.
CHECK_DEADLOCK FALSE
