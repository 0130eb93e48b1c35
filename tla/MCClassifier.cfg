\* Every described transaction alone, and two two-transaction chunks.
CONSTANTS
    pump = pump
    other = other
    mint = mint
    curve = curve
    assoc = assoc
    k1 = k1
    k2 = k2
    k3 = k3
    None = None
    Panic = Panic
    NoKey = NoKey
    All = All
    Keys <- MCKeys
    PumpProgram = pump
    KeyBytes <- MCKeyBytes
    MinSolCost = 300
    MaxSolCost = 7000
    Blacklist <- MCBlacklist
    WhitelistEnabled = TRUE
    Whitelist <- MCWhitelist
    Mint = mint
    Curve = curve
    Assoc = assoc
    Other = other
    Chunks <- MCChunks
SPECIFICATION Spec
INVARIANT LaunchContract
\* A chunk task ends when its loop ends or it panics.
CHECK_DEADLOCK FALSE
