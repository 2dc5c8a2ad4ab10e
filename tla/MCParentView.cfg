SPECIFICATION CrashSpec
CONSTANTS
    k1 = k1
    k2 = k2
    VKeys = {k1, k2}
    Hashes <- MCHashes
    NullBlock = NullBlock
    None = None
    MaxProposalRange = 2
    ProposalDelay = 1
    MaxCacheBlocks = 1
    GenesisEpoch = 1
    ChainHeadDelay = 1
    MaxHeight = 5
    MaxForks = 2
    ReorgDepth = 0
    InitialPower <- MCPower
    PowerUpdates <- MCNoUpdates
    Unseen = TRUE
CHECK_DEADLOCK FALSE
INVARIANTS CacheContiguous ExecutedOnce ExecutedFinal ProposalIsNew OwnProposalAccepted
