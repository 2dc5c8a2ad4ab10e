SPECIFICATION FairSpec
CONSTANTS
    k1 = k1
    k2 = k2
    VKeys = {k1, k2}
    Hashes <- MCHashes
    NullBlock = NullBlock
    None = None
    MaxProposalRange = 2
    ProposalDelay = 1
    MaxCacheBlocks = 2
    GenesisEpoch = 1
    ChainHeadDelay = 1
    MaxHeight = 5
    MaxForks = 1
    ReorgDepth = 0
    InitialPower <- MCPower
    PowerUpdates <- MCUpdates
    Unseen = FALSE
CHECK_DEADLOCK FALSE
INVARIANTS ViewInSync 
PROPERTY CatchesUp
