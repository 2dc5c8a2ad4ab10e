SPECIFICATION Spec
CONSTANTS
    k1 = k1
    k2 = k2
    k3 = k3
    VKeys = {k1, k2, k3}
    Hashes = {a, b}
    NullBlock = NullBlock
    None = None
    MaxHeight = 2
    MaxVotes = 3
    PowerTables <- MCPowerTables
    PowerUpdates <- MCPowerUpdates
INVARIANTS OneVotePerHeight 
PROPERTY QuorumPersists
