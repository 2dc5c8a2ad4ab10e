\* Safety with a validator that may register a key its node does not sign with.
CONSTANTS
    v1 = v1  v2 = v2  v3 = v3
    k1 = k1  k2 = k2  k3 = k3
    NoTag = NoTag  NoKey = NoKey
    Validators = {v1, v2, v3}
    Quorums <- MCQuorums
    Ctx = {v1, v2, v3}
    Misregistering = {v2}
    Keys = {k1, k2, k3}
    LocalKey <- MCLocalKey
    Callers = {c1, c2}
    Datas = {d1}
    MaxHeight = 6
    MaxTxs = 2
    MaxIpcMsgs = 1
    BlockMaxMsgs = 2
SPECIFICATION Spec
SYMMETRY MCSymmetry
INVARIANTS
    TypeOK
    AggregateSignsItsTag
    ReleasedOnRequest
    
    NoTagLeftBehind
    EnabledImpliesRegistered
PROPERTIES
    ScheduleFrozen
