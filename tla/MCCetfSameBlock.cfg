\* Two contracts enqueue in one block.
CONSTANTS
    v1 = v1  v2 = v2  v3 = v3
    k1 = k1  k2 = k2  k3 = k3
    NoTag = NoTag  NoKey = NoKey
    Validators = {v1, v2, v3}
    Quorums <- MCQuorums
    Ctx = {v1, v2, v3}
    Misregistering = {}
    Keys = {k1, k2, k3}
    LocalKey <- MCLocalKey
    Callers = {c1, c2}
    Datas = {d1}
    MaxHeight = 6
    MaxTxs = 2
    MaxIpcMsgs = 1
    BlockMaxMsgs = 2
SPECIFICATION Spec
INVARIANTS
    EveryQueuedTagReleased
