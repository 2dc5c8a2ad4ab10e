SPECIFICATION NodeSpec
CONSTANTS
    MaxHeight = 3
    MaxChecks = 1
    HistSize = 2
    HaltHeight = 2
    Empty = Empty
    None = None
    Interval = 1
    SnapHistSize = 1
    Chunks = 2
    Versions = {1, 2}
CHECK_DEADLOCK FALSE
PROPERTY AppSpec
INVARIANTS
    AppTypeOK
    ExecutedExactlyOnce HandshakePossible HistoryIsExecution HistoryWindow
    BlocksOfHistoryRetained CheckStateFresh
     ListedSnapshotsComplete AccessedSnapshotKept
