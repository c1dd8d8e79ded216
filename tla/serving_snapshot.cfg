SPECIFICATION Spec
CONSTANTS
    cfg1 = cfg1
    cfg2 = cfg2
    q1 = q1
    q2 = q2
    Publishers = {1, 2}
    Queriers <- OneQuery
    Operators = {}
    Configs <- OneConfig
    Widenings <- NoWidening
    SnapshotDML = TRUE
    OwnerTerminated = TRUE
    MaxVersion = 4
INVARIANTS OneOwner
CHECK_DEADLOCK FALSE
