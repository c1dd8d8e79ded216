SPECIFICATION Spec
CONSTANTS
    cfg1 = cfg1
    cfg2 = cfg2
    q1 = q1
    q2 = q2
    Publishers = {1, 3}
    Queriers <- OneQuery
    Operators = {2}
    Configs <- OneConfig
    Widenings <- NoWidening
    SnapshotDML = FALSE
    OwnerTerminated = FALSE
    MaxVersion = 3
INVARIANTS ReadyIsAnswered
PROPERTIES AuthorityKept ImplementsScope
CHECK_DEADLOCK FALSE
