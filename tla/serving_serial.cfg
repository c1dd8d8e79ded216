SPECIFICATION FairSpec
CONSTANTS
    cfg1 = cfg1
    cfg2 = cfg2
    q1 = q1
    q2 = q2
    Publishers = {1, 2}
    Queriers <- OneQuery
    Operators = {}
    Configs <- TwoConfigs
    Widenings <- OldToNew
    SnapshotDML = FALSE
    OwnerTerminated = TRUE
    MaxVersion = 4
INVARIANTS LeaseExcludesPublisher
PROPERTIES FenceIncreases HandedBack
CHECK_DEADLOCK FALSE
