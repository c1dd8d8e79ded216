SPECIFICATION FairSpec
CONSTANTS
    d1 = d1
    d2 = d2
    v1 = v1
    v2 = v2
    t1 = t1
    t2 = t2
    Docs = {d1, d2}
    Contents = {v1, v2}
    TextsOf <- ShortAndLong
    None = None
    FlushSize = 1
    Settings <- MCSettings
    MaxChanges = 2
INVARIANTS RowsExact
PROPERTIES StateFollowsRows Converges
CHECK_DEADLOCK FALSE
