SPECIFICATION Spec
CONSTANTS
    d1 = d1
    d2 = d2
    v1 = v1
    v2 = v2
    t1 = t1
    t2 = t2
    Docs = {d1, d2}
    Contents = {v1, v2}
    TextsOf <- ShortAndLong
    None = None
    FlushSize = 1
    Settings <- RefreshSettings
    MaxChanges = 2
INVARIANT NoOrphanChunks
CHECK_DEADLOCK FALSE
