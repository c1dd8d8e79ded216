SPECIFICATION FairSpec
CONSTANTS
    Rows = {a, b}
    Values = {v1, v2}
    None = None
    BatchSize = 1
    Settings <- MCSettings
    MaxChanges = 2
INVARIANT ReadyIsSnapshot
PROPERTIES GovernedRevoked StateFollowsStore Converges
