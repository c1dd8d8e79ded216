SPECIFICATION Spec
CONSTANTS
    Keys <- MCKeys
    DocOf <- MCDocOf
    Columns = {"a", "b"}
    Values = {1, 2}
    Forms = {"plain", "part", "iceberg"}
    Asked <- MCAsked
    MaxCalls = 2
    MaxClaim = 2
INVARIANTS ReplacementSurvives
PROPERTIES ImplementsContract GuardedByVersion
CHECK_DEADLOCK FALSE
