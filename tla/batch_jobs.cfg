SPECIFICATION FairSpec
CONSTANTS
    Docs = {1, 2, 3, 4}
    WindowSize = 2
    PartitionSize = 2
    Settings <- MCSettings
INVARIANTS AnswersMatch BilledOnce PaidAnswersKept
PROPERTIES AllPublished
CHECK_DEADLOCK FALSE
