SPECIFICATION FairSpec
CONSTANTS
    a1 = a1
    a2 = a2
    b1 = b1
    b2 = b2
    c1 = c1
    Models <- FourModels
    Kind <- FourKinds
    Sizes <- FourSizes
    Parents <- FourParents
    Workers = {a1, a2, b1, b2, c1}
    Owner <- FiveOwners
    NoCap = NoCap
    Cap <- Caps
    Usages <- SmallUsages
    MaxUse <- LargestUse
    AnswersRejected = FALSE
    Modes = {"run", "threaded", "build"}
    Threads = 2
    ThreadedSearch = FALSE
INVARIANTS SpendBounded SpendingKnown ParentsFirst BlocksDescendants AllOrNothing
PROPERTIES Ends
CHECK_DEADLOCK FALSE
