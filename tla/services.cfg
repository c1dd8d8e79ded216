SPECIFICATION Spec
CONSTANTS
    Requests = {1, 2}
    Chunks = {1, 2}
    Linked = {1}
    MaxConcurrency = 1
    MaxPerMinute = 1
    Minute = 2
    Timeout = 1
    Worlds <- MCWorlds
    MaxFailures = 2
    Calls <- MCCalls
    PerRequest = 2
    Docs = {"d1", "d2"}
    Texts <- MCTexts
    References <- MCReferences
    LinkOptions <- MCLinkOptions
    MaxEdits = 2
    MaxDeaths = 1
    Configs <- MCConfigs
    Records = {"p", "q"}
    MaxReconfigs = 2
    MaxCrashes = 2
    Trainers = {"p", "q"}
    Fitted = {"a", "b"}
    MaxTrainings = 2
    MaxFaults = 2
INVARIANTS ServerSound StateSurvives CallsAccounted ChildrenFollowState AnswersAsConfigured ArtifactsPaired
PROPERTIES StampOnlyExtends SubjectsSettle
CHECK_DEADLOCK FALSE
