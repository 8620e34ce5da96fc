SPECIFICATION HostSpec
CONSTANTS
    MaxCommands = 2
    Kinds <- Asks
    SelfManage = TRUE
    MaxJobs = 2
    Slots = 2
    Calls = {1, 2}
    Watched = 1
    Scenarios <- MCScenarios
CHECK_DEADLOCK FALSE
INVARIANTS
    HostTypeOK
    AcceptedIsKept
    TakesEffectOnce
    StuckWasForsaken
    DeliveredIsReady
    AcknowledgedHasEnded
    StrandedWasCutOff
PROPERTIES
    HostLifecycle
    FinishedStaysFinished
    CommandsEnd
    QueuedIsTakenUp
    PageSettles
