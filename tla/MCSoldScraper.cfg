SPECIFICATION FairSpec
CONSTANTS
    NumJobs = 2
    Last <- MCLast
    Reporting <- MCReporting
    NumTabs = 2
    Concurrency = 2
    MaxDispatchers = 2
    MaxCommands = 2
    MaxTroubles = 1
INVARIANTS
    RunningHasDispatcher
    
PROPERTIES
    RunEnds
CHECK_DEADLOCK FALSE
