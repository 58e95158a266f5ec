\* Every sync type, owners that may be in no room, and progress.
SPECIFICATION FairSpec
CONSTANTS
    m1 = m1
    m2 = m2
    o1 = o1
    o2 = o2
    noRoom = noRoom
    Managers <- MCManagers
    NoManager = noRoom
    Sources <- MCSources
    Objects <- MCOneObject
    SyncTypes <- MCAll
    MaxTasks = 1
INVARIANTS FailureIsClean BusyUntilSettled
PROPERTIES EveryoneIsAnswered
CHECK_DEADLOCK FALSE
