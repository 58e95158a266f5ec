\* The default sync type, objects with an owner: the unit-of-work promise.
SPECIFICATION Spec
CONSTANTS
    m1 = m1
    m2 = m2
    o1 = o1
    o2 = o2
    noRoom = noRoom
    Managers <- MCManagers
    NoManager = noRoom
    Sources <- MCSourcesInRooms
    Objects <- MCObjects
    SyncTypes <- MCDefault
    MaxTasks = 1
INVARIANTS TypeOK AllOrNothing SuccessIsTrue MemoryFollowsRows
PROPERTIES ImplementsUnitOfWork
CHECK_DEADLOCK FALSE
