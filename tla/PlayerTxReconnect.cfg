SPECIFICATION Spec
CONSTANTS
    bag = bag
    quest = quest
    Objects <- MCOneObject
    NUsers = 2
    Capacity = 1
    MaxRequests = 2
    Cheats = FALSE
INVARIANTS NoLostUpdate
CHECK_DEADLOCK FALSE
