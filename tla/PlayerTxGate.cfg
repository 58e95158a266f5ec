SPECIFICATION FairSpec
CONSTANTS
    bag = bag
    quest = quest
    Objects <- MCObjects
    NUsers = 1
    Capacity = 2
    MaxRequests = 3
    Cheats = FALSE
INVARIANT NoLostUpdate
PROPERTIES GateReopens
CHECK_DEADLOCK FALSE
