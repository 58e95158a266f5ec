\* Herbs, a lever and a wolf; undefined behaviour in the code stops the server.
SPECIFICATION FairSpec
CONSTANTS
    p1 = p1
    p2 = p2
    herb = herb
    lever = lever
    wolf = wolf
    Players <- MCPlayers
    Spawners <- MCSpawners
    Kind <- MCKind
    SpawnCount <- MCSpawnCount
    Transforms <- MCTransforms
    Respawn <- MCRespawn
    LifeTime <- MCLifeTime
    InitState <- MCInitState
    Duration <- MCDuration
    ControlCount <- MCControlCount
    ChargeTime <- MCChargeTime
    RemoveEmpty <- MCRemoveEmpty
    Near <- MCNear
    Commanders <- MCCommanders
    Entry <- MCEntry
    Unloaded <- MCUnloaded
INVARIANTS SpawnBudget ControlsMatch NoControlOfEmpty
PROPERTIES ControlEnds NeverExtinct
CHECK_DEADLOCK FALSE
