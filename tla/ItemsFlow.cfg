SPECIFICATION Spec
CONSTANTS
    apple = apple
    sword = sword
    Infos <- MCInfos
    AccumMax <- MCAccumMax
    Start <- MCStart
    Groups <- MCGroups
    MaxId = 6
    MaxTx = 3
INVARIANTS StacksFit Balanced MemoryIsRows ClientKnows
