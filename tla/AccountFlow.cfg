SPECIFICATION Spec
CONSTANTS
    Users = {u}
    Nicks = {a}
    MaxPlayers = 1
    MaxChars = 2
    Slots = {0, 1}
    StartPoints = 1
    Worlds = {town, cave}
    Villages = {town}
    StartVillage = town
    MaxOrders = 2
    CharacterInfos = 1
    MaxTxs = 2
    MaxDrops = 1
INVARIANTS PlayerIsWhole NobodyTwice RowNamesVillage
PROPERTIES NoPartialRefund Reconnects
CHECK_DEADLOCK FALSE
CONSTRAINT LinkOrRequests
