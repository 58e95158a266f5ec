SPECIFICATION Spec
CONSTANTS
    greet = greet
    wave = wave
    fetch = fetch
    talk = talk
    deliver = deliver
    apple = apple
    NoQuest = NoQuest
    Quests <- MCQuests
    Items <- MCItems
    PrevQuest <- MCPrevQuest
    Conditions <- MCConditions
    AutoStart <- MCAutoStart
    Rewards <- MCRewards
    MaxItems = 2
    MaxCount = 1
    Commanded <- MCCommanded
    MaxCommands = 1
INVARIANTS RewardedOnce MemoryIsRows PrevFirst FollowersListed ListensExactly
