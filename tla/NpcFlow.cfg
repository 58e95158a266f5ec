\* One npc, one target with one place; the target and other npcs come and go.
SPECIFICATION FairSpec
CONSTANTS
    root = root
    patrol = patrol
    fight = fight
    go = go
    pause = pause
    reach = reach
    pursue = pursue
    calm = calm
    force = force
    place = place
    None = None
    Nodes <- MCNodes
    Root <- root
    Kind <- MCKind
    Children <- MCChildren
    Decorators <- MCDecorators
    DecoType <- MCDecoType
    AbortType <- MCAbortType
    Inverse <- MCInverse
    ExcuteLimit <- MCExcuteLimit
    LimitReturn <- MCLimitReturn
    CoolTime <- MCCoolTime
    Tokens <- MCTokens
INVARIANTS RunningIsPerformed LimitHolds TokenOnce
PROPERTIES NeverBack RunningEnds ReturnEnds
