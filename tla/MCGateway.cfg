SPECIFICATION FairSpec
CONSTANTS
    Default <- MCDefault
    Blank = Blank
    Malformed = Malformed
    NoApp = NoApp
    Chat = {q1, q2}
    Player <- MCPlayer
    Npc <- MCNpc
    Part <- MCPart
    MaxParts = 2
INVARIANTS
    RoutedByConfig
    RedisReleased
    SuccessOnlyOnSignal
PROPERTY FailsFast
CHECK_DEADLOCK FALSE
