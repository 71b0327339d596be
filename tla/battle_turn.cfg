CONSTANTS
    a1 = a1  a2 = a2  b1 = b1  b2 = b2
    Pokes <- MCPokes
    Team <- MCTeam
    Immune <- MCImmune
    Heavy = {b1}
    Scenarios <- MCScenarios
    NoPoke = NoPoke
    NoSpot = NoSpot
    WeatherMoves <- MCWeatherMoves
    RankCap = 1
    MaxHp = 4
    SchoolLevel = 20
SPECIFICATION FairSpec
CHECK_DEADLOCK FALSE
INVARIANTS BattleTyped ActsOnce LastingMovesHold
PROPERTIES LeavesFairly StruckOnItsWay FormFollows TurnEnds
