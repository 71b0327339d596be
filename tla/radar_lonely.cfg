SPECIFICATION EncSpec
CONSTANTS
    Radius = 4
    PatchCount = 4
    Grounds <- LonelyGrounds
    Places <- MCPlaces
    NoBattle = NoBattle
CHECK_DEADLOCK FALSE
INVARIANTS OnlyMatching
