SPECIFICATION EncFairSpec
CONSTANTS
    Radius = 4
    PatchCount = 4
    Grounds <- MCGrounds
    Places <- MCPlaces
    NoBattle = NoBattle
CHECK_DEADLOCK FALSE
INVARIANTS SwayTyped PatchesFit NobodyDisplaced PatchPays
PROPERTIES LotteryEnds
