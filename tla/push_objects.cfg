SPECIFICATION FairSpec
CONSTANTS
  Ogi <- Objects
  Start <- Places
  Rails <- TwoRails
  Stoppers <- TwoStoppers
  Obstacles <- OneObstacle
  ZoneSize = 4
  PushTime = 3
  DeltaTimes = {2}
  Nowhere = Nowhere
  Pads <- SomePads
INVARIANTS TypeOK BagsOnRails RestsAtEnd BreaksTiresAhead
PROPERTIES HeldLongEnough PushesEnd
