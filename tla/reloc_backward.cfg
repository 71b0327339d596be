SPECIFICATION Spec
CONSTANTS
  Places <- LoopPlaces
  Kinds <- Trampolines
  Code <- BackwardCode
  Half <- MCHalf
  Wrap = 65536
  PageSize = 64
  RwDelta = 100000
INVARIANTS BackwardBranchKept
CHECK_DEADLOCK FALSE
