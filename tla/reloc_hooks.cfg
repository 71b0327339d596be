SPECIFICATION Spec
CONSTANTS
  Places <- AllPlaces
  Kinds <- AllKinds
  Code <- AllCode
  Half <- MCHalf
  Wrap = 65536
  PageSize = 64
  RwDelta = 100000
INVARIANTS TypeOK HookFits RunsLikeOriginal
CHECK_DEADLOCK FALSE
