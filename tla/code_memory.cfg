SPECIFICATION FairSpec
CONSTANTS
  PageSize = 8
  Maps <- SomeMaps
  AddressSpace = 112
  MaxModules = 4
  SelfIdx = 2
  RwSpace <- SpareSpace
  HookJitAt = 0
  InlineJitAt = 8
  JitSize = 8
  InlinePoolSize = 8
  TrampolineSize = 8
  EntrySize = 6
  PatchOffsets = {2, 3}
  HookOffsets = {6, 9}
  MaxHooks = 2
  None = None
INVARIANTS TypeOK ModulesFound ClaimsCovered WritesLand
PROPERTIES WorkEnds
CHECK_DEADLOCK FALSE
