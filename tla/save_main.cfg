SPECIFICATION FairSpec
CONSTANTS
  CURRENT_VERSION = 3
  InitialDisk <- MCInitialDisk
  Flags <- MainFlags
  Faults <- AllFaults
  Overlap = FALSE
  MutableSections <- TwoSections
  MaxValue <- MaxOfMod
  NoFile = NoFile
  BadFile = BadFile
INVARIANTS TypeOK MainAlwaysLoadable ImagesLoadable
PROPERTIES ImplementsDurable CallsEnd SavesLand
