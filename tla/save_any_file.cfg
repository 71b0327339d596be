SPECIFICATION Spec
CONSTANTS
  CURRENT_VERSION = 1
  InitialDisk <- MCInitialDisk
  Flags <- AllFlags
  Faults <- NoCreateFault
  Overlap = FALSE
  MutableSections <- TwoSections
  MaxValue <- MaxOfAll
  NoFile = NoFile
  BadFile = BadFile
PROPERTIES SomeImageKept LoadRestores
