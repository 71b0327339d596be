SPECIFICATION Spec
CONSTANTS
  Commands <- InstantJump
  DeltaTimes = {1, 2}
  Second = 3
  EngineClears = FALSE
  Stepper = FALSE
  MaxCommands = 1
  None = None
PROPERTIES InstantRotation
