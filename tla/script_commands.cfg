SPECIFICATION FairSpec
CONSTANTS
  Commands <- AllCommands
  DeltaTimes = {1, 2}
  Second = 3
  EngineClears = TRUE
  Stepper = TRUE
  MaxCommands = 3
  None = None
INVARIANTS TypeOK StaysOnWay
PROPERTIES ImplementsSteps EndsAtRest StepperExact ScriptsEnd
