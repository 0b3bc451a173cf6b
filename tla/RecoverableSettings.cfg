CONSTANTS
  Loader = "settings"
  MaxGen = 4
SPECIFICATION Spec
INVARIANTS
  AckedGenerationSurvives
  RestartLoadsAcked
PROPERTIES
  ImplementsRegister
  RecoveredStateReadOnly
  RetiredOnlyAfterSuccessor
