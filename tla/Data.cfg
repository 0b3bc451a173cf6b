CONSTANTS
  a = a
  b = b
  Urls = {a, b}
  MaxList = 2
  Faults = TRUE
SPECIFICATION MCSpec
INVARIANTS
  StateIsSound
  AnswersAreTheLast
  MarkupIsCovered
  TextsKeepTheirMeaning
  PathsLeadSomewhere
PROPERTIES
  CleanExitTellsTruth
  NewSessionLeavesNoTrace
  RestoredIsPrevious
  ImplementsTrail
  KeptDataIsFound
CHECK_DEADLOCK FALSE
