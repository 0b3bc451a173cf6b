CONSTANTS
  Urls = {a, b}
  MaxList = 2
  Faults = FALSE
SPECIFICATION Spec
PROPERTY
  PromptTellsTruth
