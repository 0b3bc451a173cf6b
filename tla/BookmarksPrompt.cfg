CONSTANTS
  a1 = a1
  a2 = a2
  b1 = b1
  a = a
  b = b
  pad = pad
  Entries = {a1, a2, b1}
  Url <- MCUrl
  MaxBookmarks = 2
  Faults = FALSE
SPECIFICATION MCSpec
PROPERTY
  RecoveryPromptTellsTruth
CHECK_DEADLOCK FALSE
