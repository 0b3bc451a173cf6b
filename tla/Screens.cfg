CONSTANTS
  a1 = a1
  a2 = a2
  b1 = b1
  a = a
  b = b
  pad = pad
  Entries = {a1, a2, b1}
  Url <- MCUrl
  MaxBookmarks = 2
  Faults = TRUE
SPECIFICATION MCSpec
INVARIANTS
  TreeMatchesFavorites
  ScreensTellTruth
  PageReadsAsItsText
  FormIsSentAsLeft
  ObjectsOutliveTheirUse
  TextLooksAsMeant
  ConsoleAtRest
PROPERTIES
  StartsFromAcked
  SitesStay
  CaretFollowsKeys
  ScreensComeToRest
CHECK_DEADLOCK FALSE
