CONSTANTS
  a = a
  b = b
  Urls = {a, b}
  MaxList = 2
  Faults = TRUE
SPECIFICATION EntitiesSpec
INVARIANT NamedEntitiesDecoded
CHECK_DEADLOCK FALSE
