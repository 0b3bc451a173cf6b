CONSTANTS
  Loader = "history"
  MaxGen = 3
SPECIFICATION Spec
INVARIANTS
  NoSilentReset
