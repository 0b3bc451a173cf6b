CONSTANTS
  Main = Main
  Gui = Gui
  Download = Download
  Threads = {Main, Gui, Download}
  NoThread = NoThread
  MaxDepth = 2
SPECIFICATION Spec
INVARIANTS
  LockConsistent
  NothingUsedAfterFreed
PROPERTIES
  ExitEnds
