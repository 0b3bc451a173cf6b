CONSTANTS
  Jobs = {j1, j2, j3}
  NoJob = NoJob
  Files = {fileA}
  Dest <- OneFile
  MaxActive = 2
  MaxBars = 2
  MaxQueue = 1
SPECIFICATION FairSpec
INVARIANTS
  OwnedOnce
  BarsMatchJobs
  OnlyWholeFilesPublished
PROPERTIES
  OnlyAgreedFilesDisplaced
  DownloadsEnd
