\* Images that fit their area.
CONSTANTS
  Files <- Images
  Base <- Bases
  AreaSize = 4
  EraseSize = 2
  Flag = 8
  MemSize = 10
  ChunkLen = {3}
  MaxSize = 3
  MaxFaults = 1
SPECIFICATION Spec
INVARIANT TypeOK
INVARIANT WrittenIsStored
INVARIANT InstalledSurvives
PROPERTY FlagMeansComplete
