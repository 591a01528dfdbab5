\* Two erase blocks of three cells to a bank; revisions wrap after eight saves.
CONSTANTS
  AreaSize = 6
  EraseSize = 3
  Db <- Databases
  Defaults <- Short
  BufSize = 3
  RevMod = 8
  FlashErrors = TRUE
SPECIFICATION Spec
PROPERTY DatabaseKept
