SPECIFICATION USpec
CONSTANTS
  newFile = newFile
  oldFile = oldFile
  New = newFile
  Old = oldFile
  MaxOpen = 2
  Names = {newFile, oldFile}
  SectorSize = 2
  SectorsPerCluster = 1
  EntriesPerSector = 4
  FatSectors = 2
  LastCluster = 7
  DirSlots = 2
  Modes = {"r", "w"}
  Lengths = {1, 3}
  MaxLength = 3
  MaxCalls = 20
  Prepared = 6
INVARIANTS NewVersionSafe 
CHECK_DEADLOCK FALSE
