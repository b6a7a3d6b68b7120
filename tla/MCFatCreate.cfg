SPECIFICATION Spec
CONSTANTS
  name1 = name1
  name2 = name2
  MaxOpen = 2
  Names = {name1, name2}
  SectorSize = 2
  SectorsPerCluster = 1
  EntriesPerSector = 4
  FatSectors = 2
  LastCluster = 6
  DirSlots = 1
  Modes = {"r", "w", "a", "r+", "w+", "a+"}
  Lengths = {1, 3}
  MaxLength = 4
  MaxCalls = 4
PROPERTY CreatedMarked
CHECK_DEADLOCK FALSE
