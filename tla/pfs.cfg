CONSTANTS
  NODES = 6
  SECTORS = 6
  Disks <- MCDisks
  Names = {"/", "", "..", "a", "b", "c"}
  Paths <- MCPaths
  Unset = {1, 6}
  MAX_CHANGES = 2
  MAX_FAULTS = 1
SPECIFICATION Spec
INVARIANTS TypeOK CreatedFound RootSectorIsFolder RecordsInPlace
PROPERTIES SuperblockKept
