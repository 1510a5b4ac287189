CONSTANTS
  NODES = 6
  NewNames = {}
  LongNames = {}
  Paths <- MCTreePaths
  Lengths = {}
  STACK_SIZE = 2
  MAX_LENGTH = 0
  MAX_WRITTEN = 0
  MAX_LEAKED = 0
SPECIFICATION FairSpec
INVARIANTS ListsSound
PROPERTIES RemovedExactly CopyExact CommandReturns
