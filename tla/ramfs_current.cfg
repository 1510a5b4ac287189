CONSTANTS
  NODES = 3
  NewNames = {}
  LongNames = {}
  Paths <- MCPaths
  Lengths = {}
  STACK_SIZE = 2
  MAX_LENGTH = 0
  MAX_WRITTEN = 0
  MAX_LEAKED = 0
SPECIFICATION Spec
INVARIANTS CurrentExists
