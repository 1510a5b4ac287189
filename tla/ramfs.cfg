CONSTANTS
  NODES = 3
  NewNames <- MCNewNames
  LongNames <- MCLongNames
  Paths <- MCPaths
  Lengths = {1, 2}
  STACK_SIZE = 2
  MAX_LENGTH = 2
  MAX_WRITTEN = 1
  MAX_LEAKED = 1
SPECIFICATION Spec
INVARIANTS TypeOK ContentSized PathLeadsBack
PROPERTIES OnlyFailureMisstates OnlyRenameDuplicates
