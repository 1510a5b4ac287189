CONSTANTS
  WIDTH = 2
  HEIGHT = 2
  MAPPED = 100000
  BUFFER = 3
  MAX_COLUMN = 2
  Chars = {"a"}
  Welcome <- MCWelcome
  Prompt <- MCPrompt
  Outputs <- MCOutputs
SPECIFICATION Spec
INVARIANTS TypeOK EchoMatches
PROPERTIES LineGiven OnlyEraseLeavesGrid
