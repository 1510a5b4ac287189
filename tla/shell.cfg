CONSTANTS
  MAX_CMD_LENGTH = 3
  MAX_ARGS_LENGTH = 7
  MAX_ARGS = 3
  MAX_ARG_LENGTH = 3
  INT_MAX = 127
  BUFFER = 5
  Lines <- MCLines
  Numbers <- MCNumbers
CHECK_DEADLOCK FALSE
SPECIFICATION FairSpec
INVARIANTS TypeOK TokensAgree MissingQuoteTold DigitsTell
PROPERTIES LineServed
