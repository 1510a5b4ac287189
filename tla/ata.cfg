CONSTANTS
  TIMEOUT = 2
  MAX_LBA = 268435455
  Lbas <- MCLbas
  Drives <- MCDrives
SPECIFICATION FairSpec
INVARIANTS TypeOK FoundMeansIdentified NoLateAnswer
PROPERTIES TransferServed BootReturns
