CONSTANTS
  TIMEOUT = 2
  MAX_LBA = 268435455
  Lbas <- MCLbas
  Drives = {"disk"}
SPECIFICATION FairDriveSpec
PROPERTY WaitEnds
