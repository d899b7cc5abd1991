SPECIFICATION FairSpec
CONSTANTS
  A = A
  Account = {A}
  Installed <- OnlyFull
  Admissions <- OneAdmission
  Events <- Revocation
  Clock = {0}
  MaxBoots = 1
  MaxStored = 1
PROPERTIES
  RestartHappens
CHECK_DEADLOCK FALSE
