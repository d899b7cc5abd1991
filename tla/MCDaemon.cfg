SPECIFICATION DaemonSpec
CONSTANTS
  A = A
  B = B
  Account = {A, B}
  Installed <- FallbackAndPublic
  Admissions <- WithAndWithoutGrant
  Events <- Revocation
  Clock = {0, 1}
  MaxBoots = 3
  MaxStored = 2
  Participant = {A, B}
  DayLength = 2
  Capacity = 1
  MaxReports = 2
  MaxNow = 4
  MaxSpent = 2
INVARIANTS
  SessionsAreSound
  EndsAreRecorded
  ReportsAreSound
PROPERTIES
  DaysReported
CHECK_DEADLOCK FALSE
