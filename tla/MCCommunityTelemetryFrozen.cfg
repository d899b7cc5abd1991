SPECIFICATION TelemetrySpec
CONSTANTS
  Participant = {A}
  DayLength = 2
  Capacity = 1
  MaxReports = 2
  MaxNow = 4
  MaxSpent = 3
INVARIANTS
  FrozenBuckets
CHECK_DEADLOCK FALSE
