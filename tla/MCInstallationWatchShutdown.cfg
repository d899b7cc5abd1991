SPECIFICATION FairWatchSpec
CONSTANTS
  Capacity = 1
  MaxCursor = 3
PROPERTIES
  ShutdownStops
CHECK_DEADLOCK FALSE
