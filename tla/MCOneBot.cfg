SPECIFICATION PartsSpec
CONSTANTS
  Account = {A, B}
  Id = {i1}
  HubCapacity = 1
  BusCapacity = 1
  MaxSpent = 1
  Backend = {A, B}
  SelfId = {s1, s2}
  Call = {c1, c2}
  LaneCapacity = 2
  ChannelCapacity = 1
  MaxSegments = 2
  MaxHops = 1
INVARIANTS
  BotsAreTold
  DispatchIsSound
  MessagesSurvive
PROPERTIES
  RoutesSettle
  ShutdownWaitsForBotsOnly
  CallsAnswered
CHECK_DEADLOCK FALSE
